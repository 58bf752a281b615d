------------------------------ MODULE CoreRpc -------------------------------
(***************************************************************************)
(* The two cores of nrf53_ble/otherExamples, in the configuration that is  *)
(* built (CONFIG_RPC_REMOTE_API): the network core runs Bluetooth, the     *)
(* application core a UART, an SMP server and a test thread.  Each calls   *)
(* the other through nRF RPC: the caller waits until a thread of the other *)
(* core's pool has run the command and answered.  The Bluetooth receive    *)
(* thread calls as well: while it waits no other event is handled.         *)
(*                                                                         *)
(* A thread that waits for an answer is at the name of its command.        *)
(***************************************************************************)
EXTENDS Naturals

CONSTANTS Heap,      \* UART buffers that fit into the heap (12288 bytes)
          TxBufs,    \* CONFIG_BT_L2CAP_TX_BUF_COUNT
          SmpBufs    \* CONFIG_MCUMGR_BUF_COUNT

VARIABLE rpc

Senders == {"uart", "pool"}   \* the threads that call my_uart_send

Init == rpc =
  [main |-> "init", adv |-> FALSE, current_conn |-> FALSE, rx |-> "idle",
   notify |-> 0, ble_conn_ok |-> FALSE, int |-> TRUE, nus_op |-> "wait",
   bt_addr |-> FALSE, m_connected |-> FALSE, smp |-> "idle", requests |-> 0,
   thread1 |-> "wait",
   uart |-> "get", fifo_rx |-> 0, fifo_tx |-> 0, tx |-> FALSE,
   refused |-> {}, fault |-> FALSE]

Bool(b) == IF b THEN 1 ELSE 0

Free == Heap - (rpc.fifo_rx + Bool(rpc.uart # "get") + rpc.fifo_tx + Bool(rpc.tx)
                + Bool("uart" \in rpc.refused) + Bool("pool" \in rpc.refused))
-----------------------------------------------------------------------------
(* The network core.                                                        *)

\* main(): errors end it, except that of the advertiser; then the address is sent.
main_net ==
  /\ rpc.main = "init"
  /\ \/ rpc' = [rpc EXCEPT !.main = "returned"]
     \/ \E adv \in BOOLEAN : rpc' = [rpc EXCEPT !.main = "addr", !.adv = adv]

\* The receive thread tells the application core; the stack has stopped advertising.
connected ==
  /\ rpc.rx = "idle" /\ rpc.adv /\ ~rpc.current_conn
  /\ rpc' = [rpc EXCEPT !.current_conn = TRUE, !.adv = FALSE, !.ble_conn_ok = TRUE,
                        !.rx = "up"]

\* Mutant: the application core is not told.
disconnected_silent ==
  /\ rpc.rx = "idle" /\ rpc.current_conn
  /\ rpc' = [rpc EXCEPT !.current_conn = FALSE, !.adv = TRUE, !.notify = 0]

\* The stack advertises again by itself and frees its buffers.
disconnected ==
  /\ rpc.rx = "idle" /\ rpc.current_conn
  /\ rpc' = [rpc EXCEPT !.current_conn = FALSE, !.adv = TRUE, !.notify = 0,
                        !.rx = "down"]

\* A write to the NUS or to the SMP characteristic.
bt_nus_receive_cb ==
  rpc.rx = "idle" /\ rpc.current_conn /\ rpc' = [rpc EXCEPT !.rx = "nus"]
smp_bt_chr_write ==
  rpc.rx = "idle" /\ rpc.current_conn /\ rpc' = [rpc EXCEPT !.rx = "smp"]

\* What bt_nus_send and bt_gatt_notify make of r: refused without a link, and otherwise
\* they wait for a buffer.
Notify(r) == IF ~rpc.current_conn THEN {r}
             ELSE IF rpc.notify < TxBufs THEN {[r EXCEPT !.notify = @ + 1]} ELSE {}

\* External: the controller has sent a packet.
notified == rpc.notify > 0 /\ rpc' = [rpc EXCEPT !.notify = @ - 1]

\* The external interrupt disables itself; the thread sends and enables it again.
ext_int_isr ==
  rpc.int /\ rpc' = [rpc EXCEPT !.int = FALSE, !.nus_op = "given"]

ble_write_thread ==
  /\ rpc.ble_conn_ok /\ rpc.nus_op = "given"
  /\ rpc' \in Notify([rpc EXCEPT !.nus_op = "wait", !.int = TRUE])

Net == \/ main_net \/ connected \/ disconnected \/ bt_nus_receive_cb
       \/ smp_bt_chr_write \/ ext_int_isr
-----------------------------------------------------------------------------
(* Commands of the application core, run by the network core's pool.        *)

\* rpc_app2net_send: a NUS packet of uart_thread or of rpc_thread1.
rpc_app2net_send ==
  \/ rpc.uart = "nus" /\ rpc' \in Notify([rpc EXCEPT !.uart = "send"])
  \/ rpc.thread1 = "nus" /\ rpc' \in Notify([rpc EXCEPT !.thread1 = "sleep"])

\* Answered at once.  (Without a connection the subtraction of the header wraps around,
\* and the response is sent in one piece, which is then refused.)
rpc_net_bt_smp_get_mtu == rpc.smp = "mtu" /\ rpc' = [rpc EXCEPT !.smp = "send"]

\* smp_rpc_tx_pkt frees the buffer after the call.
rpc_net_bt_smp_send ==
  /\ rpc.smp = "send"
  /\ rpc' \in Notify([rpc EXCEPT !.smp = "idle", !.requests = @ - 1])

NetPool == rpc_app2net_send \/ rpc_net_bt_smp_get_mtu \/ rpc_net_bt_smp_send
-----------------------------------------------------------------------------
(* Commands of the network core, run by the application core's pool.        *)

net2app_receive_bt_addr ==
  rpc.main = "addr" /\ rpc' = [rpc EXCEPT !.bt_addr = TRUE, !.main = "done"]

\* Mutant: no answer to the loss of a connection.
net2app_receive_conn_status_mute ==
  /\ rpc.rx \in {"up", "down"}
  /\ rpc' = [rpc EXCEPT !.m_connected = (rpc.rx = "up"),
                        !.rx = IF @ = "up" THEN "idle" ELSE @]

net2app_receive_conn_status ==
  /\ rpc.rx \in {"up", "down"}
  /\ rpc' = [rpc EXCEPT !.m_connected = (rpc.rx = "up"), !.rx = "idle"]

\* my_uart_send of thread s, which then goes on as in r: a busy UART refuses, the
\* buffer is put into the fifo in a second step.
my_uart_send(s, r) ==
  IF Free = 0 THEN rpc' = r                                   \* dropped
  ELSE IF rpc.tx THEN rpc' = [rpc EXCEPT !.refused = @ \cup {s}]
  ELSE rpc' = [r EXCEPT !.tx = TRUE]

my_uart_send_put(s, r) == s \in rpc.refused
                          /\ rpc' = [r EXCEPT !.fifo_tx = @ + 1, !.refused = @ \ {s}]

net2app_receive_nus ==
  LET answered == [rpc EXCEPT !.rx = "idle"]
  IN /\ rpc.rx = "nus"
     /\ \/ "pool" \notin rpc.refused /\ my_uart_send("pool", answered)
        \/ my_uart_send_put("pool", answered)

\* A request without a free buffer is dropped; the answer is an error nobody reads.
rpc_app_bt_smp_receive_cb ==
  /\ rpc.rx = "smp"
  /\ rpc' = [rpc EXCEPT !.rx = "idle",
                        !.requests = IF @ < SmpBufs THEN @ + 1 ELSE @]

RxCommand == \/ net2app_receive_conn_status \/ net2app_receive_nus
             \/ rpc_app_bt_smp_receive_cb

AppPool == net2app_receive_bt_addr \/ RxCommand
-----------------------------------------------------------------------------
(* The threads of the application core.                                     *)

\* The SMP server handles a request: smp_rpc_get_mtu, then smp_rpc_tx_pkt.
smp_rx_req ==
  rpc.smp = "idle" /\ rpc.requests > 0 /\ rpc' = [rpc EXCEPT !.smp = "mtu"]

\* Button 1 starts the thread, which then sends every two seconds.
rpc_thread1 ==
  \/ rpc.thread1 = "wait" /\ rpc' = [rpc EXCEPT !.thread1 = "nus"]
  \/ rpc.thread1 = "sleep" /\ rpc' = [rpc EXCEPT !.thread1 = "nus"]

\* UART_RX_RDY: the result of k_malloc is not checked.
uart_rx_rdy ==
  rpc' = IF Free = 0 THEN [rpc EXCEPT !.fault = TRUE] ELSE [rpc EXCEPT !.fifo_rx = @ + 1]

\* Mutant: only the buffer that was sent is freed.
uart_tx_done_only == rpc.tx /\ rpc' = [rpc EXCEPT !.tx = FALSE]

\* UART_TX_DONE: the next buffer, if there is one.
uart_tx_done ==
  /\ rpc.tx
  /\ rpc' = IF rpc.fifo_tx = 0 THEN [rpc EXCEPT !.tx = FALSE]
                               ELSE [rpc EXCEPT !.fifo_tx = @ - 1]

\* uart_thread: to the peer if there is one, and back to the UART.
uart_thread_get ==
  /\ rpc.uart = "get" /\ rpc.fifo_rx > 0
  /\ rpc' = [rpc EXCEPT !.fifo_rx = @ - 1, !.uart = IF rpc.m_connected THEN "nus" ELSE "send"]

uart_thread_send ==
  LET done == [rpc EXCEPT !.uart = "get"]
  IN /\ rpc.uart = "send"
     /\ \/ "uart" \notin rpc.refused /\ my_uart_send("uart", done)
        \/ my_uart_send_put("uart", done)

uart_thread == uart_thread_get \/ uart_thread_send

Next == /\ ~rpc.fault
        /\ \/ Net \/ notified \/ ble_write_thread \/ NetPool \/ AppPool
           \/ smp_rx_req \/ rpc_thread1 \/ uart_rx_rdy \/ uart_tx_done \/ uart_thread
-----------------------------------------------------------------------------
TypeOK == rpc \in
  [main : {"init", "addr", "done", "returned"}, adv : BOOLEAN, current_conn : BOOLEAN,
   rx : {"idle", "up", "down", "nus", "smp"}, notify : 0 .. TxBufs,
   ble_conn_ok : BOOLEAN, int : BOOLEAN, nus_op : {"wait", "given"},
   bt_addr : BOOLEAN, m_connected : BOOLEAN, smp : {"idle", "mtu", "send"},
   requests : 0 .. SmpBufs, thread1 : {"wait", "nus", "sleep"}, uart : {"get", "nus", "send"}, fifo_rx : 0 .. Heap, fifo_tx : 0 .. Heap, tx : BOOLEAN, refused : SUBSET Senders,
   fault : BOOLEAN]

\* The application core knows whether there is a connection, as soon as the receive
\* thread has its answer: reports do not overtake each other.
AppKnowsLink == rpc.rx \notin {"up", "down"} => rpc.m_connected = rpc.current_conn

\* An idle UART leaves at most one buffer of each thread behind that lost the race
\* between the refusal and the end of the transmission.
StrandedBounded == ~rpc.tx => rpc.fifo_tx <= 2

\* The receive thread never waits for good: calls in both directions do not block each
\* other, and every report, packet and request it hands over is answered: from
\* CallPending it gets to CallReturned.
CallPending == rpc.rx # "idle"
CallReturned == rpc.rx = "idle" \/ rpc.fault
=============================================================================
