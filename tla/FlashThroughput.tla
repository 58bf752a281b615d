-------------------------- MODULE FlashThroughput ---------------------------
(***************************************************************************)
(* Throughput with flash writes (nrf53_ble/throughput_with_flash_write).   *)
(* Two boards run the same network core program: button 1 makes the tester,*)
(* which scans, discovers the service and runs the test on a shell command;*)
(* button 2 makes the peer, which advertises.  The peer's network core     *)
(* hands every block to its application core through shared memory (vring),*)
(* and waits for an acknowledgement; the application core writes the block *)
(* to flash and acknowledges it.                                           *)
(*                                                                         *)
(* On the application core endpoint_cb runs in a cooperative work queue of *)
(* a higher priority than app_task: it runs only while app_task waits for  *)
(* its semaphore, and then takes everything the vring holds.               *)
(***************************************************************************)
EXTENDS Naturals, Sequences

CONSTANTS Last,        \* blocks 0 (reset of the metrics) .. Last (the short one)
          MaxLosses    \* bound: losses of the link

VARIABLE thr

Boards == {"tester", "peer"}

Off == [b \in Boards |-> FALSE]

Init == thr =
  [role |-> Off, search |-> Off, failed |-> Off,          \* scanning or advertising
   link |-> FALSE, conn |-> [b \in Boards |-> "none"], default_conn |-> Off, losses |-> 0,
   dm |-> "none", test_ready |-> FALSE, throughput_conn |-> FALSE,
   run |-> "idle", differs |-> {"len"}, data_length_req |-> FALSE,
   throughput_sem |-> 0, next |-> 0, air |-> <<>>, write_count |-> 0, fault |-> FALSE,
   sent |-> <<>>, net |-> "idle", data_rx_sem |-> 0, vring |-> <<>>,
   app |-> "binding", received_data |-> 0, app_sem |-> 0, written |-> <<>>]

Give(sem) == 1   \* k_sem_give of a semaphore whose limit is 1

\* scan_start and adv_start: an error is only printed.
Search(t, b) == {[t EXCEPT !.search[b] = TRUE], [t EXCEPT !.failed[b] = TRUE]}
-----------------------------------------------------------------------------
(* The network cores: roles and link.                                       *)

\* The first press chooses the role, then the handler is removed.
button_handler_cb == \E b \in Boards :
  ~thr.role[b] /\ thr' \in Search([thr EXCEPT !.role[b] = TRUE], b)

\* External: the tester finds the peer; both stop searching.
establish ==
  /\ thr.search["tester"] /\ thr.search["peer"]
  /\ thr' = [thr EXCEPT !.search = Off, !.link = TRUE,
                        !.conn = [b \in Boards |-> "new"]]

\* The connection cannot be created, or fails: only printed, the scanner is off.
scan_connecting_error ==
  thr.search["tester"] /\ thr' = [thr EXCEPT !.search["tester"] = FALSE,
                                            !.failed["tester"] = TRUE]

\* The tester begins to discover; bt_gatt_dm_start may refuse.
connected == \E b \in Boards :
  /\ thr.conn[b] = "new" /\ ~thr.default_conn[b]
  /\ \E dm \in IF b = "tester" THEN {"discover", "none"} ELSE {thr.dm} :
       thr' = [thr EXCEPT !.conn[b] = "up", !.default_conn[b] = TRUE, !.dm = dm]

\* The handles and the connection are stored, the exchange of the MTU begins.
discovery_complete ==
  /\ thr.dm = "discover" /\ thr.link
  /\ \E dm \in {"mtu", "none"} :
       thr' = [thr EXCEPT !.throughput_conn = TRUE, !.dm = dm]

discovery_service_not_found == thr.dm = "discover" /\ thr' = [thr EXCEPT !.dm = "none"]

\* Ready whether or not the exchange succeeded.
exchange_func ==
  thr.dm = "mtu" /\ thr' = [thr EXCEPT !.dm = "none", !.test_ready = TRUE]

\* External: what was on its way is lost with the link.
link_lost ==
  /\ thr.link /\ thr.losses < MaxLosses
  /\ thr' = [thr EXCEPT !.link = FALSE, !.losses = @ + 1, !.air = <<>>,
                        !.throughput_conn = FALSE]

\* Mutant: the peer does not advertise again.
disconnected_quiet == \E b \in Boards :
  /\ thr.conn[b] = "up" /\ ~thr.link
  /\ thr.net = "idle" \/ b = "tester"
  /\ thr' = [thr EXCEPT !.conn[b] = "none", !.default_conn[b] = FALSE,
                        !.search[b] = (b = "tester"),
                        !.dm = IF b = "tester" THEN "none" ELSE @,
                        !.test_ready = IF b = "tester" THEN FALSE ELSE @]

\* Runs in the receive thread, as throughput_received does: not while that one waits.
disconnected == \E b \in Boards :
  /\ thr.conn[b] = "up" /\ ~thr.link
  /\ thr.net = "idle" \/ b = "tester"
  /\ thr' \in Search([thr EXCEPT
       !.conn[b] = "none", !.default_conn[b] = FALSE,
       !.dm = IF b = "tester" THEN "none" ELSE @,
       !.test_ready = IF b = "tester" THEN FALSE ELSE @], b)

Link == \/ button_handler_cb \/ establish \/ scan_connecting_error \/ connected
        \/ discovery_complete \/ discovery_service_not_found \/ exchange_func
        \/ link_lost \/ disconnected
-----------------------------------------------------------------------------
(* The tester: the shell thread.                                            *)

At(pc) == thr.run = pc /\ ~thr.fault
Goto(pc) == thr' = [thr EXCEPT !.run = pc]
Returns == Goto("idle")

\* data_len_cmd and conn_interval_cmd: whether the values differ from the link's.
config == At("idle") /\ \E d \in SUBSET {"len", "interval"} : thr' = [thr EXCEPT !.differs = d]

\* bt_conn_get_info reads default_conn, which test_run has found not to be NULL.
test_run ==
  /\ At("idle") /\ thr.next = 0 /\ thr.default_conn["tester"] /\ thr.test_ready
  /\ Goto("phy")

\* A request on default_conn, which disconnected() may have cleared in the meantime.
Request(from, to) ==
  /\ At(from)
  /\ IF thr.default_conn["tester"]
       THEN \/ thr' = [thr EXCEPT !.run = to,
                                  !.data_length_req = IF from = "len" THEN TRUE ELSE @]
            \/ Returns
       ELSE thr' = [thr EXCEPT !.fault = TRUE]

\* The wait for an update: any update ends it, or 20 seconds.
Wait(from, to) ==
  /\ At(from)
  /\ \/ thr.throughput_sem = 1 /\ thr' = [thr EXCEPT !.throughput_sem = 0, !.run = to]
     \/ thr.throughput_sem = 0 /\ Returns

Skip(from, what, to) == At(from) /\ what \notin thr.differs /\ Goto(to)

connection_configuration_set ==
  \/ Request("phy", "phy_wait") \/ Wait("phy_wait", "len")
  \/ "len" \in thr.differs /\ Request("len", "len_wait")
  \/ Skip("len", "len", "interval") \/ Wait("len_wait", "interval")
  \/ "interval" \in thr.differs /\ Request("interval", "interval_wait")
  \/ Skip("interval", "interval", "write") \/ Wait("interval_wait", "write")

\* le_phy_updated and le_param_updated, asked for or not.
le_param_updated ==
  thr.conn["tester"] = "up" /\ thr.link
  /\ thr' = [thr EXCEPT !.throughput_sem = Give(@)]

le_data_length_updated ==
  /\ thr.conn["tester"] = "up" /\ thr.link /\ thr.data_length_req
  /\ thr' = [thr EXCEPT !.data_length_req = FALSE, !.throughput_sem = Give(@),
                        !.differs = @ \ {"len"}]

\* Blocks without a response.  A refused reset ends the test, a refused block the loop;
\* the last one is tried in any case, and then the metrics are read.
test_write ==
  /\ At("write")
  /\ \/ /\ thr.throughput_conn /\ thr.link
        /\ thr' = [thr EXCEPT !.air = Append(@, thr.next), !.next = @ + 1,
                              !.run = IF thr.next = Last THEN "read" ELSE @]
     \/ /\ ~thr.link \/ ~thr.throughput_conn
        /\ IF thr.next = 0 THEN Returns
           ELSE thr' = [thr EXCEPT !.next = Last,
                                   !.run = IF thr.next = Last THEN "read" ELSE @]

\* bt_throughput_read.
test_read == At("read") /\ (Returns \/ (thr.throughput_conn /\ Goto("result")))

\* throughput_read: the answer, which comes after the blocks.
throughput_read ==
  /\ At("result") /\ thr.link /\ thr.air = <<>> /\ thr.net = "idle"
  /\ thr' = [thr EXCEPT !.throughput_sem = Give(@)]

test_end == At("result") /\ Returns    \* whether the semaphore was given or not

Shell == \/ config \/ test_run \/ connection_configuration_set \/ le_param_updated
         \/ le_data_length_updated \/ test_write \/ test_read \/ throughput_read \/ test_end
-----------------------------------------------------------------------------
(* The peer: its receive thread and its application core.                   *)

\* throughput.c: the metrics, and throughput_received sends the block.
write_callback ==
  /\ thr.net = "idle" /\ thr.air # <<>> /\ thr.default_conn["peer"]
  /\ thr' = [thr EXCEPT !.air = Tail(@), !.vring = Append(@, Head(thr.air)),
                        !.sent = Append(@, Head(thr.air)), !.net = "receive",
                        !.write_count = IF Head(thr.air) = 0 THEN 0 ELSE @ + 1]

\* Mutant: the acknowledgement is not waited for.
receive_message_not == thr.net = "receive" /\ thr' = [thr EXCEPT !.net = "idle"]

receive_message ==
  /\ thr.net = "receive" /\ thr.data_rx_sem = 1
  /\ thr' = [thr EXCEPT !.data_rx_sem = 0, !.net = "idle"]

\* send_message of app_task, and endpoint_cb of the network core.
Ack(t) == [t EXCEPT !.data_rx_sem = Give(@)]

\* app_task: bound, a first message, and the first wait.
app_bound ==
  /\ thr.app = "binding"
  /\ thr' = [Ack(thr) EXCEPT !.app = IF thr.app_sem = 1 THEN "again" ELSE "wait",
                             !.app_sem = 0]

\* The block is copied and the semaphore given: to app_task if it waits.  Before that
\* task starts the flash is erased by main(), which can be preempted.
endpoint_cb ==
  /\ thr.app \in {"binding", "wait", "ready"} /\ thr.vring # <<>>
  /\ thr' = [thr EXCEPT !.received_data = Head(thr.vring), !.vring = Tail(@),
                        !.app = IF @ = "wait" THEN "ready" ELSE @,
                        !.app_sem = IF thr.app = "wait" THEN @ ELSE Give(@)]

\* stream_flash_buffered_write; its error is only printed.
app_write ==
  /\ \/ thr.app = "ready" /\ thr.vring = <<>>
     \/ thr.app = "again"
  /\ thr' = [thr EXCEPT !.written = Append(@, thr.received_data),
                        !.app = IF thr.received_data = Last THEN "ended" ELSE "ack"]

\* The acknowledgement, and the next wait.
app_ack ==
  /\ thr.app = "ack"
  /\ thr' = [Ack(thr) EXCEPT !.app = IF thr.app_sem = 1 THEN "again" ELSE "wait",
                             !.app_sem = 0]

app_task == app_bound \/ app_write \/ app_ack

Peer == write_callback \/ receive_message \/ endpoint_cb \/ app_task

Next == Link \/ Shell \/ Peer

\* The two boards alone.
Spec == Init /\ [][Next]_thr
-----------------------------------------------------------------------------
TypeOK ==
  /\ thr.run \in {"idle", "phy", "phy_wait", "len", "len_wait", "interval",
                  "interval_wait", "write", "read", "result"}
  /\ thr.app \in {"binding", "wait", "ready", "ack", "again", "ended"}
  /\ thr.net \in {"idle", "receive"} /\ thr.dm \in {"none", "discover", "mtu"}
  /\ {thr.throughput_sem, thr.data_rx_sem, thr.app_sem} \subseteq 0 .. 1
  /\ {thr.air, thr.vring, thr.sent, thr.written} \subseteq Seq(0 .. Last)
  /\ thr.conn \in [Boards -> {"none", "new", "up"}] /\ thr.losses \in 0 .. MaxLosses

\* A board that has chosen its role searches, is connected, or something refused.
LinkKept == \A b \in Boards :
  thr.role[b] => thr.search[b] \/ thr.conn[b] # "none" \/ thr.failed[b]

\* At most two blocks are on the application core and not yet acknowledged: the one it
\* works on and, because of the message it sends first, one more.
WindowOfTwo == Len(thr.sent) <= Len(thr.written) + 2

\* README.rst: the acknowledgement keeps the network core from putting more data into
\* the application core while that one is busy, "so the overrun won't happen".  Then the
\* flash holds the blocks that were handed over, in their order.
NoOverrun == \A i \in 1 .. Len(thr.written) :
  i <= Len(thr.sent) /\ thr.written[i] = thr.sent[i]
=============================================================================
