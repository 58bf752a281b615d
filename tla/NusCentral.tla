----------------------------- MODULE NusCentral -----------------------------
(***************************************************************************)
(* The centrals of the Nordic UART service:                                *)
(*   discover     ble_uart/v1.5.1/central_uart: discovery after pairing    *)
(*   fixed        ble_uart/v1.6.0/central_uart: fixed handles              *)
(*   throughput   throughput_nus/central_uart_throughput: a button starts  *)
(*                a burst of writes without response                       *)
(* Connection callbacks run in the Bluetooth thread, uart_cb in the        *)
(* interrupt, the writing thread waits for a full receive buffer, hands it *)
(* to the service client and waits up to 150 ms for the answer of the peer.*)
(* All buffers come from one heap.                                         *)
(***************************************************************************)
EXTENDS Naturals

CONSTANTS Heap,      \* buffers that fit into the heap
          Packets    \* packets of a burst (THROUGHPUT_PACKETS_TO_SEND)

VARIABLE nusc

Boot(prog) ==
  [prog |-> prog, pc |-> "init", scan |-> FALSE, link |-> "none", default_conn |-> FALSE,
   dm |-> FALSE, client |-> "none", failed |-> FALSE,
   rx |-> 0, req |-> FALSE, work |-> FALSE, queued |-> 0, writing |-> FALSE,
   nus_write_sem |-> FALSE, tx |-> 0, leaked |-> 0,
   params |-> "zero", sent |-> 0, ready |-> FALSE, fault |-> FALSE]

Init == \E prog \in {"discover", "fixed", "throughput"} : nusc = Boot(prog)

Bool(b) == IF b THEN 1 ELSE 0

\* Buffers that are left (k_malloc).
Free == Heap - (nusc.rx + nusc.queued + Bool(nusc.writing) + nusc.tx + nusc.leaked)

\* bt_scan_start in a callback: its error is only printed.
ScanStart(c) == {[c EXCEPT !.scan = TRUE], [c EXCEPT !.failed = TRUE]}
-----------------------------------------------------------------------------
(* main() up to its loop, and the link.                                     *)

\* uart_init, scan_init, nus_client_init and the first bt_scan_start.
main_init ==
  /\ nusc.pc = "init"
  /\ \/ nusc' = [nusc EXCEPT !.rx = 1, !.req = TRUE, !.scan = TRUE, !.pc = "get",
                           !.ready = TRUE]
     \/ nusc' = [nusc EXCEPT !.pc = "returned"]

\* A matching advertiser: the scanner stops and a connection is created.
scan_connecting ==
  /\ nusc.scan
  /\ nusc' = [nusc EXCEPT !.scan = FALSE, !.link = "initiating", !.default_conn = TRUE]

\* The connection cannot be created: only printed.
scan_connecting_error ==
  nusc.scan /\ nusc' = [nusc EXCEPT !.scan = FALSE, !.failed = TRUE]

\* Mutant: the scanner is not started again.
connected_error_quiet ==
  /\ nusc.link = "initiating"
  /\ nusc' = [nusc EXCEPT !.link = "none", !.default_conn = FALSE]

connected_error ==
  /\ nusc.link = "initiating"
  /\ nusc' \in ScanStart([nusc EXCEPT !.link = "none", !.default_conn = FALSE])

\* gatt_discover: a second discovery is refused while one is running.
gatt_discover(c) == IF c.default_conn THEN {[c EXCEPT !.dm = TRUE], c} ELSE {c}

\* discover asks for encryption and discovers at once only if that fails.
connected_discover ==
  /\ nusc.prog = "discover" /\ nusc.link = "initiating"
  /\ LET up == [nusc EXCEPT !.link = "up", !.failed = FALSE]
     IN nusc' = up \/ nusc' \in gatt_discover(up)

\* fixed knows the handles of its peer (assign_service_handles).
connected_fixed ==
  /\ nusc.prog = "fixed" /\ nusc.link = "initiating"
  /\ nusc' = [nusc EXCEPT !.link = "up", !.failed = FALSE, !.client = "current"]

\* throughput discovers at once and initialises the work item of the other button.
connected_throughput ==
  /\ nusc.prog = "throughput" /\ nusc.link = "initiating"
  /\ nusc' \in gatt_discover([nusc EXCEPT !.link = "up", !.failed = FALSE,
                                          !.params = "init"])

security_changed ==
  /\ nusc.prog # "fixed" /\ nusc.link = "up"
  /\ nusc' \in gatt_discover(nusc)

\* discovery_complete; the other ends of a discovery leave the client as it was.
discovery_complete ==
  /\ nusc.dm
  /\ \/ nusc' = [nusc EXCEPT !.dm = FALSE, !.client = "current"]
     \/ nusc' = [nusc EXCEPT !.dm = FALSE]

\* The client keeps the connection and the handles of a peer that is gone.  The write
\* that was under way ends with an error, in ble_data_sent.
disconnected ==
  /\ nusc.link = "up"
  /\ LET down == [nusc EXCEPT !.link = "none", !.default_conn = FALSE, !.dm = FALSE,
                              !.client = IF @ = "none" THEN "none" ELSE "old",
                              !.nus_write_sem = @ \/ nusc.writing, !.writing = FALSE]
     IN nusc' \in ScanStart(down)

Link == \/ scan_connecting \/ scan_connecting_error \/ connected_error
        \/ connected_discover \/ connected_fixed \/ connected_throughput
        \/ security_changed \/ discovery_complete \/ disconnected
-----------------------------------------------------------------------------
(* uart_cb.                                                                 *)

\* UART_RX_BUF_REQUEST, once for each buffer that reception starts in.
uart_rx_buf_request ==
  /\ nusc.req
  /\ nusc' = [nusc EXCEPT !.req = FALSE, !.rx = IF Free > 0 THEN 2 ELSE @]

\* UART_RX_DISABLED: reception starts with a new buffer, or the work item tries later.
Enable(c, free) == IF free > 0 THEN [c EXCEPT !.rx = 1, !.req = TRUE]
                               ELSE [c EXCEPT !.rx = 0, !.req = FALSE, !.work = TRUE]

\* UART_RX_RDY with a full buffer: the next one is used, or reception is disabled.
uart_rx_rdy_full ==
  /\ nusc.rx > 0 /\ ~nusc.req
  /\ nusc' = LET q == [nusc EXCEPT !.queued = @ + 1]
             IN IF nusc.rx = 2 THEN [q EXCEPT !.rx = 1, !.req = TRUE] ELSE Enable(q, Free)

\* UART_RX_RDY with the end of a line: reception is disabled, the next buffer released.
uart_rx_rdy_line ==
  /\ nusc.rx > 0
  /\ nusc' = Enable([nusc EXCEPT !.queued = @ + 1], Free + nusc.rx - 1)

\* Mutant: the work item tries only once.
uart_work_handler_once ==
  /\ nusc.work
  /\ nusc' = [Enable(nusc, Free) EXCEPT !.work = FALSE]

uart_work_handler ==
  /\ nusc.work
  /\ nusc' = Enable([nusc EXCEPT !.work = FALSE], Free)

\* Data of the peer go to the UART, or are dropped.  throughput only counts them.
ble_data_received ==
  /\ nusc.prog # "throughput" /\ nusc.link = "up" /\ nusc.client = "current"
  /\ Free > 0
  /\ nusc' = [nusc EXCEPT !.tx = @ + 1]

\* UART_TX_DONE: the buffer is freed and the next one started.
uart_tx_done == nusc.tx > 0 /\ nusc' = [nusc EXCEPT !.tx = @ - 1]

Uart == \/ uart_rx_buf_request \/ uart_rx_rdy_full \/ uart_rx_rdy_line
        \/ uart_work_handler \/ ble_data_received \/ uart_tx_done
-----------------------------------------------------------------------------
(* The writing thread of discover and fixed: the loop of main().            *)

\* The client takes a write when it has a connection and no write is under way; the
\* write succeeds on a link that is up, with whatever handles the client has.
Accepts == nusc.client # "none" /\ ~nusc.writing /\ nusc.link = "up"

\* bt_nus_client_send: nobody frees a buffer that is refused.
main_send ==
  /\ nusc.prog # "throughput" /\ nusc.pc = "get" /\ nusc.queued > 0
  /\ \/ Accepts /\ nusc' = [nusc EXCEPT !.queued = @ - 1, !.writing = TRUE, !.pc = "wait"]
     \/ ~Accepts /\ nusc' = [nusc EXCEPT !.queued = @ - 1, !.leaked = @ + 1, !.pc = "wait"]

\* k_sem_take: the answer, one that came too late for an earlier buffer, or the timeout.
main_wait ==
  /\ nusc.pc = "wait"
  /\ \/ nusc.nus_write_sem /\ nusc' = [nusc EXCEPT !.nus_write_sem = FALSE, !.pc = "get"]
     \/ ~nusc.nus_write_sem /\ nusc' = [nusc EXCEPT !.pc = "get"]

\* The answer of the peer: the buffer is freed and the thread woken.
ble_data_sent ==
  /\ nusc.writing
  /\ nusc' = [nusc EXCEPT !.writing = FALSE, !.nus_write_sem = TRUE]
-----------------------------------------------------------------------------
(* throughput.                                                              *)

\* One button starts a burst (throughput_sem); the other schedules a work item, which
\* has no handler before the first connection.
button_changed ==
  /\ nusc.prog = "throughput" /\ nusc.pc # "init"
  /\ \/ nusc' = [nusc EXCEPT !.nus_write_sem = TRUE]
     \/ nusc' = IF nusc.params = "zero" THEN [nusc EXCEPT !.fault = TRUE]
                                        ELSE [nusc EXCEPT !.params = "scheduled"]

\* connection_configuration_set; its errors are only printed.
ble_params_update_work_handler ==
  nusc.params = "scheduled" /\ nusc' = [nusc EXCEPT !.params = "init"]

ble_write_thread ==
  /\ nusc.prog = "throughput" /\ nusc.pc \in {"get", "returned"} /\ nusc.nus_write_sem
  /\ nusc' = [nusc EXCEPT !.nus_write_sem = FALSE, !.pc = "burst", !.sent = 0]

\* Only a packet that was taken is counted, so that the loop turns until the link is
\* back.
throughput_data_send ==
  /\ nusc.pc = "burst"
  /\ nusc' = IF nusc.sent = Packets THEN [nusc EXCEPT !.pc = "get"]
             ELSE IF Accepts THEN [nusc EXCEPT !.sent = @ + 1] ELSE nusc

Throughput == \/ button_changed \/ ble_params_update_work_handler
              \/ ble_write_thread \/ throughput_data_send

Writer == main_send \/ main_wait

Next == /\ ~nusc.fault
        /\ main_init \/ Link \/ Uart \/ Writer \/ ble_data_sent \/ Throughput
-----------------------------------------------------------------------------
TypeOK == nusc \in
  [prog : {"discover", "fixed", "throughput"},
   pc : {"init", "get", "wait", "burst", "returned"},
   scan : BOOLEAN, link : {"none", "initiating", "up"}, default_conn : BOOLEAN,
   dm : BOOLEAN, client : {"none", "old", "current"}, failed : BOOLEAN,
   rx : 0 .. 2, req : BOOLEAN, work : BOOLEAN, queued : 0 .. Heap, writing : BOOLEAN,
   nus_write_sem : BOOLEAN, tx : 0 .. Heap, leaked : 0 .. Heap,
   params : {"zero", "init", "scheduled"}, sent : 0 .. Packets, ready : BOOLEAN, fault : BOOLEAN]

\* The central is never left without a link and without a search for one, and it holds
\* its reference exactly while there is a connection: after any order of connections,
\* failures and losses, unless the library refused to connect or to scan since the last
\* connection.
LinkKept == /\ nusc.ready => nusc.scan \/ nusc.link # "none" \/ nusc.failed
            /\ nusc.default_conn <=> nusc.link # "none"

\* When the receiver of the UART has no buffer, the work item that looks for one is
\* scheduled, also after many attempts in vain.
ReceiverRetries == nusc.ready /\ nusc.rx = 0 => nusc.work
=============================================================================
