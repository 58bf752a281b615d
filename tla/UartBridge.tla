----------------------------- MODULE UartBridge -----------------------------
(***************************************************************************)
(* The BLE/UART bridge (peripheral_uart): uart_cb and the threads of       *)
(* main.c on top of uart_async_adapter.c.  One heap holds every buffer.    *)
(*                                                                         *)
(*   UART -> BLE  the adapter fills buffers in its interrupt handler, the  *)
(*                callback queues a full buffer or a complete line in      *)
(*                fifo_uart_rx_data, ble_write_thread sends and frees it;  *)
(*   BLE -> UART  bt_receive_cb (Bluetooth thread) starts a transfer or,   *)
(*                when the adapter is busy, queues the buffer in           *)
(*                fifo_uart_tx_data for the UART_TX_DONE callback.         *)
(*                                                                         *)
(* An interrupt handler runs to completion with the callbacks it makes, so *)
(* the receive side is a record that each callback maps to a new record.   *)
(***************************************************************************)
EXTENDS Naturals, Sequences, FiniteSets

CONSTANTS NBufs,       \* buffers that fit in the heap
          UART_BUF_SIZE,
          MaxBytes,    \* bound: bytes that arrive on the UART
          MaxWrites,   \* bound: writes that arrive over BLE
          MaxChunks    \* bound: buffers needed for one write

ASSUME BridgeAssumption == /\ NBufs \in Nat /\ NBufs >= 2
                           /\ UART_BUF_SIZE \in Nat \ {0}
                           /\ {MaxBytes, MaxWrites, MaxChunks} \subseteq Nat

Bufs == 1 .. NBufs
NULL == 0

VARIABLES rx,        \* receive side of the adapter, statics of uart_cb, heap
          rx_timer,  \* is the adapter's rx.timeout_timer running?
          wr_buf,    \* buffer in the hands of ble_write_thread
          tx_buf,    \* tx.buf of the adapter
          fifo_uart_tx_data,
          bt_pc, bt_buf, bt_left,  \* bt_receive_cb: step, its buffer, chunks to go
          writes, received, settled   \* history: settled = bytes dropped or sent over BLE

vars == << rx, rx_timer, wr_buf, tx_buf, fifo_uart_tx_data, bt_pc, bt_buf, bt_left,
           writes, received, settled >>

\* After uart_init(): the welcome message is being sent from one buffer and
\* uart_rx_enable() has been given another.
Init ==
  /\ rx = [enabled |-> TRUE, buf |-> NULL, next |-> 2, fill |-> 0, told |-> 0,
           len |-> [b \in Bufs |-> IF b = 2 THEN 0 ELSE UART_BUF_SIZE],
           newline |-> [b \in Bufs |-> TRUE],
           current_buf |-> NULL, buf_release |-> FALSE, uart_work |-> FALSE,
           fifo |-> << >>, free |-> Bufs \ {1, 2}]
  /\ rx_timer = FALSE
  /\ wr_buf = NULL
  /\ tx_buf = 1
  /\ fifo_uart_tx_data = << >>
  /\ bt_pc = "idle" /\ bt_buf = NULL /\ bt_left = 0
  /\ writes = 0 /\ received = 0 /\ settled = 0
-----------------------------------------------------------------------------
\* External: the block k_malloc() hands out.
k_malloc(free) == CHOOSE b \in free : TRUE

\* External: k_free() of b.  What b held is garbage from now on: the worst case,
\* a full buffer ending a line, stands for it.
k_free(r, b) == [r EXCEPT !.free = @ \cup {b}, !.len[b] = UART_BUF_SIZE,
                          !.newline[b] = TRUE]

\* rx_enable of the adapter.  It reports -EBUSY while it holds a buffer, but
\* replaces its state all the same.
rx_enable(r, b) == [r EXCEPT !.buf = NULL, !.fill = 0, !.next = b, !.enabled = TRUE]

\* Mutant: without memory nothing is scheduled.
enable_or_retry_once(r) ==
  IF r.free = {} THEN r
  ELSE LET b == k_malloc(r.free)
       IN rx_enable([r EXCEPT !.free = @ \ {b}, !.len[b] = 0, !.uart_work = FALSE], b)

\* A fresh buffer for the receiver, or a retry by uart_work later: both
\* UART_RX_DISABLED and uart_work_handler do this.
enable_or_retry(r) ==
  IF r.free = {} THEN [r EXCEPT !.uart_work = TRUE]
  ELSE LET b == k_malloc(r.free)
       IN rx_enable([r EXCEPT !.free = @ \ {b}, !.len[b] = 0, !.uart_work = FALSE], b)

\* Mutant: the length of the new buffer is not cleared.
buf_request_no_clear(r) ==
  IF r.free = {} THEN r
  ELSE LET b == k_malloc(r.free)
       IN [r EXCEPT !.free = @ \ {b}, !.next = IF @ = NULL THEN b ELSE @]

\* UART_RX_BUF_REQUEST: allocate and answer with rx_buf_rsp, which refuses the
\* buffer when the adapter already has a next one.
buf_request(r) ==
  IF r.free = {} THEN r
  ELSE LET b == k_malloc(r.free)
       IN [r EXCEPT !.free = @ \ {b}, !.len[b] = 0, !.next = IF @ = NULL THEN b ELSE @]

\* Mutant: UART_RX_BUF_RELEASED frees every buffer that comes back.
buf_released_always(r, b) == k_free(r, b)

\* UART_RX_BUF_RELEASED: only the unused next buffer of a line is freed.
buf_released(r, b) ==
  IF r.buf_release /\ r.current_buf # b
  THEN k_free([r EXCEPT !.buf_release = FALSE, !.current_buf = NULL], b)
  ELSE r

\* switch_rx_buffer(dev, false)
switch_rx_buffer(r) ==
  LET s == [r EXCEPT !.buf = r.next, !.next = NULL, !.fill = 0, !.told = 0]
  IN IF r.buf = NULL THEN s ELSE buf_released(s, r.buf)

\* rx_disable: at most the current and the next buffer are given back, then
\* UART_RX_DISABLED.
rx_disable(r) ==
  LET off == [r EXCEPT !.enabled = FALSE]
      one == IF off.buf = NULL THEN off ELSE switch_rx_buffer(off)
      two == IF one.buf = NULL THEN one ELSE switch_rx_buffer(one)
  IN enable_or_retry(two)

\* UART_RX_RDY for the n bytes the adapter reports: a full buffer is queued; a
\* buffer that ends a line is queued too and the receiver restarted.
rx_rdy(r, n) ==
  LET s == [r EXCEPT !.len[r.buf] = @ + n, !.buf_release = FALSE]
      queued == [s EXCEPT !.fifo = Append(@, r.buf)]
  IN IF s.len[r.buf] = UART_BUF_SIZE THEN queued
     ELSE IF r.newline[r.buf]
          THEN rx_disable([queued EXCEPT !.current_buf = r.buf, !.buf_release = TRUE])
          ELSE s

\* notify_rx_buffer: report what has arrived since the last report.
notify_rx_buffer(r) ==
  IF r.buf # NULL /\ r.fill > r.told
  THEN rx_rdy([r EXCEPT !.told = r.fill], r.fill - r.told)
  ELSE r

\* Mutant: off by one.
size_left_plus_one(r) == IF r.buf = NULL THEN 0 ELSE UART_BUF_SIZE + 1 - r.fill

\* What the adapter believes to be left of its current buffer (rx.size_left).
size_left(r) == IF r.buf = NULL THEN 0 ELSE UART_BUF_SIZE - r.fill

\* The start of a turn of on_rx_ready's loop: a full or missing buffer is
\* reported and replaced by the next one, and another one is requested.
next_when_full(r) ==
  IF size_left(r) = 0 THEN buf_request(switch_rx_buffer(notify_rx_buffer(r))) ELSE r

\* on_rx_ready for one byte: one turn of the loop stores it, or drops it when
\* there is no buffer; the last turn finds nothing more to read.
on_rx_ready(nl) ==
  LET r == next_when_full(rx)
      s == [r EXCEPT !.fill = @ + 1, !.newline[r.buf] = nl]
  IN /\ rx.enabled /\ received < MaxBytes
     /\ received' = received + 1
     /\ rx_timer' = TRUE
     /\ IF size_left(r) = 0
        THEN rx' = r /\ settled' = settled + 1
        ELSE rx' = next_when_full(s) /\ UNCHANGED settled
     /\ UNCHANGED << wr_buf, tx_buf, fifo_uart_tx_data, bt_pc, bt_buf, bt_left,
                     writes >>

\* rx_timeout: the line has been silent for UART_WAIT_FOR_RX.
rx_timeout ==
  /\ rx_timer
  /\ rx_timer' = FALSE
  /\ rx' = notify_rx_buffer(rx)
  /\ UNCHANGED << wr_buf, tx_buf, fifo_uart_tx_data, bt_pc, bt_buf, bt_left,
                  writes, received, settled >>

\* uart_work_handler
uart_work_handler ==
  /\ rx.uart_work
  /\ rx' = enable_or_retry(rx)
  /\ UNCHANGED << rx_timer, wr_buf, tx_buf, fifo_uart_tx_data, bt_pc, bt_buf,
                  bt_left, writes, received, settled >>

\* ble_write_thread: k_fifo_get ...
ble_write_get ==
  /\ wr_buf = NULL /\ rx.fifo # << >>
  /\ wr_buf' = Head(rx.fifo)
  /\ rx' = [rx EXCEPT !.fifo = Tail(@)]
  /\ UNCHANGED << rx_timer, tx_buf, fifo_uart_tx_data, bt_pc, bt_buf, bt_left,
                  writes, received, settled >>

\* ... then bt_nus_send and k_free, whether or not the send succeeded.
ble_write_send ==
  /\ wr_buf # NULL
  /\ settled' = settled + rx.len[wr_buf]
  /\ rx' = k_free(rx, wr_buf)
  /\ wr_buf' = NULL
  /\ UNCHANGED << rx_timer, tx_buf, fifo_uart_tx_data, bt_pc, bt_buf, bt_left,
                  writes, received >>
-----------------------------------------------------------------------------
\* A write arrives over BLE: bt_receive_cb splits it into n buffers.
bt_receive_start ==
  /\ bt_pc = "idle" /\ writes < MaxWrites
  /\ writes' = writes + 1
  /\ bt_pc' = "alloc"
  /\ \E n \in 1 .. MaxChunks : bt_left' = n
  /\ UNCHANGED << rx, rx_timer, wr_buf, tx_buf, fifo_uart_tx_data, bt_buf,
                  received, settled >>

\* The loop head: done, or k_malloc for the next chunk; without memory the
\* rest of the write is dropped.
bt_receive_alloc ==
  /\ bt_pc = "alloc"
  /\ IF bt_left = 0 \/ rx.free = {}
     THEN /\ bt_pc' = "idle" /\ bt_left' = 0
          /\ UNCHANGED << rx, bt_buf >>
     ELSE /\ bt_buf' = k_malloc(rx.free)
          /\ rx' = [rx EXCEPT !.free = @ \ {bt_buf'}]
          /\ bt_left' = bt_left - 1
          /\ bt_pc' = "tx"
  /\ UNCHANGED << rx_timer, wr_buf, tx_buf, fifo_uart_tx_data, writes, received, settled >>

\* uart_tx: accepted when the adapter is idle, else -EBUSY.
bt_receive_tx ==
  /\ bt_pc = "tx"
  /\ IF tx_buf = NULL
     THEN tx_buf' = bt_buf /\ bt_buf' = NULL /\ bt_pc' = "alloc"
     ELSE bt_pc' = "put" /\ UNCHANGED << tx_buf, bt_buf >>
  /\ UNCHANGED << rx, rx_timer, wr_buf, fifo_uart_tx_data, bt_left, writes,
                  received, settled >>

\* The refused buffer is queued.
bt_receive_put ==
  /\ bt_pc = "put"
  /\ fifo_uart_tx_data' = Append(fifo_uart_tx_data, bt_buf)
  /\ bt_buf' = NULL
  /\ bt_pc' = "alloc"
  /\ UNCHANGED << rx, rx_timer, wr_buf, tx_buf, bt_left, writes, received, settled >>

\* Mutant: the next buffer is sent only by the next bt_receive_cb.
on_tx_complete_no_next ==
  /\ tx_buf # NULL
  /\ rx' = k_free(rx, tx_buf)
  /\ tx_buf' = NULL
  /\ UNCHANGED << rx_timer, wr_buf, fifo_uart_tx_data, bt_pc, bt_buf, bt_left,
                  writes, received, settled >>

\* on_tx_complete with UART_TX_DONE: the buffer is freed and the next queued
\* one, if any, is given to uart_tx.
on_tx_complete ==
  /\ tx_buf # NULL
  /\ rx' = k_free(rx, tx_buf)
  /\ IF fifo_uart_tx_data = << >>
     THEN tx_buf' = NULL /\ UNCHANGED fifo_uart_tx_data
     ELSE /\ tx_buf' = Head(fifo_uart_tx_data)
          /\ fifo_uart_tx_data' = Tail(fifo_uart_tx_data)
  /\ UNCHANGED << rx_timer, wr_buf, bt_pc, bt_buf, bt_left, writes, received, settled >>
-----------------------------------------------------------------------------
uart_irq_handler == (\E nl \in BOOLEAN : on_rx_ready(nl)) \/ on_tx_complete
ble_write_thread == ble_write_get \/ ble_write_send
bt_receive_cb == bt_receive_alloc \/ bt_receive_tx \/ bt_receive_put

Next == \/ uart_irq_handler \/ rx_timeout \/ uart_work_handler
        \/ ble_write_thread \/ bt_receive_start \/ bt_receive_cb

Spec == Init /\ [][Next]_vars

\* Threads, timers and a started transfer go on; bytes and writes come when
\* they come.
Fairness == /\ WF_vars(on_tx_complete) /\ WF_vars(rx_timeout)
            /\ WF_vars(uart_work_handler) /\ WF_vars(ble_write_thread)
            /\ WF_vars(bt_receive_cb)

FairSpec == Spec /\ Fairness
-----------------------------------------------------------------------------
TypeOK == /\ rx.buf \in Bufs \cup {NULL} /\ rx.next \in Bufs \cup {NULL}
          /\ rx.fill \in 0 .. UART_BUF_SIZE /\ rx.told \in 0 .. rx.fill
          /\ \A b \in Bufs : rx.len[b] \in 0 .. UART_BUF_SIZE
          /\ rx.fifo \in Seq(Bufs) /\ rx.free \subseteq Bufs
          /\ fifo_uart_tx_data \in Seq(Bufs)
          /\ {wr_buf, tx_buf, bt_buf} \subseteq Bufs \cup {NULL}
          /\ bt_pc \in {"idle", "alloc", "tx", "put"}

\* Every place outside the heap that holds a buffer.
Held == rx.fifo \o fifo_uart_tx_data \o << rx.buf, rx.next, wr_buf, tx_buf, bt_buf >>

\* Through all the nested callbacks every buffer is free or has exactly one
\* owner: none is leaked, freed twice, freed while in use, or queued twice.
OneOwner ==
  LET held == Held
  IN \A b \in Bufs : Cardinality({i \in DOMAIN held : held[i] = b})
                      = (IF b \in rx.free THEN 0 ELSE 1)

\* The bytes that wait in the buffers on their way to bt_nus_send.
Waiting ==
  LET under_way == {rx.fifo[i] : i \in DOMAIN rx.fifo} \cup ({wr_buf} \ {NULL})
  IN {p \in Bufs \X (1 .. UART_BUF_SIZE) : p[1] \in under_way /\ p[2] <= rx.len[p[1]]}

\* Every byte that was not dropped for want of a buffer has been sent over BLE
\* or still sits in exactly one buffer on the way there.
NoByteLost == received = settled + Cardinality(Waiting) + rx.fill

\* A receiver that uart_cb stopped after a line and could not start again for
\* want of a buffer is started later, by uart_work_handler.
ReceiverRestarts == ~rx.enabled ~> rx.enabled

\* The race between bt_receive_cb's -EBUSY and UART_TX_DONE does not accumulate:
\* when bt_receive_cb is done and the UART is idle, at most one buffer is left
\* behind in the queue.
AtMostOneStranded ==
  bt_pc = "idle" /\ tx_buf = NULL => Len(fifo_uart_tx_data) <= 1

\* "Any data sent from the Bluetooth LE unit is sent out of the UART 0
\* peripheral's TX pin": queued data does not stay queued.
QueuedDataIsSent == fifo_uart_tx_data # << >> ~> fifo_uart_tx_data = << >>
=============================================================================
