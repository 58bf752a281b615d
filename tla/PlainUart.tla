----------------------------- MODULE PlainUart -----------------------------
(***************************************************************************)
(* The data path of ble_uart/v1.5.1/peripheral_uart (the same text in      *)
(* peripheral_uart_pa_lan, peripheral_uart_thingy52 and nrf5340_ldo_DCDC)  *)
(* and of throughput_nus/peripheral_uart_throughput, whose receive FIFO is *)
(* read by nobody and which measures the rate of what it receives.         *)
(* Buffers are numbers, 0 stands for NULL.  uart_tx_abort() is not called  *)
(* and no transmission times out, so that UART_TX_ABORTED does not happen. *)
(***************************************************************************)
EXTENDS Naturals, Sequences, SequencesExt

CONSTANTS NumBufs,                  \* buffers of the heap
          THRESHOLD_CNT,            \* packets between two rates (RECV_THRESHOLD_CNT, 100)
          NUM_SPEED_CACULATIONS     \* rates of a burst (10)

VARIABLE uar

Buffers == 1..NumBufs
Burst == THRESHOLD_CNT * NUM_SPEED_CACULATIONS

\* cur, next: the buffers of the driver; req: it asks for the next one; stopping: reception
\* is being disabled; held: refused by uart_tx(), not yet in the FIFO; late: ghost, bytes
\* came after reception was disabled.
Init == \E prog \in {"peripheral", "throughput"} :
  uar = [prog |-> prog, pc |-> "init", heap |-> Buffers, cur |-> 0, next |-> 0, req |-> FALSE,
         stopping |-> FALSE, current_buf |-> 0, buf_release |-> FALSE, uart_work |-> FALSE,
         rx |-> << >>, sending |-> 0, tx |-> << >>, out |-> 0, held |-> 0, late |-> FALSE,
         burst |-> 0, cnt |-> 0, idle |-> TRUE, rate |-> "none", cut |-> FALSE]

Take(u, b) == [u EXCEPT !.heap = @ \ {b}]

\* UART_RX_DISABLED and the work item: a new buffer, or another attempt 50 ms later.
Enable(u) == IF u.heap = {} THEN [u EXCEPT !.uart_work = TRUE]
             ELSE LET b == CHOOSE x \in u.heap : TRUE
                  IN  [Take(u, b) EXCEPT !.cur = b, !.req = TRUE]
-----------------------------------------------------------------------------
\* A missing UART or Bluetooth ends in error().
uart_init == /\ uar.pc = "init"
             /\ uar' \in {[Enable(uar) EXCEPT !.pc = "running"], [uar EXCEPT !.pc = "error"]}

uart_rx_buf_request ==
  /\ uar.req
  /\ uar' = IF uar.heap = {} THEN [uar EXCEPT !.req = FALSE]
            ELSE LET b == CHOOSE x \in uar.heap : TRUE
                 IN  [Take(uar, b) EXCEPT !.req = FALSE, !.next = b]

\* UART_RX_BUF_RELEASED: after the end of a line the buffer that was not used is freed.
\* Mutant: whichever buffer is released.
uart_rx_buf_released_any(u, b) ==
  IF b # 0 /\ u.buf_release
    THEN [u EXCEPT !.heap = @ \union {b}, !.buf_release = FALSE, !.current_buf = 0]
    ELSE u

uart_rx_buf_released(u, b) ==
  IF b # 0 /\ u.buf_release /\ u.current_buf # b
    THEN [u EXCEPT !.heap = @ \union {b}, !.buf_release = FALSE, !.current_buf = 0]
    ELSE u

\* UART_RX_RDY: bytes without the end of a line stay in the buffer.
Queue(u) == [u EXCEPT !.rx = Append(@, u.cur), !.buf_release = FALSE]

\* A full buffer: the driver releases it and goes on with the next one, or stops.
uart_rx_rdy_full ==
  /\ uar.cur # 0 /\ ~uar.req /\ ~uar.stopping
  /\ LET full == uart_rx_buf_released(Queue(uar), uar.cur)
     IN  uar' = IF uar.next # 0 THEN [full EXCEPT !.cur = uar.next, !.next = 0, !.req = TRUE]
                ELSE Enable([full EXCEPT !.cur = 0])

uart_rx_rdy_line ==
  /\ uar.cur # 0 /\ ~uar.req /\ ~uar.stopping
  /\ uar' = [Queue(uar) EXCEPT !.current_buf = uar.cur, !.buf_release = TRUE, !.stopping = TRUE]

\* Bytes that came until the receiver stood still go to the buffer that is in the FIFO,
\* or was sent and freed; if they end a line, it is queued again.
uart_rx_rdy_late ==
  /\ uar.stopping
  /\ uar' \in {[uar EXCEPT !.late = TRUE, !.buf_release = FALSE],
               [Queue(uar) EXCEPT !.late = TRUE, !.buf_release = TRUE]}

uart_rx_disabled ==
  /\ uar.stopping
  /\ LET released == uart_rx_buf_released(uart_rx_buf_released(uar, uar.cur), uar.next)
     IN  uar' = Enable([released EXCEPT !.stopping = FALSE, !.cur = 0, !.next = 0])

uart_work_handler == uar.uart_work /\ uar' = Enable([uar EXCEPT !.uart_work = FALSE])

\* ble_write_thread(): bt_nus_send() may block; the buffer is freed whatever it returned.
ble_write_thread ==
  \/ /\ uar.prog = "peripheral" /\ uar.sending = 0 /\ uar.rx # << >>
     /\ uar' = [uar EXCEPT !.sending = Head(uar.rx), !.rx = Tail(@)]
  \/ /\ uar.sending # 0
     /\ uar' = [uar EXCEPT !.heap = @ \union {uar.sending}, !.sending = 0]
-----------------------------------------------------------------------------
\* A part of what the peer wrote: without memory it is dropped with the rest.
bt_receive_cb ==
  \/ /\ uar.prog = "peripheral" /\ uar.pc = "running" /\ uar.held = 0 /\ uar.heap # {}
     /\ LET b == CHOOSE x \in uar.heap : TRUE
        IN  uar' = IF uar.out = 0 THEN [Take(uar, b) EXCEPT !.out = b]
                   ELSE [Take(uar, b) EXCEPT !.held = b]
  \/ /\ uar.held # 0
     /\ uar' = [uar EXCEPT !.tx = Append(@, uar.held), !.held = 0]

uart_tx_done ==
  /\ uar.out # 0
  /\ LET done == [uar EXCEPT !.heap = @ \union {uar.out}]
     IN  uar' = IF uar.tx = << >> THEN [done EXCEPT !.out = 0]
                ELSE [done EXCEPT !.out = Head(uar.tx), !.tx = Tail(@)]
-----------------------------------------------------------------------------
(* recv_data_process(): each time that THRESHOLD_CNT packets have come, the *)
(* rate since the time before is printed, but for the first of each burst.  *)
(* cnt counts the packets modulo a burst, as the code compares them.        *)

\* Mutant: the last one of a burst is left out.
Skipped_last(rates) == rates % NUM_SPEED_CACULATIONS = 0

Skipped(rates) == rates % NUM_SPEED_CACULATIONS = 1

recv_data_process ==
  /\ uar.prog = "throughput" /\ uar.pc = "running"
  /\ LET first == uar.burst \in {0, Burst}
         cnt == uar.cnt + 1
         idle == uar.idle \/ first
         got == [uar EXCEPT !.burst = IF first THEN 1 ELSE @ + 1, !.cnt = cnt % Burst]
     IN  uar' = IF cnt % THRESHOLD_CNT # 0 THEN [got EXCEPT !.idle = idle]
                ELSE [got EXCEPT !.idle = FALSE,
                        !.rate = IF Skipped(cnt \div THRESHOLD_CNT) THEN @
                                 ELSE IF idle THEN "with a pause" ELSE "true"]

\* The link is lost in the middle of a burst; the next one starts from its first packet.
burst_lost == /\ uar.burst \in 1..Burst-1
              /\ uar' = [uar EXCEPT !.burst = 0, !.cut = TRUE]

\* What a FIFO with a buffer that was queued twice, or freed, does next is undefined.
Next == /\ ~uar.late
        /\ \/ uart_init \/ uart_rx_buf_request \/ uart_rx_rdy_full \/ uart_rx_rdy_line
           \/ uart_rx_rdy_late \/ uart_rx_disabled \/ uart_work_handler \/ ble_write_thread
           \/ bt_receive_cb \/ uart_tx_done \/ recv_data_process \/ burst_lost
-----------------------------------------------------------------------------
Pointer == Buffers \union {0}

TypeOK == uar \in [prog : {"peripheral", "throughput"}, pc : {"init", "running", "error"},
                   heap : SUBSET Buffers, cur : Pointer, next : Pointer, req : BOOLEAN,
                   stopping : BOOLEAN, current_buf : Pointer, buf_release : BOOLEAN,
                   uart_work : BOOLEAN, rx : Seq(Buffers), sending : Pointer, tx : Seq(Buffers),
                   out : Pointer, held : Pointer, late : BOOLEAN, burst : 0..Burst,
                   cnt : 0..Burst-1, idle : BOOLEAN, rate : {"none", "true", "with a pause"},
                   cut : BOOLEAN]

\* What the driver and the threads hold: the buffer whose line ended is in the FIFO by now.
Places == {"cur", "next", "sending", "out", "held"}
At(p) == IF p = "cur" /\ uar.stopping THEN 0 ELSE uar[p]
Held == {At(p) : p \in Places} \ {0}

\* Each buffer is in the heap or in one place: nothing is freed in use, freed twice or
\* leaked, but by bytes that came too late.
BuffersOwned ==
  ~uar.late =>
    /\ \A p, q \in Places : At(p) = At(q) /\ At(p) # 0 => p = q
    /\ IsInjective(uar.rx) /\ IsInjective(uar.tx)
    /\ Held \cap (ToSet(uar.rx) \cup ToSet(uar.tx)) = {} /\ ToSet(uar.rx) \cap ToSet(uar.tx) = {}
    /\ Held \cup ToSet(uar.rx) \cup ToSet(uar.tx) = Buffers \ uar.heap

\* A rate that is printed is of one burst, as long as no burst was cut.
RateOfBurst == uar.rate = "with a pause" => uar.cut
=============================================================================
