---------------------------- MODULE BridgeProofs ----------------------------
(***************************************************************************)
(* Proofs about the BLE/UART bridge, for every number and size of buffers  *)
(* and for any number of bytes and writes.  The inductive invariant says   *)
(* who owns every buffer, separately for the receive side, which a whole   *)
(* cascade of callbacks maps to a new record, and for the other owners;    *)
(* what the length recorded in an owned buffer means; and in which states  *)
(* the adapter may be when a callback interrupts it.                       *)
(***************************************************************************)
EXTENDS UartBridge, FiniteSetTheorems, SequenceTheorems, TLAPS

Fields == {"enabled", "buf", "next", "fill", "told", "len", "newline", "current_buf",
           "buf_release", "uart_work", "fifo", "free"}

Elements(s) == {s[i] : i \in DOMAIN s}

Distinct(s) == \A i, j \in DOMAIN s : s[i] = s[j] => i = j

\* The types of the receive side.
RxTyped(r) ==
  /\ DOMAIN r = Fields
  /\ r.buf \in Bufs \cup {NULL} /\ r.next \in Bufs \cup {NULL}
  /\ r.fill \in Nat /\ r.told \in Nat
  /\ r.len \in [Bufs -> 0 .. UART_BUF_SIZE]
  /\ r.fifo \in Seq(Bufs) /\ r.free \in SUBSET Bufs

\* A buffer is free, queued, in the adapter, or one of those others own.
RxOwned(r, others) ==
  /\ Distinct(r.fifo)
  /\ \A b \in Bufs : \/ b \in r.free \/ b \in Elements(r.fifo) \/ b = r.buf
                     \/ b = r.next \/ b \in others
  /\ \A b \in r.free : /\ b \notin Elements(r.fifo) /\ b # r.buf /\ b # r.next
                       /\ b \notin others
  /\ \A b \in Elements(r.fifo) : b # r.buf /\ b # r.next /\ b \notin others
  /\ r.buf # NULL => r.buf # r.next /\ r.buf \notin others
  /\ r.next # NULL => r.next \notin others

\* Between two interrupts the current buffer has room, its recorded length is
\* what was reported of it, and that of the next buffer is zero.
RxCounted(r) ==
  /\ r.fill < UART_BUF_SIZE /\ r.told <= r.fill
  /\ r.buf = NULL => r.fill = 0
  /\ r.buf # NULL => r.len[r.buf] = r.told
  /\ r.next # NULL => r.len[r.next] = 0

\* A receiver that waits for uart_work holds no buffer.
RxRetries(r) == r.uart_work => ~r.enabled /\ r.buf = NULL /\ r.next = NULL

Others == Elements(fifo_uart_tx_data) \cup ({wr_buf, tx_buf, bt_buf} \ {NULL})

\* The owners outside the receive side do not share a buffer.
OthersOwned ==
  /\ fifo_uart_tx_data \in Seq(Bufs)
  /\ wr_buf \in Bufs \cup {NULL} /\ tx_buf \in Bufs \cup {NULL}
  /\ bt_buf \in Bufs \cup {NULL}
  /\ Distinct(fifo_uart_tx_data)
  /\ \A b \in Elements(fifo_uart_tx_data) : b # wr_buf /\ b # tx_buf /\ b # bt_buf
  /\ wr_buf # NULL => wr_buf # tx_buf /\ wr_buf # bt_buf
  /\ tx_buf # NULL => tx_buf # bt_buf

\* bt_receive_cb owns a buffer from k_malloc to uart_tx or k_fifo_put.
BtOwns == /\ bt_pc \in {"idle", "alloc", "tx", "put"}
          /\ bt_buf # NULL <=> bt_pc \in {"tx", "put"}

\* An idle UART leaves at most one buffer queued, and none while bt_receive_cb
\* is about to queue one.
Stranded == tx_buf = NULL => /\ Len(fifo_uart_tx_data) <= 1
                             /\ bt_pc = "put" => fifo_uart_tx_data = << >>

\* The inductive invariant.
BridgeInv == /\ RxTyped(rx) /\ RxOwned(rx, Others) /\ RxCounted(rx) /\ RxRetries(rx)
             /\ OthersOwned /\ BtOwns /\ Stranded
-----------------------------------------------------------------------------
\* The buffer k_malloc hands out was free.
LEMMA MallocFree == ASSUME NEW free, free # {}
                    PROVE  k_malloc(free) \in free
BY DEF k_malloc

\* NULL is not a buffer, and the size of a buffer is a positive number.
LEMMA BridgeConstants == /\ NULL \notin Bufs /\ UART_BUF_SIZE \in Nat
                         /\ UART_BUF_SIZE > 0 /\ NBufs \in Nat /\ NBufs >= 2
BY BridgeAssumption DEF NULL, Bufs

\* What is queued is behind what was in the queue.
LEMMA QueueAppend ==
  ASSUME NEW s \in Seq(Bufs), NEW b \in Bufs
  PROVE  /\ Append(s, b) \in Seq(Bufs) /\ Len(Append(s, b)) = Len(s) + 1
         /\ Elements(Append(s, b)) = Elements(s) \cup {b}
         /\ Distinct(s) /\ b \notin Elements(s) => Distinct(Append(s, b))
<1> DEFINE t == Append(s, b)
<1>1. /\ t \in Seq(Bufs) /\ Len(t) = Len(s) + 1 /\ DOMAIN t = 1 .. Len(s) + 1
      /\ DOMAIN s = 1 .. Len(s) /\ Len(s) \in Nat
      /\ \A i \in 1 .. Len(s) : t[i] = s[i]
      /\ t[Len(s) + 1] = b
  OBVIOUS
<1> HIDE DEF t
<1>2. \A i \in DOMAIN t : i \in DOMAIN s \/ i = Len(s) + 1
  BY <1>1
<1>3. DOMAIN s \subseteq DOMAIN t /\ Len(s) + 1 \in DOMAIN t
  BY <1>1
<1>4. Elements(t) = Elements(s) \cup {b}
  <2>1. \A x \in Elements(t) : x \in Elements(s) \/ x = b
    BY <1>1, <1>2 DEF Elements
  <2>2. \A x \in Elements(s) : x \in Elements(t)
    BY <1>1, <1>3 DEF Elements
  <2>3. b \in Elements(t)
    BY <1>1, <1>3 DEF Elements
  <2> QED BY <2>1, <2>2, <2>3
<1>5. Distinct(s) /\ b \notin Elements(s) => Distinct(t)
  <2> SUFFICES ASSUME Distinct(s), b \notin Elements(s), NEW i \in DOMAIN t,
                      NEW j \in DOMAIN t, t[i] = t[j]
               PROVE  i = j
    BY DEF Distinct
  <2>1. \A k \in DOMAIN s : s[k] # b
    BY DEF Elements
  <2>2. CASE i \in DOMAIN s /\ j \in DOMAIN s
    BY <2>2, <1>1 DEF Distinct
  <2>3. CASE i = Len(s) + 1 /\ j \in DOMAIN s
    BY <2>1, <2>3, <1>1
  <2>4. CASE j = Len(s) + 1 /\ i \in DOMAIN s
    BY <2>1, <2>4, <1>1
  <2> QED BY <1>2, <2>2, <2>3, <2>4
<1> QED BY <1>1, <1>4, <1>5 DEF t

\* Taking the head leaves the others.
LEMMA QueueTail ==
  ASSUME NEW s \in Seq(Bufs), s # << >>, Distinct(s)
  PROVE  /\ Tail(s) \in Seq(Bufs) /\ Len(Tail(s)) = Len(s) - 1
         /\ Head(s) \in Bufs /\ Head(s) \in Elements(s)
         /\ Elements(Tail(s)) = Elements(s) \ {Head(s)} /\ Distinct(Tail(s))
<1> DEFINE t == Tail(s)
<1>1. /\ t \in Seq(Bufs) /\ Len(t) = Len(s) - 1 /\ Len(s) \in Nat /\ Len(s) > 0
      /\ DOMAIN t = 1 .. Len(s) - 1 /\ DOMAIN s = 1 .. Len(s)
      /\ \A i \in 1 .. Len(s) - 1 : t[i] = s[i + 1]
      /\ Head(s) = s[1]
  OBVIOUS
<1> HIDE DEF t
<1>2. 1 \in DOMAIN s /\ s[1] \in Bufs
  BY <1>1
<1>3. \A i \in DOMAIN t : i + 1 \in DOMAIN s /\ t[i] = s[i + 1] /\ i + 1 # 1 /\ i \in Nat
  BY <1>1
<1>4. \A i \in DOMAIN s : i = 1 \/ (i - 1 \in DOMAIN t /\ s[i] = t[i - 1])
  <2> SUFFICES ASSUME NEW i \in DOMAIN s, i # 1 PROVE i - 1 \in DOMAIN t /\ s[i] = t[i - 1]
    OBVIOUS
  <2>1. i - 1 \in 1 .. Len(s) - 1 /\ (i - 1) + 1 = i
    BY <1>1
  <2> QED BY <1>1, <2>1
<1>5. Elements(t) \subseteq Elements(s) \ {s[1]}
  <2> SUFFICES ASSUME NEW i \in DOMAIN t PROVE t[i] \in Elements(s) /\ t[i] # s[1]
    BY DEF Elements
  <2> QED BY <1>2, <1>3 DEF Elements, Distinct
<1>6. Elements(s) \ {s[1]} \subseteq Elements(t)
  BY <1>4 DEF Elements
<1>7. Distinct(t)
  <2> SUFFICES ASSUME NEW i \in DOMAIN t, NEW j \in DOMAIN t, t[i] = t[j] PROVE i = j
    BY DEF Distinct
  <2>1. i + 1 = j + 1
    BY <1>3 DEF Distinct
  <2> QED BY <2>1, <1>3
<1>8. s[1] \in Elements(s)
  BY <1>2 DEF Elements
<1> QED BY <1>1, <1>2, <1>5, <1>6, <1>7, <1>8 DEF t

\* k_free changes the heap and what the freed buffer holds.
LEMMA FreeFields ==
  ASSUME NEW r, DOMAIN r = Fields, r.len \in [Bufs -> 0 .. UART_BUF_SIZE], NEW b \in Bufs
  PROVE  LET e == k_free(r, b)
         IN /\ DOMAIN e = Fields /\ e.free = r.free \cup {b}
            /\ e.len \in [Bufs -> 0 .. UART_BUF_SIZE]
            /\ \A c \in Bufs \ {b} : e.len[c] = r.len[c]
            /\ e.buf = r.buf /\ e.next = r.next /\ e.fill = r.fill /\ e.told = r.told
            /\ e.fifo = r.fifo /\ e.enabled = r.enabled /\ e.uart_work = r.uart_work
            /\ e.current_buf = r.current_buf /\ e.buf_release = r.buf_release
BY BridgeConstants DEF k_free, Fields

\* uart_rx_enable with a fresh buffer, or the retry noted in uart_work.
LEMMA EnableFields ==
  ASSUME NEW r, RxTyped(r)
  PROVE  LET e == enable_or_retry(r)
         IN /\ DOMAIN e = Fields /\ e.told = r.told /\ e.fifo = r.fifo
            /\ r.free = {} => /\ e.uart_work /\ e.free = r.free /\ e.len = r.len
                              /\ e.enabled = r.enabled /\ e.buf = r.buf
                              /\ e.next = r.next /\ e.fill = r.fill
            /\ r.free # {} =>
                 \E b \in r.free :
                    /\ e.next = b /\ e.buf = NULL /\ e.fill = 0 /\ e.enabled
                    /\ ~e.uart_work /\ e.free = r.free \ {b}
                    /\ e.len = [r.len EXCEPT ![b] = 0]
<1>1. CASE r.free = {}
  BY <1>1 DEF enable_or_retry, RxTyped, Fields
<1>2. CASE r.free # {}
  <2> DEFINE b == k_malloc(r.free)
  <2>1. b \in r.free
    BY <1>2, MallocFree
  <2>2. enable_or_retry(r)
          = rx_enable([r EXCEPT !.free = @ \ {b}, !.len[b] = 0, !.uart_work = FALSE], b)
    BY <1>2 DEF enable_or_retry
  <2> HIDE DEF b
  <2> QED BY <1>2, <2>1, <2>2 DEF rx_enable, RxTyped, Fields
<1> QED BY <1>1, <1>2

\* UART_RX_BUF_REQUEST while the adapter has no next buffer.
LEMMA RequestFields ==
  ASSUME NEW r, RxTyped(r), r.next = NULL
  PROVE  LET e == buf_request(r)
         IN /\ DOMAIN e = Fields /\ e.told = r.told /\ e.fifo = r.fifo /\ e.buf = r.buf
            /\ e.fill = r.fill /\ e.enabled = r.enabled /\ e.uart_work = r.uart_work
            /\ e.buf_release = r.buf_release /\ e.current_buf = r.current_buf
            /\ r.free = {} => e = r
            /\ r.free # {} => \E b \in r.free :
                    /\ e.next = b /\ e.free = r.free \ {b}
                    /\ e.len = [r.len EXCEPT ![b] = 0]
<1>1. CASE r.free = {}
  BY <1>1 DEF buf_request, RxTyped
<1>2. CASE r.free # {}
  <2> DEFINE b == k_malloc(r.free)
  <2>1. b \in r.free
    BY <1>2, MallocFree
  <2>2. buf_request(r)
          = [r EXCEPT !.free = @ \ {b}, !.len[b] = 0, !.next = IF @ = NULL THEN b ELSE @]
    BY <1>2 DEF buf_request
  <2> HIDE DEF b
  <2> QED BY <1>2, <2>1, <2>2 DEF RxTyped, Fields
<1> QED BY <1>1, <1>2

\* The switch to the next buffer, when nothing is to be released.
LEMMA SwitchFields ==
  ASSUME NEW r, DOMAIN r = Fields,
         r.buf = NULL \/ ~r.buf_release \/ r.current_buf = r.buf
  PROVE  LET e == switch_rx_buffer(r)
         IN /\ DOMAIN e = Fields /\ e.told = 0 /\ e.fill = 0 /\ e.buf = r.next
            /\ e.next = NULL /\ e.fifo = r.fifo /\ e.free = r.free /\ e.len = r.len
            /\ e.enabled = r.enabled /\ e.uart_work = r.uart_work
            /\ e.buf_release = r.buf_release /\ e.current_buf = r.current_buf
<1> DEFINE s == [r EXCEPT !.buf = r.next, !.next = NULL, !.fill = 0, !.told = 0]
<1>1. /\ DOMAIN s = Fields /\ s.told = 0 /\ s.fill = 0 /\ s.buf = r.next
      /\ s.next = NULL /\ s.fifo = r.fifo /\ s.free = r.free /\ s.len = r.len
      /\ s.enabled = r.enabled /\ s.uart_work = r.uart_work
      /\ s.buf_release = r.buf_release /\ s.current_buf = r.current_buf
  BY DEF Fields
<1>2. switch_rx_buffer(r) = IF r.buf = NULL THEN s ELSE buf_released(s, r.buf)
  BY DEF switch_rx_buffer
<1> HIDE DEF s
<1>3. switch_rx_buffer(r) = s
  BY <1>1, <1>2 DEF buf_released
<1> QED BY <1>1, <1>3

\* The switch away from the unused next buffer of a line, which goes back to
\* the heap.
LEMMA SwitchReleases ==
  ASSUME NEW r, DOMAIN r = Fields, r.len \in [Bufs -> 0 .. UART_BUF_SIZE],
         r.buf \in Bufs, r.buf_release, r.current_buf # r.buf
  PROVE  LET e == switch_rx_buffer(r)
         IN /\ DOMAIN e = Fields /\ e.told = 0 /\ e.fill = 0 /\ e.buf = r.next
            /\ e.next = NULL /\ e.fifo = r.fifo /\ e.free = r.free \cup {r.buf}
            /\ e.len \in [Bufs -> 0 .. UART_BUF_SIZE]
            /\ \A c \in Bufs \ {r.buf} : e.len[c] = r.len[c]
            /\ e.enabled = r.enabled /\ e.uart_work = r.uart_work
<1> DEFINE s == [r EXCEPT !.buf = r.next, !.next = NULL, !.fill = 0, !.told = 0]
           t == [s EXCEPT !.buf_release = FALSE, !.current_buf = NULL]
<1>1. /\ DOMAIN s = Fields /\ s.buf_release = r.buf_release
      /\ s.current_buf = r.current_buf
  BY DEF Fields
<1>2. /\ DOMAIN t = Fields /\ t.told = 0 /\ t.fill = 0 /\ t.buf = r.next
      /\ t.next = NULL /\ t.fifo = r.fifo /\ t.free = r.free /\ t.len = r.len
      /\ t.enabled = r.enabled /\ t.uart_work = r.uart_work
  BY DEF Fields
<1>3. switch_rx_buffer(r) = IF r.buf = NULL THEN s ELSE buf_released(s, r.buf)
  BY DEF switch_rx_buffer
<1>4. r.buf # NULL
  BY BridgeConstants
<1>5. buf_released(s, r.buf) = k_free(t, r.buf)
  <2>1. buf_released(s, r.buf)
          = IF s.buf_release /\ s.current_buf # r.buf THEN k_free(t, r.buf) ELSE s
    BY DEF buf_released
  <2> HIDE DEF s, t
  <2> QED BY <1>1, <2>1
<1> HIDE DEF s, t
<1>6. switch_rx_buffer(r) = k_free(t, r.buf)
  BY <1>3, <1>4, <1>5
<1> QED BY <1>2, <1>6, FreeFields

\* A full buffer is queued with its length.
LEMMA NotifyFull ==
  ASSUME NEW r, RxTyped(r), r.buf # NULL, r.fill = UART_BUF_SIZE, r.told < r.fill,
         r.len[r.buf] = r.told
  PROVE  LET e == notify_rx_buffer(r)
         IN /\ DOMAIN e = Fields /\ e.buf = r.buf /\ e.next = r.next
            /\ e.fifo = Append(r.fifo, r.buf) /\ e.free = r.free
            /\ e.len = [r.len EXCEPT ![r.buf] = UART_BUF_SIZE]
            /\ ~e.buf_release /\ e.enabled = r.enabled /\ e.uart_work = r.uart_work
<1> DEFINE u == [r EXCEPT !.told = r.fill]
           s == [u EXCEPT !.len[u.buf] = @ + (r.fill - r.told), !.buf_release = FALSE]
           q == [s EXCEPT !.fifo = Append(@, u.buf)]
<1>1. /\ DOMAIN u = Fields /\ u.buf = r.buf /\ u.next = r.next /\ u.len = r.len
      /\ u.fifo = r.fifo /\ u.free = r.free /\ u.enabled = r.enabled
      /\ u.uart_work = r.uart_work /\ u.newline = r.newline
  BY DEF RxTyped, Fields
<1> HIDE DEF u
<1>2. r.told + (r.fill - r.told) = UART_BUF_SIZE /\ r.buf \in Bufs
  BY BridgeConstants DEF RxTyped
<1>3. /\ DOMAIN s = Fields /\ s.buf = r.buf /\ s.next = r.next
      /\ s.len = [r.len EXCEPT ![r.buf] = @ + (r.fill - r.told)]
      /\ s.fifo = r.fifo /\ s.free = r.free /\ s.enabled = r.enabled
      /\ s.uart_work = r.uart_work /\ s.newline = r.newline /\ s.buf_release = FALSE
  BY <1>1 DEF Fields
<1>4. s.len = [r.len EXCEPT ![r.buf] = UART_BUF_SIZE] /\ s.len[r.buf] = UART_BUF_SIZE
  BY <1>2, <1>3 DEF RxTyped
<1>5. notify_rx_buffer(r) = rx_rdy(u, r.fill - r.told)
  BY DEF notify_rx_buffer, u
<1>6. rx_rdy(u, r.fill - r.told)
        = IF s.len[u.buf] = UART_BUF_SIZE THEN q
          ELSE IF u.newline[u.buf]
          THEN rx_disable([q EXCEPT !.current_buf = u.buf, !.buf_release = TRUE]) ELSE s
  BY DEF rx_rdy
<1> HIDE DEF s
<1>7. notify_rx_buffer(r) = q
  BY <1>1, <1>4, <1>5, <1>6
<1> QED BY <1>1, <1>3, <1>4, <1>7 DEF Fields

\* What the receive side keeps to, seen by the other owners.
RxInv(r, others) == RxTyped(r) /\ RxOwned(r, others) /\ RxCounted(r) /\ RxRetries(r)

\* A request answered keeps the owners apart and clears the length.
LEMMA RequestKept ==
  ASSUME NEW r, NEW others, RxTyped(r), RxOwned(r, others), r.next = NULL
  PROVE  LET e == buf_request(r)
         IN /\ RxTyped(e) /\ RxOwned(e, others)
            /\ e.next # NULL => e.len[e.next] = 0
            /\ \A b \in Bufs \ r.free : e.len[b] = r.len[b]
            /\ e.told = r.told /\ e.fifo = r.fifo /\ e.buf = r.buf /\ e.fill = r.fill
            /\ e.enabled = r.enabled /\ e.uart_work = r.uart_work
<1> DEFINE e == buf_request(r)
<1>1. /\ DOMAIN e = Fields /\ e.told = r.told /\ e.fifo = r.fifo /\ e.buf = r.buf
      /\ e.fill = r.fill /\ e.enabled = r.enabled /\ e.uart_work = r.uart_work
  BY RequestFields
<1>2. CASE r.free = {}
  <2>1. e = r
    BY <1>2, RequestFields
  <2> QED BY <2>1
<1>3. CASE r.free # {}
  <2>1. PICK b \in r.free : /\ e.next = b /\ e.free = r.free \ {b}
                            /\ e.len = [r.len EXCEPT ![b] = 0]
    BY <1>3, RequestFields
  <2> HIDE DEF e
  <2>2. b \in Bufs
    BY DEF RxTyped
  <2>3. RxTyped(e)
    BY <1>1, <2>1, <2>2, BridgeConstants DEF RxTyped
  <2>4. RxOwned(e, others)
    BY <1>1, <2>1, <2>2, BridgeConstants DEF RxTyped, RxOwned
  <2>5. e.len[e.next] = 0 /\ \A c \in Bufs \ r.free : e.len[c] = r.len[c]
    BY <2>1, <2>2 DEF RxTyped
  <2> QED BY <1>1, <2>3, <2>4, <2>5 DEF e
<1> QED BY <1>2, <1>3

\* The first byte after an empty receiver: the next buffer, if there is one,
\* becomes the current one, and another one is requested.
LEMMA StartKept ==
  ASSUME NEW r, NEW others, RxInv(r, others), r.buf = NULL, r.enabled
  PROVE  LET e == next_when_full(r)
         IN /\ RxInv(e, others) /\ e.fill = 0 /\ e.told = 0 /\ e.fifo = r.fifo
            /\ ~e.uart_work /\ \A b \in Bufs \ r.free : e.len[b] = r.len[b]
<1> DEFINE s == switch_rx_buffer(r)
           e == buf_request(s)
<1>1. next_when_full(r) = e
  <2>1. size_left(r) = 0
    BY DEF size_left
  <2>2. notify_rx_buffer(r) = r
    BY DEF notify_rx_buffer
  <2> QED BY <2>1, <2>2 DEF next_when_full
<1>2. RxTyped(r) /\ RxOwned(r, others) /\ RxCounted(r) /\ ~r.uart_work
  BY DEF RxInv, RxRetries
<1>3. /\ DOMAIN s = Fields /\ s.told = 0 /\ s.fill = 0 /\ s.buf = r.next
      /\ s.next = NULL /\ s.fifo = r.fifo /\ s.free = r.free /\ s.len = r.len
      /\ s.enabled = r.enabled /\ s.uart_work = r.uart_work
  BY <1>2, SwitchFields DEF RxTyped
<1> HIDE DEF s
<1>4. RxTyped(s) /\ RxOwned(s, others)
  BY <1>2, <1>3, BridgeConstants DEF RxTyped, RxOwned
<1>5. /\ RxTyped(e) /\ RxOwned(e, others)
      /\ e.next # NULL => e.len[e.next] = 0
      /\ \A b \in Bufs \ s.free : e.len[b] = s.len[b]
      /\ e.told = 0 /\ e.fifo = r.fifo /\ e.buf = r.next /\ e.fill = 0
      /\ ~e.uart_work
  BY <1>2, <1>3, <1>4, RequestKept
<1> HIDE DEF e
<1>6. e.buf # NULL => e.len[e.buf] = 0
  <2> SUFFICES ASSUME e.buf # NULL PROVE e.len[e.buf] = 0
    OBVIOUS
  <2>1. r.next \in Bufs \ r.free
    BY <1>2, <1>5 DEF RxTyped, RxOwned
  <2>2. e.len[r.next] = r.len[r.next]
    BY <2>1, <1>3, <1>5
  <2> QED BY <2>2, <1>2, <1>5 DEF RxCounted
<1>7. RxCounted(e)
  BY <1>5, <1>6, BridgeConstants DEF RxCounted
<1> QED BY <1>1, <1>3, <1>5, <1>7 DEF RxInv, RxRetries

\* The byte that fills a buffer: the buffer is queued with all its bytes, the
\* next one, if there is one, takes its place, and another one is requested.
LEMMA FullKept ==
  ASSUME NEW r, NEW others, RxTyped(r), RxOwned(r, others), r.buf # NULL,
         r.fill = UART_BUF_SIZE, r.told < r.fill, r.len[r.buf] = r.told,
         r.next # NULL => r.len[r.next] = 0, ~r.uart_work
  PROVE  LET e == next_when_full(r)
         IN /\ RxInv(e, others) /\ e.fill = 0 /\ e.fifo = Append(r.fifo, r.buf)
            /\ e.len[r.buf] = UART_BUF_SIZE
            /\ \A b \in Bufs \ (r.free \cup {r.buf}) : e.len[b] = r.len[b]
<1> DEFINE n == notify_rx_buffer(r)
           s == switch_rx_buffer(n)
           e == buf_request(s)
<1>1. next_when_full(r) = e
  <2>1. size_left(r) = 0
    BY BridgeConstants DEF size_left
  <2> QED BY <2>1 DEF next_when_full
<1>2. /\ DOMAIN n = Fields /\ n.buf = r.buf /\ n.next = r.next
      /\ n.fifo = Append(r.fifo, r.buf) /\ n.free = r.free
      /\ n.len = [r.len EXCEPT ![r.buf] = UART_BUF_SIZE]
      /\ ~n.buf_release /\ n.enabled = r.enabled /\ n.uart_work = r.uart_work
  BY NotifyFull
<1> HIDE DEF n
<1>3. /\ DOMAIN s = Fields /\ s.told = 0 /\ s.fill = 0 /\ s.buf = r.next
      /\ s.next = NULL /\ s.fifo = Append(r.fifo, r.buf) /\ s.free = r.free
      /\ s.len = [r.len EXCEPT ![r.buf] = UART_BUF_SIZE]
      /\ s.enabled = r.enabled /\ s.uart_work = r.uart_work
  BY <1>2, SwitchFields
<1> HIDE DEF s
<1>4. /\ r.buf \in Bufs /\ r.buf \notin Elements(r.fifo) /\ r.buf \notin r.free
      /\ r.buf \notin others /\ r.buf # r.next
  BY DEF RxTyped, RxOwned
<1>5. /\ s.fifo \in Seq(Bufs) /\ Elements(s.fifo) = Elements(r.fifo) \cup {r.buf}
      /\ Distinct(s.fifo)
  BY <1>3, <1>4, QueueAppend DEF RxTyped, RxOwned
<1>6. s.len \in [Bufs -> 0 .. UART_BUF_SIZE]
  BY <1>3, <1>4, BridgeConstants DEF RxTyped
<1>7. RxTyped(s)
  BY <1>3, <1>5, <1>6, BridgeConstants DEF RxTyped
<1>8. RxOwned(s, others)
  <2> HIDE DEF s
  <2>1. s.buf = r.next /\ s.next = NULL /\ s.free = r.free
    BY <1>3
  <2>2. \A b \in Bufs : \/ b \in s.free \/ b \in Elements(s.fifo) \/ b = s.buf
                        \/ b = s.next \/ b \in others
    BY <2>1, <1>5 DEF RxOwned
  <2>3. \A b \in s.free : /\ b \notin Elements(s.fifo) /\ b # s.buf /\ b # s.next
                          /\ b \notin others
    BY <2>1, <1>4, <1>5, BridgeConstants DEF RxOwned, RxTyped
  <2>4. \A b \in Elements(s.fifo) : b # s.buf /\ b # s.next /\ b \notin others
    <3>1. \A b \in Elements(r.fifo) : b \in Bufs
      BY DEF Elements, RxTyped
    <3> QED BY <2>1, <3>1, <1>4, <1>5, BridgeConstants DEF RxOwned
  <2>5. (s.buf # NULL => s.buf # s.next /\ s.buf \notin others) /\ s.next = NULL
    BY <2>1 DEF RxOwned
  <2> QED BY <1>5, <2>2, <2>3, <2>4, <2>5 DEF RxOwned
<1>9. /\ RxTyped(e) /\ RxOwned(e, others)
      /\ e.next # NULL => e.len[e.next] = 0
      /\ \A b \in Bufs \ s.free : e.len[b] = s.len[b]
      /\ e.told = 0 /\ e.fifo = s.fifo /\ e.buf = r.next /\ e.fill = 0
      /\ ~e.uart_work
  <2>1. s.next = NULL /\ s.told = 0 /\ s.buf = r.next /\ s.fill = 0 /\ ~s.uart_work
    BY <1>3
  <2> QED BY <2>1, <1>7, <1>8, RequestKept
<1> HIDE DEF e
<1>10. \A b \in Bufs \ (r.free \cup {r.buf}) : e.len[b] = r.len[b]
  BY <1>3, <1>9 DEF RxTyped
<1>11. e.len[r.buf] = UART_BUF_SIZE
  BY <1>3, <1>4, <1>9 DEF RxTyped
<1>12. e.buf # NULL => e.len[e.buf] = 0
  BY <1>4, <1>9, <1>10 DEF RxTyped, RxOwned
<1>13. RxCounted(e)
  BY <1>9, <1>12, BridgeConstants DEF RxCounted
<1> QED BY <1>1, <1>3, <1>9, <1>10, <1>11, <1>13 DEF RxInv, RxRetries

\* A stopped receiver is given a fresh buffer, or waits for uart_work.
LEMMA EnableKept ==
  ASSUME NEW r, NEW others, RxTyped(r), RxOwned(r, others), r.buf = NULL, r.next = NULL,
         r.fill = 0, r.told = 0, ~r.enabled
  PROVE  LET e == enable_or_retry(r)
         IN /\ RxInv(e, others) /\ e.fifo = r.fifo /\ e.fill = 0
            /\ \A b \in Bufs \ r.free : e.len[b] = r.len[b]
<1> DEFINE e == enable_or_retry(r)
<1>1. DOMAIN e = Fields /\ e.told = 0 /\ e.fifo = r.fifo
  BY EnableFields
<1>2. CASE r.free = {}
  <2>1. /\ e.free = r.free /\ e.len = r.len /\ e.enabled = r.enabled /\ e.buf = NULL
        /\ e.next = NULL /\ e.fill = 0
    BY <1>2, EnableFields
  <2> HIDE DEF e
  <2>2. RxTyped(e)
    BY <1>1, <2>1 DEF RxTyped
  <2>3. RxOwned(e, others)
    BY <1>1, <2>1 DEF RxOwned
  <2>4. RxCounted(e) /\ RxRetries(e)
    BY <1>1, <2>1, BridgeConstants DEF RxCounted, RxRetries
  <2> QED BY <1>1, <2>1, <2>2, <2>3, <2>4 DEF RxInv, e
<1>3. CASE r.free # {}
  <2>1. PICK b \in r.free : /\ e.next = b /\ e.buf = NULL /\ e.fill = 0 /\ e.enabled
                            /\ ~e.uart_work /\ e.free = r.free \ {b}
                            /\ e.len = [r.len EXCEPT ![b] = 0]
    BY <1>3, EnableFields
  <2> HIDE DEF e
  <2>2. b \in Bufs
    BY DEF RxTyped
  <2>3. RxTyped(e)
    BY <1>1, <2>1, <2>2, BridgeConstants DEF RxTyped
  <2>4. RxOwned(e, others)
    BY <1>1, <2>1, <2>2, BridgeConstants DEF RxTyped, RxOwned
  <2>5. e.len[e.next] = 0 /\ \A c \in Bufs \ r.free : e.len[c] = r.len[c]
    BY <2>1, <2>2 DEF RxTyped
  <2>6. RxCounted(e) /\ RxRetries(e)
    BY <1>1, <2>1, <2>5, BridgeConstants DEF RxCounted, RxRetries
  <2> QED BY <1>1, <2>1, <2>3, <2>4, <2>5, <2>6 DEF RxInv, e
<1> QED BY <1>2, <1>3

\* uart_rx_disable from UART_RX_RDY, when the current buffer has just been
\* queued: the current buffer stays queued, the next one is freed, and the
\* receiver starts again.
LEMMA DisableKept ==
  ASSUME NEW r, NEW others, RxTyped(r), r.buf # NULL, r.current_buf = r.buf,
         r.buf_release, r.next # r.buf,
         RxOwned([r EXCEPT !.buf = NULL], others)
  PROVE  LET e == rx_disable(r)
         IN /\ RxInv(e, others) /\ e.fifo = r.fifo /\ e.fill = 0
            /\ \A b \in Elements(r.fifo) \cup others : b \in Bufs => e.len[b] = r.len[b]
<1> DEFINE off == [r EXCEPT !.enabled = FALSE]
           one == switch_rx_buffer(off)
           two == IF one.buf = NULL THEN one ELSE switch_rx_buffer(one)
<1>1. /\ DOMAIN off = Fields /\ off.buf = r.buf /\ off.next = r.next /\ off.len = r.len
      /\ off.fifo = r.fifo /\ off.free = r.free /\ ~off.enabled
      /\ off.buf_release = r.buf_release /\ off.current_buf = r.current_buf
  BY DEF RxTyped, Fields
<1>2. rx_disable(r) = enable_or_retry(two)
  <2> HIDE DEF off
  <2>1. rx_disable(r)
          = LET n == IF off.buf = NULL THEN off ELSE switch_rx_buffer(off)
                t == IF n.buf = NULL THEN n ELSE switch_rx_buffer(n)
            IN enable_or_retry(t)
    BY DEF rx_disable, off
  <2> QED BY <1>1, <2>1
<1> HIDE DEF off
<1>3. /\ DOMAIN one = Fields /\ one.told = 0 /\ one.fill = 0 /\ one.buf = r.next
      /\ one.next = NULL /\ one.fifo = r.fifo /\ one.free = r.free /\ one.len = r.len
      /\ ~one.enabled /\ one.buf_release /\ one.current_buf = r.buf
  BY <1>1, SwitchFields
<1> HIDE DEF one
<1>4. /\ Distinct(r.fifo) /\ r.fifo \in Seq(Bufs) /\ r.free \in SUBSET Bufs
      /\ r.next \in Bufs \cup {NULL} /\ r.len \in [Bufs -> 0 .. UART_BUF_SIZE]
      /\ \A b \in Bufs : b \in r.free \/ b \in Elements(r.fifo) \/ b = r.next \/ b \in others
      /\ \A b \in r.free : b \notin Elements(r.fifo) /\ b # r.next /\ b \notin others
      /\ \A b \in Elements(r.fifo) : b # r.next /\ b \notin others
      /\ r.next # NULL => r.next \notin others
  <2> DEFINE s == [r EXCEPT !.buf = NULL]
  <2>1. s.fifo = r.fifo /\ s.free = r.free /\ s.next = r.next /\ s.buf = NULL
    BY DEF RxTyped, Fields
  <2>2. RxOwned(s, others)
    OBVIOUS
  <2> HIDE DEF s
  <2> QED BY <2>1, <2>2, BridgeConstants DEF RxOwned, RxTyped
<1>5. CASE r.next = NULL
  <2>1. two = one
    BY <1>3, <1>5
  <2>2. RxTyped(one)
    BY <1>3, <1>4, <1>5 DEF RxTyped
  <2>3. RxOwned(one, others)
    BY <1>3, <1>4, <1>5, BridgeConstants DEF RxOwned
  <2>4. LET e == enable_or_retry(one)
        IN /\ RxInv(e, others) /\ e.fifo = one.fifo /\ e.fill = 0
           /\ \A b \in Bufs \ one.free : e.len[b] = one.len[b]
    <3>1. one.buf = NULL /\ one.next = NULL /\ one.fill = 0 /\ one.told = 0 /\ ~one.enabled
      BY <1>3, <1>5
    <3> QED BY <2>2, <2>3, <3>1, EnableKept
  <2>5. \A b \in Elements(r.fifo) \cup others : b \in Bufs => b \in Bufs \ one.free
    BY <1>3, <1>4
  <2> QED BY <1>2, <1>3, <2>1, <2>4, <2>5
<1>6. CASE r.next # NULL
  <2>1. two = switch_rx_buffer(one) /\ one.buf \in Bufs /\ one.current_buf # one.buf
    BY <1>3, <1>4, <1>6
  <2>2. /\ DOMAIN two = Fields /\ two.told = 0 /\ two.fill = 0 /\ two.buf = NULL
        /\ two.next = NULL /\ two.fifo = r.fifo /\ two.free = r.free \cup {r.next}
        /\ two.len \in [Bufs -> 0 .. UART_BUF_SIZE]
        /\ \A c \in Bufs \ {r.next} : two.len[c] = r.len[c]
        /\ ~two.enabled
    <3>1. one.len \in [Bufs -> 0 .. UART_BUF_SIZE]
      BY <1>3, <1>4
    <3>2. LET e == switch_rx_buffer(one)
          IN /\ DOMAIN e = Fields /\ e.told = 0 /\ e.fill = 0 /\ e.buf = one.next
             /\ e.next = NULL /\ e.fifo = one.fifo /\ e.free = one.free \cup {one.buf}
             /\ e.len \in [Bufs -> 0 .. UART_BUF_SIZE]
             /\ \A c \in Bufs \ {one.buf} : e.len[c] = one.len[c]
             /\ e.enabled = one.enabled
      BY <1>3, <2>1, <3>1, SwitchReleases
    <3> HIDE DEF two
    <3> QED BY <1>3, <2>1, <3>2
  <2> HIDE DEF two
  <2>3. RxTyped(two)
    BY <1>4, <1>6, <2>2 DEF RxTyped
  <2>4. RxOwned(two, others)
    BY <1>4, <1>6, <2>2, BridgeConstants DEF RxOwned
  <2>5. LET e == enable_or_retry(two)
        IN /\ RxInv(e, others) /\ e.fifo = two.fifo /\ e.fill = 0
           /\ \A b \in Bufs \ two.free : e.len[b] = two.len[b]
    BY <2>2, <2>3, <2>4, EnableKept
  <2>6. \A b \in Elements(r.fifo) \cup others :
           b \in Bufs => b \in Bufs \ two.free /\ two.len[b] = r.len[b]
    BY <1>4, <1>6, <2>2
  <2> QED BY <1>2, <2>2, <2>5, <2>6
<1> QED BY <1>5, <1>6

\* What is waiting: the buffers that are queued, with their lengths.
Bytes(bufs, len) == {p \in Bufs \X (1 .. UART_BUF_SIZE) : p[1] \in bufs /\ p[2] <= len[p[1]]}

\* notify_rx_buffer: the current buffer gets its length, or is queued with all
\* the bytes it holds.
LEMMA NotifyKept ==
  ASSUME NEW r, NEW others, RxInv(r, others)
  PROVE  LET e == notify_rx_buffer(r)
         IN /\ RxInv(e, others)
            /\ \A b \in Elements(r.fifo) \cup others : b \in Bufs => e.len[b] = r.len[b]
            /\ \/ e.fifo = r.fifo /\ e.fill = r.fill
               \/ /\ r.buf \in Bufs /\ e.fifo = Append(r.fifo, r.buf) /\ e.fill = 0
                  /\ e.len[r.buf] = r.fill
<1>1. RxTyped(r) /\ RxOwned(r, others) /\ RxCounted(r) /\ RxRetries(r)
  BY DEF RxInv
<1>2. CASE ~(r.buf # NULL /\ r.fill > r.told)
  <2>1. notify_rx_buffer(r) = r
    BY <1>2 DEF notify_rx_buffer
  <2> QED BY <2>1
<1>3. CASE r.buf # NULL /\ r.fill > r.told
  <2> DEFINE u == [r EXCEPT !.told = r.fill]
             s == [u EXCEPT !.len[u.buf] = @ + (r.fill - r.told), !.buf_release = FALSE]
             q == [s EXCEPT !.fifo = Append(@, u.buf)]
             d == [q EXCEPT !.current_buf = u.buf, !.buf_release = TRUE]
  <2>1. /\ DOMAIN u = Fields /\ u.buf = r.buf /\ u.next = r.next /\ u.len = r.len
        /\ u.fifo = r.fifo /\ u.free = r.free /\ u.enabled = r.enabled
        /\ u.uart_work = r.uart_work /\ u.told = r.fill /\ u.fill = r.fill
    BY <1>1 DEF RxTyped, Fields
  <2>2. notify_rx_buffer(r) = rx_rdy(u, r.fill - r.told)
    BY <1>3 DEF notify_rx_buffer, u
  <2> HIDE DEF u
  <2>3. rx_rdy(u, r.fill - r.told)
          = IF s.len[u.buf] = UART_BUF_SIZE THEN q
            ELSE IF u.newline[u.buf] THEN rx_disable(d) ELSE s
    BY DEF rx_rdy
  <2>4. /\ r.told + (r.fill - r.told) = r.fill /\ r.buf \in Bufs
        /\ r.len[r.buf] = r.told /\ r.fill \in 0 .. UART_BUF_SIZE /\ r.fill # UART_BUF_SIZE
        /\ r.buf \notin Elements(r.fifo) /\ r.buf \notin r.free /\ r.buf \notin others
        /\ r.next # r.buf /\ ~r.uart_work
    BY <1>1, <1>3, BridgeConstants DEF RxTyped, RxCounted, RxOwned, RxRetries
  <2>5. /\ DOMAIN s = Fields /\ s.buf = r.buf /\ s.next = r.next
        /\ s.len = [r.len EXCEPT ![r.buf] = @ + (r.fill - r.told)]
        /\ s.fifo = r.fifo /\ s.free = r.free /\ s.enabled = r.enabled
        /\ s.uart_work = r.uart_work /\ s.told = r.fill /\ s.fill = r.fill
    BY <2>1 DEF Fields
  <2> HIDE DEF s
  <2>6. /\ s.len \in [Bufs -> 0 .. UART_BUF_SIZE] /\ s.len[r.buf] = r.fill
        /\ \A b \in Bufs \ {r.buf} : s.len[b] = r.len[b]
    BY <1>1, <2>4, <2>5 DEF RxTyped
  <2>7. CASE ~u.newline[u.buf]
    <3>1. notify_rx_buffer(r) = s
      BY <2>1, <2>2, <2>3, <2>4, <2>6, <2>7
    <3>2. RxTyped(s)
      BY <1>1, <2>5, <2>6 DEF RxTyped
    <3>3. RxOwned(s, others)
      BY <1>1, <2>5 DEF RxOwned
    <3>4. s.next # NULL => s.len[s.next] = 0
      BY <1>1, <2>4, <2>5, <2>6 DEF RxTyped, RxCounted
    <3>5. s.fill < UART_BUF_SIZE /\ s.told <= s.fill
      BY <1>1, <2>5 DEF RxCounted, RxTyped
    <3>6. RxCounted(s)
      BY <1>3, <2>5, <2>6, <3>4, <3>5 DEF RxCounted
    <3>7. RxRetries(s)
      BY <2>4, <2>5 DEF RxRetries
    <3>8. \A b \in Elements(r.fifo) \cup others : b \in Bufs => s.len[b] = r.len[b]
      BY <2>4, <2>6
    <3> QED BY <2>5, <3>1, <3>2, <3>3, <3>6, <3>7, <3>8 DEF RxInv
  <2>8. CASE u.newline[u.buf]
    <3>1. notify_rx_buffer(r) = rx_disable(d)
      BY <2>1, <2>2, <2>3, <2>4, <2>6, <2>8
    <3>2. /\ DOMAIN d = Fields /\ d.buf = r.buf /\ d.next = r.next /\ d.len = s.len
          /\ d.fifo = Append(r.fifo, r.buf) /\ d.free = r.free /\ d.buf_release
          /\ d.current_buf = r.buf /\ d.told = r.fill /\ d.fill = r.fill
      BY <2>1, <2>5 DEF Fields
    <3> HIDE DEF d
    <3>3. /\ d.fifo \in Seq(Bufs) /\ Elements(d.fifo) = Elements(r.fifo) \cup {r.buf}
          /\ Distinct(d.fifo)
      BY <1>1, <2>4, <3>2, QueueAppend DEF RxTyped, RxOwned
    <3>4. RxTyped(d)
      BY <1>1, <2>6, <3>2, <3>3 DEF RxTyped
    <3>5. RxOwned([d EXCEPT !.buf = NULL], others)
      <4> DEFINE n == [d EXCEPT !.buf = NULL]
      <4>1. n.fifo = d.fifo /\ n.free = r.free /\ n.next = r.next /\ n.buf = NULL
        BY <3>2 DEF Fields
      <4> HIDE DEF n
      <4>2. \A b \in Bufs : \/ b \in n.free \/ b \in Elements(n.fifo) \/ b = n.buf
                            \/ b = n.next \/ b \in others
        BY <1>1, <3>3, <4>1 DEF RxOwned
      <4>3. \A b \in n.free : /\ b \notin Elements(n.fifo) /\ b # n.buf /\ b # n.next
                              /\ b \notin others
        BY <1>1, <2>4, <3>3, <4>1, BridgeConstants DEF RxOwned, RxTyped
      <4>4. \A b \in Elements(n.fifo) : b # n.buf /\ b # n.next /\ b \notin others
        <5>1. \A b \in Elements(r.fifo) : b \in Bufs
          BY <1>1 DEF Elements, RxTyped
        <5> QED BY <1>1, <2>4, <3>3, <4>1, <5>1, BridgeConstants DEF RxOwned
      <4>5. n.next # NULL => n.next \notin others
        BY <1>1, <4>1 DEF RxOwned
      <4>6. RxOwned(n, others)
        BY <3>3, <4>1, <4>2, <4>3, <4>4, <4>5 DEF RxOwned
      <4> QED BY <4>6 DEF n
    <3>6. LET e == rx_disable(d)
          IN /\ RxInv(e, others) /\ e.fifo = d.fifo /\ e.fill = 0
             /\ \A b \in Elements(d.fifo) \cup others : b \in Bufs => e.len[b] = d.len[b]
      <4>1. d.buf # NULL /\ d.current_buf = d.buf /\ d.buf_release /\ d.next # d.buf
        BY <1>3, <2>4, <3>2
      <4> QED BY <3>4, <3>5, <4>1, DisableKept
    <3> QED BY <2>4, <2>6, <3>1, <3>2, <3>3, <3>6
  <2> QED BY <2>7, <2>8
<1> QED BY <1>2, <1>3

\* The waiting bytes are finitely many; one more buffer adds its length.
LEMMA BytesAdd ==
  ASSUME NEW S \in SUBSET Bufs, NEW len \in [Bufs -> 0 .. UART_BUF_SIZE],
         NEW b \in Bufs \ S
  PROVE  /\ Cardinality(Bytes(S, len)) \in Nat
         /\ Cardinality(Bytes(S \cup {b}, len)) = Cardinality(Bytes(S, len)) + len[b]
<1> DEFINE A == Bytes(S, len)
           B == {b} \X (1 .. len[b])
           U == Bufs \X (1 .. UART_BUF_SIZE)
<1>1. IsFiniteSet(U)
  <2>1. IsFiniteSet(Bufs)
    BY BridgeConstants, FS_Interval DEF Bufs
  <2>2. IsFiniteSet(1 .. UART_BUF_SIZE)
    BY BridgeConstants, FS_Interval
  <2> QED BY <2>1, <2>2, FS_Product
<1>2. A \subseteq U /\ IsFiniteSet(A)
  <2>1. A \subseteq U
    BY DEF Bytes
  <2> HIDE DEF U, A
  <2> QED BY <1>1, <2>1, FS_Subset
<1>3. IsFiniteSet(B) /\ Cardinality(B) = len[b]
  <2>1. len[b] \in Nat
    BY BridgeConstants
  <2>2. IsFiniteSet(1 .. len[b]) /\ Cardinality(1 .. len[b]) = len[b]
    <3>1. 1 \in Int /\ len[b] \in Int
      BY <2>1
    <3>2. IsFiniteSet(1 .. len[b])
      BY <3>1, FS_Interval
    <3>3. Cardinality(1 .. len[b]) = IF 1 > len[b] THEN 0 ELSE len[b] - 1 + 1
      BY <3>1, FS_Interval
    <3> QED BY <2>1, <3>2, <3>3
  <2>3. IsFiniteSet({b}) /\ Cardinality({b}) = 1
    BY FS_Singleton
  <2>4. IsFiniteSet(B) /\ Cardinality(B) = Cardinality({b}) * Cardinality(1 .. len[b])
    BY <2>2, <2>3, FS_Product
  <2> QED BY <2>1, <2>2, <2>3, <2>4
<1>4. Bytes(S \cup {b}, len) = A \cup B
  <2>1. len[b] \in 0 .. UART_BUF_SIZE
    OBVIOUS
  <2>2. \A p \in Bytes(S \cup {b}, len) : p \in A \/ p \in B
    BY <2>1, BridgeConstants DEF Bytes
  <2>3. \A p \in A : p \in Bytes(S \cup {b}, len)
    BY DEF Bytes
  <2>4. \A p \in B : p \in Bytes(S \cup {b}, len)
    BY <2>1, BridgeConstants DEF Bytes
  <2> QED BY <2>2, <2>3, <2>4
<1>5. A \cap B = {}
  BY DEF Bytes
<1> HIDE DEF A, B, U
<1>6. Cardinality(A \cup B) = Cardinality(A) + Cardinality(B) - Cardinality(A \cap B)
  BY <1>2, <1>3, FS_Union
<1>7. Cardinality(A \cap B) = 0
  BY <1>5, FS_EmptySet
<1>8. Cardinality(A) \in Nat /\ Cardinality(B) \in Nat
  BY <1>2, <1>3, FS_CardinalityType
<1>9. Cardinality(A \cup B) = Cardinality(A) + len[b]
  BY <1>3, <1>6, <1>7, <1>8
<1>10. A = Bytes(S, len)
  BY DEF A
<1> QED BY <1>4, <1>8, <1>9, <1>10, Zenon

\* Only the lengths of the waiting buffers matter.
LEMMA BytesSame ==
  ASSUME NEW S \in SUBSET Bufs, NEW len, NEW now,
         \A b \in S : now[b] = len[b]
  PROVE  Bytes(S, now) = Bytes(S, len)
BY DEF Bytes

\* The history counters, and the balance of the bytes.
Counted == received \in Nat /\ settled \in Nat /\ NoByteLost

\* The owners and the bytes together: the invariant the theorems follow from.
FullInv == BridgeInv /\ Counted

\* The lengths are read only through Waiting.
LEMMA WaitingBytes ==
  Waiting = Bytes(Elements(rx.fifo) \cup ({wr_buf} \ {NULL}), rx.len)
BY DEF Waiting, Bytes, Elements

\* The facts of the invariant that every step uses.
LEMMA InvFacts ==
  ASSUME BridgeInv
  PROVE  /\ RxInv(rx, Others) /\ OthersOwned /\ BtOwns /\ Stranded
         /\ rx.len \in [Bufs -> 0 .. UART_BUF_SIZE] /\ rx.fifo \in Seq(Bufs)
         /\ Elements(rx.fifo) \in SUBSET Bufs /\ Others \in SUBSET Bufs
         /\ Elements(fifo_uart_tx_data) \in SUBSET Bufs
         /\ wr_buf # NULL => wr_buf \in Others
         /\ \A b \in Elements(rx.fifo) : b \notin Others /\ b \notin rx.free
         /\ \A b \in Others : b \notin rx.free
<1>1. RxTyped(rx) /\ RxOwned(rx, Others) /\ RxCounted(rx) /\ RxRetries(rx)
  BY DEF BridgeInv
<1>2. OthersOwned /\ BtOwns /\ Stranded
  BY DEF BridgeInv
<1>3. Elements(rx.fifo) \in SUBSET Bufs
  BY <1>1 DEF RxTyped, Elements
<1>4. Elements(fifo_uart_tx_data) \in SUBSET Bufs
  BY <1>2 DEF OthersOwned, Elements
<1>5. Others \in SUBSET Bufs
  BY <1>2, <1>4 DEF OthersOwned, Others
<1>6. \A b \in Elements(rx.fifo) : b \notin Others /\ b \notin rx.free
  BY <1>1 DEF RxOwned
<1>7. \A b \in Others : b \notin rx.free
  BY <1>1 DEF RxOwned
<1>8. wr_buf # NULL => wr_buf \in Others
  BY DEF Others
<1>9. rx.len \in [Bufs -> 0 .. UART_BUF_SIZE] /\ rx.fifo \in Seq(Bufs)
  BY <1>1 DEF RxTyped
<1> QED BY <1>1, <1>2, <1>3, <1>4, <1>5, <1>6, <1>7, <1>8, <1>9 DEF RxInv

\* A step of the receive side alone keeps the invariant.
LEMMA RxStep ==
  ASSUME BridgeInv, RxInv(rx', Others),
         UNCHANGED << wr_buf, tx_buf, fifo_uart_tx_data, bt_pc, bt_buf >>
  PROVE  BridgeInv'
<1>1. Others' = Others
  BY DEF Others
<1>2. OthersOwned' /\ BtOwns' /\ Stranded'
  BY DEF BridgeInv, OthersOwned, BtOwns, Stranded
<1>3. RxTyped(rx') /\ RxOwned(rx', Others) /\ RxCounted(rx') /\ RxRetries(rx')
  BY DEF RxInv
<1> QED BY <1>1, <1>2, <1>3 DEF BridgeInv

\* What a step of the receive side does to the waiting bytes.
LEMMA WaitingSame ==
  ASSUME BridgeInv, rx'.fifo = rx.fifo, wr_buf' = wr_buf,
         \A b \in Elements(rx.fifo) \cup Others : b \in Bufs => rx'.len[b] = rx.len[b]
  PROVE  Cardinality(Waiting)' = Cardinality(Waiting)
<1> DEFINE S == Elements(rx.fifo) \cup ({wr_buf} \ {NULL})
<1>1. S \in SUBSET Bufs /\ \A b \in S : rx'.len[b] = rx.len[b]
  BY InvFacts
<1>2. Waiting' = Bytes(S, rx'.len)
  BY DEF Waiting, Bytes, Elements
<1>3. Waiting = Bytes(S, rx.len)
  BY WaitingBytes
<1> HIDE DEF S
<1>4. Bytes(S, rx'.len) = Bytes(S, rx.len)
  BY <1>1, BytesSame
<1> QED BY <1>2, <1>3, <1>4

LEMMA WaitingAppend ==
  ASSUME BridgeInv, NEW b \in Bufs, b \notin Elements(rx.fifo), b \notin Others,
         rx'.fifo = Append(rx.fifo, b), wr_buf' = wr_buf,
         rx'.len \in [Bufs -> 0 .. UART_BUF_SIZE],
         \A c \in Elements(rx.fifo) \cup Others : c \in Bufs => rx'.len[c] = rx.len[c]
  PROVE  /\ Cardinality(Waiting) \in Nat
         /\ Cardinality(Waiting)' = Cardinality(Waiting) + rx'.len[b]
<1> DEFINE S == Elements(rx.fifo) \cup ({wr_buf} \ {NULL})
           l == rx'.len
<1>1. S \in SUBSET Bufs /\ b \notin S /\ \A c \in S : l[c] = rx.len[c]
  BY InvFacts
<1>2. Elements(rx'.fifo) = Elements(rx.fifo) \cup {b}
  BY InvFacts, QueueAppend
<1>3. Waiting' = Bytes(S \cup {b}, l)
  <2>1. Waiting' = Bytes(Elements(rx'.fifo) \cup ({wr_buf'} \ {NULL}), rx'.len)
    BY DEF Waiting, Bytes, Elements
  <2>2. Elements(rx'.fifo) \cup ({wr_buf'} \ {NULL}) = S \cup {b}
    BY <1>2
  <2> QED BY <2>1, <2>2
<1>4. Waiting = Bytes(S, rx.len)
  BY WaitingBytes
<1> HIDE DEF S
<1>5. Bytes(S, l) = Bytes(S, rx.len)
  BY <1>1, BytesSame
<1>6. /\ Cardinality(Bytes(S, l)) \in Nat
      /\ Cardinality(Bytes(S \cup {b}, l)) = Cardinality(Bytes(S, l)) + l[b]
  <2>1. l \in [Bufs -> 0 .. UART_BUF_SIZE]
    OBVIOUS
  <2> HIDE DEF l
  <2> QED BY <1>1, <2>1, BytesAdd
<1>7. Cardinality(Waiting') = Cardinality(Waiting) + l[b] /\ Cardinality(Waiting) \in Nat
  <2> HIDE DEF l
  <2> QED BY <1>3, <1>4, <1>5, <1>6
<1> QED BY <1>7

\* The waiting bytes are finitely many.
LEMMA WaitingNat == ASSUME BridgeInv PROVE Cardinality(Waiting) \in Nat
<1> DEFINE S == Elements(rx.fifo) \cup ({wr_buf} \ {NULL})
           U == Bufs \X (1 .. UART_BUF_SIZE)
<1>1. IsFiniteSet(U)
  <2>1. IsFiniteSet(Bufs)
    BY BridgeConstants, FS_Interval DEF Bufs
  <2>2. IsFiniteSet(1 .. UART_BUF_SIZE)
    BY BridgeConstants, FS_Interval
  <2> QED BY <2>1, <2>2, FS_Product
<1>2. Waiting \subseteq U
  BY DEF Waiting
<1> HIDE DEF U
<1>3. IsFiniteSet(Waiting)
  BY <1>1, <1>2, FS_Subset
<1> QED BY <1>3, FS_CardinalityType

LEMMA BridgeInit == Init => FullInv
<1> SUFFICES ASSUME Init PROVE FullInv
  OBVIOUS
<1> USE DEF Init
<1>0. /\ rx.buf = NULL /\ rx.next = 2 /\ rx.fill = 0 /\ rx.told = 0 /\ rx.enabled
      /\ ~rx.uart_work /\ rx.fifo = << >> /\ rx.free = Bufs \ {1, 2}
      /\ rx.len = [b \in Bufs |-> IF b = 2 THEN 0 ELSE UART_BUF_SIZE]
  OBVIOUS
<1>1. DOMAIN rx = Fields
  BY DEF Fields
<1> HIDE DEF Init
<1>2. 1 \in Bufs /\ 2 \in Bufs /\ NULL \notin Bufs /\ UART_BUF_SIZE \in 0 .. UART_BUF_SIZE
      /\ 0 \in 0 .. UART_BUF_SIZE
  BY BridgeConstants DEF Bufs
<1>3. /\ wr_buf = NULL /\ tx_buf = 1 /\ bt_buf = NULL /\ fifo_uart_tx_data = << >>
      /\ bt_pc = "idle" /\ received = 0 /\ settled = 0
  BY DEF Init
<1>4. Elements(<< >>) = {} /\ Distinct(<< >>) /\ << >> \in Seq(Bufs)
  BY DEF Elements, Distinct
<1>5. Others = {1}
  BY <1>2, <1>3, <1>4 DEF Others
<1>6. RxTyped(rx)
  BY <1>0, <1>1, <1>2, <1>4 DEF RxTyped
<1>7. RxOwned(rx, Others)
  BY <1>0, <1>2, <1>4, <1>5 DEF RxOwned
<1>8. RxCounted(rx) /\ RxRetries(rx)
  BY <1>0, <1>2, BridgeConstants DEF RxCounted, RxRetries
<1>9. OthersOwned
  BY <1>2, <1>3, <1>4 DEF OthersOwned
<1>10. BtOwns /\ Stranded
  BY <1>2, <1>3 DEF BtOwns, Stranded
<1>11. Waiting = {}
  BY <1>0, <1>3 DEF Waiting
<1>12. NoByteLost
  BY <1>0, <1>3, <1>11, FS_EmptySet DEF NoByteLost
<1> QED BY <1>3, <1>6, <1>7, <1>8, <1>9, <1>10, <1>12 DEF FullInv, BridgeInv, Counted

\* The receive interrupt: the byte is stored, or dropped and counted as such.
LEMMA RxReadyStep == ASSUME FullInv, NEW nl \in BOOLEAN, on_rx_ready(nl)
                     PROVE  FullInv'
<1> DEFINE r == next_when_full(rx)
           s == [r EXCEPT !.fill = @ + 1, !.newline[r.buf] = nl]
<1>0. /\ rx.enabled /\ received' = received + 1
      /\ IF size_left(r) = 0
         THEN rx' = r /\ settled' = settled + 1
         ELSE rx' = next_when_full(s) /\ settled' = settled
      /\ UNCHANGED << wr_buf, tx_buf, fifo_uart_tx_data, bt_pc, bt_buf >>
  BY DEF on_rx_ready
<1>1. BridgeInv /\ RxInv(rx, Others) /\ Counted /\ Others \in SUBSET Bufs
  BY InvFacts DEF FullInv
<1>2. /\ RxInv(r, Others) /\ r.fill = rx.fill /\ r.fifo = rx.fifo /\ ~r.uart_work
      /\ \A b \in Elements(rx.fifo) \cup Others : b \in Bufs => r.len[b] = rx.len[b]
  <2>1. CASE rx.buf = NULL
    <3>1. /\ RxInv(r, Others) /\ r.fill = 0 /\ r.fifo = rx.fifo /\ ~r.uart_work
          /\ \A b \in Bufs \ rx.free : r.len[b] = rx.len[b]
      BY <1>0, <1>1, <2>1, StartKept
    <3>2. rx.fill = 0
      BY <1>1, <2>1 DEF RxInv, RxCounted
    <3> QED BY <1>1, <3>1, <3>2, InvFacts
  <2>2. CASE rx.buf # NULL
    <3>1. size_left(rx) # 0
      BY <1>1, <2>2, BridgeConstants DEF RxInv, RxCounted, RxTyped, size_left
    <3>2. r = rx
      BY <3>1 DEF next_when_full
    <3>3. ~rx.uart_work
      BY <1>0, <1>1 DEF RxInv, RxRetries
    <3> QED BY <1>1, <3>2, <3>3
  <2> QED BY <2>1, <2>2
<1> HIDE DEF r
<1>3. RxTyped(r) /\ RxOwned(r, Others) /\ RxCounted(r)
  BY <1>2 DEF RxInv
<1>4. /\ received \in Nat /\ settled \in Nat /\ rx.fill \in Nat
      /\ received = settled + Cardinality(Waiting) + rx.fill
      /\ Cardinality(Waiting) \in Nat
  BY <1>1, WaitingNat DEF Counted, NoByteLost, RxInv, RxTyped
<1>5. CASE size_left(r) = 0
  <2>1. rx' = r /\ settled' = settled + 1
    BY <1>0, <1>5
  <2>2. BridgeInv'
    BY <1>0, <1>1, <1>2, <2>1, RxStep
  <2>3. Cardinality(Waiting)' = Cardinality(Waiting)
    BY <1>0, <1>1, <1>2, <2>1, WaitingSame
  <2>4. Counted'
    BY <1>0, <1>2, <1>4, <2>1, <2>3 DEF Counted, NoByteLost
  <2> QED BY <2>2, <2>4 DEF FullInv
<1>6. CASE size_left(r) # 0
  <2>1. rx' = next_when_full(s) /\ settled' = settled
    BY <1>0, <1>6
  <2>2. r.buf \in Bufs /\ r.buf # NULL
    BY <1>3, <1>6 DEF size_left, RxTyped
  <2>3. /\ DOMAIN s = Fields /\ s.buf = r.buf /\ s.next = r.next /\ s.len = r.len
        /\ s.fifo = r.fifo /\ s.free = r.free /\ s.told = r.told /\ s.fill = r.fill + 1
        /\ s.enabled = r.enabled /\ s.uart_work = r.uart_work
    BY <1>3 DEF RxTyped, Fields
  <2> HIDE DEF s
  <2>4. s.told < s.fill /\ s.fill <= UART_BUF_SIZE /\ s.fill = rx.fill + 1 /\ s.fill \in Nat
    BY <1>2, <1>3, <2>3, BridgeConstants DEF RxTyped, RxCounted
  <2>5. RxTyped(s)
    BY <1>3, <2>3, <2>4 DEF RxTyped
  <2>6. RxOwned(s, Others)
    BY <1>3, <2>3 DEF RxOwned
  <2>7. s.len[s.buf] = s.told /\ (s.next # NULL => s.len[s.next] = 0)
    BY <1>3, <2>2, <2>3 DEF RxCounted
  <2>8. CASE s.fill < UART_BUF_SIZE
    <3>1. next_when_full(s) = s
      <4>1. size_left(s) # 0
        BY <2>2, <2>3, <2>4, <2>8, BridgeConstants DEF size_left
      <4> QED BY <4>1 DEF next_when_full
    <3>2. RxCounted(s) /\ RxRetries(s)
      BY <1>2, <2>2, <2>3, <2>4, <2>7, <2>8, <2>5 DEF RxCounted, RxRetries, RxTyped
    <3>3. RxInv(rx', Others) /\ rx' = s
      BY <2>1, <2>5, <2>6, <3>1, <3>2 DEF RxInv
    <3>4. BridgeInv'
      BY <1>0, <1>1, <3>3, RxStep
    <3>5. Cardinality(Waiting)' = Cardinality(Waiting)
      BY <1>0, <1>1, <1>2, <2>3, <3>3, WaitingSame
    <3>6. Counted'
      BY <1>0, <1>4, <2>1, <2>4, <3>3, <3>5 DEF Counted, NoByteLost
    <3> QED BY <3>4, <3>6 DEF FullInv
  <2>9. CASE s.fill = UART_BUF_SIZE
    <3>1. /\ RxInv(rx', Others) /\ rx'.fill = 0 /\ rx'.fifo = Append(s.fifo, s.buf)
          /\ rx'.len[s.buf] = UART_BUF_SIZE
          /\ \A b \in Bufs \ (s.free \cup {s.buf}) : rx'.len[b] = s.len[b]
      <4>1. s.buf # NULL /\ ~s.uart_work
        BY <1>2, <2>2, <2>3
      <4> QED BY <2>1, <2>4, <2>5, <2>6, <2>7, <2>9, <4>1, FullKept
    <3>2. BridgeInv'
      BY <1>0, <1>1, <3>1, RxStep
    <3>3. /\ rx'.fifo = Append(rx.fifo, r.buf) /\ rx'.len[r.buf] = UART_BUF_SIZE
          /\ rx'.len \in [Bufs -> 0 .. UART_BUF_SIZE]
      BY <1>2, <2>3, <3>1 DEF RxInv, RxTyped
    <3>4. r.buf \notin Elements(rx.fifo) /\ r.buf \notin Others
      BY <1>2, <1>3, <2>2 DEF RxOwned
    <3>5. \A c \in Elements(rx.fifo) \cup Others : c \in Bufs => rx'.len[c] = rx.len[c]
      <4>1. \A c \in Elements(rx.fifo) \cup Others : c \notin r.free /\ c # r.buf
        BY <1>2, <1>3, <3>4 DEF RxOwned
      <4> QED BY <1>2, <2>3, <3>1, <4>1
    <3>6. Cardinality(Waiting)' = Cardinality(Waiting) + UART_BUF_SIZE
      <4>1. wr_buf' = wr_buf
        BY <1>0
      <4>2. Cardinality(Waiting)' = Cardinality(Waiting) + rx'.len[r.buf]
        BY <1>1, <2>2, <3>3, <3>4, <3>5, <4>1, WaitingAppend
      <4> QED BY <3>3, <4>2
    <3>7. Counted'
      <4>1. rx.fill + 1 = UART_BUF_SIZE
        BY <2>4, <2>9
      <4>2. received + 1 = settled + (Cardinality(Waiting) + UART_BUF_SIZE) + 0
        BY <1>4, <4>1, BridgeConstants
      <4>3. received' \in Nat /\ settled' \in Nat
        BY <1>0, <1>4, <2>1
      <4>4. NoByteLost'
        BY <1>0, <2>1, <3>1, <3>6, <4>2 DEF NoByteLost
      <4> QED BY <4>3, <4>4 DEF Counted
    <3> QED BY <3>2, <3>7 DEF FullInv
  <2> QED BY <2>4, <2>8, <2>9, BridgeConstants
<1> QED BY <1>5, <1>6

\* The silence after a byte: what has arrived is reported.
LEMMA RxTimeoutStep == ASSUME FullInv, rx_timeout PROVE FullInv'
<1>0. /\ rx' = notify_rx_buffer(rx) /\ received' = received /\ settled' = settled
      /\ UNCHANGED << wr_buf, tx_buf, fifo_uart_tx_data, bt_pc, bt_buf >>
  BY DEF rx_timeout
<1>1. BridgeInv /\ RxInv(rx, Others) /\ Counted
  BY InvFacts DEF FullInv
<1>2. /\ RxInv(rx', Others)
      /\ \A b \in Elements(rx.fifo) \cup Others : b \in Bufs => rx'.len[b] = rx.len[b]
      /\ \/ rx'.fifo = rx.fifo /\ rx'.fill = rx.fill
         \/ /\ rx.buf \in Bufs /\ rx'.fifo = Append(rx.fifo, rx.buf) /\ rx'.fill = 0
            /\ rx'.len[rx.buf] = rx.fill
  BY <1>0, <1>1, NotifyKept
<1>3. BridgeInv'
  BY <1>0, <1>1, <1>2, RxStep
<1>4. /\ received \in Nat /\ settled \in Nat /\ rx.fill \in Nat
      /\ received = settled + Cardinality(Waiting) + rx.fill
      /\ Cardinality(Waiting) \in Nat
  BY <1>1, WaitingNat DEF Counted, NoByteLost, RxInv, RxTyped
<1>5. CASE rx'.fifo = rx.fifo /\ rx'.fill = rx.fill
  <2>1. Cardinality(Waiting)' = Cardinality(Waiting)
    BY <1>0, <1>1, <1>2, <1>5, WaitingSame
  <2> QED BY <1>0, <1>3, <1>4, <1>5, <2>1 DEF FullInv, Counted, NoByteLost
<1>6. CASE /\ rx.buf \in Bufs /\ rx'.fifo = Append(rx.fifo, rx.buf) /\ rx'.fill = 0
           /\ rx'.len[rx.buf] = rx.fill
  <2>1. rx.buf \notin Elements(rx.fifo) /\ rx.buf \notin Others
    BY <1>1, <1>6, BridgeConstants DEF RxInv, RxOwned
  <2>2. rx'.len \in [Bufs -> 0 .. UART_BUF_SIZE] /\ wr_buf' = wr_buf
    BY <1>0, <1>2 DEF RxInv, RxTyped
  <2>3. Cardinality(Waiting)' = Cardinality(Waiting) + rx.fill
    <3>1. Cardinality(Waiting)' = Cardinality(Waiting) + rx'.len[rx.buf]
      BY <1>1, <1>2, <1>6, <2>1, <2>2, WaitingAppend
    <3> QED BY <1>6, <3>1
  <2> QED BY <1>0, <1>3, <1>4, <1>6, <2>3 DEF FullInv, Counted, NoByteLost
<1> QED BY <1>2, <1>5, <1>6

\* uart_work_handler starts the receiver again.
LEMMA UartWorkStep == ASSUME FullInv, uart_work_handler PROVE FullInv'
<1>0. /\ rx.uart_work /\ rx' = enable_or_retry(rx)
      /\ received' = received /\ settled' = settled
      /\ UNCHANGED << wr_buf, tx_buf, fifo_uart_tx_data, bt_pc, bt_buf >>
  BY DEF uart_work_handler
<1>1. BridgeInv /\ RxInv(rx, Others) /\ Counted
  BY InvFacts DEF FullInv
<1>2. /\ rx.buf = NULL /\ rx.next = NULL /\ ~rx.enabled /\ rx.fill = 0 /\ rx.told = 0
      /\ RxTyped(rx) /\ RxOwned(rx, Others)
  BY <1>0, <1>1, BridgeConstants DEF RxInv, RxRetries, RxCounted, RxTyped
<1>3. /\ RxInv(rx', Others) /\ rx'.fifo = rx.fifo /\ rx'.fill = 0
      /\ \A b \in Bufs \ rx.free : rx'.len[b] = rx.len[b]
  BY <1>0, <1>2, EnableKept
<1>4. BridgeInv'
  BY <1>0, <1>1, <1>3, RxStep
<1>5. Cardinality(Waiting)' = Cardinality(Waiting)
  <2>1. \A b \in Elements(rx.fifo) \cup Others : b \in Bufs => rx'.len[b] = rx.len[b]
    BY <1>1, <1>3, InvFacts
  <2> QED BY <1>0, <1>1, <1>3, <2>1, WaitingSame
<1> QED BY <1>0, <1>1, <1>2, <1>3, <1>4, <1>5 DEF FullInv, Counted, NoByteLost

\* k_free gives back a buffer that one of the other owners held.
LEMMA FreeKept ==
  ASSUME NEW r, NEW others, RxInv(r, others), NEW b \in others, b \in Bufs
  PROVE  LET e == k_free(r, b)
         IN /\ RxInv(e, others \ {b}) /\ e.fifo = r.fifo /\ e.fill = r.fill
            /\ e.len \in [Bufs -> 0 .. UART_BUF_SIZE]
            /\ \A c \in Bufs \ {b} : e.len[c] = r.len[c]
<1> DEFINE e == k_free(r, b)
<1>1. RxTyped(r) /\ RxOwned(r, others) /\ RxCounted(r) /\ RxRetries(r)
  BY DEF RxInv
<1>2. /\ DOMAIN e = Fields /\ e.free = r.free \cup {b}
      /\ e.len \in [Bufs -> 0 .. UART_BUF_SIZE]
      /\ \A c \in Bufs \ {b} : e.len[c] = r.len[c]
      /\ e.buf = r.buf /\ e.next = r.next /\ e.fill = r.fill /\ e.told = r.told
      /\ e.fifo = r.fifo /\ e.enabled = r.enabled /\ e.uart_work = r.uart_work
  <2>1. DOMAIN r = Fields /\ r.len \in [Bufs -> 0 .. UART_BUF_SIZE] /\ b \in Bufs
    BY <1>1 DEF RxTyped
  <2> QED BY <2>1, FreeFields
<1> HIDE DEF e
<1>3. b # r.buf /\ b # r.next /\ b \notin Elements(r.fifo) /\ b \notin r.free
  BY <1>1, BridgeConstants DEF RxOwned
<1>4. RxTyped(e)
  BY <1>1, <1>2 DEF RxTyped
<1>5. RxOwned(e, others \ {b})
  BY <1>1, <1>2, <1>3 DEF RxOwned
<1>6. (e.buf # NULL => e.len[e.buf] = e.told) /\ (e.next # NULL => e.len[e.next] = 0)
  BY <1>1, <1>2, <1>3 DEF RxCounted, RxTyped
<1>7. RxCounted(e) /\ RxRetries(e)
  BY <1>1, <1>2, <1>6 DEF RxCounted, RxRetries
<1> QED BY <1>2, <1>4, <1>5, <1>7 DEF RxInv, e

\* ble_write_thread takes the oldest queued buffer.
LEMMA WriteGetStep == ASSUME FullInv, ble_write_get PROVE FullInv'
<1>0. /\ wr_buf = NULL /\ rx.fifo # << >> /\ wr_buf' = Head(rx.fifo)
      /\ rx' = [rx EXCEPT !.fifo = Tail(@)]
      /\ UNCHANGED << tx_buf, fifo_uart_tx_data, bt_pc, bt_buf, received, settled >>
  BY DEF ble_write_get
<1> DEFINE h == Head(rx.fifo)
<1>1. BridgeInv /\ Counted /\ OthersOwned /\ BtOwns /\ Stranded
  BY InvFacts DEF FullInv
<1>2. RxTyped(rx) /\ RxOwned(rx, Others) /\ RxCounted(rx) /\ RxRetries(rx)
  BY <1>1 DEF BridgeInv
<1>3. /\ DOMAIN rx' = Fields /\ rx'.buf = rx.buf /\ rx'.next = rx.next
      /\ rx'.fill = rx.fill /\ rx'.told = rx.told /\ rx'.len = rx.len
      /\ rx'.fifo = Tail(rx.fifo) /\ rx'.free = rx.free /\ rx'.enabled = rx.enabled
      /\ rx'.uart_work = rx.uart_work
  BY <1>0, <1>2 DEF RxTyped, Fields
<1>4. /\ rx'.fifo \in Seq(Bufs) /\ h \in Bufs /\ h \in Elements(rx.fifo)
      /\ Elements(rx'.fifo) = Elements(rx.fifo) \ {h} /\ Distinct(rx'.fifo)
  BY <1>0, <1>2, <1>3, QueueTail DEF RxTyped, RxOwned
<1>5. /\ h # rx.buf /\ h # rx.next /\ h \notin Others /\ h \notin rx.free
      /\ wr_buf' = h /\ h # NULL
  BY <1>0, <1>2, <1>4, BridgeConstants DEF RxOwned
<1> HIDE DEF h
<1>6. Others' = Others \cup {h}
  BY <1>0, <1>5 DEF Others
<1>7. RxTyped(rx')
  BY <1>2, <1>3, <1>4 DEF RxTyped
<1>8. RxOwned(rx', Others')
  BY <1>2, <1>3, <1>4, <1>5, <1>6 DEF RxOwned
<1>9. RxCounted(rx') /\ RxRetries(rx')
  BY <1>2, <1>3 DEF RxCounted, RxRetries
<1>10. OthersOwned'
  <2>1. h \notin Elements(fifo_uart_tx_data) /\ h # tx_buf /\ h # bt_buf
    BY <1>5 DEF Others
  <2>2. /\ Elements(fifo_uart_tx_data)' = Elements(fifo_uart_tx_data)
        /\ Distinct(fifo_uart_tx_data)' = Distinct(fifo_uart_tx_data)
    BY <1>0
  <2> QED BY <1>0, <1>1, <1>4, <1>5, <2>1, <2>2 DEF OthersOwned
<1>11. BtOwns' /\ Stranded'
  BY <1>0, <1>1 DEF BtOwns, Stranded
<1>12. Waiting' = Waiting
  <2>1. Waiting' = Bytes(Elements(rx'.fifo) \cup ({wr_buf'} \ {NULL}), rx'.len)
    BY DEF Waiting, Bytes, Elements
  <2>2. Elements(rx'.fifo) \cup ({wr_buf'} \ {NULL})
          = Elements(rx.fifo) \cup ({wr_buf} \ {NULL})
    BY <1>0, <1>4, <1>5
  <2> QED BY <1>3, <2>1, <2>2, WaitingBytes
<1>13. Counted'
  BY <1>0, <1>1, <1>3, <1>12 DEF Counted, NoByteLost
<1> QED BY <1>7, <1>8, <1>9, <1>10, <1>11, <1>13 DEF FullInv, BridgeInv

\* ... sends its bytes and frees it.
LEMMA WriteSendStep == ASSUME FullInv, ble_write_send PROVE FullInv'
<1>0. /\ wr_buf # NULL /\ settled' = settled + rx.len[wr_buf] /\ rx' = k_free(rx, wr_buf)
      /\ wr_buf' = NULL
      /\ UNCHANGED << tx_buf, fifo_uart_tx_data, bt_pc, bt_buf, received >>
  BY DEF ble_write_send
<1>1. BridgeInv /\ Counted /\ RxInv(rx, Others) /\ OthersOwned /\ BtOwns /\ Stranded
  BY InvFacts DEF FullInv
<1>2. wr_buf \in Others /\ wr_buf \in Bufs /\ wr_buf \notin Elements(rx.fifo)
  BY <1>0, <1>1, InvFacts
<1>3. Others' = Others \ {wr_buf}
  BY <1>0, <1>1 DEF Others, OthersOwned
<1>4. /\ RxInv(rx', Others') /\ rx'.fifo = rx.fifo /\ rx'.fill = rx.fill
      /\ \A c \in Bufs \ {wr_buf} : rx'.len[c] = rx.len[c]
  BY <1>0, <1>1, <1>2, <1>3, FreeKept
<1>5. OthersOwned'
  <2>1. /\ Elements(fifo_uart_tx_data)' = Elements(fifo_uart_tx_data)
        /\ Distinct(fifo_uart_tx_data)' = Distinct(fifo_uart_tx_data)
    BY <1>0
  <2>2. \A b \in Elements(fifo_uart_tx_data) : b # NULL
    BY <1>1, BridgeConstants, InvFacts
  <2> QED BY <1>0, <1>1, <2>1, <2>2 DEF OthersOwned
<1>6. BtOwns' /\ Stranded'
  BY <1>0, <1>1 DEF BtOwns, Stranded
<1>7. BridgeInv'
  BY <1>4, <1>5, <1>6 DEF RxInv, BridgeInv
<1>8. /\ Cardinality(Waiting) = Cardinality(Waiting)' + rx.len[wr_buf]
      /\ Cardinality(Waiting)' \in Nat
  <2> DEFINE S == Elements(rx.fifo)
             w == wr_buf
  <2>1. Waiting' = Bytes(S, rx'.len)
    <3>1. Waiting' = Bytes(Elements(rx'.fifo) \cup ({wr_buf'} \ {NULL}), rx'.len)
      BY DEF Waiting, Bytes, Elements
    <3>2. Elements(rx'.fifo) \cup ({wr_buf'} \ {NULL}) = S
      BY <1>0, <1>4
    <3> QED BY <3>1, <3>2
  <2>2. S \in SUBSET Bufs /\ w \in Bufs \ S /\ rx.len \in [Bufs -> 0 .. UART_BUF_SIZE]
    BY <1>1, <1>2, InvFacts
  <2>3. Waiting = Bytes(S \cup {w}, rx.len)
    <3>1. S \cup ({wr_buf} \ {NULL}) = S \cup {w}
      BY <1>0
    <3> QED BY <3>1, WaitingBytes
  <2>4. \A b \in S : rx'.len[b] = rx.len[b]
    BY <1>4, <2>2
  <2> HIDE DEF S, w
  <2>5. Bytes(S, rx'.len) = Bytes(S, rx.len)
    BY <2>2, <2>4, BytesSame
  <2>6. /\ Cardinality(Bytes(S \cup {w}, rx.len)) = Cardinality(Bytes(S, rx.len)) + rx.len[w]
        /\ Cardinality(Bytes(S, rx.len)) \in Nat
    BY <2>2, BytesAdd
  <2>7. /\ Cardinality(Waiting) = Cardinality(Waiting') + rx.len[w]
        /\ Cardinality(Waiting') \in Nat
    BY <2>1, <2>3, <2>5, <2>6
  <2> QED BY <2>7 DEF w
<1>9. Counted'
  <2>1. rx.len[wr_buf] \in Nat /\ rx.fill \in Nat
    BY <1>1, <1>2, BridgeConstants DEF RxInv, RxTyped
  <2> QED BY <1>0, <1>1, <1>4, <1>8, <2>1 DEF Counted, NoByteLost
<1> QED BY <1>7, <1>9 DEF FullInv

\* A write arrives.
LEMMA ReceiveStartStep == ASSUME FullInv, bt_receive_start PROVE FullInv'
<1>0. /\ bt_pc = "idle" /\ bt_pc' = "alloc"
      /\ UNCHANGED << rx, wr_buf, tx_buf, fifo_uart_tx_data, bt_buf, received, settled >>
  BY DEF bt_receive_start
<1>1. BridgeInv /\ Counted /\ RxInv(rx, Others) /\ OthersOwned /\ BtOwns /\ Stranded
  BY InvFacts DEF FullInv
<1>2. Others' = Others /\ OthersOwned' /\ Waiting' = Waiting
  BY <1>0, <1>1 DEF Others, OthersOwned, Waiting
<1>3. BtOwns' /\ Stranded'
  BY <1>0, <1>1 DEF BtOwns, Stranded
<1>4. Counted'
  BY <1>0, <1>1, <1>2 DEF Counted, NoByteLost
<1> QED BY <1>0, <1>1, <1>2, <1>3, <1>4 DEF FullInv, BridgeInv, RxInv

\* bt_receive_cb takes a buffer from the heap, or ends.
LEMMA ReceiveAllocStep == ASSUME FullInv, bt_receive_alloc PROVE FullInv'
<1>0. /\ bt_pc = "alloc"
      /\ UNCHANGED << wr_buf, tx_buf, fifo_uart_tx_data, received, settled >>
  BY DEF bt_receive_alloc
<1>1. BridgeInv /\ Counted /\ RxInv(rx, Others) /\ OthersOwned /\ BtOwns /\ Stranded
  BY InvFacts DEF FullInv
<1>2. bt_buf = NULL
  BY <1>0, <1>1 DEF BtOwns
<1>3. CASE bt_left = 0 \/ rx.free = {}
  <2>1. bt_pc' = "idle" /\ UNCHANGED << rx, bt_buf >>
    BY <1>3 DEF bt_receive_alloc
  <2>2. Others' = Others /\ OthersOwned' /\ Waiting' = Waiting
    BY <1>0, <1>1, <2>1 DEF Others, OthersOwned, Waiting
  <2>3. BtOwns' /\ Stranded'
    BY <1>0, <1>1, <2>1 DEF BtOwns, Stranded
  <2>4. Counted'
    BY <1>0, <1>1, <2>1, <2>2 DEF Counted, NoByteLost
  <2> QED BY <1>1, <2>1, <2>2, <2>3, <2>4 DEF FullInv, BridgeInv, RxInv
<1>4. CASE ~(bt_left = 0 \/ rx.free = {})
  <2>1. /\ bt_buf' = k_malloc(rx.free) /\ rx' = [rx EXCEPT !.free = @ \ {bt_buf'}]
        /\ bt_pc' = "tx"
    BY <1>4 DEF bt_receive_alloc
  <2> DEFINE b == bt_buf'
  <2>2. RxTyped(rx) /\ RxOwned(rx, Others) /\ RxCounted(rx) /\ RxRetries(rx)
    BY <1>1 DEF RxInv
  <2>3. b \in rx.free
    BY <1>4, <2>1, MallocFree
  <2>4. /\ DOMAIN rx' = Fields /\ rx'.buf = rx.buf /\ rx'.next = rx.next
        /\ rx'.fill = rx.fill /\ rx'.told = rx.told /\ rx'.len = rx.len
        /\ rx'.fifo = rx.fifo /\ rx'.free = rx.free \ {b} /\ rx'.enabled = rx.enabled
        /\ rx'.uart_work = rx.uart_work
    BY <2>1, <2>2 DEF RxTyped, Fields
  <2>5. /\ b \in Bufs /\ b # NULL /\ b \notin Others /\ b \notin Elements(rx.fifo)
        /\ b # rx.buf /\ b # rx.next
    BY <2>2, <2>3, BridgeConstants DEF RxTyped, RxOwned
  <2>6. Others' = Others \cup {b}
    BY <1>0, <1>2, <2>5 DEF Others
  <2> HIDE DEF b
  <2>7. RxTyped(rx')
    BY <2>2, <2>4 DEF RxTyped
  <2>8. RxOwned(rx', Others')
    BY <2>2, <2>4, <2>5, <2>6 DEF RxOwned
  <2>9. RxCounted(rx') /\ RxRetries(rx')
    BY <2>2, <2>4 DEF RxCounted, RxRetries
  <2>10. OthersOwned'
    <3>1. /\ b \notin Elements(fifo_uart_tx_data) /\ (wr_buf # NULL => b # wr_buf)
          /\ (tx_buf # NULL => b # tx_buf) /\ bt_buf' = b
      BY <2>5 DEF Others, b
    <3>2. /\ Elements(fifo_uart_tx_data)' = Elements(fifo_uart_tx_data)
          /\ Distinct(fifo_uart_tx_data)' = Distinct(fifo_uart_tx_data)
      BY <1>0
    <3> QED BY <1>0, <1>1, <2>5, <3>1, <3>2 DEF OthersOwned
  <2>11. BtOwns' /\ Stranded'
    BY <1>0, <1>1, <2>1, <2>5 DEF BtOwns, Stranded, b
  <2>12. Waiting' = Waiting
    BY <1>0, <2>4 DEF Waiting
  <2>13. Counted'
    BY <1>0, <1>1, <2>4, <2>12 DEF Counted, NoByteLost
  <2> QED BY <2>7, <2>8, <2>9, <2>10, <2>11, <2>13 DEF FullInv, BridgeInv
<1> QED BY <1>3, <1>4

\* uart_tx takes the buffer, or refuses it.
LEMMA ReceiveTxStep == ASSUME FullInv, bt_receive_tx PROVE FullInv'
<1>0. /\ bt_pc = "tx"
      /\ \/ tx_buf = NULL /\ tx_buf' = bt_buf /\ bt_buf' = NULL /\ bt_pc' = "alloc"
         \/ tx_buf # NULL /\ bt_pc' = "put" /\ tx_buf' = tx_buf /\ bt_buf' = bt_buf
      /\ UNCHANGED << rx, wr_buf, fifo_uart_tx_data, received, settled >>
  BY DEF bt_receive_tx
<1>1. BridgeInv /\ Counted /\ RxInv(rx, Others) /\ OthersOwned /\ BtOwns /\ Stranded
  BY InvFacts DEF FullInv
<1>2. bt_buf # NULL /\ bt_buf \in Bufs
  BY <1>0, <1>1 DEF BtOwns, OthersOwned
<1>3. Others' = Others
  BY <1>0 DEF Others
<1>4. OthersOwned'
  <2>1. /\ Elements(fifo_uart_tx_data)' = Elements(fifo_uart_tx_data)
        /\ Distinct(fifo_uart_tx_data)' = Distinct(fifo_uart_tx_data)
    BY <1>0
  <2>2. \A b \in Elements(fifo_uart_tx_data) : b # NULL
    BY <1>1, BridgeConstants, InvFacts
  <2> QED BY <1>0, <1>1, <1>2, <2>1, <2>2 DEF OthersOwned
<1>5. BtOwns' /\ Stranded'
  BY <1>0, <1>1, <1>2 DEF BtOwns, Stranded
<1>6. Waiting' = Waiting
  BY <1>0 DEF Waiting
<1>7. Counted'
  BY <1>0, <1>1, <1>6 DEF Counted, NoByteLost
<1> QED BY <1>0, <1>1, <1>3, <1>4, <1>5, <1>7 DEF FullInv, BridgeInv, RxInv

\* The refused buffer is queued.
LEMMA ReceivePutStep == ASSUME FullInv, bt_receive_put PROVE FullInv'
<1>0. /\ bt_pc = "put" /\ fifo_uart_tx_data' = Append(fifo_uart_tx_data, bt_buf)
      /\ bt_buf' = NULL /\ bt_pc' = "alloc"
      /\ UNCHANGED << rx, wr_buf, tx_buf, received, settled >>
  BY DEF bt_receive_put
<1>1. BridgeInv /\ Counted /\ RxInv(rx, Others) /\ OthersOwned /\ BtOwns /\ Stranded
  BY InvFacts DEF FullInv
<1>2. bt_buf # NULL /\ bt_buf \in Bufs /\ bt_buf \notin Elements(fifo_uart_tx_data)
  BY <1>0, <1>1 DEF BtOwns, OthersOwned
<1>3. /\ fifo_uart_tx_data' \in Seq(Bufs) /\ Distinct(fifo_uart_tx_data')
      /\ Elements(fifo_uart_tx_data') = Elements(fifo_uart_tx_data) \cup {bt_buf}
      /\ Len(fifo_uart_tx_data') = Len(fifo_uart_tx_data) + 1
  BY <1>0, <1>1, <1>2, QueueAppend DEF OthersOwned
<1>4. Others' = Others
  <2>1. Others' = Elements(fifo_uart_tx_data') \cup ({wr_buf', tx_buf', bt_buf'} \ {NULL})
    BY DEF Others, Elements
  <2> QED BY <1>0, <1>2, <1>3, <2>1 DEF Others
<1>5. OthersOwned'
  <2>1. \A b \in Elements(fifo_uart_tx_data') : b # wr_buf /\ b # tx_buf /\ b # NULL
    <3>1. \A b \in Elements(fifo_uart_tx_data) : b # NULL /\ b # wr_buf /\ b # tx_buf
      BY <1>1, BridgeConstants, InvFacts DEF OthersOwned
    <3>2. bt_buf # wr_buf /\ bt_buf # tx_buf
      BY <1>1, <1>2 DEF OthersOwned
    <3> QED BY <1>2, <1>3, <3>1, <3>2
  <2>2. \A b \in Elements(fifo_uart_tx_data)' : b # wr_buf' /\ b # tx_buf' /\ b # bt_buf'
    BY <1>0, <2>1
  <2>3. Distinct(fifo_uart_tx_data)'
    BY <1>3
  <2> QED BY <1>0, <1>1, <1>3, <2>2, <2>3 DEF OthersOwned
<1>6. BtOwns' /\ Stranded'
  <2>1. fifo_uart_tx_data = << >> => Len(fifo_uart_tx_data) = 0
    OBVIOUS
  <2> QED BY <1>0, <1>1, <1>3, <2>1 DEF BtOwns, Stranded
<1>7. Waiting' = Waiting
  BY <1>0 DEF Waiting
<1>8. Counted'
  BY <1>0, <1>1, <1>7 DEF Counted, NoByteLost
<1> QED BY <1>0, <1>1, <1>4, <1>5, <1>6, <1>8 DEF FullInv, BridgeInv, RxInv

\* UART_TX_DONE frees the buffer and starts the next one.
LEMMA TxCompleteStep == ASSUME FullInv, on_tx_complete PROVE FullInv'
<1>0. /\ tx_buf # NULL /\ rx' = k_free(rx, tx_buf)
      /\ UNCHANGED << wr_buf, bt_pc, bt_buf, received, settled >>
  BY DEF on_tx_complete
<1>1. BridgeInv /\ Counted /\ RxInv(rx, Others) /\ OthersOwned /\ BtOwns /\ Stranded
  BY InvFacts DEF FullInv
<1>2. /\ tx_buf \in Others /\ tx_buf \in Bufs
      /\ \A b \in Elements(fifo_uart_tx_data) : /\ b \in Bufs /\ b # NULL /\ b # wr_buf
                                                /\ b # tx_buf /\ b # bt_buf
  BY <1>0, <1>1, BridgeConstants, InvFacts DEF Others, OthersOwned
<1>3. /\ Others' = Others \ {tx_buf} /\ OthersOwned' /\ Stranded'
  <2>1. CASE fifo_uart_tx_data = << >>
    <3>1. tx_buf' = NULL /\ fifo_uart_tx_data' = fifo_uart_tx_data
      BY <2>1 DEF on_tx_complete
    <3>2. /\ Elements(fifo_uart_tx_data)' = Elements(fifo_uart_tx_data)
          /\ Distinct(fifo_uart_tx_data)' = Distinct(fifo_uart_tx_data)
      BY <3>1
    <3>3. Others' = Others \ {tx_buf}
      BY <1>0, <1>1, <1>2, <3>1, <3>2 DEF Others, OthersOwned
    <3>4. OthersOwned'
      BY <1>0, <1>1, <1>2, <3>1, <3>2 DEF OthersOwned
    <3>5. Stranded'
      BY <2>1, <3>1 DEF Stranded
    <3> QED BY <3>3, <3>4, <3>5
  <2>2. CASE fifo_uart_tx_data # << >>
    <3> DEFINE h == Head(fifo_uart_tx_data)
    <3>1. tx_buf' = h /\ fifo_uart_tx_data' = Tail(fifo_uart_tx_data)
      BY <2>2 DEF on_tx_complete
    <3>2. /\ fifo_uart_tx_data' \in Seq(Bufs) /\ Distinct(fifo_uart_tx_data')
          /\ h \in Bufs /\ h \in Elements(fifo_uart_tx_data)
          /\ Elements(fifo_uart_tx_data') = Elements(fifo_uart_tx_data) \ {h}
      BY <1>1, <2>2, <3>1, QueueTail DEF OthersOwned
    <3> HIDE DEF h
    <3>3. Others' = Elements(fifo_uart_tx_data') \cup ({wr_buf', tx_buf', bt_buf'} \ {NULL})
      BY DEF Others, Elements
    <3>4. Others' = Others \ {tx_buf}
      BY <1>0, <1>1, <1>2, <3>1, <3>2, <3>3 DEF Others, OthersOwned
    <3>5. OthersOwned'
      <4>1. /\ \A b \in Elements(fifo_uart_tx_data)' : b # wr_buf' /\ b # tx_buf' /\ b # bt_buf'
            /\ Distinct(fifo_uart_tx_data)'
        BY <1>0, <1>2, <3>1, <3>2
      <4> QED BY <1>0, <1>1, <1>2, <3>1, <3>2, <4>1 DEF OthersOwned
    <3>6. Stranded'
      BY <1>2, <3>1, <3>2 DEF Stranded
    <3> QED BY <3>4, <3>5, <3>6
  <2> QED BY <2>1, <2>2
<1>4. /\ RxInv(rx', Others') /\ rx'.fifo = rx.fifo /\ rx'.fill = rx.fill
      /\ \A c \in Bufs \ {tx_buf} : rx'.len[c] = rx.len[c]
  BY <1>0, <1>1, <1>2, <1>3, FreeKept
<1>5. BtOwns'
  BY <1>0, <1>1 DEF BtOwns
<1>6. Waiting' = Waiting
  <2> DEFINE S == Elements(rx.fifo) \cup ({wr_buf} \ {NULL})
  <2>1. Waiting' = Bytes(Elements(rx'.fifo) \cup ({wr_buf'} \ {NULL}), rx'.len)
    BY DEF Waiting, Bytes, Elements
  <2>2. Elements(rx'.fifo) \cup ({wr_buf'} \ {NULL}) = S
    BY <1>0, <1>4
  <2>3. S \in SUBSET Bufs /\ tx_buf \notin S
    BY <1>0, <1>1, <1>2, InvFacts DEF OthersOwned
  <2> HIDE DEF S
  <2>4. \A b \in S : rx'.len[b] = rx.len[b]
    BY <1>4, <2>3
  <2>5. Bytes(S, rx'.len) = Bytes(S, rx.len)
    BY <2>3, <2>4, BytesSame
  <2> QED BY <2>1, <2>2, <2>5, WaitingBytes DEF S
<1>7. Counted'
  BY <1>0, <1>1, <1>4, <1>6 DEF Counted, NoByteLost
<1> QED BY <1>3, <1>4, <1>5, <1>7 DEF FullInv, BridgeInv, RxInv

\* The invariant is inductive.
LEMMA BridgeStep == FullInv /\ [Next]_vars => FullInv'
<1> SUFFICES ASSUME FullInv, [Next]_vars PROVE FullInv'
  OBVIOUS
<1>1. ASSUME NEW nl \in BOOLEAN, on_rx_ready(nl) PROVE FullInv'
  BY <1>1, RxReadyStep
<1>2. CASE on_tx_complete
  BY <1>2, TxCompleteStep
<1>3. CASE rx_timeout
  BY <1>3, RxTimeoutStep
<1>4. CASE uart_work_handler
  BY <1>4, UartWorkStep
<1>5. CASE ble_write_get
  BY <1>5, WriteGetStep
<1>6. CASE ble_write_send
  BY <1>6, WriteSendStep
<1>7. CASE bt_receive_start
  BY <1>7, ReceiveStartStep
<1>8. CASE bt_receive_alloc
  BY <1>8, ReceiveAllocStep
<1>9. CASE bt_receive_tx
  BY <1>9, ReceiveTxStep
<1>10. CASE bt_receive_put
  BY <1>10, ReceivePutStep
<1>11. CASE UNCHANGED vars
  <2>1. /\ UNCHANGED << rx, wr_buf, tx_buf, fifo_uart_tx_data, bt_pc, bt_buf >>
        /\ UNCHANGED << received, settled >>
    BY <1>11 DEF vars
  <2>2. BridgeInv /\ RxInv(rx, Others) /\ Counted
    BY InvFacts DEF FullInv
  <2>3. BridgeInv'
    BY <2>1, <2>2, RxStep
  <2>4. Waiting' = Waiting
    BY <2>1 DEF Waiting
  <2> QED BY <2>1, <2>2, <2>3, <2>4 DEF FullInv, Counted, NoByteLost
<1> QED BY <1>1, <1>2, <1>3, <1>4, <1>5, <1>6, <1>7, <1>8, <1>9, <1>10, <1>11
        DEF Next, uart_irq_handler, ble_write_thread, bt_receive_cb

LEMMA BridgeInvariant == Spec => []FullInv
BY BridgeInit, BridgeStep, PTL DEF Spec

\* Where the elements of a concatenation are.
LEMMA ConcatAt ==
  ASSUME NEW S, NEW s \in Seq(S), NEW t \in Seq(S)
  PROVE  /\ s \o t \in Seq(S) /\ Len(s \o t) = Len(s) + Len(t)
         /\ DOMAIN (s \o t) = 1 .. Len(s) + Len(t)
         /\ \A i \in 1 .. Len(s) : (s \o t)[i] = s[i]
         /\ \A i \in 1 .. Len(t) : (s \o t)[Len(s) + i] = t[i]
<1>1. s \o t \in Seq(S) /\ Len(s \o t) = Len(s) + Len(t)
  OBVIOUS
<1>2. DOMAIN (s \o t) = 1 .. Len(s) + Len(t)
  BY <1>1
<1>3. \A i \in 1 .. Len(s) : (s \o t)[i] = s[i]
  OBVIOUS
<1>4. ASSUME NEW i \in 1 .. Len(t) PROVE (s \o t)[Len(s) + i] = t[i]
  <2>1. /\ Len(s) + i \in 1 .. Len(s) + Len(t) /\ Len(s) + i > Len(s)
        /\ (Len(s) + i) - Len(s) = i
    OBVIOUS
  <2> QED BY <2>1
<1> QED BY <1>1, <1>2, <1>3, <1>4

\* The places of a buffer in the list of all owners: exactly one, or none for a
\* free buffer.
LEMMA PlacesOfBuffer ==
  ASSUME BridgeInv, NEW b \in Bufs
  PROVE  LET places == {i \in DOMAIN Held : Held[i] = b}
         IN IF b \in rx.free THEN places = {} ELSE \E i \in DOMAIN Held : places = {i}
<1> DEFINE f == rx.fifo
           g == fifo_uart_tx_data
           five == << rx.buf, rx.next, wr_buf, tx_buf, bt_buf >>
           n == Len(f)
           m == Len(g)
<1>1. RxTyped(rx) /\ RxOwned(rx, Others) /\ OthersOwned
  BY DEF BridgeInv
<1>2. /\ f \in Seq(Bufs) /\ g \in Seq(Bufs) /\ n \in Nat /\ m \in Nat
      /\ DOMAIN f = 1 .. n /\ DOMAIN g = 1 .. m
      /\ Distinct(f) /\ Distinct(g)
  BY <1>1 DEF RxTyped, RxOwned, OthersOwned
<1>3. five \in Seq(Bufs \cup {NULL}) /\ Len(five) = 5
  BY <1>1 DEF RxTyped, OthersOwned
<1>4. /\ five[1] = rx.buf /\ five[2] = rx.next /\ five[3] = wr_buf /\ five[4] = tx_buf
      /\ five[5] = bt_buf
  OBVIOUS
<1>5. Held = f \o g \o five
  BY DEF Held
<1> DEFINE fg == f \o g
<1> HIDE DEF f, g, five
<1>6. /\ fg \in Seq(Bufs \cup {NULL}) /\ Len(fg) = n + m
      /\ \A i \in 1 .. n : fg[i] = f[i]
      /\ \A i \in 1 .. m : fg[n + i] = g[i]
  <2>1. f \in Seq(Bufs \cup {NULL}) /\ g \in Seq(Bufs \cup {NULL})
    BY <1>2
  <2> QED BY <2>1, ConcatAt
<1> HIDE DEF fg, n, m
<1>7. /\ DOMAIN (fg \o five) = 1 .. n + m + 5
      /\ \A i \in 1 .. n + m : (fg \o five)[i] = fg[i]
      /\ \A i \in 1 .. 5 : (fg \o five)[n + m + i] = five[i]
  <2>1. /\ DOMAIN (fg \o five) = 1 .. Len(fg) + Len(five)
        /\ \A i \in 1 .. Len(fg) : (fg \o five)[i] = fg[i]
        /\ \A i \in 1 .. Len(five) : (fg \o five)[Len(fg) + i] = five[i]
    <3> DEFINE S == Bufs \cup {NULL}
    <3>1. fg \in Seq(S) /\ five \in Seq(S)
      BY <1>3, <1>6
    <3> HIDE DEF S
    <3> QED BY <3>1, ConcatAt
  <2> QED BY <1>3, <1>6, <2>1, Zenon
<1>8. /\ DOMAIN Held = 1 .. n + m + 5
      /\ \A i \in 1 .. n : Held[i] = f[i]
      /\ \A i \in 1 .. m : Held[n + i] = g[i]
      /\ Held[n + m + 1] = rx.buf /\ Held[n + m + 2] = rx.next
      /\ Held[n + m + 3] = wr_buf /\ Held[n + m + 4] = tx_buf /\ Held[n + m + 5] = bt_buf
  <2>1. \A i \in 1 .. n : i \in 1 .. n + m
    BY <1>2
  <2>2. \A i \in 1 .. m : n + i \in 1 .. n + m
    BY <1>2
  <2>3. Held = fg \o five
    BY <1>5 DEF fg
  <2>4. /\ Held[n + m + 1] = five[1] /\ Held[n + m + 2] = five[2]
        /\ Held[n + m + 3] = five[3] /\ Held[n + m + 4] = five[4]
        /\ Held[n + m + 5] = five[5]
    <3>1. 1 \in 1 .. 5 /\ 2 \in 1 .. 5 /\ 3 \in 1 .. 5 /\ 4 \in 1 .. 5 /\ 5 \in 1 .. 5
      OBVIOUS
    <3> QED BY <1>7, <2>3, <3>1, Zenon
  <2>5. DOMAIN Held = 1 .. n + m + 5
    BY <1>7, <2>3
  <2>6. \A i \in 1 .. n : Held[i] = f[i]
    BY <1>6, <1>7, <2>1, <2>3
  <2>7. \A i \in 1 .. m : Held[n + i] = g[i]
    BY <1>6, <1>7, <2>2, <2>3
  <2> QED BY <1>4, <2>4, <2>5, <2>6, <2>7
<1>9. \A i \in DOMAIN Held : \/ i \in 1 .. n \/ \E j \in 1 .. m : i = n + j
                             \/ i \in {n + m + 1, n + m + 2, n + m + 3, n + m + 4, n + m + 5}
  <2> SUFFICES ASSUME NEW i \in 1 .. n + m + 5, i \notin 1 .. n,
                      i \notin {n + m + 1, n + m + 2, n + m + 3, n + m + 4, n + m + 5}
               PROVE  i - n \in 1 .. m /\ i = n + (i - n)
    BY <1>8
  <2> QED BY <1>2
<1>10. /\ \A i \in 1 .. n : f[i] \in Elements(f)
       /\ \A i \in 1 .. m : g[i] \in Elements(g)
  BY <1>2 DEF Elements
<1>11. b # NULL
  BY BridgeConstants
<1> DEFINE places == {i \in DOMAIN Held : Held[i] = b}
<1>12. Others = Elements(g) \cup ({wr_buf, tx_buf, bt_buf} \ {NULL})
  BY DEF Others, g
<1>13. CASE b \in rx.free
  <2>1. /\ b \notin Elements(f) /\ b \notin Elements(g) /\ b # rx.buf /\ b # rx.next
        /\ b # wr_buf /\ b # tx_buf /\ b # bt_buf
    BY <1>1, <1>11, <1>12, <1>13 DEF RxOwned, f
  <2>2. \A i \in DOMAIN Held : Held[i] # b
    BY <1>8, <1>9, <1>10, <2>1
  <2> QED BY <1>13, <2>2
<1>14. CASE b \in Elements(f)
  <2>1. /\ b \notin rx.free /\ b \notin Elements(g) /\ b # rx.buf /\ b # rx.next
        /\ b # wr_buf /\ b # tx_buf /\ b # bt_buf
    BY <1>1, <1>11, <1>12, <1>14 DEF RxOwned, f
  <2>2. PICK k \in 1 .. n : f[k] = b
    BY <1>2, <1>14 DEF Elements
  <2>3. \A i \in 1 .. n : f[i] = b => i = k
    BY <1>2, <2>2 DEF Distinct
  <2>4. k \in DOMAIN Held /\ Held[k] = b
    BY <1>2, <1>8, <2>2
  <2>5. \A i \in DOMAIN Held : Held[i] = b => i = k
    BY <1>8, <1>9, <1>10, <2>1, <2>3
  <2> QED BY <2>1, <2>4, <2>5
<1>15. CASE b \in Elements(g)
  <2>1. /\ b \notin rx.free /\ b \notin Elements(f) /\ b # rx.buf /\ b # rx.next
        /\ b # wr_buf /\ b # tx_buf /\ b # bt_buf
    BY <1>1, <1>11, <1>12, <1>15 DEF RxOwned, OthersOwned, f, g
  <2>2. PICK k \in 1 .. m : g[k] = b
    BY <1>2, <1>15 DEF Elements
  <2>3. \A i \in 1 .. m : g[i] = b => i = k
    BY <1>2, <2>2 DEF Distinct
  <2>4. n + k \in DOMAIN Held /\ Held[n + k] = b
    BY <1>2, <1>8, <2>2
  <2>5. \A i \in DOMAIN Held : Held[i] = b => i = n + k
    BY <1>8, <1>9, <1>10, <2>1, <2>3
  <2> QED BY <2>1, <2>4, <2>5
<1>16. CASE b \in {rx.buf, rx.next, wr_buf, tx_buf, bt_buf}
  <2>1. b \notin rx.free /\ b \notin Elements(f) /\ b \notin Elements(g)
    BY <1>1, <1>11, <1>12, <1>16 DEF RxOwned, OthersOwned, f, g
  <2>2. /\ b = rx.buf => b # rx.next /\ b # wr_buf /\ b # tx_buf /\ b # bt_buf
        /\ b = rx.next => b # wr_buf /\ b # tx_buf /\ b # bt_buf
        /\ b = wr_buf => b # tx_buf /\ b # bt_buf
        /\ b = tx_buf => b # bt_buf
    BY <1>1, <1>11, <1>12 DEF RxOwned, OthersOwned
  <2>3. \A i \in DOMAIN Held : Held[i] = b =>
           i \in {n + m + 1, n + m + 2, n + m + 3, n + m + 4, n + m + 5}
    BY <1>8, <1>9, <1>10, <2>1
  <2>4. \A i \in {n + m + 1, n + m + 2, n + m + 3, n + m + 4, n + m + 5} : i \in DOMAIN Held
    BY <1>2, <1>8
  <2>5. \E k \in DOMAIN Held : Held[k] = b /\ \A i \in DOMAIN Held : Held[i] = b => i = k
    <3>1. CASE b = rx.buf
      <4>1. n + m + 1 \in DOMAIN Held /\ Held[n + m + 1] = b
        BY <1>8, <2>4, <3>1
      <4>2. \A i \in DOMAIN Held : Held[i] = b => i = n + m + 1
        BY <1>8, <2>2, <2>3, <3>1
      <4> QED BY <4>1, <4>2
    <3>2. CASE b = rx.next
      <4>1. n + m + 2 \in DOMAIN Held /\ Held[n + m + 2] = b
        BY <1>8, <2>4, <3>2
      <4>2. \A i \in DOMAIN Held : Held[i] = b => i = n + m + 2
        BY <1>8, <2>2, <2>3, <3>2
      <4> QED BY <4>1, <4>2
    <3>3. CASE b = wr_buf
      <4>1. n + m + 3 \in DOMAIN Held /\ Held[n + m + 3] = b
        BY <1>8, <2>4, <3>3
      <4>2. \A i \in DOMAIN Held : Held[i] = b => i = n + m + 3
        BY <1>8, <2>2, <2>3, <3>3
      <4> QED BY <4>1, <4>2
    <3>4. CASE b = tx_buf
      <4>1. n + m + 4 \in DOMAIN Held /\ Held[n + m + 4] = b
        BY <1>8, <2>4, <3>4
      <4>2. \A i \in DOMAIN Held : Held[i] = b => i = n + m + 4
        BY <1>8, <2>2, <2>3, <3>4
      <4> QED BY <4>1, <4>2
    <3>5. CASE b = bt_buf
      <4>1. n + m + 5 \in DOMAIN Held /\ Held[n + m + 5] = b
        BY <1>8, <2>4, <3>5
      <4>2. \A i \in DOMAIN Held : Held[i] = b => i = n + m + 5
        BY <1>8, <2>2, <2>3, <3>5
      <4> QED BY <4>1, <4>2
    <3> QED BY <1>16, <3>1, <3>2, <3>3, <3>4, <3>5
  <2>6. PICK k \in DOMAIN Held : Held[k] = b /\ \A i \in DOMAIN Held : Held[i] = b => i = k
    BY <2>5
  <2>7. places = {k}
    BY <2>6
  <2> QED BY <2>1, <2>7
<1> QED BY <1>1, <1>12, <1>13, <1>14, <1>15, <1>16 DEF RxOwned, f

\* The types of the bridge, for every number and size of buffers.
THEOREM BridgeTyped == Spec => []TypeOK
<1>1. FullInv => TypeOK
  <2> SUFFICES ASSUME FullInv PROVE TypeOK
    OBVIOUS
  <2>1. RxTyped(rx) /\ RxCounted(rx) /\ OthersOwned /\ BtOwns
    BY DEF FullInv, BridgeInv
  <2>2. rx.fill \in 0 .. UART_BUF_SIZE /\ rx.told \in 0 .. rx.fill
    BY <2>1, BridgeConstants DEF RxTyped, RxCounted
  <2> QED BY <2>1, <2>2 DEF TypeOK, RxTyped, OthersOwned, BtOwns
<1> QED BY <1>1, BridgeInvariant, PTL

\* Through every cascade of callbacks a buffer is free or has exactly one owner:
\* uart_cb, ble_write_thread, bt_receive_cb and the adapter share one heap and
\* none of them leaks a buffer, frees it twice or uses it after it was freed.
THEOREM BuffersHaveOneOwner == Spec => []OneOwner
<1>1. FullInv => OneOwner
  <2> SUFFICES ASSUME FullInv, NEW b \in Bufs
               PROVE  Cardinality({i \in DOMAIN Held : Held[i] = b})
                        = (IF b \in rx.free THEN 0 ELSE 1)
    BY DEF OneOwner
  <2> DEFINE places == {i \in DOMAIN Held : Held[i] = b}
  <2>1. IF b \in rx.free THEN places = {} ELSE \E i \in DOMAIN Held : places = {i}
    BY PlacesOfBuffer DEF FullInv
  <2> HIDE DEF places
  <2>2. CASE b \in rx.free
    BY <2>1, <2>2, FS_EmptySet DEF places
  <2>3. CASE b \notin rx.free
    <3>1. PICK i \in DOMAIN Held : places = {i}
      BY <2>1, <2>3
    <3>2. Cardinality(places) = 1
      BY <3>1, FS_Singleton
    <3> QED BY <2>3, <3>2 DEF places
  <2> QED BY <2>2, <2>3
<1> QED BY <1>1, BridgeInvariant, PTL

\* Every byte received on the UART was dropped for want of a buffer, has been
\* sent over BLE, or is in exactly one buffer on the way there.
THEOREM BridgeLosesNoByte == Spec => []NoByteLost
<1>1. FullInv => NoByteLost
  BY DEF FullInv, Counted
<1> QED BY <1>1, BridgeInvariant, PTL

\* However bt_receive_cb and UART_TX_DONE race, an idle UART leaves at most one
\* buffer behind in the queue.
THEOREM StrandsAtMostOne == Spec => []AtMostOneStranded
<1>1. FullInv => AtMostOneStranded
  BY DEF FullInv, BridgeInv, Stranded, AtMostOneStranded
<1> QED BY <1>1, BridgeInvariant, PTL
=============================================================================
