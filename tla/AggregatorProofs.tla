-------------------------- MODULE AggregatorProofs --------------------------
(***************************************************************************)
(* Theorems about Aggregator for every limit, every heap and every set of  *)
(* data.  The invariant is AggTypeOK /\ CountIsLength /\ HeapSafe: the     *)
(* counter decides which branch aggregator_put takes, so what happens to   *)
(* the blocks can only be shown together with what the counter says.       *)
(***************************************************************************)
EXTENDS Aggregator, SequenceTheorems, TLAPS

AggInv == AggTypeOK /\ CountIsLength /\ HeapSafe

-----------------------------------------------------------------------------
\* The empty queue the firmware starts with satisfies the inductive invariant.
LEMMA AggInitInv == AggInit => AggInv
  BY AggregatorAssumption DEF AggInit, AggInv, AggTypeOK, CountIsLength, HeapSafe,
     BlocksOwnedOnce, NoBlockLost

\* Elements of a queue after appending one entry to it.
LEMMA AppendFacts ==
  ASSUME NEW S, NEW q \in Seq(S), NEW e \in S
  PROVE  /\ Append(q, e) \in Seq(S)
         /\ Len(Append(q, e)) = Len(q) + 1
         /\ DOMAIN Append(q, e) = 1 .. Len(q) + 1
         /\ \A i \in 1 .. Len(q) : Append(q, e)[i] = q[i]
         /\ Append(q, e)[Len(q) + 1] = e
  OBVIOUS

\* Elements of a non-empty queue after taking its head.
LEMMA TailFacts ==
  ASSUME NEW S, NEW q \in Seq(S), q # << >>
  PROVE  /\ Tail(q) \in Seq(S)
         /\ Len(Tail(q)) = Len(q) - 1
         /\ Len(q) >= 1
         /\ DOMAIN Tail(q) = 1 .. Len(q) - 1
         /\ \A i \in 1 .. Len(q) - 1 : Tail(q)[i] = q[i + 1]
         /\ Head(q) = q[1]
         /\ Head(q) \in S
  OBVIOUS

\* A put at the limit, which reuses the oldest block, keeps the types, the
\* counter and the ownership of blocks.
LEMMA PutReuseInv ==
  ASSUME AggInv, NEW d \in Data, put_reuse(d)
  PROVE  AggInv'
<1> USE DEF AggInv
<1> DEFINE q == aggregator_fifo
           e == [blk |-> Head(q).blk, data |-> d]
           t == Tail(q)
<1>1. q \in Seq(fifo_entry) /\ q # << >>
  BY DEF AggTypeOK, put_reuse
<1>2. t \in Seq(fifo_entry) /\ Len(t) = Len(q) - 1 /\ Len(q) \in Nat /\ Len(q) >= 1
  BY <1>1, TailFacts
<1>3. \A i \in 1 .. Len(t) : t[i] = q[i + 1]
  BY <1>1, <1>2, TailFacts
<1>4. Head(q) = q[1] /\ Head(q) \in fifo_entry
  BY <1>1, TailFacts
<1>5. e \in fifo_entry /\ e.blk = q[1].blk
  BY <1>4 DEF fifo_entry
<1> HIDE DEF t, e
<1>6. aggregator_fifo' = Append(t, e)
  BY DEF put_reuse, t, e
<1>7. /\ aggregator_fifo' \in Seq(fifo_entry)
      /\ Len(aggregator_fifo') = Len(q)
      /\ DOMAIN aggregator_fifo' = 1 .. Len(q)
      /\ \A i \in 1 .. Len(q) - 1 : aggregator_fifo'[i] = q[i + 1]
      /\ aggregator_fifo'[Len(q)] = e
  BY <1>2, <1>3, <1>5, <1>6, AppendFacts
<1>8. DOMAIN q = 1 .. Len(q)
  BY <1>1
<1> HIDE DEF q
<1>9. AggTypeOK' /\ CountIsLength'
  BY <1>7 DEF AggTypeOK, CountIsLength, put_reuse, q
<1>10. UNCHANGED free
  BY DEF put_reuse
<1>11. \A i \in 1 .. Len(q) :
          aggregator_fifo'[i].blk = q[IF i = Len(q) THEN 1 ELSE i + 1].blk
  BY <1>2, <1>5, <1>7
<1>12. BlocksOwnedOnce'
  <2>1. \A i, j \in 1 .. Len(q) : q[i].blk = q[j].blk => i = j
    BY <1>8 DEF HeapSafe, BlocksOwnedOnce, q
  <2>2. \A i \in 1 .. Len(q) : q[i].blk \notin free
    BY <1>8 DEF HeapSafe, BlocksOwnedOnce, q
  <2>3. ASSUME NEW i \in 1 .. Len(q), NEW j \in 1 .. Len(q),
               aggregator_fifo'[i].blk = aggregator_fifo'[j].blk
        PROVE  i = j
    BY <1>2, <1>11, <2>1, <2>3
  <2>4. \A i \in 1 .. Len(q) : aggregator_fifo'[i].blk \notin free'
    BY <1>2, <1>10, <1>11, <2>2
  <2> QED
    BY <1>7, <2>3, <2>4 DEF BlocksOwnedOnce
<1>13. NoBlockLost'
  <2>1. \A i \in 1 .. Len(q) : \E j \in 1 .. Len(q) : aggregator_fifo'[i].blk = q[j].blk
    BY <1>2, <1>11
  <2>2. \A j \in 1 .. Len(q) : \E i \in 1 .. Len(q) : aggregator_fifo'[i].blk = q[j].blk
    <3> TAKE j \in 1 .. Len(q)
    <3> DEFINE k == IF j = 1 THEN Len(q) ELSE j - 1
    <3>1. k \in 1 .. Len(q) /\ (IF k = Len(q) THEN 1 ELSE k + 1) = j
      BY <1>2
    <3> QED
      BY <1>11, <3>1
  <2>3. {aggregator_fifo'[i].blk : i \in 1 .. Len(q)} = {q[i].blk : i \in 1 .. Len(q)}
    <3>1. ASSUME NEW i \in 1 .. Len(q)
          PROVE  aggregator_fifo'[i].blk \in {q[j].blk : j \in 1 .. Len(q)}
      BY <2>1
    <3>2. ASSUME NEW j \in 1 .. Len(q)
          PROVE  q[j].blk \in {aggregator_fifo'[i].blk : i \in 1 .. Len(q)}
      BY <2>2
    <3>3. {aggregator_fifo'[i].blk : i \in 1 .. Len(q)} \subseteq {q[j].blk : j \in 1 .. Len(q)}
      BY <3>1
    <3>4. {q[j].blk : j \in 1 .. Len(q)} \subseteq {aggregator_fifo'[i].blk : i \in 1 .. Len(q)}
      BY <3>2
    <3> QED
      BY <3>3, <3>4
  <2>4. free \cup {q[i].blk : i \in 1 .. Len(q)} = Blocks
    BY <1>8 DEF HeapSafe, NoBlockLost, q
  <2> QED
    BY <1>7, <1>10, <2>3, <2>4 DEF NoBlockLost
<1> QED
  BY <1>9, <1>12, <1>13 DEF HeapSafe

\* A put into a fresh block keeps the types, the counter and the ownership of
\* blocks.
LEMMA PutMallocInv ==
  ASSUME AggInv, NEW d \in Data, put_malloc(d)
  PROVE  AggInv'
<1> USE DEF AggInv
<1>1. PICK b \in free : /\ free' = free \ {b}
                        /\ aggregator_fifo' = Append(aggregator_fifo, [blk |-> b, data |-> d])
  BY DEF put_malloc
<1> DEFINE q == aggregator_fifo
           e == [blk |-> b, data |-> d]
<1>2. q \in Seq(fifo_entry) /\ e \in fifo_entry /\ Len(q) \in Nat /\ b \in Blocks
  BY DEF AggTypeOK, fifo_entry
<1>3. /\ aggregator_fifo' \in Seq(fifo_entry)
      /\ Len(aggregator_fifo') = Len(q) + 1
      /\ DOMAIN aggregator_fifo' = 1 .. Len(q) + 1
      /\ \A i \in 1 .. Len(q) : aggregator_fifo'[i] = q[i]
      /\ aggregator_fifo'[Len(q) + 1].blk = b
  BY <1>1, <1>2, AppendFacts
<1>4. DOMAIN q = 1 .. Len(q)
  BY <1>2
<1> HIDE DEF q, e
<1>5. AggTypeOK' /\ CountIsLength'
  BY <1>1, <1>2, <1>3, AggregatorAssumption DEF AggTypeOK, CountIsLength, put_malloc, q
<1>6. \A i \in 1 .. Len(q) : q[i].blk \notin free /\ q[i].blk # b
  BY <1>4 DEF HeapSafe, BlocksOwnedOnce, q
<1>7. BlocksOwnedOnce'
  <2>1. \A i, j \in 1 .. Len(q) : q[i].blk = q[j].blk => i = j
    BY <1>4 DEF HeapSafe, BlocksOwnedOnce, q
  <2> QED
    BY <1>1, <1>2, <1>3, <1>6, <2>1 DEF BlocksOwnedOnce
<1>8. NoBlockLost'
  <2>1. {aggregator_fifo'[i].blk : i \in 1 .. Len(q) + 1} = {q[i].blk : i \in 1 .. Len(q)} \cup {b}
    BY <1>2, <1>3
  <2> QED
    BY <1>1, <1>2, <1>3, <1>4, <2>1 DEF HeapSafe, NoBlockLost, q
<1> QED
  BY <1>5, <1>7, <1>8 DEF HeapSafe

\* So does a get, which gives the block of the oldest entry back.
LEMMA GetInv ==
  ASSUME AggInv, aggregator_get
  PROVE  AggInv'
<1> USE DEF AggInv
<1> DEFINE q == aggregator_fifo
<1>1. q \in Seq(fifo_entry) /\ q # << >> /\ Len(q) \in Nat /\ DOMAIN q = 1 .. Len(q)
  BY DEF AggTypeOK, aggregator_get
<1>2. /\ aggregator_fifo' \in Seq(fifo_entry)
      /\ Len(aggregator_fifo') = Len(q) - 1
      /\ Len(q) >= 1
      /\ DOMAIN aggregator_fifo' = 1 .. Len(q) - 1
      /\ \A i \in 1 .. Len(q) - 1 : aggregator_fifo'[i] = q[i + 1]
      /\ free' = free \cup {q[1].blk}
      /\ q[1].blk \in Blocks
  <2>1. aggregator_fifo' = Tail(q) /\ free' = free \cup {Head(q).blk}
    BY DEF aggregator_get
  <2>2. Head(q) = q[1] /\ Head(q) \in fifo_entry
    BY <1>1, TailFacts
  <2>3. q[1].blk \in Blocks
    BY <2>2 DEF fifo_entry
  <2> HIDE DEF q
  <2> QED
    BY <1>1, <2>1, <2>2, <2>3, TailFacts
<1>3. AggTypeOK' /\ CountIsLength'
  <2>1. entry_count = Len(q) /\ entry_count' = entry_count - 1 /\ free \in SUBSET Blocks
        /\ entry_count <= FIFO_MAX_ELEMENT_COUNT
    BY DEF aggregator_get, CountIsLength, AggTypeOK
  <2> HIDE DEF q
  <2> QED
    BY <1>1, <1>2, <2>1, AggregatorAssumption DEF AggTypeOK, CountIsLength
<1> HIDE DEF q
<1>4. \A i, j \in 1 .. Len(q) : q[i].blk = q[j].blk => i = j
  BY <1>1 DEF HeapSafe, BlocksOwnedOnce, q
<1>5. \A i \in 1 .. Len(q) : q[i].blk \notin free
  BY <1>1 DEF HeapSafe, BlocksOwnedOnce, q
<1>6. BlocksOwnedOnce'
  <2>1. \A i, j \in 1 .. Len(q) - 1 : aggregator_fifo'[i].blk = aggregator_fifo'[j].blk => i = j
    <3> TAKE i, j \in 1 .. Len(q) - 1
    <3>1. i + 1 \in 1 .. Len(q) /\ j + 1 \in 1 .. Len(q)
      BY <1>1
    <3> QED
      BY <1>2, <1>4, <3>1
  <2>2. \A i \in 1 .. Len(q) - 1 : aggregator_fifo'[i].blk \notin free'
    <3> TAKE i \in 1 .. Len(q) - 1
    <3>1. i + 1 \in 1 .. Len(q) /\ 1 \in 1 .. Len(q) /\ i + 1 # 1
      BY <1>1
    <3> QED
      BY <1>2, <1>4, <1>5, <3>1
  <2> QED
    BY <1>2, <2>1, <2>2 DEF BlocksOwnedOnce
<1>7. NoBlockLost'
  <2>1. {q[i].blk : i \in 1 .. Len(q)}
          = {q[1].blk} \cup {aggregator_fifo'[i].blk : i \in 1 .. Len(q) - 1}
    <3>1. \A i \in 1 .. Len(q) : i = 1 \/ i - 1 \in 1 .. Len(q) - 1
      BY <1>1
    <3>2. \A i \in 1 .. Len(q) - 1 : i + 1 \in 1 .. Len(q)
      BY <1>1
    <3>3. 1 \in 1 .. Len(q)
      BY <1>1, <1>2
    <3>4. \A i \in 1 .. Len(q) : i = 1 \/ aggregator_fifo'[i - 1] = q[i]
      BY <1>1, <1>2, <3>1
    <3> QED
      BY <1>2, <3>1, <3>2, <3>3, <3>4
  <2> QED
    BY <1>1, <1>2, <2>1 DEF HeapSafe, NoBlockLost, q
<1> QED
  BY <1>3, <1>6, <1>7 DEF HeapSafe

\* And so does aggregator_clear(), which gives all of them back.
LEMMA ClearInv ==
  ASSUME AggInv, aggregator_clear
  PROVE  AggInv'
<1> USE DEF AggInv
<1>1. aggregator_fifo' = << >> /\ entry_count' = 0 /\ free' = Blocks
  BY DEF aggregator_clear, HeapSafe, NoBlockLost
<1> QED
  BY <1>1, AggregatorAssumption
  DEF AggTypeOK, CountIsLength, HeapSafe, BlocksOwnedOnce, NoBlockLost

\* Every step of the aggregator keeps the inductive invariant.
LEMMA AggStepInv == AggInv /\ [AggNext]_aggVars => AggInv'
<1> SUFFICES ASSUME AggInv, [AggNext]_aggVars PROVE AggInv'
  OBVIOUS
<1>1. ASSUME NEW d \in Data, aggregator_put(d) PROVE AggInv'
  <2>1. CASE put_reuse(d)
    BY <2>1, PutReuseInv
  <2>2. CASE put_malloc(d)
    BY <2>2, PutMallocInv
  <2>3. CASE put_enomem
    BY <2>3 DEF put_enomem, aggVars, AggInv, AggTypeOK, CountIsLength, HeapSafe,
       BlocksOwnedOnce, NoBlockLost
  <2> QED
    BY <1>1, <2>1, <2>2, <2>3 DEF aggregator_put
<1>2. CASE UNCHANGED aggVars
  BY <1>2 DEF aggVars, AggInv, AggTypeOK, CountIsLength, HeapSafe,
     BlocksOwnedOnce, NoBlockLost
<1> QED
  BY <1>1, <1>2, GetInv, ClearInv DEF AggNext

\* aggregator.c keeps its counter equal to the queue's length and within
\* FIFO_MAX_ELEMENT_COUNT.
THEOREM CounterCorrect == AggSpec => []CountIsLength
<1>1. AggInv => CountIsLength
  BY DEF AggInv
<1> QED
  BY <1>1, AggInitInv, AggStepInv, PTL DEF AggSpec

\* No block of the aggregator is leaked, freed twice or used after it was freed.
THEOREM HeapCorrect == AggSpec => []HeapSafe
<1>1. AggInv => HeapSafe
  BY DEF AggInv
<1> QED
  BY <1>1, AggInitInv, AggStepInv, PTL DEF AggSpec

-----------------------------------------------------------------------------
\* The data of a queue, in order, form a sequence of the same length.
LEMMA QueuedDataFacts ==
  ASSUME NEW q \in Seq(fifo_entry)
  PROVE  /\ [i \in 1 .. Len(q) |-> q[i].data] \in Seq(Data)
         /\ Len([i \in 1 .. Len(q) |-> q[i].data]) = Len(q)
<1>1. Len(q) \in Nat /\ \A i \in 1 .. Len(q) : q[i] \in fifo_entry
  OBVIOUS
<1>2. \A e \in fifo_entry : e.data \in Data
  BY DEF fifo_entry
<1> QED
  BY <1>1, <1>2

\* A put of d, seen through the data alone, is Store(d) of RecentData.
LEMMA PutStores ==
  ASSUME AggInv, NEW d \in Data, put_reuse(d) \/ put_malloc(d)
  PROVE  Recent!Store(d)
<1> DEFINE q == aggregator_fifo
           base == IF entry_count = FIFO_MAX_ELEMENT_COUNT THEN Tail(q) ELSE q
           qd == QueuedData
           qdbase == IF Len(qd) = FIFO_MAX_ELEMENT_COUNT THEN Tail(qd) ELSE qd
<1>1. q \in Seq(fifo_entry) /\ Len(q) = entry_count /\ Len(q) \in Nat
      /\ FIFO_MAX_ELEMENT_COUNT \in Nat \ {0}
  BY AggregatorAssumption DEF AggInv, AggTypeOK, CountIsLength
<1>2. qd \in Seq(Data) /\ Len(qd) = Len(q) /\ \A i \in 1 .. Len(q) : qd[i] = q[i].data
  BY <1>1, QueuedDataFacts DEF QueuedData
<1>3. PICK b \in Blocks : aggregator_fifo' = Append(base, [blk |-> b, data |-> d])
  <2>1. CASE put_reuse(d)
    <3>1. q # << >>
      BY <2>1 DEF put_reuse
    <3>2. Head(q) \in fifo_entry
      BY <1>1, <3>1, TailFacts
    <3>3. Head(q).blk \in Blocks
      BY <3>2 DEF fifo_entry
    <3> QED
      BY <2>1, <3>3 DEF put_reuse
  <2>2. CASE put_malloc(d)
    BY <2>2 DEF put_malloc, AggInv, AggTypeOK
  <2> QED
    BY <2>1, <2>2
<1>4. /\ base \in Seq(fifo_entry) /\ Len(base) \in Nat
      /\ qdbase \in Seq(Data) /\ Len(qdbase) = Len(base)
      /\ \A i \in 1 .. Len(base) : qdbase[i] = base[i].data
  <2> HIDE DEF qd
  <2>1. CASE entry_count = FIFO_MAX_ELEMENT_COUNT
    <3>1. q # << >> /\ qd # << >>
      BY <1>1, <1>2, <2>1
    <3> QED
      BY <1>1, <1>2, <2>1, <3>1, TailFacts
  <2>2. CASE entry_count # FIFO_MAX_ELEMENT_COUNT
    BY <1>1, <1>2, <2>2
  <2> QED
    BY <2>1, <2>2
<1> DEFINE e == [blk |-> b, data |-> d]
<1>5. e \in fifo_entry /\ e.data = d
  BY DEF fifo_entry
<1> HIDE DEF base, qd, qdbase, e
<1>6. /\ aggregator_fifo' \in Seq(fifo_entry)
      /\ Len(aggregator_fifo') = Len(base) + 1
      /\ \A i \in 1 .. Len(base) : aggregator_fifo'[i] = base[i]
      /\ aggregator_fifo'[Len(base) + 1].data = d
  BY <1>3, <1>4, <1>5, AppendFacts DEF e
<1>7. /\ Append(qdbase, d) \in Seq(Data)
      /\ Len(Append(qdbase, d)) = Len(base) + 1
      /\ \A i \in 1 .. Len(base) : Append(qdbase, d)[i] = base[i].data
      /\ Append(qdbase, d)[Len(base) + 1] = d
  BY <1>4, AppendFacts
<1>8. /\ QueuedData' \in Seq(Data)
      /\ Len(QueuedData') = Len(base) + 1
      /\ \A i \in 1 .. Len(base) + 1 : QueuedData'[i] = aggregator_fifo'[i].data
  BY <1>6, QueuedDataFacts DEF QueuedData
<1>9. \A i \in 1 .. Len(base) + 1 : QueuedData'[i] = Append(qdbase, d)[i]
  BY <1>4, <1>6, <1>7, <1>8
<1>10. QueuedData' = Append(qdbase, d)
  BY <1>7, <1>8, <1>9, SeqEqual
<1> QED
  BY <1>10 DEF Recent!Store, qdbase, qd

\* A get hands out the oldest datum.
LEMMA GetTakes ==
  ASSUME AggInv, aggregator_get
  PROVE  Recent!Take
<1> DEFINE q == aggregator_fifo
           qd == QueuedData
<1>1. q \in Seq(fifo_entry) /\ q # << >> /\ aggregator_fifo' = Tail(q)
  BY DEF AggInv, AggTypeOK, aggregator_get
<1>2. qd \in Seq(Data) /\ Len(qd) = Len(q) /\ \A i \in 1 .. Len(q) : qd[i] = q[i].data
  BY <1>1, QueuedDataFacts DEF QueuedData
<1> HIDE DEF qd, q
<1>3. qd # << >>
  BY <1>1, <1>2
<1>4. /\ Tail(qd) \in Seq(Data) /\ Len(Tail(qd)) = Len(q) - 1
      /\ \A i \in 1 .. Len(q) - 1 : Tail(qd)[i] = qd[i + 1]
  BY <1>2, <1>3, TailFacts
<1>5. /\ Len(aggregator_fifo') = Len(q) - 1
      /\ aggregator_fifo' \in Seq(fifo_entry)
      /\ Len(q) \in Nat
      /\ \A i \in 1 .. Len(q) - 1 : aggregator_fifo'[i] = q[i + 1]
  BY <1>1, TailFacts
<1>6. /\ QueuedData' \in Seq(Data)
      /\ Len(QueuedData') = Len(q) - 1
      /\ \A i \in 1 .. Len(q) - 1 : QueuedData'[i] = aggregator_fifo'[i].data
  BY <1>5, QueuedDataFacts DEF QueuedData
<1>7. \A i \in 1 .. Len(q) - 1 : QueuedData'[i] = Tail(qd)[i]
  BY <1>2, <1>4, <1>5, <1>6
<1>8. QueuedData' = Tail(qd)
  BY <1>4, <1>6, <1>7, SeqEqual
<1> QED
  BY <1>3, <1>8 DEF Recent!Take, qd

\* An empty queue holds no data.
LEMMA EmptyQueue == aggregator_fifo = << >> => QueuedData = << >>
  BY DEF QueuedData

\* aggregator.c implements the abstract queue of the most recent data: under
\* any use of put, get and clear it hands out the data in the order of their
\* arrival and gives up only the oldest datum, only at the limit.
THEOREM AggregatorImplementsRecentData == AggSpec => KeepsMostRecent
<1>1. AggInit => Recent!Init
  BY EmptyQueue DEF AggInit, Recent!Init
<1>2. AggInv /\ [AggNext]_aggVars => [Recent!Next]_QueuedData
  <2> SUFFICES ASSUME AggInv, [AggNext]_aggVars PROVE [Recent!Next]_QueuedData
    OBVIOUS
  <2>1. ASSUME NEW d \in Data, aggregator_put(d) PROVE [Recent!Next]_QueuedData
    <3>1. CASE put_enomem
      BY <3>1 DEF put_enomem, aggVars, QueuedData
    <3> QED
      BY <2>1, <3>1, PutStores DEF aggregator_put, Recent!Next
  <2>2. CASE aggregator_clear
    <3>1. QueuedData' = << >>
      BY <2>2 DEF aggregator_clear, QueuedData
    <3> QED
      BY <3>1 DEF Recent!Next, Recent!Drop
  <2>3. CASE aggregator_get
    BY <2>3, GetTakes DEF Recent!Next
  <2>4. CASE UNCHANGED aggVars
    BY <2>4 DEF aggVars, QueuedData
  <2> QED
    BY <2>1, <2>2, <2>3, <2>4 DEF AggNext
<1> QED
  BY <1>1, <1>2, AggInitInv, AggStepInv, PTL DEF AggSpec, KeepsMostRecent, Recent!Spec
=============================================================================
