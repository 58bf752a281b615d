----------------------------- MODULE PeerProofs -----------------------------
(***************************************************************************)
(* Proofs about the peers of the distance measurement, for any number of   *)
(* addresses and heap blocks, any timeout and any length of the filter.    *)
(* The list is walked by loops, which the model writes as recursive        *)
(* functions: what they compute is shown from the principle that a         *)
(* nonempty set of numbers has a least element.                            *)
(***************************************************************************)
EXTENDS PeerTracker, FiniteSetTheorems, NaturalsInduction, WellFoundedInduction, TLAPS

Elements(s) == {s[i] : i \in DOMAIN s}

Distinct(s) == \A i, j \in DOMAIN s : s[i] = s[j] => i = j

Entries == [addr : Addrs, meas : Measurements, timeout : 0 .. TIMEOUT_STEPS]

\* The blocks: what they hold, and where they are.
BlocksTyped == /\ mem \in [Slots -> Entries]
               /\ heap_free \in SUBSET Slots
               /\ peer_list \in Seq(Slots)
               /\ missed \in [Walks -> SUBSET Slots]

\* The Bluetooth thread has a block between the allocation and its return.
AddingTyped == /\ bt_pc \in {"idle", "test", "append", "link"}
               /\ sought \in Addrs \cup {NULL}
               /\ bt_pc = "test" => sought \in Addrs
               /\ IF bt_pc \in {"append", "link"} THEN new_item \in Slots ELSE new_item = NULL

\* After an undisturbed test the address of the block about to be appended is
\* not listed, and stays so.
AddressesApart ==
  bt_pc \in {"append", "link"} /\ missed["add"] = {}
    => \A s \in Listed : mem[s].addr # mem[new_item].addr

BlocksInv == BlocksTyped /\ AddingTyped /\ BlocksApart /\ AddressesApart

\* The pointers of the peer thread.
ThreadTyped == /\ {closest_peer, peer, cand} \subseteq Slots \cup {NULL}
               /\ result \in Messages \cup {NULL}
               /\ pc \in {"wait", "find", "store", "print", "print_collect", "print_full",
                          "read", "write", "led", "led_collect", "led_full"}
               /\ pc = "find" => result \in Messages
               /\ pc = "store" => peer \in Slots /\ result \in Messages
               /\ result_msgq \in Seq(Messages) /\ Len(result_msgq) <= MSGQ_MAX

\* The filter: the count, and the count as the thread has read it.
FilterTyped == /\ collect_cnt \in Nat /\ reg \in 0 .. TOTAL_NUM_FILTER - 1
               /\ FilterWithinBuffer

\* The inductive invariant.
PeerInv == BlocksInv /\ ThreadTyped /\ FilterTyped
-----------------------------------------------------------------------------
\* A nonempty set of numbers has a least element.
LEMMA LeastElement == ASSUME NEW T \in SUBSET Nat, T # {}
                      PROVE  \E m \in T : \A k \in T : m <= k
<1>1. IsWellFoundedOn(OpToRel(<, Nat), Nat)
  BY NatLessThanWellFounded, Zenon
<1>2. PICK m \in T : \A k \in T : ~(<< k, m >> \in OpToRel(<, Nat))
  BY <1>1, WFMin, Zenon
<1>3. \A k \in T : k < m => << k, m >> \in OpToRel(<, Nat)
  BY DEF OpToRel
<1>4. \A k \in T : ~(k < m)
  BY <1>2, <1>3, Zenon
<1> QED BY <1>4

\* The values r[0], r[1] .. r[n] of the variable of a loop that starts with b
\* and goes through 1 .. n, and that its body stays in A.
LoopRun(A, b, n, step, r) == /\ r \in [0 .. n -> A] /\ r[0] = b
                             /\ \A i \in 1 .. n : r[i] = step[r[i - 1]][i]
LoopBody(A, n, step) == \A x \in A, i \in 1 .. n : step[x][i] \in A

\* Such a loop has a run.
LEMMA LoopExists ==
  ASSUME NEW A, NEW b \in A, NEW n \in Nat, NEW step, LoopBody(A, n, step)
  PROVE  \E r : LoopRun(A, b, n, step, r)
<1> DEFINE Run(r, k) == LoopRun(A, b, k, step, r)
           T == {k \in 0 .. n : ~ \E r : Run(r, k)}
<1> USE DEF LoopRun, LoopBody
<1>1. T = {}
  <2> SUFFICES ASSUME T # {} PROVE FALSE
    OBVIOUS
  <2>1. T \in SUBSET Nat
    OBVIOUS
  <2> HIDE DEF T
  <2>2. PICK m \in T : \A k \in T : m <= k
    BY <2>1, LeastElement
  <2>3. m \in 0 .. n /\ ~ \E r : Run(r, m)
    BY <2>2 DEF T
  <2>4. m # 0
    <3>1. Run([i \in 0 .. 0 |-> b], 0)
      OBVIOUS
    <3> HIDE DEF Run
    <3> QED BY <2>3, <3>1
  <2>5. m - 1 \in 0 .. n /\ m - 1 \notin T
    BY <2>1, <2>2, <2>3, <2>4
  <2>6. PICK r : Run(r, m - 1)
    BY <2>5 DEF T
  <2> DEFINE x == step[r[m - 1]][m]
             q == [i \in 0 .. m |-> IF i = m THEN x ELSE r[i]]
  <2>7. x \in A
    <3>1. r[m - 1] \in A /\ m \in 1 .. n
      BY <2>3, <2>4, <2>6
    <3> QED BY <3>1
  <2> HIDE DEF x
  <2>8. q \in [0 .. m -> A] /\ q[0] = b
    BY <2>3, <2>4, <2>6, <2>7
  <2>9. ASSUME NEW i \in 1 .. m PROVE q[i] = step[q[i - 1]][i]
    <3>1. CASE i = m
      BY <2>3, <2>4, <3>1 DEF x
    <3>2. CASE i # m
      <4>1. i \in 1 .. m - 1 /\ i - 1 \in 0 .. m - 1 /\ i - 1 # m /\ i \in 0 .. m
            /\ i - 1 \in 0 .. m
        BY <2>3, <3>2
      <4>2. q[i] = r[i] /\ q[i - 1] = r[i - 1]
        BY <3>2, <4>1
      <4>3. r[i] = step[r[i - 1]][i]
        BY <2>6, <4>1
      <4> QED BY <4>2, <4>3
    <3> QED BY <3>1, <3>2
  <2>10. Run(q, m)
    BY <2>8, <2>9
  <2> HIDE DEF Run, q
  <2> QED BY <2>3, <2>10
<1>2. n \in 0 .. n
  OBVIOUS
<1>3. PICK r : Run(r, n)
  BY <1>1, <1>2
<1> QED BY <1>3

\* Of two peers the comparison returns one of them or none.
LEMMA ComparisonPicks == ASSUME NEW a, NEW b
                         PROVE  mcpd_min_peer_result(a, b) \in {a, b, NULL}
BY DEF mcpd_min_peer_result

\* Counting up from 0 reaches every index up to n.
LEMMA CountUp == ASSUME NEW n \in Nat, NEW G, 0 \in G, \A i \in 1 .. n : i - 1 \in G => i \in G
                 PROVE  \A i \in 0 .. n : i \in G
<1> DEFINE T == {i \in 0 .. n : i \notin G}
<1> SUFFICES ASSUME T # {} PROVE FALSE
  OBVIOUS
<1>1. T \in SUBSET Nat
  OBVIOUS
<1>2. PICK m \in T : \A k \in T : m <= k
  <2> HIDE DEF T
  <2> QED BY <1>1, LeastElement
<1>3. m \in 1 .. n /\ m - 1 \in 0 .. n /\ ~(m <= m - 1)
  BY <1>2
<1>4. m - 1 \in G
  BY <1>2, <1>3
<1> QED BY <1>2, <1>3, <1>4

\* peer_find_closest returns a peer of the list, or none.
LEMMA ClosestInList ==
  ASSUME NEW l \in Seq(Slots)
  PROVE  peer_find_closest(l) \in Elements(l) \cup {NULL}
<1>1. CASE l = << >>
  BY <1>1 DEF peer_find_closest
<1>2. CASE l # << >>
  <2> DEFINE A == Elements(l) \cup {NULL}
             n == Len(l)
             b == Head(l)
             closest[i \in 0 .. n] ==
               IF i = 0 THEN b ELSE mcpd_min_peer_result(closest[i - 1], l[i])
             step == [x \in A |-> [i \in 1 .. n |-> mcpd_min_peer_result(x, l[i])]]
  <2>1. n \in Nat /\ DOMAIN l = 1 .. n /\ 1 \in 1 .. n /\ b = l[1]
    BY <1>2
  <2>2. peer_find_closest(l) = closest[n]
    BY <1>2, Zenon DEF peer_find_closest
  <2> HIDE DEF n, b
  <2>3. b \in A /\ \A i \in 1 .. n : l[i] \in A
    BY <2>1, Zenon DEF Elements
  <2>4. NULL \in A
    BY Zenon
  <2> HIDE DEF A
  <2>5. ASSUME NEW x \in A, NEW i \in 1 .. n PROVE mcpd_min_peer_result(x, l[i]) \in A
    <3>1. l[i] \in A
      BY <2>3, Zenon
    <3>2. mcpd_min_peer_result(x, l[i]) \in {x, l[i], NULL}
      BY ComparisonPicks, Zenon
    <3> QED BY <2>4, <3>1, <3>2, Zenon
  <2>6. \E r : r = [i \in 0 .. n |-> IF i = 0 THEN b
                                     ELSE mcpd_min_peer_result(r[i - 1], l[i])]
    <3>1. \A x \in A, i \in 1 .. n : step[x][i] = mcpd_min_peer_result(x, l[i])
      BY Zenon
    <3>2. \A x \in A, i \in 1 .. n : step[x][i] \in A
      BY <2>5, <3>1, Zenon
    <3> HIDE DEF step
    <3>3. PICK r \in [0 .. n -> A] :
             r[0] = b /\ \A i \in 1 .. n : r[i] = step[r[i - 1]][i]
      <4>1. b \in A /\ n \in Nat /\ LoopBody(A, n, step)
        BY <2>1, <2>3, <3>2, Zenon DEF LoopBody
      <4>2. \E r : LoopRun(A, b, n, step, r)
        BY <4>1, LoopExists, Zenon
      <4> QED BY <4>2, Zenon DEF LoopRun
    <3>4. ASSUME NEW i \in 0 .. n
          PROVE  r[i] = IF i = 0 THEN b ELSE mcpd_min_peer_result(r[i - 1], l[i])
      <4>1. CASE i = 0
        BY <3>3, <4>1, Zenon
      <4>2. CASE i # 0
        <5>1. i \in 1 .. n /\ i - 1 \in 0 .. n
          BY <2>1, <4>2
        <5>2. r[i - 1] \in A
          BY <5>1, <3>3, Zenon
        <5> QED BY <3>1, <3>3, <4>2, <5>1, <5>2, Zenon
      <4> QED BY <4>1, <4>2, Zenon
    <3>5. r = [i \in 0 .. n |-> IF i = 0 THEN b ELSE mcpd_min_peer_result(r[i - 1], l[i])]
      BY <3>3, <3>4, Zenon
    <3> QED BY <3>5, Zenon
  <2>7. closest = [i \in 0 .. n |-> IF i = 0 THEN b
                                    ELSE mcpd_min_peer_result(closest[i - 1], l[i])]
    BY <2>6, Zenon
  <2> HIDE DEF closest
  <2> DEFINE G == {i \in 0 .. n : closest[i] \in A}
  <2>8. 0 \in G
    <3>1. 0 \in 0 .. n
      BY <2>1
    <3>2. closest[0] = b
      BY <2>7, <3>1, Zenon
    <3> QED BY <2>3, <3>1, <3>2, Zenon
  <2>9. ASSUME NEW i \in 1 .. n, i - 1 \in G PROVE i \in G
    <3>1. i \in 0 .. n /\ i # 0
      BY <2>1
    <3>2. closest[i] = mcpd_min_peer_result(closest[i - 1], l[i])
      BY <2>7, <3>1, Zenon
    <3> QED BY <2>5, <2>9, <3>1, <3>2, Zenon
  <2>10. n \in G
    <3>1. n \in 0 .. n
      BY <2>1
    <3> HIDE DEF G
    <3> QED BY <2>1, <2>8, <2>9, <3>1, CountUp, Zenon
  <2> QED BY <2>2, <2>10, Zenon DEF A
<1> QED BY <1>1, <1>2

\* Appending adds an element.
LEMMA AppendFacts ==
  ASSUME NEW s \in Seq(Slots), NEW x \in Slots
  PROVE  /\ Append(s, x) \in Seq(Slots)
         /\ Elements(Append(s, x)) = Elements(s) \cup {x}
         /\ Distinct(s) /\ x \notin Elements(s) => Distinct(Append(s, x))
<1> DEFINE n == Len(s)
           t == Append(s, x)
<1>1. n \in Nat /\ DOMAIN s = 1 .. n
  OBVIOUS
<1>2. /\ t \in Seq(Slots) /\ DOMAIN t = 1 .. n + 1
      /\ t[n + 1] = x
      /\ \A i \in 1 .. n : t[i] = s[i]
  OBVIOUS
<1> HIDE DEF n, t
<1>3. \A i : i \in DOMAIN t <=> i \in DOMAIN s \/ i = n + 1
  BY <1>1, <1>2
<1>4. \A i \in DOMAIN s : t[i] = s[i]
  BY <1>1, <1>2, Zenon
<1>5. Elements(t) = Elements(s) \cup {x}
  BY <1>2, <1>3, <1>4, Zenon DEF Elements
<1>6. ASSUME Distinct(s), x \notin Elements(s) PROVE Distinct(t)
  <2> SUFFICES ASSUME NEW i \in DOMAIN t, NEW j \in DOMAIN t, t[i] = t[j] PROVE i = j
    BY DEF Distinct
  <2>1. \A k \in DOMAIN s : t[k] # x
    BY <1>4, <1>6, Zenon DEF Elements
  <2> QED BY <1>2, <1>3, <1>4, <1>6, <2>1, Zenon DEF Distinct
<1> QED BY <1>2, <1>5, <1>6, Zenon DEF t

\* When the i-th peer is removed, the peers after it are left, in their order.
LEMMA AfterFacts ==
  ASSUME peer_list \in Seq(Slots), NEW i \in DOMAIN peer_list
  PROVE  /\ after(i) \in Seq(Slots)
         /\ DOMAIN after(i) = 1 .. Len(peer_list) - i
         /\ \A k \in DOMAIN after(i) : /\ i + k \in DOMAIN peer_list
                                       /\ after(i)[k] = peer_list[i + k]
<1> DEFINE l == peer_list
           n == Len(l)
<1>1. n \in Nat /\ DOMAIN l = 1 .. n /\ i \in 1 .. n
  OBVIOUS
<1>2. /\ SubSeq(l, i + 1, n) \in Seq(Slots)
      /\ Len(SubSeq(l, i + 1, n)) = n - i
      /\ \A k \in 1 .. n - i : SubSeq(l, i + 1, n)[k] = l[i + k]
  BY <1>1
<1>3. \A k \in 1 .. n - i : i + k \in 1 .. n
  BY <1>1
<1> QED BY <1>1, <1>2, <1>3 DEF after

\* A walk returns a block it can have come by, and misses a listed address only
\* if a block left the list under it.
LEMMA SearchFacts ==
  ASSUME BlocksTyped, NEW w \in Walks, NEW a
  PROVE  /\ search(w, a) \subseteq Slots \cup {NULL}
         /\ NULL \in search(w, a) /\ missed[w] = {} => \A s \in Listed : mem[s].addr # a
<1> DEFINE found == {s \in Listed \cup missed[w] : mem[s].addr = a}
<1>1. found \subseteq Slots
  <2>1. \A i \in DOMAIN peer_list : peer_list[i] \in Slots
    BY DEF BlocksTyped
  <2>2. missed[w] \subseteq Slots
    BY DEF BlocksTyped
  <2> QED BY <2>1, <2>2, Zenon DEF Listed
<1>2. NULL \notin found
  BY <1>1, PeerAssumption, Zenon DEF PeerAssumption
<1>3. search(w, a) \subseteq found \cup {NULL}
  BY Zenon DEF search
<1>4. ASSUME NULL \in search(w, a), missed[w] = {} PROVE found = {}
  BY <1>2, <1>4, Zenon DEF search
<1> QED BY <1>1, <1>3, <1>4, Zenon
-----------------------------------------------------------------------------
\* The list from the last-th peer on has been cut off.
CutAt(last) == /\ DOMAIN peer_list' = 1 .. Len(peer_list) - last
               /\ \A k \in DOMAIN peer_list' : /\ last + k \in DOMAIN peer_list
                                               /\ peer_list'[k] = peer_list[last + k]

Gone == {i \in DOMAIN peer_list : expired(peer_list[i])}

\* What one run of timeout_handler does: up to the last peer whose time is up
\* all peers leave the list, and the closest peer is one that is left.
LEMMA TimeoutFacts ==
  ASSUME BlocksTyped, collect_cnt \in Nat, timeout_handler
  PROVE  /\ peer_list' \in Seq(Slots)
         /\ \E last \in 0 .. Len(peer_list) : /\ \A i \in Gone : i <= last
                                              /\ last = 0 \/ last \in Gone
                                              /\ CutAt(last)
         /\ Listed' \subseteq Listed
         /\ \/ closest_peer' \in Listed' \cup {NULL}
            \/ closest_peer' = closest_peer /\ Listed' = Listed
         /\ \E k \in Nat : collect_cnt' = filter_result(collect_cnt, k)
<1> DEFINE n == Len(peer_list)
           fed == {i \in Gone : peer_find_closest(after(i)) # NULL}
<1>1. peer_list \in Seq(Slots) /\ n \in Nat /\ DOMAIN peer_list = 1 .. n
  BY DEF BlocksTyped
<1>2. /\ \/ Gone = {} /\ UNCHANGED << peer_list, closest_peer >>
         \/ \E last \in Gone : /\ \A i \in Gone : i <= last
                               /\ peer_list' = after(last)
                               /\ closest_peer' = peer_find_closest(after(last))
      /\ collect_cnt' = filter_result(collect_cnt, Cardinality(fed))
  BY Zenon DEF timeout_handler, Gone
<1>3. Cardinality(fed) \in Nat
  <2>1. IsFiniteSet(1 .. n)
    BY <1>1, FS_Interval
  <2>2. fed \subseteq 1 .. n
    BY <1>1, Zenon DEF Gone
  <2> HIDE DEF fed
  <2>3. IsFiniteSet(fed)
    BY <2>1, <2>2, FS_Subset, Zenon
  <2> QED BY <2>3, FS_CardinalityType, Zenon
<1> HIDE DEF fed
<1>4. \A last : CutAt(last) => Listed' \subseteq Listed
  BY Zenon DEF CutAt, Listed
<1>5. CASE Gone = {} /\ UNCHANGED << peer_list, closest_peer >>
  <2>1. peer_list' = peer_list /\ closest_peer' = closest_peer
    BY <1>5
  <2>2. CutAt(0) /\ 0 \in 0 .. n
    BY <1>1, <2>1 DEF CutAt
  <2>3. Listed' = Listed
    BY <2>1, Zenon DEF Listed
  <2> QED BY <1>1, <1>2, <1>3, <1>5, <2>1, <2>2, <2>3, Zenon
<1>6. ASSUME NEW last \in Gone, \A i \in Gone : i <= last, peer_list' = after(last),
             closest_peer' = peer_find_closest(after(last))
      PROVE  /\ peer_list' \in Seq(Slots)
             /\ CutAt(last) /\ last \in 0 .. n
             /\ closest_peer' \in Listed' \cup {NULL}
  <2>1. last \in DOMAIN peer_list
    BY Zenon DEF Gone
  <2>2. peer_list' \in Seq(Slots) /\ CutAt(last)
    BY <1>1, <1>6, <2>1, AfterFacts, Zenon DEF CutAt
  <2>3. last \in 0 .. n
    BY <1>1, <2>1
  <2>4. Elements(peer_list') = Listed'
    BY Zenon DEF Elements, Listed
  <2>5. peer_find_closest(peer_list') \in Elements(peer_list') \cup {NULL}
    BY <2>2, ClosestInList, Zenon
  <2> QED BY <1>6, <2>2, <2>3, <2>4, <2>5, Zenon
<1> QED BY <1>2, <1>3, <1>4, <1>5, <1>6, Zenon

\* Storing a measurement leaves the addresses alone, and so does ageing.
LEMMA StoreFacts ==
  ASSUME PeerAssumption, mem \in [Slots -> Entries], peer \in Slots, NEW x \in Measurements,
         mem' = [mem EXCEPT ![peer].meas = x, ![peer].timeout = TIMEOUT_STEPS]
  PROVE  /\ mem' \in [Slots -> Entries]
         /\ \A s \in Slots : mem'[s].addr = mem[s].addr
<1> DEFINE e == [addr |-> mem[peer].addr, meas |-> x, timeout |-> TIMEOUT_STEPS]
<1>1. mem[peer] \in Entries /\ mem[peer] = [addr |-> mem[peer].addr, meas |-> mem[peer].meas,
                                            timeout |-> mem[peer].timeout]
  BY DEF Entries
<1>2. [[mem[peer] EXCEPT !.meas = x] EXCEPT !.timeout = TIMEOUT_STEPS] = e
  <2> DEFINE m == mem[peer]
             y == [m EXCEPT !.meas = x]
  <2>1. y = [addr |-> m.addr, meas |-> x, timeout |-> m.timeout]
    <3> HIDE DEF m
    <3> QED BY <1>1 DEF m
  <2>2. [y EXCEPT !.timeout = TIMEOUT_STEPS] = e
    <3> HIDE DEF y, m
    <3> QED BY <2>1 DEF m
  <2> QED BY <2>2
<1>3. /\ mem' = [s \in Slots |-> mem'[s]]
      /\ \A s \in Slots : s # peer => mem'[s] = mem[s]
      /\ mem'[peer] = [[mem[peer] EXCEPT !.meas = x] EXCEPT !.timeout = TIMEOUT_STEPS]
  OBVIOUS
<1>4. e \in Entries /\ e.addr = mem[peer].addr
  <2>1. TIMEOUT_STEPS \in 0 .. TIMEOUT_STEPS
    BY DEF PeerAssumption
  <2> QED BY <1>1, <2>1 DEF Entries
<1> HIDE DEF e
<1>5. mem'[peer] = e
  BY <1>2, <1>3, Zenon
<1>6. \A s \in Slots : mem'[s] \in Entries /\ mem'[s].addr = mem[s].addr
  BY <1>3, <1>4, <1>5
<1> QED BY <1>3, <1>6

LEMMA AgeFacts ==
  ASSUME PeerAssumption, mem \in [Slots -> Entries],
         mem' = [s \in Slots |-> aged(s)]
  PROVE  /\ mem' \in [Slots -> Entries]
         /\ \A s \in Slots : mem'[s].addr = mem[s].addr
<1> SUFFICES ASSUME NEW s \in Slots
             PROVE  mem'[s] \in Entries /\ mem'[s].addr = mem[s].addr
  <2>1. \A s \in Slots : mem'[s] = aged(s)
    BY Zenon
  <2> QED BY <2>1
<1>1. mem[s] \in Entries
  OBVIOUS
<1>2. CASE s \in Listed /\ ~expired(s)
  <2>1. mem'[s] = [mem[s] EXCEPT !.timeout = @ - 1]
    BY <1>2, Zenon DEF aged
  <2>2. mem'[s] = [addr |-> mem[s].addr, meas |-> mem[s].meas, timeout |-> mem[s].timeout - 1]
    BY <1>1, <2>1 DEF Entries
  <2>3. mem[s].timeout - 1 \in 0 .. TIMEOUT_STEPS
    BY <1>1, <1>2 DEF Entries, expired, PeerAssumption
  <2>4. mem[s].addr \in Addrs /\ mem[s].meas \in Measurements
    BY <1>1 DEF Entries
  <2> QED BY <2>2, <2>3, <2>4 DEF Entries
<1>3. CASE ~(s \in Listed /\ ~expired(s))
  <2>1. mem'[s] = mem[s]
    BY <1>3, Zenon DEF aged
  <2> QED BY <1>1, <2>1
<1> QED BY <1>2, <1>3

LEMMA ListedBlocks == ASSUME BlocksTyped PROVE Listed \subseteq Slots
<1>1. \A i \in DOMAIN peer_list : peer_list[i] \in Slots
  BY DEF BlocksTyped
<1> QED BY <1>1, Zenon DEF Listed

\* The blocks when list and heap stay as they are, the blocks keep their
\* addresses and the Bluetooth thread does nothing.
LEMMA BlocksRewritten ==
  ASSUME BlocksInv, mem' \in [Slots -> Entries],
         \A s \in Slots : mem'[s].addr = mem[s].addr,
         missed' \in [Walks -> SUBSET Slots], missed'["add"] = missed["add"],
         UNCHANGED << heap_free, peer_list, bt >>
  PROVE  BlocksInv'
<1>1. heap_free' = heap_free /\ peer_list' = peer_list /\ bt_pc' = bt_pc
      /\ sought' = sought /\ new_item' = new_item
  BY DEF bt
<1>2. Listed' = Listed /\ Listed \subseteq Slots
  BY <1>1, ListedBlocks, Zenon DEF Listed, BlocksInv
<1>3. BlocksTyped' /\ AddingTyped'
  BY <1>1, Zenon DEF BlocksInv, BlocksTyped, AddingTyped
<1>4. BlocksApart'
  BY <1>1, <1>2, Zenon DEF BlocksInv, BlocksApart
<1>5. AddressesApart'
  <2>1. bt_pc \in {"append", "link"} => new_item \in Slots
    BY Zenon DEF BlocksInv, AddingTyped
  <2> QED BY <1>1, <1>2, <2>1, Zenon DEF BlocksInv, AddressesApart
<1> QED BY <1>3, <1>4, <1>5 DEF BlocksInv

\* Nothing of this changes.
LEMMA BlocksUnchanged == ASSUME BlocksInv, UNCHANGED << peers, bt, missed >> PROVE BlocksInv'
<1>1. mem' = mem /\ missed' = missed /\ UNCHANGED << heap_free, peer_list, bt >>
  BY DEF peers
<1> QED BY <1>1, BlocksRewritten, Zenon DEF BlocksInv, BlocksTyped

\* peer_supported_add returns: it has no block any more.
LEMMA ReturnFacts ==
  ASSUME BlocksTyped, bt_return
  PROVE  /\ missed' \in [Walks -> SUBSET Slots]
         /\ AddingTyped' /\ new_item' = NULL /\ new_item' \notin Slots
         /\ AddressesApart'
<1>1. missed' = [missed EXCEPT !["add"] = {}] /\ bt_pc' = "idle" /\ sought' = NULL
      /\ new_item' = NULL
  BY DEF bt_return
<1>2. missed' \in [Walks -> SUBSET Slots]
  BY <1>1 DEF BlocksTyped
<1>3. AddingTyped' /\ AddressesApart'
  BY <1>1 DEF AddingTyped, AddressesApart
<1> QED BY <1>1, <1>2, <1>3, PeerAssumption, Zenon DEF PeerAssumption

LEMMA CallKeepsBlocks ==
  ASSUME BlocksInv, NEW a \in Addrs, peer_supported_add(a)
  PROVE  BlocksInv'
<1>1. /\ bt_pc = "idle" /\ bt_pc' = "test" /\ sought' = a
      /\ UNCHANGED << mem, heap_free, peer_list, new_item, missed >>
  BY DEF peer_supported_add, peers
<1>2. Listed' = Listed
  BY <1>1, Zenon DEF Listed
<1>3. BlocksTyped'
  BY <1>1, Zenon DEF BlocksInv, BlocksTyped
<1>4. AddingTyped' /\ AddressesApart'
  BY <1>1 DEF BlocksInv, AddingTyped, AddressesApart
<1>5. BlocksApart'
  BY <1>1, <1>2, Zenon DEF BlocksInv, BlocksApart
<1> QED BY <1>3, <1>4, <1>5 DEF BlocksInv

\* peer_supported_test takes a free block, for an address that is not listed if
\* nothing left the list under the test.
LEMMA TestKeepsBlocks ==
  ASSUME BlocksInv, peer_supported_test
  PROVE  BlocksInv'
<1>1. /\ bt_pc = "test" /\ sought \in Addrs /\ new_item = NULL
      /\ peer_list' = peer_list /\ Listed' = Listed
      /\ Listed \subseteq Slots
  <2>1. bt_pc = "test" /\ peer_list' = peer_list
    BY DEF peer_supported_test
  <2>2. sought \in Addrs /\ new_item = NULL
    BY <2>1 DEF BlocksInv, AddingTyped
  <2>3. Listed' = Listed
    BY <2>1, Zenon DEF Listed
  <2> QED BY <2>1, <2>2, <2>3, ListedBlocks, Zenon DEF BlocksInv
<1>2. CASE bt_return /\ UNCHANGED << mem, heap_free >>
  <2>1. /\ missed' \in [Walks -> SUBSET Slots] /\ AddingTyped' /\ new_item' = NULL
        /\ AddressesApart'
    BY <1>2, ReturnFacts, Zenon DEF BlocksInv
  <2>2. BlocksTyped' /\ BlocksApart'
    BY <1>1, <1>2, <2>1, Zenon DEF BlocksInv, BlocksTyped, BlocksApart
  <2> QED BY <2>1, <2>2 DEF BlocksInv
<1>3. CASE NULL \in search("add", sought) /\ new_peer(sought)
  <2>1. PICK s \in heap_free, m \in Measurements :
          /\ heap_free' = heap_free \ {s}
          /\ mem' = [mem EXCEPT ![s] = [addr |-> sought, meas |-> m, timeout |-> TIMEOUT_STEPS]]
          /\ new_item' = s
    BY <1>3, Zenon DEF new_peer
  <2>2. bt_pc' = "append" /\ sought' = sought /\ missed' = missed
    BY <1>3 DEF new_peer
  <2>3. s \in Slots /\ s \notin Listed
    BY Zenon DEF BlocksInv, BlocksTyped, BlocksApart
  <2> DEFINE e == [addr |-> sought, meas |-> m, timeout |-> TIMEOUT_STEPS]
  <2>4. e \in Entries /\ e.addr = sought
    <3>1. TIMEOUT_STEPS \in 0 .. TIMEOUT_STEPS
      BY PeerAssumption DEF PeerAssumption
    <3> QED BY <1>1, <3>1 DEF Entries
  <2> HIDE DEF e
  <2>5. /\ mem' \in [Slots -> Entries]
        /\ mem'[s] = e
        /\ \A t \in Slots : t # s => mem'[t] = mem[t]
    <3>1. mem \in [Slots -> Entries] /\ mem' = [mem EXCEPT ![s] = e]
      BY <2>1, Zenon DEF BlocksInv, BlocksTyped, e
    <3> QED BY <2>3, <2>4, <3>1
  <2>6. BlocksTyped'
    BY <1>1, <2>1, <2>2, <2>5, Zenon DEF BlocksInv, BlocksTyped
  <2>7. AddingTyped'
    BY <1>1, <2>1, <2>2, <2>3 DEF AddingTyped
  <2>8. BlocksApart'
    BY <1>1, <2>1, <2>3, Zenon DEF BlocksInv, BlocksApart
  <2>9. AddressesApart'
    <3> SUFFICES ASSUME missed["add"] = {}, NEW t \in Listed
                 PROVE  mem'[t].addr # mem'[new_item'].addr
      BY <1>1, <2>2, Zenon DEF AddressesApart
    <3>1. mem[t].addr # sought
      <4>1. "add" \in Walks
        BY DEF Walks
      <4> QED BY <1>3, <4>1, SearchFacts, Zenon DEF BlocksInv
    <3>2. mem'[t] = mem[t]
      BY <1>1, <2>3, <2>5, Zenon
    <3> QED BY <2>1, <2>4, <2>5, <3>1, <3>2, Zenon
  <2> QED BY <2>6, <2>7, <2>8, <2>9 DEF BlocksInv
<1> QED BY <1>2, <1>3, Zenon DEF peer_supported_test

\* The block of the Bluetooth thread is appended.
LEMMA AppendedFacts ==
  ASSUME BlocksInv, bt_pc \in {"append", "link"}, peer_list' = Append(peer_list, new_item),
         bt_return, UNCHANGED << mem, heap_free >>
  PROVE  BlocksInv' /\ Listed' = Listed \cup {new_item}
<1>1. peer_list \in Seq(Slots) /\ new_item \in Slots
  BY Zenon DEF BlocksInv, BlocksTyped, AddingTyped
<1>2. Elements(peer_list) = Listed /\ Elements(peer_list') = Listed'
  BY Zenon DEF Elements, Listed
<1>3. Distinct(peer_list) /\ new_item \notin Listed
  BY Zenon DEF BlocksInv, BlocksApart, Distinct
<1>4. /\ peer_list' \in Seq(Slots) /\ Listed' = Listed \cup {new_item}
      /\ Distinct(peer_list')
  BY <1>1, <1>2, <1>3, AppendFacts, Zenon
<1>5. /\ missed' \in [Walks -> SUBSET Slots] /\ AddingTyped' /\ new_item' \notin Slots
      /\ AddressesApart'
  BY ReturnFacts, Zenon DEF BlocksInv
<1>6. BlocksTyped'
  BY <1>4, <1>5, Zenon DEF BlocksInv, BlocksTyped
<1>7. BlocksApart'
  <2>1. Listed' \cap heap_free' = {}
    BY <1>4, Zenon DEF BlocksInv, BlocksApart
  <2>2. Listed' \subseteq Slots
    BY <1>1, <1>4, ListedBlocks, Zenon DEF BlocksInv
  <2>3. new_item' \notin Listed' \cup heap_free'
    BY <1>5, <2>2, Zenon DEF BlocksInv, BlocksTyped
  <2>4. \A i, j \in DOMAIN peer_list' : peer_list'[i] = peer_list'[j] => i = j
    BY <1>4, Zenon DEF Distinct
  <2> QED BY <2>1, <2>3, <2>4, Zenon DEF BlocksApart
<1> QED BY <1>4, <1>5, <1>6, <1>7 DEF BlocksInv

\* peer_append and peer_link list that block, or lose it.
LEMMA AppendKeepsBlocks ==
  ASSUME BlocksInv, peer_append \/ peer_link
  PROVE  /\ BlocksInv' /\ heap_free' = heap_free
         /\ \/ Listed' = Listed \cup {new_item} /\ new_item' = NULL
            \/ Listed' = Listed /\ new_item' = new_item
            \/ Listed' = Listed /\ bt_pc = "link" /\ peer_list = << >>
<1>0. bt_pc \in {"append", "link"} /\ mem' = mem /\ heap_free' = heap_free
  BY DEF peer_append, peer_link
<1>1. CASE peer_list' = Append(peer_list, new_item) /\ bt_return
  <2>1. new_item' = NULL
    BY <1>1 DEF bt_return
  <2> QED BY <1>0, <1>1, <2>1, AppendedFacts, Zenon
<1>2. CASE bt_pc' = "link" /\ UNCHANGED << peer_list, sought, new_item, missed >>
  <2>1. Listed' = Listed
    BY <1>2, Zenon DEF Listed
  <2>2. BlocksTyped'
    BY <1>0, <1>2, Zenon DEF BlocksInv, BlocksTyped
  <2>3. AddingTyped'
    BY <1>0, <1>2 DEF BlocksInv, AddingTyped
  <2>4. BlocksApart'
    BY <1>0, <1>2, <2>1, Zenon DEF BlocksInv, BlocksApart
  <2>5. AddressesApart'
    BY <1>0, <1>2, <2>1, Zenon DEF BlocksInv, AddressesApart
  <2> QED BY <1>0, <1>2, <2>1, <2>2, <2>3, <2>4, <2>5, Zenon DEF BlocksInv
<1>3. CASE bt_pc = "link" /\ peer_list = << >> /\ peer_list' = peer_list /\ bt_return
  <2>1. Listed' = Listed
    BY <1>3, Zenon DEF Listed
  <2>2. /\ missed' \in [Walks -> SUBSET Slots] /\ AddingTyped' /\ new_item' \notin Slots
        /\ AddressesApart'
    BY <1>3, ReturnFacts, Zenon DEF BlocksInv
  <2>3. BlocksTyped'
    BY <1>0, <1>3, <2>2, Zenon DEF BlocksInv, BlocksTyped
  <2>4. BlocksApart'
    <3>1. Listed \cup heap_free \subseteq Slots
      BY ListedBlocks, Zenon DEF BlocksInv, BlocksTyped
    <3> QED BY <1>0, <1>3, <2>1, <2>2, <3>1, Zenon DEF BlocksInv, BlocksApart
  <2> QED BY <1>0, <1>3, <2>1, <2>2, <2>3, <2>4, Zenon DEF BlocksInv
<1>4. \/ peer_list' = Append(peer_list, new_item) /\ bt_return
      \/ bt_pc' = "link" /\ UNCHANGED << peer_list, sought, new_item, missed >>
      \/ bt_pc = "link" /\ peer_list = << >> /\ peer_list' = peer_list /\ bt_return
  <2>1. CASE peer_append
    <3>1. CASE peer_list = << >> /\ peer_list' = << new_item >> /\ bt_return
      <4>1. Append(<< >>, new_item) = << new_item >>
        OBVIOUS
      <4> QED BY <3>1, <4>1, Zenon
    <3> QED BY <2>1, <3>1, Zenon DEF peer_append
  <2>2. CASE peer_link
    BY <2>2, Zenon DEF peer_link
  <2> QED BY <2>1, <2>2
<1> QED BY <1>1, <1>2, <1>3, <1>4, Zenon

\* timeout_handler frees peers that it has cut off, and others it cuts off only.
LEMMA TimeoutKeepsBlocks ==
  ASSUME BlocksInv, collect_cnt \in Nat, timeout_handler
  PROVE  BlocksInv'
<1>1. /\ heap_free' = heap_free \cup {peer_list[i] : i \in Gone}
      /\ mem' = [s \in Slots |-> aged(s)]
      /\ missed' = [w \in Walks |-> IF walking(w) THEN missed[w] \cup (Listed \ Listed')
                                    ELSE missed[w]]
  BY Zenon DEF timeout_handler, Gone
<1>2. bt_pc' = bt_pc /\ sought' = sought /\ new_item' = new_item
  BY DEF timeout_handler, bt
<1>3. PICK last \in 0 .. Len(peer_list) : /\ \A i \in Gone : i <= last
                                          /\ CutAt(last)
  BY TimeoutFacts, Zenon DEF BlocksInv
<1>4. peer_list' \in Seq(Slots) /\ Listed' \subseteq Listed /\ Listed \subseteq Slots
  BY TimeoutFacts, ListedBlocks, Zenon DEF BlocksInv
<1>5. mem' \in [Slots -> Entries] /\ \A s \in Slots : mem'[s].addr = mem[s].addr
  <2>1. mem \in [Slots -> Entries]
    BY Zenon DEF BlocksInv, BlocksTyped
  <2> QED BY <1>1, <2>1, AgeFacts, PeerAssumption
<1>6. {peer_list[i] : i \in Gone} \subseteq Listed
  BY Zenon DEF Gone, Listed
<1>7. BlocksTyped'
  <2>1. missed' \in [Walks -> SUBSET Slots]
    <3>1. \A w \in Walks : missed[w] \in SUBSET Slots
      BY DEF BlocksInv, BlocksTyped
    <3> QED BY <1>1, <1>4, <3>1
  <2>2. heap_free' \in SUBSET Slots
    BY <1>1, <1>4, <1>6, Zenon DEF BlocksInv, BlocksTyped
  <2> QED BY <1>4, <1>5, <2>1, <2>2, Zenon DEF BlocksTyped
<1>8. AddingTyped'
  BY <1>2, Zenon DEF BlocksInv, AddingTyped
<1>9. BlocksApart'
  <2>1. /\ Len(peer_list) \in Nat /\ DOMAIN peer_list = 1 .. Len(peer_list)
        /\ DOMAIN peer_list' = 1 .. Len(peer_list) - last
    BY <1>3 DEF BlocksInv, BlocksTyped, CutAt
  <2>2. \A k \in DOMAIN peer_list' : /\ last + k \in DOMAIN peer_list
                                     /\ peer_list'[k] = peer_list[last + k]
    BY <1>3, Zenon DEF CutAt
  <2>3. \A i, j \in DOMAIN peer_list : peer_list[i] = peer_list[j] => i = j
    BY Zenon DEF BlocksInv, BlocksApart
  <2>4. ASSUME NEW i \in DOMAIN peer_list', NEW j \in DOMAIN peer_list',
               peer_list'[i] = peer_list'[j]
        PROVE  i = j
    <3>1. last + i = last + j
      BY <2>2, <2>3, <2>4, Zenon
    <3> QED BY <2>1, <3>1
  <2>5. ASSUME NEW k \in DOMAIN peer_list', NEW i \in Gone, peer_list'[k] = peer_list[i]
        PROVE  FALSE
    <3>1. i \in DOMAIN peer_list
      BY Zenon DEF Gone
    <3>2. last + k = i
      BY <2>2, <2>3, <2>5, <3>1, Zenon
    <3>3. i <= last
      BY <1>3, Zenon
    <3> QED BY <2>1, <3>2, <3>3
  <2>6. Listed' \cap heap_free' = {}
    <3>1. Listed' \cap heap_free = {}
      BY <1>4, Zenon DEF BlocksInv, BlocksApart
    <3>2. Listed' \cap {peer_list[i] : i \in Gone} = {}
      BY <2>5, Zenon DEF Listed
    <3> QED BY <1>1, <3>1, <3>2, Zenon
  <2>7. new_item' \notin Listed' \cup heap_free'
    BY <1>1, <1>2, <1>4, <1>6, Zenon DEF BlocksInv, BlocksApart
  <2> QED BY <2>4, <2>6, <2>7, Zenon DEF BlocksApart
<1>10. AddressesApart'
  <2> SUFFICES ASSUME bt_pc \in {"append", "link"}, missed'["add"] = {}, NEW s \in Listed'
               PROVE  mem'[s].addr # mem'[new_item].addr
    BY <1>2, Zenon DEF AddressesApart
  <2>1. missed'["add"] = missed["add"]
    BY <1>1 DEF walking, Walks
  <2>2. new_item \in Slots /\ s \in Listed /\ s \in Slots
    BY <1>4, Zenon DEF BlocksInv, AddingTyped
  <2>3. mem[s].addr # mem[new_item].addr
    BY <2>1, <2>2, Zenon DEF BlocksInv, AddressesApart
  <2> QED BY <1>5, <2>2, <2>3, Zenon
<1> QED BY <1>7, <1>8, <1>9, <1>10 DEF BlocksInv
-----------------------------------------------------------------------------
LEMMA PeerInitInv == Init => PeerInv
<1> SUFFICES ASSUME Init PROVE PeerInv
  OBVIOUS
<1>1. BlocksTyped
  <2>1. (CHOOSE a \in Addrs : TRUE) \in Addrs
    BY PeerAssumption, Zenon DEF PeerAssumption
  <2>2. [mode |-> "RTT", best |-> 0] \in Measurements
    BY DEF Measurements
  <2>3. (CHOOSE m \in Measurements : TRUE) \in Measurements
    BY <2>2, Zenon
  <2>4. 0 \in 0 .. TIMEOUT_STEPS
    BY PeerAssumption DEF PeerAssumption
  <2> DEFINE e == [addr |-> CHOOSE a \in Addrs : TRUE, meas |-> CHOOSE m \in Measurements : TRUE,
                   timeout |-> 0]
  <2>5. e \in Entries
    BY <2>1, <2>3, <2>4, Zenon DEF Entries
  <2>6. mem = [s \in Slots |-> e]
    BY Zenon DEF Init
  <2> HIDE DEF e
  <2>7. mem \in [Slots -> Entries]
    BY <2>5, <2>6, Zenon
  <2>8. missed \in [Walks -> SUBSET Slots]
    BY DEF Init
  <2> QED BY <2>7, <2>8 DEF Init, BlocksTyped
<1>2. peer_list = << >> /\ DOMAIN << >> = {} /\ heap_free = Slots /\ new_item = NULL
  BY DEF Init
<1>3. Listed = {}
  BY <1>2, Zenon DEF Listed
<1>4. BlocksApart
  BY <1>2, <1>3, PeerAssumption, Zenon DEF BlocksApart, PeerAssumption
<1>5. AddingTyped /\ AddressesApart
  BY DEF Init, AddingTyped, AddressesApart
<1>6. ThreadTyped
  BY PeerAssumption DEF Init, ThreadTyped, PeerAssumption
<1>7. FilterTyped
  BY PeerAssumption DEF Init, FilterTyped, FilterWithinBuffer, PeerAssumption
<1> QED BY <1>1, <1>4, <1>5, <1>6, <1>7 DEF PeerInv, BlocksInv

\* Every step keeps list, heap and the block being added apart.
LEMMA BlocksKept == ASSUME PeerInv, [Next]_vars PROVE BlocksInv'
<1>0. BlocksInv /\ BlocksTyped /\ ThreadTyped /\ collect_cnt \in Nat
  BY DEF PeerInv, BlocksInv, FilterTyped
<1>1. CASE \E a \in Addrs : peer_supported_add(a)
  BY <1>0, <1>1, CallKeepsBlocks, Zenon
<1>2. CASE bt_thread
  BY <1>0, <1>2, TestKeepsBlocks, AppendKeepsBlocks, Zenon DEF bt_thread
<1>3. CASE timeout_handler
  BY <1>0, <1>3, TimeoutKeepsBlocks, Zenon
<1>4. CASE thread_store
  <2>1. /\ peer \in Slots /\ result.meas \in Measurements
        /\ mem' = [mem EXCEPT ![peer].meas = result.meas, ![peer].timeout = TIMEOUT_STEPS]
        /\ UNCHANGED << heap_free, peer_list, bt, missed >>
    BY <1>0, <1>4 DEF thread_store, ThreadTyped, Messages
  <2>2. mem' \in [Slots -> Entries] /\ \A s \in Slots : mem'[s].addr = mem[s].addr
    BY <1>0, <2>1, StoreFacts, PeerAssumption, Zenon DEF BlocksTyped
  <2>3. missed' \in [Walks -> SUBSET Slots] /\ missed'["add"] = missed["add"]
    BY <1>0, <2>1 DEF BlocksTyped
  <2> QED BY <1>0, <2>1, <2>2, <2>3, BlocksRewritten
<1>5. CASE thread_find
  <2>1. mem' = mem /\ UNCHANGED << heap_free, peer_list, bt >>
        /\ missed' = [missed EXCEPT !["find"] = {}]
    BY <1>5 DEF thread_find, peers
  <2>2. missed' \in [Walks -> SUBSET Slots] /\ missed'["add"] = missed["add"]
    BY <1>0, <2>1 DEF BlocksTyped, Walks
  <2>3. mem' \in [Slots -> Entries] /\ \A s \in Slots : mem'[s].addr = mem[s].addr
    BY <1>0, <2>1, Zenon DEF BlocksTyped
  <2> QED BY <1>0, <2>1, <2>2, <2>3, BlocksRewritten
<1>6. CASE UNCHANGED << peers, bt, missed >>
  BY <1>0, <1>6, BlocksUnchanged
<1>7. CASE \E r \in Messages : peer_update(r)
  BY <1>6, <1>7 DEF peer_update
<1>8. CASE peer_thread
  BY <1>4, <1>5, <1>6, <1>8 DEF peer_thread, thread_get, print_result, data_collect_read,
     data_collect_write, filter_restart, thread_read, thread_write, led_notification, led_start
<1>9. CASE UNCHANGED vars
  BY <1>6, <1>9 DEF vars
<1> QED BY <1>1, <1>2, <1>3, <1>7, <1>8, <1>9, Zenon DEF Next

\* ... the filter within its buffer, but for the interrupt while it is sorted ...
LEMMA FilterKept == ASSUME PeerInv, [Next]_vars PROVE FilterTyped'
<1>0. /\ TOTAL_NUM_FILTER \in Nat \ {0, 1} /\ collect_cnt \in Nat
      /\ reg \in 0 .. TOTAL_NUM_FILTER - 1
      /\ collect_cnt >= TOTAL_NUM_FILTER => pc \in {"print_full", "led_full"}
  BY PeerAssumption DEF PeerInv, FilterTyped, FilterWithinBuffer, PeerAssumption
<1>1. CASE UNCHANGED << collect_cnt, reg, pc >>
  BY <1>0, <1>1 DEF FilterTyped, FilterWithinBuffer
<1>2. CASE timeout_handler
  <2>1. PICK k \in Nat : collect_cnt' = filter_result(collect_cnt, k)
    BY <1>0, <1>2, TimeoutFacts, Zenon DEF PeerInv, BlocksInv
  <2>2. reg' = reg /\ pc' = pc
    BY <1>2, Zenon DEF timeout_handler, thread
  <2>3. CASE collect_cnt < TOTAL_NUM_FILTER
    <3>1. collect_cnt' = (collect_cnt + k) % TOTAL_NUM_FILTER
      BY <2>1, <2>3, Zenon DEF filter_result
    <3>2. collect_cnt' \in 0 .. TOTAL_NUM_FILTER - 1
      BY <1>0, <3>1
    <3> QED BY <1>0, <2>2, <3>2 DEF FilterTyped, FilterWithinBuffer
  <2>4. CASE ~(collect_cnt < TOTAL_NUM_FILTER)
    <3>1. collect_cnt' = collect_cnt + k
      BY <2>1, <2>4, Zenon DEF filter_result
    <3> QED BY <1>0, <2>2, <2>4, <3>1 DEF FilterTyped, FilterWithinBuffer
  <2> QED BY <2>3, <2>4
<1>3. ASSUME NEW at, NEW next, data_collect_read(at, next), at \notin {"print_full", "led_full"}
      PROVE  FilterTyped'
  BY <1>0, <1>3 DEF data_collect_read, FilterTyped, FilterWithinBuffer
<1>4. ASSUME NEW at, NEW full \in {"print_full", "led_full"}, NEW next,
             data_collect_write(at, full, next)
      PROVE  FilterTyped'
  BY <1>0, <1>4 DEF data_collect_write, FilterTyped, FilterWithinBuffer
<1>5. ASSUME NEW at, NEW next, filter_restart(at, next)
      PROVE  FilterTyped'
  BY <1>0, <1>5 DEF filter_restart, FilterTyped, FilterWithinBuffer
<1>6. CASE thread_get \/ thread_find \/ thread_store \/ thread_read \/ thread_write
  BY <1>0, <1>6 DEF thread_get, thread_find, thread_store, thread_read, thread_write,
     FilterTyped, FilterWithinBuffer
<1>7. CASE led_start
  BY <1>0, <1>7 DEF led_start, FilterTyped, FilterWithinBuffer
<1>8. CASE print_result
  <2>1. CASE data_collect_read("print", "print_collect")
    BY <1>3, <2>1
  <2>2. CASE data_collect_write("print_collect", "print_full", "read")
    BY <1>4, <2>2
  <2>3. CASE filter_restart("print_full", "read")
    BY <1>5, <2>3
  <2> QED BY <1>8, <2>1, <2>2, <2>3, Zenon DEF print_result
<1>9. CASE led_notification
  <2>1. CASE data_collect_write("led_collect", "led_full", "wait")
    BY <1>4, <2>1
  <2>2. CASE filter_restart("led_full", "wait")
    BY <1>5, <2>2
  <2> QED BY <1>7, <1>9, <2>1, <2>2, Zenon DEF led_notification
<1>10. CASE peer_thread
  BY <1>6, <1>8, <1>9, <1>10, Zenon DEF peer_thread
<1>11. CASE \/ \E a \in Addrs : peer_supported_add(a)
            \/ bt_thread
            \/ \E r \in Messages : peer_update(r)
            \/ UNCHANGED vars
  BY <1>1, <1>11 DEF peer_supported_add, bt_thread, peer_supported_test, peer_append, peer_link,
     peer_update, vars, thread
<1> QED BY <1>2, <1>10, <1>11, Zenon DEF Next

\* ... and the thread's pointers to blocks.
LEMMA ThreadKept == ASSUME PeerInv, [Next]_vars PROVE ThreadTyped'
<1>0. BlocksTyped /\ ThreadTyped /\ Listed \subseteq Slots /\ MSGQ_MAX \in Nat
  BY ListedBlocks, PeerAssumption DEF PeerInv, BlocksInv, PeerAssumption
<1>1. CASE UNCHANGED << closest_peer, peer, cand, result, pc, result_msgq >>
  BY <1>0, <1>1 DEF ThreadTyped
<1>2. CASE timeout_handler
  <2>1. /\ Listed' \subseteq Listed
        /\ closest_peer' \in Listed' \cup {NULL} \/ closest_peer' = closest_peer
        /\ UNCHANGED << result_msgq, thread >>
    <3>1. collect_cnt \in Nat
      BY DEF PeerInv, FilterTyped
    <3>2. UNCHANGED << result_msgq, thread >>
      BY <1>2 DEF timeout_handler
    <3> QED BY <1>0, <1>2, <3>1, <3>2, TimeoutFacts, Zenon
  <2> QED BY <1>0, <2>1 DEF ThreadTyped, thread
<1>3. ASSUME NEW r \in Messages, peer_update(r) PROVE ThreadTyped'
  <2>1. /\ Append(result_msgq, r) \in Seq(Messages)
        /\ Len(Append(result_msgq, r)) = Len(result_msgq) + 1
    BY <1>0 DEF ThreadTyped
  <2>2. result_msgq' \in Seq(Messages) /\ Len(result_msgq') <= MSGQ_MAX
    BY <1>0, <1>3, <2>1 DEF ThreadTyped, peer_update
  <2> QED BY <1>0, <1>3, <2>2 DEF ThreadTyped, peer_update, thread
<1>4. CASE thread_get
  <2>1. /\ Head(result_msgq) \in Messages /\ Tail(result_msgq) \in Seq(Messages)
        /\ Len(Tail(result_msgq)) <= MSGQ_MAX
    BY <1>0, <1>4 DEF ThreadTyped, thread_get
  <2> QED BY <1>0, <1>4, <2>1 DEF ThreadTyped, thread_get
<1>5. CASE thread_find \/ thread_store
  <2>1. CASE thread_find
    <3>1. peer' \in Slots \cup {NULL}
      <4>1. "find" \in Walks
        BY DEF Walks
      <4> QED BY <1>0, <2>1, <4>1, SearchFacts, Zenon DEF thread_find
    <3> QED BY <1>0, <2>1, <3>1 DEF ThreadTyped, thread_find
  <2>2. CASE thread_store
    BY <1>0, <2>2 DEF ThreadTyped, thread_store
  <2> QED BY <1>5, <2>1, <2>2
<1>6. CASE print_result
  BY <1>0, <1>6 DEF ThreadTyped, print_result, data_collect_read, data_collect_write,
     filter_restart
<1>7. CASE thread_read
  BY <1>0, <1>7 DEF ThreadTyped, thread_read
<1>8. CASE thread_write
  <2>1. mcpd_min_peer_result(cand, peer) \in {cand, peer, NULL}
    BY ComparisonPicks
  <2>2. cand' \in Slots \cup {NULL}
    BY <1>0, <1>8, <2>1 DEF ThreadTyped, thread_write
  <2> QED BY <1>0, <1>8, <2>2 DEF ThreadTyped, thread_write
<1>9. CASE led_notification
  BY <1>0, <1>9 DEF ThreadTyped, led_notification, led_start, data_collect_write, filter_restart
<1>10. CASE peer_thread
  BY <1>4, <1>5, <1>6, <1>7, <1>8, <1>9, <1>10, Zenon DEF peer_thread
<1>11. CASE (\E a \in Addrs : peer_supported_add(a)) \/ bt_thread \/ UNCHANGED vars
  BY <1>1, <1>11 DEF peer_supported_add, bt_thread, peer_supported_test, peer_append, peer_link,
     vars, thread
<1> QED BY <1>2, <1>3, <1>10, <1>11, Zenon DEF Next
-----------------------------------------------------------------------------
\* Whatever the interleaving of scan reports, measurements and the timer: the
\* inductive invariant of peer.c.
THEOREM PeerInvariance == Spec => []PeerInv
<1>1. PeerInv /\ [Next]_vars => PeerInv'
  BY BlocksKept, FilterKept, ThreadKept, Zenon DEF PeerInv
<1> QED BY <1>1, PeerInitInv, PTL DEF Spec

\* The variables of peer.c keep their types: peer_thread only ever stores
\* through a pointer to a block of peer_heap, and its copy of collect_cnt is an
\* index of filt_buf.
THEOREM PeerTypeCorrect == Spec => []TypeOK
<1>1. PeerInv => TypeOK
  <2> SUFFICES ASSUME PeerInv PROVE TypeOK
    OBVIOUS
  <2>1. BlocksTyped /\ AddingTyped /\ ThreadTyped /\ reg \in 0 .. TOTAL_NUM_FILTER - 1
    BY DEF PeerInv, BlocksInv, FilterTyped
  <2>2. Listed \subseteq Slots
    BY <2>1, ListedBlocks
  <2>3. mem \in [Slots -> [addr : Addrs, meas : Measurements, timeout : 0 .. TIMEOUT_STEPS]]
    BY <2>1, Zenon DEF BlocksTyped, Entries
  <2>4. new_item \in Slots \cup {NULL}
    BY <2>1 DEF AddingTyped
  <2> QED BY <2>1, <2>2, <2>3, <2>4 DEF TypeOK, BlocksTyped, AddingTyped, ThreadTyped
<1> QED BY <1>1, PeerInvariance, PTL

\* No block of peer_heap is listed twice, or listed and free, or handed out
\* while it is listed: timeout_handler frees only blocks that it unlinks, and
\* the one being appended is nobody else's.
THEOREM BlocksStayApart == Spec => []BlocksApart
<1>1. PeerInv => BlocksApart
  BY DEF PeerInv, BlocksInv
<1> QED BY <1>1, PeerInvariance, PTL

\* timeout_handler leaks the peers before one whose time is up, as
\* sys_slist_remove is not told their position; that and an append to a tail
\* that expires under it are the only leaks, and no leaked block comes back.
THEOREM LossBehindExpired == Spec => LostBehindExpired
<1> DEFINE Loss == /\ Lost \subseteq Lost'
                   /\ \A s \in Lost' \ Lost :
                        \/ \E i, j \in DOMAIN peer_list :
                              i < j /\ peer_list[i] = s /\ ~expired(s) /\ expired(peer_list[j])
                        \/ s = new_item /\ bt_pc = "link" /\ peer_list = << >>
<1>1. ASSUME PeerInv, [Next]_vars PROVE Loss
  <2>0. BlocksInv /\ collect_cnt \in Nat /\ NULL \notin Slots
    BY <1>1, PeerAssumption, Zenon DEF PeerInv, FilterTyped, PeerAssumption
  <2>1. ASSUME Lost' = Lost PROVE Loss
    BY <2>1, Zenon
  <2>2. ASSUME UNCHANGED << peer_list, heap_free, new_item >> PROVE Lost' = Lost
    BY <2>2, Zenon DEF Lost, Listed
  <2>3. CASE peer_supported_test
    <3>1. bt_pc = "test" /\ peer_list' = peer_list
      BY <2>3 DEF peer_supported_test
    <3>2. new_item = NULL /\ Listed' = Listed
      BY <2>0, <3>1, Zenon DEF BlocksInv, AddingTyped, Listed
    <3>3. \/ heap_free' = heap_free /\ new_item' = NULL
          \/ \E s \in heap_free : heap_free' = heap_free \ {s} /\ new_item' = s
      BY <2>3, Zenon DEF peer_supported_test, bt_return, new_peer
    <3>4. Lost' = Lost
      BY <2>0, <3>2, <3>3, Zenon DEF Lost
    <3> QED BY <2>1, <3>4
  <2>4. CASE peer_append \/ peer_link
    <3>1. /\ heap_free' = heap_free
          /\ \/ Listed' = Listed \cup {new_item} /\ new_item' = NULL
             \/ Listed' = Listed /\ new_item' = new_item
             \/ Listed' = Listed /\ bt_pc = "link" /\ peer_list = << >>
      BY <2>0, <2>4, AppendKeepsBlocks, Zenon
    <3>2. new_item' = new_item \/ new_item' = NULL
      BY <2>4 DEF peer_append, peer_link, bt_return
    <3>3. Lost \subseteq Lost'
      BY <2>0, <3>1, <3>2, Zenon DEF Lost
    <3>4. ASSUME NEW s \in Lost' \ Lost
          PROVE  s = new_item /\ bt_pc = "link" /\ peer_list = << >>
      BY <2>0, <3>1, <3>2, <3>4, Zenon DEF Lost
    <3> QED BY <3>3, <3>4, Zenon
  <2>5. CASE timeout_handler
    <3>1. /\ heap_free' = heap_free \cup {peer_list[i] : i \in Gone}
          /\ new_item' = new_item
      BY <2>5 DEF timeout_handler, Gone, bt
    <3>2. PICK last \in 0 .. Len(peer_list) : /\ \A i \in Gone : i <= last
                                              /\ last = 0 \/ last \in Gone
                                              /\ CutAt(last)
      BY <2>0, <2>5, TimeoutFacts, Zenon DEF BlocksInv
    <3>3. Listed' \subseteq Listed
      BY <2>0, <2>5, TimeoutFacts, Zenon DEF BlocksInv
    <3>4. {peer_list[i] : i \in Gone} \subseteq Listed
      BY Zenon DEF Gone, Listed
    <3>5. Lost \subseteq Lost'
      BY <3>1, <3>3, <3>4, Zenon DEF Lost
    <3>6. ASSUME NEW s \in Lost' \ Lost
          PROVE  \E i, j \in DOMAIN peer_list :
                    i < j /\ peer_list[i] = s /\ ~expired(s) /\ expired(peer_list[j])
      <4>1. /\ s \in Listed /\ s \notin Listed' /\ s \notin {peer_list[i] : i \in Gone}
        BY <3>1, <3>6, Zenon DEF Lost
      <4>2. PICK i \in DOMAIN peer_list : peer_list[i] = s
        BY <4>1, Zenon DEF Listed
      <4>3. i \notin Gone /\ ~expired(s)
        BY <4>1, <4>2, Zenon DEF Gone
      <4>4. /\ Len(peer_list) \in Nat /\ DOMAIN peer_list = 1 .. Len(peer_list)
            /\ DOMAIN peer_list' = 1 .. Len(peer_list) - last
        BY <2>0, <3>2 DEF BlocksInv, BlocksTyped, CutAt
      <4>5. i <= last
        <5> SUFFICES ASSUME ~(i <= last) PROVE FALSE
          OBVIOUS
        <5>1. i - last \in DOMAIN peer_list' /\ last + (i - last) = i
          BY <4>4
        <5>2. peer_list'[i - last] = s
          BY <3>2, <4>2, <5>1 DEF CutAt
        <5> QED BY <4>1, <5>1, <5>2, Zenon DEF Listed
      <4>6. last # 0 /\ last # i
        BY <3>2, <4>3, <4>4, <4>5
      <4>7. last \in Gone /\ i < last
        BY <3>2, <4>4, <4>5, <4>6
      <4>8. last \in DOMAIN peer_list /\ expired(peer_list[last])
        BY <4>7, Zenon DEF Gone
      <4> QED BY <4>2, <4>3, <4>7, <4>8, Zenon
    <3> QED BY <3>5, <3>6, Zenon
  <2>6. CASE peer_thread
    <3>1. UNCHANGED << peer_list, heap_free, new_item >>
      BY <2>6 DEF peer_thread, thread_get, thread_find, thread_store, print_result,
         data_collect_read, data_collect_write, filter_restart, thread_read, thread_write,
         led_notification, led_start, peers, bt
    <3> QED BY <2>1, <2>2, <3>1
  <2>7. CASE \/ \E a \in Addrs : peer_supported_add(a)
             \/ \E r \in Messages : peer_update(r)
             \/ UNCHANGED vars
    <3>1. UNCHANGED << peer_list, heap_free, new_item >>
      BY <2>7 DEF peer_supported_add, peer_update, vars, peers, bt
    <3> QED BY <2>1, <2>2, <3>1
  <2> QED BY <1>1, <2>3, <2>4, <2>5, <2>6, <2>7, Zenon DEF Next, bt_thread
<1>2. PeerInv /\ [Next]_vars => [Loss]_vars
  BY <1>1, Zenon
<1> QED BY <1>2, PeerInvariance, PTL DEF Spec, LostBehindExpired

\* peer_supported_test and the append are separate steps, and the interrupt may
\* come in each: a second entry for an address is made only if it took peers
\* out of the list while the test was walking through it.
THEOREM DuplicatesOnlyTorn == Spec => DuplicateOnlyTorn
<1> DEFINE Torn == AddressesUnique /\ ~AddressesUnique' => missed["add"] # {}
<1>1. ASSUME PeerInv, [Next]_vars PROVE Torn
  <2> SUFFICES ASSUME AddressesUnique, missed["add"] = {} PROVE AddressesUnique'
    BY Zenon
  <2>0. BlocksInv /\ collect_cnt \in Nat /\ ThreadTyped
    BY <1>1 DEF PeerInv, FilterTyped
  <2>1. /\ peer_list \in Seq(Slots) /\ Listed \subseteq Slots
        /\ \A i \in DOMAIN peer_list : peer_list[i] \in Listed
    BY <2>0, ListedBlocks, Zenon DEF BlocksInv, BlocksTyped, Listed
  <2>2. ASSUME peer_list' = peer_list, \A s \in Listed : mem'[s].addr = mem[s].addr
        PROVE  AddressesUnique'
    BY <2>1, <2>2, Zenon DEF AddressesUnique
  <2>3. ASSUME UNCHANGED << mem, peer_list >> PROVE AddressesUnique'
    BY <2>2, <2>3
  <2>4. ASSUME peer_list' = Append(peer_list, new_item), mem' = mem,
               bt_pc \in {"append", "link"}
        PROVE  AddressesUnique'
    <3>1. \A s \in Listed : mem[s].addr # mem[new_item].addr
      BY <2>0, <2>4, Zenon DEF BlocksInv, AddressesApart
    <3> DEFINE n == Len(peer_list)
    <3>2. n \in Nat /\ DOMAIN peer_list = 1 .. n
      BY <2>1
    <3>3. /\ DOMAIN peer_list' = 1 .. n + 1
          /\ peer_list'[n + 1] = new_item
          /\ \A i \in 1 .. n : peer_list'[i] = peer_list[i]
      <4>1. new_item \in Slots
        BY <2>0, <2>4, Zenon DEF BlocksInv, AddingTyped
      <4> QED BY <2>1, <2>4, <4>1
    <3> HIDE DEF n
    <3>4. \A i : i \in DOMAIN peer_list' <=> i \in DOMAIN peer_list \/ i = n + 1
      BY <3>2, <3>3
    <3>5. \A i \in DOMAIN peer_list : peer_list'[i] = peer_list[i] /\ peer_list[i] \in Listed
      BY <2>1, <3>2, <3>3, Zenon
    <3>6. mem' = mem
      BY <2>4, Zenon
    <3> SUFFICES ASSUME NEW i \in DOMAIN peer_list', NEW j \in DOMAIN peer_list',
                        mem[peer_list'[i]].addr = mem[peer_list'[j]].addr
                 PROVE  i = j
      BY <3>6, Zenon DEF AddressesUnique
    <3>7. \A k \in DOMAIN peer_list : mem[peer_list'[k]].addr # mem[new_item].addr
      BY <3>1, <3>5
    <3>8. CASE i \in DOMAIN peer_list /\ j \in DOMAIN peer_list
      <4>1. mem[peer_list[i]].addr = mem[peer_list[j]].addr
        BY <3>5, <3>8
      <4> QED BY <3>8, <4>1, Zenon DEF AddressesUnique
    <3> QED BY <3>3, <3>4, <3>7, <3>8
  <2>5. CASE peer_append
    <3>1. mem' = mem /\ bt_pc = "append"
      BY <2>5 DEF peer_append
    <3>2. CASE peer_list = << >> /\ peer_list' = << new_item >>
      <4>1. Append(<< >>, new_item) = << new_item >>
        OBVIOUS
      <4> QED BY <2>4, <3>1, <3>2, <4>1
    <3> QED BY <2>3, <2>5, <3>1, <3>2 DEF peer_append
  <2>6. CASE peer_link
    BY <2>3, <2>4, <2>6 DEF peer_link
  <2>7. CASE peer_supported_test
    <3>1. peer_list' = peer_list
      BY <2>7 DEF peer_supported_test
    <3>2. \/ mem' = mem
          \/ \E s \in heap_free : \E e : mem' = [mem EXCEPT ![s] = e]
      BY <2>7, Zenon DEF peer_supported_test, new_peer
    <3>3. \A s \in Listed : mem'[s] = mem[s]
      <4>1. mem \in [Slots -> Entries] /\ \A s \in Listed : s \notin heap_free /\ s \in Slots
        BY <2>0, <2>1, Zenon DEF BlocksInv, BlocksTyped, BlocksApart
      <4> QED BY <3>2, <4>1
    <3> QED BY <2>2, <3>1, <3>3, Zenon
  <2>8. CASE timeout_handler
    <3>1. \A s \in Slots : mem'[s].addr = mem[s].addr
      <4>1. mem' = [s \in Slots |-> aged(s)] /\ mem \in [Slots -> Entries]
        BY <2>0, <2>8 DEF timeout_handler, BlocksInv, BlocksTyped
      <4> QED BY <4>1, AgeFacts, PeerAssumption
    <3>2. PICK last \in 0 .. Len(peer_list) : CutAt(last)
      BY <2>0, <2>8, TimeoutFacts, Zenon DEF BlocksInv
    <3>3. \A k \in DOMAIN peer_list' : /\ last + k \in DOMAIN peer_list
                                       /\ peer_list'[k] = peer_list[last + k]
                                       /\ peer_list'[k] \in Slots
      BY <2>1, <3>2, Zenon DEF CutAt
    <3>4. DOMAIN peer_list' = 1 .. Len(peer_list) - last /\ Len(peer_list) \in Nat
      BY <2>1, <3>2 DEF CutAt
    <3> SUFFICES ASSUME NEW i \in DOMAIN peer_list', NEW j \in DOMAIN peer_list',
                        mem'[peer_list'[i]].addr = mem'[peer_list'[j]].addr
                 PROVE  i = j
      BY DEF AddressesUnique
    <3>5. mem[peer_list[last + i]].addr = mem[peer_list[last + j]].addr
      <4> DEFINE s == peer_list'[i]
                 u == peer_list'[j]
      <4>1. s \in Slots /\ s = peer_list[last + i] /\ u \in Slots /\ u = peer_list[last + j]
        BY <3>3, Zenon
      <4>2. mem'[s].addr = mem'[u].addr
        OBVIOUS
      <4> HIDE DEF s, u
      <4>3. mem[s].addr = mem[u].addr
        BY <3>1, <4>1, <4>2
      <4> QED BY <4>1, <4>3
    <3>6. last + i = last + j
      BY <3>3, <3>5, Zenon DEF AddressesUnique
    <3> QED BY <3>4, <3>6
  <2>9. CASE peer_thread
    <3>1. CASE thread_store
      <4>1. /\ peer_list' = peer_list /\ peer \in Slots /\ result.meas \in Measurements
            /\ mem \in [Slots -> Entries]
            /\ mem' = [mem EXCEPT ![peer].meas = result.meas, ![peer].timeout = TIMEOUT_STEPS]
        BY <2>0, <3>1 DEF thread_store, ThreadTyped, Messages, BlocksInv, BlocksTyped
      <4>2. \A s \in Slots : mem'[s].addr = mem[s].addr
        BY <4>1, StoreFacts, PeerAssumption, Zenon
      <4> QED BY <2>1, <2>2, <4>1, <4>2, Zenon
    <3>2. CASE UNCHANGED peers
      BY <2>3, <3>2 DEF peers
    <3> QED BY <2>9, <3>1, <3>2 DEF peer_thread, thread_get, thread_find, print_result,
            data_collect_read, data_collect_write, filter_restart, thread_read, thread_write,
            led_notification, led_start
  <2>10. CASE \/ \E a \in Addrs : peer_supported_add(a)
              \/ \E r \in Messages : peer_update(r)
              \/ UNCHANGED vars
    BY <2>3, <2>10 DEF peer_supported_add, peer_update, vars, peers
  <2> QED BY <1>1, <2>5, <2>6, <2>7, <2>8, <2>9, <2>10, Zenon DEF Next, bt_thread
<1>2. PeerInv /\ [Next]_vars => [Torn]_vars
  BY <1>1, Zenon
<1> QED BY <1>2, PeerInvariance, PTL DEF Spec, DuplicateOnlyTorn

\* Whatever the interrupt does under the two threads, blocks leak and peers are
\* listed twice in the ways named only.
THEOREM ListStaysAccounted == Spec => ListAccounted
  BY LossBehindExpired, DuplicatesOnlyTorn DEF ListAccounted

\* data_collect writes beyond filt_buf only if the timer interrupts peer_thread
\* between the count reaching TOTAL_NUM_FILTER and its restart, for every
\* length of the filter.
THEOREM FilterStaysWithinBuffer == Spec => []FilterWithinBuffer
<1>1. PeerInv => FilterWithinBuffer
  BY DEF PeerInv, FilterTyped
<1> QED BY <1>1, PeerInvariance, PTL

\* closest_peer comes to point to a block that is not listed only when
\* peer_thread writes it from a pointer that had gone stale: the interrupt picks
\* it from what it has left in the list.
THEOREM StaleThroughThread == Spec => StaleOnlyThroughThread
<1> DEFINE Stale == ClosestListed /\ ~ClosestListed'
                      => pc = "write" /\ ~({cand, peer} \subseteq Listed \cup {NULL})
<1>1. ASSUME PeerInv, [Next]_vars PROVE [Stale]_vars
  <2> SUFFICES ASSUME ClosestListed, ~ClosestListed'
               PROVE  pc = "write" /\ ~({cand, peer} \subseteq Listed \cup {NULL})
    BY Zenon
  <2>1. CASE UNCHANGED << peer_list, closest_peer >>
    <3>1. Listed' = Listed /\ closest_peer' = closest_peer
      BY <2>1, Zenon DEF Listed
    <3> QED BY <3>1, Zenon DEF ClosestListed
  <2>2. CASE timeout_handler
    <3>1. BlocksTyped /\ collect_cnt \in Nat
      BY <1>1 DEF PeerInv, BlocksInv, FilterTyped
    <3>2. \/ closest_peer' \in Listed' \cup {NULL}
          \/ closest_peer' = closest_peer /\ Listed' = Listed
      BY <2>2, <3>1, TimeoutFacts, Zenon
    <3> QED BY <3>2, Zenon DEF ClosestListed
  <2>3. CASE peer_append \/ peer_link
    <3>1. Listed \subseteq Listed'
      BY <1>1, <2>3, AppendKeepsBlocks, Zenon DEF PeerInv
    <3>2. closest_peer' = closest_peer
      BY <2>3 DEF peer_append, peer_link
    <3> QED BY <3>1, <3>2, Zenon DEF ClosestListed
  <2>4. CASE thread_write
    <3>1. /\ pc = "write" /\ peer_list' = peer_list
          /\ closest_peer' = mcpd_min_peer_result(cand, peer)
      BY <2>4 DEF thread_write, peers
    <3>2. closest_peer' \in {cand, peer, NULL}
      BY <3>1, ComparisonPicks, Zenon
    <3>3. Listed' = Listed
      BY <3>1, Zenon DEF Listed
    <3> QED BY <3>1, <3>2, <3>3, Zenon DEF ClosestListed
  <2>5. CASE peer_thread
    BY <2>1, <2>4, <2>5 DEF peer_thread, thread_get, thread_find, thread_store, print_result,
       data_collect_read, data_collect_write, filter_restart, thread_read, led_notification,
       led_start, peers
  <2>6. CASE \/ \E a \in Addrs : peer_supported_add(a)
             \/ peer_supported_test
             \/ \E r \in Messages : peer_update(r)
             \/ UNCHANGED vars
    BY <2>1, <2>6 DEF peer_supported_add, peer_supported_test, peer_update, vars, peers
  <2> QED BY <1>1, <2>2, <2>3, <2>5, <2>6, Zenon DEF Next, bt_thread
<1> QED BY <1>1, PeerInvariance, PTL DEF Spec, StaleOnlyThroughThread
=============================================================================
