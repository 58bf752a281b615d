----------------------------- MODULE PeerTracker ----------------------------
(***************************************************************************)
(* peer.c of the distance measurement example (nRF52840 dongle): the list  *)
(* of peers, the closest of them, and the filter behind the LED.           *)
(*                                                                         *)
(*   Bluetooth thread   peer_supported_add() for every matching scan       *)
(*                      report, and peer_update() for every measurement;   *)
(*   peer_thread        stores measurements, picks the closest peer;       *)
(*   timer interrupt    timeout_handler() ages the peers, frees the silent *)
(*                      ones and picks the closest again.                  *)
(*                                                                         *)
(* The interrupt may come between any two steps of the threads, and in the *)
(* middle of their walks through the list: list_mtx guards the append      *)
(* only, and does not keep an interrupt out.  A peer is known by its heap  *)
(* block throughout.                                                       *)
(***************************************************************************)
EXTENDS Naturals, Sequences, FiniteSets

CONSTANTS Addrs,             \* Bluetooth addresses
          Slots,             \* heap blocks of sizeof(struct peer_entry)
          NULL,
          Distances,         \* values of dist_estimates.mcpd.best
          TIMEOUT_STEPS,     \* PEER_TIMEOUT_INIT_MS / PEER_TIMEOUT_STEP_MS
          TOTAL_NUM_FILTER,
          MSGQ_MAX,          \* 16: messages that fit in result_msgq
          MaxAdds,           \* bound: blocks allocated
          MaxResults         \* bound: measurements

ASSUME PeerAssumption == /\ NULL \notin Slots
                         /\ Addrs # {}
                         /\ Distances \subseteq Nat
                         /\ TIMEOUT_STEPS \in Nat \ {0}
                         /\ TOTAL_NUM_FILTER \in Nat \ {0, 1}
                         /\ {MSGQ_MAX, MaxAdds, MaxResults} \subseteq Nat

VARIABLES mem,             \* contents of the blocks: struct peer_entry
          heap_free,       \* blocks that peer_heap can hand out
          peer_list,       \* sequence of blocks
          closest_peer,
          collect_cnt,     \* fill level of filt_buf
          result_msgq,
          pc, peer, result,  \* peer_thread: its step, the peer and the message
          cand,              \* ... the value of closest_peer it works with
          reg,               \* ... the value of collect_cnt it has read
          bt_pc, sought,     \* Bluetooth thread: its step, the address to be added
          new_item,          \* ... the block allocated and not yet appended
          missed,            \* blocks that left the list during a walk through it
          adds, results      \* history: how many came

peers  == << mem, heap_free, peer_list >>
thread == << pc, peer, result, cand, reg >>
bt     == << bt_pc, sought, new_item >>
vars   == << peers, closest_peer, collect_cnt, result_msgq, thread, bt, missed, adds, results >>

\* An RTT measurement has no MCPD estimate.
Measurements == [mode : {"MCPD"}, best : Distances] \cup [mode : {"RTT"}, best : {0}]
Messages == [addr : Addrs, meas : Measurements]

\* The walks of peer_supported_test and of peer_find.
Walks == {"add", "find"}

Init == /\ mem = [s \in Slots |-> [addr |-> CHOOSE a \in Addrs : TRUE,
                                   meas |-> CHOOSE m \in Measurements : TRUE,
                                   timeout |-> 0]]
        /\ heap_free = Slots
        /\ peer_list = << >>
        /\ closest_peer = NULL
        /\ collect_cnt = 0
        /\ result_msgq = << >>
        /\ pc = "wait" /\ peer = NULL /\ result = NULL /\ cand = NULL /\ reg = 0
        /\ bt_pc = "idle" /\ sought = NULL /\ new_item = NULL
        /\ missed = [w \in Walks |-> {}]
        /\ adds = 0 /\ results = 0

Listed == {peer_list[i] : i \in DOMAIN peer_list}
-----------------------------------------------------------------------------
\* mcpd_min_peer_result: of two MCPD measurements the one with the LARGER
\* distance is returned, b when they are equal; RTT measurements do not count.
mcpd_min_peer_result(a, b) ==
  LET ranged == {s \in {a, b} \ {NULL} : mem[s].meas.mode = "MCPD"}
  IN IF ranged = {} THEN NULL
     ELSE IF {a, b} \subseteq ranged /\ ~(mem[a].meas.best > mem[b].meas.best) THEN b
     ELSE IF a \in ranged THEN a ELSE b

\* peer_find_closest over the list l.
peer_find_closest(l) ==
  LET closest[i \in 0 .. Len(l)] ==
        IF i = 0 THEN Head(l) ELSE mcpd_min_peer_result(closest[i - 1], l[i])
  IN IF l = << >> THEN NULL ELSE closest[Len(l)]

\* filter_result for k values in a row, run to its end: the count restarts when
\* it reaches TOTAL_NUM_FILTER, and goes on when it is already beyond.
filter_result(cnt, k) ==
  IF cnt < TOTAL_NUM_FILTER THEN (cnt + k) % TOTAL_NUM_FILTER ELSE cnt + k

expired(s) == mem[s].timeout <= 1

walking(w) == IF w = "add" THEN bt_pc = "test" ELSE pc = "find"

\* What a walk for address a may return: the first block of the list that has
\* it, or NULL.  A block that leaves the list under the walk may still be read,
\* and its link leads nowhere, or into a free block: from there on the walk may
\* miss what is listed.
search(w, a) ==
  LET found == {s \in Listed \cup missed[w] : mem[s].addr = a}
      first == {s \in found : \E i \in DOMAIN peer_list :
                   peer_list[i] = s /\ \A j \in 1 .. i - 1 : mem[peer_list[j]].addr # a}
  IN IF found = {} THEN {NULL} ELSE IF missed[w] = {} THEN first ELSE found \cup {NULL}

\* What is left of the list when the i-th peer is removed: sys_slist_remove is
\* told that the peer has no predecessor, and makes its successor the head.
after(i) == SubSeq(peer_list, i + 1, Len(peer_list))

\* Every peer whose time is not up ages, those that are being cut off included.
aged(s) == IF s \in Listed /\ ~expired(s) THEN [mem[s] EXCEPT !.timeout = @ - 1] ELSE mem[s]

\* Mutant: the closest peer is not looked for again.
timeout_handler_keeps_closest ==
  LET gone == {i \in DOMAIN peer_list : expired(peer_list[i])}
  IN /\ \/ gone = {} /\ peer_list' = peer_list
        \/ \E last \in gone : (\A i \in gone : i <= last) /\ peer_list' = after(last)
     /\ heap_free' = heap_free \cup {peer_list[i] : i \in gone}
     /\ mem' = [s \in Slots |-> aged(s)]
     /\ UNCHANGED << closest_peer, collect_cnt, result_msgq, thread, bt, missed, adds, results >>

\* Mutant: a peer whose time is up just stays at zero.
timeout_handler_ages_only ==
  /\ mem' = [s \in Slots |-> aged(s)]
  /\ UNCHANGED << heap_free, peer_list, closest_peer, collect_cnt, result_msgq, thread,
                  bt, missed, adds, results >>

\* Mutant: only the last peer whose time is up is unlinked, and not what is
\* before it.
timeout_handler_unlinks_one ==
  LET gone == {i \in DOMAIN peer_list : expired(peer_list[i])}
  IN /\ \/ gone = {} /\ peer_list' = peer_list
        \/ \E last \in gone : /\ \A i \in gone : i <= last
                              /\ peer_list' = SubSeq(peer_list, 1, last - 1) \o after(last)
     /\ heap_free' = heap_free \cup {peer_list[i] : i \in gone}
     /\ mem' = [s \in Slots |-> aged(s)]
     /\ UNCHANGED << closest_peer, collect_cnt, result_msgq, thread, bt, missed, adds, results >>

\* timeout_handler, in one interrupt: every peer ages or, when its time is up,
\* is removed and freed; each removal picks the closest peer again and feeds
\* its distance to the filter.  Only what follows the last peer removed is
\* still listed in the end.
timeout_handler ==
  LET gone == {i \in DOMAIN peer_list : expired(peer_list[i])}
      fed  == {i \in gone : peer_find_closest(after(i)) # NULL}
  IN /\ \/ /\ gone = {}
           /\ UNCHANGED << peer_list, closest_peer >>
        \/ \E last \in gone : /\ \A i \in gone : i <= last
                              /\ peer_list' = after(last)
                              /\ closest_peer' = peer_find_closest(after(last))
     /\ heap_free' = heap_free \cup {peer_list[i] : i \in gone}
     /\ mem' = [s \in Slots |-> aged(s)]
     /\ collect_cnt' = filter_result(collect_cnt, Cardinality(fed))
     /\ missed' = [w \in Walks |-> IF walking(w) THEN missed[w] \cup (Listed \ Listed')
                                   ELSE missed[w]]
     /\ UNCHANGED << result_msgq, thread, bt, adds, results >>
-----------------------------------------------------------------------------
\* peer_supported_add for a scan report: the walk through the list begins ...
peer_supported_add(a) ==
  /\ bt_pc = "idle" /\ adds < MaxAdds
  /\ bt_pc' = "test"
  /\ sought' = a
  /\ UNCHANGED << peers, closest_peer, collect_cnt, result_msgq, thread, new_item, missed,
                  adds, results >>

\* The thread returns to its caller.
bt_return == /\ bt_pc' = "idle" /\ sought' = NULL
             /\ new_item' = NULL
             /\ missed' = [missed EXCEPT !["add"] = {}]

\* k_heap_alloc of a block for a: its measurement is left uninitialized.
new_peer(a) ==
  \E s \in heap_free, m \in Measurements :
     /\ heap_free' = heap_free \ {s}
     /\ mem' = [mem EXCEPT ![s] = [addr |-> a, meas |-> m, timeout |-> TIMEOUT_STEPS]]
     /\ new_item' = s
     /\ adds' = adds + 1
     /\ bt_pc' = "append"
     /\ UNCHANGED << sought, missed >>

\* Mutant: a peer that is listed already is added once more.
peer_supported_test_not ==
  /\ bt_pc = "test"
  /\ \/ heap_free = {} /\ bt_return /\ UNCHANGED << mem, heap_free, adds >>
     \/ new_peer(sought)
  /\ UNCHANGED << peer_list, closest_peer, collect_cnt, result_msgq, thread, results >>

\* Mutant: the block is allocated before the test, and lost when it fails.
peer_supported_test_leak ==
  /\ bt_pc = "test"
  /\ \E s \in search("add", sought) :
       \/ /\ s # NULL
          /\ \E b \in heap_free : heap_free' = heap_free \ {b}
          /\ bt_return
          /\ UNCHANGED << mem, adds >>
       \/ /\ heap_free = {}
          /\ bt_return
          /\ UNCHANGED << mem, heap_free, adds >>
       \/ s = NULL /\ new_peer(sought)
  /\ UNCHANGED << peer_list, closest_peer, collect_cnt, result_msgq, thread, results >>

\* ... and ends: a peer that is found needs no block, and for another the heap
\* may have none.
peer_supported_test ==
  /\ bt_pc = "test"
  /\ \E s \in search("add", sought) :
       \/ /\ s # NULL \/ heap_free = {}
          /\ bt_return
          /\ UNCHANGED << mem, heap_free, adds >>
       \/ s = NULL /\ new_peer(sought)
  /\ UNCHANGED << peer_list, closest_peer, collect_cnt, result_msgq, thread, results >>

\* sys_slist_append looks whether the list is empty; the block then becomes its
\* head and tail, or is to be linked to the tail ...
peer_append ==
  /\ bt_pc = "append"
  /\ \/ /\ peer_list = << >>
        /\ peer_list' = << new_item >>
        /\ bt_return
     \/ /\ peer_list # << >>
        /\ bt_pc' = "link"
        /\ UNCHANGED << peer_list, sought, new_item, missed >>
  /\ UNCHANGED << mem, heap_free, closest_peer, collect_cnt, result_msgq, thread, adds, results >>

\* ... which may have expired by now.  Then nothing links to the new block, as
\* the list has no head.
peer_link ==
  /\ bt_pc = "link"
  /\ \/ peer_list # << >> /\ peer_list' = Append(peer_list, new_item)
     \/ peer_list = << >> /\ UNCHANGED peer_list
  /\ bt_return
  /\ UNCHANGED << mem, heap_free, closest_peer, collect_cnt, result_msgq, thread, adds, results >>

bt_thread == peer_supported_test \/ peer_append \/ peer_link

\* Mutant: no limit.
peer_update_unlimited(r) ==
  /\ results < MaxResults
  /\ results' = results + 1
  /\ result_msgq' = Append(result_msgq, r)
  /\ UNCHANGED << peers, closest_peer, collect_cnt, thread, bt, missed, adds >>

\* data_ready and peer_update: a measurement that does not fit is dropped.
peer_update(r) ==
  /\ results < MaxResults
  /\ results' = results + 1
  /\ result_msgq' = IF Len(result_msgq) < MSGQ_MAX THEN Append(result_msgq, r) ELSE result_msgq
  /\ UNCHANGED << peers, closest_peer, collect_cnt, thread, bt, missed, adds >>
-----------------------------------------------------------------------------
\* peer_thread takes a measurement, and begins to look for its peer ...
thread_get ==
  /\ pc = "wait" /\ result_msgq # << >>
  /\ result' = Head(result_msgq)
  /\ result_msgq' = Tail(result_msgq)
  /\ pc' = "find"
  /\ UNCHANGED << peers, closest_peer, collect_cnt, peer, cand, reg, bt, missed, adds, results >>

\* ... without which it waits for the next measurement.
thread_find ==
  /\ pc = "find"
  /\ peer' \in search("find", result.addr)
  /\ IF peer' = NULL THEN pc' = "wait" /\ result' = NULL
                     ELSE pc' = "store" /\ UNCHANGED result
  /\ missed' = [missed EXCEPT !["find"] = {}]
  /\ UNCHANGED << peers, closest_peer, collect_cnt, result_msgq, cand, reg, bt, adds, results >>

\* It stores it through the pointer, whatever has become of the peer ...
thread_store ==
  /\ pc = "store"
  /\ mem' = [mem EXCEPT ![peer].meas = result.meas, ![peer].timeout = TIMEOUT_STEPS]
  /\ result' = NULL
  /\ pc' = "print"
  /\ UNCHANGED << heap_free, peer_list, closest_peer, collect_cnt, result_msgq, peer,
                  cand, reg, bt, missed, adds, results >>

\* data_collect reads the count ...
data_collect_read(at, next) ==
  /\ pc = at
  /\ reg' = collect_cnt
  /\ pc' = next
  /\ UNCHANGED << peers, closest_peer, collect_cnt, result_msgq, peer, result, cand,
                  bt, missed, adds, results >>

\* ... and writes it back one higher; the value written, not the variable, is
\* compared, and a full buffer is sorted and averaged.
data_collect_write(at, full, next) ==
  /\ pc = at
  /\ collect_cnt' = reg + 1
  /\ reg' = 0
  /\ pc' = IF reg + 1 = TOTAL_NUM_FILTER THEN full ELSE next
  /\ UNCHANGED << peers, closest_peer, result_msgq, peer, result, cand, bt, missed, adds,
                  results >>

\* Mutant: the count is not restarted.
filter_restart_not(at, next) ==
  /\ pc = at
  /\ pc' = next
  /\ UNCHANGED << peers, closest_peer, collect_cnt, result_msgq, peer, result, cand, reg,
                  bt, missed, adds, results >>

\* The last statement of filter_result: collect_cnt = 0.
filter_restart(at, next) ==
  /\ pc = at
  /\ collect_cnt' = 0
  /\ pc' = next
  /\ UNCHANGED << peers, closest_peer, result_msgq, peer, result, cand, reg, bt,
                  missed, adds, results >>

\* ... prints it, which feeds the filter ...
print_result == \/ data_collect_read("print", "print_collect")
                \/ data_collect_write("print_collect", "print_full", "read")
                \/ filter_restart("print_full", "read")

\* ... reads closest_peer for the comparison ...
thread_read ==
  /\ pc = "read"
  /\ cand' = closest_peer
  /\ pc' = "write"
  /\ UNCHANGED << peers, closest_peer, collect_cnt, result_msgq, peer, result, reg,
                  bt, missed, adds, results >>

\* ... writes the outcome ...
thread_write ==
  /\ pc = "write"
  /\ cand' = mcpd_min_peer_result(cand, peer)
  /\ closest_peer' = cand'
  /\ peer' = NULL
  /\ pc' = "led"
  /\ UNCHANGED << peers, collect_cnt, result_msgq, result, reg, bt, missed, adds, results >>

\* ... and shows that peer on the LED: the LED is off without one, and else
\* the distance is fed to the filter again.
led_start ==
  /\ pc = "led"
  /\ cand' = NULL
  /\ IF cand = NULL THEN pc' = "wait" /\ UNCHANGED reg
                    ELSE pc' = "led_collect" /\ reg' = collect_cnt
  /\ UNCHANGED << peers, closest_peer, collect_cnt, result_msgq, peer, result, bt, missed,
                  adds, results >>

led_notification == \/ led_start
                    \/ data_collect_write("led_collect", "led_full", "wait")
                    \/ filter_restart("led_full", "wait")

\* The thread has the lowest priority: it does not run while the Bluetooth
\* thread is in peer_supported_add, which never blocks.
peer_thread ==
  /\ bt_pc = "idle"
  /\ \/ thread_get \/ thread_find \/ thread_store \/ print_result
     \/ thread_read \/ thread_write \/ led_notification
-----------------------------------------------------------------------------
Next == \/ \E a \in Addrs : peer_supported_add(a)
        \/ bt_thread
        \/ \E r \in Messages : peer_update(r)
        \/ peer_thread
        \/ timeout_handler

Spec == Init /\ [][Next]_vars

\* The timer ticks; reports and measurements come when they come.
FairSpec == Spec /\ WF_vars(timeout_handler)
-----------------------------------------------------------------------------
TypeOK == /\ mem \in [Slots -> [addr : Addrs, meas : Measurements, timeout : 0 .. TIMEOUT_STEPS]]
          /\ heap_free \subseteq Slots
          /\ Listed \subseteq Slots
          /\ {closest_peer, peer, cand, new_item} \subseteq Slots \cup {NULL}
          /\ result \in Messages \cup {NULL} /\ sought \in Addrs \cup {NULL}
          /\ reg \in 0 .. TOTAL_NUM_FILTER - 1
          /\ pc \in {"wait", "find", "store", "print", "print_collect", "print_full", "read",
                    "write", "led", "led_collect", "led_full"}
          /\ bt_pc \in {"idle", "test", "append", "link"}
          /\ missed \in [Walks -> SUBSET Slots]
          /\ Len(result_msgq) <= MSGQ_MAX

\* However scan reports, expiries and reallocations interleave, no block is in
\* the list twice, or listed and free at once, or handed out while it is
\* listed: nothing is freed twice and no list runs in a circle.
BlocksApart ==
  /\ \A i, j \in DOMAIN peer_list : peer_list[i] = peer_list[j] => i = j
  /\ Listed \cap heap_free = {}
  /\ new_item \notin Listed \cup heap_free

\* The blocks that nothing leads to any more.
Lost == Slots \ (Listed \cup heap_free \cup {new_item})

\* A block is lost in two ways only, and for good: its peer answers but stands
\* in the list before one that does not, or it is being linked to a tail that
\* has just expired.
LostBehindExpired ==
  [][/\ Lost \subseteq Lost'
     /\ \A s \in Lost' \ Lost :
          \/ \E i, j \in DOMAIN peer_list :
                i < j /\ peer_list[i] = s /\ ~expired(s) /\ expired(peer_list[j])
          \/ s = new_item /\ bt_pc = "link" /\ peer_list = << >>]_vars

AddressesUnique ==
  \A i, j \in DOMAIN peer_list :
     mem[peer_list[i]].addr = mem[peer_list[j]].addr => i = j

\* A peer comes to be listed twice, so that peer_find() no longer reaches the
\* second entry, only if a peer left the list while peer_supported_test walked
\* through it; a report after an expiry, or during one anywhere else, does not
\* do it.
DuplicateOnlyTorn ==
  [][AddressesUnique /\ ~AddressesUnique' => missed["add"] # {}]_vars

\* Of the ways in which the interrupt harms the list and the heap these are all.
ListAccounted == LostBehindExpired /\ DuplicateOnlyTorn

ClosestListed == closest_peer \in Listed \cup {NULL}

\* closest_peer is made to point to a peer that is gone in one way only:
\* peer_thread writes it from pointers it read before the peer expired.  The
\* interrupt itself never leaves it behind.
StaleOnlyThroughThread ==
  [][ClosestListed /\ ~ClosestListed'
       => pc = "write" /\ ~({cand, peer} \subseteq Listed \cup {NULL})]_vars

\* filt_buf has TOTAL_NUM_FILTER elements: the next value is stored beyond its
\* end only if the interrupt comes while the thread is sorting it.
FilterWithinBuffer ==
  collect_cnt >= TOTAL_NUM_FILTER => pc \in {"print_full", "led_full"}

\* A peer that is no longer measured leaves the list.
SilentPeerExpires == \A s \in Slots : s \in Listed ~> s \notin Listed
=============================================================================
