------------------------------ MODULE IsoStats ------------------------------
(***************************************************************************)
(* The packet statistics of the ISO broadcast receiver (iso_recv): overall, *)
(* for the current sync, and over a ring of the latest packets, which is   *)
(* summed up whenever the total is a multiple of PERIOD.                   *)
(***************************************************************************)
EXTENDS Naturals, Sequences, FiniteSets

CONSTANTS LATEST,      \* 1000: size of stats_latest_arr
          PERIOD,      \* 100
          UINT32,      \* 2^32
          MaxPackets   \* bound: packets since boot

VARIABLES stats_overall, stats_current_sync,
          stats_latest_arr, stats_latest_arr_pos,
          stats_latest,   \* what was printed last, or NotPrinted
          packets         \* history: every packet since boot, TRUE if received

vars == << stats_overall, stats_current_sync, stats_latest_arr, stats_latest_arr_pos,
           stats_latest, packets >>

NoStats == [recv |-> 0, lost |-> 0]
NotPrinted == [recv |-> UINT32, lost |-> UINT32]

Init == /\ stats_overall = NoStats
        /\ stats_current_sync = NoStats
        /\ stats_latest_arr = [i \in 0 .. LATEST - 1 |-> FALSE]
        /\ stats_latest_arr_pos = 0
        /\ stats_latest = NotPrinted
        /\ packets = << >>

\* One more packet, received or lost, in a uint32_t counter.
count(stats, valid) == IF valid THEN [stats EXCEPT !.recv = (@ + 1) % UINT32]
                                ELSE [stats EXCEPT !.lost = (@ + 1) % UINT32]

\* The sum over the array, up to the total when fewer packets have come.
latest(arr, total) ==
  LET seen == {i \in DOMAIN arr : i < total}
  IN [recv |-> Cardinality({i \in seen : arr[i]}),
      lost |-> Cardinality({i \in seen : ~arr[i]})]

\* Mutant: the position goes one too far.
next_pos_late(pos) == IF pos = LATEST THEN 0 ELSE pos + 1

next_pos(pos) == IF pos + 1 = LATEST THEN 0 ELSE pos + 1

\* iso_recv
iso_recv(valid) ==
  /\ Len(packets) < MaxPackets
  /\ packets' = Append(packets, valid)
  /\ stats_overall' = count(stats_overall, valid)
  /\ stats_current_sync' = count(stats_current_sync, valid)
  /\ stats_latest_arr' = [stats_latest_arr EXCEPT ![stats_latest_arr_pos] = valid]
  /\ stats_latest_arr_pos' = next_pos(stats_latest_arr_pos)
  /\ LET total == (stats_overall'.recv + stats_overall'.lost) % UINT32
     IN stats_latest' = IF total % PERIOD = 0 THEN latest(stats_latest_arr', total)
                                              ELSE NotPrinted

\* Mutant: the lost packets of the last sync are kept.
clear_received ==
  /\ stats_current_sync' = [stats_current_sync EXCEPT !.recv = 0]
  /\ UNCHANGED << stats_overall, stats_latest_arr, stats_latest_arr_pos, stats_latest,
                  packets >>

\* test_run_receiver starts a new sync.
clear_current_sync ==
  /\ stats_current_sync' = NoStats
  /\ UNCHANGED << stats_overall, stats_latest_arr, stats_latest_arr_pos, stats_latest,
                  packets >>

Next == (\E valid \in BOOLEAN : iso_recv(valid)) \/ clear_current_sync

Spec == Init /\ [][Next]_vars
-----------------------------------------------------------------------------
Received(s) == Cardinality({i \in DOMAIN s : s[i]})

TypeOK == /\ stats_latest_arr \in [0 .. LATEST - 1 -> BOOLEAN]
          /\ stats_latest_arr_pos \in 0 .. LATEST - 1
          /\ packets \in Seq(BOOLEAN)

\* What is printed as "Latest 1000" is about the last LATEST packets, or all of
\* them while there are fewer: each counted once, none older, also after the
\* ring has wrapped.  It ceases to hold when the 32-bit total wraps.
LatestIsWindow ==
  stats_latest # NotPrinted /\ Len(packets) < UINT32 =>
     LET n == Len(packets)
         window == IF n <= LATEST THEN packets ELSE SubSeq(packets, n - LATEST + 1, n)
     IN stats_latest = [recv |-> Received(window), lost |-> Len(window) - Received(window)]

\* The statistics of the current sync are about the last packets, all of them
\* consecutive ("since the BIG was synced", README.rst): nothing of an earlier sync
\* remains in them.
CurrentIsTail ==
  Len(packets) < UINT32 =>
     LET k == stats_current_sync.recv + stats_current_sync.lost
     IN /\ k <= Len(packets)
        /\ Received(SubSeq(packets, Len(packets) - k + 1, Len(packets))) = stats_current_sync.recv
=============================================================================
