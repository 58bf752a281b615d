----------------------------- MODULE RecentData -----------------------------
(***************************************************************************)
(* What the aggregator of the LTE/BLE gateway promises (aggregator.h 10-15):*)
(* a FIFO of sensor data that keeps the most recent Limit data points.      *)
(* No counter, no heap, no reuse of memory blocks: just the data.           *)
(***************************************************************************)
EXTENDS Naturals, Sequences

CONSTANTS Data,    \* the sensor data that can be stored
          Limit    \* how many data points are kept

VARIABLE recent

Init == recent = << >>

\* Storing d drops the oldest datum when Limit are already held.
Store(d) == recent' = Append(IF Len(recent) = Limit THEN Tail(recent) ELSE recent, d)

\* The oldest datum is handed out.
Take == /\ recent # << >>
        /\ recent' = Tail(recent)

Drop == recent' = << >>

Next == (\E d \in Data : Store(d)) \/ Take \/ Drop

Spec == Init /\ [][Next]_recent
=============================================================================
