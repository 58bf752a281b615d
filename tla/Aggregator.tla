----------------------------- MODULE Aggregator -----------------------------
(***************************************************************************)
(* aggregator.c of the LTE/BLE gateway: a k_fifo of heap blocks, limited   *)
(* to FIFO_MAX_ELEMENT_COUNT entries by a counter kept beside it.  Every   *)
(* operation runs under irq_lock(), hence is one step.                     *)
(***************************************************************************)
EXTENDS Integers, Sequences, FiniteSets

CONSTANTS FIFO_MAX_ELEMENT_COUNT,  \* 12 in aggregator.h
          Blocks,                  \* heap blocks of sizeof(struct fifo_entry)
          Data                     \* contents of a struct sensor_data

ASSUME AggregatorAssumption == FIFO_MAX_ELEMENT_COUNT \in Nat \ {0}

VARIABLES aggregator_fifo,  \* the queued struct fifo_entry: address and data
          entry_count,      \* the counter that stands for the FIFO's length
          free              \* blocks k_malloc can still hand out

aggVars == << aggregator_fifo, entry_count, free >>

fifo_entry == [blk : Blocks, data : Data]

AggInit == /\ aggregator_fifo = << >>
           /\ entry_count = 0
           /\ free = Blocks

-----------------------------------------------------------------------------
\* Mutant: the newest entry is overwritten instead of the oldest.
put_reuse_newest(d) ==
  /\ entry_count = FIFO_MAX_ELEMENT_COUNT
  /\ aggregator_fifo # << >>
  /\ aggregator_fifo' = [aggregator_fifo EXCEPT ![Len(aggregator_fifo)].data = d]
  /\ UNCHANGED << entry_count, free >>

\* Mutant: the reused entry is counted again.
put_reuse_counted(d) ==
  /\ entry_count = FIFO_MAX_ELEMENT_COUNT
  /\ aggregator_fifo # << >>
  /\ aggregator_fifo' = Append(Tail(aggregator_fifo),
                               [blk |-> Head(aggregator_fifo).blk, data |-> d])
  /\ entry_count' = entry_count + 1
  /\ UNCHANGED free

\* aggregator_put when the counter is at the limit: the oldest entry is
\* dequeued and its block reused for the new datum.
put_reuse(d) ==
  /\ entry_count = FIFO_MAX_ELEMENT_COUNT
  /\ aggregator_fifo # << >>
  /\ aggregator_fifo' = Append(Tail(aggregator_fifo),
                               [blk |-> Head(aggregator_fifo).blk, data |-> d])
  /\ UNCHANGED << entry_count, free >>

\* aggregator_put below the limit, k_malloc succeeding.
put_malloc(d) ==
  /\ entry_count # FIFO_MAX_ELEMENT_COUNT
  /\ \E b \in free :
        /\ free' = free \ {b}
        /\ aggregator_fifo' = Append(aggregator_fifo, [blk |-> b, data |-> d])
  /\ entry_count' = entry_count + 1

\* aggregator_put below the limit, k_malloc returning NULL: -ENOMEM.  The
\* heap is shared with the rest of the firmware, so this may happen at any time.
put_enomem ==
  /\ entry_count # FIFO_MAX_ELEMENT_COUNT
  /\ UNCHANGED aggVars

aggregator_put(d) == put_reuse(d) \/ put_malloc(d) \/ put_enomem

\* Mutant: the entry is copied out and not freed.
aggregator_get_no_free ==
  /\ aggregator_fifo # << >>
  /\ aggregator_fifo' = Tail(aggregator_fifo)
  /\ entry_count' = entry_count - 1
  /\ UNCHANGED free

\* aggregator_get with data queued: copies the oldest datum out, frees its block.
aggregator_get ==
  /\ aggregator_fifo # << >>
  /\ aggregator_fifo' = Tail(aggregator_fifo)
  /\ free' = free \cup {Head(aggregator_fifo).blk}
  /\ entry_count' = entry_count - 1

\* aggregator_clear: every queued block is freed.  The gateway never calls it.
aggregator_clear ==
  /\ aggregator_fifo' = << >>
  /\ free' = free \cup {aggregator_fifo[i].blk : i \in DOMAIN aggregator_fifo}
  /\ entry_count' = 0

AggNext == (\E d \in Data : aggregator_put(d)) \/ aggregator_get \/ aggregator_clear

AggSpec == AggInit /\ [][AggNext]_aggVars
-----------------------------------------------------------------------------
AggTypeOK == /\ aggregator_fifo \in Seq(fifo_entry)
             /\ entry_count \in Nat
             /\ free \in SUBSET Blocks

\* The counter, which alone decides between reusing and allocating a block,
\* is the length of the queue, and the queue never exceeds the limit.
CountIsLength == /\ entry_count = Len(aggregator_fifo)
                 /\ entry_count <= FIFO_MAX_ELEMENT_COUNT

\* No block is queued twice, and no queued block is on the free list: a block
\* is never freed while queued, handed out twice, or reused while it is free.
BlocksOwnedOnce ==
  /\ \A i, j \in DOMAIN aggregator_fifo :
        aggregator_fifo[i].blk = aggregator_fifo[j].blk => i = j
  /\ \A i \in DOMAIN aggregator_fifo : aggregator_fifo[i].blk \notin free

\* No block is lost: each one is free or queued.
NoBlockLost ==
  free \cup {aggregator_fifo[i].blk : i \in DOMAIN aggregator_fifo} = Blocks

HeapSafe == BlocksOwnedOnce /\ NoBlockLost

\* The data in queue order, whatever blocks hold them.
QueuedData == [i \in 1 .. Len(aggregator_fifo) |-> aggregator_fifo[i].data]

Recent == INSTANCE RecentData WITH recent <- QueuedData, Limit <- FIFO_MAX_ELEMENT_COUNT

\* The aggregator implements the abstract "most recent data" queue.
KeepsMostRecent == Recent!Spec
=============================================================================
