---------------------------- MODULE IsoReceiver -----------------------------
(***************************************************************************)
(* The receiver of the ISO broadcast benchmark (receiver.c).  The main     *)
(* thread runs test_run_receiver() over and over: scan, synchronise to the *)
(* periodic advertising (PA), then to the BIG, wait until it is lost, clean *)
(* up.  It waits on semaphores, some with a timeout, that the callbacks in *)
(* the Bluetooth thread give; an answer may come after the timeout.        *)
(*                                                                         *)
(* Times and counts are abstracted: what is kept of the average duration   *)
(* is how often the current BIG entered it, and of big_sync_count whether   *)
(* the current BIG is counted.                                             *)
(*                                                                         *)
(* The host sets up the data path of a channel, and blocks, between two    *)
(* connected callbacks; the disconnected ones come in one go.              *)
(***************************************************************************)
EXTENDS Naturals

CONSTANT ISO_MAX_CHAN    \* CONFIG_BT_ISO_MAX_CHAN

ASSUME IsoAssumption == ISO_MAX_CHAN \in Nat \ {0}

VARIABLES pc,            \* where test_run_receiver() is
          broadcaster_found, per_adv_lost, big_sync_lost, biginfo_received,
          bis_count,
          sem,           \* the semaphores that are given
          sync, big,     \* are these pointers of test_run_receiver() set?
          weight,        \* times the current BIG entered average_duration
          counted,       \* big_sync_count includes the current BIG
          scanning,      \* external: the scanner is on
          pa,            \* external: the periodic advertising sync
          bigstate,      \* external: the BIG
          bis_up, bis_left,  \* external: channels of the BIG connected, and to come
          failed         \* history: some call to stop or delete has failed

flags == << broadcaster_found, per_adv_lost, big_sync_lost, biginfo_received >>
average == << weight, counted >>
host  == << scanning, pa, bigstate, bis_up, bis_left >>
vars  == << pc, flags, bis_count, sem, sync, big, average, host, failed >>

Semaphores == {"per_adv", "per_sync", "per_sync_lost", "per_big_info", "big_sync",
               "big_sync_lost"}

Init == /\ pc = "start"
        /\ broadcaster_found = FALSE /\ per_adv_lost = FALSE
        /\ big_sync_lost = FALSE /\ biginfo_received = FALSE
        /\ bis_count = 0
        /\ sem = {}
        /\ sync = FALSE /\ big = FALSE
        /\ weight = 0 /\ counted = FALSE
        /\ scanning = FALSE /\ pa = "none" /\ bigstate = "none"
        /\ bis_up = 0 /\ bis_left = 0
        /\ failed = FALSE
-----------------------------------------------------------------------------
(* Callbacks in the Bluetooth thread.                                       *)

\* A report of a device with the right name.
scan_recv ==
  /\ scanning /\ ~broadcaster_found
  /\ broadcaster_found' = TRUE
  /\ sem' = sem \cup {"per_adv"}
  /\ UNCHANGED << pc, per_adv_lost, big_sync_lost, biginfo_received, bis_count, sync,
                  big, average, host, failed >>

\* The PA sync is established.
sync_cb ==
  /\ pa = "pending"
  /\ pa' = "synced"
  /\ sem' = sem \cup {"per_sync"}
  /\ UNCHANGED << pc, flags, bis_count, sync, big, average, scanning, bigstate, bis_up,
                  bis_left, failed >>

\* The PA sync is lost.
term_cb ==
  /\ pa = "synced"
  /\ pa' = "none"
  /\ per_adv_lost' = TRUE
  /\ sem' = sem \cup {"per_sync_lost"}
  /\ UNCHANGED << pc, broadcaster_found, big_sync_lost, biginfo_received, bis_count,
                  sync, big, average, scanning, bigstate, bis_up, bis_left, failed >>

\* Mutant: the number of channels is taken as it comes.
biginfo_cb_any ==
  /\ pa = "synced" /\ ~biginfo_received
  /\ biginfo_received' = TRUE
  /\ bis_count' \in 1 .. ISO_MAX_CHAN + 1
  /\ sem' = sem \cup {"per_big_info"}
  /\ UNCHANGED << pc, broadcaster_found, per_adv_lost, big_sync_lost, sync, big, average,
                  host, failed >>

\* The first BIG information of a run; channels that do not fit are ignored.
biginfo_cb ==
  /\ pa = "synced" /\ ~biginfo_received
  /\ biginfo_received' = TRUE
  /\ bis_count' \in 1 .. ISO_MAX_CHAN
  /\ sem' = sem \cup {"per_big_info"}
  /\ UNCHANGED << pc, broadcaster_found, per_adv_lost, big_sync_lost, sync, big, average,
                  host, failed >>

\* One channel of the BIG is connected; the main thread may run before the next.
iso_connected ==
  /\ bis_left > 0
  /\ bigstate' = "synced"
  /\ bis_up' = bis_up + 1
  /\ bis_left' = bis_left - 1
  /\ sem' = sem \cup {"big_sync"}
  /\ UNCHANGED << pc, flags, bis_count, sync, big, average, scanning, pa, failed >>

\* Mutant: the semaphore is not given.
iso_disconnected_silent ==
  /\ bigstate' = "none" /\ bis_up' = 0 /\ bis_left' = 0
  /\ weight' = weight + bis_up /\ UNCHANGED counted
  /\ big_sync_lost' = (big_sync_lost \/ bis_up > 0)
  /\ UNCHANGED sem

\* iso_disconnected for every connected channel of the BIG: each updates the
\* average.
iso_disconnected ==
  /\ bigstate' = "none" /\ bis_up' = 0 /\ bis_left' = 0
  /\ weight' = weight + bis_up /\ UNCHANGED counted
  /\ big_sync_lost' = (big_sync_lost \/ bis_up > 0)
  /\ sem' = IF bis_up > 0 THEN sem \cup {"big_sync_lost"} ELSE sem

\* The BIG is lost.
big_lost ==
  /\ bis_up > 0
  /\ iso_disconnected
  /\ UNCHANGED << pc, broadcaster_found, per_adv_lost, biginfo_received, bis_count, sync,
                  big, scanning, pa, failed >>
-----------------------------------------------------------------------------
(* The main thread.                                                         *)

\* k_sem_take that succeeds.
take(at, s, next) ==
  /\ pc = at /\ s \in sem
  /\ sem' = sem \ {s}
  /\ pc' = next
  /\ UNCHANGED << flags, bis_count, sync, big, average, host, failed >>

\* k_sem_take that times out.
timeout(at, s, next) ==
  /\ pc = at /\ s \notin sem
  /\ pc' = next
  /\ UNCHANGED << flags, bis_count, sem, sync, big, average, host, failed >>

\* A call that fails without effect.
fails(at, next) ==
  /\ pc = at
  /\ pc' = next
  /\ UNCHANGED << flags, bis_count, sem, sync, big, average, host, failed >>

\* The flags are cleared ...
clear_flags ==
  /\ pc = "start"
  /\ broadcaster_found' = FALSE /\ per_adv_lost' = FALSE
  /\ big_sync_lost' = FALSE /\ biginfo_received' = FALSE
  /\ sync' = FALSE /\ big' = FALSE
  /\ pc' = "reset"
  /\ UNCHANGED << bis_count, sem, average, host, failed >>

\* Mutant: one semaphore is forgotten.
reset_sems_partly ==
  /\ pc = "reset"
  /\ sem' = sem \cap {"big_sync_lost"}
  /\ pc' = "scan"
  /\ UNCHANGED << flags, bis_count, sync, big, average, host, failed >>

\* ... and then the semaphores.
reset_sems ==
  /\ pc = "reset"
  /\ sem' = {}
  /\ pc' = "scan"
  /\ UNCHANGED << flags, bis_count, sync, big, average, host, failed >>

start_scan ==
  \/ /\ pc = "scan" /\ ~scanning
     /\ scanning' = TRUE
     /\ pc' = "wait_adv"
     /\ UNCHANGED << flags, bis_count, sem, sync, big, average, pa, bigstate, bis_up,
                     bis_left, failed >>
  \/ fails("scan", "start")

\* A scanner that cannot be stopped stays on.
stop_scan ==
  /\ pc = "stop"
  /\ \/ scanning' = FALSE /\ pc' = "create" /\ UNCHANGED failed
     \/ failed' = TRUE /\ pc' = "start" /\ UNCHANGED scanning
  /\ UNCHANGED << flags, bis_count, sem, sync, big, average, pa, bigstate, bis_up,
                  bis_left >>

\* bt_le_per_adv_sync_create in create_pa_sync.
per_adv_sync_create ==
  \/ /\ pc = "create" /\ pa = "none"
     /\ pa' = "pending"
     /\ sync' = TRUE
     /\ pc' = "wait_pa"
     /\ UNCHANGED << flags, bis_count, sem, big, average, scanning, bigstate, bis_up,
                     bis_left, failed >>
  \/ fails("create", "start")

\* bt_le_per_adv_sync_delete: the callback reports the end of a sync that was
\* established.
per_adv_sync_delete ==
  /\ pa' = "none"
  /\ per_adv_lost' = (per_adv_lost \/ pa = "synced")
  /\ sem' = IF pa = "synced" THEN sem \cup {"per_sync_lost"} ELSE sem

\* create_pa_sync after a timeout: the sync is deleted, and the run goes on as
\* if it had been established.
delete_pending ==
  /\ pc = "delete"
  /\ \/ per_adv_sync_delete /\ pc' = "wait_info" /\ UNCHANGED failed
     \/ failed' = TRUE /\ pc' = "start" /\ UNCHANGED << pa, per_adv_lost, sem >>
  /\ UNCHANGED << broadcaster_found, big_sync_lost, biginfo_received, bis_count, sync, big,
                  average, scanning, bigstate, bis_up, bis_left >>

create_pa_sync == \/ per_adv_sync_create
                  \/ take("wait_pa", "per_sync", "wait_info")
                  \/ timeout("wait_pa", "per_sync", "delete")
                  \/ delete_pending

\* bt_iso_big_sync in create_big_sync.
iso_big_sync ==
  \/ /\ pc = "big" /\ pa = "synced" /\ bigstate = "none"
     /\ bigstate' = "pending"
     /\ bis_left' = bis_count
     /\ big' = TRUE
     /\ weight' = 0 /\ counted' = FALSE
     /\ pc' = "wait_big"
     /\ UNCHANGED << flags, bis_count, sem, sync, scanning, pa, bis_up, failed >>
  \/ fails("big", "cleanup_pa")

\* big_sync_count++
count_sync ==
  /\ pc = "count"
  /\ counted' = TRUE
  /\ pc' = "wait_lost"
  /\ UNCHANGED << flags, bis_count, sem, sync, big, weight, host, failed >>

create_big_sync == \/ take("wait_info", "per_big_info", "big")
                   \/ timeout("wait_info", "per_big_info", "cleanup_pa")
                   \/ iso_big_sync
                   \/ take("wait_big", "big_sync", "count")
                   \/ timeout("wait_big", "big_sync", "cleanup_pa")
                   \/ count_sync

\* cleanup: the PA sync that is not lost is deleted ...
cleanup_pa ==
  /\ pc = "cleanup_pa"
  /\ \/ ~per_adv_lost /\ sync /\ per_adv_sync_delete /\ UNCHANGED failed
     \/ ~per_adv_lost /\ sync /\ failed' = TRUE /\ UNCHANGED << pa, per_adv_lost, sem >>
     \/ (per_adv_lost \/ ~sync) /\ UNCHANGED << pa, per_adv_lost, sem, failed >>
  /\ pc' = "cleanup_big"
  /\ UNCHANGED << broadcaster_found, big_sync_lost, biginfo_received, bis_count, sync, big,
                  average, scanning, bigstate, bis_up, bis_left >>

\* Mutant: the BIG is left alone.
cleanup_big_not ==
  /\ pc = "cleanup_big"
  /\ pc' = "start"
  /\ UNCHANGED << flags, bis_count, sem, sync, big, average, host, failed >>

\* ... and then the BIG that is not lost is terminated.
cleanup_big ==
  /\ pc = "cleanup_big"
  /\ \/ ~big_sync_lost /\ big /\ iso_disconnected /\ UNCHANGED failed
     \/ /\ ~big_sync_lost /\ big /\ failed' = TRUE
        /\ UNCHANGED << bigstate, bis_up, bis_left, average, big_sync_lost, sem >>
     \/ /\ big_sync_lost \/ ~big
        /\ UNCHANGED << bigstate, bis_up, bis_left, average, big_sync_lost, sem, failed >>
  /\ pc' = "start"
  /\ UNCHANGED << broadcaster_found, per_adv_lost, biginfo_received, bis_count, sync, big,
                  scanning, pa >>

cleanup == cleanup_pa \/ cleanup_big

test_run_receiver == \/ clear_flags \/ reset_sems \/ start_scan
                     \/ take("wait_adv", "per_adv", "stop")
                     \/ stop_scan \/ create_pa_sync \/ create_big_sync
                     \/ take("wait_lost", "big_sync_lost", "cleanup_pa")
                     \/ cleanup
-----------------------------------------------------------------------------
Callback == scan_recv \/ sync_cb \/ term_cb \/ biginfo_cb \/ iso_connected \/ big_lost

Next == Callback \/ test_run_receiver

Spec == Init /\ [][Next]_vars
-----------------------------------------------------------------------------
TypeOK == /\ pc \in {"start", "reset", "scan", "wait_adv", "stop", "create", "wait_pa",
                     "delete", "wait_info", "big", "wait_big", "count", "wait_lost", "cleanup_pa",
                     "cleanup_big"}
          /\ {broadcaster_found, per_adv_lost, big_sync_lost, biginfo_received, sync, big,
              scanning, counted, failed} \subseteq BOOLEAN
          /\ bis_count \in 0 .. ISO_MAX_CHAN
          /\ sem \subseteq Semaphores
          /\ weight \in 0 .. ISO_MAX_CHAN
          /\ pa \in {"none", "pending", "synced"}
          /\ bigstate \in {"none", "pending", "synced"}
          /\ bis_up + bis_left <= ISO_MAX_CHAN

\* A run leaves nothing behind: whatever timed out, was lost or came late, the
\* next scan starts with the scanner off and neither a PA sync nor a BIG, unless
\* a call to stop or delete has failed.
CleanStart ==
  pc = "scan" /\ ~failed => ~scanning /\ pa = "none" /\ bigstate = "none"

\* The receiver gives up a BIG only when it is lost: the signal it waits for is
\* never one of an earlier run.
LeavesOnlyLostBig ==
  pc = "wait_lost" /\ "big_sync_lost" \in sem /\ ~failed => bigstate = "none"

\* Once the BIG is lost the receiver starts over.
LostBigRestarts == pc = "wait_lost" /\ bigstate = "none" ~> pc = "start"

\* "Calculate cumulative moving average" (comment in iso_disconnected): at the end
\* of a run its BIG has entered the average at most once, and only if it was added
\* to big_sync_count, by which the average divides.
OncePerSync == pc = "start" => weight <= IF counted THEN 1 ELSE 0
=============================================================================
