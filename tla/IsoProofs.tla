----------------------------- MODULE IsoProofs ------------------------------
(***************************************************************************)
(* The receiver of the ISO benchmark for every number of channels: its     *)
(* types, that a run leaves nothing behind, and that it gives up a BIG     *)
(* only when it is lost; the broadcaster, and the rates that are printed;  *)
(* and that the benchmark runs that receiver and that broadcaster.         *)
(*                                                                         *)
(* The callbacks come at any time, so the invariant says, for each place   *)
(* the main thread may be in, what the host can still report: before the   *)
(* PA sync is created nothing, and a lost PA or BIG is lost for this run.  *)
(***************************************************************************)
EXTENDS IsoBenchmark, FiniteSetTheorems, SequenceTheorems, TLAPS

\* Where test_run_receiver() is between two runs and before it has created a sync.
BeforePa == {"start", "reset", "scan", "wait_adv", "stop", "create"}
\* ... and before it has created a BIG sync.
BeforeBig == BeforePa \cup {"wait_pa", "delete", "wait_info", "big"}

\* The types of IsoReceiver but for the numbers of channels: places and sets ...
Placed == /\ pc \in BeforeBig \cup {"wait_big", "count", "wait_lost", "cleanup_pa", "cleanup_big"}
          /\ bis_count \in 0 .. ISO_MAX_CHAN
          /\ sem \subseteq Semaphores
          /\ pa \in {"none", "pending", "synced"}
          /\ bigstate \in {"none", "pending", "synced"}

\* ... and flags.
Flagged == /\ broadcaster_found \in BOOLEAN /\ per_adv_lost \in BOOLEAN
           /\ big_sync_lost \in BOOLEAN /\ biginfo_received \in BOOLEAN
           /\ sync \in BOOLEAN /\ big \in BOOLEAN
           /\ scanning \in BOOLEAN /\ counted \in BOOLEAN /\ failed \in BOOLEAN

Typed == Placed /\ Flagged

\* A channel is still to come, is connected or has entered the average.
ChannelsCounted == /\ weight \in Nat /\ bis_up \in Nat /\ bis_left \in Nat
                   /\ weight + bis_up + bis_left <= ISO_MAX_CHAN

\* The scanner is on only while the main thread waits for a report.
ScannerKnown == ~failed /\ scanning => pc \in {"wait_adv", "stop"}

\* The PA sync exists only between its creation and the cleanup, and not once it is lost.
PaKnown == ~failed =>
             /\ pc \in BeforePa \cup {"cleanup_big"} => pa = "none"
             /\ per_adv_lost => pa = "none"
             /\ pc \in BeforePa \ {"start"} => ~per_adv_lost
             /\ pc \notin BeforePa => sync

\* The same of the BIG, with its channels and with the semaphore of its loss.
BigKnown == /\ bigstate = "none" => bis_up = 0 /\ bis_left = 0
            /\ ~failed =>
                 /\ pc \in BeforeBig => bigstate = "none"
                 /\ big_sync_lost \/ ~big => bigstate = "none"
                 /\ pc \in BeforeBig \ {"start"} => ~big_sync_lost
                 /\ pc \notin {"start", "reset"} /\ "big_sync_lost" \in sem => big_sync_lost

\* The inductive invariant.
ReceiverInv == Typed /\ ChannelsCounted /\ ScannerKnown /\ PaKnown /\ BigKnown
-----------------------------------------------------------------------------
\* At the start the invariant holds: nothing is on and nothing is connected.
LEMMA ReceiverInvInit == Init => ReceiverInv
  <1> SUFFICES ASSUME Init
               PROVE  ReceiverInv
    OBVIOUS
  <1> USE DEF Init
  <1>1. Typed
    <2>1. bis_count \in 0 .. ISO_MAX_CHAN
      BY IsoAssumption
    <2> QED
      BY <2>1, Zenon DEF Typed, Placed, Flagged, BeforeBig, BeforePa
  <1>2. ChannelsCounted
    BY IsoAssumption DEF ChannelsCounted
  <1>3. ScannerKnown /\ PaKnown /\ BigKnown
    BY DEF ScannerKnown, PaKnown, BigKnown, BeforePa
  <1> QED
    BY <1>1, <1>2, <1>3 DEF ReceiverInv

\* The waits of test_run_receiver(), whether the semaphore comes or not, and the calls
\* that fail keep the invariant when the place they lead to asks for nothing more.
LEMMA MovesOn ==
  ASSUME ReceiverInv, NEW at, NEW next, pc = at, pc' = next,
         next \in BeforeBig \cup {"wait_big", "count", "wait_lost", "cleanup_pa", "cleanup_big"},
         sem' \subseteq sem,
         UNCHANGED << flags, bis_count, sync, big, average, host, failed >>,
         ~failed /\ scanning => next \in {"wait_adv", "stop"},
         next \in BeforePa \cup {"cleanup_big"} => at \in BeforePa \ {"start"},
         next \notin BeforePa => at \notin BeforePa,
         next \in BeforeBig => at \in BeforeBig \ {"start"},
         at \notin {"start", "reset"}
  PROVE  ReceiverInv'
  <1> USE DEF ReceiverInv, flags, average, host
  <1>1. Typed'
    BY DEF Typed, Placed, Flagged, Semaphores
  <1>2. ChannelsCounted'
    BY DEF ChannelsCounted
  <1>3. ScannerKnown'
    BY DEF ScannerKnown, Typed, Placed, Flagged
  <1>4. PaKnown'
    BY DEF PaKnown, Typed, Placed, Flagged
  <1>5. BigKnown'
    BY DEF BigKnown, Typed, Placed, Flagged
  <1> QED
    BY <1>1, <1>2, <1>3, <1>4, <1>5
-----------------------------------------------------------------------------
\* Every step of Next keeps the invariant, also when a call has failed.
LEMMA ReceiverInvNext == ReceiverInv /\ [Next]_vars => ReceiverInv'
  <1> SUFFICES ASSUME ReceiverInv, [Next]_vars
               PROVE  ReceiverInv'
    OBVIOUS
  <1> USE DEF ReceiverInv, flags, average, host
  <1>1. CASE scan_recv
    <2>1. Typed' /\ ChannelsCounted'
      BY <1>1 DEF scan_recv, Typed, Placed, Flagged, ChannelsCounted, Semaphores
    <2>2. ScannerKnown' /\ PaKnown' /\ BigKnown'
      BY <1>1 DEF scan_recv, ScannerKnown, PaKnown, BigKnown
    <2> QED
      BY <2>1, <2>2
  <1>2. CASE sync_cb
    <2>1. Typed' /\ ChannelsCounted'
      BY <1>2 DEF sync_cb, Typed, Placed, Flagged, ChannelsCounted, Semaphores
    <2>2. ScannerKnown' /\ PaKnown' /\ BigKnown'
      BY <1>2 DEF sync_cb, ScannerKnown, PaKnown, BigKnown
    <2> QED
      BY <2>1, <2>2
  <1>3. CASE term_cb
    <2>1. Typed' /\ ChannelsCounted'
      BY <1>3 DEF term_cb, Typed, Placed, Flagged, ChannelsCounted, Semaphores
    <2>2. ScannerKnown' /\ PaKnown' /\ BigKnown'
      BY <1>3 DEF term_cb, ScannerKnown, PaKnown, BigKnown
    <2> QED
      BY <2>1, <2>2
  <1>4. CASE biginfo_cb
    <2>1. Typed' /\ ChannelsCounted'
      BY <1>4, IsoAssumption DEF biginfo_cb, Typed, Placed, Flagged, ChannelsCounted,
         Semaphores
    <2>2. ScannerKnown' /\ PaKnown' /\ BigKnown'
      BY <1>4 DEF biginfo_cb, ScannerKnown, PaKnown, BigKnown
    <2> QED
      BY <2>1, <2>2
  <1>5. CASE iso_connected
    <2>1. Typed' /\ ChannelsCounted'
      BY <1>5, IsoAssumption DEF iso_connected, Typed, Placed, Flagged, ChannelsCounted,
         Semaphores
    <2>2. bigstate # "none"
      BY <1>5 DEF iso_connected, BigKnown
    <2>3. ScannerKnown' /\ PaKnown' /\ BigKnown'
      BY <1>5, <2>2 DEF iso_connected, ScannerKnown, PaKnown, BigKnown
    <2> QED
      BY <2>1, <2>3
  <1>6. CASE big_lost
    <2>1. Typed' /\ ChannelsCounted'
      BY <1>6, IsoAssumption DEF big_lost, iso_disconnected, Typed, Placed, Flagged,
         ChannelsCounted, Semaphores
    <2>2. bigstate # "none"
      BY <1>6 DEF big_lost, BigKnown, ChannelsCounted
    <2>3. ScannerKnown' /\ PaKnown' /\ BigKnown'
      BY <1>6, <2>2 DEF big_lost, iso_disconnected, ScannerKnown, PaKnown, BigKnown
    <2> QED
      BY <2>1, <2>3
  <1>7. CASE test_run_receiver
    <2>1. CASE clear_flags
      <3>1. Typed' /\ ChannelsCounted'
        BY <2>1 DEF clear_flags, Typed, Placed, Flagged, ChannelsCounted, BeforeBig,
           BeforePa
      <3>2. ScannerKnown' /\ PaKnown' /\ BigKnown'
        BY <2>1 DEF clear_flags, ScannerKnown, PaKnown, BigKnown, BeforeBig, BeforePa
      <3> QED
        BY <3>1, <3>2
    <2>2. CASE reset_sems
      <3>1. Typed' /\ ChannelsCounted'
        BY <2>2 DEF reset_sems, Typed, Placed, Flagged, ChannelsCounted, BeforeBig,
           BeforePa
      <3>2. ScannerKnown' /\ PaKnown' /\ BigKnown'
        BY <2>2 DEF reset_sems, ScannerKnown, PaKnown, BigKnown, BeforeBig, BeforePa
      <3> QED
        BY <3>1, <3>2
    <2>3. CASE start_scan
      <3>1. CASE fails("scan", "start")
        BY <3>1, MovesOn DEF fails, ScannerKnown, BeforeBig, BeforePa
      <3>2. CASE pc = "scan" /\ ~fails("scan", "start")
        <4>1. Typed' /\ ChannelsCounted'
          <5>1. ChannelsCounted'
            BY <2>3, <3>2 DEF start_scan, ChannelsCounted
          <5>2. Placed'
            BY <2>3, <3>2 DEF start_scan, Typed, Placed, BeforeBig, BeforePa
          <5>3. Flagged'
            BY <2>3, <3>2, Zenon DEF start_scan, Typed, Flagged
          <5> QED
            BY <5>1, <5>2, <5>3 DEF Typed
        <4>2. ScannerKnown' /\ PaKnown' /\ BigKnown'
          BY <2>3, <3>2 DEF start_scan, ScannerKnown, PaKnown, BigKnown, BeforeBig,
             BeforePa
        <4> QED
          BY <4>1, <4>2
      <3> QED
        BY <2>3, <3>1, <3>2 DEF start_scan
    <2>4. CASE take("wait_adv", "per_adv", "stop")
      BY <2>4, MovesOn DEF take, BeforeBig, BeforePa
    <2>5. CASE stop_scan
      <3>1. Typed' /\ ChannelsCounted'
        <4>1. ChannelsCounted'
          BY <2>5 DEF stop_scan, ChannelsCounted
        <4>2. Placed'
          BY <2>5 DEF stop_scan, Typed, Placed, BeforeBig, BeforePa
        <4>3. Flagged'
          BY <2>5, Zenon DEF stop_scan, Typed, Flagged
        <4> QED
          BY <4>1, <4>2, <4>3 DEF Typed
      <3>2. ScannerKnown' /\ PaKnown' /\ BigKnown'
        BY <2>5 DEF stop_scan, ScannerKnown, PaKnown, BigKnown, BeforeBig, BeforePa
      <3> QED
        BY <3>1, <3>2
    <2>6. CASE create_pa_sync
      <3>1. CASE per_adv_sync_create
        <4>1. CASE fails("create", "start")
          BY <4>1, MovesOn DEF fails, ScannerKnown, BeforeBig, BeforePa
        <4>2. CASE pc = "create" /\ ~fails("create", "start")
          <5>1. Typed' /\ ChannelsCounted'
            BY <3>1, <4>2 DEF per_adv_sync_create, Typed, Placed, Flagged,
               ChannelsCounted, BeforeBig, BeforePa
          <5>2. ScannerKnown' /\ PaKnown' /\ BigKnown'
            BY <3>1, <4>2 DEF per_adv_sync_create, ScannerKnown, PaKnown, BigKnown,
               BeforeBig, BeforePa
          <5> QED
            BY <5>1, <5>2
        <4> QED
          BY <3>1, <4>1, <4>2 DEF per_adv_sync_create
      <3>2. CASE take("wait_pa", "per_sync", "wait_info")
        BY <3>2, MovesOn DEF take, ScannerKnown, BeforeBig, BeforePa
      <3>3. CASE timeout("wait_pa", "per_sync", "delete")
        BY <3>3, MovesOn DEF timeout, ScannerKnown, BeforeBig, BeforePa
      <3>4. CASE delete_pending
        <4>1. Typed' /\ ChannelsCounted'
          <5>1. ChannelsCounted'
            BY <3>4 DEF delete_pending, per_adv_sync_delete, ChannelsCounted
          <5>2. Placed'
            BY <3>4 DEF delete_pending, per_adv_sync_delete, Typed, Placed, BeforeBig,
               BeforePa, Semaphores
          <5>3. Flagged'
            BY <3>4, Zenon DEF delete_pending, per_adv_sync_delete, Typed, Flagged
          <5> QED
            BY <5>1, <5>2, <5>3 DEF Typed
        <4>2. ScannerKnown' /\ PaKnown' /\ BigKnown'
          BY <3>4 DEF delete_pending, per_adv_sync_delete, ScannerKnown, PaKnown,
             BigKnown, BeforeBig, BeforePa
        <4> QED
          BY <4>1, <4>2
      <3> QED
        BY <2>6, <3>1, <3>2, <3>3, <3>4 DEF create_pa_sync
    <2>7. CASE create_big_sync
      <3>1. CASE take("wait_info", "per_big_info", "big")
        BY <3>1, MovesOn DEF take, ScannerKnown, BeforeBig, BeforePa
      <3>2. CASE timeout("wait_info", "per_big_info", "cleanup_pa")
        BY <3>2, MovesOn DEF timeout, ScannerKnown, BeforeBig, BeforePa
      <3>3. CASE iso_big_sync
        <4>1. CASE fails("big", "cleanup_pa")
          BY <4>1, MovesOn DEF fails, ScannerKnown, BeforeBig, BeforePa
        <4>2. CASE pc = "big" /\ ~fails("big", "cleanup_pa")
          <5>1. Typed' /\ ChannelsCounted'
            <6>1. ChannelsCounted'
              BY <3>3, <4>2, IsoAssumption
              DEF iso_big_sync, Typed, Placed, ChannelsCounted, BigKnown
            <6>2. Placed'
              BY <3>3, <4>2, IsoAssumption DEF iso_big_sync, Typed, Placed, BeforeBig,
                 BeforePa, BigKnown
            <6>3. Flagged'
              BY <3>3, <4>2, Zenon DEF iso_big_sync, Typed, Flagged
            <6> QED
              BY <6>1, <6>2, <6>3 DEF Typed
          <5>2. ScannerKnown' /\ PaKnown' /\ BigKnown'
            BY <3>3, <4>2 DEF iso_big_sync, ScannerKnown, PaKnown, BigKnown, BeforeBig,
               BeforePa
          <5> QED
            BY <5>1, <5>2
        <4> QED
          BY <3>3, <4>1, <4>2 DEF iso_big_sync
      <3>4. CASE take("wait_big", "big_sync", "count")
        BY <3>4, MovesOn DEF take, ScannerKnown, BeforeBig, BeforePa
      <3>5. CASE timeout("wait_big", "big_sync", "cleanup_pa")
        BY <3>5, MovesOn DEF timeout, ScannerKnown, BeforeBig, BeforePa
      <3>6. CASE count_sync
        <4>1. Typed' /\ ChannelsCounted'
          BY <3>6 DEF count_sync, Typed, Placed, Flagged, ChannelsCounted
        <4>2. ScannerKnown' /\ PaKnown' /\ BigKnown'
          BY <3>6 DEF count_sync, ScannerKnown, PaKnown, BigKnown, BeforeBig, BeforePa
        <4> QED
          BY <4>1, <4>2
      <3> QED
        BY <2>7, <3>1, <3>2, <3>3, <3>4, <3>5, <3>6 DEF create_big_sync
    <2>8. CASE take("wait_lost", "big_sync_lost", "cleanup_pa")
      BY <2>8, MovesOn DEF take, ScannerKnown, BeforeBig, BeforePa
    <2>9. CASE cleanup_pa
      <3>1. Typed' /\ ChannelsCounted'
        <4>1. ChannelsCounted'
          BY <2>9 DEF cleanup_pa, per_adv_sync_delete, ChannelsCounted
        <4>2. Placed'
          BY <2>9 DEF cleanup_pa, per_adv_sync_delete, Typed, Placed, Semaphores
        <4>3. Flagged'
          BY <2>9, Zenon DEF cleanup_pa, per_adv_sync_delete, Typed, Flagged
        <4> QED
          BY <4>1, <4>2, <4>3 DEF Typed
      <3>2. ScannerKnown' /\ PaKnown' /\ BigKnown'
        BY <2>9 DEF cleanup_pa, per_adv_sync_delete, ScannerKnown, PaKnown, BigKnown,
           BeforeBig, BeforePa
      <3> QED
        BY <3>1, <3>2
    <2>10. CASE cleanup_big
      <3>1. Typed' /\ ChannelsCounted'
        <4>1. ChannelsCounted'
          BY <2>10, IsoAssumption DEF cleanup_big, iso_disconnected, ChannelsCounted
        <4>2. Placed'
          BY <2>10, IsoAssumption DEF cleanup_big, iso_disconnected, Typed, Placed,
             BeforeBig, BeforePa, Semaphores
        <4>3. Flagged'
          BY <2>10, Zenon DEF cleanup_big, iso_disconnected, Typed, Flagged
        <4> QED
          BY <4>1, <4>2, <4>3 DEF Typed
      <3>2. ScannerKnown' /\ PaKnown'
        BY <2>10 DEF cleanup_big, iso_disconnected, ScannerKnown, PaKnown, BeforeBig,
           BeforePa
      <3>3. BigKnown'
        BY <2>10 DEF cleanup_big, iso_disconnected, BigKnown, BeforeBig, BeforePa
      <3> QED
        BY <3>1, <3>2, <3>3
    <2> QED
      BY <1>7, <2>1, <2>2, <2>3, <2>4, <2>5, <2>6, <2>7, <2>8, <2>9, <2>10 DEF
         test_run_receiver, cleanup
  <1>8. CASE UNCHANGED vars
    BY <1>8 DEF vars, Typed, Placed, Flagged, ChannelsCounted, ScannerKnown, PaKnown,
       BigKnown
  <1> QED
    BY <1>1, <1>2, <1>3, <1>4, <1>5, <1>6, <1>7, <1>8 DEF Next, Callback
-----------------------------------------------------------------------------
\* What the runs check follows from the invariant.
LEMMA ReceiverInvImplies == ReceiverInv => TypeOK /\ CleanStart /\ LeavesOnlyLostBig
  <1> SUFFICES ASSUME ReceiverInv
               PROVE  TypeOK /\ CleanStart /\ LeavesOnlyLostBig
    OBVIOUS
  <1> USE DEF ReceiverInv
  <1>1. TypeOK
    <2>1. {broadcaster_found, per_adv_lost, big_sync_lost, biginfo_received, sync, big,
           scanning, counted, failed} \subseteq BOOLEAN
      BY Zenon DEF Typed, Flagged
    <2>2. weight \in 0 .. ISO_MAX_CHAN /\ bis_up + bis_left <= ISO_MAX_CHAN
      BY IsoAssumption DEF ChannelsCounted
    <2> QED
      BY <2>1, <2>2 DEF TypeOK, Typed, Placed, BeforeBig, BeforePa
  <1>2. CleanStart
    BY DEF CleanStart, ScannerKnown, PaKnown, BigKnown, BeforeBig, BeforePa
  <1>3. LeavesOnlyLostBig
    BY DEF LeavesOnlyLostBig, BigKnown
  <1> QED
    BY <1>1, <1>2, <1>3

\* The benchmark runs the receiver and nothing else touches its variables: the role the
\* operator picks starts test_run_receiver(), and a broadcaster, its work queue and the
\* statistics of the packets leave it alone.
THEOREM BenchmarkRunsReceiver == BenchSpec => Spec
  <1>1. BenchInit => Init
    BY DEF BenchInit
  <1>2. [BenchNext]_benchVars => [Next]_vars
    <2> SUFFICES ASSUME [BenchNext]_benchVars
                 PROVE  [Next]_vars
      OBVIOUS
    <2>1. CASE device_role_select
      BY <2>1 DEF device_role_select, Next, test_run_receiver
    <2>2. CASE run_receiver
      BY <2>2 DEF run_receiver, Next
    <2>3. CASE run_broadcaster
      BY <2>3 DEF run_broadcaster
    <2>4. CASE BluetoothThread
      BY <2>4 DEF BluetoothThread, Next
    <2>5. CASE WorkQueue \/ Packets
      BY <2>5 DEF WorkQueue, Packets
    <2>6. CASE UNCHANGED benchVars
      BY <2>6 DEF benchVars
    <2> QED
      BY <2>1, <2>2, <2>3, <2>4, <2>5, <2>6 DEF BenchNext, MainThread
  <1> QED
    BY <1>1, <1>2, PTL DEF BenchSpec, Spec

\* The invariant of the receiver in the benchmark.
LEMMA BenchmarkInv == BenchSpec => []ReceiverInv
  BY ReceiverInvInit, ReceiverInvNext, BenchmarkRunsReceiver, PTL DEF Spec

\* For every number of channels, the types of receiver.c's state: a channel is counted
\* once, as still to come, connected or in the average.
THEOREM ReceiverTyped == BenchSpec => []TypeOK
  BY BenchmarkInv, ReceiverInvImplies, PTL

\* test_run_receiver() leaves nothing behind: whatever timed out, was lost or came late,
\* the next scan starts with neither a PA sync nor a BIG, unless a call to stop or delete
\* has failed.
THEOREM ReceiverStartsClean == BenchSpec => []CleanStart
  BY BenchmarkInv, ReceiverInvImplies, PTL

\* The wait for the loss of the BIG in test_run_receiver() never ends on the signal of an
\* earlier BIG.
THEOREM ReceiverLeavesLostBig == BenchSpec => []LeavesOnlyLostBig
  BY BenchmarkInv, ReceiverInvImplies, PTL
-----------------------------------------------------------------------------
(***************************************************************************)
(* The broadcaster.                                                        *)
(***************************************************************************)

\* Where test_run_broadcaster() is, by what it has set up: before the advertising set,
\* while it has a BIG, and while it takes the advertising set down.
BeforeAdv == {"idle", "args", "create"}
WithBig == {"wait", "sending", "terminate"}
TakingDown == {"per_stop", "ext_stop", "delete"}

\* Its places, numbers and signals.
BPlaced == /\ bpc \in BeforeAdv \cup {"per_param", "per", "ext", "big"} \cup WithBig
                     \cup TakingDown
           /\ bsem \subseteq {"big_complete", "big_term"}
           /\ adv \in {"none", "created", "param", "per", "on", "per_off"}
           /\ bigh \in {"none", "creating", "up", "terminating"}

BCounted == /\ num_bis \in 0 .. ISO_MAX_CHAN + 1
            /\ chans \in 0 .. ISO_MAX_CHAN
            /\ connected_bis \in 0 .. ISO_MAX_CHAN
            /\ handler \in 0 .. ISO_MAX_CHAN + 2
            /\ inflight \in 0 .. TX_BUF_COUNT

BFlagged == timer \in BOOLEAN /\ bfailed \in BOOLEAN

\* The work item is scheduled in the console loop only.
TimerKnown == timer <=> bpc = "sending"

\* How far the advertising set is follows from the place; a run that has failed leaves
\* it where it was, and the next one gets no further than "create".
AdvKnown == /\ bpc = "per_param" => adv = "created"
            /\ bpc = "per" => adv = "param"
            /\ bpc = "ext" => adv = "per"
            /\ bpc \in {"big", "per_stop"} \cup WithBig => adv = "on"
            /\ bpc = "ext_stop" => adv = "per_off"
            /\ bpc = "delete" => adv = "created"
            /\ bpc \in BeforeAdv /\ ~bfailed => adv = "none"

\* The BIG and its channels: the callback of the last channel alone completes it, and a
\* BIG is there only with the advertising set it was created on.
BigHandleKnown ==
  /\ bigh = "none" => chans = 0 /\ connected_bis = 0
  /\ bigh = "creating" => bpc = "wait" /\ connected_bis < chans
  /\ bigh \in {"up", "terminating"} => connected_bis = chans
  /\ bigh \in {"creating", "up"} => adv = "on"
  /\ bpc \in WithBig => bigh \in {"creating", "up"} /\ chans = num_bis
  /\ bpc \in {"sending", "terminate"} => bigh = "up"
  /\ bpc \in TakingDown => bigh \in {"none", "terminating"}
  /\ "big_complete" \in bsem => bpc = "wait" /\ bigh = "up"

\* The inductive invariant of the broadcaster.
BroadcasterInv == /\ BPlaced /\ BCounted /\ BFlagged
                  /\ TimerKnown /\ AdvKnown /\ BigHandleKnown

-----------------------------------------------------------------------------
\* At the start: no advertising set, no BIG, nothing scheduled.
LEMMA BroadcasterInvInit == B!Init => BroadcasterInv
  <1> SUFFICES ASSUME B!Init
               PROVE  BroadcasterInv
    OBVIOUS
  <1> USE DEF B!Init, B!NotRunning, B!MaxBis
  <1>1. BCounted
    BY IsoAssumption, BenchmarkAssumption DEF BCounted
  <1>2. BPlaced /\ TimerKnown /\ AdvKnown /\ BigHandleKnown
    BY DEF BPlaced, TimerKnown, AdvKnown, BigHandleKnown, BeforeAdv, WithBig, TakingDown
  <1>3. BFlagged
    BY Zenon DEF BFlagged
  <1> QED
    BY <1>1, <1>2, <1>3 DEF BroadcasterInv

\* A call of the host that moves the advertising set on, or fails and ends the run.
LEMMA AdvStepKeepsInv ==
  ASSUME BroadcasterInv,
         \/ B!adv_step("create", "per_param", "none", "created")
         \/ B!adv_step("per_param", "per", "created", "param")
         \/ B!adv_step("per", "ext", "param", "per")
         \/ B!adv_step("ext", "big", "per", "on")
         \/ B!adv_step("per_stop", "ext_stop", "on", "per_off")
         \/ B!adv_step("ext_stop", "delete", "per_off", "created")
         \/ B!adv_step("delete", "idle", "created", "none")
  PROVE  BroadcasterInv'
  <1> USE DEF BroadcasterInv, B!adv_step, BeforeAdv, WithBig, TakingDown
  <1>1. BCounted'
    BY DEF BCounted
  <1>2. BFlagged'
    BY Zenon DEF BFlagged
  <1>3. BPlaced'
    BY DEF BPlaced
  <1>4. TimerKnown'
    BY DEF TimerKnown
  <1>5. AdvKnown'
    BY DEF AdvKnown
  <1>6. BigHandleKnown'
    BY DEF BigHandleKnown, BPlaced, AdvKnown
  <1> QED
    BY <1>1, <1>2, <1>3, <1>4, <1>5, <1>6

\* Every step of the broadcaster keeps the invariant, also when a call has failed.
LEMMA BroadcasterInvNext == BroadcasterInv /\ [B!Next]_broadcaster => BroadcasterInv'
  <1> SUFFICES ASSUME BroadcasterInv, [B!Next]_broadcaster
               PROVE  BroadcasterInv'
    OBVIOUS
  <1> USE DEF BroadcasterInv, BeforeAdv, WithBig, TakingDown
  <1>1. CASE B!iso_connected
    <2> USE DEF B!iso_connected
    <2>1. connected_bis < chans /\ chans = num_bis /\ bpc = "wait"
      BY <1>1 DEF BigHandleKnown
    <2>2. connected_bis' \in 0 .. chans
      BY <1>1, <2>1, IsoAssumption DEF BCounted
    <2>3. BCounted'
      BY <1>1, <2>1, <2>2, IsoAssumption DEF BCounted
    <2>4. connected_bis' = chans \/ connected_bis' < chans
      BY <2>1, <2>2, IsoAssumption DEF BCounted
    <2>5. BPlaced' /\ TimerKnown' /\ AdvKnown'
      BY <1>1 DEF BPlaced, TimerKnown, AdvKnown
    <2>6. BigHandleKnown'
      BY <1>1, <2>1, <2>4, <2>2 DEF BigHandleKnown, BPlaced
    <2>7. BFlagged'
      BY <1>1, Zenon DEF BFlagged
    <2> QED
      BY <2>3, <2>5, <2>6, <2>7
  <1>2. CASE B!iso_disconnected
    <2> USE DEF B!iso_disconnected
    <2>1. connected_bis = chans
      BY <1>2 DEF BigHandleKnown
    <2>2. connected_bis' = 0
      BY <1>2, <2>1, IsoAssumption DEF BCounted
    <2>3. BCounted'
      BY <1>2, <2>2, IsoAssumption, BenchmarkAssumption DEF BCounted
    <2>4. BPlaced' /\ TimerKnown' /\ AdvKnown'
      BY <1>2 DEF BPlaced, TimerKnown, AdvKnown
    <2>5. BigHandleKnown'
      BY <1>2, <2>2 DEF BigHandleKnown, BPlaced
    <2>6. BFlagged'
      BY <1>2, Zenon DEF BFlagged
    <2> QED
      BY <2>3, <2>4, <2>5, <2>6
  <1>3. CASE B!packet_sent
    <2> USE DEF B!packet_sent
    <2>1. BCounted'
      BY <1>3, BenchmarkAssumption DEF BCounted
    <2>2. BPlaced' /\ TimerKnown' /\ AdvKnown' /\ BigHandleKnown'
      BY <1>3 DEF BPlaced, TimerKnown, AdvKnown, BigHandleKnown
    <2>3. BFlagged'
      BY <1>3, Zenon DEF BFlagged
    <2> QED
      BY <2>1, <2>2, <2>3
  <1>4. CASE B!iso_timer_timeout
    <2>1. UNCHANGED << bpc, num_bis, connected_bis, bsem, adv, bigh, chans, timer >>
      BY <1>4 DEF B!iso_timer_timeout, B!reschedule, B!send
    <2>2. BCounted'
      BY <1>4, IsoAssumption, BenchmarkAssumption
      DEF B!iso_timer_timeout, B!reschedule, B!send, BCounted, B!NotRunning, B!MaxBis
    <2>3. bfailed' = bfailed \/ bfailed' = TRUE
      BY <1>4, Zenon DEF B!iso_timer_timeout, B!reschedule, B!send
    <2>4. BPlaced' /\ TimerKnown' /\ BigHandleKnown'
      BY <2>1 DEF BPlaced, TimerKnown, BigHandleKnown
    <2>5. AdvKnown'
      BY <2>1, <2>3 DEF AdvKnown
    <2>6. BFlagged'
      BY <2>1, <2>3, Zenon DEF BFlagged
    <2> QED
      BY <2>2, <2>4, <2>5, <2>6
  <1>5. CASE B!start
    <2> USE DEF B!start
    <2>1. BCounted'
      BY <1>5 DEF BCounted
    <2>2. BPlaced' /\ TimerKnown' /\ AdvKnown' /\ BigHandleKnown'
      BY <1>5 DEF BPlaced, TimerKnown, AdvKnown, BigHandleKnown
    <2>3. BFlagged'
      BY <1>5, Zenon DEF BFlagged
    <2> QED
      BY <2>1, <2>2, <2>3
  <1>6. CASE B!parse_args
    <2>1. /\ bpc = "args" /\ bpc' \in {"create", "idle"}
          /\ UNCHANGED << connected_bis, bsem, timer, handler, adv, bigh, chans, inflight,
                          bfailed >>
      BY <1>6 DEF B!parse_args
    <2>2. num_bis' \in 0 .. ISO_MAX_CHAN + 1
      BY <1>6, IsoAssumption
      DEF B!parse_args, B!parse_bis_count_arg, B!EINVAL, B!MaxBis, BCounted
    <2>3. BCounted'
      BY <2>1, <2>2 DEF BCounted
    <2>4. BPlaced' /\ TimerKnown' /\ AdvKnown' /\ BigHandleKnown'
      BY <2>1 DEF BPlaced, TimerKnown, AdvKnown, BigHandleKnown
    <2>5. BFlagged'
      BY <2>1, Zenon DEF BFlagged
    <2> QED
      BY <2>3, <2>4, <2>5
  <1>7. CASE B!iso_big_create
    <2> USE DEF B!iso_big_create
    <2>1. BCounted'
      BY <1>7, IsoAssumption DEF BCounted
    <2>2. BPlaced' /\ TimerKnown' /\ AdvKnown'
      BY <1>7 DEF BPlaced, TimerKnown, AdvKnown
    <2>3. BigHandleKnown'
      BY <1>7, IsoAssumption DEF BigHandleKnown, AdvKnown, BCounted
    <2>4. BFlagged'
      BY <1>7, Zenon DEF BFlagged
    <2> QED
      BY <2>1, <2>2, <2>3, <2>4
  <1>8. CASE B!big_complete
    <2> USE DEF B!big_complete
    <2>1. BCounted'
      BY <1>8 DEF BCounted
    <2>2. BPlaced' /\ TimerKnown' /\ AdvKnown' /\ BigHandleKnown'
      BY <1>8 DEF BPlaced, TimerKnown, AdvKnown, BigHandleKnown
    <2>3. BFlagged'
      BY <1>8, Zenon DEF BFlagged
    <2> QED
      BY <2>1, <2>2, <2>3
  <1>9. CASE B!quit
    <2> USE DEF B!quit
    <2>1. BCounted'
      BY <1>9 DEF BCounted
    <2>2. BPlaced' /\ TimerKnown' /\ AdvKnown' /\ BigHandleKnown'
      BY <1>9 DEF BPlaced, TimerKnown, AdvKnown, BigHandleKnown
    <2>3. BFlagged'
      BY <1>9, Zenon DEF BFlagged
    <2> QED
      BY <2>1, <2>2, <2>3
  <1>10. CASE B!iso_big_terminate
    <2> USE DEF B!iso_big_terminate
    <2>1. BCounted'
      BY <1>10 DEF BCounted
    <2>2. BPlaced' /\ TimerKnown' /\ AdvKnown' /\ BigHandleKnown'
      BY <1>10 DEF BPlaced, TimerKnown, AdvKnown, BigHandleKnown
    <2>3. BFlagged'
      BY <1>10, Zenon DEF BFlagged
    <2> QED
      BY <2>1, <2>2, <2>3
  <1>11. CASE UNCHANGED broadcaster
    <2>1. BFlagged'
      BY <1>11, Zenon DEF broadcaster, BFlagged
    <2> QED
      BY <1>11, <2>1 DEF broadcaster, BPlaced, BCounted, TimerKnown, AdvKnown, BigHandleKnown
  <1> QED
    BY <1>1, <1>2, <1>3, <1>4, <1>5, <1>6, <1>7, <1>8, <1>9, <1>10, <1>11, AdvStepKeepsInv
    DEF B!Next, B!Callback, B!test_run_broadcaster, B!create_big, B!delete_big
-----------------------------------------------------------------------------
\* What the runs check of the broadcaster follows from its invariant.
LEMMA BroadcasterInvImplies ==
  BroadcasterInv => B!TypeOK /\ Broadcasting /\ BroadcasterCleansUp
  <1> SUFFICES ASSUME BroadcasterInv
               PROVE  B!TypeOK /\ Broadcasting /\ BroadcasterCleansUp
    OBVIOUS
  <1> USE DEF BroadcasterInv, BeforeAdv, WithBig, TakingDown
  <1>1. B!TypeOK
    BY IsoAssumption DEF B!TypeOK, BPlaced, BCounted, B!NotRunning, B!MaxBis
  <1>2. Broadcasting
    BY DEF Broadcasting, B!Broadcasting, TimerKnown, BigHandleKnown
  <1>3. BroadcasterCleansUp
    BY DEF BroadcasterCleansUp, B!BroadcasterCleansUp, TimerKnown, AdvKnown, BigHandleKnown,
       BPlaced
  <1> QED
    BY <1>1, <1>2, <1>3

\* The benchmark runs the broadcaster and nothing else touches its variables: a role that
\* is picked starts test_run_broadcaster() where the last run ended.
THEOREM BenchmarkRunsBroadcaster == BenchSpec => B!Init /\ [][B!Next]_broadcaster
  <1>1. BenchInit => B!Init
    BY DEF BenchInit
  <1>2. [BenchNext]_benchVars => [B!Next]_broadcaster
    <2> SUFFICES ASSUME [BenchNext]_benchVars
                 PROVE  [B!Next]_broadcaster
      OBVIOUS
    <2>1. CASE device_role_select
      BY <2>1 DEF device_role_select, B!Next, B!test_run_broadcaster
    <2>2. CASE run_receiver
      BY <2>2 DEF run_receiver
    <2>3. CASE run_broadcaster
      BY <2>3 DEF run_broadcaster, B!Next
    <2>4. CASE BluetoothThread
      BY <2>4 DEF BluetoothThread, B!Next
    <2>5. CASE WorkQueue
      BY <2>5 DEF WorkQueue, B!Next
    <2>6. CASE Packets
      BY <2>6 DEF Packets
    <2>7. CASE UNCHANGED benchVars
      BY <2>7 DEF benchVars
    <2> QED
      BY <2>1, <2>2, <2>3, <2>4, <2>5, <2>6, <2>7 DEF BenchNext, MainThread
  <1> QED
    BY <1>1, <1>2, PTL DEF BenchSpec

\* The invariant of the broadcaster in the benchmark.
LEMMA BenchmarkBroadcasterInv == BenchSpec => []BroadcasterInv
  BY BroadcasterInvInit, BroadcasterInvNext, BenchmarkRunsBroadcaster, PTL

\* For every number of channels and buffers: while test_run_broadcaster() is in its console
\* loop the BIG has all the channels that were asked for and iso_send_work is scheduled,
\* whatever earlier runs left behind and whatever packets were refused.
THEOREM BroadcasterBroadcasts == BenchSpec => []Broadcasting
  BY BenchmarkBroadcasterInv, BroadcasterInvImplies, PTL

\* A run of test_run_broadcaster() leaves no advertising set, no work item and no BIG that
\* is not ending, unless a call of the host has failed.
THEOREM BroadcasterLeavesNothing == BenchSpec => []BroadcasterCleansUp
  BY BenchmarkBroadcasterInv, BroadcasterInvImplies, PTL
-----------------------------------------------------------------------------
(***************************************************************************)
(* The packet statistics.                                                  *)
(***************************************************************************)

\* How many of the last packets are still in stats_latest_arr.
Window == IF Len(packets) <= LATEST THEN Len(packets) ELSE LATEST

\* Where the packet is that came k packets ago.
Slot(k) == IF k < stats_latest_arr_pos THEN stats_latest_arr_pos - 1 - k
                                       ELSE stats_latest_arr_pos - 1 - k + LATEST

\* The types of the statistics.
StatsTyped == /\ stats_overall \in [recv : Nat, lost : Nat]
              /\ stats_current_sync \in [recv : Nat, lost : Nat]
              /\ stats_latest_arr \in [0 .. LATEST - 1 -> BOOLEAN]
              /\ stats_latest_arr_pos \in 0 .. LATEST - 1
              /\ packets \in Seq(BOOLEAN)

\* The ring holds the last packets: the newest before the position, the older ones before
\* it, and round the end.
RingKnown == /\ Len(packets) < LATEST => stats_latest_arr_pos = Len(packets)
             /\ Len(packets) = LATEST => stats_latest_arr_pos = 0
             /\ \A k \in 0 .. Window - 1 :
                   stats_latest_arr[Slot(k)] = packets[Len(packets) - k]

\* While no 32-bit counter has wrapped, the total is that of the packets, what was printed
\* last was summed up over the ring as it is, and the packets of the current sync are
\* the last ones.
TotalKnown == Len(packets) < UINT32 => stats_overall.recv + stats_overall.lost = Len(packets)
PrintKnown == Len(packets) < UINT32 =>
                stats_latest \in {S!NotPrinted, S!latest(stats_latest_arr, Len(packets))}

\* The inductive invariant of the statistics.
StatsInv == StatsTyped /\ RingKnown /\ TotalKnown /\ PrintKnown /\ S!CurrentIsTail
-----------------------------------------------------------------------------
\* IsoStats counts with the Cardinality of FiniteSets.
LEMMA StatsCardinality == \A T : S!Cardinality(T) = Cardinality(T)
  BY Zenon DEF S!Cardinality, Cardinality

\* The received packets of a sequence are a finite number of them; one more packet is one
\* more if it is received.
LEMMA ReceivedProperties ==
  ASSUME NEW s \in Seq(BOOLEAN)
  PROVE  /\ IsFiniteSet({i \in DOMAIN s : s[i]})
         /\ S!Received(s) \in Nat
         /\ \A v \in BOOLEAN :
               S!Received(Append(s, v)) = S!Received(s) + (IF v THEN 1 ELSE 0)
  <1> DEFINE I == {i \in DOMAIN s : s[i]}
  <1>1. I \in SUBSET (1 .. Len(s)) /\ Len(s) \in Nat
    OBVIOUS
  <1>2. IsFiniteSet(I)
    BY <1>1, FS_Interval, FS_Subset
  <1>3. ASSUME NEW v \in BOOLEAN
        PROVE  S!Received(Append(s, v)) = S!Received(s) + (IF v THEN 1 ELSE 0)
    <2> DEFINE J == {i \in DOMAIN Append(s, v) : Append(s, v)[i]}
    <2>0. S!Received(Append(s, v)) = Cardinality(J) /\ S!Received(s) = Cardinality(I)
      BY StatsCardinality, Zenon DEF S!Received
    <2>1. CASE v
      <3>1. J = I \cup {Len(s) + 1}
        BY <2>1
      <3>2. Len(s) + 1 \notin I
        BY <1>1
      <3> HIDE DEF I, J
      <3>3. Cardinality(J) = Cardinality(I) + 1
        BY <1>2, <3>1, <3>2, FS_AddElement
      <3> QED
        BY <2>0, <2>1, <3>3
    <2>2. CASE ~v
      <3>1. J = I
        BY <2>2
      <3>2. Cardinality(I) \in Nat
        BY <1>2, FS_CardinalityType
      <3> HIDE DEF I, J
      <3> QED
        BY <2>0, <2>2, <3>1, <3>2
    <2> QED
      BY <2>1, <2>2
  <1>4. S!Received(s) = Cardinality(I)
    BY StatsCardinality, Zenon DEF S!Received
  <1>5. S!Received(s) \in Nat
    <2> HIDE DEF I
    <2> QED
      BY <1>2, <1>4, FS_CardinalityType
  <1> QED
    BY <1>2, <1>3, <1>5

\* The elements of the end of a sequence.
LEMMA SuffixFacts ==
  ASSUME NEW Elems, NEW s \in Seq(Elems), NEW c \in 1 .. Len(s)
  PROVE  \A i \in 1 .. Len(s) - c + 1 : SubSeq(s, c, Len(s))[i] = s[c + i - 1]
OBVIOUS

\* The sum over the ring is that of the last packets, each counted once.
LEMMA RingIsWindow ==
  ASSUME StatsTyped, RingKnown
  PROVE  LET n == Len(packets)
             window == IF n <= LATEST THEN packets ELSE SubSeq(packets, n - LATEST + 1, n)
         IN S!latest(stats_latest_arr, n)
              = [recv |-> S!Received(window), lost |-> Len(window) - S!Received(window)]
  <1> DEFINE n == Len(packets)
             w == IF n <= LATEST THEN packets ELSE SubSeq(packets, n - LATEST + 1, n)
             m == Window
             seen == {i \in DOMAIN stats_latest_arr : i < n}
             up == {i \in seen : stats_latest_arr[i]}
             down == {i \in seen : ~stats_latest_arr[i]}
             I == {j \in DOMAIN w : w[j]}
             f == [j \in I |-> Slot(m - j)]
  <1>0. n \in Nat /\ LATEST \in Nat \ {0} /\ stats_latest_arr_pos \in 0 .. LATEST - 1
    BY BenchmarkAssumption DEF StatsTyped
  <1>1. m \in 0 .. LATEST /\ m <= n /\ seen = 0 .. m - 1
    BY <1>0 DEF Window, StatsTyped
  <1>2. w \in Seq(BOOLEAN) /\ Len(w) = m /\ \A j \in 1 .. m : w[j] = packets[n - m + j]
    <2>0. packets \in Seq(BOOLEAN)
      BY DEF StatsTyped
    <2>1. CASE n <= LATEST
      <3>1. w = packets /\ m = n
        BY <2>1 DEF Window
      <3>2. \A j \in 1 .. m : n - m + j = j
        BY <1>0, <3>1
      <3> HIDE DEF w, m
      <3> QED BY <2>0, <3>1, <3>2
    <2>2. CASE ~(n <= LATEST)
      <3>1. w = SubSeq(packets, n - LATEST + 1, n) /\ m = LATEST
        BY <2>2 DEF Window
      <3>2. n - LATEST + 1 \in 1 .. n /\ n - (n - LATEST + 1) + 1 = LATEST
        BY <1>0, <2>2
      <3>3. \A j \in 1 .. LATEST : (n - LATEST + 1) + j - 1 = n - LATEST + j
        BY <1>0
      <3>4. w \in Seq(BOOLEAN) /\ Len(w) = LATEST
        <4> HIDE DEF w, m
        <4> QED BY <1>0, <2>0, <3>1, <3>2
      <3>5. \A j \in 1 .. LATEST : w[j] = packets[n - LATEST + j]
        <4> DEFINE a == n - LATEST + 1
                   u == SubSeq(packets, a, n)
        <4>1. a \in 1 .. n + 1 /\ n \in a - 1 .. n /\ n - a + 1 = LATEST
          BY <1>0, <3>2
        <4>2. \A j \in 1 .. LATEST : a + j - 1 = n - LATEST + j
          BY <3>3
        <4> HIDE DEF a
        <4>3. \A j \in 1 .. n - a + 1 : u[j] = packets[a + j - 1]
          <5>1. a \in 1 .. Len(packets)
            BY <3>2 DEF a
          <5> QED BY <2>0, <5>1, SuffixFacts, Zenon
        <4>4. \A j \in 1 .. LATEST : u[j] = packets[a + j - 1]
          BY <4>1, <4>3, Zenon
        <4>5. w = u
          BY <3>1, Zenon DEF a
        <4> HIDE DEF u, w
        <4> QED BY <4>2, <4>4, <4>5, Zenon
      <3> HIDE DEF w, m
      <3> QED BY <3>1, <3>4, <3>5
    <2> QED BY <2>1, <2>2
  <1>3. \A j \in 1 .. m : Slot(m - j) \in 0 .. m - 1 /\ stats_latest_arr[Slot(m - j)] = w[j]
    <2> SUFFICES ASSUME NEW j \in 1 .. m
                 PROVE  Slot(m - j) \in 0 .. m - 1 /\ stats_latest_arr[Slot(m - j)] = w[j]
      OBVIOUS
    <2>1. m - j \in 0 .. m - 1 /\ n - (m - j) = n - m + j
      BY <1>0, <1>1
    <2>2. stats_latest_arr[Slot(m - j)] = packets[n - (m - j)]
      BY <2>1 DEF RingKnown
    <2>3. Slot(m - j) \in 0 .. m - 1
      <3>1. m = n \/ m = LATEST
        BY DEF Window
      <3>2. m < LATEST => stats_latest_arr_pos = m
        BY <1>0, <1>1, <3>1 DEF RingKnown
      <3> HIDE DEF n, m
      <3> QED BY <1>0, <1>1, <2>1, <3>2 DEF Slot
    <2> QED
      BY <1>2, <2>1, <2>2, <2>3
  <1>4. I \subseteq 1 .. m /\ \A j \in I : w[j]
    <2> HIDE DEF w, m
    <2> QED
      BY <1>2
  <1>5. \A i, j \in 1 .. m : Slot(m - i) = Slot(m - j) => i = j
    BY <1>0, <1>1 DEF Slot
  <1>6. \A i \in 0 .. m - 1 : \E j \in 1 .. m : Slot(m - j) = i
    <2> SUFFICES ASSUME NEW i \in 0 .. m - 1
                 PROVE  \E j \in 1 .. m : Slot(m - j) = i
      OBVIOUS
    <2> DEFINE k == IF i < stats_latest_arr_pos THEN stats_latest_arr_pos - 1 - i
                    ELSE stats_latest_arr_pos - 1 - i + LATEST
    <2>1. k \in 0 .. m - 1
      BY <1>0, <1>1 DEF RingKnown, Window
    <2>2. Slot(k) = i
      BY <1>0, <1>1 DEF Slot
    <2>3. m - k \in 1 .. m /\ m - (m - k) = k
      BY <1>0, <1>1, <2>1
    <2> QED
      BY <2>2, <2>3
  <1>7. f \in Bijection(I, up)
    <2>1. \A j \in I : Slot(m - j) \in up
      BY <1>1, <1>3, <1>4
    <2>2. f \in [I -> up]
      BY <2>1
    <2>3. \A i, j \in I : f[i] = f[j] => i = j
      BY <1>4, <1>5
    <2>4. \A i \in up : \E j \in I : f[j] = i
      <3> SUFFICES ASSUME NEW i \in up
                   PROVE  \E j \in I : f[j] = i
        OBVIOUS
      <3>1. i \in 0 .. m - 1 /\ stats_latest_arr[i]
        BY <1>1
      <3>2. PICK j \in 1 .. m : Slot(m - j) = i
        BY <1>6, <3>1
      <3>3. j \in I
        <4> HIDE DEF w, m
        <4> QED
          BY <1>2, <1>3, <3>1, <3>2
      <3> QED
        BY <3>2, <3>3
    <2> HIDE DEF I, up, f
    <2> QED
      BY <2>2, <2>3, <2>4 DEF Bijection, Injection, Surjection, IsInjective
  <1>8. IsFiniteSet(I) /\ S!Received(w) = Cardinality(I) /\ Cardinality(I) \in Nat
    <2> HIDE DEF w
    <2>1. S!Received(w) = Cardinality(I)
      BY StatsCardinality, Zenon DEF S!Received
    <2> QED
      BY <1>2, <2>1, ReceivedProperties
  <1>9. Cardinality(up) = Cardinality(I) /\ IsFiniteSet(up)
    <2> HIDE DEF I, up, f
    <2> QED
      BY <1>7, <1>8, FS_Bijection DEF ExistsBijection
  <1>10. IsFiniteSet(seen) /\ Cardinality(seen) = m
    <2> HIDE DEF m, seen
    <2>1. m \in Int /\ m - 1 \in Int /\ (0 > m - 1 <=> m = 0) /\ (m - 1) - 0 + 1 = m
      BY <1>0, <1>1
    <2> QED
      BY <1>1, <2>1, FS_Interval
  <1>11. Cardinality(down) = m - Cardinality(up)
    <2>1. down = seen \ up /\ seen \cap up = up
      OBVIOUS
    <2> HIDE DEF seen, up, down
    <2>2. Cardinality(seen \ up) = Cardinality(seen) - Cardinality(seen \cap up)
      BY <1>10, FS_Difference
    <2> QED
      BY <1>10, <2>1, <2>2
  <1>12. S!latest(stats_latest_arr, n) = [recv |-> Cardinality(up), lost |-> Cardinality(down)]
    BY StatsCardinality, Zenon DEF S!latest
  <1> HIDE DEF n, w, m, up, down, I
  <1>13. S!latest(stats_latest_arr, n)
           = [recv |-> S!Received(w), lost |-> Len(w) - S!Received(w)]
    BY <1>2, <1>8, <1>9, <1>11, <1>12
  <1> QED
    BY <1>13 DEF n, w
-----------------------------------------------------------------------------
\* Without a packet none is received.
LEMMA NoneReceived == S!Received(<< >>) = 0
  <1>1. {i \in DOMAIN << >> : << >>[i]} = {}
    OBVIOUS
  <1> QED
    BY <1>1, StatsCardinality, FS_EmptySet DEF S!Received

\* At the start no packet has come.
LEMMA StatsInvInit == S!Init => StatsInv
  <1> SUFFICES ASSUME S!Init
               PROVE  StatsInv
    OBVIOUS
  <1> USE BenchmarkAssumption DEF S!Init, S!NoStats
  <1>1. StatsTyped
    BY DEF StatsTyped
  <1>2. Len(packets) = 0
    OBVIOUS
  <1>3. RingKnown /\ TotalKnown /\ PrintKnown
    BY <1>2 DEF RingKnown, TotalKnown, PrintKnown, Window
  <1>4. S!CurrentIsTail
    <2>1. SubSeq(packets, 1, 0) = << >>
      BY <1>2
    <2>2. S!Received(<< >>) = 0
      BY NoneReceived
    <2>3. stats_current_sync.recv = 0 /\ stats_current_sync.lost = 0
      OBVIOUS
    <2> DEFINE k == stats_current_sync.recv + stats_current_sync.lost
    <2>4. k = 0 /\ k <= Len(packets)
      BY <1>2, <2>3
    <2> HIDE DEF k, S!Init
    <2>5. SubSeq(packets, Len(packets) - k + 1, Len(packets)) = << >>
      BY <1>2, <2>1, <2>4
    <2>6. S!Received(SubSeq(packets, Len(packets) - k + 1, Len(packets)))
            = stats_current_sync.recv
      BY <2>2, <2>3, <2>5
    <2> QED
      BY <2>4, <2>6 DEF S!CurrentIsTail, k
  <1> QED
    BY <1>1, <1>3, <1>4 DEF StatsInv

\* A counter of iso_recv() that has not reached the end of its width goes up by one.
LEMMA CountProperties ==
  ASSUME NEW stats \in [recv : Nat, lost : Nat], NEW valid \in BOOLEAN
  PROVE  /\ S!count(stats, valid) \in [recv : Nat, lost : Nat]
         /\ stats.recv + stats.lost + 1 < UINT32 =>
              /\ S!count(stats, valid).recv = stats.recv + (IF valid THEN 1 ELSE 0)
              /\ S!count(stats, valid).recv + S!count(stats, valid).lost
                   = stats.recv + stats.lost + 1
  <1> USE BenchmarkAssumption DEF S!count
  <1>1. (stats.recv + 1) % UINT32 \in Nat /\ (stats.lost + 1) % UINT32 \in Nat
    OBVIOUS
  <1>2. CASE valid
    BY <1>1, <1>2
  <1>3. CASE ~valid
    BY <1>1, <1>3
  <1> QED
    BY <1>2, <1>3

\* The last k + 1 elements are the last k ones before and the new one.
LEMMA TailAppend ==
  ASSUME NEW T, NEW s \in Seq(T), NEW v \in T, NEW k \in 0 .. Len(s)
  PROVE  SubSeq(Append(s, v), Len(s) - k + 1, Len(s) + 1)
           = Append(SubSeq(s, Len(s) - k + 1, Len(s)), v)
  <1> DEFINE n == Len(s)
             a == SubSeq(Append(s, v), n - k + 1, n + 1)
             t == SubSeq(s, n - k + 1, n)
  <1>1. n \in Nat /\ n - k + 1 \in 1 .. n + 1
    OBVIOUS
  <1>2. t \in Seq(T) /\ Len(t) = k /\ \A i \in 1 .. k : t[i] = s[n - k + i]
    BY <1>1
  <1>3. a \in Seq(T) /\ Len(a) = k + 1 /\ \A i \in 1 .. k + 1 : a[i] = Append(s, v)[n - k + i]
    BY <1>1
  <1> HIDE DEF a, t
  <1>4. Append(t, v) \in Seq(T) /\ Len(Append(t, v)) = k + 1
    BY <1>2
  <1>5. ASSUME NEW i \in 1 .. k + 1
        PROVE  a[i] = Append(t, v)[i]
    <2>1. CASE i = k + 1
      <3>1. a[i] = Append(s, v)[n + 1]
        BY <1>1, <1>3, <2>1
      <3>2. Append(s, v)[n + 1] = v /\ Append(t, v)[k + 1] = v
        BY <1>2, AppendProperties
      <3> QED
        BY <2>1, <3>1, <3>2
    <2>2. CASE i \in 1 .. k
      <3>1. a[i] = Append(s, v)[n - k + i] /\ n - k + i \in 1 .. n
        BY <1>1, <1>3, <2>2
      <3>2. Append(s, v)[n - k + i] = s[n - k + i] /\ Append(t, v)[i] = t[i]
        BY <1>2, <2>2, <3>1, AppendProperties
      <3> QED
        BY <1>2, <2>2, <3>1, <3>2
    <2>3. i = k + 1 \/ i \in 1 .. k
      BY <1>1
    <2> QED
      BY <2>1, <2>2, <2>3
  <1>6. a = Append(t, v)
    BY <1>3, <1>4, <1>5, SeqEqual
  <1> QED
    BY <1>6 DEF a, t

\* iso_recv() keeps the invariant.
LEMMA ReceiveKeepsStatsInv ==
  ASSUME StatsInv, NEW valid \in BOOLEAN, S!iso_recv(valid)
  PROVE  StatsInv'
  <1> DEFINE n == Len(packets)
             pos == stats_latest_arr_pos
  <1> USE DEF StatsInv, S!iso_recv
  <1>0. /\ n \in Nat /\ LATEST \in Nat \ {0} /\ UINT32 \in Nat \ {0}
        /\ pos \in 0 .. LATEST - 1 /\ packets \in Seq(BOOLEAN)
    BY BenchmarkAssumption DEF StatsTyped
  <1>1. /\ packets' \in Seq(BOOLEAN) /\ Len(packets') = n + 1
        /\ packets'[n + 1] = valid /\ \A i \in 1 .. n : packets'[i] = packets[i]
    BY <1>0
  <1>2. /\ pos' \in 0 .. LATEST - 1
        /\ pos' = IF pos + 1 = LATEST THEN 0 ELSE pos + 1
    BY <1>0 DEF S!next_pos
  <1>3. StatsTyped'
    <2>1. stats_latest_arr' \in [0 .. LATEST - 1 -> BOOLEAN]
      BY <1>0 DEF StatsTyped
    <2>2. /\ stats_overall' \in [recv : Nat, lost : Nat]
          /\ stats_current_sync' \in [recv : Nat, lost : Nat]
      BY CountProperties DEF StatsTyped
    <2> QED
      BY <1>1, <1>2, <2>1, <2>2 DEF StatsTyped
  <1>4. RingKnown'
    <2>1. /\ Len(packets') < LATEST => pos' = Len(packets')
          /\ Len(packets') = LATEST => pos' = 0
      BY <1>0, <1>1, <1>2 DEF RingKnown
    <2>2. ASSUME NEW k \in 0 .. Window' - 1
          PROVE  stats_latest_arr'[Slot(k)'] = packets'[Len(packets') - k]
      <3>1. CASE k = 0
        <4>1. Slot(k)' = pos
          BY <1>0, <1>2, <3>1 DEF Slot
        <4>2. stats_latest_arr'[pos] = valid
          BY <1>0 DEF StatsTyped
        <4> QED
          BY <1>0, <1>1, <3>1, <4>1, <4>2
      <3>2. CASE k # 0
        <4>1. k - 1 \in 0 .. Window - 1 /\ k <= LATEST - 1 /\ k <= n
          BY <1>0, <1>1, <3>2 DEF Window
        <4>2. Slot(k)' = Slot(k - 1) /\ Slot(k - 1) # pos /\ Slot(k - 1) \in 0 .. LATEST - 1
          BY <1>0, <1>2, <3>2, <4>1 DEF Slot
        <4>3. stats_latest_arr[Slot(k - 1)] = packets[n - (k - 1)]
          BY <4>1 DEF RingKnown
        <4>4. stats_latest_arr'[Slot(k - 1)] = stats_latest_arr[Slot(k - 1)]
          BY <1>0, <4>2 DEF StatsTyped
        <4>5. n - (k - 1) \in 1 .. n /\ n - (k - 1) = (n + 1) - k
          BY <1>0, <3>2, <4>1
        <4> QED
          BY <1>1, <4>2, <4>3, <4>4, <4>5
      <3> QED
        BY <3>1, <3>2
    <2> QED
      BY <2>1, <2>2 DEF RingKnown
  <1>5. TotalKnown'
    <2> SUFFICES ASSUME n + 1 < UINT32
                 PROVE  stats_overall'.recv + stats_overall'.lost = n + 1
      BY <1>1 DEF TotalKnown
    <2>1. stats_overall \in [recv : Nat, lost : Nat]
          /\ stats_overall.recv + stats_overall.lost = n
      BY <1>0 DEF TotalKnown, StatsTyped
    <2>2. stats_overall' = S!count(stats_overall, valid)
      OBVIOUS
    <2> QED
      BY <2>1, <2>2, CountProperties
  <1>6. PrintKnown'
    <2> SUFFICES ASSUME n + 1 < UINT32
                 PROVE  stats_latest' \in {S!NotPrinted,
                                           S!latest(stats_latest_arr', n + 1)}
      BY <1>1 DEF PrintKnown, S!latest, S!NotPrinted
    <2>1. stats_overall'.recv + stats_overall'.lost = n + 1
      BY <1>1, <1>5 DEF TotalKnown
    <2> DEFINE total == (stats_overall'.recv + stats_overall'.lost) % UINT32
    <2>2. total = n + 1
      BY <1>0, <2>1
    <2>3. stats_latest' \in {S!NotPrinted, S!latest(stats_latest_arr', total)}
      BY Zenon
    <2> QED
      BY <2>2, <2>3, Zenon
  <1>7. S!CurrentIsTail'
    <2> DEFINE cur == stats_current_sync
               k == cur.recv + cur.lost
               tail == SubSeq(packets, n - k + 1, n)
    <2> SUFFICES ASSUME n + 1 < UINT32
                 PROVE  /\ k' <= n + 1
                        /\ S!Received(SubSeq(packets', (n + 1) - k' + 1, n + 1)) = cur'.recv
      BY <1>1 DEF S!CurrentIsTail, S!Received
    <2>1. k \in Nat /\ k <= n /\ S!Received(tail) = cur.recv /\ cur \in [recv : Nat, lost : Nat]
      BY <1>0 DEF S!CurrentIsTail, StatsTyped
    <2>2. cur' = S!count(cur, valid) /\ cur.recv + cur.lost + 1 < UINT32
      BY <1>0, <2>1
    <2>3. cur'.recv = cur.recv + (IF valid THEN 1 ELSE 0) /\ k' = k + 1
      BY <2>1, <2>2, CountProperties
    <2>4. tail \in Seq(BOOLEAN) /\ Len(tail) = k
      BY <1>0, <2>1
    <2>5. SubSeq(packets', (n + 1) - k' + 1, n + 1) = Append(tail, valid)
      <3>1. (n + 1) - k' + 1 = n - k + 1 /\ k \in 0 .. n
        BY <1>0, <2>1, <2>3
      <3> HIDE DEF k
      <3> QED
        BY <1>0, <3>1, TailAppend
    <2>6. S!Received(Append(tail, valid)) = S!Received(tail) + (IF valid THEN 1 ELSE 0)
      BY <2>4, ReceivedProperties
    <2> QED
      <3>1. k' <= n + 1
        BY <1>0, <2>1, <2>3
      <3> HIDE DEF k, tail, n, S!iso_recv
      <3> QED
        BY <2>1, <2>3, <2>5, <2>6, <3>1
  <1> QED
    BY <1>3, <1>4, <1>5, <1>6, <1>7

\* Every step of the statistics keeps the invariant.
LEMMA StatsInvNext == StatsInv /\ [S!Next]_statistics => StatsInv'
  <1> SUFFICES ASSUME StatsInv, [S!Next]_statistics
               PROVE  StatsInv'
    OBVIOUS
  <1>1. ASSUME NEW valid \in BOOLEAN, S!iso_recv(valid)
        PROVE  StatsInv'
    BY <1>1, ReceiveKeepsStatsInv
  <1>2. CASE S!clear_current_sync
    <2> USE DEF StatsInv, S!clear_current_sync, S!NoStats
    <2>1. StatsTyped'
      BY <1>2 DEF StatsTyped
    <2>2. RingKnown' /\ TotalKnown'
      BY <1>2 DEF RingKnown, TotalKnown, Window, Slot
    <2>3. PrintKnown'
      BY <1>2 DEF PrintKnown, S!latest, S!NotPrinted
    <2>4. S!CurrentIsTail'
      <3> DEFINE k == stats_current_sync'.recv + stats_current_sync'.lost
      <3>1. stats_current_sync'.recv = 0 /\ k = 0 /\ Len(packets) \in Nat /\ packets' = packets
        BY <1>2 DEF StatsTyped
      <3> HIDE DEF k, S!clear_current_sync
      <3>2. SubSeq(packets, Len(packets) - k + 1, Len(packets)) = << >>
        BY <3>1 DEF StatsTyped
      <3>3. S!Received(SubSeq(packets, Len(packets) - k + 1, Len(packets)))
              = stats_current_sync'.recv
        BY <3>1, <3>2, NoneReceived, Zenon
      <3>4. k <= Len(packets)
        BY <3>1
      <3> QED
        BY <3>1, <3>3, <3>4 DEF S!CurrentIsTail, S!Received, k
    <2> QED
      BY <2>1, <2>2, <2>3, <2>4
  <1>3. CASE UNCHANGED statistics
    BY <1>3 DEF statistics, StatsInv, StatsTyped, RingKnown, TotalKnown, PrintKnown, Window, Slot,
       S!CurrentIsTail, S!Received, S!latest, S!NotPrinted
  <1> QED
    BY <1>1, <1>2, <1>3 DEF S!Next

\* The rates that are printed, and the types, follow from the invariant.
LEMMA StatsInvImplies == StatsInv => S!TypeOK /\ RatesTrue
  <1> SUFFICES ASSUME StatsInv
               PROVE  S!TypeOK /\ RatesTrue
    OBVIOUS
  <1>1. S!TypeOK
    BY DEF StatsInv, StatsTyped, S!TypeOK
  <1>2. S!LatestIsWindow
    BY RingIsWindow DEF StatsInv, PrintKnown, S!LatestIsWindow
  <1> QED
    BY <1>1, <1>2 DEF RatesTrue, StatsInv

\* The benchmark feeds the statistics from iso_recv() and test_run_receiver() only.
LEMMA BenchmarkStatsInv == BenchSpec => []StatsInv
  <1>1. BenchInit => StatsInv
    BY StatsInvInit DEF BenchInit
  <1>2. StatsInv /\ [BenchNext]_benchVars => StatsInv'
    <2>1. [BenchNext]_benchVars => [S!Next]_statistics
      BY DEF BenchNext, MainThread, BluetoothThread, WorkQueue, Packets, benchVars
    <2> QED
      BY <2>1, StatsInvNext
  <1> QED
    BY <1>1, <1>2, PTL DEF BenchSpec

\* What iso_recv() prints is true for every size of the ring and every printing period, as
\* long as fewer packets have come than a 32-bit counter holds: the latest rate is about
\* the last packets, each once, and the current one about nothing before the current sync.
THEOREM RatesAreTrue == BenchSpec => []RatesTrue
  BY BenchmarkStatsInv, StatsInvImplies, PTL

\* The roles the main thread may be in.
LEMMA BenchmarkRoles ==
  BenchSpec => [](/\ role \in {"none", "receiver", "broadcaster", "quit"}
                  /\ focus \in {"receiver", "broadcaster", "packets"})
  <1> DEFINE R == /\ role \in {"none", "receiver", "broadcaster", "quit"}
                  /\ focus \in {"receiver", "broadcaster", "packets"}
  <1>1. BenchInit => R
    BY DEF BenchInit
  <1>2. R /\ [BenchNext]_benchVars => R'
    BY DEF BenchNext, MainThread, BluetoothThread, WorkQueue, Packets, benchVars,
       device_role_select, run_receiver, run_broadcaster
  <1> QED
    BY <1>1, <1>2, PTL DEF BenchSpec

\* The types of the whole benchmark: receiver, broadcaster, statistics and roles.
THEOREM BenchmarkTyped == BenchSpec => []BenchTypeOK
  <1>1. /\ ReceiverInv /\ BroadcasterInv /\ StatsInv
        /\ role \in {"none", "receiver", "broadcaster", "quit"}
        /\ focus \in {"receiver", "broadcaster", "packets"}
        => BenchTypeOK
    BY ReceiverInvImplies, BroadcasterInvImplies, StatsInvImplies DEF BenchTypeOK
  <1> QED
    BY <1>1, BenchmarkInv, BenchmarkBroadcasterInv, BenchmarkStatsInv, BenchmarkRoles, PTL
=============================================================================
