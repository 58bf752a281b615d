--------------------------- MODULE IsoBroadcaster ---------------------------
(***************************************************************************)
(* The broadcaster of the ISO broadcast benchmark (broadcaster.c).  The    *)
(* main thread reads the parameters from the console, sets up extended and *)
(* periodic advertising and the BIG, and waits for a 'q'; a work item in   *)
(* the system work queue sends a packet on every channel and schedules     *)
(* itself again; the channels report to the Bluetooth thread.              *)
(*                                                                         *)
(* The work queue is cooperative: the handler lets other threads run only  *)
(* where it waits for a buffer.  Of the parameters only the number of      *)
(* channels is kept.                                                       *)
(***************************************************************************)
EXTENDS Naturals

CONSTANTS ISO_MAX_CHAN,   \* CONFIG_BT_ISO_MAX_CHAN
          TX_BUF_COUNT    \* CONFIG_BT_ISO_TX_BUF_COUNT

VARIABLES bpc,            \* where test_run_broadcaster() is
          num_bis,        \* big_create_param.num_bis
          connected_bis,
          bsem,           \* the semaphores that are given
          timer,          \* iso_send_work is scheduled
          handler,        \* the channel iso_timer_timeout() is at, or NotRunning
          adv,            \* external: how far the advertising set is set up
          bigh,           \* external: the BIG
          chans,          \* external: its channels
          inflight,       \* external: packets the controller has not yet sent
          bfailed         \* history: some call of the host has failed

MaxBis == ISO_MAX_CHAN + 1   \* bound: stands for all counts beyond the array
NotRunning == MaxBis + 1

Init == /\ bpc = "idle"
        /\ num_bis = ISO_MAX_CHAN
        /\ connected_bis = 0
        /\ bsem = {}
        /\ timer = FALSE /\ handler = NotRunning
        /\ adv = "none" /\ bigh = "none" /\ chans = 0 /\ inflight = 0
        /\ bfailed = FALSE
-----------------------------------------------------------------------------
(* Callbacks in the Bluetooth thread.                                       *)

\* Mutant: the first channel completes the BIG.
iso_connected_first ==
  /\ bigh = "creating"
  /\ connected_bis' = (connected_bis + 1) % 256
  /\ bsem' = bsem \cup {"big_complete"}
  /\ bigh' = IF connected_bis' = chans THEN "up" ELSE "creating"
  /\ UNCHANGED << bpc, num_bis, timer, handler, adv, chans, inflight, bfailed >>

iso_connected ==
  /\ bigh = "creating"
  /\ connected_bis' = (connected_bis + 1) % 256
  /\ bsem' = IF connected_bis' = num_bis THEN bsem \cup {"big_complete"} ELSE bsem
  /\ bigh' = IF connected_bis' = chans THEN "up" ELSE "creating"
  /\ UNCHANGED << bpc, num_bis, timer, handler, adv, chans, inflight, bfailed >>

\* The BIG that was terminated ends: every channel is counted down, and the
\* packets under way are given back.
iso_disconnected ==
  /\ bigh = "terminating"
  /\ connected_bis' = (connected_bis + 256 - chans) % 256
  /\ bsem' = IF num_bis \in connected_bis' .. connected_bis - 1
               THEN bsem \cup {"big_term"} ELSE bsem
  /\ bigh' = "none" /\ chans' = 0 /\ inflight' = 0
  /\ UNCHANGED << bpc, num_bis, timer, handler, adv, bfailed >>

\* The controller has sent a packet.
packet_sent ==
  /\ inflight > 0
  /\ inflight' = inflight - 1
  /\ UNCHANGED << bpc, num_bis, connected_bis, bsem, timer, handler, adv, bigh, chans,
                  bfailed >>
-----------------------------------------------------------------------------
(* iso_timer_timeout                                                        *)

\* The work item schedules itself before anything can fail.
reschedule == /\ timer /\ handler = NotRunning
              /\ timer' = TRUE
              /\ handler' = 0
              /\ UNCHANGED << bpc, num_bis, connected_bis, bsem, adv, bigh, chans,
                              inflight, bfailed >>

\* Mutant: the work item schedules itself after the last channel.
send_last ==
  /\ handler # NotRunning
  /\ \/ /\ handler < num_bis /\ inflight < TX_BUF_COUNT /\ bigh = "up" /\ handler < chans
        /\ inflight' = inflight + 1
        /\ handler' = handler + 1 /\ UNCHANGED << timer, bfailed >>
     \/ /\ handler < num_bis /\ inflight < TX_BUF_COUNT
        /\ handler' = NotRunning /\ timer' = FALSE
        /\ bfailed' = TRUE /\ UNCHANGED inflight
     \/ handler >= num_bis /\ handler' = NotRunning /\ UNCHANGED << timer, inflight, bfailed >>
  /\ UNCHANGED << bpc, num_bis, connected_bis, bsem, adv, bigh, chans >>

\* One round of the loop: it waits for a buffer, and a packet that is refused
\* ends it.
send ==
  /\ handler # NotRunning
  /\ \/ /\ handler < num_bis /\ inflight < TX_BUF_COUNT /\ bigh = "up" /\ handler < chans
        /\ inflight' = inflight + 1
        /\ handler' = handler + 1 /\ UNCHANGED bfailed
     \/ /\ handler < num_bis /\ inflight < TX_BUF_COUNT
        /\ handler' = NotRunning
        /\ bfailed' = TRUE /\ UNCHANGED inflight
     \/ handler >= num_bis /\ handler' = NotRunning /\ UNCHANGED << inflight, bfailed >>
  /\ UNCHANGED << bpc, num_bis, connected_bis, bsem, timer, adv, bigh, chans >>

iso_timer_timeout == reschedule \/ send
-----------------------------------------------------------------------------
(* The main thread.                                                         *)

\* reset_sems, and the question whether to change the parameters.
start == /\ bpc = "idle"
         /\ bsem' = {}
         /\ bpc' = "args"
         /\ UNCHANGED << num_bis, connected_bis, timer, handler, adv, bigh, chans, inflight,
                         bfailed >>

EINVAL == MaxBis + 2

\* What the other parse_..._arg functions return: the default for an empty line, the
\* number when it is in its range, an error otherwise.
other_arg == {"value", "EINVAL"}

\* The number of channels has to be in the range of the larger of two limits.
parse_bis_count_arg == {ISO_MAX_CHAN, EINVAL} \cup (0 .. MaxBis)

\* The parameters are stored only when all of them are right.
parse_args ==
  /\ bpc = "args"
  /\ \/ bpc' = "create" /\ UNCHANGED num_bis     \* "y" was not typed
     \/ \E other \in other_arg, bis_count \in parse_bis_count_arg :
          IF other = "EINVAL" \/ bis_count = EINVAL
            THEN bpc' = "idle" /\ UNCHANGED num_bis
            ELSE bpc' = "create" /\ num_bis' = bis_count
  /\ UNCHANGED << connected_bis, bsem, timer, handler, adv, bigh, chans, inflight, bfailed >>

\* A call of the host in main thread step "at": it moves the advertising set from
\* one stage to the next, or fails and ends the run.
adv_step(at, next, from, to) ==
  /\ bpc = at
  /\ \/ adv = from /\ adv' = to /\ bpc' = next /\ UNCHANGED bfailed
     \/ bpc' = "idle" /\ bfailed' = TRUE /\ UNCHANGED adv
  /\ UNCHANGED << num_bis, connected_bis, bsem, timer, handler, bigh, chans, inflight >>

\* bt_iso_big_create: without channels, with more than there are, or beside another
\* BIG it fails.
iso_big_create ==
  /\ bpc = "big"
  /\ \/ /\ bigh = "none" /\ num_bis \in 1 .. ISO_MAX_CHAN
        /\ bigh' = "creating" /\ chans' = num_bis
        /\ bpc' = "wait" /\ UNCHANGED bfailed
     \/ bpc' = "idle" /\ bfailed' = TRUE /\ UNCHANGED << bigh, chans >>
  /\ UNCHANGED << num_bis, connected_bis, bsem, timer, handler, adv, inflight >>

\* The BIG is complete: the work item is set up anew and scheduled.
big_complete ==
  /\ bpc = "wait" /\ "big_complete" \in bsem
  /\ bsem' = bsem \ {"big_complete"}
  /\ timer' = TRUE
  /\ bpc' = "sending"
  /\ UNCHANGED << num_bis, connected_bis, handler, adv, bigh, chans, inflight, bfailed >>

create_big == \/ adv_step("create", "per_param", "none", "created")
              \/ adv_step("per_param", "per", "created", "param")
              \/ adv_step("per", "ext", "param", "per")
              \/ adv_step("ext", "big", "per", "on")
              \/ iso_big_create
              \/ big_complete

\* Mutant: the work item is left alone.
quit_silently ==
  /\ bpc = "sending"
  /\ bpc' = "terminate"
  /\ UNCHANGED << num_bis, connected_bis, bsem, timer, handler, adv, bigh, chans, inflight,
                  bfailed >>

\* A 'q' ends the broadcast; the work item is cancelled without waiting for it.
quit == /\ bpc = "sending"
        /\ timer' = FALSE
        /\ bpc' = "terminate"
        /\ UNCHANGED << num_bis, connected_bis, bsem, handler, adv, bigh, chans, inflight,
                        bfailed >>

iso_big_terminate ==
  /\ bpc = "terminate"
  /\ \/ bigh' = "terminating" /\ bpc' = "per_stop" /\ UNCHANGED bfailed
     \/ bpc' = "idle" /\ bfailed' = TRUE /\ UNCHANGED bigh
  /\ UNCHANGED << num_bis, connected_bis, bsem, timer, handler, adv, chans, inflight >>

delete_big == \/ iso_big_terminate
              \/ adv_step("per_stop", "ext_stop", "on", "per_off")
              \/ adv_step("ext_stop", "delete", "per_off", "created")
              \/ adv_step("delete", "idle", "created", "none")

test_run_broadcaster == start \/ parse_args \/ create_big \/ quit \/ delete_big
-----------------------------------------------------------------------------
Callback == iso_connected \/ iso_disconnected \/ packet_sent

Next == Callback \/ iso_timer_timeout \/ test_run_broadcaster
-----------------------------------------------------------------------------
TypeOK == /\ bpc \in {"idle", "args", "create", "per_param", "per", "ext", "big", "wait",
                      "sending", "terminate", "per_stop", "ext_stop", "delete"}
          /\ num_bis \in 0 .. MaxBis
          /\ connected_bis \in 0 .. ISO_MAX_CHAN
          /\ handler \in 0 .. NotRunning
          /\ inflight \in 0 .. TX_BUF_COUNT

\* While the main thread broadcasts, all channels it asked for are connected, whatever
\* happened to the BIGs before, and the work item is scheduled: no packet that is
\* refused, and no wait for a buffer, ends the broadcast.
Broadcasting ==
  bpc = "sending" => bigh = "up" /\ connected_bis = num_bis /\ chans = num_bis /\ timer

\* Between two runs nothing is left of the last one unless a call of the host has
\* failed: no advertising set, and a work item that has nothing to send on.
BroadcasterCleansUp ==
  bpc = "idle" /\ ~bfailed => adv = "none" /\ ~timer /\ bigh \in {"none", "terminating"}
=============================================================================
