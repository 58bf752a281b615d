---------------------------- MODULE IsoBenchmark ----------------------------
(***************************************************************************)
(* The ISO broadcast benchmark as built by prj.conf (main.c): the operator *)
(* picks a role on the console, the role runs once, and the question comes *)
(* again.                                                                  *)
(*                                                                         *)
(* Receiver, broadcaster and the packet statistics (IsoStats) share the    *)
(* main thread and no variable, so they are explored one at a time: focus  *)
(* says which of them a behaviour is about, that is the role the operator  *)
(* picks every time.                                                       *)
(***************************************************************************)
EXTENDS IsoReceiver

CONSTANTS TX_BUF_COUNT,                        \* of the broadcaster
          LATEST, PERIOD, UINT32, MaxPackets   \* of the statistics

ASSUME BenchmarkAssumption == /\ {TX_BUF_COUNT, LATEST, PERIOD, UINT32} \subseteq Nat \ {0}
                              /\ MaxPackets \in Nat

VARIABLES role,     \* the role that runs, or "none"
          focus,    \* "receiver", "broadcaster" or "packets"
          bpc, num_bis, connected_bis, bsem, timer, handler, adv, bigh, chans, inflight,
          bfailed,
          stats_overall, stats_current_sync, stats_latest_arr, stats_latest_arr_pos,
          stats_latest, packets

B == INSTANCE IsoBroadcaster
S == INSTANCE IsoStats

broadcaster == << bpc, num_bis, connected_bis, bsem, timer, handler, adv, bigh, chans,
                  inflight, bfailed >>
statistics == << stats_overall, stats_current_sync, stats_latest_arr,
                 stats_latest_arr_pos, stats_latest, packets >>
benchVars == << vars, role, focus, broadcaster, statistics >>

BenchInit == /\ Init /\ B!Init /\ S!Init
             /\ role = "none"
             /\ focus \in {"receiver", "broadcaster", "packets"}

\* device_role_select: the role that is picked takes its first step.
device_role_select ==
  /\ role = "none"
  /\ \/ role' = "receiver" /\ role' = focus /\ clear_flags /\ UNCHANGED broadcaster
     \/ role' = "broadcaster" /\ role' = focus /\ B!start /\ UNCHANGED vars
     \/ role' = "quit" /\ UNCHANGED << vars, broadcaster >>

\* A step of the main thread in the receiver; its return is the next question.
run_receiver ==
  /\ role = "receiver" /\ pc # "start"
  /\ test_run_receiver
  /\ role' = IF pc' = "start" THEN "none" ELSE role
  /\ UNCHANGED broadcaster

run_broadcaster ==
  /\ role = "broadcaster" /\ bpc # "idle"
  /\ B!test_run_broadcaster
  /\ role' = IF bpc' = "idle" THEN "none" ELSE role
  /\ UNCHANGED vars

\* main
MainThread == /\ focus # "packets"
              /\ device_role_select \/ run_receiver \/ run_broadcaster
              /\ UNCHANGED << focus, statistics >>

BluetoothThread ==
  /\ \/ focus = "receiver" /\ Callback /\ UNCHANGED broadcaster
     \/ focus = "broadcaster" /\ B!Callback /\ UNCHANGED vars
  /\ UNCHANGED << role, focus, statistics >>

WorkQueue == /\ focus = "broadcaster"
             /\ B!iso_timer_timeout
             /\ UNCHANGED << vars, role, focus, statistics >>

Packets == /\ focus = "packets"
           /\ S!Next
           /\ UNCHANGED << vars, role, focus, broadcaster >>

BenchNext == MainThread \/ BluetoothThread \/ WorkQueue \/ Packets

\* The main thread runs while it is in the receiver, and its timeouts expire; nothing
\* is assumed of the radio or of the operator.
BenchSpec == /\ BenchInit /\ [][BenchNext]_benchVars
             /\ WF_benchVars(MainThread /\ role = "receiver")
-----------------------------------------------------------------------------
BenchTypeOK == /\ TypeOK /\ B!TypeOK /\ S!TypeOK
               /\ role \in {"none", "receiver", "broadcaster", "quit"}
               /\ focus \in {"receiver", "broadcaster", "packets"}

\* While the broadcaster is in its console loop the BIG it asked for is complete and
\* iso_send_work is scheduled, after any sequence of runs and refused packets.
Broadcasting == B!Broadcasting

\* A run of test_run_broadcaster() leaves nothing behind unless a host call has failed.
BroadcasterCleansUp == B!BroadcasterCleansUp

\* The rates that are printed are about the packets they name: "Latest 1000" about the
\* last ones, each once, and those of the current sync about nothing of an earlier sync.
RatesTrue == S!LatestIsWindow /\ S!CurrentIsTail
=============================================================================
