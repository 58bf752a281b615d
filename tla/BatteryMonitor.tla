--------------------------- MODULE BatteryMonitor ---------------------------
(***************************************************************************)
(* driver/battery: measures a supply for ever, directly or through a       *)
(* divider that a pin feeds, and converts the voltage to a level by linear *)
(* interpolation on a discharge curve.                                     *)
(***************************************************************************)
EXTENDS Naturals, Integers, Sequences

CONSTANT Voltages   \* those that are measured

VARIABLE bat

\* lvl_pptt, in 1/10000, and lvl_mV of the points, falling.
levels == [divider |-> << << 10000, 3950 >>, << 625, 3550 >>, << 0, 3100 >> >>,
           direct |-> << << 10000, 3600 >>, << 0, 1700 >> >>]

\* fed: the divider's pin; stuck: the pin could not be set the last time.
Init == \E b \in {"divider", "direct"} :
  bat = [board |-> b, pc |-> "setup", battery_ok |-> FALSE, fed |-> FALSE, stuck |-> FALSE,
         batt_mV |-> 0, pptt |-> 0]
-----------------------------------------------------------------------------
\* divider_setup(), before main(): the converter, and the pin of a divider, inactive.
battery_setup ==
  /\ bat.pc = "setup"
  /\ \E ok \in BOOLEAN : bat' = [bat EXCEPT !.pc = "enable", !.battery_ok = ok]

\* What the call may leave: only a divider has a pin to set, which may fail.
battery_measure_enable(enable) ==
  IF ~bat.battery_ok THEN {bat}
  ELSE {[bat EXCEPT !.fed = enable /\ bat.board = "divider", !.stuck = FALSE]}
         \cup {b \in {[bat EXCEPT !.stuck = TRUE]} : bat.board = "divider"}

\* Mutant: the point above is taken for the one below.
battery_level_pptt_swapped(mV, curve) ==
  LET pb == CHOOSE k \in DOMAIN curve : /\ mV >= curve[k][2] \/ k = Len(curve)
                                        /\ \A j \in 1..k-1 : mV < curve[j][2]
  IN  IF pb = 1 \/ mV < curve[pb][2] THEN curve[pb][1]
      ELSE curve[pb - 1][1] + ((curve[pb - 1][1] - curve[pb][1]) * (mV - curve[pb][2]))
                                \div (curve[pb - 1][2] - curve[pb][2])

\* The first point at or below the voltage; above all, or below all, that point's level.
battery_level_pptt(mV, curve) ==
  LET pb == CHOOSE k \in DOMAIN curve : /\ mV >= curve[k][2] \/ k = Len(curve)
                                        /\ \A j \in 1..k-1 : mV < curve[j][2]
  IN  IF pb = 1 \/ mV < curve[pb][2] THEN curve[pb][1]
      ELSE curve[pb][1] + ((curve[pb - 1][1] - curve[pb][1]) * (mV - curve[pb][2]))
                            \div (curve[pb - 1][2] - curve[pb][2])

\* A failed read ends the loop; so does a negative voltage, which the converter may return
\* and main() takes for an error: -1 stands for all of them.
battery_sample ==
  /\ bat.pc = "sample"
  /\ \/ bat' = [bat EXCEPT !.pc = "disable"]
     \/ \E mV \in Voltages \cup {-1} :
          bat' = IF mV < 0 THEN [bat EXCEPT !.pc = "disable"]
                 ELSE [bat EXCEPT !.batt_mV = mV,
                                  !.pptt = battery_level_pptt(mV, levels[bat.board])]

main ==
  \/ /\ bat.pc = "enable"
     /\ \E b \in battery_measure_enable(TRUE) :
          bat' = [b EXCEPT !.pc = IF b.battery_ok /\ ~b.stuck THEN "sample" ELSE "end"]
  \/ battery_sample
  \/ /\ bat.pc = "disable"
     /\ \E b \in battery_measure_enable(FALSE) : bat' = [b EXCEPT !.pc = "end"]

Next == battery_setup \/ main
-----------------------------------------------------------------------------
TypeOK == bat \in [board : {"divider", "direct"}, pc : {"setup", "enable", "sample", "disable", "end"},
                   battery_ok : BOOLEAN, fed : BOOLEAN, stuck : BOOLEAN,
                   batt_mV : Nat, pptt : 0..10000]

\* What is printed as the level lies on the curve: on the segment that holds the voltage,
\* between its ends and proportional up to rounding, and the divider is not fed for
\* nothing once main() has returned, unless its pin could not be set.
LevelOnCurve ==
  LET curve == levels[bat.board]
  IN  /\ bat.batt_mV > 0 => \A k \in 1..Len(curve) - 1 :
           LET up == curve[k] low == curve[k + 1]
           IN  bat.batt_mV \in low[2]..up[2] =>
                 /\ (bat.pptt - low[1]) * (up[2] - low[2]) <= (up[1] - low[1]) * (bat.batt_mV - low[2])
                 /\ (bat.pptt + 1 - low[1]) * (up[2] - low[2]) > (up[1] - low[1]) * (bat.batt_mV - low[2])
      /\ bat.pc = "end" /\ bat.fed => bat.stuck
=============================================================================
