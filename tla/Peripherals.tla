---------------------------- MODULE Peripherals -----------------------------
(***************************************************************************)
(* Peripherals that wait for one central:                                  *)
(*   lbs       spi_nor_ext_flash_dfu: LED and button service               *)
(*   qspi_lp   ble_qspi_flash_lp_example: the same, silent after 5 s       *)
(*   nrf53_lp  peripheral_lbs_nrf53_lp_demo: the same, silent after 12 s   *)
(*   smp       qspi_dfu_smp_svr: advertising is restarted by a work item   *)
(*   coded     peripheral_hr_coded: the same, with an advertising set      *)
(*   limited   peripheral_limited_adv: three events that nobody connects to*)
(* The host starts legacy advertising again after a connection, until it   *)
(* is stopped; an advertising set has to be started by the program.        *)
(***************************************************************************)
EXTENDS Naturals

VARIABLE per

Button == {"lbs", "qspi_lp", "nrf53_lp"}
ByWork == {"smp", "coded", "limited"}

\* failed: advertising was refused, and nobody tries again.  missed: what main() has not
\* been told, as its callbacks were not registered.
Boot(prog) ==
  [prog |-> prog, pc |-> "init", adv |-> FALSE, persist |-> FALSE, work |-> FALSE,
   registered |-> prog # "coded", up |-> FALSE, default_conn |-> FALSE,
   failed |-> FALSE, missed |-> FALSE, off |-> FALSE,
   app_button_state |-> FALSE, sending |-> "no", seen |-> "unread", raced |-> FALSE]

Init == \E prog \in Button \cup ByWork : per = Boot(prog)
-----------------------------------------------------------------------------
(* Start.  main() returns at the first error.                               *)

StartButton(prog) ==
  /\ per.prog = prog /\ per.pc = "init"
  /\ \/ per' = [per EXCEPT !.pc = "loop", !.adv = TRUE, !.persist = TRUE]
     \/ per' = [per EXCEPT !.pc = "returned"]

main_lbs == StartButton("lbs")
main_qspi == StartButton("qspi_lp")
main_nrf53 == StartButton("nrf53_lp")

\* bt_enable() calls bt_ready() from another thread; main() goes on, and an error is
\* only printed.
start_smp_bluetooth ==
  /\ per.prog = "smp" /\ per.pc = "init"
  /\ \E ok \in BOOLEAN : per' = [per EXCEPT !.pc = "loop", !.work = ok, !.failed = ~ok]

\* The advertising set is created and its start submitted, or main() goes on without.
bt_ready_coded ==
  /\ per.prog = "coded" /\ per.pc = "init"
  /\ \/ \E ok \in BOOLEAN : per' = [per EXCEPT !.pc = "register", !.work = ok, !.failed = ~ok]
     \/ per' = [per EXCEPT !.pc = "returned"]

\* Only then the callbacks.
main_coded ==
  /\ per.prog = "coded" /\ per.pc = "register"
  /\ per' = [per EXCEPT !.pc = "loop", !.registered = TRUE]

\* Radio notifications, then as above.
main_limited ==
  /\ per.prog = "limited" /\ per.pc = "init"
  /\ \/ \E ok \in BOOLEAN : per' = [per EXCEPT !.pc = "returned", !.work = ok, !.failed = ~ok]
     \/ per' = [per EXCEPT !.pc = "returned"]

main == \/ main_lbs \/ main_qspi \/ main_nrf53 \/ start_smp_bluetooth
        \/ bt_ready_coded \/ main_coded \/ main_limited
-----------------------------------------------------------------------------
(* Work items and the end of advertising.                                   *)

\* bt_le_adv_stop() and bt_le_adv_start(), which fails while a connection is up.
advertise ==
  /\ per.prog = "smp" /\ per.work
  /\ \E ok \in IF per.up THEN {FALSE} ELSE BOOLEAN :
       per' = [per EXCEPT !.work = FALSE, !.adv = ok, !.persist = ok, !.failed = ~ok]

\* Also refused while the last connection is not yet released.
start_advertising_coded ==
  /\ per.prog = "coded" /\ per.work
  /\ \E ok \in BOOLEAN : per' = [per EXCEPT !.work = FALSE, !.adv = ok, !.failed = ~ok]

start_advertising ==
  /\ per.prog = "limited" /\ per.work
  /\ \E ok \in BOOLEAN : per' = [per EXCEPT !.work = FALSE, !.adv = ok, !.failed = ~ok]

\* After BLE_ADV_EVENTS events; only printed.
adv_sent ==
  /\ per.prog = "limited" /\ per.adv
  /\ per' = [per EXCEPT !.adv = FALSE, !.off = TRUE]

\* The fifth turn of the loop; an error ends main(), and the device advertises on.
adv_stop_qspi ==
  /\ per.prog = "qspi_lp" /\ per.pc = "loop" /\ ~per.off
  /\ \/ per' = [per EXCEPT !.adv = FALSE, !.persist = FALSE, !.off = TRUE]
     \/ per' = [per EXCEPT !.pc = "returned"]

\* Every twelfth turn of the loop; after an error it is tried again, 1000 s later.
adv_stop_nrf53 ==
  /\ per.prog = "nrf53_lp" /\ per.pc = "loop" /\ ~per.off
  /\ per' = [per EXCEPT !.adv = FALSE, !.persist = FALSE, !.off = TRUE]

Work == \/ advertise \/ start_advertising_coded \/ start_advertising \/ adv_sent
        \/ adv_stop_qspi \/ adv_stop_nrf53
-----------------------------------------------------------------------------
(* Connections.                                                             *)

Up == [per EXCEPT !.up = TRUE, !.adv = FALSE, !.seen = "unread", !.raced = FALSE]

connected_button == per.prog \in Button /\ per.adv /\ ~per.up /\ per' = Up

connected_smp == per.prog = "smp" /\ per.adv /\ ~per.up /\ per' = Up

connected_coded == /\ per.prog = "coded" /\ per.adv /\ ~per.up
                   /\ per' = [Up EXCEPT !.default_conn = per.registered]

\* Legacy advertising goes on by itself.
disconnected_button ==
  /\ per.up /\ per.prog \in Button
  /\ per' = [per EXCEPT !.up = FALSE, !.adv = per.persist]

disconnected_smp ==
  /\ per.up /\ per.prog = "smp"
  /\ per' = [per EXCEPT !.up = FALSE, !.adv = per.persist, !.work = TRUE]

\* Mutant: only the reference is released.
disconnected_unref ==
  /\ per.up /\ per.prog = "coded"
  /\ per' = [per EXCEPT !.up = FALSE, !.default_conn = FALSE, !.missed = ~per.registered]

disconnected_coded ==
  /\ per.up /\ per.prog = "coded"
  /\ per' = [per EXCEPT !.up = FALSE, !.default_conn = FALSE,
               !.work = @ \/ per.registered, !.missed = ~per.registered]

Link == \/ connected_button \/ connected_smp \/ connected_coded
        \/ disconnected_button \/ disconnected_smp \/ disconnected_coded
-----------------------------------------------------------------------------
(* The button: a notification, then the value that is read.                 *)

State(b) == IF b THEN "pressed" ELSE "released"

\* The error of a notification that is refused is ignored.
button_changed ==
  /\ per.prog \in Button /\ per.sending = "no"
  /\ \E b \in {"pressed", "released"}, sent \in BOOLEAN :
       /\ sent => per.up
       /\ per' = [per EXCEPT !.sending = b, !.raced = ~sent,
                    !.seen = IF sent THEN b ELSE @]

button_changed_end ==
  /\ per.sending # "no"
  /\ per' = [per EXCEPT !.sending = "no", !.app_button_state = per.sending = "pressed"]

\* The central reads the button.
app_button_cb ==
  /\ per.prog \in Button /\ per.up
  /\ per' = [per EXCEPT !.seen = State(per.app_button_state), !.raced = per.sending # "no"]

Buttons == button_changed \/ button_changed_end \/ app_button_cb

Next == main \/ Work \/ Link \/ Buttons
-----------------------------------------------------------------------------
TypeOK == per \in [prog : Button \cup ByWork, pc : {"init", "register", "loop", "returned"},
                   adv : BOOLEAN, persist : BOOLEAN, work : BOOLEAN, registered : BOOLEAN,
                   up : BOOLEAN, default_conn : BOOLEAN, failed : BOOLEAN, missed : BOOLEAN,
                   off : BOOLEAN, app_button_state : BOOLEAN,
                   sending : {"no", "pressed", "released"},
                   seen : {"unread", "pressed", "released"}, raced : BOOLEAN]

\* A peripheral that runs is connected, advertises or is about to, unless it was told to
\* be silent, a start of advertising was refused, or a connection ended before anybody
\* could be told.
LinkKept ==
  per.pc = "loop" =>
    per.up \/ per.adv \/ per.work \/ per.off \/ per.failed \/ per.missed

\* A central that has seen the button knows how it is, unless the last notification was
\* refused, or it read the old value after it had been notified of the new one: the value
\* is stored after the notification.
ButtonSeen == per.up /\ per.sending = "no" /\ per.seen # "unread" /\ ~per.raced =>
                per.seen = State(per.app_button_state)
=============================================================================
