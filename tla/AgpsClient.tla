----------------------------- MODULE AgpsClient -----------------------------
(***************************************************************************)
(* The A-GPS client (agps_exp).  Events of the cloud start the periodic    *)
(* search of the GPS in the system work queue; the button held for 3 s and *)
(* a message of the cloud ask for a reboot with one delayed work item,     *)
(* which the release of the button cancels.                                *)
(***************************************************************************)
EXTENDS Naturals

VARIABLE agps

\* reboot: the delayed work item, as it was last submitted by the button or the cloud.
Boot == [pc |-> "init", cloud |-> "off", gps |-> "unbound", button |-> FALSE,
         pressed |-> FALSE, gps_start_work |-> FALSE, reboot |-> "none"]

Init == agps = Boot
-----------------------------------------------------------------------------
(* main() returns at the first error, except for that of the buttons.       *)

Step(from, next) == /\ agps.pc = from
                    /\ agps' \in {next, [agps EXCEPT !.pc = "returned"]}

cloud_init == Step("init", [agps EXCEPT !.pc = "modem"])

modem_configure == Step("modem", [agps EXCEPT !.pc = "gps"])

gps_init == Step("gps", [agps EXCEPT !.pc = "buttons", !.gps = "idle"])

buttons_init ==
  /\ agps.pc = "buttons"
  /\ \E b \in BOOLEAN : agps' = [agps EXCEPT !.pc = "connect", !.button = b]

cloud_connect == Step("connect", [agps EXCEPT !.pc = "running", !.cloud = "connecting"])

main == cloud_init \/ modem_configure \/ gps_init \/ buttons_init \/ cloud_connect
-----------------------------------------------------------------------------
(* cloud_event_handler                                                      *)

\* CLOUD_EVT_READY: the service information is sent and the search submitted.
ready ==
  /\ agps.cloud = "connecting"
  /\ agps' = [agps EXCEPT !.cloud = "ready", !.gps_start_work = TRUE]

\* CLOUD_EVT_DISCONNECTED and CLOUD_EVT_ERROR are only printed, and nobody connects again.
cloud_lost == agps.cloud # "off" /\ agps' = [agps EXCEPT !.cloud = "off"]

\* CLOUD_EVT_DATA_RECEIVED: data for the GPS, or a request to reboot.
data_received ==
  /\ agps.cloud = "ready" /\ agps.reboot # "running"
  /\ agps' = [agps EXCEPT !.reboot = "cloud"]

cloud_event_handler == ready \/ cloud_lost \/ data_received
-----------------------------------------------------------------------------
(* The button and the system work queue, in which reboot_work_fn() sleeps.  *)

\* Also what the cloud asked for has to wait for 3 s.
button_pressed ==
  /\ agps.button /\ ~agps.pressed
  /\ agps' = [agps EXCEPT !.pressed = TRUE,
                !.reboot = IF @ = "running" THEN @ ELSE "button"]

\* Mutant: the release is not told apart from other buttons.
button_released_ignored ==
  agps.button /\ agps.pressed /\ agps' = [agps EXCEPT !.pressed = FALSE]

\* Cancels whatever was submitted last; a work item that runs goes on.
button_released ==
  /\ agps.button /\ agps.pressed
  /\ agps' = [agps EXCEPT !.pressed = FALSE,
                !.reboot = IF @ = "running" THEN @ ELSE "none"]

reboot_work_fn ==
  /\ agps.reboot \in {"button", "cloud"}
  /\ agps' = [agps EXCEPT !.reboot = "running"]

\* sys_reboot() 2 s later.
sys_reboot == agps.reboot = "running" /\ agps' = Boot

\* A search that was started before, or an error: only printed.
gps_start_work_fn ==
  /\ agps.gps_start_work /\ agps.reboot # "running"
  /\ \E gps \in {"periodic", agps.gps} :
       agps' = [agps EXCEPT !.gps_start_work = FALSE, !.gps = gps]

WorkQueue == reboot_work_fn \/ sys_reboot \/ gps_start_work_fn

Next == main \/ cloud_event_handler \/ button_pressed \/ button_released \/ WorkQueue
-----------------------------------------------------------------------------
TypeOK == agps \in [pc : {"init", "modem", "gps", "buttons", "connect", "running", "returned"},
                    cloud : {"off", "connecting", "ready"},
                    gps : {"unbound", "idle", "periodic"}, button : BOOLEAN,
                    pressed : BOOLEAN, gps_start_work : BOOLEAN,
                    reboot : {"none", "button", "cloud", "running"}]

\* The reboot that the button asks for waits only while the button is held, and the search
\* is started only on a GPS that has its handler.
RebootHeld == /\ agps.reboot = "button" => agps.pressed
              /\ agps.gps_start_work => agps.gps # "unbound"

\* A reboot that was asked for takes place or is cancelled (Recovers in Firmware.tla).
RebootAsked == agps.reboot # "none"
Rebooted == agps.reboot = "none"
=============================================================================
