----------------------------- MODULE GatewayBle -----------------------------
(***************************************************************************)
(* The Bluetooth side of the LTE/BLE gateway: search for a Thingy, connect,*)
(* discover the orientation service and then the button service, subscribe *)
(* to both.  What the notifications do is in SensorGateway.tla.            *)
(*   thingy91   thingy91_lte_ble_gateway: searches again after a loss      *)
(*   dk         lte_ble_gateway: has no handler for a disconnection        *)
(* All callbacks run in the Bluetooth thread.  The LED work item of main.c *)
(* reads gButtonServiceFoundFlag (ble_con_stat).                           *)
(***************************************************************************)
EXTENDS Naturals

VARIABLE gble

Boot(prog) ==
  [prog |-> prog, ready |-> FALSE, scan |-> FALSE, link |-> "none", default_conn |-> "null",
   dm |-> "none", subscribed |-> {}, gButtonServiceFoundFlag |-> FALSE, led |-> FALSE,
   failed |-> FALSE]

Init == \E prog \in {"thingy91", "dk"} : gble = Boot(prog)

\* bt_scan_start: its error is only printed.
ScanStart(g) == {[g EXCEPT !.scan = TRUE], [g EXCEPT !.failed = TRUE]}

\* bt_gatt_dm_start: its error is only printed.
DmStart(g, service) == {[g EXCEPT !.dm = service], [g EXCEPT !.dm = "none"]}
-----------------------------------------------------------------------------
\* ble_init, ble_ready and scan_start: nobody tries again what failed.
ble_ready == ~gble.ready /\ gble' \in ScanStart([gble EXCEPT !.ready = TRUE])

\* A Thingy is found: the scanner stops and a connection is created.
scan_connecting ==
  /\ gble.scan
  /\ gble' = [gble EXCEPT !.scan = FALSE, !.link = "initiating",
                          !.default_conn = IF gble.prog = "dk" THEN @ ELSE "conn"]

scan_connecting_error == gble.scan /\ gble' = [gble EXCEPT !.scan = FALSE, !.failed = TRUE]

\* connected() of thingy91 after a failure: the search goes on.
connected_error ==
  /\ gble.prog = "thingy91" /\ gble.link = "initiating"
  /\ gble' \in ScanStart([gble EXCEPT !.link = "none", !.default_conn = "null"])

\* That of dk only prints it.
connected_error_dk ==
  /\ gble.prog = "dk" /\ gble.link = "initiating"
  /\ gble' = [gble EXCEPT !.link = "none", !.failed = TRUE]

\* The discovery of the orientation service starts.
connected ==
  /\ gble.link = "initiating"
  /\ gble' \in DmStart([gble EXCEPT !.link = "up", !.default_conn = "conn",
                                    !.failed = FALSE], "orientation")

\* Subscribed, or a characteristic is missing; in both cases the next discovery starts.
discovery_completed ==
  /\ gble.dm = "orientation"
  /\ \E s \in {gble.subscribed, gble.subscribed \cup {"orientation"}} :
       LET g == [gble EXCEPT !.dm = "none", !.subscribed = s]
       IN gble' \in DmStart(g, "button")

\* The flag is set also when the subscription was refused.
discovery_completed_button ==
  /\ gble.dm = "button"
  /\ \/ gble' = [gble EXCEPT !.dm = "none"]    \* a characteristic is missing
     \/ gble' = [gble EXCEPT !.dm = "none", !.gButtonServiceFoundFlag = (gble.prog # "dk")]
     \/ gble' = [gble EXCEPT !.dm = "none", !.gButtonServiceFoundFlag = (gble.prog # "dk"),
                             !.subscribed = @ \cup {"button"}]

\* Only printed: without the orientation service the button is not looked for.
discovery_service_not_found == gble.dm # "none" /\ gble' = [gble EXCEPT !.dm = "none"]

\* Mutant: the flag is not cleared.
disconnected_flag ==
  /\ gble.prog = "thingy91" /\ gble.link = "up"
  /\ gble' \in ScanStart([gble EXCEPT !.link = "none", !.default_conn = "null",
                                      !.dm = "none", !.subscribed = {}])

\* The subscriptions are volatile: they end with the connection.
disconnected ==
  /\ gble.prog = "thingy91" /\ gble.link = "up"
  /\ gble' \in ScanStart([gble EXCEPT !.link = "none", !.default_conn = "null",
                                      !.dm = "none", !.subscribed = {},
                                      !.gButtonServiceFoundFlag = FALSE])

\* dk is not told that the connection is gone.
link_lost_dk ==
  /\ gble.prog = "dk" /\ gble.link = "up"
  /\ gble' = [gble EXCEPT !.link = "none", !.dm = "none", !.failed = TRUE]

\* leds_update of thingy91, every half second.
leds_update ==
  /\ gble.prog = "thingy91"
  /\ gble' = [gble EXCEPT !.led = gble.gButtonServiceFoundFlag]

Callback == \/ scan_connecting \/ scan_connecting_error \/ connected_error
            \/ connected_error_dk \/ connected \/ discovery_completed
            \/ discovery_completed_button \/ discovery_service_not_found
            \/ disconnected \/ link_lost_dk

Next == ble_ready \/ Callback \/ leds_update
-----------------------------------------------------------------------------
TypeOK == gble \in
  [prog : {"thingy91", "dk"}, ready : BOOLEAN, scan : BOOLEAN,
   link : {"none", "initiating", "up"}, default_conn : {"null", "conn"},
   dm : {"none", "orientation", "button"}, subscribed : SUBSET {"orientation", "button"},
   gButtonServiceFoundFlag : BOOLEAN, led : BOOLEAN, failed : BOOLEAN]

\* The gateway never stops looking for its Thingy, unless the library refused to
\* connect or to scan since the last connection.  Not so on the DK, which looks once:
\* there failed is also set by a lost link.
LinkKept == gble.ready => gble.scan \/ gble.link # "none" \/ gble.failed

\* The blue LED shows a connection: from LitAlone, lit while there is none, the device
\* gets to LitTruly.
LitAlone == gble.led /\ gble.link # "up"
LitTruly == ~gble.led \/ gble.link = "up"
=============================================================================
