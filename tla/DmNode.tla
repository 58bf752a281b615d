------------------------------- MODULE DmNode -------------------------------
(***************************************************************************)
(* The Bluetooth side of a distance measurement node                       *)
(* (nrf_dm_nrf52840_dongle_v191; the DK program differs in its LEDs).  A   *)
(* node scans for others, and advertises: connectable while nobody is      *)
(* connected, scannable only while somebody is.  A change replaces the     *)
(* advertising set, step by step, in the system work queue, while          *)
(* connection callbacks and scan requests go on in the Bluetooth thread.   *)
(* A scan request or response of a known peer asks for a measurement.      *)
(* The peers themselves are in PeerTracker.tla.                            *)
(***************************************************************************)
EXTENDS Naturals

VARIABLE dmn

Modes == {"rtt", "mcpd"}

Init == dmn = [pc |-> "sync", scan |-> FALSE, link |-> FALSE,
               adv_param |-> "conn", adv_work |-> FALSE, step |-> "idle",
               adv |-> "null", on |-> "none", new |-> "conn", failed |-> FALSE,
               ranging_mode |-> "mcpd", supported |-> FALSE, requests |-> {}]

\* A call of adv_start() that fails ends it.
Fails == dmn' = [dmn EXCEPT !.step = "idle", !.failed = TRUE,
                            !.pc = IF @ = "sync" THEN "returned" ELSE @]
-----------------------------------------------------------------------------
(* adv_start(), called by bt_sync_init and by the work item.                *)

\* The parameters are those of the moment at which the new set is created.
adv_stop ==
  /\ \/ dmn.pc = "sync" /\ dmn.step = "idle"
     \/ dmn.pc # "sync" /\ dmn.adv_work /\ dmn.step = "idle"
  /\ LET begun == [dmn EXCEPT !.adv_work = FALSE]
     IN \/ dmn.adv = "null" /\ dmn' = [begun EXCEPT !.step = "create"]
        \/ dmn.adv # "null" /\ dmn' = [begun EXCEPT !.step = "delete", !.on = "none"]
        \/ dmn.adv # "null" /\ dmn' = [begun EXCEPT !.failed = TRUE]

\* A set that was deleted before, and never replaced, cannot be deleted.
adv_delete ==
  /\ dmn.step = "delete"
  /\ \/ dmn.adv = "set" /\ dmn' = [dmn EXCEPT !.adv = "dangling", !.step = "create"]
     \/ Fails

adv_create ==
  /\ dmn.step = "create"
  /\ \/ dmn' = [dmn EXCEPT !.adv = "set", !.new = dmn.adv_param, !.step = "start"]
     \/ Fails

\* bt_le_ext_adv_set_data and bt_le_ext_adv_start.
adv_start ==
  /\ dmn.step = "start"
  /\ \/ dmn' = [dmn EXCEPT !.on = dmn.new, !.step = "idle",
                           !.pc = IF @ = "sync" THEN "scan" ELSE @]
     \/ Fails

\* The end of bt_sync_init.
scan_start ==
  /\ dmn.pc = "scan"
  /\ \/ dmn' = [dmn EXCEPT !.scan = TRUE, !.pc = "running"]
     \/ dmn' = [dmn EXCEPT !.pc = "returned"]

adv_work_handle == adv_stop \/ adv_delete \/ adv_create \/ adv_start
-----------------------------------------------------------------------------
(* The Bluetooth thread.                                                    *)

\* A connection ends the connectable advertising, in the controller.
connected ==
  /\ dmn.on = "conn" /\ ~dmn.link
  /\ dmn' = [dmn EXCEPT !.link = TRUE, !.on = "none", !.adv_param = "noconn",
                        !.adv_work = TRUE]

\* Mutant: the parameters are set by the work item's next user.
disconnected_param ==
  /\ dmn.link
  /\ dmn' = [dmn EXCEPT !.link = FALSE, !.adv_work = TRUE]

disconnected ==
  /\ dmn.link
  /\ dmn' = [dmn EXCEPT !.link = FALSE, !.adv_param = "conn", !.adv_work = TRUE]

\* A scan response with the data of a node: a request to measure as initiator.
scan_filter_match ==
  /\ dmn.scan
  /\ dmn' = [dmn EXCEPT !.supported = TRUE,
                        !.requests = @ \cup {[role |-> "initiator",
                                              mode |-> dmn.ranging_mode]}]

\* A scan request of a peer that was seen before: as reflector.
adv_scanned_cb ==
  /\ dmn.on # "none" /\ dmn.supported
  /\ dmn' = [dmn EXCEPT !.requests = @ \cup {[role |-> "reflector",
                                              mode |-> dmn.ranging_mode]}]

\* A measurement ends (external: dm_request_add, the DM library).
data_ready == \E r \in dmn.requests : dmn' = [dmn EXCEPT !.requests = @ \ {r}]

\* A client sets the mode (service.c); any other value is refused.
dm_ranging_mode_set ==
  dmn.link /\ \E mode \in Modes : dmn' = [dmn EXCEPT !.ranging_mode = mode]

Next == \/ adv_work_handle \/ scan_start \/ connected \/ disconnected
        \/ scan_filter_match \/ adv_scanned_cb \/ data_ready \/ dm_ranging_mode_set
-----------------------------------------------------------------------------
TypeOK == dmn \in
  [pc : {"sync", "scan", "running", "returned"}, scan : BOOLEAN, link : BOOLEAN,
   adv_param : {"conn", "noconn"}, adv_work : BOOLEAN,
   step : {"idle", "delete", "create", "start"}, adv : {"null", "set", "dangling"},
   on : {"none", "conn", "noconn"}, new : {"conn", "noconn"}, failed : BOOLEAN,
   ranging_mode : Modes, supported : BOOLEAN,
   requests : SUBSET [role : {"initiator", "reflector"}, mode : Modes]]

\* Once the work queue is idle the node advertises as its link demands, connectable or
\* not, however connections and losses fell into the replacement of the set: unless one
\* of its calls failed.
AdvertisesAsLinked ==
  dmn.pc # "sync" /\ dmn.step = "idle" /\ ~dmn.adv_work /\ ~dmn.failed =>
     dmn.on = IF dmn.link THEN "noconn" ELSE "conn"
=============================================================================
