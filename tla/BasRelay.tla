------------------------------ MODULE BasRelay ------------------------------
(***************************************************************************)
(* The battery relay (bluetooth_central_bas_peripheral_hr_10): a central of*)
(* many peripherals that is itself a heart rate sensor.  Every connection  *)
(* it creates takes a slot of curr_conn[], and bas[] holds one battery     *)
(* client per slot.  The scanner stops for each attempt to connect and is  *)
(* started again by connected() and disconnected(); there is one discovery *)
(* at a time (gatt_dm).                                                    *)
(***************************************************************************)
EXTENDS Naturals, FiniteSets

CONSTANTS NumSlots,   \* NUM_CONN_MAX is 10
          NumConns,   \* 10 connections, two of them kept for the peripheral role
          MaxHr       \* CONFIG_SDC_SLAVE_COUNT is 2

VARIABLE bas

Slots == 1..NumSlots
Conns == 1..NumConns

Init == bas = [pc |-> "init", filter |-> FALSE, scan |-> FALSE, failed |-> FALSE,
               conn |-> [c \in Conns |-> "none"], slot |-> [i \in Slots |-> 0],
               client |-> [i \in Slots |-> "none"], dm |-> 0, adv |-> FALSE, hr |-> 0]

\* find_curr_conn(): the first slot of curr_conn[] with this value, or none.
find_curr_conn(s, c) == {i \in Slots : s.slot[i] = c /\ \A j \in 1..(i - 1) : s.slot[j] # c}

\* scan_start(): an error is only printed.
scan_start(s) == {[s EXCEPT !.scan = TRUE, !.failed = FALSE],
                  IF s.scan THEN s ELSE [s EXCEPT !.failed = TRUE]}

\* The host creates one connection at a time.
Initiating == \E c \in Conns : bas.conn[c] = "initiating"
-----------------------------------------------------------------------------
\* The errors of the filter are only printed.
scan_init ==
  /\ bas.pc = "init"
  /\ \E filter \in BOOLEAN : bas' = [bas EXCEPT !.pc = "main", !.filter = filter]

\* The callbacks, the buttons and bt_scan_start: main() returns at the first error.
main ==
  /\ bas.pc = "main"
  /\ \E to \in {"hr", "returned"} : bas' = [bas EXCEPT !.pc = to, !.scan = to = "hr"]

\* Advertising as heart rate sensor, then the loop of simulated measurements.
bt_hr_start ==
  /\ bas.pc = "hr"
  /\ \E adv \in BOOLEAN : bas' = [bas EXCEPT !.pc = "loop", !.adv = adv]

\* The scanner stops, the connection is created and takes the first free slot.
Create(c) ==
  LET room == find_curr_conn(bas, 0)
  IN /\ ~Initiating /\ bas.conn[c] = "none"
     /\ bas' = [bas EXCEPT !.scan = FALSE, !.conn[c] = "initiating",
                  !.slot = [i \in Slots |-> IF i \in room THEN c ELSE @[i]]]

\* A peripheral with the battery service: bt_scan connects and tells scan_connecting().
scan_connecting == bas.scan /\ bas.filter /\ \E c \in Conns : Create(c)

\* Another connection is being created, all are used, or the controller refuses:
\* the scanner is already off, and the error is only printed.
scan_connecting_error ==
  bas.scan /\ bas.filter /\ bas' = [bas EXCEPT !.scan = FALSE, !.failed = TRUE]

\* Direct advertising to this device matches no filter; the application stops the
\* scanner and connects itself if there is room.
scan_filter_no_match ==
  /\ bas.scan /\ find_curr_conn(bas, 0) # {}
  /\ \/ \E c \in Conns : Create(c)
     \/ bas' = [bas EXCEPT !.scan = FALSE, !.failed = TRUE]

\* Mutant: the slot of a failed connection is kept.
connected_error_keeps ==
  \E c \in Conns : /\ bas.conn[c] = "initiating"
                   /\ bas' \in scan_start([bas EXCEPT !.conn[c] = "none"])

connected_error ==
  \E c \in Conns :
    /\ bas.conn[c] = "initiating"
    /\ bas' \in scan_start([bas EXCEPT !.conn[c] = "none",
                              !.slot = [i \in Slots |-> IF @[i] = c THEN 0 ELSE @[i]]])

\* gatt_discover(): the discovery is refused while another is running; only printed.
gatt_discover(s, c) ==
  IF s.dm = 0 /\ find_curr_conn(s, c) # {} THEN {[s EXCEPT !.dm = c], s} ELSE {s}

\* The discovery waits for security_changed(), unless security cannot be requested.
connected ==
  \E c \in Conns :
    /\ bas.conn[c] = "initiating"
    /\ LET up == [bas EXCEPT !.conn[c] = "up"]
       IN \E s \in {up} \cup gatt_discover(up, c) :
            bas' \in IF find_curr_conn(s, 0) # {} THEN scan_start(s) ELSE {s}

security_changed ==
  \E c \in Conns : bas.conn[c] = "up" /\ bas' \in gatt_discover(bas, c)

\* discovery_completed_cb() assigns the handles to the client of the slot and subscribes,
\* or reads every 10 s; the other two callbacks only print.
discovery_completed_cb ==
  /\ bas.dm # 0
  /\ \/ bas' = [bas EXCEPT !.dm = 0,
                  !.client = [i \in Slots |-> IF i \in find_curr_conn(bas, bas.dm)
                                              THEN "current" ELSE @[i]]]
     \/ bas' = [bas EXCEPT !.dm = 0]

\* The host ends the discovery of a lost connection with an error; the client of the slot
\* keeps the handles of the peer that is gone.  The scanner is started again, also while another connection is
\* being created.
disconnected ==
  \E c \in Conns :
    /\ bas.conn[c] = "up"
    /\ bas' \in scan_start([bas EXCEPT !.conn[c] = "none", !.dm = IF @ = c THEN 0 ELSE @,
                              !.slot = [i \in Slots |-> IF @[i] = c THEN 0 ELSE @[i]],
                              !.client = [i \in Slots |-> IF /\ bas.slot[i] = c
                                                             /\ @[i] = "current"
                                                          THEN "old" ELSE @[i]]])

\* bt_hr_connected() and bt_hr_disconnected(): a second table of connections, in the role
\* of the peripheral.  The host goes on advertising by itself.
bt_hr_connected == bas.adv /\ bas.hr < MaxHr /\ bas' = [bas EXCEPT !.hr = @ + 1]

bt_hr_disconnected == bas.hr > 0 /\ bas' = [bas EXCEPT !.hr = @ - 1]

Next == \/ scan_init \/ main \/ bt_hr_start
        \/ scan_connecting \/ scan_connecting_error \/ scan_filter_no_match
        \/ connected_error \/ connected \/ security_changed
        \/ discovery_completed_cb \/ disconnected
        \/ bt_hr_connected \/ bt_hr_disconnected
-----------------------------------------------------------------------------
TypeOK == bas \in [pc : {"init", "main", "hr", "loop", "returned"}, filter : BOOLEAN,
                   scan : BOOLEAN, failed : BOOLEAN,
                   conn : [Conns -> {"none", "initiating", "up"}],
                   slot : [Slots -> {0} \cup Conns], client : [Slots -> {"none", "current", "old"}],
                   dm : {0} \cup Conns, adv : BOOLEAN, hr : 0..MaxHr]

\* The relay searches or is connecting, unless a call that does so was refused.
LinkKept == bas.pc \in {"hr", "loop"} => bas.scan \/ Initiating \/ bas.failed

\* Every connection that is up or being created has one slot, every other none, and the
\* discovery that is running and the clients with valid handles belong to connections
\* that are up.
OneSlotEach ==
  /\ \A c \in Conns : Cardinality({i \in Slots : bas.slot[i] = c})
                        = IF bas.conn[c] = "none" THEN 0 ELSE 1
  /\ bas.dm # 0 => bas.conn[bas.dm] = "up"
  /\ \A i \in Slots : bas.client[i] = "current" =>
                       bas.slot[i] # 0 /\ bas.conn[bas.slot[i]] = "up"
=============================================================================
