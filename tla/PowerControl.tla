---------------------------- MODULE PowerControl ----------------------------
(***************************************************************************)
(* Dynamic transmission power (hci_pwr_ctrl).  A thread goes through all   *)
(* levels while it advertises and chooses the level of a connection from   *)
(* its RSSI.  default_conn and its handle are set by the callbacks of the  *)
(* connection, which main() registers after Bluetooth has been started,    *)
(* and read by the thread between HCI commands that block.                 *)
(***************************************************************************)
EXTENDS Naturals

CONSTANT Levels   \* DEVICE_BEACON_TXPOWER_NUM is 9

VARIABLE pwr

Init == pwr = [pc |-> "enable", ready |-> FALSE, adv |-> FALSE, registered |-> FALSE,
               thread |-> "none", up |-> FALSE, missed |-> FALSE,
               default_conn |-> FALSE, handle |-> "none",
               idx |-> 0, beacon |-> 0, rssi |-> "unread", level |-> "default"]
-----------------------------------------------------------------------------
\* bt_enable(): its error is only printed, and bt_ready() is called later.
bt_enable == pwr.pc = "enable" /\ pwr' = [pwr EXCEPT !.pc = "get", !.ready = TRUE]

\* Advertising, or an error that is only printed.
bt_ready == /\ pwr.ready
            /\ \E adv \in BOOLEAN : pwr' = [pwr EXCEPT !.ready = FALSE, !.adv = adv]

\* The default level is read with a command that blocks; then the callbacks are registered.
get_tx_power == pwr.pc = "get" /\ pwr' = [pwr EXCEPT !.pc = "register"]

bt_conn_cb_register ==
  pwr.pc = "register" /\ pwr' = [pwr EXCEPT !.pc = "sleep", !.registered = TRUE]

\* The thread is created 5 s later; main() then only notifies a heart rate.
main == pwr.pc = "sleep" /\ pwr' = [pwr EXCEPT !.pc = "loop", !.thread = "look"]

\* The level of a connection starts without preference; its handle may be refused.
connected ==
  /\ pwr.adv /\ ~pwr.up
  /\ LET up == [pwr EXCEPT !.up = TRUE, !.level = "default",
                           !.handle = IF @ = "none" THEN @ ELSE "old"]
     IN IF ~pwr.registered THEN pwr' = [up EXCEPT !.missed = TRUE]
        ELSE \E h \in {up.handle, "current"} :
               pwr' = [up EXCEPT !.default_conn = TRUE, !.handle = h]

\* Mutant: the reference is kept.
disconnected_keeps ==
  /\ pwr.up
  /\ pwr' = [pwr EXCEPT !.up = FALSE, !.missed = FALSE]

\* The handle stays.
disconnected ==
  /\ pwr.up
  /\ pwr' = [pwr EXCEPT !.up = FALSE, !.missed = FALSE,
               !.default_conn = IF pwr.registered THEN FALSE ELSE @]

\* Without a connection the next level is set, and kept for 5 s.
beacon_level ==
  \/ /\ pwr.thread = "look" /\ ~pwr.default_conn
     /\ pwr' = [pwr EXCEPT !.thread = "beacon", !.beacon = pwr.idx]
  \/ /\ pwr.thread = "beacon"
     /\ pwr' = [pwr EXCEPT !.thread = "look", !.idx = (@ + 1) % Levels]

\* The answer leaves rssi as it was, -1, when the connection of the handle is gone.
read_conn_rssi ==
  /\ pwr.thread = "look" /\ pwr.default_conn
  /\ \E r \in {"unread"} \cup (IF pwr.up /\ pwr.handle = "current"
                               THEN {"near", "mid", "far"} ELSE {}) :
       pwr' = [pwr EXCEPT !.thread = "set", !.idx = 0, !.rssi = r]

\* -20 dBm above -50 dBm, also for an RSSI that was not read; 0 or 4 dBm above -70 dBm;
\* else 8 dBm.
Adaptive(rssi) == CASE rssi \in {"near", "unread"} -> "lowest"
                    [] rssi = "mid" -> "middle"
                    [] rssi = "far" -> "highest"

\* The level goes to the connection that has the handle now; a refusal is only printed.
set_tx_power ==
  /\ pwr.thread = "set"
  /\ \E level \in {pwr.level} \cup (IF pwr.up /\ pwr.handle = "current"
                                    THEN {Adaptive(pwr.rssi)} ELSE {}) :
       pwr' = [pwr EXCEPT !.thread = "look", !.level = level]

modulate_tx_power == beacon_level \/ read_conn_rssi \/ set_tx_power

Next == \/ bt_enable \/ bt_ready \/ get_tx_power \/ bt_conn_cb_register \/ main
        \/ connected \/ disconnected \/ modulate_tx_power
-----------------------------------------------------------------------------
TypeOK == pwr \in [pc : {"enable", "get", "register", "sleep", "loop"}, ready : BOOLEAN,
                   adv : BOOLEAN, registered : BOOLEAN,
                   thread : {"none", "look", "beacon", "set"}, up : BOOLEAN,
                   missed : BOOLEAN, default_conn : BOOLEAN,
                   handle : {"none", "current", "old"},
                   idx : 0..(Levels - 1), beacon : 0..(Levels - 1),
                   rssi : {"unread", "near", "mid", "far"},
                   level : {"default", "lowest", "middle", "highest"}]

\* default_conn is the connection that is up, unless it came before the callbacks.
ConnKnown == pwr.default_conn <=> (pwr.up /\ ~pwr.missed)

\* A level other than the default is only chosen for a connection that is up and whose handle
\* was read: the connections that main() missed, and those without a handle, keep the default.
LevelChosen == pwr.up /\ pwr.level # "default" => pwr.default_conn /\ pwr.handle = "current"
=============================================================================
