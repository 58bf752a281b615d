---------------------------- MODULE SensorGateway ---------------------------
(***************************************************************************)
(* The data path of the LTE/BLE gateway.  Three threads share the          *)
(* aggregator: the Bluetooth RX thread stores the notifications of the     *)
(* Thingy (ble.c) and raises an alarm for the urgent ones, the GPS thread  *)
(* stores positions (main.c), and the main thread sends everything that is *)
(* stored when an alarm is pending (alarm.c), in the same loop in which it *)
(* handles cloud events (CloudLink).                                       *)
(***************************************************************************)
EXTENDS Aggregator, CloudLink

CONSTANTS Orientations,   \* first byte of an orientation notification
          ButtonStates,   \* first byte of a button notification
          TagModulus,     \* 2^32: the GPS tag is a uint32_t
          MaxNotify       \* bound: notifications and fixes between two reboots

ORIENTATION_STRINGS == 4  \* ARRAY_SIZE(orientation_strings)
BUTTON_STRINGS == 2       \* ARRAY_SIZE(button_strings)
NoDatum == [type |-> "NONE", val |-> 0]

ASSUME GatewayAssumption ==
  /\ Orientations \subseteq Nat
  /\ ButtonStates \subseteq Nat
  /\ TagModulus \in Nat \ {0, 1}
  /\ MaxNotify \in Nat
  /\ Data = [type : {"THINGY_ORIENTATION"}, val : Orientations]
              \cup [type : {"THINGY_BUTTON"}, val : ButtonStates]
              \cup [type : {"GPS_POSITION"}, val : 1 .. TagModulus - 1]

VARIABLES alarm_pending,
          bt_pc,            \* Bluetooth RX thread: between put and alarm()?
          gps_tag,          \* gps_cloud_data.tag
          aggregator_data,  \* the datum send_aggregated_data() is handling
          last_tag,         \* history: tag of the last position the cloud got
          notified          \* data received since the reboot (bounded by MaxNotify)

sensorVars == << aggregator_fifo, entry_count, free, alarm_pending, bt_pc,
                 gps_tag, aggregator_data, last_tag, notified >>

vars == << aggregator_fifo, entry_count, free, alarm_pending, bt_pc, gps_tag,
           aggregator_data, last_tag, notified, main_pc, cloud_connected,
           send_data_enable, association_requested, display_state,
           connect_work, wq_pc, link >>

Init == /\ AggInit
        /\ CloudInit
        /\ alarm_pending = FALSE
        /\ bt_pc = "idle"
        /\ gps_tag = 1
        /\ aggregator_data = NoDatum
        /\ last_tag = 0
        /\ notified = 0

\* Upside down, or button pressed: the values for which ble.c calls alarm().
Urgent(d) == \/ d.type = "THINGY_ORIENTATION" /\ d.val = 3
             \/ d.type = "THINGY_BUTTON" /\ d.val = 1

IsPosition(d) == d.type = "GPS_POSITION"

\* What send_aggregated_data() does not drop as "unexpected format".
WellFormed(d) == CASE d.type = "THINGY_ORIENTATION" -> d.val < ORIENTATION_STRINGS
                   [] d.type = "THINGY_BUTTON" -> d.val < BUTTON_STRINGS
                   [] OTHER -> TRUE
-----------------------------------------------------------------------------
\* A notification callback of ble.c: the byte is stored first ...
notify_put(d) ==
  /\ bt_pc = "idle" /\ notified < MaxNotify
  /\ aggregator_put(d)
  /\ notified' = notified + 1
  /\ bt_pc' = IF Urgent(d) THEN "alarm" ELSE "idle"
  /\ UNCHANGED << alarm_pending, gps_tag, aggregator_data, last_tag, cloudVars >>

on_received == \E v \in Orientations :
                 notify_put([type |-> "THINGY_ORIENTATION", val |-> v])

on_received_button == \E v \in ButtonStates :
                        notify_put([type |-> "THINGY_BUTTON", val |-> v])

\* ... and alarm() is called afterwards, whether or not the put succeeded.
alarm ==
  /\ bt_pc = "alarm"
  /\ bt_pc' = "idle"
  /\ alarm_pending' = TRUE
  /\ UNCHANGED << aggVars, gps_tag, aggregator_data, last_tag, notified, cloudVars >>

\* Mutant: no wrap-around.
NextTag_unbounded(t) == t + 1

\* gps_cloud_data.tag++ on a uint32_t, skipping 0.
NextTag(t) == LET n == (t + 1) % TagModulus IN IF n = 0 THEN 1 ELSE n

\* Mutant: the tag is not advanced.
gps_handler_same_tag ==
  /\ send_data_enable = 1 /\ notified < MaxNotify
  /\ aggregator_put([type |-> "GPS_POSITION", val |-> gps_tag])
  /\ notified' = notified + 1
  /\ UNCHANGED << alarm_pending, bt_pc, gps_tag, aggregator_data, last_tag, cloudVars >>

\* gps_handler for GPS_EVT_NMEA_FIX with SWITCH_2 off: the tag advances even
\* when the put fails.
gps_handler ==
  /\ send_data_enable = 1 /\ notified < MaxNotify
  /\ gps_tag' = NextTag(gps_tag)
  /\ aggregator_put([type |-> "GPS_POSITION", val |-> gps_tag'])
  /\ notified' = notified + 1
  /\ UNCHANGED << alarm_pending, bt_pc, aggregator_data, last_tag, cloudVars >>
-----------------------------------------------------------------------------
MainGoes(pc) == /\ main_pc' = pc
                /\ UNCHANGED << cloud_connected, send_data_enable,
                                association_requested, display_state,
                                connect_work, wq_pc, link >>

\* nrf_cloud_process() returns with no (further) event to handle.
nrf_cloud_process ==
  /\ main_pc = "process"
  /\ MainGoes("test")
  /\ UNCHANGED sensorVars

\* send_aggregated_data: if (!alarm_pending) return, then k_sleep.
test_alarm ==
  /\ main_pc = "test"
  /\ MainGoes(IF alarm_pending THEN "clear" ELSE "process")
  /\ UNCHANGED sensorVars

\* alarm_pending = false
clear_alarm ==
  /\ main_pc = "clear"
  /\ alarm_pending' = FALSE
  /\ MainGoes("get")
  /\ UNCHANGED << aggVars, bt_pc, gps_tag, aggregator_data, last_tag, notified >>

\* One turn of the while (1) loop: aggregator_get, leaving on -ENODATA.
get_datum ==
  /\ main_pc = "get"
  /\ \/ /\ aggregator_fifo = << >>
        /\ MainGoes("process")
        /\ UNCHANGED << aggVars, aggregator_data >>
     \/ /\ aggregator_get
        /\ aggregator_data' = Head(aggregator_fifo).data
        /\ MainGoes("send")
  /\ UNCHANGED << alarm_pending, bt_pc, gps_tag, last_tag, notified >>

\* The datum passes the format check and sensor_data_send() is enabled.
Sendable == WellFormed(aggregator_data) /\ send_data_enable = 1

\* Mutant: a malformed datum leaves the loop (break for continue).
send_datum_break ==
  /\ main_pc = "send"
  /\ aggregator_data' = NoDatum
  /\ last_tag' = IF Sendable /\ IsPosition(aggregator_data)
                 THEN aggregator_data.val ELSE last_tag
  /\ MainGoes(IF WellFormed(aggregator_data) THEN "get" ELSE "process")
  /\ UNCHANGED << aggVars, alarm_pending, bt_pc, gps_tag, notified >>

\* The switch on the type, then sensor_data_send(): the datum is dropped when
\* it is malformed or sending is not enabled, else handed to the cloud.
send_datum ==
  /\ main_pc = "send"
  /\ aggregator_data' = NoDatum
  /\ last_tag' = IF Sendable /\ IsPosition(aggregator_data)
                 THEN aggregator_data.val ELSE last_tag
  /\ MainGoes("get")
  /\ UNCHANGED << aggVars, alarm_pending, bt_pc, gps_tag, notified >>

\* The cloud library refuses the datum: sensor_data_send() reboots.
send_error == main_pc = "send" /\ Sendable

\* Everything the sensors left in RAM is gone after a reboot.
sensor_reset == /\ aggregator_fifo' = << >>
                /\ entry_count' = 0
                /\ free' = Blocks
                /\ alarm_pending' = FALSE
                /\ bt_pc' = "idle"
                /\ gps_tag' = 1
                /\ aggregator_data' = NoDatum
                /\ last_tag' = 0
                /\ notified' = 0

error_handler == (cloud_error \/ send_error) /\ sys_reboot /\ sensor_reset
-----------------------------------------------------------------------------
BtRx == on_received \/ on_received_button \/ alarm

send_aggregated_data == test_alarm \/ clear_alarm \/ get_datum \/ send_datum

Next == \/ BtRx
        \/ gps_handler
        \/ nrf_cloud_process
        \/ send_aggregated_data
        \/ CloudStep /\ UNCHANGED sensorVars
        \/ error_handler

Spec == Init /\ [][Next]_vars

\* Each thread goes on when it can; the sensors, the cloud's events and the
\* failures come when they come.
Fairness == /\ WF_vars(alarm)
            /\ WF_vars((main_start \/ main_connect_done) /\ UNCHANGED sensorVars)
            /\ WF_vars((cancel_connect_work \/ schedule_reconnect) /\ UNCHANGED sensorVars)
            /\ SF_vars(nrf_cloud_process)
            /\ WF_vars(send_aggregated_data)

FairSpec == Spec /\ Fairness
-----------------------------------------------------------------------------
MainPCs == CloudMainPCs \cup {"test", "clear", "get", "send"}

TypeOK == /\ AggTypeOK
          /\ CloudTypeOK
          /\ main_pc \in MainPCs
          /\ alarm_pending \in BOOLEAN
          /\ bt_pc \in {"idle", "alarm"}
          /\ gps_tag \in 0 .. TagModulus - 1
          /\ aggregator_data \in Data \cup {NoDatum}
          /\ last_tag \in 0 .. TagModulus - 1
          /\ notified \in 0 .. MaxNotify

UrgentQueued == \E i \in DOMAIN aggregator_fifo : Urgent(aggregator_fifo[i].data)

\* No alarm is lost: while urgent data is queued, the alarm is pending, or is
\* about to be raised, or the main thread has yet to drain the queue for an
\* alarm it has seen.  This is what the order "put, then alarm()" in ble.c and
\* "clear, then drain" in alarm.c are for.
UrgentNeverForgotten ==
  UrgentQueued => alarm_pending \/ bt_pc = "alarm" \/ main_pc \in {"clear", "get", "send"}

\* Positions reach the cloud in the order of the fixes and none of them twice,
\* as long as the tag has not wrapped around: the last tag the cloud got is
\* below that of the datum being sent, which is below those queued, which
\* increase up to the tag gps_handler gave out last.
PositionsInOrder ==
  notified < TagModulus - 1 =>
    /\ last_tag <= gps_tag
    /\ IsPosition(aggregator_data) =>
         last_tag < aggregator_data.val /\ aggregator_data.val <= gps_tag
    /\ \A i \in DOMAIN aggregator_fifo : IsPosition(aggregator_fifo[i].data) =>
         /\ last_tag < aggregator_fifo[i].data.val
         /\ aggregator_fifo[i].data.val <= gps_tag
         /\ IsPosition(aggregator_data) => aggregator_data.val < aggregator_fifo[i].data.val
         /\ \A j \in DOMAIN aggregator_fifo :
              j < i /\ IsPosition(aggregator_fifo[j].data) =>
                 aggregator_fifo[j].data.val < aggregator_fifo[i].data.val

\* Once the sensors fall silent, urgent data does not stay behind: it is sent,
\* dropped or lost in a reboot.
UrgentDrained == UrgentQueued ~> ~UrgentQueued
=============================================================================
