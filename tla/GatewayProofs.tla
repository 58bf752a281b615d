--------------------------- MODULE GatewayProofs ----------------------------
(***************************************************************************)
(* Theorems about the gateway's data path and its cloud connection, for    *)
(* every queue limit, heap, set of sensor values, tag width and number of  *)
(* notifications.                                                          *)
(***************************************************************************)
EXTENDS SensorGateway, AggregatorProofs

-----------------------------------------------------------------------------
(* The aggregator inside the gateway.  A reboot frees everything, which to  *)
(* the aggregator is a clear; every other step is a put, a get or none.     *)

\* The data the three producers store are sensor data.
LEMMA StoredData ==
  ASSUME gps_tag \in 0 .. TagModulus - 1
  PROVE  /\ NextTag(gps_tag) \in 1 .. TagModulus - 1
         /\ [type |-> "GPS_POSITION", val |-> NextTag(gps_tag)] \in Data
         /\ \A v \in Orientations : [type |-> "THINGY_ORIENTATION", val |-> v] \in Data
         /\ \A v \in ButtonStates : [type |-> "THINGY_BUTTON", val |-> v] \in Data
<1>1. NextTag(gps_tag) \in 1 .. TagModulus - 1
  BY GatewayAssumption DEF NextTag
<1> QED
  BY <1>1, GatewayAssumption

\* A step of the gateway is a step of the aggregator.
LEMMA GatewayStepIsAggStep ==
  ASSUME AggInv, gps_tag \in 0 .. TagModulus - 1, [Next]_vars
  PROVE  [AggNext]_aggVars
<1>1. CASE on_received \/ on_received_button
  BY <1>1, StoredData DEF on_received, on_received_button, notify_put, AggNext
<1>2. CASE alarm
  BY <1>2 DEF alarm, aggVars
<1>3. CASE gps_handler
  BY <1>3, StoredData DEF gps_handler, AggNext
<1>4. CASE nrf_cloud_process
  BY <1>4 DEF nrf_cloud_process, sensorVars, aggVars
<1>5. CASE send_aggregated_data
  <2>1. CASE test_alarm
    BY <2>1 DEF test_alarm, sensorVars, aggVars
  <2>2. CASE clear_alarm
    BY <2>2 DEF clear_alarm, aggVars
  <2>3. CASE get_datum
    BY <2>3 DEF get_datum, aggVars, AggNext
  <2>4. CASE send_datum
    BY <2>4 DEF send_datum, aggVars
  <2> QED
    BY <1>5, <2>1, <2>2, <2>3, <2>4 DEF send_aggregated_data
<1>6. CASE CloudStep /\ UNCHANGED sensorVars
  BY <1>6 DEF sensorVars, aggVars
<1>7. CASE error_handler
  BY <1>7 DEF error_handler, sensor_reset, AggNext, aggregator_clear, AggInv, HeapSafe, NoBlockLost
<1>8. CASE UNCHANGED vars
  BY <1>8 DEF vars, aggVars
<1> QED
  BY <1>1, <1>2, <1>3, <1>4, <1>5, <1>6, <1>7, <1>8 DEF Next, BtRx

\* The invariant behind TypeOK: entry_count stays a natural number only
\* because it is the length of the queue.
GatewayInv == TypeOK /\ CountIsLength /\ HeapSafe

\* A step of the cloud connection keeps its variables within their types.
LEMMA CloudStepType ==
  ASSUME CloudTypeOK, main_pc \in MainPCs, CloudStep \/ sys_reboot
  PROVE  CloudTypeOK' /\ (main_pc \in MainPCs)'
<1> USE DEF CloudTypeOK, MainPCs, CloudMainPCs, WorkFlags, Links, LedPatterns
<1>1. CASE main_start
  BY <1>1 DEF main_start, nrf_cloud_connect
<1>2. CASE main_connect_done
  BY <1>2 DEF main_connect_done, k_work_schedule
<1>3. CASE work_timeout
  BY <1>3 DEF work_timeout
<1>4. CASE cloud_connect_skip
  BY <1>4 DEF cloud_connect_skip
<1>5. CASE cloud_connect_enter
  BY <1>5 DEF cloud_connect_enter, nrf_cloud_connect
<1>6. CASE cloud_connect_done
  BY <1>6 DEF cloud_connect_done, k_work_schedule
<1>7. CASE evt_transport_connected
  BY <1>7 DEF evt_transport_connected
<1>8. CASE cancel_connect_work
  BY <1>8 DEF cancel_connect_work, k_work_cancel_delayable
<1>9. CASE evt_user_association_request
  BY <1>9 DEF evt_user_association_request
<1>10. CASE evt_user_associated
  BY <1>10 DEF evt_user_associated
<1>11. CASE evt_ready
  BY <1>11 DEF evt_ready
<1>12. CASE evt_transport_disconnected
  BY <1>12 DEF evt_transport_disconnected
<1>13. CASE schedule_reconnect
  BY <1>13 DEF schedule_reconnect, k_work_schedule
<1>14. CASE sys_reboot
  BY <1>14 DEF sys_reboot
<1> QED
  BY <1>1, <1>2, <1>3, <1>4, <1>5, <1>6, <1>7, <1>8, <1>9, <1>10, <1>11,
     <1>12, <1>13, <1>14 DEF CloudStep, cloud_connect_work, cloud_event_handler

\* Every step of the gateway keeps the types, the counter and the heap.
LEMMA GatewayTypeStep == GatewayInv /\ [Next]_vars => GatewayInv'
<1> SUFFICES ASSUME GatewayInv, [Next]_vars PROVE GatewayInv'
  OBVIOUS
<1>1. AggInv /\ gps_tag \in 0 .. TagModulus - 1
  BY DEF GatewayInv, TypeOK, AggInv
<1>2. AggInv'
  BY <1>1, GatewayStepIsAggStep, AggStepInv
<1>3. AggTypeOK' /\ CountIsLength' /\ HeapSafe'
  BY <1>2 DEF AggInv
<1> DEFINE Rest == /\ CloudTypeOK
                   /\ main_pc \in MainPCs
                   /\ alarm_pending \in BOOLEAN
                   /\ bt_pc \in {"idle", "alarm"}
                   /\ gps_tag \in 0 .. TagModulus - 1
                   /\ aggregator_data \in Data \cup {NoDatum}
                   /\ last_tag \in 0 .. TagModulus - 1
                   /\ notified \in 0 .. MaxNotify
<1>4. Rest
  BY DEF GatewayInv, TypeOK
<1> SUFFICES Rest'
  BY <1>3 DEF GatewayInv, TypeOK
<1>5. CASE on_received \/ on_received_button
  <2>1. PICK d : notify_put(d)
    BY <1>5 DEF on_received, on_received_button
  <2>2. notified' \in 0 .. MaxNotify /\ bt_pc' \in {"idle", "alarm"}
    BY <1>4, <2>1, GatewayAssumption DEF notify_put
  <2>3. UNCHANGED << alarm_pending, gps_tag, aggregator_data, last_tag, cloudVars >>
    BY <2>1 DEF notify_put
  <2> QED
    BY <1>4, <2>2, <2>3 DEF cloudVars, CloudTypeOK
<1>6. CASE alarm
  BY <1>4, <1>6 DEF alarm, cloudVars, CloudTypeOK
<1>7. CASE gps_handler
  BY <1>4, <1>7, StoredData, GatewayAssumption DEF gps_handler, cloudVars, CloudTypeOK
<1>8. CASE nrf_cloud_process
  BY <1>4, <1>8 DEF nrf_cloud_process, MainGoes, sensorVars, CloudTypeOK, MainPCs
<1>9. CASE send_aggregated_data
  <2>1. CASE test_alarm
    BY <1>4, <2>1 DEF test_alarm, MainGoes, sensorVars, CloudTypeOK, MainPCs, CloudMainPCs
  <2>2. CASE clear_alarm
    BY <1>4, <2>2 DEF clear_alarm, MainGoes, CloudTypeOK, MainPCs
  <2>3. CASE get_datum
    <3>1. aggregator_get => Head(aggregator_fifo).data \in Data
      <4> SUFFICES ASSUME aggregator_get PROVE Head(aggregator_fifo).data \in Data
        OBVIOUS
      <4>1. Head(aggregator_fifo) \in fifo_entry
        BY <1>1, TailFacts DEF AggInv, AggTypeOK, aggregator_get
      <4> QED
        BY <4>1 DEF fifo_entry
    <3> QED
      BY <1>4, <2>3, <3>1 DEF get_datum, MainGoes, CloudTypeOK, MainPCs, CloudMainPCs
  <2>4. CASE send_datum
    <3>1. aggregator_data \in Data /\ IsPosition(aggregator_data)
            => aggregator_data.val \in 0 .. TagModulus - 1
      BY GatewayAssumption DEF IsPosition
    <3>2. IsPosition(aggregator_data) => aggregator_data \in Data
      BY <1>4 DEF IsPosition, NoDatum
    <3> QED
      BY <1>4, <2>4, <3>1, <3>2 DEF send_datum, MainGoes, CloudTypeOK, MainPCs
  <2> QED
    BY <1>9, <2>1, <2>2, <2>3, <2>4 DEF send_aggregated_data
<1>10. CASE CloudStep /\ UNCHANGED sensorVars
  BY <1>4, <1>10, CloudStepType DEF sensorVars
<1>11. CASE error_handler
  <2>1. CloudTypeOK' /\ (main_pc \in MainPCs)'
    BY <1>4, <1>11, CloudStepType DEF error_handler
  <2>2. {0, 1} \subseteq 0 .. TagModulus - 1 /\ 0 \in 0 .. MaxNotify
    BY GatewayAssumption
  <2>3. sensor_reset
    BY <1>11 DEF error_handler
  <2> QED
    BY <2>1, <2>2, <2>3 DEF sensor_reset
<1>12. CASE UNCHANGED vars
  BY <1>4, <1>12 DEF vars, CloudTypeOK
<1> QED
  BY <1>5, <1>6, <1>7, <1>8, <1>9, <1>10, <1>11, <1>12 DEF Next, BtRx

\* They hold when the firmware starts.
LEMMA GatewayInit == Init => GatewayInv
<1>1. Init => AggInv
  BY AggInitInv DEF Init
<1>2. Init => CloudTypeOK /\ main_pc \in MainPCs
  BY DEF Init, CloudInit, CloudTypeOK, MainPCs, CloudMainPCs, LedPatterns, WorkFlags, Links
<1>3. {0, 1} \subseteq 0 .. TagModulus - 1 /\ 0 \in 0 .. MaxNotify
  BY GatewayAssumption
<1> QED
  BY <1>1, <1>2, <1>3 DEF Init, AggInv, GatewayInv, TypeOK

\* What the firmware's variables may hold, in every reachable state.
THEOREM GatewayTyped == Spec => []TypeOK
<1>1. GatewayInv => TypeOK
  BY DEF GatewayInv
<1> QED
  BY <1>1, GatewayInit, GatewayTypeStep, PTL DEF Spec

\* The gateway's queue of data is, through reboots, alarms and three threads,
\* the abstract queue of the most recent data.
THEOREM GatewayKeepsMostRecent == Spec => KeepsMostRecent
<1>1. Init => AggInit
  BY DEF Init
<1>2. TypeOK /\ AggInv /\ [Next]_vars => [AggNext]_aggVars
  BY GatewayStepIsAggStep DEF TypeOK
<1> QED
  BY <1>1, <1>2, GatewayTyped, AggInitInv, AggStepInv, AggregatorImplementsRecentData, PTL
  DEF Spec, AggSpec

-----------------------------------------------------------------------------
(* Alarms.                                                                  *)

\* Urgent data that is queued after a put was queued before it or was put.
LEMMA PutUrgent ==
  ASSUME AggInv, NEW d \in Data, aggregator_put(d), UrgentQueued'
  PROVE  UrgentQueued \/ Urgent(d)
<1> DEFINE q == aggregator_fifo
<1>1. q \in Seq(fifo_entry) /\ Len(q) \in Nat /\ DOMAIN q = 1 .. Len(q)
  BY DEF AggInv, AggTypeOK
<1>2. PICK k \in DOMAIN aggregator_fifo' : Urgent(aggregator_fifo'[k].data)
  BY DEF UrgentQueued, Urgent
<1>3. CASE put_reuse(d)
  <2> DEFINE e == [blk |-> Head(q).blk, data |-> d]
  <2>1. q # << >> /\ aggregator_fifo' = Append(Tail(q), e)
    BY <1>3 DEF put_reuse
  <2>2. /\ Tail(q) \in Seq(fifo_entry) /\ Len(Tail(q)) = Len(q) - 1 /\ Len(q) >= 1
        /\ \A i \in 1 .. Len(q) - 1 : Tail(q)[i] = q[i + 1]
        /\ Head(q) \in fifo_entry
    BY <1>1, <2>1, TailFacts
  <2>3. e \in fifo_entry /\ e.data = d
    BY <2>2 DEF fifo_entry
  <2> HIDE DEF e, q
  <2>4. /\ DOMAIN aggregator_fifo' = 1 .. Len(q)
        /\ \A i \in 1 .. Len(q) - 1 : aggregator_fifo'[i] = q[i + 1]
        /\ aggregator_fifo'[Len(q)].data = d
    BY <1>1, <2>1, <2>2, <2>3, AppendFacts
  <2>5. CASE k = Len(q)
    BY <1>2, <2>4, <2>5
  <2>6. CASE k # Len(q)
    <3>1. k \in 1 .. Len(q) - 1 /\ k + 1 \in DOMAIN q
      BY <1>1, <1>2, <2>4, <2>6
    <3> QED
      BY <1>2, <2>4, <3>1 DEF UrgentQueued, q
  <2> QED
    BY <2>5, <2>6
<1>4. CASE put_malloc(d)
  <2>1. PICK b \in free : aggregator_fifo' = Append(q, [blk |-> b, data |-> d])
    BY <1>4 DEF put_malloc
  <2> DEFINE e == [blk |-> b, data |-> d]
  <2>2. e \in fifo_entry /\ e.data = d
    BY DEF fifo_entry, AggInv, AggTypeOK
  <2> HIDE DEF e, q
  <2>3. /\ DOMAIN aggregator_fifo' = 1 .. Len(q) + 1
        /\ \A i \in 1 .. Len(q) : aggregator_fifo'[i] = q[i]
        /\ aggregator_fifo'[Len(q) + 1].data = d
    BY <1>1, <2>1, <2>2, AppendFacts DEF e
  <2>4. CASE k = Len(q) + 1
    BY <1>2, <2>3, <2>4
  <2>5. CASE k # Len(q) + 1
    <3>1. k \in DOMAIN q
      BY <1>1, <1>2, <2>3, <2>5
    <3> QED
      BY <1>1, <1>2, <2>3, <3>1 DEF UrgentQueued, q
  <2> QED
    BY <2>4, <2>5
<1>5. CASE put_enomem
  BY <1>5 DEF put_enomem, aggVars, UrgentQueued
<1> QED
  BY <1>3, <1>4, <1>5 DEF aggregator_put

\* No step of any thread leaves urgent data behind without an alarm.
LEMMA UrgentStep == GatewayInv /\ UrgentNeverForgotten /\ [Next]_vars => UrgentNeverForgotten'
<1> SUFFICES ASSUME GatewayInv, UrgentNeverForgotten, [Next]_vars, UrgentQueued'
             PROVE  (alarm_pending \/ bt_pc = "alarm" \/ main_pc \in {"clear", "get", "send"})'
  BY DEF UrgentNeverForgotten
<1>1. AggInv /\ gps_tag \in 0 .. TagModulus - 1
  BY DEF GatewayInv, TypeOK, AggInv
<1>2. UrgentQueued => alarm_pending \/ bt_pc = "alarm" \/ main_pc \in {"clear", "get", "send"}
  BY DEF UrgentNeverForgotten
<1>3. CASE on_received \/ on_received_button
  <2>1. PICK d \in Data : notify_put(d)
    BY <1>1, <1>3, StoredData DEF on_received, on_received_button
  <2>2. UrgentQueued \/ Urgent(d)
    BY <1>1, <2>1, PutUrgent DEF notify_put
  <2> QED
    BY <1>2, <2>1, <2>2 DEF notify_put, cloudVars
<1>4. CASE alarm
  BY <1>4 DEF alarm
<1>5. CASE gps_handler
  <2> DEFINE d == [type |-> "GPS_POSITION", val |-> NextTag(gps_tag)]
  <2>1. d \in Data /\ aggregator_put(d) /\ ~Urgent(d)
    BY <1>1, <1>5, StoredData DEF gps_handler, Urgent
  <2>2. UrgentQueued
    BY <1>1, <2>1, PutUrgent
  <2> QED
    BY <1>2, <1>5, <2>2 DEF gps_handler, cloudVars
<1>6. CASE nrf_cloud_process
  BY <1>2, <1>6 DEF nrf_cloud_process, MainGoes, sensorVars, UrgentQueued
<1>7. CASE test_alarm
  BY <1>2, <1>7 DEF test_alarm, MainGoes, sensorVars, UrgentQueued
<1>8. CASE clear_alarm
  BY <1>8 DEF clear_alarm, MainGoes
<1>9. CASE get_datum
  <2>1. CASE aggregator_fifo' = << >>
    BY <2>1 DEF UrgentQueued
  <2>2. CASE aggregator_fifo' # << >>
    BY <1>9, <2>2 DEF get_datum, MainGoes, aggVars
  <2> QED
    BY <2>1, <2>2
<1>10. CASE send_datum
  BY <1>10 DEF send_datum, MainGoes
<1>11. CASE CloudStep /\ UNCHANGED sensorVars
  <2>1. UrgentQueued /\ alarm_pending' = alarm_pending /\ bt_pc' = bt_pc
    BY <1>11 DEF sensorVars, UrgentQueued
  <2>2. main_pc' = main_pc \/ main_pc \in CloudMainPCs
    BY <1>11 DEF CloudStep, CloudMainPCs, cloud_connect_work, cloud_event_handler,
       main_start, main_connect_done, work_timeout, cloud_connect_skip, cloud_connect_enter,
       cloud_connect_done, evt_transport_connected, cancel_connect_work,
       evt_user_association_request, evt_user_associated, evt_ready,
       evt_transport_disconnected, schedule_reconnect
  <2> QED
    BY <1>2, <2>1, <2>2 DEF CloudMainPCs
<1>12. CASE error_handler
  BY <1>12 DEF error_handler, sensor_reset, UrgentQueued
<1>13. CASE UNCHANGED vars
  BY <1>2, <1>13 DEF vars, UrgentQueued
<1> QED
  BY <1>3, <1>4, <1>5, <1>6, <1>7, <1>8, <1>9, <1>10, <1>11, <1>12, <1>13
  DEF Next, BtRx, send_aggregated_data

\* No alarm is lost, whatever the interleaving of the Bluetooth thread, the
\* GPS thread and the main loop.
THEOREM AlarmNeverLost == Spec => []UrgentNeverForgotten
<1>1. Init => UrgentNeverForgotten
  BY DEF Init, AggInit, UrgentNeverForgotten, UrgentQueued
<1> QED
  BY <1>1, GatewayInit, GatewayTypeStep, UrgentStep, PTL DEF Spec

-----------------------------------------------------------------------------
(* Positions.                                                               *)

\* After a put an entry is one of the entries before it, all of them moved up by one place
\* or by none, or it is the last and holds the datum.
LEMMA PutShifts ==
  ASSUME AggInv, NEW d \in Data, aggregator_put(d)
  PROVE  /\ aggregator_fifo \in Seq(fifo_entry)
         /\ \E s \in {0, 1} : \A i \in DOMAIN aggregator_fifo' :
              \/ i + s \in DOMAIN aggregator_fifo /\ aggregator_fifo'[i] = aggregator_fifo[i + s]
              \/ /\ aggregator_fifo'[i].data = d
                 /\ \A j \in DOMAIN aggregator_fifo' : j <= i
<1> DEFINE q == aggregator_fifo
           Shifted(s) == \A i \in DOMAIN aggregator_fifo' :
              \/ i + s \in DOMAIN aggregator_fifo /\ aggregator_fifo'[i] = aggregator_fifo[i + s]
              \/ /\ aggregator_fifo'[i].data = d
                 /\ \A j \in DOMAIN aggregator_fifo' : j <= i
<1>1. q \in Seq(fifo_entry) /\ Len(q) \in Nat /\ DOMAIN q = 1 .. Len(q)
  BY DEF AggInv, AggTypeOK
<1>2. ASSUME put_reuse(d)
      PROVE  Shifted(1)
  <2> DEFINE e == [blk |-> Head(q).blk, data |-> d]
  <2>1. q # << >> /\ aggregator_fifo' = Append(Tail(q), e)
    BY <1>2 DEF put_reuse
  <2>2. /\ Tail(q) \in Seq(fifo_entry) /\ Len(Tail(q)) = Len(q) - 1 /\ Len(q) >= 1
        /\ \A i \in 1 .. Len(q) - 1 : Tail(q)[i] = q[i + 1]
        /\ Head(q) \in fifo_entry
    BY <1>1, <2>1, TailFacts
  <2>3. e \in fifo_entry /\ e.data = d
    BY <2>2 DEF fifo_entry
  <2> HIDE DEF e, q
  <2>4. /\ DOMAIN aggregator_fifo' = 1 .. Len(q)
        /\ \A i \in 1 .. Len(q) - 1 : aggregator_fifo'[i] = q[i + 1]
        /\ aggregator_fifo'[Len(q)].data = d
    BY <1>1, <2>1, <2>2, <2>3, AppendFacts
  <2>5. ASSUME NEW i \in DOMAIN aggregator_fifo'
        PROVE  \/ i + 1 \in DOMAIN aggregator_fifo
                  /\ aggregator_fifo'[i] = aggregator_fifo[i + 1]
               \/ /\ aggregator_fifo'[i].data = d
                  /\ \A j \in DOMAIN aggregator_fifo' : j <= i
    <3>1. Len(q) \in Nat /\ i \in 1 .. Len(q)
      BY <1>1, <2>4, <2>5
    <3>2. CASE i = Len(q)
      BY <2>4, <3>1, <3>2
    <3>3. CASE i # Len(q)
      <4>1. i \in 1 .. Len(q) - 1 /\ i + 1 \in 1 .. Len(q)
        <5> DEFINE n == Len(q)
        <5> HIDE DEF n
        <5>1. n \in Nat /\ i \in 1 .. n /\ i # n
          BY <3>1, <3>3, Zenon DEF n
        <5>2. i \in 1 .. n - 1 /\ i + 1 \in 1 .. n
          BY <5>1
        <5> QED
          BY <5>2, Zenon DEF n
      <4>2. DOMAIN q = 1 .. Len(q)
        BY <1>1
      <4>3. i + 1 \in DOMAIN q
        BY <4>1, <4>2, Zenon
      <4>4. aggregator_fifo'[i] = q[i + 1]
        BY <2>4, <4>1, Zenon
      <4> QED
        BY <4>3, <4>4, Zenon DEF q
    <3> QED
      BY <3>2, <3>3
  <2> QED
    BY <2>5
<1>3. ASSUME put_malloc(d)
      PROVE  Shifted(0)
  <2>1. PICK b \in free : aggregator_fifo' = Append(q, [blk |-> b, data |-> d])
    BY <1>3 DEF put_malloc
  <2> DEFINE e == [blk |-> b, data |-> d]
  <2>2. e \in fifo_entry /\ e.data = d
    BY DEF fifo_entry, AggInv, AggTypeOK
  <2> HIDE DEF e, q
  <2>3. /\ DOMAIN aggregator_fifo' = 1 .. Len(q) + 1
        /\ \A i \in 1 .. Len(q) : aggregator_fifo'[i] = q[i]
        /\ aggregator_fifo'[Len(q) + 1].data = d
    BY <1>1, <2>1, <2>2, AppendFacts DEF e
  <2>4. \A i \in 1 .. Len(q) + 1 : i = Len(q) + 1 \/ (i \in 1 .. Len(q) /\ i + 0 = i)
    BY <1>1
  <2> QED
    BY <1>1, <2>3, <2>4 DEF q
<1>4. ASSUME put_enomem
      PROVE  Shifted(0)
  BY <1>1, <1>4 DEF put_enomem, aggVars
<1>5. Shifted(0) \/ Shifted(1)
  BY <1>2, <1>3, <1>4 DEF aggregator_put
<1> QED
  BY <1>1, <1>5

\* Until the tag wraps around it is at most one ahead of the number of data received,
\* which is what makes it grow with every fix.
PositionsInv == /\ PositionsInOrder
                /\ notified < TagModulus - 1 => gps_tag \in 1 .. notified + 1

\* A put of one more datum keeps the order when a position carries the next tag.
LEMMA PutOrder ==
  ASSUME GatewayInv, PositionsInv, NEW d \in Data, aggregator_put(d),
         notified' = notified + 1, UNCHANGED << last_tag, aggregator_data >>,
         IsPosition(d) => d.val = gps_tag' /\ gps_tag' = NextTag(gps_tag),
         ~IsPosition(d) => gps_tag' = gps_tag
  PROVE  PositionsInv'
<1> SUFFICES ASSUME notified' < TagModulus - 1
             PROVE  PositionsInv'
  BY DEF PositionsInv, PositionsInOrder
<1>1. /\ notified \in Nat /\ notified < TagModulus - 1 /\ last_tag \in Nat /\ TagModulus \in Nat
      /\ gps_tag \in 1 .. notified + 1
  BY GatewayAssumption DEF GatewayInv, TypeOK, PositionsInv
<1>2. gps_tag' = IF IsPosition(d) THEN gps_tag + 1 ELSE gps_tag
  BY <1>1, GatewayAssumption DEF NextTag
<1>3. AggInv
  BY DEF GatewayInv, TypeOK, AggInv
<1> DEFINE q == aggregator_fifo
<1>4. PICK s \in {0, 1} : \A i \in DOMAIN q' :
         \/ i + s \in DOMAIN q /\ q'[i] = q[i + s]
         \/ q'[i].data = d /\ \A j \in DOMAIN q' : j <= i
  BY <1>3, PutShifts
<1>5. /\ DOMAIN q \subseteq Nat /\ DOMAIN q' \subseteq Nat
      /\ \A i \in DOMAIN q : q[i].data \in Data
  <2>1. AggInv'
    BY <1>3, AggStepInv DEF AggNext
  <2>2. q \in Seq(fifo_entry) /\ q' \in Seq(fifo_entry)
    BY <1>3, <2>1 DEF AggInv, AggTypeOK
  <2>3. \A e \in fifo_entry : e.data \in Data
    BY DEF fifo_entry
  <2> QED
    BY <2>2, <2>3
<1>6. \A e \in Data \cup {NoDatum} : IsPosition(e) => e.val \in Nat
  BY GatewayAssumption DEF IsPosition, NoDatum
<1>7. aggregator_data \in Data \cup {NoDatum}
  BY DEF GatewayInv, TypeOK
<1>8. /\ last_tag <= gps_tag
      /\ IsPosition(aggregator_data) =>
           last_tag < aggregator_data.val /\ aggregator_data.val <= gps_tag
      /\ \A i \in DOMAIN q : IsPosition(q[i].data) =>
           /\ last_tag < q[i].data.val
           /\ q[i].data.val <= gps_tag
           /\ IsPosition(aggregator_data) => aggregator_data.val < q[i].data.val
           /\ \A j \in DOMAIN q : j < i /\ IsPosition(q[j].data) => q[j].data.val < q[i].data.val
  BY <1>1 DEF PositionsInv, PositionsInOrder
<1> HIDE DEF q
<1>9. ASSUME NEW i \in DOMAIN q', IsPosition(q'[i].data)
      PROVE  /\ last_tag < q'[i].data.val
             /\ q'[i].data.val <= gps_tag'
             /\ IsPosition(aggregator_data) => aggregator_data.val < q'[i].data.val
             /\ \A j \in DOMAIN q' : j < i /\ IsPosition(q'[j].data) =>
                  q'[j].data.val < q'[i].data.val
  <2>1. CASE i + s \in DOMAIN q /\ q'[i] = q[i + s]
    <3>1. ASSUME NEW j \in DOMAIN q', j < i, IsPosition(q'[j].data)
          PROVE  q'[j].data.val < q'[i].data.val
      <4>1. j + s \in DOMAIN q /\ q'[j] = q[j + s] /\ j + s < i + s
        BY <1>4, <1>5, <3>1
      <4> QED
        BY <1>8, <1>9, <2>1, <3>1, <4>1
    <3> QED
      BY <1>1, <1>2, <1>5, <1>6, <1>8, <1>9, <2>1, <3>1
  <2>2. CASE q'[i].data = d /\ \A j \in DOMAIN q' : j <= i
    <3>1. IsPosition(d) /\ d.val = gps_tag + 1 /\ gps_tag' = gps_tag + 1
      BY <1>2, <1>9, <2>2
    <3>2. ASSUME NEW j \in DOMAIN q', j < i, IsPosition(q'[j].data)
          PROVE  q'[j].data.val < q'[i].data.val
      <4>1. j + s \in DOMAIN q /\ q'[j] = q[j + s]
        BY <1>4, <1>5, <3>2
      <4> QED
        BY <1>1, <1>5, <1>6, <1>8, <2>2, <3>1, <3>2, <4>1
    <3> QED
      BY <1>1, <1>6, <1>7, <1>8, <2>2, <3>1, <3>2
  <2> QED
    BY <1>4, <2>1, <2>2
<1> QED
  BY <1>1, <1>2, <1>6, <1>7, <1>8, <1>9 DEF PositionsInv, PositionsInOrder, q

\* No step of any thread sends, queues or reorders positions out of turn.
LEMMA PositionsStep == GatewayInv /\ PositionsInv /\ [Next]_vars => PositionsInv'
<1> SUFFICES ASSUME GatewayInv, PositionsInv, [Next]_vars
             PROVE  PositionsInv'
  OBVIOUS
<1>1. AggInv /\ gps_tag \in 0 .. TagModulus - 1
  BY DEF GatewayInv, TypeOK, AggInv
<1>2. CASE on_received \/ on_received_button
  <2>1. PICK d \in Data : notify_put(d) /\ ~IsPosition(d)
    BY <1>1, <1>2, StoredData DEF on_received, on_received_button, IsPosition
  <2> QED
    BY <2>1, PutOrder DEF notify_put
<1>3. CASE gps_handler
  <2> DEFINE d == [type |-> "GPS_POSITION", val |-> NextTag(gps_tag)]
  <2>1. d \in Data /\ aggregator_put(d) /\ IsPosition(d) /\ d.val = NextTag(gps_tag)
    BY <1>1, <1>3, StoredData DEF gps_handler, IsPosition
  <2> HIDE DEF d
  <2> QED
    BY <1>3, <2>1, PutOrder DEF gps_handler
<1>4. CASE UNCHANGED << aggregator_fifo, gps_tag, aggregator_data, last_tag, notified >>
  BY <1>4 DEF PositionsInv, PositionsInOrder
<1>5. CASE get_datum /\ aggregator_get
  <2>1. /\ aggregator_fifo \in Seq(fifo_entry) /\ aggregator_fifo # << >>
        /\ aggregator_fifo' = Tail(aggregator_fifo)
    BY <1>1, <1>5 DEF AggInv, AggTypeOK, aggregator_get
  <2>2. /\ DOMAIN aggregator_fifo = 1 .. Len(aggregator_fifo) /\ Len(aggregator_fifo) \in Nat \ {0}
        /\ DOMAIN aggregator_fifo' = 1 .. Len(aggregator_fifo) - 1
        /\ \A i \in DOMAIN aggregator_fifo' : aggregator_fifo'[i] = aggregator_fifo[i + 1]
        /\ aggregator_data' = aggregator_fifo[1].data
    BY <1>5, <2>1, TailFacts DEF get_datum, aggregator_get
  <2>3. \A i \in DOMAIN aggregator_fifo' : i + 1 \in DOMAIN aggregator_fifo /\ 1 < i + 1
    BY <2>2
  <2>4. 1 \in DOMAIN aggregator_fifo
        /\ \A i, j \in DOMAIN aggregator_fifo' : j < i => j + 1 < i + 1
    BY <2>2
  <2>5. UNCHANGED << gps_tag, last_tag, notified >>
    BY <1>5 DEF get_datum
  <2> QED
    BY <2>2, <2>3, <2>4, <2>5 DEF PositionsInv, PositionsInOrder
<1>6. CASE send_datum
  BY <1>6 DEF send_datum, aggVars, PositionsInv, PositionsInOrder, NoDatum, IsPosition
<1>7. CASE error_handler
  BY <1>7, GatewayAssumption DEF error_handler, sensor_reset, PositionsInv, PositionsInOrder,
     NoDatum, IsPosition
<1> QED
  BY <1>2, <1>3, <1>4, <1>5, <1>6, <1>7 DEF Next, BtRx, alarm, aggVars, nrf_cloud_process,
     sensorVars, send_aggregated_data, test_alarm, clear_alarm, get_datum, vars

\* Until the tag wraps around, positions leave sensor_data_send() in the order in which
\* gps_handler got the fixes and none of them twice, whatever is stored in between, given
\* up at the limit or refused.
THEOREM PositionsSentInOrder == Spec => []PositionsInOrder
<1>1. Init => PositionsInv
  BY GatewayAssumption DEF Init, AggInit, PositionsInv, PositionsInOrder, NoDatum, IsPosition
<1> QED
  BY <1>1, GatewayInit, GatewayTypeStep, PositionsStep, PTL DEF Spec, PositionsInv

-----------------------------------------------------------------------------
(* The cloud connection.                                                    *)

\* Before the main loop nothing is scheduled or connected, and the main thread
\* is in the second half of an event handler only with the flag it has set.
MainAgrees == /\ main_pc \in {"init", "connecting"} =>
                    ~cloud_connected /\ connect_work = {} /\ wq_pc = "idle"
              /\ main_pc = "cancel" => cloud_connected
              /\ main_pc = "schedule" => ~cloud_connected

\* A transport that is up has been reported to the application.
LinkReported == link \in {"up", "ready", "closing"} => cloud_connected

\* The work item's flags agree with where its handler is, and a handler that
\* still runs once the cancellation is through has been marked: this is why
\* its own k_work_schedule() at the end has no effect.
WorkAgrees == /\ "running" \in connect_work <=> wq_pc = "connecting"
              /\ "canceling" \in connect_work => "running" \in connect_work
              /\ cloud_connected /\ main_pc # "cancel" /\ "running" \in connect_work
                   => "canceling" \in connect_work

CloudInv == MainAgrees /\ LinkReported /\ WorkAgrees /\ SendOnlyWhenReady /\ ConnectedDisarms

\* Every step of the gateway keeps the invariant of the cloud connection.
LEMMA CloudInvStep == GatewayInv /\ CloudInv /\ [Next]_vars => CloudInv'
<1> SUFFICES ASSUME GatewayInv, CloudInv, [Next]_vars PROVE CloudInv'
  OBVIOUS
<1> USE DEF CloudInv, MainAgrees, LinkReported, WorkAgrees, SendOnlyWhenReady, ConnectedDisarms
<1>0. CloudTypeOK
  BY DEF GatewayInv, TypeOK
<1>1. CASE UNCHANGED cloudVars
  BY <1>1 DEF cloudVars
<1>2. CASE main_pc \in {"process", "test", "clear", "get", "send"}
           /\ main_pc' \in {"process", "test", "clear", "get", "send"}
           /\ MainGoes(main_pc')
  BY <1>2 DEF MainGoes
<1>3. CASE BtRx \/ gps_handler
  BY <1>1, <1>3 DEF BtRx, on_received, on_received_button, notify_put, alarm, gps_handler
<1>4. CASE nrf_cloud_process \/ send_aggregated_data
  BY <1>2, <1>4 DEF nrf_cloud_process, send_aggregated_data, test_alarm, clear_alarm,
     get_datum, send_datum, MainGoes
<1>5. CASE CloudStep
  <2>1. CASE main_start
    BY <2>1 DEF main_start, nrf_cloud_connect
  <2>2. CASE main_connect_done
    BY <2>2 DEF main_connect_done, k_work_schedule
  <2>3. CASE work_timeout
    BY <2>3 DEF work_timeout
  <2>4. CASE cloud_connect_skip
    BY <2>4 DEF cloud_connect_skip
  <2>5. CASE cloud_connect_enter
    BY <2>5 DEF cloud_connect_enter, nrf_cloud_connect
  <2>6. CASE cloud_connect_done
    BY <2>6 DEF cloud_connect_done, k_work_schedule
  <2>7. CASE evt_transport_connected
    BY <2>7 DEF evt_transport_connected
  <2>8. CASE cancel_connect_work
    BY <2>8 DEF cancel_connect_work, k_work_cancel_delayable
  <2>9. CASE evt_user_association_request
    BY <2>9 DEF evt_user_association_request
  <2>10. CASE evt_user_associated
    BY <1>0, <2>10 DEF evt_user_associated
  <2>11. CASE evt_ready
    BY <2>11 DEF evt_ready
  <2>12. CASE evt_transport_disconnected
    BY <2>12 DEF evt_transport_disconnected
  <2>13. CASE schedule_reconnect
    BY <2>13 DEF schedule_reconnect, k_work_schedule
  <2> QED
    BY <1>5, <2>1, <2>2, <2>3, <2>4, <2>5, <2>6, <2>7, <2>8, <2>9, <2>10, <2>11,
       <2>12, <2>13 DEF CloudStep, cloud_connect_work, cloud_event_handler
<1>6. CASE error_handler
  BY <1>6 DEF error_handler, sys_reboot
<1>7. CASE UNCHANGED vars
  BY <1>1, <1>7 DEF vars, cloudVars
<1> QED
  BY <1>3, <1>4, <1>5, <1>6, <1>7 DEF Next

\* The invariant of the cloud connection holds when the firmware starts.
LEMMA CloudInvInit == Init => CloudInv
  BY DEF Init, CloudInit, CloudInv, MainAgrees, LinkReported, WorkAgrees,
     SendOnlyWhenReady, ConnectedDisarms

\* Sensor data is handed to the cloud library only on a ready connection.
THEOREM SendsOnlyWhenReady == Spec => []SendOnlyWhenReady
<1>1. CloudInv => SendOnlyWhenReady
  BY DEF CloudInv
<1> QED
  BY <1>1, GatewayInit, GatewayTypeStep, CloudInvInit, CloudInvStep, PTL DEF Spec

\* What the comment in cloud_event_handler says of k_work_cancel_delayable().
THEOREM ConnectedNeverRetries == Spec => []ConnectedDisarms
<1>1. CloudInv => ConnectedDisarms
  BY DEF CloudInv
<1> QED
  BY <1>1, GatewayInit, GatewayTypeStep, CloudInvInit, CloudInvStep, PTL DEF Spec

\* An unconnected device loses its retry only through a cancelled handler.
THEOREM RetryOnlyCancelled == Spec => RetryLostOnlyByCancel
<1> DEFINE Lost == RetryArmed /\ ~RetryArmed' /\ ~cloud_connected' /\ main_pc' # "init"
<1>1. GatewayInv /\ CloudInv /\ [Next]_vars => [Lost => "canceling" \in connect_work]_cloudVars
  <2> SUFFICES ASSUME GatewayInv, CloudInv, [Next]_vars, Lost
               PROVE  "canceling" \in connect_work
    OBVIOUS
  <2> USE DEF CloudInv, MainAgrees, WorkAgrees, ConnectedDisarms, RetryArmed
  <2>1. connect_work' # connect_work
    OBVIOUS
  <2>2. CloudStep
    BY <2>1 DEF Next, BtRx, on_received, on_received_button, notify_put, alarm,
       gps_handler, nrf_cloud_process, send_aggregated_data, test_alarm, clear_alarm,
       get_datum, send_datum, error_handler, sys_reboot, MainGoes, cloudVars, vars
  <2>3. \/ main_connect_done \/ cloud_connect_work \/ cancel_connect_work
        \/ schedule_reconnect
    BY <2>1, <2>2 DEF CloudStep, cloud_event_handler, main_start, evt_transport_connected,
       evt_user_association_request, evt_user_associated, evt_ready,
       evt_transport_disconnected
  <2>4. CASE main_connect_done \/ schedule_reconnect
    BY <2>4 DEF main_connect_done, schedule_reconnect, k_work_schedule
  <2>5. CASE cancel_connect_work
    BY <2>5 DEF cancel_connect_work
  <2>6. CASE cloud_connect_work
    <3>1. CASE work_timeout \/ cloud_connect_skip \/ cloud_connect_enter
      BY <3>1 DEF work_timeout, cloud_connect_skip, cloud_connect_enter
    <3>2. CASE cloud_connect_done
      <4>1. connect_work \in SUBSET {"delayed", "queued", "running", "canceling"}
        BY DEF GatewayInv, TypeOK, CloudTypeOK, WorkFlags
      <4>2. connect_work \ {"running"} = {} => "delayed" \in connect_work'
        BY <3>2 DEF cloud_connect_done, k_work_schedule
      <4>3. "delayed" \in connect_work \/ "queued" \in connect_work
              => connect_work' \cap {"delayed", "queued"} # {}
        BY <3>2 DEF cloud_connect_done, k_work_schedule
      <4>4. "delayed" \notin connect_work' /\ "queued" \notin connect_work'
        OBVIOUS
      <4> QED
        BY <4>1, <4>2, <4>3, <4>4
    <3> QED
      BY <2>6, <3>1, <3>2 DEF cloud_connect_work
  <2> QED
    BY <2>3, <2>4, <2>5, <2>6
<1> QED
  BY <1>1, GatewayInit, GatewayTypeStep, CloudInvInit, CloudInvStep, PTL
  DEF Spec, RetryLostOnlyByCancel
=============================================================================
