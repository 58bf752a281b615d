----------------------------- MODULE LinkProofs -----------------------------
(***************************************************************************)
(* Lemmas about the small programs that keep a link.  Each program has an  *)
(* inductive invariant, which says what its callbacks, threads and work    *)
(* items know of each other; it is shown to hold in the first state        *)
(* (...Starts) and to be kept by every action of the program (...Step, or  *)
(* ...Typed for the types and ...Kept for the rest).  FirmwareProofs goes  *)
(* on with the other programs and puts them together.                      *)
(***************************************************************************)
EXTENDS Firmware, FiniteSetTheorems, NaturalsInduction, SequenceTheorems, WellFoundedInduction,
        TLAPS

-----------------------------------------------------------------------------
(* The Bluetooth side of the gateway (GatewayBle).                          *)

\* The types, and the search that goes on.
GbleInv == Gble!TypeOK /\ Gble!LinkKept

\* The start of the program.
LEMMA GbleStarts == Gble!Init => GbleInv
BY DEF GbleInv, Gble!TypeOK, Gble!LinkKept, Gble!Init, Gble!Boot

\* Every action keeps the invariant.
LEMMA GbleStep == ASSUME GbleInv, Gble!Next PROVE GbleInv'
<1> USE DEF GbleInv, Gble!TypeOK, Gble!LinkKept
<1>1. CASE Gble!ble_ready
  BY <1>1 DEF Gble!ble_ready, Gble!ScanStart
<1>2. CASE Gble!scan_connecting
  BY <1>2 DEF Gble!scan_connecting
<1>3. CASE Gble!scan_connecting_error
  BY <1>3 DEF Gble!scan_connecting_error
<1>4. CASE Gble!connected_error
  BY <1>4 DEF Gble!connected_error, Gble!ScanStart
<1>5. CASE Gble!connected_error_dk
  BY <1>5 DEF Gble!connected_error_dk
<1>6. CASE Gble!connected
  BY <1>6 DEF Gble!connected, Gble!DmStart
<1>7. CASE Gble!discovery_completed
  <2>1. PICK s \in {state.subscribed, state.subscribed \cup {"orientation"}} :
          \E d \in {"button", "none"} : state' = [state EXCEPT !.dm = d, !.subscribed = s]
    BY <1>7 DEF Gble!discovery_completed, Gble!DmStart
  <2>2. s \in SUBSET {"orientation", "button"}
    OBVIOUS
  <2> QED BY <2>1, <2>2
<1>8. CASE Gble!discovery_completed_button
  <2> DEFINE f == state.prog # "dk"
  <2>1. f \in BOOLEAN
    OBVIOUS
  <2>2. state.subscribed \cup {"button"} \in SUBSET {"orientation", "button"}
    OBVIOUS
  <2>3. CASE state' = [state EXCEPT !.dm = "none"]
    BY <2>3
  <2> HIDE DEF f
  <2>4. CASE state' = [state EXCEPT !.dm = "none", !.gButtonServiceFoundFlag = f]
    BY <2>1, <2>4
  <2>5. CASE state' = [state EXCEPT !.dm = "none", !.gButtonServiceFoundFlag = f,
                                    !.subscribed = @ \cup {"button"}]
    BY <2>1, <2>2, <2>5
  <2> QED BY <1>8, <2>3, <2>4, <2>5 DEF Gble!discovery_completed_button, f
<1>9. CASE Gble!discovery_service_not_found
  BY <1>9 DEF Gble!discovery_service_not_found
<1>10. CASE Gble!disconnected
  BY <1>10 DEF Gble!disconnected, Gble!ScanStart
<1>11. CASE Gble!link_lost_dk
  BY <1>11 DEF Gble!link_lost_dk
<1>12. CASE Gble!leds_update
  BY <1>12 DEF Gble!leds_update
<1> QED BY <1>1, <1>2, <1>3, <1>4, <1>5, <1>6, <1>7, <1>8, <1>9, <1>10, <1>11, <1>12
        DEF Gble!Next, Gble!Callback

-----------------------------------------------------------------------------
(* The advertising set of a distance node (DmNode).                         *)

\* The parameters follow the link, and so does a new set once no other is asked for.
DmnInv ==
  /\ Dmn!TypeOK /\ Dmn!AdvertisesAsLinked
  /\ state.adv_param = IF state.link THEN "noconn" ELSE "conn"
  /\ state.step = "start" /\ ~state.adv_work => state.new = state.adv_param

\* A call of adv_start() that fails.
LEMMA DmnFails == ASSUME DmnInv, Dmn!Fails PROVE DmnInv'
BY DEF DmnInv, Dmn!TypeOK, Dmn!AdvertisesAsLinked, Dmn!Modes, Dmn!Fails

\* The start of the program.
LEMMA DmnStarts == Dmn!Init => DmnInv
BY DEF DmnInv, Dmn!TypeOK, Dmn!AdvertisesAsLinked, Dmn!Modes, Dmn!Init

\* Every action keeps the invariant.
LEMMA DmnStep == ASSUME DmnInv, Dmn!Next PROVE DmnInv'
<1> USE DEF DmnInv, Dmn!TypeOK, Dmn!AdvertisesAsLinked, Dmn!Modes
<1>1. CASE Dmn!adv_stop
  <2> DEFINE begun == [state EXCEPT !.adv_work = FALSE]
  <2>1. CASE state' = [begun EXCEPT !.step = "create"]
    BY <1>1, <2>1 DEF Dmn!adv_stop
  <2>2. CASE state' = [begun EXCEPT !.step = "delete", !.on = "none"]
    BY <1>1, <2>2 DEF Dmn!adv_stop
  <2>3. CASE state' = [begun EXCEPT !.failed = TRUE]
    BY <1>1, <2>3 DEF Dmn!adv_stop
  <2> QED BY <1>1, <2>1, <2>2, <2>3 DEF Dmn!adv_stop
<1>2. CASE Dmn!adv_delete
  <2>1. CASE state' = [state EXCEPT !.adv = "dangling", !.step = "create"]
    BY <1>2, <2>1 DEF Dmn!adv_delete
  <2>2. CASE Dmn!Fails
    BY <2>2, DmnFails
  <2> QED BY <1>2, <2>1, <2>2 DEF Dmn!adv_delete
<1>3. CASE Dmn!adv_create
  <2>1. CASE state' = [state EXCEPT !.adv = "set", !.new = state.adv_param, !.step = "start"]
    BY <1>3, <2>1 DEF Dmn!adv_create
  <2>2. CASE Dmn!Fails
    BY <1>3, <2>2, DmnFails DEF Dmn!adv_create
  <2> QED BY <1>3, <2>1, <2>2 DEF Dmn!adv_create
<1>4. CASE Dmn!adv_start
  <2>1. CASE state' = [state EXCEPT !.on = state.new, !.step = "idle",
                                    !.pc = IF @ = "sync" THEN "scan" ELSE @]
    BY <1>4, <2>1 DEF Dmn!adv_start
  <2>2. CASE Dmn!Fails
    BY <2>2, DmnFails
  <2> QED BY <1>4, <2>1, <2>2 DEF Dmn!adv_start
<1>5. CASE Dmn!scan_start
  BY <1>5, ZenonT(60) DEF Dmn!scan_start
<1>6. CASE Dmn!connected
  BY <1>6 DEF Dmn!connected
<1>7. CASE Dmn!disconnected
  BY <1>7 DEF Dmn!disconnected
<1>8. CASE Dmn!scan_filter_match
  <2> DEFINE r == [role |-> "initiator", mode |-> state.ranging_mode]
  <2>1. state.requests \cup {r} \in SUBSET [role : {"initiator", "reflector"}, mode : Dmn!Modes]
    OBVIOUS
  <2> HIDE DEF r
  <2> QED BY <1>8, <2>1 DEF Dmn!scan_filter_match, r
<1>9. CASE Dmn!adv_scanned_cb
  <2> DEFINE r == [role |-> "reflector", mode |-> state.ranging_mode]
  <2>1. state.requests \cup {r} \in SUBSET [role : {"initiator", "reflector"}, mode : Dmn!Modes]
    OBVIOUS
  <2> HIDE DEF r
  <2> QED BY <1>9, <2>1 DEF Dmn!adv_scanned_cb, r
<1>10. CASE Dmn!data_ready
  BY <1>10 DEF Dmn!data_ready
<1>11. CASE Dmn!dm_ranging_mode_set
  BY <1>11 DEF Dmn!dm_ranging_mode_set
<1> QED BY <1>1, <1>2, <1>3, <1>4, <1>5, <1>6, <1>7, <1>8, <1>9, <1>10, <1>11
        DEF Dmn!Next, Dmn!adv_work_handle

-----------------------------------------------------------------------------
(* Peripherals that wait for one central (Peripherals).                     *)

\* A peripheral whose callbacks are not yet registered is the coded one.
PerRegisters ==
  state.pc = "register" =>
    /\ state.prog = "coded"
    /\ state.up \/ state.adv \/ state.work \/ state.failed \/ state.missed

\* The host advertises again by itself until it is told to stop.
PerPersists == state.pc = "loop" /\ state.prog \in Per!Button => state.persist \/ state.off

\* Between a notification and the store, the central knows what will be stored.
PerNotified ==
  state.sending # "no" /\ state.seen # "unread" /\ ~state.raced => state.seen = state.sending

PerLogic == Per!LinkKept /\ Per!ButtonSeen /\ PerRegisters /\ PerPersists /\ PerNotified

PerInv == Per!TypeOK /\ PerLogic

\* The start of the program.
LEMMA PerStarts == Per!Init => PerInv
BY DEF PerInv, PerLogic, Per!TypeOK, Per!Button, Per!ByWork, Per!LinkKept, Per!ButtonSeen,
   Per!State, PerRegisters, PerPersists, PerNotified, Per!Init, Per!Boot

\* Every action keeps the types.
LEMMA PerTyped == ASSUME Per!TypeOK, Per!Next PROVE Per!TypeOK'
<1> USE DEF Per!TypeOK, Per!Button, Per!ByWork
<1>1. CASE Per!main_lbs
  BY <1>1, ZenonT(60) DEF Per!main_lbs, Per!StartButton
<1>2. CASE Per!main_qspi
  BY <1>2 DEF Per!main_qspi, Per!StartButton
<1>3. CASE Per!main_nrf53
  BY <1>3, ZenonT(60) DEF Per!main_nrf53, Per!StartButton
<1>4. CASE Per!start_smp_bluetooth
  BY <1>4 DEF Per!start_smp_bluetooth
<1>5. CASE Per!bt_ready_coded
  BY <1>5, ZenonT(60) DEF Per!bt_ready_coded
<1>6. CASE Per!main_coded
  BY <1>6 DEF Per!main_coded
<1>7. CASE Per!main_limited
  BY <1>7, ZenonT(60) DEF Per!main_limited
<1>8. CASE Per!advertise
  <2>1. \/ state' = [state EXCEPT !.work = FALSE, !.adv = TRUE, !.persist = TRUE,
                                  !.failed = FALSE]
        \/ state' = [state EXCEPT !.work = FALSE, !.adv = FALSE, !.persist = FALSE,
                                  !.failed = TRUE]
    BY <1>8 DEF Per!advertise
  <2> QED BY <2>1, ZenonT(60)
<1>9. CASE Per!start_advertising_coded
  <2>1. \/ state' = [state EXCEPT !.work = FALSE, !.adv = TRUE, !.failed = FALSE]
        \/ state' = [state EXCEPT !.work = FALSE, !.adv = FALSE, !.failed = TRUE]
    BY <1>9 DEF Per!start_advertising_coded
  <2> QED BY <2>1, ZenonT(60)
<1>10. CASE Per!start_advertising
  <2>1. \/ state' = [state EXCEPT !.work = FALSE, !.adv = TRUE, !.failed = FALSE]
        \/ state' = [state EXCEPT !.work = FALSE, !.adv = FALSE, !.failed = TRUE]
    BY <1>10 DEF Per!start_advertising
  <2> QED BY <2>1, ZenonT(60)
<1>11. CASE Per!adv_sent
  BY <1>11 DEF Per!adv_sent
<1>12. CASE Per!adv_stop_qspi
  BY <1>12 DEF Per!adv_stop_qspi
<1>13. CASE Per!adv_stop_nrf53
  BY <1>13 DEF Per!adv_stop_nrf53
<1>14. CASE Per!connected_button
  BY <1>14 DEF Per!connected_button, Per!Up
<1>15. CASE Per!connected_smp
  BY <1>15 DEF Per!connected_smp, Per!Up
<1>16. CASE Per!connected_coded
  BY <1>16 DEF Per!connected_coded, Per!Up
<1>17. CASE Per!disconnected_button
  BY <1>17 DEF Per!disconnected_button
<1>18. CASE Per!disconnected_smp
  BY <1>18 DEF Per!disconnected_smp
<1>19. CASE Per!disconnected_coded
  <2> DEFINE w == state.work \/ state.registered
             m == ~state.registered
  <2>1. w \in BOOLEAN /\ m \in BOOLEAN
    OBVIOUS
  <2>2. state' = [state EXCEPT !.up = FALSE, !.default_conn = FALSE, !.work = w, !.missed = m]
    BY <1>19 DEF Per!disconnected_coded
  <2> HIDE DEF w, m
  <2> QED BY <2>1, <2>2, ZenonT(60)
<1>20. CASE Per!button_changed
  <2>1. PICK b \in {"pressed", "released"}, sent \in BOOLEAN :
          state' = [state EXCEPT !.sending = b, !.raced = ~sent, !.seen = IF sent THEN b ELSE @]
    BY <1>20 DEF Per!button_changed
  <2>2. CASE sent
    BY <2>1, <2>2
  <2>3. CASE ~sent
    BY <2>1, <2>3
  <2> QED BY <2>2, <2>3
<1>21. CASE Per!button_changed_end
  BY <1>21 DEF Per!button_changed_end
<1>22. CASE Per!app_button_cb
  BY <1>22 DEF Per!app_button_cb, Per!State
<1> QED BY <1>1, <1>2, <1>3, <1>4, <1>5, <1>6, <1>7, <1>8, <1>9, <1>10, <1>11, <1>12, <1>13,
         <1>14, <1>15, <1>16, <1>17, <1>18, <1>19, <1>20, <1>21, <1>22
        DEF Per!Next, Per!main, Per!Work, Per!Link, Per!Buttons

\* Every action keeps the rest of the invariant.
LEMMA PerKept == ASSUME PerInv, Per!Next PROVE PerLogic'
<1> USE DEF PerInv, PerLogic, Per!TypeOK, Per!Button, Per!ByWork, Per!LinkKept, Per!ButtonSeen,
         Per!State, PerRegisters, PerPersists, PerNotified
<1>1. CASE Per!main_lbs
  BY <1>1 DEF Per!main_lbs, Per!StartButton
<1>2. CASE Per!main_qspi
  BY <1>2 DEF Per!main_qspi, Per!StartButton
<1>3. CASE Per!main_nrf53
  BY <1>3 DEF Per!main_nrf53, Per!StartButton
<1>4. CASE Per!start_smp_bluetooth
  BY <1>4 DEF Per!start_smp_bluetooth
<1>5. CASE Per!bt_ready_coded
  BY <1>5 DEF Per!bt_ready_coded
<1>6. CASE Per!main_coded
  BY <1>6 DEF Per!main_coded
<1>7. CASE Per!main_limited
  BY <1>7 DEF Per!main_limited
<1>8. CASE Per!advertise
  BY <1>8 DEF Per!advertise
<1>9. CASE Per!start_advertising_coded
  BY <1>9 DEF Per!start_advertising_coded
<1>10. CASE Per!start_advertising
  BY <1>10 DEF Per!start_advertising
<1>11. CASE Per!adv_sent
  BY <1>11 DEF Per!adv_sent
<1>12. CASE Per!adv_stop_qspi
  BY <1>12 DEF Per!adv_stop_qspi
<1>13. CASE Per!adv_stop_nrf53
  BY <1>13 DEF Per!adv_stop_nrf53
<1>14. CASE Per!connected_button
  BY <1>14 DEF Per!connected_button, Per!Up
<1>15. CASE Per!connected_smp
  BY <1>15 DEF Per!connected_smp, Per!Up
<1>16. CASE Per!connected_coded
  BY <1>16 DEF Per!connected_coded, Per!Up
<1>17. CASE Per!disconnected_button
  BY <1>17 DEF Per!disconnected_button
<1>18. CASE Per!disconnected_smp
  BY <1>18 DEF Per!disconnected_smp
<1>19. CASE Per!disconnected_coded
  BY <1>19 DEF Per!disconnected_coded
<1>20. CASE Per!button_changed
  BY <1>20, ZenonT(60) DEF Per!button_changed
<1>21. CASE Per!button_changed_end
  BY <1>21 DEF Per!button_changed_end
<1>22. CASE Per!app_button_cb
  BY <1>22 DEF Per!app_button_cb
<1> QED BY <1>1, <1>2, <1>3, <1>4, <1>5, <1>6, <1>7, <1>8, <1>9, <1>10, <1>11, <1>12, <1>13,
         <1>14, <1>15, <1>16, <1>17, <1>18, <1>19, <1>20, <1>21, <1>22
        DEF Per!Next, Per!main, Per!Work, Per!Link, Per!Buttons

-----------------------------------------------------------------------------
(* The UART centrals (NusCentral).                                          *)

\* There is a buffer in the heap.
LEMMA HeapSize == Heap \in Nat /\ Heap > 0 /\ Packets \in Nat
BY FirmwareAssumption DEF FirmwareAssumption

\* A central that searches has no link, and nothing happens before main() is ready.
NuscIdle ==
  /\ state.scan => state.link = "none"
  /\ state.pc = "init" => ~state.ready
  /\ ~state.ready => /\ ~state.scan /\ state.link = "none" /\ state.rx = 0 /\ ~state.req
                     /\ state.queued = 0 /\ ~state.writing /\ state.tx = 0
                     /\ state.leaked = 0 /\ ~state.work

\* The buffers fit into the heap.
NuscHeap ==
  /\ state.req => state.rx = 1
  /\ state.rx + state.queued + Nusc!Bool(state.writing) + state.tx + state.leaked <= Heap

NuscLogic == Nusc!LinkKept /\ Nusc!ReceiverRetries /\ NuscIdle /\ NuscHeap

NuscInv == Nusc!TypeOK /\ NuscLogic

\* The start of the program.
LEMMA NuscStarts == Nusc!Init => NuscInv
BY HeapSize DEF NuscInv, NuscLogic, Nusc!TypeOK, Nusc!LinkKept, Nusc!ReceiverRetries, NuscIdle,
   NuscHeap, Nusc!Bool, Nusc!Init, Nusc!Boot

\* Every action keeps the types.
LEMMA NuscTyped == ASSUME NuscInv, Nusc!Next PROVE Nusc!TypeOK'
<1>0. Nusc!TypeOK
  BY DEF NuscInv
<1> USE <1>0, HeapSize DEF Nusc!TypeOK
<1>1. CASE Nusc!main_init
  <2>1. CASE state' =
          [state EXCEPT !.rx = 1, !.req = TRUE, !.scan = TRUE, !.pc = "get", !.ready = TRUE]
    BY <2>1, 1 \in 0 .. 2, Zenon
  <2>2. CASE state' = [state EXCEPT !.pc = "returned"]
    BY <2>2, 1 \in 0 .. 2, Zenon
  <2> QED BY <1>1, <2>1, <2>2 DEF Nusc!main_init
<1>2. CASE Nusc!scan_connecting
  BY <1>2 DEF Nusc!scan_connecting
<1>3. CASE Nusc!scan_connecting_error
  BY <1>3 DEF Nusc!scan_connecting_error
<1>4. CASE Nusc!connected_error
  <2>1. CASE state' =
          [[state EXCEPT !.link = "none", !.default_conn = FALSE] EXCEPT !.scan = TRUE]
    BY <2>1
  <2>2. CASE state' =
          [[state EXCEPT !.link = "none", !.default_conn = FALSE] EXCEPT !.failed = TRUE]
    BY <2>2
  <2> QED BY <1>4, <2>1, <2>2 DEF Nusc!connected_error, Nusc!ScanStart
<1>5. CASE Nusc!connected_discover
  <2>1. CASE state' = [state EXCEPT !.link = "up", !.failed = FALSE]
    BY <2>1
  <2>2. CASE state' = [[state EXCEPT !.link = "up", !.failed = FALSE] EXCEPT !.dm = TRUE]
    BY <2>2
  <2> QED BY <1>5, <2>1, <2>2 DEF Nusc!connected_discover, Nusc!gatt_discover
<1>6. CASE Nusc!connected_fixed
  BY <1>6 DEF Nusc!connected_fixed
<1>7. CASE Nusc!connected_throughput
  <2>1. CASE state' = [state EXCEPT !.link = "up", !.failed = FALSE, !.params = "init"]
    BY <2>1
  <2>2. CASE state' =
          [[state EXCEPT !.link = "up", !.failed = FALSE, !.params = "init"] EXCEPT !.dm = TRUE]
    BY <2>2
  <2> QED BY <1>7, <2>1, <2>2 DEF Nusc!connected_throughput, Nusc!gatt_discover
<1>8. CASE Nusc!security_changed
  <2>1. CASE state' = state
    BY <2>1
  <2>2. CASE state' = [state EXCEPT !.dm = TRUE]
    BY <2>2
  <2> QED BY <1>8, <2>1, <2>2 DEF Nusc!security_changed, Nusc!gatt_discover
<1>9. CASE Nusc!discovery_complete
  <2>1. CASE state' = [state EXCEPT !.dm = FALSE, !.client = "current"]
    BY <2>1
  <2>2. CASE state' = [state EXCEPT !.dm = FALSE]
    BY <2>2
  <2> QED BY <1>9, <2>1, <2>2 DEF Nusc!discovery_complete
<1>10. CASE Nusc!disconnected
  <2> DEFINE sem == state.nus_write_sem \/ state.writing
             client == IF state.client = "none" THEN "none" ELSE "old"
  <2>1. sem \in BOOLEAN /\ client \in {"none", "old", "current"}
    OBVIOUS
  <2>2. \/ state' = [state EXCEPT !.link = "none", !.default_conn = FALSE, !.dm = FALSE,
                       !.client = client, !.nus_write_sem = sem, !.writing = FALSE, !.scan = TRUE]
        \/ state' = [state EXCEPT !.link = "none", !.default_conn = FALSE, !.dm = FALSE,
                       !.client = client, !.nus_write_sem = sem, !.writing = FALSE,
                       !.failed = TRUE]
    BY <1>10 DEF Nusc!disconnected, Nusc!ScanStart
  <2> HIDE DEF sem, client
  <2>3. CASE state' = [state EXCEPT !.link = "none", !.default_conn = FALSE, !.dm = FALSE,
                         !.client = client, !.nus_write_sem = sem, !.writing = FALSE,
                         !.scan = TRUE]
    BY <2>1, <2>3, ZenonT(60)
  <2>4. CASE state' = [state EXCEPT !.link = "none", !.default_conn = FALSE, !.dm = FALSE,
                         !.client = client, !.nus_write_sem = sem, !.writing = FALSE,
                         !.failed = TRUE]
    BY <2>1, <2>4, ZenonT(60)
  <2> QED BY <2>2, <2>3, <2>4
<1>11. CASE Nusc!uart_rx_buf_request
  <2>1. PICK n \in 0 .. 2 : state' = [state EXCEPT !.req = FALSE, !.rx = n]
    <3>1. CASE Nusc!Free > 0
      BY <1>11, <3>1 DEF Nusc!uart_rx_buf_request
    <3>2. CASE ~(Nusc!Free > 0)
      BY <1>11, <3>2 DEF Nusc!uart_rx_buf_request
    <3> QED BY <3>1, <3>2
  <2> QED BY <2>1, Zenon
<1>12. CASE Nusc!uart_rx_rdy_full
  <2>0. state.queued + 1 \in 0 .. Heap
    BY <1>12 DEF NuscInv, NuscLogic, NuscHeap, Nusc!Bool, Nusc!uart_rx_rdy_full
  <2>1. CASE state' = [[state EXCEPT !.queued = @ + 1] EXCEPT !.rx = 1, !.req = TRUE]
    BY <2>0, <2>1, 1 \in 0 .. 2, Zenon
  <2>2. CASE state' =
          [[state EXCEPT !.queued = @ + 1] EXCEPT !.rx = 0, !.req = FALSE, !.work = TRUE]
    BY <2>0, <2>2, 0 \in 0 .. 2, Zenon
  <2> QED BY <1>12, <2>1, <2>2, Zenon DEF Nusc!uart_rx_rdy_full, Nusc!Enable
<1>13. CASE Nusc!uart_rx_rdy_line
  <2>0. state.queued + 1 \in 0 .. Heap
    BY <1>13 DEF NuscInv, NuscLogic, NuscHeap, Nusc!Bool, Nusc!uart_rx_rdy_line
  <2>1. CASE state' = [[state EXCEPT !.queued = @ + 1] EXCEPT !.rx = 1, !.req = TRUE]
    BY <2>0, <2>1, 1 \in 0 .. 2, Zenon
  <2>2. CASE state' =
          [[state EXCEPT !.queued = @ + 1] EXCEPT !.rx = 0, !.req = FALSE, !.work = TRUE]
    BY <2>0, <2>2, 0 \in 0 .. 2, Zenon
  <2> QED BY <1>13, <2>1, <2>2, Zenon DEF Nusc!uart_rx_rdy_line, Nusc!Enable
<1>14. CASE Nusc!uart_work_handler
  <2>1. CASE state' = [[state EXCEPT !.work = FALSE] EXCEPT !.rx = 1, !.req = TRUE]
    BY <2>1, 1 \in 0 .. 2, Zenon
  <2>2. CASE state' =
          [[state EXCEPT !.work = FALSE] EXCEPT !.rx = 0, !.req = FALSE, !.work = TRUE]
    BY <2>2, 0 \in 0 .. 2, Zenon
  <2> QED BY <1>14, <2>1, <2>2, Zenon DEF Nusc!uart_work_handler, Nusc!Enable
<1>15. CASE Nusc!ble_data_received
  <2>1. state.tx + 1 \in 0 .. Heap
    BY <1>15 DEF NuscInv, NuscLogic, NuscHeap, Nusc!Bool, Nusc!ble_data_received, Nusc!Free
  <2> QED BY <1>15, <2>1, Zenon DEF Nusc!ble_data_received
<1>16. CASE Nusc!uart_tx_done
  BY <1>16 DEF Nusc!uart_tx_done
<1>17. CASE Nusc!main_send
  <2>1. state.queued - 1 \in 0 .. Heap /\ state.leaked + 1 \in 0 .. Heap
    BY <1>17 DEF NuscInv, NuscLogic, NuscHeap, Nusc!Bool, Nusc!main_send
  <2>2. CASE state' = [state EXCEPT !.queued = @ - 1, !.writing = TRUE, !.pc = "wait"]
    BY <2>1, <2>2, Zenon
  <2>3. CASE state' = [state EXCEPT !.queued = @ - 1, !.leaked = @ + 1, !.pc = "wait"]
    BY <2>1, <2>3, ZenonT(60)
  <2> QED BY <1>17, <2>2, <2>3 DEF Nusc!main_send
<1>18. CASE Nusc!main_wait
  <2>1. CASE state' = [state EXCEPT !.nus_write_sem = FALSE, !.pc = "get"]
    BY <2>1
  <2>2. CASE state' = [state EXCEPT !.pc = "get"]
    BY <2>2
  <2> QED BY <1>18, <2>1, <2>2 DEF Nusc!main_wait
<1>19. CASE Nusc!ble_data_sent
  BY <1>19 DEF Nusc!ble_data_sent
<1>20. CASE Nusc!button_changed
  <2>1. CASE state' = [state EXCEPT !.nus_write_sem = TRUE]
    BY <2>1
  <2>2. CASE state' = [state EXCEPT !.fault = TRUE]
    BY <2>2
  <2>3. CASE state' = [state EXCEPT !.params = "scheduled"]
    BY <2>3
  <2> QED BY <1>20, <2>1, <2>2, <2>3 DEF Nusc!button_changed
<1>21. CASE Nusc!ble_params_update_work_handler
  BY <1>21 DEF Nusc!ble_params_update_work_handler
<1>22. CASE Nusc!ble_write_thread
  <2>1. 0 \in 0 .. Packets
    OBVIOUS
  <2> QED BY <1>22, <2>1, Zenon DEF Nusc!ble_write_thread
<1>23. CASE Nusc!throughput_data_send
  BY <1>23 DEF Nusc!throughput_data_send, Nusc!Accepts
<1> QED BY <1>1, <1>2, <1>3, <1>4, <1>5, <1>6, <1>7, <1>8, <1>9, <1>10, <1>11, <1>12, <1>13,
         <1>14, <1>15, <1>16, <1>17, <1>18, <1>19, <1>20, <1>21, <1>22, <1>23
        DEF Nusc!Next, Nusc!Link, Nusc!Uart, Nusc!Writer, Nusc!Throughput

\* Every action keeps the rest of the invariant.
LEMMA NuscKept == ASSUME NuscInv, Nusc!Next PROVE NuscLogic'
<1> USE HeapSize DEF NuscInv, NuscLogic, Nusc!TypeOK, Nusc!LinkKept, Nusc!ReceiverRetries,
         NuscIdle, NuscHeap, Nusc!Bool
<1>1. CASE Nusc!main_init
  <2>1. state.pc = "init"
    BY <1>1 DEF Nusc!main_init
  <2>2. CASE state' = [state EXCEPT !.rx = 1, !.req = TRUE, !.scan = TRUE, !.pc = "get",
                                    !.ready = TRUE]
    BY <2>1, <2>2
  <2>3. CASE state' = [state EXCEPT !.pc = "returned"]
    BY <2>3
  <2> QED BY <1>1, <2>2, <2>3 DEF Nusc!main_init
<1>2. CASE Nusc!scan_connecting
  BY <1>2 DEF Nusc!scan_connecting
<1>3. CASE Nusc!scan_connecting_error
  BY <1>3 DEF Nusc!scan_connecting_error
<1>4. CASE Nusc!connected_error
  BY <1>4, ZenonT(60) DEF Nusc!connected_error, Nusc!ScanStart
<1>5. CASE Nusc!connected_discover
  <2>1. state.link = "initiating"
    BY <1>5 DEF Nusc!connected_discover
  <2>2. CASE state' = [state EXCEPT !.link = "up", !.failed = FALSE]
    BY <2>1, <2>2
  <2>3. CASE state' = [[state EXCEPT !.link = "up", !.failed = FALSE] EXCEPT !.dm = TRUE]
    BY <2>1, <2>3
  <2> QED BY <1>5, <2>2, <2>3 DEF Nusc!connected_discover, Nusc!gatt_discover
<1>6. CASE Nusc!connected_fixed
  BY <1>6 DEF Nusc!connected_fixed
<1>7. CASE Nusc!connected_throughput
  <2>1. state.link = "initiating"
    BY <1>7 DEF Nusc!connected_throughput
  <2>2. CASE state' = [state EXCEPT !.link = "up", !.failed = FALSE, !.params = "init"]
    BY <2>1, <2>2
  <2>3. CASE state' =
          [[state EXCEPT !.link = "up", !.failed = FALSE, !.params = "init"] EXCEPT !.dm = TRUE]
    BY <2>1, <2>3
  <2> QED BY <1>7, <2>2, <2>3 DEF Nusc!connected_throughput, Nusc!gatt_discover
<1>8. CASE Nusc!security_changed
  BY <1>8 DEF Nusc!security_changed, Nusc!gatt_discover
<1>9. CASE Nusc!discovery_complete
  <2>1. CASE state' = [state EXCEPT !.dm = FALSE, !.client = "current"]
    BY <2>1
  <2>2. CASE state' = [state EXCEPT !.dm = FALSE]
    BY <2>2
  <2> QED BY <1>9, <2>1, <2>2 DEF Nusc!discovery_complete
<1>10. CASE Nusc!disconnected
  <2> DEFINE sem == state.nus_write_sem \/ state.writing
             client == IF state.client = "none" THEN "none" ELSE "old"
             down == [state EXCEPT !.link = "none", !.default_conn = FALSE, !.dm = FALSE,
                        !.client = client, !.nus_write_sem = sem, !.writing = FALSE]
  <2>1. state.link = "up"
    BY <1>10 DEF Nusc!disconnected
  <2>2. state' = [down EXCEPT !.scan = TRUE] \/ state' = [down EXCEPT !.failed = TRUE]
    BY <1>10 DEF Nusc!disconnected, Nusc!ScanStart
  <2> HIDE DEF sem, client
  <2>3. CASE state' = [down EXCEPT !.scan = TRUE]
    BY <2>1, <2>3
  <2>4. CASE state' = [down EXCEPT !.failed = TRUE]
    BY <2>1, <2>4
  <2> QED BY <2>2, <2>3, <2>4
<1>11. CASE Nusc!uart_rx_buf_request
  BY <1>11 DEF Nusc!uart_rx_buf_request, Nusc!Free
<1>12. CASE Nusc!uart_rx_rdy_full
  BY <1>12 DEF Nusc!uart_rx_rdy_full, Nusc!Enable, Nusc!Free
<1>13. CASE Nusc!uart_rx_rdy_line
  BY <1>13 DEF Nusc!uart_rx_rdy_line, Nusc!Enable, Nusc!Free
<1>14. CASE Nusc!uart_work_handler
  BY <1>14 DEF Nusc!uart_work_handler, Nusc!Enable, Nusc!Free
<1>15. CASE Nusc!ble_data_received
  BY <1>15 DEF Nusc!ble_data_received, Nusc!Free
<1>16. CASE Nusc!uart_tx_done
  BY <1>16 DEF Nusc!uart_tx_done
<1>17. CASE Nusc!main_send
  <2>1. state.queued > 0 /\ state.pc = "get"
    BY <1>17 DEF Nusc!main_send
  <2>2. CASE ~state.writing /\ state' = [state EXCEPT !.queued = @ - 1, !.writing = TRUE,
                                                      !.pc = "wait"]
    BY <2>1, <2>2
  <2>3. CASE state' = [state EXCEPT !.queued = @ - 1, !.leaked = @ + 1, !.pc = "wait"]
    BY <2>1, <2>3
  <2> QED BY <1>17, <2>2, <2>3 DEF Nusc!main_send, Nusc!Accepts
<1>18. CASE Nusc!main_wait
  BY <1>18, ZenonT(60) DEF Nusc!main_wait
<1>19. CASE Nusc!ble_data_sent
  BY <1>19 DEF Nusc!ble_data_sent
<1>20. CASE Nusc!button_changed
  BY <1>20 DEF Nusc!button_changed
<1>21. CASE Nusc!ble_params_update_work_handler
  BY <1>21 DEF Nusc!ble_params_update_work_handler
<1>22. CASE Nusc!ble_write_thread
  BY <1>22 DEF Nusc!ble_write_thread
<1>23. CASE Nusc!throughput_data_send
  BY <1>23 DEF Nusc!throughput_data_send, Nusc!Accepts
<1> QED BY <1>1, <1>2, <1>3, <1>4, <1>5, <1>6, <1>7, <1>8, <1>9, <1>10, <1>11, <1>12, <1>13,
         <1>14, <1>15, <1>16, <1>17, <1>18, <1>19, <1>20, <1>21, <1>22, <1>23
        DEF Nusc!Next, Nusc!Link, Nusc!Uart, Nusc!Writer, Nusc!Throughput

-----------------------------------------------------------------------------
(* The UART peripherals (NusPeripheral).                                    *)

\* A connection can be referred to.
LEMMA RefsSize == MaxRefs \in Nat /\ MaxRefs > 0 /\ Packets \in Nat
BY FirmwareAssumption DEF FirmwareAssumption

\* The advertiser runs only while no connection is held.
NuspAdvertises ==
  /\ state.pc # "running" => ~state.adv /\ ~state.link /\ state.refs = 0
  /\ state.adv => ~state.link /\ state.refs = 0

\* The connection the program holds is the one that is up, and every one that it holds
\* is counted in the object.
NuspHolds ==
  /\ state.link = state.current_conn
  /\ state.auth_conn => state.link
  /\ Nusp!Bool(state.current_conn) + Nusp!Bool(state.auth_conn) <= state.refs

NuspLogic == Nusp!LinkKept /\ Nusp!RefsKnown /\ NuspAdvertises /\ NuspHolds

NuspInv == Nusp!TypeOK /\ NuspLogic

\* The link is gone: what disconnected() leaves of the references, and of the advertiser.
LEMMA NuspReleases ==
  ASSUME Nusp!TypeOK, state.link, ~state.adv, state.pc = "running", Nusp!disconnected,
         state.refs \in Nat, state.refs >= 1 + Nusp!Bool(state.auth_conn)
  PROVE  \E adv, lost \in BOOLEAN, left \in Nat :
           /\ left = state.refs - 1 - Nusp!Bool(state.auth_conn)
           /\ adv <=> left = 0
           /\ state' = [state EXCEPT !.link = FALSE, !.confirm = FALSE, !.auth_conn = FALSE,
                           !.current_conn = FALSE, !.refs = left, !.adv = adv, !.lost = lost]
<1> DEFINE down == [state EXCEPT !.link = FALSE, !.confirm = FALSE, !.auth_conn = FALSE,
                                 !.current_conn = FALSE]
           n1 == state.refs - 1
           n2 == n1 - 1
           a1 == n1 = 0
           a2 == n2 = 0
<1>1. a1 \in BOOLEAN /\ a2 \in BOOLEAN
  OBVIOUS
<1>2. Nusp!Unref(down) = [down EXCEPT !.refs = n1, !.adv = a1]
  <2>1. down.adv = FALSE /\ down.refs = state.refs /\ ~down.link /\ down.pc = "running"
    BY DEF Nusp!TypeOK
  <2>2. (down.adv \/ (down.refs = 1 /\ ~down.link /\ down.pc = "running")) = a1
    BY <2>1
  <2> HIDE DEF down, a1
  <2> QED BY <2>1, <2>2 DEF Nusp!Unref
<1>4. CASE state.auth_conn
  <2> DEFINE auth == [down EXCEPT !.refs = n1, !.adv = a1]
  <2>1. ~a1 /\ n2 \in Nat
    BY <1>4 DEF Nusp!Bool
  <2>2. auth.adv = FALSE /\ auth.refs = n1 /\ ~auth.link /\ auth.pc = "running"
    BY <2>1 DEF Nusp!TypeOK
  <2>3. (auth.adv \/ (auth.refs = 1 /\ ~auth.link /\ auth.pc = "running")) = a2
    BY <2>1, <2>2
  <2>4. Nusp!Unref(auth) = [auth EXCEPT !.refs = n2, !.adv = a2]
    <3> HIDE DEF auth, a2
    <3> QED BY <2>2, <2>3 DEF Nusp!Unref
  <2>5. \/ state' = [auth EXCEPT !.refs = n2, !.adv = a2]
        \/ state' = [[auth EXCEPT !.refs = n2, !.adv = a2] EXCEPT !.lost = TRUE]
    BY <1>2, <2>4, <1>4, Zenon DEF Nusp!disconnected
  <2>6. PICK lost \in BOOLEAN :
          state' = [state EXCEPT !.link = FALSE, !.confirm = FALSE, !.auth_conn = FALSE,
                           !.current_conn = FALSE, !.refs = n2, !.adv = a2, !.lost = lost]
    <3> HIDE DEF n1, n2, a1, a2
    <3>1. CASE state' = [auth EXCEPT !.refs = n2, !.adv = a2]
      <4>1. state' = [state EXCEPT !.link = FALSE, !.confirm = FALSE, !.auth_conn = FALSE,
                        !.current_conn = FALSE, !.refs = n2, !.adv = a2, !.lost = state.lost]
        BY <3>1 DEF Nusp!TypeOK
      <4>2. state.lost \in BOOLEAN
        BY DEF Nusp!TypeOK
      <4> QED BY <4>1, <4>2
    <3>2. CASE state' = [[auth EXCEPT !.refs = n2, !.adv = a2] EXCEPT !.lost = TRUE]
      <4>1. state' = [state EXCEPT !.link = FALSE, !.confirm = FALSE, !.auth_conn = FALSE,
                        !.current_conn = FALSE, !.refs = n2, !.adv = a2, !.lost = TRUE]
        BY <3>2 DEF Nusp!TypeOK
      <4> QED BY <4>1
    <3> QED BY <2>5, <3>1, <3>2
  <2>7. n2 = state.refs - 1 - Nusp!Bool(state.auth_conn) /\ (a2 <=> n2 = 0)
    BY <1>4 DEF Nusp!Bool
  <2> HIDE DEF n2, a2, a1
  <2> QED BY <1>1, <2>1, <2>6, <2>7
<1>5. CASE ~state.auth_conn
  <2>1. \/ state' = [down EXCEPT !.refs = n1, !.adv = a1]
        \/ state' = [[down EXCEPT !.refs = n1, !.adv = a1] EXCEPT !.lost = TRUE]
    BY <1>2, <1>5, Zenon DEF Nusp!disconnected
  <2>2. PICK lost \in BOOLEAN :
          state' = [state EXCEPT !.link = FALSE, !.confirm = FALSE, !.auth_conn = FALSE,
                           !.current_conn = FALSE, !.refs = n1, !.adv = a1, !.lost = lost]
    <3> HIDE DEF n1, a1
    <3>1. CASE state' = [down EXCEPT !.refs = n1, !.adv = a1]
      <4>1. state' = [state EXCEPT !.link = FALSE, !.confirm = FALSE, !.auth_conn = FALSE,
                        !.current_conn = FALSE, !.refs = n1, !.adv = a1, !.lost = state.lost]
        BY <3>1 DEF Nusp!TypeOK
      <4>2. state.lost \in BOOLEAN
        BY DEF Nusp!TypeOK
      <4> QED BY <4>1, <4>2
    <3>2. CASE state' = [[down EXCEPT !.refs = n1, !.adv = a1] EXCEPT !.lost = TRUE]
      <4>1. state' = [state EXCEPT !.link = FALSE, !.confirm = FALSE, !.auth_conn = FALSE,
                        !.current_conn = FALSE, !.refs = n1, !.adv = a1, !.lost = TRUE]
        BY <3>2 DEF Nusp!TypeOK
      <4> QED BY <4>1
    <3> QED BY <2>1, <3>1, <3>2
  <2>3. n1 = state.refs - 1 - Nusp!Bool(state.auth_conn) /\ (a1 <=> n1 = 0) /\ n1 \in Nat
    BY <1>5 DEF Nusp!Bool
  <2> HIDE DEF n1, a1
  <2> QED BY <1>1, <2>2, <2>3
<1> QED BY <1>4, <1>5

\* The start of the program.
LEMMA NuspStarts == Nusp!Init => NuspInv
BY RefsSize DEF NuspInv, NuspLogic, Nusp!TypeOK, Nusp!Progs, Nusp!WithPairing, Nusp!LinkKept,
   Nusp!RefsKnown, Nusp!Bool, NuspAdvertises, NuspHolds, Nusp!Init, Nusp!Boot

\* Every action keeps the types.
LEMMA NuspTyped == ASSUME NuspInv, Nusp!Next PROVE Nusp!TypeOK'
<1>0. Nusp!TypeOK
  BY DEF NuspInv
<1> USE <1>0, RefsSize DEF Nusp!TypeOK, Nusp!Progs, Nusp!WithPairing
<1>1. CASE Nusp!main_init
  BY <1>1 DEF Nusp!main_init
<1>2. CASE Nusp!main_adv
  <2>1. CASE state' = [state EXCEPT !.adv = TRUE, !.pc = "running"]
    BY <2>1, Zenon
  <2>2. CASE state' = [state EXCEPT !.pc = "error"]
    BY <2>2, Zenon
  <2> QED BY <1>2, <2>1, <2>2 DEF Nusp!main_adv
<1>3. CASE Nusp!connected
  <2>1. state.refs + 1 \in 0 .. MaxRefs
    BY <1>3 DEF NuspInv, NuspLogic, NuspAdvertises, Nusp!connected
  <2> QED BY <1>3, <2>1, Zenon DEF Nusp!connected
<1>4. CASE Nusp!connected_throughput
  <2>1. state.refs + 1 \in 0 .. MaxRefs
    BY <1>4 DEF NuspInv, NuspLogic, NuspAdvertises, Nusp!connected_throughput
  <2> QED BY <1>4, <2>1, Zenon DEF Nusp!connected_throughput
<1>5. CASE Nusp!auth_passkey_confirm
  <2> DEFINE twice == state.twice \/ state.auth_conn
  <2>1. state.refs + 1 \in 0 .. MaxRefs /\ twice \in BOOLEAN
    BY <1>5 DEF Nusp!auth_passkey_confirm
  <2>2. state' = [state EXCEPT !.confirm = TRUE, !.auth_conn = TRUE, !.refs = @ + 1,
                               !.twice = twice]
    BY <1>5 DEF Nusp!auth_passkey_confirm
  <2> HIDE DEF twice
  <2> QED BY <2>1, <2>2, Zenon
<1>6. CASE Nusp!auth_cancel
  BY <1>6 DEF Nusp!auth_cancel
<1>7. CASE Nusp!disconnected
  <2>1. /\ state.link /\ ~state.adv /\ state.pc = "running" /\ state.refs \in Nat
        /\ state.refs >= 1 + Nusp!Bool(state.auth_conn)
    BY <1>7 DEF NuspInv, NuspLogic, NuspHolds, NuspAdvertises, Nusp!Bool, Nusp!disconnected
  <2>2. PICK adv \in BOOLEAN, lost \in BOOLEAN, left \in Nat :
           /\ left = state.refs - 1 - Nusp!Bool(state.auth_conn)
           /\ adv <=> left = 0
           /\ state' = [state EXCEPT !.link = FALSE, !.confirm = FALSE, !.auth_conn = FALSE,
                           !.current_conn = FALSE, !.refs = left, !.adv = adv, !.lost = lost]
    BY <1>7, <2>1, NuspReleases
  <2>3. left \in 0 .. MaxRefs
    BY <2>1, <2>2 DEF Nusp!Bool
  <2>4. state' = [state EXCEPT !.link = FALSE, !.confirm = FALSE, !.auth_conn = FALSE,
                       !.current_conn = FALSE, !.refs = left, !.adv = adv, !.lost = lost]
    BY <2>2
  <2> QED BY <2>3, <2>4, ZenonT(60)
<1>8. CASE Nusp!button_changed
  BY <1>8 DEF Nusp!button_changed
<1>9. CASE Nusp!num_comp_reply
  BY <1>9, ZenonT(60) DEF Nusp!num_comp_reply
<1>10. CASE Nusp!num_comp_reply_end
  <2> DEFINE adv == state.adv \/ (state.refs = 1 /\ ~state.link /\ state.pc = "running")
  <2>1. adv \in BOOLEAN
    OBVIOUS
  <2>2. CASE state.auth_conn
    <3>1. state.refs - 1 \in 0 .. MaxRefs
      BY <2>2 DEF NuspInv, NuspLogic, NuspHolds, Nusp!Bool
    <3>2. state' = [state EXCEPT !.reply = "none", !.auth_conn = FALSE, !.refs = @ - 1,
                                 !.adv = adv]
      BY <1>10, <2>2 DEF Nusp!num_comp_reply_end, Nusp!Unref
    <3> HIDE DEF adv
    <3> QED BY <2>1, <3>1, <3>2, Zenon
  <2>3. CASE ~state.auth_conn
    BY <1>10, <2>3 DEF Nusp!num_comp_reply_end
  <2> QED BY <2>2, <2>3
<1>11. CASE Nusp!button_changed_throughput
  <2>1. CASE state' = [state EXCEPT !.throughput_sem = TRUE]
    BY <2>1, Zenon
  <2>2. CASE state' = [state EXCEPT !.fault = TRUE]
    BY <2>2, Zenon
  <2>3. CASE state' = [state EXCEPT !.params = "scheduled"]
    BY <2>3, Zenon
  <2> QED BY <1>11, <2>1, <2>2, <2>3 DEF Nusp!button_changed_throughput
<1>12. CASE Nusp!ble_params_update_work_handler
  BY <1>12 DEF Nusp!ble_params_update_work_handler
<1>13. CASE Nusp!ble_write_thread
  <2>1. 0 \in 0 .. Packets
    OBVIOUS
  <2> QED BY <1>13, <2>1, Zenon DEF Nusp!ble_write_thread
<1>14. CASE Nusp!throughput_data_send
  BY <1>14 DEF Nusp!throughput_data_send
<1>15. CASE Nusp!bt_sent_cb
  BY <1>15 DEF Nusp!bt_sent_cb
<1> QED BY <1>1, <1>2, <1>3, <1>4, <1>5, <1>6, <1>7, <1>8, <1>9, <1>10, <1>11, <1>12, <1>13,
         <1>14, <1>15
        DEF Nusp!Next, Nusp!Bluetooth, Nusp!Buttons, Nusp!Burst

\* Every action keeps the rest of the invariant.
LEMMA NuspKept == ASSUME NuspInv, Nusp!Next PROVE NuspLogic'
<1> USE RefsSize DEF NuspInv, NuspLogic, Nusp!TypeOK, Nusp!Progs, Nusp!WithPairing, Nusp!LinkKept,
         Nusp!RefsKnown, Nusp!Bool, NuspAdvertises, NuspHolds
<1>1. CASE Nusp!main_init
  BY <1>1 DEF Nusp!main_init
<1>2. CASE Nusp!main_adv
  BY <1>2 DEF Nusp!main_adv
<1>3. CASE Nusp!connected
  BY <1>3 DEF Nusp!connected
<1>4. CASE Nusp!connected_throughput
  BY <1>4 DEF Nusp!connected_throughput
<1>5. CASE Nusp!auth_passkey_confirm
  <2> DEFINE twice == state.twice \/ state.auth_conn
  <2>1. state.link /\ state.current_conn /\ ~state.adv /\ twice \in BOOLEAN
    BY <1>5 DEF Nusp!auth_passkey_confirm
  <2>2. state' = [state EXCEPT !.confirm = TRUE, !.auth_conn = TRUE, !.refs = @ + 1,
                               !.twice = twice]
    BY <1>5 DEF Nusp!auth_passkey_confirm
  <2>3. CASE state.auth_conn
    <3>1. twice = TRUE
      BY <2>3
    <3> HIDE DEF twice
    <3> QED BY <2>1, <2>2, <2>3, <3>1
  <2>4. CASE ~state.auth_conn
    <3>1. twice = state.twice
      BY <2>4
    <3> HIDE DEF twice
    <3> QED BY <2>1, <2>2, <2>4, <3>1
  <2> QED BY <2>3, <2>4
<1>6. CASE Nusp!auth_cancel
  BY <1>6 DEF Nusp!auth_cancel
<1>7. CASE Nusp!disconnected
  <2>1. /\ state.link /\ ~state.adv /\ state.pc = "running" /\ state.refs \in Nat
        /\ state.refs >= 1 + Nusp!Bool(state.auth_conn)
    BY <1>7 DEF NuspInv, NuspLogic, NuspHolds, NuspAdvertises, Nusp!Bool, Nusp!disconnected
  <2>2. PICK adv \in BOOLEAN, lost \in BOOLEAN, left \in Nat :
           /\ left = state.refs - 1 - Nusp!Bool(state.auth_conn)
           /\ adv <=> left = 0
           /\ state' = [state EXCEPT !.link = FALSE, !.confirm = FALSE, !.auth_conn = FALSE,
                           !.current_conn = FALSE, !.refs = left, !.adv = adv, !.lost = lost]
    BY <1>7, <2>1, NuspReleases
  <2>3. state.twice \/ left = 0
    BY <2>1, <2>2
  <2> QED BY <2>1, <2>2, <2>3
<1>8. CASE Nusp!button_changed
  BY <1>8 DEF Nusp!button_changed
<1>9. CASE Nusp!num_comp_reply
  BY <1>9 DEF Nusp!num_comp_reply
<1>10. CASE Nusp!num_comp_reply_end
  BY <1>10 DEF Nusp!num_comp_reply_end, Nusp!Unref
<1>11. CASE Nusp!button_changed_throughput
  BY <1>11 DEF Nusp!button_changed_throughput
<1>12. CASE Nusp!ble_params_update_work_handler
  BY <1>12 DEF Nusp!ble_params_update_work_handler
<1>13. CASE Nusp!ble_write_thread
  BY <1>13 DEF Nusp!ble_write_thread
<1>14. CASE Nusp!throughput_data_send
  BY <1>14 DEF Nusp!throughput_data_send
<1>15. CASE Nusp!bt_sent_cb
  BY <1>15 DEF Nusp!bt_sent_cb
<1> QED BY <1>1, <1>2, <1>3, <1>4, <1>5, <1>6, <1>7, <1>8, <1>9, <1>10, <1>11, <1>12, <1>13,
         <1>14, <1>15
        DEF Nusp!Next, Nusp!Bluetooth, Nusp!Buttons, Nusp!Burst

-----------------------------------------------------------------------------
(* The two boards of the throughput test (FlashThroughput).                 *)

\* What the link of the two boards consists of.
ThrShape ==
  /\ {"role", "search", "failed", "conn"} \subseteq DOMAIN state
  /\ state.role \in [Thr!Boards -> BOOLEAN] /\ state.search \in [Thr!Boards -> BOOLEAN]
  /\ state.failed \in [Thr!Boards -> BOOLEAN]
  /\ state.conn \in [Thr!Boards -> {"none", "new", "up"}]

\* The link of the two boards.
ThrLink == ThrShape /\ Thr!LinkKept

\* The start of the program, for its link.
LEMMA ThrLinkStarts == Thr!Init => ThrLink
BY DEF ThrLink, ThrShape, Thr!LinkKept, Thr!Boards, Thr!Init, Thr!Off

\* Every action keeps the link.
LEMMA ThrLinkStep == ASSUME ThrLink, Thr!Next PROVE ThrLink'
<1> USE DEF ThrLink, ThrShape, Thr!LinkKept, Thr!Boards
<1>1. CASE Thr!button_handler_cb
  <2>1. PICK b \in Thr!Boards : state' \in Thr!Search([state EXCEPT !.role[b] = TRUE], b)
    BY <1>1 DEF Thr!button_handler_cb
  <2> DEFINE mid == [state EXCEPT !.role[b] = TRUE]
  <2>2. /\ {"role", "search", "failed", "conn"} \subseteq DOMAIN mid
        /\ mid.role \in [Thr!Boards -> BOOLEAN] /\ mid.search = state.search
        /\ mid.failed = state.failed /\ mid.conn \in [Thr!Boards -> {"none", "new", "up"}]
        /\ \A c \in Thr!Boards : c # b =>
             mid.role[c] = state.role[c] /\ mid.conn[c] = state.conn[c]
    OBVIOUS
  <2> HIDE DEF mid
  <2>3. CASE state' = [mid EXCEPT !.search[b] = TRUE]
    BY <2>2, <2>3
  <2>4. CASE state' = [mid EXCEPT !.failed[b] = TRUE]
    BY <2>2, <2>4
  <2> QED BY <2>1, <2>3, <2>4 DEF Thr!Search, mid
<1>2. CASE Thr!establish
  BY <1>2 DEF Thr!establish, Thr!Off
<1>3. CASE Thr!scan_connecting_error
  BY <1>3 DEF Thr!scan_connecting_error
<1>4. CASE Thr!connected
  BY <1>4 DEF Thr!connected
<1>5. CASE Thr!discovery_complete
  BY <1>5 DEF Thr!discovery_complete
<1>6. CASE Thr!discovery_service_not_found
  BY <1>6 DEF Thr!discovery_service_not_found
<1>7. CASE Thr!exchange_func
  BY <1>7 DEF Thr!exchange_func
<1>8. CASE Thr!link_lost
  BY <1>8 DEF Thr!link_lost
<1>9. CASE Thr!disconnected
  <2>1. PICK b \in Thr!Boards : state' \in Thr!Search([state EXCEPT
            !.conn[b] = "none", !.default_conn[b] = FALSE,
            !.dm = IF b = "tester" THEN "none" ELSE @,
            !.test_ready = IF b = "tester" THEN FALSE ELSE @], b)
    BY <1>9 DEF Thr!disconnected
  <2> DEFINE mid == [state EXCEPT
            !.conn[b] = "none", !.default_conn[b] = FALSE,
            !.dm = IF b = "tester" THEN "none" ELSE @,
            !.test_ready = IF b = "tester" THEN FALSE ELSE @]
  <2>2. /\ {"role", "search", "failed", "conn"} \subseteq DOMAIN mid
        /\ mid.role \in [Thr!Boards -> BOOLEAN] /\ mid.search = state.search
        /\ mid.failed = state.failed /\ mid.conn \in [Thr!Boards -> {"none", "new", "up"}]
        /\ \A c \in Thr!Boards : c # b =>
             mid.role[c] = state.role[c] /\ mid.conn[c] = state.conn[c]
    OBVIOUS
  <2> HIDE DEF mid
  <2>3. CASE state' = [mid EXCEPT !.search[b] = TRUE]
    BY <2>2, <2>3
  <2>4. CASE state' = [mid EXCEPT !.failed[b] = TRUE]
    BY <2>2, <2>4
  <2> QED BY <2>1, <2>3, <2>4 DEF Thr!Search, mid
<1>10. CASE Thr!config
  BY <1>10 DEF Thr!config, Thr!At
<1>11. CASE Thr!test_run
  BY <1>11 DEF Thr!test_run, Thr!At, Thr!Goto
<1>12. CASE Thr!connection_configuration_set
  BY <1>12 DEF Thr!connection_configuration_set, Thr!Request, Thr!Wait, Thr!Skip, Thr!At,
     Thr!Returns, Thr!Goto
<1>13. CASE Thr!le_param_updated
  BY <1>13 DEF Thr!le_param_updated, Thr!Give
<1>14. CASE Thr!le_data_length_updated
  BY <1>14 DEF Thr!le_data_length_updated, Thr!Give
<1>15. CASE Thr!test_write
  BY <1>15 DEF Thr!test_write, Thr!At, Thr!Returns, Thr!Goto
<1>16. CASE Thr!test_read
  BY <1>16 DEF Thr!test_read, Thr!At, Thr!Returns, Thr!Goto
<1>17. CASE Thr!throughput_read
  BY <1>17 DEF Thr!throughput_read, Thr!At, Thr!Give
<1>18. CASE Thr!test_end
  BY <1>18 DEF Thr!test_end, Thr!At, Thr!Returns, Thr!Goto
<1>19. CASE Thr!write_callback
  BY <1>19 DEF Thr!write_callback
<1>20. CASE Thr!receive_message
  BY <1>20 DEF Thr!receive_message
<1>21. CASE Thr!endpoint_cb
  BY <1>21 DEF Thr!endpoint_cb, Thr!Give
<1>22. CASE Thr!app_bound
  BY <1>22 DEF Thr!app_bound, Thr!Ack, Thr!Give
<1>23. CASE Thr!app_write
  BY <1>23 DEF Thr!app_write
<1>24. CASE Thr!app_ack
  BY <1>24 DEF Thr!app_ack, Thr!Ack, Thr!Give
<1> QED BY <1>1, <1>2, <1>3, <1>4, <1>5, <1>6, <1>7, <1>8, <1>9, <1>10, <1>11, <1>12, <1>13,
         <1>14, <1>15, <1>16, <1>17, <1>18, <1>19, <1>20, <1>21, <1>22, <1>23, <1>24
        DEF Thr!Next, Thr!Link, Thr!Shell, Thr!Peer, Thr!app_task

\* The values of the fields, and the records of the program.
ThrFlags == [Thr!Boards -> BOOLEAN]
ThrConns == [Thr!Boards -> {"none", "new", "up"}]
ThrLosses == 0 .. MaxLosses
ThrDms == {"none", "discover", "mtu"}
ThrRuns == {"idle", "phy", "phy_wait", "len", "len_wait", "interval", "interval_wait", "write",
            "read", "result"}
ThrDiffers == SUBSET {"len", "interval"}
ThrSems == 0 .. 1
ThrNexts == 0 .. Last + 1
ThrBlocks == 0 .. Last
ThrQueues == Seq(0 .. Last)
ThrCounts == Nat
ThrNets == {"idle", "receive"}
ThrApps == {"binding", "wait", "ready", "ack", "again", "ended"}

\* The records of the program.
ThrRecord ==
  [role : ThrFlags, search : ThrFlags, failed : ThrFlags, link : BOOLEAN, conn : ThrConns,
   default_conn : ThrFlags, losses : ThrLosses, dm : ThrDms, test_ready : BOOLEAN,
   throughput_conn : BOOLEAN, run : ThrRuns, differs : ThrDiffers, data_length_req : BOOLEAN,
   throughput_sem : ThrSems, next : ThrNexts, air : ThrQueues, write_count : ThrCounts,
   fault : BOOLEAN, sent : ThrQueues, net : ThrNets, data_rx_sem : ThrSems, vring : ThrQueues,
   app : ThrApps, received_data : ThrBlocks, app_sem : ThrSems, written : ThrQueues]

\* The test is over when the last block was tried.
ThrOrder(u) == u.next > Last => u.run \in {"idle", "read", "result"}

\* What was sent and not yet acknowledged, with the message that app_task sends first.
ThrOne(p) == IF p THEN 1 ELSE 0

\* The gap between the blocks sent and those written.
ThrGap(sent, sem, app, written, net) ==
  sent + sem + ThrOne(app = "binding") + ThrOne(app \in {"ack", "ended"})
    <= written + 1 + ThrOne(net = "receive")

\* The gap in a record of the program.
ThrWindow(u) == ThrGap(Len(u.sent), u.data_rx_sem, u.app, Len(u.written), u.net)

\* The inductive invariant.
ThrInv == state \in ThrRecord /\ ThrOrder(state) /\ ThrWindow(state) /\ Thr!LinkKept

\* What is assumed of the blocks and of the losses.
LEMMA ThrSize == Last \in Nat \ {0} /\ MaxLosses \in Nat
BY FirmwareAssumption DEF FirmwareAssumption

\* What the link needs of the record.
LEMMA ThrShaped == state \in ThrRecord => ThrShape
BY DEF ThrRecord, ThrFlags, ThrConns, ThrShape

\* How the gap moves: with a block, its acknowledgement and each step of app_task.
LEMMA ThrGaps ==
  ASSUME NEW sent \in Nat, NEW written \in Nat, NEW sem \in 0 .. 1, NEW app, NEW net,
         ThrGap(sent, sem, app, written, net)
  PROVE  /\ sent <= written + 2
         /\ net = "idle" => ThrGap(sent + 1, sem, app, written, "receive")
         /\ net = "receive" /\ sem = 1 => ThrGap(sent, 0, app, written, "idle")
         /\ app = "wait" => ThrGap(sent, sem, "ready", written, net)
         /\ \A to \in {"wait", "again"} :
              app \in {"binding", "ack"} => ThrGap(sent, 1, to, written, net)
         /\ \A to \in {"ack", "ended"} :
              app \in {"ready", "again"} => ThrGap(sent, sem, to, written + 1, net)
BY DEF ThrGap, ThrOne

\* The invariant says what the run checks.
LEMMA ThrSound == ThrInv => Thr!TypeOK /\ Thr!WindowOfTwo
<1> SUFFICES ASSUME ThrInv PROVE Thr!TypeOK /\ Thr!WindowOfTwo
  OBVIOUS
<1>0. state \in ThrRecord /\ ThrWindow(state)
  BY DEF ThrInv
<1>1. /\ state.run \in ThrRuns /\ state.app \in ThrApps /\ state.net \in ThrNets
      /\ state.dm \in ThrDms /\ state.throughput_sem \in ThrSems /\ state.data_rx_sem \in ThrSems
      /\ state.app_sem \in ThrSems /\ state.air \in ThrQueues /\ state.vring \in ThrQueues
      /\ state.sent \in ThrQueues /\ state.written \in ThrQueues /\ state.conn \in ThrConns
      /\ state.losses \in ThrLosses
  BY <1>0 DEF ThrRecord
<1>2. Thr!TypeOK
  BY <1>1 DEF Thr!TypeOK, ThrRuns, ThrApps, ThrNets, ThrDms, ThrSems, ThrQueues, ThrConns,
     ThrLosses
<1>3. Len(state.sent) \in Nat /\ Len(state.written) \in Nat
  BY <1>1, LenProperties DEF ThrQueues
<1>4. Thr!WindowOfTwo
  BY <1>0, <1>1, <1>3, ThrGaps DEF ThrWindow, ThrSems, Thr!WindowOfTwo
<1> QED BY <1>2, <1>4

\* The start of the program.
LEMMA ThrStarts == Thr!Init => ThrInv
<1> SUFFICES ASSUME Thr!Init PROVE ThrInv
  OBVIOUS
<1> DEFINE off == Thr!Off
           conn == [b \in Thr!Boards |-> "none"]
<1>1. state =
  [role |-> off, search |-> off, failed |-> off, link |-> FALSE, conn |-> conn,
   default_conn |-> off, losses |-> 0, dm |-> "none", test_ready |-> FALSE,
   throughput_conn |-> FALSE, run |-> "idle", differs |-> {"len"}, data_length_req |-> FALSE,
   throughput_sem |-> 0, next |-> 0, air |-> << >>, write_count |-> 0, fault |-> FALSE,
   sent |-> << >>, net |-> "idle", data_rx_sem |-> 0, vring |-> << >>, app |-> "binding",
   received_data |-> 0, app_sem |-> 0, written |-> << >>]
  BY DEF Thr!Init
<1>2. off \in ThrFlags /\ conn \in ThrConns
  BY DEF Thr!Off, ThrFlags, ThrConns
<1>3. /\ 0 \in ThrLosses /\ "none" \in ThrDms /\ "idle" \in ThrRuns /\ {"len"} \in ThrDiffers
      /\ 0 \in ThrSems /\ 0 \in ThrNexts /\ 0 \in ThrCounts /\ << >> \in ThrQueues
      /\ "idle" \in ThrNets /\ "binding" \in ThrApps /\ 0 \in ThrBlocks
  BY ThrSize DEF ThrLosses, ThrDms, ThrRuns, ThrDiffers, ThrSems, ThrNexts, ThrCounts, ThrQueues,
     ThrNets, ThrApps, ThrBlocks
<1> HIDE DEF off, conn
<1>4. state \in ThrRecord
  BY <1>1, <1>2, <1>3, Zenon DEF ThrRecord
<1>5. Len(state.sent) = 0 /\ Len(state.written) = 0
  BY <1>1
<1>6. ThrOrder(state)
  BY <1>1, ThrSize DEF ThrOrder
<1>7. ThrWindow(state)
  <2>1. ThrGap(0, 0, "binding", 0, "idle")
    BY DEF ThrGap, ThrOne
  <2> QED BY <1>1, <1>5, <2>1 DEF ThrWindow
<1> QED BY <1>4, <1>6, <1>7, ThrLinkStarts DEF ThrInv, ThrLink

\* What the test needs, besides the link.
ThrTest == state \in ThrRecord /\ ThrOrder(state) /\ ThrWindow(state)

\* Every action keeps what the test needs.
LEMMA ThrTestStep == ASSUME ThrTest, Thr!Next PROVE ThrTest'
<1>a. state \in ThrRecord
  BY DEF ThrTest
<1>b. ThrOrder(state) /\ ThrWindow(state)
  BY DEF ThrTest
<1>s. {"role", "search", "failed", "link", "conn", "default_conn", "losses", "dm", "test_ready",
      "throughput_conn", "run", "differs", "data_length_req", "throughput_sem", "next", "air",
      "write_count", "fault", "sent", "net", "data_rx_sem", "vring", "app", "received_data",
      "app_sem", "written"} \subseteq DOMAIN state
  BY <1>a DEF ThrRecord
<1>p. /\ TRUE \in BOOLEAN /\ FALSE \in BOOLEAN /\ 0 \in ThrSems /\ 1 \in ThrSems
      /\ << >> \in ThrQueues /\ "none" \in ThrDms /\ "discover" \in ThrDms /\ "mtu" \in ThrDms
      /\ "idle" \in ThrNets /\ "receive" \in ThrNets /\ 0 \in ThrCounts
  BY DEF ThrSems, ThrQueues, ThrDms, ThrNets, ThrCounts
<1>q. /\ state.role \in ThrFlags /\ state.search \in ThrFlags /\ state.failed \in ThrFlags
      /\ state.conn \in ThrConns /\ state.default_conn \in ThrFlags /\ state.dm \in ThrDms
      /\ state.test_ready \in BOOLEAN /\ state.losses \in ThrLosses
  BY <1>a DEF ThrRecord
<1>r. /\ state.air \in Seq(ThrBlocks) /\ state.vring \in Seq(ThrBlocks)
      /\ state.sent \in Seq(ThrBlocks) /\ state.written \in Seq(ThrBlocks)
      /\ state.received_data \in ThrBlocks /\ state.next \in ThrNexts /\ state.run \in ThrRuns
      /\ state.write_count \in Nat
  BY <1>a DEF ThrRecord, ThrQueues, ThrBlocks, ThrCounts
<1>n. /\ Len(state.sent) \in Nat /\ Len(state.written) \in Nat
      /\ state.data_rx_sem \in 0 .. 1
  BY <1>a, LenProperties DEF ThrRecord, ThrQueues, ThrSems
<1>x. ASSUME NEW q \in Seq(ThrBlocks), NEW b \in ThrBlocks
      PROVE  Append(q, b) \in ThrQueues /\ Len(Append(q, b)) = Len(q) + 1
  BY DEF ThrQueues, ThrBlocks
<1>y. ASSUME NEW q \in Seq(ThrBlocks), q # << >>
      PROVE  Head(q) \in ThrBlocks /\ Tail(q) \in ThrQueues
  BY <1>y, HeadTailProperties DEF ThrQueues, ThrBlocks
<1>g. ASSUME NEW f \in ThrFlags, NEW b \in Thr!Boards, NEW v \in BOOLEAN
      PROVE  [f EXCEPT ![b] = v] \in ThrFlags
  BY DEF ThrFlags
<1>u. ASSUME NEW run \in ThrRuns, state.next > Last => run \in {"idle", "read", "result"},
             state' = [state EXCEPT !.run = run]
      PROVE  ThrTest'
  <2>e. state' = [state EXCEPT !.run = run]
    BY <1>u
  <2>t. state' \in ThrRecord
    BY <1>a, <1>p, <2>e, Zenon DEF ThrRecord
  <2>f. /\ state'.run = run
        /\ \A f \in {"role", "search", "failed", "link", "conn", "default_conn", "losses", "dm",
                   "test_ready", "throughput_conn", "differs", "data_length_req",
                   "throughput_sem", "next", "air", "write_count", "fault", "sent", "net",
                   "data_rx_sem", "vring", "app", "received_data", "app_sem",
                      "written"} : state'[f] = state[f]
    BY <1>s, <2>e
  <2>o. ThrOrder(state')
    BY <1>b, <2>f, <1>u DEF ThrOrder
  <2>w. ThrWindow(state')
    BY <1>b, <2>f DEF ThrWindow
  <2> QED BY <2>t, <2>o, <2>w DEF ThrTest
<1>1. CASE Thr!button_handler_cb
  <2>1. PICK b \in Thr!Boards : state' \in Thr!Search([state EXCEPT !.role[b] = TRUE], b)
    BY <1>1 DEF Thr!button_handler_cb
  <2> DEFINE role == [state.role EXCEPT ![b] = TRUE]
             search == [state.search EXCEPT ![b] = TRUE]
             failed == [state.failed EXCEPT ![b] = TRUE]
  <2>2. role \in ThrFlags /\ search \in ThrFlags /\ failed \in ThrFlags
    BY <1>g, <1>q
  <2>3. \/ state' = [state EXCEPT !.role = role, !.search = search]
        \/ state' = [state EXCEPT !.role = role, !.failed = failed]
    BY <1>s, <2>1 DEF Thr!Search
  <2> HIDE DEF role, search, failed
  <2>4. CASE state' = [state EXCEPT !.role = role, !.search = search]
    <3>e. state' = [state EXCEPT !.role = role, !.search = search]
      BY <2>4
    <3>t. state' \in ThrRecord
      BY <1>a, <1>p, <3>e, <2>2, Zenon DEF ThrRecord
    <3>f. /\ state'.role = role
          /\ state'.search = search
          /\ \A f \in {"failed", "link", "conn", "default_conn", "losses", "dm", "test_ready",
                     "throughput_conn", "run", "differs", "data_length_req", "throughput_sem",
                     "next", "air", "write_count", "fault", "sent", "net", "data_rx_sem",
                     "vring", "app", "received_data", "app_sem",
                        "written"} : state'[f] = state[f]
      BY <1>s, <3>e
    <3>o. ThrOrder(state')
      BY <1>b, <3>f DEF ThrOrder
    <3>w. ThrWindow(state')
      BY <1>b, <3>f DEF ThrWindow
    <3> QED BY <3>t, <3>o, <3>w DEF ThrTest
  <2>5. CASE state' = [state EXCEPT !.role = role, !.failed = failed]
    <3>e. state' = [state EXCEPT !.role = role, !.failed = failed]
      BY <2>5
    <3>t. state' \in ThrRecord
      BY <1>a, <1>p, <3>e, <2>2, Zenon DEF ThrRecord
    <3>f. /\ state'.role = role
          /\ state'.failed = failed
          /\ \A f \in {"search", "link", "conn", "default_conn", "losses", "dm", "test_ready",
                     "throughput_conn", "run", "differs", "data_length_req", "throughput_sem",
                     "next", "air", "write_count", "fault", "sent", "net", "data_rx_sem",
                     "vring", "app", "received_data", "app_sem",
                        "written"} : state'[f] = state[f]
      BY <1>s, <3>e
    <3>o. ThrOrder(state')
      BY <1>b, <3>f DEF ThrOrder
    <3>w. ThrWindow(state')
      BY <1>b, <3>f DEF ThrWindow
    <3> QED BY <3>t, <3>o, <3>w DEF ThrTest
  <2> QED BY <2>3, <2>4, <2>5
<1>2. CASE Thr!establish
  <2> DEFINE off == Thr!Off
             conn == [b \in Thr!Boards |-> "new"]
  <2>1. off \in ThrFlags /\ conn \in ThrConns
    BY DEF Thr!Off, ThrFlags, ThrConns
  <2>2. state' = [state EXCEPT !.search = off, !.link = TRUE, !.conn = conn]
    BY <1>2 DEF Thr!establish
  <2> HIDE DEF off, conn
  <2>e. state' = [state EXCEPT !.search = off, !.link = TRUE, !.conn = conn]
    BY <2>2
  <2>t. state' \in ThrRecord
    BY <1>a, <1>p, <2>e, <2>1, Zenon DEF ThrRecord
  <2>f. /\ state'.search = off
        /\ state'.link = TRUE
        /\ state'.conn = conn
        /\ \A f \in {"role", "failed", "default_conn", "losses", "dm", "test_ready",
             "throughput_conn",
                   "run", "differs", "data_length_req", "throughput_sem", "next", "air",
                   "write_count", "fault", "sent", "net", "data_rx_sem", "vring", "app",
                   "received_data", "app_sem", "written"} : state'[f] = state[f]
    BY <1>s, <2>e
  <2>o. ThrOrder(state')
    BY <1>b, <2>f DEF ThrOrder
  <2>w. ThrWindow(state')
    BY <1>b, <2>f DEF ThrWindow
  <2> QED BY <2>t, <2>o, <2>w DEF ThrTest
<1>3. CASE Thr!scan_connecting_error
  <2> DEFINE search == [state.search EXCEPT !["tester"] = FALSE]
             failed == [state.failed EXCEPT !["tester"] = TRUE]
  <2>1. search \in ThrFlags /\ failed \in ThrFlags
    BY <1>g, <1>q DEF Thr!Boards
  <2>2. state' = [state EXCEPT !.search = search, !.failed = failed]
    BY <1>3 DEF Thr!scan_connecting_error
  <2> HIDE DEF search, failed
  <2>e. state' = [state EXCEPT !.search = search, !.failed = failed]
    BY <2>2
  <2>t. state' \in ThrRecord
    BY <1>a, <1>p, <2>e, <2>1, Zenon DEF ThrRecord
  <2>f. /\ state'.search = search
        /\ state'.failed = failed
        /\ \A f \in {"role", "link", "conn", "default_conn", "losses", "dm", "test_ready",
                   "throughput_conn", "run", "differs", "data_length_req", "throughput_sem",
                   "next", "air", "write_count", "fault", "sent", "net", "data_rx_sem",
                   "vring", "app", "received_data", "app_sem", "written"} : state'[f] = state[f]
    BY <1>s, <2>e
  <2>o. ThrOrder(state')
    BY <1>b, <2>f DEF ThrOrder
  <2>w. ThrWindow(state')
    BY <1>b, <2>f DEF ThrWindow
  <2> QED BY <2>t, <2>o, <2>w DEF ThrTest
<1>4. CASE Thr!connected
  <2>1. PICK b \in Thr!Boards, dm \in ThrDms :
          state' = [state EXCEPT !.conn[b] = "up", !.default_conn[b] = TRUE, !.dm = dm]
    BY <1>4, <1>q DEF Thr!connected, ThrDms
  <2> DEFINE conn == [state.conn EXCEPT ![b] = "up"]
             default_conn == [state.default_conn EXCEPT ![b] = TRUE]
  <2>2. conn \in ThrConns /\ default_conn \in ThrFlags
    BY <1>g, <1>q DEF ThrConns
  <2>3. state' = [state EXCEPT !.conn = conn, !.default_conn = default_conn, !.dm = dm]
    BY <2>1
  <2> HIDE DEF conn, default_conn
  <2>e. state' = [state EXCEPT !.conn = conn, !.default_conn = default_conn, !.dm = dm]
    BY <2>3
  <2>t. state' \in ThrRecord
    BY <1>a, <1>p, <2>e, <2>2, Zenon DEF ThrRecord
  <2>f. /\ state'.conn = conn
        /\ state'.default_conn = default_conn
        /\ state'.dm = dm
        /\ \A f \in {"role", "search", "failed", "link", "losses", "test_ready",
             "throughput_conn",
                   "run", "differs", "data_length_req", "throughput_sem", "next", "air",
                   "write_count", "fault", "sent", "net", "data_rx_sem", "vring", "app",
                   "received_data", "app_sem", "written"} : state'[f] = state[f]
    BY <1>s, <2>e
  <2>o. ThrOrder(state')
    BY <1>b, <2>f DEF ThrOrder
  <2>w. ThrWindow(state')
    BY <1>b, <2>f DEF ThrWindow
  <2> QED BY <2>t, <2>o, <2>w DEF ThrTest
<1>5. CASE Thr!discovery_complete
  <2>1. PICK dm \in ThrDms : state' = [state EXCEPT !.throughput_conn = TRUE, !.dm = dm]
    BY <1>5 DEF Thr!discovery_complete, ThrDms
  <2>e. state' = [state EXCEPT !.throughput_conn = TRUE, !.dm = dm]
    BY <2>1
  <2>t. state' \in ThrRecord
    BY <1>a, <1>p, <2>e, Zenon DEF ThrRecord
  <2>f. /\ state'.throughput_conn = TRUE
        /\ state'.dm = dm
        /\ \A f \in {"role", "search", "failed", "link", "conn", "default_conn", "losses",
                   "test_ready", "run", "differs", "data_length_req", "throughput_sem", "next",
                   "air", "write_count", "fault", "sent", "net", "data_rx_sem", "vring", "app",
                   "received_data", "app_sem", "written"} : state'[f] = state[f]
    BY <1>s, <2>e
  <2>o. ThrOrder(state')
    BY <1>b, <2>f DEF ThrOrder
  <2>w. ThrWindow(state')
    BY <1>b, <2>f DEF ThrWindow
  <2> QED BY <2>t, <2>o, <2>w DEF ThrTest
<1>6. CASE Thr!discovery_service_not_found
  <2>1. state' = [state EXCEPT !.dm = "none"]
    BY <1>6 DEF Thr!discovery_service_not_found
  <2>e. state' = [state EXCEPT !.dm = "none"]
    BY <2>1
  <2>t. state' \in ThrRecord
    BY <1>a, <1>p, <2>e, Zenon DEF ThrRecord
  <2>f. /\ state'.dm = "none"
        /\ \A f \in {"role", "search", "failed", "link", "conn", "default_conn", "losses",
                   "test_ready", "throughput_conn", "run", "differs", "data_length_req",
                   "throughput_sem", "next", "air", "write_count", "fault", "sent", "net",
                   "data_rx_sem", "vring", "app", "received_data", "app_sem",
                      "written"} : state'[f] = state[f]
    BY <1>s, <2>e
  <2>o. ThrOrder(state')
    BY <1>b, <2>f DEF ThrOrder
  <2>w. ThrWindow(state')
    BY <1>b, <2>f DEF ThrWindow
  <2> QED BY <2>t, <2>o, <2>w DEF ThrTest
<1>7. CASE Thr!exchange_func
  <2>1. state' = [state EXCEPT !.dm = "none", !.test_ready = TRUE]
    BY <1>7 DEF Thr!exchange_func
  <2>e. state' = [state EXCEPT !.dm = "none", !.test_ready = TRUE]
    BY <2>1
  <2>t. state' \in ThrRecord
    BY <1>a, <1>p, <2>e, Zenon DEF ThrRecord
  <2>f. /\ state'.dm = "none"
        /\ state'.test_ready = TRUE
        /\ \A f \in {"role", "search", "failed", "link", "conn", "default_conn", "losses",
                   "throughput_conn", "run", "differs", "data_length_req", "throughput_sem",
                   "next", "air", "write_count", "fault", "sent", "net", "data_rx_sem",
                   "vring", "app", "received_data", "app_sem", "written"} : state'[f] = state[f]
    BY <1>s, <2>e
  <2>o. ThrOrder(state')
    BY <1>b, <2>f DEF ThrOrder
  <2>w. ThrWindow(state')
    BY <1>b, <2>f DEF ThrWindow
  <2> QED BY <2>t, <2>o, <2>w DEF ThrTest
<1>8. CASE Thr!link_lost
  <2> DEFINE losses == state.losses + 1
  <2>1. /\ state' = [state EXCEPT !.link = FALSE, !.losses = losses, !.air = << >>,
                                  !.throughput_conn = FALSE]
    BY <1>8 DEF Thr!link_lost
  <2>2. losses \in ThrLosses
    BY <1>8, <1>q, ThrSize DEF Thr!link_lost, ThrLosses
  <2> HIDE DEF losses
  <2>e. state' = [state EXCEPT !.link = FALSE, !.losses = losses, !.air = << >>,
           !.throughput_conn = FALSE]
    BY <2>1
  <2>t. state' \in ThrRecord
    BY <1>a, <1>p, <2>e, <2>2, Zenon DEF ThrRecord
  <2>f. /\ state'.link = FALSE
        /\ state'.losses = losses
        /\ state'.air = << >>
        /\ state'.throughput_conn = FALSE
        /\ \A f \in {"role", "search", "failed", "conn", "default_conn", "dm", "test_ready",
             "run",
                   "differs", "data_length_req", "throughput_sem", "next", "write_count",
                   "fault", "sent", "net", "data_rx_sem", "vring", "app", "received_data",
                   "app_sem", "written"} : state'[f] = state[f]
    BY <1>s, <2>e
  <2>o. ThrOrder(state')
    BY <1>b, <2>f DEF ThrOrder
  <2>w. ThrWindow(state')
    BY <1>b, <2>f DEF ThrWindow
  <2> QED BY <2>t, <2>o, <2>w DEF ThrTest
<1>9. CASE Thr!disconnected
  <2>1. PICK b \in Thr!Boards : state' \in Thr!Search([state EXCEPT
            !.conn[b] = "none", !.default_conn[b] = FALSE,
            !.dm = IF b = "tester" THEN "none" ELSE @,
            !.test_ready = IF b = "tester" THEN FALSE ELSE @], b)
    BY <1>9 DEF Thr!disconnected
  <2> DEFINE conn == [state.conn EXCEPT ![b] = "none"]
             default_conn == [state.default_conn EXCEPT ![b] = FALSE]
             dm == IF b = "tester" THEN "none" ELSE state.dm
             test_ready == IF b = "tester" THEN FALSE ELSE state.test_ready
             search == [state.search EXCEPT ![b] = TRUE]
             failed == [state.failed EXCEPT ![b] = TRUE]
             mid == [state EXCEPT !.conn = conn, !.default_conn = default_conn, !.dm = dm,
                                  !.test_ready = test_ready]
  <2>2. /\ conn \in ThrConns /\ default_conn \in ThrFlags /\ dm \in ThrDms
        /\ test_ready \in BOOLEAN /\ search \in ThrFlags /\ failed \in ThrFlags
    BY <1>g, <1>p, <1>q DEF ThrConns
  <2>3. state' \in {[mid EXCEPT !.search[b] = TRUE], [mid EXCEPT !.failed[b] = TRUE]}
    BY <1>s, <2>1 DEF Thr!Search
  <2> HIDE DEF conn, default_conn, dm, test_ready
  <2>4. mid.search = state.search /\ mid.failed = state.failed
    BY <1>s
  <2>5. \/ state' = [mid EXCEPT !.search = search]
        \/ state' = [mid EXCEPT !.failed = failed]
    BY <2>3, <2>4
  <2> HIDE DEF search, failed
  <2>6. CASE state' = [mid EXCEPT !.search = search]
    <3>e. state' = [state EXCEPT !.conn = conn, !.default_conn = default_conn, !.dm = dm,
                                 !.test_ready = test_ready, !.search = search]
      BY <1>s, <2>6
    <3>t. state' \in ThrRecord
      BY <1>a, <1>p, <3>e, <2>2, Zenon DEF ThrRecord
    <3>f. /\ state'.conn = conn
          /\ state'.default_conn = default_conn
          /\ state'.dm = dm
          /\ state'.test_ready = test_ready
          /\ state'.search = search
          /\ \A f \in {"role", "failed", "link", "losses", "throughput_conn", "run", "differs",
                     "data_length_req", "throughput_sem", "next", "air", "write_count",
                     "fault", "sent", "net", "data_rx_sem", "vring", "app", "received_data",
                     "app_sem", "written"} : state'[f] = state[f]
      BY <1>s, <3>e
    <3>o. ThrOrder(state')
      BY <1>b, <3>f DEF ThrOrder
    <3>w. ThrWindow(state')
      BY <1>b, <3>f DEF ThrWindow
    <3> QED BY <3>t, <3>o, <3>w DEF ThrTest
  <2>7. CASE state' = [mid EXCEPT !.failed = failed]
    <3>e. state' = [state EXCEPT !.conn = conn, !.default_conn = default_conn, !.dm = dm,
                                 !.test_ready = test_ready, !.failed = failed]
      BY <1>s, <2>7
    <3>t. state' \in ThrRecord
      BY <1>a, <1>p, <3>e, <2>2, Zenon DEF ThrRecord
    <3>f. /\ state'.conn = conn
          /\ state'.default_conn = default_conn
          /\ state'.dm = dm
          /\ state'.test_ready = test_ready
          /\ state'.failed = failed
          /\ \A f \in {"role", "search", "link", "losses", "throughput_conn", "run", "differs",
                     "data_length_req", "throughput_sem", "next", "air", "write_count",
                     "fault", "sent", "net", "data_rx_sem", "vring", "app", "received_data",
                     "app_sem", "written"} : state'[f] = state[f]
      BY <1>s, <3>e
    <3>o. ThrOrder(state')
      BY <1>b, <3>f DEF ThrOrder
    <3>w. ThrWindow(state')
      BY <1>b, <3>f DEF ThrWindow
    <3> QED BY <3>t, <3>o, <3>w DEF ThrTest
  <2> QED BY <2>5, <2>6, <2>7
<1>10. CASE Thr!config
  <2>1. PICK differs \in ThrDiffers : state' = [state EXCEPT !.differs = differs]
    BY <1>10 DEF Thr!config, ThrDiffers
  <2>e. state' = [state EXCEPT !.differs = differs]
    BY <2>1
  <2>t. state' \in ThrRecord
    BY <1>a, <1>p, <2>e, Zenon DEF ThrRecord
  <2>f. /\ state'.differs = differs
        /\ \A f \in {"role", "search", "failed", "link", "conn", "default_conn", "losses", "dm",
                   "test_ready", "throughput_conn", "run", "data_length_req", "throughput_sem",
                   "next", "air", "write_count", "fault", "sent", "net", "data_rx_sem",
                   "vring", "app", "received_data", "app_sem", "written"} : state'[f] = state[f]
    BY <1>s, <2>e
  <2>o. ThrOrder(state')
    BY <1>b, <2>f DEF ThrOrder
  <2>w. ThrWindow(state')
    BY <1>b, <2>f DEF ThrWindow
  <2> QED BY <2>t, <2>o, <2>w DEF ThrTest
<1>11. CASE Thr!test_run
  <2>1. state.next = 0 /\ state' = [state EXCEPT !.run = "phy"] /\ "phy" \in ThrRuns
    BY <1>11 DEF Thr!test_run, Thr!Goto, ThrRuns
  <2> QED BY <1>u, <2>1, ThrSize
<1>12. CASE Thr!connection_configuration_set
  <2>0. ~(state.next > Last)
    BY <1>12, <1>b DEF ThrOrder, Thr!connection_configuration_set, Thr!Request, Thr!Wait,
       Thr!Skip,
       Thr!At
  <2>1. ASSUME NEW run \in ThrRuns, NEW req \in BOOLEAN,
               state' = [state EXCEPT !.run = run, !.data_length_req = req]
        PROVE  ThrTest'
    <3>e. state' = [state EXCEPT !.run = run, !.data_length_req = req]
      BY <2>1
    <3>t. state' \in ThrRecord
      BY <1>a, <1>p, <3>e, Zenon DEF ThrRecord
    <3>f. /\ state'.run = run
          /\ state'.data_length_req = req
          /\ \A f \in {"role", "search", "failed", "link", "conn", "default_conn", "losses",
               "dm",
                     "test_ready", "throughput_conn", "differs", "throughput_sem", "next",
                     "air", "write_count", "fault", "sent", "net", "data_rx_sem", "vring",
                     "app", "received_data", "app_sem", "written"} : state'[f] = state[f]
      BY <1>s, <3>e
    <3>o. ThrOrder(state')
      BY <1>b, <3>f, <2>0 DEF ThrOrder
    <3>w. ThrWindow(state')
      BY <1>b, <3>f DEF ThrWindow
    <3> QED BY <3>t, <3>o, <3>w DEF ThrTest
  <2>2. CASE state' = [state EXCEPT !.fault = TRUE]
    <3>e. state' = [state EXCEPT !.fault = TRUE]
      BY <2>2
    <3>t. state' \in ThrRecord
      BY <1>a, <1>p, <3>e, Zenon DEF ThrRecord
    <3>f. /\ state'.fault = TRUE
          /\ \A f \in {"role", "search", "failed", "link", "conn", "default_conn", "losses",
               "dm",
                     "test_ready", "throughput_conn", "run", "differs", "data_length_req",
                     "throughput_sem", "next", "air", "write_count", "sent", "net",
                     "data_rx_sem", "vring", "app", "received_data", "app_sem",
                        "written"} : state'[f] = state[f]
      BY <1>s, <3>e
    <3>o. ThrOrder(state')
      BY <1>b, <3>f DEF ThrOrder
    <3>w. ThrWindow(state')
      BY <1>b, <3>f DEF ThrWindow
    <3> QED BY <3>t, <3>o, <3>w DEF ThrTest
  <2>3. ASSUME NEW run \in ThrRuns, state' = [state EXCEPT !.throughput_sem = 0, !.run = run]
        PROVE  ThrTest'
    <3>e. state' = [state EXCEPT !.throughput_sem = 0, !.run = run]
      BY <2>3
    <3>t. state' \in ThrRecord
      BY <1>a, <1>p, <3>e, Zenon DEF ThrRecord
    <3>f. /\ state'.throughput_sem = 0
          /\ state'.run = run
          /\ \A f \in {"role", "search", "failed", "link", "conn", "default_conn", "losses",
               "dm",
                     "test_ready", "throughput_conn", "differs", "data_length_req", "next",
                     "air", "write_count", "fault", "sent", "net", "data_rx_sem", "vring",
                     "app", "received_data", "app_sem", "written"} : state'[f] = state[f]
      BY <1>s, <3>e
    <3>o. ThrOrder(state')
      BY <1>b, <3>f, <2>0 DEF ThrOrder
    <3>w. ThrWindow(state')
      BY <1>b, <3>f DEF ThrWindow
    <3> QED BY <3>t, <3>o, <3>w DEF ThrTest
  <2>4. ASSUME NEW run \in ThrRuns, state' = [state EXCEPT !.run = run] PROVE ThrTest'
    BY <1>u, <2>0, <2>4
  <2>5. "idle" \in ThrRuns
    BY DEF ThrRuns
  <2>6. ASSUME NEW from, NEW to \in ThrRuns, Thr!Request(from, to) PROVE ThrTest'
    <3> DEFINE req == IF from = "len" THEN TRUE ELSE state.data_length_req
    <3>1. req \in BOOLEAN
      BY <1>a DEF ThrRecord
    <3>2. \/ state' = [state EXCEPT !.run = to, !.data_length_req = req]
          \/ state' = [state EXCEPT !.run = "idle"]
          \/ state' = [state EXCEPT !.fault = TRUE]
      BY <2>6 DEF Thr!Request, Thr!Returns, Thr!Goto
    <3> HIDE DEF req
    <3> QED BY <2>1, <2>2, <2>4, <2>5, <3>1, <3>2
  <2>7. ASSUME NEW from, NEW to \in ThrRuns, Thr!Wait(from, to) PROVE ThrTest'
    BY <2>3, <2>4, <2>5, <2>7 DEF Thr!Wait, Thr!Returns, Thr!Goto
  <2>8. ASSUME NEW from, NEW what, NEW to \in ThrRuns, Thr!Skip(from, what, to) PROVE ThrTest'
    BY <2>4, <2>8 DEF Thr!Skip, Thr!Goto
  <2>9. /\ "phy_wait" \in ThrRuns /\ "len" \in ThrRuns /\ "len_wait" \in ThrRuns
        /\ "interval" \in ThrRuns /\ "interval_wait" \in ThrRuns /\ "write" \in ThrRuns
    BY DEF ThrRuns
  <2> QED BY <1>12, <2>6, <2>7, <2>8, <2>9 DEF Thr!connection_configuration_set
<1>13. CASE Thr!le_param_updated
  <2>1. state' = [state EXCEPT !.throughput_sem = 1]
    BY <1>13 DEF Thr!le_param_updated, Thr!Give
  <2>e. state' = [state EXCEPT !.throughput_sem = 1]
    BY <2>1
  <2>t. state' \in ThrRecord
    BY <1>a, <1>p, <2>e, Zenon DEF ThrRecord
  <2>f. /\ state'.throughput_sem = 1
        /\ \A f \in {"role", "search", "failed", "link", "conn", "default_conn", "losses", "dm",
                   "test_ready", "throughput_conn", "run", "differs", "data_length_req",
                   "next", "air", "write_count", "fault", "sent", "net", "data_rx_sem",
                   "vring", "app", "received_data", "app_sem", "written"} : state'[f] = state[f]
    BY <1>s, <2>e
  <2>o. ThrOrder(state')
    BY <1>b, <2>f DEF ThrOrder
  <2>w. ThrWindow(state')
    BY <1>b, <2>f DEF ThrWindow
  <2> QED BY <2>t, <2>o, <2>w DEF ThrTest
<1>14. CASE Thr!le_data_length_updated
  <2> DEFINE differs == state.differs \ {"len"}
  <2>1. differs \in ThrDiffers
    BY <1>a DEF ThrRecord, ThrDiffers
  <2>2. state' = [state EXCEPT !.data_length_req = FALSE, !.throughput_sem = 1,
                               !.differs = differs]
    BY <1>14 DEF Thr!le_data_length_updated, Thr!Give
  <2> HIDE DEF differs
  <2>e. state' = [state EXCEPT !.data_length_req = FALSE, !.throughput_sem = 1,
           !.differs = differs]
    BY <2>2
  <2>t. state' \in ThrRecord
    BY <1>a, <1>p, <2>e, <2>1, Zenon DEF ThrRecord
  <2>f. /\ state'.data_length_req = FALSE
        /\ state'.throughput_sem = 1
        /\ state'.differs = differs
        /\ \A f \in {"role", "search", "failed", "link", "conn", "default_conn", "losses", "dm",
                   "test_ready", "throughput_conn", "run", "next", "air", "write_count",
                   "fault", "sent", "net", "data_rx_sem", "vring", "app", "received_data",
                   "app_sem", "written"} : state'[f] = state[f]
    BY <1>s, <2>e
  <2>o. ThrOrder(state')
    BY <1>b, <2>f DEF ThrOrder
  <2>w. ThrWindow(state')
    BY <1>b, <2>f DEF ThrWindow
  <2> QED BY <2>t, <2>o, <2>w DEF ThrTest
<1>15. CASE Thr!test_write
  <2>0. state.next \in ThrBlocks /\ state.run = "write"
    BY <1>15, <1>b, <1>r, ThrSize DEF Thr!test_write, Thr!At, ThrOrder, ThrNexts, ThrBlocks
  <2> DEFINE run == IF state.next = Last THEN "read" ELSE state.run
             air == Append(state.air, state.next)
             next == state.next + 1
  <2>1. /\ run \in ThrRuns /\ air \in ThrQueues /\ next \in ThrNexts /\ Last \in ThrNexts
        /\ "idle" \in ThrRuns
        /\ next <= Last \/ run = "read"
    <3>1. air \in ThrQueues
      BY <1>r, <1>x, <2>0
    <3>2. run \in ThrRuns /\ "idle" \in ThrRuns
      BY <2>0 DEF ThrRuns
    <3>3. next \in ThrNexts /\ Last \in ThrNexts /\ (next <= Last \/ run = "read")
      BY <2>0, ThrSize DEF ThrBlocks, ThrNexts
    <3> QED BY <3>1, <3>2, <3>3
  <2>2. \/ state' = [state EXCEPT !.air = air, !.next = next, !.run = run]
        \/ state' = [state EXCEPT !.next = Last, !.run = run]
        \/ state' = [state EXCEPT !.run = "idle"]
    BY <1>15 DEF Thr!test_write, Thr!Returns, Thr!Goto
  <2> HIDE DEF run, air, next
  <2>3. CASE state' = [state EXCEPT !.air = air, !.next = next, !.run = run]
    <3>e. state' = [state EXCEPT !.air = air, !.next = next, !.run = run]
      BY <2>3
    <3>t. state' \in ThrRecord
      BY <1>a, <1>p, <3>e, <2>1, Zenon DEF ThrRecord
    <3>f. /\ state'.air = air
          /\ state'.next = next
          /\ state'.run = run
          /\ \A f \in {"role", "search", "failed", "link", "conn", "default_conn", "losses",
               "dm",
                     "test_ready", "throughput_conn", "differs", "data_length_req",
                     "throughput_sem", "write_count", "fault", "sent", "net", "data_rx_sem",
                     "vring", "app", "received_data", "app_sem",
                        "written"} : state'[f] = state[f]
      BY <1>s, <3>e
    <3>o. ThrOrder(state')
      BY <1>b, <3>f, <2>1, ThrSize DEF ThrOrder
    <3>w. ThrWindow(state')
      BY <1>b, <3>f DEF ThrWindow
    <3> QED BY <3>t, <3>o, <3>w DEF ThrTest
  <2>4. CASE state' = [state EXCEPT !.next = Last, !.run = run]
    <3>e. state' = [state EXCEPT !.next = Last, !.run = run]
      BY <2>4
    <3>t. state' \in ThrRecord
      BY <1>a, <1>p, <3>e, <2>1, Zenon DEF ThrRecord
    <3>f. /\ state'.next = Last
          /\ state'.run = run
          /\ \A f \in {"role", "search", "failed", "link", "conn", "default_conn", "losses",
               "dm",
                     "test_ready", "throughput_conn", "differs", "data_length_req",
                     "throughput_sem", "air", "write_count", "fault", "sent", "net",
                     "data_rx_sem", "vring", "app", "received_data", "app_sem",
                        "written"} : state'[f] = state[f]
      BY <1>s, <3>e
    <3>o. ThrOrder(state')
      BY <1>b, <3>f, ThrSize DEF ThrOrder
    <3>w. ThrWindow(state')
      BY <1>b, <3>f DEF ThrWindow
    <3> QED BY <3>t, <3>o, <3>w DEF ThrTest
  <2>5. CASE state' = [state EXCEPT !.run = "idle"]
    <3>1. "idle" \in ThrRuns
      BY DEF ThrRuns
    <3> QED BY <1>u, <2>5, <3>1
  <2> QED BY <2>2, <2>3, <2>4, <2>5
<1>16. CASE Thr!test_read
  <2>1. \E run \in {"idle", "result"} : state' = [state EXCEPT !.run = run]
    BY <1>16 DEF Thr!test_read, Thr!Returns, Thr!Goto
  <2> QED BY <1>u, <2>1 DEF ThrRuns
<1>17. CASE Thr!throughput_read
  <2>1. state' = [state EXCEPT !.throughput_sem = 1]
    BY <1>17 DEF Thr!throughput_read, Thr!Give
  <2>e. state' = [state EXCEPT !.throughput_sem = 1]
    BY <2>1
  <2>t. state' \in ThrRecord
    BY <1>a, <1>p, <2>e, Zenon DEF ThrRecord
  <2>f. /\ state'.throughput_sem = 1
        /\ \A f \in {"role", "search", "failed", "link", "conn", "default_conn", "losses", "dm",
                   "test_ready", "throughput_conn", "run", "differs", "data_length_req",
                   "next", "air", "write_count", "fault", "sent", "net", "data_rx_sem",
                   "vring", "app", "received_data", "app_sem", "written"} : state'[f] = state[f]
    BY <1>s, <2>e
  <2>o. ThrOrder(state')
    BY <1>b, <2>f DEF ThrOrder
  <2>w. ThrWindow(state')
    BY <1>b, <2>f DEF ThrWindow
  <2> QED BY <2>t, <2>o, <2>w DEF ThrTest
<1>18. CASE Thr!test_end
  <2>1. state' = [state EXCEPT !.run = "idle"]
    BY <1>18 DEF Thr!test_end, Thr!Returns, Thr!Goto
  <2> QED BY <1>u, <2>1 DEF ThrRuns
<1>19. CASE Thr!write_callback
  <2> DEFINE hd == Head(state.air)
             air == Tail(state.air)
             vring == Append(state.vring, hd)
             sent == Append(state.sent, hd)
             count == IF hd = 0 THEN 0 ELSE state.write_count + 1
  <2>0. state.net = "idle" /\ state.air # << >>
    BY <1>19 DEF Thr!write_callback
  <2>1. hd \in ThrBlocks /\ air \in ThrQueues
    BY <1>r, <1>y, <2>0
  <2>2. /\ vring \in ThrQueues /\ sent \in ThrQueues /\ Len(sent) = Len(state.sent) + 1
        /\ count \in ThrCounts
    <3> HIDE DEF hd
    <3>1. count \in ThrCounts
      BY <1>r DEF ThrCounts
    <3> QED BY <1>r, <1>x, <2>1, <3>1
  <2>3. state' = [state EXCEPT !.air = air, !.vring = vring, !.sent = sent, !.net = "receive",
                               !.write_count = count]
    BY <1>19 DEF Thr!write_callback
  <2> HIDE DEF hd, air, vring, sent, count
  <2>e. state' = [state EXCEPT !.air = air, !.vring = vring, !.sent = sent, !.net = "receive",
                               !.write_count = count]
    BY <2>3
  <2>t. state' \in ThrRecord
    BY <1>a, <1>p, <2>e, <2>1, <2>2, Zenon DEF ThrRecord
  <2>f. /\ state'.air = air
        /\ state'.vring = vring
        /\ state'.sent = sent
        /\ state'.net = "receive"
        /\ state'.write_count = count
        /\ \A f \in {"role", "search", "failed", "link", "conn", "default_conn", "losses", "dm",
                   "test_ready", "throughput_conn", "run", "differs", "data_length_req",
                   "throughput_sem", "next", "fault", "data_rx_sem", "app", "received_data",
                   "app_sem", "written"} : state'[f] = state[f]
    BY <1>s, <2>e
  <2>o. ThrOrder(state')
    BY <1>b, <2>f DEF ThrOrder
  <2>w. ThrWindow(state')
    BY <1>b, <2>f, <1>n, ThrGaps, <2>0, <2>2 DEF ThrWindow
  <2> QED BY <2>t, <2>o, <2>w DEF ThrTest
<1>20. CASE Thr!receive_message
  <2>1. /\ state' = [state EXCEPT !.data_rx_sem = 0, !.net = "idle"]
        /\ state.net = "receive" /\ state.data_rx_sem = 1
    BY <1>20 DEF Thr!receive_message
  <2>e. state' = [state EXCEPT !.data_rx_sem = 0, !.net = "idle"]
    BY <2>1
  <2>t. state' \in ThrRecord
    BY <1>a, <1>p, <2>e, Zenon DEF ThrRecord
  <2>f. /\ state'.data_rx_sem = 0
        /\ state'.net = "idle"
        /\ \A f \in {"role", "search", "failed", "link", "conn", "default_conn", "losses", "dm",
                   "test_ready", "throughput_conn", "run", "differs", "data_length_req",
                   "throughput_sem", "next", "air", "write_count", "fault", "sent", "vring",
                   "app", "received_data", "app_sem", "written"} : state'[f] = state[f]
    BY <1>s, <2>e
  <2>o. ThrOrder(state')
    BY <1>b, <2>f DEF ThrOrder
  <2>w. ThrWindow(state')
    BY <1>b, <2>f, <1>n, ThrGaps, <2>1 DEF ThrWindow
  <2> QED BY <2>t, <2>o, <2>w DEF ThrTest
<1>21. CASE Thr!endpoint_cb
  <2> DEFINE hd == Head(state.vring)
             vring == Tail(state.vring)
             app == IF state.app = "wait" THEN "ready" ELSE state.app
             sem == IF state.app = "wait" THEN state.app_sem ELSE 1
  <2>0. state.app \in {"binding", "wait", "ready"} /\ state.vring # << >>
    BY <1>21 DEF Thr!endpoint_cb
  <2>1. hd \in ThrBlocks /\ vring \in ThrQueues
    BY <1>r, <1>y, <2>0
  <2>2. /\ app \in ThrApps /\ sem \in ThrSems
        /\ app = state.app \/ (state.app = "wait" /\ app = "ready")
    BY <1>a, <2>0 DEF ThrRecord, ThrApps, ThrSems
  <2>3. state' = [state EXCEPT !.received_data = hd, !.vring = vring, !.app = app,
           !.app_sem = sem]
    BY <1>21 DEF Thr!endpoint_cb, Thr!Give
  <2> HIDE DEF hd, vring, app, sem
  <2>e. state' = [state EXCEPT !.received_data = hd, !.vring = vring, !.app = app,
           !.app_sem = sem]
    BY <2>3
  <2>t. state' \in ThrRecord
    BY <1>a, <1>p, <2>e, <2>1, <2>2, Zenon DEF ThrRecord
  <2>f. /\ state'.received_data = hd
        /\ state'.vring = vring
        /\ state'.app = app
        /\ state'.app_sem = sem
        /\ \A f \in {"role", "search", "failed", "link", "conn", "default_conn", "losses", "dm",
                   "test_ready", "throughput_conn", "run", "differs", "data_length_req",
                   "throughput_sem", "next", "air", "write_count", "fault", "sent", "net",
                   "data_rx_sem", "written"} : state'[f] = state[f]
    BY <1>s, <2>e
  <2>o. ThrOrder(state')
    BY <1>b, <2>f DEF ThrOrder
  <2>w. ThrWindow(state')
    BY <1>b, <2>f, <1>n, ThrGaps, <2>0, <2>2 DEF ThrWindow
  <2> QED BY <2>t, <2>o, <2>w DEF ThrTest
<1>22. CASE Thr!app_bound
  <2> DEFINE app == IF state.app_sem = 1 THEN "again" ELSE "wait"
  <2>1. app \in ThrApps /\ app \in {"wait", "again"}
    BY DEF ThrApps
  <2>2. state' = [state EXCEPT !.data_rx_sem = 1, !.app = app,
           !.app_sem = 0] /\ state.app = "binding"
    BY <1>22, <1>s DEF Thr!app_bound, Thr!Ack, Thr!Give
  <2> HIDE DEF app
  <2>e. state' = [state EXCEPT !.data_rx_sem = 1, !.app = app, !.app_sem = 0]
    BY <2>2
  <2>t. state' \in ThrRecord
    BY <1>a, <1>p, <2>e, <2>1, Zenon DEF ThrRecord
  <2>f. /\ state'.data_rx_sem = 1
        /\ state'.app = app
        /\ state'.app_sem = 0
        /\ \A f \in {"role", "search", "failed", "link", "conn", "default_conn", "losses", "dm",
                   "test_ready", "throughput_conn", "run", "differs", "data_length_req",
                   "throughput_sem", "next", "air", "write_count", "fault", "sent", "net",
                   "vring", "received_data", "written"} : state'[f] = state[f]
    BY <1>s, <2>e
  <2>o. ThrOrder(state')
    BY <1>b, <2>f DEF ThrOrder
  <2>w. ThrWindow(state')
    BY <1>b, <2>f, <1>n, ThrGaps, <2>1, <2>2 DEF ThrWindow
  <2> QED BY <2>t, <2>o, <2>w DEF ThrTest
<1>23. CASE Thr!app_write
  <2> DEFINE written == Append(state.written, state.received_data)
             app == IF state.received_data = Last THEN "ended" ELSE "ack"
  <2>0. state.app \in {"ready", "again"}
    BY <1>23 DEF Thr!app_write
  <2>1. written \in ThrQueues /\ Len(written) = Len(state.written) + 1
    BY <1>r, <1>x
  <2>2. app \in ThrApps /\ app \in {"ack", "ended"}
    BY DEF ThrApps
  <2>3. state' = [state EXCEPT !.written = written, !.app = app]
    BY <1>23 DEF Thr!app_write
  <2> HIDE DEF written, app
  <2>e. state' = [state EXCEPT !.written = written, !.app = app]
    BY <2>3
  <2>t. state' \in ThrRecord
    BY <1>a, <1>p, <2>e, <2>1, <2>2, Zenon DEF ThrRecord
  <2>f. /\ state'.written = written
        /\ state'.app = app
        /\ \A f \in {"role", "search", "failed", "link", "conn", "default_conn", "losses", "dm",
                   "test_ready", "throughput_conn", "run", "differs", "data_length_req",
                   "throughput_sem", "next", "air", "write_count", "fault", "sent", "net",
                   "data_rx_sem", "vring", "received_data", "app_sem"} : state'[f] = state[f]
    BY <1>s, <2>e
  <2>o. ThrOrder(state')
    BY <1>b, <2>f DEF ThrOrder
  <2>w. ThrWindow(state')
    BY <1>b, <2>f, <1>n, ThrGaps, <2>0, <2>1, <2>2 DEF ThrWindow
  <2> QED BY <2>t, <2>o, <2>w DEF ThrTest
<1>24. CASE Thr!app_ack
  <2> DEFINE app == IF state.app_sem = 1 THEN "again" ELSE "wait"
  <2>1. app \in ThrApps /\ app \in {"wait", "again"}
    BY DEF ThrApps
  <2>2. state' = [state EXCEPT !.data_rx_sem = 1, !.app = app,
           !.app_sem = 0] /\ state.app = "ack"
    BY <1>24, <1>s DEF Thr!app_ack, Thr!Ack, Thr!Give
  <2> HIDE DEF app
  <2>e. state' = [state EXCEPT !.data_rx_sem = 1, !.app = app, !.app_sem = 0]
    BY <2>2
  <2>t. state' \in ThrRecord
    BY <1>a, <1>p, <2>e, <2>1, Zenon DEF ThrRecord
  <2>f. /\ state'.data_rx_sem = 1
        /\ state'.app = app
        /\ state'.app_sem = 0
        /\ \A f \in {"role", "search", "failed", "link", "conn", "default_conn", "losses", "dm",
                   "test_ready", "throughput_conn", "run", "differs", "data_length_req",
                   "throughput_sem", "next", "air", "write_count", "fault", "sent", "net",
                   "vring", "received_data", "written"} : state'[f] = state[f]
    BY <1>s, <2>e
  <2>o. ThrOrder(state')
    BY <1>b, <2>f DEF ThrOrder
  <2>w. ThrWindow(state')
    BY <1>b, <2>f, <1>n, ThrGaps, <2>1, <2>2 DEF ThrWindow
  <2> QED BY <2>t, <2>o, <2>w DEF ThrTest
<1> QED BY <1>1, <1>2, <1>3, <1>4, <1>5, <1>6, <1>7, <1>8, <1>9, <1>10, <1>11, <1>12, <1>13,
          <1>14, <1>15, <1>16, <1>17, <1>18, <1>19, <1>20, <1>21, <1>22, <1>23,
             <1>24 DEF Thr!Next, Thr!Link, Thr!Shell, Thr!Peer,
          Thr!app_task

\* Every action keeps the invariant.
LEMMA ThrStep == ASSUME ThrInv, Thr!Next PROVE ThrInv'
<1>1. ThrTest /\ ThrLink
  BY ThrShaped DEF ThrInv, ThrTest, ThrLink
<1>2. ThrTest'
  BY <1>1, ThrTestStep
<1>3. ThrLink'
  BY <1>1, ThrLinkStep
<1> QED BY <1>2, <1>3 DEF ThrInv, ThrTest, ThrLink

-----------------------------------------------------------------------------
(* The battery relay (BasRelay).                                            *)

\* There are more slots than connections.
LEMMA RelaySize == NumSlots \in Nat /\ NumConns \in Nat /\ MaxHr \in Nat /\ NumConns < NumSlots
BY FirmwareAssumption DEF FirmwareAssumption

\* A non-empty set of natural numbers has a least element.
LEMMA SmallestOne == ASSUME NEW T \in SUBSET Nat, T # {}
                     PROVE  \E m \in T : \A k \in T : m <= k
<1>1. IsWellFoundedOn(OpToRel(<, Nat), Nat)
  BY NatLessThanWellFounded, Zenon
<1>2. PICK m \in T : \A k \in T : ~(<< k, m >> \in OpToRel(<, Nat))
  BY <1>1, WFMin, Zenon
<1>3. \A k \in T : k < m => << k, m >> \in OpToRel(<, Nat)
  BY DEF OpToRel
<1>4. \A k \in T : ~(k < m)
  BY <1>2, <1>3, Zenon
<1> QED BY <1>4

BasRecord ==
  [pc : {"init", "main", "hr", "loop", "returned"}, filter : BOOLEAN, scan : BOOLEAN,
   failed : BOOLEAN, conn : [Bas!Conns -> {"none", "initiating", "up"}],
   slot : [Bas!Slots -> {0} \cup Bas!Conns], client : [Bas!Slots -> {"none", "current", "old"}],
   dm : {0} \cup Bas!Conns, adv : BOOLEAN, hr : 0 .. MaxHr]

\* A slot that is used belongs to a connection that is up or being created, no two to
\* the same one, and every such connection has a slot.
BasSlots(s) ==
  /\ \A i, j \in Bas!Slots : s.slot[i] # 0 /\ s.slot[i] = s.slot[j] => i = j
  /\ \A i \in Bas!Slots : s.slot[i] # 0 => s.conn[s.slot[i]] # "none"
  /\ \A c \in Bas!Conns : s.conn[c] # "none" => \E i \in Bas!Slots : s.slot[i] = c

\* The discovery and the clients with valid handles belong to connections that are up.
BasClients(s) ==
  /\ s.dm # 0 => s.conn[s.dm] = "up"
  /\ \A i \in Bas!Slots : s.client[i] = "current" =>
       s.slot[i] # 0 /\ s.conn[s.slot[i]] = "up"

BasGood(s) == s \in BasRecord /\ BasSlots(s) /\ BasClients(s)

BasInv == BasGood(state) /\ Bas!LinkKept

\* There are more slots than connections, so that one is always free.
LEMMA BasRoom ==
  ASSUME NEW s \in BasRecord, BasSlots(s)
  PROVE  \E i \in Bas!Slots : i \in Bas!find_curr_conn(s, 0)
<1> DEFINE T == {i \in Bas!Slots : s.slot[i] = 0}
<1>1. T # {}
  <2> SUFFICES ASSUME T = {} PROVE FALSE
    OBVIOUS
  <2>1. \A i \in Bas!Slots : s.slot[i] \in Bas!Conns
    BY DEF BasRecord
  <2>2. IsFiniteSet(Bas!Slots) /\ IsFiniteSet(Bas!Conns)
        /\ Cardinality(Bas!Slots) = NumSlots /\ Cardinality(Bas!Conns) = NumConns
    BY RelaySize, FS_Interval DEF Bas!Slots, Bas!Conns
  <2>3. s.slot \in [Bas!Slots -> Bas!Conns]
    BY <2>1 DEF BasRecord
  <2>4. \E i, j \in Bas!Slots : i # j /\ s.slot[i] = s.slot[j]
    BY <2>2, <2>3, RelaySize, FS_PigeonHole
  <2>5. \A c \in Bas!Conns : c # 0
    BY RelaySize DEF Bas!Conns
  <2> QED BY <2>1, <2>4, <2>5 DEF BasSlots
<1>2. T \in SUBSET Nat
  BY RelaySize DEF Bas!Slots
<1> HIDE DEF T
<1>3. PICK m \in T : \A k \in T : m <= k
  BY <1>1, <1>2, SmallestOne
<1>4. m \in Bas!Slots /\ s.slot[m] = 0
  BY <1>3 DEF T
<1>5. \A j \in 1 .. (m - 1) : s.slot[j] # 0
  <2> SUFFICES ASSUME NEW j \in 1 .. (m - 1), s.slot[j] = 0 PROVE FALSE
    OBVIOUS
  <2>1. j \in Bas!Slots /\ j < m
    BY <1>4, RelaySize DEF Bas!Slots
  <2>2. j \in T
    BY <2>1 DEF T
  <2> QED BY <1>3, <2>1, <2>2, RelaySize DEF Bas!Slots, T
<1> QED BY <1>4, <1>5 DEF Bas!find_curr_conn

\* scan_start() changes the scanner only.
LEMMA BasScanStarts ==
  ASSUME NEW s, BasGood(s), NEW r \in Bas!scan_start(s)
  PROVE  BasGood(r) /\ (r.scan \/ r.failed)
<1> USE DEF BasGood, BasSlots, BasClients, Bas!scan_start
<1>1. r \in BasRecord
  <2>1. CASE r = [s EXCEPT !.scan = TRUE, !.failed = FALSE]
    BY <2>1, Zenon DEF BasRecord
  <2>2. CASE r = s
    BY <2>2
  <2>3. CASE r = [s EXCEPT !.failed = TRUE]
    BY <2>3, Zenon DEF BasRecord
  <2> QED BY <2>1, <2>2, <2>3
<1>2. r.conn = s.conn /\ r.slot = s.slot /\ r.client = s.client /\ r.dm = s.dm
      /\ (r.scan \/ r.failed)
  BY ZenonT(60) DEF BasRecord
<1> QED BY <1>1, <1>2

\* gatt_discover() changes nothing but the discovery that runs.
LEMMA BasDiscovers ==
  ASSUME NEW s, BasGood(s), NEW c \in Bas!Conns, s.conn[c] = "up",
         NEW r \in Bas!gatt_discover(s, c)
  PROVE  BasGood(r) /\ r = [s EXCEPT !.dm = r.dm]
<1>1. r = s \/ r = [s EXCEPT !.dm = c]
  BY DEF Bas!gatt_discover
<1>2. CASE r = s
  BY <1>2 DEF BasGood, BasRecord
<1>3. CASE r = [s EXCEPT !.dm = c]
  <2>1. r \in BasRecord
    BY <1>3 DEF BasGood, BasRecord
  <2>2. r.conn = s.conn /\ r.slot = s.slot /\ r.client = s.client /\ r.dm = c
    BY <1>3 DEF BasGood, BasRecord
  <2>3. BasSlots(r) /\ BasClients(r)
    BY <2>2 DEF BasGood, BasSlots, BasClients
  <2> QED BY <1>3, <2>1, <2>2, <2>3 DEF BasGood
<1> QED BY <1>1, <1>2, <1>3

\* The start of the program.
LEMMA BasStarts == Bas!Init => BasInv
<1> SUFFICES ASSUME Bas!Init PROVE BasInv
  OBVIOUS
<1>1. 0 \in 0 .. MaxHr
  BY RelaySize
<1>2. state \in BasRecord
  BY <1>1 DEF Bas!Init, BasRecord
<1> QED BY <1>2 DEF Bas!Init, BasInv, BasGood, BasSlots, BasClients, Bas!LinkKept

\* A connection that is created takes a free slot, and the scanner stops.
LEMMA BasCreates ==
  ASSUME BasInv, NEW c \in Bas!Conns, Bas!Create(c)
  PROVE  BasGood(state)' /\ Bas!Initiating'
<1> DEFINE room == Bas!find_curr_conn(state, 0)
           slot == [i \in Bas!Slots |-> IF i \in room THEN c ELSE state.slot[i]]
<1>1. state \in BasRecord /\ state.conn[c] = "none"
  BY DEF BasInv, BasGood, Bas!Create
<1>2. state' = [state EXCEPT !.scan = FALSE, !.conn[c] = "initiating", !.slot = slot]
  BY DEF Bas!Create
<1>3. \A i \in Bas!Slots : i \in room => state.slot[i] = 0
  BY DEF Bas!find_curr_conn
<1>4. \A i, j \in Bas!Slots : i \in room /\ j \in room => i = j
  BY RelaySize DEF Bas!find_curr_conn, Bas!Slots
<1>5. \E i \in Bas!Slots : i \in room
  BY BasRoom DEF BasInv, BasGood
<1>6. c # 0
  BY RelaySize DEF Bas!Conns
<1> HIDE DEF room
<1>7. slot \in [Bas!Slots -> {0} \cup Bas!Conns]
  BY <1>1 DEF BasRecord
<1>8. /\ \A i \in Bas!Slots : state'.slot[i] = IF i \in room THEN c ELSE state.slot[i]
      /\ state'.conn = [state.conn EXCEPT ![c] = "initiating"]
      /\ state'.client = state.client /\ state'.dm = state.dm
  BY <1>1, <1>2 DEF BasRecord
<1> HIDE DEF slot
<1>9. state' \in BasRecord
  <2>1. [state.conn EXCEPT ![c] = "initiating"] \in [Bas!Conns -> {"none", "initiating", "up"}]
    BY <1>1 DEF BasRecord
  <2> QED BY <1>1, <1>2, <1>7, <2>1, Zenon DEF BasRecord
<1>10. BasSlots(state)'
  <2> DEFINE new == state'.slot
  <2>1. BasSlots(state) /\ state.conn \in [Bas!Conns -> {"none", "initiating", "up"}]
        /\ \A i \in Bas!Slots : state.slot[i] \in {0} \cup Bas!Conns
    BY <1>1 DEF BasInv, BasGood, BasRecord
  <2>2. \A i \in Bas!Slots : state.slot[i] # c
    BY <1>1, <1>6, <2>1 DEF BasSlots
  <2>3. ASSUME NEW i \in Bas!Slots, NEW j \in Bas!Slots, new[i] # 0, new[i] = new[j]
        PROVE  i = j
    BY <1>4, <1>8, <2>1, <2>2, <2>3 DEF BasSlots
  <2>4. ASSUME NEW i \in Bas!Slots, new[i] # 0 PROVE state'.conn[new[i]] # "none"
    BY <1>8, <2>1, <2>2, <2>4 DEF BasSlots
  <2>5. ASSUME NEW d \in Bas!Conns, state'.conn[d] # "none"
        PROVE  \E i \in Bas!Slots : new[i] = d
    <3>1. CASE d = c
      BY <1>5, <1>8, <3>1
    <3>2. CASE d # c
      <4>1. state.conn[d] # "none"
        BY <1>8, <2>1, <2>5, <3>2
      <4>2. PICK i \in Bas!Slots : state.slot[i] = d
        BY <2>1, <4>1 DEF BasSlots
      <4>3. d # 0
        BY RelaySize DEF Bas!Conns
      <4> QED BY <1>3, <1>8, <4>2, <4>3
    <3> QED BY <3>1, <3>2
  <2> QED BY <2>3, <2>4, <2>5 DEF BasSlots
<1>11. BasClients(state)'
  BY <1>1, <1>3, <1>6, <1>8 DEF BasInv, BasGood, BasClients, BasRecord
<1>12. Bas!Initiating'
  BY <1>1, <1>8 DEF Bas!Initiating, BasRecord
<1> QED BY <1>9, <1>10, <1>11, <1>12 DEF BasGood

\* A connection that ends, or failed, gives its slot back.
LEMMA BasReleases ==
  ASSUME BasGood(state), NEW c \in Bas!Conns, NEW dm, NEW client,
         dm = IF state.dm = c THEN 0 ELSE state.dm,
         client \in [Bas!Slots -> {"none", "current", "old"}],
         \A i \in Bas!Slots : client[i] = "current" =>
           state.client[i] = "current" /\ state.slot[i] # c
  PROVE  BasGood([state EXCEPT !.conn[c] = "none", !.dm = dm,
                    !.slot = [i \in Bas!Slots |-> IF state.slot[i] = c THEN 0 ELSE state.slot[i]],
                    !.client = client])
<1> DEFINE slot == [i \in Bas!Slots |-> IF state.slot[i] = c THEN 0 ELSE state.slot[i]]
           conn == [state.conn EXCEPT ![c] = "none"]
           s == [state EXCEPT !.conn[c] = "none", !.dm = dm, !.slot = slot, !.client = client]
<1>1. state \in BasRecord
  BY DEF BasGood
<1>2. slot \in [Bas!Slots -> {0} \cup Bas!Conns] /\ dm \in {0} \cup Bas!Conns
      /\ conn \in [Bas!Conns -> {"none", "initiating", "up"}]
  BY <1>1 DEF BasRecord
<1>3. /\ \A i \in Bas!Slots : slot[i] = IF state.slot[i] = c THEN 0 ELSE state.slot[i]
      /\ \A d \in Bas!Conns : conn[d] = IF d = c THEN "none" ELSE state.conn[d]
  BY <1>1 DEF BasRecord
<1>4. s = [state EXCEPT !.conn = conn, !.dm = dm, !.slot = slot, !.client = client]
  BY <1>1 DEF BasRecord
<1> HIDE DEF slot, conn
<1>5. s.slot = slot /\ s.conn = conn /\ s.client = client /\ s.dm = dm
  BY <1>1, <1>4 DEF BasRecord
<1>6. s \in BasRecord
  BY <1>1, <1>2, <1>4, Zenon DEF BasRecord
<1> HIDE DEF s
<1>7. c # 0
  BY RelaySize DEF Bas!Conns
<1>8. BasSlots(s)
  BY <1>1, <1>3, <1>5, <1>7 DEF BasGood, BasSlots, BasRecord
<1>9. BasClients(s)
  BY <1>1, <1>3, <1>5, <1>7 DEF BasGood, BasClients, BasRecord
<1>10. BasGood(s)
  BY <1>6, <1>8, <1>9 DEF BasGood
<1> QED BY <1>10 DEF s, slot

\* Every action keeps the invariant.
LEMMA BasStep == ASSUME BasInv, Bas!Next PROVE BasInv'
<1>0. state \in BasRecord /\ BasGood(state) /\ Bas!LinkKept
  BY DEF BasInv, BasGood
<1>1. CASE Bas!scan_init
  <2>1. PICK filter \in BOOLEAN : state' = [state EXCEPT !.pc = "main", !.filter = filter]
    BY <1>1 DEF Bas!scan_init
  <2>2. state' \in BasRecord
    BY <1>0, <2>1, Zenon DEF BasRecord
  <2>3. state'.conn = state.conn /\ state'.slot = state.slot /\ state'.client = state.client
        /\ state'.dm = state.dm /\ state'.pc = "main"
    BY <1>0, <2>1 DEF BasRecord
  <2> QED BY <1>0, <2>2, <2>3 DEF BasInv, BasGood, BasSlots, BasClients, Bas!LinkKept
<1>2. CASE Bas!main
  <2>1. \/ state' = [state EXCEPT !.pc = "hr", !.scan = TRUE]
        \/ state' = [state EXCEPT !.pc = "returned", !.scan = FALSE]
    BY <1>2 DEF Bas!main
  <2>2. state' \in BasRecord
    BY <1>0, <2>1, Zenon DEF BasRecord
  <2>3. state'.conn = state.conn /\ state'.slot = state.slot /\ state'.client = state.client
        /\ state'.dm = state.dm /\ (state'.scan \/ state'.pc = "returned")
    BY <1>0, <2>1 DEF BasRecord
  <2> QED BY <1>0, <2>2, <2>3 DEF BasInv, BasGood, BasSlots, BasClients, Bas!LinkKept
<1>3. CASE Bas!bt_hr_start
  <2>1. PICK adv \in BOOLEAN : state' = [state EXCEPT !.pc = "loop", !.adv = adv]
    BY <1>3 DEF Bas!bt_hr_start
  <2>2. state' \in BasRecord /\ state.pc = "hr"
    BY <1>0, <1>3, <2>1, Zenon DEF BasRecord, Bas!bt_hr_start
  <2>3. state'.conn = state.conn /\ state'.slot = state.slot /\ state'.client = state.client
        /\ state'.dm = state.dm /\ state'.scan = state.scan /\ state'.failed = state.failed
    BY <1>0, <2>1 DEF BasRecord
  <2> QED BY <1>0, <2>2, <2>3 DEF BasInv, BasGood, BasSlots, BasClients, Bas!LinkKept,
     Bas!Initiating
<1>4. CASE Bas!scan_connecting
  BY <1>4, BasCreates DEF Bas!scan_connecting, BasInv, Bas!LinkKept
<1>5. CASE Bas!scan_connecting_error
  BY <1>0, <1>5 DEF Bas!scan_connecting_error, BasInv, BasGood, BasSlots, BasClients, BasRecord,
     Bas!LinkKept
<1>6. CASE Bas!scan_filter_no_match
  <2>1. CASE \E c \in Bas!Conns : Bas!Create(c)
    BY <2>1, BasCreates DEF BasInv, Bas!LinkKept
  <2>2. CASE state' = [state EXCEPT !.scan = FALSE, !.failed = TRUE]
    BY <1>0, <2>2, ZenonT(60) DEF BasInv, BasGood, BasSlots, BasClients, BasRecord, Bas!LinkKept
  <2> QED BY <1>6, <2>1, <2>2 DEF Bas!scan_filter_no_match
<1>7. CASE Bas!connected_error
  <2>1. PICK c \in Bas!Conns :
          /\ state.conn[c] = "initiating"
          /\ state' \in Bas!scan_start([state EXCEPT !.conn[c] = "none",
               !.slot = [i \in Bas!Slots |-> IF state.slot[i] = c THEN 0 ELSE state.slot[i]]])
    BY <1>7 DEF Bas!connected_error
  <2> DEFINE slot == [i \in Bas!Slots |-> IF state.slot[i] = c THEN 0 ELSE state.slot[i]]
             s == [state EXCEPT !.conn[c] = "none", !.slot = slot]
             t == [state EXCEPT !.conn[c] = "none", !.dm = state.dm, !.slot = slot,
                                !.client = state.client]
  <2>2. s = t
    <3> HIDE DEF slot
    <3> QED BY <1>0 DEF BasRecord
  <2>3. /\ state.dm = IF state.dm = c THEN 0 ELSE state.dm
        /\ state.client \in [Bas!Slots -> {"none", "current", "old"}]
        /\ \A i \in Bas!Slots : state.client[i] = "current" =>
             state.client[i] = "current" /\ state.slot[i] # c
    BY <1>0, <2>1 DEF BasGood, BasClients, BasRecord
  <2>4. BasGood(t)
    BY <1>0, <2>3, BasReleases
  <2> HIDE DEF s, t
  <2>5. BasGood(s)
    BY <2>2, <2>4
  <2>6. BasGood(state') /\ (state'.scan \/ state'.failed)
    BY <2>1, <2>5, BasScanStarts DEF s
  <2> QED BY <2>6 DEF BasInv, Bas!LinkKept, BasGood, BasSlots, BasClients
<1>8. CASE Bas!connected
  <2>1. PICK c \in Bas!Conns : state.conn[c] = "initiating"
          /\ LET up == [state EXCEPT !.conn[c] = "up"]
             IN \E s \in {up} \cup Bas!gatt_discover(up, c) :
                  state' \in IF Bas!find_curr_conn(s, 0) # {} THEN Bas!scan_start(s) ELSE {s}
    BY <1>8 DEF Bas!connected
  <2> DEFINE up == [state EXCEPT !.conn[c] = "up"]
  <2>2. PICK s \in {up} \cup Bas!gatt_discover(up, c) :
          state' \in IF Bas!find_curr_conn(s, 0) # {} THEN Bas!scan_start(s) ELSE {s}
    BY <2>1
  <2>3. BasGood(up) /\ up.conn[c] = "up"
    BY <1>0, <2>1 DEF BasGood, BasSlots, BasClients, BasRecord
  <2>4. BasGood(s)
    <3> HIDE DEF up
    <3> QED BY <2>2, <2>3, BasDiscovers
  <2>5. Bas!find_curr_conn(s, 0) # {}
    BY <2>4, BasRoom DEF BasGood
  <2>6. BasGood(state') /\ (state'.scan \/ state'.failed)
    BY <2>2, <2>4, <2>5, BasScanStarts
  <2> QED BY <2>6 DEF BasInv, Bas!LinkKept, BasGood, BasSlots, BasClients
<1>9. CASE Bas!security_changed
  <2>1. PICK c \in Bas!Conns : state.conn[c] = "up" /\ state' \in Bas!gatt_discover(state, c)
    BY <1>9 DEF Bas!security_changed
  <2>2. BasGood(state') /\ state' = [state EXCEPT !.dm = state'.dm]
    BY <1>0, <2>1, BasDiscovers
  <2>3. state'.pc = state.pc /\ state'.scan = state.scan /\ state'.failed = state.failed
        /\ state'.conn = state.conn
    BY <1>0, <2>2 DEF BasRecord
  <2> QED BY <1>0, <2>2, <2>3 DEF BasInv, Bas!LinkKept, Bas!Initiating, BasGood, BasSlots,
         BasClients
<1>10. CASE Bas!discovery_completed_cb
  <2> DEFINE found == Bas!find_curr_conn(state, state.dm)
             client == [i \in Bas!Slots |-> IF i \in found THEN "current" ELSE state.client[i]]
  <2>1. PICK new \in {client, state.client} : state' = [state EXCEPT !.dm = 0, !.client = new]
    BY <1>0, <1>10 DEF Bas!discovery_completed_cb, BasRecord
  <2>2. \A i \in Bas!Slots : i \in found => state.slot[i] = state.dm
    BY DEF Bas!find_curr_conn
  <2>3. state.dm # 0 /\ state.conn[state.dm] = "up"
    BY <1>0, <1>10 DEF Bas!discovery_completed_cb, BasGood, BasClients
  <2> HIDE DEF found
  <2>4. new \in [Bas!Slots -> {"none", "current", "old"}]
        /\ \A i \in Bas!Slots : new[i] = "current" =>
             state.slot[i] # 0 /\ state.conn[state.slot[i]] = "up"
    BY <1>0, <2>1, <2>2, <2>3 DEF BasGood, BasClients, BasRecord
  <2>5. state' \in BasRecord /\ state'.conn = state.conn /\ state'.slot = state.slot
        /\ state'.client = new /\ state'.dm = 0 /\ state'.pc = state.pc
        /\ state'.scan = state.scan /\ state'.failed = state.failed
    <3> HIDE DEF client
    <3> QED BY <1>0, <2>1, <2>4 DEF BasRecord
  <2> QED BY <1>0, <2>4, <2>5 DEF BasInv, Bas!LinkKept, Bas!Initiating, BasGood, BasSlots,
         BasClients
<1>11. CASE Bas!disconnected
  <2>1. PICK c \in Bas!Conns :
          /\ state.conn[c] = "up"
          /\ state' \in Bas!scan_start(
               [state EXCEPT !.conn[c] = "none", !.dm = IF state.dm = c THEN 0 ELSE state.dm,
                  !.slot = [i \in Bas!Slots |-> IF state.slot[i] = c THEN 0 ELSE state.slot[i]],
                  !.client = [i \in Bas!Slots |-> IF state.slot[i] = c
                                                     /\ state.client[i] = "current"
                                                  THEN "old" ELSE state.client[i]]])
    BY <1>11 DEF Bas!disconnected
  <2> DEFINE slot == [i \in Bas!Slots |-> IF state.slot[i] = c THEN 0 ELSE state.slot[i]]
             dm == IF state.dm = c THEN 0 ELSE state.dm
             client == [i \in Bas!Slots |-> IF state.slot[i] = c /\ state.client[i] = "current"
                                            THEN "old" ELSE state.client[i]]
             s == [state EXCEPT !.conn[c] = "none", !.dm = dm, !.slot = slot, !.client = client]
  <2>2. /\ client \in [Bas!Slots -> {"none", "current", "old"}]
        /\ \A i \in Bas!Slots : client[i] = "current" =>
             state.client[i] = "current" /\ state.slot[i] # c
    BY <1>0 DEF BasRecord
  <2>3. dm = IF state.dm = c THEN 0 ELSE state.dm
    OBVIOUS
  <2>4. BasGood(s)
    <3> HIDE DEF dm, client
    <3> QED BY <1>0, <2>2, <2>3, BasReleases
  <2> HIDE DEF s
  <2>5. BasGood(state') /\ (state'.scan \/ state'.failed)
    BY <2>1, <2>4, BasScanStarts DEF s
  <2> QED BY <2>5 DEF BasInv, Bas!LinkKept, BasGood, BasSlots, BasClients
<1>12. CASE Bas!bt_hr_connected
  <2>1. state.hr + 1 \in 0 .. MaxHr
    BY <1>0, <1>12, RelaySize DEF Bas!bt_hr_connected, BasRecord
  <2> QED BY <1>0, <1>12, <2>1 DEF Bas!bt_hr_connected, BasInv, BasGood, BasSlots, BasClients,
     BasRecord, Bas!LinkKept, Bas!Initiating
<1>13. CASE Bas!bt_hr_disconnected
  <2>1. state.hr - 1 \in 0 .. MaxHr
    BY <1>0, <1>13, RelaySize DEF Bas!bt_hr_disconnected, BasRecord
  <2> QED BY <1>0, <1>13, <2>1 DEF Bas!bt_hr_disconnected, BasInv, BasGood, BasSlots, BasClients,
     BasRecord, Bas!LinkKept, Bas!Initiating
<1> QED BY <1>1, <1>2, <1>3, <1>4, <1>5, <1>6, <1>7, <1>8, <1>9, <1>10, <1>11, <1>12, <1>13
        DEF Bas!Next

\* The cardinality that the module of the relay counts with.
LEMMA BasCardinality == ASSUME NEW S PROVE Bas!Cardinality(S) = Cardinality(S)
BY Zenon DEF Bas!Cardinality, Cardinality

\* The invariant says what the run checks: each connection has the slots it needs.
LEMMA BasSound == BasInv => Bas!TypeOK /\ Bas!OneSlotEach
<1> SUFFICES ASSUME BasInv PROVE Bas!TypeOK /\ Bas!OneSlotEach
  OBVIOUS
<1>0. state \in BasRecord /\ BasSlots(state) /\ BasClients(state)
  BY DEF BasInv, BasGood
<1>1. Bas!TypeOK
  BY <1>0, Zenon DEF Bas!TypeOK, BasRecord
<1>2. ASSUME NEW c \in Bas!Conns
      PROVE  Bas!Cardinality({i \in Bas!Slots : state.slot[i] = c})
               = IF state.conn[c] = "none" THEN 0 ELSE 1
  <2> DEFINE S == {i \in Bas!Slots : state.slot[i] = c}
  <2>0. c # 0
    BY RelaySize DEF Bas!Conns
  <2>1. CASE state.conn[c] = "none"
    <3>1. S = {}
      BY <1>0, <2>0, <2>1 DEF BasSlots
    <3>2. Bas!Cardinality(S) = 0
      BY <3>1, BasCardinality, FS_EmptySet
    <3> QED BY <2>1, <3>2
  <2>2. CASE state.conn[c] # "none"
    <3>1. PICK i \in Bas!Slots : state.slot[i] = c
      BY <1>0, <2>2 DEF BasSlots
    <3>2. S = {i}
      BY <1>0, <2>0, <3>1 DEF BasSlots
    <3>3. Bas!Cardinality(S) = 1
      BY <3>2, BasCardinality, FS_Singleton
    <3> QED BY <2>2, <3>3
  <2> QED BY <2>1, <2>2
<1>3. Bas!OneSlotEach
  BY <1>0, <1>2 DEF Bas!OneSlotEach, BasClients
<1> QED BY <1>1, <1>3
=============================================================================
