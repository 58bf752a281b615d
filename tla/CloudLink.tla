----------------------------- MODULE CloudLink ------------------------------
(***************************************************************************)
(* The cloud connection of the LTE/BLE gateway (main.c): the handler of    *)
(* nRF Cloud events, which runs in the main thread inside                  *)
(* nrf_cloud_process(), and cloud_connect(), which main() calls once and   *)
(* which afterwards runs as delayable work (connect_work) on the system    *)
(* work queue.  nrf_cloud_connect() blocks, so the main thread handles     *)
(* events while the work handler is inside it.                             *)
(***************************************************************************)
EXTENDS Naturals

VARIABLES main_pc,                \* where the main thread is
          cloud_connected, send_data_enable, association_requested,
          display_state,          \* which LED pattern is shown
          connect_work,           \* flags of the k_work_delayable
          wq_pc,                  \* the work queue thread: in cloud_connect?
          link                    \* external: the MQTT transport

cloudVars == << main_pc, cloud_connected, send_data_enable,
                association_requested, display_state, connect_work, wq_pc, link >>

WorkFlags == {"delayed", "queued", "running", "canceling"}
LedPatterns == {"OFF", "INITIALIZING", "LTE_CONNECTED", "CLOUD_CONNECTING",
                "CLOUD_PAIRING_WAIT", "CLOUD_CONNECTED"}
\* States of the transport, as the events the library delivers show it.
Links == {"down", "opening", "up", "ready", "closing"}
CloudMainPCs == {"init", "connecting", "process", "cancel", "schedule"}

CloudInit == /\ main_pc = "init"
             /\ cloud_connected = FALSE
             /\ send_data_enable = 0
             /\ association_requested = 0
             /\ display_state = "OFF"
             /\ connect_work = {}
             /\ wq_pc = "idle"
             /\ link = "down"

-----------------------------------------------------------------------------
\* External: k_work_schedule() of Zephyr.  A work item that is delayed, queued
\* or being cancelled is left as it is; a running one may be scheduled again.
k_work_schedule(flags, when) ==
  IF flags \ {"running"} = {} THEN flags \cup {when} ELSE flags

\* External: k_work_cancel_delayable().  A running handler is not stopped, but
\* the item counts as "canceling" until it returns.
k_work_cancel_delayable(flags) ==
  IF "running" \in flags THEN {"running", "canceling"} ELSE {}

\* External: nrf_cloud_connect() starts opening a transport that is down.
nrf_cloud_connect == link' = IF link = "down" THEN "opening" ELSE link

-----------------------------------------------------------------------------
\* main() up to the call of cloud_connect(NULL): buttons, BLE, work items,
\* cloud library, LTE link; then nrf_cloud_connect() blocks.
main_start ==
  /\ main_pc = "init"
  /\ main_pc' = "connecting"
  /\ display_state' = "LTE_CONNECTED"
  /\ nrf_cloud_connect
  /\ UNCHANGED << cloud_connected, send_data_enable, association_requested,
                  connect_work, wq_pc >>

\* nrf_cloud_connect() returns 0 in the main thread.
main_connect_done ==
  /\ main_pc = "connecting"
  /\ main_pc' = "process"
  /\ display_state' = "CLOUD_CONNECTING"
  /\ connect_work' = k_work_schedule(connect_work, "delayed")
  /\ UNCHANGED << cloud_connected, send_data_enable, association_requested,
                  wq_pc, link >>

\* External: the RETRY_CONNECT_WAIT delay ends.
work_timeout ==
  /\ "delayed" \in connect_work
  /\ connect_work' = (connect_work \ {"delayed"}) \cup {"queued"}
  /\ UNCHANGED << main_pc, cloud_connected, send_data_enable,
                  association_requested, display_state, wq_pc, link >>

\* The work queue enters cloud_connect() and returns at once.
cloud_connect_skip ==
  /\ wq_pc = "idle"
  /\ "queued" \in connect_work
  /\ cloud_connected
  /\ connect_work' = connect_work \ {"queued"}
  /\ UNCHANGED << main_pc, cloud_connected, send_data_enable,
                  association_requested, display_state, wq_pc, link >>

\* The work queue enters cloud_connect() and blocks in nrf_cloud_connect().
cloud_connect_enter ==
  /\ wq_pc = "idle"
  /\ "queued" \in connect_work
  /\ ~cloud_connected
  /\ connect_work' = (connect_work \ {"queued"}) \cup {"running"}
  /\ wq_pc' = "connecting"
  /\ nrf_cloud_connect
  /\ UNCHANGED << main_pc, cloud_connected, send_data_enable,
                  association_requested, display_state >>

\* Mutant: the handler does not schedule itself again.
cloud_connect_done_once ==
  /\ wq_pc = "connecting"
  /\ wq_pc' = "idle"
  /\ display_state' = "CLOUD_CONNECTING"
  /\ connect_work' = connect_work \ {"running", "canceling"}
  /\ UNCHANGED << main_pc, cloud_connected, send_data_enable,
                  association_requested, link >>

\* nrf_cloud_connect() returns 0 in the work handler, which schedules itself
\* again and ends.
cloud_connect_done ==
  /\ wq_pc = "connecting"
  /\ wq_pc' = "idle"
  /\ display_state' = "CLOUD_CONNECTING"
  /\ connect_work' = k_work_schedule(connect_work, "delayed") \ {"running", "canceling"}
  /\ UNCHANGED << main_pc, cloud_connected, send_data_enable,
                  association_requested, link >>

-----------------------------------------------------------------------------
\* cloud_event_handler: NRF_CLOUD_EVT_TRANSPORT_CONNECTED sets the flag ...
evt_transport_connected ==
  /\ main_pc = "process" /\ link = "opening"
  /\ link' = "up"
  /\ cloud_connected' = TRUE
  /\ main_pc' = "cancel"
  /\ UNCHANGED << send_data_enable, association_requested, display_state,
                  connect_work, wq_pc >>

\* Mutant: the retry is left scheduled.
cancel_connect_work_not ==
  /\ main_pc = "cancel"
  /\ main_pc' = "process"
  /\ UNCHANGED << cloud_connected, send_data_enable, association_requested,
                  display_state, connect_work, wq_pc, link >>

\* ... and then cancels the retry.
cancel_connect_work ==
  /\ main_pc = "cancel"
  /\ connect_work' = k_work_cancel_delayable(connect_work)
  /\ main_pc' = "process"
  /\ UNCHANGED << cloud_connected, send_data_enable, association_requested,
                  display_state, wq_pc, link >>

\* NRF_CLOUD_EVT_USER_ASSOCIATION_REQUEST
evt_user_association_request ==
  /\ main_pc = "process" /\ link = "up"
  /\ display_state' = "CLOUD_PAIRING_WAIT"
  /\ association_requested' = 1
  /\ UNCHANGED << main_pc, cloud_connected, send_data_enable, connect_work,
                  wq_pc, link >>

\* NRF_CLOUD_EVT_USER_ASSOCIATED: a device that was waiting for it disconnects.
evt_user_associated ==
  /\ main_pc = "process" /\ link = "up"
  /\ association_requested = 1
  /\ association_requested' = 0
  /\ link' = "closing"
  /\ UNCHANGED << main_pc, cloud_connected, send_data_enable, display_state,
                  connect_work, wq_pc >>

\* NRF_CLOUD_EVT_READY with both sensors attached.
evt_ready ==
  /\ main_pc = "process" /\ link = "up"
  /\ display_state' = "CLOUD_CONNECTED"
  /\ send_data_enable' = 1
  /\ link' = "ready"
  /\ UNCHANGED << main_pc, cloud_connected, association_requested,
                  connect_work, wq_pc >>

\* Mutant: sending stays enabled.
evt_transport_disconnected_enabled ==
  /\ main_pc = "process" /\ link # "down"
  /\ link' = "down"
  /\ display_state' = "INITIALIZING"
  /\ cloud_connected' = FALSE
  /\ main_pc' = "schedule"
  /\ UNCHANGED << send_data_enable, association_requested, connect_work, wq_pc >>

\* NRF_CLOUD_EVT_TRANSPORT_DISCONNECTED clears the flags ...
evt_transport_disconnected ==
  /\ main_pc = "process" /\ link # "down"
  /\ link' = "down"
  /\ send_data_enable' = 0
  /\ display_state' = "INITIALIZING"
  /\ cloud_connected' = FALSE
  /\ main_pc' = "schedule"
  /\ UNCHANGED << association_requested, connect_work, wq_pc >>

\* ... and then schedules a new connection at once.
schedule_reconnect ==
  /\ main_pc = "schedule"
  /\ connect_work' = k_work_schedule(connect_work, "queued")
  /\ main_pc' = "process"
  /\ UNCHANGED << cloud_connected, send_data_enable, association_requested,
                  display_state, wq_pc, link >>

\* error_handler(ERROR_NRF_CLOUD): with the scheduler locked the modem is
\* switched off and the system reboots, so every variable starts afresh.
sys_reboot == /\ main_pc' = "init"
              /\ cloud_connected' = FALSE
              /\ send_data_enable' = 0
              /\ association_requested' = 0
              /\ display_state' = "OFF"
              /\ connect_work' = {}
              /\ wq_pc' = "idle"
              /\ link' = "down"

\* The calls that lead to error_handler: nrf_cloud_connect() failing in the
\* main thread or in the work handler; NRF_CLOUD_EVT_ERROR,
\* nrf_cloud_sensor_attach() or nrf_cloud_disconnect() failing in an event.
cloud_error == \/ main_pc = "connecting"
               \/ wq_pc = "connecting"
               \/ main_pc = "process" /\ link # "down"

cloud_failure == cloud_error /\ sys_reboot

-----------------------------------------------------------------------------
cloud_event_handler == \/ evt_transport_connected \/ cancel_connect_work
                       \/ evt_user_association_request \/ evt_user_associated
                       \/ evt_ready
                       \/ evt_transport_disconnected \/ schedule_reconnect

cloud_connect_work == \/ work_timeout
                      \/ cloud_connect_skip \/ cloud_connect_enter
                      \/ cloud_connect_done

CloudStep == main_start \/ main_connect_done \/ cloud_connect_work \/ cloud_event_handler

CloudNext == CloudStep \/ cloud_failure

CloudSpec == CloudInit /\ [][CloudNext]_cloudVars

\* The threads run and the delay ends; which events the cloud sends, and
\* whether a call fails, is left open.
CloudFairness == /\ WF_cloudVars(main_start)
                 /\ WF_cloudVars(main_connect_done)
                 /\ WF_cloudVars(work_timeout)
                 /\ WF_cloudVars(cloud_connect_skip \/ cloud_connect_enter)
                 /\ WF_cloudVars(cloud_connect_done)
                 /\ WF_cloudVars(cancel_connect_work)
                 /\ WF_cloudVars(schedule_reconnect)

CloudFairSpec == CloudSpec /\ CloudFairness
-----------------------------------------------------------------------------
CloudTypeOK == /\ cloud_connected \in BOOLEAN
               /\ send_data_enable \in {0, 1}
               /\ association_requested \in {0, 1}
               /\ display_state \in LedPatterns
               /\ connect_work \in SUBSET WorkFlags
               /\ wq_pc \in {"idle", "connecting"}
               /\ link \in Links

\* Sensor data may be sent only while the transport is connected, the device
\* has been told so, and it is not waiting to be disconnected.
SendOnlyWhenReady == send_data_enable = 1 => cloud_connected /\ link = "ready"

\* The comment in NRF_CLOUD_EVT_TRANSPORT_CONNECTED: once the cancellation is
\* through, no retry is scheduled while the device stays connected, even when
\* the work handler was being processed at the time.
ConnectedDisarms ==
  cloud_connected /\ main_pc # "cancel" => connect_work \cap {"delayed", "queued"} = {}

\* A retry in the delay, in the queue or running.
RetryArmed == connect_work \cap {"delayed", "queued", "running"} # {}

\* While the device is not connected, an armed retry is disarmed in one way
\* only: the handler that ends had been cancelled while it ran.
RetryLostOnlyByCancel ==
  [][RetryArmed /\ ~RetryArmed' /\ ~cloud_connected' /\ main_pc' # "init"
       => "canceling" \in connect_work]_cloudVars

\* "Reconnect to nRF Cloud." (comment in NRF_CLOUD_EVT_TRANSPORT_DISCONNECTED):
\* a device that is not connected tries again, or reboots.
Reconnects ==
  main_pc = "process" /\ ~cloud_connected
    ~> cloud_connected \/ wq_pc = "connecting" \/ main_pc = "init"
=============================================================================
