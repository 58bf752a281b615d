--------------------------- MODULE FirmwareProofs ---------------------------
(***************************************************************************)
(* What every program of Firmware keeps.  LinkProofs has the lemmas of the *)
(* programs that keep a link; here are those of the others, with the same  *)
(* plan (...Starts, ...Step, or ...Typed and ...Kept), and at the end the  *)
(* invariant of a device, whatever its program, and what follows from it.  *)
(***************************************************************************)
EXTENDS LinkProofs

-----------------------------------------------------------------------------
(* The application with downloads (UdpFota).                                *)

\* The network is there before the socket, and the button before any download.
FotaLogic == /\ Fota!OneDownload /\ Fota!ConfirmedOnline
             /\ state.pc \notin {"configure", "modem", "wait_lte"} => state.registered
             /\ state.pc \in {"configure", "modem", "wait_lte", "connect", "submit", "ota",
                  "button"} =>
                  ~state.button /\ ~state.fota_work /\ state.dl = 0

\* The inductive invariant.
FotaInv == Fota!TypeOK /\ FotaLogic

\* What is assumed of the number of resets.
LEMMA ResetsSize == MaxResets \in Nat
BY FirmwareAssumption DEF FirmwareAssumption

\* The start of the program.
LEMMA FotaStarts == Fota!Init => FotaInv
BY ResetsSize DEF FotaInv, FotaLogic, Fota!TypeOK, Fota!ModemDfuResult, Fota!OneDownload,
   Fota!ConfirmedOnline, Fota!Init, Fota!Boot

\* Every action keeps the types.
LEMMA FotaTyped == ASSUME FotaInv, Fota!Next PROVE Fota!TypeOK'
<1>0. Fota!TypeOK
  BY DEF FotaInv
<1> USE <1>0, ResetsSize DEF Fota!TypeOK, Fota!ModemDfuResult
<1>1. CASE Fota!configure
  BY <1>1 DEF Fota!configure, Fota!Step
<1>2. CASE Fota!modem_configure
  BY <1>2 DEF Fota!modem_configure, Fota!Step
<1>3. CASE Fota!wait_lte
  BY <1>3 DEF Fota!wait_lte, Fota!Step
<1>4. CASE Fota!server_connect
  <2>1. CASE state' = [state EXCEPT !.fd = "connected", !.pc = "submit"]
    BY <1>4, <2>1 DEF Fota!server_connect
  <2>2. CASE state' = [state EXCEPT !.fd = "closed", !.pc = "returned"]
    BY <1>4, <2>2 DEF Fota!server_connect
  <2>3. CASE state' = [state EXCEPT !.fd = "closed", !.pc = "submit"]
    BY <1>4, <2>3 DEF Fota!server_connect
  <2> QED BY <1>4, <2>1, <2>2, <2>3 DEF Fota!server_connect
<1>5. CASE Fota!submit
  BY <1>5 DEF Fota!submit
<1>6. CASE Fota!ota_svr_start
  BY <1>6 DEF Fota!ota_svr_start
<1>7. CASE Fota!dfu_button_init
  BY <1>7, ZenonT(60) DEF Fota!dfu_button_init
<1>8. CASE Fota!led_app_version
  BY <1>8 DEF Fota!led_app_version, Fota!Step
<1>9. CASE Fota!application_init
  BY <1>9, ZenonT(60) DEF Fota!application_init
<1>10. CASE Fota!at_uart_init
  <2>1. CASE state' = [state EXCEPT !.uart = "invalid", !.pc = "uart"]
    BY <1>10, <2>1 DEF Fota!at_uart_init
  <2>2. CASE state' = [state EXCEPT !.uart = "on", !.pc = "running"]
    BY <1>10, <2>2 DEF Fota!at_uart_init
  <2>3. CASE state' = [state EXCEPT !.pc = "running"]
    BY <1>10, <2>3 DEF Fota!at_uart_init
  <2> QED BY <1>10, <2>1, <2>2, <2>3 DEF Fota!at_uart_init
<1>11. CASE Fota!lte_handler
  BY <1>11 DEF Fota!lte_handler
<1>12. CASE Fota!server_transmission_work_fn
  <2>1. CASE state' = state
    BY <1>12, <2>1 DEF Fota!server_transmission_work_fn
  <2>2. CASE state' = [state EXCEPT !.upload = FALSE, !.refused = TRUE]
    BY <1>12, <2>2 DEF Fota!server_transmission_work_fn
  <2> QED BY <1>12, <2>1, <2>2 DEF Fota!server_transmission_work_fn
<1>13. CASE Fota!dfu_button_pressed
  BY <1>13 DEF Fota!dfu_button_pressed
<1>14. CASE Fota!app_dfu_transfer_start
  <2>1. state.dl + 1 \in 0 .. 1 \/ ~state.fota_work
    BY DEF FotaInv, FotaLogic, Fota!OneDownload
  <2>2. CASE state' = [state EXCEPT !.fota_work = FALSE, !.dl = @ + 1]
    BY <1>14, <2>1, <2>2 DEF Fota!app_dfu_transfer_start
  <2>3. CASE state' = [state EXCEPT !.fota_work = FALSE, !.button = TRUE]
    BY <1>14, <2>3 DEF Fota!app_dfu_transfer_start
  <2> QED BY <1>14, <2>1, <2>2, <2>3 DEF Fota!app_dfu_transfer_start
<1>15. CASE Fota!fota_dl_handler
  <2>0. state.dl - 1 \in 0 .. 1
    BY <1>15 DEF Fota!fota_dl_handler
  <2>1. CASE state' = [state EXCEPT !.dl = @ - 1, !.button = TRUE, !.slot = "pending"]
    BY <2>0, <2>1 DEF Fota!fota_dl_handler
  <2>2. CASE state' = [state EXCEPT !.dl = @ - 1, !.button = TRUE]
    BY <2>0, <2>2 DEF Fota!fota_dl_handler
  <2> QED BY <1>15, <2>1, <2>2 DEF Fota!fota_dl_handler
<1>16. CASE Fota!reset
  BY <1>16 DEF Fota!reset, Fota!Boot
<1> QED BY <1>1, <1>2, <1>3, <1>4, <1>5, <1>6, <1>7, <1>8, <1>9, <1>10, <1>11, <1>12, <1>13,
          <1>14, <1>15, <1>16 DEF Fota!Next, Fota!main, Fota!WorkQueue, Fota!Event

\* ... and the rest of the invariant.
LEMMA FotaKept == ASSUME FotaInv, Fota!Next PROVE FotaLogic'
<1> USE DEF FotaInv, FotaLogic, Fota!TypeOK, Fota!OneDownload, Fota!ConfirmedOnline
<1>1. CASE Fota!configure
  BY <1>1 DEF Fota!configure, Fota!Step
<1>2. CASE Fota!modem_configure
  BY <1>2 DEF Fota!modem_configure, Fota!Step
<1>3. CASE Fota!wait_lte
  BY <1>3 DEF Fota!wait_lte, Fota!Step
<1>4. CASE Fota!server_connect
  <2>1. CASE state' = [state EXCEPT !.fd = "connected", !.pc = "submit"]
    BY <1>4, <2>1 DEF Fota!server_connect
  <2>2. CASE state' = [state EXCEPT !.fd = "closed", !.pc = "returned"]
    BY <1>4, <2>2 DEF Fota!server_connect
  <2>3. CASE state' = [state EXCEPT !.fd = "closed", !.pc = "submit"]
    BY <1>4, <2>3 DEF Fota!server_connect
  <2> QED BY <1>4, <2>1, <2>2, <2>3 DEF Fota!server_connect
<1>5. CASE Fota!submit
  BY <1>5 DEF Fota!submit
<1>6. CASE Fota!ota_svr_start
  BY <1>6 DEF Fota!ota_svr_start
<1>7. CASE Fota!dfu_button_init
  BY <1>7, ZenonT(60) DEF Fota!dfu_button_init
<1>8. CASE Fota!led_app_version
  BY <1>8 DEF Fota!led_app_version, Fota!Step
<1>9. CASE Fota!application_init
  BY <1>9, ZenonT(60) DEF Fota!application_init
<1>10. CASE Fota!at_uart_init
  <2>1. CASE state' = [state EXCEPT !.uart = "invalid", !.pc = "uart"]
    BY <1>10, <2>1 DEF Fota!at_uart_init
  <2>2. CASE state' = [state EXCEPT !.uart = "on", !.pc = "running"]
    BY <1>10, <2>2 DEF Fota!at_uart_init
  <2>3. CASE state' = [state EXCEPT !.pc = "running"]
    BY <1>10, <2>3 DEF Fota!at_uart_init
  <2> QED BY <1>10, <2>1, <2>2, <2>3 DEF Fota!at_uart_init
<1>11. CASE Fota!lte_handler
  BY <1>11 DEF Fota!lte_handler
<1>12. CASE Fota!server_transmission_work_fn
  <2>1. CASE state' = state
    BY <1>12, <2>1 DEF Fota!server_transmission_work_fn
  <2>2. CASE state' = [state EXCEPT !.upload = FALSE, !.refused = TRUE]
    BY <1>12, <2>2 DEF Fota!server_transmission_work_fn
  <2> QED BY <1>12, <2>1, <2>2 DEF Fota!server_transmission_work_fn
<1>13. CASE Fota!dfu_button_pressed
  BY <1>13 DEF Fota!dfu_button_pressed
<1>14. CASE Fota!app_dfu_transfer_start
  <2>1. CASE state' = [state EXCEPT !.fota_work = FALSE, !.dl = @ + 1]
    BY <1>14, <2>1 DEF Fota!app_dfu_transfer_start
  <2>2. CASE state' = [state EXCEPT !.fota_work = FALSE, !.button = TRUE]
    BY <1>14, <2>2 DEF Fota!app_dfu_transfer_start
  <2> QED BY <1>14, <2>1, <2>2 DEF Fota!app_dfu_transfer_start
<1>15. CASE Fota!fota_dl_handler
  <2>1. CASE state' = [state EXCEPT !.dl = @ - 1, !.button = TRUE, !.slot = "pending"]
    BY <1>15, <2>1 DEF Fota!fota_dl_handler
  <2>2. CASE state' = [state EXCEPT !.dl = @ - 1, !.button = TRUE]
    BY <1>15, <2>2 DEF Fota!fota_dl_handler
  <2> QED BY <1>15, <2>1, <2>2 DEF Fota!fota_dl_handler
<1>16. CASE Fota!reset
  BY <1>16 DEF Fota!reset, Fota!Boot
<1> QED BY <1>1, <1>2, <1>3, <1>4, <1>5, <1>6, <1>7, <1>8, <1>9, <1>10, <1>11, <1>12, <1>13,
          <1>14, <1>15, <1>16 DEF Fota!Next, Fota!main, Fota!WorkQueue, Fota!Event

-----------------------------------------------------------------------------
(* Periodic uploads (UdpLowPower).                                          *)

\* Before the first upload nothing is on.
UdpLogic == /\ Udp!SleepsBetween
            /\ state.prog \in Udp!EachTime /\ state.pc = "main" =>
                 state.modem = "off" /\ state.fd = "closed"

\* The inductive invariant.
UdpInv == Udp!TypeOK /\ UdpLogic

\* What is assumed of the number of reboots.
LEMMA RebootsSize == MaxReboots \in Nat
BY FirmwareAssumption DEF FirmwareAssumption

\* The start of the program.
LEMMA UdpStarts == Udp!Init => UdpInv
BY RebootsSize DEF UdpInv, UdpLogic, Udp!TypeOK, Udp!Once, Udp!EachTime, Udp!SleepsBetween,
   Udp!Init, Udp!Boot

\* A call that fails.
LEMMA UdpFails ==
  ASSUME Udp!TypeOK, NEW call \in {"init", "attach", "connect", "send", "recv", "offline"},
         NEW pc \in {"wait", "idle", "send", "end", "returned"}, Udp!FailsAt(call, pc)
  PROVE  Udp!TypeOK'
<1>1. state.failed \cup {call} \in SUBSET {"init", "attach", "connect", "send", "recv",
         "offline"}
  BY DEF Udp!TypeOK
<1> QED BY <1>1, Zenon DEF Udp!TypeOK, Udp!FailsAt

\* Every action keeps the types.
LEMMA UdpTyped == ASSUME Udp!TypeOK, Udp!Next PROVE Udp!TypeOK'
<1> USE RebootsSize DEF Udp!TypeOK, Udp!Once, Udp!EachTime
<1>1. CASE Udp!modem_configure
  <2>1. CASE state' = [state EXCEPT !.modem = "on", !.pc = "wait"]
    BY <2>1
  <2>2. CASE Udp!FailsAt("attach", "wait")
    BY <2>2, UdpFails
  <2> QED BY <1>1, <2>1, <2>2 DEF Udp!modem_configure, Udp!At, Udp!Goto
<1>2. CASE Udp!main_wait
  BY <1>2 DEF Udp!main_wait
<1>3. CASE Udp!server_connect
  <2>1. CASE state' = [state EXCEPT !.fd = "open", !.pc = "idle"]
    BY <2>1
  <2>2. CASE Udp!FailsAt("connect", "returned")
    BY <2>2, UdpFails
  <2>3. CASE Udp!FailsAt("connect", "idle")
    BY <2>3, UdpFails
  <2> QED BY <1>3, <2>1, <2>2, <2>3 DEF Udp!server_connect, Udp!At, Udp!Goto
<1>4. CASE Udp!main_each_time
  <2>1. CASE state' = [state EXCEPT !.pc = "idle"]
    BY <2>1
  <2>2. CASE Udp!FailsAt("init", "idle")
    BY <2>2, UdpFails
  <2> QED BY <1>4, <2>1, <2>2 DEF Udp!main_each_time, Udp!At, Udp!Goto
<1>5. CASE Udp!transmission_test
  <2>1. CASE state' = [state EXCEPT !.pc = "idle"]
    BY <2>1
  <2>2. CASE Udp!FailsAt("send", "returned")
    BY <2>2, UdpFails
  <2> QED BY <1>5, <2>1, <2>2 DEF Udp!transmission_test, Udp!At, Udp!Goto
<1>6. CASE Udp!transmission_two_way
  <2>1. CASE state' = [state EXCEPT !.pc = "recv"]
    BY <2>1
  <2>2. CASE Udp!FailsAt("send", "returned")
    BY <2>2, UdpFails
  <2>3. CASE state' = [state EXCEPT !.pc = "idle"]
    BY <2>3
  <2>4. CASE Udp!FailsAt("recv", "idle")
    BY <2>4, UdpFails
  <2>5. CASE state' = [state EXCEPT !.failed = @ \cup {"recv", "send"}, !.pc = "returned"]
    BY <2>5
  <2> QED BY <1>6, <2>1, <2>2, <2>3, <2>4, <2>5 DEF Udp!transmission_two_way, Udp!At, Udp!Goto
<1>7. CASE Udp!transmission_core_off
  <2>1. CASE state' = [state EXCEPT !.pc = "deinit"]
    BY <2>1
  <2>2. CASE Udp!FailsAt("send", "returned")
    BY <2>2, UdpFails
  <2>3. CASE state' = [state EXCEPT !.modem = "off", !.registered = FALSE, !.pc = "system_off"]
    BY <2>3
  <2> QED BY <1>7, <2>1, <2>2, <2>3 DEF Udp!transmission_core_off, Udp!At, Udp!Goto
<1>8. CASE Udp!attach
  <2>1. CASE state' = [state EXCEPT !.modem = "on", !.pc = "wait"]
    BY <2>1
  <2>2. CASE Udp!FailsAt("attach", "wait")
    BY <2>2, UdpFails
  <2> QED BY <1>8, <2>1, <2>2 DEF Udp!attach, Udp!At, Udp!Goto
<1>9. CASE Udp!worker_wait
  BY <1>9 DEF Udp!worker_wait
<1>10. CASE Udp!reset_loop
  BY <1>10 DEF Udp!reset_loop, Udp!At, Udp!Boot
<1>11. CASE Udp!connect_onoff
  <2>1. CASE state' = [state EXCEPT !.fd = "open", !.pc = "send"]
    BY <2>1
  <2>2. CASE Udp!FailsAt("connect", "end")
    BY <2>2, UdpFails
  <2>3. CASE Udp!FailsAt("connect", "send")
    BY <2>3, UdpFails
  <2> QED BY <1>11, <2>1, <2>2, <2>3 DEF Udp!connect_onoff, Udp!At, Udp!Goto
<1>12. CASE Udp!connect_cfun
  <2>1. CASE state' = [state EXCEPT !.fd = "open", !.pc = "send"]
    BY <2>1
  <2>2. CASE Udp!FailsAt("connect", "returned")
    BY <2>2, UdpFails
  <2> QED BY <1>12, <2>1, <2>2 DEF Udp!connect_cfun, Udp!At, Udp!Goto
<1>13. CASE Udp!exchange
  <2>1. CASE state' = [state EXCEPT !.pc = "recv"]
    BY <2>1
  <2>2. CASE Udp!FailsAt("send", "end")
    BY <2>2, UdpFails
  <2>3. CASE state' = [state EXCEPT !.pc = "end"]
    BY <2>3
  <2>4. CASE Udp!FailsAt("recv", "end")
    BY <2>4, UdpFails
  <2> QED BY <1>13, <2>1, <2>2, <2>3, <2>4 DEF Udp!exchange, Udp!At, Udp!Goto
<1>14. CASE Udp!workerror
  <2>1. CASE state' = [state EXCEPT !.fd = "closed", !.modem = "off", !.registered = FALSE,
           !.pc = "idle"]
    BY <2>1
  <2>2. CASE state' = [state EXCEPT !.fd = "closed", !.failed = @ \cup {"offline"},
           !.pc = "idle"]
    BY <2>2
  <2> QED BY <1>14, <2>1, <2>2 DEF Udp!workerror, Udp!At, Udp!Goto
<1>15. CASE Udp!lte_handler
  BY <1>15 DEF Udp!lte_handler
<1>16. CASE Udp!network_lost
  BY <1>16 DEF Udp!network_lost
<1>17. CASE Udp!modem_event_reset_loop
  BY <1>17 DEF Udp!modem_event_reset_loop
<1> QED BY <1>1, <1>2, <1>3, <1>4, <1>5, <1>6, <1>7, <1>8, <1>9, <1>10, <1>11, <1>12, <1>13,
          <1>14, <1>15, <1>16, <1>17 DEF Udp!Next, Udp!Thread, Udp!main,
          Udp!server_transmission_work_fn, Udp!Modem

\* ... and the rest of the invariant.
LEMMA UdpKept == ASSUME UdpInv, Udp!Next PROVE UdpLogic'
<1> USE DEF UdpInv, UdpLogic, Udp!TypeOK, Udp!Once, Udp!EachTime, Udp!SleepsBetween
<1>1. CASE Udp!modem_configure
  BY <1>1 DEF Udp!modem_configure, Udp!FailsAt
<1>2. CASE Udp!main_wait
  BY <1>2 DEF Udp!main_wait
<1>3. CASE Udp!server_connect
  BY <1>3 DEF Udp!server_connect, Udp!FailsAt
<1>4. CASE Udp!main_each_time
  BY <1>4 DEF Udp!main_each_time, Udp!FailsAt, Udp!Goto
<1>5. CASE Udp!transmission_test
  BY <1>5 DEF Udp!transmission_test, Udp!At, Udp!FailsAt, Udp!Goto
<1>6. CASE Udp!transmission_two_way
  BY <1>6 DEF Udp!transmission_two_way, Udp!At, Udp!FailsAt, Udp!Goto
<1>7. CASE Udp!transmission_core_off
  BY <1>7 DEF Udp!transmission_core_off, Udp!At, Udp!FailsAt, Udp!Goto
<1>8. CASE Udp!attach
  BY <1>8 DEF Udp!attach, Udp!FailsAt
<1>9. CASE Udp!worker_wait
  BY <1>9 DEF Udp!worker_wait
<1>10. CASE Udp!reset_loop
  BY <1>10 DEF Udp!reset_loop, Udp!At, Udp!Boot
<1>11. CASE Udp!connect_onoff
  BY <1>11 DEF Udp!connect_onoff, Udp!At, Udp!FailsAt
<1>12. CASE Udp!connect_cfun
  BY <1>12 DEF Udp!connect_cfun, Udp!At, Udp!FailsAt
<1>13. CASE Udp!exchange
  BY <1>13 DEF Udp!exchange, Udp!FailsAt, Udp!Goto
<1>14. CASE Udp!workerror
  BY <1>14, ZenonT(60) DEF Udp!workerror
<1>15. CASE Udp!lte_handler
  BY <1>15 DEF Udp!lte_handler
<1>16. CASE Udp!network_lost
  BY <1>16 DEF Udp!network_lost
<1>17. CASE Udp!modem_event_reset_loop
  BY <1>17 DEF Udp!modem_event_reset_loop
<1> QED BY <1>1, <1>2, <1>3, <1>4, <1>5, <1>6, <1>7, <1>8, <1>9, <1>10, <1>11, <1>12, <1>13,
          <1>14, <1>15, <1>16, <1>17 DEF Udp!Next, Udp!Thread, Udp!main,
          Udp!server_transmission_work_fn, Udp!Modem

-----------------------------------------------------------------------------
(* The MQTT clients (MqttClient).                                           *)

\* The records of the program.
MqttRecord ==
  [prog : {"secure", "non_secure"},
   pc : {"provision", "modem", "init", "connect", "poll", "payload", "disconnect", "returned"},
   conn : {"none", "connecting", "up"}, subscribed : BOOLEAN,
   backlog : 0 .. MaxBacklog, unacked : 0 .. Mqtt!Window, buttons : BOOLEAN]

\* What is assumed of the backlog.
LEMMA BacklogSize == MaxBacklog \in Nat
BY FirmwareAssumption DEF FirmwareAssumption

\* A message that comes back, and a transport that is closed.
LEMMA MqttEcho == ASSUME NEW m \in MqttRecord PROVE Mqtt!Echo(m) \in MqttRecord
BY BacklogSize DEF MqttRecord, Mqtt!Echo, Mqtt!Window

\* A connection that is closed.
LEMMA MqttClosed == ASSUME NEW m \in MqttRecord PROVE Mqtt!Closed(m) \in MqttRecord
<1>1. 0 \in 0 .. MaxBacklog /\ 0 \in 0 .. Mqtt!Window
  BY BacklogSize DEF Mqtt!Window
<1> QED BY <1>1, Zenon DEF MqttRecord, Mqtt!Closed

\* The start of the program.
LEMMA MqttStarts == Mqtt!Init => Mqtt!TypeOK
BY BacklogSize DEF Mqtt!TypeOK, Mqtt!Window, Mqtt!Init, Mqtt!Boot

\* Every action keeps the invariant.
LEMMA MqttStep == ASSUME Mqtt!TypeOK, Mqtt!Next PROVE Mqtt!TypeOK'
<1> USE BacklogSize DEF Mqtt!TypeOK, MqttRecord, Mqtt!Window
<1>1. CASE Mqtt!certificates_provision
  BY <1>1 DEF Mqtt!certificates_provision, Mqtt!At, Mqtt!Goto
<1>2. CASE Mqtt!modem_configure
  BY <1>2 DEF Mqtt!modem_configure, Mqtt!At, Mqtt!Goto
<1>3. CASE Mqtt!client_init
  BY <1>3 DEF Mqtt!client_init, Mqtt!At, Mqtt!Goto
<1>4. CASE Mqtt!connect
  BY <1>4 DEF Mqtt!connect, Mqtt!At, Mqtt!Goto, Mqtt!Connecting
<1>5. CASE Mqtt!modem_configure_once
  BY <1>5 DEF Mqtt!modem_configure_once, Mqtt!At, Mqtt!Goto
<1>6. CASE Mqtt!client_init_plain
  BY <1>6 DEF Mqtt!client_init_plain, Mqtt!At, Mqtt!Goto
<1>7. CASE Mqtt!connect_once
  BY <1>7 DEF Mqtt!connect_once, Mqtt!At, Mqtt!Goto, Mqtt!Connecting
<1>8. CASE Mqtt!publish_event
  <2>1. state.backlog - 1 \in 0 .. MaxBacklog /\ state.unacked + 1 \in 0 .. Mqtt!Window
    BY <1>8 DEF Mqtt!publish_event
  <2>2. state' = [state EXCEPT !.backlog = @ - 1, !.unacked = @ + 1, !.pc = "payload"]
    BY <1>8 DEF Mqtt!publish_event
  <2> HIDE DEF Mqtt!Window
  <2> QED BY <2>1, <2>2, Zenon
<1>9. CASE Mqtt!connack
  <2>1. CASE state' = [state EXCEPT !.conn = "up", !.subscribed = TRUE]
    BY <2>1
  <2>2. CASE state' = [Mqtt!Closed(state) EXCEPT !.pc = "disconnect"]
    BY <2>2, MqttClosed, Zenon
  <2> QED BY <1>9, <2>1, <2>2 DEF Mqtt!connack
<1>10. CASE Mqtt!publish_secure
  <2> DEFINE acked == [state EXCEPT !.unacked = IF @ > 0 THEN @ - 1 ELSE 0]
  <2>1. acked \in MqttRecord
    OBVIOUS
  <2> HIDE DEF acked
  <2>2. CASE state' = [Mqtt!Echo(acked) EXCEPT !.pc = "poll"]
    BY <2>1, <2>2, MqttEcho, Zenon
  <2>3. CASE state' = [Mqtt!Closed(acked) EXCEPT !.pc = "poll"]
    BY <2>1, <2>3, MqttClosed, Zenon
  <2> QED BY <1>10, <2>2, <2>3 DEF Mqtt!publish_secure, acked
<1>11. CASE Mqtt!publish_non_secure
  <2>1. CASE state' = [Mqtt!Echo(state) EXCEPT !.pc = "poll"]
    BY <2>1, MqttEcho, Zenon
  <2>2. CASE state' = [Mqtt!Closed(state) EXCEPT !.pc = "poll"]
    BY <2>2, MqttClosed, Zenon
  <2> QED BY <1>11, <2>1, <2>2 DEF Mqtt!publish_non_secure
<1>12. CASE Mqtt!disconnect
  <2>1. state' = [Mqtt!Closed(state) EXCEPT !.pc = "connect"]
    BY <1>12 DEF Mqtt!disconnect
  <2> QED BY <2>1, MqttClosed, Zenon
<1>13. CASE Mqtt!disconnect_last
  <2>1. state' = [Mqtt!Closed(state) EXCEPT !.pc = "returned"]
    BY <1>13 DEF Mqtt!disconnect_last
  <2> QED BY <2>1, MqttClosed, Zenon
<1>14. CASE Mqtt!poll_error
  BY <1>14 DEF Mqtt!poll_error, Mqtt!Goto
<1>15. CASE Mqtt!button_handler
  BY <1>15, MqttEcho, MqttClosed, Zenon DEF Mqtt!button_handler
<1>16. CASE Mqtt!message
  BY <1>16, MqttEcho, Zenon DEF Mqtt!message
<1>17. CASE Mqtt!transport_lost
  BY <1>17, MqttClosed, Zenon DEF Mqtt!transport_lost
<1> QED BY <1>1, <1>2, <1>3, <1>4, <1>5, <1>6, <1>7, <1>8, <1>9, <1>10, <1>11, <1>12, <1>13,
          <1>14, <1>15, <1>16, <1>17 DEF Mqtt!Next, Mqtt!main, Mqtt!mqtt_evt_handler

-----------------------------------------------------------------------------
(* Measurements of the cells (MultiCell).                                   *)

\* The types, and the measurement that is not lost.
CellInv == Cell!TypeOK /\ Cell!NoLostMeasurement

\* The start of the program.
LEMMA CellStarts == Cell!Init => CellInv
BY DEF CellInv, Cell!TypeOK, Cell!Cells, Cell!NoLostMeasurement, Cell!Init

\* Every action keeps the invariant.
LEMMA CellStep == ASSUME CellInv, Cell!Next PROVE CellInv'
<1> USE DEF CellInv, Cell!TypeOK, Cell!Cells, Cell!NoLostMeasurement
<1>1. CASE Cell!main_init
  BY <1>1 DEF Cell!main_init
<1>2. CASE Cell!lte_connect
  BY <1>2 DEF Cell!lte_connect
<1>3. CASE Cell!main_wait
  BY <1>3 DEF Cell!main_wait
<1>4. CASE Cell!get_device_id
  BY <1>4 DEF Cell!get_device_id
<1>5. CASE Cell!main_take
  BY <1>5 DEF Cell!main_take
<1>6. CASE Cell!print_cell_data
  BY <1>6 DEF Cell!print_cell_data
<1>7. CASE Cell!multicell_location_get
  BY <1>7 DEF Cell!multicell_location_get
<1>8. CASE Cell!button_handler
  BY <1>8 DEF Cell!button_handler, Cell!start_cell_measurements
<1>9. CASE Cell!cell_change_search_work_fn
  BY <1>9 DEF Cell!cell_change_search_work_fn, Cell!start_cell_measurements
<1>10. CASE Cell!periodic_search_work_fn
  BY <1>10 DEF Cell!periodic_search_work_fn, Cell!start_cell_measurements
<1>11. CASE Cell!registered
  BY <1>11 DEF Cell!registered
<1>12. CASE Cell!cell_update
  BY <1>12 DEF Cell!cell_update
<1>13. CASE Cell!neighbor_cell_meas
  BY <1>13, ZenonT(60) DEF Cell!neighbor_cell_meas
<1> QED BY <1>1, <1>2, <1>3, <1>4, <1>5, <1>6, <1>7, <1>8, <1>9, <1>10, <1>11, <1>12, <1>13
          DEF Cell!Next, Cell!main, Cell!lte_handler

-----------------------------------------------------------------------------
(* Assisted GPS (AgpsClient).                                               *)

\* The types, and the reboot that is held.
AgpsInv == Agps!TypeOK /\ Agps!RebootHeld
           /\ (state.pc \in {"buttons", "connect", "running"} \/ state.cloud # "off"
                => state.gps # "unbound")

\* The start of the program.
LEMMA AgpsStarts == Agps!Init => AgpsInv
BY DEF AgpsInv, Agps!TypeOK, Agps!RebootHeld, Agps!Init, Agps!Boot

\* Every action keeps the invariant.
LEMMA AgpsStep == ASSUME AgpsInv, Agps!Next PROVE AgpsInv'
<1> USE DEF AgpsInv, Agps!TypeOK, Agps!RebootHeld
<1>1. CASE Agps!cloud_init
  BY <1>1 DEF Agps!cloud_init, Agps!Step
<1>2. CASE Agps!modem_configure
  BY <1>2 DEF Agps!modem_configure, Agps!Step
<1>3. CASE Agps!gps_init
  BY <1>3 DEF Agps!gps_init, Agps!Step
<1>4. CASE Agps!buttons_init
  BY <1>4 DEF Agps!buttons_init
<1>5. CASE Agps!cloud_connect
  BY <1>5 DEF Agps!cloud_connect, Agps!Step
<1>6. CASE Agps!ready
  BY <1>6 DEF Agps!ready
<1>7. CASE Agps!cloud_lost
  BY <1>7 DEF Agps!cloud_lost
<1>8. CASE Agps!data_received
  BY <1>8 DEF Agps!data_received
<1>9. CASE Agps!button_pressed
  BY <1>9 DEF Agps!button_pressed
<1>10. CASE Agps!button_released
  BY <1>10 DEF Agps!button_released
<1>11. CASE Agps!reboot_work_fn
  BY <1>11 DEF Agps!reboot_work_fn
<1>12. CASE Agps!sys_reboot
  BY <1>12 DEF Agps!sys_reboot, Agps!Boot
<1>13. CASE Agps!gps_start_work_fn
  BY <1>13 DEF Agps!gps_start_work_fn
<1> QED BY <1>1, <1>2, <1>3, <1>4, <1>5, <1>6, <1>7, <1>8, <1>9, <1>10, <1>11, <1>12, <1>13
          DEF Agps!Next, Agps!main, Agps!cloud_event_handler, Agps!WorkQueue

-----------------------------------------------------------------------------
(* The client of the current time (CtsClient).                              *)

\* The types, and the subscription.
CtsInv == Cts!TypeOK /\ Cts!SubscribedWhenReady

\* The start of the program.
LEMMA CtsStarts == Cts!Init => CtsInv
BY DEF CtsInv, Cts!TypeOK, Cts!SubscribedWhenReady, Cts!Init

\* Every action keeps the invariant.
LEMMA CtsStep == ASSUME CtsInv, Cts!Next PROVE CtsInv'
<1> USE DEF CtsInv, Cts!TypeOK, Cts!SubscribedWhenReady
<1>1. CASE Cts!main
  BY <1>1 DEF Cts!main
<1>2. CASE Cts!connected
  BY <1>2 DEF Cts!connected
<1>3. CASE Cts!disconnected
  BY <1>3 DEF Cts!disconnected
<1>4. CASE Cts!discover_completed_cb
  <2>1. CASE state' = [state EXCEPT !.dm = FALSE]
    BY <1>4, <2>1 DEF Cts!discover_completed_cb, Cts!enable_notifications
  <2>2. CASE state' = [state EXCEPT !.dm = FALSE, !.has_cts = TRUE, !.client = "current"]
    BY <1>4, <2>2 DEF Cts!discover_completed_cb, Cts!enable_notifications
  <2>3. CASE state' = [state EXCEPT !.dm = FALSE, !.has_cts = TRUE, !.client = "current",
           !.subscribed = TRUE]
    BY <1>4, <2>3 DEF Cts!discover_completed_cb, Cts!enable_notifications
  <2>4. CASE state' = [state EXCEPT !.dm = FALSE, !.has_cts = TRUE, !.client = "current",
           !.failed = TRUE]
    BY <1>4, <2>4 DEF Cts!discover_completed_cb, Cts!enable_notifications
  <2> QED BY <1>4, <2>1, <2>2, <2>3, <2>4 DEF Cts!discover_completed_cb, Cts!enable_notifications
<1>5. CASE Cts!security_changed
  BY <1>5, ZenonT(60) DEF Cts!security_changed, Cts!enable_notifications
<1>6. CASE Cts!pairing_failed
  BY <1>6 DEF Cts!pairing_failed, Cts!disconnected
<1> QED BY <1>1, <1>2, <1>3, <1>4, <1>5, <1>6 DEF Cts!Next

-----------------------------------------------------------------------------
(* Control of the transmit power (PowerControl).                            *)

\* Without the callbacks nothing is known of a connection, and a handle is that of the
\* connection that is known.
PwrLogic == /\ Pwr!ConnKnown /\ Pwr!LevelChosen
            /\ ~state.registered => ~state.default_conn /\ state.handle = "none"
            /\ state.handle = "current" => state.default_conn \/ ~state.up
            /\ state.missed => state.up

\* The inductive invariant.
PwrInv == Pwr!TypeOK /\ PwrLogic

\* What is assumed of the levels of power.
LEMMA LevelsSize == Levels \in Nat /\ Levels > 0
BY FirmwareAssumption DEF FirmwareAssumption

\* The start of the program.
LEMMA PwrStarts == Pwr!Init => PwrInv
BY LevelsSize DEF PwrInv, PwrLogic, Pwr!TypeOK, Pwr!ConnKnown, Pwr!LevelChosen, Pwr!Init

\* Every action keeps the types.
LEMMA PwrTyped == ASSUME Pwr!TypeOK, Pwr!Next PROVE Pwr!TypeOK'
<1> USE LevelsSize DEF Pwr!TypeOK
<1>1. CASE Pwr!bt_enable
  BY <1>1 DEF Pwr!bt_enable
<1>2. CASE Pwr!bt_ready
  BY <1>2, ZenonT(60) DEF Pwr!bt_ready
<1>3. CASE Pwr!get_tx_power
  BY <1>3 DEF Pwr!get_tx_power
<1>4. CASE Pwr!bt_conn_cb_register
  BY <1>4 DEF Pwr!bt_conn_cb_register
<1>5. CASE Pwr!main
  BY <1>5 DEF Pwr!main
<1>6. CASE Pwr!connected
  <2> DEFINE h == IF state.handle = "none" THEN state.handle ELSE "old"
             up == [state EXCEPT !.up = TRUE, !.level = "default", !.handle = h]
  <2>0. h \in {"none", "current", "old"} /\ h # "current" /\ (state.handle = "none"
           => h = "none")
    OBVIOUS
  <2>1. up.handle = h
    OBVIOUS
  <2>2. CASE ~state.registered
    <3>1. state' = [up EXCEPT !.missed = TRUE]
      BY <1>6, <2>2 DEF Pwr!connected
    <3> HIDE DEF h
    <3> QED BY <1>6, <2>0, <2>2, <3>1, ZenonT(60) DEF Pwr!connected
  <2>3. CASE state.registered
    <3>1. PICK c \in {h, "current"} : state' = [up EXCEPT !.default_conn = TRUE, !.handle = c]
      BY <1>6, <2>1, <2>3, Zenon DEF Pwr!connected
    <3>2. c \in {"none", "current", "old"}
      BY <2>0
    <3> HIDE DEF h
    <3> QED BY <1>6, <2>0, <2>3, <3>1, <3>2 DEF Pwr!connected
  <2> QED BY <2>2, <2>3
<1>7. CASE Pwr!disconnected
  BY <1>7 DEF Pwr!disconnected
<1>8. CASE Pwr!beacon_level
  <2>0. (state.idx + 1) % Levels \in 0 .. (Levels - 1)
    OBVIOUS
  <2>1. CASE state' = [state EXCEPT !.thread = "beacon", !.beacon = state.idx]
    BY <2>1
  <2>2. CASE state' = [state EXCEPT !.thread = "look", !.idx = (@ + 1) % Levels]
    BY <2>0, <2>2
  <2> QED BY <1>8, <2>1, <2>2 DEF Pwr!beacon_level
<1>9. CASE Pwr!read_conn_rssi
  <2>0. 0 \in 0 .. (Levels - 1)
    OBVIOUS
  <2>1. PICK r \in {"unread", "near", "mid", "far"} :
          state' = [state EXCEPT !.thread = "set", !.idx = 0, !.rssi = r]
    BY <1>9, ZenonT(60) DEF Pwr!read_conn_rssi
  <2> QED BY <2>0, <2>1, Zenon
<1>10. CASE Pwr!set_tx_power
  <2>1. PICK level \in {"default", "lowest", "middle", "highest"} :
          state' = [state EXCEPT !.thread = "look", !.level = level]
    BY <1>10, ZenonT(60) DEF Pwr!set_tx_power, Pwr!Adaptive
  <2> QED BY <2>1, Zenon
<1> QED BY <1>1, <1>2, <1>3, <1>4, <1>5, <1>6, <1>7, <1>8, <1>9, <1>10 DEF Pwr!Next,
          Pwr!modulate_tx_power

\* ... and the rest of the invariant.
LEMMA PwrKept == ASSUME PwrInv, Pwr!Next PROVE PwrLogic'
<1> USE DEF PwrInv, PwrLogic, Pwr!TypeOK, Pwr!ConnKnown, Pwr!LevelChosen
<1>1. CASE Pwr!bt_enable
  BY <1>1 DEF Pwr!bt_enable
<1>2. CASE Pwr!bt_ready
  BY <1>2 DEF Pwr!bt_ready
<1>3. CASE Pwr!get_tx_power
  BY <1>3 DEF Pwr!get_tx_power
<1>4. CASE Pwr!bt_conn_cb_register
  BY <1>4 DEF Pwr!bt_conn_cb_register
<1>5. CASE Pwr!main
  BY <1>5 DEF Pwr!main
<1>6. CASE Pwr!connected
  <2> DEFINE h == IF state.handle = "none" THEN state.handle ELSE "old"
             up == [state EXCEPT !.up = TRUE, !.level = "default", !.handle = h]
  <2>0. h \in {"none", "current", "old"} /\ h # "current" /\ (state.handle = "none"
           => h = "none")
    OBVIOUS
  <2>1. up.handle = h
    OBVIOUS
  <2>2. CASE ~state.registered
    <3>1. state' = [up EXCEPT !.missed = TRUE]
      BY <1>6, <2>2 DEF Pwr!connected
    <3> HIDE DEF h
    <3> QED BY <1>6, <2>0, <2>2, <3>1 DEF Pwr!connected
  <2>3. CASE state.registered
    <3>1. PICK c \in {h, "current"} : state' = [up EXCEPT !.default_conn = TRUE, !.handle = c]
      BY <1>6, <2>1, <2>3, Zenon DEF Pwr!connected
    <3>2. c \in {"none", "current", "old"}
      BY <2>0
    <3> HIDE DEF h
    <3> QED BY <1>6, <2>0, <2>3, <3>1, <3>2 DEF Pwr!connected
  <2> QED BY <2>2, <2>3
<1>7. CASE Pwr!disconnected
  BY <1>7 DEF Pwr!disconnected
<1>8. CASE Pwr!beacon_level
  BY <1>8 DEF Pwr!beacon_level
<1>9. CASE Pwr!read_conn_rssi
  BY <1>9 DEF Pwr!read_conn_rssi
<1>10. CASE Pwr!set_tx_power
  BY <1>10 DEF Pwr!set_tx_power, Pwr!Adaptive
<1> QED BY <1>1, <1>2, <1>3, <1>4, <1>5, <1>6, <1>7, <1>8, <1>9, <1>10 DEF Pwr!Next,
          Pwr!modulate_tx_power

-----------------------------------------------------------------------------
(* The calls between two cores (CoreRpc).                                   *)

\* The records of the program.
RpcRecord ==
  [main : {"init", "addr", "done", "returned"}, adv : BOOLEAN, current_conn : BOOLEAN,
   rx : {"idle", "up", "down", "nus", "smp"}, notify : 0 .. TxBufs,
   ble_conn_ok : BOOLEAN, int : BOOLEAN, nus_op : {"wait", "given"},
   bt_addr : BOOLEAN, m_connected : BOOLEAN, smp : {"idle", "mtu", "send"},
   requests : 0 .. SmpBufs, thread1 : {"wait", "nus", "sleep"}, uart : {"get", "nus", "send"},
   fifo_rx : 0 .. Heap, fifo_tx : 0 .. Heap, tx : BOOLEAN, refused : SUBSET Rpc!Senders,
   fault : BOOLEAN]

\* The buffers fit into the heap, each thread has at most one that was refused, a report
\* under way is the latest, and the request that is handled has its buffer.
RpcLogic ==
  /\ Rpc!AppKnowsLink
  /\ ~state.tx => state.fifo_tx + Rpc!Bool("uart" \in state.refused)
                                + Rpc!Bool("pool" \in state.refused) <= 2
  /\ Rpc!Free >= 0
  /\ state.rx = "up" => state.current_conn
  /\ state.rx = "down" => ~state.current_conn
  /\ state.smp # "idle" => state.requests > 0

\* The inductive invariant.
RpcInv == Rpc!TypeOK /\ RpcLogic

\* What is assumed of the heap and of the buffers.
LEMMA BuffersSize == Heap \in Nat /\ Heap > 0 /\ TxBufs \in Nat /\ SmpBufs \in Nat
BY FirmwareAssumption DEF FirmwareAssumption

\* The start of the program.
LEMMA RpcStarts == Rpc!Init => RpcInv
BY BuffersSize DEF RpcInv, RpcLogic, Rpc!TypeOK, Rpc!Senders, Rpc!AppKnowsLink, Rpc!Bool,
   Rpc!Free,
   Rpc!Init

\* A packet that is sent, or waits for a buffer.
LEMMA RpcNotify ==
  ASSUME Rpc!TypeOK, NEW r \in RpcRecord, r.notify = state.notify, NEW s \in Rpc!Notify(r)
  PROVE  s \in RpcRecord /\ (s = r \/ s = [r EXCEPT !.notify = r.notify + 1])
<1>1. CASE s = r
  BY <1>1
<1>2. CASE s = [r EXCEPT !.notify = r.notify + 1] /\ state.notify < TxBufs
  <2>1. r.notify + 1 \in 0 .. TxBufs
    BY <1>2, BuffersSize DEF RpcRecord
  <2> QED BY <1>2, <2>1, Zenon DEF RpcRecord
<1> QED BY <1>1, <1>2 DEF Rpc!Notify

\* There is room for what is refused or received.
LEMMA RpcRoom ==
  ASSUME RpcInv
  PROVE  /\ Rpc!Free # 0 => state.fifo_rx + 1 \in 0 .. Heap
         /\ state.refused # {} => state.fifo_tx + 1 \in 0 .. Heap
BY BuffersSize DEF RpcInv, RpcLogic, Rpc!TypeOK, Rpc!Senders, Rpc!Bool, Rpc!Free

\* The call of a thread that sends, and its second step.
LEMMA RpcSends ==
  ASSUME Rpc!TypeOK, NEW t \in Rpc!Senders, NEW r \in RpcRecord, Rpc!my_uart_send(t, r)
  PROVE  Rpc!TypeOK'
<1>0. state.refused \cup {t} \in SUBSET Rpc!Senders
  BY DEF Rpc!TypeOK
<1>1. CASE state' = r
  BY <1>1 DEF Rpc!TypeOK, RpcRecord
<1>2. CASE state' = [state EXCEPT !.refused = @ \cup {t}]
  BY <1>0, <1>2, Zenon DEF Rpc!TypeOK
<1>3. CASE state' = [r EXCEPT !.tx = TRUE]
  BY <1>3, Zenon DEF Rpc!TypeOK, RpcRecord
<1> QED BY <1>1, <1>2, <1>3 DEF Rpc!my_uart_send

\* The second step of that call.
LEMMA RpcPuts ==
  ASSUME RpcInv, NEW t \in Rpc!Senders, NEW r \in RpcRecord, r.fifo_tx = state.fifo_tx,
         r.refused = state.refused, Rpc!my_uart_send_put(t, r)
  PROVE  Rpc!TypeOK'
<1>1. r.fifo_tx + 1 \in 0 .. Heap
  BY RpcRoom DEF Rpc!my_uart_send_put
<1>2. r.refused \ {t} \in SUBSET Rpc!Senders
  BY DEF RpcRecord
<1> QED BY <1>1, <1>2, Zenon DEF Rpc!my_uart_send_put, Rpc!TypeOK, RpcRecord

\* Every action keeps the types.
LEMMA RpcTyped == ASSUME RpcInv, Rpc!Next PROVE Rpc!TypeOK'
<1>0. Rpc!TypeOK
  BY DEF RpcInv
<1> USE <1>0, BuffersSize DEF Rpc!TypeOK, RpcRecord
<1>1. CASE Rpc!main_net
  <2>1. CASE state' = [state EXCEPT !.main = "returned"]
    BY <2>1
  <2>2. CASE \E adv \in BOOLEAN : state' = [state EXCEPT !.main = "addr", !.adv = adv]
    BY <2>2, ZenonT(60)
  <2> QED BY <1>1, <2>1, <2>2 DEF Rpc!main_net
<1>2. CASE Rpc!connected
  BY <1>2 DEF Rpc!connected
<1>3. CASE Rpc!disconnected
  <2>1. 0 \in 0 .. TxBufs
    OBVIOUS
  <2> QED BY <1>3, <2>1, Zenon DEF Rpc!disconnected
<1>4. CASE Rpc!bt_nus_receive_cb
  BY <1>4 DEF Rpc!bt_nus_receive_cb
<1>5. CASE Rpc!smp_bt_chr_write
  BY <1>5 DEF Rpc!smp_bt_chr_write
<1>6. CASE Rpc!ext_int_isr
  BY <1>6 DEF Rpc!ext_int_isr
<1>7. CASE Rpc!notified
  BY <1>7 DEF Rpc!notified
<1>8. CASE Rpc!ble_write_thread
  <2> DEFINE r == [state EXCEPT !.nus_op = "wait", !.int = TRUE]
  <2>1. r \in RpcRecord /\ r.notify = state.notify
    OBVIOUS
  <2>2. state' \in Rpc!Notify(r)
    BY <1>8 DEF Rpc!ble_write_thread
  <2> HIDE DEF r
  <2> QED BY <2>1, <2>2, RpcNotify
<1>9. CASE Rpc!rpc_app2net_send
  <2> DEFINE u == [state EXCEPT !.uart = "send"]
             t == [state EXCEPT !.thread1 = "sleep"]
  <2>1. u \in RpcRecord /\ u.notify = state.notify /\ t \in RpcRecord /\ t.notify = state.notify
    OBVIOUS
  <2>2. state' \in Rpc!Notify(u) \/ state' \in Rpc!Notify(t)
    BY <1>9 DEF Rpc!rpc_app2net_send
  <2> HIDE DEF u, t
  <2> QED BY <2>1, <2>2, RpcNotify
<1>10. CASE Rpc!rpc_net_bt_smp_get_mtu
  BY <1>10 DEF Rpc!rpc_net_bt_smp_get_mtu
<1>11. CASE Rpc!rpc_net_bt_smp_send
  <2> DEFINE r == [state EXCEPT !.smp = "idle", !.requests = @ - 1]
  <2>0. state.requests - 1 \in 0 .. SmpBufs
    BY <1>11 DEF Rpc!rpc_net_bt_smp_send, RpcInv, RpcLogic
  <2>1. r \in RpcRecord
    BY <2>0, Zenon
  <2>2. r.notify = state.notify
    OBVIOUS
  <2>3. state' \in Rpc!Notify(r)
    BY <1>11 DEF Rpc!rpc_net_bt_smp_send
  <2> HIDE DEF r
  <2> QED BY <2>1, <2>2, <2>3, RpcNotify
<1>12. CASE Rpc!net2app_receive_bt_addr
  BY <1>12 DEF Rpc!net2app_receive_bt_addr
<1>13. CASE Rpc!net2app_receive_conn_status
  BY <1>13, ZenonT(60) DEF Rpc!net2app_receive_conn_status
<1>14. CASE Rpc!net2app_receive_nus
  <2> DEFINE answered == [state EXCEPT !.rx = "idle"]
  <2>1. /\ answered \in RpcRecord /\ answered.fifo_tx = state.fifo_tx
        /\ answered.refused = state.refused
    OBVIOUS
  <2>2. "pool" \in Rpc!Senders
    BY DEF Rpc!Senders
  <2>3. Rpc!my_uart_send("pool", answered) \/ Rpc!my_uart_send_put("pool", answered)
    BY <1>14 DEF Rpc!net2app_receive_nus
  <2> HIDE DEF answered
  <2> QED BY <2>1, <2>2, <2>3, RpcSends, RpcPuts
<1>15. CASE Rpc!rpc_app_bt_smp_receive_cb
  <2> DEFINE n == IF state.requests < SmpBufs THEN state.requests + 1 ELSE state.requests
  <2>1. n \in 0 .. SmpBufs
    OBVIOUS
  <2>2. state' = [state EXCEPT !.rx = "idle", !.requests = n]
    BY <1>15 DEF Rpc!rpc_app_bt_smp_receive_cb
  <2> HIDE DEF n
  <2> QED BY <2>1, <2>2, Zenon
<1>16. CASE Rpc!smp_rx_req
  BY <1>16 DEF Rpc!smp_rx_req
<1>17. CASE Rpc!rpc_thread1
  BY <1>17 DEF Rpc!rpc_thread1
<1>18. CASE Rpc!uart_rx_rdy
  <2>1. CASE state' = [state EXCEPT !.fault = TRUE]
    BY <2>1
  <2>2. CASE Rpc!Free # 0 /\ state' = [state EXCEPT !.fifo_rx = @ + 1]
    BY <2>2, RpcRoom, Zenon
  <2> QED BY <1>18, <2>1, <2>2 DEF Rpc!uart_rx_rdy
<1>19. CASE Rpc!uart_tx_done
  <2>1. CASE state' = [state EXCEPT !.tx = FALSE]
    BY <2>1
  <2>2. CASE state.fifo_tx # 0 /\ state' = [state EXCEPT !.fifo_tx = @ - 1]
    BY <2>2
  <2> QED BY <1>19, <2>1, <2>2 DEF Rpc!uart_tx_done
<1>20. CASE Rpc!uart_thread_get
  <2>1. state.fifo_rx - 1 \in 0 .. Heap
    BY <1>20 DEF Rpc!uart_thread_get
  <2>2. PICK u \in {"nus", "send"} : state' = [state EXCEPT !.fifo_rx = @ - 1, !.uart = u]
    BY <1>20 DEF Rpc!uart_thread_get
  <2> QED BY <2>1, <2>2, Zenon
<1>21. CASE Rpc!uart_thread_send
  <2> DEFINE done == [state EXCEPT !.uart = "get"]
  <2>1. done \in RpcRecord /\ done.fifo_tx = state.fifo_tx /\ done.refused = state.refused
    OBVIOUS
  <2>2. "uart" \in Rpc!Senders
    BY DEF Rpc!Senders
  <2>3. Rpc!my_uart_send("uart", done) \/ Rpc!my_uart_send_put("uart", done)
    BY <1>21 DEF Rpc!uart_thread_send
  <2> HIDE DEF done
  <2> QED BY <2>1, <2>2, <2>3, RpcSends, RpcPuts
<1> QED BY <1>1, <1>2, <1>3, <1>4, <1>5, <1>6, <1>7, <1>8, <1>9, <1>10, <1>11, <1>12, <1>13,
          <1>14, <1>15, <1>16, <1>17, <1>18, <1>19, <1>20, <1>21 DEF Rpc!Next, Rpc!Net,
          Rpc!NetPool, Rpc!AppPool, Rpc!RxCommand, Rpc!uart_thread

\* ... and the rest of the invariant.
LEMMA RpcKept == ASSUME RpcInv, Rpc!Next PROVE RpcLogic'
<1> USE BuffersSize DEF RpcInv, RpcLogic, Rpc!TypeOK, Rpc!Senders, Rpc!AppKnowsLink, Rpc!Bool,
          Rpc!Free
<1>1. CASE Rpc!main_net
  BY <1>1, ZenonT(60) DEF Rpc!main_net
<1>2. CASE Rpc!connected
  BY <1>2 DEF Rpc!connected
<1>3. CASE Rpc!disconnected
  BY <1>3 DEF Rpc!disconnected
<1>4. CASE Rpc!bt_nus_receive_cb
  BY <1>4 DEF Rpc!bt_nus_receive_cb
<1>5. CASE Rpc!smp_bt_chr_write
  BY <1>5 DEF Rpc!smp_bt_chr_write
<1>6. CASE Rpc!ext_int_isr
  BY <1>6 DEF Rpc!ext_int_isr
<1>7. CASE Rpc!notified
  BY <1>7 DEF Rpc!notified
<1>8. CASE Rpc!ble_write_thread
  <2> DEFINE r == [state EXCEPT !.nus_op = "wait", !.int = TRUE]
  <2>1. state' = r \/ state' = [r EXCEPT !.notify = @ + 1]
    BY <1>8 DEF Rpc!ble_write_thread, Rpc!Notify
  <2>2. CASE state' = r
    BY <1>8, <2>2 DEF Rpc!ble_write_thread
  <2>3. CASE state' = [r EXCEPT !.notify = @ + 1]
    BY <1>8, <2>3 DEF Rpc!ble_write_thread
  <2> QED BY <2>1, <2>2, <2>3
<1>9. CASE Rpc!rpc_app2net_send
  <2> DEFINE u == [state EXCEPT !.uart = "send"]
             t == [state EXCEPT !.thread1 = "sleep"]
  <2>1. \/ state.uart = "nus" /\ (state' = u \/ state' = [u EXCEPT !.notify = @ + 1])
        \/ state' = t
        \/ state' = [t EXCEPT !.notify = @ + 1]
    BY <1>9 DEF Rpc!rpc_app2net_send, Rpc!Notify
  <2>2. CASE state.uart = "nus" /\ state' = u
    BY <2>2
  <2>3. CASE state.uart = "nus" /\ state' = [u EXCEPT !.notify = @ + 1]
    BY <2>3
  <2>4. CASE state' = t
    BY <2>4
  <2>5. CASE state' = [t EXCEPT !.notify = @ + 1]
    BY <2>5
  <2> QED BY <2>1, <2>2, <2>3, <2>4, <2>5
<1>10. CASE Rpc!rpc_net_bt_smp_get_mtu
  BY <1>10 DEF Rpc!rpc_net_bt_smp_get_mtu
<1>11. CASE Rpc!rpc_net_bt_smp_send
  <2> DEFINE r == [state EXCEPT !.smp = "idle", !.requests = @ - 1]
  <2>1. state' = r \/ state' = [r EXCEPT !.notify = @ + 1]
    BY <1>11 DEF Rpc!rpc_net_bt_smp_send, Rpc!Notify
  <2>2. CASE state' = r
    BY <1>11, <2>2 DEF Rpc!rpc_net_bt_smp_send
  <2>3. CASE state' = [r EXCEPT !.notify = @ + 1]
    BY <1>11, <2>3 DEF Rpc!rpc_net_bt_smp_send
  <2> QED BY <2>1, <2>2, <2>3
<1>12. CASE Rpc!net2app_receive_bt_addr
  BY <1>12 DEF Rpc!net2app_receive_bt_addr
<1>13. CASE Rpc!net2app_receive_conn_status
  BY <1>13 DEF Rpc!net2app_receive_conn_status
<1>14. CASE Rpc!net2app_receive_nus
  <2> DEFINE answered == [state EXCEPT !.rx = "idle"]
  <2>1. CASE state' = answered
    BY <1>14, <2>1 DEF Rpc!net2app_receive_nus
  <2>2. CASE /\ Rpc!Free # 0 /\ state.tx /\ "pool" \notin state.refused
             /\ state' = [state EXCEPT !.refused = @ \cup {"pool"}]
    BY <1>14, <2>2 DEF Rpc!net2app_receive_nus
  <2>3. CASE Rpc!Free # 0 /\ ~state.tx /\ state' = [answered EXCEPT !.tx = TRUE]
    BY <1>14, <2>3 DEF Rpc!net2app_receive_nus
  <2>4. CASE /\ "pool" \in state.refused
             /\ state' = [answered EXCEPT !.fifo_tx = @ + 1, !.refused = @ \ {"pool"}]
    BY <1>14, <2>4 DEF Rpc!net2app_receive_nus
  <2> QED BY <1>14, <2>1, <2>2, <2>3, <2>4 DEF Rpc!net2app_receive_nus, Rpc!my_uart_send,
            Rpc!my_uart_send_put
<1>15. CASE Rpc!rpc_app_bt_smp_receive_cb
  BY <1>15 DEF Rpc!rpc_app_bt_smp_receive_cb
<1>16. CASE Rpc!smp_rx_req
  BY <1>16 DEF Rpc!smp_rx_req
<1>17. CASE Rpc!rpc_thread1
  BY <1>17 DEF Rpc!rpc_thread1
<1>18. CASE Rpc!uart_rx_rdy
  BY <1>18 DEF Rpc!uart_rx_rdy
<1>19. CASE Rpc!uart_tx_done
  BY <1>19 DEF Rpc!uart_tx_done
<1>20. CASE Rpc!uart_thread_get
  BY <1>20 DEF Rpc!uart_thread_get
<1>21. CASE Rpc!uart_thread_send
  <2> DEFINE done == [state EXCEPT !.uart = "get"]
  <2>1. CASE state' = done
    BY <1>21, <2>1 DEF Rpc!uart_thread_send
  <2>2. CASE /\ Rpc!Free # 0 /\ state.tx /\ "uart" \notin state.refused
             /\ state' = [state EXCEPT !.refused = @ \cup {"uart"}]
    BY <1>21, <2>2 DEF Rpc!uart_thread_send
  <2>3. CASE Rpc!Free # 0 /\ ~state.tx /\ state' = [done EXCEPT !.tx = TRUE]
    BY <1>21, <2>3 DEF Rpc!uart_thread_send
  <2>4. CASE /\ "uart" \in state.refused
             /\ state' = [done EXCEPT !.fifo_tx = @ + 1, !.refused = @ \ {"uart"}]
    BY <1>21, <2>4 DEF Rpc!uart_thread_send
  <2> QED BY <1>21, <2>1, <2>2, <2>3, <2>4 DEF Rpc!uart_thread_send, Rpc!my_uart_send,
            Rpc!my_uart_send_put
<1> QED BY <1>1, <1>2, <1>3, <1>4, <1>5, <1>6, <1>7, <1>8, <1>9, <1>10, <1>11, <1>12, <1>13,
          <1>14, <1>15, <1>16, <1>17, <1>18, <1>19, <1>20, <1>21 DEF Rpc!Next, Rpc!Net,
          Rpc!NetPool, Rpc!AppPool, Rpc!RxCommand, Rpc!uart_thread

-----------------------------------------------------------------------------
(* The threads of the application core (AppThreads).                        *)

\* What a record of the program has.
DevShape ==
  /\ {"group", "ram", "nvs_key", "nvs_cnt", "settings_key", "settings_cnt", "boots", "lost"}
       \subseteq DOMAIN state
  /\ {"flash", "reboot_cnt", "iic", "adc", "spi", "raw", "main"} \subseteq DOMAIN state.ram
  /\ {state.nvs_cnt, state.settings_cnt, state.ram.reboot_cnt} \subseteq Nat
  /\ state.boots \in 1 .. MaxBoots

\* Each counter waits for its step of the start, and the settings' one for the other.
DevCounts ==
  /\ state.ram.flash \in {"nvs_key", "nvs_cnt"} => state.nvs_cnt < state.boots
  /\ state.ram.flash # "sleep" => state.settings_cnt < state.boots
  /\ state.ram.flash \in {"load", "key", "cnt"}
       => state.settings_cnt < state.nvs_cnt \/ state.lost
  /\ state.ram.flash \in {"key", "cnt"} => state.ram.reboot_cnt = state.settings_cnt
  /\ state.ram.flash = "cnt" => state.settings_key \/ state.lost

\* The inductive invariant.
DevInv == DevShape /\ Dev!TypeOK /\ Dev!KeyBeforeCount /\ Dev!CountersTrue /\ DevCounts

\* What is assumed of the number of starts.
LEMMA BootsSize == MaxBoots \in Nat /\ MaxBoots > 0
BY FirmwareAssumption DEF FirmwareAssumption

\* The start of the program.
LEMMA DevStarts == Dev!Init => DevInv
BY BootsSize DEF DevInv, DevShape, Dev!TypeOK, Dev!KeyBeforeCount, Dev!CountersTrue, DevCounts,
   Dev!Init, Dev!Ram

\* Every action keeps the invariant.
LEMMA DevStep == ASSUME DevInv, Dev!Next PROVE DevInv'
<1> USE BootsSize DEF DevInv, DevShape, Dev!TypeOK, Dev!KeyBeforeCount, Dev!CountersTrue,
          DevCounts
<1>1. CASE Dev!nvs_key
  <2>1. CASE state' = [state EXCEPT !.ram.flash = "nvs_cnt", !.nvs_key = TRUE]
    BY <1>1, <2>1 DEF Dev!nvs_key, Dev!At
  <2>2. CASE state' = [state EXCEPT !.ram.flash = "nvs_cnt", !.lost = TRUE]
    BY <1>1, <2>2 DEF Dev!nvs_key, Dev!At
  <2> QED BY <1>1, <2>1, <2>2 DEF Dev!nvs_key, Dev!At
<1>2. CASE Dev!nvs_cnt
  <2>1. CASE state' = [state EXCEPT !.ram.flash = "load", !.nvs_cnt = @ + 1]
    BY <1>2, <2>1 DEF Dev!nvs_cnt, Dev!At
  <2>2. CASE state' = [state EXCEPT !.ram.flash = "load", !.lost = TRUE]
    BY <1>2, <2>2 DEF Dev!nvs_cnt, Dev!At
  <2> QED BY <1>2, <2>1, <2>2 DEF Dev!nvs_cnt, Dev!At
<1>3. CASE Dev!alpha_handle_set
  <2>1. CASE state' = [state EXCEPT !.ram.flash = "returned"]
    BY <1>3, <2>1 DEF Dev!alpha_handle_set, Dev!At
  <2> DEFINE f == IF state.settings_cnt = 0 THEN "key" ELSE "cnt"
  <2>2. f \in {"key", "cnt"} /\ (f = "cnt" => state.settings_cnt > 0)
    OBVIOUS
  <2> HIDE DEF f
  <2>3. CASE state' = [state EXCEPT !.ram.flash = f, !.ram.reboot_cnt = state.settings_cnt,
                                    !.ram.key_s = state.settings_key]
    BY <1>3, <2>2, <2>3, ZenonT(60) DEF Dev!alpha_handle_set, Dev!At
  <2> QED BY <1>3, <2>1, <2>3 DEF Dev!alpha_handle_set, f
<1>4. CASE Dev!settings_key
  <2>1. CASE state' = [state EXCEPT !.ram.flash = "cnt", !.ram.key_s = TRUE,
           !.settings_key = TRUE]
    BY <1>4, <2>1 DEF Dev!settings_key, Dev!At
  <2>2. CASE state' = [state EXCEPT !.ram.flash = "cnt", !.ram.key_s = TRUE, !.lost = TRUE]
    BY <1>4, <2>2 DEF Dev!settings_key, Dev!At
  <2> QED BY <1>4, <2>1, <2>2 DEF Dev!settings_key, Dev!At
<1>5. CASE Dev!settings_cnt
  <2> DEFINE n == state.ram.reboot_cnt + 1
  <2>1. n \in 0 .. MaxBoots /\ n = state.settings_cnt + 1 /\ n <= state.boots
    BY <1>5 DEF Dev!settings_cnt, Dev!At
  <2>2. \/ state' = [state EXCEPT !.ram.flash = "sleep", !.ram.reboot_cnt = n,
             !.settings_cnt = n]
        \/ state' = [state EXCEPT !.ram.flash = "sleep", !.ram.reboot_cnt = n, !.lost = TRUE]
    BY <1>5 DEF Dev!settings_cnt
  <2> HIDE DEF n
  <2>3. CASE state' = [state EXCEPT !.ram.flash = "sleep", !.ram.reboot_cnt = n,
           !.settings_cnt = n]
    <3>1. /\ state'.ram.flash = "sleep" /\ state'.ram.reboot_cnt = n /\ state'.settings_cnt = n
          /\ DOMAIN state' = DOMAIN state /\ DOMAIN state'.ram = DOMAIN state.ram
          /\ \A f \in {"nvs_key", "nvs_cnt", "settings_key", "boots",
               "lost"} : state'[f] = state[f]
          /\ \A f \in {"iic", "adc", "spi", "raw", "main"} : state'.ram[f] = state.ram[f]
      BY <2>3
    <3>2. state.settings_key \/ state.lost
      BY <1>5 DEF Dev!settings_cnt, Dev!At
    <3>3. state.settings_cnt < state.nvs_cnt \/ state.lost
      BY <1>5 DEF Dev!settings_cnt, Dev!At
    <3> QED BY <2>1, <3>1, <3>2, <3>3
  <2>4. CASE state' = [state EXCEPT !.ram.flash = "sleep", !.ram.reboot_cnt = n, !.lost = TRUE]
    <3>1. /\ state'.ram.flash = "sleep" /\ state'.ram.reboot_cnt = n /\ state'.lost
          /\ DOMAIN state' = DOMAIN state /\ DOMAIN state'.ram = DOMAIN state.ram
          /\ \A f \in {"nvs_key", "nvs_cnt", "settings_key", "settings_cnt", "boots"} :
               state'[f] = state[f]
          /\ \A f \in {"iic", "adc", "spi", "raw", "main"} : state'.ram[f] = state.ram[f]
      BY <2>4
    <3> QED BY <2>1, <3>1
  <2> QED BY <2>2, <2>3, <2>4
<1>6. CASE Dev!reset
  BY <1>6 DEF Dev!reset, Dev!Ram
<1>7. CASE Dev!init_adc
  <2>1. PICK ok \in BOOLEAN : state' = [state EXCEPT !.ram.adc = "loop", !.ram.adc_work = ok]
    BY <1>7 DEF Dev!init_adc
  <2> QED BY <2>1
<1>8. CASE Dev!adc_sample_sync
  <2>1. CASE state' = [state EXCEPT !.ram.calibrated = TRUE]
    BY <1>8, <2>1 DEF Dev!adc_sample_sync, Dev!Read
  <2>2. CASE state' = [state EXCEPT !.ram.calibrated = TRUE, !.lost = TRUE]
    BY <1>8, <2>2 DEF Dev!adc_sample_sync, Dev!Read
  <2> QED BY <1>8, <2>1, <2>2 DEF Dev!adc_sample_sync, Dev!Read
<1>9. CASE Dev!adc_sample_async
  <2>1. CASE state' = [[state EXCEPT !.ram.converting = TRUE,
           !.ram.adc_async_read_pending = TRUE] EXCEPT !.ram.calibrated = TRUE]
    BY <1>9, <2>1, ZenonT(60) DEF Dev!adc_sample_async, Dev!Read
  <2>2. CASE state' = [[state EXCEPT !.ram.converting = TRUE,
           !.ram.adc_async_read_pending = TRUE] EXCEPT !.ram.calibrated = TRUE, !.lost = TRUE]
    BY <1>9, <2>2 DEF Dev!adc_sample_async, Dev!Read
  <2>3. CASE state' = [state EXCEPT !.ram.calibrated = TRUE, !.lost = TRUE]
    BY <1>9, <2>3 DEF Dev!adc_sample_async, Dev!Read
  <2>4. CASE state' = [state EXCEPT !.ram.adc_async_read_pending = FALSE]
    BY <1>9, <2>4 DEF Dev!adc_sample_async, Dev!Read
  <2> QED BY <1>9, <2>1, <2>2, <2>3, <2>4 DEF Dev!adc_sample_async, Dev!Read
<1>10. CASE Dev!converted
  BY <1>10 DEF Dev!converted
<1>11. CASE Dev!iic_start
  BY <1>11 DEF Dev!iic_start
<1>12. CASE Dev!ext_int_isr
  BY <1>12 DEF Dev!ext_int_isr
<1>13. CASE Dev!iic_thread
  <2>1. CASE state' = [state EXCEPT !.ram.iic = "read", !.ram.sem_iic_op = FALSE]
    BY <1>13, <2>1, ZenonT(60) DEF Dev!iic_thread
  <2>2. CASE state' = [state EXCEPT !.ram.int = TRUE]
    BY <1>13, <2>2 DEF Dev!iic_thread
  <2> QED BY <1>13, <2>1, <2>2 DEF Dev!iic_thread
<1>14. CASE Dev!main_app
  BY <1>14 DEF Dev!main_app
<1>15. CASE Dev!blinky_work_fn
  BY <1>15 DEF Dev!blinky_work_fn
<1>16. CASE Dev!button_changed
  BY <1>16 DEF Dev!button_changed
<1>17. CASE Dev!spi_thread
  BY <1>17 DEF Dev!spi_thread
<1>18. CASE Dev!raw_init
  <2>1. PICK ok \in BOOLEAN : state' = [state EXCEPT !.ram.raw = "wait", !.ram.rtc = ok]
    BY <1>18 DEF Dev!raw_init
  <2> QED BY <2>1, ZenonT(60)
<1>19. CASE Dev!raw_start
  BY <1>19 DEF Dev!raw_start
<1>20. CASE Dev!raw_exchange
  BY <1>20 DEF Dev!raw_exchange
<1>21. CASE Dev!raw_synced
  BY <1>21 DEF Dev!raw_synced
<1>22. CASE Dev!rtc_handler
  BY <1>22 DEF Dev!rtc_handler
<1>23. CASE Dev!spi_event_handler
  BY <1>23 DEF Dev!spi_event_handler
<1> QED BY <1>1, <1>2, <1>3, <1>4, <1>5, <1>6, <1>7, <1>8, <1>9, <1>10, <1>11, <1>12, <1>13,
          <1>14, <1>15, <1>16, <1>17, <1>18, <1>19, <1>20, <1>21, <1>22, <1>23 DEF Dev!Next,
          Dev!flash_thread, Dev!Adc, Dev!Bus, Dev!raw_nrfx_thread

-----------------------------------------------------------------------------
(* Samples that print or switch the UART (UartSamples).                     *)

\* The records of the program.
PrtRecord ==
  [image : Prt!Images, pc : [{"main", "scan"} -> Prt!Pcs], dev : BOOLEAN, fault : BOOLEAN,
   on : BOOLEAN, rx : BOOLEAN, err : BOOLEAN, fifo : BOOLEAN, up : BOOLEAN,
   refused : BOOLEAN, scanning : BOOLEAN, adv : BOOLEAN, led : BOOLEAN]

\* Where main() and the scanner's callback may be, and what that says of the UART.
PrtLogic ==
  /\ state.image # "onoff" => state.pc["scan"] = "idle"
  /\ state.pc["scan"] # "idle" => state.scanning
  /\ state.scanning => state.pc["main"] = "loop"
  /\ state.image = "onoff" /\ state.pc["main"] \in {"off", "scan"} => ~state.rx
  /\ state.pc["scan"] = "off" => ~state.rx
  /\ state.image = "onoff" /\ state.pc["main"] = "scan" => (state.on => state.refused)
  /\ state.pc["scan"] = "print" /\ state.up => state.on /\ state.rx
  /\ state.scanning /\ state.pc["main"] = "loop" /\ state.pc["scan"] = "idle"
       /\ state.image = "onoff" => ~state.rx /\ (state.on => state.refused)
  /\ state.image = "beacon" => state.pc["main"] \in {"init", "start", "stop", "returned"}
  /\ state.adv => state.image = "beacon" /\ state.pc["main"] \in {"stop", "returned"}
  /\ state.adv /\ state.pc["main"] # "returned" => state.led

\* The inductive invariant.
PrtInv == Prt!TypeOK /\ PrtLogic

\* What a record of the program has.
PrtShape == /\ {"image", "pc", "dev", "fault", "on", "rx", "err", "fifo", "up", "refused",
                "scanning", "adv", "led"} \subseteq DOMAIN state
            /\ DOMAIN state.pc = {"main", "scan"}
            /\ {state.on, state.rx, state.up, state.refused, state.scanning} \subseteq BOOLEAN

\* The types give the record its shape.
LEMMA PrtShaped == Prt!TypeOK => PrtShape
BY DEF Prt!TypeOK, PrtShape

\* The start of the program.
LEMMA PrtStarts == Prt!Init => PrtInv
BY DEF PrtInv, PrtLogic, Prt!TypeOK, Prt!Images, Prt!Pcs, Prt!Init

\* The invariant says what the run checks.
LEMMA PrtNeeds == PrtInv => Prt!UartAsNeeded
BY DEF PrtInv, PrtLogic, Prt!UartAsNeeded

\* A thread goes on.
LEMMA PrtGoes ==
  ASSUME Prt!TypeOK, NEW t \in {"main", "scan"}, NEW next \in Prt!Pcs
  PROVE  Prt!Go(t, next) \in PrtRecord
BY DEF Prt!Go, Prt!TypeOK, PrtRecord

\* The UART has been started.
LEMMA PrtStarted ==
  ASSUME Prt!TypeOK, NEW t \in {"main", "scan"}, NEW next \in Prt!Pcs, NEW on \in BOOLEAN,
         Prt!Started(on, t, next)
  PROVE  Prt!TypeOK'
<1> DEFINE g == Prt!Go(t, next)
<1>1. g \in PrtRecord
  BY PrtGoes
<1>2. state' = [g EXCEPT !.on = on, !.rx = TRUE, !.up = on]
  BY DEF Prt!Started
<1> HIDE DEF g
<1> QED BY <1>1, <1>2, ZenonT(60) DEF PrtRecord, Prt!TypeOK

\* A call whose result is not looked at, and the wait after it.
LEMMA PrtUnchecked ==
  ASSUME Prt!TypeOK, NEW t \in {"main", "scan"}, NEW next \in Prt!Pcs,
         Prt!Unchecked(t, next) \/ Prt!Retry
  PROVE  Prt!TypeOK'
<1> DEFINE g == Prt!Go(t, next)
<1>1. g \in PrtRecord
  BY PrtGoes
<1>2. \/ state' = [g EXCEPT !.fifo = FALSE, !.up = FALSE]
      \/ state' = [state EXCEPT !.fault = TRUE] \/ state' = [state EXCEPT !.fifo = FALSE]
  BY DEF Prt!Unchecked, Prt!Retry
<1> HIDE DEF g
<1> QED BY <1>1, <1>2 DEF PrtRecord, Prt!TypeOK

\* The start of the UART.
LEMMA PrtInits ==
  ASSUME Prt!TypeOK, NEW t \in {"main", "scan"}, NEW next \in Prt!Pcs, Prt!at_uart_init(t, next)
  PROVE  Prt!TypeOK'
<1>1. state.on \in BOOLEAN
  BY DEF Prt!TypeOK
<1>2. \E on \in BOOLEAN : Prt!Unchecked(t, next) \/ Prt!Retry \/ Prt!Started(on, t, next)
  BY <1>1, Zenon DEF Prt!at_uart_init
<1> QED BY <1>2, PrtStarted, PrtUnchecked

\* The power of the UART is switched off.
LEMMA PrtPowers ==
  ASSUME Prt!TypeOK, NEW t \in {"main", "scan"}, NEW from, NEW next \in Prt!Pcs,
         Prt!power_off(t, from, next)
  PROVE  Prt!TypeOK'
<1> DEFINE g == Prt!Go(t, next)
<1>1. g \in PrtRecord
  BY PrtGoes
<1>2. state.on \in BOOLEAN
  BY DEF Prt!TypeOK
<1>3. PICK on \in BOOLEAN : state' = [g EXCEPT !.on = on, !.refused = on,
                                               !.fifo = @ /\ on, !.up = @ /\ on]
  BY <1>2 DEF Prt!power_off
<1> HIDE DEF g
<1> DEFINE f == g.fifo /\ on
           u == g.up /\ on
<1>4. f \in BOOLEAN /\ u \in BOOLEAN
  OBVIOUS
<1>5. state' = [g EXCEPT !.on = on, !.refused = on, !.fifo = f, !.up = u]
  BY <1>3
<1> HIDE DEF f, u
<1> DEFINE h == [g EXCEPT !.on = on, !.refused = on]
<1>6. h \in PrtRecord
  BY <1>1 DEF PrtRecord
<1>7. state' = [h EXCEPT !.fifo = f, !.up = u]
  BY <1>1, <1>5 DEF PrtRecord
<1> HIDE DEF h
<1> QED BY <1>4, <1>6, <1>7, ZenonT(60) DEF PrtRecord, Prt!TypeOK

\* A thread that only goes on keeps the types.
LEMMA PrtGone ==
  ASSUME Prt!TypeOK, NEW t \in {"main", "scan"}, NEW next \in Prt!Pcs, state' = Prt!Go(t, next)
  PROVE  Prt!TypeOK'
BY PrtGoes DEF Prt!TypeOK, PrtRecord

\* Every action keeps the types.
LEMMA PrtTyped == ASSUME PrtInv, Prt!Next PROVE Prt!TypeOK'
<1>0. Prt!TypeOK /\ {"init", "led", "deinit", "irq", "off", "scan", "loop", "returned",
         "print", "sleep", "again", "start", "stop", "idle"} \subseteq Prt!Pcs
  BY DEF PrtInv, Prt!Pcs
<1> USE DEF Prt!TypeOK
<1>1. CASE Prt!line
  <2>1. CASE state' = [state EXCEPT !.err = ~state.err]
    BY <1>1, <2>1, <1>0, Zenon DEF Prt!line
  <2>2. CASE state' = [state EXCEPT !.fifo = TRUE]
    BY <1>1, <2>2, <1>0 DEF Prt!line
  <2> QED BY <1>1, <2>1, <2>2, <1>0 DEF Prt!line
<1>2. CASE Prt!isr
  BY <1>2, <1>0 DEF Prt!isr
<1>3. CASE Prt!uart_init("main", "init", "led")
  BY <1>3, <1>0, PrtInits DEF Prt!uart_init
<1>4. CASE Prt!LedAndBluetooth({"onoff"}, "led", "deinit")
  BY <1>4, <1>0, PrtGone DEF Prt!LedAndBluetooth
<1>5. CASE Prt!irq_disable("main", "deinit", "off")
  <2>1. Prt!Go("main", "off") \in PrtRecord
    BY <1>0, PrtGoes
  <2>2. state' = [Prt!Go("main", "off") EXCEPT !.rx = FALSE]
    BY <1>5 DEF Prt!irq_disable
  <2> QED BY <2>1, <2>2 DEF PrtRecord
<1>6. CASE Prt!power_off("main", "off", "scan")
  BY <1>6, <1>0, PrtPowers
<1>7. CASE Prt!Scan("scan", "onoff")
  <2>1. Prt!Go("main", "loop") \in PrtRecord
    BY <1>0, PrtGoes
  <2>2. PICK s \in BOOLEAN : state' = [Prt!Go("main", "loop") EXCEPT !.scanning = s]
    BY <1>7 DEF Prt!Scan
  <2> QED BY <2>1, <2>2 DEF PrtRecord
<1>8. CASE Prt!toggle
  <2>1. state' = [state EXCEPT !.led = ~state.led]
    BY <1>8, Zenon DEF Prt!toggle
  <2> QED BY <2>1, <1>0, Zenon
<1>9. CASE Prt!set_up
  BY <1>9, <1>0, PrtGone DEF Prt!set_up, Prt!LedAndBluetooth
<1>10. CASE Prt!adv_start
  <2>1. Prt!Go("main", "stop") \in PrtRecord /\ Prt!Go("main", "returned") \in PrtRecord
    BY <1>0, PrtGoes
  <2>2. CASE \/ state' = [Prt!Go("main", "stop") EXCEPT !.adv = TRUE, !.led = TRUE]
             \/ state' = [Prt!Go("main", "returned") EXCEPT !.led = TRUE]
    BY <2>1, <2>2 DEF PrtRecord
  <2> QED BY <1>10, <2>2 DEF Prt!adv_start
<1>11. CASE Prt!adv_stop
  <2>1. Prt!Go("main", "start") \in PrtRecord /\ Prt!Go("main", "returned") \in PrtRecord
    BY <1>0, PrtGoes
  <2>2. CASE \/ state' = [Prt!Go("main", "start") EXCEPT !.adv = FALSE, !.led = FALSE]
             \/ state' = [Prt!Go("main", "returned") EXCEPT !.led = FALSE]
    BY <2>1, <2>2 DEF PrtRecord
  <2> QED BY <1>11, <2>2 DEF Prt!adv_stop
<1>12. CASE Prt!LedAndBluetooth({"console"}, "init", "scan")
  BY <1>12, <1>0, PrtGone DEF Prt!LedAndBluetooth
<1>13. CASE Prt!Scan("scan", "console")
  <2>1. Prt!Go("main", "loop") \in PrtRecord
    BY <1>0, PrtGoes
  <2>2. PICK s \in BOOLEAN : state' = [Prt!Go("main", "loop") EXCEPT !.scanning = s]
    BY <1>13 DEF Prt!Scan
  <2> QED BY <2>1, <2>2 DEF PrtRecord
<1>14. CASE Prt!scan_filter_match
  <2>1. CASE \/ state' = Prt!Go("scan", "init") \/ state' = Prt!Go("scan", "deinit")
    BY <1>0, <2>1, PrtGone
  <2>2. CASE Prt!uart_init("scan", "init", "print")
    BY <1>0, <2>2, PrtInits DEF Prt!uart_init
  <2>3. CASE Prt!irq_disable("scan", "deinit", "off")
    <3>1. Prt!Go("scan", "off") \in PrtRecord
      BY <1>0, PrtGoes
    <3>2. state' = [Prt!Go("scan", "off") EXCEPT !.rx = FALSE]
      BY <2>3 DEF Prt!irq_disable
    <3> QED BY <3>1, <3>2 DEF PrtRecord
  <2>4. CASE Prt!power_off("scan", "off", "idle")
    BY <1>0, <2>4, PrtPowers
  <2> QED BY <1>14, <2>1, <2>2, <2>3, <2>4 DEF Prt!scan_filter_match
<1>15. CASE Prt!main_0
  <2>1. CASE state' = Prt!Go("main", "returned")
    BY <1>0, <2>1, PrtGone
  <2>2. CASE Prt!Unchecked("main", "print") \/ Prt!Retry
    BY <1>0, <2>2, PrtUnchecked
  <2>3. CASE Prt!Started(state.on, "main", "print")
    BY <1>0, <2>3, PrtStarted
  <2> QED BY <1>15, <2>1, <2>2, <2>3 DEF Prt!main_0, Prt!uart_init_0
<1>16. CASE Prt!main_1
  <2>1. CASE state' = Prt!Go("main", "returned")
    BY <1>0, <2>1, PrtGone
  <2>2. CASE Prt!Unchecked("main", "print") \/ Prt!Retry
    BY <1>0, <2>2, PrtUnchecked
  <2>3. CASE Prt!Started(state.on, "main", "print")
    BY <1>0, <2>3, PrtStarted
  <2> QED BY <1>16, <2>1, <2>2, <2>3 DEF Prt!main_1, Prt!uart1_init
<1>17. CASE Prt!main_cycle
  <2>1. CASE state' = Prt!Go("main", "returned")
    BY <1>0, <2>1, PrtGone
  <2>2. CASE Prt!at_uart_init("main", "print")
    BY <1>0, <2>2, PrtInits
  <2>3. Prt!Go("main", "sleep") \in PrtRecord /\ Prt!Go("main", "again") \in PrtRecord
    BY <1>0, PrtGoes
  <2>4. CASE \/ state' = [Prt!Go("main", "sleep")
                           EXCEPT !.on = FALSE, !.fifo = FALSE, !.up = FALSE]
             \/ state' = [Prt!Go("main", "again") EXCEPT !.on = TRUE]
    BY <2>3, <2>4 DEF PrtRecord
  <2> QED BY <1>17, <2>1, <2>2, <2>4
          DEF Prt!main_cycle, Prt!uart_init_cycle, Prt!uart_lp_pwr_off, Prt!uart_lp_pwr_on
<1> QED BY <1>1, <1>2, <1>3, <1>4, <1>5, <1>6, <1>7, <1>8, <1>9, <1>10, <1>11, <1>12, <1>13,
          <1>14, <1>15, <1>16, <1>17 DEF Prt!Next, Prt!main, Prt!main_beacon, Prt!main_console

\* ... and the rest of the invariant.
LEMMA PrtKept == ASSUME PrtInv, Prt!Next PROVE PrtLogic'
<1>0. PrtLogic /\ PrtShape
  BY PrtShaped DEF PrtInv
<1> USE <1>0 DEF PrtLogic, PrtShape
<1>1. CASE Prt!line
  BY <1>1 DEF Prt!line
<1>2. CASE Prt!isr
  BY <1>2 DEF Prt!isr
<1>3. CASE Prt!uart_init("main", "init", "led")
  <2>1. state.image \in {"onoff"} /\ state.pc["main"] = "init"
    BY <1>3 DEF Prt!uart_init, Prt!At
  <2>2. CASE state' = [state EXCEPT !.fault = TRUE]
    BY <2>1, <2>2
  <2>3. CASE state' = [state EXCEPT !.fifo = FALSE]
    BY <2>1, <2>3
  <2>4. CASE state' = [[state EXCEPT !.pc["main"] = "led"] EXCEPT !.fifo = FALSE, !.up = FALSE]
    BY <2>1, <2>4
  <2>5. CASE state' = [[state EXCEPT !.pc["main"] = "led"] EXCEPT !.on = TRUE, !.rx = TRUE,
           !.up = TRUE]
    BY <2>1, <2>5
  <2>6. CASE state' = [[state EXCEPT !.pc["main"] = "led"] EXCEPT !.on = state.on, !.rx = TRUE,
           !.up = state.on]
    BY <2>1, <2>6
  <2> QED BY <1>3, <2>2, <2>3, <2>4, <2>5, <2>6
     DEF Prt!uart_init, Prt!at_uart_init, Prt!Unchecked, Prt!Retry, Prt!Started, Prt!Go
<1>4. CASE Prt!LedAndBluetooth({"onoff"}, "led", "deinit")
  BY <1>4 DEF Prt!LedAndBluetooth, Prt!Go, Prt!At
<1>5. CASE Prt!irq_disable("main", "deinit", "off")
  BY <1>5 DEF Prt!irq_disable, Prt!Go, Prt!At
<1>6. CASE Prt!power_off("main", "off", "scan")
  BY <1>6 DEF Prt!power_off, Prt!Go, Prt!At
<1>7. CASE Prt!Scan("scan", "onoff")
  BY <1>7 DEF Prt!Scan, Prt!Go, Prt!At
<1>8. CASE Prt!toggle
  BY <1>8 DEF Prt!toggle
<1>9. CASE Prt!set_up
  BY <1>9 DEF Prt!set_up, Prt!LedAndBluetooth, Prt!Go, Prt!At
<1>10. CASE Prt!adv_start
  BY <1>10, ZenonT(60) DEF Prt!adv_start, Prt!Go, Prt!At
<1>11. CASE Prt!adv_stop
  BY <1>11, ZenonT(60) DEF Prt!adv_stop, Prt!Go, Prt!At
<1>12. CASE Prt!LedAndBluetooth({"console"}, "init", "scan")
  BY <1>12 DEF Prt!LedAndBluetooth, Prt!Go, Prt!At
<1>13. CASE Prt!Scan("scan", "console")
  BY <1>13 DEF Prt!Scan, Prt!Go, Prt!At
<1>14. CASE Prt!scan_filter_match
  <2>1. CASE Prt!At({"onoff"}, "scan", "idle") /\ state.scanning /\ state' = Prt!Go("scan",
           "init")
    BY <2>1 DEF Prt!Go, Prt!At
  <2>2. CASE Prt!uart_init("scan", "init", "print")
    <3>1. state.image \in {"onoff"} /\ state.pc["scan"] = "init"
      BY <2>2 DEF Prt!uart_init, Prt!At
    <3>2. CASE state' = [state EXCEPT !.fault = TRUE]
      BY <3>1, <3>2
    <3>3. CASE state' = [state EXCEPT !.fifo = FALSE]
      BY <3>1, <3>3
    <3>4. CASE state' = [[state EXCEPT !.pc["scan"] = "print"] EXCEPT !.fifo = FALSE,
             !.up = FALSE]
      BY <3>1, <3>4
    <3>5. CASE state' = [[state EXCEPT !.pc["scan"] = "print"] EXCEPT !.on = TRUE, !.rx = TRUE,
             !.up = TRUE]
      BY <3>1, <3>5
    <3>6. CASE state' = [[state EXCEPT !.pc["scan"] = "print"] EXCEPT !.on = state.on,
             !.rx = TRUE, !.up = state.on]
      BY <3>1, <3>6
    <3> QED BY <2>2, <3>2, <3>3, <3>4, <3>5, <3>6
       DEF Prt!uart_init, Prt!at_uart_init, Prt!Unchecked, Prt!Retry, Prt!Started, Prt!Go
  <2>3. CASE Prt!At({"onoff"}, "scan", "print") /\ state' = Prt!Go("scan", "deinit")
    BY <2>3 DEF Prt!Go, Prt!At
  <2>4. CASE Prt!irq_disable("scan", "deinit", "off")
    BY <2>4 DEF Prt!irq_disable, Prt!Go, Prt!At
  <2>5. CASE Prt!power_off("scan", "off", "idle")
    BY <2>5 DEF Prt!power_off, Prt!Go, Prt!At
  <2> QED BY <1>14, <2>1, <2>2, <2>3, <2>4, <2>5 DEF Prt!scan_filter_match
<1>15. CASE Prt!main_0
  BY <1>15, ZenonT(60)
     DEF Prt!main_0, Prt!uart_init_0, Prt!at_uart_init, Prt!Unchecked, Prt!Retry,
     Prt!Started, Prt!Go, Prt!At
<1>16. CASE Prt!main_1
  BY <1>16, ZenonT(60)
     DEF Prt!main_1, Prt!uart1_init, Prt!at_uart_init, Prt!Unchecked, Prt!Retry,
     Prt!Started, Prt!Go, Prt!At
<1>17. CASE Prt!main_cycle
  <2>1. CASE Prt!uart_init_cycle
    <3>1. state.image \in {"cycle"} /\ state.pc["main"] = "init"
      BY <2>1 DEF Prt!uart_init_cycle, Prt!At
    <3>2. CASE state' = [state EXCEPT !.fault = TRUE]
      BY <3>1, <3>2
    <3>3. CASE state' = [state EXCEPT !.fifo = FALSE]
      BY <3>1, <3>3
    <3>4. CASE state' = [[state EXCEPT !.pc["main"] = "print"] EXCEPT !.fifo = FALSE,
             !.up = FALSE]
      BY <3>1, <3>4
    <3>5. CASE state' = [[state EXCEPT !.pc["main"] = "print"] EXCEPT !.on = TRUE, !.rx = TRUE,
             !.up = TRUE]
      BY <3>1, <3>5
    <3>6. CASE state' = [[state EXCEPT !.pc["main"] = "print"] EXCEPT !.on = state.on,
             !.rx = TRUE, !.up = state.on]
      BY <3>1, <3>6
    <3> QED BY <2>1, <3>2, <3>3, <3>4, <3>5, <3>6
       DEF Prt!uart_init_cycle, Prt!at_uart_init, Prt!Unchecked, Prt!Retry, Prt!Started, Prt!Go
  <2>2. CASE Prt!uart_lp_pwr_off
    BY <2>2 DEF Prt!uart_lp_pwr_off, Prt!Go, Prt!At
  <2>3. CASE Prt!uart_lp_pwr_on
    BY <2>3 DEF Prt!uart_lp_pwr_on, Prt!Go, Prt!At
  <2>4. CASE Prt!At({"cycle"}, "main", "again") /\ state' = Prt!Go("main", "returned")
    BY <2>4 DEF Prt!Go, Prt!At
  <2> QED BY <1>17, <2>1, <2>2, <2>3, <2>4 DEF Prt!main_cycle
<1> QED BY <1>1, <1>2, <1>3, <1>4, <1>5, <1>6, <1>7, <1>8, <1>9, <1>10, <1>11, <1>12, <1>13,
          <1>14, <1>15, <1>16, <1>17 DEF Prt!Next, Prt!main, Prt!main_beacon, Prt!main_console

-----------------------------------------------------------------------------
(* Transfers to a flash (SpiTest).                                          *)

\* The values of the fields, and the records of the program.
SpiPcs == {"init", "dummy", "rdid", "write_2", "res", "rems", "send", "write", "read", "end"}
SpiChks == [0 .. CHK - 1 -> Spi!Transfers \cup {"none"}]
SpiRecents == {r \in Seq(Spi!Transfers) : Len(r) <= CHK}
SpiIds == Seq({"float", "id"})
SpiAnswers == Seq({"any", "signature"})
SpiCalled == 1 .. Len(Spi!Calls)
SpiCounts == 0 .. CHK
SpiBytes == 0 .. 255

\* The records of the programs.
SpiRecord ==
  [image : Spi!Images, pc : SpiPcs, cs : BOOLEAN, dev : BOOLEAN, fault : BOOLEAN,
   chk : SpiChks, cnt : SpiCounts, recent : SpiRecents, call : SpiCalled, tx : SpiBytes,
   rdid : SpiIds, res : SpiAnswers, sector : {"old", "erased", "mixed", "expected"},
   matches : {"none", "match", "mismatch"}]

\* The types, before a step and after it.
LEMMA SpiTypes == Spi!TypeOK <=> state \in SpiRecord
BY Zenon DEF Spi!TypeOK, SpiRecord, SpiPcs, SpiChks, SpiRecents, SpiIds, SpiAnswers, SpiCalled,
   SpiCounts, SpiBytes

\* The same after a step.
LEMMA SpiTypesNext == Spi!TypeOK' <=> state' \in SpiRecord
BY Zenon DEF Spi!TypeOK, SpiRecord, SpiPcs, SpiChks, SpiRecents, SpiIds, SpiAnswers, SpiCalled,
   SpiCounts, SpiBytes

\* The latest transfers of a record lie below its counter.
SpiRing(r) == \A k \in 1 .. Len(r.recent) : r.chk[(r.cnt + CHK - k) % CHK] = r.recent[k]

\* The inductive invariant.
SpiInv == Spi!TypeOK /\ SpiRing(state) /\ Spi!AnswersOfChip

\* What is assumed of the ring and of the reads.
LEMMA RingSize == CHK \in Nat \ {0} /\ READS \in Nat
BY FirmwareAssumption DEF FirmwareAssumption

\* The calls that main() makes of the flash.
LEMMA SpiCalls == /\ Len(Spi!Calls) \in Nat \ {0} /\ DOMAIN Spi!Calls = 1 .. Len(Spi!Calls)
                  /\ \A k \in 1 .. Len(Spi!Calls) : Spi!Calls[k] \in Spi!Transfers
<1> DEFINE T == {"read 1", "read 3", "write 7", "write 1", "write 2"}
           a == [k \in 1 .. READS |-> "read 1"]
           b == << "read 3", "write 7", "read 1", "read 1", "write 1", "write 2" >>
<1>1. a \in Seq(T) /\ b \in Seq(T) /\ Len(b) = 6
  BY RingSize
<1> HIDE DEF a, b, T
<1>2. Len(a) \in Nat
  BY <1>1, LenProperties
<1>19. a \o b \in Seq(T) /\ Len(a \o b) = Len(a) + Len(b)
  BY <1>1, ConcatProperties, Zenon
<1>20. a \o b \in Seq(T) /\ Len(a \o b) = Len(a) + 6
  BY <1>1, <1>2, <1>19
<1>3. DOMAIN (a \o b) = 1 .. Len(a \o b)
  BY <1>20, LenProperties
<1>4. Spi!Calls = a \o b
  BY DEF Spi!Calls, a, b
<1>5. Len(Spi!Calls) \in Nat \ {0} /\ DOMAIN Spi!Calls = 1 .. Len(Spi!Calls)
  BY <1>2, <1>20, <1>3, <1>4
<1> QED BY <1>5 DEF Spi!Transfers

\* What the flash answers, without the byte that is clocked with the command.
LEMMA SpiReceived ==
  /\ Spi!Received("RDID", 1, 3) = << "id", "id", "id" >>
  /\ Spi!Received("RDID", 1, 3) \in Seq({"float", "id"})
  /\ Spi!Received("RES", 1, 4) \in Seq({"any", "signature"})
<1>1. Spi!Received("RDID", 1, 3) = SubSeq(<< "float", "id", "id", "id" >>, 2, 4)
  BY DEF Spi!Received, Spi!Clocked
<1>2. Spi!Received("RES", 1, 4) = SubSeq(<< "float", "any", "any", "any", "signature" >>, 2, 5)
  BY DEF Spi!Received, Spi!Clocked
<1> DEFINE s == << "float", "id", "id", "id" >>
           t == << "float", "any", "any", "any", "signature" >>
<1>3. \A i \in 2 .. 4 : s[i] \in {"float", "id"}
  OBVIOUS
<1>4. \A i \in 2 .. 5 : t[i] \in {"any", "signature"}
  OBVIOUS
<1>5. /\ SubSeq(s, 2, 4) \in Seq({"float", "id"}) /\ Len(SubSeq(s, 2, 4)) = 3
      /\ \A i \in 1 .. 3 : SubSeq(s, 2, 4)[i] = s[i + 1]
  BY <1>3, SubSeqProperties
<1>6. SubSeq(t, 2, 5) \in Seq({"any", "signature"})
  BY <1>4, SubSeqProperties
<1> DEFINE u == << "id", "id", "id" >>
<1>7. u \in Seq({"float", "id"}) /\ Len(u) = 3 /\ \A i \in 1 .. 3 : u[i] = SubSeq(s, 2, 4)[i]
  BY <1>5
<1>8. SubSeq(s, 2, 4) = u
  BY <1>5, <1>7, SeqEqual
<1> QED BY <1>1, <1>2, <1>5, <1>6, <1>8

\* The start of the program.
LEMMA SpiStarts == Spi!Init => SpiInv
<1> SUFFICES ASSUME Spi!Init PROVE SpiInv
  OBVIOUS
<1>1. PICK i \in Spi!Images :
        state = [image |-> i, pc |-> "init", cs |-> FALSE, dev |-> FALSE, fault |-> FALSE,
          chk |-> [k \in 0 .. CHK - 1 |-> "none"], cnt |-> 0, recent |-> << >>, call |-> 1,
          tx |-> 0, rdid |-> << >>, res |-> << >>, sector |-> "old", matches |-> "none"]
  BY DEF Spi!Init
<1>2. /\ << >> \in Seq(Spi!Transfers) /\ Len(<< >>) = 0 /\ << >> \in Seq({"float", "id"})
      /\ << >> \in Seq({"any", "signature"})
  BY EmptySeq
<1>3. Spi!TypeOK
  BY <1>1, <1>2, RingSize, SpiCalls DEF Spi!TypeOK
<1> QED BY <1>1, <1>2, <1>3 DEF SpiInv, SpiRing, Spi!AnswersOfChip

\* A transfer is noted: the ring holds it and what it held before, but for the oldest.
LEMMA SpiRw ==
  ASSUME Spi!TypeOK, SpiRing(state), NEW x \in Spi!Transfers
  PROVE  /\ Spi!spi_rw(x) \in SpiRecord /\ SpiRing(Spi!spi_rw(x))
         /\ \A f \in {"image", "cs", "dev", "fault", "rdid"} : Spi!spi_rw(x)[f] = state[f]
<1> DEFINE e == Spi!Entry
           r == state.recent
           n == IF Len(r) = CHK THEN CHK ELSE Len(r) + 1
           q == << x >> \o r
           s == SubSeq(q, 1, n)
           c == [k \in DOMAIN state.chk |-> IF k = e THEN x ELSE state.chk[k]]
<1>1. /\ r \in Seq(Spi!Transfers) /\ Len(r) \in 0 .. CHK /\ state.cnt \in 0 .. CHK
      /\ state.chk \in [0 .. CHK - 1 -> Spi!Transfers \cup {"none"}]
  BY RingSize, LenProperties DEF Spi!TypeOK
<1>2. e \in 0 .. CHK - 1 /\ n \in 1 .. CHK /\ n <= Len(r) + 1 /\ e + 1 \in 0 .. CHK
      /\ (e = state.cnt \/ (e = 0 /\ state.cnt = CHK))
  BY <1>1, RingSize DEF Spi!Entry
<1>3. << x >> \in Seq(Spi!Transfers) /\ Len(<< x >>) = 1 /\ << x >>[1] = x
  OBVIOUS
<1>4. /\ q \in Seq(Spi!Transfers) /\ Len(q) = Len(r) + 1
      /\ \A i \in 1 .. Len(r) + 1 : q[i] = IF i <= 1 THEN x ELSE r[i - 1]
  BY <1>1, <1>3, ConcatProperties
<1>5. \A i \in 1 .. n : q[i] \in Spi!Transfers
  BY <1>1, <1>2, <1>4, ElementOfSeq
<1>6. s \in Seq(Spi!Transfers) /\ Len(s) = n /\ \A i \in 1 .. n : s[i] = q[i]
  BY <1>2, <1>5, SubSeqProperties
<1>7. /\ c \in [0 .. CHK - 1 -> Spi!Transfers \cup {"none"}] /\ c[e] = x
      /\ \A k \in 0 .. CHK - 1 : k # e => c[k] = state.chk[k]
  BY <1>1, <1>2
<1> DEFINE w == [state EXCEPT !.chk = c, !.cnt = e + 1, !.recent = s]
<1>8. Spi!spi_rw(x) = w
  BY DEF Spi!spi_rw
<1>9. \A k \in 1 .. n : c[(e + 1 + CHK - k) % CHK] = s[k]
  <2> SUFFICES ASSUME NEW k \in 1 .. n PROVE c[(e + 1 + CHK - k) % CHK] = s[k]
    OBVIOUS
  <2> HIDE DEF e, n, q, s, c, r
  <2>1. CASE k = 1
    <3>1. (e + 1 + CHK - k) % CHK = e
      BY <1>2, <2>1, RingSize
    <3> QED BY <1>1, <1>2, <1>4, <1>6, <1>7, <2>1, <3>1
  <2>2. CASE k > 1
    <3>1. k - 1 \in 1 .. Len(r) /\ k \in 1 .. CHK
      BY <1>1, <1>2, <2>2, RingSize
    <3>2. s[k] = r[k - 1]
      BY <1>1, <1>2, <1>4, <1>6, <2>2
    <3>3. state.chk[(state.cnt + CHK - (k - 1)) % CHK] = r[k - 1]
      BY <3>1 DEF SpiRing, r
    <3>4. (state.cnt + CHK - (k - 1)) % CHK = (e + 1 + CHK - k) % CHK
      <4>0. k \in Nat
        BY <1>2
      <4>1. CASE e = state.cnt
        <5>1. state.cnt + CHK - (k - 1) = e + 1 + CHK - k
          BY <1>2, <4>0, <4>1, RingSize
        <5> QED BY <5>1
      <4>2. CASE e = 0 /\ state.cnt = CHK
        <5> DEFINE m == CHK - (k - 1)
        <5>1. m \in 1 .. CHK - 1
          BY <2>2, <3>1, <4>0, RingSize
        <5>2. state.cnt + CHK - (k - 1) = m + CHK /\ e + 1 + CHK - k = m
          BY <4>0, <4>2, RingSize
        <5> HIDE DEF m
        <5>3. m % CHK = m /\ (m + CHK) % CHK = m
          BY <5>1, RingSize
        <5> QED BY <5>2, <5>3
      <4> QED BY <1>2, <4>1, <4>2
    <3>5. (e + 1 + CHK - k) % CHK \in (0 .. CHK - 1) \ {e}
      <4>1. CASE e + 1 >= k
        BY <1>2, <2>2, <3>1, <4>1, RingSize
      <4>2. CASE e + 1 < k
        BY <1>2, <2>2, <3>1, <4>2, RingSize
      <4> QED BY <1>2, <3>1, <4>1, <4>2, RingSize
    <3> QED BY <1>7, <3>2, <3>3, <3>4, <3>5
  <2> QED BY <1>2, <2>1, <2>2
<1>10. s \in {t \in Seq(Spi!Transfers) : Len(t) <= CHK}
  BY <1>2, <1>6, RingSize
<1> HIDE DEF e, n, q, s, c, r
<1>110. state \in SpiRecord /\ c \in SpiChks /\ e + 1 \in SpiCounts /\ s \in SpiRecents
  BY <1>2, <1>7, <1>10, SpiTypes DEF SpiChks, SpiCounts, SpiRecents
<1>11. w \in SpiRecord
  BY <1>110, Zenon DEF SpiRecord
<1>12. w.chk = c /\ w.cnt = e + 1 /\ w.recent = s
       /\ \A f \in {"image", "cs", "dev", "fault", "rdid"} : w[f] = state[f]
  BY DEF Spi!TypeOK
<1> HIDE DEF w
<1> QED BY <1>6, <1>8, <1>9, <1>11, <1>12 DEF SpiRing

\* Every action keeps the types.
LEMMA SpiTyped == ASSUME SpiInv, Spi!Next PROVE Spi!TypeOK'
<1>0. Spi!TypeOK /\ SpiRing(state)
  BY DEF SpiInv
<1>a. state \in SpiRecord
  BY SpiTypes DEF SpiInv
<1>b. /\ Spi!Received("RDID", 1, 3) \in SpiIds /\ Spi!Received("RES", 1, 4) \in SpiAnswers
  BY SpiReceived DEF SpiIds, SpiAnswers
<1>c. /\ "init" \in SpiPcs /\ "dummy" \in SpiPcs /\ "rdid" \in SpiPcs
           /\ "write_2" \in SpiPcs /\ "res" \in SpiPcs
      /\ "rems" \in SpiPcs /\ "send" \in SpiPcs /\ "write" \in SpiPcs /\ "read" \in SpiPcs
           /\ "end" \in SpiPcs
  BY DEF SpiPcs
<1> SUFFICES state' \in SpiRecord
  BY SpiTypesNext
<1> USE <1>a DEF SpiRecord
<1>1. CASE Spi!spi_init
  <2>1. PICK c \in BOOLEAN, d \in BOOLEAN :
          state' = [state EXCEPT !.pc = "dummy", !.cs = c, !.dev = c /\ d]
    BY <1>1, Zenon DEF Spi!spi_init, Spi!Bind
  <2> DEFINE b == c /\ d
  <2>2. b \in BOOLEAN /\ state' = [state EXCEPT !.pc = "dummy", !.cs = c, !.dev = b] /\ (b => c)
    BY <2>1
  <2> HIDE DEF b
  <2> QED BY <2>2, <1>b, <1>c, Zenon
<1>2. CASE Spi!spi_read_rdid
  <2>1. CASE state' = [state EXCEPT !.pc = "write_2", !.rdid = state.rdid]
    BY <2>1, <1>b, <1>c, Zenon
  <2>2. CASE state' = [state EXCEPT !.pc = "write_2", !.rdid = Spi!Received("RDID", 1, 3)]
    BY <2>2, <1>b, <1>c, Zenon
  <2>3. CASE state' = [state EXCEPT !.fault = TRUE]
    BY <2>3, <1>b, <1>c, Zenon
  <2> QED BY <1>2, <2>1, <2>2, <2>3 DEF Spi!spi_read_rdid, Spi!Transfer
<1>3. CASE Spi!spi_read_res
  <2>1. CASE state' = [state EXCEPT !.pc = "rems", !.res = state.res]
    BY <2>1, <1>b, <1>c, Zenon
  <2>2. CASE state' = [state EXCEPT !.pc = "rems", !.res = Spi!Received("RES", 1, 4)]
    BY <2>2, <1>b, <1>c, Zenon
  <2>3. CASE state' = [state EXCEPT !.fault = TRUE]
    BY <2>3, <1>b, <1>c, Zenon
  <2> QED BY <1>3, <2>1, <2>2, <2>3 DEF Spi!spi_read_res, Spi!Transfer
<1>4. CASE Spi!spi_read_rems
  <2>1. CASE state' = [state EXCEPT !.pc = "dummy"]
    BY <2>1, <1>b, <1>c, Zenon
  <2>2. CASE state' = [state EXCEPT !.fault = TRUE]
    BY <2>2, <1>b, <1>c, Zenon
  <2> QED BY <1>4, <2>1, <2>2 DEF Spi!spi_read_rems, Spi!Transfer
<1>5. CASE Spi!spi_dummy_writes
  <2>1. CASE state' = [state EXCEPT !.pc = "rdid"]
    BY <2>1, <1>b, <1>c, Zenon
  <2>2. CASE state' = [state EXCEPT !.fault = TRUE]
    BY <2>2, <1>b, <1>c, Zenon
  <2> QED BY <1>5, <2>1, <2>2 DEF Spi!spi_dummy_writes, Spi!Transfer
<1>6. CASE Spi!spi_dummy_write_2
  <2>1. CASE state' = [state EXCEPT !.fault = TRUE]
    BY <2>1, <1>b, <1>c, Zenon
  <2>2. CASE state.dev
    <3> DEFINE w == Spi!spi_rw(Spi!Calls[state.call])
               last == state.call = Len(Spi!Calls)
               i == IF last THEN 1 ELSE w.call + 1
               p == IF last THEN "res" ELSE w.pc
    <3>0. state.call \in 1 .. Len(Spi!Calls)
      BY DEF SpiCalled, SpiRecord
    <3>1. /\ w \in SpiRecord /\ SpiRing(w) /\ w.call = state.call
          /\ \A f \in {"image", "cs", "dev", "fault", "rdid"} : w[f] = state[f]
      BY <1>0, <3>0, SpiRw, SpiTypes, SpiCalls DEF Spi!spi_rw
    <3>2. state' = [w EXCEPT !.call = i, !.pc = p]
      BY <1>6, <2>2 DEF Spi!spi_dummy_write_2, Spi!Transfer
    <3> HIDE DEF w
    <3>3. i \in 1 .. Len(Spi!Calls) /\ p \in {"res", w.pc}
      BY <3>0, <3>1, SpiCalls
    <3>4. w.pc \in SpiPcs /\ i \in SpiCalled /\ p \in SpiPcs
      BY <1>c, <3>1, <3>3, SpiCalls DEF SpiRecord, SpiCalled
    <3> HIDE DEF i, p
    <3> QED BY <3>1, <3>2, <3>3, <3>4, Zenon
  <2> QED BY <1>6, <2>1, <2>2 DEF Spi!spi_dummy_write_2, Spi!Transfer
<1>7. CASE Spi!spi_init_nrf91
  <2>1. PICK c \in BOOLEAN, d \in BOOLEAN :
          state' = [state EXCEPT !.pc = "rdid", !.cs = c, !.dev = c /\ d]
    BY <1>7, Zenon DEF Spi!spi_init_nrf91, Spi!Bind
  <2> DEFINE b == c /\ d
  <2>2. b \in BOOLEAN /\ state' = [state EXCEPT !.pc = "rdid", !.cs = c, !.dev = b] /\ (b => c)
    BY <2>1
  <2> HIDE DEF b
  <2> QED BY <2>2, <1>b, <1>c, Zenon
<1>8. CASE Spi!spi_read_rdid_nrf91
  <2>1. CASE state' = [state EXCEPT !.pc = "res", !.rdid = Spi!Received("RDID", 1, 3)]
    BY <2>1, <1>b, <1>c, Zenon
  <2>2. CASE state' = [state EXCEPT !.pc = "res"]
    BY <2>2, <1>b, <1>c, Zenon
  <2>3. CASE state' = [state EXCEPT !.fault = TRUE]
    BY <2>3, <1>b, <1>c, Zenon
  <2> QED BY <1>8, <2>1, <2>2, <2>3 DEF Spi!spi_read_rdid_nrf91, Spi!Transfer
<1>9. CASE Spi!spi_read_res_nrf91
  <2>1. CASE state' = [state EXCEPT !.pc = "rems", !.res = state.res]
    BY <2>1, <1>b, <1>c, Zenon
  <2>2. CASE state' = [state EXCEPT !.pc = "rems", !.res = Spi!Received("RES", 1, 4)]
    BY <2>2, <1>b, <1>c, Zenon
  <2>3. CASE state' = [state EXCEPT !.fault = TRUE]
    BY <2>3, <1>b, <1>c, Zenon
  <2> QED BY <1>9, <2>1, <2>2, <2>3 DEF Spi!spi_read_res_nrf91, Spi!Transfer
<1>10. CASE Spi!spi_read_rems_nrf91
  <2>1. CASE state' = [state EXCEPT !.pc = "rdid"]
    BY <2>1, <1>b, <1>c, Zenon
  <2>2. CASE state' = [state EXCEPT !.fault = TRUE]
    BY <2>2, <1>b, <1>c, Zenon
  <2> QED BY <1>10, <2>1, <2>2 DEF Spi!spi_read_rems_nrf91, Spi!Transfer
<1>11. CASE Spi!spi_init_loopback
  <2>1. PICK c \in BOOLEAN, d \in BOOLEAN :
          state' = [state EXCEPT !.pc = "send", !.cs = c, !.dev = c /\ d]
    BY <1>11, Zenon DEF Spi!spi_init_loopback, Spi!Bind
  <2> DEFINE b == c /\ d
  <2>2. b \in BOOLEAN /\ state' = [state EXCEPT !.pc = "send", !.cs = c, !.dev = b] /\ (b => c)
    BY <2>1
  <2> HIDE DEF b
  <2> QED BY <2>2, <1>b, <1>c, Zenon
<1>12. CASE Spi!spi_test_send
  <2>1. PICK sent \in {0, 1} : \/ state' = [state EXCEPT !.tx = (state.tx + sent) % 256]
                              \/ state' = [state EXCEPT !.fault = TRUE]
    BY <1>12 DEF Spi!spi_test_send, Spi!Transfer
  <2> DEFINE n == (state.tx + sent) % 256
  <2>2. n \in SpiBytes
    BY <2>1 DEF SpiBytes, SpiRecord
  <2> HIDE DEF n
  <2>3. CASE state' = [state EXCEPT !.tx = n]
    BY <2>2, <2>3, <1>b, <1>c, Zenon
  <2>4. CASE state' = [state EXCEPT !.fault = TRUE]
    BY <2>4, <1>b, <1>c, Zenon
  <2> QED BY <2>1, <2>3, <2>4 DEF n
<1>13. CASE Spi!flash_erase
  <2>1. CASE state' = [state EXCEPT !.pc = "end"]
    BY <2>1, <1>b, <1>c, Zenon
  <2>2. ASSUME NEW s \in {"old", "erased"}, state.image = "flash",
               state' = [state EXCEPT !.pc = "write", !.dev = TRUE, !.sector = s]
        PROVE  state' \in SpiRecord
    BY <2>2, <1>b, <1>c, Zenon
  <2> QED BY <1>13, <2>1, <2>2 DEF Spi!flash_erase, Spi!Flash
<1>14. CASE Spi!flash_write
  <2>1. CASE state' = [state EXCEPT !.pc = "end", !.sector = "mixed"]
    BY <2>1, <1>b, <1>c, Zenon
  <2>2. CASE state' = [state EXCEPT !.pc = "read", !.sector = "expected"]
    BY <2>2, <1>b, <1>c, Zenon
  <2>3. CASE state' = [state EXCEPT !.pc = "read", !.sector = "mixed"]
    BY <2>3, <1>b, <1>c, Zenon
  <2> QED BY <1>14, <2>1, <2>2, <2>3 DEF Spi!flash_write, Spi!Flash
<1>15. CASE Spi!flash_read
  <2>1. CASE state' = [state EXCEPT !.pc = "end"]
    BY <2>1, <1>b, <1>c, Zenon
  <2>2. ASSUME NEW m \in {"match", "mismatch"}, state' = [state EXCEPT !.pc = "end",
           !.matches = m]
        PROVE  state' \in SpiRecord
    BY <2>2, <1>b, <1>c, Zenon
  <2> QED BY <1>15, <2>1, <2>2 DEF Spi!flash_read, Spi!Flash
<1> QED BY <1>1, <1>2, <1>3, <1>4, <1>5, <1>6, <1>7, <1>8, <1>9, <1>10, <1>11, <1>12, <1>13,
          <1>14, <1>15 DEF Spi!Next, Spi!main, Spi!main_nrf91, Spi!main_loopback, Spi!main_flash

\* What a record of the program has.
SpiShape == /\ {"image", "pc", "cs", "dev", "fault", "chk", "cnt", "recent", "call", "tx",
                "rdid", "res", "sector", "matches"} \subseteq DOMAIN state
            /\ {state.cs, state.dev} \subseteq BOOLEAN /\ state.tx \in 0 .. 255

\* ... and the rest of the invariant.
LEMMA SpiKept == ASSUME SpiInv, Spi!Next PROVE SpiRing(state)' /\ Spi!AnswersOfChip'
<1>0. SpiShape /\ SpiRing(state) /\ Spi!AnswersOfChip
  BY DEF SpiInv, Spi!TypeOK, SpiShape
<1>00. Spi!TypeOK
  BY DEF SpiInv
<1> USE <1>0 DEF SpiRing, Spi!AnswersOfChip, SpiShape
<1>1. CASE Spi!spi_init
  <2>1. PICK c \in BOOLEAN, d \in BOOLEAN :
          state' = [state EXCEPT !.pc = "dummy", !.cs = c, !.dev = c /\ d]
    BY <1>1, Zenon DEF Spi!spi_init, Spi!Bind
  <2> DEFINE b == c /\ d
  <2>2. b \in BOOLEAN /\ state' = [state EXCEPT !.pc = "dummy", !.cs = c, !.dev = b] /\ (b => c)
    BY <2>1
  <2> HIDE DEF b
  <2> QED BY <2>2, SpiReceived
<1>2. CASE Spi!spi_read_rdid
  <2>1. CASE state' = [state EXCEPT !.pc = "write_2", !.rdid = state.rdid]
    BY <2>1, SpiReceived
  <2>2. CASE state' = [state EXCEPT !.pc = "write_2", !.rdid = Spi!Received("RDID", 1, 3)]
    BY <2>2, SpiReceived
  <2>3. CASE state' = [state EXCEPT !.fault = TRUE]
    BY <2>3, SpiReceived
  <2> QED BY <1>2, <2>1, <2>2, <2>3 DEF Spi!spi_read_rdid, Spi!Transfer
<1>3. CASE Spi!spi_read_res
  <2>1. CASE state' = [state EXCEPT !.pc = "rems", !.res = state.res]
    BY <2>1, SpiReceived
  <2>2. CASE state' = [state EXCEPT !.pc = "rems", !.res = Spi!Received("RES", 1, 4)]
    BY <2>2, SpiReceived
  <2>3. CASE state' = [state EXCEPT !.fault = TRUE]
    BY <2>3, SpiReceived
  <2> QED BY <1>3, <2>1, <2>2, <2>3 DEF Spi!spi_read_res, Spi!Transfer
<1>4. CASE Spi!spi_read_rems
  <2>1. CASE state' = [state EXCEPT !.pc = "dummy"]
    BY <2>1, SpiReceived
  <2>2. CASE state' = [state EXCEPT !.fault = TRUE]
    BY <2>2, SpiReceived
  <2> QED BY <1>4, <2>1, <2>2 DEF Spi!spi_read_rems, Spi!Transfer
<1>5. CASE Spi!spi_dummy_writes
  <2>1. CASE state' = [state EXCEPT !.pc = "rdid"]
    BY <2>1, SpiReceived
  <2>2. CASE state' = [state EXCEPT !.fault = TRUE]
    BY <2>2, SpiReceived
  <2> QED BY <1>5, <2>1, <2>2 DEF Spi!spi_dummy_writes, Spi!Transfer
<1>6. CASE Spi!spi_dummy_write_2
  <2>1. CASE state' = [state EXCEPT !.fault = TRUE]
    BY <2>1, SpiReceived
  <2>2. CASE state.dev
    <3> DEFINE w == Spi!spi_rw(Spi!Calls[state.call])
               last == state.call = Len(Spi!Calls)
               i == IF last THEN 1 ELSE w.call + 1
               p == IF last THEN "res" ELSE w.pc
    <3>0. state.call \in 1 .. Len(Spi!Calls)
      BY <1>00 DEF Spi!TypeOK
    <3>1. /\ w \in SpiRecord /\ SpiRing(w) /\ w.call = state.call
          /\ \A f \in {"image", "cs", "dev", "fault", "rdid"} : w[f] = state[f]
      BY <1>0, <3>0, <1>00, SpiRw, SpiCalls DEF Spi!spi_rw
    <3>2. state' = [w EXCEPT !.call = i, !.pc = p]
      BY <1>6, <2>2 DEF Spi!spi_dummy_write_2, Spi!Transfer
    <3> HIDE DEF w
    <3>3. i \in 1 .. Len(Spi!Calls) /\ p \in {"res", w.pc}
      BY <3>0, <3>1, SpiCalls
    <3> HIDE DEF i, p
    <3> QED BY <3>1, <3>2, <3>3 DEF SpiRecord, SpiRing
  <2> QED BY <1>6, <2>1, <2>2 DEF Spi!spi_dummy_write_2, Spi!Transfer
<1>7. CASE Spi!spi_init_nrf91
  <2>1. PICK c \in BOOLEAN, d \in BOOLEAN :
          state' = [state EXCEPT !.pc = "rdid", !.cs = c, !.dev = c /\ d]
    BY <1>7, Zenon DEF Spi!spi_init_nrf91, Spi!Bind
  <2> DEFINE b == c /\ d
  <2>2. b \in BOOLEAN /\ state' = [state EXCEPT !.pc = "rdid", !.cs = c, !.dev = b] /\ (b => c)
    BY <2>1
  <2> HIDE DEF b
  <2> QED BY <2>2, SpiReceived
<1>8. CASE Spi!spi_read_rdid_nrf91
  <2>1. CASE state' = [state EXCEPT !.pc = "res", !.rdid = Spi!Received("RDID", 1, 3)]
    BY <2>1, SpiReceived
  <2>2. CASE state' = [state EXCEPT !.pc = "res"]
    BY <2>2, SpiReceived
  <2>3. CASE state' = [state EXCEPT !.fault = TRUE]
    BY <2>3, SpiReceived
  <2> QED BY <1>8, <2>1, <2>2, <2>3 DEF Spi!spi_read_rdid_nrf91, Spi!Transfer
<1>9. CASE Spi!spi_read_res_nrf91
  <2>1. CASE state' = [state EXCEPT !.pc = "rems", !.res = state.res]
    BY <2>1, SpiReceived
  <2>2. CASE state' = [state EXCEPT !.pc = "rems", !.res = Spi!Received("RES", 1, 4)]
    BY <2>2, SpiReceived
  <2>3. CASE state' = [state EXCEPT !.fault = TRUE]
    BY <2>3, SpiReceived
  <2> QED BY <1>9, <2>1, <2>2, <2>3 DEF Spi!spi_read_res_nrf91, Spi!Transfer
<1>10. CASE Spi!spi_read_rems_nrf91
  <2>1. CASE state' = [state EXCEPT !.pc = "rdid"]
    BY <2>1, SpiReceived
  <2>2. CASE state' = [state EXCEPT !.fault = TRUE]
    BY <2>2, SpiReceived
  <2> QED BY <1>10, <2>1, <2>2 DEF Spi!spi_read_rems_nrf91, Spi!Transfer
<1>11. CASE Spi!spi_init_loopback
  <2>1. PICK c \in BOOLEAN, d \in BOOLEAN :
          state' = [state EXCEPT !.pc = "send", !.cs = c, !.dev = c /\ d]
    BY <1>11, Zenon DEF Spi!spi_init_loopback, Spi!Bind
  <2> DEFINE b == c /\ d
  <2>2. b \in BOOLEAN /\ state' = [state EXCEPT !.pc = "send", !.cs = c, !.dev = b] /\ (b => c)
    BY <2>1
  <2> HIDE DEF b
  <2> QED BY <2>2, SpiReceived
<1>12. CASE Spi!spi_test_send
  <2>1. PICK sent \in {0, 1} : \/ state' = [state EXCEPT !.tx = (state.tx + sent) % 256]
                              \/ state' = [state EXCEPT !.fault = TRUE]
    BY <1>12 DEF Spi!spi_test_send, Spi!Transfer
  <2> DEFINE n == (state.tx + sent) % 256
  <2> HIDE DEF n
  <2>3. CASE state' = [state EXCEPT !.tx = n]
    BY <2>3, SpiReceived
  <2>4. CASE state' = [state EXCEPT !.fault = TRUE]
    BY <2>4, SpiReceived
  <2> QED BY <2>1, <2>3, <2>4 DEF n
<1>13. CASE Spi!flash_erase
  <2>1. CASE state' = [state EXCEPT !.pc = "end"]
    BY <2>1, SpiReceived
  <2>2. ASSUME NEW s \in {"old", "erased"}, state.image = "flash",
               state' = [state EXCEPT !.pc = "write", !.dev = TRUE, !.sector = s]
        PROVE  SpiRing(state)' /\ Spi!AnswersOfChip'
    BY <2>2, SpiReceived
  <2> QED BY <1>13, <2>1, <2>2 DEF Spi!flash_erase, Spi!Flash
<1>14. CASE Spi!flash_write
  <2>1. CASE state' = [state EXCEPT !.pc = "end", !.sector = "mixed"]
    BY <2>1, SpiReceived
  <2>2. CASE state' = [state EXCEPT !.pc = "read", !.sector = "expected"]
    BY <2>2, SpiReceived
  <2>3. CASE state' = [state EXCEPT !.pc = "read", !.sector = "mixed"]
    BY <2>3, SpiReceived
  <2> QED BY <1>14, <2>1, <2>2, <2>3 DEF Spi!flash_write, Spi!Flash
<1>15. CASE Spi!flash_read
  <2>1. CASE state' = [state EXCEPT !.pc = "end"]
    BY <2>1, SpiReceived
  <2>2. ASSUME NEW m \in {"match", "mismatch"}, state' = [state EXCEPT !.pc = "end",
           !.matches = m]
        PROVE  SpiRing(state)' /\ Spi!AnswersOfChip'
    BY <2>2, SpiReceived
  <2> QED BY <1>15, <2>1, <2>2 DEF Spi!flash_read, Spi!Flash
<1> QED BY <1>1, <1>2, <1>3, <1>4, <1>5, <1>6, <1>7, <1>8, <1>9, <1>10, <1>11, <1>12, <1>13,
          <1>14, <1>15 DEF Spi!Next, Spi!main, Spi!main_nrf91, Spi!main_loopback, Spi!main_flash

-----------------------------------------------------------------------------
(* The level of a battery (BatteryMonitor).                                 *)

\* The level n of the voltage mV lies on the curve.
BatOn(mV, n, curve) ==
  mV > 0 => \A k \in 1 .. Len(curve) - 1 :
    LET up == curve[k] low == curve[k + 1]
    IN  mV \in low[2] .. up[2] =>
          /\ (n - low[1]) * (up[2] - low[2]) <= (up[1] - low[1]) * (mV - low[2])
          /\ (n + 1 - low[1]) * (up[2] - low[2]) > (up[1] - low[1]) * (mV - low[2])

\* The divider is fed from the first call to the last, and only a device that was found.
BatFed == /\ state.pc \in {"setup", "enable"} => ~state.fed
          /\ state.pc \in {"sample", "disable"} => state.battery_ok
          /\ state.pc = "end" /\ state.fed => state.stuck

\* The values of the fields, and the records of the program.
BatBoards == {"divider", "direct"}
BatPcs == {"setup", "enable", "sample", "disable", "end"}
BatPptts == 0 .. 10000
BatRecord ==
  [board : BatBoards, pc : BatPcs, battery_ok : BOOLEAN, fed : BOOLEAN, stuck : BOOLEAN,
   batt_mV : Nat, pptt : BatPptts]

\* The names of the steps.
LEMMA BatPc == /\ "setup" \in BatPcs /\ "enable" \in BatPcs /\ "sample" \in BatPcs
               /\ "disable" \in BatPcs /\ "end" \in BatPcs
BY DEF BatPcs

\* What was measured last lies on the curve of the board.
BatMeasured == BatOn(state.batt_mV, state.pptt, Bat!levels[state.board])

\* The inductive invariant.
BatInv == state \in BatRecord /\ BatMeasured /\ BatFed

\* What is assumed of the voltages.
LEMMA VoltagesNat == Voltages \subseteq Nat
BY FirmwareAssumption DEF FirmwareAssumption

\* The first point at or below a voltage, and the level it gives.
BatFirst(mV, curve, i) ==
  LET below(k) == /\ mV >= curve[k][2] \/ k = Len(curve)
                  /\ \A j \in 1 .. k - 1 : mV < curve[j][2]
  IN  i \in DOMAIN curve /\ below(i) /\ \A k \in DOMAIN curve : below(k) => k = i

\* The level at the voltage mV, when its first point is the i-th.
BatValue(mV, curve, i) ==
  IF i = 1 \/ mV < curve[i][2] THEN curve[i][1]
  ELSE curve[i][1] + ((curve[i - 1][1] - curve[i][1]) * (mV - curve[i][2]))
                        \div (curve[i - 1][2] - curve[i][2])

\* Only one point is the first, and it decides the level.
LEMMA BatPoint ==
  ASSUME NEW curve, NEW mV, NEW i, BatFirst(mV, curve, i)
  PROVE  Bat!battery_level_pptt(mV, curve) = BatValue(mV, curve, i)
<1> DEFINE pb == CHOOSE k \in DOMAIN curve : /\ mV >= curve[k][2] \/ k = Len(curve)
                                             /\ \A j \in 1 .. k - 1 : mV < curve[j][2]
<1>1. pb = i
  BY Zenon DEF BatFirst
<1>2. Bat!battery_level_pptt(mV, curve) = BatValue(mV, curve, pb)
  BY Zenon DEF Bat!battery_level_pptt, BatValue
<1> HIDE DEF pb
<1> QED BY <1>1, <1>2, Zenon

\* The points of the curve.
BatDividerPoints(curve) ==
  /\ Len(curve) = 3 /\ DOMAIN curve = 1 .. 3
  /\ curve[1][1] = 10000 /\ curve[1][2] = 3950
  /\ curve[2][1] = 625 /\ curve[2][2] = 3550
  /\ curve[3][1] = 0 /\ curve[3][2] = 3100

\* The level of the board with a divider lies on its curve.
LEMMA BatDivider ==
  ASSUME NEW mV \in Nat, NEW curve, BatDividerPoints(curve)
  PROVE  /\ Bat!battery_level_pptt(mV, curve) \in BatPptts
         /\ BatOn(mV, Bat!battery_level_pptt(mV, curve), curve)
<1> DEFINE n == Bat!battery_level_pptt(mV, curve)
<1>0. ASSUME n \in Int,
             mV \in 3550 .. 3950 => /\ (n - 625) * 400 <= 9375 * (mV - 3550)
                                     /\ (n + 1 - 625) * 400 > 9375 * (mV - 3550),
             mV \in 3100 .. 3550 => /\ (n - 0) * 450 <= 625 * (mV - 3100)
                                     /\ (n + 1 - 0) * 450 > 625 * (mV - 3100)
      PROVE  BatOn(mV, n, curve)
  <2> HIDE DEF n
  <2>1. 1 .. Len(curve) - 1 = {1, 2}
    BY DEF BatDividerPoints
  <2> QED BY <1>0, <2>1 DEF BatOn, BatDividerPoints
<1>1. CASE mV >= 3950
  <2>1. BatFirst(mV, curve, 1)
    BY <1>1 DEF BatFirst, BatDividerPoints
  <2>2. n = BatValue(mV, curve, 1)
    BY <2>1, BatPoint, Zenon
  <2> HIDE DEF n
  <2>3. TRUE
    OBVIOUS
  <2>4. n = 10000
    BY <1>1, <2>2 DEF BatValue, BatDividerPoints
  <2>5. n \in Int /\ n \in BatPptts
    BY <1>1, <2>3, <2>4 DEF BatPptts
  <2>6. mV \in 3550 .. 3950 => /\ (n - 625) * 400 <= 9375 * (mV - 3550)
                                        /\ (n + 1 - 625) * 400 > 9375 * (mV - 3550)
    BY <1>1, <2>3, <2>4
  <2>7. mV \in 3100 .. 3550 => /\ (n - 0) * 450 <= 625 * (mV - 3100)
                                        /\ (n + 1 - 0) * 450 > 625 * (mV - 3100)
    BY <1>1, <2>3, <2>4
  <2> QED BY <1>0, <2>5, <2>6, <2>7 DEF n
<1>2. CASE mV < 3950 /\ mV >= 3550
  <2>1. BatFirst(mV, curve, 2)
    BY <1>2 DEF BatFirst, BatDividerPoints
  <2>2. n = BatValue(mV, curve, 2)
    BY <2>1, BatPoint, Zenon
  <2> HIDE DEF n
  <2> DEFINE p == 9375 * (mV - 3550)
             q == p \div 400
  <2>3. p \in Nat /\ q \in Nat /\ 400 * q <= p /\ p < 400 * (q + 1)
    <3>1. p \in Nat
      BY <1>2
    <3> HIDE DEF p
    <3> QED BY <3>1
  <2>4. n = 625 + q
    BY <1>2, <2>2 DEF BatValue, BatDividerPoints
  <2> HIDE DEF q
  <2>5. n \in Int /\ n \in BatPptts
    BY <1>2, <2>3, <2>4, SMTT(30) DEF BatPptts
  <2>6. mV \in 3550 .. 3950 => /\ (n - 625) * 400 <= 9375 * (mV - 3550)
                                        /\ (n + 1 - 625) * 400 > 9375 * (mV - 3550)
    BY <1>2, <2>3, <2>4
  <2>7. mV \in 3100 .. 3550 => /\ (n - 0) * 450 <= 625 * (mV - 3100)
                                        /\ (n + 1 - 0) * 450 > 625 * (mV - 3100)
    BY <1>2, <2>3, <2>4
  <2> QED BY <1>0, <2>5, <2>6, <2>7 DEF n
<1>3. CASE mV < 3550 /\ mV >= 3100
  <2>1. BatFirst(mV, curve, 3)
    BY <1>3 DEF BatFirst, BatDividerPoints
  <2>2. n = BatValue(mV, curve, 3)
    BY <2>1, BatPoint, Zenon
  <2> HIDE DEF n
  <2> DEFINE p == 625 * (mV - 3100)
             q == p \div 450
  <2>3. p \in Nat /\ q \in Nat /\ 450 * q <= p /\ p < 450 * (q + 1)
    <3>1. p \in Nat
      BY <1>3
    <3> HIDE DEF p
    <3> QED BY <3>1
  <2>4. n = 0 + q
    BY <1>3, <2>2 DEF BatValue, BatDividerPoints
  <2> HIDE DEF q
  <2>5. n \in Int /\ n \in BatPptts
    BY <1>3, <2>3, <2>4 DEF BatPptts
  <2>6. mV \in 3550 .. 3950 => /\ (n - 625) * 400 <= 9375 * (mV - 3550)
                                        /\ (n + 1 - 625) * 400 > 9375 * (mV - 3550)
    BY <1>3, <2>3, <2>4
  <2>7. mV \in 3100 .. 3550 => /\ (n - 0) * 450 <= 625 * (mV - 3100)
                                        /\ (n + 1 - 0) * 450 > 625 * (mV - 3100)
    BY <1>3, <2>3, <2>4
  <2> QED BY <1>0, <2>5, <2>6, <2>7 DEF n
<1>4. CASE mV < 3100
  <2>1. BatFirst(mV, curve, 3)
    BY <1>4 DEF BatFirst, BatDividerPoints
  <2>2. n = BatValue(mV, curve, 3)
    BY <2>1, BatPoint, Zenon
  <2> HIDE DEF n
  <2>3. TRUE
    OBVIOUS
  <2>4. n = 0
    BY <1>4, <2>2 DEF BatValue, BatDividerPoints
  <2>5. n \in Int /\ n \in BatPptts
    BY <1>4, <2>3, <2>4 DEF BatPptts
  <2>6. mV \in 3550 .. 3950 => /\ (n - 625) * 400 <= 9375 * (mV - 3550)
                                        /\ (n + 1 - 625) * 400 > 9375 * (mV - 3550)
    BY <1>4, <2>3, <2>4
  <2>7. mV \in 3100 .. 3550 => /\ (n - 0) * 450 <= 625 * (mV - 3100)
                                        /\ (n + 1 - 0) * 450 > 625 * (mV - 3100)
    BY <1>4, <2>3, <2>4
  <2> QED BY <1>0, <2>5, <2>6, <2>7 DEF n
<1> QED BY <1>1, <1>2, <1>3, <1>4

\* The points of the curve.
BatDirectPoints(curve) ==
  /\ Len(curve) = 2 /\ DOMAIN curve = 1 .. 2
  /\ curve[1][1] = 10000 /\ curve[1][2] = 3600
  /\ curve[2][1] = 0 /\ curve[2][2] = 1700

\* The level of the other board lies on its curve.
LEMMA BatDirect ==
  ASSUME NEW mV \in Nat, NEW curve, BatDirectPoints(curve)
  PROVE  /\ Bat!battery_level_pptt(mV, curve) \in BatPptts
         /\ BatOn(mV, Bat!battery_level_pptt(mV, curve), curve)
<1> DEFINE n == Bat!battery_level_pptt(mV, curve)
<1>0. ASSUME n \in Int,
             mV \in 1700 .. 3600 => /\ (n - 0) * 1900 <= 10000 * (mV - 1700)
                                     /\ (n + 1 - 0) * 1900 > 10000 * (mV - 1700)
      PROVE  BatOn(mV, n, curve)
  <2> HIDE DEF n
  <2>1. 1 .. Len(curve) - 1 = {1}
    BY DEF BatDirectPoints
  <2> QED BY <1>0, <2>1 DEF BatOn, BatDirectPoints
<1>1. CASE mV >= 3600
  <2>1. BatFirst(mV, curve, 1)
    BY <1>1 DEF BatFirst, BatDirectPoints
  <2>2. n = BatValue(mV, curve, 1)
    BY <2>1, BatPoint, Zenon
  <2> HIDE DEF n
  <2>3. TRUE
    OBVIOUS
  <2>4. n = 10000
    BY <1>1, <2>2 DEF BatValue, BatDirectPoints
  <2>5. n \in Int /\ n \in BatPptts
    BY <1>1, <2>3, <2>4 DEF BatPptts
  <2>6. mV \in 1700 .. 3600 => /\ (n - 0) * 1900 <= 10000 * (mV - 1700)
                                        /\ (n + 1 - 0) * 1900 > 10000 * (mV - 1700)
    BY <1>1, <2>3, <2>4
  <2> QED BY <1>0, <2>5, <2>6 DEF n
<1>2. CASE mV < 3600 /\ mV >= 1700
  <2>1. BatFirst(mV, curve, 2)
    BY <1>2 DEF BatFirst, BatDirectPoints
  <2>2. n = BatValue(mV, curve, 2)
    BY <2>1, BatPoint, Zenon
  <2> HIDE DEF n
  <2> DEFINE p == 10000 * (mV - 1700)
             q == p \div 1900
  <2>3. p \in Nat /\ q \in Nat /\ 1900 * q <= p /\ p < 1900 * (q + 1)
    <3>1. p \in Nat
      BY <1>2
    <3> HIDE DEF p
    <3> QED BY <3>1
  <2>4. n = 0 + q
    BY <1>2, <2>2 DEF BatValue, BatDirectPoints
  <2> HIDE DEF q
  <2>5. n \in Int /\ n \in BatPptts
    BY <1>2, <2>3, <2>4, SMTT(30) DEF BatPptts
  <2>6. mV \in 1700 .. 3600 => /\ (n - 0) * 1900 <= 10000 * (mV - 1700)
                                        /\ (n + 1 - 0) * 1900 > 10000 * (mV - 1700)
    BY <1>2, <2>3, <2>4
  <2> QED BY <1>0, <2>5, <2>6 DEF n
<1>3. CASE mV < 1700
  <2>1. BatFirst(mV, curve, 2)
    BY <1>3 DEF BatFirst, BatDirectPoints
  <2>2. n = BatValue(mV, curve, 2)
    BY <2>1, BatPoint, Zenon
  <2> HIDE DEF n
  <2>3. TRUE
    OBVIOUS
  <2>4. n = 0
    BY <1>3, <2>2 DEF BatValue, BatDirectPoints
  <2>5. n \in Int /\ n \in BatPptts
    BY <1>3, <2>3, <2>4 DEF BatPptts
  <2>6. mV \in 1700 .. 3600 => /\ (n - 0) * 1900 <= 10000 * (mV - 1700)
                                        /\ (n + 1 - 0) * 1900 > 10000 * (mV - 1700)
    BY <1>3, <2>3, <2>4
  <2> QED BY <1>0, <2>5, <2>6 DEF n
<1> QED BY <1>1, <1>2, <1>3

\* The level that is computed lies on the curve, whatever the voltage.
LEMMA BatLevel ==
  ASSUME NEW mV \in Nat, NEW b \in BatBoards
  PROVE  /\ Bat!battery_level_pptt(mV, Bat!levels[b]) \in BatPptts
         /\ BatOn(mV, Bat!battery_level_pptt(mV, Bat!levels[b]), Bat!levels[b])
<1>1. CASE b = "divider"
  <2> DEFINE curve == << << 10000, 3950 >>, << 625, 3550 >>, << 0, 3100 >> >>
  <2>1. Bat!levels[b] = curve
    BY <1>1 DEF Bat!levels
  <2>2. BatDividerPoints(curve)
    BY DEF BatDividerPoints
  <2> HIDE DEF curve
  <2> QED BY <2>1, <2>2, BatDivider, Zenon
<1>2. CASE b = "direct"
  <2> DEFINE curve == << << 10000, 3600 >>, << 0, 1700 >> >>
  <2>1. Bat!levels[b] = curve
    BY <1>2 DEF Bat!levels
  <2>2. BatDirectPoints(curve)
    BY DEF BatDirectPoints
  <2> HIDE DEF curve
  <2> QED BY <2>1, <2>2, BatDirect, Zenon
<1> QED BY <1>1, <1>2 DEF BatBoards

\* The start of the program.
LEMMA BatStarts == Bat!Init => BatInv
BY DEF BatInv, BatRecord, BatBoards, BatPcs, BatPptts, BatMeasured, BatOn, BatFed, Bat!Init

\* The invariant says what the run checks.
LEMMA BatHolds == BatInv => Bat!TypeOK /\ Bat!LevelOnCurve
<1> SUFFICES ASSUME BatInv PROVE Bat!TypeOK /\ Bat!LevelOnCurve
  OBVIOUS
<1>1. Bat!TypeOK
  BY SMT DEF BatInv, BatRecord, BatBoards, BatPcs, BatPptts, Bat!TypeOK
<1>2. Bat!LevelOnCurve
  BY Zenon DEF BatInv, BatMeasured, BatFed, BatOn, Bat!LevelOnCurve
<1> QED BY <1>1, <1>2

\* Every action keeps the invariant.
LEMMA BatStep == ASSUME BatInv, Bat!Next PROVE BatInv'
<1>0. state \in BatRecord /\ BatMeasured /\ BatFed
  BY DEF BatInv
<1>s. {"board", "pc", "battery_ok", "fed", "stuck", "batt_mV", "pptt"} \subseteq DOMAIN state
  BY <1>0 DEF BatRecord
<1>a. ASSUME NEW r \in BatRecord, state' = r, r.board = state.board, r.batt_mV = state.batt_mV,
             r.pptt = state.pptt, BatFed'
      PROVE  BatInv'
  <2>1. BatMeasured'
    BY <1>0, <1>a, Zenon DEF BatMeasured
  <2> QED BY <1>a, <2>1 DEF BatInv
<1>1. CASE Bat!battery_setup
  <2>1. PICK ok \in BOOLEAN : state' = [state EXCEPT !.pc = "enable", !.battery_ok = ok]
    BY <1>1 DEF Bat!battery_setup
  <2>2. state' \in BatRecord
    BY <1>0, <2>1, BatPc, Zenon DEF BatRecord
  <2>3. BatFed'
    BY <1>0, <1>s, <1>1, <2>1 DEF BatFed, Bat!battery_setup
  <2> QED BY <1>s, <1>a, <2>1, <2>2, <2>3
<1>2. CASE Bat!battery_sample
  <2>1. CASE state' = [state EXCEPT !.pc = "disable"]
    <3>1. state' \in BatRecord
      BY <1>0, <2>1, BatPc, Zenon DEF BatRecord
    <3>2. BatFed'
      BY <1>0, <1>s, <1>2, <2>1 DEF BatFed, Bat!battery_sample
    <3> QED BY <1>s, <1>a, <2>1, <3>1, <3>2
  <2>2. ASSUME NEW mV \in Nat,
               state' = [state EXCEPT !.batt_mV = mV,
                                      !.pptt = Bat!battery_level_pptt(mV,
                                         Bat!levels[state.board])]
        PROVE  BatInv'
    <3> DEFINE n == Bat!battery_level_pptt(mV, Bat!levels[state.board])
    <3>0. state.board \in BatBoards
      BY <1>0 DEF BatRecord
    <3>1. n \in BatPptts /\ BatOn(mV, n, Bat!levels[state.board])
      BY <2>2, <3>0, BatLevel, Zenon
    <3>2. state' = [state EXCEPT !.batt_mV = mV, !.pptt = n]
      BY <2>2
    <3> HIDE DEF n
    <3>3. state' \in BatRecord
      BY <1>0, <2>2, <3>1, <3>2, BatPc, Zenon DEF BatRecord
    <3>4. /\ state'.batt_mV = mV /\ state'.pptt = n /\ state'.board = state.board
          /\ state'.pc = state.pc /\ state'.fed = state.fed /\ state'.stuck = state.stuck
          /\ state'.battery_ok = state.battery_ok
      BY <1>s, <3>2
    <3>5. BatMeasured'
      BY <3>1, <3>4 DEF BatMeasured
    <3>6. BatFed'
      BY <1>0, <3>4 DEF BatFed
    <3> QED BY <3>3, <3>5, <3>6 DEF BatInv
  <2> DEFINE sampled(mV) == [state EXCEPT !.batt_mV = mV,
                               !.pptt = Bat!battery_level_pptt(mV, Bat!levels[state.board])]
  <2>3. \/ state' = [state EXCEPT !.pc = "disable"]
        \/ \E mV \in Voltages : state' = sampled(mV)
    <3> HIDE DEF sampled
    <3>1. ASSUME NEW mV \in Voltages \cup {-1},
                 state' = IF mV < 0 THEN [state EXCEPT !.pc = "disable"] ELSE sampled(mV)
          PROVE  \/ state' = [state EXCEPT !.pc = "disable"]
                 \/ mV \in Voltages /\ state' = sampled(mV)
      BY <3>1, VoltagesNat
    <3> QED BY <1>2, <3>1, Zenon DEF Bat!battery_sample, sampled
  <2>4. CASE state' = [state EXCEPT !.pc = "disable"]
    BY <2>1, <2>4
  <2>5. CASE \E mV \in Voltages : state' = sampled(mV)
    BY <2>2, <2>5, VoltagesNat, Zenon
  <2> QED BY <2>3, <2>4, <2>5
<1>3. ASSUME state.pc = "enable", NEW b \in Bat!battery_measure_enable(TRUE),
             state' = [b EXCEPT !.pc = IF b.battery_ok /\ ~b.stuck THEN "sample" ELSE "end"]
      PROVE  BatInv'
  <2>1. CASE ~state.battery_ok
    <3>1. b = state
      BY <1>3, <2>1 DEF Bat!battery_measure_enable
    <3>2. state' = [state EXCEPT !.pc = "end"]
      BY <1>3, <2>1, <3>1
    <3>3. state' \in BatRecord
      BY <1>0, <3>2, BatPc, Zenon DEF BatRecord
    <3>4. BatFed'
      BY <1>0, <1>s, <1>3, <3>2 DEF BatFed
    <3> QED BY <1>s, <1>a, <3>2, <3>3, <3>4
  <2>2. CASE state.battery_ok
    <3> DEFINE f == TRUE /\ state.board = "divider"
    <3>0. f \in BOOLEAN
      OBVIOUS
    <3>1. b = [state EXCEPT !.fed = f, !.stuck = FALSE] \/ b = [state EXCEPT !.stuck = TRUE]
      BY <1>3, <2>2 DEF Bat!battery_measure_enable
    <3> HIDE DEF f
    <3>2. CASE b = [state EXCEPT !.fed = f, !.stuck = FALSE]
      <4>1. state' = [state EXCEPT !.fed = f, !.stuck = FALSE, !.pc = "sample"]
        BY <1>0, <1>s, <1>3, <2>2, <3>2
      <4>2. state' \in BatRecord
        BY <1>0, <3>0, <4>1, BatPc, Zenon DEF BatRecord
      <4>3. BatFed'
        BY <1>0, <1>s, <1>3, <2>2, <4>1 DEF BatFed
      <4> QED BY <1>s, <1>a, <4>1, <4>2, <4>3
    <3>3. CASE b = [state EXCEPT !.stuck = TRUE]
      <4>1. state' = [state EXCEPT !.stuck = TRUE, !.pc = "end"]
        BY <1>0, <1>s, <1>3, <2>2, <3>3
      <4>2. state' \in BatRecord
        BY <1>0, <4>1, BatPc, Zenon DEF BatRecord
      <4>3. BatFed'
        BY <1>0, <1>s, <1>3, <2>2, <4>1 DEF BatFed
      <4> QED BY <1>s, <1>a, <4>1, <4>2, <4>3
    <3> QED BY <3>1, <3>2, <3>3
  <2> QED BY <2>1, <2>2
<1>4. ASSUME state.pc = "disable", NEW b \in Bat!battery_measure_enable(FALSE),
             state' = [b EXCEPT !.pc = "end"]
      PROVE  BatInv'
  <2>1. b = [state EXCEPT !.fed = FALSE, !.stuck = FALSE] \/ b = [state EXCEPT !.stuck = TRUE]
    BY <1>0, <1>4 DEF Bat!battery_measure_enable, BatFed
  <2>2. \/ state' = [state EXCEPT !.fed = FALSE, !.stuck = FALSE, !.pc = "end"]
        \/ state' = [state EXCEPT !.stuck = TRUE, !.pc = "end"]
    BY <1>0, <1>s, <1>4, <2>1
  <2>3. CASE state' = [state EXCEPT !.fed = FALSE, !.stuck = FALSE, !.pc = "end"]
    <3>1. state' \in BatRecord
      BY <1>0, <2>3, BatPc, Zenon DEF BatRecord
    <3>2. BatFed'
      BY <1>0, <1>s, <1>4, <2>3 DEF BatFed
    <3> QED BY <1>s, <1>a, <2>3, <3>1, <3>2
  <2>4. CASE state' = [state EXCEPT !.stuck = TRUE, !.pc = "end"]
    <3>1. state' \in BatRecord
      BY <1>0, <2>4, BatPc, Zenon DEF BatRecord
    <3>2. BatFed'
      BY <1>0, <1>s, <1>4, <2>4 DEF BatFed
    <3> QED BY <1>s, <1>a, <2>4, <3>1, <3>2
  <2> QED BY <2>2, <2>3, <2>4
<1> QED BY <1>1, <1>2, <1>3, <1>4 DEF Bat!Next, Bat!main

-----------------------------------------------------------------------------
(* Buffers of a plain UART bridge (PlainUart).                              *)

\* What is in a queue, and that nothing is in it twice.
Elements(s) == {s[i] : i \in DOMAIN s}
Distinct(s) == \A i, j \in DOMAIN s : s[i] = s[j] => i = j

\* What is queued is behind what was in the queue.
LEMMA QueueAppend ==
  ASSUME NEW S, NEW s \in Seq(S), NEW b \in S
  PROVE  /\ Append(s, b) \in Seq(S) /\ Len(Append(s, b)) = Len(s) + 1
         /\ Elements(Append(s, b)) = Elements(s) \cup {b}
         /\ Distinct(s) /\ b \notin Elements(s) => Distinct(Append(s, b))
<1> DEFINE t == Append(s, b)
<1>1. /\ t \in Seq(S) /\ Len(t) = Len(s) + 1 /\ DOMAIN t = 1 .. Len(s) + 1
      /\ DOMAIN s = 1 .. Len(s) /\ Len(s) \in Nat
      /\ \A i \in 1 .. Len(s) : t[i] = s[i]
      /\ t[Len(s) + 1] = b
  OBVIOUS
<1> HIDE DEF t
<1>2. \A i \in DOMAIN t : i \in DOMAIN s \/ i = Len(s) + 1
  BY <1>1
<1>3. DOMAIN s \subseteq DOMAIN t /\ Len(s) + 1 \in DOMAIN t
  BY <1>1
<1>4. Elements(t) = Elements(s) \cup {b}
  <2>1. \A x \in Elements(t) : x \in Elements(s) \/ x = b
    BY <1>1, <1>2 DEF Elements
  <2>2. \A x \in Elements(s) : x \in Elements(t)
    BY <1>1, <1>3 DEF Elements
  <2>3. b \in Elements(t)
    BY <1>1, <1>3 DEF Elements
  <2> QED BY <2>1, <2>2, <2>3
<1>5. Distinct(s) /\ b \notin Elements(s) => Distinct(t)
  <2> SUFFICES ASSUME Distinct(s), b \notin Elements(s), NEW i \in DOMAIN t,
                      NEW j \in DOMAIN t, t[i] = t[j]
               PROVE  i = j
    BY DEF Distinct
  <2>1. \A k \in DOMAIN s : s[k] # b
    BY DEF Elements
  <2>2. CASE i \in DOMAIN s /\ j \in DOMAIN s
    BY <2>2, <1>1 DEF Distinct
  <2>3. CASE i = Len(s) + 1 /\ j \in DOMAIN s
    BY <2>1, <2>3, <1>1
  <2>4. CASE j = Len(s) + 1 /\ i \in DOMAIN s
    BY <2>1, <2>4, <1>1
  <2> QED BY <1>2, <2>2, <2>3, <2>4
<1> QED BY <1>1, <1>4, <1>5 DEF t

\* Taking the head leaves the others.
LEMMA QueueTail ==
  ASSUME NEW S, NEW s \in Seq(S), s # << >>, Distinct(s)
  PROVE  /\ Tail(s) \in Seq(S) /\ Len(Tail(s)) = Len(s) - 1
         /\ Head(s) \in S /\ Head(s) \in Elements(s)
         /\ Elements(Tail(s)) = Elements(s) \ {Head(s)} /\ Distinct(Tail(s))
<1> DEFINE t == Tail(s)
<1>1. /\ t \in Seq(S) /\ Len(t) = Len(s) - 1 /\ Len(s) \in Nat /\ Len(s) > 0
      /\ DOMAIN t = 1 .. Len(s) - 1 /\ DOMAIN s = 1 .. Len(s)
      /\ \A i \in 1 .. Len(s) - 1 : t[i] = s[i + 1]
      /\ Head(s) = s[1]
  OBVIOUS
<1> HIDE DEF t
<1>2. 1 \in DOMAIN s /\ s[1] \in S
  BY <1>1
<1>3. \A i \in DOMAIN t : i + 1 \in DOMAIN s /\ t[i] = s[i + 1] /\ i + 1 # 1 /\ i \in Nat
  BY <1>1
<1>4. \A i \in DOMAIN s : i = 1 \/ (i - 1 \in DOMAIN t /\ s[i] = t[i - 1])
  <2> SUFFICES ASSUME NEW i \in DOMAIN s, i # 1 PROVE i - 1 \in DOMAIN t /\ s[i] = t[i - 1]
    OBVIOUS
  <2>1. i - 1 \in 1 .. Len(s) - 1 /\ (i - 1) + 1 = i
    BY <1>1
  <2> QED BY <1>1, <2>1
<1>5. Elements(t) \subseteq Elements(s) \ {s[1]}
  <2> SUFFICES ASSUME NEW i \in DOMAIN t PROVE t[i] \in Elements(s) /\ t[i] # s[1]
    BY DEF Elements
  <2> QED BY <1>2, <1>3 DEF Elements, Distinct
<1>6. Elements(s) \ {s[1]} \subseteq Elements(t)
  BY <1>4 DEF Elements
<1>7. Distinct(t)
  <2> SUFFICES ASSUME NEW i \in DOMAIN t, NEW j \in DOMAIN t, t[i] = t[j] PROVE i = j
    BY DEF Distinct
  <2>1. i + 1 = j + 1
    BY <1>3 DEF Distinct
  <2> QED BY <2>1, <1>3
<1>8. s[1] \in Elements(s)
  BY <1>2 DEF Elements
<1> QED BY <1>1, <1>2, <1>5, <1>6, <1>7, <1>8 DEF t

\* The values of the fields, and the records of the program.
UarProgs == {"peripheral", "throughput"}
UarPcs == {"init", "running", "error"}
UarHeaps == SUBSET Uar!Buffers
UarQueues == Seq(Uar!Buffers)
UarBursts == 0 .. Uar!Burst
UarCounts == 0 .. Uar!Burst - 1
UarRates == {"none", "true", "with a pause"}

\* The records of the programs.
UarRecord ==
  [prog : UarProgs, pc : UarPcs, heap : UarHeaps, cur : Uar!Pointer, next : Uar!Pointer,
   req : BOOLEAN, stopping : BOOLEAN, current_buf : Uar!Pointer, buf_release : BOOLEAN,
   uart_work : BOOLEAN, rx : UarQueues, sending : Uar!Pointer, tx : UarQueues,
   out : Uar!Pointer, held : Uar!Pointer, late : BOOLEAN, burst : UarBursts,
   cnt : UarCounts, idle : BOOLEAN, rate : UarRates, cut : BOOLEAN]

\* They are what the type invariant says.
LEMMA UarTypes == Uar!TypeOK <=> state \in UarRecord
BY Zenon DEF Uar!TypeOK, UarRecord, UarProgs, UarPcs, UarHeaps, UarQueues, UarBursts, UarCounts,
   UarRates

\* The buffers c, n, s, o and h of five places, of two queues and of the heap.
UarApart(c, n, s, o, h, R, T, heap) ==
  /\ c # 0 => c \notin {n, s, o, h} \cup R \cup T \cup heap
  /\ n # 0 => n \notin {s, o, h} \cup R \cup T \cup heap
  /\ s # 0 => s \notin {o, h} \cup R \cup T \cup heap
  /\ o # 0 => o \notin {h} \cup R \cup T \cup heap
  /\ h # 0 => h \notin R \cup T \cup heap
  /\ R \cap T = {} /\ R \cap heap = {} /\ T \cap heap = {}
  /\ \A b \in Uar!Buffers : b \in heap \cup R \cup T \cup {c, n, s, o, h}

\* Each buffer is in one place; that of a line that ended is in the queue by now.
UarOwns(u) ==
  /\ UarApart(IF u.stopping THEN 0 ELSE u.cur, u.next, u.sending, u.out, u.held,
              Elements(u.rx), Elements(u.tx), u.heap)
  /\ Distinct(u.rx) /\ Distinct(u.tx)

\* The driver: when it asks for a buffer, has none, or is stopped.
UarDriver(u) ==
  /\ u.uart_work => u.cur = 0 /\ u.next = 0 /\ ~u.stopping /\ ~u.req
  /\ u.req => u.next = 0 /\ u.cur # 0 /\ ~u.stopping
  /\ u.cur = 0 => u.next = 0
  /\ u.stopping => u.cur # 0 /\ u.next # u.cur /\ u.current_buf = u.cur /\ u.buf_release

\* Nothing has begun before uart_init().
UarStart(u) == u.pc = "init" => u.cur = 0 /\ ~u.uart_work

\* A burst is counted from its first packet, and its first rate is skipped.
UarRate(u) ==
  ~u.cut => /\ u.burst = u.cnt \/ (u.burst = Uar!Burst /\ u.cnt = 0)
            /\ u.idle => u.cnt < THRESHOLD_CNT
            /\ u.rate # "with a pause"

\* The inductive invariant; bytes that came too late end it.
UarInv ==
  /\ state \in UarRecord /\ UarRate(state)
  /\ ~state.late => UarOwns(state) /\ UarDriver(state) /\ UarStart(state)

\* What is assumed of the buffers and of a burst.
LEMMA UartSize ==
  /\ NumBufs \in Nat /\ THRESHOLD_CNT \in Nat \ {0} /\ NUM_SPEED_CACULATIONS \in Nat \ {0, 1}
  /\ Uar!Burst \in Nat /\ Uar!Burst >= 2 /\ THRESHOLD_CNT <= Uar!Burst
  /\ THRESHOLD_CNT < Uar!Burst
<1>1. /\ NumBufs \in Nat /\ THRESHOLD_CNT \in Nat \ {0}
      /\ NUM_SPEED_CACULATIONS \in Nat \ {0, 1}
  BY FirmwareAssumption DEF FirmwareAssumption
<1>2. ASSUME NEW t \in Nat \ {0}, NEW n \in Nat \ {0, 1}
      PROVE  t * n \in Nat /\ t * n >= 2 * t
  <2>1. t * n = t * (n - 2) + 2 * t
    OBVIOUS
  <2>2. t * (n - 2) \in Nat
    OBVIOUS
  <2> QED BY <2>1, <2>2
<1> QED BY <1>1, <1>2 DEF Uar!Burst

\* The invariant says what the run checks.
LEMMA UarHolds == UarInv => Uar!TypeOK /\ Uar!BuffersOwned /\ Uar!RateOfBurst
<1> SUFFICES ASSUME UarInv PROVE Uar!TypeOK /\ Uar!BuffersOwned /\ Uar!RateOfBurst
  OBVIOUS
<1>1. Uar!TypeOK /\ Uar!RateOfBurst
  BY UarTypes DEF UarInv, UarRate, Uar!RateOfBurst
<1>2. ASSUME ~state.late PROVE Uar!BuffersOwned
  <2> DEFINE c == IF state.stopping THEN 0 ELSE state.cur
             R == Elements(state.rx)
             T == Elements(state.tx)
  <2>1. /\ UarApart(c, state.next, state.sending, state.out, state.held, R, T, state.heap)
        /\ Distinct(state.rx) /\ Distinct(state.tx) /\ state \in UarRecord
    BY <1>2 DEF UarInv, UarOwns
  <2>2. /\ Uar!ToSet(state.rx) = R /\ Uar!ToSet(state.tx) = T
        /\ Uar!IsInjective(state.rx) /\ Uar!IsInjective(state.tx)
    BY <2>1, Zenon DEF Uar!ToSet, Uar!IsInjective, Elements, Distinct
  <2>3. /\ Uar!At("cur") = c /\ Uar!At("next") = state.next /\ Uar!At("sending") = state.sending
        /\ Uar!At("out") = state.out /\ Uar!At("held") = state.held
    BY DEF Uar!At
  <2>4. Uar!Held = {c, state.next, state.sending, state.out, state.held} \ {0}
    BY <2>3 DEF Uar!Held, Uar!Places
  <2>5. 0 \notin Uar!Buffers /\ Uar!Pointer = Uar!Buffers \cup {0}
    BY DEF Uar!Buffers, Uar!Pointer
  <2>6. /\ {c, state.next, state.sending, state.out, state.held} \subseteq Uar!Pointer
        /\ R \subseteq Uar!Buffers /\ T \subseteq Uar!Buffers
    <3>1. /\ state.rx \in Seq(Uar!Buffers) /\ state.tx \in Seq(Uar!Buffers)
          /\ {state.cur, state.next, state.sending, state.out, state.held} \subseteq Uar!Pointer
      BY <2>1 DEF UarRecord, UarQueues
    <3>2. R \subseteq Uar!Buffers /\ T \subseteq Uar!Buffers
      BY <3>1, LenProperties, ElementOfSeq DEF Elements
    <3> QED BY <2>5, <3>1, <3>2
  <2> HIDE DEF c, R, T
  <2>7. \A p, q \in Uar!Places : Uar!At(p) = Uar!At(q) /\ Uar!At(p) # 0 => p = q
    BY <2>1, <2>3 DEF Uar!Places, UarApart
  <2>8. Uar!Held \cap (R \cup T) = {} /\ R \cap T = {}
    BY <2>1, <2>4 DEF UarApart
  <2>9. Uar!Held \cup R \cup T = Uar!Buffers \ state.heap
    BY <2>1, <2>4, <2>5, <2>6 DEF UarApart
  <2> QED BY <2>2, <2>7, <2>8, <2>9 DEF Uar!BuffersOwned
<1> QED BY <1>1, <1>2 DEF Uar!BuffersOwned

\* The start of the program.
LEMMA UarStarts == Uar!Init => UarInv
<1> SUFFICES ASSUME Uar!Init PROVE UarInv
  OBVIOUS
<1>1. PICK prog \in UarProgs :
  state = [prog |-> prog, pc |-> "init", heap |-> Uar!Buffers, cur |-> 0, next |-> 0,
           req |-> FALSE, stopping |-> FALSE, current_buf |-> 0, buf_release |-> FALSE,
           uart_work |-> FALSE, rx |-> << >>, sending |-> 0, tx |-> << >>, out |-> 0, held |-> 0,
           late |-> FALSE, burst |-> 0, cnt |-> 0, idle |-> TRUE, rate |-> "none", cut |-> FALSE]
  BY DEF Uar!Init, UarProgs
<1>2. << >> \in UarQueues /\ Elements(<< >>) = {} /\ Distinct(<< >>)
  BY DEF UarQueues, Elements, Distinct
<1>3. /\ 0 \in Uar!Pointer /\ 0 \in UarBursts /\ 0 \in UarCounts /\ "none" \in UarRates
      /\ "init" \in UarPcs /\ Uar!Buffers \in UarHeaps
  BY UartSize DEF Uar!Pointer, UarBursts, UarCounts, UarRates, UarPcs, UarHeaps
<1>4. state \in UarRecord
  BY <1>1, <1>2, <1>3, Zenon DEF UarRecord
<1>5. UarOwns(state)
  BY <1>1, <1>2 DEF UarOwns, UarApart, Uar!Buffers
<1> QED BY <1>1, <1>4, <1>5, UartSize DEF UarInv, UarDriver, UarStart, UarRate

\* A buffer leaves the heap for a place, or a queue for the thread.
LEMMA ApartMoves ==
  ASSUME NEW c, NEW n, NEW s, NEW o, NEW h, NEW R, NEW T, NEW heap,
         UarApart(c, n, s, o, h, R, T, heap)
  PROVE  /\ \A b \in heap : n = 0 => UarApart(c, b, s, o, h, R, T, heap \ {b})
         /\ \A b \in heap : o = 0 => UarApart(c, n, s, b, h, R, T, heap \ {b})
         /\ \A b \in heap : h = 0 => UarApart(c, n, s, o, b, R, T, heap \ {b})
         /\ \A b \in R : s = 0 => UarApart(c, n, b, o, h, R \ {b}, T, heap)
<1> DEFINE B == Uar!Buffers
<1>0. 0 \notin B
  BY DEF Uar!Buffers
<1> HIDE DEF B
<1>b. UarApart(c, n, s, o, h, R, T, heap) /\ B = Uar!Buffers
  BY DEF B
<1>1. ASSUME NEW b \in heap, n = 0 PROVE UarApart(c, b, s, o, h, R, T, heap \ {b})
  BY <1>0, <1>b, <1>1 DEF UarApart
<1>2. ASSUME NEW b \in heap, o = 0 PROVE UarApart(c, n, s, b, h, R, T, heap \ {b})
  BY <1>0, <1>b, <1>2 DEF UarApart
<1>3. ASSUME NEW b \in heap, h = 0 PROVE UarApart(c, n, s, o, b, R, T, heap \ {b})
  BY <1>0, <1>b, <1>3 DEF UarApart
<1>4. ASSUME NEW b \in R, s = 0 PROVE UarApart(c, n, b, o, h, R \ {b}, T, heap)
  BY <1>0, <1>b, <1>4 DEF UarApart
<1> QED BY <1>1, <1>2, <1>3, <1>4

\* A buffer is taken, or another attempt is made later.
LEMMA UarEnable ==
  ASSUME NEW u \in UarRecord, UarOwns(u), u.cur = 0, u.next = 0, ~u.stopping, ~u.req,
     ~u.uart_work
  PROVE  /\ Uar!Enable(u) \in UarRecord /\ UarOwns(Uar!Enable(u)) /\ UarDriver(Uar!Enable(u))
         /\ \A f \in {"pc", "late", "burst", "cnt", "idle", "rate", "cut"} :
              Uar!Enable(u)[f] = u[f]
<1> DEFINE e == Uar!Enable(u)
<1>s. {"prog", "pc", "heap", "cur", "next", "req", "stopping", "current_buf", "buf_release",
       "uart_work", "rx", "sending", "tx", "out", "held", "late", "burst", "cnt", "idle", "rate",
       "cut"} \subseteq DOMAIN u
  BY DEF UarRecord
<1>h. u.heap \subseteq Uar!Buffers /\ 0 \notin u.heap
  BY DEF UarRecord, UarHeaps, Uar!Buffers
<1>1. CASE u.heap = {}
  <2>1. e = [u EXCEPT !.uart_work = TRUE]
    BY <1>1 DEF Uar!Enable
  <2>2. e \in UarRecord
    BY <2>1, Zenon DEF UarRecord
  <2>3. e.uart_work /\ \A f \in {"pc", "heap", "cur", "next", "req", "stopping", "rx", "sending",
          "tx", "out", "held", "late", "burst", "cnt", "idle", "rate", "cut"} : e[f] = u[f]
    BY <1>s, <2>1
  <2> HIDE DEF e
  <2>4. UarOwns(e)
    BY <2>3 DEF UarOwns
  <2> QED BY <2>2, <2>3, <2>4 DEF UarDriver, e
<1>2. CASE u.heap # {}
  <2> DEFINE b == CHOOSE x \in u.heap : TRUE
  <2>0. b \in u.heap
    BY <1>2
  <2>1. e = [[u EXCEPT !.heap = @ \ {b}] EXCEPT !.cur = b, !.req = TRUE]
    BY <1>2 DEF Uar!Enable, Uar!Take
  <2> HIDE DEF b, e
  <2>2. e = [u EXCEPT !.heap = u.heap \ {b}, !.cur = b, !.req = TRUE]
    BY <1>s, <2>1
  <2>3. u.heap \ {b} \in UarHeaps /\ b \in Uar!Pointer /\ b # 0
    BY <1>h, <2>0 DEF UarHeaps, Uar!Pointer
  <2>4. e \in UarRecord
    BY <2>2, <2>3, Zenon DEF UarRecord
  <2>5. /\ e.heap = u.heap \ {b} /\ e.cur = b /\ e.req
        /\ \A f \in {"pc", "next", "stopping", "uart_work", "rx", "sending", "tx", "out", "held",
                     "late", "burst", "cnt", "idle", "rate", "cut"} : e[f] = u[f]
    BY <1>s, <2>2
  <2>6. UarOwns(e)
    BY <2>0, <2>3, <2>5 DEF UarOwns, UarApart
  <2> QED BY <2>3, <2>4, <2>5, <2>6 DEF UarDriver, e
<1> QED BY <1>1, <1>2

\* Every action keeps the invariant.
LEMMA UarStep == ASSUME UarInv, Uar!Next PROVE UarInv'
<1>a. state \in UarRecord
  BY DEF UarInv
<1>b. ~state.late /\ UarRate(state) /\ UarOwns(state) /\ UarDriver(state) /\ UarStart(state)
  BY DEF UarInv, Uar!Next
<1>s. {"prog", "pc", "heap", "cur", "next", "req", "stopping", "current_buf", "buf_release",
       "uart_work", "rx", "sending", "tx", "out", "held", "late", "burst", "cnt", "idle", "rate",
       "cut"} \subseteq DOMAIN state
  BY <1>a DEF UarRecord
<1>p. 0 \in Uar!Pointer /\ "running" \in UarPcs /\ "error" \in UarPcs
  BY DEF Uar!Pointer, UarPcs
<1>q. /\ {state.cur, state.next, state.sending, state.out,
           state.held} \subseteq Uar!Buffers \cup {0}
      /\ state.rx \in Seq(Uar!Buffers) /\ state.tx \in Seq(Uar!Buffers)
      /\ state.heap \subseteq Uar!Buffers /\ 0 \notin Uar!Buffers
      /\ Distinct(state.rx) /\ Distinct(state.tx)
  BY <1>a, <1>b DEF UarRecord, Uar!Pointer, UarQueues, UarHeaps, Uar!Buffers, UarOwns
<1>h. ASSUME NEW b \in Uar!Buffers
      PROVE  state.heap \ {b} \in UarHeaps /\ state.heap \cup {b} \in UarHeaps
         /\ b \in Uar!Pointer
  BY <1>q, <1>h DEF UarHeaps, Uar!Pointer
<1>1. CASE Uar!uart_init
  <2>1. CASE state' = [Uar!Enable(state) EXCEPT !.pc = "running"] /\ state.pc = "init"
    <3> DEFINE e == Uar!Enable(state)
    <3>1. /\ e \in UarRecord /\ UarOwns(e) /\ UarDriver(e)
          /\ \A f \in {"pc", "late", "burst", "cnt", "idle", "rate", "cut"} : e[f] = state[f]
      BY <1>a, <1>b, <2>1, UarEnable DEF UarStart, UarDriver
    <3> HIDE DEF e
    <3>2. state' = [e EXCEPT !.pc = "running"]
      BY <2>1 DEF e
    <3>3. state' \in UarRecord
      BY <1>p, <3>1, <3>2, Zenon DEF UarRecord
    <3>4. /\ state'.pc = "running"
          /\ \A f \in {"heap", "cur", "next", "req", "stopping", "current_buf", "buf_release",
                       "uart_work", "rx", "sending", "tx", "out", "held", "late", "burst", "cnt",
                       "idle", "rate", "cut"} : state'[f] = e[f]
      BY <3>1, <3>2 DEF UarRecord
    <3>5. UarOwns(state') /\ UarDriver(state')
      BY <3>1, <3>4 DEF UarOwns, UarDriver
    <3>6. UarRate(state') /\ UarStart(state')
      BY <1>b, <3>1, <3>4 DEF UarRate, UarStart
    <3> QED BY <3>3, <3>5, <3>6 DEF UarInv
  <2>2. CASE state' = [state EXCEPT !.pc = "error"]
    <3>e. state' = [state EXCEPT !.pc = "error"]
      BY <2>2
    <3>t. state' \in UarRecord
      BY <1>a, <1>p, <3>e, Zenon DEF UarRecord
    <3>f. /\ state'.pc = "error"
         /\ \A f \in {"prog", "heap", "cur", "next", "req", "stopping", "current_buf",
              "buf_release",
                    "uart_work", "rx", "sending", "tx", "out", "held", "late", "burst", "cnt",
                    "idle", "rate", "cut"} : state'[f] = state[f]
      BY <1>s, <3>e
    <3>o. UarOwns(state')
      BY <1>b, <3>f DEF UarOwns
    <3>d. UarDriver(state') /\ UarStart(state')
      BY <1>b, <2>2, <3>f DEF UarDriver, UarStart
    <3>r. UarRate(state')
      BY <1>b, <3>f DEF UarRate
    <3> QED BY <3>t, <3>r, <3>f, <3>o, <3>d DEF UarInv
  <2> QED BY <1>1, <2>1, <2>2 DEF Uar!uart_init
<1>2. CASE Uar!uart_rx_buf_request
  <2>1. CASE state' = [state EXCEPT !.req = FALSE]
    <3>e. state' = [state EXCEPT !.req = FALSE]
      BY <2>1
    <3>t. state' \in UarRecord
      BY <1>a, <1>p, <3>e, Zenon DEF UarRecord
    <3>f. /\ state'.req = FALSE
         /\ \A f \in {"prog", "pc", "heap", "cur", "next", "stopping", "current_buf",
              "buf_release",
                    "uart_work", "rx", "sending", "tx", "out", "held", "late", "burst", "cnt",
                    "idle", "rate", "cut"} : state'[f] = state[f]
      BY <1>s, <3>e
    <3>o. UarOwns(state')
      BY <1>b, <3>f DEF UarOwns
    <3>d. UarDriver(state') /\ UarStart(state')
      BY <1>b, <2>1, <3>f DEF UarDriver, UarStart
    <3>r. UarRate(state')
      BY <1>b, <3>f DEF UarRate
    <3> QED BY <3>t, <3>r, <3>f, <3>o, <3>d DEF UarInv
  <2>2. ASSUME NEW b \in state.heap, state.req,
               state' = [[state EXCEPT !.heap = @ \ {b}] EXCEPT !.req = FALSE, !.next = b]
        PROVE  UarInv'
    <3>h. state.heap \ {b} \in UarHeaps /\ b \in Uar!Pointer /\ b # 0
      BY <1>h, <1>q, <2>2
    <3>e. state' = [state EXCEPT !.heap = state.heap \ {b}, !.req = FALSE, !.next = b]
      BY <1>s, <2>2
    <3>t. state' \in UarRecord
      BY <1>a, <1>p, <3>e, <3>h, Zenon DEF UarRecord
    <3>f. /\ state'.heap = state.heap \ {b}
         /\ state'.req = FALSE
         /\ state'.next = b
         /\ \A f \in {"prog", "pc", "cur", "stopping", "current_buf", "buf_release",
              "uart_work", "rx",
                    "sending", "tx", "out", "held", "late", "burst", "cnt", "idle", "rate",
                    "cut"} : state'[f] = state[f]
      BY <1>s, <3>e
    <3>o. UarOwns(state')
      BY <1>b, <3>f, <2>2, ApartMoves DEF UarOwns, UarDriver
    <3>d. UarDriver(state') /\ UarStart(state')
      BY <1>b, <1>s, <2>2, <3>f, <3>h, <2>2 DEF UarDriver, UarStart
    <3>r. UarRate(state')
      BY <1>b, <3>f DEF UarRate
    <3> QED BY <3>t, <3>r, <3>f, <3>o, <3>d DEF UarInv
  <2> QED BY <1>2, <2>1, <2>2 DEF Uar!uart_rx_buf_request, Uar!Take
<1>3. CASE Uar!uart_rx_rdy_full
  <2> DEFINE q == Append(state.rx, state.cur)
  <2>q. /\ q \in UarQueues /\ Elements(q) = Elements(state.rx) \cup {state.cur} /\ Distinct(q)
        /\ state.cur \in Uar!Buffers /\ state.cur # 0 /\ ~state.stopping /\ ~state.req
    <3>1. state.cur \in Uar!Buffers /\ state.cur # 0 /\ ~state.stopping /\ ~state.req
      BY <1>3, <1>q DEF Uar!uart_rx_rdy_full
    <3>2. state.cur \notin Elements(state.rx)
      BY <1>b, <3>1 DEF UarOwns, UarApart
    <3> QED BY <1>q, <3>1, <3>2, QueueAppend DEF UarQueues
  <2> DEFINE full == [state EXCEPT !.rx = q, !.buf_release = FALSE]
  <2>f. Uar!uart_rx_buf_released(Uar!Queue(state), state.cur) = full
    <3>1. Uar!Queue(state) = full
      BY DEF Uar!Queue
    <3>2. ~full.buf_release
      BY <1>s
    <3> HIDE DEF full
    <3> QED BY <3>1, <3>2 DEF Uar!uart_rx_buf_released
  <2> HIDE DEF q, full
  <2>1. CASE state.next # 0 /\ state' = [full EXCEPT !.cur = state.next, !.next = 0,
           !.req = TRUE]
    <3>n. state.next \in Uar!Pointer
      BY <1>a DEF UarRecord
    <3>e. state' = [state EXCEPT !.rx = q, !.buf_release = FALSE, !.cur = state.next,
             !.next = 0, !.req = TRUE]
      BY <1>s, <2>1 DEF full
    <3>t. state' \in UarRecord
      BY <1>a, <1>p, <3>e, <2>q, <3>n, Zenon DEF UarRecord
    <3>f. /\ state'.rx = q
         /\ state'.buf_release = FALSE
         /\ state'.cur = state.next
         /\ state'.next = 0
         /\ state'.req = TRUE
         /\ \A f \in {"prog", "pc", "heap", "stopping", "current_buf", "uart_work", "sending",
              "tx",
                    "out", "held", "late", "burst", "cnt", "idle", "rate",
                       "cut"} : state'[f] = state[f]
      BY <1>s, <3>e
    <3>o. UarOwns(state')
      BY <1>b, <3>f, <2>q, <2>1 DEF UarOwns, UarApart, Uar!Pointer, UarDriver
    <3>d. UarDriver(state') /\ UarStart(state')
      BY <1>b, <2>1, <3>f, <2>q, <2>1 DEF UarDriver, UarStart
    <3>r. UarRate(state')
      BY <1>b, <3>f DEF UarRate
    <3> QED BY <3>t, <3>r, <3>f, <3>o, <3>d DEF UarInv
  <2>2. CASE state.next = 0 /\ state' = Uar!Enable([full EXCEPT !.cur = 0])
    <3> DEFINE u == [full EXCEPT !.cur = 0]
    <3>1. u = [state EXCEPT !.rx = q, !.buf_release = FALSE, !.cur = 0]
      BY <1>s DEF full
    <3> HIDE DEF u
    <3>2. u \in UarRecord
      BY <1>a, <1>p, <2>q, <3>1, Zenon DEF UarRecord
    <3>3. /\ u.rx = q /\ u.cur = 0
          /\ \A f \in {"pc", "heap", "next", "req", "stopping", "uart_work", "sending", "tx",
               "out",
                       "held", "late", "burst", "cnt", "idle", "rate", "cut"} : u[f] = state[f]
      BY <1>s, <3>1
    <3>4. UarOwns(u)
      BY <1>b, <2>q, <2>2, <3>3 DEF UarOwns, UarApart
    <3>5. ~u.uart_work
      BY <1>b, <2>q, <3>3 DEF UarDriver
    <3>6. /\ state' \in UarRecord /\ UarOwns(state') /\ UarDriver(state')
          /\ \A f \in {"pc", "late", "burst", "cnt", "idle", "rate",
               "cut"} : state'[f] = state[f]
      <4>1. state' = Uar!Enable(u) /\ u.next = 0 /\ ~u.stopping /\ ~u.req
        BY <2>q, <2>2, <3>3 DEF u
      <4> QED BY <3>2, <3>3, <3>4, <3>5, <4>1, UarEnable
    <3>7. UarRate(state') /\ UarStart(state')
      BY <1>b, <2>q, <3>6 DEF UarRate, UarStart
    <3> QED BY <3>6, <3>7 DEF UarInv
  <2> QED BY <1>3, <2>1, <2>2, <2>f DEF Uar!uart_rx_rdy_full
<1>4. CASE Uar!uart_rx_rdy_line
  <2> DEFINE q == Append(state.rx, state.cur)
  <2>q. /\ q \in UarQueues /\ Elements(q) = Elements(state.rx) \cup {state.cur} /\ Distinct(q)
        /\ state.cur \in Uar!Buffers /\ state.cur # 0 /\ ~state.stopping /\ ~state.req
    <3>1. state.cur \in Uar!Buffers /\ state.cur # 0 /\ ~state.stopping /\ ~state.req
      BY <1>4, <1>q DEF Uar!uart_rx_rdy_line
    <3>2. state.cur \notin Elements(state.rx)
      BY <1>b, <3>1 DEF UarOwns, UarApart
    <3> QED BY <1>q, <3>1, <3>2, QueueAppend DEF UarQueues
  <2> HIDE DEF q
  <2>p. state.cur \in Uar!Pointer
    BY <1>a DEF UarRecord
  <2>1. state' = [[state EXCEPT !.rx = q, !.buf_release = FALSE] EXCEPT
                    !.current_buf = state.cur, !.buf_release = TRUE, !.stopping = TRUE]
    BY <1>4 DEF Uar!uart_rx_rdy_line, Uar!Queue, q
  <2>e. state' = [state EXCEPT !.rx = q, !.current_buf = state.cur, !.buf_release = TRUE,
           !.stopping = TRUE]
    BY <1>s, <2>1
  <2>t. state' \in UarRecord
    BY <1>a, <1>p, <2>e, <2>q, <2>p, Zenon DEF UarRecord
  <2>f. /\ state'.rx = q
       /\ state'.current_buf = state.cur
       /\ state'.buf_release = TRUE
       /\ state'.stopping = TRUE
       /\ \A f \in {"prog", "pc", "heap", "cur", "next", "req", "uart_work", "sending", "tx",
            "out",
                  "held", "late", "burst", "cnt", "idle", "rate", "cut"} : state'[f] = state[f]
    BY <1>s, <2>e
  <2>o. UarOwns(state')
    BY <1>b, <2>f, <2>q DEF UarOwns, UarApart, Uar!Pointer, UarDriver
  <2>n. state.next # state.cur
    BY <1>b, <2>q DEF UarOwns, UarApart
  <2>d. UarDriver(state') /\ UarStart(state')
    BY <1>b, <2>f, <2>q, <2>n DEF UarDriver, UarStart
  <2>r. UarRate(state')
    BY <1>b, <2>f DEF UarRate
  <2> QED BY <2>t, <2>r, <2>f, <2>o, <2>d DEF UarInv
<1>5. CASE Uar!uart_rx_rdy_late
  <2> DEFINE q == Append(state.rx, state.cur)
  <2>0. state.stopping /\ state.cur \in Uar!Buffers /\ q \in UarQueues
    <3>1. state.stopping /\ state.cur \in Uar!Buffers
      BY <1>5, <1>b, <1>q DEF Uar!uart_rx_rdy_late, UarDriver
    <3> QED BY <1>q, <3>1, QueueAppend DEF UarQueues
  <2> HIDE DEF q
  <2>1. CASE state' = [state EXCEPT !.late = TRUE, !.buf_release = FALSE]
    <3>e. state' = [state EXCEPT !.late = TRUE, !.buf_release = FALSE]
      BY <2>1
    <3>t. state' \in UarRecord
      BY <1>a, <1>p, <3>e, Zenon DEF UarRecord
    <3>f. /\ state'.late = TRUE
         /\ state'.buf_release = FALSE
         /\ \A f \in {"prog", "pc", "heap", "cur", "next", "req", "stopping", "current_buf",
                    "uart_work", "rx", "sending", "tx", "out", "held", "burst", "cnt", "idle",
                    "rate", "cut"} : state'[f] = state[f]
      BY <1>s, <3>e
    <3>r. UarRate(state')
      BY <1>b, <3>f DEF UarRate
    <3> QED BY <3>t, <3>r, <3>f DEF UarInv
  <2>2. CASE state' = [[state EXCEPT !.rx = q, !.buf_release = FALSE] EXCEPT !.late = TRUE,
                       !.buf_release = TRUE]
    <3>e. state' = [state EXCEPT !.rx = q, !.late = TRUE, !.buf_release = TRUE]
      BY <1>s, <2>2
    <3>t. state' \in UarRecord
      BY <1>a, <1>p, <3>e, <2>0, Zenon DEF UarRecord
    <3>f. /\ state'.rx = q
         /\ state'.late = TRUE
         /\ state'.buf_release = TRUE
         /\ \A f \in {"prog", "pc", "heap", "cur", "next", "req", "stopping", "current_buf",
                    "uart_work", "sending", "tx", "out", "held", "burst", "cnt", "idle",
                    "rate", "cut"} : state'[f] = state[f]
      BY <1>s, <3>e
    <3>r. UarRate(state')
      BY <1>b, <3>f DEF UarRate
    <3> QED BY <3>t, <3>r, <3>f DEF UarInv
  <2> QED BY <1>5, <2>1, <2>2 DEF Uar!uart_rx_rdy_late, Uar!Queue, q
<1>6. CASE Uar!uart_rx_disabled
  <2>1. /\ state.stopping /\ state.cur # 0 /\ state.next # state.cur
        /\ state.current_buf = state.cur /\ state.buf_release /\ ~state.uart_work /\ ~state.req
    BY <1>6, <1>b DEF Uar!uart_rx_disabled, UarDriver
  <2>2. Uar!uart_rx_buf_released(state, state.cur) = state
    BY <2>1 DEF Uar!uart_rx_buf_released
  <2> DEFINE r == Uar!uart_rx_buf_released(state, state.next)
             u == [r EXCEPT !.stopping = FALSE, !.cur = 0, !.next = 0]
  <2>3. /\ u \in UarRecord /\ UarOwns(u) /\ u.cur = 0 /\ u.next = 0 /\ ~u.stopping
        /\ \A f \in {"pc", "req", "uart_work", "late", "burst", "cnt", "idle", "rate", "cut"} :
             u[f] = state[f]
    <3>1. CASE state.next = 0
      <4>1. r = state
        BY <3>1 DEF Uar!uart_rx_buf_released
      <4>2. u = [state EXCEPT !.stopping = FALSE, !.cur = 0, !.next = 0]
        BY <4>1
      <4> HIDE DEF r, u
      <4>3. u \in UarRecord
        BY <1>a, <1>p, <4>2, Zenon DEF UarRecord
      <4>4. /\ u.cur = 0 /\ u.next = 0 /\ ~u.stopping
            /\ \A f \in {"pc", "heap", "req", "uart_work", "rx", "sending", "tx", "out", "held",
                         "late", "burst", "cnt", "idle", "rate", "cut"} : u[f] = state[f]
        BY <1>s, <4>2
      <4>5. UarOwns(u)
        BY <1>b, <2>1, <3>1, <4>4 DEF UarOwns
      <4> QED BY <4>3, <4>4, <4>5
    <3>2. CASE state.next # 0
      <4>1. r = [state EXCEPT !.heap = state.heap \cup {state.next}, !.buf_release = FALSE,
                              !.current_buf = 0]
        BY <2>1, <3>2 DEF Uar!uart_rx_buf_released
      <4> HIDE DEF r
      <4>2. u = [state EXCEPT !.heap = state.heap \cup {state.next}, !.buf_release = FALSE,
                   !.current_buf = 0, !.stopping = FALSE, !.cur = 0, !.next = 0]
        BY <1>s, <4>1
      <4> HIDE DEF u
      <4>3. state.heap \cup {state.next} \in UarHeaps
        BY <1>h, <1>q, <3>2
      <4>4. u \in UarRecord
        BY <1>a, <1>p, <4>2, <4>3, Zenon DEF UarRecord
      <4>5. /\ u.cur = 0 /\ u.next = 0 /\ ~u.stopping /\ u.heap = state.heap \cup {state.next}
            /\ \A f \in {"pc", "req", "uart_work", "rx", "sending", "tx", "out", "held",
                         "late", "burst", "cnt", "idle", "rate", "cut"} : u[f] = state[f]
        BY <1>s, <4>2
      <4>6. UarOwns(u)
        BY <1>b, <2>1, <3>2, <4>5 DEF UarOwns, UarApart
      <4> QED BY <4>4, <4>5, <4>6
    <3> QED BY <3>1, <3>2
  <2>4. state' = Uar!Enable(u)
    BY <1>6, <2>2, Zenon DEF Uar!uart_rx_disabled
  <2> HIDE DEF r, u
  <2>5. /\ state' \in UarRecord /\ UarOwns(state') /\ UarDriver(state')
        /\ \A f \in {"pc", "late", "burst", "cnt", "idle", "rate", "cut"} : state'[f] = state[f]
    BY <2>1, <2>3, <2>4, UarEnable
  <2>6. UarRate(state') /\ UarStart(state')
    BY <1>b, <2>1, <2>5 DEF UarRate, UarStart
  <2> QED BY <2>5, <2>6 DEF UarInv
<1>7. CASE Uar!uart_work_handler
  <2> DEFINE u == [state EXCEPT !.uart_work = FALSE]
  <2>1. state.uart_work /\ state' = Uar!Enable(u)
    BY <1>7 DEF Uar!uart_work_handler
  <2>2. u \in UarRecord
    BY <1>a, Zenon DEF UarRecord
  <2>3. /\ ~u.uart_work
        /\ \A f \in {"pc", "heap", "cur", "next", "req", "stopping", "rx", "sending", "tx",
             "out",
                     "held", "late", "burst", "cnt", "idle", "rate", "cut"} : u[f] = state[f]
    BY <1>s
  <2> HIDE DEF u
  <2>4. UarOwns(u) /\ u.cur = 0 /\ u.next = 0 /\ ~u.stopping /\ ~u.req
    BY <1>b, <2>1, <2>3 DEF UarOwns, UarDriver
  <2>5. /\ state' \in UarRecord /\ UarOwns(state') /\ UarDriver(state')
        /\ \A f \in {"pc", "late", "burst", "cnt", "idle", "rate", "cut"} : state'[f] = state[f]
    BY <2>1, <2>2, <2>3, <2>4, UarEnable
  <2>6. UarRate(state') /\ UarStart(state')
    BY <1>b, <2>1, <2>5 DEF UarRate, UarStart
  <2> QED BY <2>5, <2>6 DEF UarInv
<1>8. CASE Uar!ble_write_thread
  <2>1. CASE /\ state.sending = 0 /\ state.rx # << >>
             /\ state' = [state EXCEPT !.sending = Head(state.rx), !.rx = Tail(state.rx)]
    <3>q. /\ Tail(state.rx) \in UarQueues /\ Distinct(Tail(state.rx))
               /\ Head(state.rx) \in Uar!Buffers
          /\ Elements(Tail(state.rx)) = Elements(state.rx) \ {Head(state.rx)}
          /\ Head(state.rx) \in Elements(state.rx)
      BY <1>q, <2>1, QueueTail DEF UarQueues
    <3>p. Head(state.rx) \in Uar!Pointer /\ Head(state.rx) # 0
      BY <1>q, <3>q DEF Uar!Pointer
    <3> DEFINE hd == Head(state.rx)
               tl == Tail(state.rx)
    <3> HIDE DEF hd, tl
    <3>v. /\ tl \in UarQueues /\ Distinct(tl) /\ hd \in Uar!Pointer /\ hd # 0
               /\ hd \in Uar!Buffers
          /\ Elements(tl) = Elements(state.rx) \ {hd} /\ hd \in Elements(state.rx)
      BY <3>q, <3>p DEF hd, tl
    <3>e. state' = [state EXCEPT !.sending = hd, !.rx = tl]
      BY <2>1 DEF hd, tl
    <3>t. state' \in UarRecord
      BY <1>a, <1>p, <3>e, <3>v, Zenon DEF UarRecord
    <3>f. /\ state'.sending = hd
         /\ state'.rx = tl
         /\ \A f \in {"prog", "pc", "heap", "cur", "next", "req", "stopping", "current_buf",
                    "buf_release", "uart_work", "tx", "out", "held", "late", "burst", "cnt",
                    "idle", "rate", "cut"} : state'[f] = state[f]
      BY <1>s, <3>e
    <3>o. UarOwns(state')
      BY <1>b, <3>f, <3>v, <2>1, ApartMoves DEF UarOwns, UarDriver
    <3>d. UarDriver(state') /\ UarStart(state')
      BY <1>b, <3>f DEF UarDriver, UarStart
    <3>r. UarRate(state')
      BY <1>b, <3>f DEF UarRate
    <3> QED BY <3>t, <3>r, <3>f, <3>o, <3>d DEF UarInv
  <2>2. CASE /\ state.sending # 0
             /\ state' = [state EXCEPT !.heap = state.heap \cup {state.sending}, !.sending = 0]
    <3>h. state.heap \cup {state.sending} \in UarHeaps
      BY <1>h, <1>q, <2>2
    <3>e. state' = [state EXCEPT !.heap = state.heap \cup {state.sending}, !.sending = 0]
      BY <2>2
    <3>t. state' \in UarRecord
      BY <1>a, <1>p, <3>e, <3>h, Zenon DEF UarRecord
    <3>f. /\ state'.heap = state.heap \cup {state.sending}
         /\ state'.sending = 0
         /\ \A f \in {"prog", "pc", "cur", "next", "req", "stopping", "current_buf",
              "buf_release",
                    "uart_work", "rx", "tx", "out", "held", "late", "burst", "cnt", "idle",
                    "rate", "cut"} : state'[f] = state[f]
      BY <1>s, <3>e
    <3>o. UarOwns(state')
      BY <1>b, <3>f, <2>2 DEF UarOwns, UarApart, Uar!Pointer, UarDriver
    <3>d. UarDriver(state') /\ UarStart(state')
      BY <1>b, <2>2, <3>f DEF UarDriver, UarStart
    <3>r. UarRate(state')
      BY <1>b, <3>f DEF UarRate
    <3> QED BY <3>t, <3>r, <3>f, <3>o, <3>d DEF UarInv
  <2> QED BY <1>8, <2>1, <2>2 DEF Uar!ble_write_thread
<1>9. CASE Uar!bt_receive_cb
  <2>1. ASSUME NEW b \in state.heap, state.held = 0, state.out = 0,
               state' = [[state EXCEPT !.heap = @ \ {b}] EXCEPT !.out = b]
        PROVE  UarInv'
    <3>h. state.heap \ {b} \in UarHeaps /\ b \in Uar!Pointer /\ b # 0
      BY <1>h, <1>q, <2>1
    <3>e. state' = [state EXCEPT !.heap = state.heap \ {b}, !.out = b]
      BY <1>s, <2>1
    <3>t. state' \in UarRecord
      BY <1>a, <1>p, <3>e, <3>h, Zenon DEF UarRecord
    <3>f. /\ state'.heap = state.heap \ {b}
         /\ state'.out = b
         /\ \A f \in {"prog", "pc", "cur", "next", "req", "stopping", "current_buf",
              "buf_release",
                    "uart_work", "rx", "sending", "tx", "held", "late", "burst", "cnt", "idle",
                    "rate", "cut"} : state'[f] = state[f]
      BY <1>s, <3>e
    <3>o. UarOwns(state')
      BY <1>b, <3>f, <2>1, ApartMoves DEF UarOwns, UarDriver
    <3>d. UarDriver(state') /\ UarStart(state')
      BY <1>b, <1>s, <2>1, <3>f, <3>h DEF UarDriver, UarStart
    <3>r. UarRate(state')
      BY <1>b, <3>f DEF UarRate
    <3> QED BY <3>t, <3>r, <3>f, <3>o, <3>d DEF UarInv
  <2>2. ASSUME NEW b \in state.heap, state.held = 0,
               state' = [[state EXCEPT !.heap = @ \ {b}] EXCEPT !.held = b]
        PROVE  UarInv'
    <3>h. state.heap \ {b} \in UarHeaps /\ b \in Uar!Pointer /\ b # 0
      BY <1>h, <1>q, <2>2
    <3>e. state' = [state EXCEPT !.heap = state.heap \ {b}, !.held = b]
      BY <1>s, <2>2
    <3>t. state' \in UarRecord
      BY <1>a, <1>p, <3>e, <3>h, Zenon DEF UarRecord
    <3>f. /\ state'.heap = state.heap \ {b}
         /\ state'.held = b
         /\ \A f \in {"prog", "pc", "cur", "next", "req", "stopping", "current_buf",
              "buf_release",
                    "uart_work", "rx", "sending", "tx", "out", "late", "burst", "cnt", "idle",
                    "rate", "cut"} : state'[f] = state[f]
      BY <1>s, <3>e
    <3>o. UarOwns(state')
      BY <1>b, <3>f, <2>2, ApartMoves DEF UarOwns, UarDriver
    <3>d. UarDriver(state') /\ UarStart(state')
      BY <1>b, <1>s, <2>2, <3>f, <3>h DEF UarDriver, UarStart
    <3>r. UarRate(state')
      BY <1>b, <3>f DEF UarRate
    <3> QED BY <3>t, <3>r, <3>f, <3>o, <3>d DEF UarInv
  <2>3. CASE /\ state.held # 0
             /\ state' = [state EXCEPT !.tx = Append(state.tx, state.held), !.held = 0]
    <3> DEFINE q == Append(state.tx, state.held)
    <3>q. /\ q \in UarQueues /\ Elements(q) = Elements(state.tx) \cup {state.held} /\ Distinct(q)
      <4>1. state.held \in Uar!Buffers
        BY <1>q, <2>3
      <4>2. state.held \notin Elements(state.tx)
        BY <1>b, <2>3 DEF UarOwns, UarApart
      <4> QED BY <1>q, <4>1, <4>2, QueueAppend DEF UarQueues
    <3> HIDE DEF q
    <3>e. state' = [state EXCEPT !.tx = q, !.held = 0]
      BY <2>3 DEF q
    <3>t. state' \in UarRecord
      BY <1>a, <1>p, <3>e, <3>q, Zenon DEF UarRecord
    <3>f. /\ state'.tx = q
         /\ state'.held = 0
         /\ \A f \in {"prog", "pc", "heap", "cur", "next", "req", "stopping", "current_buf",
                    "buf_release", "uart_work", "rx", "sending", "out", "late", "burst", "cnt",
                    "idle", "rate", "cut"} : state'[f] = state[f]
      BY <1>s, <3>e
    <3>o. UarOwns(state')
      BY <1>b, <3>f, <3>q, <2>3 DEF UarOwns, UarApart, Uar!Pointer, UarDriver
    <3>d. UarDriver(state') /\ UarStart(state')
      BY <1>b, <3>f DEF UarDriver, UarStart
    <3>r. UarRate(state')
      BY <1>b, <3>f DEF UarRate
    <3> QED BY <3>t, <3>r, <3>f, <3>o, <3>d DEF UarInv
  <2> QED BY <1>9, <2>1, <2>2, <2>3 DEF Uar!bt_receive_cb, Uar!Take
<1>10. CASE Uar!uart_tx_done
  <2>0. state.out # 0 /\ state.heap \cup {state.out} \in UarHeaps
    BY <1>10, <1>h, <1>q DEF Uar!uart_tx_done
  <2>1. CASE state' = [[state EXCEPT !.heap = @ \cup {state.out}] EXCEPT !.out = 0]
    <3>e. state' = [state EXCEPT !.heap = state.heap \cup {state.out}, !.out = 0]
      BY <1>s, <2>1
    <3>t. state' \in UarRecord
      BY <1>a, <1>p, <3>e, <2>0, Zenon DEF UarRecord
    <3>f. /\ state'.heap = state.heap \cup {state.out}
         /\ state'.out = 0
         /\ \A f \in {"prog", "pc", "cur", "next", "req", "stopping", "current_buf",
              "buf_release",
                    "uart_work", "rx", "sending", "tx", "held", "late", "burst", "cnt", "idle",
                    "rate", "cut"} : state'[f] = state[f]
      BY <1>s, <3>e
    <3>o. UarOwns(state')
      BY <1>b, <3>f, <2>0 DEF UarOwns, UarApart, Uar!Pointer, UarDriver
    <3>d. UarDriver(state') /\ UarStart(state')
      BY <1>b, <1>s, <2>1, <3>f DEF UarDriver, UarStart
    <3>r. UarRate(state')
      BY <1>b, <3>f DEF UarRate
    <3> QED BY <3>t, <3>r, <3>f, <3>o, <3>d DEF UarInv
  <2>2. CASE /\ state.tx # << >>
             /\ state' = [[state EXCEPT !.heap = @ \cup {state.out}]
                  EXCEPT !.out = Head(state.tx),
                                                                    !.tx = Tail(state.tx)]
    <3>q. /\ Tail(state.tx) \in UarQueues /\ Distinct(Tail(state.tx))
               /\ Head(state.tx) \in Uar!Buffers
          /\ Elements(Tail(state.tx)) = Elements(state.tx) \ {Head(state.tx)}
          /\ Head(state.tx) \in Elements(state.tx)
      BY <1>q, <2>2, QueueTail DEF UarQueues
    <3>p. Head(state.tx) \in Uar!Pointer /\ Head(state.tx) # 0
      BY <1>q, <3>q DEF Uar!Pointer
    <3> DEFINE hd == Head(state.tx)
               tl == Tail(state.tx)
    <3> HIDE DEF hd, tl
    <3>v. /\ tl \in UarQueues /\ Distinct(tl) /\ hd \in Uar!Pointer /\ hd # 0
               /\ hd \in Uar!Buffers
          /\ Elements(tl) = Elements(state.tx) \ {hd} /\ hd \in Elements(state.tx)
      BY <3>q, <3>p DEF hd, tl
    <3>e. state' = [state EXCEPT !.heap = state.heap \cup {state.out}, !.out = hd, !.tx = tl]
      BY <1>s, <2>2 DEF hd, tl
    <3>t. state' \in UarRecord
      BY <1>a, <1>p, <3>e, <2>0, <3>v, Zenon DEF UarRecord
    <3>f. /\ state'.heap = state.heap \cup {state.out}
         /\ state'.out = hd
         /\ state'.tx = tl
         /\ \A f \in {"prog", "pc", "cur", "next", "req", "stopping", "current_buf",
              "buf_release",
                    "uart_work", "rx", "sending", "held", "late", "burst", "cnt", "idle",
                    "rate", "cut"} : state'[f] = state[f]
      BY <1>s, <3>e
    <3>o. UarOwns(state')
      BY <1>b, <3>f, <3>v, <2>0 DEF UarOwns, UarApart, Uar!Pointer, UarDriver
    <3>d. UarDriver(state') /\ UarStart(state')
      BY <1>b, <3>f DEF UarDriver, UarStart
    <3>r. UarRate(state')
      BY <1>b, <3>f DEF UarRate
    <3> QED BY <3>t, <3>r, <3>f, <3>o, <3>d DEF UarInv
  <2> QED BY <1>10, <1>s, <2>1, <2>2 DEF Uar!uart_tx_done
<1>11. CASE Uar!recv_data_process
  <2> DEFINE first == state.burst \in {0, Uar!Burst}
             c == state.cnt + 1
             idle == state.idle \/ first
             burst == IF first THEN 1 ELSE state.burst + 1
             count == c % Uar!Burst
  <2>1. /\ state.cnt \in 0 .. Uar!Burst - 1 /\ state.burst \in 0 .. Uar!Burst
        /\ state.idle \in BOOLEAN
    BY <1>a DEF UarRecord, UarCounts, UarBursts
  <2>2. /\ burst \in UarBursts /\ count \in UarCounts /\ idle \in BOOLEAN
        /\ FALSE \in BOOLEAN /\ "true" \in UarRates /\ "with a pause" \in UarRates
    <3>1. burst \in 0 .. Uar!Burst
      BY <2>1, UartSize
    <3>2. count \in 0 .. Uar!Burst - 1
      BY <2>1, UartSize
    <3> QED BY <3>1, <3>2 DEF UarBursts, UarCounts, UarRates
  <2>3. c \in 1 .. Uar!Burst /\ (c < Uar!Burst => count = c) /\ (c = Uar!Burst => count = 0)
    BY <2>1, UartSize
  <2> HIDE DEF count
  <2>r. ASSUME ~state.cut
        PROVE  /\ state.burst = state.cnt \/ (state.burst = Uar!Burst /\ state.cnt = 0)
               /\ state.idle => state.cnt < THRESHOLD_CNT
    BY <1>b, <2>r DEF UarRate
  <2>4. ASSUME ~state.cut PROVE burst = count \/ (burst = Uar!Burst /\ count = 0)
    <3>1. CASE first
      <4>1. state.cnt = 0 /\ burst = 1
        BY <2>1, <2>4, <2>r, <3>1, UartSize
      <4> QED BY <2>3, <4>1, UartSize
    <3>2. CASE ~first
      <4>1. burst = c
        BY <2>1, <2>4, <2>r, <3>2
      <4> QED BY <2>3, <4>1, UartSize
    <3> QED BY <3>1, <3>2
  <2>5. ASSUME ~state.cut, idle PROVE c <= THRESHOLD_CNT
    <3>1. CASE state.idle
      BY <2>1, <2>5, <2>r, <3>1, UartSize
    <3>2. CASE first
      <4>1. state.cnt = 0
        BY <2>1, <2>5, <2>r, <3>2, UartSize
      <4> QED BY <4>1, UartSize
    <3> QED BY <2>5, <3>1, <3>2
  <2>6. ASSUME c % THRESHOLD_CNT = 0, c <= THRESHOLD_CNT
        PROVE  Uar!Skipped(c \div THRESHOLD_CNT)
    <3>1. c = THRESHOLD_CNT /\ c \div THRESHOLD_CNT = 1
      BY <2>3, <2>6, UartSize
    <3>2. 1 % NUM_SPEED_CACULATIONS = 1
      BY UartSize
    <3> QED BY <3>1, <3>2 DEF Uar!Skipped
  <2>7. ASSUME c % THRESHOLD_CNT # 0, c <= THRESHOLD_CNT PROVE count < THRESHOLD_CNT
    <3>1. c # THRESHOLD_CNT
      BY <2>7, UartSize
    <3> QED BY <2>3, <2>7, <3>1, UartSize
  <2> DEFINE got == [state EXCEPT !.burst = burst, !.cnt = count]
  <2>8. state' = IF c % THRESHOLD_CNT # 0 THEN [got EXCEPT !.idle = idle]
                 ELSE [got EXCEPT !.idle = FALSE,
                        !.rate = IF Uar!Skipped(c \div THRESHOLD_CNT) THEN @
                                 ELSE IF idle THEN "with a pause" ELSE "true"]
    BY <1>11, Zenon DEF Uar!recv_data_process, count
  <2> HIDE DEF burst, count, idle, first, c
  <2>9. CASE c % THRESHOLD_CNT # 0 /\ state' = [got EXCEPT !.idle = idle]
    <3>e. state' = [state EXCEPT !.burst = burst, !.cnt = count, !.idle = idle]
      BY <1>s, <2>9
    <3>t. state' \in UarRecord
      BY <1>a, <1>p, <3>e, <2>2, Zenon DEF UarRecord
    <3>f. /\ state'.burst = burst
         /\ state'.cnt = count
         /\ state'.idle = idle
         /\ \A f \in {"prog", "pc", "heap", "cur", "next", "req", "stopping", "current_buf",
                    "buf_release", "uart_work", "rx", "sending", "tx", "out", "held", "late",
                    "rate", "cut"} : state'[f] = state[f]
      BY <1>s, <3>e
    <3>o. UarOwns(state')
      BY <1>b, <3>f DEF UarOwns
    <3>d. UarDriver(state') /\ UarStart(state')
      BY <1>b, <1>s, <2>9, <3>f DEF UarDriver, UarStart
    <3>r. UarRate(state')
      BY <1>b, <2>4, <2>5, <2>7, <2>9, <3>f DEF UarRate
    <3> QED BY <3>t, <3>r, <3>f, <3>o, <3>d DEF UarInv
  <2>10. ASSUME NEW rate \in {state.rate, "with a pause", "true"}, c % THRESHOLD_CNT = 0,
                rate = "with a pause" => rate = state.rate \/ (idle
                   /\ ~Uar!Skipped(c \div THRESHOLD_CNT)),
                state' = [got EXCEPT !.idle = FALSE, !.rate = rate]
         PROVE  UarInv'
    <3>x. rate \in UarRates
      BY <1>a, <2>2 DEF UarRecord
    <3>e. state' = [state EXCEPT !.burst = burst, !.cnt = count, !.idle = FALSE, !.rate = rate]
      BY <1>s, <2>10
    <3>t. state' \in UarRecord
      BY <1>a, <1>p, <3>e, <2>2, <3>x, Zenon DEF UarRecord
    <3>f. /\ state'.burst = burst
         /\ state'.cnt = count
         /\ state'.idle = FALSE
         /\ state'.rate = rate
         /\ \A f \in {"prog", "pc", "heap", "cur", "next", "req", "stopping", "current_buf",
                    "buf_release", "uart_work", "rx", "sending", "tx", "out", "held", "late",
                    "cut"} : state'[f] = state[f]
      BY <1>s, <3>e
    <3>o. UarOwns(state')
      BY <1>b, <3>f DEF UarOwns
    <3>d. UarDriver(state') /\ UarStart(state')
      BY <1>b, <1>s, <2>10, <3>f DEF UarDriver, UarStart
    <3>r. UarRate(state')
      BY <1>b, <2>4, <2>5, <2>6, <2>10, <3>f DEF UarRate
    <3> QED BY <3>t, <3>r, <3>f, <3>o, <3>d DEF UarInv
  <2>11. CASE c % THRESHOLD_CNT = 0
    <3> DEFINE rate == IF Uar!Skipped(c \div THRESHOLD_CNT) THEN state.rate
                       ELSE IF idle THEN "with a pause" ELSE "true"
    <3>1. /\ rate \in {state.rate, "with a pause", "true"}
          /\ rate = "with a pause" => rate = state.rate \/ (idle
               /\ ~Uar!Skipped(c \div THRESHOLD_CNT))
      OBVIOUS
    <3>2. state' = [got EXCEPT !.idle = FALSE, !.rate = rate]
      BY <1>s, <2>8, <2>11
    <3> HIDE DEF rate, got
    <3> QED BY <2>10, <2>11, <3>1, <3>2
  <2> QED BY <2>8, <2>9, <2>11
<1>12. CASE Uar!burst_lost
  <2>0. state' = [state EXCEPT !.burst = 0, !.cut = TRUE] /\ 0 \in UarBursts
    BY <1>12, UartSize DEF Uar!burst_lost, UarBursts
  <2>e. state' = [state EXCEPT !.burst = 0, !.cut = TRUE]
    BY <2>0
  <2>t. state' \in UarRecord
    BY <1>a, <1>p, <2>e, <2>0, ZenonT(60) DEF UarRecord
  <2>f. /\ state'.burst = 0
       /\ state'.cut = TRUE
       /\ \A f \in {"prog", "pc", "heap", "cur", "next", "req", "stopping", "current_buf",
                  "buf_release", "uart_work", "rx", "sending", "tx", "out", "held", "late",
                  "cnt", "idle", "rate"} : state'[f] = state[f]
    BY <1>s, <2>e
  <2>o. UarOwns(state')
    BY <1>b, <2>f DEF UarOwns
  <2>d. UarDriver(state') /\ UarStart(state')
    BY <1>b, <2>0, <2>f DEF UarDriver, UarStart
  <2>r. UarRate(state')
    BY <2>f DEF UarRate
  <2> QED BY <2>t, <2>r, <2>f, <2>o, <2>d DEF UarInv
<1> QED BY <1>1, <1>2, <1>3, <1>4, <1>5, <1>6, <1>7, <1>8, <1>9, <1>10, <1>11, <1>12 DEF Uar!Next

-----------------------------------------------------------------------------
(* Threads that report to another (UtilTests).                              *)

\* The values of the fields, and the records of the programs.
UtlImages == {"threads_lp", "stacks", "button", "watchdog"}
UtlPcs == {"init", "led", "loop", "returned", "feed", "wait"}
UtlCounts == [Utl!Leds -> 0 .. CNT - 1]
UtlFree == SUBSET Utl!Blocks
UtlMems == [Utl!Blocks -> Utl!Leds \X (0 .. CNT - 1)]
UtlQueues == Seq(Utl!Blocks)
UtlHolds == {0} \cup Utl!Blocks
UtlBlinks == [Utl!Leds -> {"start", "on", "ended"}]
UtlPorts == {"unknown", "output", "NULL"}
UtlDogs == {"none", "bound", "armed"}
UtlFeeds == 0 .. Utl!WDT_FEED_TRIES

\* The records of the programs.
UtlRecord ==
  [image : UtlImages, pc : UtlPcs, fault : BOOLEAN, idle : BOOLEAN, cnt : UtlCounts,
   free : UtlFree, mem : UtlMems, fifo : UtlQueues, hold : UtlHolds, printed : BOOLEAN,
   last : UtlCounts, order : BOOLEAN, blinks : UtlBlinks, led : UtlPorts, wdt : UtlDogs,
   fed : UtlFeeds]

\* They are what the type invariant says.
LEMMA UtlTypes == Utl!TypeOK <=> state \in UtlRecord
<1>1. Utl!Blinkers \cup {"button", "watchdog"} = UtlImages
  BY DEF Utl!Blinkers, UtlImages
<1> QED BY <1>1, Zenon DEF Utl!TypeOK, UtlRecord, UtlPcs, UtlCounts, UtlFree, UtlMems, UtlQueues,
       UtlHolds, UtlBlinks, UtlPorts, UtlDogs, UtlFeeds

\* The counter after x.
UtlNext(x) == (x + 1) % CNT

\* w[i]: the latest counters of the LEDs before the i-th message of the queue q.
UtlChain(w, m, q, c, first) ==
  /\ w \in [Nat -> UtlCounts] /\ w[1] = first
  /\ \A i \in DOMAIN q :
       /\ m[q[i]][2] = UtlNext(w[i][m[q[i]][1]])
       /\ w[i + 1] = [w[i] EXCEPT ![m[q[i]][1]] = m[q[i]][2]]
  /\ \A l \in Utl!Leds : c[l] = UtlNext(w[Len(q) + 1][l])

\* The queue has such a history.
UtlChained(m, q, c, first) == \E w : UtlChain(w, m, q, c, first)

\* What is printed when the message that uart_out() holds is.
UtlFirst(u) ==
  IF u.hold # 0 /\ ~u.printed
    THEN [u.last EXCEPT ![u.mem[u.hold][1]] = u.mem[u.hold][2]] ELSE u.last

\* Each message is in one place until it was printed, and the queue is in order.
UtlLogic(u) ==
  /\ u.order /\ Distinct(u.fifo) /\ Elements(u.fifo) \cap u.free = {}
  /\ u.hold \notin u.free \cup Elements(u.fifo)
  /\ u.printed => u.hold # 0
  /\ u.hold # 0 /\ ~u.printed => u.mem[u.hold][2] = UtlNext(u.last[u.mem[u.hold][1]])
  /\ UtlChained(u.mem, u.fifo, u.cnt, UtlFirst(u))

\* How often the watchdog was fed, at each step of main().
UtlDog(u) ==
  /\ u.pc = "init" => u.fed = 0
  /\ u.pc = "feed" => u.fed < Utl!WDT_FEED_TRIES

\* The inductive invariant.
UtlInv == state \in UtlRecord /\ UtlLogic(state) /\ UtlDog(state)

\* The invariant says what the run checks.
LEMMA UtlSound == UtlInv => Utl!TypeOK /\ Utl!PrintedInOrder
BY UtlTypes DEF UtlInv, UtlLogic, Utl!PrintedInOrder

\* What is assumed of the counters, and where the next one lies.
LEMMA UtlSize == /\ CNT \in Nat \ {0} /\ NumBlocks \in Nat
                 /\ \A x \in 0 .. CNT - 1 : UtlNext(x) \in 0 .. CNT - 1
                 /\ UtlNext(CNT - 1) = 0
<1>1. CNT \in Nat \ {0} /\ NumBlocks \in Nat
  BY FirmwareAssumption DEF FirmwareAssumption
<1> QED BY <1>1 DEF UtlNext

\* A message that is queued follows the latest one of its LED.
LEMMA UtlChainAppend ==
  ASSUME NEW m \in UtlMems, NEW q \in UtlQueues, NEW c \in UtlCounts, NEW first,
         UtlChained(m, q, c, first), NEW l \in Utl!Leds, NEW b \in Utl!Blocks,
            b \notin Elements(q)
  PROVE  UtlChained([m EXCEPT ![b] = << l, c[l] >>], Append(q, b),
                    [c EXCEPT ![l] = UtlNext(c[l])], first)
<1> DEFINE t == Append(q, b)
           n == [m EXCEPT ![b] = << l, c[l] >>]
           d == [c EXCEPT ![l] = UtlNext(c[l])]
<1>1. /\ Len(t) = Len(q) + 1 /\ DOMAIN t = 1 .. Len(q) + 1 /\ DOMAIN q = 1 .. Len(q)
      /\ Len(q) \in Nat /\ t[Len(q) + 1] = b
      /\ \A i \in 1 .. Len(q) : t[i] = q[i] /\ q[i] \in Utl!Blocks /\ q[i] # b
  <2>1. q \in Seq(Utl!Blocks)
    BY DEF UtlQueues
  <2>2. /\ Len(t) = Len(q) + 1 /\ DOMAIN t = 1 .. Len(q) + 1 /\ DOMAIN q = 1 .. Len(q)
        /\ Len(q) \in Nat /\ t[Len(q) + 1] = b
        /\ \A i \in 1 .. Len(q) : t[i] = q[i] /\ q[i] \in Utl!Blocks
    BY <2>1
  <2> QED BY <2>2 DEF Elements
<1> HIDE DEF t
<1>2. n[b] = << l, c[l] >> /\ \A x \in Utl!Blocks : x # b => n[x] = m[x]
  BY DEF UtlMems
<1>3. /\ d[l] = UtlNext(c[l]) /\ \A k \in Utl!Leds : k # l => d[k] = c[k]
      /\ c[l] \in 0 .. CNT - 1
  BY DEF UtlCounts
<1> HIDE DEF n, d
<1>4. PICK w : UtlChain(w, m, q, c, first)
  BY DEF UtlChained
<1> DEFINE k == Len(q) + 1
           x == [w[k] EXCEPT ![l] = c[l]]
           v == [w EXCEPT ![k + 1] = x]
<1>5. w \in [Nat -> UtlCounts] /\ k \in Nat /\ w[k] \in UtlCounts
  BY <1>1, <1>4 DEF UtlChain
<1>6. x \in UtlCounts /\ x[l] = c[l] /\ \A j \in Utl!Leds : j # l => x[j] = w[k][j]
  BY <1>3, <1>5 DEF UtlCounts
<1> HIDE DEF x
<1>7. v \in [Nat -> UtlCounts] /\ v[k + 1] = x /\ \A i \in Nat : i # k + 1 => v[i] = w[i]
  BY <1>5, <1>6
<1> HIDE DEF v
<1>8. v[1] = first
  BY <1>1, <1>4, <1>5, <1>7 DEF UtlChain
<1>9. ASSUME NEW i \in 1 .. Len(q)
      PROVE  /\ n[t[i]][2] = UtlNext(v[i][n[t[i]][1]])
             /\ v[i + 1] = [v[i] EXCEPT ![n[t[i]][1]] = n[t[i]][2]]
  <2>1. n[t[i]] = m[q[i]]
    BY <1>1, <1>2
  <2>2. v[i] = w[i] /\ v[i + 1] = w[i + 1]
    BY <1>1, <1>7
  <2>3. /\ m[q[i]][2] = UtlNext(w[i][m[q[i]][1]])
        /\ w[i + 1] = [w[i] EXCEPT ![m[q[i]][1]] = m[q[i]][2]]
    BY <1>1, <1>4 DEF UtlChain
  <2> QED BY <2>1, <2>2, <2>3
<1>10. /\ n[t[k]][2] = UtlNext(v[k][n[t[k]][1]])
       /\ v[k + 1] = [v[k] EXCEPT ![n[t[k]][1]] = n[t[k]][2]]
  <2>1. n[t[k]] = << l, c[l] >>
    BY <1>1, <1>2
  <2>2. v[k] = w[k] /\ v[k + 1] = [w[k] EXCEPT ![l] = c[l]]
    BY <1>5, <1>7 DEF x
  <2>3. c[l] = UtlNext(w[k][l])
    BY <1>4 DEF UtlChain
  <2> QED BY <2>1, <2>2, <2>3
<1>11. ASSUME NEW i \in DOMAIN t
       PROVE  /\ n[t[i]][2] = UtlNext(v[i][n[t[i]][1]])
              /\ v[i + 1] = [v[i] EXCEPT ![n[t[i]][1]] = n[t[i]][2]]
  <2>1. i \in 1 .. Len(q) \/ i = k
    BY <1>1
  <2> QED BY <1>9, <1>10, <2>1
<1>12. ASSUME NEW j \in Utl!Leds PROVE d[j] = UtlNext(v[Len(t) + 1][j])
  <2>1. v[Len(t) + 1] = x
    BY <1>1, <1>7
  <2>2. CASE j = l
    BY <1>3, <1>6, <2>1, <2>2
  <2>3. CASE j # l
    <3>1. c[j] = UtlNext(w[k][j])
      BY <1>4 DEF UtlChain
    <3> QED BY <1>3, <1>6, <2>1, <2>3, <3>1
  <2> QED BY <2>2, <2>3
<1>13. UtlChain(v, n, t, d, first)
  BY <1>7, <1>8, <1>11, <1>12 DEF UtlChain
<1> QED BY <1>13 DEF UtlChained, n, t, d

\* The first message of the queue is the next of its LED.
LEMMA UtlChainTail ==
  ASSUME NEW m \in UtlMems, NEW q \in UtlQueues, q # << >>, NEW c \in UtlCounts, NEW first,
         UtlChained(m, q, c, first)
  PROVE  /\ m[Head(q)][2] = UtlNext(first[m[Head(q)][1]])
         /\ UtlChained(m, Tail(q), c, [first EXCEPT ![m[Head(q)][1]] = m[Head(q)][2]])
<1> DEFINE t == Tail(q)
           h == m[Head(q)]
<1>1. /\ DOMAIN t = 1 .. Len(q) - 1 /\ DOMAIN q = 1 .. Len(q) /\ Len(q) \in Nat /\ Len(q) > 0
      /\ Len(t) = Len(q) - 1 /\ Head(q) = q[1]
      /\ \A i \in 1 .. Len(q) - 1 : t[i] = q[i + 1]
  BY DEF UtlQueues
<1> HIDE DEF t
<1>2. PICK w : UtlChain(w, m, q, c, first)
  BY DEF UtlChained
<1> DEFINE v == [i \in Nat |-> w[i + 1]]
<1>3. w \in [Nat -> UtlCounts] /\ w[1] = first
  BY <1>2 DEF UtlChain
<1>4. \A i \in DOMAIN q : /\ m[q[i]][2] = UtlNext(w[i][m[q[i]][1]])
                          /\ w[i + 1] = [w[i] EXCEPT ![m[q[i]][1]] = m[q[i]][2]]
  BY <1>2 DEF UtlChain
<1>5. h = m[q[1]] /\ 1 \in DOMAIN q
  BY <1>1
<1>6. h[2] = UtlNext(first[h[1]]) /\ w[1 + 1] = [first EXCEPT ![h[1]] = h[2]]
  BY <1>3, <1>4, <1>5
<1> HIDE DEF h
<1>7. v \in [Nat -> UtlCounts] /\ v[1] = w[1 + 1] /\ \A i \in Nat : v[i] = w[i + 1]
  BY <1>3
<1> HIDE DEF v
<1>8. ASSUME NEW i \in DOMAIN t
      PROVE  /\ m[t[i]][2] = UtlNext(v[i][m[t[i]][1]])
             /\ v[i + 1] = [v[i] EXCEPT ![m[t[i]][1]] = m[t[i]][2]]
  <2>1. i + 1 \in DOMAIN q /\ t[i] = q[i + 1] /\ i \in Nat /\ i + 1 \in Nat
    BY <1>1
  <2>2. v[i] = w[i + 1] /\ v[i + 1] = w[(i + 1) + 1]
    BY <1>7, <2>1
  <2> QED BY <1>4, <2>1, <2>2
<1>9. ASSUME NEW l \in Utl!Leds PROVE c[l] = UtlNext(v[Len(t) + 1][l])
  <2>1. v[Len(t) + 1] = w[Len(q) + 1]
    BY <1>1, <1>7
  <2> QED BY <1>2, <2>1 DEF UtlChain
<1>10. UtlChain(v, m, t, c, [first EXCEPT ![h[1]] = h[2]])
  BY <1>6, <1>7, <1>8, <1>9 DEF UtlChain
<1> QED BY <1>6, <1>10 DEF UtlChained, h, t

\* The start of the program.
LEMMA UtlStarts == Utl!Init => UtlInv
<1> SUFFICES ASSUME Utl!Init PROVE UtlInv
  OBVIOUS
<1> DEFINE c == [l \in Utl!Leds |-> 0]
           m == [b \in Utl!Blocks |-> << 0, 0 >>]
           z == [l \in Utl!Leds |-> CNT - 1]
           b == [l \in Utl!Leds |-> "start"]
<1>1. PICK i \in UtlImages :
  state = [image |-> i, pc |-> "init", fault |-> FALSE, idle |-> FALSE, cnt |-> c,
           free |-> Utl!Blocks, mem |-> m, fifo |-> << >>, hold |-> 0, printed |-> FALSE,
           last |-> z, order |-> TRUE, blinks |-> b, led |-> "unknown", wdt |-> "none",
              fed |-> 0]
  BY DEF Utl!Init, UtlImages
<1>2. c \in UtlCounts /\ z \in UtlCounts /\ b \in UtlBlinks
  BY UtlSize DEF UtlCounts, UtlBlinks
<1>3. m \in UtlMems
  <2>1. << 0, 0 >> \in Utl!Leds \X (0 .. CNT - 1)
    BY UtlSize DEF Utl!Leds
  <2> QED BY <2>1 DEF UtlMems
<1>4. << >> \in UtlQueues /\ Elements(<< >>) = {} /\ Distinct(<< >>)
  BY DEF UtlQueues, Elements, Distinct
<1>5. /\ "init" \in UtlPcs /\ Utl!Blocks \in UtlFree /\ 0 \in UtlHolds /\ "unknown" \in UtlPorts
      /\ "none" \in UtlDogs /\ 0 \in UtlFeeds /\ 0 \notin Utl!Blocks
  BY DEF UtlPcs, UtlFree, UtlHolds, UtlPorts, UtlDogs, UtlFeeds, Utl!WDT_FEED_TRIES, Utl!Blocks
<1>6. UtlChained(m, << >>, c, z)
  <2> DEFINE w == [k \in Nat |-> z]
  <2>1. w \in [Nat -> UtlCounts] /\ w[1] = z /\ w[Len(<< >>) + 1] = z
    BY <1>2
  <2>2. \A l \in Utl!Leds : c[l] = UtlNext(z[l])
    BY UtlSize
  <2>3. DOMAIN << >> = {}
    OBVIOUS
  <2> HIDE DEF w, z, c
  <2>4. UtlChain(w, m, << >>, c, z)
    BY <2>1, <2>2, <2>3 DEF UtlChain
  <2> QED BY <2>4 DEF UtlChained
<1> HIDE DEF c, m, z, b
<1>7. state \in UtlRecord
  BY <1>1, <1>2, <1>3, <1>4, <1>5, Zenon DEF UtlRecord
<1>8. UtlLogic(state)
  BY <1>1, <1>4, <1>5, <1>6 DEF UtlLogic, UtlFirst
<1>9. UtlDog(state)
  BY <1>1 DEF UtlDog
<1> QED BY <1>7, <1>8, <1>9 DEF UtlInv

\* A message is written, queued and counted.
LEMMA UtlRound ==
  ASSUME UtlInv, NEW l \in Utl!Leds, state' = Utl!Round(l)
  PROVE  UtlInv'
<1>a. state \in UtlRecord
  BY DEF UtlInv
<1>b. UtlLogic(state) /\ UtlDog(state)
  BY DEF UtlInv
<1>s. {"image", "pc", "fault", "idle", "cnt", "free", "mem", "fifo", "hold", "printed", "last",
      "order", "blinks", "led", "wdt", "fed"} \subseteq DOMAIN state
  BY <1>a DEF UtlRecord
<1>p. TRUE \in BOOLEAN /\ FALSE \in BOOLEAN
  OBVIOUS
<1>1. CASE state.free = {}
  <2>e. state' = [state EXCEPT !.fault = TRUE]
    BY <1>1 DEF Utl!Round
  <2>t. state' \in UtlRecord
    BY <1>a, <1>p, <2>e, Zenon DEF UtlRecord
  <2>f. /\ state'.fault = TRUE
        /\ \A f \in {"image", "pc", "idle", "cnt", "free", "mem", "fifo", "hold", "printed",
             "last",
                   "order", "blinks", "led", "wdt", "fed"} : state'[f] = state[f]
    BY <1>s, <2>e
  <2>l. UtlLogic(state')
    BY <1>b, <2>f DEF UtlLogic, UtlFirst
  <2>d. UtlDog(state')
    BY <1>b, <2>f DEF UtlDog
  <2> QED BY <2>t, <2>l, <2>d DEF UtlInv
<1>2. CASE state.free # {}
  <2> DEFINE b == CHOOSE x \in state.free : TRUE
             free == state.free \ {b}
             mem == [state.mem EXCEPT ![b] = << l, state.cnt[l] >>]
             fifo == Append(state.fifo, b)
             cnt == [state.cnt EXCEPT ![l] = UtlNext(state.cnt[l])]
  <2>1. b \in state.free
    BY <1>2
  <2>2. /\ state.free \subseteq Utl!Blocks /\ state.mem \in UtlMems /\ state.cnt \in UtlCounts
        /\ state.fifo \in UtlQueues /\ state.hold \in UtlHolds
    BY <1>a DEF UtlRecord, UtlFree
  <2>3. state' = [state EXCEPT !.free = free, !.mem = mem, !.fifo = fifo, !.cnt = cnt]
    BY <1>2 DEF Utl!Round, UtlNext
  <2>4. b \in Utl!Blocks /\ b # 0 /\ b # state.hold /\ b \notin Elements(state.fifo)
    BY <1>b, <2>1, <2>2 DEF UtlLogic, Utl!Blocks
  <2> HIDE DEF b
  <2>5. /\ state.cnt[l] \in 0 .. CNT - 1 /\ cnt \in UtlCounts
    BY <2>2, UtlSize DEF UtlCounts
  <2>6. mem \in UtlMems /\ mem[state.hold] = state.mem[state.hold]
    <3>1. << l, state.cnt[l] >> \in Utl!Leds \X (0 .. CNT - 1)
      BY <2>5
    <3>2. mem \in UtlMems
      BY <2>2, <2>4, <3>1 DEF UtlMems
    <3>3. mem[state.hold] = state.mem[state.hold]
      BY <2>2, <2>4 DEF UtlMems
    <3> QED BY <3>2, <3>3
  <2>7. free \in UtlFree
    BY <2>2 DEF UtlFree
  <2>8. fifo \in UtlQueues /\ Elements(fifo) = Elements(state.fifo) \cup {b} /\ Distinct(fifo)
    BY <1>b, <2>2, <2>4, QueueAppend DEF UtlLogic, UtlQueues
  <2>9. ASSUME NEW first, UtlChained(state.mem, state.fifo, state.cnt, first)
        PROVE  UtlChained(mem, fifo, cnt, first)
    BY <2>2, <2>4, <2>9, UtlChainAppend
  <2> HIDE DEF mem, fifo, cnt
  <2>10. /\ free \cap Elements(fifo) = {} /\ state.hold \notin free \cup Elements(fifo)
    BY <1>b, <2>1, <2>4, <2>8 DEF UtlLogic
  <2> HIDE DEF free
  <2>e. state' = [state EXCEPT !.free = free, !.mem = mem, !.fifo = fifo, !.cnt = cnt]
    BY <2>3
  <2>t. state' \in UtlRecord
    BY <1>a, <1>p, <2>e, <2>5, <2>6, <2>7, <2>8, Zenon DEF UtlRecord
  <2>f. /\ state'.free = free
        /\ state'.mem = mem
        /\ state'.fifo = fifo
        /\ state'.cnt = cnt
        /\ \A f \in {"image", "pc", "fault", "idle", "hold", "printed", "last", "order",
             "blinks",
                   "led", "wdt", "fed"} : state'[f] = state[f]
    BY <1>s, <2>e
  <2>l. UtlLogic(state')
    <3>1. UtlFirst(state') = UtlFirst(state)
      BY <2>6, <2>f DEF UtlFirst
    <3>2. UtlChained(mem, fifo, cnt, UtlFirst(state'))
      BY <1>b, <2>9, <3>1 DEF UtlLogic
    <3> HIDE DEF UtlFirst
    <3> QED BY <1>b, <2>6, <2>8, <2>10, <2>f, <3>2 DEF UtlLogic
  <2>d. UtlDog(state')
    BY <1>b, <2>3, <2>f DEF UtlDog
  <2> QED BY <2>t, <2>l, <2>d DEF UtlInv
<1> QED BY <1>1, <1>2

\* Every action keeps the invariant.
LEMMA UtlStep == ASSUME UtlInv, Utl!Next PROVE UtlInv'
<1>a. state \in UtlRecord
  BY DEF UtlInv
<1>b. UtlLogic(state) /\ UtlDog(state)
  BY DEF UtlInv
<1>s. {"image", "pc", "fault", "idle", "cnt", "free", "mem", "fifo", "hold", "printed", "last",
      "order", "blinks", "led", "wdt", "fed"} \subseteq DOMAIN state
  BY <1>a DEF UtlRecord
<1>p. TRUE \in BOOLEAN /\ FALSE \in BOOLEAN /\ 0 \in UtlHolds /\ 0 \in UtlFeeds
  BY DEF UtlHolds, UtlFeeds, Utl!WDT_FEED_TRIES
<1>q. /\ \A x \in {"init", "led", "loop", "returned", "feed", "wait"} : x \in UtlPcs
      /\ \A x \in {"unknown", "output", "NULL"} : x \in UtlPorts
      /\ \A x \in {"none", "bound", "armed"} : x \in UtlDogs
  BY DEF UtlPcs, UtlPorts, UtlDogs
<1>1. ASSUME NEW l \in Utl!Leds, Utl!led_setup(l) PROVE UtlInv'
  <2>1. PICK s \in {"on", "ended"} :
          state' = [state EXCEPT !.blinks = [state.blinks EXCEPT ![l] = s]]
    BY <1>1, <1>s DEF Utl!led_setup
  <2> DEFINE blinks == [state.blinks EXCEPT ![l] = s]
  <2>2. blinks \in UtlBlinks
    BY <1>a DEF UtlRecord, UtlBlinks
  <2>3. state' = [state EXCEPT !.blinks = blinks]
    BY <2>1
  <2> HIDE DEF blinks
  <2>e. state' = [state EXCEPT !.blinks = blinks]
    BY <2>3
  <2>t. state' \in UtlRecord
    BY <1>a, <1>p, <2>e, <2>2, Zenon DEF UtlRecord
  <2>f. /\ state'.blinks = blinks
        /\ \A f \in {"image", "pc", "fault", "idle", "cnt", "free", "mem", "fifo", "hold",
             "printed",
                   "last", "order", "led", "wdt", "fed"} : state'[f] = state[f]
    BY <1>s, <2>e
  <2>l. UtlLogic(state')
    BY <1>b, <2>f DEF UtlLogic, UtlFirst
  <2>d. UtlDog(state')
    BY <1>b, <2>3, <2>f DEF UtlDog
  <2> QED BY <2>t, <2>l, <2>d DEF UtlInv
<1>2. CASE Utl!blink
  BY <1>2, UtlRound DEF Utl!blink
<1>3. CASE Utl!blink_led0
  <2>1. CASE state' = Utl!Round(0)
    BY <2>1, UtlRound DEF Utl!Leds
  <2>2. ASSUME NEW idle \in BOOLEAN, state' = [state EXCEPT !.idle = idle] PROVE UtlInv'
    <3>e. state' = [state EXCEPT !.idle = idle]
      BY <2>2
    <3>t. state' \in UtlRecord
      BY <1>a, <1>p, <3>e, Zenon DEF UtlRecord
    <3>f. /\ state'.idle = idle
          /\ \A f \in {"image", "pc", "fault", "cnt", "free", "mem", "fifo", "hold", "printed",
               "last",
                     "order", "blinks", "led", "wdt", "fed"} : state'[f] = state[f]
      BY <1>s, <3>e
    <3>l. UtlLogic(state')
      BY <1>b, <3>f DEF UtlLogic, UtlFirst
    <3>d. UtlDog(state')
      BY <1>b, <2>2, <3>f DEF UtlDog
    <3> QED BY <3>t, <3>l, <3>d DEF UtlInv
  <2> QED BY <1>3, <2>1, <2>2 DEF Utl!blink_led0
<1>4. CASE Utl!blink_led1
  BY <1>4, UtlRound DEF Utl!blink_led1, Utl!Leds
<1>5. CASE Utl!uart_out
  <2>0. /\ state.fifo \in UtlQueues /\ state.mem \in UtlMems /\ state.cnt \in UtlCounts
        /\ state.last \in UtlCounts /\ state.hold \in UtlHolds /\ state.free \in UtlFree
    BY <1>a DEF UtlRecord
  <2>1. CASE /\ state.hold = 0 /\ state.fifo # << >>
             /\ state' = [state EXCEPT !.hold = Head(state.fifo), !.fifo = Tail(state.fifo)]
    <3> DEFINE hd == Head(state.fifo)
               tl == Tail(state.fifo)
    <3>1. /\ tl \in UtlQueues /\ hd \in Utl!Blocks /\ hd \in Elements(state.fifo) /\ Distinct(tl)
          /\ Elements(tl) = Elements(state.fifo) \ {hd}
      BY <1>b, <2>0, <2>1, QueueTail DEF UtlLogic, UtlQueues
    <3>2. UtlChained(state.mem, state.fifo, state.cnt, state.last) /\ ~state.printed
      BY <1>b, <2>1 DEF UtlLogic, UtlFirst
    <3>3. /\ state.mem[hd][2] = UtlNext(state.last[state.mem[hd][1]])
          /\ UtlChained(state.mem, tl, state.cnt,
                        [state.last EXCEPT ![state.mem[hd][1]] = state.mem[hd][2]])
      BY <2>0, <2>1, <3>2, UtlChainTail
    <3>4. state' = [state EXCEPT !.hold = hd, !.fifo = tl]
      BY <2>1
    <3> HIDE DEF hd, tl
    <3>5. hd \in UtlHolds /\ hd # 0
      BY <3>1 DEF UtlHolds, Utl!Blocks
    <3>e. state' = [state EXCEPT !.hold = hd, !.fifo = tl]
      BY <3>4
    <3>t. state' \in UtlRecord
      BY <1>a, <1>p, <3>e, <3>1, <3>5, Zenon DEF UtlRecord
    <3>f. /\ state'.hold = hd
          /\ state'.fifo = tl
          /\ \A f \in {"image", "pc", "fault", "idle", "cnt", "free", "mem", "printed", "last",
               "order",
                     "blinks", "led", "wdt", "fed"} : state'[f] = state[f]
      BY <1>s, <3>e
    <3>l. UtlLogic(state')
      <4>1. UtlFirst(state') = [state.last EXCEPT ![state.mem[hd][1]] = state.mem[hd][2]]
        BY <3>2, <3>5, <3>f DEF UtlFirst
      <4>2. UtlChained(state'.mem, state'.fifo, state'.cnt, UtlFirst(state'))
        BY <3>3, <3>f, <4>1
      <4>3. hd \notin state.free \cup Elements(tl) /\ Elements(tl) \cap state.free = {}
        BY <1>b, <3>1 DEF UtlLogic
      <4> QED BY <1>b, <3>1, <3>2, <3>3, <3>f, <4>2, <4>3 DEF UtlLogic
    <3>d. UtlDog(state')
      BY <1>b, <3>4, <3>f DEF UtlDog
    <3> QED BY <3>t, <3>l, <3>d DEF UtlInv
  <2>2. CASE /\ state.hold # 0 /\ ~state.printed
             /\ state' = [state EXCEPT !.printed = TRUE,
                  !.last = [state.last
                     EXCEPT ![state.mem[state.hold][1]] = state.mem[state.hold][2]],
                  !.order = state.order /\ state.mem[state.hold][2]
                              = UtlNext(state.last[state.mem[state.hold][1]])]
    <3> DEFINE x == state.mem[state.hold]
               last == [state.last EXCEPT ![x[1]] = x[2]]
    <3>1. x \in Utl!Leds \X (0 .. CNT - 1)
      <4>1. state.hold \in Utl!Blocks
        BY <2>0, <2>2 DEF UtlHolds
      <4> QED BY <2>0, <4>1 DEF UtlMems
    <3>2. last \in UtlCounts
      <4> HIDE DEF x
      <4>1. x[1] \in Utl!Leds /\ x[2] \in 0 .. CNT - 1
        BY <3>1
      <4> QED BY <2>0, <4>1 DEF UtlCounts
    <3>3. UtlFirst(state) = last
      BY <2>2 DEF UtlFirst
    <3>4. state' = [state EXCEPT !.printed = TRUE, !.last = last, !.order = TRUE]
      <4>1. /\ state.order
            /\ state.mem[state.hold][2] = UtlNext(state.last[state.mem[state.hold][1]])
        BY <1>b, <2>2 DEF UtlLogic
      <4> QED BY <2>2, <4>1
    <3> HIDE DEF last, x
    <3>e. state' = [state EXCEPT !.printed = TRUE, !.last = last, !.order = TRUE]
      BY <3>4
    <3>t. state' \in UtlRecord
      BY <1>a, <1>p, <3>e, <3>2, Zenon DEF UtlRecord
    <3>f. /\ state'.printed = TRUE
          /\ state'.last = last
          /\ state'.order = TRUE
          /\ \A f \in {"image", "pc", "fault", "idle", "cnt", "free", "mem", "fifo", "hold",
               "blinks",
                     "led", "wdt", "fed"} : state'[f] = state[f]
      BY <1>s, <3>e
    <3>l. UtlLogic(state')
      <4>1. UtlFirst(state') = UtlFirst(state)
        BY <3>3, <3>f DEF UtlFirst
      <4>2. UtlChained(state'.mem, state'.fifo, state'.cnt, UtlFirst(state'))
        BY <1>b, <3>f, <4>1 DEF UtlLogic
      <4> QED BY <1>b, <2>2, <3>f, <4>2 DEF UtlLogic
    <3>d. UtlDog(state')
      BY <1>b, <3>4, <3>f DEF UtlDog
    <3> QED BY <3>t, <3>l, <3>d DEF UtlInv
  <2>3. CASE /\ state.hold # 0 /\ state.printed
             /\ state' = [state EXCEPT !.free = state.free \cup {state.hold}, !.hold = 0,
                                       !.printed = FALSE]
    <3> DEFINE free == state.free \cup {state.hold}
    <3>1. free \in UtlFree /\ 0 \notin free /\ 0 \notin Elements(state.fifo)
      <4>1. state.hold \in Utl!Blocks /\ state.free \subseteq Utl!Blocks /\ 0 \notin Utl!Blocks
        BY <2>0, <2>3 DEF UtlHolds, UtlFree, Utl!Blocks
      <4>2. Elements(state.fifo) \subseteq Utl!Blocks
        BY <2>0, LenProperties, ElementOfSeq DEF Elements, UtlQueues
      <4> QED BY <4>1, <4>2 DEF UtlFree
    <3>2. free \cap Elements(state.fifo) = {}
      BY <1>b DEF UtlLogic
    <3>3. state' = [state EXCEPT !.free = free, !.hold = 0, !.printed = FALSE]
      BY <2>3
    <3> HIDE DEF free
    <3>e. state' = [state EXCEPT !.free = free, !.hold = 0, !.printed = FALSE]
      BY <3>3
    <3>t. state' \in UtlRecord
      BY <1>a, <1>p, <3>e, <3>1, Zenon DEF UtlRecord
    <3>f. /\ state'.free = free
          /\ state'.hold = 0
          /\ state'.printed = FALSE
          /\ \A f \in {"image", "pc", "fault", "idle", "cnt", "mem", "fifo", "last", "order",
               "blinks",
                     "led", "wdt", "fed"} : state'[f] = state[f]
      BY <1>s, <3>e
    <3>l. UtlLogic(state')
      <4>1. UtlFirst(state') = UtlFirst(state)
        BY <2>3, <3>f DEF UtlFirst
      <4>2. UtlChained(state'.mem, state'.fifo, state'.cnt, UtlFirst(state'))
        BY <1>b, <3>f, <4>1 DEF UtlLogic
      <4> QED BY <1>b, <3>1, <3>2, <3>f, <4>2 DEF UtlLogic
    <3>d. UtlDog(state')
      BY <1>b, <3>3, <3>f DEF UtlDog
    <3> QED BY <3>t, <3>l, <3>d DEF UtlInv
  <2>4. \/ /\ state.hold = 0 /\ state.fifo # << >>
           /\ state' = [state EXCEPT !.hold = Head(state.fifo), !.fifo = Tail(state.fifo)]
        \/ /\ state.hold # 0 /\ ~state.printed
           /\ state' = [state EXCEPT !.printed = TRUE,
                !.last = [state.last
                   EXCEPT ![state.mem[state.hold][1]] = state.mem[state.hold][2]],
                !.order = state.order /\ state.mem[state.hold][2]
                            = UtlNext(state.last[state.mem[state.hold][1]])]
        \/ /\ state.hold # 0 /\ state.printed
           /\ state' = [state EXCEPT !.free = state.free \cup {state.hold}, !.hold = 0,
                                     !.printed = FALSE]
    BY <1>5, Zenon DEF Utl!uart_out, UtlNext
  <2> QED BY <2>1, <2>2, <2>3, <2>4
<1>6. CASE Utl!main_button
  <2>1. ASSUME NEW pc \in {"led", "loop", "returned"}, NEW led \in {state.led, "output", "NULL"},
               state' = [state EXCEPT !.pc = pc, !.led = led]
        PROVE  UtlInv'
    <3>1. pc \in UtlPcs /\ led \in UtlPorts
      BY <1>a, <1>q DEF UtlRecord
    <3>e. state' = [state EXCEPT !.pc = pc, !.led = led]
      BY <2>1
    <3>t. state' \in UtlRecord
      BY <1>a, <1>p, <3>e, <3>1, Zenon DEF UtlRecord
    <3>f. /\ state'.pc = pc
          /\ state'.led = led
          /\ \A f \in {"image", "fault", "idle", "cnt", "free", "mem", "fifo", "hold",
               "printed", "last",
                     "order", "blinks", "wdt", "fed"} : state'[f] = state[f]
      BY <1>s, <3>e
    <3>l. UtlLogic(state')
      BY <1>b, <3>f DEF UtlLogic, UtlFirst
    <3>d. UtlDog(state')
      BY <1>b, <2>1, <3>f DEF UtlDog
    <3> QED BY <3>t, <3>l, <3>d DEF UtlInv
  <2>2. \E pc \in {"led", "loop", "returned"}, led \in {state.led, "output", "NULL"} :
          state' = [state EXCEPT !.pc = pc, !.led = led]
    <3>1. [state EXCEPT !.pc = "led"] = [state EXCEPT !.pc = "led", !.led = state.led]
      BY <1>s
    <3>2. [state EXCEPT !.pc = "returned"] = [state EXCEPT !.pc = "returned", !.led = state.led]
      BY <1>s
    <3> QED BY <1>6, <3>1, <3>2, Zenon DEF Utl!main_button
  <2> QED BY <2>1, <2>2
<1>7. CASE Utl!button_pressed
  <2> DEFINE fault == state.led = "NULL"
  <2>1. state' = [state EXCEPT !.fault = fault] /\ fault \in BOOLEAN
    BY <1>7 DEF Utl!button_pressed
  <2> HIDE DEF fault
  <2>e. state' = [state EXCEPT !.fault = fault]
    BY <2>1
  <2>t. state' \in UtlRecord
    BY <1>a, <1>p, <2>e, <2>1, Zenon DEF UtlRecord
  <2>f. /\ state'.fault = fault
        /\ \A f \in {"image", "pc", "idle", "cnt", "free", "mem", "fifo", "hold", "printed",
             "last",
                   "order", "blinks", "led", "wdt", "fed"} : state'[f] = state[f]
    BY <1>s, <2>e
  <2>l. UtlLogic(state')
    BY <1>b, <2>f DEF UtlLogic, UtlFirst
  <2>d. UtlDog(state')
    BY <1>b, <2>1, <2>f DEF UtlDog
  <2> QED BY <2>t, <2>l, <2>d DEF UtlInv
<1>8. CASE Utl!init_wdt
  <2>1. PICK wdt \in {"none", "bound", "armed"} :
          state.pc = "init" /\ state' = [state EXCEPT !.pc = "feed", !.wdt = wdt]
    BY <1>8 DEF Utl!init_wdt
  <2>2. wdt \in UtlDogs /\ "feed" \in UtlPcs
    BY <1>q
  <2>e. state' = [state EXCEPT !.pc = "feed", !.wdt = wdt]
    BY <2>1
  <2>t. state' \in UtlRecord
    BY <1>a, <1>p, <2>e, <2>2, Zenon DEF UtlRecord
  <2>f. /\ state'.pc = "feed"
        /\ state'.wdt = wdt
        /\ \A f \in {"image", "fault", "idle", "cnt", "free", "mem", "fifo", "hold", "printed",
             "last",
                   "order", "blinks", "led", "fed"} : state'[f] = state[f]
    BY <1>s, <2>e
  <2>l. UtlLogic(state')
    BY <1>b, <2>f DEF UtlLogic, UtlFirst
  <2>d. UtlDog(state')
    BY <1>b, <2>1, <2>f DEF UtlDog, Utl!WDT_FEED_TRIES
  <2> QED BY <2>t, <2>l, <2>d DEF UtlInv
<1>9. CASE Utl!main_watchdog
  <2>1. CASE state' = [state EXCEPT !.fault = TRUE]
    <3>e. state' = [state EXCEPT !.fault = TRUE]
      BY <2>1
    <3>t. state' \in UtlRecord
      BY <1>a, <1>p, <3>e, Zenon DEF UtlRecord
    <3>f. /\ state'.fault = TRUE
          /\ \A f \in {"image", "pc", "idle", "cnt", "free", "mem", "fifo", "hold", "printed",
               "last",
                     "order", "blinks", "led", "wdt", "fed"} : state'[f] = state[f]
      BY <1>s, <3>e
    <3>l. UtlLogic(state')
      BY <1>b, <3>f DEF UtlLogic, UtlFirst
    <3>d. UtlDog(state')
      BY <1>b, <2>1, <3>f DEF UtlDog
    <3> QED BY <3>t, <3>l, <3>d DEF UtlInv
  <2>2. CASE state.wdt # "none"
    <3> DEFINE fed == state.fed + 1
               pc == IF fed = Utl!WDT_FEED_TRIES THEN "wait" ELSE state.pc
    <3>1. state.pc = "feed" /\ state.fed < 5 /\ state.fed \in 0 .. 5 /\ Utl!WDT_FEED_TRIES = 5
      BY <1>9, <1>a, <1>b DEF Utl!main_watchdog, UtlRecord, UtlFeeds, UtlDog, Utl!WDT_FEED_TRIES
    <3>2. state' = [state EXCEPT !.fed = fed, !.pc = pc]
      BY <1>9, <2>2, Zenon DEF Utl!main_watchdog
    <3>3. fed \in UtlFeeds /\ pc \in UtlPcs /\ pc # "init" /\ (pc = "feed" => fed < 5)
      BY <1>q, <3>1 DEF UtlFeeds
    <3> HIDE DEF fed, pc
    <3>e. state' = [state EXCEPT !.fed = fed, !.pc = pc]
      BY <3>2
    <3>t. state' \in UtlRecord
      BY <1>a, <1>p, <3>e, <3>3, Zenon DEF UtlRecord
    <3>f. /\ state'.fed = fed
          /\ state'.pc = pc
          /\ \A f \in {"image", "fault", "idle", "cnt", "free", "mem", "fifo", "hold",
               "printed", "last",
                     "order", "blinks", "led", "wdt"} : state'[f] = state[f]
      BY <1>s, <3>e
    <3>l. UtlLogic(state')
      BY <1>b, <3>f DEF UtlLogic, UtlFirst
    <3>d. UtlDog(state')
      BY <1>b, <3>2, <3>f, <3>1, <3>3 DEF UtlDog
    <3> QED BY <3>t, <3>l, <3>d DEF UtlInv
  <2> QED BY <1>9, <2>1, <2>2 DEF Utl!main_watchdog
<1>10. CASE Utl!wdt_expires
  <2>1. state' = [state EXCEPT !.pc = "init", !.wdt = "none", !.fed = 0]
    BY <1>10 DEF Utl!wdt_expires
  <2>2. "init" \in UtlPcs /\ "none" \in UtlDogs
    BY <1>q
  <2>e. state' = [state EXCEPT !.pc = "init", !.wdt = "none", !.fed = 0]
    BY <2>1
  <2>t. state' \in UtlRecord
    BY <1>a, <1>p, <2>e, <2>2, Zenon DEF UtlRecord
  <2>f. /\ state'.pc = "init"
        /\ state'.wdt = "none"
        /\ state'.fed = 0
        /\ \A f \in {"image", "fault", "idle", "cnt", "free", "mem", "fifo", "hold", "printed",
             "last",
                   "order", "blinks", "led"} : state'[f] = state[f]
    BY <1>s, <2>e
  <2>l. UtlLogic(state')
    BY <1>b, <2>f DEF UtlLogic, UtlFirst
  <2>d. UtlDog(state')
    BY <1>b, <2>1, <2>f DEF UtlDog
  <2> QED BY <2>t, <2>l, <2>d DEF UtlInv
<1> QED BY <1>1, <1>2, <1>3, <1>4, <1>5, <1>6, <1>7, <1>8, <1>9, <1>10 DEF Utl!Next

-----------------------------------------------------------------------------
(* A device, whatever its program.                                          *)

\* What every program keeps.
FirmwareInv == /\ image = "fota" => FotaInv
               /\ image = "udp"  => UdpInv
               /\ image = "mqtt" => Mqtt!TypeOK
               /\ image = "nusc" => NuscInv
               /\ image = "nusp" => NuspInv
               /\ image = "gble" => GbleInv
               /\ image = "dmn"  => DmnInv
               /\ image = "thr"  => ThrInv
               /\ image = "rpc"  => RpcInv
               /\ image = "dev"  => DevInv
               /\ image = "bas"  => BasInv
               /\ image = "cts"  => CtsInv
               /\ image = "pwr"  => PwrInv
               /\ image = "per"  => PerInv
               /\ image = "cell" => CellInv
               /\ image = "agps" => AgpsInv
               /\ image = "spi"  => SpiInv
               /\ image = "prt"  => PrtInv
               /\ image = "uar"  => UarInv
               /\ image = "bat"  => BatInv
               /\ image = "utl"  => UtlInv

\* Every program starts with its invariant.
LEMMA FirmwareStarts == Init => FirmwareInv
BY FotaStarts, UdpStarts, MqttStarts, NuscStarts, NuspStarts, GbleStarts, DmnStarts,
   ThrStarts, RpcStarts, DevStarts, BasStarts, CtsStarts, PwrStarts, PerStarts, CellStarts,
   AgpsStarts, SpiStarts, PrtStarts, UarStarts, BatStarts, UtlStarts
   DEF Init, FirmwareInv

\* A program that does nothing stays as it is.
LEMMA FirmwareStutters == ASSUME FirmwareInv, UNCHANGED vars PROVE FirmwareInv'
<1>0. image' = image /\ state' = state
  BY DEF vars
<1>1. CASE image = "fota"
  BY <1>0, <1>1 DEF FirmwareInv, FotaInv, Fota!TypeOK, FotaLogic, Fota!ConfirmedOnline,
     Fota!OneDownload
<1>2. CASE image = "udp"
  BY <1>0, <1>2 DEF FirmwareInv, UdpInv, Udp!TypeOK, UdpLogic, Udp!SleepsBetween
<1>3. CASE image = "mqtt"
  BY <1>0, <1>3 DEF FirmwareInv, Mqtt!TypeOK
<1>4. CASE image = "nusc"
  BY <1>0, <1>4 DEF FirmwareInv, NuscInv, Nusc!TypeOK, NuscLogic, Nusc!LinkKept,
     Nusc!ReceiverRetries, NuscHeap, NuscIdle
<1>5. CASE image = "nusp"
  BY <1>0, <1>5 DEF FirmwareInv, NuspInv, Nusp!TypeOK, NuspLogic, Nusp!LinkKept,
     Nusp!RefsKnown, NuspAdvertises, NuspHolds
<1>6. CASE image = "gble"
  BY <1>0, <1>6 DEF FirmwareInv, GbleInv, Gble!LinkKept, Gble!TypeOK
<1>7. CASE image = "dmn"
  BY <1>0, <1>7 DEF FirmwareInv, DmnInv, Dmn!AdvertisesAsLinked, Dmn!TypeOK
<1>8. CASE image = "thr"
  BY <1>0, <1>8 DEF FirmwareInv, ThrInv, Thr!LinkKept
<1>9. CASE image = "rpc"
  BY <1>0, <1>9 DEF FirmwareInv, RpcInv, Rpc!TypeOK, RpcLogic, Rpc!AppKnowsLink, Rpc!Free
<1>10. CASE image = "dev"
  BY <1>0, <1>10 DEF FirmwareInv, DevInv, Dev!CountersTrue, Dev!KeyBeforeCount, Dev!TypeOK,
     DevCounts, DevShape
<1>11. CASE image = "bas"
  BY <1>0, <1>11 DEF FirmwareInv, BasInv, Bas!LinkKept, Bas!Initiating
<1>12. CASE image = "cts"
  BY <1>0, <1>12 DEF FirmwareInv, CtsInv, Cts!SubscribedWhenReady, Cts!TypeOK
<1>13. CASE image = "pwr"
  BY <1>0, <1>13 DEF FirmwareInv, PwrInv, Pwr!TypeOK, PwrLogic, Pwr!ConnKnown,
     Pwr!LevelChosen
<1>14. CASE image = "per"
  BY <1>0, <1>14 DEF FirmwareInv, PerInv, Per!TypeOK, PerLogic, Per!ButtonSeen,
     Per!LinkKept, PerNotified, PerPersists, PerRegisters
<1>15. CASE image = "cell"
  BY <1>0, <1>15 DEF FirmwareInv, CellInv, Cell!NoLostMeasurement, Cell!TypeOK
<1>16. CASE image = "agps"
  BY <1>0, <1>16 DEF FirmwareInv, AgpsInv, Agps!RebootHeld, Agps!TypeOK
<1>17. CASE image = "spi"
  BY <1>0, <1>17 DEF FirmwareInv, SpiInv, Spi!AnswersOfChip, Spi!TypeOK
<1>18. CASE image = "prt"
  BY <1>0, <1>18 DEF FirmwareInv, PrtInv, Prt!TypeOK, PrtLogic
<1>19. CASE image = "uar"
  BY <1>0, <1>19 DEF FirmwareInv, UarInv
<1>20. CASE image = "bat"
  BY <1>0, <1>20 DEF FirmwareInv, BatInv, BatFed, BatMeasured
<1>21. CASE image = "utl"
  BY <1>0, <1>21 DEF FirmwareInv, UtlInv
<1> QED BY <1>0, <1>1, <1>2, <1>3, <1>4, <1>5, <1>6, <1>7, <1>8, <1>9, <1>10, <1>11, <1>12,
           <1>13, <1>14, <1>15, <1>16, <1>17, <1>18, <1>19, <1>20, <1>21, Zenon
        DEF FirmwareInv

\* ... and every other step is one of the program that runs.
LEMMA FirmwareKept == ASSUME FirmwareInv, [Next]_vars PROVE FirmwareInv'
<1>1. CASE UNCHANGED vars
  BY <1>1, FirmwareStutters
<1>2. CASE Next
  <2>0. image' = image
    BY <1>2 DEF Next
  <2>1. CASE image = "fota"
    <3>1. Fota!Next /\ FotaInv
      BY <1>2, <2>1 DEF Next, FirmwareInv
    <3>2. FotaInv'
      BY <3>1, FotaTyped, FotaKept DEF FotaInv
    <3> QED BY <2>0, <2>1, <3>2, Zenon DEF FirmwareInv
  <2>2. CASE image = "udp"
    <3>1. Udp!Next /\ UdpInv
      BY <1>2, <2>2 DEF Next, FirmwareInv
    <3>2. UdpInv'
      BY <3>1, UdpTyped, UdpKept DEF UdpInv
    <3> QED BY <2>0, <2>2, <3>2, Zenon DEF FirmwareInv
  <2>3. CASE image = "mqtt"
    <3>1. Mqtt!Next /\ Mqtt!TypeOK
      BY <1>2, <2>3 DEF Next, FirmwareInv
    <3>2. Mqtt!TypeOK'
      BY <3>1, MqttStep
    <3> QED BY <2>0, <2>3, <3>2, Zenon DEF FirmwareInv
  <2>4. CASE image = "nusc"
    <3>1. Nusc!Next /\ NuscInv
      BY <1>2, <2>4 DEF Next, FirmwareInv
    <3>2. NuscInv'
      BY <3>1, NuscTyped, NuscKept DEF NuscInv
    <3> QED BY <2>0, <2>4, <3>2, Zenon DEF FirmwareInv
  <2>5. CASE image = "nusp"
    <3>1. Nusp!Next /\ NuspInv
      BY <1>2, <2>5 DEF Next, FirmwareInv
    <3>2. NuspInv'
      BY <3>1, NuspTyped, NuspKept DEF NuspInv
    <3> QED BY <2>0, <2>5, <3>2, Zenon DEF FirmwareInv
  <2>6. CASE image = "gble"
    <3>1. Gble!Next /\ GbleInv
      BY <1>2, <2>6 DEF Next, FirmwareInv
    <3>2. GbleInv'
      BY <3>1, GbleStep
    <3> QED BY <2>0, <2>6, <3>2, Zenon DEF FirmwareInv
  <2>7. CASE image = "dmn"
    <3>1. Dmn!Next /\ DmnInv
      BY <1>2, <2>7 DEF Next, FirmwareInv
    <3>2. DmnInv'
      BY <3>1, DmnStep
    <3> QED BY <2>0, <2>7, <3>2, Zenon DEF FirmwareInv
  <2>8. CASE image = "thr"
    <3>1. Thr!Next /\ ThrInv
      BY <1>2, <2>8 DEF Next, FirmwareInv
    <3>2. ThrInv'
      BY <3>1, ThrStep
    <3> QED BY <2>0, <2>8, <3>2, Zenon DEF FirmwareInv
  <2>9. CASE image = "rpc"
    <3>1. Rpc!Next /\ RpcInv
      BY <1>2, <2>9 DEF Next, FirmwareInv
    <3>2. RpcInv'
      BY <3>1, RpcTyped, RpcKept DEF RpcInv
    <3> QED BY <2>0, <2>9, <3>2, Zenon DEF FirmwareInv
  <2>10. CASE image = "dev"
    <3>1. Dev!Next /\ DevInv
      BY <1>2, <2>10 DEF Next, FirmwareInv
    <3>2. DevInv'
      BY <3>1, DevStep
    <3> QED BY <2>0, <2>10, <3>2, Zenon DEF FirmwareInv
  <2>11. CASE image = "bas"
    <3>1. Bas!Next /\ BasInv
      BY <1>2, <2>11 DEF Next, FirmwareInv
    <3>2. BasInv'
      BY <3>1, BasStep
    <3> QED BY <2>0, <2>11, <3>2, Zenon DEF FirmwareInv
  <2>12. CASE image = "cts"
    <3>1. Cts!Next /\ CtsInv
      BY <1>2, <2>12 DEF Next, FirmwareInv
    <3>2. CtsInv'
      BY <3>1, CtsStep
    <3> QED BY <2>0, <2>12, <3>2, Zenon DEF FirmwareInv
  <2>13. CASE image = "pwr"
    <3>1. Pwr!Next /\ PwrInv
      BY <1>2, <2>13 DEF Next, FirmwareInv
    <3>2. PwrInv'
      BY <3>1, PwrTyped, PwrKept DEF PwrInv
    <3> QED BY <2>0, <2>13, <3>2, Zenon DEF FirmwareInv
  <2>14. CASE image = "per"
    <3>1. Per!Next /\ PerInv
      BY <1>2, <2>14 DEF Next, FirmwareInv
    <3>2. PerInv'
      BY <3>1, PerTyped, PerKept DEF PerInv
    <3> QED BY <2>0, <2>14, <3>2, Zenon DEF FirmwareInv
  <2>15. CASE image = "cell"
    <3>1. Cell!Next /\ CellInv
      BY <1>2, <2>15 DEF Next, FirmwareInv
    <3>2. CellInv'
      BY <3>1, CellStep
    <3> QED BY <2>0, <2>15, <3>2, Zenon DEF FirmwareInv
  <2>16. CASE image = "agps"
    <3>1. Agps!Next /\ AgpsInv
      BY <1>2, <2>16 DEF Next, FirmwareInv
    <3>2. AgpsInv'
      BY <3>1, AgpsStep
    <3> QED BY <2>0, <2>16, <3>2, Zenon DEF FirmwareInv
  <2>17. CASE image = "spi"
    <3>1. Spi!Next /\ SpiInv
      BY <1>2, <2>17 DEF Next, FirmwareInv
    <3>2. SpiInv'
      BY <3>1, SpiTyped, SpiKept DEF SpiInv
    <3> QED BY <2>0, <2>17, <3>2, Zenon DEF FirmwareInv
  <2>18. CASE image = "prt"
    <3>1. Prt!Next /\ PrtInv
      BY <1>2, <2>18 DEF Next, FirmwareInv
    <3>2. PrtInv'
      BY <3>1, PrtTyped, PrtKept DEF PrtInv
    <3> QED BY <2>0, <2>18, <3>2, Zenon DEF FirmwareInv
  <2>19. CASE image = "uar"
    <3>1. Uar!Next /\ UarInv
      BY <1>2, <2>19 DEF Next, FirmwareInv
    <3>2. UarInv'
      BY <3>1, UarStep
    <3> QED BY <2>0, <2>19, <3>2, Zenon DEF FirmwareInv
  <2>20. CASE image = "bat"
    <3>1. Bat!Next /\ BatInv
      BY <1>2, <2>20 DEF Next, FirmwareInv
    <3>2. BatInv'
      BY <3>1, BatStep
    <3> QED BY <2>0, <2>20, <3>2, Zenon DEF FirmwareInv
  <2>21. CASE image = "utl"
    <3>1. Utl!Next /\ UtlInv
      BY <1>2, <2>21 DEF Next, FirmwareInv
    <3>2. UtlInv'
      BY <3>1, UtlStep
    <3> QED BY <2>0, <2>21, <3>2, Zenon DEF FirmwareInv
  <2> QED BY <2>0, <2>1, <2>2, <2>3, <2>4, <2>5, <2>6, <2>7, <2>8, <2>9, <2>10, <2>11,
             <2>12, <2>13, <2>14, <2>15, <2>16, <2>17, <2>18, <2>19, <2>20, <2>21, Zenon
          DEF FirmwareInv
<1> QED BY <1>1, <1>2 DEF vars

\* The invariant of the programs.
LEMMA FirmwareInvariance == Spec => []FirmwareInv
<1>1. FirmwareInv /\ [Next]_vars => FirmwareInv'
  BY FirmwareKept
<1> QED BY <1>1, FirmwareStarts, PTL DEF Spec

\* The record of a device has its types, whatever program runs and in whatever order its
\* interrupts, threads, work items and peers act, for every size of buffers and heaps and
\* every number of connections, losses, restarts and messages.
THEOREM FirmwareTyped == Spec => []TypeOK
<1>1. FirmwareInv => TypeOK
  BY ThrSound, BasSound, BatHolds, UarHolds, UtlSound
     DEF FirmwareInv, TypeOK, FotaInv, UdpInv, NuscInv, NuspInv, GbleInv, DmnInv, RpcInv, DevInv,
     CtsInv, PwrInv, PerInv, CellInv, AgpsInv, SpiInv, PrtInv
<1> QED BY <1>1, FirmwareInvariance, PTL

\* No device is left alone: the devices that keep a link are linked, search or advertise
\* (as their link demands), unless a call was refused and nobody tried again; for every
\* size of the heap, every length of a burst, and every number of references, slots,
\* connections and losses.
THEOREM LinksAreKept == Spec => []LinkKept
<1>1. FirmwareInv => LinkKept
  BY DEF FirmwareInv, LinkKept, NuscInv, NuscLogic, NuspInv, NuspLogic, GbleInv, DmnInv, ThrInv,
     BasInv, PerInv, PerLogic
<1> QED BY <1>1, FirmwareInvariance, PTL

\* What is handed over stays accounted for: buffers, references to connections, downloads,
\* blocks without an acknowledgement, transmit buffers that wait, slots of connections,
\* measurements, transfers in the ring and messages between threads; for every number and
\* size of them.
THEOREM HandOversAccounted == Spec => []Accounted
<1>1. SpiRing(state) => Spi!RingIsRecent
  BY DEF SpiRing, Spi!RingIsRecent
<1>2. RpcInv => Rpc!StrandedBounded
  <2> SUFFICES ASSUME RpcInv PROVE Rpc!StrandedBounded
    OBVIOUS
  <2>1. /\ Rpc!Bool("uart" \in state.refused) \in {0, 1}
        /\ Rpc!Bool("pool" \in state.refused) \in {0, 1}
    BY DEF Rpc!Bool
  <2>2. state.fifo_tx \in Nat
    BY DEF RpcInv, Rpc!TypeOK
  <2>3. ~state.tx => state.fifo_tx + Rpc!Bool("uart" \in state.refused)
                                   + Rpc!Bool("pool" \in state.refused) <= 2
    BY DEF RpcInv, RpcLogic
  <2> QED BY <2>1, <2>2, <2>3 DEF Rpc!StrandedBounded
<1>3. FirmwareInv => Accounted
  BY <1>1, <1>2, ThrSound, BasSound, UarHolds, UtlSound
     DEF FirmwareInv, Accounted, NuscInv, NuscLogic, NuspInv, NuspLogic, FotaInv, FotaLogic,
     CellInv, SpiInv
<1> QED BY <1>3, FirmwareInvariance, PTL

\* What one part of a device believes or has stored of another is true: the network core's
\* connection, the confirmed image, the sleeping modem, the counters in flash, the discovered
\* service, the handle whose power is set, the button a central has read, the asked reboot,
\* the answers of a chip, the UART that is on, the rate of a burst, the level of a battery.
THEOREM BeliefsAgree == Spec => []Agrees
<1>1. FirmwareInv => Agrees
  BY UarHolds, BatHolds, PrtNeeds
     DEF FirmwareInv, Agrees, RpcInv, RpcLogic, FotaInv, FotaLogic, UdpInv, UdpLogic, DevInv,
     CtsInv, PwrInv, PwrLogic, PerInv, PerLogic, AgpsInv, SpiInv
<1> QED BY <1>1, FirmwareInvariance, PTL
=============================================================================
