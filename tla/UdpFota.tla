------------------------------ MODULE UdpFota -------------------------------
(***************************************************************************)
(* The UDP uploader with firmware update over HTTP (udp_mcuboot_fota_uart).*)
(* The main thread configures the modem, waits for the network, connects   *)
(* the socket, starts the periodic upload, confirms the running image and  *)
(* starts the update service and the UART echo.  The upload and the start  *)
(* of a download run in the system work queue; the button interrupt, the   *)
(* download thread and the modem's events come in between.                 *)
(*                                                                         *)
(* A record holds the state of the device.  A reset may come at any time:  *)
(* the boot loader (BootLoader.tla) then starts the downloaded image on    *)
(* trial, or takes back one that was not confirmed.                        *)
(***************************************************************************)
EXTENDS Naturals

CONSTANT MaxResets   \* bound

VARIABLE fota

\* RAM after a start: dfu is what the modem library reports of an update of the modem.
Boot(trial, dfu, resets) ==
  [pc |-> "configure", registered |-> FALSE, fd |-> "none",
   upload |-> FALSE, refused |-> FALSE,
   button |-> FALSE, fota_work |-> FALSE, callback |-> FALSE, dl |-> 0,
   uart |-> "off", trial |-> trial, confirmed |-> FALSE, slot |-> "empty",
   dfu |-> dfu, resets |-> resets]

ModemDfuResult == {"none", "OK", "error", "not_initialized"}

Init == \E dfu \in ModemDfuResult : fota = Boot(FALSE, dfu, 0)

\* A reset of the device; main() starts over.
reset ==
  /\ fota.resets < MaxResets
  /\ \E dfu \in ModemDfuResult :
       fota' = Boot(fota.slot = "pending", dfu, fota.resets + 1)
-----------------------------------------------------------------------------
(* The main thread.                                                         *)

Step(from, to) == fota.pc = from /\ fota' = [fota EXCEPT !.pc = to]

\* work_init and configure_low_power, whose error is only reported.
configure == Step("configure", "modem")

\* modem_configure, and cert_provision in it, only print their errors: the wait follows
\* in any case.
modem_configure == Step("modem", "wait_lte")

\* Mutant: the network is not waited for.
wait_lte_not == Step("wait_lte", "connect")

wait_lte == fota.registered /\ Step("wait_lte", "connect")

\* server_init and server_connect.  When socket() fails the error that is returned was
\* never assigned, so main may return or go on.
server_connect ==
  /\ fota.pc = "connect"
  /\ \/ fota' = [fota EXCEPT !.fd = "connected", !.pc = "submit"]
     \/ fota' = [fota EXCEPT !.fd = "closed", !.pc = "returned"]
     \/ fota' = [fota EXCEPT !.fd = "closed", !.pc = "submit"]

submit == fota.pc = "submit" /\ fota' = [fota EXCEPT !.upload = TRUE, !.pc = "ota"]

\* ota_svr_start up to the confirmation of the image.  After an update of the modem the
\* thread suspends itself; without the modem library nothing is started.
ota_svr_start ==
  /\ fota.pc = "ota"
  /\ fota' = CASE fota.dfu = "OK" -> [fota EXCEPT !.pc = "suspended"]
               [] fota.dfu = "not_initialized" -> [fota EXCEPT !.pc = "echo"]
               [] OTHER -> [fota EXCEPT !.confirmed = TRUE, !.pc = "button"]

\* dfu_button_init in application_init: the interrupt is on before the download library
\* has its callback.
dfu_button_init ==
  /\ fota.pc = "button"
  /\ \/ fota' = [fota EXCEPT !.button = TRUE, !.pc = "led"]
     \/ fota' = [fota EXCEPT !.pc = "echo"]

\* led_app_version in application_init.
led_app_version == Step("led", "fota_init") \/ Step("led", "echo")

\* fota_download_init in application_init.
application_init ==
  /\ fota.pc = "fota_init"
  /\ \/ fota' = [fota EXCEPT !.callback = TRUE, !.pc = "echo"]
     \/ fota' = [fota EXCEPT !.pc = "echo"]

\* uart_init of uart_echo_start: it retries until the line is valid or 500 ms have
\* passed, and the echo starts in any case.
at_uart_init ==
  \/ fota.pc = "echo" /\ fota' = [fota EXCEPT !.uart = "invalid", !.pc = "uart"]
  \/ fota.pc = "uart" /\ fota' = [fota EXCEPT !.uart = "on", !.pc = "running"]
  \/ fota.pc = "uart" /\ fota' = [fota EXCEPT !.pc = "running"]

main == \/ configure \/ modem_configure \/ wait_lte \/ server_connect \/ submit
        \/ ota_svr_start \/ dfu_button_init \/ led_app_version \/ application_init
        \/ at_uart_init
-----------------------------------------------------------------------------
(* Interrupts, work items and callbacks.                                    *)

\* The modem registers with a network; every other event is only printed.
lte_handler == /\ fota.pc \notin {"configure", "modem"} /\ ~fota.registered
               /\ fota' = [fota EXCEPT !.registered = TRUE]

\* The upload schedules itself again, unless send() fails: it always does without a
\* socket.
server_transmission_work_fn ==
  /\ fota.upload
  /\ \/ fota.fd = "connected" /\ fota' = fota
     \/ fota' = [fota EXCEPT !.upload = FALSE, !.refused = TRUE]

\* Mutant: the interrupt stays on.
dfu_button_pressed_again == fota.button /\ fota' = [fota EXCEPT !.fota_work = TRUE]

dfu_button_pressed ==
  /\ fota.button
  /\ fota' = [fota EXCEPT !.fota_work = TRUE, !.button = FALSE]

\* Mutant: the button stays off when the download cannot be started.
app_dfu_transfer_start_off ==
  /\ fota.fota_work
  /\ \/ fota.callback /\ fota' = [fota EXCEPT !.fota_work = FALSE, !.dl = @ + 1]
     \/ fota' = [fota EXCEPT !.fota_work = FALSE]

\* The download starts, or the button is turned on again: always when the download
\* library has no callback yet.
app_dfu_transfer_start ==
  /\ fota.fota_work
  /\ \/ fota.callback /\ fota' = [fota EXCEPT !.fota_work = FALSE, !.dl = @ + 1]
     \/ fota' = [fota EXCEPT !.fota_work = FALSE, !.button = TRUE]

\* The end of a download; a finished one is in the second slot.
fota_dl_handler ==
  /\ fota.dl > 0
  /\ \/ fota' = [fota EXCEPT !.dl = @ - 1, !.button = TRUE, !.slot = "pending"]
     \/ fota' = [fota EXCEPT !.dl = @ - 1, !.button = TRUE]

WorkQueue == server_transmission_work_fn \/ app_dfu_transfer_start

Event == lte_handler \/ dfu_button_pressed \/ fota_dl_handler

Next == main \/ WorkQueue \/ Event \/ reset
-----------------------------------------------------------------------------
TypeOK == fota \in
  [pc : {"configure", "modem", "wait_lte", "connect", "submit", "ota", "button", "led",
         "fota_init", "echo", "uart", "running", "returned", "suspended"},
   registered : BOOLEAN, fd : {"none", "connected", "closed"},
   upload : BOOLEAN, refused : BOOLEAN,
   button : BOOLEAN, fota_work : BOOLEAN, callback : BOOLEAN, dl : 0 .. 1,
   uart : {"off", "invalid", "on"}, trial : BOOLEAN, confirmed : BOOLEAN,
   slot : {"empty", "pending"}, dfu : ModemDfuResult, resets : 0 .. MaxResets]

\* There is never a second download: the button, which alone starts one, is off from
\* the press until the download has failed or ended, whatever the order of the
\* interrupt, the work queue and the download thread.
OneDownload == /\ fota.dl + (IF fota.fota_work THEN 1 ELSE 0) <= 1
               /\ fota.button => fota.dl = 0 /\ ~fota.fota_work

\* An image on trial is confirmed only once this boot of it has reached the network: one
\* that cannot is taken back by the boot loader.
ConfirmedOnline == fota.confirmed => fota.registered

\* A press of the button is not the last one: from ButtonPressed the device gets to
\* ButtonBack, where the button works again, or the device was reset.
ButtonPressed == fota.fota_work
ButtonBack == fota.button \/ fota.pc = "configure"
=============================================================================
