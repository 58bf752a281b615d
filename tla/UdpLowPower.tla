----------------------------- MODULE UdpLowPower ----------------------------
(***************************************************************************)
(* The UDP low power programs: a work item sends a datagram and schedules  *)
(* itself again.                                                           *)
(*   test        the main thread attaches to the network once; a datagram  *)
(*               that cannot be sent ends the uploads (udp_lp_test; the    *)
(*               control of udp_lp_test_M1_RAI is the same)                *)
(*   two_way     as test, and waits for an answer (udp_lp_2way)            *)
(*   core_off    as test, and turns the system off after one datagram      *)
(*               (udp_lp_appCoreOff_test)                                  *)
(*   onoff       every upload attaches to the network and takes the modem  *)
(*               offline at its end (udp_lp_onoff)                         *)
(*   cfun        as onoff, and recovers a modem that reports a reset loop  *)
(*               by a reboot (lp_udp_cfun_1_4)                             *)
(* The semaphore lte_connected is given by each report of a registration,  *)
(* also by one that nobody waits for.                                      *)
(***************************************************************************)
EXTENDS Naturals

CONSTANT MaxReboots   \* bound

VARIABLE udp

Once == {"test", "two_way", "core_off"}     \* the main thread attaches
EachTime == {"onoff", "cfun"}               \* the work item attaches

Boot(prog, reboots) ==
  [prog |-> prog, pc |-> "main", modem |-> "off", registered |-> FALSE,
   lte_connected |-> FALSE, fd |-> "closed", reset_flag |-> FALSE,
   failed |-> {}, reboots |-> reboots]

Init == \E prog \in Once \cup EachTime : udp = Boot(prog, 0)

At(prog, pc) == udp.prog = prog /\ udp.pc = pc

\* A step of a thread that only moves on.
Goto(pc) == udp' = [udp EXCEPT !.pc = pc]

\* A call that fails is remembered, because its caller only prints the error.
FailsAt(call, pc) == udp' = [udp EXCEPT !.failed = @ \cup {call}, !.pc = pc]
-----------------------------------------------------------------------------
(* The modem.                                                               *)

\* The modem registers, or reports once more that it is registered.
lte_handler ==
  /\ udp.modem = "on"
  /\ udp' = [udp EXCEPT !.registered = TRUE, !.lte_connected = TRUE]

\* The network is lost: the event is ignored.
network_lost == /\ udp.registered
                /\ udp' = [udp EXCEPT !.registered = FALSE]

\* Only cfun looks at the modem's events.
modem_event_reset_loop ==
  /\ udp.prog = "cfun" /\ udp.modem = "on" /\ ~udp.reset_flag
  /\ udp' = [udp EXCEPT !.reset_flag = TRUE]

Modem == lte_handler \/ network_lost \/ modem_event_reset_loop
-----------------------------------------------------------------------------
(* test, two_way and core_off.                                              *)

\* modem_configure: the low power settings cannot stop it, a modem that cannot be
\* initialised or connected can: then nobody ends the wait that follows.
modem_configure ==
  /\ udp.prog \in Once /\ udp.pc = "main"
  /\ \/ udp' = [udp EXCEPT !.modem = "on", !.pc = "wait"]
     \/ FailsAt("attach", "wait")

main_wait == /\ udp.prog \in Once /\ udp.pc = "wait" /\ udp.lte_connected
             /\ udp' = [udp EXCEPT !.lte_connected = FALSE, !.pc = "connect"]

\* server_init and server_connect.  The error of a failed socket() was never assigned:
\* main may go on with it.
server_connect ==
  /\ udp.prog \in Once /\ udp.pc = "connect"
  /\ \/ udp' = [udp EXCEPT !.fd = "open", !.pc = "idle"]
     \/ FailsAt("connect", "returned")
     \/ FailsAt("connect", "idle")

\* The work item of test: it is scheduled again unless send() failed.
transmission_test ==
  /\ At("test", "idle")
  /\ \/ udp.fd = "open" /\ Goto("idle")
     \/ FailsAt("send", "returned")

\* The work item of two_way waits for an answer; without one it goes on as well, to a
\* last short datagram that releases the radio link and may fail like the first.
transmission_two_way ==
  \/ /\ At("two_way", "idle")
     /\ \/ udp.fd = "open" /\ Goto("recv")
        \/ FailsAt("send", "returned")
  \/ At("two_way", "recv") /\ \/ Goto("idle")
                              \/ FailsAt("recv", "idle")
                              \/ udp' = [udp EXCEPT !.failed = @ \cup {"recv", "send"},
                                                    !.pc = "returned"]
                              \/ FailsAt("send", "returned")

\* The work item of core_off schedules itself and then turns everything off.
transmission_core_off ==
  \/ /\ At("core_off", "idle")
     /\ \/ udp.fd = "open" /\ Goto("deinit")
        \/ FailsAt("send", "returned")
  \/ At("core_off", "deinit") /\ udp' = [udp EXCEPT !.modem = "off", !.registered = FALSE,
                                                     !.pc = "system_off"]
-----------------------------------------------------------------------------
(* onoff and cfun.                                                          *)

\* main only initialises the modem and schedules the work item.
main_each_time == /\ udp.prog \in EachTime /\ udp.pc = "main"
                  /\ Goto("idle") \/ FailsAt("init", "idle")

\* lte_lc_connect_async at the start of the work item; its error is ignored.
attach == /\ udp.prog \in EachTime /\ udp.pc = "idle"
          /\ \/ udp' = [udp EXCEPT !.modem = "on", !.pc = "wait"]
             \/ FailsAt("attach", "wait")

\* The wait for the network, with the semaphore as it is.
worker_wait == /\ udp.prog \in EachTime /\ udp.pc = "wait" /\ udp.lte_connected
               /\ udp' = [udp EXCEPT !.lte_connected = FALSE, !.pc = "connect"]

\* Mutant: the reboot is left out.
reset_loop_forgotten ==
  /\ At("cfun", "wait") /\ ~udp.lte_connected /\ udp.reset_flag
  /\ udp' = [udp EXCEPT !.reset_flag = FALSE, !.modem = "off"]

\* cfun: the wait times out, and a reset loop was reported: factory reset and reboot.
reset_loop ==
  /\ At("cfun", "wait") /\ ~udp.lte_connected /\ udp.reset_flag
  /\ udp.reboots < MaxReboots
  /\ udp' = Boot("cfun", udp.reboots + 1)

\* server_connect of onoff: any failure, reported or not, leads to the end of the work
\* item.
connect_onoff ==
  /\ At("onoff", "connect")
  /\ \/ udp' = [udp EXCEPT !.fd = "open", !.pc = "send"]
     \/ FailsAt("connect", "end")
     \/ FailsAt("connect", "send")

\* server_connect of cfun: after a failure the work item returns at once.
connect_cfun ==
  /\ At("cfun", "connect")
  /\ \/ udp' = [udp EXCEPT !.fd = "open", !.pc = "send"]
     \/ FailsAt("connect", "returned")

\* Mutant: a datagram that cannot be sent ends the work item at once.
exchange_returns ==
  \/ /\ udp.prog \in EachTime /\ udp.pc = "send"
     /\ \/ udp.fd = "open" /\ Goto("recv")
        \/ FailsAt("send", "idle")
  \/ /\ udp.prog \in EachTime /\ udp.pc = "recv"
     /\ Goto("end") \/ FailsAt("recv", "end")

\* The datagram is sent and answered, or not.
exchange ==
  \/ /\ udp.prog \in EachTime /\ udp.pc = "send"
     /\ \/ udp.fd = "open" /\ Goto("recv")
        \/ FailsAt("send", "end")
  \/ /\ udp.prog \in EachTime /\ udp.pc = "recv"
     /\ Goto("end") \/ FailsAt("recv", "end")

\* workerror: socket closed, modem offline, next upload scheduled.
workerror ==
  /\ udp.prog \in EachTime /\ udp.pc = "end"
  /\ \/ udp' = [udp EXCEPT !.fd = "closed", !.modem = "off", !.registered = FALSE,
                           !.pc = "idle"]
     \/ udp' = [udp EXCEPT !.fd = "closed", !.failed = @ \cup {"offline"}, !.pc = "idle"]

server_transmission_work_fn ==
  \/ transmission_test \/ transmission_two_way \/ transmission_core_off
  \/ attach \/ worker_wait \/ reset_loop \/ connect_onoff \/ connect_cfun \/ exchange
  \/ workerror

main == modem_configure \/ main_wait \/ server_connect \/ main_each_time

Thread == main \/ server_transmission_work_fn

Next == Thread \/ Modem
-----------------------------------------------------------------------------
TypeOK == udp \in
  [prog : Once \cup EachTime,
   pc : {"main", "wait", "connect", "idle", "send", "recv", "end", "deinit", "system_off",
         "returned"},
   modem : {"on", "off"}, registered : BOOLEAN, lte_connected : BOOLEAN,
   fd : {"open", "closed"}, reset_flag : BOOLEAN,
   failed : SUBSET {"init", "attach", "connect", "send", "recv", "offline"},
   reboots : 0 .. MaxReboots]

\* Between two uploads of onoff and cfun the modem is offline and the socket closed,
\* whichever step of the last upload failed (unless it was going offline itself): a
\* device that forgets it once stays awake until the next upload.
SleepsBetween ==
  udp.prog \in EachTime /\ udp.pc = "idle" /\ "offline" \notin udp.failed =>
     udp.modem = "off" /\ udp.fd = "closed"

\* The uploads of onoff never end, whatever fails in one of them except the request to
\* attach; those of cfun end only when the socket cannot be connected: from Uploading
\* the device gets to UploadOver.
Uploading == udp.prog \in EachTime /\ udp.pc # "idle"
UploadOver == \/ udp.pc = "idle"
              \/ udp.prog = "cfun" /\ udp.pc = "returned"
              \/ "attach" \in udp.failed
=============================================================================
