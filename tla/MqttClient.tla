----------------------------- MODULE MqttClient -----------------------------
(***************************************************************************)
(* The two MQTT clients: mqtt_secure_ca, which retries everything, and     *)
(* mqtt_non_secure, which gives up.  The main thread attaches to the       *)
(* network, resolves the broker, connects and then polls the socket; the   *)
(* event handler runs inside mqtt_input().  In the secure program the      *)
(* button handler publishes from the system work queue.                    *)
(*                                                                         *)
(* Both topics of prj.conf are the same: what a client publishes comes     *)
(* back.  The broker keeps at most Window messages unacknowledged and      *)
(* holds back the others.                                                  *)
(***************************************************************************)
EXTENDS Naturals

CONSTANT MaxBacklog   \* bound: messages the broker holds

VARIABLE mqtt

Window == 2       \* external: messages a broker sends without an acknowledgement

\* Only the secure program has certificates to write.
Boot(prog) ==
  [prog |-> prog, pc |-> IF prog = "secure" THEN "provision" ELSE "modem",
   conn |-> "none", subscribed |-> FALSE, backlog |-> 0, unacked |-> 0, buttons |-> FALSE]

Init == \E prog \in {"secure", "non_secure"} : mqtt = Boot(prog)

At(prog, pc) == mqtt.prog = prog /\ mqtt.pc = pc

Goto(pc) == mqtt' = [mqtt EXCEPT !.pc = pc]

\* What is left when the transport is closed; the session is a clean one.
Closed(m) == [m EXCEPT !.conn = "none", !.subscribed = FALSE, !.backlog = 0, !.unacked = 0]
-----------------------------------------------------------------------------
(* The main thread.                                                         *)

certificates_provision ==
  At("secure", "provision") /\ (Goto("modem") \/ Goto("returned"))

\* Without the network the secure program tries again after a delay.
modem_configure == At("secure", "modem") /\ (Goto("init") \/ Goto("modem"))

\* The other one has an assertion, which is compiled out, and goes on.
modem_configure_once == At("non_secure", "modem") /\ Goto("init")

\* client_init with broker_init: one attempt to resolve the name of the broker.
client_init ==
  /\ At("secure", "init")
  /\ \/ mqtt' = [mqtt EXCEPT !.pc = "connect", !.buttons = TRUE]   \* dk_buttons_init
     \/ Goto("returned")

client_init_plain == At("non_secure", "init") /\ (Goto("connect") \/ Goto("returned"))

Connecting == mqtt' = [mqtt EXCEPT !.conn = "connecting", !.pc = "poll"]

\* mqtt_connect and fds_init.
connect == At("secure", "connect") /\ (Connecting \/ Goto("connect"))

connect_once == At("non_secure", "connect") /\ (Connecting \/ Goto("returned"))

\* poll() or mqtt_live() fails, or the socket is gone: the loop is left.
poll_error ==
  /\ mqtt.pc = "poll"
  /\ Goto("disconnect")

\* mqtt_input() hands the answer of the broker to mqtt_evt_handler.
connack ==
  /\ mqtt.pc = "poll" /\ mqtt.conn = "connecting"
  /\ \/ mqtt' = [mqtt EXCEPT !.conn = "up", !.subscribed = TRUE]   \* subscribe()
     \/ mqtt' = [Closed(mqtt) EXCEPT !.pc = "disconnect"]          \* refused

\* mqtt_input() hands a message to mqtt_evt_handler.
publish_event ==
  /\ mqtt.pc = "poll" /\ mqtt.conn = "up" /\ mqtt.backlog > 0 /\ mqtt.unacked < Window
  /\ mqtt' = [mqtt EXCEPT !.backlog = @ - 1, !.unacked = @ + 1, !.pc = "payload"]

\* What the handler echoes comes back, and may be lost by a full broker.
Echo(m) == IF m.conn = "up" /\ m.backlog < MaxBacklog
             THEN [m EXCEPT !.backlog = @ + 1] ELSE m

\* Mutant: the message is not acknowledged.
publish_secure_silent ==
  /\ mqtt.prog = "secure" /\ mqtt.pc = "payload"
  /\ \/ mqtt' = [Echo(mqtt) EXCEPT !.pc = "poll"]
     \/ mqtt' = [Closed(mqtt) EXCEPT !.pc = "poll"]

\* The payload is read and the message acknowledged in any case; it is then echoed, or,
\* if it could not be read, the client disconnects inside the handler and the loop
\* finds its socket gone.
publish_secure ==
  /\ mqtt.prog = "secure" /\ mqtt.pc = "payload"
  /\ LET acked == [mqtt EXCEPT !.unacked = IF @ > 0 THEN @ - 1 ELSE 0]
     IN \/ mqtt' = [Echo(acked) EXCEPT !.pc = "poll"]
        \/ mqtt' = [Closed(acked) EXCEPT !.pc = "poll"]

\* The other program reads the payload piece by piece, waiting for the rest, and sends
\* no acknowledgement.
publish_non_secure ==
  /\ mqtt.prog = "non_secure" /\ mqtt.pc = "payload"
  /\ \/ mqtt' = [Echo(mqtt) EXCEPT !.pc = "poll"]
     \/ mqtt' = [Closed(mqtt) EXCEPT !.pc = "poll"]

mqtt_evt_handler == connack \/ publish_secure \/ publish_non_secure

\* mqtt_disconnect, and the next attempt of the secure program.
disconnect == /\ At("secure", "disconnect")
              /\ mqtt' = [Closed(mqtt) EXCEPT !.pc = "connect"]

\* The other one returns.
disconnect_last == /\ At("non_secure", "disconnect")
                   /\ mqtt' = [Closed(mqtt) EXCEPT !.pc = "returned"]

main == \/ certificates_provision \/ modem_configure \/ client_init \/ connect
        \/ modem_configure_once \/ client_init_plain \/ connect_once
        \/ publish_event \/ mqtt_evt_handler \/ disconnect \/ disconnect_last

\* The loop cannot stay at a socket that is closed.
closed_socket == mqtt.conn = "none" /\ poll_error
-----------------------------------------------------------------------------
(* The other thread and the broker.                                         *)

\* A press of the button publishes; a write that fails closes the transport.
button_handler ==
  /\ mqtt.buttons
  /\ mqtt.conn = "up"
  /\ \/ mqtt.subscribed /\ mqtt' = Echo(mqtt)
     \/ mqtt' = Closed(mqtt)

\* Somebody else publishes.
message == /\ mqtt.conn = "up" /\ mqtt.subscribed
           /\ mqtt' = Echo(mqtt)

\* The network or the broker closes the connection.
transport_lost == mqtt.conn # "none" /\ mqtt' = Closed(mqtt)

Next == main \/ poll_error \/ button_handler \/ message \/ transport_lost
-----------------------------------------------------------------------------
TypeOK == mqtt \in
  [prog : {"secure", "non_secure"},
   pc : {"provision", "modem", "init", "connect", "poll", "payload", "disconnect",
         "returned"},
   conn : {"none", "connecting", "up"}, subscribed : BOOLEAN,
   backlog : 0 .. MaxBacklog, unacked : 0 .. Window, buttons : BOOLEAN]

\* The secure client comes back: whatever closes the transport, in whichever thread,
\* the main thread gets from Offline to Reconnecting.
Offline == mqtt.prog = "secure" /\ mqtt.pc \in {"poll", "payload"} /\ mqtt.conn = "none"
Reconnecting == mqtt.conn = "connecting"

\* The secure client acknowledges what it receives, so that the broker never holds back
\* a message for good: from MessageWaits it gets to MessageHandled.
MessageWaits == mqtt.prog = "secure" /\ mqtt.conn = "up" /\ mqtt.backlog > 0
MessageHandled == mqtt.pc = "payload" \/ mqtt.conn = "none"
=============================================================================
