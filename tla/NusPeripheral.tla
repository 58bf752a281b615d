---------------------------- MODULE NusPeripheral ---------------------------
(***************************************************************************)
(* Connection, pairing and buttons of the UART peripherals:                *)
(*   bridge       mcuboot_prv_key/peripheral_uart (its data path is in     *)
(*                UartBridge.tla); ble_uart/v1.5.1/peripheral_uart and     *)
(*                peripheral_uart_pa_lan do the same                       *)
(*   plain        peripheral_uart_thingy52: no pairing, no buttons         *)
(*   ldo          nrf5340_ldo_DCDC: the buttons only switch an LED         *)
(*   throughput   throughput_nus/peripheral_uart_throughput: buttons also  *)
(*                start a burst and an update of the parameters            *)
(* Connection and pairing callbacks run in the Bluetooth thread, the       *)
(* buttons in the system work queue, the burst in a thread of its own.     *)
(*                                                                         *)
(* The stack has one connection object (CONFIG_BT_MAX_CONN=1).  refs are   *)
(* the references to it that the program holds; advertising resumes when   *)
(* the object is free.                                                     *)
(***************************************************************************)
EXTENDS Naturals

CONSTANTS MaxRefs,   \* bound: references
          Packets    \* packets of a burst

VARIABLE nusp

WithPairing == {"bridge", "ldo", "throughput"}
Progs == WithPairing \cup {"plain"}

Boot(prog) ==
  [prog |-> prog, pc |-> "init", adv |-> FALSE, link |-> FALSE,
   current_conn |-> FALSE, auth_conn |-> FALSE, refs |-> 0, confirm |-> FALSE,
   button |-> {}, reply |-> "none", twice |-> FALSE,
   params |-> "zero", burst |-> "idle", throughput_sem |-> FALSE,
   send_count |-> 0, sent_cnt |-> 0, lost |-> FALSE, fault |-> FALSE]

Init == \E prog \in Progs : nusp = Boot(prog)

Bool(b) == IF b THEN 1 ELSE 0

\* external: bt_conn_unref; the advertiser resumes once the object is free.
Unref(p) == [p EXCEPT !.refs = @ - 1,
                      !.adv = @ \/ (p.refs = 1 /\ ~p.link /\ p.pc = "running")]
-----------------------------------------------------------------------------
(* main().                                                                  *)

\* configure_gpio, uart_init, bt_enable; any failure ends in error() or in a return.
main_init ==
  /\ nusp.pc = "init"
  /\ \/ nusp' = [nusp EXCEPT !.pc = "adv"]
     \/ nusp' = [nusp EXCEPT !.pc = "error"]

\* Without advertising the bridge returns and the others blink on: nobody finds them.
main_adv ==
  /\ nusp.pc = "adv"
  /\ \/ nusp' = [nusp EXCEPT !.adv = TRUE, !.pc = "running"]
     \/ nusp' = [nusp EXCEPT !.pc = "error"]
-----------------------------------------------------------------------------
(* Connection and pairing callbacks.                                        *)

\* connected; a connection that failed is only printed, and the advertiser goes on.
connected ==
  /\ nusp.prog # "throughput" /\ nusp.adv
  /\ nusp' = [nusp EXCEPT !.adv = FALSE, !.link = TRUE, !.current_conn = TRUE,
                          !.refs = @ + 1, !.twice = FALSE]

\* throughput also initialises its work item, scheduled or not.
connected_throughput ==
  /\ nusp.prog = "throughput" /\ nusp.adv
  /\ nusp' = [nusp EXCEPT !.adv = FALSE, !.link = TRUE, !.current_conn = TRUE,
                          !.refs = @ + 1, !.twice = FALSE, !.params = "init"]

\* The peer asks for pairing with a number to compare: the connection is noted, also
\* over one that is noted already.
auth_passkey_confirm ==
  /\ nusp.prog \in WithPairing /\ nusp.link /\ ~nusp.confirm /\ nusp.refs < MaxRefs
  /\ nusp' = [nusp EXCEPT !.confirm = TRUE, !.auth_conn = TRUE, !.refs = @ + 1,
                          !.twice = @ \/ nusp.auth_conn]

\* The peer gives up, or nobody answers (auth_cancel, pairing_failed): only printed.
auth_cancel == nusp.confirm /\ nusp' = [nusp EXCEPT !.confirm = FALSE]

\* Mutant: the connection that is being paired is not released.
disconnected_keeps ==
  /\ nusp.link
  /\ nusp' = Unref([nusp EXCEPT !.link = FALSE, !.confirm = FALSE, !.current_conn = FALSE])

\* Packets that were not sent yet are reported as sent, or not at all.
disconnected ==
  /\ nusp.link
  /\ LET down == [nusp EXCEPT !.link = FALSE, !.confirm = FALSE, !.auth_conn = FALSE,
                              !.current_conn = FALSE]
         auth == IF nusp.auth_conn THEN Unref(down) ELSE down
     IN \/ nusp' = Unref(auth)
        \/ /\ nusp.sent_cnt < nusp.send_count
           /\ nusp' = [Unref(auth) EXCEPT !.lost = TRUE]

Bluetooth == \/ connected \/ connected_throughput \/ auth_passkey_confirm \/ auth_cancel
             \/ disconnected
-----------------------------------------------------------------------------
(* Buttons.                                                                 *)

\* button_changed of the bridges: the buttons that were pressed together are handled
\* one after the other if a pairing waits.
button_changed ==
  /\ nusp.prog \in WithPairing \ {"ldo"} /\ nusp.pc = "running" /\ nusp.button = {}
  /\ nusp.reply = "none" /\ nusp.auth_conn
  /\ \E pressed \in {{"accept"}, {"reject"}, {"accept", "reject"}} :
       nusp' = [nusp EXCEPT !.button = pressed]

\* num_comp_reply up to the answer, in which the thread may wait for the stack.  An
\* answer for no connection at all is a fault.
num_comp_reply ==
  /\ nusp.button # {} /\ nusp.reply = "none"
  /\ LET first == IF "accept" \in nusp.button THEN "accept" ELSE "reject"
     IN nusp' = IF nusp.auth_conn
                  THEN [nusp EXCEPT !.button = @ \ {first}, !.reply = first, !.confirm = FALSE]
                  ELSE [nusp EXCEPT !.fault = TRUE]

\* Its end: auth_conn is read again.
num_comp_reply_end ==
  /\ nusp.reply # "none"
  /\ nusp' = IF nusp.auth_conn
               THEN Unref([nusp EXCEPT !.reply = "none", !.auth_conn = FALSE])
               ELSE [nusp EXCEPT !.fault = TRUE]

\* The other buttons of throughput.
button_changed_throughput ==
  /\ nusp.prog = "throughput" /\ nusp.pc = "running"
  /\ \/ nusp' = [nusp EXCEPT !.throughput_sem = TRUE]
     \/ nusp' = IF nusp.params = "zero" THEN [nusp EXCEPT !.fault = TRUE]
                                        ELSE [nusp EXCEPT !.params = "scheduled"]

\* connection_configuration_set: each request may be refused, which is only printed.
ble_params_update_work_handler ==
  nusp.params = "scheduled" /\ nusp' = [nusp EXCEPT !.params = "init"]

Buttons == \/ button_changed \/ num_comp_reply \/ num_comp_reply_end
           \/ button_changed_throughput \/ ble_params_update_work_handler
-----------------------------------------------------------------------------
(* The burst of throughput.                                                 *)

ble_write_thread ==
  /\ nusp.burst = "idle" /\ nusp.throughput_sem
  /\ nusp' = [nusp EXCEPT !.throughput_sem = FALSE, !.burst = "send", !.send_count = 0,
                          !.sent_cnt = 0, !.lost = FALSE]

\* Packets are sent, and sent again while there is no link.  Then the thread waits
\* until all of them were reported.
throughput_data_send ==
  \/ /\ nusp.burst = "send" /\ nusp.send_count < Packets /\ nusp.link
     /\ nusp' = [nusp EXCEPT !.send_count = @ + 1]
  \/ /\ nusp.burst = "send" /\ nusp.send_count = Packets
     /\ nusp' = [nusp EXCEPT !.burst = "wait"]
  \/ /\ nusp.burst = "wait" /\ nusp.sent_cnt = Packets
     /\ nusp' = [nusp EXCEPT !.burst = "idle"]

bt_sent_cb == /\ nusp.sent_cnt < nusp.send_count /\ ~nusp.lost
              /\ nusp' = [nusp EXCEPT !.sent_cnt = @ + 1]

Burst == ble_write_thread \/ throughput_data_send

Next == /\ ~nusp.fault
        /\ \/ main_init \/ main_adv \/ Bluetooth \/ Buttons
           \/ Burst \/ bt_sent_cb
-----------------------------------------------------------------------------
TypeOK == nusp \in
  [prog : Progs, pc : {"init", "adv", "running", "error"}, adv : BOOLEAN, link : BOOLEAN,
   current_conn : BOOLEAN, auth_conn : BOOLEAN, refs : 0 .. MaxRefs, confirm : BOOLEAN,
   button : SUBSET {"accept", "reject"}, reply : {"none", "accept", "reject"},
   twice : BOOLEAN, params : {"zero", "init", "scheduled"},
   burst : {"idle", "send", "wait"}, throughput_sem : BOOLEAN,
   send_count : 0 .. Packets, sent_cnt : 0 .. Packets, lost : BOOLEAN, fault : BOOLEAN]

\* A peripheral that has lost its peer can be found again: no reference of the program
\* is left, and the advertiser runs.  The exception is the reference that is lost when
\* the peer asks twice for a pairing that nobody answered.
LinkKept ==
  nusp.pc = "running" /\ ~nusp.link /\ ~nusp.fault =>
     \/ nusp.adv /\ nusp.refs = 0
     \/ nusp.twice

\* Unless a pairing was repeated, the references are those the program can still see
\* and release, whatever the order of the buttons and the callbacks.
RefsKnown == nusp.refs = Bool(nusp.current_conn) + Bool(nusp.auth_conn) \/ nusp.twice
=============================================================================
