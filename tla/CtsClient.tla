----------------------------- MODULE CtsClient ------------------------------
(***************************************************************************)
(* The current time client (peripheral_cts_client): a peripheral that      *)
(* discovers the time service of the central it is connected to and        *)
(* subscribes to it.  The time is readable only on an encrypted link, and  *)
(* encryption and discovery end in either order: discover_completed_cb()   *)
(* and security_changed() each have to do what the other could not.        *)
(***************************************************************************)
EXTENDS Naturals

VARIABLE cts

Init == cts = [pc |-> "init", adv |-> FALSE, up |-> FALSE, dm |-> FALSE,
               client |-> "none", has_cts |-> FALSE, encrypted |-> FALSE,
               subscribed |-> FALSE, failed |-> FALSE]
-----------------------------------------------------------------------------
\* main() returns at the first error; the LED blinks in the loop.
main == /\ cts.pc = "init"
        /\ \E ok \in BOOLEAN :
             cts' = [cts EXCEPT !.pc = IF ok THEN "loop" ELSE "returned", !.adv = ok]

\* Mutant: what was found on the last connection is believed of this one.
connected_keeps ==
  /\ cts.adv /\ ~cts.up
  /\ \E err \in BOOLEAN : cts' = [cts EXCEPT !.up = TRUE, !.dm = ~err, !.failed = FALSE]

\* The discovery starts at once; an error is only printed.
connected ==
  /\ cts.adv /\ ~cts.up
  /\ \E err \in BOOLEAN : cts' = [cts EXCEPT !.up = TRUE, !.dm = ~err, !.failed = FALSE,
                                             !.has_cts = FALSE]

\* The host removes subscriptions and ends the discovery; the client keeps its handles.
disconnected ==
  /\ cts.up
  /\ cts' = [cts EXCEPT !.up = FALSE, !.dm = FALSE, !.encrypted = FALSE, !.subscribed = FALSE,
               !.client = IF @ = "none" THEN "none" ELSE "old"]

\* Subscribes when the service is known and the link of the client is encrypted; that of
\* an earlier connection is not.
enable_notifications(c) ==
  IF c.has_cts /\ c.client = "current" /\ c.encrypted
  THEN {[c EXCEPT !.subscribed = TRUE], [c EXCEPT !.failed = TRUE]}
  ELSE {c}

\* Mutant: the subscription is left to security_changed().
discover_completed_cb_waits ==
  /\ cts.dm
  /\ cts' \in {[cts EXCEPT !.dm = FALSE],
               [cts EXCEPT !.dm = FALSE, !.has_cts = TRUE, !.client = "current"]}

\* Handles that cannot be assigned, a service that is not there and an error leave the
\* client as it was.
discover_completed_cb ==
  /\ cts.dm
  /\ \/ cts' = [cts EXCEPT !.dm = FALSE]
     \/ cts' \in enable_notifications([cts EXCEPT !.dm = FALSE, !.has_cts = TRUE,
                                                  !.client = "current"])

\* The central, or the request of discover_completed_cb(), encrypts the link.
security_changed ==
  /\ cts.up
  /\ cts' \in enable_notifications([cts EXCEPT !.encrypted = TRUE])

\* A pairing that was cancelled or failed disconnects, here already completed.
pairing_failed == ~cts.encrypted /\ disconnected

Next == \/ main \/ connected \/ disconnected \/ discover_completed_cb
        \/ security_changed \/ pairing_failed
-----------------------------------------------------------------------------
TypeOK == cts \in [pc : {"init", "loop", "returned"}, adv : BOOLEAN, up : BOOLEAN,
                   dm : BOOLEAN, client : {"none", "current", "old"}, has_cts : BOOLEAN,
                   encrypted : BOOLEAN, subscribed : BOOLEAN, failed : BOOLEAN]

\* Whatever ended first, discovery or encryption: on an encrypted link whose service was
\* found the time is subscribed to, unless that failed; and what was found belongs to
\* this connection.
SubscribedWhenReady ==
  cts.up /\ cts.has_cts => /\ cts.client = "current"
                           /\ cts.encrypted => cts.subscribed \/ cts.failed
=============================================================================
