------------------------------ MODULE Delivery ------------------------------
(***************************************************************************)
(* What the alerters promise to whoever raises an alert, with no mention   *)
(* of an order of the channels, of requests, replies or deadlines.         *)
(*                                                                         *)
(* A send hands one alert to its audience, the channels that should hear   *)
(* of it.  A channel hears an alert at most once, and no channel outside   *)
(* the audience ever does.  A channel may be reported as failed whether it *)
(* heard the alert or not, for an answer can be lost, but once reported it *)
(* hears no more of it.  The send ends only when everyone in the audience  *)
(* has heard or is reported, and nothing of it is left for the next one.   *)
(***************************************************************************)
EXTENDS Naturals

CONSTANTS
  Senders,
  Channels,
  Alerts,
  Listeners,   \* Listeners[a]: the channels that should hear of alert a
  NoAlert

VARIABLES
  busy,       \* the senders with a send in progress
  alert,      \* alert[s]: what s is sending
  reached,    \* reached[s]: the channels that have heard it
  reported    \* reported[s]: the channels the send will report as failed

vars == <<busy, alert, reached, reported>>

Init ==
  /\ busy = {}
  /\ alert = [s \in Senders |-> NoAlert]
  /\ reached = [s \in Senders |-> {}]
  /\ reported = [s \in Senders |-> {}]

Begin(s, a) ==
  /\ s \notin busy
  /\ busy' = busy \cup {s}
  /\ alert' = [alert EXCEPT ![s] = a]
  /\ UNCHANGED <<reached, reported>>

Reach(s, c) ==
  /\ s \in busy
  /\ c \in Listeners[alert[s]] \ (reached[s] \cup reported[s])
  /\ reached' = [reached EXCEPT ![s] = @ \cup {c}]
  /\ UNCHANGED <<busy, alert, reported>>

Report(s, c) ==
  /\ s \in busy
  /\ c \in Listeners[alert[s]] \ reported[s]
  /\ reported' = [reported EXCEPT ![s] = @ \cup {c}]
  /\ UNCHANGED <<busy, alert, reached>>

End(s) ==
  /\ s \in busy
  /\ Listeners[alert[s]] \subseteq reached[s] \cup reported[s]
  /\ busy' = busy \ {s}
  /\ alert' = [alert EXCEPT ![s] = NoAlert]
  /\ reached' = [reached EXCEPT ![s] = {}]
  /\ reported' = [reported EXCEPT ![s] = {}]

Next ==
  \E s \in Senders :
    \/ \E a \in Alerts : Begin(s, a)
    \/ \E c \in Channels : Reach(s, c) \/ Report(s, c)
    \/ End(s)

Spec == Init /\ [][Next]_vars
=============================================================================
