----------------------------- MODULE ClientPool -----------------------------
(***************************************************************************)
(* What checker.RestyClient promises of the HTTP clients it hands out, with*)
(* no mention of its mutex or its map: one client per proxy setting, made  *)
(* when first asked for, the same one every time, and a Close that reaches *)
(* every client made so far.                                               *)
(***************************************************************************)
EXTENDS Domain

VARIABLES
  made,       \* the clients made so far
  held,       \* held[t]: the client t's probe uses, or NoClient
  closed      \* the clients Close has reached

vars == <<made, held, closed>>

NoClient == <<>>

\* The one client of a setting.
ClientOf(s) == <<s, 1>>

Init ==
  /\ made = {}
  /\ held = [t \in Targets |-> NoClient]
  /\ closed = {}

Get(t) ==
  /\ held[t] = NoClient
  /\ held' = [held EXCEPT ![t] = ClientOf(Setting[t])]
  /\ made' = made \cup {ClientOf(Setting[t])}
  /\ UNCHANGED closed

Done(t) ==
  /\ held[t] # NoClient
  /\ held' = [held EXCEPT ![t] = NoClient]
  /\ UNCHANGED <<made, closed>>

Close ==
  /\ closed' = made
  /\ UNCHANGED <<made, held>>

Next == (\E t \in Targets : Get(t) \/ Done(t)) \/ Close

Spec == Init /\ [][Next]_vars
=============================================================================
