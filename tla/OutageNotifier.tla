--------------------------- MODULE OutageNotifier ---------------------------
(***************************************************************************)
(* What the scheduler promises of the alerts it raises for a target, with  *)
(* no mention of checks, timers, deadlines or cancellation.                *)
(*                                                                         *)
(* A target's life is a sequence of outages.  An outage opens with one     *)
(* failure alert, may go on with reminders, and closes with one recovery   *)
(* alert.  With reminders on (Reminder > 0), fewer than Reminder failing   *)
(* checks in a row pass without an alert; with reminders off, none of them *)
(* raises one.  A restart forgets the outages of every target: those that  *)
(* last open again.                                                        *)
(***************************************************************************)
EXTENDS Naturals

CONSTANTS
  Targets,
  Reminder    \* the reminder multiplier, a natural number

VARIABLES
  raised,   \* raised[t]: the kind of the last alert raised for t
  silent    \* silent[t]: failing checks since then

Kinds == {"none", "failure", "reminder", "recovery"}

vars == <<raised, silent>>

Down(t) == raised[t] \in {"failure", "reminder"}

TypeOK ==
  /\ raised \in [Targets -> Kinds]
  /\ silent \in [Targets -> Nat]

Init ==
  /\ raised = [t \in Targets |-> "none"]
  /\ silent = [t \in Targets |-> 0]

Raise(t, kind) ==
  /\ raised' = [raised EXCEPT ![t] = kind]
  /\ silent' = [silent EXCEPT ![t] = 0]

Open(t) == ~Down(t) /\ Raise(t, "failure")

Remind(t) == Down(t) /\ Reminder > 0 /\ Raise(t, "reminder")

Close(t) == Down(t) /\ Raise(t, "recovery")

\* A failing check that raises nothing.  With reminders off there is nothing
\* to count.
StaySilent(t) ==
  /\ Down(t)
  /\ Reminder > 0
  /\ silent[t] + 1 < Reminder
  /\ silent' = [silent EXCEPT ![t] = @ + 1]
  /\ UNCHANGED raised

Forget ==
  /\ raised' = [t \in Targets |-> "none"]
  /\ silent' = [t \in Targets |-> 0]

Next ==
  \/ \E t \in Targets : Open(t) \/ Remind(t) \/ Close(t) \/ StaySilent(t)
  \/ Forget

Spec == Init /\ [][Next]_vars
=============================================================================
