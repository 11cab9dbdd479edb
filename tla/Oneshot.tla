------------------------------- MODULE Oneshot -------------------------------
(***************************************************************************)
(* The oneshot mode: runOneshot (cmd/joghd/main.go) checks every target    *)
(* once with checker.CheckAll, one goroutine per target behind a semaphore,*)
(* then raises a failure alert for each that failed, one after the other,  *)
(* and asks fx to shut the process down with the exit code.  An interrupt  *)
(* may arrive at any moment.                                               *)
(*                                                                         *)
(* The check itself is Checker's.  A goroutine of CheckAll that waits for  *)
(* the semaphore is at pc "idle", one that has ended at pc "stopped".      *)
(***************************************************************************)
EXTENDS Checker, FiniteSets, Sequences

CONSTANTS
  List,                 \* the targets, in the order of the configuration
  Concurrency,          \* app.concurrency: the capacity of the semaphore
  AlertFanoutTimeout    \* the deadline of one send

ASSUME OneshotAssumption ==
  /\ List \in Seq(Targets)
  /\ \A t \in Targets : \E i \in 1..Len(List) : List[i] = t
  /\ \A i, j \in 1..Len(List) : List[i] = List[j] => i = j
  /\ Concurrency \in Nat \ {0}
  /\ AlertFanoutTimeout \in Nat \ {0}

VARIABLES
  sem,          \* how many values the semaphore's channel holds
  results,      \* CheckAll's results, by target
  phase,        \* where runOneshot is
  pos,          \* the result it is at
  budget,       \* ticks until the deadline of the send in progress
  hasFailures,
  app,          \* the process, as fx sees it
  code,         \* the exit code
  interrupted,  \* a signal came before runOneshot asked for the shutdown
  raised,       \* targets whose failure alert was handed to send (history)
  heard         \* those whose alert every alerter took (history)

runner == <<phase, pos, budget, hasFailures, raised, heard>>
process == <<app, code, interrupted>>
vars == <<checkVars, sem, results, runner, process>>

TypeOK ==
  /\ CheckTypeOK
  /\ sem \in 0..Concurrency
  /\ results \in [Targets -> CheckResult]
  /\ phase \in {"checking", "handling", "alerting", "finished"}
  /\ pos \in 1..Len(List) + 1
  /\ budget \in 0..AlertFanoutTimeout
  /\ hasFailures \in BOOLEAN
  /\ app \in {"running", "stopping", "exited"}
  /\ code \in {0, 1}
  /\ interrupted \in BOOLEAN
  /\ raised \in SUBSET Targets
  /\ heard \in SUBSET Targets

Init ==
  /\ CheckInit
  /\ sem = 0
  /\ results = [t \in Targets |-> NoResult]
  /\ phase = "checking"
  /\ pos = 1
  /\ budget = 0
  /\ hasFailures = FALSE
  /\ app = "running"
  /\ code = 0
  /\ interrupted = FALSE
  /\ raised = {}
  /\ heard = {}

-----------------------------------------------------------------------------
(***************************************************************************)
(* CheckAll.                                                               *)
(***************************************************************************)
\* Mutant: the slot is given back before the check and not after it.
Acquire_ReleasesAtOnce(t) ==
  /\ pc[t] = "idle"
  /\ sem < Concurrency
  /\ StartCheck(t)
  /\ UNCHANGED <<sem, results, runner, process>>

\* The select takes a slot.  It may do so after a cancellation, when both
\* cases are ready.
Acquire(t) ==
  /\ pc[t] = "idle"
  /\ sem < Concurrency
  /\ sem' = sem + 1
  /\ StartCheck(t)
  /\ UNCHANGED <<results, runner, process>>

\* Mutant: a goroutine that never got a slot leaves no result.
GiveUp_NoResult(t) ==
  /\ pc[t] = "idle"
  /\ ctxDone
  /\ pc' = [pc EXCEPT ![t] = "stopped"]
  /\ UNCHANGED <<sem, results, ctxDone, left, locals, runner, process>>

\* The select takes the cancelled context: the target is not checked at all.
GiveUp(t) ==
  /\ pc[t] = "idle"
  /\ ctxDone
  /\ pc' = [pc EXCEPT ![t] = "stopped"]
  /\ results' = [results EXCEPT ![t] = [NoResult EXCEPT !.err = "ctx"]]
  /\ UNCHANGED <<sem, ctxDone, left, locals, runner, process>>

\* Mutant: the slot is kept.
Collect_Leaks(t) ==
  /\ pc[t] = "returned"
  /\ results' = [results EXCEPT ![t] = result[t]]
  /\ pc' = [pc EXCEPT ![t] = "stopped"]
  /\ Forget(t)
  /\ UNCHANGED <<sem, ctxDone, left, runner, process>>

\* Check has returned: the result is stored and the slot released.
Collect(t) ==
  /\ pc[t] = "returned"
  /\ results' = [results EXCEPT ![t] = result[t]]
  /\ sem' = sem - 1
  /\ pc' = [pc EXCEPT ![t] = "stopped"]
  /\ Forget(t)
  /\ UNCHANGED <<ctxDone, left, runner, process>>

GoroutineStep(t) ==
  \/ Acquire(t)
  \/ GiveUp(t)
  \/ CheckStep(t) /\ UNCHANGED <<sem, results, runner, process>>
  \/ Collect(t)

-----------------------------------------------------------------------------
(***************************************************************************)
(* runOneshot.                                                             *)
(***************************************************************************)
\* wg.Wait returns.
AllCollected ==
  /\ phase = "checking"
  /\ \A t \in Targets : pc[t] = "stopped"
  /\ phase' = "handling"
  /\ UNCHANGED <<checkVars, sem, results, pos, budget, hasFailures, raised, heard, process>>

Handled == List[pos]

\* Mutant: a healthy target makes up for the failures before it.
HandleHealthy_Resets ==
  /\ phase = "handling" /\ pos <= Len(List)
  /\ results[Handled].success
  /\ pos' = pos + 1
  /\ hasFailures' = FALSE
  /\ UNCHANGED <<checkVars, sem, results, phase, budget, raised, heard, process>>

HandleHealthy ==
  /\ phase = "handling" /\ pos <= Len(List)
  /\ results[Handled].success
  /\ pos' = pos + 1
  /\ UNCHANGED <<checkVars, sem, results, phase, budget, hasFailures, raised, heard, process>>

\* The failure counts for the exit code and its alert goes to sendAlert.
HandleUnhealthy ==
  /\ phase = "handling" /\ pos <= Len(List)
  /\ ~results[Handled].success
  /\ hasFailures' = TRUE
  /\ raised' = raised \cup {Handled}
  /\ phase' = "alerting"
  /\ budget' = AlertFanoutTimeout
  /\ UNCHANGED <<checkVars, sem, results, pos, heard, process>>

\* Mutant: an alert that fails ends the loop.
SendReturns_Breaks ==
  /\ phase' = "handling"
  /\ pos' = Len(List) + 1
  /\ budget' = 0
  /\ UNCHANGED <<checkVars, sem, results, hasFailures, raised, process>>

\* sendAlert returns, having logged any error.
SendReturns ==
  /\ phase' = "handling"
  /\ pos' = pos + 1
  /\ budget' = 0
  /\ UNCHANGED <<checkVars, sem, results, hasFailures, raised, process>>

\* Mutant: the send does not derive its context from the cancelled one.
Deliver_Detached ==
  /\ phase = "alerting"
  /\ budget > 0
  /\ heard' = heard \cup {Handled}
  /\ SendReturns

\* Every alerter takes the alert.  A cancelled context lets nothing out.
Deliver ==
  /\ phase = "alerting"
  /\ budget > 0 /\ ~ctxDone
  /\ heard' = heard \cup {Handled}
  /\ SendReturns

\* An alerter refuses it.
SendFails ==
  /\ phase = "alerting"
  /\ budget > 0
  /\ SendReturns
  /\ UNCHANGED heard

\* The deadline or the cancellation ends the send.
SendExpires ==
  /\ phase = "alerting"
  /\ budget = 0 \/ ctxDone
  /\ SendReturns
  /\ UNCHANGED heard

\* runOneshot returns and its exit code goes to Shutdown, which fx heeds
\* unless a signal came first.
RequestShutdown ==
  /\ phase = "handling" /\ pos = Len(List) + 1
  /\ phase' = "finished"
  /\ IF app = "running"
     THEN /\ app' = "stopping"
          /\ code' = IF hasFailures THEN 1 ELSE 0
     ELSE UNCHANGED <<app, code>>
  /\ UNCHANGED <<checkVars, sem, results, pos, budget, hasFailures, raised, heard, interrupted>>

RunnerStep ==
  AllCollected \/ HandleHealthy \/ HandleUnhealthy \/ SendExpires \/ RequestShutdown

-----------------------------------------------------------------------------
(***************************************************************************)
(* The process.                                                            *)
(***************************************************************************)
\* SIGINT or SIGTERM: fx stops the application with exit code 0.
Interrupt ==
  /\ app = "running"
  /\ app' = "stopping"
  /\ code' = 0
  /\ interrupted' = TRUE
  /\ UNCHANGED <<checkVars, sem, results, runner>>

\* The OnStop hook of the runner cancels its context.
StopHook ==
  /\ app = "stopping"
  /\ Cancel
  /\ UNCHANGED <<sem, results, runner, process>>

\* The hooks are done.  Nobody waits for runOneshot.
Exit ==
  /\ app = "stopping"
  /\ ctxDone
  /\ app' = "exited"
  /\ UNCHANGED <<checkVars, sem, results, runner, code, interrupted>>

Tick ==
  /\ budget > 0 \/ \E t \in Targets : left[t] > 0
  /\ CountDown
  /\ budget' = IF budget > 0 THEN budget - 1 ELSE 0
  /\ UNCHANGED <<ctxDone, pc, locals, sem, results, phase, pos, hasFailures, raised, heard, process>>

\* What goes on as long as the process lives.
Alive ==
  \/ Interrupt \/ StopHook \/ Exit \/ Tick
  \/ RunnerStep \/ Deliver \/ SendFails
  \/ \E t \in Targets :
       \/ GoroutineStep(t)
       \/ Answered(t) /\ UNCHANGED <<sem, results, runner, process>>

Terminated == app = "exited" /\ UNCHANGED vars

Next == (app # "exited" /\ Alive) \/ Terminated

\* Goroutines are scheduled and time passes; nothing is assumed of the targets,
\* the alerters or the operator.
Fairness ==
  /\ WF_vars(app # "exited" /\ Tick)
  /\ WF_vars(app # "exited" /\ RunnerStep)
  /\ WF_vars(StopHook) /\ WF_vars(Exit)
  /\ \A t \in Targets : WF_vars(app # "exited" /\ GoroutineStep(t))

Spec == Init /\ [][Next]_vars /\ Fairness

-----------------------------------------------------------------------------
\* No more targets are probed at once than app.concurrency allows, across
\* cancellations and goroutines that give up (CheckAll, "Use semaphore to
\* limit concurrency").
ProbesWithinConcurrency ==
  Cardinality({t \in Targets : pc[t] = "probing"}) <= Concurrency

\* Once CheckAll has returned every target has a verdict: it passed, or it
\* failed and says why.  None is left at the zero result, checked or not.
EveryTargetHasAVerdict ==
  phase # "checking" =>
    \A t \in Targets : results[t].success <=> results[t].err = "none"

\* Every failing target has its alert raised, and no other, whatever becomes
\* of the alerts before it (runOneshot's loop; main_test.go, "A failing
\* alerter must not change the exit code").
EveryFailureIsRaised ==
  phase = "finished" => raised = {t \in Targets : ~results[t].success}

\* An alert anybody hears comes from a check that ran to its end: a shutdown
\* that cuts checks short alarms nobody (sendAlert derives its context).
HeardFailuresAreReal == \A t \in heard : results[t].err \notin {"none", "ctx"}

\* Unless a signal came first, the exit code is the verdict: 1 exactly when a
\* target failed, whatever became of the alerts (README, usage).
ExitCodeIsTheVerdict ==
  app = "exited" /\ ~interrupted =>
    (code = 1 <=> \E t \in Targets : ~results[t].success)

\* The process exits by itself, even when no target answers and every alerter
\* is wedged (sendAlert, "so a slow alerter cannot keep the process alive").
ProcessExits == <>(app = "exited")

\* README, "oneshot mode exits 1 if anything is down": a target known to be
\* down when the process exits means exit code 1.
AnythingDownExitsOne ==
  app = "exited" /\ (\E t \in Targets : results[t].err \in {"network", "mismatch", "cert"})
    => code = 1

=============================================================================
