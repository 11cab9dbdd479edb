---------------------------- MODULE OneshotProofs ----------------------------
(***************************************************************************)
(* Safety of the oneshot mode, for any list of targets, any concurrency    *)
(* and any moment of an interrupt.  What a check does is CheckerProofs'.   *)
(***************************************************************************)
EXTENDS Oneshot, CheckerProofs, FiniteSetTheorems

\* The goroutines that hold a slot of the semaphore.
Inside == {t \in Targets : pc[t] \in {"top", "probing", "backoff", "returned"}}

\* The failing targets among the first n of the list.
FailedUpTo(n) == {List[i] : i \in {j \in 1..n : ~results[List[j]].success}}

\* How many results runOneshot has dealt with; one it alerts about counts.
Done == IF phase = "alerting" THEN pos ELSE pos - 1

(***************************************************************************)
(* The counter of the semaphore is what it counts, so it bounds the probes.*)
(***************************************************************************)
SlotInv ==
  /\ IsFiniteSet(Inside)
  /\ sem = Cardinality(Inside)
  /\ sem <= Concurrency

\* A goroutine that has ended has left its verdict.
ResultInv(t) ==
  /\ pc[t] \in {"idle", "top", "probing", "backoff", "returned", "stopped"}
  /\ pc[t] = "stopped" => (results[t].success <=> results[t].err = "none")
  /\ results[t].err = "ctx" => ctxDone

(***************************************************************************)
(* runOneshot begins when every goroutine has ended, so that the results   *)
(* no longer change while it goes through them.                            *)
(***************************************************************************)
RunnerInv ==
  /\ phase = "checking" => pos = 1 /\ raised = {} /\ heard = {} /\ ~hasFailures
  /\ phase # "checking" => \A t \in Targets : pc[t] = "stopped"
  /\ raised = FailedUpTo(Done)
  /\ phase = "alerting" => pos <= Len(List) /\ ~results[Handled].success
  /\ phase = "finished" => pos = Len(List) + 1
  /\ hasFailures <=> raised # {}
  /\ \A t \in heard : results[t].err \notin {"none", "ctx"}

ExitInv ==
  app # "running" /\ ~interrupted =>
    phase = "finished" /\ (code = 1 <=> hasFailures)

RestTypes ==
  /\ sem \in Nat
  /\ results \in [Targets -> CheckResult]
  /\ phase \in {"checking", "handling", "alerting", "finished"}
  /\ pos \in 1..Len(List) + 1
  /\ budget \in 0..AlertFanoutTimeout
  /\ hasFailures \in BOOLEAN
  /\ app \in {"running", "stopping", "exited"}
  /\ code \in {0, 1}
  /\ interrupted \in BOOLEAN
  /\ raised \in SUBSET Targets
  /\ heard \in SUBSET Targets

IInv ==
  /\ CheckIInv
  /\ RestTypes
  /\ SlotInv
  /\ \A t \in Targets : ResultInv(t)
  /\ RunnerInv
  /\ ExitInv

LEMMA ListFacts ==
  /\ Len(List) \in Nat
  /\ \A i \in 1..Len(List) : List[i] \in Targets
  /\ \A t \in Targets : \E i \in 1..Len(List) : List[i] = t
BY OneshotAssumption

LEMMA InitInv == Init => IInv
<1> SUFFICES ASSUME Init PROVE IInv
  OBVIOUS
<1> USE DEF Init
<1>1. CheckIInv
  BY CheckInitInv
<1>2. RestTypes
  <2>1. results \in [Targets -> CheckResult]
    BY NoResultType
  <2>2. pos \in 1..Len(List) + 1 /\ budget \in 0..AlertFanoutTimeout
    BY ListFacts, OneshotAssumption
  <2>3. raised \in SUBSET Targets /\ heard \in SUBSET Targets
    OBVIOUS
  <2> QED
    BY <2>1, <2>2, <2>3 DEF RestTypes
<1>3. Inside = {}
  BY DEF CheckInit, Inside
<1>4. SlotInv
  BY <1>3, FS_EmptySet, OneshotAssumption DEF SlotInv
<1>5. \A t \in Targets : ResultInv(t)
  BY DEF CheckInit, ResultInv, NoResult
<1>6. FailedUpTo(0) = {} /\ Done = 0
  BY DEF FailedUpTo, Done
<1>7. RunnerInv /\ ExitInv
  BY <1>6 DEF RunnerInv, ExitInv
<1> QED
  BY <1>1, <1>2, <1>4, <1>5, <1>7 DEF IInv

-----------------------------------------------------------------------------
(***************************************************************************)
(* The goroutines of CheckAll.                                             *)
(***************************************************************************)
\* A goroutine acts only while runOneshot waits for it.
LEMMA GoroutinesFirst ==
  ASSUME IInv, NEW t \in Targets, pc[t] # "stopped"
  PROVE  phase = "checking" /\ (app # "running" => interrupted)
BY DEF IInv, RunnerInv, ExitInv, RestTypes

\* What it does leaves runOneshot where it is.
LEMMA RunnerWaits ==
  ASSUME IInv, phase = "checking", UNCHANGED <<runner, process>>
  PROVE  RunnerInv' /\ ExitInv'
<1>1. Done' = 0 /\ FailedUpTo(0)' = {}
  BY DEF IInv, RunnerInv, Done, FailedUpTo, runner
<1> QED
  BY <1>1 DEF IInv, RunnerInv, ExitInv, runner, process

LEMMA RestTypesKept ==
  ASSUME RestTypes, UNCHANGED <<runner, process>>,
         sem' \in Nat, results' \in [Targets -> CheckResult]
  PROVE  RestTypes'
BY DEF RestTypes, runner, process

LEMMA SlotTaken ==
  ASSUME IInv, NEW t \in Targets, pc[t] = "idle", sem < Concurrency,
         sem' = sem + 1, pc' = [pc EXCEPT ![t] = "top"]
  PROVE  SlotInv'
<1>1. Inside' = Inside \cup {t} /\ t \notin Inside
  BY DEF IInv, CheckIInv, CheckTypeOK, Inside
<1> QED
  BY <1>1, FS_AddElement, FS_CardinalityType, OneshotAssumption DEF IInv, SlotInv

LEMMA SlotReleased ==
  ASSUME IInv, NEW t \in Targets, pc[t] = "returned",
         sem' = sem - 1, pc' = [pc EXCEPT ![t] = "stopped"]
  PROVE  SlotInv' /\ sem' \in Nat
<1>1. Inside' = Inside \ {t} /\ t \in Inside
  BY DEF IInv, CheckIInv, CheckTypeOK, Inside
<1>2. SlotInv'
  BY <1>1, FS_RemoveElement, FS_CardinalityType, OneshotAssumption
     DEF IInv, SlotInv, RestTypes
<1> QED
  BY <1>2, FS_CardinalityType DEF SlotInv

LEMMA SlotKept ==
  ASSUME IInv, UNCHANGED sem, Inside' = Inside
  PROVE  SlotInv'
BY DEF IInv, SlotInv

\* A step of a check keeps the goroutine inside it.
LEMMA CheckFrame ==
  ASSUME CheckIInv, NEW t \in Targets, CheckStep(t) \/ Answered(t)
  PROVE  /\ pc[t] \in {"top", "probing", "backoff"}
         /\ pc'[t] \in {"top", "probing", "backoff", "returned"}
         /\ \A u \in Targets \ {t} : pc'[u] = pc[u]
         /\ UNCHANGED ctxDone
BY DEF CheckIInv, CheckTypeOK, CheckStep, StopBeforeProbe, SendProbe,
       ProbeTimesOut, ProbeCancelled, BackoffElapsed, BackoffCancelled,
       Answered, ProbeReturns

LEMMA AcquireInv ==
  ASSUME IInv, NEW t \in Targets, Acquire(t)
  PROVE  IInv'
<1>1. phase = "checking" /\ RunnerInv' /\ ExitInv'
  BY GoroutinesFirst, RunnerWaits DEF Acquire
<1>2. CheckIInv'
  BY StartCheckInv DEF Acquire, IInv
<1>3. SlotInv'
  BY SlotTaken DEF Acquire, StartCheck
<1>4. RestTypes'
  <2>1. sem' \in Nat /\ results' \in [Targets -> CheckResult]
    BY DEF Acquire, IInv, RestTypes
  <2> QED
    BY <2>1, RestTypesKept DEF Acquire, IInv
<1>5. \A u \in Targets : ResultInv(u)'
  BY DEF Acquire, StartCheck, IInv, CheckIInv, CheckTypeOK, ResultInv
<1> QED
  BY <1>1, <1>2, <1>3, <1>4, <1>5 DEF IInv

LEMMA GiveUpInv ==
  ASSUME IInv, NEW t \in Targets, GiveUp(t)
  PROVE  IInv'
<1>1. phase = "checking" /\ RunnerInv' /\ ExitInv'
  BY GoroutinesFirst, RunnerWaits DEF GiveUp
<1>2. CheckIInv'
  <2>1. CheckTypeOK'
    BY DEF GiveUp, IInv, CheckIInv, CheckTypeOK, locals, PCs
  <2>2. \A u \in Targets \ {t} : Untouched(u)
    BY DEF GiveUp, IInv, CheckIInv, CheckTypeOK, locals, Untouched
  <2>3. CheckInv(t)'
    BY DEF GiveUp, IInv, CheckIInv, CheckTypeOK, CheckInv, Counted, Failing,
           CtxErrorMeansCancelled, locals
  <2> QED
    BY <2>1, <2>2, <2>3, UntouchedInv DEF IInv, CheckIInv
<1>3. SlotInv'
  <2>1. Inside' = Inside
    BY DEF GiveUp, IInv, CheckIInv, CheckTypeOK, Inside
  <2> QED
    BY <2>1, SlotKept DEF GiveUp
<1>4. [NoResult EXCEPT !.err = "ctx"] \in CheckResult
  BY NoResultType DEF CheckResult, Errors
<1>5. RestTypes'
  <2>1. sem' \in Nat /\ results' \in [Targets -> CheckResult]
    BY <1>4 DEF GiveUp, IInv, RestTypes
  <2> QED
    BY <2>1, RestTypesKept DEF GiveUp, IInv
<1>6. ASSUME NEW u \in Targets PROVE ResultInv(u)'
  <2>1. CASE u = t
    <3>1. results'[t] = [NoResult EXCEPT !.err = "ctx"] /\ pc'[t] = "stopped"
      BY DEF GiveUp, IInv, RestTypes, CheckIInv, CheckTypeOK
    <3>2. results'[t].err = "ctx" /\ ~results'[t].success /\ ctxDone'
      BY <3>1 DEF NoResult, GiveUp
    <3> QED
      BY <2>1, <3>1, <3>2 DEF ResultInv
  <2>2. CASE u # t
    BY <2>2 DEF GiveUp, IInv, RestTypes, CheckIInv, CheckTypeOK, ResultInv
  <2> QED
    BY <2>1, <2>2
<1> QED
  BY <1>1, <1>2, <1>3, <1>5, <1>6 DEF IInv

LEMMA CheckingInv ==
  ASSUME IInv, NEW t \in Targets, CheckStep(t) \/ Answered(t),
         UNCHANGED <<sem, results, runner, process>>
  PROVE  IInv'
<1>1. CheckIInv'
  BY CheckStepInv, AnsweredInv DEF IInv
<1>2. /\ pc[t] \in {"top", "probing", "backoff"}
      /\ pc'[t] \in {"top", "probing", "backoff", "returned"}
      /\ \A u \in Targets \ {t} : pc'[u] = pc[u]
      /\ UNCHANGED ctxDone
  BY CheckFrame DEF IInv
<1>3. RunnerInv' /\ ExitInv'
  BY <1>2, GoroutinesFirst, RunnerWaits
<1>4. Inside' = Inside
  BY <1>2 DEF Inside
<1>5. \A u \in Targets : ResultInv(u)'
  BY <1>2 DEF IInv, ResultInv
<1>6. RestTypes'
  BY RestTypesKept DEF IInv, RestTypes
<1> QED
  BY <1>1, <1>3, <1>4, <1>5, <1>6, SlotKept DEF IInv

LEMMA CollectInv ==
  ASSUME IInv, NEW t \in Targets, Collect(t)
  PROVE  IInv'
<1>1. phase = "checking" /\ RunnerInv' /\ ExitInv'
  BY GoroutinesFirst, RunnerWaits DEF Collect
<1>2. CheckIInv'
  BY ForgetInv DEF Collect, IInv, CheckIInv, CheckTypeOK
<1>3. SlotInv' /\ sem' \in Nat
  BY SlotReleased DEF Collect
<1>4. /\ result[t] \in CheckResult
      /\ result[t].success <=> result[t].err = "none"
      /\ result[t].err = "ctx" => ctxDone
  BY DEF Collect, IInv, CheckIInv, CheckTypeOK, CheckInv, Consistent,
         CtxErrorMeansCancelled
<1>5. RestTypes'
  <2>1. results' \in [Targets -> CheckResult]
    BY <1>4 DEF Collect, IInv, RestTypes
  <2> QED
    BY <1>3, <2>1, RestTypesKept DEF Collect, IInv
<1>6. \A u \in Targets : ResultInv(u)'
  BY <1>4 DEF Collect, IInv, RestTypes, CheckIInv, CheckTypeOK, ResultInv
<1> QED
  BY <1>1, <1>2, <1>3, <1>5, <1>6 DEF IInv

LEMMA GoroutineInv ==
  ASSUME IInv, NEW t \in Targets,
         \/ GoroutineStep(t)
         \/ Answered(t) /\ UNCHANGED <<sem, results, runner, process>>
  PROVE  IInv'
BY AcquireInv, GiveUpInv, CheckingInv, CollectInv DEF GoroutineStep

-----------------------------------------------------------------------------
(***************************************************************************)
(* runOneshot and the process: the checks stand still.                     *)
(***************************************************************************)
LEMMA ChecksStandStill ==
  ASSUME IInv, UNCHANGED <<checkVars, sem, results>>
  PROVE  /\ CheckIInv' /\ SlotInv'
         /\ \A t \in Targets : ResultInv(t)'
         /\ \A n : FailedUpTo(n)' = FailedUpTo(n)
<1>1. CheckIInv'
  BY StutterInv DEF IInv
<1>2. Inside' = Inside
  BY DEF Inside, checkVars
<1>3. \A t \in Targets : ResultInv(t)'
  BY DEF IInv, ResultInv, checkVars
<1> QED
  BY <1>1, <1>2, <1>3, SlotKept DEF FailedUpTo

LEMMA NextFailed ==
  ASSUME NEW n \in Nat \ {0}
  PROVE  FailedUpTo(n) =
           IF results[List[n]].success THEN FailedUpTo(n - 1)
           ELSE FailedUpTo(n - 1) \cup {List[n]}
<1>1. 1..n = (1..n - 1) \cup {n}
  OBVIOUS
<1> QED
  BY <1>1 DEF FailedUpTo

LEMMA AllCollectedInv ==
  ASSUME IInv, AllCollected
  PROVE  IInv'
<1> USE DEF AllCollected
<1>1. /\ CheckIInv' /\ SlotInv' /\ \A t \in Targets : ResultInv(t)'
      /\ \A n : FailedUpTo(n)' = FailedUpTo(n)
  BY ChecksStandStill
<1>2. RestTypes'
  BY DEF IInv, RestTypes, process
<1>3. Done = 0 /\ Done' = 0
  BY DEF IInv, RunnerInv, Done
<1>4. RunnerInv'
  BY <1>1, <1>3 DEF IInv, RunnerInv, checkVars
<1>5. ExitInv'
  BY DEF IInv, ExitInv, process
<1> QED
  BY <1>1, <1>2, <1>4, <1>5 DEF IInv

LEMMA HandleHealthyInv ==
  ASSUME IInv, HandleHealthy
  PROVE  IInv'
<1> USE DEF HandleHealthy
<1>1. /\ CheckIInv' /\ SlotInv' /\ \A t \in Targets : ResultInv(t)'
      /\ \A n : FailedUpTo(n)' = FailedUpTo(n)
  BY ChecksStandStill
<1>2. RestTypes'
  BY ListFacts DEF IInv, RestTypes, process
<1>3. pos \in Nat \ {0} /\ Done = pos - 1 /\ Done' = pos
  BY ListFacts DEF IInv, RestTypes, Done
<1>4. FailedUpTo(pos) = FailedUpTo(pos - 1)
  BY <1>3, NextFailed DEF Handled
<1>5. RunnerInv'
  BY <1>1, <1>3, <1>4 DEF IInv, RunnerInv, checkVars
<1>6. ExitInv'
  BY DEF IInv, ExitInv, process
<1> QED
  BY <1>1, <1>2, <1>5, <1>6 DEF IInv

LEMMA HandleUnhealthyInv ==
  ASSUME IInv, HandleUnhealthy
  PROVE  IInv'
<1> USE DEF HandleUnhealthy
<1>1. /\ CheckIInv' /\ SlotInv' /\ \A t \in Targets : ResultInv(t)'
      /\ \A n : FailedUpTo(n)' = FailedUpTo(n)
  BY ChecksStandStill
<1>2. Handled \in Targets
  BY ListFacts DEF IInv, RestTypes, Handled
<1>3. RestTypes'
  BY <1>2, OneshotAssumption DEF IInv, RestTypes, process
<1>4. pos \in Nat \ {0} /\ Done = pos - 1 /\ Done' = pos
  BY ListFacts DEF IInv, RestTypes, Done
<1>5. FailedUpTo(pos) = FailedUpTo(pos - 1) \cup {Handled}
  BY <1>4, NextFailed DEF Handled
<1>6. RunnerInv'
  BY <1>1, <1>4, <1>5 DEF IInv, RunnerInv, checkVars, Handled
<1>7. ExitInv'
  BY DEF IInv, ExitInv, process
<1> QED
  BY <1>1, <1>3, <1>6, <1>7 DEF IInv

\* The alert is over, heard or not.
LEMMA SendInv ==
  ASSUME IInv, Deliver \/ SendFails \/ SendExpires
  PROVE  IInv'
<1>1. /\ phase = "alerting" /\ SendReturns
      /\ \/ heard' = heard
         \/ heard' = heard \cup {Handled} /\ ~ctxDone
  <2>1. CASE Deliver
    BY <2>1 DEF Deliver
  <2>2. CASE SendFails
    BY <2>2 DEF SendFails
  <2>3. CASE SendExpires
    BY <2>3 DEF SendExpires
  <2> QED
    BY <2>1, <2>2, <2>3
<1> USE DEF SendReturns
<1>2. /\ CheckIInv' /\ SlotInv' /\ \A t \in Targets : ResultInv(t)'
      /\ \A n : FailedUpTo(n)' = FailedUpTo(n)
  BY <1>1, ChecksStandStill
<1>3. /\ Handled \in Targets /\ pc[Handled] = "stopped"
      /\ ~results[Handled].success /\ pos <= Len(List)
  BY <1>1, ListFacts DEF IInv, RestTypes, RunnerInv, Handled
<1>4. RestTypes'
  BY <1>1, <1>3, ListFacts, OneshotAssumption DEF IInv, RestTypes, process
<1>5. Done = pos /\ Done' = pos
  BY <1>1 DEF IInv, RestTypes, Done
<1>6. \A t \in heard' : results[t].err \notin {"none", "ctx"}
  <2>1. ~ctxDone => results[Handled].err \notin {"none", "ctx"}
    BY <1>3 DEF IInv, ResultInv
  <2> QED
    BY <1>1, <2>1 DEF IInv, RunnerInv
<1>7. RunnerInv'
  BY <1>1, <1>2, <1>5, <1>6 DEF IInv, RunnerInv, checkVars
<1>8. ExitInv'
  BY <1>1 DEF IInv, ExitInv, process
<1> QED
  BY <1>2, <1>4, <1>7, <1>8 DEF IInv

LEMMA RequestShutdownInv ==
  ASSUME IInv, RequestShutdown
  PROVE  IInv'
<1> USE DEF RequestShutdown
<1>1. /\ CheckIInv' /\ SlotInv' /\ \A t \in Targets : ResultInv(t)'
      /\ \A n : FailedUpTo(n)' = FailedUpTo(n)
  BY ChecksStandStill
<1>2. RestTypes'
  BY DEF IInv, RestTypes
<1>3. Done = pos - 1 /\ Done' = pos - 1
  BY DEF Done
<1>4. RunnerInv'
  BY <1>1, <1>3 DEF IInv, RunnerInv, checkVars
<1>5. ExitInv'
  BY DEF IInv, ExitInv, RestTypes
<1> QED
  BY <1>1, <1>2, <1>4, <1>5 DEF IInv

\* A step of the process or of time.
LEMMA ProcessInv ==
  ASSUME IInv, Interrupt \/ StopHook \/ Exit \/ Tick \/ UNCHANGED vars
  PROVE  IInv'
<1>1. CheckIInv'
  <2>1. CASE Interrupt \/ Exit \/ UNCHANGED vars
    <3>1. UNCHANGED checkVars
      BY <2>1 DEF Interrupt, Exit, vars
    <3> QED
      BY <3>1, StutterInv DEF IInv
  <2>2. CASE StopHook
    BY <2>2, CancelInv DEF StopHook, IInv
  <2>3. CASE Tick
    BY <2>3, CountDownInv DEF Tick, IInv
  <2> QED
    BY <2>1, <2>2, <2>3
<1>2. /\ UNCHANGED <<pc, sem, results, phase, pos, hasFailures, raised, heard>>
      /\ ctxDone => ctxDone'
  BY DEF Interrupt, StopHook, Exit, Tick, Cancel, vars, checkVars, runner
<1>3. RestTypes'
  <2>1. budget' \in 0..AlertFanoutTimeout
    <3>1. budget' \in {budget, IF budget > 0 THEN budget - 1 ELSE 0}
      BY DEF Interrupt, StopHook, Exit, Tick, vars, runner
    <3> QED
      BY <3>1, OneshotAssumption DEF IInv, RestTypes
  <2>2. /\ app' \in {"running", "stopping", "exited"} /\ code' \in {0, 1}
        /\ interrupted' \in BOOLEAN
    BY DEF IInv, RestTypes, Interrupt, StopHook, Exit, Tick, vars, process
  <2> QED
    BY <1>2, <2>1, <2>2 DEF IInv, RestTypes
<1>4. SlotInv' /\ \A t \in Targets : ResultInv(t)'
  BY <1>2 DEF IInv, SlotInv, Inside, ResultInv
<1>5. RunnerInv'
  <2>1. Done' = Done /\ FailedUpTo(Done)' = FailedUpTo(Done) /\ Handled' = Handled
    BY <1>2 DEF Done, FailedUpTo, Handled
  <2> QED
    BY <1>2, <2>1 DEF IInv, RunnerInv
<1>6. ExitInv'
  BY <1>2 DEF IInv, ExitInv, Interrupt, StopHook, Exit, Tick, vars, process
<1> QED
  BY <1>1, <1>3, <1>4, <1>5, <1>6 DEF IInv

LEMMA Invariance == Spec => []IInv
<1>1. IInv /\ [Next]_vars => IInv'
  BY GoroutineInv, AllCollectedInv, HandleHealthyInv, HandleUnhealthyInv,
     SendInv, RequestShutdownInv, ProcessInv
     DEF Next, Alive, RunnerStep, Terminated
<1> QED
  BY <1>1, InitInv, PTL DEF Spec

-----------------------------------------------------------------------------
\* Every variable keeps its type, whatever the list of targets.
THEOREM TypeCorrect == Spec => []TypeOK
<1>1. IInv => TypeOK
  BY OneshotAssumption DEF IInv, CheckIInv, RestTypes, SlotInv, TypeOK
<1> QED
  BY <1>1, Invariance, PTL

\* app.concurrency bounds the probes in progress, whatever is cancelled and
\* whoever gives up (CheckAll).
THEOREM ConcurrencyIsBounded == Spec => []ProbesWithinConcurrency
<1>1. IInv => ProbesWithinConcurrency
  <2> SUFFICES ASSUME IInv PROVE ProbesWithinConcurrency
    OBVIOUS
  <2> DEFINE Probing == {t \in Targets : pc[t] = "probing"}
  <2>1. Probing \in SUBSET Inside
    BY DEF Inside
  <2>2. /\ Cardinality(Probing) <= Cardinality(Inside)
        /\ Cardinality(Probing) \in Nat /\ Cardinality(Inside) \in Nat
    BY <2>1, FS_Subset, FS_CardinalityType DEF IInv, SlotInv
  <2> QED
    BY <2>2, OneshotAssumption DEF IInv, SlotInv, ProbesWithinConcurrency
<1> QED
  BY <1>1, Invariance, PTL

\* CheckAll leaves a verdict for every target (CheckAll).
THEOREM VerdictsAreComplete == Spec => []EveryTargetHasAVerdict
<1>1. IInv => EveryTargetHasAVerdict
  BY DEF IInv, RunnerInv, ResultInv, EveryTargetHasAVerdict
<1> QED
  BY <1>1, Invariance, PTL

\* Raising has reached the end of the list of targets.
LEMMA RaisedAtTheEnd ==
  ASSUME IInv, phase = "finished"
  PROVE  raised = {t \in Targets : ~results[t].success}
<1>1. raised = FailedUpTo(Len(List))
  BY ListFacts DEF IInv, RunnerInv, Done
<1> QED
  BY <1>1, ListFacts DEF FailedUpTo

\* At the end, the alerts raised are those of the failing targets, all of
\* them and no other (runOneshot).
THEOREM FailuresAreRaised == Spec => []EveryFailureIsRaised
<1>1. IInv => EveryFailureIsRaised
  BY RaisedAtTheEnd DEF EveryFailureIsRaised
<1> QED
  BY <1>1, Invariance, PTL

\* A shutdown alarms nobody: an alert anybody hears is of a check that ran to
\* its end (sendAlert).
THEOREM AlarmsAreReal == Spec => []HeardFailuresAreReal
<1>1. IInv => HeardFailuresAreReal
  BY DEF IInv, RunnerInv, HeardFailuresAreReal
<1> QED
  BY <1>1, Invariance, PTL

\* Without a signal, the exit code says whether a target failed (main).
THEOREM ExitCodeTellsTheVerdict == Spec => []ExitCodeIsTheVerdict
<1>1. IInv => ExitCodeIsTheVerdict
  <2> SUFFICES ASSUME IInv, app = "exited", ~interrupted
               PROVE  code = 1 <=> \E t \in Targets : ~results[t].success
    BY DEF ExitCodeIsTheVerdict
  <2>1. phase = "finished" /\ (code = 1 <=> raised # {})
    BY DEF IInv, ExitInv, RunnerInv
  <2>2. raised = {t \in Targets : ~results[t].success}
    BY <2>1, RaisedAtTheEnd
  <2> QED
    BY <2>1, <2>2
<1> QED
  BY <1>1, Invariance, PTL

-----------------------------------------------------------------------------
(***************************************************************************)
(* What Checker promises, carried into the results CheckAll collects.      *)
(***************************************************************************)
Earned(t) ==
  /\ results[t].err \in {"network", "mismatch"} => results[t].attempts = MaxAttempts
  /\ results[t].err = "cert" => t \in CertWatched

EarnedInv == \A t \in Targets : Earned(t)

\* What Check returns is earned.
LEMMA ReturnedIsEarned ==
  ASSUME CheckIInv, NEW t \in Targets, pc[t] = "returned"
  PROVE  /\ result[t].err \in {"network", "mismatch"} => result[t].attempts = MaxAttempts
         /\ result[t].err = "cert" => t \in CertWatched
BY DEF CheckIInv, CheckInv, Consistent, CountsProbes, Believed

LEMMA EarnedStep == IInv /\ EarnedInv /\ [Next]_vars => EarnedInv'
<1> SUFFICES ASSUME IInv, EarnedInv, [Next]_vars, NEW t \in Targets
             PROVE  Earned(t)'
  BY DEF EarnedInv
<1>1. CASE UNCHANGED results
  BY <1>1 DEF EarnedInv, Earned
<1>2. ASSUME NEW u \in Targets, Collect(u) PROVE Earned(t)'
  <2>1. results' = [results EXCEPT ![u] = result[u]] /\ results \in [Targets -> CheckResult]
    BY <1>2 DEF Collect, IInv, RestTypes
  <2>2. CASE t = u
    BY <1>2, <2>1, <2>2, ReturnedIsEarned DEF Collect, IInv, Earned
  <2>3. CASE t # u
    BY <2>1, <2>3 DEF EarnedInv, Earned
  <2> QED
    BY <2>2, <2>3
<1>3. ASSUME NEW u \in Targets, GiveUp(u) PROVE Earned(t)'
  <2>1. /\ results' = [results EXCEPT ![u] = [NoResult EXCEPT !.err = "ctx"]]
        /\ results \in [Targets -> CheckResult]
    BY <1>3 DEF GiveUp, IInv, RestTypes
  <2>2. CASE t = u
    <3>1. results'[t].err = "ctx"
      BY <2>1, <2>2 DEF NoResult
    <3> QED
      BY <3>1 DEF Earned
  <2>3. CASE t # u
    BY <2>1, <2>3 DEF EarnedInv, Earned
  <2> QED
    BY <2>2, <2>3
<1>4. UNCHANGED results \/ \E u \in Targets : Collect(u) \/ GiveUp(u)
  BY DEF Next, Alive, Interrupt, StopHook, Exit, Tick, RunnerStep, AllCollected,
         HandleHealthy, HandleUnhealthy, SendExpires, RequestShutdown, SendReturns,
         Deliver, SendFails, GoroutineStep, Acquire, Terminated, vars
<1> QED
  BY <1>1, <1>2, <1>3, <1>4

\* A target counts as down, in the exit code and in the alerts, only after every
\* configured attempt failed, or because its watched certificate expires, or
\* because the shutdown cut its check short (Check, CheckAll, runOneshot).
THEOREM FailuresAreEarned ==
  Spec => [](phase # "checking" => \A t \in Targets :
               ~results[t].success =>
                 \/ results[t].attempts = MaxAttempts
                 \/ results[t].err = "cert" /\ t \in CertWatched
                 \/ results[t].err = "ctx" /\ ctxDone)
<1> DEFINE Claim == phase # "checking" => \A t \in Targets :
      ~results[t].success =>
        \/ results[t].attempts = MaxAttempts
        \/ results[t].err = "cert" /\ t \in CertWatched
        \/ results[t].err = "ctx" /\ ctxDone
<1>1. Init => EarnedInv
  <2> SUFFICES ASSUME Init, NEW t \in Targets PROVE Earned(t)
    BY DEF EarnedInv
  <2>1. results[t].err = "none"
    BY DEF Init, NoResult
  <2> QED
    BY <2>1 DEF Earned
<1>2. IInv /\ EarnedInv => Claim
  <2> SUFFICES ASSUME IInv, EarnedInv, phase # "checking",
                      NEW t \in Targets, ~results[t].success
               PROVE  \/ results[t].attempts = MaxAttempts
                      \/ results[t].err = "cert" /\ t \in CertWatched
                      \/ results[t].err = "ctx" /\ ctxDone
    OBVIOUS
  <2>1. results[t].err # "none" /\ (results[t].err = "ctx" => ctxDone)
    BY DEF IInv, RunnerInv, ResultInv
  <2>2. results[t].err \in Errors
    BY DEF IInv, RestTypes, CheckResult
  <2> QED
    BY <2>1, <2>2 DEF Errors, EarnedInv, Earned
<1> HIDE DEF Claim
<1>3. Spec => []Claim
  BY <1>1, <1>2, EarnedStep, Invariance, PTL DEF Spec
<1> QED
  BY <1>3 DEF Claim

\* No probe is sent once the shutdown has cancelled the context, by a check in
\* progress or by one that gets its slot afterwards (CheckAll, Check).
THEOREM NoProbesAfterShutdown == Spec => NoProbeAfterCancel
<1>1. ASSUME IInv, [Next]_vars, ctxDone, NEW t \in Targets
      PROVE  probes'[t] <= probes[t]
  <2>1. probes \in [Targets -> 0..MaxAttempts]
    BY <1>1 DEF IInv, CheckIInv, CheckTypeOK
  <2>2. ASSUME NEW u \in Targets, CheckStep(u) \/ Answered(u)
        PROVE  UNCHANGED probes
    BY <1>1, <2>2 DEF CheckStep, StopBeforeProbe, SendProbe, ProbeTimesOut,
         ProbeCancelled, BackoffElapsed, BackoffCancelled, Answered, ProbeReturns
  <2>3. ASSUME NEW u \in Targets, Acquire(u) \/ Collect(u)
        PROVE  probes' = [probes EXCEPT ![u] = 0]
    BY <2>3 DEF Acquire, StartCheck, Collect, Forget
  <2>4. \/ UNCHANGED probes
        \/ \E u \in Targets :
             CheckStep(u) \/ Answered(u) \/ Acquire(u) \/ Collect(u)
    BY <1>1 DEF Next, Alive, Interrupt, StopHook, Cancel, Exit, Tick, RunnerStep,
         AllCollected, HandleHealthy, HandleUnhealthy, SendExpires,
         RequestShutdown, SendReturns, Deliver, SendFails, GoroutineStep, GiveUp,
         Terminated, vars, checkVars, locals
  <2> QED
    BY <2>1, <2>2, <2>3, <2>4
<1>2. IInv /\ [Next]_vars =>
        [ctxDone => \A t \in Targets : probes'[t] <= probes[t]]_checkVars
  BY <1>1
<1> QED
  BY <1>2, Invariance, PTL DEF Spec, NoProbeAfterCancel

=============================================================================
