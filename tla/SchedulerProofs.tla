-------------------------- MODULE SchedulerProofs --------------------------
(***************************************************************************)
(* Theorems about Scheduler, for any set of targets and any intervals,     *)
(* timeouts, attempts and reminder multiplier.  What CheckerProofs shows   *)
(* of a step of a check is used as it stands.                              *)
(***************************************************************************)
EXTENDS Scheduler, CheckerProofs

(***************************************************************************)
(* The inductive invariant, target by target.                              *)
(***************************************************************************)
\* Status, alerts raised, alert clock and gauge agree, from before the first
\* check on.
Agree(t) ==
  /\ status[t] = "unhealthy" <=> Down(raised[t])
  /\ status[t] = "unhealthy" <=> lastAlert[t] # ZeroTime
  /\ status[t] = "unhealthy" <=> up[t] = "0"
  /\ pc[t] = "idle" => status[t] # "unhealthy"

\* How old the last alert of an outage is at least, given the failing checks
\* since: every one of them came a whole interval after the one before.
Old(t) ==
  /\ pc[t] = "alerting" => silent[t] = 0
  /\ pc[t] = "waiting" =>
       lastAlert[t] + left[t] >= (silent[t] + 1) * Interval[t]
  /\ pc[t] \in {"top", "probing", "backoff", "returned"} =>
       lastAlert[t] >= (silent[t] + 1) * Interval[t]

Quiet(t) ==
  /\ ReminderMultiplier = 0 => silent[t] = 0
  /\ ReminderMultiplier > 0 => silent[t] < ReminderMultiplier
  /\ status[t] # "unhealthy" => silent[t] = 0
  /\ ReminderMultiplier > 0 /\ status[t] = "unhealthy" => Old(t)

Genuine(t) ==
  pc[t] = "alerting" /\ Down(raised[t]) => ctxDone \/ Believed(t)

\* Nothing of this process was heard before something was raised.
Announced(t) == raised[t] = "none" => heard[t] = "none" \/ inherited[t]

LoopInv(t) == Agree(t) /\ Quiet(t) /\ Genuine(t) /\ Announced(t)

IInv == TypeOK /\ CheckIInv /\ \A t \in Targets : LoopInv(t)

\* The variables of one target are all an action of another leaves alone.
LoopUntouched(t) ==
  /\ Untouched(t)
  /\ left'[t] = left[t]
  /\ status'[t] = status[t]
  /\ lastAlert'[t] = lastAlert[t]
  /\ raised'[t] = raised[t]
  /\ heard'[t] = heard[t]
  /\ inherited'[t] = inherited[t]
  /\ silent'[t] = silent[t]
  /\ up'[t] = up[t]

LEMMA LoopUntouchedInv ==
  ASSUME NEW t \in Targets, LoopInv(t), LoopUntouched(t)
  PROVE  LoopInv(t)'
BY DEF LoopInv, LoopUntouched, Untouched, Agree, Quiet, Old, Genuine,
       Announced, Believed

LEMMA DelayFacts ==
  ASSUME NEW t \in Targets, NEW d \in Delays(t)
  PROVE  d \in Nat /\ d >= Interval[t]
BY SchedulerAssumption DEF Delays

LEMMA WrapBelow ==
  ASSUME NEW n \in Nat
  PROVE  Wrap(n) \in Int /\ Wrap(n) <= n
<1>1. DurationMin = -DurationMax - 1 /\ DurationMax \in Nat
  BY CheckerAssumption DEF DurationMin
<1>2. Wrap(n) = ((n + DurationMax + 1) % (2 * DurationMax + 2)) - DurationMax - 1
  <2>1. n - DurationMin = n + DurationMax + 1
    BY <1>1
  <2>2. DurationMax - DurationMin + 1 = 2 * DurationMax + 2
    BY <1>1
  <2> QED
    BY <1>1, <2>1, <2>2 DEF Wrap
<1> QED
  BY <1>1, <1>2

LEMMA ProductLess ==
  ASSUME NEW a \in Nat, NEW b \in Nat, NEW i \in Nat, a * i < b * i
  PROVE  a < b
<1>1. b <= a => b * i <= a * i
  OBVIOUS
<1> QED
  BY <1>1

-----------------------------------------------------------------------------
(***************************************************************************)
(* Steps inside Check.                                                     *)
(***************************************************************************)
LEMMA InsideCheck ==
  ASSUME IInv, NEW t \in Targets, CheckStep(t) \/ Answered(t)
  PROVE  /\ pc[t] \in {"top", "probing", "backoff"}
         /\ pc'[t] \in {"top", "probing", "backoff", "returned"}
         /\ \A u \in Targets \ {t} : Untouched(u) /\ left'[u] = left[u]
         /\ ctxDone' = ctxDone
<1> USE DEF IInv, TypeOK, CheckTypeOK, Untouched
<1>1. ASSUME NEW obs, ProbeReturns(t, obs)
      PROVE  /\ pc[t] \in {"top", "probing", "backoff"}
             /\ pc'[t] \in {"top", "probing", "backoff", "returned"}
             /\ \A u \in Targets \ {t} : Untouched(u) /\ left'[u] = left[u]
             /\ ctxDone' = ctxDone
  BY <1>1 DEF ProbeReturns, Record
<1>2. CASE StopBeforeProbe(t)
  BY <1>2 DEF StopBeforeProbe
<1>3. CASE SendProbe(t)
  BY <1>3 DEF SendProbe
<1>4. CASE BackoffElapsed(t)
  BY <1>4 DEF BackoffElapsed
<1>5. CASE BackoffCancelled(t)
  BY <1>5 DEF BackoffCancelled
<1> QED
  BY <1>1, <1>2, <1>3, <1>4, <1>5
     DEF CheckStep, Answered, ProbeTimesOut, ProbeCancelled

LEMMA InsideCheckInv ==
  ASSUME IInv, NEW t \in Targets, CheckStep(t) \/ Answered(t),
         UNCHANGED schedVars
  PROVE  IInv'
<1>1. CheckIInv'
  BY CheckStepInv, AnsweredInv DEF IInv
<1>2. TypeOK'
  BY <1>1 DEF IInv, TypeOK, CheckIInv, schedVars
<1>3. LoopInv(t)'
  <2>1. LoopInv(t)
    BY DEF IInv
  <2> QED
    BY <2>1, InsideCheck
       DEF LoopInv, Agree, Quiet, Old, Genuine, Announced, schedVars
<1>4. \A u \in Targets \ {t} : LoopUntouched(u)
  BY InsideCheck DEF LoopUntouched, schedVars
<1> QED
  BY <1>1, <1>2, <1>3, <1>4, LoopUntouchedInv DEF IInv

LEMMA EnterCheckInv ==
  ASSUME IInv, NEW t \in Targets, FirstCheck(t) \/ TimerFires(t)
  PROVE  IInv'
<1>1. StartCheck(t) /\ UNCHANGED schedVars
  BY DEF FirstCheck, TimerFires
<1>2. CheckIInv'
  BY <1>1, StartCheckInv DEF IInv
<1>3. TypeOK'
  BY <1>1, <1>2 DEF IInv, TypeOK, CheckIInv, schedVars
<1>4. pc'[t] = "top" /\ ctxDone' = ctxDone /\ left'[t] = left[t]
  BY <1>1 DEF StartCheck, IInv, TypeOK, CheckTypeOK
<1>5. LoopInv(t)'
  <2>1. LoopInv(t) /\ lastAlert[t] \in Nat \cup {ZeroTime}
    BY DEF IInv, TypeOK
  <2>2. CASE FirstCheck(t)
    BY <1>1, <1>4, <2>1, <2>2
       DEF FirstCheck, LoopInv, Agree, Quiet, Old, Genuine, Announced, schedVars
  <2>3. CASE TimerFires(t)
    BY <1>1, <1>4, <2>1, <2>3
       DEF TimerFires, LoopInv, Agree, Quiet, Old, Genuine, Announced,
           schedVars, ZeroTime
  <2> QED
    BY <2>2, <2>3
<1>6. \A u \in Targets \ {t} : LoopUntouched(u)
  BY <1>1 DEF StartCheck, LoopUntouched, Untouched, schedVars, IInv, TypeOK,
              CheckTypeOK
<1> QED
  BY <1>2, <1>3, <1>5, <1>6, LoopUntouchedInv DEF IInv

-----------------------------------------------------------------------------
(***************************************************************************)
(* Steps of the loop around it.                                            *)
(***************************************************************************)
\* Leaving for a place where the variables of Check do not matter.
LEMMA LeaveInv ==
  ASSUME CheckIInv, NEW t \in Targets, NEW p \in {"alerting", "stopped"},
         pc' = [pc EXCEPT ![t] = p], left' \in [Targets -> Nat],
         UNCHANGED <<ctxDone, locals>>
  PROVE  CheckIInv'
<1> USE DEF CheckIInv, locals
<1>1. CheckTypeOK'
  BY DEF CheckTypeOK, PCs
<1>2. CheckInv(t)'
  BY DEF CheckTypeOK, CheckInv, Counted, Failing, CtxErrorMeansCancelled
<1>3. \A u \in Targets \ {t} : Untouched(u)
  BY DEF CheckTypeOK, Untouched
<1> QED
  BY <1>1, <1>2, <1>3, UntouchedInv

\* What AwaitNextCheck and StartSend do to the variables of Check.
LEMMA AwaitFacts ==
  ASSUME IInv, NEW t \in Targets, AwaitNextCheck(t), UNCHANGED ctxDone
  PROVE  /\ CheckIInv'
         /\ pc'[t] = "waiting"
         /\ left'[t] \in Nat /\ left'[t] >= Interval[t]
         /\ \A u \in Targets \ {t} : Untouched(u) /\ left'[u] = left[u]
<1>1. PICK d \in Delays(t) : left' = [left EXCEPT ![t] = d]
  BY DEF AwaitNextCheck
<1>2. d \in Nat /\ d >= Interval[t]
  BY DelayFacts
<1>3. left' \in [Targets -> Nat] /\ left'[t] = d
  BY <1>1, <1>2 DEF IInv, TypeOK, CheckTypeOK
<1>4. CheckIInv'
  BY <1>3, ForgetInv DEF AwaitNextCheck, IInv
<1>5. \A u \in Targets \ {t} : Untouched(u) /\ left'[u] = left[u]
  BY <1>1 DEF AwaitNextCheck, Forget, Untouched, IInv, TypeOK, CheckTypeOK
<1> QED
  BY <1>2, <1>3, <1>4, <1>5 DEF AwaitNextCheck, IInv, TypeOK, CheckTypeOK

LEMMA StartSendFacts ==
  ASSUME IInv, NEW t \in Targets, NEW kind \in AlertKinds, StartSend(t, kind),
         UNCHANGED ctxDone
  PROVE  /\ CheckIInv'
         /\ pc'[t] = "alerting" /\ result'[t] = result[t] /\ probes'[t] = probes[t]
         /\ raised'[t] = kind /\ silent'[t] = 0
         /\ heard' = heard /\ inherited' = inherited
         /\ raised' \in [Targets -> AlertKinds] /\ silent' \in [Targets -> Nat]
         /\ \A u \in Targets \ {t} :
              /\ Untouched(u)
              /\ left'[u] = left[u] /\ raised'[u] = raised[u]
              /\ silent'[u] = silent[u]
<1> USE SchedulerAssumption DEF IInv, TypeOK, CheckTypeOK, StartSend, locals
<1>1. left' \in [Targets -> Nat]
  OBVIOUS
<1>2. CheckIInv'
  BY <1>1, LeaveInv
<1>3. \A u \in Targets \ {t} : Untouched(u)
  BY DEF Untouched
<1> QED
  BY <1>2, <1>3

LEMMA DeliveryInv ==
  ASSUME IInv, NEW t \in Targets,
         Deliver(t) \/ SendFails(t) \/ SendExpires(t)
  PROVE  IInv'
<1> USE SchedulerAssumption
<1>1. /\ pc[t] = "alerting"
      /\ AwaitNextCheck(t)
      /\ \/ UNCHANGED <<heard, inherited>>
         \/ /\ heard' = [heard EXCEPT ![t] = raised[t]]
            /\ inherited' = [inherited EXCEPT ![t] = FALSE]
      /\ UNCHANGED <<ctxDone, status, lastAlert, raised, silent, up, certExpiry>>
  BY DEF Deliver, SendFails, SendExpires, DropAlert, schedVars
<1>2. CheckIInv'
  BY <1>1, AwaitFacts
<1>3. TypeOK'
  BY <1>1, <1>2 DEF IInv, TypeOK, CheckIInv
<1>4. LoopInv(t)'
  <2>1. LoopInv(t) /\ lastAlert[t] \in Nat \cup {ZeroTime}
    BY DEF IInv, TypeOK
  <2>2. pc'[t] = "waiting" /\ left'[t] \in Nat /\ left'[t] >= Interval[t]
    BY <1>1, AwaitFacts
  <2>3. Quiet(t)'
    BY <1>1, <2>1, <2>2 DEF LoopInv, Agree, Quiet, Old, ZeroTime
  <2>4. Agree(t)' /\ Genuine(t)' /\ Announced(t)'
    BY <1>1, <2>1, <2>2 DEF LoopInv, Agree, Genuine, Announced, IInv, TypeOK
  <2> QED
    BY <2>3, <2>4 DEF LoopInv
<1>5. \A u \in Targets \ {t} : LoopUntouched(u)
  BY <1>1, AwaitFacts DEF LoopUntouched, IInv, TypeOK
<1> QED
  BY <1>2, <1>3, <1>4, <1>5, LoopUntouchedInv DEF IInv

LEMMA StopLoopInv ==
  ASSUME IInv, NEW t \in Targets, StopLoop(t)
  PROVE  IInv'
<1>1. CheckIInv'
  BY LeaveInv DEF StopLoop, IInv, TypeOK, CheckTypeOK
<1>2. TypeOK'
  BY <1>1 DEF StopLoop, IInv, TypeOK, CheckIInv, schedVars
<1>3. LoopInv(t)'
  BY DEF StopLoop, IInv, TypeOK, CheckTypeOK, LoopInv, Agree, Quiet, Old,
         Genuine, Announced, schedVars
<1>4. \A u \in Targets \ {t} : LoopUntouched(u)
  BY DEF StopLoop, LoopUntouched, Untouched, locals, schedVars, IInv, TypeOK,
         CheckTypeOK
<1> QED
  BY <1>1, <1>2, <1>3, <1>4, LoopUntouchedInv DEF IInv

(***************************************************************************)
(* checkAndAlert.                                                          *)
(***************************************************************************)
\* A check that failed was believed or cut short by the cancelled context.
LEMMA FailureKnown ==
  ASSUME IInv, NEW t \in Targets, pc[t] = "returned", ~result[t].success
  PROVE  ctxDone \/ Believed(t)
BY DEF IInv, CheckIInv, CheckInv, CtxErrorMeansCancelled

\* What every case of checkAndAlert does.
LEMMA HandleFacts ==
  ASSUME IInv, NEW t \in Targets, HandleResult(t)
  PROVE  /\ pc[t] = "returned"
         /\ ctxDone' = ctxDone
         /\ status'[t] = IF result[t].success THEN "healthy" ELSE "unhealthy"
         /\ up'[t] = IF result[t].success THEN "1" ELSE "0"
         /\ status' \in [Targets -> HealthStatus]
         /\ up' \in [Targets -> {"absent", "0", "1"}]
         /\ certExpiry' \in [Targets -> Certs]
         /\ \A u \in Targets \ {t} : status'[u] = status[u] /\ up'[u] = up[u]
<1> USE DEF IInv, TypeOK, CheckTypeOK, HandleResult, ObserveCheck
<1>1. result[t].cert \in Certs
  BY DEF CheckResult
<1> QED
  BY <1>1 DEF HealthStatus

\* The three cases that raise an alert of some kind, with age a on the clock.
LEMMA RaiseInv ==
  ASSUME IInv, NEW t \in Targets, HandleResult(t),
         NEW kind \in AlertKinds, StartSend(t, kind),
         NEW a \in {0, ZeroTime}, lastAlert' = [lastAlert EXCEPT ![t] = a],
         result[t].success => kind = "recovery" /\ a = ZeroTime,
         ~result[t].success => kind \in {"failure", "reminder"} /\ a = 0
  PROVE  IInv'
<1>1. CheckIInv'
  BY HandleFacts, StartSendFacts
<1>2. TypeOK'
  BY <1>1, HandleFacts, StartSendFacts DEF IInv, TypeOK, CheckIInv
<1>3. lastAlert'[t] = a
  BY DEF IInv, TypeOK
<1>4. LoopInv(t)'
  <2>1. Agree(t)'
    BY <1>3, HandleFacts, StartSendFacts DEF Agree, Down, ZeroTime
  <2>2. Quiet(t)'
    BY HandleFacts, StartSendFacts, SchedulerAssumption DEF Quiet, Old
  <2>3. Genuine(t)'
    <3>1. CASE result[t].success
      BY <3>1, StartSendFacts, HandleFacts DEF Genuine, Down
    <3>2. CASE ~result[t].success
      BY <3>2, StartSendFacts, HandleFacts, FailureKnown DEF Genuine, Believed
    <3> QED
      BY <3>1, <3>2
  <2>4. Announced(t)'
    BY HandleFacts, StartSendFacts DEF Announced
  <2> QED
    BY <2>1, <2>2, <2>3, <2>4 DEF LoopInv
<1>5. \A u \in Targets \ {t} : LoopUntouched(u)
  BY HandleFacts, StartSendFacts DEF LoopUntouched, IInv, TypeOK
<1> QED
  BY <1>1, <1>2, <1>4, <1>5, LoopUntouchedInv DEF IInv

\* A failing check that is not due a reminder leaves room for one more before
\* the multiplier: the clock has not reached it, and runs an interval a check.
LEMMA RoomForSilence ==
  ASSUME IInv, NEW t \in Targets, pc[t] = "returned", StaySilent(t),
         ReminderMultiplier > 0
  PROVE  /\ silent[t] + 1 < ReminderMultiplier
         /\ lastAlert[t] \in Nat
         /\ lastAlert[t] >= (silent[t] + 1) * Interval[t]
<1> USE SchedulerAssumption
<1>1. /\ silent[t] \in Nat
      /\ Interval[t] \in Nat
      /\ ReminderMultiplier \in Nat
  BY DEF IInv, TypeOK
<1>2. lastAlert[t] \in Nat
  BY DEF StaySilent, ReminderDue, IInv, TypeOK
<1>3. lastAlert[t] >= (silent[t] + 1) * Interval[t]
  BY DEF IInv, LoopInv, Quiet, Old, StaySilent
<1>4. lastAlert[t] < Interval[t] * ReminderMultiplier
  <2>1. Interval[t] * ReminderMultiplier \in Nat
    BY <1>1
  <2>2. /\ ReminderPeriod(t) \in Int
        /\ ReminderPeriod(t) <= Interval[t] * ReminderMultiplier
    BY <2>1, WrapBelow DEF ReminderPeriod
  <2>3. lastAlert[t] < ReminderPeriod(t)
    BY <1>2, <2>2 DEF StaySilent, ReminderDue
  <2> QED
    BY <1>2, <2>1, <2>2, <2>3
<1>5. (silent[t] + 1) * Interval[t] < ReminderMultiplier * Interval[t]
  BY <1>1, <1>2, <1>3, <1>4
<1>6. silent[t] + 1 < ReminderMultiplier
  <2> HIDE SchedulerAssumption
  <2> QED
    BY <1>1, <1>5, ProductLess
<1> QED
  BY <1>2, <1>3, <1>6

LEMMA StaySilentInv ==
  ASSUME IInv, NEW t \in Targets, HandleResult(t), StaySilent(t)
  PROVE  IInv'
<1> USE SchedulerAssumption
<1>1. AwaitNextCheck(t) /\ UNCHANGED <<lastAlert, raised, heard, inherited>>
  BY DEF StaySilent
<1>2. /\ silent[t] \in Nat
      /\ silent' = [silent EXCEPT ![t] =
           IF ReminderMultiplier > 0 THEN silent[t] + 1 ELSE 0]
      /\ silent'[t] = IF ReminderMultiplier > 0 THEN silent[t] + 1 ELSE 0
  BY DEF StaySilent, IInv, TypeOK
<1>3. CheckIInv'
  BY <1>1, AwaitFacts, HandleFacts
<1>4. TypeOK'
  BY <1>1, <1>2, <1>3, HandleFacts DEF IInv, TypeOK, CheckIInv
<1>5. LoopInv(t)'
  <2>1. LoopInv(t)
    BY DEF IInv
  <2>2. pc'[t] = "waiting" /\ left'[t] \in Nat /\ left'[t] >= Interval[t]
    BY <1>1, AwaitFacts, HandleFacts
  <2>3. status[t] = "unhealthy" /\ status'[t] = "unhealthy" /\ up'[t] = "0"
    BY HandleFacts DEF StaySilent
  <2>4. Agree(t)' /\ Genuine(t)' /\ Announced(t)'
    BY <1>1, <2>1, <2>2, <2>3 DEF LoopInv, Agree, Genuine, Announced
  <2>5. Quiet(t)'
    <3>1. CASE ReminderMultiplier = 0
      BY <1>2, <2>3, <3>1 DEF Quiet
    <3>2. CASE ReminderMultiplier > 0
      <4>1. /\ silent[t] + 1 < ReminderMultiplier
            /\ lastAlert[t] \in Nat
            /\ lastAlert[t] >= (silent[t] + 1) * Interval[t]
        BY <3>2, RoomForSilence, HandleFacts
      <4>2. /\ lastAlert'[t] + left'[t] >= (silent[t] + 1) * Interval[t] + Interval[t]
            /\ Interval[t] \in Nat
        BY <1>1, <1>2, <2>2, <4>1
      <4>3. (silent[t] + 1) * Interval[t] + Interval[t] = (silent'[t] + 1) * Interval[t]
        BY <1>2, <3>2, <4>2
      <4> QED
        BY <1>2, <2>2, <2>3, <3>2, <4>1, <4>2, <4>3 DEF Quiet, Old
    <3> QED
      BY <3>1, <3>2
  <2> QED
    BY <2>4, <2>5 DEF LoopInv
<1>6. \A u \in Targets \ {t} : LoopUntouched(u)
  BY <1>1, <1>2, HandleFacts, AwaitFacts DEF LoopUntouched, IInv, TypeOK
<1> QED
  BY <1>3, <1>4, <1>5, <1>6, LoopUntouchedInv DEF IInv

LEMMA StayHealthyInv ==
  ASSUME IInv, NEW t \in Targets, HandleResult(t), StayHealthy(t)
  PROVE  IInv'
<1>1. /\ AwaitNextCheck(t)
      /\ UNCHANGED <<lastAlert, raised, heard, inherited, silent>>
      /\ result[t].success /\ status[t] # "unhealthy"
  BY DEF StayHealthy
<1>2. CheckIInv'
  BY <1>1, AwaitFacts, HandleFacts
<1>3. TypeOK'
  BY <1>1, <1>2, HandleFacts DEF IInv, TypeOK, CheckIInv
<1>4. LoopInv(t)'
  <2>1. LoopInv(t) /\ pc'[t] = "waiting" /\ status'[t] = "healthy" /\ up'[t] = "1"
    BY <1>1, AwaitFacts, HandleFacts DEF IInv
  <2> QED
    BY <1>1, <2>1 DEF LoopInv, Agree, Quiet, Genuine, Announced
<1>5. \A u \in Targets \ {t} : LoopUntouched(u)
  BY <1>1, HandleFacts, AwaitFacts DEF LoopUntouched
<1> QED
  BY <1>2, <1>3, <1>4, <1>5, LoopUntouchedInv DEF IInv

LEMMA HandleResultInv ==
  ASSUME IInv, NEW t \in Targets, HandleResult(t)
  PROVE  IInv'
<1>1. CASE RaiseFailure(t)
  BY <1>1, RaiseInv DEF RaiseFailure, AlertKinds
<1>2. CASE RaiseReminder(t)
  BY <1>2, RaiseInv DEF RaiseReminder, AlertKinds
<1>3. CASE StaySilent(t)
  BY <1>3, StaySilentInv
<1>4. CASE RaiseRecovery(t)
  BY <1>4, RaiseInv DEF RaiseRecovery, AlertKinds
<1>5. CASE StayHealthy(t)
  BY <1>5, StayHealthyInv
<1> QED
  BY <1>1, <1>2, <1>3, <1>4, <1>5 DEF HandleResult

-----------------------------------------------------------------------------
(***************************************************************************)
(* Time and the environment.                                               *)
(***************************************************************************)
\* The clock and the timer of an outage together lose no tick before the
\* reminder is due.
LEMMA TickOld ==
  ASSUME IInv, NEW t \in Targets, Tick, ReminderMultiplier > 0,
         status[t] = "unhealthy"
  PROVE  Old(t)'
<1> USE SchedulerAssumption
<1>1. /\ lastAlert[t] \in Nat /\ left[t] \in Nat /\ silent[t] \in Nat
      /\ Interval[t] \in Nat /\ ReminderMultiplier \in Nat
      /\ silent[t] + 1 <= ReminderMultiplier
      /\ Old(t)
  BY DEF IInv, TypeOK, CheckTypeOK, LoopInv, Agree, Quiet
<1>2. /\ lastAlert'[t] = IF lastAlert[t] >= MaxAge(t) THEN lastAlert[t]
                         ELSE lastAlert[t] + 1
      /\ left'[t] = IF left[t] > 0 THEN left[t] - 1 ELSE 0
      /\ pc' = pc /\ silent' = silent
  BY <1>1 DEF Tick, Aged, CountDown, ZeroTime
<1>3. (silent[t] + 1) * Interval[t] <= MaxAge(t)
  <2>1. (silent[t] + 1) * Interval[t] <= ReminderMultiplier * Interval[t]
    BY <1>1
  <2> QED
    BY <1>1, <2>1 DEF MaxAge
<1>4. (silent[t] + 1) * Interval[t] \in Nat /\ MaxAge(t) \in Nat
  BY <1>1 DEF MaxAge
<1> DEFINE need == (silent[t] + 1) * Interval[t]
<1>5. need \in Nat /\ need <= MaxAge(t)
  BY <1>3, <1>4
<1>6. /\ lastAlert[t] >= need => lastAlert'[t] >= need
      /\ lastAlert[t] + left[t] >= need => lastAlert'[t] + left'[t] >= need
  <2> HIDE DEF need
  <2> QED
    BY <1>1, <1>2, <1>4, <1>5
<1> QED
  BY <1>1, <1>2, <1>6 DEF Old

LEMMA TickInv ==
  ASSUME IInv, Tick
  PROVE  IInv'
<1>1. CheckIInv'
  BY CountDownInv DEF Tick, IInv
<1>2. \A t \in Targets :
        /\ lastAlert'[t] \in Nat \cup {ZeroTime}
        /\ lastAlert'[t] = ZeroTime <=> lastAlert[t] = ZeroTime
  BY DEF Tick, Aged, IInv, TypeOK, ZeroTime
<1>3. TypeOK'
  BY <1>1, <1>2 DEF Tick, IInv, TypeOK, CheckIInv
<1>4. ASSUME NEW t \in Targets PROVE LoopInv(t)'
  <2>1. LoopInv(t)
    BY DEF IInv
  <2>2. Agree(t)'
    BY <1>2, <2>1 DEF Tick, LoopInv, Agree
  <2>3. Quiet(t)'
    BY <2>1, TickOld DEF Tick, LoopInv, Quiet
  <2>4. Genuine(t)' /\ Announced(t)'
    BY <2>1 DEF Tick, LoopInv, Genuine, Announced, Believed, locals
  <2> QED
    BY <2>2, <2>3, <2>4 DEF LoopInv
<1> QED
  BY <1>1, <1>3, <1>4 DEF IInv

LEMMA CancelledInv ==
  ASSUME IInv, Cancel, UNCHANGED schedVars
  PROVE  IInv'
<1>1. CheckIInv'
  BY CancelInv DEF IInv
<1>2. TypeOK'
  BY <1>1 DEF IInv, TypeOK, CheckIInv, schedVars
<1>3. \A t \in Targets : LoopUntouched(t)
  BY DEF Cancel, locals, schedVars, LoopUntouched, Untouched
<1> QED
  BY <1>1, <1>2, <1>3, LoopUntouchedInv DEF IInv

\* A new process is where the first one was: before any check.
LEMMA RestartInv ==
  ASSUME Restart, heard \in [Targets -> AlertKinds]
  PROVE  IInv'
<1> USE DEF Restart, ForgetLoops
<1>1. CheckIInv'
  <2>1. CheckTypeOK'
    BY NoResultType, Zeros DEF CheckTypeOK, PCs
  <2>2. ASSUME NEW t \in Targets PROVE CheckInv(t)'
    BY DEF CheckInv, Counted, Failing, CtxErrorMeansCancelled, NoResult
  <2> QED
    BY <2>1, <2>2 DEF CheckIInv
<1>2. TypeOK'
  BY <1>1 DEF TypeOK, CheckIInv, HealthStatus, AlertKinds, Certs
<1>3. ASSUME NEW t \in Targets PROVE LoopInv(t)'
  BY SchedulerAssumption
     DEF LoopInv, Agree, Quiet, Genuine, Announced, Down
<1> QED
  BY <1>1, <1>2, <1>3 DEF IInv

LEMMA IdleInv ==
  ASSUME IInv, UNCHANGED vars
  PROVE  IInv'
<1>1. CheckIInv'
  BY StutterInv DEF IInv, vars
<1>2. TypeOK'
  BY <1>1 DEF IInv, TypeOK, CheckIInv, vars, schedVars
<1>3. \A t \in Targets : LoopUntouched(t)
  BY DEF vars, checkVars, locals, schedVars, LoopUntouched, Untouched
<1> QED
  BY <1>1, <1>2, <1>3, LoopUntouchedInv DEF IInv

LEMMA InitInv == Init => IInv
<1> SUFFICES ASSUME Init PROVE IInv
  OBVIOUS
<1>1. CheckIInv
  BY CheckInitInv DEF Init
<1>2. TypeOK
  BY <1>1 DEF Init, TypeOK, CheckIInv, HealthStatus, AlertKinds, Certs
<1>3. ASSUME NEW t \in Targets PROVE LoopInv(t)
  BY SchedulerAssumption
     DEF Init, CheckInit, LoopInv, Agree, Quiet, Genuine, Announced, Down
<1> QED
  BY <1>1, <1>2, <1>3 DEF IInv

LEMMA NextInv == IInv /\ [Next]_vars => IInv'
<1> SUFFICES ASSUME IInv, [Next]_vars
             PROVE  IInv'
  OBVIOUS
<1>1. CASE Cancel /\ UNCHANGED schedVars
  BY <1>1, CancelledInv
<1>2. CASE Tick
  BY <1>2, TickInv
<1>3. ASSUME NEW t \in Targets, LoopStep(t) PROVE IInv'
  BY <1>3, EnterCheckInv, InsideCheckInv, HandleResultInv, DeliveryInv, StopLoopInv
     DEF LoopStep
<1>4. ASSUME NEW t \in Targets, Answered(t), UNCHANGED schedVars PROVE IInv'
  BY <1>4, InsideCheckInv
<1>5. ASSUME NEW t \in Targets, Deliver(t) \/ SendFails(t) PROVE IInv'
  BY <1>5, DeliveryInv
<1>6. CASE Restart
  BY <1>6, RestartInv DEF IInv, TypeOK
<1>7. CASE UNCHANGED vars
  BY <1>7, IdleInv
<1> QED
  BY <1>1, <1>2, <1>3, <1>4, <1>5, <1>6, <1>7 DEF Next, Terminated

LEMMA Invariance == Spec => []IInv
BY InitInv, NextInv, PTL DEF Spec

-----------------------------------------------------------------------------
\* The state of every loop keeps its types (scheduler).
THEOREM TypeCorrect == Spec => []TypeOK
<1>1. IInv => TypeOK
  BY DEF IInv
<1> QED
  BY <1>1, Invariance, PTL

\* Status, alert clock, alerts raised and gauge never disagree
\* (checkAndAlert).
THEOREM BookkeepingAgrees == Spec => []OutageBookkeeping
<1>1. IInv => OutageBookkeeping
  BY DEF IInv, LoopInv, Agree, OutageBookkeeping
<1> QED
  BY <1>1, Invariance, PTL

\* For every interval, jitter, multiplier and lateness, an outage is never
\* silent for reminder_multiplier failing checks (reminderDue, nextDelay).
THEOREM OutagesNeverGoQuiet == Spec => []NoOutageGoesQuiet
<1>1. IInv => NoOutageGoesQuiet
  BY DEF IInv, LoopInv, Quiet, NoOutageGoesQuiet
<1> QED
  BY <1>1, Invariance, PTL

\* An alarm that can still be delivered comes from a failure that was
\* believed, never from a check a shutdown cut short (checkAndAlert, Check).
THEOREM AlarmsAreGenuine == Spec => []AlarmIsGenuine
<1>1. IInv => AlarmIsGenuine
  BY DEF IInv, LoopInv, Genuine, AlarmIsGenuine
<1> QED
  BY <1>1, Invariance, PTL

\* A healthy target whose outage this process told people of has had its
\* recovery raised (checkAndAlert).
THEOREM RecoveriesAreRaised == Spec => []RecoveryIsRaised
<1>1. IInv => RecoveryIsRaised
  BY DEF IInv, LoopInv, Agree, Announced, RecoveryIsRaised, TypeOK, AlertKinds,
         Down
<1> QED
  BY <1>1, Invariance, PTL

-----------------------------------------------------------------------------
(***************************************************************************)
(* The loops implement OutageNotifier.                                     *)
(***************************************************************************)
\* Only checkAndAlert and a restart change what OutageNotifier sees.
LEMMA OthersStutter ==
  ASSUME IInv, [Next]_vars, ~\E t \in Targets : HandleResult(t), ~Restart
  PROVE  UNCHANGED <<raised, silent>>
<1>1. ASSUME NEW t \in Targets, LoopStep(t) \/ Deliver(t) \/ SendFails(t)
      PROVE  UNCHANGED <<raised, silent>>
  BY <1>1 DEF LoopStep, FirstCheck, SendExpires, TimerFires, StopLoop, Deliver,
              SendFails, DropAlert, schedVars
<1> QED
  BY <1>1 DEF Next, Tick, Terminated, vars, schedVars

LEMMA HandleResultMaps ==
  ASSUME IInv, NEW t \in Targets, HandleResult(t)
  PROVE  [Notifier!Next]_(Notifier!vars)
<1> USE SchedulerAssumption
<1>1. /\ pc[t] = "returned"
      /\ ReminderMultiplier \in Nat
      /\ silent \in [Targets -> Nat]
      /\ status[t] = "unhealthy" <=> Notifier!Down(t)
      /\ ReminderMultiplier = 0 => silent[t] = 0
  BY DEF HandleResult, IInv, TypeOK, LoopInv, Agree, Quiet, Down, Notifier!Down
<1>2. CASE RaiseFailure(t)
  <2>1. Notifier!Open(t)
    BY <1>1, <1>2
       DEF RaiseFailure, StartSend, Notifier!Open, Notifier!Raise
  <2> QED
    BY <2>1 DEF Notifier!Next
<1>3. CASE RaiseReminder(t)
  <2>1. Notifier!Remind(t)
    BY <1>1, <1>3
       DEF RaiseReminder, ReminderDue, StartSend, Notifier!Remind, Notifier!Raise
  <2> QED
    BY <2>1 DEF Notifier!Next
<1>4. CASE StaySilent(t)
  <2>1. CASE ReminderMultiplier = 0
    <3>1. UNCHANGED <<raised, silent>>
      BY <1>1, <1>4, <2>1 DEF StaySilent
    <3> QED
      BY <3>1 DEF Notifier!vars
  <2>2. CASE ReminderMultiplier > 0
    <3>1. silent[t] + 1 < ReminderMultiplier
      BY <1>1, <1>4, <2>2, RoomForSilence
    <3>2. Notifier!StaySilent(t)
      BY <1>1, <1>4, <2>2, <3>1 DEF StaySilent, Notifier!StaySilent
    <3> QED
      BY <3>2 DEF Notifier!Next
  <2> QED
    BY <1>1, <2>1, <2>2
<1>5. CASE RaiseRecovery(t)
  <2>1. Notifier!Close(t)
    BY <1>1, <1>5
       DEF RaiseRecovery, StartSend, Notifier!Close, Notifier!Raise
  <2> QED
    BY <2>1 DEF Notifier!Next
<1>6. CASE StayHealthy(t)
  BY <1>6 DEF StayHealthy, Notifier!vars
<1> QED
  BY <1>2, <1>3, <1>4, <1>5, <1>6 DEF HandleResult

\* What the loops raise, for every target, interval, jitter and multiplier, is
\* what OutageNotifier allows: an outage opens with one failure alert, closes
\* with one recovery, and is never silent for the multiplier (checkAndAlert).
THEOREM RefinesNotifier == Spec => NotifierSpec
<1>1. Init => Notifier!Init
  BY DEF Init, Notifier!Init
<1>2. IInv /\ [Next]_vars => [Notifier!Next]_(Notifier!vars)
  <2> SUFFICES ASSUME IInv, [Next]_vars
               PROVE  [Notifier!Next]_(Notifier!vars)
    OBVIOUS
  <2>1. CASE \E t \in Targets : HandleResult(t)
    BY <2>1, HandleResultMaps
  <2>2. CASE Restart
    BY <2>2 DEF Restart, ForgetLoops, Notifier!Next, Notifier!Forget
  <2>3. CASE ~Restart /\ ~\E t \in Targets : HandleResult(t)
    BY <2>3, OthersStutter DEF Notifier!vars
  <2> QED
    BY <2>1, <2>2, <2>3
<1> QED
  BY <1>1, <1>2, Invariance, PTL DEF Spec, NotifierSpec, Notifier!Spec

-----------------------------------------------------------------------------
(***************************************************************************)
(* What Checker promises of a check holds of the checks of the loops.      *)
(***************************************************************************)
\* A loop acts on verdicts that match what was observed, on failures that were
\* believed or cut short by the shutdown, and on honest attempt counts (Check,
\* as checkAndAlert calls it).
THEOREM LoopsActOnHonestResults ==
  Spec => [](VerdictMatchesObservation /\ FailureIsBelieved /\ AttemptsCountProbes)
<1>1. IInv => VerdictMatchesObservation /\ FailureIsBelieved /\ AttemptsCountProbes
  BY DEF IInv, CheckIInv, CheckInv, Consistent, CountsProbes,
         VerdictMatchesObservation, FailureIsBelieved, AttemptsCountProbes
<1> QED
  BY <1>1, Invariance, PTL

\* No probe is sent once the shutdown has cancelled the context, by a check in
\* progress, by one whose timer fires late, or across a restart (Start, Check).
THEOREM NoProbesAfterShutdown == Spec => NoProbeAfterCancel
<1>1. ASSUME IInv, [Next]_vars, ctxDone, NEW t \in Targets
      PROVE  probes'[t] <= probes[t]
  <2>1. probes \in [Targets -> 0..MaxAttempts]
    BY <1>1 DEF IInv, CheckIInv, CheckTypeOK
  <2>2. ASSUME NEW u \in Targets, CheckStep(u) \/ Answered(u)
        PROVE  UNCHANGED probes
    BY <1>1, <2>2 DEF CheckStep, StopBeforeProbe, SendProbe, ProbeTimesOut,
         ProbeCancelled, BackoffElapsed, BackoffCancelled, Answered, ProbeReturns
  <2>3. ASSUME NEW u \in Targets, AwaitNextCheck(u) \/ StartCheck(u)
        PROVE  probes' = [probes EXCEPT ![u] = 0]
    BY <2>3 DEF AwaitNextCheck, StartCheck, Forget
  <2>4. Restart => probes' = [u \in Targets |-> 0]
    BY DEF Restart, ForgetLoops
  <2>5. ASSUME NEW u \in Targets, HandleResult(u)
        PROVE  UNCHANGED probes \/ AwaitNextCheck(u)
    BY <2>5 DEF HandleResult, RaiseFailure, RaiseReminder, RaiseRecovery,
                StaySilent, StayHealthy, StartSend, locals
  <2>6. \/ UNCHANGED probes
        \/ Restart
        \/ \E u \in Targets :
             \/ CheckStep(u) \/ Answered(u) \/ HandleResult(u)
             \/ AwaitNextCheck(u) \/ StartCheck(u)
    BY <1>1 DEF Next, Cancel, Tick, Terminated, LoopStep, FirstCheck, TimerFires,
         StopLoop, Deliver, SendFails, SendExpires, DropAlert, vars, checkVars, locals
  <2> QED
    BY <2>1, <2>2, <2>3, <2>4, <2>5, <2>6
<1>2. IInv /\ [Next]_vars =>
        [ctxDone => \A t \in Targets : probes'[t] <= probes[t]]_checkVars
  BY <1>1
<1> QED
  BY <1>2, Invariance, PTL DEF Spec, NoProbeAfterCancel

-----------------------------------------------------------------------------
(***************************************************************************)
(* How long a loop may leave a target alone.  CycleOwed(t) is how many     *)
(* ticks the loop of t may still wait, and CycleSteps(t) how many steps it *)
(* may still take, before it checks t again or stops.                      *)
(***************************************************************************)
LongestDelay(t) == Interval[t] + Interval[t] \div JitterDiv

CycleOwed(t) ==
  CASE pc[t] \in {"top", "probing", "backoff", "returned"} ->
         Owed(t) + AlertFanoutTimeout + LongestDelay(t)
    [] pc[t] = "alerting" -> left[t] + LongestDelay(t)
    [] pc[t] = "waiting" -> left[t]
    [] OTHER -> 0

CycleSteps(t) ==
  CASE pc[t] \in {"top", "probing", "backoff", "returned"} -> Steps(t) + 3
    [] pc[t] = "alerting" -> 2
    [] pc[t] = "waiting" -> 1
    [] OTHER -> 0

LongestCycle(t) == LongestCheck(t) + AlertFanoutTimeout + LongestDelay(t)
MostCycleSteps == MostSteps + 3

\* The steps of the loop of t: those that begin a check, and the others.
Begins(t) == FirstCheck(t) \/ TimerFires(t)
Acts(t) ==
  \/ Moves(t) /\ UNCHANGED schedVars
  \/ HandleResult(t)
  \/ Deliver(t) \/ SendFails(t) \/ SendExpires(t)
  \/ StopLoop(t)
WaitsInLoop(t) == Tick /\ left[t] > 0

LEMMA LongestDelayIsLongest ==
  ASSUME NEW t \in Targets
  PROVE  /\ LongestDelay(t) \in Nat
         /\ \A d \in Delays(t) : d \in Nat /\ d <= LongestDelay(t)
<1>1. /\ Interval[t] \in Nat /\ JitterDiv \in Nat \ {0}
      /\ Interval[t] \div JitterDiv \in Nat
  BY SchedulerAssumption
<1> DEFINE spread == Interval[t] \div JitterDiv
<1>2. ASSUME NEW d \in Delays(t) PROVE d \in Nat /\ d <= Interval[t] + spread
  <2> HIDE DEF spread
  <2>1. spread \in Nat
    BY <1>1 DEF spread
  <2>2. Delays(t) = IF spread <= 0 THEN {Interval[t]}
                    ELSE Interval[t] .. Interval[t] + spread - 1
    BY DEF Delays, spread
  <2> QED
    BY <1>1, <1>2, <2>1, <2>2
<1> QED
  BY <1>1, <1>2 DEF LongestDelay

CycleTypeOK == \A t \in Targets : CycleOwed(t) \in Nat /\ CycleSteps(t) \in Nat

LEMMA CycleType == IInv => CycleTypeOK
<1> SUFFICES ASSUME IInv, NEW t \in Targets
             PROVE  CycleOwed(t) \in Nat /\ CycleSteps(t) \in Nat
  BY DEF CycleTypeOK
<1>1. /\ Owed(t) \in Nat /\ Steps(t) \in Nat /\ LongestDelay(t) \in Nat
      /\ AlertFanoutTimeout \in Nat /\ left[t] \in Nat
  BY OwedType, LongestDelayIsLongest, SchedulerAssumption
     DEF OwedTypeOK, IInv, TypeOK, CheckTypeOK
<1> QED
  BY <1>1 DEF CycleOwed, CycleSteps

\* A step of one loop leaves the others where they are.
LEMMA OthersStand ==
  ASSUME IInv, NEW t \in Targets, Begins(t) \/ Acts(t), NEW u \in Targets \ {t}
  PROVE  Untouched(u) /\ left'[u] = left[u]
<1>1. CASE Begins(t)
  BY <1>1 DEF Begins, FirstCheck, TimerFires, StartCheck, Untouched, IInv, TypeOK,
              CheckTypeOK
<1>2. CASE Moves(t)
  BY <1>2, InsideCheck DEF Moves
<1>3. ASSUME AwaitNextCheck(t), UNCHANGED ctxDone PROVE Untouched(u) /\ left'[u] = left[u]
  BY <1>3, AwaitFacts
<1>4. CASE HandleResult(t)
  <2>1. ASSUME NEW kind \in AlertKinds, StartSend(t, kind)
        PROVE  Untouched(u) /\ left'[u] = left[u]
    BY <1>4, <2>1, StartSendFacts DEF HandleResult
  <2> QED
    BY <1>3, <1>4, <2>1 DEF HandleResult, RaiseFailure, RaiseReminder, RaiseRecovery,
                            StaySilent, StayHealthy, AlertKinds
<1>5. CASE Deliver(t) \/ SendFails(t) \/ SendExpires(t)
  BY <1>3, <1>5 DEF Deliver, SendFails, SendExpires, DropAlert
<1>6. CASE StopLoop(t)
  BY <1>6 DEF StopLoop, Untouched, locals, IInv, TypeOK, CheckTypeOK
<1> QED
  BY <1>1, <1>2, <1>4, <1>5, <1>6 DEF Acts

LEMMA CycleKept ==
  ASSUME NEW t \in Targets, Untouched(t), left'[t] = left[t]
  PROVE  /\ CycleOwed(t)' = CycleOwed(t) /\ CycleSteps(t)' = CycleSteps(t)
         /\ Rest(t) => Rest(t)'
<1>1. Owed(t)' = Owed(t) /\ Steps(t)' = Steps(t) /\ (Rest(t) => Rest(t)')
  BY OwedKept
<1> QED
  BY <1>1 DEF CycleOwed, CycleSteps, Untouched, LongestDelay

\* A step that sets the timer or sends an alert has the time for it.
LEMMA CycleActs ==
  ASSUME IInv, NEW t \in Targets, Rest(t), Acts(t)
  PROVE  /\ Rest(t)'
         /\ CycleOwed(t)' <= CycleOwed(t)
         /\ CycleSteps(t)' < CycleSteps(t)
<1>1. /\ Owed(t) \in Nat /\ Steps(t) \in Nat /\ LongestDelay(t) \in Nat
      /\ AlertFanoutTimeout \in Nat /\ left[t] \in Nat /\ LongestDelay(t)' = LongestDelay(t)
  BY OwedType, LongestDelayIsLongest, SchedulerAssumption
     DEF OwedTypeOK, IInv, TypeOK, CheckTypeOK, LongestDelay
<1>2. CASE Moves(t) /\ UNCHANGED schedVars
  <2>1. Rest(t)' /\ Owed(t)' <= Owed(t) /\ Steps(t)' < Steps(t)
    BY <1>2, OwedMoves DEF IInv
  <2>2. /\ pc[t] \in {"top", "probing", "backoff"}
        /\ pc'[t] \in {"top", "probing", "backoff", "returned"}
    BY <1>2, InsideCheck DEF Moves
  <2>3. Owed(t)' \in Nat /\ Steps(t)' \in Nat
    <3>1. (CheckIInv => OwedTypeOK)'
      BY OwedType, PTL
    <3> QED
      BY <1>2, <3>1, InsideCheckInv DEF OwedTypeOK, IInv, Moves
  <2>4. /\ CycleOwed(t) = Owed(t) + AlertFanoutTimeout + LongestDelay(t)
        /\ CycleSteps(t) = Steps(t) + 3
    BY <2>2 DEF CycleOwed, CycleSteps
  <2>5. /\ CycleOwed(t)' = Owed(t)' + AlertFanoutTimeout + LongestDelay(t)'
        /\ CycleSteps(t)' = Steps(t)' + 3
    BY <2>2 DEF CycleOwed, CycleSteps
  <2> QED
    BY <1>1, <2>1, <2>3, <2>4, <2>5
<1>3. ASSUME AwaitNextCheck(t), pc[t] \in {"returned", "alerting"}
      PROVE  Rest(t)' /\ CycleOwed(t)' <= CycleOwed(t) /\ CycleSteps(t)' < CycleSteps(t)
  <2>1. PICK d \in Delays(t) : left' = [left EXCEPT ![t] = d]
    BY <1>3 DEF AwaitNextCheck
  <2>2. /\ pc'[t] = "waiting" /\ left'[t] = d
        /\ d \in Nat /\ d <= LongestDelay(t)
    BY <1>3, <2>1, LongestDelayIsLongest DEF AwaitNextCheck, IInv, TypeOK, CheckTypeOK
  <2>3. CycleOwed(t)' = d /\ CycleSteps(t)' = 1
    BY <2>2 DEF CycleOwed, CycleSteps
  <2>4. CycleOwed(t) >= LongestDelay(t) /\ CycleSteps(t) >= 2
    BY <1>1, <1>3 DEF CycleOwed, CycleSteps
  <2>5. CycleOwed(t) \in Nat /\ CycleSteps(t) \in Nat
    BY CycleType DEF CycleTypeOK
  <2> QED
    BY <1>1, <2>2, <2>3, <2>4, <2>5 DEF Rest
<1>4. ASSUME NEW kind, StartSend(t, kind), pc[t] = "returned"
      PROVE  Rest(t)' /\ CycleOwed(t)' <= CycleOwed(t) /\ CycleSteps(t)' < CycleSteps(t)
  <2>1. pc'[t] = "alerting" /\ left'[t] = AlertFanoutTimeout
    BY <1>4 DEF StartSend, IInv, TypeOK, CheckTypeOK
  <2>2. CycleOwed(t)' = AlertFanoutTimeout + LongestDelay(t) /\ CycleSteps(t)' = 2
    BY <1>1, <2>1 DEF CycleOwed, CycleSteps
  <2>3. /\ CycleOwed(t) = Owed(t) + AlertFanoutTimeout + LongestDelay(t)
        /\ CycleSteps(t) = Steps(t) + 3
    BY <1>4 DEF CycleOwed, CycleSteps
  <2> QED
    BY <1>1, <2>1, <2>2, <2>3 DEF Rest
<1>5. CASE HandleResult(t)
  BY <1>3, <1>4, <1>5 DEF HandleResult, RaiseFailure, RaiseReminder, RaiseRecovery,
                          StaySilent, StayHealthy
<1>6. CASE Deliver(t) \/ SendFails(t) \/ SendExpires(t)
  BY <1>3, <1>6 DEF Deliver, SendFails, SendExpires, DropAlert
<1>7. CASE StopLoop(t)
  <2>1. pc[t] = "waiting" /\ pc'[t] = "stopped" /\ left'[t] = 0
    BY <1>7 DEF StopLoop, IInv, TypeOK, CheckTypeOK
  <2> QED
    BY <1>1, <2>1 DEF CycleOwed, CycleSteps, Rest
<1> QED
  BY <1>2, <1>5, <1>6, <1>7 DEF Acts

\* What every step of the system does to what the loop of t owes.
LEMMA CycleFalls ==
  ASSUME IInv, NEW t \in Targets, Rest(t), [Next]_vars
  PROVE  /\ Rest(t)'
         /\ Begins(t) => CycleOwed(t)' = LongestCycle(t) /\ CycleSteps(t)' = MostCycleSteps
         /\ Restart => CycleOwed(t)' = 0 /\ CycleSteps(t)' = 0
         /\ ~Begins(t) /\ ~Restart =>
              /\ CycleOwed(t)' <= CycleOwed(t) /\ CycleSteps(t)' <= CycleSteps(t)
              /\ WaitsInLoop(t) => CycleOwed(t)' < CycleOwed(t)
              /\ Acts(t) => CycleSteps(t)' < CycleSteps(t)
<1>1. /\ CycleOwed(t) \in Nat /\ CycleSteps(t) \in Nat
      /\ CycleOwed(t)' \in Nat /\ CycleSteps(t)' \in Nat
  <2>1. (IInv => CycleTypeOK)'
    BY CycleType, PTL
  <2> QED
    BY <2>1, CycleType, NextInv DEF CycleTypeOK
<1>2. Acts(t) => /\ Rest(t)' /\ CycleOwed(t)' <= CycleOwed(t)
                 /\ CycleSteps(t)' < CycleSteps(t)
  BY CycleActs
<1>3. Tick => /\ Rest(t)' /\ CycleSteps(t)' = CycleSteps(t)
              /\ left[t] = 0 => CycleOwed(t)' = CycleOwed(t)
              /\ left[t] > 0 => CycleOwed(t)' = CycleOwed(t) - 1
  <2> SUFFICES ASSUME Tick
               PROVE  /\ Rest(t)' /\ CycleSteps(t)' = CycleSteps(t)
                      /\ left[t] = 0 => CycleOwed(t)' = CycleOwed(t)
                      /\ left[t] > 0 => CycleOwed(t)' = CycleOwed(t) - 1
    OBVIOUS
  <2>1. /\ Untouched(t)
        /\ left[t] = 0 => left'[t] = left[t]
        /\ left[t] > 0 => left'[t] = left[t] - 1
    BY DEF Tick, CountDown, Untouched, locals, IInv, TypeOK, CheckTypeOK
  <2>2. CASE left[t] = 0
    BY <2>1, <2>2, CycleKept
  <2>3. CASE left[t] > 0
    <3>1. /\ pc[t] \in {"probing", "backoff", "alerting", "waiting"}
          /\ pc'[t] = pc[t] /\ attempt'[t] = attempt[t] /\ left'[t] = left[t] - 1
      BY <2>1, <2>3 DEF Untouched, Rest, IInv, TypeOK, CheckTypeOK, PCs
    <3>2. /\ Owed(t) \in Nat /\ LongestDelay(t) \in Nat /\ LongestDelay(t)' = LongestDelay(t)
          /\ AlertFanoutTimeout \in Nat /\ left[t] \in Nat
      BY OwedType, LongestDelayIsLongest, SchedulerAssumption
         DEF OwedTypeOK, IInv, TypeOK, CheckTypeOK, LongestDelay
    <3>3. Rest(t)'
      BY <3>1 DEF Rest
    <3>4. CASE pc[t] \in {"probing", "backoff"}
      <4>1. Owed(t)' = Owed(t) - 1 /\ Steps(t)' = Steps(t)
        BY <3>1, <3>4, OwedTicks DEF IInv
      <4> QED
        BY <2>3, <3>1, <3>2, <3>3, <3>4, <4>1 DEF CycleOwed, CycleSteps
    <3>5. CASE pc[t] \in {"alerting", "waiting"}
      BY <2>3, <3>1, <3>2, <3>3, <3>5 DEF CycleOwed, CycleSteps
    <3> QED
      BY <3>1, <3>4, <3>5
  <2>4. left[t] \in Nat
    BY DEF IInv, TypeOK, CheckTypeOK
  <2> QED
    BY <2>2, <2>3, <2>4
<1>4. Begins(t) => /\ Rest(t)' /\ CycleOwed(t)' = LongestCycle(t)
                   /\ CycleSteps(t)' = MostCycleSteps
  <2> SUFFICES ASSUME Begins(t)
               PROVE  /\ Rest(t)' /\ CycleOwed(t)' = LongestCycle(t)
                      /\ CycleSteps(t)' = MostCycleSteps
    OBVIOUS
  <2>1. pc'[t] = "top" /\ attempt'[t] = 1 /\ left'[t] = 0
    BY DEF Begins, FirstCheck, TimerFires, StartCheck, Rest, IInv, TypeOK, CheckTypeOK
  <2>2. Owed(t)' = LongestCheck(t) /\ Steps(t)' = MostSteps
    BY <2>1, OwedAtStart
  <2> QED
    BY <2>1, <2>2
       DEF CycleOwed, CycleSteps, LongestCycle, MostCycleSteps, LongestDelay, Rest
<1>5. Restart => Rest(t)' /\ CycleOwed(t)' = 0 /\ CycleSteps(t)' = 0
  BY DEF Restart, ForgetLoops, Rest, CycleOwed, CycleSteps
<1>6. ASSUME ~Tick, ~Acts(t), ~Begins(t), ~Restart
      PROVE  /\ Rest(t)' /\ CycleOwed(t)' = CycleOwed(t)
             /\ CycleSteps(t)' = CycleSteps(t)
  <2>1. ASSUME NEW u \in Targets \ {t}, Begins(u) \/ Acts(u)
        PROVE  Untouched(t) /\ left'[t] = left[t]
    BY <2>1, OthersStand
  <2>2. Cancel \/ UNCHANGED vars => Untouched(t) /\ left'[t] = left[t]
    BY DEF Cancel, vars, checkVars, locals, Untouched
  <2>3. \/ Cancel \/ UNCHANGED vars
        \/ \E u \in Targets \ {t} : Begins(u) \/ Acts(u)
    BY <1>6 DEF Next, Terminated, LoopStep, Begins, Acts, Moves
  <2> QED
    BY <2>1, <2>2, <2>3, CycleKept
<1>7. WaitsInLoop(t) => Tick /\ left[t] > 0
  BY DEF WaitsInLoop
<1>8. CASE Begins(t) \/ Restart
  BY <1>4, <1>5, <1>8
<1>9. CASE ~Begins(t) /\ ~Restart
  <2>1. CASE Tick
    <3>1. left[t] \in Nat
      BY DEF IInv, TypeOK, CheckTypeOK
    <3> QED
      BY <1>1, <1>2, <1>3, <1>7, <1>9, <2>1, <3>1
  <2>2. CASE ~Tick /\ Acts(t)
    BY <1>1, <1>2, <1>7, <1>9, <2>2
  <2>3. CASE ~Tick /\ ~Acts(t)
    BY <1>1, <1>6, <1>7, <1>9, <2>3
  <2> QED
    BY <2>1, <2>2, <2>3
<1> QED
  BY <1>8, <1>9

\* Let waited count the ticks and moved the steps of the loop of t since its
\* check in progress, or its last one, began.  The loop waits no longer than
\* for the longest check, the deadline of one alert and the interval with its
\* jitter, and then checks the target again, or has stopped: no target, no
\* alerter and no wait that overflows delays the next check any further (send,
\* "a slow alerter cannot stop this target from being checked again";
\* nextDelay).  The time a goroutine that could run is not run is not counted.
\* With the fairness of Spec this is why every target keeps being checked.
THEOREM CyclesAreBounded ==
  ASSUME NEW t \in Targets, NEW VARIABLE waited, NEW VARIABLE moved
  PROVE  /\ Spec
         /\ waited = 0 /\ moved = 0
         /\ [][/\ waited' = IF Begins(t) \/ Restart THEN 0 ELSE
                            IF WaitsInLoop(t) THEN waited + 1 ELSE waited
               /\ moved' = IF Begins(t) \/ Restart THEN 0 ELSE
                           IF Acts(t) THEN moved + 1 ELSE moved
              ]_<<vars, waited, moved>>
         => [](waited <= LongestCycle(t) /\ moved <= MostCycleSteps)
<1> DEFINE Count ==
      /\ waited' = IF Begins(t) \/ Restart THEN 0 ELSE
                   IF WaitsInLoop(t) THEN waited + 1 ELSE waited
      /\ moved' = IF Begins(t) \/ Restart THEN 0 ELSE
                  IF Acts(t) THEN moved + 1 ELSE moved
    Paid == /\ waited \in Nat /\ waited + CycleOwed(t) <= LongestCycle(t)
            /\ moved \in Nat /\ moved + CycleSteps(t) <= MostCycleSteps
    I == IInv /\ Rest(t) /\ Paid
    Counting == [][Count]_<<vars, waited, moved>>
    Within == waited <= LongestCycle(t) /\ moved <= MostCycleSteps
<1>1. LongestCycle(t) \in Nat /\ MostCycleSteps \in Nat
  BY CheckerAssumption, SchedulerAssumption, Products, LongestDelayIsLongest
     DEF LongestCheck, MostSteps, LongestCycle, MostCycleSteps
<1>2. Init /\ waited = 0 /\ moved = 0 => I
  <2> SUFFICES ASSUME Init, waited = 0, moved = 0 PROVE I
    OBVIOUS
  <2>1. Rest(t) /\ CycleOwed(t) = 0 /\ CycleSteps(t) = 0
    BY DEF Init, CheckInit, Rest, CycleOwed, CycleSteps
  <2> QED
    BY <1>1, <2>1, InitInv
<1>3. I /\ [Next]_vars /\ [Count]_<<vars, waited, moved>> => I'
  <2> SUFFICES ASSUME I, [Next]_vars, [Count]_<<vars, waited, moved>>
               PROVE  I'
    OBVIOUS
  <2>1. IInv'
    BY NextInv
  <2>2. /\ CycleOwed(t) \in Nat /\ CycleSteps(t) \in Nat
        /\ CycleOwed(t)' \in Nat /\ CycleSteps(t)' \in Nat
    <3>1. (IInv => CycleTypeOK)'
      BY CycleType, PTL
    <3> QED
      BY <2>1, <3>1, CycleType DEF CycleTypeOK
  <2>3. LongestCycle(t)' = LongestCycle(t) /\ MostCycleSteps' = MostCycleSteps
    BY DEF LongestCycle, MostCycleSteps, LongestCheck, MostSteps, LongestDelay
  <2>4. CASE UNCHANGED <<vars, waited, moved>>
    <3>1. Untouched(t) /\ left'[t] = left[t]
      BY <2>4 DEF vars, checkVars, locals, Untouched
    <3> QED
      BY <2>1, <2>3, <2>4, <3>1, CycleKept
  <2>5. CASE Count
    <3>1. /\ Rest(t)'
          /\ Begins(t) => CycleOwed(t)' = LongestCycle(t) /\ CycleSteps(t)' = MostCycleSteps
          /\ Restart => CycleOwed(t)' = 0 /\ CycleSteps(t)' = 0
          /\ ~Begins(t) /\ ~Restart =>
               /\ CycleOwed(t)' <= CycleOwed(t) /\ CycleSteps(t)' <= CycleSteps(t)
               /\ WaitsInLoop(t) => CycleOwed(t)' < CycleOwed(t)
               /\ Acts(t) => CycleSteps(t)' < CycleSteps(t)
      BY CycleFalls
    <3>2. Paid'
      BY <1>1, <2>2, <2>3, <2>5, <3>1
    <3> QED
      BY <2>1, <3>1, <3>2
  <2> QED
    BY <2>4, <2>5
<1>4. I => Within
  <2> SUFFICES ASSUME I PROVE Within
    OBVIOUS
  <2>1. CycleOwed(t) \in Nat /\ CycleSteps(t) \in Nat
    BY CycleType DEF CycleTypeOK
  <2> QED
    BY <1>1, <2>1
<1> HIDE DEF Count, I, Within
<1>5. Spec /\ waited = 0 /\ moved = 0 /\ Counting => []Within
  BY <1>2, <1>3, <1>4, PTL DEF Spec
<1> QED
  BY <1>5 DEF Count, Within

-----------------------------------------------------------------------------
(***************************************************************************)
(* How long an outage may go unmentioned.  With reminders on,              *)
(* SilenceOwed(t) is how many ticks the loop of t may still wait before it *)
(* raises another alert for an outage, or stops: the fewer failing checks  *)
(* are left of the multiplier, the fewer.                                  *)
(***************************************************************************)
Round(t) == LongestCheck(t) + LongestDelay(t)
Rounds(t) == (ReminderMultiplier - 1 - silent[t]) * Round(t)

SilenceOwed(t) ==
  CASE status[t] # "unhealthy" -> 0
    [] status[t] = "unhealthy" /\ pc[t] \in {"top", "probing", "backoff", "returned"} ->
         Owed(t) + Rounds(t)
    [] status[t] = "unhealthy" /\ pc[t] = "alerting" ->
         left[t] + ReminderMultiplier * Round(t)
    [] status[t] = "unhealthy" /\ pc[t] = "waiting" ->
         left[t] + LongestCheck(t) + Rounds(t)
    [] OTHER -> 0

LongestSilence(t) == AlertFanoutTimeout + ReminderMultiplier * Round(t)

\* The steps that raise an alert, and the ticks an outage goes on.
Raises(t) == HandleResult(t) /\ pc'[t] = "alerting"
WaitsInOutage(t) == WaitsInLoop(t) /\ status[t] = "unhealthy"

LEMMA RoundFacts ==
  ASSUME IInv, ReminderMultiplier > 0, NEW t \in Targets
  PROVE  /\ Owed(t) \in Nat /\ left[t] \in Nat /\ AlertFanoutTimeout \in Nat
         /\ LongestCheck(t) \in Nat /\ LongestDelay(t) \in Nat
         /\ Round(t) \in Nat /\ Rounds(t) \in Nat
         /\ ReminderMultiplier * Round(t) \in Nat
         /\ silent[t] = 0 => ReminderMultiplier * Round(t) = Rounds(t) + Round(t)
         /\ Round(t) = LongestCheck(t) + LongestDelay(t)
<1>1. /\ Owed(t) \in Nat /\ left[t] \in Nat /\ LongestDelay(t) \in Nat
      /\ AlertFanoutTimeout \in Nat /\ ReminderMultiplier \in Nat
  BY OwedType, LongestDelayIsLongest, SchedulerAssumption
     DEF OwedTypeOK, IInv, TypeOK, CheckTypeOK
<1>2. LongestCheck(t) \in Nat
  BY CheckerAssumption, Products DEF LongestCheck
<1>3. Round(t) \in Nat
  BY <1>1, <1>2 DEF Round
<1>4. ReminderMultiplier - 1 - silent[t] \in Nat
  BY <1>1 DEF IInv, LoopInv, Quiet, TypeOK
<1>5. Rounds(t) \in Nat /\ ReminderMultiplier * Round(t) \in Nat
  BY <1>1, <1>3, <1>4, Products DEF Rounds
<1>6. ReminderMultiplier * Round(t) = (ReminderMultiplier - 1) * Round(t) + Round(t)
  BY <1>1, <1>3
<1>7. silent[t] = 0 => Rounds(t) = (ReminderMultiplier - 1) * Round(t)
  BY <1>1 DEF Rounds
<1> QED
  BY <1>1, <1>2, <1>3, <1>5, <1>6, <1>7 DEF Round

SilenceTypeOK == \A t \in Targets : SilenceOwed(t) \in Nat

LEMMA SilenceType == IInv /\ ReminderMultiplier > 0 => SilenceTypeOK
<1> SUFFICES ASSUME IInv, ReminderMultiplier > 0, NEW t \in Targets
             PROVE  SilenceOwed(t) \in Nat
  BY DEF SilenceTypeOK
<1> QED
  BY RoundFacts DEF SilenceOwed

LEMMA SilenceKept ==
  ASSUME NEW t \in Targets, Untouched(t), left'[t] = left[t],
         status'[t] = status[t], silent'[t] = silent[t]
  PROVE  SilenceOwed(t)' = SilenceOwed(t)
<1>1. Owed(t)' = Owed(t)
  BY OwedKept
<1>2. Rounds(t)' = Rounds(t) /\ Round(t)' = Round(t) /\ LongestCheck(t)' = LongestCheck(t)
  BY DEF Rounds, Round, LongestCheck, LongestDelay
<1> QED
  BY <1>1, <1>2 DEF SilenceOwed, Untouched

\* A step of another loop leaves the outage of t as it is.
LEMMA OthersOutages ==
  ASSUME IInv, NEW t \in Targets, Begins(t) \/ Acts(t), NEW u \in Targets \ {t}
  PROVE  status'[u] = status[u] /\ silent'[u] = silent[u]
<1>1. CASE HandleResult(t)
  BY <1>1 DEF HandleResult, RaiseFailure, RaiseReminder, RaiseRecovery, StaySilent,
              StayHealthy, StartSend, IInv, TypeOK
<1> QED
  BY <1>1 DEF Begins, Acts, FirstCheck, TimerFires, Deliver, SendFails, SendExpires,
              DropAlert, StopLoop, schedVars

\* Every step of the loop but an alert comes out of the silence that is left.
LEMMA SilenceActs ==
  ASSUME IInv, ReminderMultiplier > 0, NEW t \in Targets, Rest(t),
         Begins(t) \/ Acts(t), ~Raises(t)
  PROVE  SilenceOwed(t)' <= SilenceOwed(t)
<1>1. /\ Owed(t) \in Nat /\ left[t] \in Nat /\ AlertFanoutTimeout \in Nat
      /\ LongestCheck(t) \in Nat /\ LongestDelay(t) \in Nat
      /\ Round(t) \in Nat /\ Rounds(t) \in Nat
      /\ ReminderMultiplier * Round(t) \in Nat
      /\ silent[t] = 0 => ReminderMultiplier * Round(t) = Rounds(t) + Round(t)
      /\ Round(t) = LongestCheck(t) + LongestDelay(t)
  BY RoundFacts
<1>2. SilenceOwed(t) \in Nat
  BY SilenceType DEF SilenceTypeOK
<1>3. /\ Round(t)' = Round(t) /\ LongestCheck(t)' = LongestCheck(t)
      /\ silent'[t] = silent[t] => Rounds(t)' = Rounds(t)
  BY DEF Rounds, Round, LongestCheck, LongestDelay
<1>4. status'[t] # "unhealthy" => SilenceOwed(t)' = 0
  BY DEF SilenceOwed
<1>5. CASE Begins(t)
  <2>1. pc[t] \in {"idle", "waiting"} /\ StartCheck(t) /\ UNCHANGED schedVars
    BY <1>5 DEF Begins, FirstCheck, TimerFires
  <2>2. pc'[t] = "top" /\ attempt'[t] = 1
    BY <2>1 DEF StartCheck, IInv, TypeOK, CheckTypeOK
  <2>3. Owed(t)' = LongestCheck(t)
    BY <2>2, OwedAtStart
  <2>4. /\ status[t] = "unhealthy" => pc[t] = "waiting"
        /\ status'[t] = status[t] /\ silent'[t] = silent[t]
    BY <2>1 DEF IInv, LoopInv, Agree, schedVars
  <2> QED
    BY <1>1, <1>2, <1>3, <1>4, <2>2, <2>3, <2>4 DEF SilenceOwed
<1>6. CASE Moves(t) /\ UNCHANGED schedVars
  <2>1. Owed(t)' <= Owed(t)
    BY <1>6, OwedMoves DEF IInv
  <2>2. /\ pc[t] \in {"top", "probing", "backoff"}
        /\ pc'[t] \in {"top", "probing", "backoff", "returned"}
    BY <1>6, InsideCheck DEF Moves
  <2>3. status'[t] = status[t] /\ silent'[t] = silent[t]
    BY <1>6 DEF schedVars
  <2>4. Owed(t)' \in Nat
    <3>1. (CheckIInv => OwedTypeOK)'
      BY OwedType, PTL
    <3> QED
      BY <1>6, <3>1, InsideCheckInv DEF OwedTypeOK, IInv, Moves
  <2> QED
    BY <1>1, <1>2, <1>3, <1>4, <2>1, <2>2, <2>3, <2>4 DEF SilenceOwed
<1>7. AwaitNextCheck(t) =>
        /\ pc'[t] = "waiting"
        /\ left'[t] \in Nat /\ left'[t] <= LongestDelay(t)
  <2> SUFFICES ASSUME AwaitNextCheck(t)
               PROVE  /\ pc'[t] = "waiting"
                      /\ left'[t] \in Nat /\ left'[t] <= LongestDelay(t)
    OBVIOUS
  <2>1. PICK d \in Delays(t) : left' = [left EXCEPT ![t] = d]
    BY DEF AwaitNextCheck
  <2> QED
    BY <2>1, LongestDelayIsLongest DEF AwaitNextCheck, IInv, TypeOK, CheckTypeOK
<1>8. CASE HandleResult(t)
  <2>1. CASE StaySilent(t)
    <3>1. pc[t] = "returned" /\ status[t] = "unhealthy" /\ silent[t] \in Nat
      BY <1>8, <2>1 DEF HandleResult, StaySilent, IInv, TypeOK
    <3>2. silent[t] + 1 < ReminderMultiplier /\ silent'[t] = silent[t] + 1
      BY <2>1, <3>1, RoomForSilence DEF StaySilent, IInv, TypeOK
    <3>3. Rounds(t) = Rounds(t)' + Round(t) /\ Rounds(t)' \in Nat
      <4>1. ReminderMultiplier \in Nat
        BY SchedulerAssumption
      <4>2. PICK n \in Nat : n = ReminderMultiplier - 1 - silent'[t]
        BY <3>1, <3>2, <4>1
      <4>3. Rounds(t)' = n * Round(t)
        BY <1>3, <4>2 DEF Rounds
      <4>4. ReminderMultiplier - 1 - silent[t] = n + 1
        BY <3>1, <3>2, <4>1, <4>2
      <4>5. (n + 1) * Round(t) = n * Round(t) + Round(t) /\ n * Round(t) \in Nat
        BY <1>1, <4>2, Products
      <4> QED
        BY <4>3, <4>4, <4>5 DEF Rounds
    <3>4. SilenceOwed(t) = Owed(t) + Rounds(t)
      BY <3>1 DEF SilenceOwed
    <3>5. /\ pc'[t] = "waiting"
          /\ left'[t] \in Nat /\ left'[t] <= LongestDelay(t)
      BY <1>7, <2>1 DEF StaySilent
    <3>6. SilenceOwed(t)' \in {0, left'[t] + LongestCheck(t) + Rounds(t)'}
      BY <1>3, <3>5 DEF SilenceOwed
    <3> QED
      BY <1>1, <1>2, <3>3, <3>4, <3>5, <3>6
  <2>2. CASE StayHealthy(t)
    <3>1. status'[t] = "healthy"
      BY <1>8, <2>2, HandleFacts DEF StayHealthy
    <3> QED
      BY <1>2, <1>4, <3>1
  <2>3. ASSUME NEW kind, StartSend(t, kind) PROVE FALSE
    BY <1>8, <2>3 DEF StartSend, Raises, IInv, TypeOK, CheckTypeOK
  <2> QED
    BY <1>8, <2>1, <2>2, <2>3
       DEF HandleResult, RaiseFailure, RaiseReminder, RaiseRecovery
<1>9. CASE Deliver(t) \/ SendFails(t) \/ SendExpires(t)
  <2>1. /\ pc[t] = "alerting" /\ AwaitNextCheck(t)
        /\ status'[t] = status[t] /\ silent'[t] = silent[t]
    BY <1>9 DEF Deliver, SendFails, SendExpires, DropAlert, schedVars
  <2>2. status[t] = "unhealthy" => silent[t] = 0
    BY <2>1 DEF IInv, LoopInv, Quiet, Old
  <2> QED
    BY <1>1, <1>2, <1>3, <1>4, <1>7, <2>1, <2>2 DEF SilenceOwed
<1>10. CASE StopLoop(t)
  <2>1. pc'[t] = "stopped"
    BY <1>10 DEF StopLoop, IInv, TypeOK, CheckTypeOK
  <2> QED
    BY <1>2, <2>1 DEF SilenceOwed
<1> QED
  BY <1>5, <1>6, <1>8, <1>9, <1>10 DEF Acts

\* What every step of the system does to the silence an outage of t has left.
LEMMA SilenceFalls ==
  ASSUME IInv, ReminderMultiplier > 0, NEW t \in Targets, Rest(t), [Next]_vars
  PROVE  /\ Raises(t) => SilenceOwed(t)' <= LongestSilence(t)
         /\ Restart => SilenceOwed(t)' = 0
         /\ ~Raises(t) /\ ~Restart =>
              /\ SilenceOwed(t)' <= SilenceOwed(t)
              /\ WaitsInOutage(t) => SilenceOwed(t)' < SilenceOwed(t)
<1>1. /\ Owed(t) \in Nat /\ left[t] \in Nat /\ AlertFanoutTimeout \in Nat
      /\ LongestCheck(t) \in Nat /\ LongestDelay(t) \in Nat
      /\ Round(t) \in Nat /\ Rounds(t) \in Nat
      /\ ReminderMultiplier * Round(t) \in Nat
  BY RoundFacts
<1>2. SilenceOwed(t) \in Nat
  BY SilenceType DEF SilenceTypeOK
<1>3. ASSUME Raises(t) PROVE SilenceOwed(t)' <= LongestSilence(t)
  <2>1. pc'[t] = "alerting" /\ left'[t] = AlertFanoutTimeout
    BY <1>3 DEF Raises, HandleResult, RaiseFailure, RaiseReminder, RaiseRecovery,
         StaySilent, StayHealthy, StartSend, AwaitNextCheck, IInv, TypeOK, CheckTypeOK
  <2>2. Round(t)' = Round(t)
    BY DEF Round, LongestCheck, LongestDelay
  <2>3. SilenceOwed(t)' \in {0, LongestSilence(t)}
    BY <2>1, <2>2 DEF SilenceOwed, LongestSilence
  <2> QED
    BY <1>1, <2>3 DEF LongestSilence
<1>4. ASSUME Restart PROVE SilenceOwed(t)' = 0
  BY <1>4 DEF Restart, SilenceOwed
<1>5. ASSUME Tick
      PROVE  /\ SilenceOwed(t)' <= SilenceOwed(t)
             /\ WaitsInOutage(t) => SilenceOwed(t)' < SilenceOwed(t)
  <2>1. /\ Untouched(t) /\ status'[t] = status[t] /\ silent'[t] = silent[t]
        /\ left[t] = 0 => left'[t] = left[t]
        /\ left[t] > 0 => left'[t] = left[t] - 1
    BY <1>5 DEF Tick, CountDown, Untouched, locals, IInv, TypeOK, CheckTypeOK
  <2>2. CASE left[t] = 0
    BY <1>2, <2>1, <2>2, SilenceKept DEF WaitsInOutage, WaitsInLoop
  <2>3. CASE left[t] > 0 /\ status[t] = "unhealthy"
    <3>1. /\ pc[t] \in {"probing", "backoff", "alerting", "waiting"}
          /\ pc'[t] = pc[t] /\ attempt'[t] = attempt[t] /\ left'[t] = left[t] - 1
      BY <2>1, <2>3 DEF Untouched, Rest, IInv, TypeOK, CheckTypeOK, PCs
    <3>2. Rounds(t)' = Rounds(t) /\ Round(t)' = Round(t) /\ LongestCheck(t)' = LongestCheck(t)
      BY <2>1 DEF Rounds, Round, LongestCheck, LongestDelay
    <3>3. pc[t] \in {"probing", "backoff"} => Owed(t)' = Owed(t) - 1
      BY <2>3, <3>1, OwedTicks DEF IInv
    <3> QED
      BY <1>1, <2>1, <2>3, <3>1, <3>2, <3>3 DEF SilenceOwed
  <2>4. CASE status[t] # "unhealthy"
    BY <1>2, <2>1, <2>4 DEF SilenceOwed, WaitsInOutage
  <2> QED
    BY <1>1, <2>2, <2>3, <2>4
<1>6. ASSUME ~Tick, ~Acts(t), ~Begins(t), ~Restart
      PROVE  SilenceOwed(t)' = SilenceOwed(t)
  <2>1. ASSUME NEW u \in Targets \ {t}, Begins(u) \/ Acts(u)
        PROVE  /\ Untouched(t) /\ left'[t] = left[t]
               /\ status'[t] = status[t] /\ silent'[t] = silent[t]
    BY <2>1, OthersStand, OthersOutages
  <2>2. ASSUME (Cancel /\ UNCHANGED schedVars) \/ UNCHANGED vars
        PROVE  /\ Untouched(t) /\ left'[t] = left[t]
               /\ status'[t] = status[t] /\ silent'[t] = silent[t]
    BY <2>2 DEF Cancel, vars, checkVars, schedVars, locals, Untouched
  <2>3. \/ Cancel /\ UNCHANGED schedVars
        \/ UNCHANGED vars
        \/ \E u \in Targets \ {t} : Begins(u) \/ Acts(u)
    BY <1>6 DEF Next, Terminated, LoopStep, Begins, Acts, Moves
  <2> QED
    BY <2>1, <2>2, <2>3, SilenceKept
<1>7. CASE Tick /\ ~Raises(t) /\ ~Restart
  BY <1>5, <1>7
<1>8. CASE ~Tick /\ ~Raises(t) /\ ~Restart
  <2>1. SilenceOwed(t)' <= SilenceOwed(t)
    BY <1>2, <1>6, <1>8, SilenceActs
  <2> QED
    BY <1>8, <2>1 DEF WaitsInOutage, WaitsInLoop
<1> QED
  BY <1>3, <1>4, <1>7, <1>8

\* Let quiet count the ticks of an outage of t since an alert was last raised
\* for it.  With reminders on, the loop waits no longer than for the deadline of
\* that alert and reminder_multiplier rounds of a longest check and an interval
\* with its jitter before it raises another, or has stopped (reminderDue,
\* nextDelay; README, "Once every app.reminder_multiplier x the target's
\* interval").  The time a goroutine that could run is not run is not counted.
THEOREM RemindersAreTimely ==
  ASSUME ReminderMultiplier > 0, NEW t \in Targets, NEW VARIABLE quiet
  PROVE  /\ Spec
         /\ quiet = 0
         /\ [][quiet' = IF Raises(t) \/ Restart THEN 0 ELSE
                        IF WaitsInOutage(t) THEN quiet + 1 ELSE quiet
              ]_<<vars, quiet>>
         => [](quiet <= LongestSilence(t))
<1> DEFINE Count == quiet' = IF Raises(t) \/ Restart THEN 0 ELSE
                             IF WaitsInOutage(t) THEN quiet + 1 ELSE quiet
    Paid == quiet \in Nat /\ quiet + SilenceOwed(t) <= LongestSilence(t)
    I == IInv /\ Rest(t) /\ Paid
    Counting == [][Count]_<<vars, quiet>>
    Within == quiet <= LongestSilence(t)
<1>1. Init /\ quiet = 0 => I
  <2> SUFFICES ASSUME Init, quiet = 0 PROVE I
    OBVIOUS
  <2>1. Rest(t) /\ SilenceOwed(t) = 0 /\ IInv
    BY InitInv DEF Init, CheckInit, Rest, SilenceOwed
  <2>2. LongestSilence(t) \in Nat
    BY <2>1, RoundFacts DEF LongestSilence
  <2> QED
    BY <2>1, <2>2
<1>2. I /\ [Next]_vars /\ [Count]_<<vars, quiet>> => I'
  <2> SUFFICES ASSUME I, [Next]_vars, [Count]_<<vars, quiet>>
               PROVE  I'
    OBVIOUS
  <2>1. IInv' /\ Rest(t)'
    BY NextInv, CycleFalls
  <2>2. SilenceOwed(t) \in Nat /\ SilenceOwed(t)' \in Nat
    <3>1. (IInv /\ ReminderMultiplier > 0 => SilenceTypeOK)'
      BY SilenceType, PTL
    <3> QED
      BY <2>1, <3>1, SilenceType DEF SilenceTypeOK
  <2>3. LongestSilence(t) \in Nat /\ LongestSilence(t)' = LongestSilence(t)
    BY RoundFacts DEF LongestSilence, Round, LongestCheck, LongestDelay
  <2>4. CASE UNCHANGED <<vars, quiet>>
    <3>1. /\ Untouched(t) /\ left'[t] = left[t]
          /\ status'[t] = status[t] /\ silent'[t] = silent[t]
      BY <2>4 DEF vars, checkVars, schedVars, locals, Untouched
    <3> QED
      BY <2>1, <2>3, <2>4, <3>1, SilenceKept
  <2>5. CASE Count
    <3>1. /\ Raises(t) => SilenceOwed(t)' <= LongestSilence(t)
          /\ Restart => SilenceOwed(t)' = 0
          /\ ~Raises(t) /\ ~Restart =>
               /\ SilenceOwed(t)' <= SilenceOwed(t)
               /\ WaitsInOutage(t) => SilenceOwed(t)' < SilenceOwed(t)
      BY SilenceFalls
    <3>2. Paid'
      BY <2>2, <2>3, <2>5, <3>1
    <3> QED
      BY <2>1, <3>2
  <2> QED
    BY <2>4, <2>5
<1>3. I => Within
  BY SilenceType, RoundFacts DEF SilenceTypeOK, LongestSilence
<1> HIDE DEF Count, I, Within
<1>4. Spec /\ quiet = 0 /\ Counting => []Within
  BY <1>1, <1>2, <1>3, PTL DEF Spec
<1> QED
  BY <1>4 DEF Count, Within

=============================================================================
