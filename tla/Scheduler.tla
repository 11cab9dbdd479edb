----------------------------- MODULE Scheduler -----------------------------
(***************************************************************************)
(* The continuous mode: scheduler.Start (internal/scheduler/scheduler.go), *)
(* one goroutine per target that checks it, raises an alert when its       *)
(* health changes or a reminder is due, hands the alert to the alerters    *)
(* under a deadline, and sleeps for a jittered interval.                   *)
(*                                                                         *)
(* The check itself is Checker's, step by step.  What the alerters do with *)
(* an alert is left open here (delivered, refused, or no answer at all).   *)
(*                                                                         *)
(* Nothing is persisted: the process may die at any moment and start again *)
(* with no memory of an outage that people have already heard of.          *)
(***************************************************************************)
EXTENDS Checker, FiniteSets

CONSTANTS
  Concurrency,          \* app.concurrency
  Interval,             \* Interval[t]: ticks between two checks of t
  JitterDiv,            \* 1 / tickJitterFraction: 10 in the code
  ReminderMultiplier,   \* app.reminder_multiplier
  AlertFanoutTimeout    \* the deadline of one send

ASSUME SchedulerAssumption ==
  /\ Concurrency \in Nat \ {0}
  /\ Interval \in [Targets -> Nat \ {0}]
  /\ JitterDiv \in Nat \ {0}
  /\ ReminderMultiplier \in Nat
  /\ AlertFanoutTimeout \in Nat \ {0}

VARIABLES
  status,         \* targetState.status
  lastAlert,      \* ticks since targetState.lastAlertTime, or ZeroTime
  raised,         \* the kind of the last alert raised; the one in flight
                  \*   while pc = "alerting"
  heard,          \* the kind of the last alert every alerter took (history)
  inherited,      \* whether an earlier life of the process sent it (history)
  silent,         \* failing checks since the last alert (history)
  up,             \* the gauge joghd_target_up
  certExpiry      \* the gauge joghd_target_cert_expiry_timestamp_seconds

schedVars == <<status, lastAlert, raised, heard, inherited, silent, up, certExpiry>>
vars == <<checkVars, schedVars>>

HealthStatus == {"unknown", "healthy", "unhealthy"}
AlertKinds == {"none", "failure", "reminder", "recovery"}

\* The zero time.Time, as an age.
ZeroTime == -1

(***************************************************************************)
(* The reminder period, an int64 product.  Ages are counted up to the true *)
(* product: reminderDue, their only reader, does not tell a greater one    *)
(* from it.                                                                *)
(***************************************************************************)
Wrap(n) == ((n - DurationMin) % (DurationMax - DurationMin + 1)) + DurationMin
ReminderPeriod(t) == Wrap(Interval[t] * ReminderMultiplier)
MaxAge(t) == Interval[t] * ReminderMultiplier

Init ==
  /\ CheckInit
  /\ status = [t \in Targets |-> "unknown"]
  /\ lastAlert = [t \in Targets |-> ZeroTime]
  /\ raised = [t \in Targets |-> "none"]
  /\ heard = [t \in Targets |-> "none"]
  /\ inherited = [t \in Targets |-> FALSE]
  /\ silent = [t \in Targets |-> 0]
  /\ up = [t \in Targets |-> "absent"]
  /\ certExpiry = [t \in Targets |-> "none"]

-----------------------------------------------------------------------------
(***************************************************************************)
(* The loop of one target.                                                 *)
(***************************************************************************)
\* runTargetLoop, the initial check.
FirstCheck(t) ==
  /\ pc[t] = "idle"
  /\ StartCheck(t)
  /\ UNCHANGED schedVars

(***************************************************************************)
(* nextDelay: the interval and a share of it below the jitter fraction.    *)
(***************************************************************************)
Delays(t) ==
  LET spread == Interval[t] \div JitterDiv
  IN  IF spread <= 0 THEN {Interval[t]}
      ELSE Interval[t] .. Interval[t] + spread - 1

\* checkAndAlert has returned; the timer is set for the next check.
AwaitNextCheck(t) ==
  /\ pc' = [pc EXCEPT ![t] = "waiting"]
  /\ \E d \in Delays(t) : left' = [left EXCEPT ![t] = d]
  /\ Forget(t)

(***************************************************************************)
(* ObserveCheck: what a scrape shows of t from now on.  A check that saw   *)
(* no certificate leaves the expiry gauge alone.                           *)
(***************************************************************************)
ObserveCheck(t) ==
  /\ up' = [up EXCEPT ![t] = IF result[t].success THEN "1" ELSE "0"]
  /\ certExpiry' = [certExpiry EXCEPT
       ![t] = IF result[t].cert = "none" THEN @ ELSE result[t].cert]

\* send: the alert goes out under a deadline of its own.
StartSend(t, kind) ==
  /\ raised' = [raised EXCEPT ![t] = kind]
  /\ silent' = [silent EXCEPT ![t] = 0]
  /\ pc' = [pc EXCEPT ![t] = "alerting"]
  /\ left' = [left EXCEPT ![t] = AlertFanoutTimeout]
  /\ UNCHANGED <<locals, heard, inherited>>

(***************************************************************************)
(* reminderDue.  The time since the zero time is the longest duration.     *)
(***************************************************************************)
ReminderDue(t) ==
  /\ ReminderMultiplier > 0
  /\ lastAlert[t] = ZeroTime \/ lastAlert[t] >= ReminderPeriod(t)

\* Mutant: every failing check raises a failure alert.
RaiseFailure_Always(t) ==
  /\ ~result[t].success
  /\ lastAlert' = [lastAlert EXCEPT ![t] = 0]
  /\ StartSend(t, "failure")

\* First failure, or first check of an already-broken target.
RaiseFailure(t) ==
  /\ ~result[t].success
  /\ status[t] # "unhealthy"
  /\ lastAlert' = [lastAlert EXCEPT ![t] = 0]
  /\ StartSend(t, "failure")

\* Mutant: a reminder that is due restarts the clock but is never sent.
RaiseReminder_Unsent(t) ==
  /\ ~result[t].success
  /\ status[t] = "unhealthy"
  /\ ReminderDue(t)
  /\ lastAlert' = [lastAlert EXCEPT ![t] = 0]
  /\ silent' = [silent EXCEPT ![t] = 0]
  /\ AwaitNextCheck(t)
  /\ UNCHANGED <<raised, heard, inherited>>

\* The outage goes on and a reminder is due.
RaiseReminder(t) ==
  /\ ~result[t].success
  /\ status[t] = "unhealthy"
  /\ ReminderDue(t)
  /\ lastAlert' = [lastAlert EXCEPT ![t] = 0]
  /\ StartSend(t, "reminder")

\* Mutant: a failing check without an alert restarts the reminder clock.
StaySilent_RestartsClock(t) ==
  /\ ~result[t].success
  /\ status[t] = "unhealthy"
  /\ ~ReminderDue(t)
  /\ lastAlert' = [lastAlert EXCEPT ![t] = 0]
  /\ silent' = [silent EXCEPT ![t] = IF ReminderMultiplier > 0 THEN @ + 1 ELSE 0]
  /\ AwaitNextCheck(t)
  /\ UNCHANGED <<raised, heard, inherited>>

\* Still unhealthy, and no reminder is due.  The count is kept only when
\* reminders are on, so that it stays bounded.
StaySilent(t) ==
  /\ ~result[t].success
  /\ status[t] = "unhealthy"
  /\ ~ReminderDue(t)
  /\ silent' = [silent EXCEPT ![t] = IF ReminderMultiplier > 0 THEN @ + 1 ELSE 0]
  /\ AwaitNextCheck(t)
  /\ UNCHANGED <<lastAlert, raised, heard, inherited>>

\* Mutant: a recovery is noticed but not announced.
RaiseRecovery_Unannounced(t) ==
  /\ result[t].success
  /\ status[t] = "unhealthy"
  /\ lastAlert' = [lastAlert EXCEPT ![t] = ZeroTime]
  /\ AwaitNextCheck(t)
  /\ UNCHANGED <<raised, heard, inherited, silent>>

\* The target passes again after an outage.
RaiseRecovery(t) ==
  /\ result[t].success
  /\ status[t] = "unhealthy"
  /\ lastAlert' = [lastAlert EXCEPT ![t] = ZeroTime]
  /\ StartSend(t, "recovery")

\* Healthy as before; a target that starts healthy has no recovery to report.
StayHealthy(t) ==
  /\ result[t].success
  /\ status[t] # "unhealthy"
  /\ AwaitNextCheck(t)
  /\ UNCHANGED <<lastAlert, raised, heard, inherited, silent>>

(***************************************************************************)
(* checkAndAlert from the return of Check up to the call of send.  It runs *)
(* on the target's own goroutine and touches only that target's state.     *)
(***************************************************************************)
HandleResult(t) ==
  /\ pc[t] = "returned"
  /\ ObserveCheck(t)
  /\ status' = [status EXCEPT
       ![t] = IF result[t].success THEN "healthy" ELSE "unhealthy"]
  /\ RaiseFailure(t) \/ RaiseReminder(t) \/ StaySilent(t)
       \/ RaiseRecovery(t) \/ StayHealthy(t)
  /\ UNCHANGED ctxDone

\* Every alerter takes the alert before the deadline.  A cancelled context
\* lets nothing out; an alert that was taken before the cancellation is the
\* same step taken earlier.
Deliver(t) ==
  /\ pc[t] = "alerting"
  /\ left[t] > 0
  /\ ~ctxDone
  /\ heard' = [heard EXCEPT ![t] = raised[t]]
  /\ inherited' = [inherited EXCEPT ![t] = FALSE]
  /\ AwaitNextCheck(t)
  /\ UNCHANGED <<ctxDone, status, lastAlert, raised, silent, up, certExpiry>>

\* send logs the error and drops the alert.
DropAlert(t) ==
  /\ pc[t] = "alerting"
  /\ AwaitNextCheck(t)
  /\ UNCHANGED <<ctxDone, schedVars>>

\* An alerter refuses the alert.
SendFails(t) == left[t] > 0 /\ DropAlert(t)

\* Mutant: the send has no deadline of its own.
SendExpires_OnCancelOnly(t) == ctxDone /\ DropAlert(t)

\* The deadline or the cancellation ends a send no alerter answered.
SendExpires(t) == (left[t] = 0 \/ ctxDone) /\ DropAlert(t)

\* The select picks the timer.  It may do so after a cancellation, when both
\* are ready.
TimerFires(t) ==
  /\ pc[t] = "waiting"
  /\ left[t] = 0
  /\ StartCheck(t)
  /\ UNCHANGED schedVars

\* Mutant: the select has no case for the cancelled context.
StopLoop_NoCase(t) == pc[t] = "stopped" /\ UNCHANGED vars

\* The select picks the cancelled context.
StopLoop(t) ==
  /\ pc[t] = "waiting"
  /\ ctxDone
  /\ pc' = [pc EXCEPT ![t] = "stopped"]
  /\ left' = [left EXCEPT ![t] = 0]
  /\ UNCHANGED <<ctxDone, locals, schedVars>>

\* Start returns once every loop has: wg.Wait.
Stopped == \A t \in Targets : pc[t] = "stopped"

\* The steps a loop takes by itself, whatever the target and the alerters do.
LoopStep(t) ==
  \/ FirstCheck(t)
  \/ CheckStep(t) /\ UNCHANGED schedVars
  \/ HandleResult(t)
  \/ SendExpires(t)
  \/ TimerFires(t)
  \/ StopLoop(t)

-----------------------------------------------------------------------------
\* Time passes for the deadlines and for the ages of the last alerts.
Aged(t, a) == IF a = ZeroTime \/ a >= MaxAge(t) THEN a ELSE a + 1

Tick ==
  /\ \/ \E t \in Targets : left[t] > 0
     \/ \E t \in Targets : Aged(t, lastAlert[t]) # lastAlert[t]
  /\ CountDown
  /\ lastAlert' = [t \in Targets |-> Aged(t, lastAlert[t])]
  /\ UNCHANGED <<ctxDone, pc, locals, status, raised, heard, inherited, silent,
                 up, certExpiry>>

\* scheduler.New and Start in a new process: nothing is running yet, and the
\* alerts raised so far and their age are forgotten.
ForgetLoops ==
  /\ ctxDone' = FALSE
  /\ pc' = [t \in Targets |-> "idle"]
  /\ left' = [t \in Targets |-> 0]
  /\ attempt' = [t \in Targets |-> 0]
  /\ wait' = [t \in Targets |-> 0]
  /\ result' = [t \in Targets |-> NoResult]
  /\ probes' = [t \in Targets |-> 0]
  /\ lastAlert' = [t \in Targets |-> ZeroTime]
  /\ raised' = [t \in Targets |-> "none"]
  /\ silent' = [t \in Targets |-> 0]
  /\ up' = [t \in Targets |-> "absent"]
  /\ certExpiry' = [t \in Targets |-> "none"]

\* Mutant: the statuses outlive the process, and a target that is still down
\* is not announced again.
Restart_KeepsStatus ==
  /\ ForgetLoops
  /\ inherited' = [t \in Targets |-> heard[t] # "none"]
  /\ UNCHANGED <<status, heard>>

\* The process crashes, or exits, and is started again.  People remember the
\* alerts they have received.
Restart ==
  /\ ForgetLoops
  /\ status' = [t \in Targets |-> "unknown"]
  /\ inherited' = [t \in Targets |-> heard[t] # "none"]
  /\ UNCHANGED heard

Terminated == Stopped /\ UNCHANGED vars

Next ==
  \/ Cancel /\ UNCHANGED schedVars
  \/ Tick
  \/ Terminated
  \/ Restart
  \/ \E t \in Targets :
       \/ LoopStep(t)
       \/ Answered(t) /\ UNCHANGED schedVars
       \/ Deliver(t)
       \/ SendFails(t)

(***************************************************************************)
(* Goroutines are scheduled and time passes.  Go's select picks at random  *)
(* among the cases that are ready, so a loop whose context is done does    *)
(* not pick the timer for ever: StopLoop is strongly fair.  Nothing is     *)
(* assumed of the targets, the alerters or the context.                    *)
(***************************************************************************)
Fairness ==
  /\ WF_vars(Tick)
  /\ \A t \in Targets : WF_vars(LoopStep(t)) /\ SF_vars(StopLoop(t))

Spec == Init /\ [][Next]_vars /\ Fairness

-----------------------------------------------------------------------------
TypeOK ==
  /\ CheckTypeOK
  /\ status \in [Targets -> HealthStatus]
  /\ lastAlert \in [Targets -> Nat \cup {ZeroTime}]
  /\ raised \in [Targets -> AlertKinds]
  /\ heard \in [Targets -> AlertKinds]
  /\ inherited \in [Targets -> BOOLEAN]
  /\ silent \in [Targets -> Nat]
  /\ up \in [Targets -> {"absent", "0", "1"}]
  /\ certExpiry \in [Targets -> Certs]

Down(kind) == kind \in {"failure", "reminder"}

\* The loop's memory, the alerts it raised and the gauge a scrape reads agree
\* at all times: a target is unhealthy exactly when the last alert raised for
\* it announced an outage, when its alert clock runs, and when its up gauge is
\* 0 (checkAndAlert, all cases).  What was raised counts from the last start on:
\* README, "a restart re-sends a failure alert for any target still down".
OutageBookkeeping ==
  \A t \in Targets :
    /\ status[t] = "unhealthy" <=> Down(raised[t])
    /\ status[t] = "unhealthy" <=> lastAlert[t] # ZeroTime
    /\ status[t] = "unhealthy" <=> up[t] = "0"

\* With reminders on, an outage never goes quiet: fewer than
\* reminder_multiplier failing checks in a row pass without an alert, however
\* late or jittered the checks are (reminderDue and nextDelay; README, "Once
\* every app.reminder_multiplier x the target's interval").
NoOutageGoesQuiet ==
  ReminderMultiplier > 0 => \A t \in Targets : silent[t] < ReminderMultiplier

\* An alarm that can still be delivered comes from a check that exhausted its
\* attempts or saw an expiring certificate: a check that a shutdown cut short
\* never alarms anybody, although the loop counts it as a failure.
AlarmIsGenuine ==
  \A t \in Targets :
    pc[t] = "alerting" /\ ~ctxDone /\ Down(raised[t]) => Believed(t)

\* Nobody is left with an unanswered alarm by the loop itself: when the last
\* alert the alerters took for a target announced an outage and the target is
\* healthy now, a recovery alert was raised for it since.  Only a restart can
\* leave an alarm open: the new process does not know of it.
RecoveryIsRaised ==
  \A t \in Targets :
    Down(heard[t]) /\ ~inherited[t] /\ status[t] = "healthy" =>
      raised[t] = "recovery"

\* The alerts raised follow the life of an outage OutageNotifier specifies.
Notifier == INSTANCE OutageNotifier WITH Reminder <- ReminderMultiplier

\* The loops refine OutageNotifier: every outage opens with one failure alert,
\* goes on with reminders and closes with one recovery.
NotifierSpec == Notifier!Spec

\* A cancellation stops every loop, whether it is probing, backing off,
\* alerting or asleep, and Start returns (scheduler.Start, wg.Wait), unless the
\* process dies first.
StopsWhenCancelled == ctxDone ~> Stopped \/ ~ctxDone

\* Every target keeps being checked until the shutdown, even when no target
\* answers and every alerter is wedged (send, "a slow alerter cannot stop this
\* target from being checked again").
KeepsChecking == \A t \in Targets : []<>(pc[t] = "top" \/ ctxDone)

\* The alerters are not for ever out of order: an alert that can be delivered
\* again and again is delivered in the end.
AlertersRecover == \A t \in Targets : SF_vars(Deliver(t))

\* With reminders on, an outage that lasts is heard of in the end even if its
\* failure alert was lost: reminders stand in for the retry send does not do.
OutageIsHeard ==
  AlertersRecover /\ ReminderMultiplier > 0 => \A t \in Targets :
    status[t] = "unhealthy" ~>
      Down(heard[t]) \/ status[t] # "unhealthy" \/ ctxDone

\* README, features: "you are told when a target goes down, periodically while
\* it stays down, and when it comes back".  A target that stays healthy after
\* an outage this process told people of is in the end known to be back.
RecoveryIsHeard ==
  AlertersRecover => \A t \in Targets :
    Down(heard[t]) /\ ~inherited[t] /\ status[t] = "healthy" ~>
      ~Down(heard[t]) \/ status[t] # "healthy" \/ ctxDone

\* configs/config.example.toml, app.concurrency: "Maximum concurrent health
\* checks".
ProbesWithinConcurrency ==
  Cardinality({t \in Targets : pc[t] = "probing"}) <= Concurrency

=============================================================================
