------------------------------ MODULE Checker ------------------------------
(***************************************************************************)
(* checker.Check (internal/checker/checker.go): one health check of one    *)
(* target, retried with capped exponential backoff under a context that    *)
(* may be cancelled at any moment.                                         *)
(*                                                                         *)
(* Every target has at most one check in progress, run by a goroutine      *)
(* whose position is pc[t].  Time is counted in ticks: left[t] is what     *)
(* remains of the deadline the goroutine waits for (a probe timeout or a   *)
(* backoff sleep).  A goroutine may act any number of ticks after its      *)
(* deadline, so a scheduling delay of any length is a behaviour.           *)
(*                                                                         *)
(* The module is used on its own, where callers call Check at any time     *)
(* (Call, Return), and by Scheduler, whose loops call it.                  *)
(***************************************************************************)
EXTENDS Integers

CONSTANTS
  Targets,          \* the configured targets
  TCPTargets,       \* those whose url is tcp://host:port
  CertWatched,      \* those whose CertExpiryWarning is positive
  Timeout,          \* Timeout[t]: the timeout of one probe of t
  MaxAttempts,      \* RetryConfig: MaxAttempts, InitialWait, MaxWait and
  InitialWait,      \*   Multiplier = MultNum / MultDen
  MaxWait,
  MultNum,
  MultDen,
  DurationMax       \* the largest time.Duration, 2^63 - 1 in the code

(***************************************************************************)
(* What config.validate guarantees of these values.                        *)
(***************************************************************************)
ASSUME CheckerAssumption ==
  /\ TCPTargets \subseteq Targets
  /\ CertWatched \subseteq Targets
  /\ Timeout \in [Targets -> Nat \ {0}]
  /\ MaxAttempts \in Nat \ {0}
  /\ InitialWait \in Nat \ {0}
  /\ MaxWait \in Nat
  /\ InitialWait <= MaxWait
  /\ MultDen \in Nat \ {0}
  /\ MultNum \in Nat
  /\ MultDen <= MultNum
  /\ DurationMax \in Nat
  /\ MaxWait <= DurationMax

VARIABLES
  ctxDone,      \* the context every check runs under has been cancelled
  pc,           \* pc[t]: where the goroutine of t is
  left,         \* left[t]: ticks until the deadline it waits for
  attempt,      \* attempt[t], wait[t], result[t]: the variables of Check
  wait,
  result,
  probes        \* probes[t]: probes sent by the check in progress (history)

locals == <<attempt, wait, result, probes>>
checkVars == <<ctxDone, pc, left, locals>>

(***************************************************************************)
(* Where a goroutine is: not yet started, inside Check, with the result in *)
(* hand, or, in the last three, elsewhere in the loop of Scheduler.        *)
(***************************************************************************)
PCs == {"idle", "top", "probing", "backoff", "returned",
        "alerting", "waiting", "stopped"}

Errors == {"none", "network", "mismatch", "cert", "ctx"}
Statuses == {"none", "expected", "other"}
Certs == {"none", "fresh", "expiring"}

(***************************************************************************)
(* domain.CheckResult, less the fields nothing here depends on.            *)
(***************************************************************************)
CheckResult == [success: BOOLEAN, err: Errors, attempts: 0..MaxAttempts,
                status: Statuses, cert: Certs]

NoResult == [success |-> FALSE, err |-> "none", attempts |-> 0,
             status |-> "none", cert |-> "none"]

DurationMin == -DurationMax - 1

CheckTypeOK ==
  /\ ctxDone \in BOOLEAN
  /\ pc \in [Targets -> PCs]
  /\ left \in [Targets -> Nat]
  /\ attempt \in [Targets -> 0..MaxAttempts]
  /\ wait \in [Targets -> DurationMin..MaxWait]
  /\ result \in [Targets -> CheckResult]
  /\ probes \in [Targets -> 0..MaxAttempts]

CheckInit ==
  /\ ctxDone = FALSE
  /\ pc = [t \in Targets |-> "idle"]
  /\ left = [t \in Targets |-> 0]
  /\ attempt = [t \in Targets |-> 0]
  /\ wait = [t \in Targets |-> 0]
  /\ result = [t \in Targets |-> NoResult]
  /\ probes = [t \in Targets |-> 0]

-----------------------------------------------------------------------------
(***************************************************************************)
(* What one probe can observe.  A response that never came has no status   *)
(* and no certificate; a TCP connect has neither either.                   *)
(***************************************************************************)
NoAnswer(e) == [err |-> e, status |-> "none", cert |-> "none"]

Answers(t) ==
  IF t \in TCPTargets
  THEN {NoAnswer("none"), NoAnswer("network")}
  ELSE {NoAnswer("network")}
         \cup [err: {"none"}, status: {"expected", "other"}, cert: Certs]

(***************************************************************************)
(* The verdict of probe: a transport error, then the status, then the      *)
(* certificate window.                                                     *)
(***************************************************************************)
ProbeError(t, obs) ==
  IF obs.err # "none" THEN obs.err
  ELSE IF t \notin TCPTargets /\ obs.status # "expected" THEN "mismatch"
  ELSE IF t \in CertWatched /\ obs.cert = "expiring" THEN "cert"
  ELSE "none"

\* Mutant: the cap is left out.
NextWaits_Uncapped(w) == {(w * MultNum) \div MultDen}

(***************************************************************************)
(* The wait after w.  The product is a float64; converting one that no     *)
(* time.Duration can hold gives, depending on the processor, the largest   *)
(* or the smallest duration, and the cap is applied to the converted value.*)
(***************************************************************************)
NextWaits(w) ==
  LET product == (w * MultNum) \div MultDen
  IN  IF product \in DurationMin..DurationMax
      THEN {IF product <= MaxWait THEN product ELSE MaxWait}
      ELSE {MaxWait, DurationMin}

\* time.After of a wait that is not positive fires at once.
Sleep(w) == IF w > 0 THEN w ELSE 0

-----------------------------------------------------------------------------
\* The variables of Check are out of scope once its caller has the result.
Forget(t) ==
  /\ attempt' = [attempt EXCEPT ![t] = 0]
  /\ wait' = [wait EXCEPT ![t] = 0]
  /\ result' = [result EXCEPT ![t] = NoResult]
  /\ probes' = [probes EXCEPT ![t] = 0]

(***************************************************************************)
(* Entering Check.                                                         *)
(***************************************************************************)
StartCheck(t) ==
  /\ pc' = [pc EXCEPT ![t] = "top"]
  /\ attempt' = [attempt EXCEPT ![t] = 1]
  /\ wait' = [wait EXCEPT ![t] = InitialWait]
  /\ result' = [result EXCEPT ![t] = NoResult]
  /\ probes' = [probes EXCEPT ![t] = 0]
  /\ UNCHANGED <<ctxDone, left>>

\* The head of the loop finds the context cancelled.
StopBeforeProbe(t) ==
  /\ pc[t] = "top"
  /\ ctxDone
  /\ result' = [result EXCEPT ![t].err = "ctx", ![t].attempts = attempt[t]]
  /\ pc' = [pc EXCEPT ![t] = "returned"]
  /\ UNCHANGED <<ctxDone, left, attempt, wait, probes>>

\* Mutant: the loop head does not look at the context.
SendProbe_Blind(t) ==
  /\ pc[t] = "top"
  /\ pc' = [pc EXCEPT ![t] = "probing"]
  /\ left' = [left EXCEPT ![t] = Timeout[t]]
  /\ probes' = [probes EXCEPT ![t] = @ + 1]
  /\ UNCHANGED <<ctxDone, attempt, wait, result>>

(***************************************************************************)
(* The head of the loop finds the context live and starts a probe.  A      *)
(* cancellation between the two is the same as one just after.             *)
(***************************************************************************)
SendProbe(t) ==
  /\ pc[t] = "top"
  /\ ~ctxDone
  /\ pc' = [pc EXCEPT ![t] = "probing"]
  /\ left' = [left EXCEPT ![t] = Timeout[t]]
  /\ probes' = [probes EXCEPT ![t] = @ + 1]
  /\ UNCHANGED <<ctxDone, attempt, wait, result>>

\* Mutant: an earlier attempt's error survives a success.
Record_StaleError(t, obs) ==
  LET err == ProbeError(t, obs) IN
  result' = [result EXCEPT ![t] =
               [success |-> err = "none",
                err |-> IF err = "none" THEN @.err ELSE err,
                attempts |-> attempt[t],
                status |-> obs.status, cert |-> obs.cert]]

\* Mutant: the attempts are counted from zero.
Record_ZeroBased(t, obs) ==
  LET err == ProbeError(t, obs) IN
  result' = [result EXCEPT ![t] =
               [success |-> err = "none", err |-> err, attempts |-> attempt[t] - 1,
                status |-> obs.status, cert |-> obs.cert]]

(***************************************************************************)
(* What an attempt leaves in the result.                                   *)
(***************************************************************************)
Record(t, obs) ==
  LET err == ProbeError(t, obs) IN
  result' = [result EXCEPT ![t] =
               [success |-> err = "none", err |-> err, attempts |-> attempt[t],
                status |-> obs.status, cert |-> obs.cert]]

\* Mutant: the attempt before the last is taken for the last.
Final_OneEarly(t, err) ==
  \/ err \in {"none", "cert"}
  \/ attempt[t] >= MaxAttempts - 1

\* Mutant: one attempt more than configured.
Final_OneLate(t, err) ==
  \/ err \in {"none", "cert"}
  \/ attempt[t] = MaxAttempts + 1

(***************************************************************************)
(* No further attempt follows: the target passed, its certificate expires  *)
(* (which no retry cures), or the attempts are used up.                    *)
(***************************************************************************)
Final(t, err) ==
  \/ err \in {"none", "cert"}
  \/ attempt[t] = MaxAttempts

(***************************************************************************)
(* The rest of the loop body once a probe has come back with obs.          *)
(***************************************************************************)
ProbeReturns(t, obs) ==
  /\ pc[t] = "probing"
  /\ Record(t, obs)
  /\ \/ /\ Final(t, ProbeError(t, obs))
        /\ pc' = [pc EXCEPT ![t] = "returned"]
        /\ left' = [left EXCEPT ![t] = 0]
     \/ /\ ~Final(t, ProbeError(t, obs))
        /\ pc' = [pc EXCEPT ![t] = "backoff"]
        /\ left' = [left EXCEPT ![t] = Sleep(wait[t])]
  /\ UNCHANGED <<ctxDone, attempt, wait, probes>>

\* The target answers, or refuses, before the probe's deadline.  The answer
\* may win a race with a cancellation.
Answered(t) ==
  /\ left[t] > 0
  /\ \E obs \in Answers(t) : ProbeReturns(t, obs)

\* Mutant: a probe has no deadline.
ProbeTimesOut_Never(t) ==
  /\ ctxDone /\ left[t] = 0
  /\ ProbeReturns(t, NoAnswer("network"))

\* The probe's deadline passes.
ProbeTimesOut(t) ==
  /\ left[t] = 0
  /\ ProbeReturns(t, NoAnswer("network"))

\* The cancelled context cuts the probe short; the error is the context's.
ProbeCancelled(t) ==
  /\ ctxDone
  /\ ProbeReturns(t, NoAnswer("ctx"))

\* Mutant: the wait grows before the first retry and not after it.
BackoffElapsed_KeepsWait(t) ==
  /\ pc[t] = "backoff"
  /\ left[t] = 0
  /\ pc' = [pc EXCEPT ![t] = "top"]
  /\ attempt' = [attempt EXCEPT ![t] = @ + 1]
  /\ UNCHANGED <<ctxDone, left, wait, result, probes>>

\* The sleep is over: the wait grows and the next attempt begins.
BackoffElapsed(t) ==
  /\ pc[t] = "backoff"
  /\ left[t] = 0
  /\ pc' = [pc EXCEPT ![t] = "top"]
  /\ attempt' = [attempt EXCEPT ![t] = @ + 1]
  /\ \E w \in NextWaits(wait[t]) : wait' = [wait EXCEPT ![t] = w]
  /\ UNCHANGED <<ctxDone, left, result, probes>>

\* The sleep is cut short; what the last attempt observed is kept.
BackoffCancelled(t) ==
  /\ pc[t] = "backoff"
  /\ ctxDone
  /\ pc' = [pc EXCEPT ![t] = "returned"]
  /\ result' = [result EXCEPT ![t].err = "ctx"]
  /\ left' = [left EXCEPT ![t] = 0]
  /\ UNCHANGED <<ctxDone, attempt, wait, probes>>

\* The steps the goroutine of a check takes by itself, whatever the target
\* does.
CheckStep(t) ==
  \/ StopBeforeProbe(t)
  \/ SendProbe(t)
  \/ ProbeTimesOut(t)
  \/ ProbeCancelled(t)
  \/ BackoffElapsed(t)
  \/ BackoffCancelled(t)

-----------------------------------------------------------------------------
(***************************************************************************)
(* The environment.                                                        *)
(***************************************************************************)
Cancel ==
  /\ ~ctxDone
  /\ ctxDone' = TRUE
  /\ UNCHANGED <<pc, left, locals>>

CountDown == left' = [t \in Targets |-> IF left[t] > 0 THEN left[t] - 1 ELSE 0]

CheckTick ==
  /\ \E t \in Targets : left[t] > 0
  /\ CountDown
  /\ UNCHANGED <<ctxDone, pc, locals>>

\* A caller enters Check, with a context that may be cancelled already.
Call(t) ==
  /\ pc[t] = "idle"
  /\ StartCheck(t)

\* The caller has the result.
Return(t) ==
  /\ pc[t] = "returned"
  /\ pc' = [pc EXCEPT ![t] = "idle"]
  /\ Forget(t)
  /\ UNCHANGED <<ctxDone, left>>

CheckNext ==
  \/ Cancel
  \/ CheckTick
  \/ \E t \in Targets :
       Call(t) \/ Return(t) \/ Answered(t) \/ CheckStep(t)

\* Goroutines are scheduled and time passes; no server is trusted to answer.
CheckSpec ==
  /\ CheckInit
  /\ [][CheckNext]_checkVars
  /\ WF_checkVars(CheckTick)
  /\ \A t \in Targets : WF_checkVars(CheckStep(t))

-----------------------------------------------------------------------------
\* A result that passed carries no error, and one that failed carries the
\* error of what its own last observation shows: no error of an earlier
\* attempt survives into a success (Check, "Discard any error recorded by an
\* earlier attempt"), and a wrong status is reported before a certificate.
VerdictMatchesObservation ==
  \A t \in Targets : pc[t] = "returned" =>
    /\ result[t].success <=> result[t].err = "none"
    /\ result[t].err = "mismatch" <=>
         result[t].status = "other" /\ result[t].err # "ctx"
    /\ result[t].err = "cert" =>
         t \in CertWatched /\ result[t].cert = "expiring"
    /\ result[t].success /\ t \in CertWatched => result[t].cert # "expiring"

\* A failure that does not come from the cancelled context is believed only
\* after every configured attempt was sent and failed, except an expiring
\* certificate, which no retry cures (Check's loop).
Believed(t) ==
  /\ ~result[t].success
  /\ \/ result[t].err = "cert"
     \/ result[t].err \in {"network", "mismatch"} /\ probes[t] = MaxAttempts

FailureIsBelieved ==
  \A t \in Targets : pc[t] = "returned" =>
    result[t].success \/ result[t].err = "ctx" \/ Believed(t)

\* The attempts a result reports are the probes sent, but for the one attempt
\* that a cancelled context stopped at the head of the loop.
AttemptsCountProbes ==
  \A t \in Targets : pc[t] = "returned" =>
    \/ result[t].attempts = probes[t]
    \/ result[t].err = "ctx" /\ result[t].attempts = probes[t] + 1

\* Every sleep between attempts lies between the initial wait and the cap
\* (README, "configurable attempts, initial wait, multiplier and cap").
BackoffWithinCap ==
  \A t \in Targets : pc[t] = "backoff" => wait[t] \in InitialWait..MaxWait

\* The schedule the documentation describes: the initial wait, multiplied once
\* per retry in whole nanoseconds, and capped at the end and nowhere before.
Planned[k \in Nat] ==
  IF k = 0 THEN InitialWait ELSE (Planned[k - 1] * MultNum) \div MultDen

ScheduledWait(k) == IF Planned[k] <= MaxWait THEN Planned[k] ELSE MaxWait

\* The sleep after attempt k is the scheduled one, for a whole multiplier
\* min(InitialWait * Multiplier^(k-1), MaxWait): the growth is applied once per
\* retry, and capping every wait, as the loop does, comes to capping the last
\* (Check, "Exponential backoff").
BackoffIsExponential ==
  \A t \in Targets : pc[t] = "backoff" => wait[t] = ScheduledWait(attempt[t] - 1)

\* Once the context is cancelled no new probe is sent, by a check in progress
\* or by one called afterwards.
NoProbeAfterCancel ==
  [][ctxDone => \A t \in Targets : probes'[t] <= probes[t]]_checkVars

\* Every check returns, even when no server ever answers and the context is
\* never cancelled: a probe is bounded by its timeout, a sleep by the wait and
\* the loop by the attempts.
EveryCheckReturns ==
  \A t \in Targets : pc[t] = "top" ~> pc[t] = "returned"

=============================================================================
