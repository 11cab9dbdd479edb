--------------------------- MODULE CheckerProofs ---------------------------
(***************************************************************************)
(* Theorems about Checker, for any set of targets and any configuration    *)
(* that config.validate accepts.  The lemmas about single steps are used   *)
(* again by SchedulerProofs, whose loops take the same steps.              *)
(***************************************************************************)
EXTENDS Checker, WellFoundedInduction, TLAPS

(***************************************************************************)
(* What holds of a check at each place of its loop, so that what its       *)
(* result claims can be read off when it returns.                          *)
(***************************************************************************)
\* Every attempt up to this one has sent a probe, but for the next one.
Counted(t) ==
  /\ pc[t] = "top" => attempt[t] # 0 /\ probes[t] + 1 = attempt[t]
  /\ pc[t] = "probing" => attempt[t] # 0 /\ probes[t] = attempt[t]
  /\ pc[t] = "backoff" => /\ attempt[t] \in 1..MaxAttempts - 1
                          /\ probes[t] = attempt[t]
                          /\ result[t].attempts = attempt[t]

\* The result is a failure as long as the loop runs.
Failing(t) ==
  pc[t] \in {"top", "probing", "backoff"} => ~result[t].success

\* What the result says of the observation it was made from.
Consistent(t) ==
  /\ result[t].success <=> result[t].err = "none"
  /\ result[t].err = "mismatch" <=>
       result[t].status = "other" /\ result[t].err # "ctx"
  /\ result[t].err = "cert" => t \in CertWatched /\ result[t].cert = "expiring"
  /\ result[t].success /\ t \in CertWatched => result[t].cert # "expiring"

\* A context error is the mark of a cancelled context.
CtxErrorMeansCancelled(t) == result[t].err = "ctx" => ctxDone

CountsProbes(t) ==
  \/ result[t].attempts = probes[t]
  \/ result[t].err = "ctx" /\ result[t].attempts = probes[t] + 1

CheckInv(t) ==
  /\ Counted(t)
  /\ Failing(t)
  /\ CtxErrorMeansCancelled(t)
  /\ pc[t] = "returned" =>
       /\ Consistent(t)
       /\ result[t].success \/ result[t].err = "ctx" \/ Believed(t)
       /\ CountsProbes(t)

CheckIInv == CheckTypeOK /\ \A t \in Targets : CheckInv(t)

\* The variables of one target are all an action of another leaves alone.
Untouched(t) ==
  /\ pc'[t] = pc[t]
  /\ attempt'[t] = attempt[t]
  /\ wait'[t] = wait[t]
  /\ result'[t] = result[t]
  /\ probes'[t] = probes[t]
  /\ ctxDone => ctxDone'

LEMMA UntouchedInv ==
  ASSUME NEW t \in Targets, CheckInv(t), Untouched(t)
  PROVE  CheckInv(t)'
BY DEF CheckInv, Untouched, Counted, Failing, Consistent,
       CtxErrorMeansCancelled, CountsProbes, Believed

Observations(t) == Answers(t) \cup {NoAnswer("ctx")}

LEMMA ObservationFacts ==
  ASSUME NEW t \in Targets, NEW obs \in Observations(t)
  PROVE  /\ obs.err \in {"none", "network", "ctx"}
         /\ obs.status \in Statuses
         /\ obs.cert \in Certs
         /\ obs.err # "none" => obs.status = "none" /\ obs.cert = "none"
         /\ t \in TCPTargets => obs.status = "none" /\ obs.cert = "none"
         /\ obs.err = "none" /\ t \notin TCPTargets => obs.status # "none"
BY DEF Observations, Answers, NoAnswer, Statuses, Certs

\* Every value NextWaits can give is a duration no greater than the cap.
LEMMA NextWaitsType ==
  ASSUME NEW w \in DurationMin..MaxWait
  PROVE  NextWaits(w) \subseteq DurationMin..MaxWait
BY CheckerAssumption DEF NextWaits, DurationMin

LEMMA Zeros == 0 \in 0..MaxAttempts /\ 0 \in DurationMin..MaxWait
BY CheckerAssumption DEF DurationMin

LEMMA NoResultType == NoResult \in CheckResult
BY CheckerAssumption DEF NoResult, CheckResult, Errors, Statuses, Certs

-----------------------------------------------------------------------------
(***************************************************************************)
(* Steps.                                                                  *)
(***************************************************************************)
LEMMA StartCheckInv ==
  ASSUME CheckIInv, NEW t \in Targets, StartCheck(t)
  PROVE  CheckIInv'
<1> USE CheckerAssumption DEF CheckIInv
<1>1. CheckTypeOK'
  BY NoResultType DEF CheckTypeOK, StartCheck, PCs, DurationMin
<1>2. CheckInv(t)'
  BY DEF CheckTypeOK, StartCheck, CheckInv, Counted, Failing,
         CtxErrorMeansCancelled, NoResult
<1>3. \A u \in Targets \ {t} : Untouched(u)
  BY DEF CheckTypeOK, StartCheck, Untouched
<1> QED
  BY <1>1, <1>2, <1>3, UntouchedInv

LEMMA ProbeReturnsInv ==
  ASSUME CheckIInv, NEW t \in Targets, NEW obs \in Observations(t),
         ProbeReturns(t, obs), obs.err = "ctx" => ctxDone
  PROVE  CheckIInv'
<1> USE CheckerAssumption DEF CheckIInv
<1> DEFINE err == ProbeError(t, obs)
<1>1. err \in Errors /\ obs.status \in Statuses /\ obs.cert \in Certs
  BY ObservationFacts DEF ProbeError, Errors
<1>2. result'[t] = [success |-> err = "none", err |-> err,
                    attempts |-> attempt[t], status |-> obs.status,
                    cert |-> obs.cert]
  BY DEF ProbeReturns, Record, CheckTypeOK, CheckResult
<1>3. \A u \in Targets \ {t} : result'[u] = result[u]
  BY DEF ProbeReturns, Record, CheckTypeOK
<1>4. /\ result'[t].err = err
      /\ result'[t].status = obs.status
      /\ result'[t].cert = obs.cert
      /\ result'[t].attempts = attempt[t]
      /\ result'[t].success <=> err = "none"
  <2> HIDE DEF err
  <2>1. result'[t].err = err
    BY <1>2
  <2>2. result'[t].status = obs.status
    BY <1>2
  <2>3. result'[t].cert = obs.cert
    BY <1>2
  <2>4. result'[t].attempts = attempt[t]
    BY <1>2
  <2>5. result'[t].success = (err = "none")
    BY <1>2
  <2> QED
    BY <2>1, <2>2, <2>3, <2>4, <2>5
<1>5. CheckTypeOK'
  <2>1. result' \in [Targets -> CheckResult]
    BY <1>1, <1>2, <1>3 DEF ProbeReturns, Record, CheckTypeOK, CheckResult
  <2>2. left' \in [Targets -> Nat] /\ pc' \in [Targets -> PCs]
    BY DEF ProbeReturns, CheckTypeOK, Sleep, PCs, DurationMin
  <2> QED
    BY <2>1, <2>2 DEF ProbeReturns, CheckTypeOK
<1>6. CheckInv(t)'
  <2>1. /\ attempt[t] \in 1..MaxAttempts
        /\ probes[t] = attempt[t]
        /\ attempt'[t] = attempt[t] /\ probes'[t] = probes[t]
    BY DEF ProbeReturns, CheckInv, Counted, CheckTypeOK
  <2>2. /\ Consistent(t)'
        /\ CtxErrorMeansCancelled(t)'
        /\ err \in {"none", "network", "mismatch", "cert", "ctx"}
    <3>2. Consistent(t)'
      BY <1>4, ObservationFacts DEF ProbeError, Consistent, Statuses
    <3>3. CtxErrorMeansCancelled(t)'
      BY <1>4, ObservationFacts DEF ProbeReturns, ProbeError, CtxErrorMeansCancelled
    <3> QED
      BY <1>1, <3>2, <3>3 DEF Errors
  <2>3. CASE Final(t, err)
    <3>1. pc'[t] = "returned"
      BY <2>3 DEF ProbeReturns, CheckTypeOK
    <3>2. result'[t].success \/ result'[t].err = "ctx" \/ Believed(t)'
      BY <1>4, <2>1, <2>2, <2>3 DEF Final, Believed
    <3> QED
      BY <1>4, <2>1, <2>2, <3>1, <3>2
         DEF CheckInv, Counted, Failing, CountsProbes
  <2>4. CASE ~Final(t, err)
    <3>1. pc'[t] = "backoff"
      BY <2>4 DEF ProbeReturns, CheckTypeOK
    <3> QED
      BY <1>4, <2>1, <2>2, <2>4, <3>1 DEF CheckInv, Counted, Failing, Final
  <2> QED
    BY <2>3, <2>4
<1>7. \A u \in Targets \ {t} : Untouched(u)
  BY <1>3 DEF CheckTypeOK, ProbeReturns, Untouched
<1> QED
  BY <1>5, <1>6, <1>7, UntouchedInv

LEMMA AnsweredInv ==
  ASSUME CheckIInv, NEW t \in Targets, Answered(t)
  PROVE  CheckIInv'
BY ProbeReturnsInv, ObservationFacts DEF Answered, Observations, Answers, NoAnswer

LEMMA CheckStepInv ==
  ASSUME CheckIInv, NEW t \in Targets, CheckStep(t)
  PROVE  CheckIInv'
<1> USE CheckerAssumption DEF CheckIInv
<1>1. CASE StopBeforeProbe(t)
  <2>1. result'[t] = [success |-> result[t].success, err |-> "ctx",
                      attempts |-> attempt[t], status |-> result[t].status,
                      cert |-> result[t].cert]
    BY <1>1 DEF StopBeforeProbe, CheckTypeOK, CheckResult
  <2>2. result'[t].err = "ctx" /\ result'[t].attempts = attempt[t]
        /\ result'[t].success = result[t].success
        /\ result'[t] \in CheckResult
    BY <2>1 DEF CheckTypeOK, CheckResult, Errors
  <2>3. CheckTypeOK'
    BY <1>1, <2>2 DEF StopBeforeProbe, CheckTypeOK, PCs
  <2>4. CheckInv(t)'
    BY <1>1, <2>2 DEF StopBeforeProbe, CheckTypeOK, CheckInv, Counted,
         Failing, Consistent, CtxErrorMeansCancelled, CountsProbes
  <2>5. \A u \in Targets \ {t} : Untouched(u)
    BY <1>1 DEF CheckTypeOK, StopBeforeProbe, Untouched
  <2> QED
    BY <2>3, <2>4, <2>5, UntouchedInv
<1>2. CASE SendProbe(t)
  <2>1. probes[t] + 1 = attempt[t]
    BY <1>2 DEF SendProbe, CheckInv, Counted
  <2>2. CheckTypeOK'
    BY <1>2, <2>1 DEF SendProbe, CheckTypeOK, PCs
  <2>3. CheckInv(t)'
    BY <1>2, <2>1 DEF SendProbe, CheckTypeOK, CheckInv, Counted, Failing,
         CtxErrorMeansCancelled
  <2>4. \A u \in Targets \ {t} : Untouched(u)
    BY <1>2 DEF CheckTypeOK, SendProbe, Untouched
  <2> QED
    BY <2>2, <2>3, <2>4, UntouchedInv
<1>3. CASE ProbeTimesOut(t)
  BY <1>3, ProbeReturnsInv DEF ProbeTimesOut, Observations, Answers, NoAnswer
<1>4. CASE ProbeCancelled(t)
  BY <1>4, ProbeReturnsInv DEF ProbeCancelled, Observations
<1>5. CASE BackoffElapsed(t)
  <2>1. /\ attempt[t] \in 1..MaxAttempts - 1
        /\ probes[t] = attempt[t]
    BY <1>5 DEF BackoffElapsed, CheckInv, Counted
  <2>2. CheckTypeOK'
    BY <1>5, <2>1, NextWaitsType DEF BackoffElapsed, CheckTypeOK, PCs
  <2>3. CheckInv(t)'
    BY <1>5, <2>1 DEF BackoffElapsed, CheckTypeOK, CheckInv, Counted,
         Failing, CtxErrorMeansCancelled
  <2>4. \A u \in Targets \ {t} : Untouched(u)
    BY <1>5 DEF CheckTypeOK, BackoffElapsed, Untouched
  <2> QED
    BY <2>2, <2>3, <2>4, UntouchedInv
<1>6. CASE BackoffCancelled(t)
  <2>1. result'[t] = [success |-> result[t].success, err |-> "ctx",
                      attempts |-> result[t].attempts,
                      status |-> result[t].status, cert |-> result[t].cert]
    BY <1>6 DEF BackoffCancelled, CheckTypeOK, CheckResult
  <2>2. result'[t].err = "ctx" /\ result'[t].attempts = result[t].attempts
        /\ result'[t].success = result[t].success
        /\ result'[t] \in CheckResult
    BY <2>1 DEF CheckTypeOK, CheckResult, Errors
  <2>3. CheckTypeOK'
    BY <1>6, <2>2 DEF BackoffCancelled, CheckTypeOK, PCs
  <2>4. CheckInv(t)'
    BY <1>6, <2>2 DEF BackoffCancelled, CheckTypeOK, CheckInv, Counted,
         Failing, Consistent, CtxErrorMeansCancelled, CountsProbes
  <2>5. \A u \in Targets \ {t} : Untouched(u)
    BY <1>6 DEF CheckTypeOK, BackoffCancelled, Untouched
  <2> QED
    BY <2>3, <2>4, <2>5, UntouchedInv
<1> QED
  BY <1>1, <1>2, <1>3, <1>4, <1>5, <1>6 DEF CheckStep

\* Steps after which every check stands where it stood.
LEMMA CancelInv ==
  ASSUME CheckIInv, Cancel
  PROVE  CheckIInv'
<1>1. CheckTypeOK'
  BY DEF CheckIInv, CheckTypeOK, Cancel, locals
<1>2. \A u \in Targets : Untouched(u)
  BY DEF Cancel, Untouched, locals
<1> QED
  BY <1>1, <1>2, UntouchedInv DEF CheckIInv

LEMMA CountDownInv ==
  ASSUME CheckIInv, CountDown, UNCHANGED <<ctxDone, pc, locals>>
  PROVE  CheckIInv'
<1>1. CheckTypeOK'
  BY DEF CheckIInv, CheckTypeOK, CountDown, locals
<1>2. \A u \in Targets : Untouched(u)
  BY DEF Untouched, locals
<1> QED
  BY <1>1, <1>2, UntouchedInv DEF CheckIInv

LEMMA StutterInv ==
  ASSUME CheckIInv, UNCHANGED checkVars
  PROVE  CheckIInv'
<1>1. CheckTypeOK'
  BY DEF CheckIInv, CheckTypeOK, checkVars, locals
<1>2. \A u \in Targets : Untouched(u)
  BY DEF Untouched, checkVars, locals
<1> QED
  BY <1>1, <1>2, UntouchedInv DEF CheckIInv

\* The caller has the result, and goes to a place p outside Check.
LEMMA ForgetInv ==
  ASSUME CheckIInv, NEW t \in Targets, Forget(t), UNCHANGED ctxDone,
         NEW p \in {"idle", "waiting", "stopped"}, pc' = [pc EXCEPT ![t] = p],
         left' \in [Targets -> Nat]
  PROVE  CheckIInv'
<1> USE CheckerAssumption DEF CheckIInv
<1>1. CheckTypeOK'
  BY NoResultType, Zeros DEF CheckTypeOK, Forget, PCs
<1>2. CheckInv(t)'
  BY DEF CheckTypeOK, Forget, CheckInv, Counted, Failing,
         CtxErrorMeansCancelled, NoResult
<1>3. \A u \in Targets \ {t} : Untouched(u)
  BY DEF CheckTypeOK, Forget, Untouched
<1> QED
  BY <1>1, <1>2, <1>3, UntouchedInv

LEMMA CheckInitInv == CheckInit => CheckIInv
<1> SUFFICES ASSUME CheckInit PROVE CheckIInv
  OBVIOUS
<1>1. CheckTypeOK
  BY NoResultType, Zeros DEF CheckInit, CheckTypeOK, PCs
<1>2. ASSUME NEW t \in Targets PROVE CheckInv(t)
  BY DEF CheckInit, CheckInv, Counted, Failing, CtxErrorMeansCancelled, NoResult
<1> QED
  BY <1>1, <1>2 DEF CheckIInv

LEMMA CheckNextInv == CheckIInv /\ [CheckNext]_checkVars => CheckIInv'
<1> SUFFICES ASSUME CheckIInv, [CheckNext]_checkVars
             PROVE  CheckIInv'
  OBVIOUS
<1>1. CASE Cancel
  BY <1>1, CancelInv
<1>2. CASE CheckTick
  BY <1>2, CountDownInv DEF CheckTick
<1>3. ASSUME NEW t \in Targets, Call(t) PROVE CheckIInv'
  BY <1>3, StartCheckInv DEF Call
<1>4. ASSUME NEW t \in Targets, Return(t) PROVE CheckIInv'
  <2>1. left' \in [Targets -> Nat] /\ pc' = [pc EXCEPT ![t] = "idle"]
    BY <1>4 DEF Return, CheckIInv, CheckTypeOK
  <2> QED
    BY <1>4, <2>1, ForgetInv DEF Return
<1>5. ASSUME NEW t \in Targets, Answered(t) PROVE CheckIInv'
  BY <1>5, AnsweredInv
<1>6. ASSUME NEW t \in Targets, CheckStep(t) PROVE CheckIInv'
  BY <1>6, CheckStepInv
<1>7. CASE UNCHANGED checkVars
  BY <1>7, StutterInv
<1> QED
  BY <1>1, <1>2, <1>3, <1>4, <1>5, <1>6, <1>7 DEF CheckNext

LEMMA CheckInvariance == CheckSpec => []CheckIInv
BY CheckInitInv, CheckNextInv, PTL DEF CheckSpec

-----------------------------------------------------------------------------
\* The variables of every check keep their types (Check).
THEOREM CheckTypeCorrect == CheckSpec => []CheckTypeOK
<1>1. CheckIInv => CheckTypeOK
  BY DEF CheckIInv
<1> QED
  BY <1>1, CheckInvariance, PTL

\* A result never carries an error of an earlier attempt, and a wrong status
\* is reported before a certificate (Check, probe).
THEOREM VerdictsMatch == CheckSpec => []VerdictMatchesObservation
<1>1. CheckIInv => VerdictMatchesObservation
  BY DEF CheckIInv, CheckInv, Consistent, VerdictMatchesObservation
<1> QED
  BY <1>1, CheckInvariance, PTL

\* No failure is believed before every attempt was made, but for a cancelled
\* context and an expiring certificate (Check).
THEOREM FailuresAreBelieved == CheckSpec => []FailureIsBelieved
<1>1. CheckIInv => FailureIsBelieved
  BY DEF CheckIInv, CheckInv, FailureIsBelieved
<1> QED
  BY <1>1, CheckInvariance, PTL

\* The attempts reported are the probes sent, or one more when the context
\* was found cancelled at the head of the loop (Check).
THEOREM AttemptsCounted == CheckSpec => []AttemptsCountProbes
<1>1. CheckIInv => AttemptsCountProbes
  BY DEF CheckIInv, CheckInv, CountsProbes, AttemptsCountProbes
<1> QED
  BY <1>1, CheckInvariance, PTL

\* No probe is sent once the context is cancelled (Check, the head of the
\* loop).
THEOREM NoProbesAfterCancel == CheckSpec => NoProbeAfterCancel
<1> DEFINE Step == ctxDone => \A t \in Targets : probes'[t] <= probes[t]
<1>1. CheckIInv /\ [CheckNext]_checkVars => Step
  <2> SUFFICES ASSUME CheckIInv, [CheckNext]_checkVars, ctxDone
               PROVE  \A t \in Targets : probes'[t] <= probes[t]
    OBVIOUS
  <2> USE DEF CheckIInv, CheckTypeOK
  <2>1. CASE UNCHANGED probes
    BY <2>1
  <2>2. ASSUME NEW t \in Targets, probes' = [probes EXCEPT ![t] = 0]
        PROVE  \A u \in Targets : probes'[u] <= probes[u]
    BY <2>2
  <2>3. ASSUME NEW t \in Targets, Call(t) \/ Return(t)
        PROVE  \A u \in Targets : probes'[u] <= probes[u]
    BY <2>2, <2>3 DEF Call, StartCheck, Return, Forget
  <2>4. ASSUME NEW t \in Targets, Answered(t) \/ CheckStep(t)
        PROVE  UNCHANGED probes
    BY <2>4 DEF Answered, CheckStep, StopBeforeProbe, SendProbe, ProbeTimesOut,
                ProbeCancelled, ProbeReturns, BackoffElapsed, BackoffCancelled
  <2>5. CASE Cancel \/ CheckTick \/ UNCHANGED checkVars
    BY <2>1, <2>5 DEF Cancel, CheckTick, checkVars, locals
  <2> QED
    BY <2>1, <2>3, <2>4, <2>5 DEF CheckNext
<1> QED
  BY <1>1, CheckInvariance, PTL DEF CheckSpec, NoProbeAfterCancel

-----------------------------------------------------------------------------
(***************************************************************************)
(* Induction over the natural numbers, and the function a recursion        *)
(* defines, from the well-foundedness of < (the provers cannot instantiate *)
(* the library's theorems on induction, which take an operator).           *)
(***************************************************************************)
LEMMA Least ==
  ASSUME NEW T, T \subseteq Nat, T # {}
  PROVE  \E x \in T : \A y \in T : x <= y
<1>1. IsWellFoundedOn(OpToRel(<, Nat), Nat)
  BY NatLessThanWellFounded
<1>2. \E x \in T : \A y \in T : ~(<<y, x>> \in OpToRel(<, Nat))
  BY <1>1, WFMin
<1>3. \A x, y \in Nat : y < x => <<y, x>> \in OpToRel(<, Nat)
  BY DEF OpToRel
<1>4. \E x \in T : \A y \in T : ~(y < x)
  <2>1. PICK x \in T : \A y \in T : ~(<<y, x>> \in OpToRel(<, Nat))
    BY <1>2, Zenon
  <2>2. \A y \in T : ~(y < x)
    BY <1>3, <2>1, Zenon
  <2> QED
    BY <2>2, Zenon
<1> QED
  BY <1>4, SMT

LEMMA Induction ==
  ASSUME NEW S, 0 \in S, \A n \in Nat : n \in S => n + 1 \in S
  PROVE  Nat \subseteq S
<1> DEFINE T == Nat \ S
<1> SUFFICES ASSUME T # {} PROVE FALSE
  OBVIOUS
<1>1. PICK x \in T : \A y \in T : x <= y
  BY Least
<1>2. x - 1 \in Nat /\ x - 1 \notin T
  BY <1>1
<1> QED
  BY <1>2

\* g is the first n steps of the recursion.
Computes(g, n, step, c) ==
  /\ g \in [0..n -> Nat]
  /\ g[0] = c
  /\ \A i \in Nat : i < n => g[i + 1] = step[g[i]]

LEMMA ComputationGrows ==
  ASSUME NEW step \in [Nat -> Nat], NEW c \in Nat, NEW n \in Nat,
         NEW g, Computes(g, n, step, c)
  PROVE  \E h : Computes(h, n + 1, step, c)
<1> DEFINE h == [i \in 0..n + 1 |-> IF i <= n THEN g[i] ELSE step[g[n]]]
<1>1. g \in [0..n -> Nat] /\ g[0] = c /\ \A i \in Nat : i < n => g[i + 1] = step[g[i]]
  BY DEF Computes
<1>2. h \in [0..n + 1 -> Nat]
  <2>1. \A i \in 0..n + 1 : (IF i <= n THEN g[i] ELSE step[g[n]]) \in Nat
    BY <1>1
  <2> QED
    BY <2>1
<1>3. h[0] = c
  BY <1>1
<1>4. ASSUME NEW i \in Nat, i < n + 1 PROVE h[i + 1] = step[h[i]]
  <2>1. CASE i < n
    <3>1. h[i + 1] = g[i + 1] /\ h[i] = g[i]
      BY <2>1
    <3> QED
      BY <1>1, <2>1, <3>1
  <2>2. CASE i = n
    <3>1. h[i + 1] = step[g[n]] /\ h[i] = g[n]
      BY <2>2
    <3> QED
      BY <3>1
  <2> QED
    BY <1>4, <2>1, <2>2
<1>5. Computes(h, n + 1, step, c)
  BY <1>2, <1>3, <1>4 DEF Computes
<1> QED
  BY <1>5

LEMMA ComputationsAgree ==
  ASSUME NEW step \in [Nat -> Nat], NEW c \in Nat, NEW n \in Nat,
         NEW g, Computes(g, n, step, c), NEW h, Computes(h, n + 1, step, c)
  PROVE  g[n] = h[n]
<1> DEFINE S == {i \in Nat : i <= n => g[i] = h[i]}
<1>1. 0 \in S
  BY DEF Computes
<1>2. ASSUME NEW i \in Nat, i \in S PROVE i + 1 \in S
  <2> SUFFICES ASSUME i + 1 <= n PROVE g[i + 1] = h[i + 1]
    OBVIOUS
  <2>1. i < n /\ i < n + 1 /\ g[i] = h[i]
    BY <1>2
  <2>2. g[i + 1] = step[g[i]]
    BY <2>1 DEF Computes
  <2>3. h[i + 1] = step[h[i]]
    BY <2>1 DEF Computes
  <2> QED
    BY <2>1, <2>2, <2>3
<1> HIDE DEF S
<1>3. n \in S
  BY <1>1, <1>2, Induction
<1> QED
  BY <1>3 DEF S

LEMMA Recursion ==
  ASSUME NEW step \in [Nat -> Nat], NEW c \in Nat
  PROVE  \E f \in [Nat -> Nat] : f[0] = c /\ \A n \in Nat : f[n + 1] = step[f[n]]
<1> DEFINE S == {n \in Nat : \E g : Computes(g, n, step, c)}
           F(n) == CHOOSE g : Computes(g, n, step, c)
           f == [n \in Nat |-> F(n)[n]]
<1>1. 0 \in S
  <2>1. Computes([i \in 0..0 |-> c], 0, step, c)
    BY DEF Computes
  <2> QED
    BY <2>1
<1>2. ASSUME NEW n \in Nat, n \in S PROVE n + 1 \in S
  BY <1>2, ComputationGrows
<1>3. Nat \subseteq S
  <2> HIDE DEF S
  <2> QED
    BY <1>1, <1>2, Induction
<1>4. ASSUME NEW n \in Nat PROVE Computes(F(n), n, step, c)
  <2>1. \E g : Computes(g, n, step, c)
    BY <1>3
  <2> QED
    BY <2>1, Zenon
<1> HIDE DEF F
<1>5. f \in [Nat -> Nat] /\ f[0] = c
  BY <1>4 DEF Computes
<1>6. ASSUME NEW n \in Nat PROVE f[n + 1] = step[f[n]]
  <2>1. n + 1 \in Nat /\ n < n + 1
    OBVIOUS
  <2>2. Computes(F(n), n, step, c) /\ Computes(F(n + 1), n + 1, step, c)
    BY <1>4, <2>1
  <2>3. F(n)[n] = F(n + 1)[n]
    BY <2>2, ComputationsAgree
  <2>4. F(n + 1)[n + 1] = step[F(n + 1)[n]]
    BY <2>1, <2>2 DEF Computes
  <2> QED
    BY <2>1, <2>3, <2>4
<1> HIDE DEF f
<1> QED
  BY <1>5, <1>6

-----------------------------------------------------------------------------
(***************************************************************************)
(* The backoff, for configurations whose largest product a duration holds. *)
(***************************************************************************)
NoOverflow == (MaxWait * MultNum) \div MultDen <= DurationMax

\* A multiplier of at least 1 never shrinks a wait.
LEMMA ProductGrows ==
  ASSUME NEW w \in Nat, NEW n \in Nat, NEW d \in Nat \ {0}, d <= n
  PROVE  (w * n) \div d \in Nat /\ w <= (w * n) \div d
<1>1. w * d <= w * n
  OBVIOUS
<1>2. (w * d) \div d = w
  OBVIOUS
<1> QED
  BY <1>1, <1>2

LEMMA ProductMonotone ==
  ASSUME NEW w \in Nat, NEW v \in Nat, w <= v, NEW n \in Nat, NEW d \in Nat \ {0}
  PROVE  (w * n) \div d <= (v * n) \div d
<1>1. w * n <= v * n
  OBVIOUS
<1>2. w * n \in Nat /\ v * n \in Nat
  OBVIOUS
<1> QED
  BY <1>1, <1>2

LEMMA PlannedUnfolds ==
  /\ \A k \in Nat : Planned[k] \in Nat
  /\ Planned[0] = InitialWait
  /\ \A k \in Nat : Planned[k + 1] = (Planned[k] * MultNum) \div MultDen
<1> DEFINE step == [w \in Nat |-> (w * MultNum) \div MultDen]
           Body(f) == [k \in Nat |-> IF k = 0 THEN InitialWait ELSE (f[k - 1] * MultNum) \div MultDen]
<1>1. step \in [Nat -> Nat]
  BY CheckerAssumption
<1> HIDE DEF step
<1>2. PICK f \in [Nat -> Nat] : f[0] = InitialWait /\ \A n \in Nat : f[n + 1] = step[f[n]]
  BY <1>1, Recursion, CheckerAssumption
<1>3. \A k \in Nat : f[k] = Body(f)[k]
  <2> SUFFICES ASSUME NEW k \in Nat PROVE f[k] = Body(f)[k]
    OBVIOUS
  <2>1. CASE k = 0
    BY <1>2, <2>1
  <2>2. CASE k # 0
    <3>1. k - 1 \in Nat /\ (k - 1) + 1 = k
      BY <2>2
    <3>2. f[k] = step[f[k - 1]]
      BY <1>2, <3>1
    <3> QED
      BY <1>2, <2>2, <3>1, <3>2 DEF step
  <2> QED
    BY <2>1, <2>2
<1>4. f = Body(f)
  BY <1>2, <1>3
<1>5. Planned = Body(Planned)
  BY <1>4, Zenon DEF Planned
<1> DEFINE Value(k) == IF k = 0 THEN InitialWait ELSE (Planned[k - 1] * MultNum) \div MultDen
<1>6. Planned = [k \in Nat |-> Value(k)]
  BY <1>5
<1>7. \A k \in Nat : Planned[k] = Value(k)
  <2> HIDE DEF Value
  <2> QED
    BY <1>6
<1>8. Planned[0] = InitialWait
  BY <1>7
<1>9. ASSUME NEW k \in Nat PROVE Planned[k + 1] = (Planned[k] * MultNum) \div MultDen
  <2>1. k + 1 \in Nat /\ k + 1 # 0 /\ (k + 1) - 1 = k
    OBVIOUS
  <2> QED
    BY <1>7, <2>1
<1>10. \A k \in Nat : Planned[k] \in Nat
  <2> DEFINE S == {k \in Nat : Planned[k] \in Nat}
  <2>1. 0 \in S
    BY <1>8, CheckerAssumption
  <2>2. ASSUME NEW k \in Nat, k \in S PROVE k + 1 \in S
    <3>1. Planned[k] \in Nat /\ MultNum \in Nat /\ MultDen \in Nat \ {0} /\ MultDen <= MultNum
      BY <2>2, CheckerAssumption
    <3>2. (Planned[k] * MultNum) \div MultDen \in Nat
      BY <3>1, ProductGrows
    <3> QED
      BY <1>9, <3>2
  <2> HIDE DEF S
  <2>3. Nat \subseteq S
    BY <2>1, <2>2, Induction
  <2> QED
    BY <2>3 DEF S
<1> QED
  BY <1>8, <1>9, <1>10

\* The schedule never shrinks, and begins at the initial wait.
LEMMA PlannedGrows ==
  ASSUME NEW k \in Nat
  PROVE  InitialWait <= Planned[k] /\ Planned[k] <= Planned[k + 1]
<1>1. \A n \in Nat : Planned[n] \in Nat /\ Planned[n + 1] \in Nat /\ Planned[n] <= Planned[n + 1]
  <2> SUFFICES ASSUME NEW n \in Nat
               PROVE  /\ Planned[n] \in Nat /\ Planned[n + 1] \in Nat
                      /\ Planned[n] <= Planned[n + 1]
    OBVIOUS
  <2>1. Planned[n] \in Nat /\ MultNum \in Nat /\ MultDen \in Nat \ {0} /\ MultDen <= MultNum
    BY PlannedUnfolds, CheckerAssumption
  <2>2. /\ (Planned[n] * MultNum) \div MultDen \in Nat
        /\ Planned[n] <= (Planned[n] * MultNum) \div MultDen
    BY <2>1, ProductGrows
  <2> QED
    BY <2>1, <2>2, PlannedUnfolds
<1> DEFINE S == {n \in Nat : InitialWait <= Planned[n]}
<1>2. 0 \in S
  BY PlannedUnfolds, CheckerAssumption
<1>3. ASSUME NEW n \in Nat, n \in S PROVE n + 1 \in S
  BY <1>1, <1>3, CheckerAssumption
<1> HIDE DEF S
<1>4. Nat \subseteq S
  BY <1>2, <1>3, Induction
<1> QED
  BY <1>1, <1>4 DEF S

LEMMA ScheduledWaitBounds ==
  ASSUME NEW k \in Nat
  PROVE  ScheduledWait(k) \in InitialWait..MaxWait
<1>1. Planned[k] \in Nat /\ InitialWait <= Planned[k]
  BY PlannedUnfolds, PlannedGrows
<1> QED
  BY <1>1, CheckerAssumption DEF ScheduledWait

\* Capping before the growth or after it makes no difference: from a capped
\* wait the next one is capped too, and nothing grows past what a duration
\* holds.
LEMMA NextWaitIsScheduled ==
  ASSUME NoOverflow, NEW k \in Nat
  PROVE  NextWaits(ScheduledWait(k)) = {ScheduledWait(k + 1)}
<1> DEFINE w == ScheduledWait(k)
           product == (w * MultNum) \div MultDen
<1> HIDE DEF w
<1>1. w \in InitialWait..MaxWait
  BY ScheduledWaitBounds DEF w
<1>2. /\ w \in Nat /\ w <= MaxWait
      /\ MaxWait \in Nat /\ MultNum \in Nat /\ MultDen \in Nat \ {0} /\ MultDen <= MultNum
  BY <1>1, CheckerAssumption
<1>3. product \in Nat /\ w <= product
  BY <1>2, ProductGrows
<1>4. product \in DurationMin..DurationMax
  <2>1. product <= (MaxWait * MultNum) \div MultDen
    BY <1>2, ProductMonotone
  <2>2. (MaxWait * MultNum) \div MultDen \in Nat
    BY <1>2, ProductGrows
  <2> HIDE DEF product
  <2> QED
    BY <1>3, <2>1, <2>2, CheckerAssumption DEF NoOverflow, DurationMin
<1>5. NextWaits(w) = {IF product <= MaxWait THEN product ELSE MaxWait}
  BY <1>4 DEF NextWaits
<1>6. (IF product <= MaxWait THEN product ELSE MaxWait) = ScheduledWait(k + 1)
  <2>1. /\ Planned[k] \in Nat /\ Planned[k + 1] \in Nat
        /\ Planned[k] <= Planned[k + 1]
        /\ Planned[k + 1] = (Planned[k] * MultNum) \div MultDen
    BY PlannedUnfolds, PlannedGrows
  <2>2. CASE Planned[k] <= MaxWait
    BY <2>1, <2>2 DEF w, ScheduledWait
  <2>3. CASE ~(Planned[k] <= MaxWait)
    <3>1. w = MaxWait
      BY <2>3 DEF w, ScheduledWait
    <3>2. ScheduledWait(k + 1) = MaxWait
      BY <1>2, <2>1, <2>3 DEF ScheduledWait
    <3> HIDE DEF product
    <3> QED
      BY <1>2, <1>3, <3>1, <3>2
  <2> QED
    BY <2>2, <2>3
<1> QED
  BY <1>5, <1>6 DEF w

\* In the loop the wait is the scheduled one, before and during the sleep.
WaitInv(t) ==
  pc[t] \in {"top", "probing", "backoff"} =>
    attempt[t] # 0 /\ wait[t] = ScheduledWait(attempt[t] - 1)

LEMMA WaitsAreScheduled ==
  ASSUME NoOverflow
  PROVE  CheckSpec => [](\A t \in Targets : WaitInv(t))
<1> DEFINE Inv == \A t \in Targets : WaitInv(t)
<1>1. CheckInit => Inv
  BY DEF CheckInit, WaitInv
<1>2. CheckIInv /\ Inv /\ [CheckNext]_checkVars => Inv'
  <2> SUFFICES ASSUME CheckTypeOK, Inv, [CheckNext]_checkVars, NEW u \in Targets
               PROVE  WaitInv(u)'
    BY DEF CheckIInv
  <2> USE DEF CheckTypeOK
  <2>1. CASE Cancel \/ CheckTick \/ UNCHANGED checkVars
    BY <2>1 DEF Cancel, CheckTick, checkVars, locals, WaitInv
  <2>2. ASSUME NEW t \in Targets, Call(t) PROVE WaitInv(u)'
    <3>1. ScheduledWait(0) = InitialWait
      BY PlannedUnfolds, CheckerAssumption DEF ScheduledWait
    <3> QED
      BY <2>2, <3>1, CheckerAssumption DEF Call, StartCheck, WaitInv
  <2>3. ASSUME NEW t \in Targets, Return(t) PROVE WaitInv(u)'
    BY <2>3 DEF Return, Forget, WaitInv
  <2>4. ASSUME NEW t \in Targets, NEW obs, ProbeReturns(t, obs)
        PROVE  WaitInv(u)'
    BY <2>4 DEF ProbeReturns, WaitInv
  <2>5. ASSUME NEW t \in Targets, StopBeforeProbe(t) \/ BackoffCancelled(t)
        PROVE  WaitInv(u)'
    BY <2>5 DEF StopBeforeProbe, BackoffCancelled, WaitInv
  <2>6. ASSUME NEW t \in Targets, SendProbe(t) PROVE WaitInv(u)'
    BY <2>6 DEF SendProbe, WaitInv
  <2>7. ASSUME NEW t \in Targets, BackoffElapsed(t) PROVE WaitInv(u)'
    <3>1. PICK w \in NextWaits(wait[t]) : wait' = [wait EXCEPT ![t] = w]
      BY <2>7 DEF BackoffElapsed
    <3>2. attempt[t] - 1 \in Nat /\ wait[t] = ScheduledWait(attempt[t] - 1)
      BY <2>7 DEF BackoffElapsed, WaitInv
    <3>3. w = ScheduledWait((attempt[t] - 1) + 1)
      BY <3>2, NextWaitIsScheduled
    <3>4. attempt'[t] = attempt[t] + 1 /\ attempt'[t] # 0 /\ attempt[t] = (attempt[t] - 1) + 1
      BY <2>7, <3>2 DEF BackoffElapsed
    <3>5. CASE u = t
      BY <3>1, <3>3, <3>4, <3>5 DEF WaitInv
    <3>6. CASE u # t
      BY <2>7, <3>1, <3>6 DEF BackoffElapsed, WaitInv
    <3> QED
      BY <3>5, <3>6
  <2>8. ASSUME NEW t \in Targets, Answered(t) \/ CheckStep(t)
        PROVE  WaitInv(u)'
    BY <2>4, <2>5, <2>6, <2>7, <2>8
       DEF Answered, CheckStep, ProbeTimesOut, ProbeCancelled
  <2> QED
    BY <2>1, <2>2, <2>3, <2>8 DEF CheckNext
<1> QED
  BY <1>1, <1>2, CheckInvariance, PTL DEF CheckSpec

\* When no product overflows, the sleep after attempt k is the initial wait
\* grown k - 1 times and capped (Check, "Exponential backoff").
THEOREM BackoffFollowsTheSchedule ==
  ASSUME NoOverflow
  PROVE  CheckSpec => []BackoffIsExponential
<1>1. (\A t \in Targets : WaitInv(t)) => BackoffIsExponential
  BY DEF WaitInv, BackoffIsExponential
<1> QED
  BY <1>1, WaitsAreScheduled, PTL

\* It lies between the initial wait and the cap.
THEOREM BackoffBounded ==
  ASSUME NoOverflow
  PROVE  CheckSpec => []BackoffWithinCap
<1>1. CheckTypeOK /\ (\A t \in Targets : WaitInv(t)) => BackoffWithinCap
  <2> SUFFICES ASSUME CheckTypeOK, NEW t \in Targets, WaitInv(t), pc[t] = "backoff"
               PROVE  wait[t] \in InitialWait..MaxWait
    BY DEF BackoffWithinCap
  <2>1. attempt[t] - 1 \in Nat /\ wait[t] = ScheduledWait(attempt[t] - 1)
    BY CheckerAssumption DEF CheckTypeOK, WaitInv
  <2> QED
    BY <2>1, ScheduledWaitBounds
<1> QED
  BY <1>1, WaitsAreScheduled, CheckTypeCorrect, PTL

\* Multiplier^k, for a whole multiplier.
Power[k \in Nat] == IF k = 0 THEN 1 ELSE MultNum * Power[k - 1]

LEMMA PowerUnfolds ==
  /\ \A k \in Nat : Power[k] \in Nat
  /\ Power[0] = 1
  /\ \A k \in Nat : Power[k + 1] = MultNum * Power[k]
<1> DEFINE step == [w \in Nat |-> MultNum * w]
           Body(f) == [k \in Nat |-> IF k = 0 THEN 1 ELSE MultNum * f[k - 1]]
<1>1. step \in [Nat -> Nat]
  BY CheckerAssumption
<1> HIDE DEF step
<1>2. PICK f \in [Nat -> Nat] : f[0] = 1 /\ \A n \in Nat : f[n + 1] = step[f[n]]
  <2>1. 1 \in Nat
    OBVIOUS
  <2> QED
    BY <1>1, <2>1, Recursion
<1>3. ASSUME NEW k \in Nat PROVE f[k] = Body(f)[k]
  <2>1. CASE k = 0
    BY <1>2, <2>1
  <2>2. CASE k # 0
    <3>1. k - 1 \in Nat /\ (k - 1) + 1 = k
      BY <2>2
    <3>2. f[k] = step[f[k - 1]]
      BY <1>2, <3>1
    <3> QED
      BY <1>2, <2>2, <3>1, <3>2 DEF step
  <2> QED
    BY <2>1, <2>2
<1>4. f = Body(f)
  BY <1>2, <1>3
<1>5. Power = Body(Power)
  BY <1>4, Zenon DEF Power
<1> DEFINE Value(k) == IF k = 0 THEN 1 ELSE MultNum * Power[k - 1]
<1>6. Power = [k \in Nat |-> Value(k)]
  BY <1>5
<1>7. \A k \in Nat : Power[k] = Value(k)
  <2> HIDE DEF Value
  <2> QED
    BY <1>6
<1>8. Power[0] = 1
  BY <1>7
<1>9. ASSUME NEW k \in Nat PROVE Power[k + 1] = MultNum * Power[k]
  <2>1. k + 1 \in Nat /\ k + 1 # 0 /\ (k + 1) - 1 = k
    OBVIOUS
  <2> QED
    BY <1>7, <2>1
<1> DEFINE S == {k \in Nat : Power[k] \in Nat}
<1>10. 0 \in S
  BY <1>8
<1>11. ASSUME NEW k \in Nat, k \in S PROVE k + 1 \in S
  BY <1>9, <1>11, CheckerAssumption
<1>12. Nat \subseteq S
  <2> HIDE DEF S
  <2> QED
    BY <1>10, <1>11, Induction
<1> QED
  BY <1>8, <1>9, <1>12

\* With a whole multiplier the schedule is the documented power: after k
\* retries the uncapped wait is InitialWait * Multiplier^k (Check, RetryConfig).
THEOREM ScheduleIsExponential ==
  ASSUME MultDen = 1
  PROVE  \A k \in Nat : Planned[k] = InitialWait * Power[k]
<1> DEFINE S == {k \in Nat : Planned[k] = InitialWait * Power[k]}
<1>1. 0 \in S
  BY PlannedUnfolds, PowerUnfolds, CheckerAssumption
<1>2. ASSUME NEW k \in Nat, k \in S PROVE k + 1 \in S
  <2>1. /\ InitialWait \in Nat /\ MultNum \in Nat
        /\ Power[k] \in Nat /\ Planned[k] \in Nat
        /\ Planned[k] = InitialWait * Power[k]
    BY <1>2, PowerUnfolds, PlannedUnfolds, CheckerAssumption
  <2>2. Planned[k + 1] = Planned[k] * MultNum
    BY <2>1, PlannedUnfolds
  <2>3. Power[k + 1] = MultNum * Power[k]
    BY PowerUnfolds
  <2>4. \A i, m, p \in Nat : (i * p) * m = i * (m * p)
    OBVIOUS
  <2> QED
    BY <2>1, <2>2, <2>3, <2>4
<1> HIDE DEF S
<1>3. Nat \subseteq S
  BY <1>1, <1>2, Induction
<1> QED
  BY <1>3 DEF S

-----------------------------------------------------------------------------
(***************************************************************************)
(* How long a check may take.  Rest(t) says that no deadline is left over  *)
(* where the goroutine waits for nothing, Owed(t) how many ticks it may    *)
(* still wait and Steps(t) how many steps of its own it may still take     *)
(* before it returns.                                                      *)
(***************************************************************************)
Rest(t) == pc[t] \in {"idle", "top", "returned", "stopped"} => left[t] = 0

More(t) == MaxAttempts - attempt[t]

Owed(t) ==
  CASE pc[t] = "top" -> (More(t) + 1) * Timeout[t] + More(t) * MaxWait
    [] pc[t] = "probing" -> left[t] + More(t) * Timeout[t] + More(t) * MaxWait
    [] pc[t] = "backoff" -> left[t] + More(t) * Timeout[t] + (More(t) - 1) * MaxWait
    [] OTHER -> 0

Steps(t) ==
  CASE pc[t] = "top" -> 3 * More(t) + 2
    [] pc[t] = "probing" -> 3 * More(t) + 1
    [] pc[t] = "backoff" -> 3 * More(t)
    [] OTHER -> 0

\* Every attempt times out, and every sleep but the last, which is not slept,
\* is as long as the cap.
LongestCheck(t) == MaxAttempts * Timeout[t] + (MaxAttempts - 1) * MaxWait
MostSteps == 3 * MaxAttempts - 1

\* A tick the check of t spends waiting for a deadline, and a step it takes.
Waits(t) == CheckTick /\ pc[t] \in {"top", "probing", "backoff"} /\ left[t] > 0
Moves(t) == Answered(t) \/ CheckStep(t)

LEMMA Products ==
  ASSUME NEW n \in Int, NEW a \in Int
  PROVE  /\ n * a \in Int
         /\ (n + 1) * a = n * a + a
         /\ (n - 1) * a = n * a - a
         /\ n \in Nat /\ a \in Nat => n * a \in Nat
BY SMT

OwedTypeOK == \A t \in Targets : Owed(t) \in Nat /\ Steps(t) \in Nat

LEMMA OwedType == CheckIInv => OwedTypeOK
<1> SUFFICES ASSUME CheckIInv, NEW t \in Targets
             PROVE  Owed(t) \in Nat /\ Steps(t) \in Nat
  BY DEF OwedTypeOK
<1>1. /\ Timeout[t] \in Nat /\ MaxWait \in Nat /\ left[t] \in Nat
      /\ attempt[t] \in 0..MaxAttempts /\ MaxAttempts \in Nat
  BY CheckerAssumption DEF CheckIInv, CheckTypeOK
<1>2. More(t) \in Nat /\ (pc[t] = "backoff" => More(t) - 1 \in Nat)
  BY <1>1 DEF More, CheckIInv, CheckInv, Counted
<1>3. /\ (More(t) + 1) * Timeout[t] \in Nat
      /\ More(t) * Timeout[t] \in Nat
      /\ More(t) * MaxWait \in Nat
      /\ pc[t] = "backoff" => (More(t) - 1) * MaxWait \in Nat
  BY <1>1, <1>2, Products
<1> HIDE DEF More
<1> QED
  BY <1>1, <1>2, <1>3 DEF Owed, Steps

\* A step that leaves t where it is, but for the deadline it waits for.
LEMMA OwedKept ==
  ASSUME NEW t \in Targets, Untouched(t), left'[t] = left[t]
  PROVE  Owed(t)' = Owed(t) /\ Steps(t)' = Steps(t) /\ (Rest(t) => Rest(t)')
BY DEF Untouched, Owed, Steps, Rest, More

\* A step t takes pays for all the waiting it brings.
LEMMA OwedMoves ==
  ASSUME CheckIInv, NEW t \in Targets, Rest(t), Moves(t)
  PROVE  /\ Rest(t)'
         /\ Owed(t)' <= Owed(t)
         /\ Steps(t)' < Steps(t)
<1>1. /\ Timeout[t] \in Nat /\ MaxWait \in Nat /\ left[t] \in Nat
      /\ attempt[t] \in 0..MaxAttempts /\ MaxAttempts \in Nat /\ wait[t] \in Int
      /\ wait[t] <= MaxWait
  BY CheckerAssumption DEF CheckIInv, CheckTypeOK, DurationMin
<1>2. More(t) \in Nat /\ Owed(t) \in Nat /\ Steps(t) \in Nat
  BY <1>1, OwedType DEF OwedTypeOK, More
<1>3. /\ (More(t) + 1) * Timeout[t] = More(t) * Timeout[t] + Timeout[t]
      /\ (More(t) - 1) * MaxWait = More(t) * MaxWait - MaxWait
      /\ More(t) * Timeout[t] \in Nat /\ More(t) * MaxWait \in Nat
  BY <1>1, <1>2, Products
<1>4. CASE pc'[t] = "returned" /\ left'[t] = 0
  <2>1. pc[t] \in {"top", "probing", "backoff"}
    BY DEF Moves, Answered, CheckStep, StopBeforeProbe, SendProbe, ProbeTimesOut,
           ProbeCancelled, BackoffElapsed, BackoffCancelled, ProbeReturns
  <2>2. pc[t] = "backoff" => More(t) > 0
    BY <2>1, <1>1 DEF More, CheckIInv, CheckInv, Counted
  <2>3. Steps(t) > 0
    BY <1>2, <2>1, <2>2 DEF Steps
  <2> QED
    BY <1>2, <1>4, <2>3 DEF Owed, Steps, Rest
<1>5. CASE SendProbe(t)
  <2>1. /\ pc[t] = "top" /\ pc'[t] = "probing" /\ left'[t] = Timeout[t]
        /\ More(t)' = More(t)
    BY <1>5 DEF SendProbe, CheckIInv, CheckTypeOK, More
  <2>2. /\ Owed(t) = More(t) * Timeout[t] + Timeout[t] + More(t) * MaxWait
        /\ Steps(t) = 3 * More(t) + 2
    BY <1>3, <2>1 DEF Owed, Steps
  <2>3. /\ Owed(t)' = Timeout[t] + More(t) * Timeout[t] + More(t) * MaxWait
        /\ Steps(t)' = 3 * More(t) + 1
    BY <2>1 DEF Owed, Steps
  <2> QED
    BY <1>1, <1>2, <1>3, <2>1, <2>2, <2>3 DEF Rest
<1>6. CASE pc[t] = "probing" /\ pc'[t] = "backoff" /\ attempt'[t] = attempt[t]
           /\ left'[t] = Sleep(wait[t])
  <2>1. More(t)' = More(t) /\ left'[t] \in Nat /\ left'[t] <= MaxWait
    BY <1>1, <1>6 DEF More, Sleep
  <2>2. /\ Owed(t) = left[t] + More(t) * Timeout[t] + More(t) * MaxWait
        /\ Steps(t) = 3 * More(t) + 1
    BY <1>6 DEF Owed, Steps
  <2>3. /\ Owed(t)' = left'[t] + More(t) * Timeout[t] + More(t) * MaxWait - MaxWait
        /\ Steps(t)' = 3 * More(t)
    BY <1>1, <1>2, <1>3, <1>6, <2>1 DEF Owed, Steps
  <2> QED
    BY <1>1, <1>2, <1>3, <1>6, <2>1, <2>2, <2>3 DEF Rest
<1>7. CASE BackoffElapsed(t)
  <2>1. /\ pc[t] = "backoff" /\ pc'[t] = "top" /\ left[t] = 0 /\ left'[t] = 0
        /\ attempt'[t] = attempt[t] + 1
    BY <1>7 DEF BackoffElapsed, CheckIInv, CheckTypeOK
  <2>2. More(t)' = More(t) - 1
    BY <1>1, <2>1 DEF More
  <2>3. /\ Owed(t) = More(t) * Timeout[t] + More(t) * MaxWait - MaxWait
        /\ Steps(t) = 3 * More(t)
    BY <1>1, <1>3, <2>1 DEF Owed, Steps
  <2>4. /\ Owed(t)' = More(t) * Timeout[t] + More(t) * MaxWait - MaxWait
        /\ Steps(t)' = 3 * (More(t) - 1) + 2
    <3>1. Owed(t)' = (More(t)' + 1) * Timeout[t] + More(t)' * MaxWait
      BY <2>1 DEF Owed
    <3>2. More(t)' + 1 = More(t)
      BY <1>2, <2>2
    <3> QED
      BY <1>3, <2>1, <2>2, <3>1, <3>2 DEF Steps
  <2> QED
    BY <1>1, <1>2, <1>3, <2>1, <2>3, <2>4 DEF Rest
<1>8. ASSUME NEW obs, ProbeReturns(t, obs)
      PROVE  \/ pc'[t] = "returned" /\ left'[t] = 0
             \/ /\ pc[t] = "probing" /\ pc'[t] = "backoff"
                /\ attempt'[t] = attempt[t] /\ left'[t] = Sleep(wait[t])
  BY <1>8 DEF ProbeReturns, CheckIInv, CheckTypeOK
<1>9. StopBeforeProbe(t) \/ BackoffCancelled(t) => pc'[t] = "returned" /\ left'[t] = 0
  BY DEF StopBeforeProbe, BackoffCancelled, CheckIInv, CheckTypeOK, Rest
<1> QED
  BY <1>4, <1>5, <1>6, <1>7, <1>8, <1>9
     DEF Moves, Answered, CheckStep, ProbeTimesOut, ProbeCancelled

LEMMA OwedAtStart ==
  ASSUME NEW t \in Targets, pc'[t] = "top", attempt'[t] = 1
  PROVE  Owed(t)' = LongestCheck(t) /\ Steps(t)' = MostSteps
<1>1. More(t)' = MaxAttempts - 1 /\ More(t)' + 1 = MaxAttempts
  BY CheckerAssumption DEF More
<1> QED
  BY <1>1, CheckerAssumption DEF Owed, Steps, LongestCheck, MostSteps

\* A tick spent waiting is paid.
LEMMA OwedTicks ==
  ASSUME CheckIInv, NEW t \in Targets, pc[t] \in {"probing", "backoff"},
         pc'[t] = pc[t], attempt'[t] = attempt[t], left'[t] = left[t] - 1
  PROVE  Owed(t)' = Owed(t) - 1 /\ Steps(t)' = Steps(t)
<1>1. /\ More(t) \in Int /\ More(t) * Timeout[t] \in Int
      /\ More(t) * MaxWait \in Int /\ (More(t) - 1) * MaxWait \in Int
      /\ left[t] \in Int /\ More(t)' = More(t)
  BY CheckerAssumption, Products DEF More, CheckIInv, CheckTypeOK
<1> QED
  BY <1>1 DEF Owed, Steps

\* What every step of the system does to what t owes.
LEMMA OwedFalls ==
  ASSUME CheckIInv, NEW t \in Targets, Rest(t), [CheckNext]_checkVars
  PROVE  /\ Rest(t)'
         /\ Call(t) => Owed(t)' = LongestCheck(t) /\ Steps(t)' = MostSteps
         /\ ~Call(t) => Owed(t)' <= Owed(t) /\ Steps(t)' <= Steps(t)
         /\ Waits(t) => Owed(t)' < Owed(t) /\ ~Call(t)
         /\ Moves(t) => Steps(t)' < Steps(t) /\ ~Call(t)
<1>1. Owed(t) \in Nat /\ Steps(t) \in Nat
  BY OwedType DEF OwedTypeOK
<1>2. Waits(t) => ~Call(t) /\ ~Moves(t)
  BY DEF Waits, CheckTick, Call, StartCheck, Moves, Answered, CheckStep, locals,
         StopBeforeProbe, SendProbe, ProbeTimesOut, ProbeCancelled, ProbeReturns,
         BackoffElapsed, BackoffCancelled, CheckIInv, CheckTypeOK
<1>3. Moves(t) => ~Call(t)
  BY DEF Call, Moves, Answered, CheckStep, StopBeforeProbe, SendProbe,
         ProbeTimesOut, ProbeCancelled, ProbeReturns, BackoffElapsed, BackoffCancelled
<1>4. CASE Moves(t)
  <2>1. Rest(t)' /\ Owed(t)' <= Owed(t) /\ Steps(t)' < Steps(t)
    BY <1>4, OwedMoves
  <2>2. (CheckIInv => OwedTypeOK)'
    BY OwedType, PTL
  <2>3. Steps(t)' <= Steps(t)
    BY <1>1, <2>1, <2>2, CheckNextInv DEF OwedTypeOK
  <2> QED
    BY <1>2, <1>3, <1>4, <2>1, <2>3
<1>5. CASE Call(t)
  <2>1. pc'[t] = "top" /\ left'[t] = 0 /\ attempt'[t] = 1
    BY <1>5 DEF Call, StartCheck, CheckIInv, CheckTypeOK, Rest
  <2> QED
    BY <1>2, <1>3, <1>5, <2>1, OwedAtStart DEF Rest
<1>6. CASE Waits(t)
  <2>1. /\ UNCHANGED <<pc, attempt>> /\ left'[t] = left[t] - 1 /\ left[t] \in Nat
        /\ More(t)' = More(t) /\ pc[t] \in {"probing", "backoff"}
    BY <1>6 DEF Waits, CheckTick, CountDown, locals, CheckIInv, CheckTypeOK, Rest, More
  <2>2. Owed(t)' = Owed(t) - 1 /\ Steps(t)' = Steps(t)
    BY <2>1, OwedTicks
  <2> QED
    BY <1>1, <1>2, <1>6, <2>1, <2>2 DEF Rest
<1>7. ASSUME ~Moves(t), ~Call(t), ~Waits(t)
      PROVE  Rest(t)' /\ Owed(t)' <= Owed(t) /\ Steps(t)' <= Steps(t)
  <2>1. CASE Return(t)
    <3>1. pc'[t] = "idle" /\ left'[t] = left[t] /\ left[t] = 0
      BY <2>1 DEF Return, CheckIInv, CheckTypeOK, Rest
    <3> QED
      BY <1>1, <3>1 DEF Owed, Steps, Rest
  <2>2. ASSUME NEW u \in Targets \ {t}, Call(u) \/ Return(u) \/ Moves(u)
        PROVE  Untouched(t) /\ left'[t] = left[t]
    <3>1. ASSUME NEW obs, ProbeReturns(u, obs)
          PROVE  Untouched(t) /\ left'[t] = left[t]
      BY <3>1 DEF ProbeReturns, Record, Untouched, CheckIInv, CheckTypeOK
    <3>2. Call(u) \/ Return(u) => Untouched(t) /\ left'[t] = left[t]
      BY DEF Call, StartCheck, Return, Forget, Untouched, CheckIInv, CheckTypeOK
    <3>3. \/ StopBeforeProbe(u) \/ SendProbe(u)
          \/ BackoffElapsed(u) \/ BackoffCancelled(u)
          => Untouched(t) /\ left'[t] = left[t]
      BY DEF StopBeforeProbe, SendProbe, BackoffElapsed, BackoffCancelled,
             Untouched, CheckIInv, CheckTypeOK
    <3> QED
      BY <2>2, <3>1, <3>2, <3>3
         DEF Moves, Answered, CheckStep, ProbeTimesOut, ProbeCancelled
  <2>3. Cancel \/ UNCHANGED checkVars => Untouched(t) /\ left'[t] = left[t]
    BY DEF Cancel, checkVars, locals, Untouched
  <2>4. CASE CheckTick
    <3>1. CASE pc[t] \in {"top", "probing", "backoff"}
      <4>1. Untouched(t) /\ left'[t] = left[t]
        BY <1>7, <2>4, <3>1
           DEF CheckTick, CountDown, Waits, locals, Untouched, CheckIInv, CheckTypeOK
      <4> QED
        BY <1>1, <4>1, OwedKept
    <3>2. CASE pc[t] \notin {"top", "probing", "backoff"}
      <4>1. pc'[t] = pc[t] /\ (left[t] = 0 => left'[t] = 0)
        BY <2>4 DEF CheckTick, CountDown, CheckIInv, CheckTypeOK
      <4> QED
        BY <1>1, <3>2, <4>1 DEF Owed, Steps, Rest
    <3> QED
      BY <3>1, <3>2
  <2> QED
    BY <1>1, <1>7, <2>1, <2>2, <2>3, <2>4, OwedKept DEF CheckNext, Moves
<1> QED
  BY <1>1, <1>2, <1>3, <1>4, <1>5, <1>6, <1>7

\* Let waited count the ticks the check of t in progress has spent waiting for
\* deadlines, and moved the steps it has taken.  A check waits no longer than
\* for every probe to time out and for every sleep to reach the cap, and takes
\* at most three steps an attempt, whatever the servers do, whenever the
\* context is cancelled and even if a wait overflows (Check).  What the
\* scheduler adds, by running a goroutine late, is not counted.  With the
\* fairness of CheckSpec this is why every check returns.
THEOREM ChecksAreBounded ==
  ASSUME NEW t \in Targets, NEW VARIABLE waited, NEW VARIABLE moved
  PROVE  /\ CheckSpec
         /\ waited = 0 /\ moved = 0
         /\ [][/\ waited' = IF Call(t) THEN 0 ELSE
                            IF Waits(t) THEN waited + 1 ELSE waited
               /\ moved' = IF Call(t) THEN 0 ELSE
                           IF Moves(t) THEN moved + 1 ELSE moved
              ]_<<checkVars, waited, moved>>
         => [](waited <= LongestCheck(t) /\ moved <= MostSteps)
<1> DEFINE Count ==
      /\ waited' = IF Call(t) THEN 0 ELSE IF Waits(t) THEN waited + 1 ELSE waited
      /\ moved' = IF Call(t) THEN 0 ELSE IF Moves(t) THEN moved + 1 ELSE moved
    Paid == /\ waited \in Nat /\ waited + Owed(t) <= LongestCheck(t)
            /\ moved \in Nat /\ moved + Steps(t) <= MostSteps
    I == CheckIInv /\ Rest(t) /\ Paid
    Counting == [][Count]_<<checkVars, waited, moved>>
    Within == waited <= LongestCheck(t) /\ moved <= MostSteps
<1>1. LongestCheck(t) \in Nat /\ MostSteps \in Nat
  BY CheckerAssumption, Products DEF LongestCheck, MostSteps
<1>2. CheckInit /\ waited = 0 /\ moved = 0 => I
  <2> SUFFICES ASSUME CheckInit, waited = 0, moved = 0 PROVE I
    OBVIOUS
  <2>1. Rest(t) /\ Owed(t) = 0 /\ Steps(t) = 0
    BY DEF CheckInit, Rest, Owed, Steps
  <2> QED
    BY <1>1, <2>1, CheckInitInv
<1>3. I /\ [CheckNext]_checkVars /\ [Count]_<<checkVars, waited, moved>> => I'
  <2> SUFFICES ASSUME I, [CheckNext]_checkVars, [Count]_<<checkVars, waited, moved>>
               PROVE  I'
    OBVIOUS
  <2>1. CheckIInv'
    BY CheckNextInv
  <2>2. Owed(t) \in Nat /\ Steps(t) \in Nat /\ Owed(t)' \in Nat /\ Steps(t)' \in Nat
    <3>1. Owed(t) \in Nat /\ Steps(t) \in Nat
      BY OwedType DEF OwedTypeOK
    <3>2. (CheckIInv => OwedTypeOK)'
      BY OwedType, PTL
    <3> QED
      BY <2>1, <3>1, <3>2 DEF OwedTypeOK
  <2>3. CASE UNCHANGED <<checkVars, waited, moved>>
    <3>1. Untouched(t) /\ left'[t] = left[t]
      BY <2>3 DEF checkVars, locals, Untouched
    <3> QED
      BY <2>1, <2>3, <3>1, OwedKept DEF LongestCheck
  <2>4. CASE Count
    <3> HIDE DEF LongestCheck, MostSteps
    <3>1. /\ Rest(t)'
          /\ Call(t) => Owed(t)' = LongestCheck(t) /\ Steps(t)' = MostSteps
          /\ ~Call(t) => Owed(t)' <= Owed(t) /\ Steps(t)' <= Steps(t)
          /\ Waits(t) => Owed(t)' < Owed(t) /\ ~Call(t)
          /\ Moves(t) => Steps(t)' < Steps(t) /\ ~Call(t)
      BY OwedFalls
    <3>2. LongestCheck(t)' = LongestCheck(t) /\ MostSteps' = MostSteps
      BY DEF LongestCheck, MostSteps
    <3>3. Paid'
      BY <1>1, <2>2, <2>4, <3>1, <3>2
    <3> QED
      BY <2>1, <3>1, <3>3
  <2> QED
    BY <2>3, <2>4
<1>4. I => Within
  <2> SUFFICES ASSUME I PROVE Within
    OBVIOUS
  <2>1. Owed(t) \in Nat /\ Steps(t) \in Nat
    BY OwedType DEF OwedTypeOK
  <2> QED
    BY <1>1, <2>1
<1> HIDE DEF Count, I, Within
<1>5. CheckSpec /\ waited = 0 /\ moved = 0 /\ Counting => []Within
  BY <1>2, <1>3, <1>4, PTL DEF CheckSpec
<1> QED
  BY <1>5 DEF Count, Within

=============================================================================
