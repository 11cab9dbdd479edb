------------------------------ MODULE Metrics ------------------------------
(***************************************************************************)
(* metrics.Metrics (internal/metrics/metrics.go): the per-target series,   *)
(* written one assignment at a time by the target's own goroutine, so that *)
(* a scrape may read them between any two.                                 *)
(*                                                                         *)
(* A gauge is abstracted to the number of the check whose value it shows,  *)
(* 0 before the first: every assignment takes its value from one result.   *)
(***************************************************************************)
EXTENDS Domain, Integers, Sequences

VARIABLES
  shown,      \* shown[t][g]: the check whose value gauge g of t shows
  counted,    \* joghd_checks_total of t, by outcome, or Absent
  step,       \* the assignment of ObserveCheck that is next, or 0
  verdict,    \* the result t's goroutine has in hand
  checked,    \* how many checks of t have returned (history)
  bad,        \* how many of them failed (history)
  certSeen    \* the last of them that saw a certificate, or 0 (history)

metricVars == <<shown, counted, step, verdict, checked, bad, certSeen>>

\* ObserveCheck's assignments, in their order.
Order == <<"up", "latency", "status", "attempts", "lastCheck",
           "checks", "certExpiry">>
Gauges == {"up", "latency", "status", "attempts", "lastCheck"}
Place(s) == CHOOSE i \in 1..Len(Order) : Order[i] = s

Outcomes == {"success", "failure"}
Absent == -1

\* What ObserveCheck needs of a domain.CheckResult.
Verdicts == [success: BOOLEAN, cert: BOOLEAN]
NoVerdict == [success |-> FALSE, cert |-> FALSE]

MetricsInit ==
  /\ shown = [t \in Targets |-> [g \in Gauges \cup {"certExpiry"} |-> 0]]
  /\ counted = [t \in Targets |-> [o \in Outcomes |-> Absent]]
  /\ step = [t \in Targets |-> 0]
  /\ verdict = [t \in Targets |-> NoVerdict]
  /\ checked = [t \in Targets |-> 0]
  /\ bad = [t \in Targets |-> 0]
  /\ certSeen = [t \in Targets |-> 0]

\* RegisterTarget, of every target: the counters exist at zero.
RegisterTargets ==
  /\ counted' = [t \in Targets |-> [o \in Outcomes |-> 0]]
  /\ UNCHANGED <<shown, step, verdict, checked, bad, certSeen>>

\* Check returns v and ObserveCheck begins.
Observe(t, v) ==
  /\ verdict' = [verdict EXCEPT ![t] = v]
  /\ checked' = [checked EXCEPT ![t] = @ + 1]
  /\ bad' = [bad EXCEPT ![t] = IF v.success THEN @ ELSE @ + 1]
  /\ certSeen' = [certSeen EXCEPT ![t] = IF v.cert THEN checked[t] + 1 ELSE @]
  /\ step' = [step EXCEPT ![t] = 1]
  /\ UNCHANGED <<shown, counted>>

\* On to the next assignment; after the last, ObserveCheck returns.
Advance(t) ==
  /\ IF step[t] = Len(Order)
     THEN /\ step' = [step EXCEPT ![t] = 0]
          /\ verdict' = [verdict EXCEPT ![t] = NoVerdict]
     ELSE /\ step' = [step EXCEPT ![t] = @ + 1]
          /\ UNCHANGED verdict
  /\ UNCHANGED <<checked, bad, certSeen>>

SetGauge(t) ==
  /\ step[t] # 0
  /\ Order[step[t]] \in Gauges
  /\ shown' = [shown EXCEPT ![t][Order[step[t]]] = checked[t]]
  /\ Advance(t)
  /\ UNCHANGED counted

CountCheck(t) ==
  LET outcome == IF verdict[t].success THEN "success" ELSE "failure"
  IN  /\ step[t] = Place("checks")
      /\ counted' = [counted EXCEPT ![t][outcome] = IF @ = Absent THEN 1 ELSE @ + 1]
      /\ Advance(t)
      /\ UNCHANGED shown

\* Mutant: a check without a certificate drops the series.
SetCertExpiry_Drops(t) ==
  /\ step[t] = Place("certExpiry")
  /\ shown' = [shown EXCEPT ![t]["certExpiry"] =
                 IF verdict[t].cert THEN checked[t] ELSE 0]
  /\ Advance(t)
  /\ UNCHANGED counted

\* A check that saw no certificate keeps the last one seen.
SetCertExpiry(t) ==
  /\ step[t] = Place("certExpiry")
  /\ shown' = [shown EXCEPT ![t]["certExpiry"] =
                 IF verdict[t].cert THEN checked[t] ELSE @]
  /\ Advance(t)
  /\ UNCHANGED counted

ObserveStep(t) == SetGauge(t) \/ CountCheck(t) \/ SetCertExpiry(t)

-----------------------------------------------------------------------------
MetricsTypeOK ==
  /\ shown \in [Targets -> [Gauges \cup {"certExpiry"} -> Nat]]
  /\ counted \in [Targets -> [Outcomes -> Nat \cup {Absent}]]
  /\ step \in [Targets -> 0..Len(Order)]
  /\ verdict \in [Targets -> Verdicts]
  /\ checked \in [Targets -> Nat]
  /\ bad \in [Targets -> Nat]
  /\ certSeen \in [Targets -> Nat]

\* Whether ObserveCheck has yet to come to series s for the latest check.
Due(t, s) == step[t] # 0 /\ step[t] <= Place(s)

\* How many checks, of those the predicate counts, the counters are behind.
Behind(t, one) == IF Due(t, "checks") /\ one THEN 1 ELSE 0

\* What a scrape may read of a target, at any moment.  A gauge shows the latest
\* check, or the one before while ObserveCheck is still to set it.  The
\* counters add up to the checks that have returned, each under its outcome,
\* in the same sense.  The expiry is the one of the last check that saw a
\* certificate (README, Metrics: "reflects the target's latest check"; "kept
\* through a failed handshake").
SeriesAreCurrent(t) ==
  /\ \A g \in Gauges :
       shown[t][g] = IF Due(t, g) THEN checked[t] - 1 ELSE checked[t]
  /\ checked[t] > 0 =>
       /\ counted[t]["failure"] = bad[t] - Behind(t, ~verdict[t].success)
       /\ counted[t]["success"] =
            checked[t] - bad[t] - Behind(t, verdict[t].success)
  /\ ~Due(t, "certExpiry") \/ ~verdict[t].cert =>
       shown[t]["certExpiry"] = certSeen[t]
=============================================================================
