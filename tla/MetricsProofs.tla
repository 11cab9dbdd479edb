--------------------------- MODULE MetricsProofs ---------------------------
(***************************************************************************)
(* The steps of Metrics keep every series of a target at its latest check, *)
(* for any number of targets and checks.  LifecycleProofs uses the lemmas. *)
(***************************************************************************)
EXTENDS Metrics, TLAPS

\* The counters exist and add up to the checks that have returned.
Counted(t) ==
  /\ \A o \in Outcomes : counted[t][o] # Absent
  /\ counted[t]["failure"] = bad[t] - Behind(t, ~verdict[t].success)
  /\ counted[t]["success"] =
       checked[t] - bad[t] - Behind(t, verdict[t].success)

GaugesInv(t) ==
  \A g \in Gauges :
    shown[t][g] = IF Due(t, g) THEN checked[t] - 1 ELSE checked[t]

CertInv(t) ==
  /\ ~Due(t, "certExpiry") \/ ~verdict[t].cert =>
       shown[t]["certExpiry"] = certSeen[t]
  /\ step[t] # 0 /\ verdict[t].cert => certSeen[t] = checked[t]

SeriesInv(t) == GaugesInv(t) /\ CertInv(t)

\* The variables of one target are all an action of another leaves alone.
MetricsUntouched(t) ==
  /\ shown'[t] = shown[t]
  /\ counted'[t] = counted[t]
  /\ step'[t] = step[t]
  /\ verdict'[t] = verdict[t]
  /\ checked'[t] = checked[t]
  /\ bad'[t] = bad[t]
  /\ certSeen'[t] = certSeen[t]

LEMMA PlaceFacts ==
  /\ Len(Order) = 7
  /\ \A i \in 1..7 : Place(Order[i]) = i
  /\ Order[6] = "checks" /\ Order[7] = "certExpiry"
  /\ \A i \in 1..5 : Order[i] \in Gauges
  /\ \A g \in Gauges : Place(g) \in 1..5 /\ Order[Place(g)] = g
  /\ Place("checks") = 6 /\ Place("certExpiry") = 7
<1>1. Len(Order) = 7
  BY DEF Order
<1>2. \A i \in 1..7, j \in 1..7 : Order[i] = Order[j] => i = j
  BY DEF Order
<1>3. ASSUME NEW i \in 1..7 PROVE Place(Order[i]) = i
  BY <1>1, <1>2 DEF Place
<1>4. Order[6] = "checks" /\ Order[7] = "certExpiry"
  BY DEF Order
<1>5. \A i \in 1..5 : Order[i] \in Gauges
  BY DEF Order, Gauges
<1>6. ASSUME NEW g \in Gauges
      PROVE  Place(g) \in 1..5 /\ Order[Place(g)] = g
  <2>1. PICK i \in 1..5 : g = Order[i]
    BY DEF Order, Gauges
  <2> QED
    BY <1>3, <2>1
<1> QED
  BY <1>1, <1>3, <1>4, <1>5, <1>6

LEMMA MetricsUntouchedInv ==
  ASSUME NEW t \in Targets, MetricsUntouched(t)
  PROVE  /\ SeriesInv(t) => SeriesInv(t)'
         /\ Counted(t) => Counted(t)'
BY DEF MetricsUntouched, SeriesInv, GaugesInv, CertInv, Counted, Due, Behind

LEMMA ObserveInv ==
  ASSUME MetricsTypeOK, NEW t \in Targets, SeriesInv(t), Counted(t),
         step[t] = 0, NEW v \in Verdicts, Observe(t, v)
  PROVE  /\ MetricsTypeOK'
         /\ SeriesInv(t)' /\ Counted(t)'
         /\ step'[t] = 1
         /\ \A u \in Targets \ {t} : MetricsUntouched(u)
<1> USE DEF Observe, MetricsTypeOK
<1>1. /\ step'[t] = 1 /\ verdict'[t] = v /\ checked'[t] = checked[t] + 1
      /\ bad'[t] = IF v.success THEN bad[t] ELSE bad[t] + 1
      /\ certSeen'[t] = IF v.cert THEN checked[t] + 1 ELSE certSeen[t]
      /\ shown' = shown /\ counted' = counted
      /\ checked[t] \in Nat /\ bad[t] \in Nat
      /\ v.success \in BOOLEAN /\ v.cert \in BOOLEAN
  BY DEF Verdicts
<1>2. \A s \in Gauges \cup {"checks", "certExpiry"} : ~Due(t, s) /\ Due(t, s)'
  BY <1>1, PlaceFacts DEF Due
<1>3. MetricsTypeOK'
  <2>1. Len(Order) = 7
    BY PlaceFacts
  <2>2. step' \in [Targets -> 0..Len(Order)]
    BY <2>1
  <2>3. /\ shown' \in [Targets -> [Gauges \cup {"certExpiry"} -> Nat]]
        /\ counted' \in [Targets -> [Outcomes -> Nat \cup {Absent}]]
    OBVIOUS
  <2>6. verdict' \in [Targets -> Verdicts]
    OBVIOUS
  <2>7. checked' \in [Targets -> Nat]
    OBVIOUS
  <2>4. bad' \in [Targets -> Nat]
    <3>1. bad' = [bad EXCEPT ![t] = IF v.success THEN bad[t] ELSE bad[t] + 1]
      OBVIOUS
    <3>2. (IF v.success THEN bad[t] ELSE bad[t] + 1) \in Nat
      BY <1>1
    <3> QED
      BY <3>1, <3>2
  <2>5. certSeen' \in [Targets -> Nat]
    <3>1. certSeen' = [certSeen EXCEPT ![t] =
                         IF v.cert THEN checked[t] + 1 ELSE certSeen[t]]
      OBVIOUS
    <3>2. (IF v.cert THEN checked[t] + 1 ELSE certSeen[t]) \in Nat
      BY <1>1
    <3> QED
      BY <3>1, <3>2
  <2> QED
    BY <2>2, <2>3, <2>4, <2>5, <2>6, <2>7
<1>4. \A u \in Targets \ {t} : MetricsUntouched(u)
  BY DEF MetricsUntouched
<1> HIDE DEF Observe, MetricsTypeOK
<1>5. GaugesInv(t)'
  BY <1>1, <1>2 DEF SeriesInv, GaugesInv
<1>6. CertInv(t)'
  BY <1>1, <1>2 DEF SeriesInv, CertInv
<1>7. Counted(t)'
  <2>1. counted[t]["failure"] = bad[t] /\ counted[t]["success"] = checked[t] - bad[t]
    BY <1>1, <1>2 DEF Counted, Behind
  <2>2. CASE v.success
    BY <1>1, <1>2, <2>1, <2>2 DEF Counted, Behind
  <2>3. CASE ~v.success
    BY <1>1, <1>2, <2>1, <2>3 DEF Counted, Behind
  <2> QED
    BY <2>2, <2>3
<1> QED
  BY <1>1, <1>3, <1>4, <1>5, <1>6, <1>7 DEF SeriesInv

-----------------------------------------------------------------------------
(***************************************************************************)
(* One assignment of ObserveCheck.                                         *)
(***************************************************************************)
\* Which series are due before and after it.
LEMMA AdvanceFacts ==
  ASSUME MetricsTypeOK, NEW t \in Targets, step[t] # 0, Advance(t)
  PROVE  /\ step' \in [Targets -> 0..Len(Order)]
         /\ verdict' \in [Targets -> Verdicts]
         /\ UNCHANGED <<checked, bad, certSeen>>
         /\ step'[t] # 0 => verdict'[t] = verdict[t]
         /\ step'[t] = 0 <=> step[t] = 7
         /\ step'[t] # 0 => step'[t] = step[t] + 1
         /\ step[t] \in 1..7
         /\ \A u \in Targets \ {t} : step'[u] = step[u] /\ verdict'[u] = verdict[u]
<1>1. Len(Order) = 7
  BY PlaceFacts
<1>2. NoVerdict \in Verdicts
  BY DEF NoVerdict, Verdicts
<1>3. step[t] \in 1..7
  BY <1>1 DEF MetricsTypeOK
<1>4. CASE step[t] = 7
  <2>1. /\ step' = [step EXCEPT ![t] = 0]
        /\ verdict' = [verdict EXCEPT ![t] = NoVerdict]
        /\ UNCHANGED <<checked, bad, certSeen>>
    BY <1>1, <1>4 DEF Advance
  <2>2. step' \in [Targets -> 0..Len(Order)] /\ step'[t] = 0
    BY <1>1, <2>1 DEF MetricsTypeOK
  <2>3. verdict' \in [Targets -> Verdicts]
    BY <1>2, <2>1 DEF MetricsTypeOK
  <2>4. \A u \in Targets \ {t} : step'[u] = step[u] /\ verdict'[u] = verdict[u]
    BY <2>1 DEF MetricsTypeOK
  <2> QED
    BY <1>3, <1>4, <2>1, <2>2, <2>3, <2>4
<1>5. CASE step[t] # 7
  BY <1>1, <1>3, <1>5 DEF Advance, MetricsTypeOK
<1> QED
  BY <1>4, <1>5

LEMMA StepDue ==
  ASSUME MetricsTypeOK, NEW t \in Targets, step[t] # 0, Advance(t),
         NEW s \in Gauges \cup {"checks", "certExpiry"}
  PROVE  /\ Place(s) \in 1..7
         /\ Due(t, s) <=> step[t] <= Place(s)
         /\ Due(t, s)' <=> step[t] < Place(s)
<1>1. Place(s) \in 1..7
  BY PlaceFacts
<1>2. Due(t, s) <=> step[t] <= Place(s)
  BY DEF Due
<1>3. Due(t, s)' <=> step'[t] # 0 /\ step'[t] <= Place(s)
  BY DEF Due
<1> QED
  BY <1>1, <1>2, <1>3, AdvanceFacts

LEMMA ObserveStepInv ==
  ASSUME MetricsTypeOK, NEW t \in Targets, SeriesInv(t), Counted(t),
         ObserveStep(t)
  PROVE  /\ MetricsTypeOK'
         /\ SeriesInv(t)' /\ Counted(t)'
         /\ step[t] # 0
         /\ \A u \in Targets \ {t} : MetricsUntouched(u)
<1>1. step[t] # 0 /\ Advance(t)
  BY PlaceFacts DEF ObserveStep, SetGauge, CountCheck, SetCertExpiry
\* A name for its value now: Due(t, here)' is about the same series.
<1>0. PICK here : here = Order[step[t]]
  OBVIOUS
<1>2. /\ here \in Gauges \cup {"checks", "certExpiry"}
      /\ Place(here) = step[t]
      /\ step[t] \in 1..7
      /\ \A s \in Gauges \cup {"checks", "certExpiry"} :
           Place(s) = step[t] => s = here
  <2>1. step[t] \in 1..7
    BY <1>1, AdvanceFacts
  <2>2. CASE step[t] \in 1..5
    BY <1>0, <2>1, <2>2, PlaceFacts
  <2>3. CASE step[t] \in {6, 7}
    BY <1>0, <2>1, <2>3, PlaceFacts
  <2> QED
    BY <2>1, <2>2, <2>3
<1>3. \A s \in Gauges \cup {"checks", "certExpiry"} :
        /\ Due(t, here) /\ ~Due(t, here)'
        /\ s # here => (Due(t, s) <=> Due(t, s)')
  <2> SUFFICES ASSUME NEW s \in Gauges \cup {"checks", "certExpiry"}
               PROVE  /\ Due(t, here) /\ ~Due(t, here)'
                      /\ s # here => (Due(t, s) <=> Due(t, s)')
    OBVIOUS
  <2>1. Due(t, here) /\ ~Due(t, here)'
    BY <1>1, <1>2, StepDue
  <2>2. CASE s # here
    <3>1. Place(s) # step[t] /\ Place(s) \in 1..7
      BY <1>1, <1>2, <2>2, StepDue
    <3> QED
      BY <1>1, <1>2, <3>1, StepDue
  <2> QED
    BY <2>1, <2>2
<1>4. /\ checked' = checked /\ bad' = bad /\ certSeen' = certSeen
      /\ checked[t] \in Nat /\ bad[t] \in Nat
      /\ step'[t] # 0 => verdict'[t] = verdict[t]
      /\ verdict[t].success \in BOOLEAN /\ verdict[t].cert \in BOOLEAN
      /\ \A u \in Targets \ {t} : step'[u] = step[u] /\ verdict'[u] = verdict[u]
  BY <1>1, AdvanceFacts DEF MetricsTypeOK, Verdicts
<1>5. Gauges \cap {"checks", "certExpiry"} = {}
  BY DEF Gauges
<1>6. CASE SetGauge(t)
  <2>1. /\ here \in Gauges /\ counted' = counted
        /\ shown' = [shown EXCEPT ![t][here] = checked[t]]
    BY <1>0, <1>6 DEF SetGauge
  <2>2. MetricsTypeOK'
    BY <1>1, <1>4, <2>1, AdvanceFacts DEF MetricsTypeOK
  <2>3. \A u \in Targets \ {t} : MetricsUntouched(u)
    BY <1>4, <2>1 DEF MetricsTypeOK, MetricsUntouched
  <2>4. /\ shown'[t][here] = checked[t]
        /\ \A s \in (Gauges \cup {"certExpiry"}) \ {here} : shown'[t][s] = shown[t][s]
    <3>1. shown'[t] = [shown[t] EXCEPT ![here] = checked[t]]
      BY <2>1 DEF MetricsTypeOK
    <3>2. shown[t] \in [Gauges \cup {"certExpiry"} -> Nat]
      BY DEF MetricsTypeOK
    <3> QED
      BY <2>1, <3>1, <3>2
  <2>5. GaugesInv(t)'
    <3> SUFFICES ASSUME NEW g \in Gauges
                 PROVE  shown'[t][g] = IF Due(t, g)' THEN checked'[t] - 1 ELSE checked'[t]
      BY DEF GaugesInv
    <3>1. CASE g = here
      BY <1>3, <1>4, <2>4, <3>1
    <3>2. CASE g # here
      <4>1. shown[t][g] = IF Due(t, g) THEN checked[t] - 1 ELSE checked[t]
        BY DEF SeriesInv, GaugesInv
      <4>2. shown'[t][g] = shown[t][g] /\ (Due(t, g) <=> Due(t, g)')
        BY <1>3, <2>4, <3>2
      <4> QED
        BY <1>4, <4>1, <4>2
    <3> QED
      BY <3>1, <3>2
  <2>6. CertInv(t)'
    <3>1. here # "certExpiry"
      BY <1>5, <2>1
    <3>2. Due(t, "certExpiry") /\ Due(t, "certExpiry")'
      <4>1. Due(t, "certExpiry") <=> Due(t, "certExpiry")'
        BY <1>3, <3>1
      <4>2. Due(t, "certExpiry")
        BY <1>1, <1>2, PlaceFacts DEF Due
      <4> QED
        BY <4>1, <4>2
    <3>3. step'[t] # 0
      BY <3>2 DEF Due
    <3>4. verdict'[t] = verdict[t]
      BY <1>4, <3>3
    <3>5. shown'[t]["certExpiry"] = shown[t]["certExpiry"]
      BY <2>4, <3>1
    <3> QED
      BY <1>1, <1>4, <3>2, <3>4, <3>5 DEF SeriesInv, CertInv
  <2>7. Counted(t)'
    BY <1>3, <1>4, <1>5, <2>1 DEF Counted, Behind, Due
  <2> QED
    BY <1>1, <2>2, <2>3, <2>5, <2>6, <2>7 DEF SeriesInv
<1>7. CASE CountCheck(t)
  <2> DEFINE outcome == IF verdict[t].success THEN "success" ELSE "failure"
  <2>1. /\ here = "checks" /\ shown' = shown /\ step[t] = 6
        /\ counted' = [counted EXCEPT ![t][outcome] =
             IF counted[t][outcome] = Absent THEN 1 ELSE counted[t][outcome] + 1]
    BY <1>0, <1>7, PlaceFacts DEF CountCheck
  <2>2. outcome \in Outcomes
    BY DEF Outcomes
  <2> DEFINE old == counted[t][outcome]
             new == IF old = Absent THEN 1 ELSE old + 1
  <2>10. counted[t] \in [Outcomes -> Nat \cup {Absent}]
    BY DEF MetricsTypeOK
  <2>11. old \in Nat \cup {Absent} /\ new \in Nat /\ (old # Absent => old \in Nat /\ new = old + 1)
    BY <2>2, <2>10 DEF Absent
  <2>12. counted'[t] = [counted[t] EXCEPT ![outcome] = new]
    BY <2>1 DEF MetricsTypeOK
  <2>13. counted' \in [Targets -> [Outcomes -> Nat \cup {Absent}]]
    <3> HIDE DEF new, outcome
    <3>1. [counted[t] EXCEPT ![outcome] = new] \in [Outcomes -> Nat \cup {Absent}]
      BY <2>2, <2>10, <2>11
    <3>2. counted' = [counted EXCEPT ![t] = [counted[t] EXCEPT ![outcome] = new]]
      BY <2>1 DEF new
    <3> QED
      BY <3>1, <3>2 DEF MetricsTypeOK
  <2>3. MetricsTypeOK'
    BY <1>1, <1>4, <2>1, <2>13, AdvanceFacts DEF MetricsTypeOK
  <2>4. \A u \in Targets \ {t} : MetricsUntouched(u)
    BY <1>4, <2>1 DEF MetricsTypeOK, MetricsUntouched
  <2>5. GaugesInv(t)'
    BY <1>3, <1>4, <1>5, <2>1 DEF SeriesInv, GaugesInv
  <2>6. CertInv(t)'
    BY <1>1, <1>3, <1>4, <2>1, AdvanceFacts DEF SeriesInv, CertInv, Due
  <2>7. Counted(t)'
    <3>1. Due(t, "checks") /\ ~Due(t, "checks")'
      BY <1>3, <2>1
    <3>2. \A o \in Outcomes : counted[t][o] # Absent
      BY DEF Counted
    <3>3. old \in Nat /\ new = old + 1
      BY <2>2, <2>11, <3>2
    <3>4. /\ counted'[t][outcome] = old + 1
          /\ \A o \in Outcomes \ {outcome} : counted'[t][o] = counted[t][o]
      <4> HIDE DEF new, outcome
      <4>1. counted'[t] = [counted[t] EXCEPT ![outcome] = old + 1]
        BY <2>12, <3>3
      <4> QED
        BY <2>2, <2>10, <4>1
    <3>5. \A o \in Outcomes : counted'[t][o] # Absent
      BY <3>2, <3>3, <3>4 DEF Absent
    <3>6. CASE verdict[t].success
      <4>1. /\ counted'[t]["success"] = counted[t]["success"] + 1
            /\ counted'[t]["failure"] = counted[t]["failure"]
        BY <3>4, <3>6 DEF Outcomes
      <4>2. /\ counted[t]["failure"] = bad[t]
            /\ counted[t]["success"] = checked[t] - bad[t] - 1
        BY <1>4, <3>1, <3>6 DEF Counted, Behind
      <4> QED
        BY <1>4, <3>1, <3>5, <4>1, <4>2 DEF Counted, Behind
    <3>7. CASE ~verdict[t].success
      <4>1. /\ counted'[t]["success"] = counted[t]["success"]
            /\ counted'[t]["failure"] = counted[t]["failure"] + 1
        BY <3>4, <3>7 DEF Outcomes
      <4>2. /\ counted[t]["failure"] = bad[t] - 1
            /\ counted[t]["success"] = checked[t] - bad[t]
        BY <1>4, <3>1, <3>7 DEF Counted, Behind
      <4> QED
        BY <1>4, <3>1, <3>5, <4>1, <4>2 DEF Counted, Behind
    <3> QED
      BY <3>6, <3>7
  <2> QED
    BY <1>1, <2>3, <2>4, <2>5, <2>6, <2>7 DEF SeriesInv
<1>8. CASE SetCertExpiry(t)
  <2>1. /\ here = "certExpiry" /\ counted' = counted /\ step[t] = 7
        /\ shown' = [shown EXCEPT ![t]["certExpiry"] =
             IF verdict[t].cert THEN checked[t] ELSE shown[t]["certExpiry"]]
    BY <1>0, <1>8, PlaceFacts DEF SetCertExpiry
  <2>2. MetricsTypeOK'
    BY <1>1, <1>4, <2>1, AdvanceFacts DEF MetricsTypeOK
  <2>3. \A u \in Targets \ {t} : MetricsUntouched(u)
    BY <1>4, <2>1 DEF MetricsTypeOK, MetricsUntouched
  <2>4. step'[t] = 0
    BY <1>1, <2>1, AdvanceFacts
  <2>5. GaugesInv(t)'
    BY <1>3, <1>4, <1>5, <2>1 DEF SeriesInv, GaugesInv, MetricsTypeOK
  <2>6. CertInv(t)'
    BY <1>3, <1>4, <2>1, <2>4 DEF SeriesInv, CertInv, MetricsTypeOK, Due
  <2>7. Counted(t)'
    BY <1>3, <1>4, <1>5, <2>1, <2>4 DEF Counted, Behind, Due
  <2> QED
    BY <1>1, <2>2, <2>3, <2>5, <2>6, <2>7 DEF SeriesInv
<1> QED
  BY <1>6, <1>7, <1>8 DEF ObserveStep
=============================================================================
