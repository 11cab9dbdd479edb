-------------------------- MODULE LifecycleProofs --------------------------
(***************************************************************************)
(* Safety of the process in continuous mode, for any number of targets,    *)
(* any proxy settings and any number of checks.                            *)
(***************************************************************************)
EXTENDS Lifecycle, HttpClientsProofs, MetricsProofs

(***************************************************************************)
(* The three parts are tied together by where each loop is: it is in       *)
(* Execute only while probing and in ObserveCheck only while observing,    *)
(* and it has not begun before the runner starts.                          *)
(***************************************************************************)
AppTypes ==
  /\ stage \in Stages
  /\ exit \in {0, 1}
  /\ server \in {"off", "down", "up", "draining"}
  /\ scrape \in BOOLEAN
  /\ ctxDone \in BOOLEAN
  /\ loop \in [Targets -> Loops]

LoopInv(t) ==
  /\ step[t] # 0 <=> loop[t] = "observing"
  /\ at[t] # "out" => loop[t] = "probing"
  /\ stage \in {"construct", "listen", "run"} => loop[t] = "idle"

\* New creates the counters before the metrics server is up.
CountsInv(t) ==
  IF stage = "construct" THEN checked[t] = 0 /\ bad[t] = 0 ELSE Counted(t)

AppInv ==
  /\ server \in {"up", "draining"} => stage \notin {"construct", "listen"}
  /\ scrape => server \in {"up", "draining"}
  /\ stage \in {"shutdown", "close", "closed", "exited"} =>
       ctxDone \/ \A t \in Targets : loop[t] = "idle"

IInv ==
  /\ ClientsInv
  /\ MetricsTypeOK
  /\ AppTypes
  /\ AppInv
  /\ \A t \in Targets : SeriesInv(t) /\ LoopInv(t) /\ CountsInv(t)

LEMMA InitInv == Init => IInv
<1> SUFFICES ASSUME Init PROVE IInv
  OBVIOUS
<1>1. ClientsInv
  BY ClientsInitInv DEF Init
<1>2. MetricsTypeOK
  BY PlaceFacts DEF Init, MetricsInit, MetricsTypeOK, Absent, NoVerdict, Verdicts
<1>3. AppTypes /\ AppInv
  BY DEF Init, AppTypes, AppInv, Stages, Loops
<1>4. \A t \in Targets : SeriesInv(t)
  BY DEF Init, MetricsInit, SeriesInv, GaugesInv, CertInv, Due, NoVerdict
<1>5. \A t \in Targets : LoopInv(t) /\ CountsInv(t)
  BY DEF Init, MetricsInit, ClientsInit, LoopInv, CountsInv
<1> QED
  BY <1>1, <1>2, <1>3, <1>4, <1>5 DEF IInv

-----------------------------------------------------------------------------
(***************************************************************************)
(* The hooks.                                                              *)
(***************************************************************************)
LEMMA MetricsIdleInv ==
  ASSUME MetricsTypeOK, UNCHANGED metricVars
  PROVE  /\ MetricsTypeOK'
         /\ \A t \in Targets :
              /\ SeriesInv(t) => SeriesInv(t)'
              /\ Counted(t) => Counted(t)'
<1>1. MetricsTypeOK'
  BY DEF MetricsTypeOK, metricVars
<1>2. \A t \in Targets : MetricsUntouched(t)
  BY DEF MetricsUntouched, metricVars
<1> QED
  BY <1>1, <1>2, MetricsUntouchedInv

\* A step of main, of fx or of a scraper that touches no target.
LEMMA ElsewhereInv ==
  ASSUME IInv, ClientsInv', UNCHANGED <<metricVars, at, loop>>,
         AppTypes', AppInv',
         stage # "construct", stage' \notin {"construct", "listen"},
         stage' = "run" => stage = "listen" \/ stage = "run"
  PROVE  IInv'
<1>1. MetricsTypeOK' /\ \A t \in Targets : SeriesInv(t)'
  BY MetricsIdleInv DEF IInv
<1>2. \A t \in Targets : CountsInv(t)'
  BY MetricsIdleInv DEF IInv, CountsInv
<1>3. \A t \in Targets : LoopInv(t)'
  BY DEF IInv, LoopInv, metricVars
<1> QED
  BY <1>1, <1>2, <1>3 DEF IInv

LEMMA ConstructInv ==
  ASSUME IInv, Construct
  PROVE  IInv'
<1> USE DEF Construct, RegisterTargets
<1>1. ClientsInv'
  BY ClientsIdleInv DEF IInv
<1>2. counted' \in [Targets -> [Outcomes -> Nat \cup {Absent}]]
  OBVIOUS
<1>3. MetricsTypeOK'
  BY <1>2 DEF IInv, MetricsTypeOK
<1>4. AppTypes' /\ AppInv'
  BY DEF IInv, AppTypes, AppInv, Stages
<1>5. \A t \in Targets : SeriesInv(t)'
  BY DEF IInv, SeriesInv, GaugesInv, CertInv, Due
<1>6. \A t \in Targets : LoopInv(t)'
  BY DEF IInv, LoopInv, clientVars
<1>7. ASSUME NEW t \in Targets PROVE CountsInv(t)'
  <2>1. step[t] = 0 /\ checked[t] = 0 /\ bad[t] = 0
    BY DEF IInv, LoopInv, CountsInv
  <2>2. counted'[t]["failure"] = 0 /\ counted'[t]["success"] = 0
    BY DEF Outcomes
  <2>3. \A o \in Outcomes : counted'[t][o] # Absent
    BY DEF Absent
  <2> QED
    BY <2>1, <2>2, <2>3 DEF CountsInv, Counted, Behind, Due
<1> QED
  BY <1>1, <1>3, <1>4, <1>5, <1>6, <1>7 DEF IInv

LEMMA StartRunnerInv ==
  ASSUME IInv, StartRunner
  PROVE  IInv'
<1> USE DEF StartRunner
<1>1. ClientsInv'
  BY ClientsIdleInv DEF IInv
<1>2. AppTypes' /\ AppInv'
  BY DEF IInv, AppTypes, AppInv, Stages, Loops
<1>3. MetricsTypeOK' /\ \A t \in Targets : SeriesInv(t)' /\ CountsInv(t)'
  BY MetricsIdleInv DEF IInv, CountsInv
<1>4. \A t \in Targets : LoopInv(t)'
  BY DEF IInv, LoopInv, metricVars, clientVars
<1> QED
  BY <1>1, <1>2, <1>3, <1>4 DEF IInv

LEMMA CloseStepInv ==
  ASSUME IInv, Close
  PROVE  IInv'
<1>1. ClientsInv'
  BY CloseInv DEF IInv, Close
<1>2. UNCHANGED <<metricVars, at, loop>>
  BY DEF Close, CloseClients
<1>3. AppTypes' /\ AppInv'
  BY DEF IInv, AppTypes, AppInv, Close, Stages
<1> QED
  BY <1>1, <1>2, <1>3, ElsewhereInv DEF Close

LEMMA AppStepInv ==
  ASSUME IInv, HookStep \/ Signal \/ ScrapeBegins \/ ScrapeEnds
  PROVE  IInv'
<1> DEFINE Small == \/ Listen \/ ListenFails \/ Signal \/ CancelRunner
                    \/ StopListening \/ ServerStopped \/ StopTimesOut \/ Exit
                    \/ ScrapeBegins \/ ScrapeEnds
<1>1. CASE Small
  <2> USE DEF Listen, ListenFails, Signal, CancelRunner, StopListening,
              ServerStopped, StopTimesOut, Exit, ScrapeBegins, ScrapeEnds
  <2>1. UNCHANGED <<clientVars, metricVars, loop>>
    BY <1>1
  <2>2. AppTypes'
    BY <1>1 DEF IInv, AppTypes, Stages
  <2>3. AppInv'
    BY <1>1 DEF IInv, AppTypes, AppInv, LoopInv, Stages
  <2>4. stage # "construct" /\ stage' # "construct" /\ stage' # "listen"
    BY <1>1 DEF IInv, AppInv
  <2>5. stage' = "run" => stage = "listen" \/ stage = "run"
    BY <1>1
  <2> HIDE DEF Small, Listen, ListenFails, Signal, CancelRunner, StopListening,
               ServerStopped, StopTimesOut, Exit, ScrapeBegins, ScrapeEnds
  <2>6. ClientsInv'
    BY <2>1, ClientsIdleInv DEF IInv
  <2> QED
    BY <2>1, <2>2, <2>3, <2>4, <2>5, <2>6, ElsewhereInv DEF clientVars
<1> QED
  BY <1>1, ConstructInv, StartRunnerInv, CloseStepInv DEF HookStep

-----------------------------------------------------------------------------
(***************************************************************************)
(* The loops.  One that takes a step is past the runner's start.           *)
(***************************************************************************)
LEMMA LoopBegun ==
  ASSUME IInv, NEW t \in Targets, loop[t] # "idle"
  PROVE  /\ stage \notin {"construct", "listen", "run"}
         /\ Counted(t)
         /\ stage \in {"shutdown", "close", "closed", "exited"} => ctxDone
BY DEF IInv, LoopInv, CountsInv, AppInv

\* A step of t's loop from one place of it to another.
LEMMA LoopMoves ==
  ASSUME IInv, NEW t \in Targets, loop[t] # "idle", UNCHANGED appVars,
         NEW p \in Loops, loop' = [loop EXCEPT ![t] = p],
         ClientsInv', MetricsTypeOK',
         SeriesInv(t)', Counted(t)',
         step'[t] # 0 <=> p = "observing",
         at'[t] # "out" => p = "probing",
         \A u \in Targets \ {t} : MetricsUntouched(u) /\ at'[u] = at[u]
  PROVE  IInv'
<1>1. AppTypes'
  BY DEF IInv, AppTypes, appVars
<1>2. /\ stage \notin {"construct", "listen", "run"}
      /\ stage \in {"shutdown", "close", "closed", "exited"} => ctxDone
  BY LoopBegun
<1>3. AppInv'
  BY <1>2 DEF IInv, AppInv, appVars
<1>4. loop'[t] = p /\ \A u \in Targets \ {t} : loop'[u] = loop[u]
  BY DEF IInv, AppTypes
<1>5. ASSUME NEW u \in Targets PROVE LoopInv(u)'
  <2>1. CASE u = t
    BY <1>2, <1>4, <2>1 DEF LoopInv, appVars
  <2>2. CASE u # t
    BY <1>2, <1>4, <2>2 DEF IInv, LoopInv, MetricsUntouched, appVars
  <2> QED
    BY <2>1, <2>2
<1>6. ASSUME NEW u \in Targets PROVE SeriesInv(u)' /\ CountsInv(u)'
  <2>1. CASE u = t
    BY <1>2, <2>1 DEF CountsInv, appVars
  <2>2. CASE u # t
    <3>1. SeriesInv(u) /\ Counted(u) /\ MetricsUntouched(u)
      BY <1>2, <2>2 DEF IInv, CountsInv
    <3> QED
      BY <1>2, <3>1, MetricsUntouchedInv DEF CountsInv, appVars
  <2> QED
    BY <2>1, <2>2
<1> QED
  BY <1>1, <1>3, <1>5, <1>6 DEF IInv

\* ... that leaves the series alone.
LEMMA LoopMovesOn ==
  ASSUME IInv, NEW t \in Targets, loop[t] # "idle",
         UNCHANGED <<metricVars, appVars>>,
         NEW p \in Loops, loop' = [loop EXCEPT ![t] = p],
         ClientsInv',
         loop[t] # "observing", p # "observing",
         at'[t] # "out" => p = "probing",
         \A u \in Targets \ {t} : at'[u] = at[u]
  PROVE  IInv'
<1>1. Counted(t) /\ SeriesInv(t) /\ step[t] = 0 /\ MetricsTypeOK
  BY LoopBegun DEF IInv, LoopInv
<1>2. MetricsTypeOK' /\ SeriesInv(t)' /\ Counted(t)'
  BY <1>1, MetricsIdleInv
<1>3. step'[t] = 0 /\ \A u \in Targets \ {t} : MetricsUntouched(u)
  BY <1>1 DEF MetricsUntouched, metricVars
<1> QED
  BY <1>2, <1>3, LoopMoves

\* Execute moves its own goroutine only, and only out of Execute by returning.
LEMMA ExchangeFrame ==
  ASSUME ClientsInv, NEW t \in Targets,
         Enter(t) \/ Exchange(t) \/ Forget(t) \/ HangUp(t)
  PROVE  /\ \A u \in Targets \ {t} : at'[u] = at[u]
         /\ Exchange(t) => at[t] # "out" /\ at'[t] # "locking"
         /\ Forget(t) \/ HangUp(t) => at' = at
BY DEF ClientsInv, ClientsShape, Enter, Exchange, ClientStep, Find, Miss, Store,
       Send, Respond, Fail, Release, Leave, Forget, HangUp

\* Check has returned and ObserveCheck begins.
LEMMA RecordInv ==
  ASSUME IInv, NEW t \in Targets, loop[t] \in {"top", "probing"},
         at[t] = "out", at' = at, ClientsInv', NEW v \in Verdicts, Record(t, v)
  PROVE  IInv'
<1>1. /\ MetricsTypeOK /\ SeriesInv(t) /\ Counted(t) /\ step[t] = 0
      /\ Observe(t, v) /\ UNCHANGED appVars
      /\ loop' = [loop EXCEPT ![t] = "observing"]
  BY LoopBegun DEF IInv, LoopInv, Record
<1>2. /\ MetricsTypeOK' /\ SeriesInv(t)' /\ Counted(t)'
      /\ step'[t] = 1
      /\ \A u \in Targets \ {t} : MetricsUntouched(u)
  BY <1>1, ObserveInv
<1>3. /\ "observing" \in Loops /\ loop[t] # "idle"
      /\ at'[t] = "out" /\ \A u \in Targets \ {t} : at'[u] = at[u]
      /\ step'[t] # 0
  BY <1>2 DEF Loops
<1> QED
  BY <1>1, <1>2, <1>3, LoopMoves

LEMMA LoopStepInv ==
  ASSUME IInv, NEW t \in Targets, LoopStep(t)
  PROVE  IInv'
<1>1. NoVerdict \in Verdicts
  BY DEF NoVerdict, Verdicts
<1>2. CASE StopBeforeProbe(t)
  <2>1. ClientsInv' /\ at' = at /\ at[t] = "out"
    BY <1>2, ClientsIdleInv DEF StopBeforeProbe, IInv, LoopInv, clientVars
  <2> QED
    BY <1>1, <1>2, <2>1, RecordInv DEF StopBeforeProbe
<1>3. CASE StartProbe(t)
  <2>1. ClientsInv' /\ \A u \in Targets \ {t} : at'[u] = at[u]
    BY <1>3, ExchangeInv, ExchangeFrame DEF StartProbe, IInv
  <2> QED
    BY <1>3, <2>1, LoopMovesOn DEF StartProbe, Loops
<1>4. CASE Probe(t)
  <2>1. /\ ClientsInv' /\ at[t] # "out"
        /\ \A u \in Targets \ {t} : at'[u] = at[u]
    BY <1>4, ExchangeInv, ExchangeFrame DEF Probe, IInv
  <2>2. loop[t] = "probing"
    BY <2>1 DEF IInv, LoopInv
  <2>3. loop' = [loop EXCEPT ![t] = "probing"]
    BY <1>4, <2>2 DEF Probe, IInv, AppTypes
  <2> QED
    BY <1>4, <2>1, <2>2, <2>3, LoopMovesOn DEF Probe, Loops
<1>5. CASE Retry(t)
  <2>1. ClientsInv' /\ at' = at
    BY <1>5, ExchangeInv, ExchangeFrame DEF Retry, IInv
  <2> QED
    BY <1>5, <2>1, LoopMovesOn DEF Retry, Loops
<1>6. CASE CheckReturns(t)
  <2>1. ClientsInv' /\ at' = at
    BY <1>6, ExchangeInv, ExchangeFrame DEF CheckReturns, IInv
  <2>2. PICK v \in Verdicts : Record(t, v)
    BY <1>6 DEF CheckReturns
  <2> QED
    BY <1>6, <2>1, <2>2, RecordInv DEF CheckReturns
<1>7. CASE RecordStep(t)
  <2>1. step[t] # 0
    BY <1>7, PlaceFacts
       DEF RecordStep, ObserveStep, SetGauge, CountCheck, SetCertExpiry
  <2>2. loop[t] = "observing"
    BY <2>1 DEF IInv, LoopInv
  <2>3. MetricsTypeOK /\ SeriesInv(t) /\ Counted(t) /\ ObserveStep(t)
    BY <1>7, <2>2, LoopBegun DEF IInv, RecordStep
  <2>4. /\ MetricsTypeOK' /\ SeriesInv(t)' /\ Counted(t)'
        /\ \A u \in Targets \ {t} : MetricsUntouched(u)
    BY <2>3, ObserveStepInv
  <2>5. ClientsInv' /\ at' = at /\ at[t] = "out" /\ UNCHANGED appVars
    BY <1>7, <2>2, ClientsIdleInv DEF RecordStep, IInv, LoopInv, clientVars
  <2>6. CASE step'[t] = 0
    <3>1. loop' = [loop EXCEPT ![t] = "asleep"]
      BY <1>7, <2>6 DEF RecordStep
    <3> QED
      BY <2>2, <2>4, <2>5, <2>6, <3>1, LoopMoves DEF Loops
  <2>7. CASE step'[t] # 0
    <3>1. loop' = [loop EXCEPT ![t] = "observing"]
      BY <1>7, <2>2, <2>7 DEF RecordStep, IInv, AppTypes
    <3> QED
      BY <2>2, <2>4, <2>5, <2>7, <3>1, LoopMoves DEF Loops
  <2> QED
    BY <2>6, <2>7
<1>8. CASE TimerFires(t) \/ StopLoop(t)
  <2>1. PICK p \in {"top", "stopped"} :
          /\ loop' = [loop EXCEPT ![t] = p]
          /\ loop[t] = "asleep"
          /\ UNCHANGED <<clientVars, metricVars, appVars>>
    BY <1>8 DEF TimerFires, StopLoop
  <2>2. ClientsInv' /\ at' = at /\ at[t] = "out"
    BY <2>1, ClientsIdleInv DEF IInv, LoopInv, clientVars
  <2> QED
    BY <2>1, <2>2, LoopMovesOn DEF Loops
<1> QED
  BY <1>2, <1>3, <1>4, <1>5, <1>6, <1>7, <1>8 DEF LoopStep

LEMMA SeriesIdleInv ==
  ASSUME IInv, UNCHANGED <<metricVars, appVars>>
  PROVE  MetricsTypeOK' /\ \A t \in Targets : SeriesInv(t)' /\ CountsInv(t)'
<1>1. MetricsTypeOK' /\ \A t \in Targets : SeriesInv(t)'
  BY MetricsIdleInv DEF IInv
<1>2. ASSUME NEW t \in Targets PROVE CountsInv(t)'
  <2>1. CASE stage = "construct"
    BY <2>1 DEF IInv, CountsInv, metricVars, appVars
  <2>2. CASE stage # "construct"
    <3>1. Counted(t)'
      BY <2>2, MetricsIdleInv DEF IInv, CountsInv
    <3> QED
      BY <2>2, <3>1 DEF CountsInv, appVars
  <2> QED
    BY <2>1, <2>2
<1> QED
  BY <1>1, <1>2

LEMMA HangUpStepInv ==
  ASSUME IInv, NEW t \in Targets, HangUp(t), UNCHANGED <<metricVars, appVars, loop>>
  PROVE  IInv'
<1>1. ClientsInv' /\ at' = at
  BY ExchangeInv, ExchangeFrame DEF IInv
<1>2. MetricsTypeOK' /\ \A u \in Targets : SeriesInv(u)' /\ CountsInv(u)'
  BY SeriesIdleInv
<1>3. AppTypes' /\ AppInv' /\ \A u \in Targets : LoopInv(u)'
  BY <1>1 DEF IInv, AppTypes, AppInv, LoopInv, appVars, metricVars
<1> QED
  BY <1>1, <1>2, <1>3 DEF IInv

LEMMA StutterInv ==
  ASSUME IInv, UNCHANGED vars
  PROVE  IInv'
<1>1. ClientsInv' /\ at' = at
  BY ClientsIdleInv DEF IInv, vars, clientVars
<1>2. MetricsTypeOK' /\ \A u \in Targets : SeriesInv(u)' /\ CountsInv(u)'
  BY SeriesIdleInv DEF vars
<1>3. AppTypes' /\ AppInv' /\ \A u \in Targets : LoopInv(u)'
  BY <1>1 DEF IInv, AppTypes, AppInv, LoopInv, appVars, metricVars, vars
<1> QED
  BY <1>1, <1>2, <1>3 DEF IInv

\* The invariant, of every behaviour.
THEOREM Invariance == Spec => []IInv
<1>1. IInv /\ [Next]_vars => IInv'
  BY AppStepInv, LoopStepInv, HangUpStepInv, StutterInv DEF Next, Terminated
<1> QED
  BY <1>1, InitInv, PTL DEF Spec

-----------------------------------------------------------------------------
\* Every variable keeps its type, for any set of targets and settings.
THEOREM TypeCorrectness == Spec => []TypeOK
<1>1. IInv => TypeOK
  BY ClientsTyped DEF IInv, AppTypes, TypeOK
<1> QED
  BY <1>1, Invariance, PTL

\* No target has two connections, however many checks are made and however they
\* end (Execute, releaseBody).
THEOREM SocketsAreReused == Spec => []OneSocketPerTarget
<1>1. IInv => OneSocketPerTarget
  BY OneSocket DEF IInv
<1> QED
  BY <1>1, Invariance, PTL

\* What a scrape reads between any two assignments of ObserveCheck is the latest
\* check or the one before it, and every target's counters are there.
THEOREM ScrapesReadTheLatestCheck == Spec => []SeriesTellTheLatestCheck
<1>1. IInv => SeriesTellTheLatestCheck
  <2> SUFFICES ASSUME IInv PROVE SeriesTellTheLatestCheck
    OBVIOUS
  <2>1. ASSUME scrape, NEW t \in Targets, NEW o \in Outcomes
        PROVE  counted[t][o] # Absent
    <3>1. Counted(t)
      BY <2>1 DEF IInv, AppInv, CountsInv
    <3> QED
      BY <3>1 DEF Counted
  <2>2. ASSUME NEW t \in Targets PROVE SeriesAreCurrent(t)
    <3>1. GaugesInv(t) /\ CertInv(t) /\ CountsInv(t) /\ checked[t] \in Nat
      BY DEF IInv, SeriesInv, MetricsTypeOK
    <3>2. checked[t] > 0 => Counted(t)
      BY <3>1 DEF CountsInv
    <3>3. checked[t] > 0 =>
            /\ counted[t]["failure"] = bad[t] - Behind(t, ~verdict[t].success)
            /\ counted[t]["success"] =
                 checked[t] - bad[t] - Behind(t, verdict[t].success)
      BY <3>2 DEF Counted
    <3> QED
      BY <3>1, <3>3 DEF SeriesAreCurrent, GaugesInv, CertInv
  <2> QED
    BY <2>1, <2>2 DEF SeriesTellTheLatestCheck
<1> QED
  BY <1>1, Invariance, PTL

\* A loop that is still running when the clients are closed begins no probe,
\* because the runner's hook runs before the client's (registerRunner).
THEOREM ClosedClientsAreLeftAlone == Spec => NoProbeOnClosedClients
<1> DEFINE Begun(t) == at[t] = "out" /\ at'[t] = "locking"
<1>1. ASSUME IInv, [Next]_vars, NEW t \in Targets, Begun(t)
      PROVE  stage # "closed"
  <2>1. ASSUME NEW u \in Targets, LoopStep(u) PROVE stage # "closed"
    <3>1. ASSUME StartProbe(u) PROVE stage # "closed"
      <4>1. loop[u] = "top" /\ ~ctxDone
        BY <3>1 DEF StartProbe
      <4> QED
        BY <4>1, LoopBegun, <1>1
    <3>2. ASSUME Probe(u) \/ Retry(u) \/ CheckReturns(u) PROVE FALSE
      <4>1. Exchange(u) \/ Forget(u)
        BY <3>2 DEF Probe, Retry, CheckReturns
      <4>2. /\ \A r \in Targets \ {u} : at'[r] = at[r]
            /\ Exchange(u) => at[u] # "out" /\ at'[u] # "locking"
            /\ Forget(u) => at' = at
        BY <1>1, <4>1, ExchangeFrame DEF IInv
      <4> QED
        BY <1>1, <4>1, <4>2
    <3>3. ASSUME \/ StopBeforeProbe(u) \/ RecordStep(u)
                 \/ TimerFires(u) \/ StopLoop(u)
          PROVE  FALSE
      BY <1>1, <3>3 DEF StopBeforeProbe, RecordStep, TimerFires, StopLoop, clientVars
    <3> QED
      BY <2>1, <3>1, <3>2, <3>3 DEF LoopStep
  <2>2. ASSUME NEW u \in Targets, HangUp(u) PROVE FALSE
    BY <1>1, <2>2, ExchangeFrame DEF IInv
  <2>3. ASSUME HookStep \/ Signal \/ ScrapeBegins \/ ScrapeEnds PROVE FALSE
    BY <1>1, <2>3
       DEF HookStep, Construct, Listen, ListenFails, StartRunner, Signal,
           CancelRunner, StopListening, ServerStopped, StopTimesOut, Close, Exit,
           ScrapeBegins, ScrapeEnds, CloseClients, clientVars
  <2>4. ASSUME UNCHANGED vars PROVE FALSE
    BY <1>1, <2>4 DEF vars, clientVars
  <2> QED
    BY <1>1, <2>1, <2>2, <2>3, <2>4 DEF Next, Terminated
<1>2. IInv /\ [Next]_vars =>
        [\A t \in Targets :
           at[t] = "out" /\ at'[t] = "locking" => stage # "closed"]_vars
  BY <1>1
<1> QED
  BY <1>2, Invariance, PTL DEF Spec, NoProbeOnClosedClients

\* The clients of the process are used as ClientPool specifies: one per setting
\* whatever the interleaving, and a Close that reaches every one built so far.
THEOREM RefinesPool == Spec => PoolSpec
<1>1. Init => Pool!Init
  BY InitMaps DEF Init
<1>2. IInv /\ [Next]_vars => [Pool!Next]_(Pool!vars)
  <2> SUFFICES ASSUME IInv, [Next]_vars PROVE [Pool!Next]_(Pool!vars)
    OBVIOUS
  <2>1. ASSUME UNCHANGED clientVars PROVE UNCHANGED Pool!vars
    BY <2>1 DEF clientVars, Pool!vars, Built
  <2>2. ASSUME Close PROVE [Pool!Next]_(Pool!vars)
    BY <2>2, CloseMaps DEF Close, IInv
  <2>3. ASSUME NEW t \in Targets,
               Enter(t) \/ Exchange(t) \/ Forget(t) \/ HangUp(t)
        PROVE  [Pool!Next]_(Pool!vars)
    BY <2>3, StepMaps DEF IInv
  <2>4. ASSUME NEW t \in Targets, LoopStep(t) PROVE [Pool!Next]_(Pool!vars)
    <3>1. CASE StopBeforeProbe(t) \/ RecordStep(t) \/ TimerFires(t) \/ StopLoop(t)
      BY <2>1, <3>1 DEF StopBeforeProbe, RecordStep, TimerFires, StopLoop
    <3>2. CASE StartProbe(t) \/ Probe(t) \/ Retry(t) \/ CheckReturns(t)
      BY <2>3, <3>2 DEF StartProbe, Probe, Retry, CheckReturns
    <3> QED
      BY <2>4, <3>1, <3>2 DEF LoopStep
  <2>5. ASSUME \/ HookStep \/ Signal \/ ScrapeBegins \/ ScrapeEnds
               \/ UNCHANGED vars
        PROVE  [Pool!Next]_(Pool!vars)
    <3>1. CASE Close
      BY <2>2, <3>1
    <3>2. CASE ~Close
      <4>1. UNCHANGED clientVars
        BY <2>5, <3>2
           DEF HookStep, Construct, Listen, ListenFails, StartRunner, Signal,
               CancelRunner, StopListening, ServerStopped, StopTimesOut, Exit,
               ScrapeBegins, ScrapeEnds, vars
      <4> QED
        BY <2>1, <4>1
    <3> QED
      BY <3>1, <3>2
  <2> QED
    BY <2>3, <2>4, <2>5 DEF Next, Terminated
<1> QED
  BY <1>1, <1>2, Invariance, PTL DEF Spec, PoolSpec, Pool!Spec
=============================================================================
