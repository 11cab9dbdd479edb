----------------------------- MODULE Lifecycle -----------------------------
(***************************************************************************)
(* The process in continuous mode, from the construction of its parts to   *)
(* its exit (cmd/joghd/main.go): the metrics server and the runner are     *)
(* started in that order and, at a signal, stopped in the reverse one,     *)
(* with the shared HTTP client closed last.  Stopping the runner only      *)
(* cancels its context: the targets' loops go on beside the later hooks.   *)
(*                                                                         *)
(* A loop is here the checks it makes: each probe looks at the context,    *)
(* goes through HttpClients, and is retried or recorded by Metrics.  What  *)
(* Check and the alerts add is Checker's and Scheduler's.                  *)
(***************************************************************************)
EXTENDS HttpClients, Metrics

CONSTANT MaxChecks    \* bound: MaxChecks[t] checks of target t in a run

ASSUME LifecycleAssumption == MaxChecks \in [Targets -> Nat]

VARIABLES
  stage,      \* how far main and the fx hooks have come
  exit,       \* the exit code
  server,     \* the metrics server, or "off" when metrics.listen is empty
  scrape,     \* whether a scrape is being served
  ctxDone,    \* whether the runner's context is cancelled
  loop        \* where each target's loop is

appVars == <<stage, exit, server, scrape, ctxDone>>
vars == <<clientVars, metricVars, appVars, loop>>

(***************************************************************************)
(* Up to "running", what is to be done next; after a signal, the OnStop    *)
(* hook whose turn it is; then the clients are closed but the process is   *)
(* not gone yet.                                                           *)
(***************************************************************************)
Stages == {"construct", "listen", "run", "running",
           "cancel", "shutdown", "close", "closed", "exited"}
Loops == {"idle", "top", "probing", "observing", "asleep", "stopped"}

Init ==
  /\ ClientsInit
  /\ MetricsInit
  /\ stage = "construct"
  /\ exit = 0
  /\ server \in {"off", "down"}
  /\ scrape = FALSE
  /\ ctxDone = FALSE
  /\ loop = [t \in Targets |-> "idle"]

-----------------------------------------------------------------------------
(***************************************************************************)
(* main: fx builds the parts, and registerRunner with them scheduler.New.  *)
(***************************************************************************)
Construct ==
  /\ stage = "construct"
  /\ stage' = "listen"
  /\ RegisterTargets
  /\ UNCHANGED <<clientVars, exit, server, scrape, ctxDone, loop>>

\* The metrics server's OnStart.
Listen ==
  /\ stage = "listen"
  /\ stage' = "run"
  /\ server' = IF server = "down" THEN "up" ELSE server
  /\ UNCHANGED <<clientVars, metricVars, exit, scrape, ctxDone, loop>>

\* The address is taken: fx stops what has been started, the HTTP client.
ListenFails ==
  /\ stage = "listen"
  /\ server = "down"
  /\ stage' = "close"
  /\ exit' = 1
  /\ UNCHANGED <<clientVars, metricVars, server, scrape, ctxDone, loop>>

\* The runner's OnStart: scheduler.Start, one goroutine per target.
StartRunner ==
  /\ stage = "run"
  /\ stage' = "running"
  /\ loop' = [t \in Targets |-> "top"]
  /\ UNCHANGED <<clientVars, metricVars, exit, server, scrape, ctxDone>>

\* SIGINT or SIGTERM.
Signal ==
  /\ stage = "running"
  /\ stage' = "cancel"
  /\ UNCHANGED <<clientVars, metricVars, exit, server, scrape, ctxDone, loop>>

\* Mutant: the hooks run in the order they were appended.
CancelRunner_Last ==
  /\ stage \in {"cancel", "closed"}
  /\ stage' = IF stage = "cancel" THEN "shutdown" ELSE stage
  /\ ctxDone' = (stage = "closed")
  /\ UNCHANGED <<clientVars, metricVars, exit, server, scrape, loop>>

\* The runner's OnStop: it cancels and does not wait.
CancelRunner ==
  /\ stage = "cancel"
  /\ stage' = "shutdown"
  /\ ctxDone' = TRUE
  /\ UNCHANGED <<clientVars, metricVars, exit, server, scrape, loop>>

\* The server's OnStop, srv.Shutdown: no new scrape, then the one being served
\* is waited for.
StopListening ==
  /\ stage = "shutdown"
  /\ server = "up"
  /\ server' = "draining"
  /\ UNCHANGED <<clientVars, metricVars, stage, exit, scrape, ctxDone, loop>>

ServerStopped ==
  /\ stage = "shutdown"
  /\ \/ server = "off"
     \/ server = "draining" /\ ~scrape
  /\ stage' = "close"
  /\ UNCHANGED <<clientVars, metricVars, exit, server, scrape, ctxDone, loop>>

\* Mutant: Shutdown waits under a context of its own, without a deadline.
StopTimesOut_Never ==
  /\ FALSE
  /\ UNCHANGED vars

\* A scrape outlasts fx's stop timeout: Shutdown returns the error of its
\* context, and fx runs no further hook.
StopTimesOut ==
  /\ stage = "shutdown"
  /\ server = "draining"
  /\ scrape
  /\ stage' = "exited"
  /\ exit' = 1
  /\ UNCHANGED <<clientVars, metricVars, server, scrape, ctxDone, loop>>

\* The HTTP client's OnStop.
Close ==
  /\ stage = "close"
  /\ stage' = "closed"
  /\ CloseClients
  /\ UNCHANGED <<metricVars, exit, server, scrape, ctxDone, loop>>

\* app.Run returns and main with it, whatever the goroutines are doing.
Exit ==
  /\ stage = "closed"
  /\ stage' = "exited"
  /\ UNCHANGED <<clientVars, metricVars, exit, server, scrape, ctxDone, loop>>

ScrapeBegins ==
  /\ server = "up"
  /\ ~scrape
  /\ scrape' = TRUE
  /\ UNCHANGED <<clientVars, metricVars, stage, exit, server, ctxDone, loop>>

ScrapeEnds ==
  /\ scrape
  /\ scrape' = FALSE
  /\ UNCHANGED <<clientVars, metricVars, stage, exit, server, ctxDone, loop>>

HookStep ==
  \/ Construct \/ Listen \/ ListenFails \/ StartRunner
  \/ CancelRunner \/ StopListening \/ ServerStopped \/ StopTimesOut
  \/ Close \/ Exit

-----------------------------------------------------------------------------
(***************************************************************************)
(* The loop of one target.                                                 *)
(***************************************************************************)
Record(t, v) ==
  /\ Observe(t, v)
  /\ loop' = [loop EXCEPT ![t] = "observing"]
  /\ UNCHANGED appVars

\* Check finds its context done before an attempt.
StopBeforeProbe(t) ==
  /\ loop[t] = "top"
  /\ ctxDone
  /\ Record(t, NoVerdict)
  /\ UNCHANGED clientVars

\* The attempt goes ahead: Execute.
StartProbe(t) ==
  /\ loop[t] = "top"
  /\ ~ctxDone
  /\ Enter(t)
  /\ loop' = [loop EXCEPT ![t] = "probing"]
  /\ UNCHANGED <<metricVars, appVars>>

\* Execute, step by step.
Probe(t) ==
  /\ Exchange(t)
  /\ UNCHANGED <<metricVars, appVars, loop>>

\* Execute has returned and Check makes another attempt.
Retry(t) ==
  /\ loop[t] = "probing"
  /\ at[t] = "out"
  /\ Forget(t)
  /\ loop' = [loop EXCEPT ![t] = "top"]
  /\ UNCHANGED <<metricVars, appVars>>

\* Check returns: a request that failed has no status and no certificate.
CheckReturns(t) ==
  /\ loop[t] = "probing"
  /\ at[t] = "out"
  /\ \E v \in Verdicts :
       /\ failed[t] => v = NoVerdict
       /\ Record(t, v)
  /\ Forget(t)

\* ObserveCheck, step by step, and then the sleep.
RecordStep(t) ==
  /\ ObserveStep(t)
  /\ loop' = [loop EXCEPT ![t] = IF step'[t] = 0 THEN "asleep" ELSE @]
  /\ UNCHANGED <<clientVars, appVars>>

TimerFires(t) ==
  /\ loop[t] = "asleep"
  /\ checked[t] < MaxChecks[t]
  /\ loop' = [loop EXCEPT ![t] = "top"]
  /\ UNCHANGED <<clientVars, metricVars, appVars>>

StopLoop(t) ==
  /\ loop[t] = "asleep"
  /\ ctxDone
  /\ loop' = [loop EXCEPT ![t] = "stopped"]
  /\ UNCHANGED <<clientVars, metricVars, appVars>>

LoopStep(t) ==
  \/ StopBeforeProbe(t) \/ StartProbe(t) \/ Probe(t) \/ Retry(t)
  \/ CheckReturns(t) \/ RecordStep(t) \/ TimerFires(t) \/ StopLoop(t)

Terminated == stage = "exited" /\ UNCHANGED vars

Alive == stage # "exited"

Next ==
  \/ Alive /\ (HookStep \/ Signal \/ ScrapeBegins \/ ScrapeEnds)
  \/ \E t \in Targets :
       \/ Alive /\ LoopStep(t)
       \/ Alive /\ HangUp(t) /\ UNCHANGED <<metricVars, appVars, loop>>
  \/ Terminated

(***************************************************************************)
(* The hooks and the goroutines are scheduled.  Nothing is assumed of the  *)
(* targets, of the scraper or of when a signal comes.                      *)
(***************************************************************************)
Fairness ==
  /\ WF_vars(HookStep)
  /\ \A t \in Targets :
       WF_vars(Alive /\ ClientStep(t) /\ UNCHANGED <<metricVars, appVars, loop>>)

Spec == Init /\ [][Next]_vars /\ Fairness

-----------------------------------------------------------------------------
TypeOK ==
  /\ ClientsTypeOK
  /\ MetricsTypeOK
  /\ stage \in Stages
  /\ exit \in {0, 1}
  /\ server \in {"off", "down", "up", "draining"}
  /\ scrape \in BOOLEAN
  /\ ctxDone \in BOOLEAN
  /\ loop \in [Targets -> Loops]

\* A scrape never finds a target without its counters, and what it reads of
\* one is the target's latest check, or the one before it while the latest is
\* being recorded (scheduler.New before OnStart; ObserveCheck).
SeriesTellTheLatestCheck ==
  /\ scrape => \A t \in Targets, o \in Outcomes : counted[t][o] # Absent
  /\ \A t \in Targets : SeriesAreCurrent(t)

\* No probe is begun through clients that have been closed: the loops, which
\* nobody waits for, see the cancellation first (provideHTTPClient,
\* appendCancellableHook and the order of the hooks).
NoProbeOnClosedClients ==
  [][\A t \in Targets :
       at[t] = "out" /\ at'[t] = "locking" => stage # "closed"]_vars

\* A signal ends the process, whatever the targets and a scraper that stalls
\* do (appendCancellableHook, srv.Shutdown).
ProcessExits == stage = "cancel" ~> stage = "exited"
=============================================================================
