---------------------------- MODULE HttpClients ----------------------------
(***************************************************************************)
(* checker.RestyClient (internal/checker/client.go): one resty client per  *)
(* proxy setting in a map under a mutex, the requests the probes send      *)
(* through them, and the connections those leave behind.                   *)
(*                                                                         *)
(* Every target's goroutine calls Execute, one probe at a time.  A target  *)
(* is a host of its own, so that a connection to it serves no other.  Only *)
(* HTTP targets are here: a TCP check does not use the clients.            *)
(***************************************************************************)
EXTENDS Domain, Naturals, FiniteSets

\* RestyClient.mu when no goroutine holds it.
Free == "free"

ASSUME FreeAssumption == Free \notin Targets

VARIABLES
  lock,       \* RestyClient.mu: the target whose goroutine holds it, or Free
  clients,    \* RestyClient.clients: the client of a setting, or NoClient
  built,      \* how many clients were built for a setting (history)
  closed,     \* the clients Close has closed
  at,         \* where each target's goroutine is in Execute
  using,      \* the client its request goes through
  failed,     \* whether its request returned an error
  open,       \* connections open to each target
  idle        \* those of them idle in a client's pool: <<client, target>>

clientVars == <<lock, clients, built, closed, at, using, failed, open, idle>>

NoClient == <<>>

\* The n-th client built for setting s.
Client(s, n) == <<s, n>>
Built == UNION {{Client(s, n) : n \in 1..built[s]} : s \in Settings}

(***************************************************************************)
(* Outside Execute; waiting for the mutex; inside clientFor with nothing   *)
(* found yet; with a client; waiting for the response; with a response     *)
(* whose body is open.                                                     *)
(***************************************************************************)
Places == {"out", "locking", "building", "ready", "sent", "reading"}

ClientsInit ==
  /\ lock = Free
  /\ clients = [s \in Settings |-> NoClient]
  /\ built = [s \in Settings |-> 0]
  /\ closed = {}
  /\ at = [t \in Targets |-> "out"]
  /\ using = [t \in Targets |-> NoClient]
  /\ failed = [t \in Targets |-> FALSE]
  /\ open = [t \in Targets |-> 0]
  /\ idle = {}

-----------------------------------------------------------------------------
\* Execute is called.
Enter(t) ==
  /\ at[t] = "out"
  /\ at' = [at EXCEPT ![t] = "locking"]
  /\ UNCHANGED <<lock, clients, built, closed, using, failed, open, idle>>

\* clientFor finds the client of the setting and unlocks.
Find(t) ==
  /\ at[t] = "locking"
  /\ lock = Free
  /\ clients[Setting[t]] # NoClient
  /\ using' = [using EXCEPT ![t] = clients[Setting[t]]]
  /\ at' = [at EXCEPT ![t] = "ready"]
  /\ UNCHANGED <<lock, clients, built, closed, failed, open, idle>>

\* Mutant: the mutex is not held while the client is built.
Miss_Unlocked(t) ==
  /\ at[t] = "locking"
  /\ lock = Free
  /\ clients[Setting[t]] = NoClient
  /\ at' = [at EXCEPT ![t] = "building"]
  /\ UNCHANGED <<lock, clients, built, closed, using, failed, open, idle>>

\* There is none yet: the mutex is held while one is built.
Miss(t) ==
  /\ at[t] = "locking"
  /\ lock = Free
  /\ clients[Setting[t]] = NoClient
  /\ lock' = t
  /\ at' = [at EXCEPT ![t] = "building"]
  /\ UNCHANGED <<clients, built, closed, using, failed, open, idle>>

\* The client is stored and returned, and the mutex released.
Store(t) ==
  LET s == Setting[t]
      c == Client(s, built[s] + 1)
  IN  /\ at[t] = "building"
      /\ built' = [built EXCEPT ![s] = @ + 1]
      /\ clients' = [clients EXCEPT ![s] = c]
      /\ using' = [using EXCEPT ![t] = c]
      /\ at' = [at EXCEPT ![t] = "ready"]
      /\ lock' = Free
      /\ UNCHANGED <<closed, failed, open, idle>>

\* The request takes the connection its client kept, or opens one.
Send(t) ==
  LET kept == <<using[t], t>>
  IN  /\ at[t] = "ready"
      /\ at' = [at EXCEPT ![t] = "sent"]
      /\ \/ kept \in idle /\ idle' = idle \ {kept} /\ UNCHANGED open
         \/ kept \notin idle /\ open' = [open EXCEPT ![t] = @ + 1] /\ UNCHANGED idle
      /\ UNCHANGED <<lock, clients, built, closed, using, failed>>

\* A response, which may come with an error.
Respond(t) ==
  /\ at[t] = "sent"
  /\ at' = [at EXCEPT ![t] = "reading"]
  /\ \E e \in BOOLEAN : failed' = [failed EXCEPT ![t] = e]
  /\ UNCHANGED <<lock, clients, built, closed, using, open, idle>>

\* Execute returns; the client is let go.
Leave(t) ==
  /\ at' = [at EXCEPT ![t] = "out"]
  /\ using' = [using EXCEPT ![t] = NoClient]
  /\ UNCHANGED <<lock, clients, built, closed>>

\* No response, for the timeout, the cancelled context or the network: the
\* connection, if there was one, is given up.
Fail(t) ==
  /\ at[t] = "sent"
  /\ failed' = [failed EXCEPT ![t] = TRUE]
  /\ open' = [open EXCEPT ![t] = @ - 1]
  /\ UNCHANGED idle
  /\ Leave(t)

\* Mutant: the error is returned before the body is released.
Release_AfterErrorCheck(t) ==
  /\ at[t] = "reading"
  /\ \/ failed[t] /\ UNCHANGED <<open, idle>>
     \/ ~failed[t] /\ idle' = idle \cup {<<using[t], t>>} /\ UNCHANGED open
     \/ ~failed[t] /\ open' = [open EXCEPT ![t] = @ - 1] /\ UNCHANGED idle
  /\ Leave(t)
  /\ UNCHANGED failed

\* Mutant: a connection that is closed with its body goes back to the pool too.
Release_Twice(t) ==
  /\ at[t] = "reading"
  /\ idle' = idle \cup {<<using[t], t>>}
  /\ open' = [open EXCEPT ![t] = @ - 1]
  /\ Leave(t)
  /\ UNCHANGED failed

\* releaseBody: a body read to its end gives the connection back to the pool;
\* one longer than maxDrainBytes is closed with it.
Release(t) ==
  /\ at[t] = "reading"
  /\ \/ idle' = idle \cup {<<using[t], t>>} /\ UNCHANGED open
     \/ open' = [open EXCEPT ![t] = @ - 1] /\ UNCHANGED idle
  /\ Leave(t)
  /\ UNCHANGED failed

\* The caller has seen how Execute ended.
Forget(t) ==
  /\ failed' = [failed EXCEPT ![t] = FALSE]
  /\ UNCHANGED <<lock, clients, built, closed, at, using, open, idle>>

\* A server hangs up on an idle connection, or the pool's own timeout does.
HangUp(t) ==
  /\ \E c \in Built :
       /\ <<c, t>> \in idle
       /\ idle' = idle \ {<<c, t>>}
  /\ open' = [open EXCEPT ![t] = @ - 1]
  /\ UNCHANGED <<lock, clients, built, closed, at, using, failed>>

\* Close: every client in the map gives up its idle connections.
CloseClients ==
  LET reached == {clients[s] : s \in Settings} \ {NoClient}
      gone(t) == {p \in idle : p[1] \in reached /\ p[2] = t}
  IN  /\ lock = Free
      /\ closed' = closed \cup reached
      /\ idle' = {p \in idle : p[1] \notin reached}
      /\ open' = [t \in Targets |-> open[t] - Cardinality(gone(t))]
      /\ UNCHANGED <<lock, clients, built, at, using, failed>>

\* Steps that need nobody's answer.
ClientStep(t) == Find(t) \/ Miss(t) \/ Store(t) \/ Send(t) \/ Release(t)

Exchange(t) == ClientStep(t) \/ Respond(t) \/ Fail(t)

-----------------------------------------------------------------------------
ClientsTypeOK ==
  /\ lock \in Targets \cup {Free}
  /\ built \in [Settings -> Nat]
  /\ clients \in [Settings -> Built \cup {NoClient}]
  /\ closed \subseteq Built
  /\ at \in [Targets -> Places]
  /\ using \in [Targets -> Built \cup {NoClient}]
  /\ failed \in [Targets -> BOOLEAN]
  /\ open \in [Targets -> Nat]
  /\ idle \subseteq Built \X Targets

\* The clients are used as ClientPool specifies, whatever the interleaving of
\* the goroutines: Close is the only one that may come while a probe holds one.
Pool == INSTANCE ClientPool WITH made <- Built, held <- using

PoolSpec == Pool!Spec

\* However many checks are made, a target has at most one connection: the next
\* probe reuses the one before, or that one is gone.  Test
\* TestRestyClientReusesConnections: "Every check used to build its own client
\* and leave the response body open, leaking one socket per check until the
\* process ran out of descriptors."
OneSocketPerTarget == \A t \in Targets : open[t] <= 1
=============================================================================
