------------------------- MODULE HttpClientsProofs -------------------------
(***************************************************************************)
(* The steps of HttpClients keep its invariant and are steps of ClientPool,*)
(* for any set of targets and any settings.  LifecycleProofs uses both.    *)
(***************************************************************************)
EXTENDS HttpClients, FiniteSetTheorems, TLAPS

\* The one client of t's setting, and the connection to t it keeps.
Own(t) == Client(Setting[t], 1)
Kept(t) == <<Own(t), t>>

(***************************************************************************)
(* The mutex is held by the goroutine that builds a client, and by no      *)
(* other, while there is none for its setting; so no second one is built.  *)
(***************************************************************************)
LockInv(t) ==
  /\ at[t] = "building" <=> lock = t
  /\ at[t] = "building" => built[Setting[t]] = 0

MapInv(s) ==
  \/ built[s] = 0 /\ clients[s] = NoClient
  \/ built[s] = 1 /\ clients[s] = Client(s, 1)

Busy(t) == at[t] \in {"sent", "reading"}

UsingInv(t) ==
  \/ at[t] \in {"out", "locking", "building"} /\ using[t] = NoClient
  \/ /\ at[t] \in {"ready", "sent", "reading"}
     /\ using[t] = Own(t)
     /\ built[Setting[t]] = 1

\* The connections of a target: the one in use or the one kept, never both.
SocketInv(t) ==
  \/ Kept(t) \notin idle /\ open[t] = IF Busy(t) THEN 1 ELSE 0
  \/ Kept(t) \in idle /\ ~Busy(t) /\ open[t] = 1

ClientsShape ==
  /\ lock \in Targets \cup {Free}
  /\ built \in [Settings -> Nat]
  /\ clients \in [Settings -> {Client(s, 1) : s \in Settings} \cup {NoClient}]
  /\ closed \subseteq Built
  /\ at \in [Targets -> Places]
  /\ using \in [Targets -> {Own(t) : t \in Targets} \cup {NoClient}]
  /\ failed \in [Targets -> BOOLEAN]
  /\ open \in [Targets -> Int]
  /\ idle \subseteq {Kept(t) : t \in {u \in Targets : built[Setting[u]] = 1}}

ClientsInv ==
  /\ ClientsShape
  /\ \A s \in Settings : MapInv(s)
  /\ \A t \in Targets : LockInv(t) /\ UsingInv(t) /\ SocketInv(t)

LEMMA ClientFacts ==
  ASSUME NEW s, NEW n, NEW r, NEW m
  PROVE  /\ Client(s, n) # NoClient
         /\ Client(s, n) = Client(r, m) <=> s = r /\ n = m
BY DEF Client, NoClient

LEMMA KeptFacts ==
  ASSUME NEW t \in Targets, NEW u \in Targets
  PROVE  Kept(t) = Kept(u) <=> t = u
BY DEF Kept

LEMMA BuiltFacts ==
  ASSUME \A s \in Settings : built[s] \in {0, 1}
  PROVE  Built = {Client(s, 1) : s \in {r \in Settings : built[r] = 1}}
<1>1. ASSUME NEW s \in Settings
      PROVE  {Client(s, n) : n \in 1..built[s]} =
               IF built[s] = 1 THEN {Client(s, 1)} ELSE {}
  <2>1. CASE built[s] = 0
    <3>1. 1..built[s] = {}
      BY <2>1
    <3> QED
      BY <2>1, <3>1
  <2>2. CASE built[s] = 1
    <3>1. 1..built[s] = {1}
      BY <2>2
    <3> QED
      BY <2>2, <3>1
  <2> QED
    BY <2>1, <2>2
<1>2. ASSUME NEW c
      PROVE  c \in Built <=> \E s \in Settings : built[s] = 1 /\ c = Client(s, 1)
  <2>1. c \in Built <=>
          \E s \in Settings : c \in {Client(s, n) : n \in 1..built[s]}
    BY DEF Built
  <2> QED
    BY <1>1, <2>1
<1> QED
  BY <1>2

LEMMA BuiltOne ==
  ASSUME ClientsInv
  PROVE  Built = {Client(s, 1) : s \in {r \in Settings : built[r] = 1}}
BY BuiltFacts DEF ClientsInv, MapInv

LEMMA ClientsInitInv == ClientsInit => ClientsInv
<1> SUFFICES ASSUME ClientsInit PROVE ClientsInv
  OBVIOUS
<1>1. ClientsShape
  BY DEF ClientsInit, ClientsShape, Places
<1>2. \A s \in Settings : MapInv(s)
  BY DEF ClientsInit, MapInv
<1> QED
  BY <1>1, <1>2, FreeAssumption
     DEF ClientsInit, ClientsInv, LockInv, UsingInv, SocketInv, Busy, Settings

-----------------------------------------------------------------------------
(***************************************************************************)
(* Steps that leave the map of clients and what was built alone.           *)
(***************************************************************************)
\* What such a step may change, of one target only.
LEMMA MapKept ==
  ASSUME ClientsInv, NEW t \in Targets,
         UNCHANGED <<clients, built, closed>>,
         ClientsShape',
         LockInv(t)', UsingInv(t)', SocketInv(t)',
         \A u \in Targets \ {t} :
           /\ LockInv(u)'
           /\ at'[u] = at[u] /\ using'[u] = using[u] /\ open'[u] = open[u]
           /\ Kept(u) \in idle' <=> Kept(u) \in idle
  PROVE  ClientsInv'
<1>1. \A s \in Settings : MapInv(s)'
  BY DEF ClientsInv, MapInv
<1>2. \A u \in Targets \ {t} : UsingInv(u)' /\ SocketInv(u)'
  BY DEF ClientsInv, UsingInv, SocketInv, Busy
<1> QED
  BY <1>1, <1>2 DEF ClientsInv

LEMMA OutsideLock ==
  ASSUME ClientsInv, NEW t \in Targets, UNCHANGED <<clients, built, closed>>,
         UNCHANGED lock, at' \in [Targets -> Places],
         at[t] # "building", at'[t] # "building",
         using' \in [Targets -> {Own(u) : u \in Targets} \cup {NoClient}],
         failed' \in [Targets -> BOOLEAN],
         open' \in [Targets -> Int],
         idle' \subseteq {Kept(u) : u \in {r \in Targets : built[Setting[r]] = 1}},
         UsingInv(t)', SocketInv(t)',
         \A u \in Targets \ {t} :
           /\ at'[u] = at[u] /\ using'[u] = using[u] /\ open'[u] = open[u]
           /\ Kept(u) \in idle' <=> Kept(u) \in idle
  PROVE  ClientsInv'
<1>1. Built' = Built
  BY DEF Built
<1>2. ClientsShape'
  BY <1>1 DEF ClientsInv, ClientsShape
<1>3. \A u \in Targets : LockInv(u)'
  BY DEF ClientsInv, LockInv
<1> QED
  BY <1>2, <1>3, MapKept

LEMMA EnterInv ==
  ASSUME ClientsInv, NEW t \in Targets, Enter(t)
  PROVE  ClientsInv'
<1> USE DEF Enter
<1>1. UsingInv(t)' /\ SocketInv(t)'
  BY DEF ClientsInv, ClientsShape, UsingInv, SocketInv, Busy
<1> QED
  BY <1>1, OutsideLock DEF ClientsInv, ClientsShape, Places

LEMMA FindInv ==
  ASSUME ClientsInv, NEW t \in Targets, Find(t)
  PROVE  ClientsInv'
<1> USE DEF Find
<1>1. Setting[t] \in Settings
  BY DEF Settings
<1>2. clients[Setting[t]] = Own(t) /\ built[Setting[t]] = 1
  BY <1>1 DEF ClientsInv, MapInv, Own
<1>3. UsingInv(t)' /\ SocketInv(t)'
  BY <1>2 DEF ClientsInv, ClientsShape, UsingInv, SocketInv, Busy
<1> QED
  BY <1>2, <1>3, OutsideLock DEF ClientsInv, ClientsShape, Places

LEMMA MissInv ==
  ASSUME ClientsInv, NEW t \in Targets, Miss(t)
  PROVE  ClientsInv'
<1> USE DEF Miss
<1>1. built[Setting[t]] = 0
  BY ClientFacts DEF ClientsInv, MapInv, Settings
<1>2. \A u \in Targets : LockInv(u)'
  BY <1>1, FreeAssumption DEF ClientsInv, ClientsShape, LockInv
<1>3. UsingInv(t)' /\ SocketInv(t)'
  BY DEF ClientsInv, ClientsShape, UsingInv, SocketInv, Busy
<1>4. Built' = Built
  BY DEF Built
<1>5. ClientsShape'
  BY <1>4 DEF ClientsInv, ClientsShape, Places
<1>6. \A u \in Targets \ {t} : at'[u] = at[u]
  BY DEF ClientsInv, ClientsShape
<1> QED
  BY <1>2, <1>3, <1>5, <1>6, MapKept

LEMMA SendInv ==
  ASSUME ClientsInv, NEW t \in Targets, Send(t)
  PROVE  ClientsInv'
<1> USE DEF Send
<1>1. using[t] = Own(t) /\ built[Setting[t]] = 1 /\ <<using[t], t>> = Kept(t)
  BY DEF ClientsInv, UsingInv, Kept
<1>2. UsingInv(t)' /\ SocketInv(t)'
  BY <1>1 DEF ClientsInv, ClientsShape, UsingInv, SocketInv, Busy
<1>3. \A u \in Targets \ {t} :
        /\ at'[u] = at[u] /\ open'[u] = open[u]
        /\ Kept(u) \in idle' <=> Kept(u) \in idle
  BY <1>1, KeptFacts DEF ClientsInv, ClientsShape
<1>4. open' \in [Targets -> Int] /\ at' \in [Targets -> Places]
  BY DEF ClientsInv, ClientsShape, Places
<1> QED
  BY <1>2, <1>3, <1>4, OutsideLock DEF ClientsInv, ClientsShape

LEMMA RespondInv ==
  ASSUME ClientsInv, NEW t \in Targets, Respond(t)
  PROVE  ClientsInv'
<1> USE DEF Respond
<1>1. UsingInv(t)' /\ SocketInv(t)'
  BY DEF ClientsInv, ClientsShape, UsingInv, SocketInv, Busy
<1> QED
  BY <1>1, OutsideLock DEF ClientsInv, ClientsShape, Places

LEMMA LeaveInv ==
  ASSUME ClientsInv, NEW t \in Targets, Fail(t) \/ Release(t)
  PROVE  ClientsInv'
<1> USE DEF Leave
<1>1. /\ at[t] \in {"sent", "reading"}
      /\ Leave(t)
      /\ \/ idle' = idle \cup {<<using[t], t>>} /\ UNCHANGED open
         \/ open' = [open EXCEPT ![t] = @ - 1] /\ UNCHANGED idle
  BY DEF Fail, Release
<1>2. using[t] = Own(t) /\ built[Setting[t]] = 1 /\ <<using[t], t>> = Kept(t)
  BY <1>1 DEF ClientsInv, UsingInv, Kept
<1>3. open[t] = 1 /\ Kept(t) \notin idle
  BY <1>1 DEF ClientsInv, SocketInv, Busy
<1>4. /\ at' \in [Targets -> Places] /\ at'[t] = "out"
      /\ using'[t] = NoClient
      /\ using' \in [Targets -> {Own(u) : u \in Targets} \cup {NoClient}]
      /\ open' \in [Targets -> Int]
      /\ failed' \in [Targets -> BOOLEAN]
  <2>1. at' \in [Targets -> Places] /\ at'[t] = "out"
    BY <1>1 DEF ClientsInv, ClientsShape, Places
  <2>2. /\ using'[t] = NoClient
        /\ using' \in [Targets -> {Own(u) : u \in Targets} \cup {NoClient}]
    BY <1>1 DEF ClientsInv, ClientsShape
  <2>3. open' \in [Targets -> Int]
    BY <1>1 DEF ClientsInv, ClientsShape
  <2>4. failed' \in [Targets -> BOOLEAN]
    BY DEF ClientsInv, ClientsShape, Fail, Release
  <2> QED
    BY <2>1, <2>2, <2>3, <2>4
<1>5. UsingInv(t)' /\ SocketInv(t)'
  BY <1>1, <1>2, <1>3, <1>4 DEF ClientsInv, ClientsShape, UsingInv, SocketInv, Busy
<1>6. \A u \in Targets \ {t} :
        /\ at'[u] = at[u] /\ using'[u] = using[u] /\ open'[u] = open[u]
        /\ Kept(u) \in idle' <=> Kept(u) \in idle
  BY <1>1, <1>2, KeptFacts DEF ClientsInv, ClientsShape
<1>7. idle' \subseteq {Kept(u) : u \in {r \in Targets : built[Setting[r]] = 1}}
  BY <1>1, <1>2 DEF ClientsInv, ClientsShape
<1> QED
  BY <1>1, <1>4, <1>5, <1>6, <1>7, OutsideLock

LEMMA ForgetInv ==
  ASSUME ClientsInv, NEW t \in Targets, Forget(t)
  PROVE  ClientsInv'
<1> USE DEF Forget
<1>1. Built' = Built
  BY DEF Built
<1>2. ClientsShape'
  BY <1>1 DEF ClientsInv, ClientsShape
<1>3. \A u \in Targets : LockInv(u)' /\ UsingInv(u)' /\ SocketInv(u)'
  BY DEF ClientsInv, LockInv, UsingInv, SocketInv, Busy
<1> QED
  BY <1>2, <1>3, MapKept

LEMMA HangUpInv ==
  ASSUME ClientsInv, NEW t \in Targets, HangUp(t)
  PROVE  ClientsInv'
<1> USE DEF HangUp
<1>1. PICK c \in Built : <<c, t>> \in idle /\ idle' = idle \ {<<c, t>>}
  OBVIOUS
<1>2. <<c, t>> = Kept(t)
  BY <1>1 DEF ClientsInv, ClientsShape, Kept
<1>3. UsingInv(t)' /\ SocketInv(t)'
  BY <1>1, <1>2 DEF ClientsInv, ClientsShape, UsingInv, SocketInv, Busy
<1>4. \A u \in Targets \ {t} :
        /\ open'[u] = open[u]
        /\ Kept(u) \in idle' <=> Kept(u) \in idle
  BY <1>1, <1>2, KeptFacts DEF ClientsInv, ClientsShape
<1>5. ClientsShape'
  <2>1. Built' = Built
    BY DEF Built
  <2> QED
    BY <1>1, <2>1 DEF ClientsInv, ClientsShape
<1>6. \A u \in Targets : LockInv(u)'
  BY DEF ClientsInv, LockInv
<1> QED
  BY <1>3, <1>4, <1>5, <1>6, MapKept

-----------------------------------------------------------------------------
(***************************************************************************)
(* A client is built, and all are closed.                                  *)
(***************************************************************************)
LEMMA StoreInv ==
  ASSUME ClientsInv, NEW t \in Targets, Store(t)
  PROVE  /\ ClientsInv'
         /\ using[t] = NoClient
         /\ using' = [using EXCEPT ![t] = Own(t)]
         /\ Built' = Built \cup {Own(t)}
<1> DEFINE s == Setting[t]
<1> USE DEF Store
<1>1. /\ at[t] = "building" /\ lock = t /\ s \in Settings
      /\ built[s] = 0 /\ clients[s] = NoClient /\ using[t] = NoClient
  BY DEF ClientsInv, LockInv, MapInv, UsingInv, Settings
<1>2. /\ built' = [built EXCEPT ![s] = 1]
      /\ clients' = [clients EXCEPT ![s] = Own(t)]
      /\ using' = [using EXCEPT ![t] = Own(t)]
      /\ at' = [at EXCEPT ![t] = "ready"]
      /\ lock' = Free
      /\ UNCHANGED <<closed, failed, open, idle>>
  BY <1>1 DEF Own
<1> HIDE DEF Store
<1>3. built'[s] = 1 /\ \A r \in Settings \ {s} : built'[r] = built[r]
  BY <1>1, <1>2 DEF ClientsInv, ClientsShape
<1>4. \A r \in Settings : MapInv(r)'
  BY <1>1, <1>2, <1>3 DEF ClientsInv, ClientsShape, MapInv, Own
<1>5. Built' = Built \cup {Own(t)}
  <2>1. Built = {Client(r, 1) : r \in {q \in Settings : built[q] = 1}}
    BY BuiltOne
  <2>2. \A r \in Settings : built'[r] \in {0, 1}
    BY <1>4 DEF MapInv
  <2>3. Built' = {Client(r, 1) : r \in {q \in Settings : built'[q] = 1}}
    <3> DEFINE b == built'
    <3>1. ASSUME NEW c
          PROVE  c \in Built' <=> \E r \in Settings : b[r] = 1 /\ c = Client(r, 1)
      <4>1. c \in Built' <=>
              \E r \in Settings : c \in {Client(r, n) : n \in 1..b[r]}
        BY DEF Built
      <4>2. ASSUME NEW r \in Settings
            PROVE  c \in {Client(r, n) : n \in 1..b[r]} <=>
                     b[r] = 1 /\ c = Client(r, 1)
        <5>1. CASE b[r] = 0
          <6>1. 1..b[r] = {}
            BY <5>1
          <6> QED
            BY <5>1, <6>1
        <5>2. CASE b[r] = 1
          <6>1. 1..b[r] = {1}
            BY <5>2
          <6> QED
            BY <5>2, <6>1
        <5> QED
          BY <2>2, <5>1, <5>2
      <4> QED
        BY <4>1, <4>2
    <3> QED
      BY <3>1
  <2> QED
    BY <1>1, <1>3, <2>1, <2>3 DEF Own
<1>6. ClientsShape'
  BY <1>1, <1>2, <1>3, <1>5 DEF ClientsInv, ClientsShape, Places, Own, Settings
<1>7. \A u \in Targets \ {t} :
        at'[u] = at[u] /\ using'[u] = using[u] /\ at[u] # "building"
  BY <1>1, <1>2 DEF ClientsInv, ClientsShape, LockInv
<1>8. \A u \in Targets : LockInv(u)'
  BY <1>1, <1>2, <1>7, FreeAssumption DEF ClientsInv, ClientsShape, LockInv
<1>9. \A u \in Targets : UsingInv(u)'
  <2>1. UsingInv(t)'
    BY <1>1, <1>2, <1>3 DEF ClientsInv, ClientsShape, UsingInv
  <2>2. \A u \in Targets \ {t} : UsingInv(u)'
    BY <1>1, <1>3, <1>7 DEF ClientsInv, UsingInv, Settings
  <2> QED
    BY <2>1, <2>2
<1>10. \A u \in Targets : SocketInv(u)'
  BY <1>1, <1>2, <1>7 DEF ClientsInv, ClientsShape, SocketInv, Busy
<1> QED
  BY <1>1, <1>2, <1>4, <1>5, <1>6, <1>8, <1>9, <1>10 DEF ClientsInv

\* Close reaches every client built so far.
LEMMA CloseInv ==
  ASSUME ClientsInv, CloseClients
  PROVE  ClientsInv' /\ closed' = Built /\ Built' = Built
<1> DEFINE reached == {clients[s] : s \in Settings} \ {NoClient}
           gone(t) == {p \in idle : p[1] \in reached /\ p[2] = t}
<1> USE DEF CloseClients
<1>1. reached = Built
  <2>1. Built = {Client(s, 1) : s \in {r \in Settings : built[r] = 1}}
    BY BuiltOne
  <2> QED
    BY <2>1, ClientFacts DEF ClientsInv, MapInv
<1>2. Built' = Built
  BY DEF Built
<1>3. closed' = Built
  BY <1>1 DEF ClientsInv, ClientsShape
<1>4. ASSUME NEW p \in idle
      PROVE  p[1] \in Built /\ \E t \in Targets : p = Kept(t)
  <2>1. Built = {Client(s, 1) : s \in {r \in Settings : built[r] = 1}}
    BY BuiltOne
  <2>2. PICK t \in Targets : built[Setting[t]] = 1 /\ p = Kept(t)
    BY DEF ClientsInv, ClientsShape
  <2> QED
    BY <2>1, <2>2 DEF Kept, Own, Settings
<1>5. idle' = {}
  BY <1>1, <1>4
<1>6. ASSUME NEW t \in Targets
      PROVE  gone(t) = IF Kept(t) \in idle THEN {Kept(t)} ELSE {}
  <2>1. \A p \in gone(t) : p = Kept(t)
    BY <1>4 DEF Kept
  <2>2. Kept(t) \in idle => Kept(t) \in gone(t)
    BY <1>1, <1>4 DEF Kept
  <2>3. gone(t) \subseteq idle
    OBVIOUS
  <2> HIDE DEF gone
  <2> QED
    BY <2>1, <2>2, <2>3
<1>7. ASSUME NEW t \in Targets
      PROVE  open'[t] = IF Kept(t) \in idle THEN open[t] - 1 ELSE open[t]
  <2>1. open'[t] = open[t] - Cardinality(gone(t)) /\ open[t] \in Int
    BY DEF ClientsInv, ClientsShape
  <2>2. CASE Kept(t) \in idle
    <3>1. Cardinality(gone(t)) = 1
      BY <1>6, <2>2, FS_Singleton
    <3> QED
      BY <2>1, <2>2, <3>1
  <2>3. CASE Kept(t) \notin idle
    <3>1. Cardinality(gone(t)) = 0
      BY <1>6, <2>3, FS_EmptySet
    <3> QED
      BY <2>1, <2>3, <3>1
  <2> QED
    BY <2>2, <2>3
<1>8. open' = [t \in Targets |-> open[t] - Cardinality(gone(t))]
  OBVIOUS
<1> HIDE DEF CloseClients
<1>9. UNCHANGED <<lock, clients, built, at, using, failed>>
  BY DEF CloseClients
<1>10. open' \in [Targets -> Int]
  BY <1>7, <1>8 DEF ClientsInv, ClientsShape
<1>11. ClientsShape'
  BY <1>2, <1>3, <1>5, <1>9, <1>10 DEF ClientsInv, ClientsShape
<1>12. \A s \in Settings : MapInv(s)'
  BY <1>9 DEF ClientsInv, MapInv
<1>13. \A t \in Targets : LockInv(t)' /\ UsingInv(t)'
  BY <1>9 DEF ClientsInv, LockInv, UsingInv
<1>14. \A t \in Targets : SocketInv(t)'
  BY <1>5, <1>7, <1>9 DEF ClientsInv, SocketInv, Busy
<1> QED
  BY <1>2, <1>3, <1>11, <1>12, <1>13, <1>14 DEF ClientsInv

-----------------------------------------------------------------------------
(***************************************************************************)
(* What LifecycleProofs needs.                                             *)
(***************************************************************************)
LEMMA ClientsIdleInv ==
  ASSUME ClientsInv, UNCHANGED clientVars
  PROVE  ClientsInv'
<1> USE DEF clientVars
<1>1. Built' = Built
  BY DEF Built
<1>2. ClientsShape' /\ \A s \in Settings : MapInv(s)'
  BY <1>1 DEF ClientsInv, ClientsShape, MapInv
<1>3. \A t \in Targets : LockInv(t)' /\ UsingInv(t)' /\ SocketInv(t)'
  BY DEF ClientsInv, LockInv, UsingInv, SocketInv, Busy
<1> QED
  BY <1>2, <1>3 DEF ClientsInv

LEMMA ExchangeInv ==
  ASSUME ClientsInv, NEW t \in Targets,
         Enter(t) \/ Exchange(t) \/ Forget(t) \/ HangUp(t)
  PROVE  ClientsInv'
BY EnterInv, FindInv, MissInv, StoreInv, SendInv, RespondInv, LeaveInv,
   ForgetInv, HangUpInv DEF Exchange, ClientStep

LEMMA OpenFacts ==
  ASSUME ClientsInv, NEW t \in Targets
  PROVE  open[t] = 0 \/ open[t] = 1
<1>1. SocketInv(t)
  BY DEF ClientsInv
<1>2. CASE Busy(t)
  BY <1>1, <1>2 DEF SocketInv
<1>3. CASE ~Busy(t)
  BY <1>1, <1>3 DEF SocketInv
<1> QED
  BY <1>2, <1>3

LEMMA ClientsTyped ==
  ASSUME ClientsInv
  PROVE  ClientsTypeOK
<1>1. Built = {Client(s, 1) : s \in {r \in Settings : built[r] = 1}}
  BY BuiltOne
<1>2. \A s \in Settings : clients[s] \in Built \cup {NoClient}
  BY <1>1 DEF ClientsInv, MapInv
<1>3. \A t \in Targets : using[t] \in Built \cup {NoClient}
  BY <1>1 DEF ClientsInv, UsingInv, Own, Settings
<1>4. ASSUME NEW p \in idle PROVE p \in Built \X Targets
  <2>1. PICK t \in Targets : built[Setting[t]] = 1 /\ p = Kept(t)
    BY DEF ClientsInv, ClientsShape
  <2>2. Own(t) \in Built
    BY <1>1, <2>1 DEF Own, Settings
  <2> QED
    BY <2>1, <2>2 DEF Kept
<1>5. ASSUME NEW t \in Targets PROVE open[t] \in Nat
  <2>1. open[t] = 0 \/ open[t] = 1
    BY OpenFacts
  <2> QED
    BY <2>1
<1> QED
  BY <1>2, <1>3, <1>4, <1>5 DEF ClientsInv, ClientsShape, ClientsTypeOK

LEMMA OneSocket ==
  ASSUME ClientsInv
  PROVE  OneSocketPerTarget
<1> SUFFICES ASSUME NEW t \in Targets PROVE open[t] <= 1
  BY DEF OneSocketPerTarget
<1>1. open[t] = 0 \/ open[t] = 1
  BY OpenFacts
<1> QED
  BY <1>1

(***************************************************************************)
(* The refinement: a client is got when it is found or stored, and let go  *)
(* when Execute returns.                                                   *)
(***************************************************************************)
LEMMA InitMaps ==
  ASSUME ClientsInit
  PROVE  Pool!Init
<1>1. ClientsInv
  BY ClientsInitInv
<1>2. Built = {}
  <2>1. Built = {Client(s, 1) : s \in {r \in Settings : built[r] = 1}}
    BY <1>1, BuiltOne
  <2> QED
    BY <2>1 DEF ClientsInit
<1> QED
  BY <1>2 DEF ClientsInit, Pool!Init, NoClient, Pool!NoClient

LEMMA StepMaps ==
  ASSUME ClientsInv, NEW t \in Targets,
         Enter(t) \/ Exchange(t) \/ Forget(t) \/ HangUp(t)
  PROVE  [Pool!Next]_(Pool!vars)
<1> USE DEF Pool!NoClient, Pool!ClientOf, Pool!vars, NoClient, Own, Client
<1>1. ASSUME UNCHANGED <<built, using, closed>> PROVE UNCHANGED Pool!vars
  BY <1>1 DEF Built
<1>2. CASE Enter(t) \/ Miss(t) \/ Send(t) \/ Respond(t) \/ Forget(t) \/ HangUp(t)
  BY <1>1, <1>2 DEF Enter, Miss, Send, Respond, Forget, HangUp
<1>3. CASE Find(t)
  <2>1. /\ clients[Setting[t]] = Own(t) /\ built[Setting[t]] = 1
        /\ using[t] = NoClient
    BY <1>3 DEF Find, ClientsInv, MapInv, UsingInv, Settings
  <2>2. Own(t) \in Built
    BY <2>1, BuiltOne DEF Settings
  <2>3. Built' = Built
    BY <1>3 DEF Find, Built
  <2>4. Pool!Get(t)
    BY <1>3, <2>1, <2>2, <2>3 DEF Find, Pool!Get
  <2> QED
    BY <2>4 DEF Pool!Next
<1>4. CASE Store(t)
  <2>1. UNCHANGED closed
    BY <1>4 DEF Store
  <2>2. Pool!Get(t)
    BY <1>4, <2>1, StoreInv DEF Pool!Get
  <2> QED
    BY <2>2 DEF Pool!Next
<1>5. CASE Fail(t) \/ Release(t)
  <2>1. using[t] # NoClient /\ Leave(t)
    BY <1>5, ClientFacts DEF Fail, Release, ClientsInv, UsingInv
  <2>2. Built' = Built
    BY <2>1 DEF Leave, Built
  <2>3. Pool!Done(t)
    BY <2>1, <2>2 DEF Leave, Pool!Done
  <2> QED
    BY <2>3 DEF Pool!Next
<1> QED
  BY <1>2, <1>3, <1>4, <1>5 DEF Exchange, ClientStep

LEMMA CloseMaps ==
  ASSUME ClientsInv, CloseClients
  PROVE  [Pool!Next]_(Pool!vars)
<1>1. closed' = Built /\ Built' = Built /\ UNCHANGED using
  BY CloseInv DEF CloseClients
<1> QED
  BY <1>1 DEF Pool!Next, Pool!Close
=============================================================================
