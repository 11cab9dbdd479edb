---------------------------- MODULE FanoutProofs ----------------------------
(***************************************************************************)
(* Safety of the alert fan-out, for any number of senders, channels and    *)
(* alerts, and any order of the channels.                                  *)
(***************************************************************************)
EXTENDS Fanout, FiniteSetTheorems, TLAPS

\* The channels are in the order once each.
OrderInv ==
  /\ Len(order) \in Nat
  /\ order \in [1..Len(order) -> Channels]
  /\ \A i, j \in 1..Len(order) : order[i] = order[j] => i = j

SeriesType ==
  series \subseteq [prefix: {"", "telegram:", "mattermost:"}, name: Channels] \X Kinds

(***************************************************************************)
(* Everything but that the counters stay within MaxAlerts, which follows   *)
(* from what they count.                                                   *)
(***************************************************************************)
Types ==
  /\ OrderInv
  /\ SeriesType
  /\ sent \in [Channels \X Kinds -> Nat]
  /\ failed \in [Channels \X Kinds -> Nat]
  /\ taken \in [Channels \X Kinds -> Nat]
  /\ ctxDone \in BOOLEAN
  /\ at \in [Senders -> {"idle", "next", "awaiting"}]
  /\ alert \in [Senders -> Alerts \cup {NoAlert}]
  /\ pos \in [Senders -> 0..Len(order) + 1]
  /\ errs \in [Senders -> SUBSET Channels]
  /\ budget \in [Senders -> 0..AlertFanoutTimeout]
  /\ request \in [Senders -> Nat]
  /\ posted \in [Senders -> SUBSET Channels]
  /\ got \in [Senders -> SUBSET Channels]
  /\ alerts \in 0..MaxAlerts

\* The channels the send of s is done with.
Passed(s) == {order[i] : i \in 1..pos[s] - 1}

(***************************************************************************)
(* A send in progress has an alert; its requests went to channels it has   *)
(* passed or is at, and every channel it has passed is accounted for.      *)
(***************************************************************************)
SendInv(s) ==
  /\ at[s] # "idle" => pos[s] \in 1..Len(order) + 1 /\ alert[s] \in Alerts
  /\ at[s] = "awaiting" =>
       /\ pos[s] <= Len(order)
       /\ Channel(s) \in posted[s]
       /\ Forwards(Channel(s), alert[s].company)
  /\ at[s] = "idle" => got[s] = {}
  /\ at[s] = "next" => got[s] \subseteq Passed(s)
  /\ at[s] = "awaiting" => got[s] \subseteq Passed(s) \cup {Channel(s)}
  /\ \A c \in got[s] : Forwards(c, alert[s].company)
  /\ at[s] # "idle" => \A c \in Passed(s) :
       Forwards(c, alert[s].company) =>
         /\ c \in got[s] \cup errs[s]
         /\ ~Expired(s) => c \in posted[s]

\* The alerts of kind k on their way to c: no one has counted them yet.
Pending(c, k) ==
  {s \in Senders : at[s] # "idle" /\ alert[s].kind = k /\ c \notin Passed(s)}

(***************************************************************************)
(* What c took and has been observed is between what counts as sent and    *)
(* what is counted at all; and an alert is counted once by each channel.   *)
(***************************************************************************)
CountInv(c, k) ==
  LET open == Cardinality(Unobserved(c, k))
  IN  /\ sent[<<c, k>>] + open <= taken[<<c, k>>]
      /\ taken[<<c, k>>] <= sent[<<c, k>>] + failed[<<c, k>>] + open
      /\ sent[<<c, k>>] + failed[<<c, k>>] + Cardinality(Pending(c, k)) <= alerts

IInv ==
  /\ Types
  /\ \A s \in Senders : SendInv(s)
  /\ \A c \in Channels, k \in Kinds : CountInv(c, k)

\* A set of senders that a step of s leaves alone, but for s itself.
LEMMA OneSender ==
  ASSUME NEW A \in SUBSET Senders, NEW B \in SUBSET Senders, NEW s \in Senders,
         \A r \in Senders \ {s} : r \in B <=> r \in A
  PROVE  /\ Cardinality(A) \in Nat /\ Cardinality(B) \in Nat
         /\ s \in A /\ s \in B => Cardinality(B) = Cardinality(A)
         /\ s \notin A /\ s \notin B => Cardinality(B) = Cardinality(A)
         /\ s \in A /\ s \notin B => Cardinality(B) = Cardinality(A) - 1
         /\ s \notin A /\ s \in B => Cardinality(B) = Cardinality(A) + 1
<1>1. IsFiniteSet(A) /\ IsFiniteSet(B)
  BY FanoutAssumption, FS_Subset
<1>2. Cardinality(A) \in Nat /\ Cardinality(B) \in Nat
  BY <1>1, FS_CardinalityType
<1>3. CASE s \in A <=> s \in B
  <2>1. A = B
    BY <1>3
  <2> QED
    BY <1>2, <1>3, <2>1
<1>4. CASE s \in A /\ s \notin B
  <2>1. B = A \ {s}
    BY <1>4
  <2> QED
    BY <1>1, <1>2, <1>4, <2>1, FS_RemoveElement
<1>5. CASE s \notin A /\ s \in B
  <2>1. B = A \cup {s}
    BY <1>5
  <2> QED
    BY <1>1, <1>2, <1>5, <2>1, FS_AddElement
<1> QED
  BY <1>3, <1>4, <1>5

LEMMA SetsOfSenders ==
  ASSUME NEW c, NEW k
  PROVE  /\ Cardinality(Unobserved(c, k)) \in Nat
         /\ Cardinality(Pending(c, k)) \in Nat
<1>1. IsFiniteSet(Unobserved(c, k)) /\ IsFiniteSet(Pending(c, k))
  BY FanoutAssumption, FS_Subset DEF Unobserved, Pending
<1> QED
  BY <1>1, FS_CardinalityType

LEMMA InitInv == Init => IInv
<1> SUFFICES ASSUME Init PROVE IInv
  OBVIOUS
<1> USE DEF Init
<1>1. Cardinality(Channels) \in Nat
  BY FanoutAssumption, FS_CardinalityType
<1>2. OrderInv
  <2>1. order \in [1..Cardinality(Channels) -> Channels] /\ IsInjective(order)
    OBVIOUS
  <2>2. order \in Seq(Channels) /\ Len(order) = Cardinality(Channels)
    BY <1>1, <2>1
  <2>3. \A i, j \in DOMAIN order : order[i] = order[j] => i = j
    BY <2>1 DEF IsInjective
  <2> QED
    BY <1>1, <2>1, <2>2, <2>3 DEF OrderInv
<1>3. Types
  <2>1. SeriesType
    <3>1. \A c \in Channels :
            RegisteredName(c) \in [prefix: {"", "telegram:", "mattermost:"}, name: Channels]
      BY DEF RegisteredName
    <3>2. series = {RegisteredName(c) : c \in Channels} \X Kinds
      OBVIOUS
    <3> QED
      BY <3>1, <3>2 DEF SeriesType
  <2>2. pos \in [Senders -> 0..Len(order) + 1]
    BY <1>2 DEF OrderInv
  <2>3. budget \in [Senders -> 0..AlertFanoutTimeout] /\ alerts \in 0..MaxAlerts
    BY FanoutAssumption
  <2> QED
    BY <1>2, <2>1, <2>2, <2>3 DEF Types
<1>4. \A s \in Senders : SendInv(s)
  BY DEF SendInv
<1>5. ASSUME NEW c \in Channels, NEW k \in Kinds PROVE CountInv(c, k)
  <2>1. Unobserved(c, k) = {} /\ Pending(c, k) = {}
    BY DEF Unobserved, Pending
  <2>2. sent[<<c, k>>] = 0 /\ failed[<<c, k>>] = 0 /\ taken[<<c, k>>] = 0 /\ alerts = 0
    OBVIOUS
  <2> QED
    BY <2>1, <2>2, FS_EmptySet DEF CountInv
<1> QED
  BY <1>3, <1>4, <1>5 DEF IInv

-----------------------------------------------------------------------------
(***************************************************************************)
(* Steps of one sender.                                                    *)
(***************************************************************************)
\* Nothing of r has changed.
SenderUntouched(r) ==
  /\ at'[r] = at[r] /\ alert'[r] = alert[r] /\ pos'[r] = pos[r]
  /\ errs'[r] = errs[r] /\ budget'[r] = budget[r]
  /\ posted'[r] = posted[r] /\ got'[r] = got[r]

LEMMA UntouchedInv ==
  ASSUME UNCHANGED <<order, ctxDone>>, NEW r \in Senders, SenderUntouched(r)
  PROVE  /\ SendInv(r) => SendInv(r)'
         /\ Passed(r)' = Passed(r)
         /\ \A c, k : /\ r \in Unobserved(c, k)' <=> r \in Unobserved(c, k)
                      /\ r \in Pending(c, k)' <=> r \in Pending(c, k)
<1>1. Passed(r)' = Passed(r) /\ Channel(r)' = Channel(r) /\ (Expired(r)' <=> Expired(r))
  BY DEF SenderUntouched, Passed, Channel, Expired
<1> QED
  BY <1>1 DEF SenderUntouched, SendInv, Unobserved, Pending, Forwards

\* What a step of s does to the two sets.
LEMMA SetsAfter ==
  ASSUME UNCHANGED <<order, ctxDone>>, NEW s \in Senders,
         \A r \in Senders \ {s} : SenderUntouched(r),
         NEW c, NEW k
  PROVE  LET A == Unobserved(c, k)
             P == Pending(c, k)
         IN  /\ Cardinality(A) \in Nat /\ Cardinality(A') \in Nat
             /\ (s \in A <=> s \in A') => Cardinality(A') = Cardinality(A)
             /\ s \in A /\ s \notin A' => Cardinality(A') = Cardinality(A) - 1
             /\ s \notin A /\ s \in A' => Cardinality(A') = Cardinality(A) + 1
             /\ Cardinality(P) \in Nat /\ Cardinality(P') \in Nat
             /\ (s \in P <=> s \in P') => Cardinality(P') = Cardinality(P)
             /\ s \in P /\ s \notin P' => Cardinality(P') = Cardinality(P) - 1
             /\ s \notin P /\ s \in P' => Cardinality(P') = Cardinality(P) + 1
<1>1. /\ Unobserved(c, k) \in SUBSET Senders /\ Unobserved(c, k)' \in SUBSET Senders
      /\ Pending(c, k) \in SUBSET Senders /\ Pending(c, k)' \in SUBSET Senders
  BY DEF Unobserved, Pending
<1>2. \A r \in Senders \ {s} :
        /\ r \in Unobserved(c, k)' <=> r \in Unobserved(c, k)
        /\ r \in Pending(c, k)' <=> r \in Pending(c, k)
  BY UntouchedInv
<1> HIDE DEF Unobserved, Pending
<1>3. /\ Cardinality(Unobserved(c, k)) \in Nat /\ Cardinality(Unobserved(c, k)') \in Nat
      /\ (s \in Unobserved(c, k) <=> s \in Unobserved(c, k)') =>
           Cardinality(Unobserved(c, k)') = Cardinality(Unobserved(c, k))
      /\ s \in Unobserved(c, k) /\ s \notin Unobserved(c, k)' =>
           Cardinality(Unobserved(c, k)') = Cardinality(Unobserved(c, k)) - 1
      /\ s \notin Unobserved(c, k) /\ s \in Unobserved(c, k)' =>
           Cardinality(Unobserved(c, k)') = Cardinality(Unobserved(c, k)) + 1
  BY <1>1, <1>2, OneSender
<1>4. /\ Cardinality(Pending(c, k)) \in Nat /\ Cardinality(Pending(c, k)') \in Nat
      /\ (s \in Pending(c, k) <=> s \in Pending(c, k)') =>
           Cardinality(Pending(c, k)') = Cardinality(Pending(c, k))
      /\ s \in Pending(c, k) /\ s \notin Pending(c, k)' =>
           Cardinality(Pending(c, k)') = Cardinality(Pending(c, k)) - 1
      /\ s \notin Pending(c, k) /\ s \in Pending(c, k)' =>
           Cardinality(Pending(c, k)') = Cardinality(Pending(c, k)) + 1
  BY <1>1, <1>2, OneSender
<1> QED
  BY <1>3, <1>4

LEMMA PassedFacts ==
  ASSUME Types, NEW s \in Senders, pos[s] \in 1..Len(order)
  PROVE  Channel(s) \in Channels /\ Channel(s) \notin Passed(s)
<1>1. \A i \in 1..pos[s] - 1 : i \in 1..Len(order) /\ i # pos[s]
  BY DEF Types, OrderInv
<1> QED
  BY <1>1 DEF Types, OrderInv, Passed, Channel

LEMMA PassesOn ==
  ASSUME Types, NEW s \in Senders, pos[s] \in 1..Len(order),
         UNCHANGED order, pos' = [pos EXCEPT ![s] = @ + 1]
  PROVE  /\ Passed(s)' = Passed(s) \cup {Channel(s)}
         /\ pos'[s] = pos[s] + 1 /\ pos'[s] \in 1..Len(order)' + 1
<1>1. pos'[s] = pos[s] + 1
  BY DEF Types
<1>2. 1..pos'[s] - 1 = (1..pos[s] - 1) \cup {pos[s]}
  BY <1>1 DEF Types, OrderInv
<1> QED
  BY <1>1, <1>2 DEF Types, OrderInv, Passed, Channel

\* The invariant after a step of s, from what it did to s and to the counters.
LEMMA StepOfOne ==
  ASSUME IInv, UNCHANGED <<order, ctxDone>>, NEW s \in Senders,
         \A r \in Senders \ {s} : SenderUntouched(r),
         Types', SendInv(s)',
         \A c \in Channels, k \in Kinds : CountInv(c, k)'
  PROVE  IInv'
<1>1. \A r \in Senders : SendInv(r)'
  BY UntouchedInv DEF IInv
<1> QED
  BY <1>1 DEF IInv

LEMMA StartSendInv ==
  ASSUME IInv, NEW s \in Senders, NEW a \in Alerts, StartSend(s, a)
  PROVE  IInv'
<1> USE DEF StartSend, setup, counters
<1>1. \A r \in Senders \ {s} : SenderUntouched(r)
  BY DEF IInv, Types, SenderUntouched
<1>2. /\ at[s] = "idle" /\ at'[s] = "next" /\ pos'[s] = 1 /\ alert'[s] = a
      /\ got'[s] = {} /\ alerts' = alerts + 1 /\ alerts \in Nat
  BY FanoutAssumption DEF IInv, Types
<1>3. Passed(s)' = {}
  BY <1>2 DEF Passed
<1>4. Types'
  <2>1. pos' \in [Senders -> 0..Len(order)' + 1]
    BY DEF IInv, Types, OrderInv
  <2>2. budget' \in [Senders -> 0..AlertFanoutTimeout] /\ alerts' \in 0..MaxAlerts
    BY FanoutAssumption DEF IInv, Types
  <2>3. /\ at' \in [Senders -> {"idle", "next", "awaiting"}]
        /\ alert' \in [Senders -> Alerts \cup {NoAlert}]
        /\ errs' \in [Senders -> SUBSET Channels]
    BY DEF IInv, Types
  <2>4. /\ posted' \in [Senders -> SUBSET Channels]
        /\ got' \in [Senders -> SUBSET Channels]
    BY DEF IInv, Types
  <2> QED
    BY <2>1, <2>2, <2>3, <2>4 DEF IInv, Types, OrderInv, SeriesType
<1>5. SendInv(s)'
  BY <1>2, <1>3 DEF SendInv, IInv, Types, OrderInv
<1>6. ASSUME NEW c \in Channels, NEW k \in Kinds PROVE CountInv(c, k)'
  <2>1. s \notin Unobserved(c, k) /\ s \notin Unobserved(c, k)' /\ s \notin Pending(c, k)
    BY <1>2 DEF Unobserved, Pending
  <2>2. /\ Cardinality(Unobserved(c, k)') = Cardinality(Unobserved(c, k))
        /\ \/ Cardinality(Pending(c, k)') = Cardinality(Pending(c, k))
           \/ Cardinality(Pending(c, k)') = Cardinality(Pending(c, k)) + 1
        /\ Cardinality(Pending(c, k)) \in Nat
    BY <1>1, <2>1, SetsAfter
  <2>3. sent[<<c, k>>] \in Nat /\ failed[<<c, k>>] \in Nat
    BY DEF IInv, Types
  <2> QED
    BY <1>2, <2>2, <2>3 DEF IInv, CountInv
<1> QED
  BY <1>1, <1>4, <1>5, <1>6, StepOfOne

\* A step of s that counts nothing and takes nothing: neither set grows.
LEMMA CountsKept ==
  ASSUME IInv, UNCHANGED <<order, ctxDone, sent, failed, taken, alerts>>,
         NEW s \in Senders, \A r \in Senders \ {s} : SenderUntouched(r),
         NEW c \in Channels, NEW k \in Kinds,
         s \in Unobserved(c, k)' <=> s \in Unobserved(c, k),
         s \in Pending(c, k)' => s \in Pending(c, k)
  PROVE  CountInv(c, k)'
<1>1. /\ Cardinality(Unobserved(c, k)') = Cardinality(Unobserved(c, k))
      /\ \/ Cardinality(Pending(c, k)') = Cardinality(Pending(c, k))
         \/ Cardinality(Pending(c, k)') = Cardinality(Pending(c, k)) - 1
      /\ Cardinality(Pending(c, k)) \in Nat
  BY SetsAfter
<1>2. sent[<<c, k>>] \in Nat /\ failed[<<c, k>>] \in Nat /\ alerts \in Nat
  BY FanoutAssumption DEF IInv, Types
<1> QED
  BY <1>1, <1>2 DEF IInv, CountInv

LEMMA SkipInv ==
  ASSUME IInv, NEW s \in Senders, Skip(s)
  PROVE  IInv'
<1> USE DEF Skip, setup, counters, history
<1>1. \A r \in Senders \ {s} : SenderUntouched(r)
  BY DEF IInv, Types, SenderUntouched
<1>2. pos[s] \in 1..Len(order) /\ at[s] = "next"
  BY DEF IInv, Types, OrderInv, SendInv, AtEnd
<1>3. /\ Passed(s)' = Passed(s) \cup {Channel(s)}
      /\ pos'[s] = pos[s] + 1 /\ pos'[s] \in 1..Len(order)' + 1
  BY <1>2, PassesOn DEF IInv
<1>4. Types'
  <2>1. pos' \in [Senders -> 0..Len(order)' + 1]
    BY <1>2 DEF IInv, Types, OrderInv
  <2> QED
    BY <2>1 DEF IInv, Types, OrderInv, SeriesType
<1>5. SendInv(s)'
  BY <1>2, <1>3 DEF IInv, SendInv, Expired, Forwards
<1>6. ASSUME NEW c \in Channels, NEW k \in Kinds PROVE CountInv(c, k)'
  <2>1. /\ s \notin Unobserved(c, k)' /\ s \notin Unobserved(c, k)
        /\ s \in Pending(c, k)' => s \in Pending(c, k)
    BY <1>2, <1>3 DEF Unobserved, Pending
  <2> QED
    BY <1>1, <2>1, CountsKept
<1> QED
  BY <1>1, <1>4, <1>5, <1>6, StepOfOne

LEMMA PostInv ==
  ASSUME IInv, NEW s \in Senders, Post(s)
  PROVE  IInv'
<1> USE DEF Post, setup, counters
<1>1. \A r \in Senders \ {s} : SenderUntouched(r)
  BY DEF IInv, Types, SenderUntouched
<1>2. /\ pos[s] \in 1..Len(order) /\ at[s] = "next" /\ at'[s] = "awaiting"
      /\ Passed(s)' = Passed(s) /\ Channel(s)' = Channel(s)
  BY DEF IInv, Types, OrderInv, SendInv, AtEnd, Passed, Channel
<1>3. Channel(s) \in Channels /\ Channel(s) \notin Passed(s)
  BY <1>2, PassedFacts DEF IInv
<1>4. Types'
  <2>1. request' \in [Senders -> Nat]
    BY <1>3, FanoutAssumption DEF IInv, Types
  <2>2. /\ posted' \in [Senders -> SUBSET Channels]
        /\ at' \in [Senders -> {"idle", "next", "awaiting"}]
    BY <1>3 DEF IInv, Types
  <2> QED
    BY <2>1, <2>2 DEF IInv, Types, OrderInv, SeriesType
<1>5. posted'[s] = posted[s] \cup {Channel(s)}
  BY DEF IInv, Types
<1>6. SendInv(s)'
  BY <1>2, <1>5 DEF IInv, Types, OrderInv, SendInv, Expired, Forwards
<1>7. ASSUME NEW c \in Channels, NEW k \in Kinds PROVE CountInv(c, k)'
  <2>1. s \notin Unobserved(c, k)
    BY <1>2 DEF Unobserved
  <2>2. s \notin Unobserved(c, k)'
    BY <1>2, <1>3 DEF IInv, SendInv, Unobserved
  <2>3. s \in Pending(c, k)' => s \in Pending(c, k)
    BY <1>2 DEF Pending
  <2> QED
    BY <1>1, <2>1, <2>2, <2>3, CountsKept
<1> QED
  BY <1>1, <1>4, <1>6, <1>7, StepOfOne

LEMMA TakeInv ==
  ASSUME IInv, NEW s \in Senders, Take(s)
  PROVE  IInv'
<1> USE DEF Take, setup, counters, sending
<1>1. \A r \in Senders \ {s} : SenderUntouched(r)
  BY DEF IInv, Types, SenderUntouched
<1>2. /\ pos[s] \in 1..Len(order) /\ at[s] = "awaiting"
      /\ Passed(s)' = Passed(s) /\ Channel(s)' = Channel(s)
      /\ alert[s] \in Alerts
      /\ Forwards(Channel(s), alert[s].company)
  BY DEF IInv, Types, OrderInv, SendInv, Passed, Channel
<1>3. Channel(s) \in Channels /\ alert[s].kind \in Kinds
  BY <1>2, PassedFacts DEF IInv, Alerts
<1>4. got'[s] = got[s] \cup {Channel(s)} /\ got' \in [Senders -> SUBSET Channels]
  BY <1>3 DEF IInv, Types
<1>5. Types'
  <2>1. <<Channel(s), alert[s].kind>> \in Channels \X Kinds
    BY <1>3
  <2>2. taken' \in [Channels \X Kinds -> Nat]
    BY <2>1 DEF IInv, Types
  <2> QED
    BY <1>4, <2>2 DEF IInv, Types, OrderInv, SeriesType
<1>6. SendInv(s)'
  BY <1>2, <1>4 DEF IInv, SendInv, Expired, Forwards
<1>7. ASSUME NEW c \in Channels, NEW k \in Kinds PROVE CountInv(c, k)'
  <2>1. s \in Pending(c, k)' <=> s \in Pending(c, k)
    BY <1>2 DEF Pending
  <2>2. sent[<<c, k>>] \in Nat /\ failed[<<c, k>>] \in Nat /\ taken[<<c, k>>] \in Nat
    BY DEF IInv, Types
  <2>3. CASE c = Channel(s) /\ k = alert[s].kind
    <3>1. s \notin Unobserved(c, k) /\ s \in Unobserved(c, k)'
      BY <1>2, <1>4, <2>3 DEF Unobserved
    <3>2. taken'[<<c, k>>] = taken[<<c, k>>] + 1
      BY <2>3 DEF IInv, Types
    <3>3. /\ Cardinality(Unobserved(c, k)') = Cardinality(Unobserved(c, k)) + 1
          /\ Cardinality(Unobserved(c, k)) \in Nat
          /\ Cardinality(Pending(c, k)') = Cardinality(Pending(c, k))
      BY <1>1, <2>1, <3>1, SetsAfter
    <3> QED
      BY <2>2, <3>2, <3>3 DEF IInv, CountInv
  <2>4. CASE ~(c = Channel(s) /\ k = alert[s].kind)
    <3>1. s \notin Unobserved(c, k) /\ s \notin Unobserved(c, k)'
      BY <1>2, <2>4 DEF Unobserved
    <3>2. taken'[<<c, k>>] = taken[<<c, k>>]
      BY <2>4 DEF IInv, Types
    <3>3. /\ Cardinality(Unobserved(c, k)') = Cardinality(Unobserved(c, k))
          /\ Cardinality(Pending(c, k)') = Cardinality(Pending(c, k))
      BY <1>1, <2>1, <3>1, SetsAfter
    <3> QED
      BY <3>2, <3>3 DEF IInv, CountInv
  <2> QED
    BY <2>3, <2>4
<1> QED
  BY <1>1, <1>5, <1>6, <1>7, StepOfOne

\* A channel returns: it took the alert if it says so, and otherwise its error
\* is collected; it has been tried unless the deadline has passed.
LEMMA ChannelReturnsInv ==
  ASSUME IInv, NEW s \in Senders, NEW ok \in BOOLEAN, ChannelReturns(s, ok),
         \/ at[s] = "next" /\ Expired(s) /\ ~ok /\ ~AtEnd(s)
         \/ at[s] = "awaiting" /\ (ok => Channel(s) \in got[s]),
         Forwards(Channel(s), alert[s].company)
  PROVE  IInv'
<1> USE DEF ChannelReturns, setup, history
<1>1. \A r \in Senders \ {s} : SenderUntouched(r)
  BY DEF IInv, Types, SenderUntouched
<1>2. /\ pos[s] \in 1..Len(order) /\ at[s] # "idle" /\ at'[s] = "next"
      /\ alert[s] \in Alerts
  BY DEF IInv, Types, OrderInv, SendInv, AtEnd
<1>3. /\ Passed(s)' = Passed(s) \cup {Channel(s)}
      /\ pos'[s] = pos[s] + 1 /\ pos'[s] \in 1..Len(order)' + 1
  BY <1>2, PassesOn DEF IInv
<1>4. /\ Channel(s) \in Channels /\ Channel(s) \notin Passed(s)
      /\ alert[s].kind \in Kinds
      /\ <<Channel(s), alert[s].kind>> \in Channels \X Kinds
  BY <1>2, PassedFacts DEF IInv, Alerts
<1>5. /\ errs'[s] = IF ok THEN errs[s] ELSE errs[s] \cup {Channel(s)}
      /\ errs' \in [Senders -> SUBSET Channels]
  BY <1>4 DEF IInv, Types
<1>6. Types'
  <2>1. pos' \in [Senders -> 0..Len(order)' + 1]
    BY <1>2 DEF IInv, Types, OrderInv
  <2>2. SeriesType'
    <3>1. Name(Channel(s)) \in [prefix: {"", "telegram:", "mattermost:"}, name: Channels]
      BY <1>4 DEF Name
    <3>2. series' = series \cup {<<Name(Channel(s)), alert[s].kind>>}
      BY DEF ObserveAlert
    <3>3. SeriesType
      BY DEF IInv, Types
    <3> HIDE DEF ChannelReturns
    <3>4. <<Name(Channel(s)), alert[s].kind>>
            \in [prefix: {"", "telegram:", "mattermost:"}, name: Channels] \X Kinds
      BY <1>4, <3>1
    <3> QED
      BY <3>2, <3>3, <3>4, Zenon DEF SeriesType
  <2>3. sent' \in [Channels \X Kinds -> Nat]
    <3>1. CASE ok
      BY <1>4, <3>1 DEF IInv, Types, ObserveAlert
    <3>2. CASE ~ok
      BY <1>4, <3>2 DEF IInv, Types, ObserveAlert
    <3> QED
      BY <3>1, <3>2
  <2>4. failed' \in [Channels \X Kinds -> Nat]
    <3>1. CASE ok
      BY <1>4, <3>1 DEF IInv, Types, ObserveAlert
    <3>2. CASE ~ok
      BY <1>4, <3>2 DEF IInv, Types, ObserveAlert
    <3> QED
      BY <3>1, <3>2
  <2>5. /\ at' \in [Senders -> {"idle", "next", "awaiting"}]
        /\ request' \in [Senders -> Nat]
    BY DEF IInv, Types
  <2> QED
    BY <1>5, <2>1, <2>2, <2>3, <2>4, <2>5 DEF IInv, Types, OrderInv
<1>7. SendInv(s)'
  <2>1. /\ at[s] = "awaiting" => Channel(s) \in posted[s]
        /\ got[s] \subseteq Passed(s)'
        /\ Channel(s) \in got[s] \cup errs'[s]
        /\ Expired(s)' <=> Expired(s)
    BY <1>2, <1>3, <1>5 DEF IInv, SendInv, Expired
  <2>2. ~Expired(s) => Channel(s) \in posted[s]
    BY <2>1
  <2>3. \A c \in Passed(s)' :
          Forwards(c, alert[s].company) =>
            c \in got[s] \cup errs'[s] /\ (~Expired(s) => c \in posted[s])
    BY <1>2, <1>3, <1>5, <2>1, <2>2 DEF IInv, SendInv
  <2> QED
    BY <1>2, <1>3, <2>1, <2>3 DEF IInv, SendInv, Forwards
<1>8. ASSUME NEW c \in Channels, NEW k \in Kinds PROVE CountInv(c, k)'
  <2>1. sent[<<c, k>>] \in Nat /\ failed[<<c, k>>] \in Nat /\ taken[<<c, k>>] \in Nat
        /\ alerts \in Nat
    BY FanoutAssumption DEF IInv, Types
  <2>2. s \notin Unobserved(c, k)'
    BY <1>2 DEF Unobserved
  <2>3. CASE c = Channel(s) /\ k = alert[s].kind
    <3>1. s \in Pending(c, k) /\ s \notin Pending(c, k)'
      BY <1>2, <1>3, <1>4, <2>3 DEF Pending
    <3>2. /\ ok => s \in Unobserved(c, k)
          /\ sent'[<<c, k>>] = IF ok THEN sent[<<c, k>>] + 1 ELSE sent[<<c, k>>]
          /\ failed'[<<c, k>>] = IF ok THEN failed[<<c, k>>] ELSE failed[<<c, k>>] + 1
      BY <2>3 DEF Unobserved, ObserveAlert, IInv, Types
    <3>3. /\ s \in Unobserved(c, k) =>
               Cardinality(Unobserved(c, k)') = Cardinality(Unobserved(c, k)) - 1
          /\ s \notin Unobserved(c, k) =>
               Cardinality(Unobserved(c, k)') = Cardinality(Unobserved(c, k))
          /\ Cardinality(Unobserved(c, k)) \in Nat
          /\ Cardinality(Pending(c, k)) \in Nat
          /\ Cardinality(Pending(c, k)') = Cardinality(Pending(c, k)) - 1
      BY <1>1, <2>2, <3>1, SetsAfter
    <3>4. CASE ok
      BY <2>1, <3>2, <3>3, <3>4 DEF IInv, CountInv
    <3>5. CASE ~ok
      BY <2>1, <3>2, <3>3, <3>5 DEF IInv, CountInv
    <3> QED
      BY <3>4, <3>5
  <2>4. CASE ~(c = Channel(s) /\ k = alert[s].kind)
    <3>1. s \notin Unobserved(c, k)
      BY <2>4 DEF Unobserved
    <3>2. s \in Pending(c, k)' <=> s \in Pending(c, k)
      BY <1>2, <1>3, <2>4 DEF Pending
    <3>3. sent'[<<c, k>>] = sent[<<c, k>>] /\ failed'[<<c, k>>] = failed[<<c, k>>]
      BY <2>4 DEF ObserveAlert, IInv, Types
    <3>4. /\ Cardinality(Unobserved(c, k)') = Cardinality(Unobserved(c, k))
          /\ Cardinality(Pending(c, k)') = Cardinality(Pending(c, k))
      BY <1>1, <2>2, <3>1, <3>2, SetsAfter
    <3> QED
      BY <3>3, <3>4 DEF IInv, CountInv
  <2> QED
    BY <2>3, <2>4
<1> QED
  BY <1>1, <1>6, <1>7, <1>8, StepOfOne

LEMMA ReplyInv ==
  ASSUME IInv, NEW s \in Senders,
         \/ PostExpired(s) \/ Abandon(s) \/ \E reply \in Replies : Reply(s, reply)
  PROVE  IInv'
<1>1. CASE PostExpired(s)
  BY <1>1, ChannelReturnsInv DEF PostExpired
<1>2. CASE Abandon(s)
  BY <1>2, ChannelReturnsInv DEF Abandon, IInv, SendInv
<1>3. ASSUME NEW reply \in Replies, Reply(s, reply) PROVE IInv'
  <2>1. Accepted(Channel(s), reply) \in BOOLEAN
    BY DEF Accepted
  <2>2. Accepted(Channel(s), reply) => Channel(s) \in got[s]
    BY <1>3 DEF Reply, Honest, Accepted
  <2> QED
    BY <1>3, <2>1, <2>2, ChannelReturnsInv DEF Reply, IInv, SendInv
<1> QED
  BY <1>1, <1>2, <1>3

LEMMA FinishInv ==
  ASSUME IInv, NEW s \in Senders, Finish(s)
  PROVE  IInv'
<1> USE DEF Finish, setup, counters
<1>1. \A r \in Senders \ {s} : SenderUntouched(r)
  BY DEF IInv, Types, SenderUntouched
<1>2. at[s] = "next" /\ at'[s] = "idle" /\ got'[s] = {}
  BY DEF IInv, Types
<1>3. Types'
  <2>1. pos' \in [Senders -> 0..Len(order)' + 1]
    BY DEF IInv, Types, OrderInv
  <2>2. budget' \in [Senders -> 0..AlertFanoutTimeout]
    BY FanoutAssumption DEF IInv, Types
  <2>3. /\ at' \in [Senders -> {"idle", "next", "awaiting"}]
        /\ alert' \in [Senders -> Alerts \cup {NoAlert}]
        /\ errs' \in [Senders -> SUBSET Channels]
    BY DEF IInv, Types
  <2>4. /\ posted' \in [Senders -> SUBSET Channels]
        /\ got' \in [Senders -> SUBSET Channels]
    BY DEF IInv, Types
  <2> QED
    BY <2>1, <2>2, <2>3, <2>4 DEF IInv, Types, OrderInv, SeriesType
<1>4. SendInv(s)'
  BY <1>2 DEF SendInv
<1>5. ASSUME NEW c \in Channels, NEW k \in Kinds PROVE CountInv(c, k)'
  <2>1. /\ s \notin Unobserved(c, k)' /\ s \notin Unobserved(c, k)
        /\ s \notin Pending(c, k)'
    BY <1>2 DEF Unobserved, Pending
  <2> QED
    BY <1>1, <2>1, CountsKept
<1> QED
  BY <1>1, <1>3, <1>4, <1>5, StepOfOne

-----------------------------------------------------------------------------
\* Time, a cancellation, or nothing: an expired send stays expired.
LEMMA ClockInv ==
  ASSUME IInv, Cancel \/ Tick \/ UNCHANGED vars
  PROVE  IInv'
<1> USE DEF setup, counters, history, sending, vars
<1>1. /\ UNCHANGED <<order, series, sent, failed, taken, at, alert, pos, errs,
                     posted, got, alerts>>
      /\ ctxDone' \in BOOLEAN /\ (ctxDone => ctxDone')
  <2>1. CASE Cancel
    BY <2>1 DEF Cancel
  <2>2. CASE Tick
    BY <2>2 DEF Tick, IInv, Types
  <2>3. CASE UNCHANGED vars
    BY <2>3 DEF IInv, Types
  <2> QED
    BY <2>1, <2>2, <2>3
<1>2. /\ budget' \in [Senders -> 0..AlertFanoutTimeout]
      /\ request' \in [Senders -> Nat]
      /\ \A s \in Senders : budget[s] = 0 => budget'[s] = 0
  <2>1. CASE Tick
    <3>1. /\ budget' = [s \in Senders |-> Down(budget[s])]
          /\ request' = [s \in Senders |-> Down(request[s])]
      BY <2>1 DEF Tick
    <3> QED
      BY <3>1, FanoutAssumption DEF Down, IInv, Types
  <2>2. CASE ~Tick
    <3>1. UNCHANGED <<budget, request>>
      BY <2>2 DEF Cancel
    <3> QED
      BY <3>1 DEF IInv, Types
  <2> QED
    BY <2>1, <2>2
<1> HIDE DEF setup, counters, history, sending, vars
<1>3. Types'
  BY <1>1, <1>2 DEF IInv, Types, OrderInv, SeriesType
<1>4. ASSUME NEW s \in Senders PROVE SendInv(s)'
  <2>1. /\ Passed(s)' = Passed(s) /\ Channel(s)' = Channel(s)
        /\ Expired(s) => Expired(s)'
    BY <1>1, <1>2 DEF Passed, Channel, Expired
  <2>2. SendInv(s)
    BY DEF IInv
  <2> QED
    BY <1>1, <2>1, <2>2 DEF SendInv, Forwards
<1>5. ASSUME NEW c \in Channels, NEW k \in Kinds PROVE CountInv(c, k)'
  <2>1. Unobserved(c, k)' = Unobserved(c, k) /\ Pending(c, k)' = Pending(c, k)
    BY <1>1 DEF Unobserved, Pending, Passed, Channel
  <2> QED
    BY <1>1, <2>1 DEF IInv, CountInv
<1> QED
  BY <1>3, <1>4, <1>5 DEF IInv

LEMMA Invariance == Spec => []IInv
<1>1. IInv /\ [Next]_vars => IInv'
  BY StartSendInv, SkipInv, PostInv, TakeInv, ReplyInv, FinishInv, ClockInv
     DEF Next, SendStep
<1> QED
  BY <1>1, InitInv, PTL DEF Spec

-----------------------------------------------------------------------------
\* Every variable keeps its type.  That no counter passes the number of alerts
\* raised is the work: each channel counts an alert once, and takes it once.
THEOREM TypeCorrect == Spec => []TypeOK
<1>1. IInv => TypeOK
  <2> SUFFICES ASSUME IInv PROVE TypeOK
    OBVIOUS
  <2>1. ASSUME NEW ck \in Channels \X Kinds
        PROVE  /\ sent[ck] \in 0..MaxAlerts
               /\ failed[ck] \in 0..MaxAlerts
               /\ taken[ck] \in 0..MaxAlerts
    <3>1. PICK c \in Channels, k \in Kinds : ck = <<c, k>>
      OBVIOUS
    <3>2. /\ Cardinality(Unobserved(c, k)) \in Nat
          /\ Cardinality(Pending(c, k)) \in Nat
          /\ Cardinality(Unobserved(c, k)) <= Cardinality(Pending(c, k))
      <4>1. Unobserved(c, k) \subseteq Pending(c, k)
        <5>1. ASSUME NEW s \in Unobserved(c, k) PROVE c \notin Passed(s)
          <6>1. s \in Senders /\ at[s] = "awaiting" /\ Channel(s) = c
            BY DEF Unobserved
          <6>2. pos[s] \in 1..Len(order)
            BY <6>1 DEF IInv, SendInv, Types, OrderInv
          <6> QED
            BY <6>1, <6>2, PassedFacts DEF IInv
        <5> QED
          BY <5>1 DEF Unobserved, Pending
      <4>2. IsFiniteSet(Pending(c, k))
        BY FanoutAssumption, FS_Subset DEF Pending
      <4> QED
        BY <4>1, <4>2, FS_Subset, SetsOfSenders
    <3>3. /\ sent[ck] \in Nat /\ failed[ck] \in Nat /\ taken[ck] \in Nat
          /\ alerts \in 0..MaxAlerts
      BY DEF IInv, Types
    <3>4. CountInv(c, k)
      BY DEF IInv
    <3> QED
      BY <3>1, <3>2, <3>3, <3>4, FanoutAssumption DEF CountInv
  <2>2. /\ sent \in [Channels \X Kinds -> 0..MaxAlerts]
        /\ failed \in [Channels \X Kinds -> 0..MaxAlerts]
        /\ taken \in [Channels \X Kinds -> 0..MaxAlerts]
    BY <2>1 DEF IInv, Types
  <2>3. \A x \in series :
          x[1] \in [prefix: {"", "telegram:", "mattermost:"}, name: Channels] /\ x[2] \in Kinds
    BY DEF IInv, Types, SeriesType
  <2> QED
    BY <2>2, <2>3 DEF IInv, Types, OrderInv, TypeOK
<1> QED
  BY <1>1, Invariance, PTL

\* What s is done with, by position.
LEMMA PassedByPosition ==
  ASSUME IInv, NEW s \in Senders, NEW i \in 1..pos[s] - 1
  PROVE  order[i] \in Passed(s) /\ order[i] \in Channels
<1>1. order[i] \in Passed(s)
  BY DEF Passed
<1>2. pos[s] \in 0..Len(order) + 1 /\ Len(order) \in Nat
  BY DEF IInv, Types, OrderInv
<1>3. i \in 1..Len(order)
  BY <1>2
<1> QED
  BY <1>1, <1>3 DEF IInv, Types, OrderInv

\* A channel that should hear an alert has taken it or is in the error Send
\* returns, once it has been passed (CompositeAlerter.Send).
THEOREM NothingIsLostSilently == Spec => []NothingLostSilently
<1>1. IInv => NothingLostSilently
  BY PassedByPosition DEF IInv, SendInv, Audience, NothingLostSilently
<1> QED
  BY <1>1, Invariance, PTL

\* A channel dedicated to some companies takes no other company's alert, and a
\* catch-all is never passed over before the deadline (CompanyFilter).
AllowListsAreRespected ==
  \A s \in Senders : at[s] # "idle" =>
    /\ \A c \in got[s] : Allowed[c] # {} => alert[s].company \in Allowed[c]
    /\ \A i \in 1..pos[s] - 1 :
         Allowed[order[i]] = {} /\ ~Expired(s) => order[i] \in posted[s]

\* An allow-list keeps other companies' alerts out, and a catch-all is posted
\* every one within the deadline (CompanyFilter).
THEOREM AllowListsHold == Spec => []AllowListsAreRespected
<1>1. IInv => AllowListsAreRespected
  <2> SUFFICES ASSUME IInv, NEW s \in Senders, at[s] # "idle"
               PROVE  /\ \A c \in got[s] :
                           Allowed[c] # {} => alert[s].company \in Allowed[c]
                      /\ \A i \in 1..pos[s] - 1 :
                           Allowed[order[i]] = {} /\ ~Expired(s) => order[i] \in posted[s]
    BY DEF AllowListsAreRespected
  <2> QED
    BY PassedByPosition DEF IInv, SendInv, Forwards
<1> QED
  BY <1>1, Invariance, PTL

\* Within the deadline of a send, a channel that fails stops no other
\* (CompositeAlerter.Send).
THEOREM FailuresStopNoOther == Spec => []OthersAreTried
<1>1. IInv => OthersAreTried
  BY PassedByPosition DEF IInv, SendInv, Audience, OthersAreTried
<1> QED
  BY <1>1, Invariance, PTL

\* The delivery counters are honest under any interleaving of sends and loss of
\* replies (Instrumented).
THEOREM CountersStayHonest == Spec => []CountersAreHonest
<1>1. IInv => CountersAreHonest
  <2> SUFFICES ASSUME IInv, NEW c \in Channels, NEW k \in Kinds
               PROVE  /\ sent[<<c, k>>] <= taken[<<c, k>>]
                      /\ taken[<<c, k>>] <= sent[<<c, k>>] + failed[<<c, k>>]
                                              + Cardinality(Unobserved(c, k))
    BY DEF CountersAreHonest
  <2>1. /\ sent[<<c, k>>] \in Nat /\ taken[<<c, k>>] \in Nat
        /\ Cardinality(Unobserved(c, k)) \in Nat
    BY SetsOfSenders DEF IInv, Types
  <2>2. CountInv(c, k)
    BY DEF IInv
  <2> QED
    BY <2>1, <2>2 DEF CountInv
<1> QED
  BY <1>1, Invariance, PTL
-----------------------------------------------------------------------------
(***************************************************************************)
(* The composite implements Delivery.                                      *)
(***************************************************************************)
\* Every channel has its place in the order.
Complete == \A c \in Channels : \E i \in 1..Len(order) : order[i] = c

\* The error of a send names only channels it has passed.
ErrorInv(s) ==
  /\ at[s] = "idle" => errs[s] = {}
  /\ at[s] # "idle" => errs[s] \subseteq Passed(s)

DeliveryInv == Complete /\ \A s \in Senders : ErrorInv(s)

LEMMA InitComplete == Init => Complete
<1> SUFFICES ASSUME Init PROVE Complete
  OBVIOUS
<1> DEFINE n == Cardinality(Channels)
<1>1. n \in Nat
  BY FanoutAssumption, FS_CardinalityType
<1>2. order \in Injection(1..n, Channels)
  BY DEF Init, Injection
<1>3. Cardinality(1..n) = n
  BY <1>1, FS_Interval
<1>4. order \in Surjection(1..n, Channels)
  BY <1>2, <1>3, FanoutAssumption, FS_Injection
<1>5. Len(order) = n
  <2>1. order \in [1..n -> Channels]
    BY <1>2 DEF Injection
  <2>2. order \in Seq(Channels)
    BY <1>1, <2>1
  <2> QED
    BY <1>1, <2>1, <2>2
<1> QED
  BY <1>4, <1>5 DEF Surjection, Complete

LEMMA ErrorUntouched ==
  ASSUME UNCHANGED order, NEW r \in Senders, SenderUntouched(r), ErrorInv(r)
  PROVE  ErrorInv(r)'
BY DEF SenderUntouched, ErrorInv, Passed

\* A send that passes a channel may add it, and no other, to its error.
LEMMA ErrorPasses ==
  ASSUME IInv, NEW s \in Senders, NEW ok, ChannelReturns(s, ok), ErrorInv(s),
         pos[s] \in 1..Len(order), at[s] # "idle"
  PROVE  /\ ErrorInv(s)'
         /\ Channel(s) \in Channels /\ Channel(s) \notin errs[s]
         /\ errs' = [errs EXCEPT ![s] = IF ok THEN @ ELSE @ \cup {Channel(s)}]
         /\ \A r \in Senders \ {s} : SenderUntouched(r)
<1>1. Passed(s)' = Passed(s) \cup {Channel(s)} /\ Channel(s) \notin Passed(s)
      /\ Channel(s) \in Channels
  BY PassesOn, PassedFacts DEF ChannelReturns, setup, IInv
<1>2. at'[s] = "next" /\ errs'[s] \subseteq errs[s] \cup {Channel(s)}
  BY DEF ChannelReturns, IInv, Types
<1>3. \A r \in Senders \ {s} : SenderUntouched(r)
  BY DEF ChannelReturns, history, IInv, Types, SenderUntouched
<1> QED
  BY <1>1, <1>2, <1>3 DEF ErrorInv, ChannelReturns

\* Where a send is when one of its channels returns.
LEMMA Returning ==
  ASSUME IInv, NEW s \in Senders,
         \/ at[s] = "awaiting"
         \/ at[s] = "next" /\ ~AtEnd(s)
  PROVE  pos[s] \in 1..Len(order) /\ at[s] # "idle"
BY DEF IInv, Types, OrderInv, SendInv, AtEnd

\* A step that leaves the sends as they are for Delivery.
LEMMA DeliveryStutters ==
  ASSUME UNCHANGED <<alert, got, errs>>,
         \A r \in Senders : at'[r] = "idle" <=> at[r] = "idle"
  PROVE  UNCHANGED Promise!vars
<1>1. {r \in Senders : at'[r] # "idle"} = {r \in Senders : at[r] # "idle"}
  OBVIOUS
<1> QED
  BY <1>1 DEF Promise!vars

LEMMA StartSendMaps ==
  ASSUME IInv, DeliveryInv, NEW s \in Senders, NEW a \in Alerts, StartSend(s, a)
  PROVE  DeliveryInv' /\ [Promise!Next]_(Promise!vars)
<1> USE DEF StartSend, setup, counters
<1>1. /\ at[s] = "idle" /\ at' = [at EXCEPT ![s] = "next"]
      /\ got[s] = {} /\ errs[s] = {}
  BY DEF IInv, SendInv, DeliveryInv, ErrorInv
<1>2. got' = got /\ errs' = errs
  BY <1>1 DEF IInv, Types
<1>3. \A r \in Senders \ {s} : SenderUntouched(r)
  BY DEF IInv, Types, SenderUntouched
<1>4. ErrorInv(s)'
  BY <1>1, <1>2 DEF ErrorInv
<1>5. DeliveryInv'
  BY <1>3, <1>4, ErrorUntouched DEF DeliveryInv, Complete
<1>6. {r \in Senders : at'[r] # "idle"} = {r \in Senders : at[r] # "idle"} \cup {s}
  BY <1>1 DEF IInv, Types
<1>7. Promise!Begin(s, a)
  BY <1>1, <1>2, <1>6 DEF Promise!Begin
<1> QED
  BY <1>5, <1>7 DEF Promise!Next

LEMMA PassMaps ==
  ASSUME IInv, DeliveryInv, NEW s \in Senders, Skip(s) \/ Post(s)
  PROVE  DeliveryInv' /\ UNCHANGED Promise!vars
<1> USE DEF Skip, Post, setup, counters, history
<1>1. at[s] = "next" /\ at'[s] # "idle" /\ UNCHANGED <<order, alert, got, errs>>
  BY DEF IInv, Types
<1>2. \A r \in Senders \ {s} : SenderUntouched(r)
  BY DEF IInv, Types, SenderUntouched
<1>3. Passed(s) \subseteq Passed(s)'
  <2>1. CASE Skip(s)
    BY <2>1, Returning, PassesOn DEF IInv
  <2>2. CASE Post(s)
    BY <2>2 DEF Passed
  <2> QED
    BY <2>1, <2>2
<1>4. ErrorInv(s)'
  BY <1>1, <1>3 DEF DeliveryInv, ErrorInv
<1>5. DeliveryInv'
  BY <1>1, <1>2, <1>4, ErrorUntouched DEF DeliveryInv, Complete
<1>6. UNCHANGED Promise!vars
  BY <1>1, <1>2, DeliveryStutters DEF SenderUntouched
<1> QED
  BY <1>5, <1>6

LEMMA ReturnMaps ==
  ASSUME IInv, DeliveryInv, NEW s \in Senders, NEW ok \in BOOLEAN,
         ChannelReturns(s, ok), Forwards(Channel(s), alert[s].company),
         \/ at[s] = "awaiting"
         \/ at[s] = "next" /\ ~AtEnd(s)
  PROVE  DeliveryInv' /\ [Promise!Next]_(Promise!vars)
<1>1. /\ ErrorInv(s)'
      /\ Channel(s) \in Channels /\ Channel(s) \notin errs[s]
      /\ errs' = [errs EXCEPT ![s] = IF ok THEN @ ELSE @ \cup {Channel(s)}]
      /\ \A r \in Senders \ {s} : SenderUntouched(r)
  BY Returning, ErrorPasses DEF DeliveryInv
<1>2. /\ at[s] # "idle" /\ at'[s] = "next" /\ alert[s] \in Alerts
      /\ UNCHANGED <<order, alert, got>>
  BY Returning DEF ChannelReturns, setup, history, IInv, Types, SendInv
<1>3. DeliveryInv'
  BY <1>1, <1>2, ErrorUntouched DEF DeliveryInv, Complete
<1>4. \A r \in Senders : at'[r] = "idle" <=> at[r] = "idle"
  BY <1>1, <1>2 DEF SenderUntouched
<1>5. CASE ok
  <2>1. errs' = errs
    BY <1>1, <1>5 DEF IInv, Types
  <2> QED
    BY <1>2, <1>3, <1>4, <2>1, DeliveryStutters
<1>6. CASE ~ok
  <2>1. {r \in Senders : at'[r] # "idle"} = {r \in Senders : at[r] # "idle"}
    BY <1>4
  <2>2. errs' = [errs EXCEPT ![s] = @ \cup {Channel(s)}]
    BY <1>1, <1>6
  <2>3. Allowed[Channel(s)] = {} \/ alert[s].company \in Allowed[Channel(s)]
    BY DEF Forwards
  <2>4. Promise!Report(s, Channel(s))
    BY <1>1, <1>2, <2>1, <2>2, <2>3 DEF Promise!Report
  <2> QED
    BY <1>1, <1>3, <2>4 DEF Promise!Next
<1> QED
  BY <1>5, <1>6

LEMMA TakeMaps ==
  ASSUME IInv, DeliveryInv, NEW s \in Senders, Take(s)
  PROVE  DeliveryInv' /\ [Promise!Next]_(Promise!vars)
<1> USE DEF Take, setup, counters, sending
<1>1. /\ Channel(s) \in Channels /\ Channel(s) \notin Passed(s)
      /\ alert[s] \in Alerts /\ Forwards(Channel(s), alert[s].company)
  BY Returning, PassedFacts DEF IInv, SendInv
<1>2. Channel(s) \notin errs[s]
  BY <1>1 DEF DeliveryInv, ErrorInv
<1>3. DeliveryInv'
  BY DEF DeliveryInv, Complete, ErrorInv, Passed
<1>4. Allowed[Channel(s)] = {} \/ alert[s].company \in Allowed[Channel(s)]
  BY <1>1 DEF Forwards
<1>5. Promise!Reach(s, Channel(s))
  BY <1>1, <1>2, <1>4 DEF Promise!Reach
<1> QED
  BY <1>1, <1>3, <1>5 DEF Promise!Next

LEMMA FinishMaps ==
  ASSUME IInv, DeliveryInv, NEW s \in Senders, Finish(s)
  PROVE  DeliveryInv' /\ [Promise!Next]_(Promise!vars)
<1> USE DEF Finish, setup, counters
<1>1. /\ at[s] = "next" /\ at' = [at EXCEPT ![s] = "idle"]
      /\ alert[s] \in Alerts /\ pos[s] \in 1..Len(order) + 1 /\ Len(order) \in Nat
  BY DEF IInv, Types, OrderInv, SendInv
<1>2. \A r \in Senders \ {s} : SenderUntouched(r)
  BY DEF IInv, Types, SenderUntouched
<1>3. at'[s] = "idle" /\ errs'[s] = {}
  BY DEF IInv, Types
<1>4. DeliveryInv'
  BY <1>2, <1>3, ErrorUntouched DEF DeliveryInv, Complete, ErrorInv
<1>5. \A c \in Channels : c \in Passed(s)
  <2>1. pos[s] - 1 = Len(order)
    BY <1>1 DEF AtEnd
  <2> QED
    BY <2>1 DEF DeliveryInv, Complete, Passed
<1>6. \A c \in Channels :
        Allowed[c] = {} \/ alert[s].company \in Allowed[c] => c \in got[s] \cup errs[s]
  BY <1>1, <1>5 DEF IInv, SendInv, Forwards
<1>7. {r \in Senders : at'[r] # "idle"} = {r \in Senders : at[r] # "idle"} \ {s}
  BY <1>1 DEF IInv, Types
<1>8. Promise!End(s)
  BY <1>1, <1>6, <1>7 DEF Promise!End
<1> QED
  BY <1>4, <1>8 DEF Promise!Next

LEMMA OthersMap ==
  ASSUME DeliveryInv, Cancel \/ Tick \/ UNCHANGED vars
  PROVE  DeliveryInv' /\ UNCHANGED Promise!vars
<1>1. UNCHANGED <<order, at, alert, pos, errs, got>>
  BY DEF Cancel, Tick, vars, setup, counters, sending, history
<1> QED
  BY <1>1, DeliveryStutters DEF DeliveryInv, Complete, ErrorInv, Passed

\* What the composite does, for any channels in any order, any allow-lists and
\* any number of senders, is what Delivery allows: an alert goes to its audience
\* only, to each at most once and never after it was reported as failed, and a
\* send ends only when everyone has heard it or is in the error
\* (CompositeAlerter, CompanyFilter).
THEOREM RefinesDelivery == Spec => DeliverySpec
<1>1. Init => DeliveryInv /\ Promise!Init
  <2>1. Init => \A s \in Senders : ErrorInv(s)
    BY DEF Init, ErrorInv
  <2>2. Init => Promise!Init
    BY DEF Init, Promise!Init
  <2> QED
    BY <2>1, <2>2, InitComplete DEF DeliveryInv
<1>2. IInv /\ DeliveryInv /\ [Next]_vars
        => DeliveryInv' /\ [Promise!Next]_(Promise!vars)
  <2> SUFFICES ASSUME IInv, DeliveryInv, [Next]_vars
               PROVE  DeliveryInv' /\ [Promise!Next]_(Promise!vars)
    OBVIOUS
  <2>1. ASSUME NEW s \in Senders, PostExpired(s)
        PROVE  DeliveryInv' /\ [Promise!Next]_(Promise!vars)
    BY <2>1, ReturnMaps DEF PostExpired
  <2>2. ASSUME NEW s \in Senders, Abandon(s)
        PROVE  DeliveryInv' /\ [Promise!Next]_(Promise!vars)
    BY <2>2, ReturnMaps DEF Abandon, IInv, SendInv
  <2>3. ASSUME NEW s \in Senders, NEW reply \in Replies, Reply(s, reply)
        PROVE  DeliveryInv' /\ [Promise!Next]_(Promise!vars)
    <3>1. Accepted(Channel(s), reply) \in BOOLEAN
      BY DEF Accepted
    <3> QED
      BY <2>3, <3>1, ReturnMaps DEF Reply, IInv, SendInv
  <2> QED
    BY <2>1, <2>2, <2>3, StartSendMaps, PassMaps, TakeMaps, FinishMaps, OthersMap
       DEF Next, SendStep
<1> QED
  BY <1>1, <1>2, Invariance, PTL DEF Spec, DeliverySpec, Promise!Spec

-----------------------------------------------------------------------------
(***************************************************************************)
(* How long a send may take.  SendSteps(s) is how many steps of its own    *)
(* the send of s may still take; budget[s] bounds its waiting.             *)
(***************************************************************************)
SendSteps(s) ==
  CASE at[s] = "next" -> 2 * (Len(order) + 1 - pos[s]) + 1
    [] at[s] = "awaiting" -> 2 * (Len(order) + 1 - pos[s])
    [] OTHER -> 0

\* A tick that s spends waiting for a reply, and a step of its send.
AwaitsReply(s) == Tick /\ at[s] = "awaiting" /\ ~Expired(s)
SendMoves(s) == SendStep(s) \/ \E reply \in Replies : Reply(s, reply)

Starts(s) == \E a \in Alerts : StartSend(s, a)

LEMMA SendMovesOn ==
  ASSUME IInv, NEW s \in Senders, SendMoves(s)
  PROVE  /\ SendSteps(s)' < SendSteps(s) /\ SendSteps(s)' \in Nat
         /\ at'[s] # "idle" => budget'[s] = budget[s]
         /\ order' = order /\ at[s] # "idle"
<1>1. /\ Len(order) \in Nat /\ pos[s] \in 0..Len(order) + 1
      /\ at[s] # "idle" => pos[s] \in 1..Len(order) + 1
  BY DEF IInv, Types, OrderInv, SendInv
<1>2. CASE Skip(s)
  <2>1. /\ at[s] = "next" /\ at'[s] = "next" /\ pos'[s] = pos[s] + 1
        /\ pos[s] <= Len(order) /\ budget' = budget /\ order' = order
    BY <1>1, <1>2, Returning DEF Skip, setup, IInv, Types
  <2> QED
    BY <1>1, <2>1 DEF SendSteps
<1>3. CASE Post(s)
  <2>1. /\ at[s] = "next" /\ at'[s] = "awaiting" /\ pos'[s] = pos[s]
        /\ pos[s] <= Len(order) /\ budget' = budget /\ order' = order
    BY <1>1, <1>3, Returning DEF Post, setup, IInv, Types
  <2> QED
    BY <1>1, <2>1 DEF SendSteps
<1>4. ASSUME NEW ok, ChannelReturns(s, ok),
             \/ at[s] = "awaiting"
             \/ at[s] = "next" /\ ~AtEnd(s)
      PROVE  /\ SendSteps(s)' < SendSteps(s) /\ SendSteps(s)' \in Nat
             /\ at'[s] # "idle" => budget'[s] = budget[s]
             /\ order' = order /\ at[s] # "idle"
  <2>1. /\ at'[s] = "next" /\ pos'[s] = pos[s] + 1
        /\ pos[s] \in 1..Len(order) /\ budget' = budget /\ order' = order
    BY <1>1, <1>4, Returning DEF ChannelReturns, setup, IInv, Types
  <2> QED
    BY <1>1, <1>4, <2>1 DEF SendSteps
<1>5. CASE Finish(s)
  <2>1. at[s] = "next" /\ at'[s] = "idle" /\ order' = order
    BY <1>5 DEF Finish, setup, IInv, Types
  <2> QED
    BY <1>1, <2>1 DEF SendSteps
<1>6. ASSUME NEW reply \in Replies, Reply(s, reply)
      PROVE  ChannelReturns(s, Accepted(Channel(s), reply)) /\ at[s] = "awaiting"
  BY <1>6 DEF Reply
<1> QED
  BY <1>2, <1>3, <1>4, <1>5, <1>6 DEF SendMoves, SendStep, PostExpired, Abandon

\* Every other step leaves the send of s what it had.
LEMMA SendRests ==
  ASSUME IInv, NEW s \in Senders, [Next]_vars, ~SendMoves(s), ~Starts(s)
  PROVE  /\ SendSteps(s)' = SendSteps(s) /\ at'[s] = at[s] /\ order' = order
         /\ budget'[s] <= budget[s]
         /\ AwaitsReply(s) => budget'[s] = budget[s] - 1
<1>1. /\ budget \in [Senders -> 0..AlertFanoutTimeout] /\ AlertFanoutTimeout \in Nat
  BY FanoutAssumption DEF IInv, Types
<1>2. CASE Tick
  BY <1>1, <1>2 DEF Tick, Down, setup, SendSteps, AwaitsReply, Expired
<1>3. CASE Cancel \/ UNCHANGED vars \/ Take(s)
  BY <1>1, <1>3 DEF Cancel, Take, vars, setup, sending, SendSteps, AwaitsReply, Tick, Down,
                    Expired
<1>4. ASSUME NEW r \in Senders \ {s}, Starts(r) \/ SendMoves(r) \/ Take(r)
      PROVE  /\ at'[s] = at[s] /\ pos'[s] = pos[s] /\ budget'[s] = budget[s]
             /\ order' = order
  BY <1>4 DEF Starts, StartSend, SendMoves, SendStep, Skip, Post, PostExpired, Abandon,
              Finish, Reply, ChannelReturns, Take, setup, sending, history, IInv, Types
<1>5. ASSUME NEW r \in Senders \ {s}, Starts(r) \/ SendMoves(r) \/ Take(r), ~Tick
      PROVE  /\ SendSteps(s)' = SendSteps(s) /\ at'[s] = at[s] /\ order' = order
             /\ budget'[s] <= budget[s]
             /\ AwaitsReply(s) => budget'[s] = budget[s] - 1
  BY <1>1, <1>4, <1>5 DEF SendSteps, AwaitsReply
<1>6. \/ Tick \/ Cancel \/ UNCHANGED vars \/ Take(s)
      \/ \E r \in Senders \ {s} : Starts(r) \/ SendMoves(r) \/ Take(r)
  BY DEF Next, Starts, SendMoves
<1> QED
  BY <1>2, <1>3, <1>5, <1>6

\* Let waited count the ticks the send of s in progress, or its last one, has
\* spent waiting for replies, and moved the steps it has taken.  No send waits
\* longer than its deadline, whatever the timeouts of the channels, and none
\* takes more than two steps a channel and one to end (CompositeAlerter.Send,
\* under the context of scheduler.send).  With the fairness of Spec this is why
\* every send ends.
THEOREM SendsAreBounded ==
  ASSUME NEW s \in Senders, NEW VARIABLE waited, NEW VARIABLE moved
  PROVE  /\ Spec
         /\ waited = 0 /\ moved = 0
         /\ [][/\ waited' = IF Starts(s) THEN 0 ELSE
                            IF AwaitsReply(s) THEN waited + 1 ELSE waited
               /\ moved' = IF Starts(s) THEN 0 ELSE
                           IF SendMoves(s) THEN moved + 1 ELSE moved
              ]_<<vars, waited, moved>>
         => [](waited <= AlertFanoutTimeout /\ moved <= 2 * Len(order) + 1)
<1> DEFINE Count ==
      /\ waited' = IF Starts(s) THEN 0 ELSE IF AwaitsReply(s) THEN waited + 1 ELSE waited
      /\ moved' = IF Starts(s) THEN 0 ELSE IF SendMoves(s) THEN moved + 1 ELSE moved
    Paid == /\ waited \in Nat /\ waited <= AlertFanoutTimeout
            /\ at[s] # "idle" => waited + budget[s] <= AlertFanoutTimeout
            /\ moved \in Nat /\ SendSteps(s) \in Nat
            /\ moved + SendSteps(s) <= 2 * Len(order) + 1
    I == IInv /\ Paid
    Counting == [][Count]_<<vars, waited, moved>>
    Within == waited <= AlertFanoutTimeout /\ moved <= 2 * Len(order) + 1
<1>1. Init /\ waited = 0 /\ moved = 0 => I
  <2> SUFFICES ASSUME Init, waited = 0, moved = 0 PROVE I
    OBVIOUS
  <2>1. IInv
    BY InitInv
  <2>2. at[s] = "idle" /\ SendSteps(s) = 0
    BY DEF Init, SendSteps
  <2>3. Len(order) \in Nat
    BY <2>1 DEF IInv, Types, OrderInv
  <2> QED
    BY <2>1, <2>2, <2>3, FanoutAssumption
<1>2. IInv /\ [Next]_vars => IInv'
  BY StartSendInv, SkipInv, PostInv, TakeInv, ReplyInv, FinishInv, ClockInv
     DEF Next, SendStep
<1>3. I /\ [Next]_vars /\ [Count]_<<vars, waited, moved>> => I'
  <2> SUFFICES ASSUME I, [Next]_vars, [Count]_<<vars, waited, moved>>
               PROVE  Paid'
    BY <1>2
  <2>1. /\ Len(order) \in Nat /\ budget[s] \in Nat /\ budget[s] <= AlertFanoutTimeout
        /\ AlertFanoutTimeout \in Nat
    BY FanoutAssumption DEF IInv, Types, OrderInv
  <2>2. budget'[s] \in Nat
    BY <1>2, FanoutAssumption DEF IInv, Types
  <2>3. CASE Starts(s)
    <3>1. /\ at'[s] = "next" /\ pos'[s] = 1 /\ budget'[s] = AlertFanoutTimeout
          /\ order' = order /\ at[s] = "idle"
      BY <2>3 DEF Starts, StartSend, setup, IInv, Types
    <3>2. SendSteps(s)' = 2 * Len(order) + 1
      BY <2>1, <3>1 DEF SendSteps
    <3>3. CASE Count
      BY <2>1, <2>3, <3>1, <3>2, <3>3
    <3>4. CASE UNCHANGED <<vars, waited, moved>>
      BY <3>1, <3>4 DEF vars, sending
    <3> QED
      BY <3>3, <3>4
  <2>4. CASE SendMoves(s) /\ ~Starts(s)
    <3>1. /\ SendSteps(s)' < SendSteps(s) /\ SendSteps(s)' \in Nat
          /\ at'[s] # "idle" => budget'[s] = budget[s]
          /\ order' = order /\ at[s] # "idle"
      BY <2>4, SendMovesOn
    <3>2. Count
      BY <3>1 DEF vars, setup, sending, SendSteps
    <3>3. ~AwaitsReply(s)
      BY <3>1 DEF AwaitsReply, Tick, setup, SendSteps
    <3> QED
      BY <2>1, <2>2, <2>4, <3>1, <3>2, <3>3
  <2>5. CASE ~SendMoves(s) /\ ~Starts(s)
    <3>1. /\ SendSteps(s)' = SendSteps(s) /\ at'[s] = at[s] /\ order' = order
          /\ budget'[s] <= budget[s]
          /\ AwaitsReply(s) => budget'[s] = budget[s] - 1
      BY <2>5, SendRests
    <3>2. AwaitsReply(s) => at[s] # "idle"
      BY DEF AwaitsReply
    <3>3. /\ moved' = moved
          /\ waited' = waited \/ (AwaitsReply(s) /\ waited' = waited + 1)
      BY <2>5
    <3> QED
      BY <2>1, <2>2, <3>1, <3>2, <3>3
  <2> QED
    BY <2>3, <2>4, <2>5
<1>4. I => Within
  <2> SUFFICES ASSUME I PROVE Within
    OBVIOUS
  <2>1. Len(order) \in Nat
    BY DEF IInv, Types, OrderInv
  <2> QED
    BY <2>1
<1> HIDE DEF Count, I, Within
<1>5. Spec /\ waited = 0 /\ moved = 0 /\ Counting => []Within
  BY <1>1, <1>3, <1>4, PTL DEF Spec
<1> QED
  BY <1>5 DEF Count, Within

=============================================================================
