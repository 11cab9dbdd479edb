------------------------------- MODULE Fanout -------------------------------
(***************************************************************************)
(* internal/alerter: one CompositeAlerter, built by provideAlerter and     *)
(* shared by every goroutine that raises alerts.  A send walks the         *)
(* channels in order under one context; each channel is a CompanyFilter    *)
(* around an Instrumented around a Telegram or Mattermost alerter, with a  *)
(* request timeout of its own.                                             *)
(*                                                                         *)
(* A channel's server may take a message, refuse it, or never answer, and  *)
(* the answer to a message it took may be lost.  Time is counted in ticks, *)
(* as in Checker.                                                          *)
(***************************************************************************)
EXTENDS Integers, Sequences, SequencesExt

CONSTANTS
  Senders,              \* the goroutines that call Send
  Channels,             \* the enabled alerters, by their name in the config
  Telegram,             \* those of type telegram; the others are mattermost
  Companies,            \* the companies of the targets
  Kinds,                \* the kinds of alert: failure, reminder, recovery
  Allowed,              \* Allowed[c]: the allow-list of c, {} for a catch-all
  RequestTimeout,       \* RequestTimeout[c]: alerters.<c>.timeout
  AlertFanoutTimeout,   \* the deadline of a whole send
  MaxAlerts             \* how many alerts are raised, to bound the counters

ASSUME FanoutAssumption ==
  /\ IsFiniteSet(Senders)
  /\ IsFiniteSet(Channels)
  /\ Telegram \subseteq Channels
  /\ Allowed \in [Channels -> SUBSET Companies]
  /\ RequestTimeout \in [Channels -> Nat \ {0}]
  /\ AlertFanoutTimeout \in Nat \ {0}
  /\ MaxAlerts \in Nat

VARIABLES
  order,      \* CompositeAlerter.alerters
  series,     \* the delivery counters /metrics shows, as <<name, kind>>
  sent,       \* sent[<<c, k>>], failed[<<c, k>>]: joghd_alerts_sent_total and
  failed,     \*   joghd_alert_failures_total of channel c for kind k
  ctxDone,    \* the context every send derives from has been cancelled
  at,         \* at[s]: where the send of s is
  alert,      \* alert[s]: the company and kind of the alert being sent
  pos,        \* pos[s]: the index of the channel the send is at
  errs,       \* errs[s]: the channels whose error has been collected
  budget,     \* budget[s]: ticks until the deadline of the send
  request,    \* request[s]: ticks until the deadline of the request
  posted,     \* posted[s]: channels a request went to (history)
  got,        \* got[s]: channels that took the alert (history)
  taken,      \* taken[<<c, k>>]: messages c has taken (history)
  alerts      \* alerts raised so far

setup == <<order>>
counters == <<series, sent, failed>>
sending == <<at, alert, pos, errs, budget, request>>
history == <<posted, got, taken, alerts>>
vars == <<setup, counters, ctxDone, sending, history>>

Alerts == [company: Companies, kind: Kinds]
NoAlert == [company |-> "none", kind |-> "none"]

\* Answers of a channel's server: HTTP 200 with a body that says ok, HTTP 200
\* with any other body, and anything else.
Replies == {"200 ok", "200", "other"}

\* An alerter's Name(), and the name provideAlerter registers it under.
Name(c) ==
  [prefix |-> IF c \in Telegram THEN "telegram:" ELSE "mattermost:", name |-> c]
RegisteredName(c) == [prefix |-> "", name |-> c]

TypeOK ==
  /\ order \in [1..Len(order) -> Channels]
  /\ \A x \in series :
       x[1] \in [prefix: {"", "telegram:", "mattermost:"}, name: Channels] /\ x[2] \in Kinds
  /\ sent \in [Channels \X Kinds -> 0..MaxAlerts]
  /\ failed \in [Channels \X Kinds -> 0..MaxAlerts]
  /\ taken \in [Channels \X Kinds -> 0..MaxAlerts]
  /\ ctxDone \in BOOLEAN
  /\ at \in [Senders -> {"idle", "next", "awaiting"}]
  /\ alert \in [Senders -> Alerts \cup {NoAlert}]
  /\ pos \in [Senders -> 0..Len(order) + 1]
  /\ errs \in [Senders -> SUBSET Channels]
  /\ budget \in [Senders -> 0..AlertFanoutTimeout]
  /\ request \in [Senders -> Nat]
  /\ posted \in [Senders -> SUBSET Channels]
  /\ got \in [Senders -> SUBSET Channels]
  /\ alerts \in 0..MaxAlerts

\* provideAlerter walks a map, whose order is any order.
Init ==
  /\ order \in {o \in [1..Cardinality(Channels) -> Channels] : IsInjective(o)}
  /\ series = {RegisteredName(c) : c \in Channels} \X Kinds
  /\ sent = [ck \in Channels \X Kinds |-> 0]
  /\ failed = [ck \in Channels \X Kinds |-> 0]
  /\ taken = [ck \in Channels \X Kinds |-> 0]
  /\ ctxDone = FALSE
  /\ at = [s \in Senders |-> "idle"]
  /\ alert = [s \in Senders |-> NoAlert]
  /\ pos = [s \in Senders |-> 0]
  /\ errs = [s \in Senders |-> {}]
  /\ budget = [s \in Senders |-> 0]
  /\ request = [s \in Senders |-> 0]
  /\ posted = [s \in Senders |-> {}]
  /\ got = [s \in Senders |-> {}]
  /\ alerts = 0

-----------------------------------------------------------------------------
Channel(s) == order[pos[s]]
AtEnd(s) == pos[s] > Len(order)

\* Mutant: the allow-list is ignored.
Forwards_All(c, company) == Allowed[c] = {} \/ company \in Companies

\* CompanyFilter: an empty allow-list is a catch-all.
Forwards(c, company) == Allowed[c] = {} \/ company \in Allowed[c]

Audience(s) == {c \in Channels : Forwards(c, alert[s].company)}

\* The context of the send is done: its deadline has passed or its parent is
\* cancelled.
Expired(s) == budget[s] = 0 \/ ctxDone

(***************************************************************************)
(* scheduler.send enters the composite.                                    *)
(***************************************************************************)
StartSend(s, a) ==
  /\ at[s] = "idle"
  /\ alerts < MaxAlerts
  /\ alerts' = alerts + 1
  /\ at' = [at EXCEPT ![s] = "next"]
  /\ alert' = [alert EXCEPT ![s] = a]
  /\ pos' = [pos EXCEPT ![s] = 1]
  /\ errs' = [errs EXCEPT ![s] = {}]
  /\ budget' = [budget EXCEPT ![s] = AlertFanoutTimeout]
  /\ posted' = [posted EXCEPT ![s] = {}]
  /\ got' = [got EXCEPT ![s] = {}]
  /\ UNCHANGED <<setup, counters, ctxDone, request, taken>>

\* CompanyFilter drops the alert and reports success.
Skip(s) ==
  /\ at[s] = "next" /\ ~AtEnd(s)
  /\ ~Forwards(Channel(s), alert[s].company)
  /\ pos' = [pos EXCEPT ![s] = @ + 1]
  /\ UNCHANGED <<setup, counters, ctxDone, at, alert, errs, budget, request, history>>

\* The alerter posts its request.
Post(s) ==
  /\ at[s] = "next" /\ ~AtEnd(s)
  /\ Forwards(Channel(s), alert[s].company)
  /\ ~Expired(s)
  /\ at' = [at EXCEPT ![s] = "awaiting"]
  /\ request' = [request EXCEPT ![s] = RequestTimeout[Channel(s)]]
  /\ posted' = [posted EXCEPT ![s] = @ \cup {Channel(s)}]
  /\ UNCHANGED <<setup, counters, ctxDone, alert, pos, errs, budget, got, taken, alerts>>

\* Mutant: a failed delivery is counted as sent.
ObserveAlert_AlwaysSent(c, kind, ok) ==
  /\ series' = series \cup {<<Name(c), kind>>}
  /\ sent' = [sent EXCEPT ![<<c, kind>>] = @ + 1]
  /\ UNCHANGED failed

\* ObserveAlert, under the alerter's own name; the counter it increments is
\* created if nobody registered it.
ObserveAlert(c, kind, ok) ==
  /\ series' = series \cup {<<Name(c), kind>>}
  /\ sent' = [sent EXCEPT ![<<c, kind>>] = IF ok THEN @ + 1 ELSE @]
  /\ failed' = [failed EXCEPT ![<<c, kind>>] = IF ok THEN @ ELSE @ + 1]

\* Mutant: the composite stops at the first error.
ChannelReturns_StopsAtError(s, ok) ==
  /\ ObserveAlert(Channel(s), alert[s].kind, ok)
  /\ errs' = [errs EXCEPT ![s] = IF ok THEN @ ELSE @ \cup {Channel(s)}]
  /\ pos' = [pos EXCEPT ![s] = IF ok THEN @ + 1 ELSE Len(order) + 1]
  /\ at' = [at EXCEPT ![s] = "next"]
  /\ request' = [request EXCEPT ![s] = 0]
  /\ UNCHANGED <<setup, ctxDone, alert, budget, history>>

\* Mutant: only the last error is kept.
ChannelReturns_LastError(s, ok) ==
  /\ ObserveAlert(Channel(s), alert[s].kind, ok)
  /\ errs' = [errs EXCEPT ![s] = IF ok THEN {} ELSE {Channel(s)}]
  /\ pos' = [pos EXCEPT ![s] = @ + 1]
  /\ at' = [at EXCEPT ![s] = "next"]
  /\ request' = [request EXCEPT ![s] = 0]
  /\ UNCHANGED <<setup, ctxDone, alert, budget, history>>

\* Mutant: a channel that failed is tried again.
ChannelReturns_TriesAgain(s, ok) ==
  /\ ObserveAlert(Channel(s), alert[s].kind, ok)
  /\ errs' = [errs EXCEPT ![s] = IF ok THEN @ ELSE @ \cup {Channel(s)}]
  /\ pos' = [pos EXCEPT ![s] = IF ok THEN @ + 1 ELSE @]
  /\ at' = [at EXCEPT ![s] = "next"]
  /\ request' = [request EXCEPT ![s] = 0]
  /\ UNCHANGED <<setup, ctxDone, alert, budget, history>>

\* The alerter has returned: it is observed, its error is collected and the
\* composite goes on to the next channel.
ChannelReturns(s, ok) ==
  /\ ObserveAlert(Channel(s), alert[s].kind, ok)
  /\ errs' = [errs EXCEPT ![s] = IF ok THEN @ ELSE @ \cup {Channel(s)}]
  /\ pos' = [pos EXCEPT ![s] = @ + 1]
  /\ at' = [at EXCEPT ![s] = "next"]
  /\ request' = [request EXCEPT ![s] = 0]
  /\ UNCHANGED <<setup, ctxDone, alert, budget, history>>

\* A request under a context that is done already is never sent.
PostExpired(s) ==
  /\ at[s] = "next" /\ ~AtEnd(s)
  /\ Forwards(Channel(s), alert[s].company)
  /\ Expired(s)
  /\ ChannelReturns(s, FALSE)

\* The server takes the message.  One that takes it after the client has
\* given up has, for all that is counted here, taken it just before.
Take(s) ==
  /\ at[s] = "awaiting"
  /\ Channel(s) \notin got[s]
  /\ got' = [got EXCEPT ![s] = @ \cup {Channel(s)}]
  /\ taken' = [taken EXCEPT ![<<Channel(s), alert[s].kind>>] = @ + 1]
  /\ UNCHANGED <<setup, counters, ctxDone, sending, posted, alerts>>

\* Mutant: any HTTP 200 is success, for Telegram too.
Accepted_StatusOnly(c, reply) == reply \in {"200 ok", "200"}

\* What the alerter makes of the reply: Telegram reads the body as well.
Accepted(c, reply) == reply = "200 ok" \/ (reply = "200" /\ c \notin Telegram)

\* The servers: Mattermost answers 200, and Telegram says ok, only to a message
\* it took.  Either may report an error for one it took.
Honest(c, reply, took) ==
  reply = "200 ok" \/ (reply = "200" /\ c \notin Telegram) => took

\* The reply comes back.
Reply(s, reply) ==
  /\ at[s] = "awaiting"
  /\ request[s] > 0 /\ budget[s] > 0
  /\ Honest(Channel(s), reply, Channel(s) \in got[s])
  /\ ChannelReturns(s, Accepted(Channel(s), reply))

\* Mutant: a reply is awaited without a deadline.
Abandon_OnCancelOnly(s) ==
  /\ at[s] = "awaiting"
  /\ ctxDone
  /\ ChannelReturns(s, FALSE)

\* The request's own deadline, the deadline of the send or the cancellation
\* ends the wait for a reply.
Abandon(s) ==
  /\ at[s] = "awaiting"
  /\ request[s] = 0 \/ Expired(s)
  /\ ChannelReturns(s, FALSE)

\* Send returns the joined errors, nil if there are none.
Finish(s) ==
  /\ at[s] = "next" /\ AtEnd(s)
  /\ at' = [at EXCEPT ![s] = "idle"]
  /\ alert' = [alert EXCEPT ![s] = NoAlert]
  /\ pos' = [pos EXCEPT ![s] = 0]
  /\ errs' = [errs EXCEPT ![s] = {}]
  /\ budget' = [budget EXCEPT ![s] = 0]
  /\ posted' = [posted EXCEPT ![s] = {}]
  /\ got' = [got EXCEPT ![s] = {}]
  /\ UNCHANGED <<setup, counters, ctxDone, request, taken, alerts>>

\* The steps a send takes by itself.
SendStep(s) == Skip(s) \/ Post(s) \/ PostExpired(s) \/ Abandon(s) \/ Finish(s)

Cancel ==
  /\ ~ctxDone
  /\ ctxDone' = TRUE
  /\ UNCHANGED <<setup, counters, sending, history>>

Down(n) == IF n > 0 THEN n - 1 ELSE 0

Tick ==
  /\ \E s \in Senders : budget[s] > 0 \/ request[s] > 0
  /\ budget' = [s \in Senders |-> Down(budget[s])]
  /\ request' = [s \in Senders |-> Down(request[s])]
  /\ UNCHANGED <<setup, counters, ctxDone, at, alert, pos, errs, history>>

Next ==
  \/ Cancel
  \/ Tick
  \/ \E s \in Senders :
       \/ \E a \in Alerts : StartSend(s, a)
       \/ SendStep(s)
       \/ Take(s)
       \/ \E reply \in Replies : Reply(s, reply)

Spec ==
  /\ Init /\ [][Next]_vars
  /\ WF_vars(Tick)
  /\ \A s \in Senders : WF_vars(SendStep(s))

\* The same system with no scheduling delay: time does not pass while a send
\* has a step to take.
Ready(s) ==
  \/ at[s] = "next"
  \/ at[s] = "awaiting" /\ (request[s] = 0 \/ Expired(s))

PromptSpec == Init /\ [][Next /\ (Tick => ~\E s \in Senders : Ready(s))]_vars

-----------------------------------------------------------------------------
\* Nothing is lost silently: every channel a send has passed and whose filter
\* forwards the alert has either taken it or been reported in the error, so a
\* nil error means that everyone who should hear of it has (CompositeAlerter
\* Send, Accepted).
NothingLostSilently ==
  \A s \in Senders : at[s] # "idle" =>
    \A i \in 1..pos[s] - 1 :
      order[i] \in Audience(s) => order[i] \in got[s] \cup errs[s]

\* What a send shows of itself: its alert, the channels that took it and those
\* reported in the error.
Promise ==
  INSTANCE Delivery WITH
    Listeners <- [a \in Alerts |->
                    {c \in Channels : Allowed[c] = {} \/ a.company \in Allowed[c]}],
    busy <- {s \in Senders : at[s] # "idle"},
    reached <- got,
    reported <- errs

\* The composite keeps the promise of Delivery: an alert goes to its audience
\* and to nobody else (CompanyFilter; README, "receives every alert"), to each
\* at most once, and a send ends only when everyone has heard it or is in the
\* error (CompositeAlerter.Send).
DeliverySpec == Promise!Spec

\* A channel that fails does not stop the others from being tried, as long as
\* the deadline of the send has not passed (CompositeAlerter.Send collects
\* errors and goes on; alerter_test.go:91).
OthersAreTried ==
  \A s \in Senders : at[s] # "idle" /\ ~Expired(s) =>
    \A i \in 1..pos[s] - 1 : order[i] \in Audience(s) => order[i] \in posted[s]

\* Requests of c and kind k that c has taken and nobody has observed yet.
Unobserved(c, k) ==
  {s \in Senders : /\ at[s] = "awaiting"
                   /\ Channel(s) = c
                   /\ alert[s].kind = k
                   /\ c \in got[s]}

\* The delivery counters are honest under concurrent sends and lost replies:
\* no more alerts are counted as sent than the channel took, and every alert
\* it took is counted, as sent or as failed, once its request has ended
\* (Instrumented inside CompanyFilter).
CountersAreHonest ==
  \A c \in Channels, k \in Kinds :
    /\ sent[<<c, k>>] <= taken[<<c, k>>]
    /\ taken[<<c, k>>] <= sent[<<c, k>>] + failed[<<c, k>>] + Cardinality(Unobserved(c, k))

\* Every send ends, even when no server ever answers: each wait has a deadline.
EverySendEnds == \A s \in Senders : at[s] = "next" ~> at[s] = "idle"

\* alerter_test.go:91, "A failing alerter must not stop the others from being
\* tried": a send that has passed a channel has tried it, unless the process
\* is stopping.
EveryChannelIsTried ==
  \A s \in Senders : at[s] # "idle" /\ ~ctxDone =>
    \A i \in 1..pos[s] - 1 : order[i] \in Audience(s) => order[i] \in posted[s]

\* README, metrics: "The counters exist at zero from startup, so rules such as
\* increase(joghd_alert_failures_total[1h]) > 0 work before anything has
\* happened": a failure that is counted raises a counter that existed.
FailuresRaiseKnownCounters ==
  [][\A c \in Channels, k \in Kinds :
       failed'[<<c, k>>] > failed[<<c, k>>] => <<Name(c), k>> \in series]_vars

=============================================================================
