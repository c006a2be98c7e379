-------------------------- MODULE PaymentLifecycle --------------------------
(***************************************************************************)
(* Everything that moves a transaction row's state: Initiate, webhooks,    *)
(* the status endpoint, the poller, its timeout and the admin cancel       *)
(* (internal/payments/service.go, internal/workers/poller.go), one step    *)
(* per database statement or gateway call, so that the state a handler     *)
(* read may be stale when it acts on it.                                   *)
(*                                                                         *)
(* Txns are transactions of one gateway and of one price, by their id;     *)
(* each has the payer's phone and the correlator its charge was placed     *)
(* with: the idempotency key, or, without one, the second of the request.  *)
(* What fulfillment does with the goroutines counted in `triggers` is      *)
(* module Fulfillment's.                                                   *)
(***************************************************************************)
EXTENDS PaymentStates, GatewayEvents, Naturals, FiniteSets

CONSTANTS
    Txns,       \* transactions, by id
    PhoneOf,    \* customer_phone of each
    CorrelatorOf, \* clientCorrelator of each (EcoCash)
    Handlers,   \* request goroutines: webhook, status endpoint, admin cancel
    Gateway,    \* the gateway's code
    MaxPayments, \* bound on the payments placed
    MaxCrashes, \* bound on process crashes
    MaxWebhooks, \* bound on the different webhooks sent
    NoTxn,      \* a handler that holds no transaction
    NoEvent     \* a handler that holds no event

ASSUME LifecycleAssumption ==
    /\ Txns \subseteq Nat
    /\ Gateway \in Gateways
    /\ MaxPayments \in Nat
    /\ MaxCrashes \in Nat /\ MaxWebhooks \in Nat
    /\ NoTxn \notin Txns

VARIABLES
    state,        \* the row: state, or "absent" before the INSERT
    completedAt,  \* the row: completed_at is set
    extRef,       \* the row: external_reference (and the correlator) is set
    aged,         \* the row: created_at is at least maxPollAge old
    triggers,     \* spawned triggerFulfillment goroutines, per transaction
    initiator,    \* where the transaction's Initiate request is
    charge,       \* the gateway's view of the charge
    cached,       \* the adapter's memory holds what Status needs
    inbox,        \* webhooks the gateway sent; any may come again, late or never
    replayLog,    \* payments_webhook_replay_log
    handler,      \* local state of each request goroutine
    poller,       \* local state of the poller goroutine
    crashes       \* crashes so far

rowVars == <<state, completedAt, triggers>>
vars == <<state, completedAt, extRef, aged, triggers, initiator, charge,
          cached, inbox, replayLog, handler, poller, crashes>>

Events ==
    [txn: Txns, state: States, etype: EventTypes, amountOk: BOOLEAN, refKnown: BOOLEAN]

Idle == [pc |-> "idle", ev |-> NoEvent, txn |-> NoTxn, seen |-> "absent", to |-> "absent"]
Waiting == [pc |-> "waiting", batch |-> {}, txn |-> NoTxn, seen |-> "absent", to |-> "absent"]

AllStates == States \cup {"absent"}

WebhookSteps == {"found", "looked", "unseen", "logged"}
PollSteps == {"poll_read", "poll_answered", "cancel_read"}

\* What a request goroutine holds: nothing, a webhook, or a transaction.
Tasks ==
    {Idle}
      \cup [pc: WebhookSteps, ev: Events, txn: Txns, seen: AllStates, to: AllStates]
      \cup [pc: PollSteps, ev: {NoEvent}, txn: Txns, seen: AllStates, to: AllStates]

\* What the poller holds: the rest of its batch, and perhaps an answer.
Runs ==
    [pc: {"waiting", "polling"}, batch: SUBSET (Txns \X AllStates), txn: {NoTxn},
     seen: {"absent"}, to: {"absent"}]
      \cup [pc: {"answered"}, batch: SUBSET (Txns \X AllStates), txn: Txns,
            seen: AllStates, to: AllStates]

TypeOK ==
    /\ state \in [Txns -> AllStates]
    /\ completedAt \in [Txns -> BOOLEAN]
    /\ extRef \in [Txns -> BOOLEAN]
    /\ aged \in [Txns -> BOOLEAN]
    /\ triggers \in [Txns -> Nat]
    /\ initiator \in [Txns -> {"new", "inserted", "error", "pending",
                               "completed", "failed", "done"}]
    /\ charge \in [Txns -> Charges]
    /\ cached \in [Txns -> BOOLEAN]
    /\ inbox \subseteq Events
    /\ replayLog \subseteq Events
    /\ handler \in [Handlers -> Tasks]
    /\ poller \in Runs
    /\ crashes \in 0..MaxCrashes

Init ==
    /\ state = [t \in Txns |-> "absent"]
    /\ completedAt = [t \in Txns |-> FALSE]
    /\ extRef = [t \in Txns |-> FALSE]
    /\ aged = [t \in Txns |-> FALSE]
    /\ triggers = [t \in Txns |-> 0]
    /\ initiator = [t \in Txns |-> "new"]
    /\ charge = [t \in Txns |-> "none"]
    /\ cached = [t \in Txns |-> FALSE]
    /\ inbox = {}
    /\ replayLog = {}
    /\ handler = [h \in Handlers |-> Idle]
    /\ poller = Waiting
    /\ crashes = 0

-----------------------------------------------------------------------------
(* The state machine's write, and the goroutine its callers spawn.         *)

\* Mutant: completed_at is not stamped.
TransitionUnstamped(t, from, to) ==
    \/ /\ TransitionOutcome(state[t], from, to) = "changed"
       /\ state' = [state EXCEPT ![t] = to]
       /\ triggers' = [triggers EXCEPT ![t] = IF to = "completed" THEN @ + 1 ELSE @]
       /\ UNCHANGED completedAt
    \/ UNCHANGED rowVars

(***************************************************************************)
(* StateMachine.Transition by a caller that read `from`: the row is locked *)
(* and compared, and only a "changed" outcome writes.  The database may    *)
(* also refuse (deadlock, cancelled request context), and nothing is       *)
(* written; or COMMIT takes effect and its answer is lost.  Either error   *)
(* is the same to the caller: it goes on as if the transition were         *)
(* invalid, and spawns nothing.                                            *)
(***************************************************************************)
Transition(t, from, to) ==
    \/ /\ TransitionOutcome(state[t], from, to) = "changed"
       /\ state' = [state EXCEPT ![t] = to]
       /\ completedAt' = [completedAt EXCEPT ![t] = @ \/ to = "completed"]
       /\ \/ triggers' = [triggers EXCEPT ![t] = IF to = "completed" THEN @ + 1 ELSE @]
          \/ UNCHANGED triggers
    \/ UNCHANGED rowVars

-----------------------------------------------------------------------------
(* Initiate.                                                               *)

\* The ids are AUTO_INCREMENT: a later payment has the higher one.
Placed == {t \in Txns : initiator[t] # "new"}

InsertRow(t) ==
    /\ Cardinality(Placed) < MaxPayments
    /\ initiator[t] = "new" /\ \A u \in Placed : u < t
    /\ initiator' = [initiator EXCEPT ![t] = "inserted"]
    /\ state' = [state EXCEPT ![t] = "initiated"]
    /\ UNCHANGED <<completedAt, extRef, aged, triggers, charge, cached, inbox,
                   replayLog, handler, poller, crashes>>

\* The webhooks a gateway sends when the charge of t becomes c.
Notices(t, c) ==
    {ev \in Events :
        /\ ev.txn = t
        /\ Kind(ev.state, ev.etype) \in WebhookKinds(Gateway)[c]
        /\ Gateway = "ecocash" \/ ev.refKnown}

\* gateway.Initiate: the charge, the answer, the adapter's memory of it.
CallGateway(t) ==
    /\ initiator[t] = "inserted"
    /\ \E r \in InitiateResults(Gateway) :
          /\ initiator' = [initiator EXCEPT ![t] = r[1]]
          /\ charge' = [charge EXCEPT ![t] = r[2]]
          /\ cached' = [cached EXCEPT ![t] = r[1] # "error"]
    /\ UNCHANGED <<state, completedAt, extRef, aged, triggers, inbox, replayLog,
                   handler, poller, crashes>>

\* The UPDATE after the gateway refused: no condition on the row's state.
RecordRefusal(t) ==
    /\ initiator[t] = "error"
    /\ initiator' = [initiator EXCEPT ![t] = "done"]
    /\ \/ state' = [state EXCEPT ![t] = "failed"]
       \/ UNCHANGED state
    /\ UNCHANGED <<completedAt, extRef, aged, triggers, charge, cached, inbox,
                   replayLog, handler, poller, crashes>>

\* Mutant: a synchronous completion is only recorded.
RecordAnswerOnly(t) ==
    /\ initiator[t] \in {"pending", "completed", "failed"}
    /\ initiator' = [initiator EXCEPT ![t] = "done"]
    /\ state' = [state EXCEPT ![t] = initiator[t]]
    /\ extRef' = [extRef EXCEPT ![t] = TRUE]
    /\ UNCHANGED <<completedAt, aged, triggers, charge, cached, inbox, replayLog,
                   handler, poller, crashes>>

\* The UPDATE after the gateway accepted: no condition on the row's state,
\* completed_at untouched; when it fails the error is only logged, and a
\* synchronous completion triggers fulfillment in either case.
RecordAnswer(t) ==
    /\ initiator[t] \in {"pending", "completed", "failed"}
    /\ initiator' = [initiator EXCEPT ![t] = "done"]
    /\ \/ /\ state' = [state EXCEPT ![t] = initiator[t]]
          /\ extRef' = [extRef EXCEPT ![t] = TRUE]
       \/ UNCHANGED <<state, extRef>>
    /\ triggers' = [triggers EXCEPT ![t] =
                      IF initiator[t] = "completed" THEN @ + 1 ELSE @]
    /\ UNCHANGED <<completedAt, aged, charge, cached, inbox, replayLog, handler,
                   poller, crashes>>

-----------------------------------------------------------------------------
(* The gateway, on its own.                                                *)

\* The charge moves on (or, except at the mock, stays as it is), and the
\* gateway sends a webhook about it, or none.  The mock's timer finds its
\* transaction in memory, or does nothing.
ChargeMovesOn(t) ==
    /\ Gateway = "mock" => cached[t]
    /\ \E c \in ChargeMoves(Gateway)[charge[t]] :
          /\ charge' = [charge EXCEPT ![t] = c]
          /\ \/ /\ Cardinality(inbox) < MaxWebhooks
                /\ \E ev \in Notices(t, c) : inbox' = inbox \cup {ev}
             \/ UNCHANGED inbox
    /\ UNCHANGED <<state, completedAt, extRef, aged, triggers, initiator, cached,
                   replayLog, handler, poller, crashes>>

-----------------------------------------------------------------------------
(* ProcessWebhook, one step per statement.                                 *)

Goto(h, label) == handler' = [handler EXCEPT ![h].pc = label]
Finish(h) == handler' = [handler EXCEPT ![h] = Idle]

\* SELECT by external_reference and gateway.
LookupByReference(h, ev) ==
    /\ handler[h].pc = "idle"
    /\ ev \in inbox
    /\ ev.refKnown /\ extRef[ev.txn]
    /\ handler' = [handler EXCEPT ![h] =
          [Idle EXCEPT !.pc = "looked", !.ev = ev, !.txn = ev.txn, !.seen = state[ev.txn]]]
    /\ UNCHANGED <<state, completedAt, extRef, aged, triggers, initiator, charge,
                   cached, inbox, replayLog, poller, crashes>>

\* The newest open row that stores the event's correlator, whoever's phone
\* it is: ORDER BY id DESC LIMIT 1.
CorrelatorMatch(ev) ==
    LET rows == {t \in Txns : /\ state[t] \in Open /\ extRef[t]
                              /\ CorrelatorOf[t] = CorrelatorOf[ev.txn]}
    IN  {t \in rows : \A u \in rows : u <= t}

\* Mutant: the phone is not compared.
AnyoneMatch(ev) ==
    {t \in Txns : \A u \in Txns : state[u] \in Open <=> u = t}

\* The open row of the payer's phone, if there is exactly one.
PhoneMatch(ev) ==
    {t \in Txns : \A u \in Txns :
        state[u] \in Open /\ PhoneOf[u] = PhoneOf[ev.txn] <=> u = t}

(***************************************************************************)
(* findTxnByWebhookCorrelator.  The phone is asked when the correlator     *)
(* matches nothing, is not in the event, or its query fails.  Only         *)
(* EcoCash's events carry a correlator or a payer.                         *)
(***************************************************************************)
FallbackMatch(ev) ==
    IF Gateway = "ecocash" THEN CorrelatorMatch(ev) \cup PhoneMatch(ev) ELSE {}

\* The reference matched nothing and the fallback did.  (When neither does,
\* the webhook is only audited: nothing here changes.)
LookupByFallback(h, ev) ==
    /\ handler[h].pc = "idle"
    /\ ev \in inbox
    /\ ~(ev.refKnown /\ extRef[ev.txn])
    /\ \E t \in FallbackMatch(ev) :
          handler' = [handler EXCEPT ![h] =
              [Idle EXCEPT !.pc = "found", !.ev = ev, !.txn = t]]
    /\ UNCHANGED <<state, completedAt, extRef, aged, triggers, initiator, charge,
                   cached, inbox, replayLog, poller, crashes>>

\* The second SELECT, of the row the fallback named.
ReadFallbackRow(h) ==
    /\ handler[h].pc = "found"
    /\ handler' = [handler EXCEPT ![h].pc = "looked", ![h].seen = state[handler[h].txn]]
    /\ UNCHANGED <<state, completedAt, extRef, aged, triggers, initiator, charge,
                   cached, inbox, replayLog, poller, crashes>>

\* completionHeld: amount and currency are compared for this event type only.
Held(ev) == ev.etype = "payment.completed" /\ ~ev.amountOk

AfterReplayCheck(h) ==
    IF Held(handler[h].ev) THEN Finish(h) ELSE Goto(h, "logged")

\* CheckAndLog, its SELECT: a webhook logged before ends here; a failing
\* SELECT is logged and the webhook goes on unrecorded.
ReplaySelect(h) ==
    /\ handler[h].pc = "looked"
    /\ \/ handler[h].ev \in replayLog /\ Finish(h)
       \/ handler[h].ev \notin replayLog /\ Goto(h, "unseen")
       \/ AfterReplayCheck(h)
    /\ UNCHANGED <<state, completedAt, extRef, aged, triggers, initiator, charge,
                   cached, inbox, replayLog, poller, crashes>>

\* CheckAndLog, its INSERT, which may fail as well.
ReplayInsert(h) ==
    /\ handler[h].pc = "unseen"
    /\ \/ replayLog' = replayLog \cup {handler[h].ev}
       \/ UNCHANGED replayLog
    /\ AfterReplayCheck(h)
    /\ UNCHANGED <<state, completedAt, extRef, aged, triggers, initiator, charge,
                   cached, inbox, poller, crashes>>

\* The transition from the state read at the lookup; its error is swallowed.
WebhookTransition(h) ==
    /\ handler[h].pc = "logged"
    /\ Transition(handler[h].txn, handler[h].seen, handler[h].ev.state)
    /\ Finish(h)
    /\ UNCHANGED <<extRef, aged, initiator, charge, cached, inbox, replayLog,
                   poller, crashes>>

-----------------------------------------------------------------------------
(* PollStatus and Cancel.  Both scan external_reference into a string, so  *)
(* a row without one (Initiate still running, or lost) is an error.        *)

BeginPoll(h, t) ==
    /\ handler[h].pc = "idle"
    /\ state[t] \in Open /\ extRef[t]
    /\ handler' = [handler EXCEPT ![h] =
          [Idle EXCEPT !.pc = "poll_read", !.txn = t, !.seen = state[t]]]
    /\ UNCHANGED <<state, completedAt, extRef, aged, triggers, initiator, charge,
                   cached, inbox, replayLog, poller, crashes>>

\* The adapter can look the charge up: it remembers it, or (EcoCash only)
\* PreloadStatusData rebuilds the entry from the row.
CanLookUp(t) == cached[t] \/ Gateway = "ecocash"

\* The charges a lookup of t may be about: EcoCash's is keyed by phone and
\* correlator.
LookedUp(t) ==
    {u \in Txns : \/ u = t
                  \/ /\ Gateway = "ecocash" /\ charge[u] # "none"
                     /\ PhoneOf[u] = PhoneOf[t] /\ CorrelatorOf[u] = CorrelatorOf[t]}

\* gateway.Status: an error or an unchanged state ends the poll.
AnswerPoll(h) ==
    LET t == handler[h].txn
    IN  /\ handler[h].pc = "poll_read"
        /\ \/ /\ CanLookUp(t)
              /\ \E u \in LookedUp(t) :
                    LET to == StatusOf(Gateway)[charge[u]]
                    IN  /\ to # handler[h].seen
                        /\ handler' = [handler EXCEPT ![h].pc = "poll_answered",
                                                      ![h].to = to]
           \/ Finish(h)
        /\ cached' = [cached EXCEPT ![t] = CanLookUp(t)]
        /\ UNCHANGED <<state, completedAt, extRef, aged, triggers, initiator,
                       charge, inbox, replayLog, poller, crashes>>

PollTransition(h) ==
    /\ handler[h].pc = "poll_answered"
    /\ Transition(handler[h].txn, handler[h].seen, handler[h].to)
    /\ Finish(h)
    /\ UNCHANGED <<extRef, aged, initiator, charge, cached, inbox, replayLog,
                   poller, crashes>>

BeginCancel(h, t) ==
    /\ handler[h].pc = "idle"
    /\ state[t] \in Open /\ extRef[t]
    /\ handler' = [handler EXCEPT ![h] =
          [Idle EXCEPT !.pc = "cancel_read", !.txn = t, !.seen = state[t]]]
    /\ UNCHANGED <<state, completedAt, extRef, aged, triggers, initiator, charge,
                   cached, inbox, replayLog, poller, crashes>>

\* The gateway is not told: its charge goes on.
CancelTransition(h) ==
    /\ handler[h].pc = "cancel_read"
    /\ Transition(handler[h].txn, handler[h].seen, "cancelled")
    /\ Finish(h)
    /\ UNCHANGED <<extRef, aged, initiator, charge, cached, inbox, replayLog,
                   poller, crashes>>

-----------------------------------------------------------------------------
(* The poller's run: query, one status lookup per row, timeout.            *)

\* Open rows younger than maxPollAge; last_polled_at, which the status
\* endpoint also stamps, may leave any of them out.  A row without a
\* reference is looked up as "" and errors out: left out here.
PollerQuery ==
    /\ poller.pc = "waiting"
    /\ \E due \in SUBSET {t \in Txns : state[t] \in Open /\ ~aged[t] /\ extRef[t]} :
          poller' = [poller EXCEPT !.pc = "polling",
                                   !.batch = {<<t, state[t]>> : t \in due}]
    /\ UNCHANGED <<state, completedAt, extRef, aged, triggers, initiator, charge,
                   cached, inbox, replayLog, handler, crashes>>

\* processTransaction up to the answer of gateway.Status.
PollerAsk ==
    /\ poller.pc = "polling"
    /\ \E item \in poller.batch :
          LET t == item[1]
              rest == poller.batch \ {item}
          IN  /\ cached' = [cached EXCEPT ![t] = CanLookUp(t)]
              /\ \/ /\ CanLookUp(t)
                    /\ \E u \in LookedUp(t) :
                          LET to == StatusOf(Gateway)[charge[u]]
                          IN  /\ to # item[2]
                              /\ poller' = [pc |-> "answered", batch |-> rest,
                                            txn |-> t, seen |-> item[2], to |-> to]
                 \/ poller' = [poller EXCEPT !.batch = rest]
    /\ UNCHANGED <<state, completedAt, extRef, aged, triggers, initiator, charge,
                   inbox, replayLog, handler, crashes>>

PollerTransition ==
    /\ poller.pc = "answered"
    /\ Transition(poller.txn, poller.seen, poller.to)
    /\ poller' = [Waiting EXCEPT !.pc = "polling", !.batch = poller.batch]
    /\ UNCHANGED <<extRef, aged, initiator, charge, cached, inbox, replayLog,
                   handler, crashes>>

\* Mutant: rows whose Initiate never finished are not timed out.
PollerTimeoutPendingOnly ==
    /\ poller.pc = "polling" /\ poller.batch = {}
    /\ poller' = Waiting
    /\ state' = [t \in Txns |->
                   IF state[t] = "pending" /\ aged[t] THEN "failed" ELSE state[t]]
    /\ UNCHANGED <<completedAt, extRef, aged, triggers, initiator, charge, cached,
                   inbox, replayLog, handler, crashes>>

\* timeoutOldTransactions ends the run.
PollerTimeout ==
    /\ poller.pc = "polling" /\ poller.batch = {}
    /\ poller' = Waiting
    /\ state' = [t \in Txns |->
                   IF state[t] \in Open /\ aged[t] THEN "failed" ELSE state[t]]
    /\ UNCHANGED <<completedAt, extRef, aged, triggers, initiator, charge, cached,
                   inbox, replayLog, handler, crashes>>

\* Its UPDATE fails: logged, and the run ends as well.
PollerTimeoutFails ==
    /\ poller.pc = "polling" /\ poller.batch = {}
    /\ poller' = Waiting
    /\ UNCHANGED <<state, completedAt, extRef, aged, triggers, initiator, charge,
                   cached, inbox, replayLog, handler, crashes>>

-----------------------------------------------------------------------------
(* Time and crashes.                                                       *)

\* maxPollAge (30 minutes) passes.  An Initiate still running is younger:
\* its gateway call is cut off after 30 seconds by the HTTP client.
GrowOld(t) ==
    /\ initiator[t] = "done" /\ state[t] # "absent" /\ ~aged[t]
    /\ aged' = [aged EXCEPT ![t] = TRUE]
    /\ UNCHANGED <<state, completedAt, extRef, triggers, initiator, charge, cached,
                   inbox, replayLog, handler, poller, crashes>>

\* The process dies and starts again: goroutines and adapter memory are
\* gone, a running Initiate is never resumed, the database is as it was.
Crash ==
    /\ crashes < MaxCrashes
    /\ crashes' = crashes + 1
    /\ handler' = [h \in Handlers |-> Idle]
    /\ poller' = Waiting
    /\ triggers' = [t \in Txns |-> 0]
    /\ cached' = [t \in Txns |-> FALSE]
    /\ initiator' = [t \in Txns |->
                       IF initiator[t] = "new" THEN "new" ELSE "done"]
    /\ UNCHANGED <<state, completedAt, extRef, aged, charge, inbox, replayLog>>

-----------------------------------------------------------------------------

InitiateNext(t) == InsertRow(t) \/ CallGateway(t) \/ RecordRefusal(t) \/ RecordAnswer(t)

HandlerNext(h) ==
    \/ \E ev \in inbox : LookupByReference(h, ev) \/ LookupByFallback(h, ev)
    \/ ReadFallbackRow(h) \/ ReplaySelect(h) \/ ReplayInsert(h) \/ WebhookTransition(h)
    \/ \E t \in Txns : BeginPoll(h, t) \/ BeginCancel(h, t)
    \/ AnswerPoll(h) \/ PollTransition(h) \/ CancelTransition(h)

PollerNext ==
    \/ PollerQuery \/ PollerAsk \/ PollerTransition
    \/ PollerTimeout \/ PollerTimeoutFails

\* Requests and webhooks only; then the poller, time and crashes as well.
RequestNext ==
    \/ \E t \in Txns : InitiateNext(t) \/ ChargeMovesOn(t)
    \/ \E h \in Handlers : HandlerNext(h)

Next ==
    \/ RequestNext
    \/ \E t \in Txns : GrowOld(t)
    \/ PollerNext
    \/ Crash

Spec == Init /\ [][Next]_vars

\* Less than a poller's tick of Spec.
RequestSpec == Init /\ [][RequestNext]_vars
-----------------------------------------------------------------------------
(* Properties.                                                             *)

\* The gateway has captured the charge; it may have reversed it since.
Paid(t) == charge[t] \in {"captured", "reversed"}

\* A row is `completed` only when the gateway did capture this very charge:
\* no webhook, poll or race completes a payment nobody made.
CompletedMeansCaptured == \A t \in Txns : state[t] = "completed" => Paid(t)

\* EcoCash's webhooks and lookups may take one for the other: payments of one
\* phone, and payments of one correlator (an idempotency key used by two
\* buyers, or two keyless payments in one second).
Confusable(t, u) ==
    \/ t = u
    \/ Gateway = "ecocash" /\ (PhoneOf[t] = PhoneOf[u] \/ CorrelatorOf[t] = CorrelatorOf[u])

\* So this much is true at every gateway: a row is `completed` only when its
\* charge, or that of a payment it can be taken for, was captured.  Money of
\* an unrelated buyer never completes it, whatever reference a webhook
\* carries, however late it is and whoever else was matched.
CompletionsFollowCaptures ==
    \A t \in Txns : state[t] = "completed" => \E u \in Txns : Confusable(t, u) /\ Paid(u)

\* Webhook workers, the status endpoint and the poller may all see the
\* capture; between two crashes one of them, and only one, spawns the
\* fulfillment (applyTransition's locked compare).
OneTriggerPerCapture == \A t \in Txns : triggers[t] <= 1

\* No completion goes by unseen: while the process lives, a row that became
\* `completed` has had its goroutine spawned, or (COMMIT's answer lost) it is
\* stamped, so that the poller's sweep selects it.
CompletionsAreSeen ==
    \A t \in Txns :
        state[t] = "completed" /\ crashes = 0 => triggers[t] = 1 \/ completedAt[t]

\* The guard's comment in ProcessWebhook: a completed event whose captured
\* amount or currency differs never advances the state machine.
CompletedEventsAreGuarded ==
    \A h \in Handlers :
        handler[h].pc = "logged" /\ handler[h].ev.state = "completed"
            => handler[h].ev.amountOk

\* A row that reached a terminal state leaves it only along the table, that
\* is from `completed` to `refunded` or `failed`: no writer revives it.
TerminalRowsStay ==
    [][\A t \in Txns : state[t] \in Terminal /\ state'[t] # state[t]
          => CanTransition(state[t], state'[t])]_vars

\* A webhook recorded as processed, with no worker still on it, has had its
\* effect: a paid row it is about is no longer open.
LoggedWebhookTookEffect ==
    \A ev \in replayLog :
        /\ ev.state = "completed" /\ ev.amountOk
        /\ \A h \in Handlers : handler[h].ev # ev
        => state[ev.txn] \notin Open

\* The abstract row that fulfillment relies on.
Row == INSTANCE PaymentRow
ImplementsRow == Row!Spec

\* However the races end, no payment stays open for ever.
EventuallySettled == \A t \in Txns : state[t] \in Open ~> state[t] \in Terminal

\* Time passes, goroutines run on, and the timeout's UPDATE does not fail for
\* ever; nothing else is promised: a webhook may never come, a client may
\* never ask, a lookup may always fail.
Fairness ==
    /\ \A t \in Txns :
          /\ WF_vars(GrowOld(t))
          /\ WF_vars(CallGateway(t))
          /\ WF_vars(RecordRefusal(t) \/ RecordAnswer(t))
    /\ WF_vars(PollerQuery) /\ WF_vars(PollerAsk) /\ WF_vars(PollerTransition)
    /\ SF_vars(PollerTimeout)
FairSpec == Spec /\ Fairness

-----------------------------------------------------------------------------
(* Inductive invariants, for gateways whose webhooks are matched by        *)
(* reference only (every gateway but EcoCash).                             *)

\* Until Initiate is through, nobody else touches its row: the reference
\* under which everybody else finds it is written by Initiate's last UPDATE.
OwnRow(t) ==
    /\ initiator[t] = "new" <=> state[t] = "absent"
    /\ initiator[t] \in {"new", "inserted"} => charge[t] = "none"
    /\ initiator[t] \notin {"new", "done"} => state[t] = "initiated"
    /\ initiator[t] # "done" => ~extRef[t] /\ ~aged[t] /\ triggers[t] = 0
    /\ initiator[t] = "completed" \/ state[t] = "completed" => Paid(t)

\* Whoever is about to write `completed` has it from a charge that is paid,
\* and has found the row by its reference.
SoundEvent(ev) == ev.state = "completed" => Paid(ev.txn)

SoundTask(x) ==
    /\ x.pc # "found"
    /\ x.pc # "idle" => extRef[x.txn]
    /\ x.pc \in WebhookSteps => x.txn = x.ev.txn /\ SoundEvent(x.ev)
    /\ x.pc = "poll_answered" /\ x.to = "completed" => Paid(x.txn)

SoundRun(x) ==
    /\ \A item \in x.batch : extRef[item[1]]
    /\ x.pc = "answered" => extRef[x.txn] /\ (x.to = "completed" => Paid(x.txn))

LifecycleInv ==
    /\ \A t \in Txns : OwnRow(t)
    /\ \A ev \in inbox : SoundEvent(ev)
    /\ \A h \in Handlers : SoundTask(handler[h])
    /\ SoundRun(poller)

\* A fulfillment is spawned by the step that closes the row, or by an
\* Initiate whose row nobody else will ever find.
TriggerInv ==
    \A t \in Txns :
        /\ triggers[t] <= 1
        /\ triggers[t] = 1 => state[t] \in Terminal \/ ~extRef[t]
        /\ state[t] = "completed" /\ crashes = 0 => triggers[t] = 1 \/ completedAt[t]

\* Except at Paynow, a webhook that completes a row is of the guarded type.
GuardedEvent(ev) == ev.state = "completed" => ev.etype = "payment.completed"
GuardedTask(x) ==
    x.pc \in WebhookSteps /\ x.ev.state = "completed" =>
        /\ x.ev.etype = "payment.completed"
        /\ x.pc = "logged" => x.ev.amountOk
GuardInv ==
    /\ \A ev \in inbox : GuardedEvent(ev)
    /\ \A h \in Handlers : GuardedTask(handler[h])

-----------------------------------------------------------------------------
(* An inductive invariant for every gateway, EcoCash's fallback included.  *)

Follows(t) == \E u \in Txns : Confusable(t, u) /\ Paid(u)

\* Whoever holds `completed` for a row (the row, its Initiate, a webhook that
\* was matched to it, a lookup) has it from a capture it can be taken for.
FollowTask(x) ==
    /\ x.pc \in WebhookSteps => Confusable(x.txn, x.ev.txn) /\ SoundEvent(x.ev)
    /\ x.pc = "poll_answered" /\ x.to = "completed" => Follows(x.txn)

FollowRun(x) == x.pc = "answered" /\ x.to = "completed" => Follows(x.txn)

CaptureInv ==
    /\ \A t \in Txns :
          /\ initiator[t] \in {"new", "inserted"} => charge[t] = "none"
          /\ state[t] = "completed" \/ initiator[t] = "completed" => Follows(t)
    /\ \A ev \in inbox : SoundEvent(ev)
    /\ \A h \in Handlers : FollowTask(handler[h])
    /\ FollowRun(poller)
=============================================================================
