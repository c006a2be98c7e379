------------------------ MODULE PaymentLifecycle_proofs ------------------------
(***************************************************************************)
(* Proofs about PaymentLifecycle: its type invariant for every gateway,    *)
(* and, for the gateways whose webhooks are matched by reference only      *)
(* (Gateway # "ecocash"), its safety invariants, that terminal rows stay,  *)
(* and that it implements PaymentRow; for every gateway, EcoCash's         *)
(* fallback included, that completions follow captures.                    *)
(***************************************************************************)
EXTENDS PaymentLifecycle, TLAPS

-----------------------------------------------------------------------------
(* What the adapters may say.                                              *)

\* A status lookup answers with a state, `completed` only for a paid charge.
LEMMA StatusType ==
    ASSUME NEW g \in Gateways, NEW c \in Charges
    PROVE  /\ StatusOf(g)[c] \in States
           /\ StatusOf(g)[c] = "completed" => c \in {"captured", "reversed"}
  BY DEF Gateways, Charges, StatusOf, States

\* Initiate's results, `completed` only with a captured charge.
LEMMA InitiateType ==
    ASSUME NEW r \in InitiateResults(Gateway)
    PROVE  /\ r[1] \in {"error", "pending", "completed", "failed"}
           /\ r[2] \in Charges
           /\ r[1] = "completed" => r[2] = "captured"
  <1>1. InitiateResults(Gateway) \subseteq
           {<<"error", "none">>, <<"error", "pending">>, <<"pending", "pending">>,
            <<"completed", "captured">>, <<"failed", "declined">>}
    <2>1. CASE Gateway = "paynow"
      BY <2>1 DEF InitiateResults
    <2>2. CASE Gateway = "ecocash"
      BY <2>2 DEF InitiateResults
    <2>3. CASE Gateway = "mock"
      BY <2>3 DEF InitiateResults
    <2> QED BY <2>1, <2>2, <2>3, LifecycleAssumption DEF Gateways
  <1>2. \/ r = <<"error", "none">> \/ r = <<"error", "pending">>
        \/ r = <<"pending", "pending">> \/ r = <<"completed", "captured">>
        \/ r = <<"failed", "declined">>
    BY <1>1
  <1> QED BY <1>2 DEF Charges

\* A charge stays a charge, and a paid one stays paid.
LEMMA MovesType ==
    ASSUME NEW c \in Charges, NEW d \in ChargeMoves(Gateway)[c]
    PROVE  /\ d \in Charges
           /\ c \in {"captured", "reversed"} => d \in {"captured", "reversed"}
  BY DEF ChargeMoves, Charges

\* A webhook is a state, an event type; `completed` only for a capture, and,
\* except at Paynow, only as a completion.
LEMMA KindType ==
    ASSUME NEW c \in Charges, NEW k \in WebhookKinds(Gateway)[c]
    PROVE  /\ k.state \in States
           /\ k.etype \in EventTypes
           /\ k.state = "completed" => c = "captured"
           /\ Gateway # "paynow" /\ k.state = "completed" => k.etype = "payment.completed"
  <1> USE DEF WebhookKinds, Kind, Charges, States, EventTypes
  <1>1. CASE Gateway = "mock"
    BY <1>1 DEF mockKinds
  <1>2. CASE Gateway = "ecocash"
    BY <1>2 DEF ecocashKinds
  <1>3. CASE Gateway = "paynow"
    BY <1>3 DEF paynowKinds
  <1> QED BY <1>1, <1>2, <1>3, LifecycleAssumption DEF Gateways

\* The webhooks sent about a charge.
LEMMA NoticeType ==
    ASSUME NEW t \in Txns, NEW c \in Charges, NEW ev \in Notices(t, c)
    PROVE  /\ ev \in Events
           /\ ev.txn = t
           /\ ev.state = "completed" => c = "captured"
           /\ Gateway # "paynow" /\ ev.state = "completed" => ev.etype = "payment.completed"
  <1>1. /\ ev \in Events
        /\ ev.txn = t
        /\ Kind(ev.state, ev.etype) \in WebhookKinds(Gateway)[c]
    BY DEF Notices
  <1>2. /\ Kind(ev.state, ev.etype).state = ev.state
        /\ Kind(ev.state, ev.etype).etype = ev.etype
    BY DEF Kind
  <1> QED BY <1>1, <1>2, KindType

-----------------------------------------------------------------------------
(* Type correctness.                                                       *)

\* A request goroutine at work has a transaction (and, for a webhook, an
\* event); moving it on keeps its state well formed.
LEMMA TaskType ==
    /\ Idle \in Tasks
    /\ \A x \in Tasks :
          /\ x.pc # "idle" => x.txn \in Txns /\ x.seen \in AllStates
          /\ x.pc \in WebhookSteps => x.ev \in Events
          /\ x.pc \in WebhookSteps => \A p \in WebhookSteps :
                /\ [x EXCEPT !.pc = p] \in Tasks
                /\ \A s \in AllStates : [x EXCEPT !.pc = p, !.seen = s] \in Tasks
          /\ x.pc \in PollSteps => \A p \in PollSteps, s \in AllStates :
                [x EXCEPT !.pc = p, !.to = s] \in Tasks
          /\ x.pc \in PollSteps => x.to \in AllStates
  <1>1. Idle \in Tasks
    BY DEF Tasks
  <1>2. ASSUME NEW x \in Tasks
        PROVE  /\ x.pc # "idle" => x.txn \in Txns /\ x.seen \in AllStates
               /\ x.pc \in WebhookSteps => x.ev \in Events
               /\ x.pc \in PollSteps => x.to \in AllStates
    BY <1>2 DEF Tasks, Idle, WebhookSteps, PollSteps
  <1>3. ASSUME NEW x \in Tasks, x.pc \in WebhookSteps, NEW p \in WebhookSteps
        PROVE  /\ [x EXCEPT !.pc = p] \in Tasks
               /\ \A s \in AllStates : [x EXCEPT !.pc = p, !.seen = s] \in Tasks
    <2> DEFINE W == [pc: WebhookSteps, ev: Events, txn: Txns, seen: AllStates,
                     to: AllStates]
    <2>1. x \in W
      BY <1>3 DEF Tasks, Idle, WebhookSteps, PollSteps
    <2>2. /\ [x EXCEPT !.pc = p] \in W
          /\ \A s \in AllStates : [x EXCEPT !.pc = p, !.seen = s] \in W
      BY <2>1
    <2> QED BY <2>2 DEF Tasks
  <1>4. ASSUME NEW x \in Tasks, x.pc \in PollSteps, NEW p \in PollSteps,
               NEW s \in AllStates
        PROVE  [x EXCEPT !.pc = p, !.to = s] \in Tasks
    <2> DEFINE P == [pc: PollSteps, ev: {NoEvent}, txn: Txns, seen: AllStates,
                     to: AllStates]
    <2>1. x \in P
      BY <1>4 DEF Tasks, Idle, WebhookSteps, PollSteps
    <2>2. [x EXCEPT !.pc = p, !.to = s] \in P
      BY <2>1
    <2> QED BY <2>2 DEF Tasks
  <1> QED BY <1>1, <1>2, <1>3, <1>4

\* A goroutine begins with a webhook, or with a transaction.
LEMMA BeginType ==
    ASSUME NEW t \in Txns, NEW s \in AllStates
    PROVE  /\ \A ev \in Events, p \in WebhookSteps :
                 /\ [Idle EXCEPT !.pc = p, !.ev = ev, !.txn = t, !.seen = s] \in Tasks
                 /\ [Idle EXCEPT !.pc = p, !.ev = ev, !.txn = t] \in Tasks
           /\ \A p \in PollSteps : [Idle EXCEPT !.pc = p, !.txn = t, !.seen = s] \in Tasks
  BY DEF Idle, Tasks, AllStates

\* The poller's own steps.
LEMMA RunType ==
    /\ Waiting \in Runs
    /\ \A x \in Runs :
          /\ x.batch \subseteq Txns \X AllStates
          /\ x.pc = "answered" => x.txn \in Txns
          /\ \A b \in SUBSET (Txns \X AllStates) :
                /\ x.pc # "answered" => [x EXCEPT !.pc = "polling", !.batch = b] \in Runs
                /\ [x EXCEPT !.batch = b] \in Runs
                /\ [Waiting EXCEPT !.pc = "polling", !.batch = b] \in Runs
                /\ \A t \in Txns, s1, s2 \in AllStates :
                      [pc |-> "answered", batch |-> b, txn |-> t, seen |-> s1, to |-> s2]
                         \in Runs
  <1>1. ASSUME NEW x \in Runs
        PROVE  /\ x.batch \subseteq Txns \X AllStates
               /\ x.pc = "answered" => x.txn \in Txns
    BY <1>1 DEF Runs
  <1>2. ASSUME NEW x \in Runs, NEW b \in SUBSET (Txns \X AllStates)
        PROVE  /\ x.pc # "answered" => [x EXCEPT !.pc = "polling", !.batch = b] \in Runs
               /\ [x EXCEPT !.batch = b] \in Runs
    BY <1>2 DEF Runs
  <1>3. ASSUME NEW b \in SUBSET (Txns \X AllStates)
        PROVE  [Waiting EXCEPT !.pc = "polling", !.batch = b] \in Runs
    BY <1>3 DEF Runs, Waiting
  <1>4. ASSUME NEW b \in SUBSET (Txns \X AllStates), NEW t \in Txns,
               NEW s1 \in AllStates, NEW s2 \in AllStates
        PROVE  [pc |-> "answered", batch |-> b, txn |-> t, seen |-> s1, to |-> s2] \in Runs
    BY <1>4 DEF Runs
  <1>5. Waiting \in Runs
    BY DEF Runs, Waiting
  <1> QED BY <1>1, <1>2, <1>3, <1>4, <1>5

\* The initial state is well formed.
LEMMA TypeInit == Init => TypeOK
  <1> SUFFICES ASSUME Init PROVE TypeOK
    OBVIOUS
  <1>1. handler \in [Handlers -> Tasks] /\ poller \in Runs
    BY TaskType, RunType DEF Init
  <1>2. crashes \in 0..MaxCrashes
    BY LifecycleAssumption DEF Init
  <1>3. state \in [Txns -> AllStates] /\ charge \in [Txns -> Charges]
    BY DEF Init, AllStates, Charges
  <1> QED BY <1>1, <1>2, <1>3 DEF Init, TypeOK

\* The state machine's write.
LEMMA TransitionType ==
    ASSUME TypeOK, NEW t \in Txns, NEW from, NEW to \in AllStates, Transition(t, from, to)
    PROVE  /\ state' \in [Txns -> AllStates]
           /\ completedAt' \in [Txns -> BOOLEAN]
           /\ triggers' \in [Txns -> Nat]
  <1>1. CASE UNCHANGED rowVars
    BY <1>1 DEF TypeOK, rowVars
  <1>2. CASE /\ state' = [state EXCEPT ![t] = to]
             /\ completedAt' = [completedAt EXCEPT ![t] = @ \/ to = "completed"]
             /\ \/ triggers' = [triggers EXCEPT ![t] = IF to = "completed" THEN @ + 1 ELSE @]
                \/ UNCHANGED triggers
    <2>1. state' \in [Txns -> AllStates]
      BY <1>2 DEF TypeOK
    <2>2. completedAt' \in [Txns -> BOOLEAN]
      BY Zenon, <1>2 DEF TypeOK
    <2>3. triggers' \in [Txns -> Nat]
      BY <1>2 DEF TypeOK
    <2> QED BY <2>1, <2>2, <2>3
  <1> QED BY <1>1, <1>2 DEF Transition

\* Initiate's four steps keep the state well formed.
LEMMA InitiateStepType ==
    ASSUME TypeOK, NEW t \in Txns, InitiateNext(t)
    PROVE  TypeOK'
  <1> USE DEF TypeOK
  <1>1. CASE InsertRow(t)
    BY <1>1 DEF InsertRow, AllStates, States
  <1>2. CASE CallGateway(t)
    <2>1. PICK r \in InitiateResults(Gateway) :
             /\ initiator' = [initiator EXCEPT ![t] = r[1]]
             /\ charge' = [charge EXCEPT ![t] = r[2]]
             /\ cached' = [cached EXCEPT ![t] = r[1] # "error"]
      BY <1>2 DEF CallGateway
    <2>2. r[1] \in {"error", "pending", "completed", "failed"} /\ r[2] \in Charges
      BY InitiateType
    <2>3. (r[1] # "error") \in BOOLEAN
      OBVIOUS
    <2>4. cached' \in [Txns -> BOOLEAN]
      BY <2>1, <2>3
    <2> QED BY <1>2, <2>1, <2>2, <2>4 DEF CallGateway
  <1>3. CASE RecordRefusal(t)
    BY <1>3 DEF RecordRefusal, AllStates, States
  <1>4. CASE RecordAnswer(t)
    <2>1. /\ state' \in [Txns -> AllStates]
          /\ extRef' \in [Txns -> BOOLEAN]
      <3>1. initiator[t] \in AllStates
        BY <1>4 DEF RecordAnswer, AllStates, States
      <3>2. \/ /\ state' = [state EXCEPT ![t] = initiator[t]]
               /\ extRef' = [extRef EXCEPT ![t] = TRUE]
            \/ UNCHANGED <<state, extRef>>
        BY <1>4 DEF RecordAnswer
      <3> QED BY <3>1, <3>2
    <2>2. triggers' \in [Txns -> Nat]
      BY <1>4 DEF RecordAnswer
    <2>3. initiator' \in [Txns -> {"new", "inserted", "error", "pending",
                                   "completed", "failed", "done"}]
      BY <1>4 DEF RecordAnswer
    <2> QED BY <1>4, <2>1, <2>2, <2>3 DEF RecordAnswer
  <1> QED BY <1>1, <1>2, <1>3, <1>4 DEF InitiateNext

\* What a lookup may answer: a state; `completed` only for a paid charge; and,
\* except at EcoCash, the state of the very charge that was asked for.
LEMMA AnswerType ==
    ASSUME TypeOK, NEW t \in Txns, NEW u \in LookedUp(t)
    PROVE  /\ u \in Txns
           /\ StatusOf(Gateway)[charge[u]] \in AllStates
           /\ StatusOf(Gateway)[charge[u]] = "completed" => Paid(u) /\ Confusable(t, u)
           /\ Gateway # "ecocash" => u = t
  <1>1. u \in Txns /\ charge[u] \in Charges
    BY DEF TypeOK, LookedUp
  <1>2. /\ StatusOf(Gateway)[charge[u]] \in AllStates
        /\ StatusOf(Gateway)[charge[u]] = "completed" => Paid(u)
    BY <1>1, StatusType, LifecycleAssumption DEF AllStates, Paid
  <1>3. Confusable(t, u) /\ (Gateway # "ecocash" => u = t)
    BY DEF LookedUp, Confusable
  <1> QED BY <1>1, <1>2, <1>3

\* Whatever row the fallback names can be taken for the event's; it names
\* none except at EcoCash.
LEMMA FallbackType ==
    ASSUME NEW ev \in Events, NEW t \in FallbackMatch(ev)
    PROVE  t \in Txns /\ Confusable(t, ev.txn) /\ Gateway = "ecocash"
  <1>1. Gateway = "ecocash" /\ t \in CorrelatorMatch(ev) \cup PhoneMatch(ev)
    BY DEF FallbackMatch
  <1>2. CASE t \in CorrelatorMatch(ev)
    BY <1>1, <1>2 DEF CorrelatorMatch, Confusable
  <1>3. CASE t \in PhoneMatch(ev)
    BY <1>1, <1>3 DEF PhoneMatch, Confusable
  <1> QED BY <1>1, <1>2, <1>3

\* So do the steps of a request goroutine ...
LEMMA HandlerStepType ==
    ASSUME TypeOK, NEW h \in Handlers, HandlerNext(h)
    PROVE  TypeOK'
  <1> USE DEF TypeOK
  <1>1. ASSUME NEW ev \in inbox, LookupByReference(h, ev)
        PROVE  TypeOK'
    <2>1. ev \in Events /\ ev.txn \in Txns /\ state[ev.txn] \in AllStates
      BY DEF Events
    <2>2. [Idle EXCEPT !.pc = "looked", !.ev = ev, !.txn = ev.txn, !.seen = state[ev.txn]]
             \in Tasks
      BY <2>1, BeginType DEF WebhookSteps
    <2>3. handler' \in [Handlers -> Tasks]
      BY <1>1, <2>2 DEF LookupByReference
    <2> QED BY <1>1, <2>3 DEF LookupByReference
  <1>2. ASSUME NEW ev \in inbox, LookupByFallback(h, ev)
        PROVE  TypeOK'
    <2>1. PICK t \in FallbackMatch(ev) :
             handler' = [handler EXCEPT ![h] = [Idle EXCEPT !.pc = "found", !.ev = ev, !.txn = t]]
      BY <1>2 DEF LookupByFallback
    <2>2. t \in Txns
      BY FallbackType
    <2>3. [Idle EXCEPT !.pc = "found", !.ev = ev, !.txn = t] \in Tasks
      BY <2>2, BeginType DEF WebhookSteps, AllStates
    <2> QED BY <1>2, <2>1, <2>3 DEF LookupByFallback
  <1>3. CASE ReadFallbackRow(h)
    <2>1. /\ handler[h] \in Tasks /\ handler[h].pc = "found"
          /\ handler' = [handler EXCEPT ![h] =
                [handler[h] EXCEPT !.pc = "looked", !.seen = state[handler[h].txn]]]
      BY <1>3 DEF ReadFallbackRow
    <2>2. state[handler[h].txn] \in AllStates
      BY <2>1, TaskType
    <2>3. [handler[h] EXCEPT !.pc = "looked", !.seen = state[handler[h].txn]] \in Tasks
      BY <2>1, <2>2, TaskType DEF WebhookSteps
    <2> QED BY <1>3, <2>1, <2>3 DEF ReadFallbackRow
  <1> DEFINE Typed == handler' \in [Handlers -> Tasks]
  <1>4. ASSUME Finish(h) PROVE Typed
    BY <1>4, TaskType DEF Finish
  <1>5. ASSUME handler[h].pc \in WebhookSteps, NEW p \in WebhookSteps, Goto(h, p)
        PROVE  Typed
    <2>1. handler' = [handler EXCEPT ![h] = [handler[h] EXCEPT !.pc = p]]
      BY <1>5 DEF Goto
    <2> QED BY <1>5, <2>1, TaskType
  <1>6. CASE ReplaySelect(h)
    <2>1. Typed
      BY <1>4, <1>5, <1>6 DEF ReplaySelect, AfterReplayCheck, WebhookSteps
    <2> QED BY <1>6, <2>1 DEF ReplaySelect
  <1>7. CASE ReplayInsert(h)
    <2>1. Typed
      BY <1>4, <1>5, <1>7 DEF ReplayInsert, AfterReplayCheck, WebhookSteps
    <2>2. handler[h].ev \in Events
      BY <1>7, TaskType DEF ReplayInsert, WebhookSteps
    <2> QED BY <1>7, <2>1, <2>2 DEF ReplayInsert
  <1>8. CASE WebhookTransition(h)
    <2>1. handler[h].txn \in Txns /\ handler[h].ev.state \in AllStates
      BY <1>8, TaskType DEF WebhookTransition, WebhookSteps, Events, AllStates
    <2>2. Typed
      BY <1>4, <1>8 DEF WebhookTransition
    <2>3. Transition(handler[h].txn, handler[h].seen, handler[h].ev.state)
      BY <1>8 DEF WebhookTransition
    <2>4. /\ state' \in [Txns -> AllStates] /\ completedAt' \in [Txns -> BOOLEAN]
          /\ triggers' \in [Txns -> Nat]
      BY <2>1, <2>3, TransitionType
    <2> QED BY <1>8, <2>2, <2>4 DEF WebhookTransition
  <1>9. ASSUME NEW t \in Txns, BeginPoll(h, t) \/ BeginCancel(h, t)
        PROVE  TypeOK'
    <2>1. state[t] \in AllStates
      OBVIOUS
    <2>0. PICK p \in PollSteps :
             handler' = [handler EXCEPT ![h] = [Idle EXCEPT !.pc = p, !.txn = t, !.seen = state[t]]]
      BY <1>9 DEF BeginPoll, BeginCancel, PollSteps
    <2>3. [Idle EXCEPT !.pc = p, !.txn = t, !.seen = state[t]] \in Tasks
      BY <2>1, BeginType
    <2>2. Typed
      BY <2>0, <2>3
    <2> QED BY <1>9, <2>2 DEF BeginPoll, BeginCancel
  <1>10. CASE AnswerPoll(h)
    <2> DEFINE t == handler[h].txn
    <2>1. /\ handler[h] \in Tasks /\ handler[h].pc = "poll_read" /\ t \in Txns
      BY <1>10, TaskType DEF AnswerPoll
    <2>4. ASSUME NEW u \in LookedUp(t), NEW to, to = StatusOf(Gateway)[charge[u]],
                 handler' = [handler EXCEPT ![h].pc = "poll_answered", ![h].to = to]
          PROVE  Typed
      <3>1. handler' = [handler EXCEPT ![h] =
               [handler[h] EXCEPT !.pc = "poll_answered", !.to = to]]
        BY <2>4
      <3>2. to \in AllStates
        BY <2>1, <2>4, AnswerType
      <3>3. [handler[h] EXCEPT !.pc = "poll_answered", !.to = to] \in Tasks
        BY <2>1, <3>2, TaskType DEF PollSteps
      <3> QED BY <3>1, <3>3
    <2>5. Typed
      BY <1>4, <1>10, <2>4 DEF AnswerPoll
    <2>6. CanLookUp(t) \in BOOLEAN
      BY <2>1 DEF CanLookUp
    <2>7. cached' \in [Txns -> BOOLEAN]
      BY <1>10, <2>6 DEF AnswerPoll
    <2> QED BY <1>10, <2>5, <2>7 DEF AnswerPoll
  <1>11. CASE PollTransition(h)
    <2>1. handler[h].txn \in Txns /\ handler[h].to \in AllStates
      BY <1>11, TaskType DEF PollTransition, PollSteps
    <2>2. Typed
      BY <1>4, <1>11 DEF PollTransition
    <2> QED BY <1>11, <2>1, <2>2, TransitionType DEF PollTransition
  <1>12. CASE CancelTransition(h)
    <2>1. handler[h].txn \in Txns /\ "cancelled" \in AllStates
      BY <1>12, TaskType DEF CancelTransition, AllStates, States
    <2>2. Typed
      BY <1>4, <1>12 DEF CancelTransition
    <2> QED BY <1>12, <2>1, <2>2, TransitionType DEF CancelTransition
  <1> QED BY <1>1, <1>2, <1>3, <1>6, <1>7, <1>8, <1>9, <1>10, <1>11, <1>12
          DEF HandlerNext

\* ... the poller's steps ...
LEMMA PollerStepType ==
    ASSUME TypeOK, PollerNext
    PROVE  TypeOK'
  <1> USE DEF TypeOK
  <1>1. CASE PollerQuery
    <2>1. PICK due \in SUBSET Txns :
             poller' = [poller EXCEPT !.pc = "polling", !.batch = {<<t, state[t]>> : t \in due}]
      BY <1>1 DEF PollerQuery
    <2>2. {<<t, state[t]>> : t \in due} \in SUBSET (Txns \X AllStates)
      OBVIOUS
    <2>3. poller.pc # "answered"
      BY <1>1 DEF PollerQuery
    <2>4. poller' \in Runs
      BY <2>1, <2>2, <2>3, RunType
    <2> QED BY <1>1, <2>4 DEF PollerQuery
  <1>2. CASE PollerAsk
    <2>1. PICK item \in poller.batch :
             /\ cached' = [cached EXCEPT ![item[1]] = CanLookUp(item[1])]
             /\ \/ \E u \in LookedUp(item[1]) :
                      poller' = [pc |-> "answered", batch |-> poller.batch \ {item},
                                 txn |-> item[1], seen |-> item[2],
                                 to |-> StatusOf(Gateway)[charge[u]]]
                \/ poller' = [poller EXCEPT !.batch = poller.batch \ {item}]
      BY <1>2 DEF PollerAsk
    <2>2. /\ item[1] \in Txns /\ item[2] \in AllStates
          /\ poller.batch \ {item} \in SUBSET (Txns \X AllStates)
      BY RunType
    <2>3. \A u \in LookedUp(item[1]) : StatusOf(Gateway)[charge[u]] \in AllStates
      BY <2>2, AnswerType
    <2>4. poller' \in Runs
      <3> DEFINE rest == poller.batch \ {item}
      <3>1. [poller EXCEPT !.batch = rest] \in Runs
        BY <2>2, RunType
      <3>2. ASSUME NEW to \in AllStates
            PROVE  [pc |-> "answered", batch |-> rest, txn |-> item[1], seen |-> item[2],
                    to |-> to] \in Runs
        <4>1. rest \in SUBSET (Txns \X AllStates)
          BY <2>2
        <4> HIDE DEF rest
        <4> QED BY <2>2, <4>1 DEF Runs
      <3> QED BY <2>1, <2>3, <3>1, <3>2
    <2>5. CanLookUp(item[1]) \in BOOLEAN
      BY <2>2 DEF CanLookUp
    <2>6. cached' \in [Txns -> BOOLEAN]
      BY <2>1, <2>5
    <2> QED BY <1>2, <2>4, <2>6 DEF PollerAsk
  <1>3. CASE PollerTransition
    <2>1. poller.txn \in Txns /\ poller.to \in AllStates
      BY <1>3 DEF PollerTransition, Runs
    <2> DEFINE rest == poller.batch
    <2>2. rest \in SUBSET (Txns \X AllStates)
      BY RunType
    <2>3. poller' = [Waiting EXCEPT !.pc = "polling", !.batch = rest]
      BY <1>3 DEF PollerTransition
    <2>4. [Waiting EXCEPT !.pc = "polling", !.batch = rest] \in Runs
      <3> HIDE DEF rest
      <3> QED BY <2>2 DEF Runs, Waiting
    <2>5. poller' \in Runs
      BY <2>3, <2>4
    <2> QED BY <1>3, <2>1, <2>5, TransitionType DEF PollerTransition
  <1>4. CASE PollerTimeout
    BY <1>4, RunType DEF PollerTimeout, AllStates, States
  <1>5. CASE PollerTimeoutFails
    BY <1>5, RunType DEF PollerTimeoutFails
  <1> QED BY <1>1, <1>2, <1>3, <1>4, <1>5 DEF PollerNext

\* ... and the gateway, time and crashes.
LEMMA OtherStepType ==
    ASSUME TypeOK,
           (\E t \in Txns : ChargeMovesOn(t) \/ GrowOld(t)) \/ Crash
    PROVE  TypeOK'
  <1> USE DEF TypeOK
  <1>1. ASSUME NEW t \in Txns, ChargeMovesOn(t)
        PROVE  TypeOK'
    <2>1. PICK c \in ChargeMoves(Gateway)[charge[t]] :
             /\ charge' = [charge EXCEPT ![t] = c]
             /\ \/ \E ev \in Notices(t, c) : inbox' = inbox \cup {ev}
                \/ UNCHANGED inbox
      BY <1>1 DEF ChargeMovesOn
    <2>2. c \in Charges
      BY MovesType
    <2>3. inbox' \subseteq Events
      BY <2>1, <2>2, NoticeType
    <2> QED BY <1>1, <2>1, <2>2, <2>3 DEF ChargeMovesOn
  <1>2. ASSUME NEW t \in Txns, GrowOld(t)
        PROVE  TypeOK'
    BY <1>2 DEF GrowOld
  <1>3. CASE Crash
    <2>1. crashes' \in 0..MaxCrashes
      BY <1>3, LifecycleAssumption DEF Crash
    <2>2. initiator' \in [Txns -> {"new", "inserted", "error", "pending",
                                   "completed", "failed", "done"}]
      BY <1>3 DEF Crash
    <2> QED BY <1>3, <2>1, <2>2, TaskType, RunType DEF Crash
  <1> QED BY <1>1, <1>2, <1>3

\* Every step keeps the state well formed.
LEMMA TypeStep == TypeOK /\ [Next]_vars => TypeOK'
  <1> SUFFICES ASSUME TypeOK, [Next]_vars PROVE TypeOK'
    OBVIOUS
  <1>1. CASE Next
    BY <1>1, InitiateStepType, HandlerStepType, PollerStepType, OtherStepType
       DEF Next, RequestNext
  <1>2. CASE UNCHANGED vars
    BY <1>2 DEF vars, TypeOK
  <1> QED BY <1>1, <1>2

\* The rows, the goroutines' and the poller's local states, the gateway's
\* side and the replay log are always well formed, for every gateway.
THEOREM TypeCorrect == Spec => []TypeOK
  BY TypeInit, TypeStep, PTL DEF Spec

-----------------------------------------------------------------------------
(* The inductive invariant of the gateways matched by reference.           *)

\* Both invariants hold before the first request.
LEMMA InvInit == Init => LifecycleInv /\ TriggerInv
  BY DEF Init, LifecycleInv, TriggerInv, OwnRow, SoundTask, SoundRun, Idle, Waiting,
         WebhookSteps, Terminal

\* References stay, paid charges stay paid.
Monotone ==
    \A t \in Txns : (extRef[t] => extRef'[t]) /\ (Paid(t) => Paid(t)')

\* So what a goroutine holds stays true while others move.
LEMMA Stable ==
    ASSUME Monotone
    PROVE  /\ \A ev \in Events : SoundEvent(ev) => SoundEvent(ev)'
           /\ \A x \in Tasks : SoundTask(x) => SoundTask(x)'
           /\ \A x \in Runs : SoundRun(x) => SoundRun(x)'
  <1>1. ASSUME NEW ev \in Events, SoundEvent(ev)
        PROVE  SoundEvent(ev)'
    BY <1>1 DEF Monotone, SoundEvent, Events
  <1>2. ASSUME NEW x \in Tasks, SoundTask(x)
        PROVE  SoundTask(x)'
    <2>1. x.pc # "idle" => x.txn \in Txns
      BY TaskType
    <2>2. x.pc \in WebhookSteps => x.ev \in Events
      BY TaskType
    <2> QED BY <1>1, <1>2, <2>1, <2>2 DEF Monotone, SoundTask, WebhookSteps, SoundEvent, Events
  <1>3. ASSUME NEW x \in Runs, SoundRun(x)
        PROVE  SoundRun(x)'
    <2>1. x.pc = "answered" => x.txn \in Txns
      BY RunType
    <2>2. \A item \in x.batch : item[1] \in Txns
      BY RunType
    <2> QED BY <1>3, <2>1, <2>2 DEF Monotone, SoundRun
  <1> QED BY <1>1, <1>2, <1>3

\* Nothing in this group of steps writes a row before its reference is set.
LEMMA TransitionRow ==
    ASSUME TypeOK, LifecycleInv, NEW t \in Txns, NEW from, NEW to,
           extRef[t], to = "completed" => Paid(t), Transition(t, from, to),
           UNCHANGED <<extRef, aged, initiator, charge>>
    PROVE  \A u \in Txns : OwnRow(u)'
  <1> SUFFICES ASSUME NEW u \in Txns PROVE OwnRow(u)'
    OBVIOUS
  <1>1. OwnRow(u) /\ OwnRow(t)
    BY DEF LifecycleInv
  <1>2. initiator[t] = "done" /\ state[t] \in States
    BY <1>1 DEF OwnRow, TypeOK, AllStates
  <1>3. CASE UNCHANGED rowVars
    BY <1>1, <1>3 DEF rowVars, OwnRow, Paid
  <1>4. CASE /\ TransitionOutcome(state[t], from, to) = "changed"
             /\ state' = [state EXCEPT ![t] = to]
             /\ \/ triggers' = [triggers EXCEPT ![t] = IF to = "completed" THEN @ + 1 ELSE @]
                \/ UNCHANGED triggers
    <2>1. CanTransition(state[t], to)
      BY <1>4 DEF TransitionOutcome
    <2>2. to \in States
      BY <1>2, <2>1 DEF CanTransition, transitions, States
    <2>3. CASE u = t
      BY <1>1, <1>2, <1>4, <2>2, <2>3 DEF OwnRow, Paid, TypeOK, States
    <2>4. CASE u # t
      BY <1>1, <1>4, <2>4 DEF OwnRow, Paid, TypeOK
    <2> QED BY <2>3, <2>4
  <1> QED BY <1>3, <1>4 DEF Transition

\* The rows, under steps that leave them and what they depend on alone.
LEMMA SameRows ==
    ASSUME LifecycleInv, UNCHANGED <<state, triggers, extRef, aged, initiator, charge>>
    PROVE  \A u \in Txns : OwnRow(u)'
  BY DEF LifecycleInv, OwnRow, Paid

\* Initiate's steps preserve the lifecycle invariant.
LEMMA InitiateInv ==
    ASSUME TypeOK, LifecycleInv, NEW t \in Txns, InitiateNext(t)
    PROVE  Monotone /\ \A u \in Txns : OwnRow(u)'
  <1>1. \A u \in Txns : OwnRow(u)
    BY DEF LifecycleInv
  <1>2. CASE InsertRow(t)
    BY <1>1, <1>2 DEF InsertRow, Monotone, OwnRow, Paid, TypeOK
  <1>3. CASE CallGateway(t)
    <2>1. PICK r \in InitiateResults(Gateway) :
             /\ initiator' = [initiator EXCEPT ![t] = r[1]]
             /\ charge' = [charge EXCEPT ![t] = r[2]]
      BY <1>3 DEF CallGateway
    <2>2. /\ r[1] \in {"error", "pending", "completed", "failed"}
          /\ r[1] = "completed" => r[2] = "captured"
      BY InitiateType
    <2>3. /\ initiator[t] = "inserted" /\ charge[t] = "none"
          /\ UNCHANGED <<state, extRef, aged, triggers>>
      BY <1>1, <1>3 DEF CallGateway, OwnRow
    <2>4. Monotone
      BY <2>1, <2>3 DEF Monotone, Paid, TypeOK
    <2>5. ASSUME NEW u \in Txns PROVE OwnRow(u)'
      <3>1. CASE u = t
        BY <1>1, <2>1, <2>2, <2>3, <3>1 DEF OwnRow, Paid, TypeOK
      <3>2. CASE u # t
        BY <1>1, <2>1, <2>3, <3>2 DEF OwnRow, Paid, TypeOK
      <3> QED BY <3>1, <3>2
    <2> QED BY <2>4, <2>5
  <1>4. CASE RecordRefusal(t)
    BY <1>1, <1>4 DEF RecordRefusal, Monotone, OwnRow, Paid, TypeOK
  <1>5. CASE RecordAnswer(t)
    <2>1. Monotone
      BY <1>5 DEF RecordAnswer, Monotone, Paid, TypeOK
    <2>2. ASSUME NEW u \in Txns PROVE OwnRow(u)'
      <3>1. CASE u = t
        BY <1>1, <1>5, <3>1 DEF RecordAnswer, OwnRow, Paid, TypeOK
      <3>2. CASE u # t
        BY <1>1, <1>5, <3>2 DEF RecordAnswer, OwnRow, Paid, TypeOK
      <3> QED BY <3>1, <3>2
    <2> QED BY <2>1, <2>2
  <1> QED BY <1>2, <1>3, <1>4, <1>5 DEF InitiateNext

\* One goroutine moves on to a sound x; everything it rests on is stable.
LEMMA HandlerMoves ==
    ASSUME TypeOK, LifecycleInv, Monotone, NEW h \in Handlers, NEW x \in Tasks,
           SoundTask(x), handler' = [handler EXCEPT ![h] = x],
           UNCHANGED <<inbox, poller>>, \A u \in Txns : OwnRow(u)'
    PROVE  LifecycleInv'
  <1>1. \A g \in Handlers : SoundTask(handler[g])'
    <2> SUFFICES ASSUME NEW g \in Handlers PROVE SoundTask(handler[g])'
      OBVIOUS
    <2>1. PICK y \in Tasks : y = handler'[g] /\ SoundTask(y)
      BY DEF TypeOK, LifecycleInv
    <2>2. SoundTask(y)'
      BY <2>1, Stable
    <2> QED BY <2>1, <2>2 DEF SoundTask, SoundEvent, Paid
  <1>2. \A ev \in inbox' : SoundEvent(ev)'
    BY Stable DEF LifecycleInv, TypeOK
  <1>3. SoundRun(poller)'
    <2>1. PICK y \in Runs : y = poller /\ SoundRun(y)
      BY DEF TypeOK, LifecycleInv
    <2>2. SoundRun(y)'
      BY <2>1, Stable
    <2> QED BY <2>1, <2>2 DEF SoundRun, Paid
  <1> QED BY <1>1, <1>2, <1>3 DEF LifecycleInv

\* So do the steps of a request goroutine ...
LEMMA HandlerInv ==
    ASSUME Gateway # "ecocash", TypeOK, LifecycleInv, NEW h \in Handlers, HandlerNext(h)
    PROVE  Monotone /\ LifecycleInv'
  <1>1. /\ handler[h] \in Tasks /\ SoundTask(handler[h])
        /\ UNCHANGED <<extRef, aged, initiator, charge, inbox, poller>>
    BY DEF TypeOK, LifecycleInv, HandlerNext, LookupByReference, LookupByFallback,
           ReadFallbackRow, ReplaySelect, ReplayInsert, WebhookTransition, BeginPoll,
           BeginCancel, AnswerPoll, PollTransition, CancelTransition
  <1>2. Monotone
    BY <1>1 DEF Monotone, Paid
  <1> SUFFICES LifecycleInv'
    BY <1>2
  <1>3. Idle \in Tasks /\ SoundTask(Idle)
    BY TaskType DEF SoundTask, Idle, WebhookSteps
  \* A step that writes no row.
  <1>4. ASSUME NEW x \in Tasks, SoundTask(x), handler' = [handler EXCEPT ![h] = x],
               UNCHANGED <<state, triggers>>
        PROVE  LifecycleInv'
    BY <1>1, <1>2, <1>4, SameRows, HandlerMoves
  <1>5. ASSUME Finish(h), UNCHANGED <<state, triggers>>
        PROVE  LifecycleInv'
    BY <1>3, <1>4, <1>5 DEF Finish
  <1>6. ASSUME handler[h].pc \in WebhookSteps, NEW p \in {"unseen", "logged"}, Goto(h, p),
               UNCHANGED <<state, triggers>>
        PROVE  LifecycleInv'
    <2> DEFINE x == [handler[h] EXCEPT !.pc = p]
    <2>1. handler' = [handler EXCEPT ![h] = x]
      BY <1>6 DEF Goto
    <2>2. x \in Tasks
      BY <1>1, <1>6, TaskType DEF WebhookSteps
    <2>3. /\ x.pc = p /\ x.ev = handler[h].ev /\ x.txn = handler[h].txn
      BY <1>1, <1>6 DEF Tasks, Idle, WebhookSteps, PollSteps
    <2>4. SoundTask(x)
      BY <1>1, <1>6, <2>3 DEF SoundTask, WebhookSteps
    <2> QED BY <1>4, <1>6, <2>1, <2>2, <2>4
  \* A step that transitions a row the goroutine holds.
  <1>7. ASSUME NEW from, NEW to, handler[h].pc # "idle", Finish(h),
               to = "completed" => Paid(handler[h].txn),
               Transition(handler[h].txn, from, to)
        PROVE  LifecycleInv'
    <2>1. handler[h].txn \in Txns /\ extRef[handler[h].txn]
      BY <1>1, <1>7, TaskType DEF SoundTask
    <2>2. \A u \in Txns : OwnRow(u)'
      BY <1>1, <1>7, <2>1, TransitionRow
    <2> QED BY <1>1, <1>2, <1>3, <1>7, <2>2, HandlerMoves DEF Finish
  <1>8. ASSUME NEW ev \in inbox, LookupByReference(h, ev)
        PROVE  LifecycleInv'
    <2> DEFINE x == [Idle EXCEPT !.pc = "looked", !.ev = ev, !.txn = ev.txn,
                                 !.seen = state[ev.txn]]
    <2>1. ev \in Events /\ ev.txn \in Txns /\ state[ev.txn] \in AllStates
      BY DEF TypeOK, Events
    <2>2. x \in Tasks
      BY <2>1, BeginType DEF WebhookSteps
    <2>3. extRef[ev.txn] /\ SoundEvent(ev)
      BY <1>8 DEF LookupByReference, LifecycleInv
    <2>4. SoundTask(x)
      BY <2>3 DEF SoundTask, Idle
    <2> QED BY <1>4, <1>8, <2>2, <2>4 DEF LookupByReference
  <1>9. ASSUME NEW ev \in inbox, LookupByFallback(h, ev)
        PROVE  FALSE
    BY <1>9, FallbackType DEF LookupByFallback, TypeOK
  <1>10. CASE ReadFallbackRow(h)
    BY <1>1, <1>10 DEF ReadFallbackRow, SoundTask
  <1>11. CASE ReplaySelect(h)
    BY <1>5, <1>6, <1>11 DEF ReplaySelect, AfterReplayCheck, WebhookSteps
  <1>12. CASE ReplayInsert(h)
    BY <1>5, <1>6, <1>12 DEF ReplayInsert, AfterReplayCheck, WebhookSteps
  <1>13. CASE WebhookTransition(h)
    <2>1. handler[h].pc = "logged"
      BY <1>13 DEF WebhookTransition
    <2>2. handler[h].ev.state = "completed" => Paid(handler[h].txn)
      BY <1>1, <2>1 DEF SoundTask, SoundEvent, WebhookSteps
    <2> QED BY <1>7, <1>13, <2>1, <2>2 DEF WebhookTransition
  <1>14. ASSUME NEW t \in Txns, BeginPoll(h, t) \/ BeginCancel(h, t)
         PROVE  LifecycleInv'
    <2>1. PICK p \in {"poll_read", "cancel_read"} :
             handler' = [handler EXCEPT ![h] = [Idle EXCEPT !.pc = p, !.txn = t, !.seen = state[t]]]
      BY <1>14 DEF BeginPoll, BeginCancel
    <2> DEFINE x == [Idle EXCEPT !.pc = p, !.txn = t, !.seen = state[t]]
    <2>2. x \in Tasks
      BY BeginType DEF PollSteps, TypeOK
    <2>3. extRef[t] /\ UNCHANGED <<state, triggers>>
      BY <1>14 DEF BeginPoll, BeginCancel
    <2>4. x.pc = p /\ x.txn = t
      BY DEF Idle
    <2>5. SoundTask(x)
      BY <2>3, <2>4 DEF SoundTask, WebhookSteps
    <2> QED BY <1>4, <2>1, <2>2, <2>3, <2>5
  <1>15. CASE AnswerPoll(h)
    <2> DEFINE t == handler[h].txn
               to == StatusOf(Gateway)[charge[t]]
               x == [handler[h] EXCEPT !.pc = "poll_answered", !.to = to]
    <2>1. handler[h].pc = "poll_read" /\ t \in Txns /\ UNCHANGED <<state, triggers>>
      BY <1>1, <1>15, TaskType DEF AnswerPoll
    <2>0. LookedUp(t) = {t}
      BY <2>1 DEF LookedUp
    <2>2. to \in AllStates /\ (to = "completed" => Paid(t))
      BY <2>0, <2>1, AnswerType
    <2>3. x \in Tasks
      BY <1>1, <2>1, <2>2, TaskType DEF PollSteps
    <2>4. x.pc = "poll_answered" /\ x.txn = t /\ x.to = to
      BY <1>1, <2>1 DEF Tasks, Idle, WebhookSteps, PollSteps
    <2>5. SoundTask(x)
      BY <1>1, <2>1, <2>2, <2>4 DEF SoundTask, WebhookSteps
    <2>6. \/ handler' = [handler EXCEPT ![h] = x]
          \/ Finish(h)
      BY <1>15, <2>0 DEF AnswerPoll
    <2> QED BY <1>4, <1>5, <2>1, <2>3, <2>5, <2>6
  <1>16. CASE PollTransition(h)
    <2>1. handler[h].pc = "poll_answered"
      BY <1>16 DEF PollTransition
    <2>2. handler[h].to = "completed" => Paid(handler[h].txn)
      BY <1>1, <2>1 DEF SoundTask
    <2> QED BY <1>7, <1>16, <2>1, <2>2 DEF PollTransition
  <1>17. CASE CancelTransition(h)
    <2>1. handler[h].pc = "cancel_read"
      BY <1>17 DEF CancelTransition
    <2> QED BY <1>7, <1>17, <2>1 DEF CancelTransition
  <1> QED BY <1>2, <1>8, <1>9, <1>10, <1>11, <1>12, <1>13, <1>14, <1>15, <1>16, <1>17
          DEF HandlerNext

\* The poller moves on to a sound x.
LEMMA PollerMoves ==
    ASSUME TypeOK, LifecycleInv, Monotone, NEW x \in Runs, SoundRun(x), poller' = x,
           UNCHANGED <<inbox, handler>>, \A u \in Txns : OwnRow(u)'
    PROVE  LifecycleInv'
  <1>1. SoundRun(x)'
    BY Stable
  <1>2. SoundRun(poller)'
    BY <1>1 DEF SoundRun, Paid
  <1>3. \A g \in Handlers : SoundTask(handler[g])'
    <2> SUFFICES ASSUME NEW g \in Handlers PROVE SoundTask(handler[g])'
      OBVIOUS
    <2>1. PICK y \in Tasks : y = handler[g] /\ SoundTask(y)
      BY DEF TypeOK, LifecycleInv
    <2>2. SoundTask(y)'
      BY <2>1, Stable
    <2> QED BY <2>1, <2>2 DEF SoundTask, SoundEvent, Paid
  <1>4. \A ev \in inbox' : SoundEvent(ev)'
    BY Stable DEF LifecycleInv, TypeOK
  <1> QED BY <1>2, <1>3, <1>4 DEF LifecycleInv

\* ... the poller's steps ...
LEMMA PollerInv ==
    ASSUME Gateway # "ecocash", TypeOK, LifecycleInv, PollerNext
    PROVE  Monotone /\ LifecycleInv'
  <1>1. /\ poller \in Runs /\ SoundRun(poller)
        /\ UNCHANGED <<extRef, aged, initiator, charge, inbox, handler>>
    BY DEF TypeOK, LifecycleInv, PollerNext, PollerQuery, PollerAsk, PollerTransition,
           PollerTimeout, PollerTimeoutFails
  <1>2. Monotone
    BY <1>1 DEF Monotone, Paid
  <1> SUFFICES LifecycleInv'
    BY <1>2
  <1>3. Waiting \in Runs /\ SoundRun(Waiting)
    BY RunType DEF SoundRun, Waiting
  <1>4. ASSUME NEW x \in Runs, SoundRun(x), poller' = x, UNCHANGED <<state, triggers>>
        PROVE  LifecycleInv'
    BY <1>1, <1>2, <1>4, SameRows, PollerMoves
  <1>5. CASE PollerQuery
    <2>1. PICK due \in SUBSET {t \in Txns : extRef[t]} :
             poller' = [poller EXCEPT !.pc = "polling", !.batch = {<<t, state[t]>> : t \in due}]
      BY <1>5 DEF PollerQuery
    <2> DEFINE b == {<<t, state[t]>> : t \in due}
               x == [poller EXCEPT !.pc = "polling", !.batch = b]
    <2>2. b \in SUBSET (Txns \X AllStates) /\ \A item \in b : extRef[item[1]]
      BY DEF TypeOK
    <2>3. poller.pc # "answered" /\ UNCHANGED <<state, triggers>>
      BY <1>5 DEF PollerQuery
    <2>4. x \in Runs
      BY <1>1, <2>2, <2>3, RunType
    <2>5. x.pc = "polling" /\ x.batch = b
      BY <1>1 DEF Runs
    <2>6. SoundRun(x)
      BY <2>2, <2>5 DEF SoundRun
    <2> QED BY <1>4, <2>1, <2>3, <2>4, <2>6
  <1>6. CASE PollerAsk
    <2>0. \A t \in Txns : LookedUp(t) = {t}
      BY DEF LookedUp
    <2>1. PICK item \in poller.batch :
             \/ poller' = [pc |-> "answered", batch |-> poller.batch \ {item},
                           txn |-> item[1], seen |-> item[2],
                           to |-> StatusOf(Gateway)[charge[item[1]]]]
             \/ poller' = [poller EXCEPT !.batch = poller.batch \ {item}]
      <3>1. \A item \in poller.batch : LookedUp(item[1]) = {item[1]}
        BY <1>1, <2>0, RunType
      <3> QED BY <1>6, <3>1 DEF PollerAsk
    <2> DEFINE rest == poller.batch \ {item}
               to == StatusOf(Gateway)[charge[item[1]]]
               x == [pc |-> "answered", batch |-> rest, txn |-> item[1], seen |-> item[2],
                     to |-> to]
               y == [poller EXCEPT !.batch = rest]
    <2>2. /\ item[1] \in Txns /\ item[2] \in AllStates
          /\ rest \in SUBSET (Txns \X AllStates)
      BY <1>1, RunType
    <2>4. to \in AllStates /\ (to = "completed" => Paid(item[1]))
      BY <2>0, <2>2, AnswerType
    <2>5. extRef[item[1]] /\ \A i \in rest : extRef[i[1]]
      BY <1>1 DEF SoundRun
    <2>6. x \in Runs
      <3> HIDE DEF rest, to
      <3> QED BY <2>2, <2>4 DEF Runs
    <2>7. SoundRun(x)
      <3> HIDE DEF rest, to
      <3> QED BY <2>4, <2>5 DEF SoundRun
    <2>8. y \in Runs
      BY <1>1, <2>2, RunType
    <2>9. /\ y.batch = rest /\ y.pc = poller.pc /\ y.txn = poller.txn
          /\ y.to = poller.to
      BY <1>1 DEF Runs
    <2>10. SoundRun(y)
      BY <1>1, <2>5, <2>9 DEF SoundRun
    <2>11. poller' = x \/ poller' = y
      BY <2>1
    <2>12. UNCHANGED <<state, triggers>>
      BY <1>6 DEF PollerAsk
    <2> QED BY <1>4, <2>6, <2>7, <2>8, <2>10, <2>11, <2>12
  <1>7. CASE PollerTransition
    <2> DEFINE rest == poller.batch
               x == [Waiting EXCEPT !.pc = "polling", !.batch = rest]
    <2>1. /\ poller' = x /\ poller.pc = "answered"
          /\ Transition(poller.txn, poller.seen, poller.to)
      BY <1>7 DEF PollerTransition
    <2>2. /\ poller.txn \in Txns /\ extRef[poller.txn]
          /\ poller.to = "completed" => Paid(poller.txn)
      BY <1>1, <2>1, RunType DEF SoundRun
    <2>3. \A u \in Txns : OwnRow(u)'
      BY <1>1, <2>1, <2>2, TransitionRow
    <2>4. rest \in SUBSET (Txns \X AllStates) /\ \A i \in rest : extRef[i[1]]
      BY <1>1, RunType DEF SoundRun
    <2>5. x \in Runs /\ SoundRun(x)
      <3> HIDE DEF rest
      <3> QED BY <2>4 DEF Runs, Waiting, SoundRun
    <2> QED BY <1>1, <1>2, <2>1, <2>3, <2>5, PollerMoves
  <1>8. CASE PollerTimeout
    <2>1. /\ poller' = Waiting
          /\ state' = [t \in Txns |->
                         IF state[t] \in Open /\ aged[t] THEN "failed" ELSE state[t]]
          /\ UNCHANGED triggers
      BY <1>8 DEF PollerTimeout
    <2>2. ASSUME NEW u \in Txns PROVE OwnRow(u)'
      <3>1. OwnRow(u)
        BY DEF LifecycleInv
      <3>2. CASE state[u] \in Open /\ aged[u]
        <4>1. initiator[u] = "done"
          BY <3>1, <3>2 DEF OwnRow
        <4> QED BY <1>1, <2>1, <3>1, <3>2, <4>1 DEF OwnRow, Paid, Open
      <3>3. CASE ~(state[u] \in Open /\ aged[u])
        BY <1>1, <2>1, <3>1, <3>3 DEF OwnRow, Paid
      <3> QED BY <3>2, <3>3
    <2> QED BY <1>1, <1>2, <1>3, <2>1, <2>2, PollerMoves
  <1>9. CASE PollerTimeoutFails
    BY <1>3, <1>4, <1>9 DEF PollerTimeoutFails
  <1> QED BY <1>5, <1>6, <1>7, <1>8, <1>9 DEF PollerNext

\* Nobody's local state moves; what it rests on is stable.
LEMMA NobodyMoves ==
    ASSUME TypeOK, LifecycleInv, Monotone, UNCHANGED <<handler, poller>>,
           \A u \in Txns : OwnRow(u)', \A ev \in inbox' : ev \in inbox \/ SoundEvent(ev)'
    PROVE  LifecycleInv'
  <1>1. SoundRun(poller)'
    <2>1. PICK y \in Runs : y = poller /\ SoundRun(y)
      BY DEF TypeOK, LifecycleInv
    <2>2. SoundRun(y)'
      BY <2>1, Stable
    <2> QED BY <2>1, <2>2 DEF SoundRun, Paid
  <1>2. \A g \in Handlers : SoundTask(handler[g])'
    <2> SUFFICES ASSUME NEW g \in Handlers PROVE SoundTask(handler[g])'
      OBVIOUS
    <2>1. PICK y \in Tasks : y = handler[g] /\ SoundTask(y)
      BY DEF TypeOK, LifecycleInv
    <2>2. SoundTask(y)'
      BY <2>1, Stable
    <2> QED BY <2>1, <2>2 DEF SoundTask, SoundEvent, Paid
  <1>3. \A ev \in inbox' : SoundEvent(ev)'
    BY Stable DEF LifecycleInv, TypeOK
  <1> QED BY <1>1, <1>2, <1>3 DEF LifecycleInv

\* ... and the gateway, time and crashes.
LEMMA OtherInv ==
    ASSUME TypeOK, LifecycleInv,
           (\E t \in Txns : ChargeMovesOn(t) \/ GrowOld(t)) \/ Crash
    PROVE  LifecycleInv'
  <1>0. \A u \in Txns : OwnRow(u)
    BY DEF LifecycleInv
  <1>1. ASSUME NEW t \in Txns, ChargeMovesOn(t)
        PROVE  LifecycleInv'
    <2>1. PICK c \in ChargeMoves(Gateway)[charge[t]] :
             /\ charge' = [charge EXCEPT ![t] = c]
             /\ \/ \E ev \in Notices(t, c) : inbox' = inbox \cup {ev}
                \/ UNCHANGED inbox
      BY <1>1 DEF ChargeMovesOn
    <2>2. /\ charge[t] \in Charges
          /\ UNCHANGED <<state, extRef, aged, triggers, initiator, handler, poller>>
      BY <1>1 DEF TypeOK, ChargeMovesOn
    <2>3. /\ c \in Charges
          /\ charge[t] \in {"captured", "reversed"} => c \in {"captured", "reversed"}
          /\ charge[t] # "none"
      <3>1. charge[t] # "none"
        BY <2>1 DEF ChargeMoves
      <3> QED BY <2>1, <2>2, <3>1, MovesType
    <2>4. Monotone
      BY <2>1, <2>2, <2>3 DEF Monotone, Paid, TypeOK
    <2>5. ASSUME NEW u \in Txns PROVE OwnRow(u)'
      BY <1>0, <2>1, <2>2, <2>3, <2>4 DEF OwnRow, Paid, TypeOK, Monotone
    <2>6. ASSUME NEW ev \in inbox' PROVE ev \in inbox \/ SoundEvent(ev)'
      <3>1. CASE ev \in Notices(t, c)
        <4>1. ev.txn = t /\ (ev.state = "completed" => c = "captured")
          BY <2>3, <3>1, NoticeType
        <4> QED BY <2>1, <4>1 DEF SoundEvent, Paid, TypeOK
      <3> QED BY <2>1, <3>1
    <2> QED BY <2>2, <2>4, <2>5, <2>6, NobodyMoves
  <1>2. ASSUME NEW t \in Txns, GrowOld(t)
        PROVE  LifecycleInv'
    <2>1. Monotone /\ UNCHANGED <<handler, poller, inbox>>
      BY <1>2 DEF GrowOld, Monotone, Paid
    <2>2. ASSUME NEW u \in Txns PROVE OwnRow(u)'
      BY <1>0, <1>2 DEF GrowOld, OwnRow, Paid, TypeOK
    <2> QED BY <2>1, <2>2, NobodyMoves
  <1>3. CASE Crash
    <2>1. /\ handler' = [h \in Handlers |-> Idle]
          /\ poller' = Waiting
          /\ triggers' = [t \in Txns |-> 0]
          /\ initiator' = [t \in Txns |-> IF initiator[t] = "new" THEN "new" ELSE "done"]
          /\ UNCHANGED <<state, extRef, aged, charge, inbox>>
      BY <1>3 DEF Crash
    <2>2. ASSUME NEW u \in Txns PROVE OwnRow(u)'
      BY <1>0, <2>1 DEF OwnRow, Paid
    <2>3. \A h \in Handlers : SoundTask(handler[h])'
      BY <2>1 DEF SoundTask, Idle, WebhookSteps
    <2>4. SoundRun(poller)'
      BY <2>1 DEF SoundRun, Waiting
    <2>5. \A ev \in inbox' : SoundEvent(ev)'
      BY <2>1 DEF LifecycleInv, SoundEvent, Paid
    <2> QED BY <2>2, <2>3, <2>4, <2>5 DEF LifecycleInv
  <1> QED BY <1>1, <1>2, <1>3

\* Every step preserves the lifecycle invariant.
LEMMA InvStep ==
    ASSUME Gateway # "ecocash", TypeOK, LifecycleInv, [Next]_vars
    PROVE  LifecycleInv'
  <1>1. ASSUME NEW t \in Txns, InitiateNext(t)
        PROVE  LifecycleInv'
    <2>1. UNCHANGED <<handler, poller, inbox>>
      BY <1>1 DEF InitiateNext, InsertRow, CallGateway, RecordRefusal, RecordAnswer
    <2> QED BY <1>1, <2>1, InitiateInv, NobodyMoves
  <1>2. CASE UNCHANGED vars
    BY <1>2 DEF vars, LifecycleInv, OwnRow, SoundEvent, SoundTask, SoundRun, Paid
  <1> QED BY <1>1, <1>2, HandlerInv, PollerInv, OtherInv DEF Next, RequestNext

-----------------------------------------------------------------------------
(* Who writes rows, and what follows for them.                             *)

\* A step of the state machine on a row found by its reference.
MachineStep ==
    /\ \E t \in Txns, from \in AllStates, to \in AllStates :
          extRef[t] /\ Transition(t, from, to)
    /\ UNCHANGED <<extRef, crashes>>

\* Whoever moves rows is the state machine, Initiate, the timeout or a crash.
LEMMA Writers ==
    ASSUME Gateway # "ecocash", TypeOK, LifecycleInv, [Next]_vars
    PROVE  \/ UNCHANGED <<state, completedAt, triggers, extRef, crashes>>
           \/ MachineStep
           \/ \E t \in Txns : InsertRow(t) \/ RecordRefusal(t) \/ RecordAnswer(t)
           \/ PollerTimeout
           \/ Crash
  <1>1. ASSUME NEW h \in Handlers, HandlerNext(h)
        PROVE  MachineStep \/ UNCHANGED <<state, completedAt, triggers, extRef, crashes>>
    <2>1. handler[h] \in Tasks /\ SoundTask(handler[h])
      BY DEF TypeOK, LifecycleInv
    <2>2. handler[h].pc # "idle" =>
             /\ handler[h].txn \in Txns /\ handler[h].seen \in AllStates
             /\ extRef[handler[h].txn]
      BY <2>1, TaskType DEF SoundTask
    <2>3. CASE WebhookTransition(h)
      <3>1. handler[h].pc = "logged" /\ handler[h].ev.state \in AllStates
        BY <2>1, <2>3, TaskType DEF WebhookTransition, WebhookSteps, Events, AllStates
      <3> QED BY <2>2, <2>3, <3>1 DEF WebhookTransition, MachineStep
    <2>4. CASE PollTransition(h)
      <3>1. handler[h].pc = "poll_answered" /\ handler[h].to \in AllStates
        BY <2>1, <2>4, TaskType DEF PollTransition, PollSteps
      <3> QED BY <2>2, <2>4, <3>1 DEF PollTransition, MachineStep
    <2>5. CASE CancelTransition(h)
      <3>1. handler[h].pc = "cancel_read" /\ "cancelled" \in AllStates
        BY <2>5 DEF CancelTransition, AllStates, States
      <3> QED BY <2>2, <2>5, <3>1 DEF CancelTransition, MachineStep
    <2> QED BY <1>1, <2>3, <2>4, <2>5 DEF HandlerNext, LookupByReference,
               LookupByFallback, ReadFallbackRow, ReplaySelect, ReplayInsert, BeginPoll,
               BeginCancel, AnswerPoll
  <1>2. CASE PollerTransition
    <2>1. poller \in Runs /\ SoundRun(poller) /\ poller.pc = "answered"
      BY <1>2 DEF TypeOK, LifecycleInv, PollerTransition
    <2>2. /\ poller.txn \in Txns /\ poller.seen \in AllStates /\ poller.to \in AllStates
          /\ extRef[poller.txn]
      BY <2>1 DEF Runs, SoundRun
    <2> QED BY <1>2, <2>2 DEF PollerTransition, MachineStep
  <1>3. ASSUME PollerNext, ~PollerTransition, ~PollerTimeout
        PROVE  UNCHANGED <<state, completedAt, triggers, extRef, crashes>>
    BY <1>3 DEF PollerNext, PollerQuery, PollerAsk, PollerTimeoutFails
  <1>4. ASSUME NEW t \in Txns, CallGateway(t) \/ ChargeMovesOn(t) \/ GrowOld(t)
        PROVE  UNCHANGED <<state, completedAt, triggers, extRef, crashes>>
    BY <1>4 DEF CallGateway, ChargeMovesOn, GrowOld
  <1>5. CASE UNCHANGED vars
    BY <1>5 DEF vars
  <1> QED BY <1>1, <1>2, <1>3, <1>4, <1>5 DEF Next, RequestNext, InitiateNext

\* Every step keeps one fulfillment per completion.
LEMMA TriggerStep ==
    ASSUME Gateway # "ecocash", TypeOK, LifecycleInv, TriggerInv, [Next]_vars
    PROVE  TriggerInv'
  <1>0. ASSUME NEW u \in Txns
        PROVE  /\ OwnRow(u) /\ triggers[u] \in Nat /\ triggers[u] <= 1
               /\ triggers[u] = 1 => state[u] \in Terminal \/ ~extRef[u]
               /\ state[u] = "completed" /\ crashes = 0 => triggers[u] = 1 \/ completedAt[u]
    BY DEF TypeOK, LifecycleInv, TriggerInv
  <1>1. CASE UNCHANGED <<state, completedAt, triggers, extRef, crashes>>
    BY <1>0, <1>1 DEF TriggerInv
  <1>2. CASE MachineStep
    <2>1. PICK t \in Txns, from \in AllStates, to \in AllStates :
             extRef[t] /\ Transition(t, from, to)
      BY <1>2 DEF MachineStep
    <2>2. CASE UNCHANGED rowVars
      BY <1>0, <1>2, <2>2 DEF TriggerInv, MachineStep, rowVars
    <2>3. CASE /\ TransitionOutcome(state[t], from, to) = "changed"
               /\ state' = [state EXCEPT ![t] = to]
               /\ completedAt' = [completedAt EXCEPT ![t] = @ \/ to = "completed"]
               /\ \/ triggers' = [triggers EXCEPT ![t] = IF to = "completed" THEN @ + 1 ELSE @]
                  \/ UNCHANGED triggers
      <3>1. CanTransition(state[t], to) /\ state[t] \in States
        BY <1>0, <2>1, <2>3 DEF TransitionOutcome, OwnRow, TypeOK, AllStates
      <3>2. /\ to = "completed" => state[t] \in Open
            /\ state[t] \in Terminal => to \in Terminal
        BY <3>1 DEF CanTransition, transitions, Open, Terminal, States
      <3>3. state[t] \in Open => triggers[t] = 0
        BY <1>0, <2>1 DEF Open, Terminal
      <3>4. ASSUME NEW u \in Txns
            PROVE  /\ triggers'[u] <= 1
                   /\ triggers'[u] = 1 => state'[u] \in Terminal \/ ~extRef'[u]
                   /\ state'[u] = "completed" /\ crashes' = 0
                         => triggers'[u] = 1 \/ completedAt'[u]
        <4>1. CASE u # t
          BY <1>0, <1>2, <2>3, <4>1 DEF MachineStep, TypeOK
        <4>2. CASE u = t /\ to = "completed"
          <5>1. state'[t] = "completed" /\ triggers'[t] \in {0, 1}
            BY <2>3, <3>2, <3>3, <4>2 DEF TypeOK
          <5>2. completedAt'[t]
            BY Zenon, <2>3, <4>2 DEF TypeOK
          <5> QED BY <4>2, <5>1, <5>2 DEF Terminal
        <4>3. CASE u = t /\ to # "completed"
          <5>1. state'[t] = to /\ triggers'[t] = triggers[t]
            BY <2>3, <4>3 DEF TypeOK
          <5> QED BY <1>0, <2>1, <3>2, <4>3, <5>1
        <4> QED BY <4>1, <4>2, <4>3
      <3> QED BY <3>4 DEF TriggerInv
    <2> QED BY <2>1, <2>2, <2>3 DEF Transition
  <1>3. ASSUME NEW t \in Txns, InsertRow(t)
        PROVE  TriggerInv'
    BY <1>0, <1>3 DEF InsertRow, TriggerInv, OwnRow, TypeOK
  <1>4. ASSUME NEW t \in Txns, RecordRefusal(t)
        PROVE  TriggerInv'
    BY <1>0, <1>4 DEF RecordRefusal, TriggerInv, OwnRow, TypeOK
  <1>5. ASSUME NEW t \in Txns, RecordAnswer(t)
        PROVE  TriggerInv'
    <2>1. /\ initiator[t] \in {"pending", "completed", "failed"}
          /\ triggers[t] = 0 /\ ~extRef[t] /\ state[t] = "initiated"
      BY <1>0, <1>5 DEF RecordAnswer, OwnRow
    <2>2. ASSUME NEW u \in Txns
          PROVE  /\ triggers'[u] <= 1
                 /\ triggers'[u] = 1 => state'[u] \in Terminal \/ ~extRef'[u]
                 /\ state'[u] = "completed" /\ crashes' = 0
                       => triggers'[u] = 1 \/ completedAt'[u]
      <3>1. CASE u # t
        BY <1>0, <1>5, <3>1 DEF RecordAnswer, TypeOK
      <3>2. CASE u = t
        BY <1>5, <2>1, <3>2 DEF RecordAnswer, TypeOK, Terminal
      <3> QED BY <3>1, <3>2
    <2> QED BY <2>2 DEF TriggerInv
  <1>6. CASE PollerTimeout
    BY <1>0, <1>6 DEF PollerTimeout, TriggerInv, Open, Terminal
  <1>7. CASE Crash
    <2>1. crashes' # 0
      BY <1>7 DEF Crash, TypeOK
    <2> QED BY <1>7, <2>1 DEF Crash, TriggerInv
  <1> QED BY <1>1, <1>2, <1>3, <1>4, <1>5, <1>6, <1>7, Writers

-----------------------------------------------------------------------------
(* The theorems.                                                           *)

\* No row is `completed`, for any gateway whose webhooks are matched by
\* reference, unless its own charge was captured.
THEOREM CompletedIsCaptured ==
    ASSUME Gateway # "ecocash"
    PROVE  Spec => []CompletedMeansCaptured
  <1>1. Init => TypeOK /\ LifecycleInv
    BY TypeInit, InvInit
  <1>2. TypeOK /\ LifecycleInv /\ [Next]_vars => (TypeOK /\ LifecycleInv)'
    BY TypeStep, InvStep
  <1>3. LifecycleInv => CompletedMeansCaptured
    BY DEF LifecycleInv, OwnRow, CompletedMeansCaptured, Paid
  <1> QED BY <1>1, <1>2, <1>3, PTL DEF Spec

\* However webhook workers, status requests and the poller race, and
\* whatever the number of each, a payment's fulfillment is spawned at most
\* once per run of the process.
THEOREM OneTrigger ==
    ASSUME Gateway # "ecocash"
    PROVE  Spec => []OneTriggerPerCapture
  <1>1. Init => TypeOK /\ LifecycleInv /\ TriggerInv
    BY TypeInit, InvInit
  <1>2. TypeOK /\ LifecycleInv /\ TriggerInv /\ [Next]_vars
           => (TypeOK /\ LifecycleInv /\ TriggerInv)'
    BY TypeStep, InvStep, TriggerStep
  <1>3. TriggerInv => OneTriggerPerCapture
    BY DEF TriggerInv, OneTriggerPerCapture
  <1> QED BY <1>1, <1>2, <1>3, PTL DEF Spec

\* No completion is lost on the way to fulfillment: until the process first
\* restarts, a `completed` row has had its goroutine spawned, by
\* applyTransition's caller or by Initiate's synchronous branch, or it
\* carries the stamp by which the sweep finds it.
THEOREM CompletionsSeen ==
    ASSUME Gateway # "ecocash"
    PROVE  Spec => []CompletionsAreSeen
  <1>1. Init => TypeOK /\ LifecycleInv /\ TriggerInv
    BY TypeInit, InvInit
  <1>2. TypeOK /\ LifecycleInv /\ TriggerInv /\ [Next]_vars
           => (TypeOK /\ LifecycleInv /\ TriggerInv)'
    BY TypeStep, InvStep, TriggerStep
  <1>3. TriggerInv => CompletionsAreSeen
    BY DEF TriggerInv, CompletionsAreSeen
  <1> QED BY <1>1, <1>2, <1>3, PTL DEF Spec

\* Every step is a step of PaymentRow, or leaves the row alone.
LEMMA RowStep ==
    ASSUME Gateway # "ecocash", TypeOK, LifecycleInv, [Next]_vars
    PROVE  [Row!Next]_(Row!rowVars)
  <1>0. \A u \in Txns : OwnRow(u)
    BY DEF LifecycleInv
  <1>1. CASE UNCHANGED <<state, completedAt, triggers, extRef, crashes>>
    BY <1>1 DEF Row!rowVars
  <1>2. CASE MachineStep
    <2>1. PICK t \in Txns, from \in AllStates, to \in AllStates :
             extRef[t] /\ Transition(t, from, to)
      BY <1>2 DEF MachineStep
    <2>2. CASE UNCHANGED rowVars
      BY <2>2 DEF Row!rowVars, rowVars
    <2>3. CASE ~UNCHANGED rowVars
      <3>1. TransitionOutcome(state[t], from, to) = "changed"
        BY <2>1, <2>3 DEF Transition
      <3>2. state[t] # "absent" /\ CanTransition(state[t], to)
        BY <1>0, <2>1, <3>1 DEF OwnRow, TransitionOutcome
      <3>3. to \in States
        BY <3>2 DEF CanTransition, transitions, States, TypeOK, AllStates
      <3>4. Row!Transition(t, to) \/ Row!TransitionUnacknowledged(t, to)
        <4>1. Row!CanTransition(state[t], to)
          BY <3>2 DEF CanTransition, transitions, Row!CanTransition, Row!transitions
        <4> QED BY <2>1, <2>3, <3>2, <4>1
                DEF Transition, Row!Transition, Row!TransitionUnacknowledged
      <3>5. to \in Row!States
        BY <3>3 DEF States, Row!States
      <3> QED BY <3>4, <3>5 DEF Row!Next
    <2> QED BY <2>2, <2>3
  <1>3. ASSUME NEW t \in Txns, InsertRow(t)
        PROVE  Row!Next
    <2>1. Row!Insert(t)
      BY <1>0, <1>3 DEF InsertRow, OwnRow, Row!Insert
    <2> QED BY <2>1 DEF Row!Next
  <1>4. ASSUME NEW t \in Txns, RecordRefusal(t), state' # state
        PROVE  Row!Next
    <2>1. Row!InitiateWrite(t, "failed")
      <3>1. state[t] = "initiated" /\ triggers' = [triggers EXCEPT ![t] = triggers[t]]
        BY <1>0, <1>4 DEF RecordRefusal, OwnRow, TypeOK
      <3> QED BY <1>4, <3>1 DEF RecordRefusal, Row!InitiateWrite
    <2> QED BY <2>1 DEF Row!Next, Row!States
  <1>5. ASSUME NEW t \in Txns, RecordRefusal(t), state' = state
        PROVE  UNCHANGED Row!rowVars
    BY <1>5 DEF RecordRefusal, Row!rowVars
  <1>6. ASSUME NEW t \in Txns, RecordAnswer(t)
        PROVE  [Row!Next]_(Row!rowVars)
    <2>1. PICK s \in {"pending", "completed", "failed"} : s = initiator[t]
      BY <1>6 DEF RecordAnswer
    <2>2. /\ state[t] = "initiated" /\ UNCHANGED completedAt
          /\ triggers' = [triggers EXCEPT ![t] = IF s = "completed" THEN @ + 1 ELSE @]
      BY <1>0, <1>6, <2>1 DEF RecordAnswer, OwnRow
    <2>3. CASE state' = [state EXCEPT ![t] = s]
      <3>1. Row!InitiateWrite(t, s) /\ s \in Row!States
        BY <2>2, <2>3 DEF Row!InitiateWrite, Row!States
      <3> QED BY <3>1 DEF Row!Next
    <2>4. CASE UNCHANGED state /\ s = "completed"
      <3>1. Row!InitiateWriteLost(t)
        BY <2>2, <2>4 DEF Row!InitiateWriteLost
      <3> QED BY <3>1 DEF Row!Next
    <2>5. CASE UNCHANGED state /\ s # "completed"
      <3>1. triggers' = triggers
        BY <2>2, <2>5 DEF TypeOK
      <3> QED BY <2>2, <2>5, <3>1 DEF Row!rowVars
    <2> QED BY <1>6, <2>1, <2>3, <2>4, <2>5 DEF RecordAnswer
  <1>7. CASE PollerTimeout
    <2> DEFINE ts == {t \in Txns : state[t] \in Open /\ aged[t]}
    <2>1. Row!TimeOut(ts)
      BY <1>7 DEF PollerTimeout, Row!TimeOut, Open, Row!Open
    <2> QED BY <2>1 DEF Row!Next
  <1>8. CASE Crash
    BY <1>8 DEF Crash, Row!Restart, Row!Next
  <1> QED BY <1>1, <1>2, <1>3, <1>4, <1>5, <1>6, <1>7, <1>8, Writers

\* Whatever the races, the rows behave as PaymentRow says: everybody but
\* Initiate goes through the state machine's table, and each completion
\* stamps completed_at and spawns one fulfillment, or none when the answer of
\* its COMMIT is lost.
THEOREM LifecycleImplementsRow ==
    ASSUME Gateway # "ecocash"
    PROVE  Spec => ImplementsRow
  <1>1. Init => TypeOK /\ LifecycleInv /\ Row!Init
    BY TypeInit, InvInit DEF Init, Row!Init
  <1>2. TypeOK /\ LifecycleInv /\ [Next]_vars => (TypeOK /\ LifecycleInv)'
    BY TypeStep, InvStep
  <1>3. TypeOK /\ LifecycleInv /\ [Next]_vars => [Row!Next]_(Row!rowVars)
    BY RowStep
  <1> QED BY <1>1, <1>2, <1>3, PTL DEF Spec, ImplementsRow, Row!Spec

\* No step of PaymentRow revives a terminal row.
LEMMA RowKeepsTerminal ==
    ASSUME TypeOK, [Row!Next]_(Row!rowVars), NEW t \in Txns,
           state[t] \in Terminal, state'[t] # state[t]
    PROVE  CanTransition(state[t], state'[t])
  <1> USE DEF Terminal, TypeOK
  <1>1. ASSUME NEW u \in Txns, Row!Insert(u)
        PROVE  FALSE
    BY <1>1 DEF Row!Insert
  <1>2. ASSUME NEW u \in Txns, NEW to \in Row!States,
               Row!Transition(u, to) \/ Row!TransitionUnacknowledged(u, to)
        PROVE  CanTransition(state[t], state'[t])
    <2>1. state' = [state EXCEPT ![u] = to] /\ Row!CanTransition(state[u], to)
      BY <1>2 DEF Row!Transition, Row!TransitionUnacknowledged
    <2>2. u = t /\ state'[t] = to
      BY <2>1
    <2> QED BY <2>1, <2>2 DEF CanTransition, transitions, Row!CanTransition, Row!transitions
  <1>3. ASSUME NEW u \in Txns, NEW s \in Row!States,
               Row!InitiateWrite(u, s) \/ Row!InitiateWriteLost(u)
        PROVE  FALSE
    BY <1>3 DEF Row!InitiateWrite, Row!InitiateWriteLost
  <1>4. ASSUME NEW ts \in SUBSET Txns, Row!TimeOut(ts)
        PROVE  FALSE
    BY <1>4 DEF Row!TimeOut, Row!Open
  <1>5. CASE Row!Restart
    BY <1>5 DEF Row!Restart
  <1>6. CASE UNCHANGED Row!rowVars
    BY <1>6 DEF Row!rowVars
  <1>7. ASSUME NEW u \in Txns,
               \/ Row!Insert(u)
               \/ \E to \in Row!States :
                     Row!Transition(u, to) \/ Row!TransitionUnacknowledged(u, to)
               \/ \E s \in Row!States : Row!InitiateWrite(u, s)
               \/ Row!InitiateWriteLost(u)
        PROVE  CanTransition(state[t], state'[t])
    <2>1. CASE \E s \in Row!States : Row!InitiateWrite(u, s)
      BY <1>3, <2>1
    <2>2. CASE Row!InitiateWriteLost(u)
      <3>1. "failed" \in Row!States
        BY DEF Row!States
      <3> QED BY <1>3, <2>2, <3>1
    <2>3. CASE \E to \in Row!States :
                  Row!Transition(u, to) \/ Row!TransitionUnacknowledged(u, to)
      BY <1>2, <2>3
    <2> QED BY <1>1, <1>7, <2>1, <2>2, <2>3
  <1> QED BY <1>4, <1>5, <1>6, <1>7 DEF Row!Next

\* A terminal row is left only along the table: neither a stale reader nor
\* Initiate's unconditional UPDATE revives it.
THEOREM TerminalStays ==
    ASSUME Gateway # "ecocash"
    PROVE  Spec => TerminalRowsStay
  <1>1. Init => TypeOK /\ LifecycleInv
    BY TypeInit, InvInit
  <1>2. TypeOK /\ LifecycleInv /\ [Next]_vars => (TypeOK /\ LifecycleInv)'
    BY TypeStep, InvStep
  <1>3. TypeOK /\ LifecycleInv /\ [Next]_vars =>
           [\A t \in Txns : state[t] \in Terminal /\ state'[t] # state[t]
               => CanTransition(state[t], state'[t])]_vars
    BY RowStep, RowKeepsTerminal
  <1> QED BY <1>1, <1>2, <1>3, PTL DEF Spec, TerminalRowsStay

-----------------------------------------------------------------------------
(* The amount guard, for the gateways whose event type follows the state.  *)

\* Every step keeps completions behind ProcessWebhook's guard.
LEMMA GuardStep ==
    ASSUME Gateway # "paynow", TypeOK, GuardInv, [Next]_vars
    PROVE  GuardInv'
  <1>0. /\ \A ev \in inbox : GuardedEvent(ev)
        /\ \A h \in Handlers : handler[h] \in Tasks /\ GuardedTask(handler[h])
    BY DEF TypeOK, GuardInv
  <1>1. CASE UNCHANGED <<inbox, handler>>
    BY <1>1 DEF GuardInv, GuardedEvent, GuardedTask
  <1>2. ASSUME NEW t \in Txns, ChargeMovesOn(t)
        PROVE  GuardInv'
    <2>1. PICK c \in ChargeMoves(Gateway)[charge[t]] :
             \/ \E ev \in Notices(t, c) : inbox' = inbox \cup {ev}
             \/ UNCHANGED inbox
      BY <1>2 DEF ChargeMovesOn
    <2>2. c \in Charges
      BY MovesType DEF TypeOK
    <2>3. \A ev \in inbox' : GuardedEvent(ev)
      BY <1>0, <2>1, <2>2, NoticeType DEF GuardedEvent
    <2> QED BY <1>0, <1>2, <2>3 DEF ChargeMovesOn, GuardInv, GuardedEvent, GuardedTask
  \* One goroutine moves on to a guarded x.
  <1>3. ASSUME NEW h \in Handlers, NEW x, GuardedTask(x),
               handler' = [handler EXCEPT ![h] = x], UNCHANGED inbox
        PROVE  GuardInv'
    BY <1>0, <1>3 DEF GuardInv, GuardedEvent, GuardedTask, TypeOK
  <1>4. ASSUME NEW h \in Handlers, HandlerNext(h)
        PROVE  GuardInv'
    <2>1. UNCHANGED inbox
      BY <1>4 DEF HandlerNext, LookupByReference, LookupByFallback, ReadFallbackRow,
             ReplaySelect, ReplayInsert, WebhookTransition, BeginPoll, BeginCancel,
             AnswerPoll, PollTransition, CancelTransition
    <2>2. ASSUME Finish(h) PROVE GuardInv'
      BY <1>3, <2>1, <2>2 DEF Finish, GuardedTask, Idle, WebhookSteps
    <2>3. ASSUME NEW ev \in inbox, LookupByReference(h, ev)
          PROVE  GuardInv'
      <3> DEFINE x == [Idle EXCEPT !.pc = "looked", !.ev = ev, !.txn = ev.txn,
                                   !.seen = state[ev.txn]]
      <3>1. x.pc = "looked" /\ x.ev = ev
        BY DEF Idle
      <3>2. GuardedTask(x)
        BY <1>0, <3>1 DEF GuardedTask, GuardedEvent
      <3> QED BY <1>3, <2>1, <2>3, <3>2 DEF LookupByReference
    <2>4. ASSUME NEW ev \in inbox, LookupByFallback(h, ev)
          PROVE  GuardInv'
      <3>1. PICK t \in FallbackMatch(ev) :
               handler' = [handler EXCEPT ![h] = [Idle EXCEPT !.pc = "found", !.ev = ev, !.txn = t]]
        BY <2>4 DEF LookupByFallback
      <3> DEFINE x == [Idle EXCEPT !.pc = "found", !.ev = ev, !.txn = t]
      <3>2. x.pc = "found" /\ x.ev = ev
        BY DEF Idle
      <3>3. GuardedTask(x)
        BY <1>0, <3>2 DEF GuardedTask, GuardedEvent
      <3> QED BY <1>3, <2>1, <3>1, <3>3
    \* A goroutine that already holds its webhook moves on with it.
    <2>5. ASSUME NEW x, handler' = [handler EXCEPT ![h] = x],
                 handler[h].pc \in WebhookSteps, x.ev = handler[h].ev,
                 x.pc = "logged" => ~Held(handler[h].ev)
          PROVE  GuardInv'
      <3>1. GuardedTask(x)
        BY <1>0, <2>5 DEF GuardedTask, Held
      <3> QED BY <1>3, <2>1, <2>5, <3>1
    <2>6. CASE ReadFallbackRow(h)
      <3> DEFINE x == [handler[h] EXCEPT !.pc = "looked", !.seen = state[handler[h].txn]]
      <3>1. handler[h].pc = "found" /\ handler' = [handler EXCEPT ![h] = x]
        BY <2>6 DEF ReadFallbackRow
      <3>2. x.ev = handler[h].ev /\ x.pc = "looked"
        BY <1>0, <3>1 DEF Tasks, Idle, WebhookSteps, PollSteps
      <3> QED BY <2>5, <3>1, <3>2 DEF WebhookSteps
    <2>7. ASSUME NEW p \in {"unseen", "logged"}, Goto(h, p),
                 handler[h].pc \in WebhookSteps, p = "logged" => ~Held(handler[h].ev)
          PROVE  GuardInv'
      <3> DEFINE x == [handler[h] EXCEPT !.pc = p]
      <3>1. handler' = [handler EXCEPT ![h] = x]
        BY <2>7 DEF Goto
      <3>2. x.ev = handler[h].ev /\ x.pc = p
        BY <1>0, <2>7 DEF Tasks, Idle, WebhookSteps, PollSteps
      <3> QED BY <2>5, <2>7, <3>1, <3>2
    <2>8. CASE ReplaySelect(h) \/ ReplayInsert(h)
      BY <2>2, <2>7, <2>8 DEF ReplaySelect, ReplayInsert, AfterReplayCheck, WebhookSteps
    <2>9. ASSUME NEW t \in Txns, BeginPoll(h, t) \/ BeginCancel(h, t)
          PROVE  GuardInv'
      <3>1. PICK p \in PollSteps :
               handler' = [handler EXCEPT ![h] = [Idle EXCEPT !.pc = p, !.txn = t, !.seen = state[t]]]
        BY <2>9 DEF BeginPoll, BeginCancel, PollSteps
      <3> DEFINE x == [Idle EXCEPT !.pc = p, !.txn = t, !.seen = state[t]]
      <3>2. x.pc = p
        BY DEF Idle
      <3>3. GuardedTask(x)
        BY <3>2 DEF GuardedTask, WebhookSteps, PollSteps
      <3> QED BY <1>3, <2>1, <3>1, <3>3
    <2>10. CASE AnswerPoll(h)
      <3>1. /\ handler[h].pc = "poll_read"
            /\ \/ Finish(h)
               \/ \E u \in LookedUp(handler[h].txn) :
                     handler' = [handler EXCEPT ![h] =
                        [handler[h] EXCEPT !.pc = "poll_answered",
                                           !.to = StatusOf(Gateway)[charge[u]]]]
        BY <2>10 DEF AnswerPoll
      <3>2. ASSUME NEW to,
                   handler' = [handler EXCEPT ![h] =
                      [handler[h] EXCEPT !.pc = "poll_answered", !.to = to]]
            PROVE  GuardInv'
        <4> DEFINE x == [handler[h] EXCEPT !.pc = "poll_answered", !.to = to]
        <4>0. handler[h] \in Tasks
          BY <1>0
        <4>1. x.pc = "poll_answered"
          BY <3>1, <4>0 DEF Tasks, Idle, WebhookSteps, PollSteps
        <4>2. GuardedTask(x)
          BY <4>1 DEF GuardedTask, WebhookSteps
        <4> QED BY <1>3, <2>1, <3>2, <4>2
      <3> QED BY <2>2, <3>1, <3>2
    <2>11. CASE WebhookTransition(h) \/ PollTransition(h) \/ CancelTransition(h)
      BY <2>2, <2>11 DEF WebhookTransition, PollTransition, CancelTransition
    <2> QED BY <1>4, <2>3, <2>4, <2>6, <2>8, <2>9, <2>10, <2>11 DEF HandlerNext
  <1>5. ASSUME NEW t \in Txns, InitiateNext(t) \/ GrowOld(t)
        PROVE  UNCHANGED <<inbox, handler>>
    BY <1>5 DEF InitiateNext, InsertRow, CallGateway, RecordRefusal, RecordAnswer, GrowOld
  <1>6. CASE PollerNext
    BY <1>1, <1>6 DEF PollerNext, PollerQuery, PollerAsk, PollerTransition,
       PollerTimeout, PollerTimeoutFails
  <1>7. CASE Crash
    BY <1>0, <1>7 DEF Crash, GuardInv, GuardedEvent, GuardedTask, Idle, WebhookSteps
  <1>8. CASE UNCHANGED vars
    BY <1>1, <1>8 DEF vars
  <1> QED BY <1>1, <1>2, <1>4, <1>5, <1>6, <1>7, <1>8 DEF Next, RequestNext

\* At EcoCash and the mock, whatever row a webhook is matched to, no
\* completion with a differing amount gets past ProcessWebhook's guard.
THEOREM CompletionsGuarded ==
    ASSUME Gateway # "paynow"
    PROVE  Spec => []CompletedEventsAreGuarded
  <1>1. Init => TypeOK /\ GuardInv
    BY TypeInit DEF Init, GuardInv, GuardedTask, Idle, WebhookSteps
  <1>2. TypeOK /\ GuardInv /\ [Next]_vars => (TypeOK /\ GuardInv)'
    BY TypeStep, GuardStep
  <1>3. GuardInv => CompletedEventsAreGuarded
    BY DEF GuardInv, GuardedTask, CompletedEventsAreGuarded, WebhookSteps
  <1> QED BY <1>1, <1>2, <1>3, PTL DEF Spec
-----------------------------------------------------------------------------
(* Completions need a capture, for every gateway.                          *)

\* Charges of requests still to be sent are untouched, paid ones stay paid.
LEMMA PaidStays ==
    ASSUME TypeOK, CaptureInv, [Next]_vars
    PROVE  \A u \in Txns :
              /\ (initiator[u] \in {"new", "inserted"} => charge[u] = "none")'
              /\ Paid(u) => Paid(u)'
  <1> SUFFICES ASSUME NEW u \in Txns
               PROVE  /\ (initiator[u] \in {"new", "inserted"} => charge[u] = "none")'
                      /\ Paid(u) => Paid(u)'
    OBVIOUS
  <1>0. initiator[u] \in {"new", "inserted"} => charge[u] = "none"
    BY DEF CaptureInv
  <1>1. ASSUME NEW t \in Txns, CallGateway(t)
        PROVE  /\ (initiator[u] \in {"new", "inserted"} => charge[u] = "none")'
               /\ Paid(u) => Paid(u)'
    <2>1. PICK r \in InitiateResults(Gateway) :
             /\ initiator' = [initiator EXCEPT ![t] = r[1]]
             /\ charge' = [charge EXCEPT ![t] = r[2]]
      BY <1>1 DEF CallGateway
    <2>2. r[1] \in {"error", "pending", "completed", "failed"} /\ initiator[t] = "inserted"
      BY <1>1, InitiateType DEF CallGateway
    <2>3. CASE u = t
      BY <1>0, <2>1, <2>2, <2>3 DEF Paid, TypeOK
    <2>4. CASE u # t
      BY <1>0, <2>1, <2>4 DEF Paid, TypeOK
    <2> QED BY <2>3, <2>4
  <1>2. ASSUME NEW t \in Txns, ChargeMovesOn(t)
        PROVE  /\ (initiator[u] \in {"new", "inserted"} => charge[u] = "none")'
               /\ Paid(u) => Paid(u)'
    <2>1. PICK c \in ChargeMoves(Gateway)[charge[t]] :
             charge' = [charge EXCEPT ![t] = c] /\ initiator' = initiator
      BY <1>2 DEF ChargeMovesOn
    <2>2. charge[t] \in Charges /\ charge[t] # "none"
      BY <2>1 DEF TypeOK, ChargeMoves
    <2>3. charge[t] \in {"captured", "reversed"} => c \in {"captured", "reversed"}
      BY <2>2, MovesType
    <2>4. CASE u = t
      BY <1>0, <2>1, <2>2, <2>3, <2>4 DEF Paid, TypeOK
    <2>5. CASE u # t
      BY <1>0, <2>1, <2>5 DEF Paid, TypeOK
    <2> QED BY <2>4, <2>5
  <1>3. ASSUME NEW t \in Txns, InsertRow(t) \/ RecordRefusal(t) \/ RecordAnswer(t)
        PROVE  /\ (initiator[u] \in {"new", "inserted"} => charge[u] = "none")'
               /\ Paid(u) => Paid(u)'
    BY <1>0, <1>3 DEF InsertRow, RecordRefusal, RecordAnswer, Paid, TypeOK
  <1>4. CASE Crash
    BY <1>0, <1>4 DEF Crash, Paid
  <1>5. ASSUME UNCHANGED <<charge, initiator>>
        PROVE  /\ (initiator[u] \in {"new", "inserted"} => charge[u] = "none")'
               /\ Paid(u) => Paid(u)'
    BY <1>0, <1>5 DEF Paid
  <1>6. ASSUME NEW h \in Handlers, HandlerNext(h)
        PROVE  UNCHANGED <<charge, initiator>>
    BY <1>6 DEF HandlerNext, LookupByReference, LookupByFallback, ReadFallbackRow,
       ReplaySelect, ReplayInsert, WebhookTransition, BeginPoll, BeginCancel,
       AnswerPoll, PollTransition, CancelTransition
  <1>7. PollerNext => UNCHANGED <<charge, initiator>>
    BY DEF PollerNext, PollerQuery, PollerAsk, PollerTransition, PollerTimeout,
       PollerTimeoutFails
  <1>8. ASSUME NEW t \in Txns, GrowOld(t)
        PROVE  UNCHANGED <<charge, initiator>>
    BY <1>8 DEF GrowOld
  <1>9. UNCHANGED vars => UNCHANGED <<charge, initiator>>
    BY DEF vars
  <1> QED BY <1>1, <1>2, <1>3, <1>4, <1>5, <1>6, <1>7, <1>8, <1>9
          DEF Next, RequestNext, InitiateNext

\* What anybody rests a completion on stays true.
LEMMA FollowsStay ==
    ASSUME \A u \in Txns : Paid(u) => Paid(u)'
    PROVE  /\ \A t \in Txns : Follows(t) => Follows(t)'
           /\ \A ev \in Events : SoundEvent(ev) => SoundEvent(ev)'
           /\ \A x \in Tasks : FollowTask(x) => FollowTask(x)'
           /\ \A x \in Runs : FollowRun(x) => FollowRun(x)'
  <1>1. ASSUME NEW t \in Txns, Follows(t)
        PROVE  Follows(t)'
    BY <1>1 DEF Follows, Confusable
  <1>2. ASSUME NEW ev \in Events, SoundEvent(ev)
        PROVE  SoundEvent(ev)'
    BY <1>2 DEF SoundEvent, Events
  <1>3. ASSUME NEW x \in Tasks, FollowTask(x)
        PROVE  FollowTask(x)'
    <2>1. /\ x.pc # "idle" => x.txn \in Txns
          /\ x.pc \in WebhookSteps => x.ev \in Events
      BY TaskType
    <2>2. x.pc = "poll_answered" /\ x.to = "completed" => Follows(x.txn)'
      BY <1>1, <1>3, <2>1 DEF FollowTask
    <2>3. x.pc \in WebhookSteps => SoundEvent(x.ev)'
      BY <1>2, <1>3, <2>1 DEF FollowTask
    <2> QED BY <1>3, <2>2, <2>3 DEF FollowTask, Confusable
  <1>4. ASSUME NEW x \in Runs, FollowRun(x)
        PROVE  FollowRun(x)'
    BY <1>1, <1>4, RunType DEF FollowRun
  <1> QED BY <1>1, <1>2, <1>3, <1>4

\* A transition to `completed` by somebody who has it from a capture.
LEMMA TransitionFollows ==
    ASSUME TypeOK, NEW t \in Txns, NEW from, NEW to, to = "completed" => Follows(t),
           Transition(t, from, to), NEW u \in Txns, state'[u] = "completed"
    PROVE  state[u] = "completed" \/ Follows(u)
  BY DEF Transition, rowVars, TypeOK

\* One goroutine moves on to x, and perhaps completes a row it may complete.
LEMMA HandlerFollows ==
    ASSUME TypeOK, CaptureInv, NEW h \in Handlers, NEW x, FollowTask(x),
           handler' = [handler EXCEPT ![h] = x],
           UNCHANGED <<initiator, charge, inbox, poller>>,
           \A u \in Txns : state'[u] = "completed" => state[u] = "completed" \/ Follows(u)
    PROVE  CaptureInv'
  <1>1. /\ \A t \in Txns : Follows(t) <=> Follows(t)'
        /\ \A ev : SoundEvent(ev) <=> SoundEvent(ev)'
        /\ \A y : FollowTask(y) => FollowTask(y)'
        /\ \A y : FollowRun(y) => FollowRun(y)'
    BY DEF Follows, Confusable, Paid, SoundEvent, FollowTask, FollowRun
  <1>2. \A t \in Txns : /\ (initiator[t] \in {"new", "inserted"} => charge[t] = "none")'
                        /\ (state[t] = "completed" \/ initiator[t] = "completed"
                               => Follows(t))'
    BY <1>1 DEF CaptureInv
  <1>3. \A ev \in inbox' : SoundEvent(ev)'
    BY <1>1 DEF CaptureInv
  <1>4. \A g \in Handlers : FollowTask(handler[g])'
    <2> SUFFICES ASSUME NEW g \in Handlers PROVE FollowTask(handler[g])'
      OBVIOUS
    <2>1. PICK y : y = handler'[g] /\ FollowTask(y)
      BY DEF TypeOK, CaptureInv
    <2> QED BY <1>1, <2>1 DEF FollowTask, Follows, Confusable, SoundEvent, Paid
  <1>5. FollowRun(poller)'
    <2>1. PICK y : y = poller /\ FollowRun(y)
      BY DEF CaptureInv
    <2> QED BY <1>1, <2>1 DEF FollowRun, Follows, Confusable, Paid
  <1> QED BY <1>2, <1>3, <1>4, <1>5 DEF CaptureInv

\* So do the steps of a request goroutine: the fallback names no row the
\* event's could not be taken for ...
LEMMA HandlerCapture ==
    ASSUME TypeOK, CaptureInv, NEW h \in Handlers, HandlerNext(h)
    PROVE  CaptureInv'
  <1>1. /\ handler[h] \in Tasks /\ FollowTask(handler[h])
        /\ UNCHANGED <<initiator, charge, inbox, poller>>
    BY DEF TypeOK, CaptureInv, HandlerNext, LookupByReference, LookupByFallback,
           ReadFallbackRow, ReplaySelect, ReplayInsert, WebhookTransition, BeginPoll,
           BeginCancel, AnswerPoll, PollTransition, CancelTransition
  \* A step that writes no row ...
  <1>2. ASSUME NEW x, FollowTask(x), handler' = [handler EXCEPT ![h] = x], UNCHANGED state
        PROVE  CaptureInv'
    BY <1>1, <1>2, HandlerFollows
  <1>0. FollowTask(Idle)
    BY DEF FollowTask, Idle, WebhookSteps
  <1>3. ASSUME Finish(h), UNCHANGED state
        PROVE  CaptureInv'
    BY <1>0, <1>2, <1>3 DEF Finish
  <1>4. ASSUME handler[h].pc \in WebhookSteps, NEW p \in {"unseen", "logged"}, Goto(h, p),
               UNCHANGED state
        PROVE  CaptureInv'
    <2> DEFINE x == [handler[h] EXCEPT !.pc = p]
    <2>1. handler' = [handler EXCEPT ![h] = x]
      BY <1>4 DEF Goto
    <2>2. x.pc = p /\ x.ev = handler[h].ev /\ x.txn = handler[h].txn
      BY <1>1, <1>4 DEF Tasks, Idle, WebhookSteps, PollSteps
    <2>3. FollowTask(x)
      BY <1>1, <1>4, <2>2 DEF FollowTask, WebhookSteps
    <2> QED BY <1>2, <1>4, <2>1, <2>3
  \* ... and one that transitions the row it holds.
  <1>5. ASSUME NEW from, NEW to, handler[h].pc # "idle", Finish(h),
               to = "completed" => Follows(handler[h].txn),
               Transition(handler[h].txn, from, to)
        PROVE  CaptureInv'
    <2>1. handler[h].txn \in Txns
      BY <1>1, <1>5, TaskType
    <2>2. \A u \in Txns : state'[u] = "completed" => state[u] = "completed" \/ Follows(u)
      BY <1>5, <2>1, TransitionFollows
    <2> QED BY <1>0, <1>1, <1>5, <2>2, HandlerFollows DEF Finish
  <1>6. ASSUME NEW ev \in inbox, LookupByReference(h, ev)
        PROVE  CaptureInv'
    <2> DEFINE x == [Idle EXCEPT !.pc = "looked", !.ev = ev, !.txn = ev.txn,
                                 !.seen = state[ev.txn]]
    <2>1. handler' = [handler EXCEPT ![h] = x] /\ UNCHANGED state
      BY <1>6 DEF LookupByReference
    <2>2. x.pc = "looked" /\ x.ev = ev /\ x.txn = ev.txn /\ SoundEvent(ev)
      BY DEF Idle, CaptureInv
    <2>3. FollowTask(x)
      BY <2>2 DEF FollowTask, Confusable
    <2> QED BY <1>2, <2>1, <2>3
  <1>7. ASSUME NEW ev \in inbox, LookupByFallback(h, ev)
        PROVE  CaptureInv'
    <2>1. PICK t \in FallbackMatch(ev) :
             handler' = [handler EXCEPT ![h] = [Idle EXCEPT !.pc = "found", !.ev = ev, !.txn = t]]
      BY <1>7 DEF LookupByFallback
    <2>2. Confusable(t, ev.txn) /\ SoundEvent(ev) /\ UNCHANGED state
      BY <1>7, FallbackType DEF LookupByFallback, CaptureInv, TypeOK
    <2> DEFINE x == [Idle EXCEPT !.pc = "found", !.ev = ev, !.txn = t]
    <2>3. x.pc = "found" /\ x.ev = ev /\ x.txn = t
      BY DEF Idle
    <2>4. FollowTask(x)
      BY <2>2, <2>3 DEF FollowTask
    <2> QED BY <1>2, <2>1, <2>2, <2>4
  <1>8. CASE ReadFallbackRow(h)
    <2> DEFINE x == [handler[h] EXCEPT !.pc = "looked", !.seen = state[handler[h].txn]]
    <2>1. /\ handler[h].pc = "found" /\ handler' = [handler EXCEPT ![h] = x]
          /\ UNCHANGED state
      BY <1>8 DEF ReadFallbackRow
    <2>2. x.ev = handler[h].ev /\ x.pc = "looked" /\ x.txn = handler[h].txn
      BY <1>1, <2>1 DEF Tasks, Idle, WebhookSteps, PollSteps
    <2>3. FollowTask(x)
      BY <1>1, <2>1, <2>2 DEF FollowTask, WebhookSteps
    <2> QED BY <1>2, <2>1, <2>3
  <1>9. CASE ReplaySelect(h) \/ ReplayInsert(h)
    BY <1>3, <1>4, <1>9 DEF ReplaySelect, ReplayInsert, AfterReplayCheck, WebhookSteps
  <1>10. ASSUME NEW t \in Txns, BeginPoll(h, t) \/ BeginCancel(h, t)
         PROVE  CaptureInv'
    <2>1. PICK p \in {"poll_read", "cancel_read"} :
             handler' = [handler EXCEPT ![h] = [Idle EXCEPT !.pc = p, !.txn = t, !.seen = state[t]]]
      BY <1>10 DEF BeginPoll, BeginCancel
    <2> DEFINE x == [Idle EXCEPT !.pc = p, !.txn = t, !.seen = state[t]]
    <2>2. x.pc = p /\ UNCHANGED state
      BY <1>10 DEF Idle, BeginPoll, BeginCancel
    <2>3. FollowTask(x)
      BY <2>2 DEF FollowTask, WebhookSteps
    <2> QED BY <1>2, <2>1, <2>2, <2>3
  <1>11. CASE AnswerPoll(h)
    <2> DEFINE t == handler[h].txn
    <2>1. /\ handler[h].pc = "poll_read" /\ t \in Txns /\ UNCHANGED state
          /\ \/ Finish(h)
             \/ \E u \in LookedUp(t) :
                   handler' = [handler EXCEPT ![h] =
                      [handler[h] EXCEPT !.pc = "poll_answered",
                                         !.to = StatusOf(Gateway)[charge[u]]]]
      BY <1>1, <1>11, TaskType DEF AnswerPoll
    <2>2. ASSUME NEW u \in LookedUp(t), NEW to, to = StatusOf(Gateway)[charge[u]],
                 handler' = [handler EXCEPT ![h] =
                    [handler[h] EXCEPT !.pc = "poll_answered", !.to = to]]
          PROVE  CaptureInv'
      <3> DEFINE x == [handler[h] EXCEPT !.pc = "poll_answered", !.to = to]
      <3>1. x.pc = "poll_answered" /\ x.txn = t /\ x.to = to
        BY <1>1, <2>1 DEF Tasks, Idle, WebhookSteps, PollSteps
      <3>2. to = "completed" => Follows(t)
        BY <2>1, <2>2, AnswerType DEF Follows
      <3>3. FollowTask(x)
        <4> HIDE DEF x, t
        <4> QED BY <3>1, <3>2 DEF FollowTask, WebhookSteps
      <3> QED BY <1>2, <2>1, <2>2, <3>3
    <2> QED BY <1>3, <2>1, <2>2
  <1>12. CASE WebhookTransition(h)
    <2>1. /\ handler[h].pc = "logged" /\ handler[h].txn \in Txns
          /\ handler[h].ev \in Events
      BY <1>1, <1>12, TaskType DEF WebhookTransition, WebhookSteps
    <2>2. handler[h].ev.state = "completed" => Follows(handler[h].txn)
      BY <1>1, <2>1 DEF FollowTask, WebhookSteps, SoundEvent, Follows, Events
    <2> QED BY <1>5, <1>12, <2>1, <2>2 DEF WebhookTransition
  <1>13. CASE PollTransition(h)
    BY <1>1, <1>5, <1>13 DEF PollTransition, FollowTask
  <1>14. CASE CancelTransition(h)
    BY <1>5, <1>14 DEF CancelTransition
  <1> QED BY <1>6, <1>7, <1>8, <1>9, <1>10, <1>11, <1>12, <1>13, <1>14 DEF HandlerNext

\* ... the poller's ...
LEMMA PollerCapture ==
    ASSUME TypeOK, CaptureInv, PollerNext
    PROVE  CaptureInv'
  <1>1. /\ UNCHANGED <<initiator, charge, inbox, handler>>
        /\ poller \in Runs /\ FollowRun(poller)
    BY DEF CaptureInv, TypeOK, PollerNext, PollerQuery, PollerAsk, PollerTransition,
           PollerTimeout, PollerTimeoutFails
  <1>2. ASSUME \A u \in Txns : state'[u] = "completed" => state[u] = "completed" \/ Follows(u),
               NEW x, poller' = x, FollowRun(x)
        PROVE  CaptureInv'
    <2>1. /\ \A t \in Txns : Follows(t) <=> Follows(t)'
          /\ \A ev : SoundEvent(ev) <=> SoundEvent(ev)'
      BY <1>1 DEF Follows, Confusable, Paid, SoundEvent
    <2>2. FollowRun(poller)'
      BY <1>1, <1>2 DEF FollowRun, Follows, Confusable, Paid
    <2>3. \A g \in Handlers : FollowTask(handler[g])'
      BY <1>1 DEF CaptureInv, FollowTask, Follows, Confusable, SoundEvent, Paid
    <2>4. \A t \in Txns : /\ (initiator[t] \in {"new", "inserted"} => charge[t] = "none")'
                          /\ (state[t] = "completed" \/ initiator[t] = "completed"
                                 => Follows(t))'
      BY <1>1, <1>2, <2>1 DEF CaptureInv
    <2>5. \A ev \in inbox' : SoundEvent(ev)'
      BY <1>1, <2>1 DEF CaptureInv
    <2> QED BY <2>2, <2>3, <2>4, <2>5 DEF CaptureInv
  <1>3. CASE PollerQuery
    <2>1. PICK due \in SUBSET Txns :
             poller' = [poller EXCEPT !.pc = "polling",
                                      !.batch = {<<t, state[t]>> : t \in due}]
      BY <1>3 DEF PollerQuery
    <2>2. poller'.pc = "polling" /\ UNCHANGED state
      BY <1>1, <1>3, <2>1 DEF PollerQuery, Runs
    <2> QED BY <1>2, <2>2 DEF FollowRun
  <1>4. CASE PollerAsk
    <2>1. PICK item \in poller.batch :
             \/ \E u \in LookedUp(item[1]) :
                   poller' = [pc |-> "answered", batch |-> poller.batch \ {item},
                              txn |-> item[1], seen |-> item[2],
                              to |-> StatusOf(Gateway)[charge[u]]]
             \/ poller' = [poller EXCEPT !.batch = poller.batch \ {item}]
      BY <1>4 DEF PollerAsk
    <2>2. poller.pc = "polling" /\ UNCHANGED state
      BY <1>4 DEF PollerAsk
    <2>3. item[1] \in Txns
      BY <1>1, RunType
    <2>4. ASSUME NEW u \in LookedUp(item[1]), NEW to, to = StatusOf(Gateway)[charge[u]],
                 poller' = [pc |-> "answered", batch |-> poller.batch \ {item},
                            txn |-> item[1], seen |-> item[2], to |-> to]
          PROVE  CaptureInv'
      <3>1. to = "completed" => Follows(item[1])
        BY <2>3, <2>4, AnswerType DEF Follows
      <3>2. FollowRun(poller')
        BY <2>4, <3>1 DEF FollowRun
      <3> QED BY <1>2, <2>2, <3>2
    <2>5. CASE poller' = [poller EXCEPT !.batch = poller.batch \ {item}]
      <3>1. poller'.pc = "polling"
        BY <1>1, <2>2, <2>5 DEF Runs
      <3> QED BY <1>2, <2>2, <3>1 DEF FollowRun
    <2> QED BY <2>1, <2>4, <2>5
  <1>5. CASE PollerTransition
    <2>1. poller.txn \in Txns /\ (poller.to = "completed" => Follows(poller.txn))
      BY <1>1, <1>5, RunType DEF PollerTransition, FollowRun
    <2>2. \A u \in Txns : state'[u] = "completed" => state[u] = "completed" \/ Follows(u)
      BY <1>5, <2>1, TransitionFollows DEF PollerTransition
    <2>3. poller'.pc = "polling"
      BY <1>5 DEF PollerTransition, Waiting
    <2> QED BY <1>2, <2>2, <2>3 DEF FollowRun
  <1>6. CASE PollerTimeout \/ PollerTimeoutFails
    BY <1>2, <1>6 DEF PollerTimeout, PollerTimeoutFails, Waiting, FollowRun
  <1> QED BY <1>3, <1>4, <1>5, <1>6 DEF PollerNext

\* ... and everybody else's: whoever comes to hold a completion has it from
\* a capture.
LEMMA CaptureStep ==
    ASSUME TypeOK, CaptureInv, [Next]_vars
    PROVE  CaptureInv'
  <1>1. /\ \A u \in Txns : (initiator[u] \in {"new", "inserted"} => charge[u] = "none")'
        /\ \A u \in Txns : Paid(u) => Paid(u)'
    BY PaidStays
  <1>2. /\ \A t \in Txns : Follows(t) => Follows(t)'
        /\ \A ev \in inbox : SoundEvent(ev)'
    BY <1>1, FollowsStay DEF CaptureInv, TypeOK
  \* Nobody else's local state moves.
  <1>3. ASSUME UNCHANGED <<handler, poller>>,
               \A u \in Txns : (state[u] = "completed" \/ initiator[u] = "completed")'
                  => state[u] = "completed" \/ initiator[u] = "completed" \/ Follows(u)',
               \A ev \in inbox' : ev \in inbox \/ SoundEvent(ev)'
        PROVE  CaptureInv'
    <2>1. \A g \in Handlers : FollowTask(handler[g])'
      <3> SUFFICES ASSUME NEW g \in Handlers PROVE FollowTask(handler[g])'
        OBVIOUS
      <3>1. PICK y \in Tasks : y = handler[g] /\ FollowTask(y)
        BY DEF TypeOK, CaptureInv
      <3>2. FollowTask(y)'
        BY <1>1, <3>1, FollowsStay
      <3> QED BY <1>3, <3>1, <3>2 DEF FollowTask, Follows, Confusable, SoundEvent, Paid
    <2>2. FollowRun(poller)'
      <3>1. PICK y \in Runs : y = poller /\ FollowRun(y)
        BY DEF TypeOK, CaptureInv
      <3>2. FollowRun(y)'
        BY <1>1, <3>1, FollowsStay
      <3> QED BY <1>3, <3>1, <3>2 DEF FollowRun, Follows, Confusable, Paid
    <2>3. \A u \in Txns : (state[u] = "completed" \/ initiator[u] = "completed")' => Follows(u)'
      BY <1>2, <1>3 DEF CaptureInv
    <2>4. \A ev \in inbox' : SoundEvent(ev)'
      BY <1>2, <1>3
    <2> QED BY <1>1, <2>1, <2>2, <2>3, <2>4 DEF CaptureInv
  <1>4. ASSUME NEW t \in Txns, CallGateway(t)
        PROVE  CaptureInv'
    <2>1. PICK r \in InitiateResults(Gateway) :
             /\ initiator' = [initiator EXCEPT ![t] = r[1]]
             /\ charge' = [charge EXCEPT ![t] = r[2]]
      BY <1>4 DEF CallGateway
    <2>2. r[1] = "completed" => Follows(t)'
      <3>1. r[1] = "completed" => Paid(t)'
        BY <2>1, InitiateType DEF Paid, TypeOK
      <3> QED BY <3>1 DEF Follows, Confusable
    <2>3. \A u \in Txns : initiator'[u] = "completed" => initiator[u] = "completed" \/ Follows(u)'
      BY <2>1, <2>2 DEF TypeOK
    <2> QED BY <1>3, <1>4, <2>3 DEF CallGateway
  <1>5. ASSUME NEW t \in Txns, ChargeMovesOn(t)
        PROVE  CaptureInv'
    <2>1. PICK c \in ChargeMoves(Gateway)[charge[t]] :
             /\ charge' = [charge EXCEPT ![t] = c]
             /\ \/ \E ev \in Notices(t, c) : inbox' = inbox \cup {ev}
                \/ UNCHANGED inbox
      BY <1>5 DEF ChargeMovesOn
    <2>2. c \in Charges
      BY MovesType DEF TypeOK
    <2>3. ASSUME NEW ev \in Notices(t, c) PROVE SoundEvent(ev)'
      BY <2>1, <2>2, NoticeType DEF SoundEvent, Paid, TypeOK
    <2> QED BY <1>3, <1>5, <2>1, <2>3 DEF ChargeMovesOn
  <1>6. ASSUME NEW t \in Txns, InsertRow(t) \/ RecordRefusal(t)
        PROVE  CaptureInv'
    <2>1. \A u \in Txns : (state[u] = "completed" \/ initiator[u] = "completed")'
                             => state[u] = "completed" \/ initiator[u] = "completed"
      BY <1>6 DEF InsertRow, RecordRefusal, TypeOK
    <2> QED BY <1>3, <1>6, <2>1 DEF InsertRow, RecordRefusal
  <1>7. ASSUME NEW t \in Txns, RecordAnswer(t)
        PROVE  CaptureInv'
    <2>1. \A u \in Txns : (state[u] = "completed" \/ initiator[u] = "completed")'
                             => state[u] = "completed" \/ initiator[u] = "completed"
      BY <1>7 DEF RecordAnswer, TypeOK
    <2> QED BY <1>3, <1>7, <2>1 DEF RecordAnswer
  <1>8. ASSUME NEW t \in Txns, GrowOld(t)
        PROVE  CaptureInv'
    BY <1>3, <1>8 DEF GrowOld
  <1>9. CASE Crash
    <2>1. /\ \A h \in Handlers : FollowTask(handler[h])'
          /\ FollowRun(poller)'
      BY <1>9 DEF Crash, FollowTask, FollowRun, Idle, Waiting, WebhookSteps
    <2>2. \A u \in Txns : (state[u] = "completed" \/ initiator[u] = "completed")'
                             => state[u] = "completed"
      BY <1>9 DEF Crash
    <2>3. \A u \in Txns : (state[u] = "completed" \/ initiator[u] = "completed")' => Follows(u)'
      BY <1>2, <2>2 DEF CaptureInv
    <2> QED BY <1>1, <1>2, <1>9, <2>1, <2>3 DEF Crash, CaptureInv
  <1>10. CASE UNCHANGED vars
    BY <1>3, <1>10 DEF vars
  <1> QED BY <1>4, <1>5, <1>6, <1>7, <1>8, <1>9, <1>10, HandlerCapture, PollerCapture
          DEF Next, RequestNext, InitiateNext

\* The invariant holds before the first request.
LEMMA CaptureInit == Init => CaptureInv
  BY DEF Init, CaptureInv, FollowTask, FollowRun, Idle, Waiting, WebhookSteps

\* At every gateway, EcoCash's fallback included, and with any number of
\* payments, phones and correlators: a row is `completed` only when its
\* charge, or that of a payment it can be taken for, was captured.
THEOREM CompletionsFollow == Spec => []CompletionsFollowCaptures
  <1>1. CaptureInv => CompletionsFollowCaptures
    BY DEF CaptureInv, CompletionsFollowCaptures, Follows
  <1> QED BY <1>1, TypeInit, TypeStep, CaptureInit, CaptureStep, PTL DEF Spec

\* So where no two payments share a phone or a correlator, EcoCash is as safe
\* as the gateways matched by reference: a row is completed only when its own
\* charge was captured.
THEOREM UnsharedPaymentIsCaptured ==
    ASSUME \A t, u \in Txns :
              PhoneOf[t] = PhoneOf[u] \/ CorrelatorOf[t] = CorrelatorOf[u] => t = u
    PROVE  Spec => []CompletedMeansCaptured
  <1>1. CompletionsFollowCaptures => CompletedMeansCaptured
    BY DEF CompletionsFollowCaptures, Confusable, CompletedMeansCaptured
  <1> QED BY <1>1, CompletionsFollow, PTL
=============================================================================
