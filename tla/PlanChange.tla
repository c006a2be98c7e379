----------------------------- MODULE PlanChange -----------------------------
(***************************************************************************)
(* Subscriptions and changes of their plan: the quote, the payment of a    *)
(* change and its fulfillment, the change that costs nothing, the purchase *)
(* of another subscription, the RADIUS group and the speeds of the live    *)
(* session.  One customer, whose subscriptions share a RADIUS username.    *)
(*                                                                         *)
(* Amounts are minor units.  The claim, the goroutines and the marker are  *)
(* those of Fulfillment; here they are as short as the plan allows.        *)
(***************************************************************************)
EXTENDS Integers, Sequences, FiniteSets

CONSTANTS
    Subs, Plans, Txns,
    Jobs,         \* slots for running triggerFulfillment goroutines
    Requests,     \* slots for running ApplyFreeAdjustment requests
    NoPlan, NoSub, NoTxn,
    Price,        \* price_minor
    Period,       \* billing_period_days, 0 when unset
    Lossy,        \* amounts a for which int64((a / 100.0) * 100) is a - 1
    MaxChanges,   \* bound: rows of subscriptions_subscriptionadjustment
    MaxFailures,  \* bound: statements, commits and pushes that fail, claims that
                  \* go with their connection, crashes
    MaxRunning    \* bound: goroutines and requests that run at a time

ASSUME PlanChangeAssumption ==
    /\ NoPlan \notin Plans /\ NoSub \notin Subs /\ NoTxn \notin Txns
    /\ IsFiniteSet(Subs) /\ Subs # {}
    /\ Jobs \intersect Requests = {}
    /\ Price \in [Plans -> Nat \ {0}] /\ Period \in [Plans -> Nat]
    /\ Lossy \subseteq Nat \ {0, 1}
    /\ MaxChanges \in Nat /\ MaxFailures \in Nat /\ MaxRunning \in Nat

VARIABLES
    sub,        \* rows of subscriptions_subscription
    onSale,     \* plans with is_active
    txn,        \* payment rows, and the quote the customer app keeps for each
    spawned,    \* goroutines spawned for a captured payment and not started
    worker,     \* local state of each job and request
    audit,      \* rows of subscriptions_subscriptionadjustment
    group,      \* the plan of the username's radusergroup and radreply rows
    live,       \* the plan whose speeds the live session has, or NoPlan
    disturbed,  \* something lawful came between the live session and `group`
    failures, lockLosses

vars == <<sub, onSale, txn, spawned, worker, audit, group, live, disturbed,
          failures, lockLosses>>

fulfillmentMaxAttempts == 3

Absent == [status |-> "absent", plan |-> NoPlan, term |-> 0, left |-> 0, by |-> NoTxn]
NoPayment == [state |-> "none", kind |-> "subscription", sub |-> NoSub,
              plan |-> NoPlan, from |-> NoPlan, net |-> 0, amount |-> 0,
              flaw |-> "none", marker |-> FALSE, refusal |-> "none"]
Flaws == {"none", "contact", "padded"}
Idle == [pc |-> "idle", txn |-> NoTxn, sub |-> NoSub, plan |-> NoPlan, attempt |-> 0]

TypeOK ==
    /\ sub \in [Subs -> [status: {"absent", "active", "expired"},
                         plan: Plans \cup {NoPlan}, term: Nat, left: Nat,
                         by: Txns \cup {NoTxn}]]
    /\ \A s \in Subs : sub[s].status # "absent" => sub[s].left < sub[s].term
    /\ onSale \subseteq Plans
    /\ txn \in [Txns -> [state: {"none", "quoted", "pending", "completed"},
                         kind: {"subscription", "subscription_adjustment"},
                         sub: Subs \cup {NoSub}, plan: Plans \cup {NoPlan},
                         from: Plans \cup {NoPlan}, net: Nat, amount: Nat,
                         flaw: Flaws, marker: BOOLEAN,
                         refusal: {"none", "underpaid", "other"}]]
    /\ spawned \in [Txns -> 0..1]
    /\ worker \in [Jobs \cup Requests ->
                     [pc: {"idle", "claiming", "claimed", "strayed", "checked", "coa", "push"},
                      txn: Txns \cup {NoTxn}, sub: Subs \cup {NoSub},
                      plan: Plans \cup {NoPlan}, attempt: 0..fulfillmentMaxAttempts]]
    /\ audit \in Seq([sub: Subs, txn: Txns \cup {NoTxn}, net: Nat])
    /\ Len(audit) <= MaxChanges
    /\ group \in Plans \cup {NoPlan} /\ live \in Plans \cup {NoPlan}
    /\ disturbed \in BOOLEAN /\ failures \in 0..MaxFailures
    /\ lockLosses \in Nat

-----------------------------------------------------------------------------
(* Money and days.                                                         *)

\* DECIMAL amount to float64 to int64: truncated, so that some lose a unit.
Cents(a) == IF a \in Lossy THEN a - 1 ELSE a

\* ComputeProration and math.Round: the difference of the prices for the days
\* left, never negative, halves away from zero.
RoundedNet(old, new, billingDays, daysRemaining) ==
    LET days == IF billingDays <= 0 THEN 30 ELSE billingDays
        due == (Price[new] - Price[old]) * daysRemaining
    IN  IF due <= 0 THEN 0 ELSE (2 * due + days) \div (2 * days)

\* The quote takes the subscription's own length as the billing period.
QuoteNet(s, p) == RoundedNet(sub[s].plan, p, sub[s].term, sub[s].left)

\* Mutant: a day that has begun counts.
GuardNetBegun(s, p) ==
    RoundedNet(sub[s].plan, p, IF Period[p] > 0 THEN Period[p] ELSE sub[s].term,
               sub[s].left + 1)

\* The fulfillment prefers the new plan's period.
GuardNet(s, p) ==
    RoundedNet(sub[s].plan, p, IF Period[p] > 0 THEN Period[p] ELSE sub[s].term,
               sub[s].left)

\* Mutant: the day that has begun counts as a whole one.
FreshWhole(p, t) ==
    LET term == IF Period[p] > 0 THEN Period[p] ELSE 30
    IN  [status |-> "active", plan |-> p, term |-> term, left |-> term, by |-> t]

\* A new subscription runs for the plan's period; int64 of hours / 24 makes of
\* its remaining time one whole day less.
Fresh(p, t) ==
    LET term == IF Period[p] > 0 THEN Period[p] ELSE 30
    IN  [status |-> "active", plan |-> p, term |-> term, left |-> term - 1, by |-> t]

Init ==
    /\ \/ \E s \in Subs, p \in Plans :
             /\ sub = [x \in Subs |-> IF x = s THEN Fresh(p, NoTxn) ELSE Absent]
             /\ group = p
             /\ live = p
       \/ sub = [x \in Subs |-> Absent] /\ group = NoPlan /\ live = NoPlan
    /\ onSale = Plans
    /\ txn = [t \in Txns |-> NoPayment] /\ spawned = [t \in Txns |-> 0]
    /\ worker = [w \in Jobs \cup Requests |-> Idle]
    /\ audit = <<>> /\ disturbed = FALSE /\ failures = 0
    /\ lockLosses = 0

Room == Cardinality({w \in DOMAIN worker : worker[w] # Idle}) < MaxRunning
Fails == failures < MaxFailures /\ failures' = failures + 1
Radius == <<group, live, disturbed>>

-----------------------------------------------------------------------------
(* CalculateAdjustment, Initiate and the gateway.                          *)

Adjustable(s, p) == sub[s].status = "active" /\ p \in onSale

Quote(t, s, p) ==
    /\ txn[t] = NoPayment /\ Adjustable(s, p)
    /\ txn' = [txn EXCEPT ![t] = [NoPayment EXCEPT
          !.state = "quoted", !.kind = "subscription_adjustment", !.sub = s,
          !.plan = p, !.from = sub[s].plan, !.net = QuoteNet(s, p)]]
    /\ UNCHANGED <<sub, onSale, spawned, worker, audit, Radius, failures, lockLosses>>

\* validatePlanAmount does not look at the amount of an adjustment; the contact
\* may be another customer's, and blanks about subscription_id pass as well.
InitiateAdjustment(t, amount, flaw) ==
    /\ txn[t].state = "quoted" /\ txn[t].plan \in onSale
    /\ amount > 0
    /\ txn' = [txn EXCEPT ![t].state = "pending", ![t].amount = amount, ![t].flaw = flaw]
    /\ UNCHANGED <<sub, onSale, spawned, worker, audit, Radius, failures, lockLosses>>

InitiateSubscription(t, p) ==
    /\ txn[t] = NoPayment /\ p \in onSale
    /\ txn' = [txn EXCEPT ![t] = [NoPayment EXCEPT
          !.state = "pending", !.plan = p, !.amount = Price[p]]]
    /\ UNCHANGED <<sub, onSale, spawned, worker, audit, Radius, failures, lockLosses>>

\* The payment completes; see PaymentLifecycle.
Capture(t) ==
    /\ txn[t].state = "pending"
    /\ txn' = [txn EXCEPT ![t].state = "completed"]
    /\ spawned' = [spawned EXCEPT ![t] = 1]
    /\ UNCHANGED <<sub, onSale, worker, audit, Radius, failures, lockLosses>>

\* retryUnfulfilled takes subscriptions, and never adjustments.
SweepTrigger(t) ==
    /\ txn[t].state = "completed" /\ ~txn[t].marker /\ spawned[t] = 0
    /\ txn[t].kind = "subscription"
    /\ spawned' = [spawned EXCEPT ![t] = 1]
    /\ UNCHANGED <<sub, onSale, txn, worker, audit, Radius, failures, lockLosses>>

-----------------------------------------------------------------------------
(* triggerFulfillment and Fulfill.                                         *)

Start(j, t) ==
    /\ worker[j] = Idle /\ Room /\ spawned[t] > 0
    /\ spawned' = [spawned EXCEPT ![t] = 0]
    /\ worker' = [worker EXCEPT ![j] = [pc |-> "claiming", txn |-> t,
          sub |-> txn[t].sub, plan |-> txn[t].plan, attempt |-> 1]]
    /\ UNCHANGED <<sub, onSale, txn, audit, Radius, failures, lockLosses>>

NextAttempt(w) ==
    IF w.attempt = fulfillmentMaxAttempts THEN Idle
    ELSE [w EXCEPT !.pc = "claiming", !.attempt = @ + 1]

\* Past the claim and the marker, with the claim or without it.
Entered == {"claimed", "strayed"}

\* After a success, speeds are pushed for an adjustment and nothing else.
Done(w) ==
    IF w.txn # NoTxn /\ txn[w.txn].kind = "subscription" THEN Idle
    ELSE [w EXCEPT !.pc = "coa"]

\* The claim of the transaction and, under it, the marker.
Claim(j) ==
    LET t == worker[j].txn
    IN  /\ worker[j].pc = "claiming"
        /\ \A k \in Jobs : ~(worker[k].pc = "claimed" /\ worker[k].txn = t)
        /\ worker' = [worker EXCEPT ![j] =
              IF txn[t].marker THEN Done(@) ELSE [@ EXCEPT !.pc = "claimed"]]
        /\ UNCHANGED <<sub, onSale, txn, spawned, audit, Radius, failures, lockLosses>>

\* A claim is a lock of its connection: when the connection dies it is free for
\* another goroutine, and its own goes on.
LockLost(j) ==
    /\ worker[j].pc = "claimed"
    /\ Fails
    /\ worker' = [worker EXCEPT ![j].pc = "strayed"]
    /\ lockLosses' = lockLosses + 1
    /\ UNCHANGED <<sub, onSale, txn, spawned, audit, Radius>>

AttemptFails(j) ==
    /\ worker[j].pc \in {"claiming"} \cup Entered
    /\ Fails
    /\ worker' = [worker EXCEPT ![j] = NextAttempt(@)]
    /\ UNCHANGED <<sub, onSale, txn, spawned, audit, Radius, lockLosses>>

\* What the transaction commits besides the subscription: the RADIUS rows of
\* the username.  Other calls still under way may push older speeds.
OthersUnderWay(w) == \E x \in DOMAIN worker \ {w} : worker[x] # Idle
Rewrite(w, p, pushed) ==
    /\ group' = p
    /\ disturbed' = (disturbed \/ OthersUnderWay(w) \/ ~pushed)
    /\ UNCHANGED live

\* fulfillSubscription: always another subscription, with the marker.
Subscribe(j, s) ==
    LET t == worker[j].txn
        p == worker[j].plan
    IN  /\ worker[j].pc \in Entered /\ txn[t].kind = "subscription"
        /\ p \in onSale /\ sub[s] = Absent
        /\ sub' = [sub EXCEPT ![s] = Fresh(p, t)]
        /\ txn' = [txn EXCEPT ![t].marker = TRUE]
        /\ Rewrite(j, p, FALSE)
        /\ \/ worker' = [worker EXCEPT ![j] = Done(@)] /\ UNCHANGED failures
           \/ worker' = [worker EXCEPT ![j] = NextAttempt(@)] /\ Fails
        /\ UNCHANGED <<onSale, spawned, audit, lockLosses>>

\* Mutant: the marker is left to the caller.
ChangeUnmarked(w, t, s, p, answered) ==
    /\ sub' = [sub EXCEPT ![s].plan = p]
    /\ audit' = Append(audit, [sub |-> s, txn |-> t, net |-> GuardNet(s, p)])
    /\ UNCHANGED txn
    /\ Rewrite(w, p, answered)

\* subscriptionAdjustmentCore's transaction: plan, audit row, RADIUS rows and,
\* of a paid change, the marker; the answer to the COMMIT may be lost.
Change(w, t, s, p, answered) ==
    /\ Len(audit) < MaxChanges
    /\ sub' = [sub EXCEPT ![s].plan = p]
    /\ audit' = Append(audit, [sub |-> s, txn |-> t, net |-> GuardNet(s, p)])
    /\ txn' = [x \in Txns |-> IF x = t THEN [txn[x] EXCEPT !.marker = TRUE] ELSE txn[x]]
    /\ Rewrite(w, p, answered)

\* The refusals of the core in the order of its checks, or "none".
Refusal(s, p, paid, flaw) ==
    CASE flaw = "padded" \/ sub[s].status # "active" -> "sub"
      [] flaw = "contact" -> "buyer"
      [] p \notin onSale -> "plan"
      [] paid < GuardNet(s, p) -> "underpaid"
      [] sub[s].plan = p -> "same"
      [] OTHER -> "none"

AdjustPaid(j) ==
    LET t == worker[j].txn
        s == worker[j].sub
        p == worker[j].plan
    IN  /\ worker[j].pc \in Entered /\ txn[t].kind = "subscription_adjustment"
        /\ Refusal(s, p, Cents(txn[t].amount), txn[t].flaw) = "none"
        /\ \/ /\ Change(j, t, s, p, TRUE)
              /\ worker' = [worker EXCEPT ![j] = Done(@)] /\ UNCHANGED failures
           \/ /\ Change(j, t, s, p, FALSE)
              /\ worker' = [worker EXCEPT ![j] = NextAttempt(@)] /\ Fails
        /\ UNCHANGED <<onSale, spawned, lockLosses>>

RefusePaid(j) ==
    LET t == worker[j].txn
        s == worker[j].sub
        p == worker[j].plan
        why == IF txn[t].kind = "subscription"
               THEN (IF p \in onSale THEN "none" ELSE "plan")
               ELSE Refusal(s, p, Cents(txn[t].amount), txn[t].flaw)
    IN  /\ worker[j].pc \in Entered /\ why # "none"
        /\ txn' = [txn EXCEPT ![t].refusal =
              IF why = "underpaid" THEN "underpaid" ELSE "other"]
        /\ worker' = [worker EXCEPT ![j] = NextAttempt(@)]
        /\ UNCHANGED <<sub, onSale, spawned, audit, Radius, failures, lockLosses>>

-----------------------------------------------------------------------------
(* ApplyFreeAdjustment.                                                    *)

\* The quote and the owner's phone are checked by statements of their own.
FreeCheck(r, s, p) ==
    /\ worker[r] = Idle /\ Room
    /\ Adjustable(s, p) /\ QuoteNet(s, p) = 0
    /\ worker' = [worker EXCEPT ![r] =
          [pc |-> "checked", txn |-> NoTxn, sub |-> s, plan |-> p, attempt |-> 1]]
    /\ UNCHANGED <<sub, onSale, txn, spawned, audit, Radius, failures, lockLosses>>

\* Mutant: the core trusts that the caller has checked.
FreeApplyTrusting(r) ==
    LET s == worker[r].sub
        p == worker[r].plan
    IN  /\ worker[r].pc = "checked"
        /\ Refusal(s, p, GuardNet(s, p), "none") = "none"
        /\ Change(r, NoTxn, s, p, TRUE)
        /\ worker' = [worker EXCEPT ![r] = Done(@)]
        /\ UNCHANGED <<onSale, spawned, failures, lockLosses>>

FreeApply(r) ==
    LET s == worker[r].sub
        p == worker[r].plan
    IN  /\ worker[r].pc = "checked"
        /\ Refusal(s, p, 0, "none") = "none"
        /\ \/ /\ Change(r, NoTxn, s, p, TRUE)
              /\ worker' = [worker EXCEPT ![r] = Done(@)] /\ UNCHANGED failures
           \/ /\ Change(r, NoTxn, s, p, FALSE)
              /\ worker' = [worker EXCEPT ![r] = Idle] /\ Fails
        /\ UNCHANGED <<onSale, spawned, lockLosses>>

FreeRefused(r) ==
    /\ worker[r].pc = "checked"
    /\ \/ Refusal(worker[r].sub, worker[r].plan, 0, "none") # "none" /\ UNCHANGED failures
       \/ Fails
    /\ worker' = [worker EXCEPT ![r] = Idle]
    /\ UNCHANGED <<sub, onSale, txn, spawned, audit, Radius, lockLosses>>

-----------------------------------------------------------------------------
(* applyAdjustmentCoA.                                                     *)

\* The speeds pushed are those of the plan the subscription has now.
CoaRead(w) ==
    /\ worker[w].pc = "coa"
    /\ worker' = [worker EXCEPT ![w].pc = "push", ![w].plan = sub[worker[w].sub].plan]
    /\ UNCHANGED <<sub, onSale, txn, spawned, audit, Radius, failures, lockLosses>>

\* Mutant: the push goes to the next login.
CoaPushNothing(w) ==
    /\ worker[w].pc = "push"
    /\ worker' = [worker EXCEPT ![w] = Idle]
    /\ UNCHANGED <<sub, onSale, txn, spawned, audit, Radius, failures, lockLosses>>

CoaPush(w) ==
    /\ worker[w].pc = "push"
    /\ live' = IF live = NoPlan THEN NoPlan ELSE worker[w].plan
    /\ worker' = [worker EXCEPT ![w] = Idle]
    /\ UNCHANGED <<sub, onSale, txn, spawned, audit, group, disturbed, failures, lockLosses>>

\* Best effort: an error is logged, and without a Django client nothing is
\* read or pushed.
CoaFails(w) ==
    /\ worker[w].pc \in {"coa", "push"}
    /\ Fails \/ (worker[w].pc = "coa" /\ UNCHANGED failures)
    /\ worker' = [worker EXCEPT ![w] = Idle]
    /\ disturbed' = TRUE
    /\ UNCHANGED <<sub, onSale, txn, spawned, audit, group, live, lockLosses>>

-----------------------------------------------------------------------------
(* Time, Django, RADIUS and the process.                                   *)

DayPasses ==
    /\ \E s \in Subs : sub[s].left > 0
    /\ sub' = [s \in Subs |->
          [sub[s] EXCEPT !.left = IF @ > 0 THEN @ - 1 ELSE 0]]
    /\ UNCHANGED <<onSale, txn, spawned, worker, audit, Radius, failures, lockLosses>>

Expire(s) ==
    /\ sub[s].status = "active" /\ sub[s].left = 0
    /\ sub' = [sub EXCEPT ![s].status = "expired"]
    /\ UNCHANGED <<onSale, txn, spawned, worker, audit, Radius, failures, lockLosses>>

Withdraw(p) ==
    /\ p \in onSale /\ onSale' = onSale \ {p}
    /\ UNCHANGED <<sub, txn, spawned, worker, audit, Radius, failures, lockLosses>>

\* The session takes its speeds from the RADIUS rows.
Login ==
    /\ live # group
    /\ live' = group
    /\ disturbed' = (disturbed /\ \E w \in DOMAIN worker : worker[w] # Idle)
    /\ UNCHANGED <<sub, onSale, txn, spawned, worker, audit, group, failures, lockLosses>>

Crash ==
    /\ Fails
    /\ worker' = [w \in DOMAIN worker |-> Idle]
    /\ spawned' = [t \in Txns |-> 0]
    /\ disturbed' = TRUE
    /\ UNCHANGED <<sub, onSale, txn, audit, group, live, lockLosses>>

JobStep(j) ==
    \/ \E t \in Txns : Start(j, t)
    \/ Claim(j) \/ LockLost(j) \/ AttemptFails(j) \/ (\E s \in Subs : Subscribe(j, s))
    \/ AdjustPaid(j) \/ RefusePaid(j)

RequestStep(r) ==
    \/ \E s \in Subs, p \in Plans : FreeCheck(r, s, p)
    \/ FreeApply(r) \/ FreeRefused(r)

PayerStep(t) ==
    \/ \E s \in Subs, p \in Plans : Quote(t, s, p)
    \/ \E flaw \in Flaws : InitiateAdjustment(t, txn[t].net, flaw)
    \/ InitiateAdjustment(t, txn[t].net - 1, "none")
    \/ \E p \in Plans : InitiateSubscription(t, p)
    \/ Capture(t) \/ SweepTrigger(t)

Next ==
    \/ \E t \in Txns : PayerStep(t)
    \/ \E j \in Jobs : JobStep(j)
    \/ \E r \in Requests : RequestStep(r)
    \/ \E w \in Jobs \cup Requests : CoaRead(w) \/ CoaPush(w) \/ CoaFails(w)
    \/ DayPasses \/ (\E s \in Subs : Expire(s))
    \/ (\E p \in Plans : Withdraw(p)) \/ Login \/ Crash

Spec == Init /\ [][Next]_vars

-----------------------------------------------------------------------------
(* Properties.                                                             *)

\* A change to a dearer plan was paid for, with at least what it costs at the
\* moment it is made, whatever happened since the quote or the free check.
ChangesArePaid ==
    \A i \in DOMAIN audit : audit[i].net > 0 =>
        audit[i].txn # NoTxn /\ Cents(txn[audit[i].txn].amount) >= audit[i].net

\* A payment buys one subscription or one change, and its marker says whether
\* it has, through retries, lost answers, sweeps and crashes; a claim that goes
\* with its connection lets it buy once more.
Bought(t) ==
    Cardinality({i \in DOMAIN audit : audit[i].txn = t})
        + Cardinality({s \in Subs : sub[s].by = t})
OnePurchasePerPayment ==
    \A t \in Txns : /\ txn[t].marker <=> Bought(t) > 0
                    /\ Bought(t) <= 1 + lockLosses

\* A payment of the quoted net is refused as too small only if the subscription
\* changed its plan since, the two sides take different billing periods, or
\* the amount lost a unit on its way through the database.
UnderpaidIsExplained ==
    [][\A t \in Txns :
          txn'[t].refusal = "underpaid" /\ txn[t].refusal # "underpaid" =>
              \/ txn[t].amount < txn[t].net
              \/ txn[t].amount \in Lossy
              \/ sub[txn[t].sub].plan # txn[t].from
              \/ Period[txn[t].plan] \notin {0, sub[txn[t].sub].term}]_vars

\* The RADIUS rows of the customer are those of a subscription it has, or there
\* are none, and a session that is left alone by failed or missing pushes,
\* overlapping changes and the purchase of another subscription has their speeds.
SessionFollowsPlan ==
    /\ \E s \in Subs : sub[s].plan = group
    /\ group = NoPlan => \A s \in Subs : sub[s].status = "absent"
    /\ \/ live \in {NoPlan, group} \/ disturbed
       \/ \E w \in DOMAIN worker : worker[w] # Idle
=============================================================================
