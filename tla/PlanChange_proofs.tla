--------------------------- MODULE PlanChange_proofs ---------------------------
(***************************************************************************)
(* Proofs about PlanChange, for any number of subscriptions, plans,        *)
(* payments, jobs and requests, any prices and any billing periods.        *)
(***************************************************************************)
EXTENDS PlanChange, FiniteSetTheorems, SequenceTheorems, TLAPS

USE DEF Entered

-----------------------------------------------------------------------------
(* The types of TypeOK.                                                    *)

SubRows == [status: {"absent", "active", "expired"}, plan: Plans \cup {NoPlan},
            term: Nat, left: Nat, by: Txns \cup {NoTxn}]
PayStates == {"none", "quoted", "pending", "completed"}
Payments == [state: PayStates, kind: {"subscription", "subscription_adjustment"},
             sub: Subs \cup {NoSub}, plan: Plans \cup {NoPlan},
             from: Plans \cup {NoPlan}, net: Nat, amount: Nat,
             flaw: Flaws, marker: BOOLEAN, refusal: {"none", "underpaid", "other"}]
WorkSteps == {"idle", "claiming", "claimed", "strayed", "checked", "coa", "push"}
Works == [pc: WorkSteps, txn: Txns \cup {NoTxn}, sub: Subs \cup {NoSub},
          plan: Plans \cup {NoPlan}, attempt: 0..fulfillmentMaxAttempts]
Audits == [sub: Subs, txn: Txns \cup {NoTxn}, net: Nat]
Workers == Jobs \cup Requests

\* All of TypeOK but the count of lost claims.
StateOK ==
  /\ sub \in [Subs -> SubRows]
  /\ \A s \in Subs : sub[s].status # "absent" => sub[s].left < sub[s].term
  /\ onSale \subseteq Plans
  /\ txn \in [Txns -> Payments] /\ spawned \in [Txns -> 0..1]
  /\ worker \in [Workers -> Works]
  /\ audit \in Seq(Audits) /\ Len(audit) <= MaxChanges
  /\ group \in Plans \cup {NoPlan} /\ live \in Plans \cup {NoPlan}
  /\ disturbed \in BOOLEAN /\ failures \in 0..MaxFailures

LEMMA Types == TypeOK <=> StateOK /\ lockLosses \in Nat
BY DEF TypeOK, StateOK, SubRows, Payments, PayStates, Works, WorkSteps, Audits, Workers

\* One field of a payment changes.
LEMMA PayState ==
  ASSUME NEW x \in Payments
  PROVE  \A e \in PayStates :
           /\ [x EXCEPT !.state = e] \in Payments /\ [x EXCEPT !.state = e].state = e
           /\ [x EXCEPT !.state = e].kind = x.kind /\ [x EXCEPT !.state = e].sub = x.sub
           /\ [x EXCEPT !.state = e].marker = x.marker
           /\ [x EXCEPT !.state = e].amount = x.amount
BY DEF Payments

LEMMA PayAmount ==
  ASSUME NEW x \in Payments
  PROVE  \A e \in Nat :
           /\ [x EXCEPT !.amount = e] \in Payments
           /\ [x EXCEPT !.amount = e].state = x.state
           /\ [x EXCEPT !.amount = e].kind = x.kind /\ [x EXCEPT !.amount = e].sub = x.sub
           /\ [x EXCEPT !.amount = e].marker = x.marker
BY DEF Payments

LEMMA PayFlaw ==
  ASSUME NEW x \in Payments
  PROVE  \A e \in Flaws :
           /\ [x EXCEPT !.flaw = e] \in Payments /\ [x EXCEPT !.flaw = e].state = x.state
           /\ [x EXCEPT !.flaw = e].kind = x.kind /\ [x EXCEPT !.flaw = e].sub = x.sub
           /\ [x EXCEPT !.flaw = e].marker = x.marker
BY DEF Payments

LEMMA PayMarker ==
  ASSUME NEW x \in Payments
  PROVE  /\ [x EXCEPT !.marker = TRUE] \in Payments /\ [x EXCEPT !.marker = TRUE].marker
         /\ [x EXCEPT !.marker = TRUE].state = x.state
         /\ [x EXCEPT !.marker = TRUE].kind = x.kind
         /\ [x EXCEPT !.marker = TRUE].sub = x.sub
         /\ [x EXCEPT !.marker = TRUE].amount = x.amount
BY DEF Payments

LEMMA PayRefusal ==
  ASSUME NEW x \in Payments
  PROVE  \A e \in {"underpaid", "other"} :
           /\ [x EXCEPT !.refusal = e] \in Payments
           /\ [x EXCEPT !.refusal = e].state = x.state
           /\ [x EXCEPT !.refusal = e].kind = x.kind
           /\ [x EXCEPT !.refusal = e].sub = x.sub
           /\ [x EXCEPT !.refusal = e].marker = x.marker
           /\ [x EXCEPT !.refusal = e].amount = x.amount
BY DEF Payments

LEMMA PayKind ==
  ASSUME NEW x \in Payments
  PROVE  \A e \in {"subscription", "subscription_adjustment"} :
           /\ [x EXCEPT !.kind = e] \in Payments
           /\ [x EXCEPT !.kind = e].marker = x.marker
BY DEF Payments

LEMMA PaySub ==
  ASSUME NEW x \in Payments
  PROVE  \A e \in Subs :
           /\ [x EXCEPT !.sub = e] \in Payments
           /\ [x EXCEPT !.sub = e].sub = e
           /\ [x EXCEPT !.sub = e].marker = x.marker
BY DEF Payments

LEMMA PayPlan ==
  ASSUME NEW x \in Payments
  PROVE  \A e \in Plans :
           /\ [x EXCEPT !.plan = e] \in Payments
           /\ [x EXCEPT !.plan = e].kind = x.kind
           /\ [x EXCEPT !.plan = e].sub = x.sub
           /\ [x EXCEPT !.plan = e].marker = x.marker
BY DEF Payments

LEMMA PayFrom ==
  ASSUME NEW x \in Payments
  PROVE  \A e \in Plans \cup {NoPlan} :
           /\ [x EXCEPT !.from = e] \in Payments
           /\ [x EXCEPT !.from = e].sub = x.sub
           /\ [x EXCEPT !.from = e].marker = x.marker
BY DEF Payments

LEMMA PayNet ==
  ASSUME NEW x \in Payments
  PROVE  \A e \in Nat :
           /\ [x EXCEPT !.net = e] \in Payments
           /\ [x EXCEPT !.net = e].sub = x.sub
           /\ [x EXCEPT !.net = e].marker = x.marker
BY DEF Payments

LEMMA PayFields ==
  ASSUME NEW x \in Payments
  PROVE  /\ x.state \in PayStates /\ x.kind \in {"subscription", "subscription_adjustment"}
         /\ x.sub \in Subs \cup {NoSub} /\ x.plan \in Plans \cup {NoPlan}
         /\ x.net \in Nat /\ x.amount \in Nat /\ x.marker \in BOOLEAN /\ x.flaw \in Flaws
BY DEF Payments

LEMMA NoPaymentType ==
  NoPayment \in Payments /\ NoPayment.state = "none" /\ NoPayment.marker = FALSE
BY DEF NoPayment, Payments, PayStates, Flaws

-----------------------------------------------------------------------------
(* Jobs and requests.                                                      *)

LEMMA WorkFields ==
  ASSUME NEW w \in Works
  PROVE  /\ w.pc \in WorkSteps /\ w.txn \in Txns \cup {NoTxn} /\ w.sub \in Subs \cup {NoSub}
         /\ w.plan \in Plans \cup {NoPlan} /\ w.attempt \in 0..3
BY DEF Works, fulfillmentMaxAttempts

LEMMA WorkPc ==
  ASSUME NEW w \in Works
  PROVE  \A e \in WorkSteps :
           /\ [w EXCEPT !.pc = e] \in Works /\ [w EXCEPT !.pc = e].pc = e
           /\ [w EXCEPT !.pc = e].txn = w.txn /\ [w EXCEPT !.pc = e].sub = w.sub
           /\ [w EXCEPT !.pc = e].plan = w.plan /\ [w EXCEPT !.pc = e].attempt = w.attempt
BY DEF Works

LEMMA IdleType == Idle \in Works /\ Idle.pc = "idle"
BY DEF Idle, Works, WorkSteps, fulfillmentMaxAttempts

LEMMA NextAttemptType ==
  ASSUME NEW w \in Works
  PROVE  /\ NextAttempt(w) \in Works /\ NextAttempt(w).pc \in {"idle", "claiming"}
         /\ NextAttempt(w).pc # "idle" =>
               NextAttempt(w).txn = w.txn /\ NextAttempt(w).sub = w.sub
<1>1. CASE w.attempt = fulfillmentMaxAttempts
  BY <1>1, IdleType DEF NextAttempt
<1>2. CASE w.attempt # fulfillmentMaxAttempts
  <2>. DEFINE x == [w EXCEPT !.pc = "claiming"]
  <2>1. x \in Works /\ x.pc = "claiming" /\ x.txn = w.txn /\ x.sub = w.sub
        /\ x.attempt = w.attempt
    BY WorkPc DEF WorkSteps
  <2>2. NextAttempt(w) = [x EXCEPT !.attempt = w.attempt + 1]
    BY <1>2, <2>1 DEF NextAttempt
  <2>. HIDE DEF x
  <2>. PICK n \in 0..fulfillmentMaxAttempts : n = w.attempt + 1
    BY <1>2, WorkFields DEF fulfillmentMaxAttempts
  <2>3. NextAttempt(w) = [x EXCEPT !.attempt = n]
    BY <2>2
  <2>4. /\ [x EXCEPT !.attempt = n] \in Works
        /\ [x EXCEPT !.attempt = n].pc = x.pc /\ [x EXCEPT !.attempt = n].txn = x.txn
        /\ [x EXCEPT !.attempt = n].sub = x.sub
    BY <2>1 DEF Works
  <2>. QED BY <2>1, <2>3, <2>4
<1>. QED BY <1>1, <1>2

-----------------------------------------------------------------------------
(* Money.                                                                  *)

LEMMA Quotient == ASSUME NEW a \in Nat, NEW b \in Nat \ {0} PROVE a \div b \in Nat
OBVIOUS

LEMMA NetType ==
  ASSUME NEW old \in Plans, NEW new \in Plans, NEW billingDays \in Nat, NEW left \in Nat
  PROVE  RoundedNet(old, new, billingDays, left) \in Nat
<1>. PICK days \in Nat \ {0} : days = IF billingDays <= 0 THEN 30 ELSE billingDays
  OBVIOUS
<1>. PICK a \in Nat, b \in Nat : a = Price[old] /\ b = Price[new]
  BY PlanChangeAssumption
<1>1. (b - a) * left \in Int
  OBVIOUS
<1>. PICK due \in Int : due = (b - a) * left
  BY <1>1
<1>2. RoundedNet(old, new, billingDays, left)
        = IF due <= 0 THEN 0 ELSE (2 * due + days) \div (2 * days)
  BY DEF RoundedNet
<1>3. CASE due <= 0
  BY <1>2, <1>3
<1>4. CASE ~(due <= 0)
  <2>. PICK num \in Nat, den \in Nat \ {0} : num = 2 * due + days /\ den = 2 * days
    BY <1>4
  <2>. QED BY <1>2, <1>4, Quotient
<1>. QED BY <1>3, <1>4

LEMMA CentsType == ASSUME NEW a \in Nat PROVE Cents(a) \in Int
BY DEF Cents

-----------------------------------------------------------------------------
(* What rows, jobs and requests refer to.                                  *)

Paid(t) == txn[t].state = "completed"

RowsInv ==
  /\ \A s \in Subs : sub[s].status = "active" => sub[s].plan \in Plans
  /\ \A t \in Txns : txn[t].kind = "subscription_adjustment" => txn[t].sub \in Subs
  /\ \A t \in Txns : spawned[t] > 0 => Paid(t)

\* A job works on a captured payment, and pushes only for a subscription.
JobFits(x) ==
  x.pc # "idle" =>
      /\ x.pc \in {"claiming", "claimed", "strayed", "coa", "push"}
      /\ x.txn \in Txns /\ Paid(x.txn) /\ x.sub = txn[x.txn].sub
      /\ x.pc \in {"coa", "push"} => x.sub \in Subs
RequestFits(x) ==
  x.pc # "idle" =>
      x.pc \in {"checked", "coa", "push"} /\ x.txn = NoTxn /\ x.sub \in Subs
Fits(w, x) == IF w \in Jobs THEN JobFits(x) ELSE RequestFits(x)

Typed == StateOK /\ RowsInv /\ \A w \in Workers : Fits(w, worker[w])

LEMMA TypedNet ==
  ASSUME Typed, NEW s \in Subs, NEW p \in Plans, sub[s].status = "active"
  PROVE  QuoteNet(s, p) \in Nat /\ GuardNet(s, p) \in Nat
<1>1. sub[s] \in SubRows /\ sub[s].plan \in Plans
  BY DEF StateOK, Typed, RowsInv
<1>2. sub[s].term \in Nat /\ sub[s].left \in Nat /\ Period[p] \in Nat
  BY <1>1, PlanChangeAssumption DEF SubRows
<1>. QED BY <1>1, <1>2, NetType DEF QuoteNet, GuardNet

\* A captured payment stays what it is, up to its marker and its last refusal.
KeptPayment(x, m) ==
  x.state = "completed" =>
      /\ m.state = "completed" /\ m.kind = x.kind /\ m.sub = x.sub /\ m.amount = x.amount
TxnKeeps == \A t \in Txns : KeptPayment(txn[t], txn'[t])

PaymentFits(m) ==
  m \in Payments /\ (m.kind = "subscription_adjustment" => m.sub \in Subs)

LEMMA PaymentsKept ==
  ASSUME Typed, NEW t \in Txns, NEW m, PaymentFits(m), KeptPayment(txn[t], m),
         txn' = [txn EXCEPT ![t] = m]
  PROVE  /\ txn' \in [Txns -> Payments] /\ TxnKeeps
         /\ \A u \in Txns : txn'[u].kind = "subscription_adjustment" => txn'[u].sub \in Subs
<1>1. txn \in [Txns -> Payments]
  BY DEF StateOK, Typed
<1>2. txn' \in [Txns -> Payments] /\ txn'[t] = m /\ \A u \in Txns : u # t => txn'[u] = txn[u]
  BY <1>1 DEF PaymentFits
<1>. QED BY <1>2 DEF PaymentFits, Typed, RowsInv, TxnKeeps, KeptPayment

LEMMA PaymentsUnchanged ==
  ASSUME Typed, UNCHANGED txn
  PROVE  /\ txn' \in [Txns -> Payments] /\ TxnKeeps
         /\ \A u \in Txns : txn'[u].kind = "subscription_adjustment" => txn'[u].sub \in Subs
BY DEF StateOK, Typed, RowsInv, TxnKeeps, KeptPayment

LEMMA FitsKept ==
  ASSUME NEW w, NEW x, Fits(w, x), TxnKeeps
  PROVE  Fits(w, x)'
BY DEF Fits, JobFits, RequestFits, TxnKeeps, KeptPayment, Paid

\* One worker moves; or none.
LEMMA WorkersMove ==
  ASSUME Typed, TxnKeeps, NEW w \in Workers, NEW x \in Works, Fits(w, x),
         worker' = [worker EXCEPT ![w] = x]
  PROVE  /\ worker' \in [Workers -> Works]
         /\ \A v \in Workers : Fits(v, worker[v])'
<1>1. worker \in [Workers -> Works]
  BY DEF StateOK, Typed
<1>2. worker' \in [Workers -> Works] /\ worker'[w] = x
      /\ \A v \in Workers : v # w => worker'[v] = worker[v]
  BY <1>1
<1>3. ASSUME NEW v \in Workers PROVE Fits(v, worker[v])'
  <2>. PICK y : y = worker'[v]
    OBVIOUS
  <2>1. Fits(v, y)
    BY <1>2 DEF Typed
  <2>2. Fits(v, y)'
    BY <2>1, FitsKept
  <2>. QED BY <2>2 DEF Fits, JobFits, RequestFits
<1>. QED BY <1>2, <1>3

LEMMA WorkersStay ==
  ASSUME Typed, TxnKeeps, UNCHANGED worker
  PROVE  /\ worker' \in [Workers -> Works]
         /\ \A v \in Workers : Fits(v, worker[v])'
<1>1. worker \in [Workers -> Works]
  BY DEF StateOK, Typed
<1>3. ASSUME NEW v \in Workers PROVE Fits(v, worker[v])'
  <2>. PICK y : y = worker'[v]
    OBVIOUS
  <2>1. Fits(v, y)
    BY DEF Typed
  <2>2. Fits(v, y)'
    BY <2>1, FitsKept
  <2>. QED BY <2>2 DEF Fits, JobFits, RequestFits
<1>. QED BY <1>1, <1>3

-----------------------------------------------------------------------------
(* Payments are quoted, made and captured.                                 *)

Rest == <<sub, onSale, audit, Radius, failures>>

\* A step that changes one payment, one worker at most, and what is spawned.
LEMMA PaymentStep ==
  ASSUME Typed, NEW t \in Txns, NEW m, PaymentFits(m), KeptPayment(txn[t], m),
         txn' = [txn EXCEPT ![t] = m], UNCHANGED <<worker, Rest>>,
         spawned' \in [Txns -> 0..1],
         \A u \in Txns : spawned'[u] > 0 => spawned[u] > 0 \/ (u = t /\ m.state = "completed")
  PROVE  Typed'
<1>1. /\ txn' \in [Txns -> Payments] /\ TxnKeeps
      /\ \A u \in Txns : txn'[u].kind = "subscription_adjustment" => txn'[u].sub \in Subs
  BY PaymentsKept
<1>2. /\ worker' \in [Workers -> Works]
      /\ \A v \in Workers : Fits(v, worker[v])'
  BY <1>1, WorkersStay
<1>3. StateOK'
  BY <1>1, <1>2 DEF Typed, Rest, Radius, StateOK
<1>4. \A u \in Txns : spawned'[u] > 0 => txn'[u].state = "completed"
  <2>1. txn'[t] = m
    BY DEF StateOK, Typed
  <2>. QED BY <1>1, <2>1 DEF TxnKeeps, KeptPayment, Typed, RowsInv, Paid
<1>5. \A s \in Subs : sub'[s].status = "active" => sub'[s].plan \in Plans
  BY DEF Rest, Typed, RowsInv
<1>. QED BY <1>1, <1>2, <1>3, <1>4, <1>5 DEF Typed, RowsInv, Paid

LEMMA QuoteStep ==
  ASSUME Typed, NEW t \in Txns, NEW s \in Subs, NEW p \in Plans, Quote(t, s, p)
  PROVE  \E m : /\ PaymentFits(m) /\ KeptPayment(txn[t], m) /\ m.marker = txn[t].marker
                /\ txn' = [txn EXCEPT ![t] = m]
<1>1. sub[s].status = "active" /\ sub[s].plan \in Plans \cup {NoPlan}
  BY DEF StateOK, Quote, Adjustable, Typed, SubRows
<1>. PICK net \in Nat, from \in Plans \cup {NoPlan} : net = QuoteNet(s, p) /\ from = sub[s].plan
  BY <1>1, TypedNet
<1>. DEFINE m1 == [NoPayment EXCEPT !.state = "quoted"]
            m2 == [m1 EXCEPT !.kind = "subscription_adjustment"]
            m3 == [m2 EXCEPT !.sub = s]
            m4 == [m3 EXCEPT !.plan = p]
            m5 == [m4 EXCEPT !.from = from]
            m == [m5 EXCEPT !.net = net]
<1>2. txn' = [txn EXCEPT ![t] = m] /\ txn[t] = NoPayment
  BY DEF Quote
<1>3. m1 \in Payments /\ m1.marker = FALSE
  BY NoPaymentType, PayState DEF PayStates
<1>. HIDE DEF m1
<1>4. m2 \in Payments /\ m2.marker = FALSE
  BY <1>3, PayKind
<1>. HIDE DEF m2
<1>5. m3 \in Payments /\ m3.marker = FALSE /\ m3.sub = s
  BY <1>4, PaySub
<1>. HIDE DEF m3
<1>6. m4 \in Payments /\ m4.marker = FALSE /\ m4.sub = s
  BY <1>5, PayPlan
<1>. HIDE DEF m4
<1>7. m5 \in Payments /\ m5.marker = FALSE /\ m5.sub = s
  BY <1>6, PayFrom
<1>. HIDE DEF m5
<1>8. m \in Payments /\ m.marker = FALSE /\ m.sub = s
  BY <1>7, PayNet
<1>. HIDE DEF m
<1>. QED BY <1>2, <1>8, NoPaymentType DEF PaymentFits, KeptPayment

LEMMA InitiateStep ==
  ASSUME Typed, NEW t \in Txns, NEW amount \in Int, NEW flaw \in Flaws,
         InitiateAdjustment(t, amount, flaw)
  PROVE  \E m : /\ PaymentFits(m) /\ KeptPayment(txn[t], m) /\ m.marker = txn[t].marker
                /\ txn' = [txn EXCEPT ![t] = m]
<1>1. amount \in Nat /\ txn[t].state = "quoted"
  BY DEF InitiateAdjustment
<1>. DEFINE m1 == [txn[t] EXCEPT !.state = "pending"]
            m2 == [m1 EXCEPT !.amount = amount]
            m == [m2 EXCEPT !.flaw = flaw]
<1>2. txn' = [txn EXCEPT ![t] = m]
  BY DEF InitiateAdjustment
<1>3. txn[t] \in Payments /\ "pending" \in PayStates
  BY DEF StateOK, Typed, PayStates
<1>4. m1 \in Payments /\ m1.kind = txn[t].kind /\ m1.sub = txn[t].sub
      /\ m1.marker = txn[t].marker
  BY <1>3, PayState
<1>. HIDE DEF m1
<1>5. m2 \in Payments /\ m2.kind = m1.kind /\ m2.sub = m1.sub /\ m2.marker = m1.marker
  BY <1>1, <1>4, PayAmount
<1>. HIDE DEF m2
<1>6. m \in Payments /\ m.kind = m2.kind /\ m.sub = m2.sub /\ m.marker = m2.marker
  BY <1>5, PayFlaw
<1>. HIDE DEF m
<1>7. PaymentFits(m)
  BY <1>4, <1>5, <1>6 DEF PaymentFits, Typed, RowsInv
<1>8. KeptPayment(txn[t], m)
  BY <1>1 DEF KeptPayment
<1>. QED BY <1>2, <1>4, <1>5, <1>6, <1>7, <1>8

LEMMA SubscriptionStep ==
  ASSUME Typed, NEW t \in Txns, NEW p \in Plans, InitiateSubscription(t, p)
  PROVE  \E m : /\ PaymentFits(m) /\ KeptPayment(txn[t], m) /\ m.marker = txn[t].marker
                /\ txn' = [txn EXCEPT ![t] = m]
<1>. PICK amount \in Nat : amount = Price[p]
  BY PlanChangeAssumption
<1>. DEFINE m1 == [NoPayment EXCEPT !.state = "pending"]
            m2 == [m1 EXCEPT !.plan = p]
            m == [m2 EXCEPT !.amount = amount]
<1>2. txn' = [txn EXCEPT ![t] = m] /\ txn[t] = NoPayment
  BY DEF InitiateSubscription
<1>3. m1 \in Payments /\ m1.marker = FALSE /\ m1.kind = NoPayment.kind
  BY NoPaymentType, PayState DEF PayStates
<1>. HIDE DEF m1
<1>4. m2 \in Payments /\ m2.marker = FALSE /\ m2.kind = m1.kind
  BY <1>3, PayPlan
<1>. HIDE DEF m2
<1>5. m \in Payments /\ m.marker = FALSE /\ m.kind = m2.kind
  BY <1>4, PayAmount
<1>. HIDE DEF m
<1>6. NoPayment.kind = "subscription"
  BY DEF NoPayment
<1>. QED BY <1>2, <1>3, <1>4, <1>5, <1>6, NoPaymentType DEF PaymentFits, KeptPayment

LEMMA CaptureStep ==
  ASSUME Typed, NEW t \in Txns, Capture(t)
  PROVE  \E m : /\ PaymentFits(m) /\ KeptPayment(txn[t], m) /\ m.marker = txn[t].marker
                /\ txn' = [txn EXCEPT ![t] = m] /\ m.state = "completed"
<1>. DEFINE m == [txn[t] EXCEPT !.state = "completed"]
<1>1. txn' = [txn EXCEPT ![t] = m]
  BY DEF Capture
<1>2. txn[t] \in Payments /\ "completed" \in PayStates
  BY DEF StateOK, Typed, PayStates
<1>3. m \in Payments /\ m.kind = txn[t].kind /\ m.sub = txn[t].sub
      /\ m.marker = txn[t].marker /\ m.amount = txn[t].amount /\ m.state = "completed"
  BY <1>2, PayState
<1>. HIDE DEF m
<1>4. PaymentFits(m) /\ KeptPayment(txn[t], m)
  BY <1>3 DEF PaymentFits, KeptPayment, Typed, RowsInv
<1>. QED BY <1>1, <1>3, <1>4

\* All of them.
PayerMoves(t) ==
  /\ UNCHANGED <<worker, Rest>>
  /\ \/ \E m : /\ PaymentFits(m) /\ KeptPayment(txn[t], m) /\ m.marker = txn[t].marker
               /\ txn' = [txn EXCEPT ![t] = m]
     \/ UNCHANGED txn

LEMMA PayerSteps ==
  ASSUME Typed, NEW t \in Txns, PayerStep(t)
  PROVE  Typed' /\ PayerMoves(t)
<1>0. /\ txn[t] \in Payments /\ spawned \in [Txns -> 0..1]
  BY DEF StateOK, Typed
<1>1. ASSUME NEW m, PaymentFits(m), KeptPayment(txn[t], m), m.marker = txn[t].marker,
             txn' = [txn EXCEPT ![t] = m], UNCHANGED <<worker, Rest, spawned>>
      PROVE  Typed' /\ PayerMoves(t)
  BY <1>0, <1>1, PaymentStep DEF PayerMoves
<1>2. ASSUME NEW s \in Subs, NEW p \in Plans, Quote(t, s, p)
      PROVE  Typed' /\ PayerMoves(t)
  <2>1. UNCHANGED <<worker, Rest, spawned>>
    BY <1>2 DEF Quote, Rest, Radius
  <2>. QED BY <1>1, <1>2, <2>1, QuoteStep
<1>3. ASSUME NEW amount \in Int, NEW flaw \in Flaws, InitiateAdjustment(t, amount, flaw)
      PROVE  Typed' /\ PayerMoves(t)
  <2>1. UNCHANGED <<worker, Rest, spawned>>
    BY <1>3 DEF InitiateAdjustment, Rest, Radius
  <2>. QED BY <1>1, <1>3, <2>1, InitiateStep
<1>4. ASSUME NEW p \in Plans, InitiateSubscription(t, p)
      PROVE  Typed' /\ PayerMoves(t)
  <2>1. UNCHANGED <<worker, Rest, spawned>>
    BY <1>4 DEF InitiateSubscription, Rest, Radius
  <2>. QED BY <1>1, <1>4, <2>1, SubscriptionStep
<1>5. CASE Capture(t)
  <2>1. PICK m : /\ PaymentFits(m) /\ KeptPayment(txn[t], m) /\ m.marker = txn[t].marker
                 /\ txn' = [txn EXCEPT ![t] = m] /\ m.state = "completed"
    BY <1>5, CaptureStep
  <2>2. UNCHANGED <<worker, Rest>> /\ spawned' = [spawned EXCEPT ![t] = 1]
    BY <1>5 DEF Capture, Rest, Radius
  <2>3. spawned' \in [Txns -> 0..1] /\ \A u \in Txns : u # t => spawned'[u] = spawned[u]
    BY <1>0, <2>2
  <2>4. Typed'
    BY <2>1, <2>2, <2>3, PaymentStep
  <2>. QED BY <2>1, <2>2, <2>4 DEF PayerMoves
<1>6. CASE SweepTrigger(t)
  <2>1. /\ UNCHANGED <<txn, worker, Rest>> /\ Paid(t)
        /\ spawned' = [spawned EXCEPT ![t] = 1]
    BY <1>6 DEF SweepTrigger, Rest, Radius, Paid
  <2>2. PaymentFits(txn[t]) /\ KeptPayment(txn[t], txn[t])
    BY <1>0 DEF PaymentFits, KeptPayment, Typed, RowsInv
  <2>3. txn' = [txn EXCEPT ![t] = txn[t]]
    BY <2>1 DEF StateOK, Typed
  <2>4. spawned' \in [Txns -> 0..1] /\ \A u \in Txns : u # t => spawned'[u] = spawned[u]
    BY <1>0, <2>1
  <2>5. Typed'
    BY <2>1, <2>2, <2>3, <2>4, PaymentStep DEF Paid
  <2>. QED BY <2>1, <2>5 DEF PayerMoves
<1>7. "none" \in Flaws /\ txn[t].net \in Int /\ txn[t].net - 1 \in Int
  BY <1>0, PayFields DEF Flaws
<1>. QED BY <1>2, <1>3, <1>4, <1>5, <1>6, <1>7 DEF PayerStep

-----------------------------------------------------------------------------
(* Jobs and requests move.                                                 *)

SubsOK ==
  /\ sub \in [Subs -> SubRows]
  /\ \A s \in Subs : sub[s].status # "absent" => sub[s].left < sub[s].term
  /\ \A s \in Subs : sub[s].status = "active" => sub[s].plan \in Plans
TxnsOK ==
  /\ txn \in [Txns -> Payments]
  /\ \A t \in Txns : txn[t].kind = "subscription_adjustment" => txn[t].sub \in Subs
WorkOK ==
  worker \in [Workers -> Works] /\ \A w \in Workers : Fits(w, worker[w])
SpawnOK ==
  spawned \in [Txns -> 0..1] /\ \A t \in Txns : spawned[t] > 0 => Paid(t)
OtherOK ==
  /\ onSale \subseteq Plans /\ audit \in Seq(Audits) /\ Len(audit) <= MaxChanges
  /\ group \in Plans \cup {NoPlan} /\ live \in Plans \cup {NoPlan}
  /\ disturbed \in BOOLEAN /\ failures \in 0..MaxFailures

LEMMA Parts == Typed => SubsOK /\ TxnsOK /\ WorkOK /\ SpawnOK /\ OtherOK
BY DEF StateOK, Typed, RowsInv, SubsOK, TxnsOK, WorkOK, SpawnOK, OtherOK

LEMMA PartsNext ==
  ASSUME SubsOK', TxnsOK', WorkOK', SpawnOK', OtherOK'
  PROVE  Typed'
BY DEF SubsOK, TxnsOK, WorkOK, SpawnOK, OtherOK, Typed, RowsInv, StateOK

LEMMA FailsType == ASSUME Typed, Fails PROVE failures' \in 0..MaxFailures
<1>1. failures \in 0..MaxFailures /\ MaxFailures \in Nat
  BY PlanChangeAssumption DEF StateOK, Typed
<1>. QED BY <1>1 DEF Fails

\* A step of worker w that changes no row but the wishes of the quiet ones.
Quiet(w, x) ==
  /\ x \in Works /\ Fits(w, x) /\ worker' = [worker EXCEPT ![w] = x]
  /\ UNCHANGED <<sub, onSale, audit, group>>

LEMMA QuietStep ==
  ASSUME Typed, NEW w \in Workers, NEW x, Quiet(w, x), TxnKeeps, TxnsOK', SpawnOK',
         live' \in Plans \cup {NoPlan}, disturbed' \in BOOLEAN, failures' \in 0..MaxFailures
  PROVE  Typed'
<1>1. SubsOK /\ OtherOK
  BY Parts
<1>2. SubsOK' /\ OtherOK'
  BY <1>1 DEF Quiet, SubsOK, OtherOK
<1>3. WorkOK'
  BY WorkersMove DEF Quiet, WorkOK
<1>. QED BY <1>2, <1>3, PartsNext

\* The same when payments, speeds and failures stay as well.
LEMMA QuieterStep ==
  ASSUME Typed, NEW w \in Workers, NEW x, Quiet(w, x), UNCHANGED <<txn, spawned>>,
         live' \in Plans \cup {NoPlan}, disturbed' \in BOOLEAN, failures' \in 0..MaxFailures
  PROVE  Typed'
<1>1. TxnKeeps /\ TxnsOK'
  BY PaymentsUnchanged DEF TxnsOK
<1>2. SpawnOK'
  BY Parts DEF SpawnOK, Paid
<1>. QED BY <1>1, <1>2, QuietStep

LEMMA IdleFits == \A w : Fits(w, Idle)
BY IdleType DEF Fits, JobFits, RequestFits

LEMMA NextAttemptFits ==
  ASSUME Typed, NEW j \in Jobs, worker[j].pc \in {"claiming", "claimed", "strayed"}
  PROVE  NextAttempt(worker[j]) \in Works /\ Fits(j, NextAttempt(worker[j]))
<1>1. worker[j] \in Works /\ JobFits(worker[j])
  BY Parts DEF WorkOK, Workers, Fits
<1>2. NextAttempt(worker[j]) \in Works /\ JobFits(NextAttempt(worker[j]))
  BY <1>1, NextAttemptType DEF JobFits
<1>. QED BY <1>2 DEF Fits

LEMMA DoneFits ==
  ASSUME Typed, NEW w \in Workers,
         (w \in Jobs /\ worker[w].pc \in {"claiming", "claimed", "strayed"})
            \/ (w \in Requests /\ worker[w].pc = "checked")
  PROVE  /\ Done(worker[w]) \in Works /\ Fits(w, Done(worker[w]))
         /\ Done(worker[w]).pc \in {"idle", "coa"}
<1>. PICK y : y = worker[w]
  OBVIOUS
<1>0. y \in Works /\ Fits(w, y)
  BY Parts DEF WorkOK
<1>. DEFINE x == [y EXCEPT !.pc = "coa"]
<1>1. x \in Works /\ x.pc = "coa" /\ x.txn = y.txn /\ x.sub = y.sub
  BY <1>0, WorkPc DEF WorkSteps
<1>2. Done(y) = IF y.txn # NoTxn /\ txn[y.txn].kind = "subscription" THEN Idle ELSE x
  BY DEF Done
<1>. HIDE DEF x
<1>3. ~(y.txn # NoTxn /\ txn[y.txn].kind = "subscription") => Fits(w, x)
  <2>1. CASE w \in Jobs
    <3>1. /\ y.txn \in Txns /\ Paid(y.txn) /\ y.sub = txn[y.txn].sub
      <4>1. w \notin Requests
        BY <2>1, PlanChangeAssumption
      <4>. QED BY <1>0, <2>1, <4>1 DEF Fits, JobFits
    <3>2. y.txn # NoTxn /\ txn[y.txn] \in Payments
      BY <3>1, PlanChangeAssumption, Parts DEF TxnsOK
    <3>3. txn[y.txn].kind = "subscription_adjustment" => y.sub \in Subs
      BY <3>1, Parts DEF TxnsOK
    <3>4. txn[y.txn].kind \in {"subscription", "subscription_adjustment"}
      BY <3>2, PayFields
    <3>. QED BY <1>1, <2>1, <3>1, <3>2, <3>3, <3>4 DEF Fits, JobFits
  <2>2. CASE w \in Requests
    <3>1. w \notin Jobs
      BY <2>2, PlanChangeAssumption
    <3>. QED BY <1>0, <1>1, <2>2, <3>1 DEF Fits, RequestFits
  <2>. QED BY <2>1, <2>2 DEF Workers
<1>. QED BY <1>1, <1>2, <1>3, IdleFits, IdleType

-----------------------------------------------------------------------------
(* Steps that buy nothing.                                                 *)

\* No row says more about who bought what, and no claim begins.
BuysNothing ==
  /\ UNCHANGED audit /\ TxnKeeps
  /\ \A s \in Subs : sub'[s].by = sub[s].by
  /\ \A t \in Txns : txn'[t].marker = txn[t].marker
ClaimsKept == \A j \in Jobs : worker'[j].pc \in Entered => worker'[j] = worker[j]

\* A claim begins: of a payment without a marker that nobody else has claimed.
ClaimTaken(j) ==
  /\ worker'[j].txn = worker[j].txn /\ worker[j].txn \in Txns
  /\ worker'[j].pc = "claimed"
  /\ ~txn[worker[j].txn].marker
  /\ \A k \in Jobs : ~(worker[k].pc = "claimed" /\ worker[k].txn = worker[j].txn)
  /\ \A k \in Jobs \ {j} : worker'[k] = worker[k]

\* A claim is lost: its job goes on as if nothing had happened.
ClaimLost(j) ==
  /\ worker[j].pc = "claimed" /\ worker[j].txn \in Txns
  /\ worker'[j].pc = "strayed" /\ worker'[j].txn = worker[j].txn
  /\ lockLosses' = lockLosses + 1
  /\ \A k \in Jobs \ {j} : worker'[k] = worker[k]

LEMMA QuietBuysNothing ==
  ASSUME Typed, NEW w \in Workers, NEW x, Quiet(w, x), UNCHANGED txn, x.pc \notin Entered
  PROVE  BuysNothing /\ ClaimsKept
<1>1. TxnKeeps
  BY PaymentsUnchanged
<1>2. worker'[w] = x /\ \A v \in Workers : v # w => worker'[v] = worker[v]
  BY Parts DEF Quiet, WorkOK
<1>. QED BY <1>1, <1>2 DEF Quiet, BuysNothing, ClaimsKept, Workers

LEMMA StartStep ==
  ASSUME Typed, NEW j \in Jobs, NEW t \in Txns, Start(j, t)
  PROVE  Typed' /\ BuysNothing /\ ClaimsKept
<1>0. SpawnOK /\ TxnsOK /\ OtherOK /\ j \in Workers
  BY Parts DEF Workers
<1>. PICK y : y = txn[t]
  OBVIOUS
<1>1. y \in Payments /\ y.sub \in Subs \cup {NoSub} /\ y.plan \in Plans \cup {NoPlan}
  BY <1>0, PayFields DEF TxnsOK
<1>. DEFINE x == [pc |-> "claiming", txn |-> t, sub |-> y.sub, plan |-> y.plan, attempt |-> 1]
<1>2. x \in Works
  BY <1>1 DEF Works, WorkSteps, fulfillmentMaxAttempts
<1>3. x.pc = "claiming" /\ x.txn = t /\ x.sub = y.sub
  OBVIOUS
<1>4. worker' = [worker EXCEPT ![j] = x] /\ spawned' = [spawned EXCEPT ![t] = 0]
      /\ UNCHANGED <<sub, onSale, txn, audit, Radius, failures>> /\ spawned[t] > 0
  BY DEF Start
<1>. HIDE DEF x
<1>5. Paid(t)
  BY <1>0, <1>4 DEF SpawnOK
<1>6. Quiet(j, x)
  BY <1>2, <1>3, <1>4, <1>5 DEF Quiet, Fits, JobFits, Radius
<1>7. TxnKeeps /\ TxnsOK'
  BY <1>4, PaymentsUnchanged DEF TxnsOK
<1>8. SpawnOK'
  <2>1. spawned' \in [Txns -> 0..1] /\ \A u \in Txns : spawned'[u] > 0 => spawned[u] > 0
    BY <1>0, <1>4 DEF SpawnOK
  <2>. QED BY <1>0, <1>4, <2>1 DEF SpawnOK, Paid
<1>9. Typed'
  BY <1>0, <1>4, <1>6, <1>7, <1>8, QuietStep DEF OtherOK, Radius
<1>. QED BY <1>0, <1>3, <1>4, <1>6, <1>9, QuietBuysNothing

LEMMA ClaimStep ==
  ASSUME Typed, NEW j \in Jobs, Claim(j)
  PROVE  Typed' /\ BuysNothing /\ (ClaimsKept \/ ClaimTaken(j))
<1>. PICK y : y = worker[j]
  OBVIOUS
<1>0. /\ OtherOK /\ j \in Workers /\ y \in Works /\ y.pc = "claiming" /\ y.txn \in Txns
  BY Parts DEF Workers, Claim, WorkOK, Fits, JobFits
<1>1. UNCHANGED <<sub, onSale, txn, spawned, audit, Radius, failures>>
  BY DEF Claim
<1>2. CASE txn[y.txn].marker
  <2>1. worker' = [worker EXCEPT ![j] = Done(y)]
    BY <1>2 DEF Claim
  <2>2. Done(y) \in Works /\ Fits(j, Done(y)) /\ Done(y).pc \in {"idle", "coa"}
    BY <1>0, DoneFits
  <2>3. Quiet(j, Done(y))
    BY <1>1, <2>1, <2>2 DEF Quiet, Radius
  <2>. QED BY <1>0, <1>1, <2>2, <2>3, QuieterStep, QuietBuysNothing DEF OtherOK, Radius
<1>3. CASE ~txn[y.txn].marker
  <2>. DEFINE x == [y EXCEPT !.pc = "claimed"]
  <2>1. worker' = [worker EXCEPT ![j] = x]
    BY <1>3 DEF Claim
  <2>2. x \in Works /\ x.pc = "claimed" /\ x.txn = y.txn /\ x.sub = y.sub
    BY <1>0, WorkPc DEF WorkSteps
  <2>. HIDE DEF x
  <2>3. JobFits(y)
    BY Parts DEF Workers, WorkOK, Fits
  <2>4. Quiet(j, x)
    BY <1>0, <1>1, <2>1, <2>2, <2>3 DEF Quiet, Fits, JobFits, Radius
  <2>5. Typed'
    BY <1>0, <1>1, <2>4, QuieterStep DEF OtherOK, Radius
  <2>6. worker'[j] = x /\ \A k \in Jobs \ {j} : worker'[k] = worker[k]
    BY <2>1, Parts DEF WorkOK, Workers
  <2>7. ClaimTaken(j)
    BY <1>0, <1>3, <2>2, <2>6 DEF ClaimTaken, Claim
  <2>8. BuysNothing
    BY <1>1, PaymentsUnchanged DEF BuysNothing
  <2>. QED BY <2>5, <2>7, <2>8
<1>. QED BY <1>2, <1>3

LEMMA LockLostStep ==
  ASSUME Typed, NEW j \in Jobs, LockLost(j)
  PROVE  /\ Typed' /\ BuysNothing /\ ClaimLost(j)
         /\ \E x \in Works : /\ Fits(j, x) /\ worker' = [worker EXCEPT ![j] = x]
                           /\ x.pc = "strayed" /\ x.txn = worker[j].txn
                           /\ x.sub = worker[j].sub /\ x.plan = worker[j].plan
<1>. PICK y : y = worker[j]
  OBVIOUS
<1>. DEFINE x == [y EXCEPT !.pc = "strayed"]
<1>0. /\ OtherOK /\ j \in Workers /\ y \in Works /\ JobFits(y) /\ y.pc = "claimed"
      /\ failures' \in 0..MaxFailures /\ UNCHANGED <<sub, onSale, txn, spawned, audit, Radius>>
      /\ worker' = [worker EXCEPT ![j] = x]
  BY Parts, FailsType DEF Workers, LockLost, WorkOK, Fits
<1>1. x \in Works /\ x.pc = "strayed" /\ x.txn = y.txn /\ x.sub = y.sub /\ x.plan = y.plan
  BY <1>0, WorkPc DEF WorkSteps
<1>. HIDE DEF x
<1>2. Quiet(j, x)
  BY <1>0, <1>1 DEF Quiet, Fits, JobFits, Radius
<1>3. Typed'
  BY <1>0, <1>2, QuieterStep DEF OtherOK, Radius
<1>4. worker'[j] = x /\ \A k \in Jobs \ {j} : worker'[k] = worker[k]
  BY <1>0, Parts DEF WorkOK, Workers
<1>5. BuysNothing
  BY <1>0, PaymentsUnchanged DEF BuysNothing
<1>6. y.txn \in Txns
  BY <1>0 DEF JobFits
<1>7. lockLosses' = lockLosses + 1
  BY DEF LockLost
<1>8. Fits(j, x)
  BY <1>2 DEF Quiet
<1>9. ClaimLost(j)
  BY <1>0, <1>1, <1>4, <1>6, <1>7 DEF ClaimLost
<1>. QED BY <1>0, <1>1, <1>3, <1>5, <1>8, <1>9

LEMMA AttemptFailsStep ==
  ASSUME Typed, NEW j \in Jobs, AttemptFails(j)
  PROVE  Typed' /\ BuysNothing /\ ClaimsKept
<1>. PICK x : x = NextAttempt(worker[j])
  OBVIOUS
<1>0. /\ OtherOK /\ j \in Workers /\ failures' \in 0..MaxFailures
      /\ UNCHANGED <<sub, onSale, txn, spawned, audit, Radius>>
      /\ worker' = [worker EXCEPT ![j] = x]
  BY Parts, FailsType DEF Workers, AttemptFails
<1>1. x \in Works /\ Fits(j, x)
  BY NextAttemptFits DEF AttemptFails
<1>2. x.pc \in {"idle", "claiming"}
  BY <1>0, Parts, NextAttemptType DEF WorkOK
<1>3. Quiet(j, x)
  BY <1>0, <1>1 DEF Quiet, Radius
<1>. QED BY <1>0, <1>2, <1>3, QuieterStep, QuietBuysNothing DEF OtherOK, Radius

LEMMA RefusePaidStep ==
  ASSUME Typed, NEW j \in Jobs, RefusePaid(j)
  PROVE  Typed' /\ BuysNothing /\ ClaimsKept
<1>. PICK x, t, e : /\ x = NextAttempt(worker[j]) /\ t = worker[j].txn
                   /\ e \in {"underpaid", "other"}
                   /\ txn' = [txn EXCEPT ![t].refusal = e]
  BY DEF RefusePaid
<1>0. /\ OtherOK /\ TxnsOK /\ SpawnOK /\ j \in Workers
      /\ UNCHANGED <<sub, onSale, spawned, audit, Radius, failures>>
      /\ worker' = [worker EXCEPT ![j] = x] /\ worker[j].pc \in Entered
  BY Parts DEF Workers, RefusePaid
<1>1. t \in Txns /\ txn[t] \in Payments
  BY <1>0, Parts DEF WorkOK, Fits, JobFits, TxnsOK
<1>2. x \in Works /\ Fits(j, x) /\ x.pc \in {"idle", "claiming"}
  BY <1>0, NextAttemptFits, Parts, NextAttemptType DEF WorkOK
<1>. DEFINE m == [txn[t] EXCEPT !.refusal = e]
<1>3. txn' = [txn EXCEPT ![t] = m]
  OBVIOUS
<1>4. /\ m \in Payments /\ m.state = txn[t].state /\ m.kind = txn[t].kind
      /\ m.sub = txn[t].sub /\ m.marker = txn[t].marker /\ m.amount = txn[t].amount
  BY <1>1, PayRefusal
<1>. HIDE DEF m
<1>5. PaymentFits(m) /\ KeptPayment(txn[t], m)
  BY <1>0, <1>1, <1>4 DEF PaymentFits, KeptPayment, TxnsOK
<1>6. TxnsOK' /\ TxnKeeps
  BY <1>1, <1>3, <1>5, PaymentsKept DEF TxnsOK
<1>7. SpawnOK'
  BY <1>0, <1>6 DEF SpawnOK, Paid, TxnKeeps, KeptPayment
<1>8. Quiet(j, x)
  BY <1>0, <1>2 DEF Quiet, Radius
<1>9. Typed'
  BY <1>0, <1>6, <1>7, <1>8, QuietStep DEF OtherOK, Radius
<1>10. \A u \in Txns : txn'[u].marker = txn[u].marker
  BY <1>0, <1>1, <1>3, <1>4 DEF TxnsOK
<1>11. ClaimsKept
  <2>1. worker'[j] = x /\ \A k \in Jobs \ {j} : worker'[k] = worker[k]
    BY <1>0, Parts DEF WorkOK, Workers
  <2>. QED BY <1>2, <2>1 DEF ClaimsKept
<1>. QED BY <1>0, <1>6, <1>9, <1>10, <1>11 DEF BuysNothing

LEMMA FreeCheckStep ==
  ASSUME Typed, NEW r \in Requests, NEW s \in Subs, NEW p \in Plans, FreeCheck(r, s, p)
  PROVE  Typed' /\ BuysNothing /\ ClaimsKept
<1>. DEFINE x == [pc |-> "checked", txn |-> NoTxn, sub |-> s, plan |-> p, attempt |-> 1]
<1>1. /\ worker' = [worker EXCEPT ![r] = x]
      /\ UNCHANGED <<sub, onSale, txn, spawned, audit, Radius, failures>>
  BY DEF FreeCheck
<1>2. x \in Works /\ x.pc = "checked" /\ x.txn = NoTxn /\ x.sub = s
  BY DEF Works, WorkSteps, fulfillmentMaxAttempts
<1>. HIDE DEF x
<1>3. OtherOK /\ r \in Workers /\ r \notin Jobs
  BY Parts, PlanChangeAssumption DEF Workers
<1>4. Quiet(r, x)
  BY <1>1, <1>2, <1>3 DEF Quiet, Fits, RequestFits, Radius
<1>. QED BY <1>1, <1>2, <1>3, <1>4, QuieterStep, QuietBuysNothing DEF OtherOK, Radius

\* A worker gives up, or is done.
LEMMA ToIdleStep ==
  ASSUME Typed, NEW w \in Workers, worker' = [worker EXCEPT ![w] = Idle],
         UNCHANGED <<sub, onSale, txn, spawned, audit, group>>,
         live' \in Plans \cup {NoPlan}, disturbed' \in BOOLEAN, failures' \in 0..MaxFailures
  PROVE  Typed' /\ BuysNothing /\ ClaimsKept
<1>1. Quiet(w, Idle)
  BY IdleFits, IdleType DEF Quiet
<1>. QED BY <1>1, IdleType, QuieterStep, QuietBuysNothing

LEMMA FreeRefusedStep ==
  ASSUME Typed, NEW r \in Requests, FreeRefused(r)
  PROVE  Typed' /\ BuysNothing /\ ClaimsKept
<1>1. OtherOK /\ r \in Workers
  BY Parts DEF Workers
<1>2. failures' \in 0..MaxFailures
  BY <1>1, FailsType DEF FreeRefused, OtherOK
<1>. QED BY <1>1, <1>2, ToIdleStep DEF FreeRefused, OtherOK, Radius

LEMMA CoaPushStep ==
  ASSUME Typed, NEW w \in Workers, CoaPush(w)
  PROVE  Typed' /\ BuysNothing /\ ClaimsKept
<1>1. OtherOK /\ worker[w] \in Works
  BY Parts DEF WorkOK
<1>2. live' \in Plans \cup {NoPlan}
  BY <1>1, WorkFields DEF CoaPush
<1>. QED BY <1>1, <1>2, ToIdleStep DEF CoaPush, OtherOK

LEMMA CoaFailsStep ==
  ASSUME Typed, NEW w \in Workers, CoaFails(w)
  PROVE  Typed' /\ BuysNothing /\ ClaimsKept
<1>1. OtherOK
  BY Parts
<1>. QED BY <1>1, FailsType, ToIdleStep DEF CoaFails, OtherOK

LEMMA CoaReadStep ==
  ASSUME Typed, NEW w \in Workers, CoaRead(w)
  PROVE  Typed' /\ BuysNothing /\ ClaimsKept
<1>. PICK y, p : y = worker[w] /\ p = sub[worker[w].sub].plan
  OBVIOUS
<1>0. /\ OtherOK /\ y \in Works /\ y.pc = "coa" /\ Fits(w, y)
      /\ UNCHANGED <<sub, onSale, txn, spawned, audit, Radius, failures>>
  BY Parts DEF CoaRead, WorkOK
<1>1. y.sub \in Subs
  BY <1>0 DEF Fits, JobFits, RequestFits
<1>2. p \in Plans \cup {NoPlan}
  BY <1>1, Parts DEF SubsOK, SubRows
<1>. DEFINE a == [y EXCEPT !.pc = "push"]
            x == [a EXCEPT !.plan = p]
<1>3. worker' = [worker EXCEPT ![w] = x]
  BY DEF CoaRead
<1>4. a \in Works /\ a.pc = "push" /\ a.txn = y.txn /\ a.sub = y.sub
  BY <1>0, WorkPc DEF WorkSteps
<1>. HIDE DEF a
<1>5. x \in Works /\ x.pc = "push" /\ x.txn = y.txn /\ x.sub = y.sub
  BY <1>2, <1>4 DEF Works
<1>. HIDE DEF x
<1>6. Fits(w, x)
  BY <1>0, <1>1, <1>5 DEF Fits, JobFits, RequestFits
<1>7. Quiet(w, x)
  BY <1>0, <1>3, <1>5, <1>6 DEF Quiet, Radius
<1>. QED BY <1>0, <1>5, <1>7, QuieterStep, QuietBuysNothing DEF OtherOK, Radius

-----------------------------------------------------------------------------
(* Time, Django, RADIUS and the process.                                   *)

\* Steps that leave payments and goroutines alone.
LEMMA StillStep ==
  ASSUME Typed, UNCHANGED <<txn, spawned, worker>>, SubsOK', OtherOK'
  PROVE  Typed'
<1>1. TxnKeeps /\ TxnsOK'
  BY PaymentsUnchanged DEF TxnsOK
<1>2. SpawnOK'
  BY Parts DEF SpawnOK, Paid
<1>3. WorkOK'
  BY <1>1, WorkersStay DEF WorkOK
<1>. QED BY <1>1, <1>2, <1>3, PartsNext

LEMMA StillBuysNothing ==
  ASSUME Typed, UNCHANGED <<txn, audit>>, \A s \in Subs : sub'[s].by = sub[s].by
  PROVE  BuysNothing
BY PaymentsUnchanged DEF BuysNothing

LEMMA DayPassesStep ==
  ASSUME Typed, DayPasses
  PROVE  Typed' /\ BuysNothing /\ ClaimsKept
<1>0. SubsOK /\ OtherOK /\ UNCHANGED <<onSale, txn, spawned, worker, audit, Radius, failures>>
  BY Parts DEF DayPasses
<1>1. ASSUME NEW s \in Subs
      PROVE  /\ sub'[s] \in SubRows /\ sub'[s].left <= sub[s].left
             /\ sub'[s].status = sub[s].status /\ sub'[s].plan = sub[s].plan
             /\ sub'[s].term = sub[s].term /\ sub'[s].by = sub[s].by
  <2>. PICK y : y = sub[s]
    OBVIOUS
  <2>1. y \in SubRows /\ y.left \in Nat
    BY <1>0 DEF SubsOK, SubRows
  <2>. PICK n \in Nat : n <= y.left /\ n = IF y.left > 0 THEN y.left - 1 ELSE 0
    BY <2>1
  <2>2. sub'[s] = [y EXCEPT !.left = n]
    BY DEF DayPasses
  <2>. QED BY <2>1, <2>2 DEF SubRows
<1>2. sub' \in [Subs -> SubRows]
  BY <1>1 DEF DayPasses
<1>3. SubsOK'
  <2>1. ASSUME NEW s \in Subs, sub'[s].status # "absent"
        PROVE  sub'[s].left < sub'[s].term
    <3>1. sub[s].left \in Nat /\ sub[s].term \in Nat /\ sub'[s].left \in Nat
      BY <1>0, <1>1 DEF SubsOK, SubRows
    <3>2. sub[s].left < sub[s].term
      BY <1>0, <1>1, <2>1 DEF SubsOK
    <3>. QED BY <1>1, <3>1, <3>2
  <2>. QED BY <1>0, <1>1, <1>2, <2>1 DEF SubsOK
<1>. QED BY <1>0, <1>1, <1>3, StillStep, StillBuysNothing DEF OtherOK, Radius, ClaimsKept

LEMMA ExpireStep ==
  ASSUME Typed, NEW s \in Subs, Expire(s)
  PROVE  Typed' /\ BuysNothing /\ ClaimsKept
<1>0. SubsOK /\ OtherOK /\ UNCHANGED <<onSale, txn, spawned, worker, audit, Radius, failures>>
  BY Parts DEF Expire
<1>. DEFINE x == [sub[s] EXCEPT !.status = "expired"]
<1>1. x \in SubRows /\ x.status = "expired" /\ x.left = sub[s].left /\ x.term = sub[s].term
      /\ x.by = sub[s].by
  BY <1>0 DEF SubsOK, SubRows
<1>2. sub' = [sub EXCEPT ![s] = x] /\ sub[s].status = "active"
  BY DEF Expire
<1>. HIDE DEF x
<1>3. /\ sub' \in [Subs -> SubRows] /\ sub'[s] = x
      /\ \A u \in Subs : u # s => sub'[u] = sub[u]
  BY <1>0, <1>1, <1>2 DEF SubsOK
<1>4. SubsOK'
  BY <1>0, <1>1, <1>2, <1>3 DEF SubsOK
<1>. QED BY <1>0, <1>1, <1>3, <1>4, StillStep, StillBuysNothing DEF OtherOK, Radius, ClaimsKept

LEMMA WithdrawStep ==
  ASSUME Typed, NEW p \in Plans, Withdraw(p)
  PROVE  Typed' /\ BuysNothing /\ ClaimsKept
<1>0. /\ SubsOK /\ OtherOK
      /\ UNCHANGED <<sub, txn, spawned, worker, audit, Radius, failures>>
      /\ onSale' \subseteq onSale
  BY Parts DEF Withdraw
<1>1. SubsOK' /\ OtherOK'
  BY <1>0 DEF SubsOK, OtherOK, Radius
<1>. QED BY <1>0, <1>1, StillStep, StillBuysNothing DEF ClaimsKept

LEMMA LoginStep ==
  ASSUME Typed, Login
  PROVE  Typed' /\ BuysNothing /\ ClaimsKept
<1>0. /\ SubsOK /\ OtherOK /\ UNCHANGED <<sub, onSale, txn, spawned, worker, audit, group, failures>>
      /\ live' = group /\ disturbed' \in BOOLEAN
  BY Parts DEF Login
<1>1. SubsOK' /\ OtherOK'
  BY <1>0 DEF SubsOK, OtherOK
<1>. QED BY <1>0, <1>1, StillStep, StillBuysNothing DEF ClaimsKept

LEMMA CrashStep ==
  ASSUME Typed, Crash
  PROVE  Typed' /\ BuysNothing /\ ClaimsKept
<1>0. /\ SubsOK /\ OtherOK /\ SpawnOK /\ WorkOK /\ failures' \in 0..MaxFailures
      /\ UNCHANGED <<sub, onSale, txn, audit, group, live>> /\ disturbed' = TRUE
  BY Parts, FailsType DEF Crash
<1>1. TxnKeeps /\ TxnsOK'
  BY <1>0, PaymentsUnchanged DEF TxnsOK
<1>2. spawned' \in [Txns -> 0..1] /\ \A t \in Txns : ~(spawned'[t] > 0)
  BY DEF Crash
<1>3. worker' = [w \in Workers |-> Idle]
  BY <1>0 DEF WorkOK, Crash
<1>4. worker' \in [Workers -> Works] /\ \A w \in Workers : worker'[w].pc = "idle"
  BY <1>3, IdleType
<1>5. WorkOK'
  BY <1>4 DEF WorkOK, Fits, JobFits, RequestFits
<1>6. SubsOK' /\ OtherOK' /\ SpawnOK'
  BY <1>0, <1>2 DEF SubsOK, OtherOK, SpawnOK
<1>. QED BY <1>0, <1>1, <1>4, <1>5, <1>6, PartsNext, StillBuysNothing DEF ClaimsKept, Workers

LEMMA PayerBuysNothing ==
  ASSUME Typed, NEW t \in Txns, PayerMoves(t)
  PROVE  BuysNothing /\ ClaimsKept
<1>1. UNCHANGED <<worker, sub, audit>>
  BY DEF PayerMoves, Rest
<1>2. ASSUME NEW m, PaymentFits(m), KeptPayment(txn[t], m), m.marker = txn[t].marker,
             txn' = [txn EXCEPT ![t] = m]
      PROVE  BuysNothing
  <2>1. TxnKeeps
    BY <1>2, PaymentsKept
  <2>2. \A u \in Txns : txn'[u].marker = txn[u].marker
    BY <1>2, Parts DEF TxnsOK
  <2>. QED BY <1>1, <2>1, <2>2 DEF BuysNothing
<1>3. ASSUME UNCHANGED txn PROVE BuysNothing
  BY <1>1, <1>3, StillBuysNothing
<1>. QED BY <1>1, <1>2, <1>3 DEF PayerMoves, ClaimsKept

-----------------------------------------------------------------------------
(* Steps that buy.                                                         *)

\* Worker w leaves its claim and payment t, if it is one, gets its marker.
Marks(w, t) ==
  /\ TxnKeeps /\ worker'[w].pc \notin Entered
  /\ \A v \in Workers \ {w} : worker'[v] = worker[v]
  /\ \A u \in Txns : txn'[u].marker = (txn[u].marker \/ u = t)

LEMMA Leaves ==
  ASSUME Typed, NEW w \in Workers, NEW x \in Works,
         worker' = [worker EXCEPT ![w] = x], x.pc \notin Entered
  PROVE  worker'[w].pc \notin Entered /\ \A v \in Workers \ {w} : worker'[v] = worker[v]
BY Parts DEF WorkOK

\* What the customer, the days and the goroutines are to a marked payment.
LEMMA MarkedPayment ==
  ASSUME Typed, NEW t \in Txns, txn' = [txn EXCEPT ![t].marker = TRUE]
  PROVE  TxnsOK' /\ TxnKeeps /\ \A u \in Txns : txn'[u].marker = (txn[u].marker \/ u = t)
<1>0. TxnsOK /\ txn[t] \in Payments
  BY Parts DEF TxnsOK
<1>. DEFINE m == [txn[t] EXCEPT !.marker = TRUE]
<1>1. txn' = [txn EXCEPT ![t] = m]
  OBVIOUS
<1>2. /\ m \in Payments /\ m.marker = TRUE /\ m.state = txn[t].state
      /\ m.kind = txn[t].kind /\ m.sub = txn[t].sub /\ m.amount = txn[t].amount
  <2>1. m \in Payments /\ m.marker /\ m.state = txn[t].state
        /\ m.kind = txn[t].kind /\ m.sub = txn[t].sub /\ m.amount = txn[t].amount
    BY <1>0, PayMarker
  <2>2. m.marker = TRUE
    BY <1>0 DEF Payments
  <2>. QED BY <2>1, <2>2
<1>. HIDE DEF m
<1>3. PaymentFits(m) /\ KeptPayment(txn[t], m)
  BY <1>0, <1>2 DEF PaymentFits, KeptPayment, TxnsOK
<1>4. TxnsOK' /\ TxnKeeps
  BY <1>1, <1>3, PaymentsKept DEF TxnsOK
<1>5. txn'[t] = m /\ \A u \in Txns : u # t => txn'[u] = txn[u]
  BY <1>0, <1>1 DEF TxnsOK
<1>6. \A u \in Txns : txn[u].marker \in BOOLEAN
  BY <1>0, PayFields DEF TxnsOK
<1>7. ASSUME NEW u \in Txns PROVE txn'[u].marker = (txn[u].marker \/ u = t)
  <2>1. CASE u = t
    BY <1>2, <1>5, <2>1
  <2>2. CASE u # t
    BY <1>5, <1>6, <2>2
  <2>. QED BY <2>1, <2>2
<1>. QED BY <1>4, <1>7

LEMMA FreshType ==
  ASSUME NEW p \in Plans, NEW t \in Txns
  PROVE  /\ Fresh(p, t) \in SubRows /\ Fresh(p, t).left < Fresh(p, t).term
         /\ Fresh(p, t).plan = p /\ Fresh(p, t).by = t
<1>. PICK term \in Nat \ {0} : term = IF Period[p] > 0 THEN Period[p] ELSE 30
  BY PlanChangeAssumption
<1>1. Fresh(p, t) = [status |-> "active", plan |-> p, term |-> term, left |-> term - 1, by |-> t]
  BY DEF Fresh
<1>. QED BY <1>1 DEF SubRows

LEMMA SubscribeStep ==
  ASSUME Typed, NEW j \in Jobs, NEW s \in Subs, Subscribe(j, s)
  PROVE  /\ Typed' /\ Marks(j, worker[j].txn) /\ worker[j].txn \in Txns
         /\ UNCHANGED audit /\ sub[s].by = NoTxn /\ sub'[s].by = worker[j].txn
         /\ \A u \in Subs \ {s} : sub'[u].by = sub[u].by
<1>. PICK t, p : t = worker[j].txn /\ p = worker[j].plan
  OBVIOUS
<1>0. /\ SubsOK /\ TxnsOK /\ SpawnOK /\ OtherOK /\ WorkOK /\ j \in Workers
      /\ worker[j].pc \in Entered /\ p \in Plans
  BY Parts DEF Workers, Subscribe, OtherOK
<1>1. t \in Txns
  BY <1>0 DEF WorkOK, Fits, JobFits
<1>2. /\ sub' = [sub EXCEPT ![s] = Fresh(p, t)] /\ sub[s] = Absent
      /\ txn' = [txn EXCEPT ![t].marker = TRUE]
      /\ UNCHANGED <<onSale, spawned, audit, live>> /\ group' = p
  BY DEF Subscribe, Rewrite
<1>3. disturbed' \in BOOLEAN
  BY DEF Subscribe, Rewrite
<1>4. failures' \in 0..MaxFailures
  BY <1>0, FailsType DEF Subscribe, OtherOK
<1>5. PICK x \in Works : Fits(j, x) /\ x.pc \notin Entered /\ worker' = [worker EXCEPT ![j] = x]
  <2>1. Done(worker[j]) \in Works /\ Fits(j, Done(worker[j])) /\ Done(worker[j]).pc \notin Entered
    BY <1>0, DoneFits
  <2>2. NextAttempt(worker[j]) \in Works /\ Fits(j, NextAttempt(worker[j]))
        /\ NextAttempt(worker[j]).pc \notin Entered
    BY <1>0, NextAttemptFits, NextAttemptType DEF WorkOK
  <2>3. \/ worker' = [worker EXCEPT ![j] = Done(worker[j])]
        \/ worker' = [worker EXCEPT ![j] = NextAttempt(worker[j])]
    BY DEF Subscribe
  <2>. QED BY <2>1, <2>2, <2>3
<1>6. TxnsOK' /\ TxnKeeps /\ \A u \in Txns : txn'[u].marker = (txn[u].marker \/ u = t)
  BY <1>1, <1>2, MarkedPayment
<1>7. WorkOK'
  BY <1>0, <1>5, <1>6, WorkersMove DEF WorkOK
<1>8. SpawnOK'
  BY <1>0, <1>2, <1>6 DEF SpawnOK, Paid, TxnKeeps, KeptPayment
<1>. PICK f : f = Fresh(p, t)
  OBVIOUS
<1>9. f \in SubRows /\ f.left < f.term /\ f.plan = p /\ f.by = t
  BY <1>0, <1>1, FreshType
<1>10. sub' \in [Subs -> SubRows] /\ sub'[s] = f /\ \A u \in Subs : u # s => sub'[u] = sub[u]
  BY <1>0, <1>2, <1>9 DEF SubsOK
<1>11. SubsOK'
  BY <1>0, <1>9, <1>10 DEF SubsOK
<1>12. OtherOK'
  BY <1>0, <1>2, <1>3, <1>4 DEF OtherOK
<1>13. Typed'
  BY <1>6, <1>7, <1>8, <1>11, <1>12, PartsNext
<1>14. Marks(j, t)
  BY <1>0, <1>5, <1>6, Leaves DEF Marks
<1>15. sub[s].by = NoTxn
  BY <1>2 DEF Absent
<1>. QED BY <1>1, <1>2, <1>9, <1>10, <1>13, <1>14, <1>15

LEMMA Appended ==
  ASSUME NEW S, NEW q \in Seq(S), NEW a \in S
  PROVE  /\ Append(q, a) \in Seq(S) /\ Len(Append(q, a)) = Len(q) + 1
         /\ Len(q) \in Nat /\ DOMAIN q = 1..Len(q)
         /\ Append(q, a)[Len(q) + 1] = a
         /\ \A i \in 1..Len(q) : Append(q, a)[i] = q[i]
OBVIOUS

\* Worker w becomes x and makes change p of subscription s, for payment t or NoTxn.
Changes(w, t, s, p, x) ==
  /\ Change(w, t, s, p, TRUE) \/ Change(w, t, s, p, FALSE)
  /\ sub[s].status = "active" /\ p \in onSale
  /\ x \in Works /\ Fits(w, x) /\ x.pc \notin Entered /\ worker' = [worker EXCEPT ![w] = x]
  /\ UNCHANGED <<onSale, spawned>> /\ failures' \in 0..MaxFailures

LEMMA ChangeStep ==
  ASSUME Typed, NEW w \in Workers, NEW t \in Txns \cup {NoTxn}, NEW s \in Subs, NEW p,
         NEW x, Changes(w, t, s, p, x)
  PROVE  /\ Typed' /\ Marks(w, t) /\ \A u \in Subs : sub'[u].by = sub[u].by
         /\ \E a \in Audits : /\ a.txn = t /\ a.net = GuardNet(s, p)
                              /\ audit' = Append(audit, a)
<1>. USE DEF Changes
<1>0. /\ SubsOK /\ TxnsOK /\ SpawnOK /\ OtherOK /\ WorkOK /\ p \in Plans
      /\ MaxChanges \in Nat
  BY Parts, PlanChangeAssumption DEF OtherOK
<1>. PICK n \in Nat : n = GuardNet(s, p)
  BY <1>0, TypedNet
<1>. DEFINE a == [sub |-> s, txn |-> t, net |-> n]
<1>1. a \in Audits /\ a.txn = t /\ a.net = n
  BY DEF Audits
<1>2. audit' = Append(audit, a)
  BY DEF Change
<1>. HIDE DEF a
<1>3. audit' \in Seq(Audits) /\ Len(audit') <= MaxChanges
  <2>1. audit \in Seq(Audits) /\ Len(audit) < MaxChanges
    BY <1>0 DEF OtherOK, Change
  <2>2. audit' \in Seq(Audits) /\ Len(audit') = Len(audit) + 1 /\ Len(audit) \in Nat
    BY <1>1, <1>2, <2>1, Appended
  <2>. QED BY <1>0, <2>1, <2>2
<1>4. OtherOK'
  <2>1. group' = p /\ UNCHANGED live /\ disturbed' \in BOOLEAN
    BY DEF Change, Rewrite
  <2>. QED BY <1>0, <1>3, <2>1 DEF OtherOK
<1>5. TxnsOK' /\ TxnKeeps /\ \A u \in Txns : txn'[u].marker = (txn[u].marker \/ u = t)
  <2>1. txn' = [u \in Txns |-> IF u = t THEN [txn[u] EXCEPT !.marker = TRUE] ELSE txn[u]]
    BY DEF Change
  <2>2. CASE t \in Txns
    <3>1. txn' = [txn EXCEPT ![t].marker = TRUE]
      BY <1>0, <2>1, <2>2 DEF TxnsOK
    <3>. QED BY <2>2, <3>1, MarkedPayment
  <2>3. CASE t \notin Txns
    <3>1. txn' = txn
      BY <1>0, <2>1, <2>3 DEF TxnsOK
    <3>2. TxnsOK' /\ TxnKeeps
      BY <3>1, PaymentsUnchanged DEF TxnsOK
    <3>3. \A u \in Txns : u # t /\ txn[u].marker \in BOOLEAN
      BY <1>0, <2>3, PayFields DEF TxnsOK
    <3>. QED BY <3>1, <3>2, <3>3
  <2>. QED BY <2>2, <2>3
<1>6. WorkOK'
  BY <1>5, WorkersMove DEF WorkOK
<1>7. SpawnOK'
  BY <1>0, <1>5 DEF SpawnOK, Paid, TxnKeeps, KeptPayment
<1>. DEFINE y == [sub[s] EXCEPT !.plan = p]
<1>8. y \in SubRows /\ y.plan = p /\ y.by = sub[s].by /\ y.left = sub[s].left
      /\ y.term = sub[s].term /\ y.status = sub[s].status
  BY <1>0 DEF SubsOK, SubRows
<1>9. sub' = [sub EXCEPT ![s] = y]
  BY DEF Change
<1>. HIDE DEF y
<1>10. sub' \in [Subs -> SubRows] /\ sub'[s] = y /\ \A u \in Subs : u # s => sub'[u] = sub[u]
  BY <1>0, <1>8, <1>9 DEF SubsOK
<1>11. SubsOK'
  BY <1>0, <1>8, <1>10 DEF SubsOK
<1>12. Typed'
  BY <1>4, <1>5, <1>6, <1>7, <1>11, PartsNext
<1>13. Marks(w, t)
  BY <1>5, Leaves DEF Marks
<1>. QED BY <1>1, <1>2, <1>8, <1>10, <1>12, <1>13

LEMMA NotRefused ==
  ASSUME NEW s, NEW p, NEW paid, NEW flaw, Refusal(s, p, paid, flaw) = "none"
  PROVE  sub[s].status = "active" /\ p \in onSale /\ ~(paid < GuardNet(s, p))
BY DEF Refusal

-----------------------------------------------------------------------------
(* Every step.                                                             *)

\* A job spends its claim on another subscription.
Subscribed(j, s) ==
  /\ worker[j].pc \in Entered /\ worker[j].txn \in Txns /\ Marks(j, worker[j].txn)
  /\ UNCHANGED audit /\ sub[s].by = NoTxn /\ sub'[s].by = worker[j].txn
  /\ \A u \in Subs \ {s} : sub'[u].by = sub[u].by

\* A job spends its claim on a change, or a request makes one for nothing.
Changed(w, t, a) ==
  /\ Marks(w, t) /\ \A u \in Subs : sub'[u].by = sub[u].by
  /\ a \in Audits /\ a.txn = t /\ audit' = Append(audit, a)
  /\ t = NoTxn => w \notin Jobs
  /\ t # NoTxn => w \in Jobs /\ worker[w].pc \in Entered /\ worker[w].txn = t
  /\ a.net > 0 => t # NoTxn /\ Cents(txn[t].amount) >= a.net

LEMMA AdjustPaidStep ==
  ASSUME Typed, NEW j \in Jobs, AdjustPaid(j)
  PROVE  Typed' /\ \E t \in Txns : \E a : Changed(j, t, a)
<1>. PICK t, s, p : t = worker[j].txn /\ s = worker[j].sub /\ p = worker[j].plan
  OBVIOUS
<1>0. /\ WorkOK /\ TxnsOK /\ OtherOK /\ j \in Workers /\ worker[j].pc \in Entered
      /\ txn[t].kind = "subscription_adjustment"
      /\ Refusal(s, p, Cents(txn[t].amount), txn[t].flaw) = "none"
  BY Parts DEF Workers, AdjustPaid
<1>1. t \in Txns /\ s = txn[t].sub
  BY <1>0 DEF WorkOK, Fits, JobFits
<1>2. s \in Subs /\ txn[t].amount \in Nat
  BY <1>0, <1>1, PayFields DEF TxnsOK
<1>3. sub[s].status = "active" /\ p \in onSale /\ ~(Cents(txn[t].amount) < GuardNet(s, p))
  BY <1>0, NotRefused
<1>4. UNCHANGED <<onSale, spawned>> /\ failures' \in 0..MaxFailures
  BY <1>0, FailsType DEF AdjustPaid, OtherOK
<1>5. \E x : Changes(j, t, s, p, x)
  <2>1. Done(worker[j]) \in Works /\ Fits(j, Done(worker[j])) /\ Done(worker[j]).pc \notin Entered
    BY <1>0, DoneFits
  <2>2. NextAttempt(worker[j]) \in Works /\ Fits(j, NextAttempt(worker[j]))
        /\ NextAttempt(worker[j]).pc \notin Entered
    BY <1>0, NextAttemptFits, NextAttemptType DEF WorkOK
  <2>3. \/ /\ Change(j, t, s, p, TRUE)
           /\ worker' = [worker EXCEPT ![j] = Done(worker[j])]
        \/ /\ Change(j, t, s, p, FALSE)
           /\ worker' = [worker EXCEPT ![j] = NextAttempt(worker[j])]
    BY DEF AdjustPaid
  <2>. QED BY <1>3, <1>4, <2>1, <2>2, <2>3 DEF Changes
<1>6. /\ Typed' /\ Marks(j, t) /\ \A u \in Subs : sub'[u].by = sub[u].by
      /\ \E a \in Audits : a.txn = t /\ a.net = GuardNet(s, p) /\ audit' = Append(audit, a)
  BY <1>0, <1>1, <1>2, <1>5, ChangeStep
<1>. PICK a \in Audits : a.txn = t /\ a.net = GuardNet(s, p) /\ audit' = Append(audit, a)
  BY <1>6
<1>7. t # NoTxn /\ Cents(txn[t].amount) >= a.net
  <2>1. Cents(txn[t].amount) \in Int /\ a.net \in Nat
    BY <1>2, CentsType DEF Audits
  <2>2. t # NoTxn
    BY <1>1, PlanChangeAssumption
  <2>. PICK c \in Int, n \in Nat : c = Cents(txn[t].amount) /\ n = a.net
    BY <2>1
  <2>3. ~(c < n)
    BY <1>3
  <2>. QED BY <2>2, <2>3
<1>. QED BY <1>0, <1>1, <1>6, <1>7 DEF Changed

LEMMA FreeApplyStep ==
  ASSUME Typed, NEW r \in Requests, FreeApply(r)
  PROVE  Typed' /\ \E a : Changed(r, NoTxn, a)
<1>. PICK s, p : s = worker[r].sub /\ p = worker[r].plan
  OBVIOUS
<1>0. /\ WorkOK /\ OtherOK /\ r \in Workers /\ r \notin Jobs /\ worker[r].pc = "checked"
      /\ Refusal(s, p, 0, "none") = "none"
  BY Parts, PlanChangeAssumption DEF Workers, FreeApply
<1>1. s \in Subs
  BY <1>0 DEF WorkOK, Fits, RequestFits
<1>2. sub[s].status = "active" /\ p \in onSale /\ ~(0 < GuardNet(s, p))
  BY <1>0, NotRefused
<1>3. UNCHANGED <<onSale, spawned>> /\ failures' \in 0..MaxFailures
  BY <1>0, FailsType DEF FreeApply, OtherOK
<1>4. \E x : Changes(r, NoTxn, s, p, x)
  <2>1. Done(worker[r]) \in Works /\ Fits(r, Done(worker[r])) /\ Done(worker[r]).pc \notin Entered
    BY <1>0, DoneFits
  <2>2. Idle \in Works /\ Fits(r, Idle) /\ Idle.pc \notin Entered
    BY IdleType, IdleFits
  <2>3. \/ /\ Change(r, NoTxn, s, p, TRUE)
           /\ worker' = [worker EXCEPT ![r] = Done(worker[r])]
        \/ /\ Change(r, NoTxn, s, p, FALSE)
           /\ worker' = [worker EXCEPT ![r] = Idle]
    BY DEF FreeApply
  <2>. QED BY <1>2, <1>3, <2>1, <2>2, <2>3 DEF Changes
<1>5. /\ Typed' /\ Marks(r, NoTxn) /\ \A u \in Subs : sub'[u].by = sub[u].by
      /\ \E a \in Audits : a.txn = NoTxn /\ a.net = GuardNet(s, p) /\ audit' = Append(audit, a)
  BY <1>0, <1>1, <1>4, ChangeStep
<1>. PICK a \in Audits : a.txn = NoTxn /\ a.net = GuardNet(s, p) /\ audit' = Append(audit, a)
  BY <1>5
<1>6. ~(a.net > 0)
  <2>. PICK n \in Nat : n = a.net
    BY DEF Audits
  <2>. QED BY <1>2
<1>. QED BY <1>0, <1>5, <1>6 DEF Changed

Step ==
  \/ BuysNothing /\ (ClaimsKept \/ \E j \in Jobs : ClaimTaken(j) \/ ClaimLost(j))
  \/ \E j \in Jobs, s \in Subs : Subscribed(j, s)
  \/ \E w \in Workers, t \in Txns \cup {NoTxn} : \E a : Changed(w, t, a)

LEMMA Steps == ASSUME Typed, [Next]_vars PROVE Typed' /\ Step
<1>1. ASSUME NEW t \in Txns, PayerStep(t) PROVE Typed' /\ Step
  BY <1>1, PayerSteps, PayerBuysNothing DEF Step
<1>2. ASSUME NEW j \in Jobs, JobStep(j) PROVE Typed' /\ Step
  <2>1. CASE \E t \in Txns : Start(j, t)
    BY <2>1, StartStep DEF Step
  <2>2. CASE Claim(j)
    BY <2>2, ClaimStep DEF Step
  <2>3. CASE AttemptFails(j)
    BY <2>3, AttemptFailsStep DEF Step
  <2>4. ASSUME NEW s \in Subs, Subscribe(j, s) PROVE Typed' /\ Step
    <3>1. worker[j].pc \in Entered
      BY <2>4 DEF Subscribe
    <3>2. Typed' /\ Subscribed(j, s)
      BY <2>4, <3>1, SubscribeStep DEF Subscribed
    <3>. QED BY <3>2 DEF Step
  <2>5. CASE AdjustPaid(j)
    BY <2>5, AdjustPaidStep DEF Step, Workers
  <2>6. CASE RefusePaid(j)
    BY <2>6, RefusePaidStep DEF Step
  <2>7. CASE LockLost(j)
    BY <2>7, LockLostStep DEF Step
  <2>. QED BY <1>2, <2>1, <2>2, <2>3, <2>4, <2>5, <2>6, <2>7 DEF JobStep
<1>3. ASSUME NEW r \in Requests, RequestStep(r) PROVE Typed' /\ Step
  <2>1. CASE \E s \in Subs, p \in Plans : FreeCheck(r, s, p)
    BY <2>1, FreeCheckStep DEF Step
  <2>2. CASE FreeApply(r)
    BY <2>2, FreeApplyStep DEF Step, Workers
  <2>3. CASE FreeRefused(r)
    BY <2>3, FreeRefusedStep DEF Step
  <2>. QED BY <1>3, <2>1, <2>2, <2>3 DEF RequestStep
<1>4. ASSUME NEW w \in Workers, CoaRead(w) \/ CoaPush(w) \/ CoaFails(w)
      PROVE  Typed' /\ Step
  BY <1>4, CoaReadStep, CoaPushStep, CoaFailsStep DEF Step
<1>5. CASE DayPasses \/ Login \/ Crash
  BY <1>5, DayPassesStep, LoginStep, CrashStep DEF Step
<1>6. CASE (\E s \in Subs : Expire(s)) \/ (\E p \in Plans : Withdraw(p))
  BY <1>6, ExpireStep, WithdrawStep DEF Step
<1>7. CASE UNCHANGED vars
  <2>1. UNCHANGED <<txn, spawned, worker, sub, audit>> /\ SubsOK' /\ OtherOK'
    BY <1>7, Parts DEF vars, SubsOK, OtherOK
  <2>2. Typed' /\ BuysNothing /\ ClaimsKept
    BY <2>1, StillStep, StillBuysNothing DEF ClaimsKept
  <2>. QED BY <2>2 DEF Step
<1>. QED BY <1>1, <1>2, <1>3, <1>4, <1>5, <1>6, <1>7 DEF Next, Workers

-----------------------------------------------------------------------------
(* Types.                                                                  *)

\* A customer has one subscription, or none yet.
LEMMA FirstRows ==
  ASSUME Init
  PROVE  /\ SubsOK /\ group \in Plans \cup {NoPlan} /\ live = group
         /\ \E s \in Subs : sub[s].plan = group
         /\ \A s \in Subs : sub[s].by = NoTxn
<1>. PICK absent : absent = Absent
  OBVIOUS
<1>1. absent \in SubRows /\ absent.status = "absent" /\ absent.plan = NoPlan /\ absent.by = NoTxn
  BY DEF Absent, SubRows
<1>2. CASE sub = [x \in Subs |-> absent] /\ group = NoPlan /\ live = NoPlan
  BY <1>1, <1>2, PlanChangeAssumption DEF SubsOK
<1>3. ASSUME NEW s \in Subs, NEW p \in Plans,
             sub = [x \in Subs |-> IF x = s THEN Fresh(p, NoTxn) ELSE absent],
             group = p, live = p
      PROVE  /\ SubsOK /\ group \in Plans \cup {NoPlan} /\ live = group
             /\ \E x \in Subs : sub[x].plan = group
             /\ \A x \in Subs : sub[x].by = NoTxn
  <2>. PICK term \in Nat \ {0} : term = IF Period[p] > 0 THEN Period[p] ELSE 30
    BY PlanChangeAssumption
  <2>. PICK f : f = Fresh(p, NoTxn)
    OBVIOUS
  <2>1. f = [status |-> "active", plan |-> p, term |-> term, left |-> term - 1, by |-> NoTxn]
    BY DEF Fresh
  <2>2. f \in SubRows /\ f.left < f.term /\ f.plan = p /\ f.by = NoTxn
    BY <2>1 DEF SubRows
  <2>3. sub[s] = f /\ \A x \in Subs : sub[x] = f \/ sub[x] = absent
    BY <1>3
  <2>4. sub \in [Subs -> SubRows]
    BY <1>1, <1>3, <2>2
  <2>. QED BY <1>1, <1>3, <2>2, <2>3, <2>4 DEF SubsOK
<1>. QED BY <1>2, <1>3 DEF Init

LEMMA TypedInit == ASSUME Init PROVE Typed
<1>1. SubsOK /\ group \in Plans \cup {NoPlan} /\ live = group
  BY FirstRows
<1>2. txn \in [Txns -> Payments] /\ \A t \in Txns : txn[t] = NoPayment
  BY NoPaymentType DEF Init
<1>3. NoPayment.kind = "subscription"
  BY DEF NoPayment
<1>4. spawned \in [Txns -> 0..1] /\ \A t \in Txns : ~(spawned[t] > 0)
  BY DEF Init
<1>5. worker \in [Workers -> Works] /\ \A w \in Workers : worker[w] = Idle
  BY IdleType DEF Init, Workers
<1>6. OtherOK
  <2>1. audit \in Seq(Audits) /\ Len(audit) = 0
    BY DEF Init
  <2>2. failures \in 0..MaxFailures /\ 0 <= MaxChanges
    BY PlanChangeAssumption DEF Init
  <2>. QED BY <1>1, <2>1, <2>2 DEF Init, OtherOK
<1>. QED BY <1>1, <1>2, <1>3, <1>4, <1>5, <1>6, IdleFits
         DEF StateOK, Typed, RowsInv, SubsOK, OtherOK

\* Nothing but a lost claim is counted as one.
LEMMA Losses ==
  ASSUME [Next]_vars
  PROVE  UNCHANGED lockLosses \/ \E j \in Jobs : LockLost(j)
<1>1. ASSUME NEW t \in Txns, PayerStep(t) PROVE UNCHANGED lockLosses
  BY <1>1 DEF PayerStep, Quote, InitiateAdjustment, InitiateSubscription, Capture, SweepTrigger
<1>2. ASSUME NEW j \in Jobs, JobStep(j), ~LockLost(j) PROVE UNCHANGED lockLosses
  BY <1>2 DEF JobStep, Start, Claim, AttemptFails, Subscribe, AdjustPaid, RefusePaid
<1>3. ASSUME NEW r \in Requests, RequestStep(r) PROVE UNCHANGED lockLosses
  BY <1>3 DEF RequestStep, FreeCheck, FreeApply, FreeRefused
<1>4. ASSUME NEW w, CoaRead(w) \/ CoaPush(w) \/ CoaFails(w) PROVE UNCHANGED lockLosses
  BY <1>4 DEF CoaRead, CoaPush, CoaFails
<1>5. CASE DayPasses \/ (\E s \in Subs : Expire(s)) \/ (\E p \in Plans : Withdraw(p))
             \/ Login \/ Crash \/ UNCHANGED vars
  BY <1>5 DEF DayPasses, Expire, Withdraw, Login, Crash, vars
<1>. QED BY <1>1, <1>2, <1>3, <1>4, <1>5 DEF Next

LEMMA TypedAlways == Spec => []Typed
<1>1. Typed /\ [Next]_vars => Typed'
  BY Steps
<1>. QED BY <1>1, TypedInit, PTL DEF Spec

\* Every variable keeps its type: an active subscription is for some plan and
\* has fewer days left than its term, and there are never more than MaxChanges
\* audit rows.
THEOREM TypeCorrect == Spec => []TypeOK
<1>1. Init => lockLosses \in Nat
  BY DEF Init
<1>2. lockLosses \in Nat /\ [Next]_vars => (lockLosses \in Nat)'
  BY Losses DEF LockLost
<1>3. Typed /\ lockLosses \in Nat => TypeOK
  BY Types DEF Typed
<1>. QED BY <1>1, <1>2, <1>3, TypedAlways, PTL DEF Spec

-----------------------------------------------------------------------------
(* What a change cost.                                                     *)

\* An audit row that names a payment names a captured one.
AuditPaid == \A i \in DOMAIN audit :
    audit[i].txn # NoTxn => audit[i].txn \in Txns /\ Paid(audit[i].txn)

ChangesInv == Typed /\ AuditPaid /\ ChangesArePaid

LEMMA ChangesInvStep == ASSUME ChangesInv, [Next]_vars PROVE ChangesInv'
<1>0. Typed' /\ Step /\ OtherOK /\ WorkOK
  BY Steps, Parts DEF ChangesInv
<1>1. TxnKeeps
  BY <1>0 DEF Step, BuysNothing, Subscribed, Changed, Marks
<1>2. \A t \in Txns : Paid(t) => Paid(t)' /\ txn'[t].amount = txn[t].amount
  BY <1>1 DEF TxnKeeps, KeptPayment, Paid
\* The rows there were.
<1>3. ASSUME NEW i \in DOMAIN audit, NEW a, a = audit[i]
      PROVE  /\ a.txn # NoTxn => a.txn \in Txns /\ Paid(a.txn)'
             /\ a.net > 0 => a.txn # NoTxn /\ Cents(txn'[a.txn].amount) >= a.net
  <2>1. a.txn # NoTxn => a.txn \in Txns /\ Paid(a.txn)
    BY <1>3 DEF ChangesInv, AuditPaid
  <2>2. a.net > 0 => a.txn # NoTxn /\ Cents(txn[a.txn].amount) >= a.net
    BY <1>3 DEF ChangesInv, ChangesArePaid
  <2>. QED BY <1>2, <2>1, <2>2
<1>4. CASE UNCHANGED audit
  BY <1>0, <1>3, <1>4 DEF ChangesInv, AuditPaid, ChangesArePaid, Paid
<1>5. ASSUME NEW w \in Workers, NEW t \in Txns \cup {NoTxn}, NEW a, Changed(w, t, a)
      PROVE  AuditPaid' /\ ChangesArePaid'
  <2>1. a.txn = t /\ (t # NoTxn => t \in Txns /\ Paid(t))
    BY <1>0, <1>5 DEF Changed, WorkOK, Fits, JobFits
  <2>2. a.net > 0 => t # NoTxn /\ Cents(txn'[t].amount) >= a.net
    <3>1. a.net > 0 => t # NoTxn /\ Cents(txn[t].amount) >= a.net
      BY <1>5 DEF Changed
    <3>. QED BY <1>2, <2>1, <3>1
  <2>3. /\ Len(audit) \in Nat /\ DOMAIN audit = 1..Len(audit)
        /\ DOMAIN audit' = 1..(Len(audit) + 1) /\ audit'[Len(audit) + 1] = a
        /\ \A i \in 1..Len(audit) : audit'[i] = audit[i]
    <3>1. audit \in Seq(Audits) /\ a \in Audits /\ audit' = Append(audit, a)
      BY <1>0, <1>5 DEF OtherOK, Changed
    <3>2. audit' \in Seq(Audits)
      BY <3>1, Appended
    <3>. QED BY <3>1, <3>2, Appended
  <2>4. ASSUME NEW i \in DOMAIN audit', NEW b, b = audit'[i]
        PROVE  /\ b.txn # NoTxn => b.txn \in Txns /\ Paid(b.txn)'
               /\ b.net > 0 => b.txn # NoTxn /\ Cents(txn'[b.txn].amount) >= b.net
    <3>1. (i \in DOMAIN audit /\ b = audit[i]) \/ b = a
      BY <2>3, <2>4
    <3>. QED BY <1>2, <1>3, <2>1, <2>2, <3>1
  <2>. QED BY <2>4 DEF AuditPaid, ChangesArePaid, Paid
<1>. QED BY <1>0, <1>4, <1>5 DEF Step, BuysNothing, Subscribed, ChangesInv

\* No change to a dearer plan goes unpaid: whatever happens between the quote,
\* or the check of a change that costs nothing, and the change.
THEOREM NoChangeUnpaid == Spec => []ChangesArePaid
<1>1. Init => ChangesInv
  <2>1. Init => AuditPaid /\ ChangesArePaid
    BY DEF Init, AuditPaid, ChangesArePaid
  <2>. QED BY <2>1, TypedInit DEF ChangesInv
<1>2. ChangesInv /\ [Next]_vars => ChangesInv'
  BY ChangesInvStep
<1>3. ChangesInv => ChangesArePaid
  BY DEF ChangesInv
<1>. QED BY <1>1, <1>2, <1>3, PTL DEF Spec

-----------------------------------------------------------------------------
(* One purchase per payment.                                               *)

RowsOf(t) == {i \in DOMAIN audit : audit[i].txn = t}
SubsOf(t) == {s \in Subs : sub[s].by = t}

\* Jobs that are about to spend payment t, and those of them without a claim.
Entrants(t) == {j \in Jobs : worker[j].pc \in Entered /\ worker[j].txn = t}
Strays(t) == {j \in Jobs : worker[j].pc = "strayed" /\ worker[j].txn = t}

\* One job at most has the claim of a payment.
ClaimInv == \A j, k \in Jobs :
    worker[j].pc = "claimed" /\ worker[k].pc = "claimed"
        /\ worker[k].txn = worker[j].txn => k = j

\* What a payment has bought, and what those past its claim may still buy, is
\* one and what the lost claims allow.
SpendBound(rows, subs, marker, entrants, strays, n) ==
    /\ IsFiniteSet(entrants)
    /\ marker <=> Cardinality(rows) + Cardinality(subs) > 0
    /\ Cardinality(rows) + Cardinality(subs) + Cardinality(entrants) <= 1 + n
    /\ ~marker => Cardinality(strays) <= n
SpendInv == \A t \in Txns :
    SpendBound(RowsOf(t), SubsOf(t), txn[t].marker, Entrants(t), Strays(t), lockLosses)

PurchaseInv == Typed /\ lockLosses \in Nat /\ ClaimInv /\ SpendInv

LEMMA FiniteRows ==
  ASSUME Typed, NEW t
  PROVE  /\ IsFiniteSet(RowsOf(t)) /\ IsFiniteSet(SubsOf(t))
         /\ Cardinality(RowsOf(t)) \in Nat /\ Cardinality(SubsOf(t)) \in Nat
<1>1. DOMAIN audit = 1..Len(audit) /\ Len(audit) \in Nat
  BY Parts DEF OtherOK
<1>2. IsFiniteSet(DOMAIN audit)
  BY <1>1, FS_Interval
<1>3. IsFiniteSet(RowsOf(t)) /\ IsFiniteSet(SubsOf(t))
  BY <1>2, FS_Subset, PlanChangeAssumption DEF RowsOf, SubsOf
<1>. QED BY <1>3, FS_CardinalityType

LEMMA ClaimInvStep == ASSUME Typed, ClaimInv, Step PROVE ClaimInv'
<1>1. CASE ClaimsKept
  BY <1>1 DEF ClaimsKept, ClaimInv, Entered
<1>2. ASSUME NEW j \in Jobs, ClaimTaken(j) PROVE ClaimInv'
  BY <1>2 DEF ClaimTaken, ClaimInv
<1>3. ASSUME NEW j \in Jobs, ClaimLost(j) PROVE ClaimInv'
  BY <1>3 DEF ClaimLost, ClaimInv
<1>4. ASSUME NEW w \in Workers, NEW t, Marks(w, t) PROVE ClaimsKept
  BY <1>4 DEF Marks, ClaimsKept, Workers
<1>5. ASSUME NEW j \in Jobs, NEW s \in Subs, Subscribed(j, s) PROVE ClaimInv'
  BY <1>1, <1>4, <1>5 DEF Subscribed, Workers
<1>6. ASSUME NEW w \in Workers, NEW t \in Txns \cup {NoTxn}, NEW a, Changed(w, t, a)
      PROVE  ClaimInv'
  BY <1>1, <1>4, <1>6 DEF Changed
<1>. QED BY <1>1, <1>2, <1>3, <1>5, <1>6 DEF Step

\* Jobs that leave take nothing with them.
LEMMA FewerEnter ==
  ASSUME NEW rows, NEW subs, NEW marker, NEW E, NEW S, NEW n \in Nat, S \subseteq E,
         SpendBound(rows, subs, marker, E, S, n),
         NEW E2, NEW S2, E2 \subseteq E, S2 \subseteq S,
         IsFiniteSet(rows), IsFiniteSet(subs)
  PROVE  SpendBound(rows, subs, marker, E2, S2, n)
<1>. PICK a \in Nat, b \in Nat : a = Cardinality(rows) /\ b = Cardinality(subs)
  BY FS_CardinalityType
<1>1. IsFiniteSet(E) /\ IsFiniteSet(S) /\ IsFiniteSet(E2) /\ IsFiniteSet(S2)
  BY FS_Subset DEF SpendBound
<1>. PICK e \in Nat, e2 \in Nat, s \in Nat, s2 \in Nat :
        /\ e = Cardinality(E) /\ e2 = Cardinality(E2)
        /\ s = Cardinality(S) /\ s2 = Cardinality(S2)
  BY <1>1, FS_CardinalityType
<1>2. e2 <= e /\ s2 <= s
  BY <1>1, FS_Subset
<1>. QED BY <1>1, <1>2 DEF SpendBound

\* A job gets the claim of a payment that has bought nothing.
LEMMA OneEnters ==
  ASSUME NEW rows, NEW subs, NEW S, NEW n \in Nat, SpendBound(rows, subs, FALSE, S, S, n),
         NEW j, NEW E2, NEW S2, E2 \subseteq S \cup {j}, S2 \subseteq S,
         IsFiniteSet(rows), IsFiniteSet(subs)
  PROVE  SpendBound(rows, subs, FALSE, E2, S2, n)
<1>. PICK a \in Nat, b \in Nat : a = Cardinality(rows) /\ b = Cardinality(subs)
  BY FS_CardinalityType
<1>1. IsFiniteSet(S) /\ IsFiniteSet(S \cup {j}) /\ IsFiniteSet(E2) /\ IsFiniteSet(S2)
  BY FS_Subset, FS_AddElement DEF SpendBound
<1>. PICK s \in Nat, s2 \in Nat, e \in Nat, e2 \in Nat :
        /\ s = Cardinality(S) /\ s2 = Cardinality(S2)
        /\ e = Cardinality(S \cup {j}) /\ e2 = Cardinality(E2)
  BY <1>1, FS_CardinalityType
<1>2. s2 <= s /\ e2 <= e /\ (e = s \/ e = s + 1)
  BY <1>1, FS_Subset, FS_AddElement
<1>3. s <= n /\ ~(a + b > 0)
  BY DEF SpendBound
<1>. QED BY <1>1, <1>2, <1>3 DEF SpendBound

\* A claim is lost.
LEMMA OneStrays ==
  ASSUME NEW rows, NEW subs, NEW marker, NEW E, NEW S, NEW n \in Nat, S \subseteq E,
         SpendBound(rows, subs, marker, E, S, n),
         NEW j, NEW E2, NEW S2, E2 \subseteq E, S2 \subseteq S \cup {j},
         IsFiniteSet(rows), IsFiniteSet(subs)
  PROVE  SpendBound(rows, subs, marker, E2, S2, n + 1)
<1>. PICK a \in Nat, b \in Nat : a = Cardinality(rows) /\ b = Cardinality(subs)
  BY FS_CardinalityType
<1>1. IsFiniteSet(E) /\ IsFiniteSet(E2) /\ IsFiniteSet(S)
      /\ IsFiniteSet(S \cup {j}) /\ IsFiniteSet(S2)
  BY FS_Subset, FS_AddElement DEF SpendBound
<1>. PICK s \in Nat, s1 \in Nat, s2 \in Nat, e \in Nat, e2 \in Nat :
        /\ s = Cardinality(S) /\ s1 = Cardinality(S \cup {j}) /\ s2 = Cardinality(S2)
        /\ e = Cardinality(E) /\ e2 = Cardinality(E2)
  BY <1>1, FS_CardinalityType
<1>2. s2 <= s1 /\ e2 <= e /\ (s1 = s \/ s1 = s + 1)
  BY <1>1, FS_Subset, FS_AddElement
<1>. QED BY <1>1, <1>2 DEF SpendBound

\* A job buys and leaves.
LEMMA OneBuys ==
  ASSUME NEW rows, NEW subs, NEW marker, NEW E, NEW S, NEW n \in Nat,
         SpendBound(rows, subs, marker, E, S, n),
         NEW j \in E, NEW E2, E2 = E \ {j}, NEW rows2, NEW subs2, NEW S2,
         IsFiniteSet(rows), IsFiniteSet(subs),
         Cardinality(rows2) + Cardinality(subs2) = Cardinality(rows) + Cardinality(subs) + 1
  PROVE  SpendBound(rows2, subs2, TRUE, E2, S2, n)
<1>. PICK a \in Nat, b \in Nat : a = Cardinality(rows) /\ b = Cardinality(subs)
  BY FS_CardinalityType
<1>1. IsFiniteSet(E) /\ IsFiniteSet(E2)
  BY FS_RemoveElement DEF SpendBound
<1>. PICK e \in Nat, e2 \in Nat : e = Cardinality(E) /\ e2 = Cardinality(E2)
  BY <1>1, FS_CardinalityType
<1>2. e2 = e - 1
  BY <1>1, FS_RemoveElement
<1>. QED BY <1>1, <1>2 DEF SpendBound

\* What a purchase leaves of the jobs of a payment.
LEMMA Spent ==
  ASSUME NEW w \in Workers, NEW u, Marks(w, u), NEW t \in Txns,
         u # NoTxn => w \in Jobs /\ worker[w].pc \in Entered /\ worker[w].txn = u,
         u = NoTxn => w \notin Jobs
  PROVE  IF t = u THEN w \in Entrants(t) /\ Entrants(t)' = Entrants(t) \ {w}
                  ELSE Entrants(t)' = Entrants(t) /\ Strays(t)' = Strays(t)
<1>1. worker'[w].pc \notin Entered /\ \A v \in Jobs \ {w} : worker'[v] = worker[v]
  BY DEF Marks, Workers
<1>2. "strayed" \in Entered
  BY DEF Entered
<1>3. CASE t = u
  BY <1>1, <1>3, PlanChangeAssumption DEF Entrants
<1>4. CASE t # u
  BY <1>1, <1>2, <1>4, PlanChangeAssumption DEF Entrants, Strays
<1>. QED BY <1>3, <1>4

LEMMA PurchaseStep ==
  ASSUME PurchaseInv, [Next]_vars, NEW t \in Txns
  PROVE  SpendBound(RowsOf(t)', SubsOf(t)', txn'[t].marker, Entrants(t)', Strays(t)', lockLosses')
<1>0. Typed /\ Typed' /\ Step /\ WorkOK /\ TxnsOK /\ OtherOK /\ lockLosses \in Nat
  BY Steps, Parts DEF PurchaseInv
<1>. PICK n \in Nat : n = lockLosses
  BY <1>0
<1>1. SpendBound(RowsOf(t), SubsOf(t), txn[t].marker, Entrants(t), Strays(t), n)
  BY DEF PurchaseInv, SpendInv
<1>2. /\ IsFiniteSet(RowsOf(t)) /\ IsFiniteSet(SubsOf(t))
      /\ Cardinality(RowsOf(t)) \in Nat /\ Cardinality(SubsOf(t)) \in Nat
  BY <1>0, FiniteRows
<1>3. Strays(t) \subseteq Entrants(t) /\ txn[t].marker \in BOOLEAN
  BY <1>0, PayFields DEF Strays, Entrants, Entered, TxnsOK
<1>4. BuysNothing =>
        RowsOf(t)' = RowsOf(t) /\ SubsOf(t)' = SubsOf(t) /\ txn'[t].marker = txn[t].marker
  BY DEF RowsOf, SubsOf, BuysNothing
<1>5. CASE \E j \in Jobs : LockLost(j)
  <2>. PICK j \in Jobs : LockLost(j)
    BY <1>5
  <2>1. BuysNothing /\ ClaimLost(j) /\ lockLosses' = n + 1
    BY <1>0, LockLostStep DEF LockLost
  <2>2. Entrants(t)' \subseteq Entrants(t) /\ Strays(t)' \subseteq Strays(t) \cup {j}
    BY <2>1 DEF ClaimLost, Entrants, Strays, Entered
  <2>3. SpendBound(RowsOf(t), SubsOf(t), txn[t].marker, Entrants(t)', Strays(t)', n + 1)
    BY <1>1, <1>2, <1>3, <2>2, OneStrays
  <2>. QED BY <1>4, <2>1, <2>3
<1>. SUFFICES ASSUME lockLosses' = n
              PROVE  SpendBound(RowsOf(t)', SubsOf(t)', txn'[t].marker, Entrants(t)', Strays(t)',
                                lockLosses')
  BY <1>5, Losses
<1>6. CASE BuysNothing /\ ClaimsKept
  <2>1. Entrants(t)' \subseteq Entrants(t) /\ Strays(t)' \subseteq Strays(t)
    BY <1>6 DEF ClaimsKept, Entrants, Strays, Entered
  <2>2. SpendBound(RowsOf(t), SubsOf(t), txn[t].marker, Entrants(t)', Strays(t)', n)
    BY <1>1, <1>2, <1>3, <2>1, FewerEnter
  <2>. QED BY <1>4, <1>6, <2>2
<1>7. ASSUME NEW j \in Jobs, BuysNothing, ClaimTaken(j)
      PROVE  SpendBound(RowsOf(t)', SubsOf(t)', txn'[t].marker, Entrants(t)', Strays(t)', lockLosses')
  <2>1. /\ worker'[j].txn = worker[j].txn /\ worker'[j].pc = "claimed"
        /\ \A k \in Jobs \ {j} : worker'[k] = worker[k]
    BY <1>7 DEF ClaimTaken
  <2>2. Strays(t)' \subseteq Strays(t)
    BY <2>1 DEF Strays
  <2>3. CASE worker[j].txn = t
    <3>1. txn[t].marker = FALSE /\ Entrants(t) = Strays(t)
      BY <1>3, <1>7, <2>3 DEF ClaimTaken, Entrants, Strays, Entered
    <3>2. Entrants(t)' \subseteq Strays(t) \cup {j}
      BY <2>1, <3>1 DEF Entrants
    <3>3. SpendBound(RowsOf(t), SubsOf(t), FALSE, Entrants(t)', Strays(t)', n)
      BY <1>1, <1>2, <2>2, <3>1, <3>2, OneEnters
    <3>. QED BY <1>4, <1>7, <3>1, <3>3
  <2>4. CASE worker[j].txn # t
    <3>1. Entrants(t)' \subseteq Entrants(t)
      BY <2>1, <2>4 DEF Entrants
    <3>2. SpendBound(RowsOf(t), SubsOf(t), txn[t].marker, Entrants(t)', Strays(t)', n)
      BY <1>1, <1>2, <1>3, <2>2, <3>1, FewerEnter
    <3>. QED BY <1>4, <1>7, <3>2
  <2>. QED BY <2>3, <2>4
<1>8. ASSUME NEW j \in Jobs, ClaimLost(j) PROVE FALSE
  BY <1>8 DEF ClaimLost
<1>9. ASSUME NEW j \in Jobs, NEW s \in Subs, Subscribed(j, s)
      PROVE  SpendBound(RowsOf(t)', SubsOf(t)', txn'[t].marker, Entrants(t)', Strays(t)', lockLosses')
  <2>. PICK u : u = worker[j].txn
    OBVIOUS
  <2>1. RowsOf(t)' = RowsOf(t)
    BY <1>9 DEF Subscribed, RowsOf
  <2>2. txn'[t].marker = (txn[t].marker \/ t = u)
    BY <1>9 DEF Subscribed, Marks
  <2>3. u \in Txns /\ u # NoTxn /\ Marks(j, u) /\ worker[j].pc \in Entered /\ j \in Workers
    BY <1>9, PlanChangeAssumption DEF Subscribed, Workers
  <2>4. IF t = u THEN j \in Entrants(t) /\ Entrants(t)' = Entrants(t) \ {j}
                 ELSE Entrants(t)' = Entrants(t) /\ Strays(t)' = Strays(t)
    BY <2>3, Spent
  <2>5. CASE t = u
    <3>1. SubsOf(t)' = SubsOf(t) \cup {s} /\ s \notin SubsOf(t)
      BY <1>9, <2>5, PlanChangeAssumption DEF Subscribed, SubsOf
    <3>2. Cardinality(SubsOf(t)') = Cardinality(SubsOf(t)) + 1
      BY <1>2, <3>1, FS_AddElement
    <3>3. Cardinality(RowsOf(t)') + Cardinality(SubsOf(t)')
            = Cardinality(RowsOf(t)) + Cardinality(SubsOf(t)) + 1
      BY <1>2, <2>1, <3>2
    <3>4. txn'[t].marker = TRUE
      BY <2>2, <2>5
    <3>5. j \in Entrants(t) /\ Entrants(t)' = Entrants(t) \ {j}
      BY <2>4, <2>5
    <3>6. SpendBound(RowsOf(t)', SubsOf(t)', TRUE, Entrants(t)', Strays(t)', n)
      BY <1>1, <1>2, <3>3, <3>5, OneBuys
    <3>. QED BY <3>4, <3>6
  <2>6. CASE t # u
    <3>1. SubsOf(t)' = SubsOf(t)
      BY <1>9, <2>6, PlanChangeAssumption DEF Subscribed, SubsOf
    <3>2. txn'[t].marker = txn[t].marker
      BY <1>3, <2>2, <2>6
    <3>. QED BY <1>1, <2>1, <2>4, <2>6, <3>1, <3>2
  <2>. QED BY <2>5, <2>6
<1>10. ASSUME NEW w \in Workers, NEW u \in Txns \cup {NoTxn}, NEW a, Changed(w, u, a)
      PROVE  SpendBound(RowsOf(t)', SubsOf(t)', txn'[t].marker, Entrants(t)', Strays(t)', lockLosses')
  <2>1. SubsOf(t)' = SubsOf(t)
    BY <1>10 DEF Changed, SubsOf
  <2>2. txn'[t].marker = (txn[t].marker \/ t = u)
    BY <1>10 DEF Changed, Marks
  <2>. PICK m \in Nat : m = Len(audit)
    BY <1>0 DEF OtherOK
  <2>3. /\ DOMAIN audit = 1..m /\ DOMAIN audit' = 1..(m + 1) /\ audit'[m + 1] = a
        /\ \A i \in 1..m : audit'[i] = audit[i]
    <3>1. audit \in Seq(Audits) /\ a \in Audits /\ audit' = Append(audit, a)
      BY <1>0, <1>10 DEF OtherOK, Changed
    <3>2. audit' \in Seq(Audits)
      BY <3>1, Appended
    <3>. QED BY <3>1, <3>2, Appended
  <2>4. m + 1 \notin 1..m /\ 1..(m + 1) = (1..m) \cup {m + 1}
    OBVIOUS
  <2>5. a.txn = u /\ Marks(w, u)
    BY <1>10 DEF Changed
  <2>6. /\ u # NoTxn => w \in Jobs /\ worker[w].pc \in Entered /\ worker[w].txn = u
        /\ u = NoTxn => w \notin Jobs
    BY <1>10 DEF Changed
  <2>7. IF t = u THEN w \in Entrants(t) /\ Entrants(t)' = Entrants(t) \ {w}
                 ELSE Entrants(t)' = Entrants(t) /\ Strays(t)' = Strays(t)
    BY <2>5, <2>6, Spent
  <2>8. CASE u = t
    <3>1. RowsOf(t)' = RowsOf(t) \cup {m + 1} /\ m + 1 \notin RowsOf(t)
      BY <2>3, <2>4, <2>5, <2>8 DEF RowsOf
    <3>2. Cardinality(RowsOf(t)') = Cardinality(RowsOf(t)) + 1
      BY <1>2, <3>1, FS_AddElement
    <3>3. Cardinality(RowsOf(t)') + Cardinality(SubsOf(t)')
            = Cardinality(RowsOf(t)) + Cardinality(SubsOf(t)) + 1
      BY <1>2, <2>1, <3>2
    <3>4. txn'[t].marker = TRUE
      BY <2>2, <2>8
    <3>5. w \in Entrants(t) /\ Entrants(t)' = Entrants(t) \ {w}
      BY <2>7, <2>8
    <3>6. SpendBound(RowsOf(t)', SubsOf(t)', TRUE, Entrants(t)', Strays(t)', n)
      BY <1>1, <1>2, <3>3, <3>5, OneBuys
    <3>. QED BY <3>4, <3>6
  <2>9. CASE u # t
    <3>1. RowsOf(t)' = RowsOf(t)
      BY <2>3, <2>4, <2>5, <2>9 DEF RowsOf
    <3>2. txn'[t].marker = txn[t].marker
      BY <1>3, <2>2, <2>9
    <3>. QED BY <1>1, <2>1, <2>7, <2>9, <3>1, <3>2
  <2>. QED BY <2>8, <2>9
<1>. QED BY <1>0, <1>6, <1>7, <1>8, <1>9, <1>10 DEF Step

\* One payment buys one subscription or one change, and at most one more for
\* every claim that goes with its connection, and its marker tells whether it
\* has: through retries, lost answers to the COMMIT, sweeps and crashes, with
\* any number of jobs.
THEOREM PaymentBuysOnce == Spec => []OnePurchasePerPayment
<1>1. Init => PurchaseInv
  <2>. SUFFICES ASSUME Init PROVE PurchaseInv
    OBVIOUS
  <2>1. Typed /\ lockLosses = 0
    BY TypedInit DEF Init
  <2>2. \A j \in Jobs : worker[j].pc = "idle"
    BY IdleType DEF Init
  <2>3. ASSUME NEW t \in Txns
        PROVE  SpendBound(RowsOf(t), SubsOf(t), txn[t].marker, Entrants(t), Strays(t), lockLosses)
    <3>1. RowsOf(t) = {}
      BY DEF Init, RowsOf
    <3>2. SubsOf(t) = {}
      BY FirstRows, PlanChangeAssumption DEF SubsOf
    <3>3. Entrants(t) = {} /\ Strays(t) = {}
      BY <2>2 DEF Entrants, Strays, Entered
    <3>4. txn[t].marker = FALSE
      BY NoPaymentType DEF Init
    <3>5. Cardinality({}) = 0 /\ IsFiniteSet({})
      BY FS_EmptySet
    <3>. QED BY <2>1, <3>1, <3>2, <3>3, <3>4, <3>5 DEF SpendBound
  <2>. QED BY <2>1, <2>2, <2>3 DEF PurchaseInv, ClaimInv, SpendInv
<1>2. PurchaseInv /\ [Next]_vars => PurchaseInv'
  <2>. SUFFICES ASSUME PurchaseInv, [Next]_vars PROVE PurchaseInv'
    OBVIOUS
  <2>1. Typed' /\ ClaimInv'
    BY Steps, ClaimInvStep DEF PurchaseInv
  <2>2. lockLosses' \in Nat
    BY Losses DEF LockLost, PurchaseInv
  <2>3. SpendInv'
    BY PurchaseStep DEF SpendInv
  <2>. QED BY <2>1, <2>2, <2>3 DEF PurchaseInv
<1>3. PurchaseInv => OnePurchasePerPayment
  <2>. SUFFICES ASSUME PurchaseInv, NEW t \in Txns
                PROVE  (txn[t].marker <=> Bought(t) > 0) /\ Bought(t) <= 1 + lockLosses
    BY DEF OnePurchasePerPayment
  <2>1. SpendBound(RowsOf(t), SubsOf(t), txn[t].marker, Entrants(t), Strays(t), lockLosses)
    BY DEF PurchaseInv, SpendInv
  <2>2. Cardinality(RowsOf(t)) \in Nat /\ Cardinality(SubsOf(t)) \in Nat
        /\ Cardinality(Entrants(t)) \in Nat /\ lockLosses \in Nat
    BY <2>1, FiniteRows, FS_CardinalityType DEF PurchaseInv, SpendBound
  <2>3. Bought(t) = Cardinality(RowsOf(t)) + Cardinality(SubsOf(t))
    BY DEF Bought, RowsOf, SubsOf
  <2>. QED BY <2>1, <2>2, <2>3 DEF SpendBound
<1>. QED BY <1>1, <1>2, <1>3, PTL DEF Spec

-----------------------------------------------------------------------------
(* The speeds of the session.                                              *)

Pushing(x) == x.pc \in {"coa", "push"}
Adjusts(x) ==
  x.pc \in {"claiming", "claimed", "strayed"} /\ txn[x.txn].kind = "subscription_adjustment"

\* Whoever is about to push pushes the plan of the RADIUS rows, and no job
\* comes upon a change that is already made.
GoodWork(x) ==
  /\ Pushing(x) => sub[x.sub].plan = group
  /\ x.pc = "push" => x.plan = group
  /\ Adjusts(x) => ~txn[x.txn].marker

PlansInv == \E s \in Subs : sub[s].plan = group
SpeedsInv ==
  ~disturbed =>
    /\ \A w \in Workers : GoodWork(worker[w])
    /\ live \in {NoPlan, group} \/ \E w \in Workers : Pushing(worker[w])

\* A goroutine for a change is spawned once, and before any has run.
OnceInv == \A t \in Txns :
  /\ ~Paid(t) => ~txn[t].marker
  /\ txn[t].kind = "subscription_adjustment" /\ spawned[t] > 0 =>
       /\ ~txn[t].marker
       /\ \A j \in Jobs : ~(worker[j].pc # "idle" /\ worker[j].txn = t)

SessionInv == Typed /\ PlansInv /\ SpeedsInv /\ OnceInv

PlansKept == (\A s \in Subs : sub'[s].plan = sub[s].plan) /\ UNCHANGED group

LEMMA PlansStay == ASSUME PlansInv, PlansKept PROVE PlansInv'
BY DEF PlansInv, PlansKept

\* What a worker is about to do stays good while no plan changes hands.
LEMMA GoodKept ==
  ASSUME Typed, NEW w \in Workers, NEW x, Fits(w, x), GoodWork(x), BuysNothing, PlansKept
  PROVE  GoodWork(x)'
<1>1. Pushing(x) => x.sub \in Subs
  BY DEF Fits, JobFits, RequestFits, Pushing
<1>2. x.pc \in {"claiming", "claimed", "strayed"} => x.txn \in Txns /\ Paid(x.txn)
  BY DEF Fits, JobFits, RequestFits
<1>3. Adjusts(x)' => Adjusts(x) /\ x.txn \in Txns
  BY <1>2 DEF Adjusts, BuysNothing, TxnKeeps, KeptPayment, Paid
<1>4. Adjusts(x)' => ~txn'[x.txn].marker
  BY <1>3 DEF GoodWork, BuysNothing
<1>5. Pushing(x)' = Pushing(x)
  BY DEF Pushing
<1>. QED BY <1>1, <1>4, <1>5 DEF GoodWork, PlansKept

\* A step that leaves the speeds alone: worker w becomes x, which is good if the
\* session is undisturbed.
LEMMA CalmStep ==
  ASSUME Typed, SpeedsInv, BuysNothing, PlansKept, UNCHANGED <<live, disturbed>>,
         NEW w \in Workers, NEW x \in Works, Fits(w, x), worker' = [worker EXCEPT ![w] = x],
         Pushing(worker[w]) => Pushing(x), ~disturbed => GoodWork(x)
  PROVE  SpeedsInv'
<1>. SUFFICES ASSUME ~disturbed PROVE SpeedsInv'
  BY DEF SpeedsInv
<1>1. worker'[w] = x /\ \A v \in Workers : v # w => worker'[v] = worker[v]
  BY Parts DEF WorkOK
<1>2. GoodWork(x)'
  BY GoodKept
<1>3. ASSUME NEW v \in Workers PROVE GoodWork(worker[v])'
  <2>. PICK y : y = worker'[v]
    OBVIOUS
  <2>1. CASE v = w
    BY <1>1, <1>2, <2>1 DEF GoodWork, Pushing, Adjusts
  <2>2. CASE v # w
    <3>1. y = worker[v] /\ Fits(v, y) /\ GoodWork(y)
      BY <1>1, <2>2, Parts DEF WorkOK, SpeedsInv
    <3>2. GoodWork(y)'
      BY <3>1, GoodKept
    <3>. QED BY <3>2 DEF GoodWork, Pushing, Adjusts
  <2>. QED BY <2>1, <2>2
<1>4. (live \in {NoPlan, group} \/ \E v \in Workers : Pushing(worker[v]))'
  <2>1. CASE live \in {NoPlan, group}
    BY <2>1 DEF PlansKept
  <2>2. ASSUME NEW v \in Workers, Pushing(worker[v])
        PROVE  Pushing(worker'[v])
    BY <1>1, <2>2
  <2>3. \A v \in Workers : Pushing(worker'[v]) => Pushing(worker[v])'
    BY DEF Pushing
  <2>. QED BY <2>1, <2>2, <2>3 DEF SpeedsInv
<1>. QED BY <1>3, <1>4 DEF SpeedsInv

\* The same when no worker moves.
LEMMA CalmerStep ==
  ASSUME Typed, SpeedsInv, BuysNothing, PlansKept, UNCHANGED <<live, disturbed, worker>>
  PROVE  SpeedsInv'
<1>. SUFFICES ASSUME ~disturbed PROVE SpeedsInv'
  BY DEF SpeedsInv
<1>3. ASSUME NEW v \in Workers PROVE GoodWork(worker[v])'
  <2>. PICK y : y = worker[v]
    OBVIOUS
  <2>1. Fits(v, y) /\ GoodWork(y)
    BY Parts DEF WorkOK, SpeedsInv
  <2>2. GoodWork(y)'
    BY <2>1, GoodKept
  <2>. QED BY <2>2 DEF GoodWork, Pushing, Adjusts
<1>4. (live \in {NoPlan, group} \/ \E v \in Workers : Pushing(worker[v]))'
  BY DEF SpeedsInv, PlansKept, Pushing
<1>. QED BY <1>3, <1>4 DEF SpeedsInv

-----------------------------------------------------------------------------
(* The steps.                                                              *)

LEMMA IdleGood == GoodWork(Idle) /\ ~Pushing(Idle)
BY IdleType DEF GoodWork, Pushing, Adjusts

\* A job that tries again, or gives up.
LEMMA NextAttemptGood ==
  ASSUME NEW x \in Works, GoodWork(x), x.pc \in {"claiming", "claimed", "strayed"}
  PROVE  GoodWork(NextAttempt(x))
<1>. PICK y : y = NextAttempt(x)
  OBVIOUS
<1>1. y.pc \in {"idle", "claiming"} /\ (y.pc # "idle" => y.txn = x.txn)
  BY NextAttemptType
<1>2. Adjusts(y) => Adjusts(x) /\ y.txn = x.txn
  BY <1>1 DEF Adjusts
<1>. QED BY <1>1, <1>2 DEF GoodWork, Pushing

LEMMA StartSpeeds ==
  ASSUME SessionInv, NEW j \in Jobs, NEW t \in Txns, Start(j, t)
  PROVE  SpeedsInv'
<1>0. /\ Typed /\ BuysNothing /\ PlansKept /\ UNCHANGED <<live, disturbed>> /\ j \in Workers
      /\ SpawnOK /\ TxnsOK /\ spawned[t] > 0 /\ worker[j] = Idle
  BY StartStep, Parts DEF SessionInv, Start, Radius, PlansKept, Workers
<1>. PICK y : y = txn[t]
  OBVIOUS
<1>1. y \in Payments /\ y.sub \in Subs \cup {NoSub} /\ y.plan \in Plans \cup {NoPlan}
  BY <1>0, PayFields DEF TxnsOK
<1>. DEFINE x == [pc |-> "claiming", txn |-> t, sub |-> y.sub, plan |-> y.plan, attempt |-> 1]
<1>2. x \in Works
  BY <1>1 DEF Works, WorkSteps, fulfillmentMaxAttempts
<1>3. x.pc = "claiming" /\ x.txn = t /\ x.sub = y.sub
  OBVIOUS
<1>4. worker' = [worker EXCEPT ![j] = x]
  BY DEF Start
<1>. HIDE DEF x
<1>5. Fits(j, x)
  BY <1>0, <1>3 DEF Fits, JobFits, SpawnOK
<1>6. GoodWork(x)
  BY <1>0, <1>3 DEF GoodWork, Pushing, Adjusts, SessionInv, OnceInv
<1>. QED BY <1>0, <1>2, <1>4, <1>5, <1>6, IdleGood, CalmStep DEF SessionInv

LEMMA ClaimSpeeds ==
  ASSUME SessionInv, NEW j \in Jobs, Claim(j)
  PROVE  SpeedsInv'
<1>. PICK y : y = worker[j]
  OBVIOUS
<1>0. /\ Typed /\ BuysNothing /\ PlansKept /\ UNCHANGED <<live, disturbed>> /\ j \in Workers
      /\ y \in Works /\ Fits(j, y) /\ y.pc = "claiming" /\ y.txn \in Txns
      /\ txn[y.txn] \in Payments
  <2>1. BuysNothing /\ j \in Workers /\ WorkOK /\ TxnsOK
    BY ClaimStep, Parts DEF SessionInv, Workers
  <2>2. y \in Works /\ Fits(j, y) /\ y.pc = "claiming" /\ y.txn \in Txns
    BY <2>1 DEF Claim, WorkOK, Fits, JobFits
  <2>. QED BY <2>1, <2>2 DEF SessionInv, Claim, Radius, PlansKept, TxnsOK
<1>1. ~Pushing(y) /\ (~disturbed => GoodWork(y))
  BY <1>0 DEF Pushing, SessionInv, SpeedsInv
<1>2. CASE txn[y.txn].marker
  <2>1. worker' = [worker EXCEPT ![j] = Done(y)]
    BY <1>2 DEF Claim
  <2>2. Done(y) \in Works /\ Fits(j, Done(y))
    BY <1>0, DoneFits
  <2>3. ~disturbed => GoodWork(Done(y))
    <3>1. y.txn # NoTxn
      BY <1>0, PlanChangeAssumption
    <3>2. ~disturbed => txn[y.txn].kind # "subscription_adjustment"
      BY <1>0, <1>1, <1>2 DEF GoodWork, Adjusts
    <3>3. ~disturbed => txn[y.txn].kind = "subscription"
      BY <1>0, <3>2, PayFields
    <3>4. ~disturbed => Done(y) = Idle
      BY <3>1, <3>3 DEF Done
    <3>. QED BY <3>4, IdleGood
  <2>. QED BY <1>0, <1>1, <2>1, <2>2, <2>3, CalmStep DEF SessionInv
<1>3. CASE ~txn[y.txn].marker
  <2>. DEFINE x == [y EXCEPT !.pc = "claimed"]
  <2>1. worker' = [worker EXCEPT ![j] = x]
    BY <1>3 DEF Claim
  <2>2. x \in Works /\ x.pc = "claimed" /\ x.txn = y.txn /\ x.sub = y.sub
    BY <1>0, WorkPc DEF WorkSteps
  <2>. HIDE DEF x
  <2>3. Fits(j, x)
    BY <1>0, <2>2 DEF Fits, JobFits
  <2>4. GoodWork(x)
    BY <1>3, <2>2 DEF GoodWork, Pushing
  <2>. QED BY <1>0, <1>1, <2>1, <2>2, <2>3, <2>4, CalmStep DEF SessionInv
<1>. QED BY <1>2, <1>3

LEMMA AttemptEndsSpeeds ==
  ASSUME SessionInv, NEW j \in Jobs, AttemptFails(j) \/ RefusePaid(j)
  PROVE  SpeedsInv'
<1>0. /\ Typed /\ BuysNothing /\ PlansKept /\ UNCHANGED <<live, disturbed>> /\ j \in Workers
      /\ WorkOK /\ worker[j].pc \in {"claiming", "claimed", "strayed"}
      /\ worker' = [worker EXCEPT ![j] = NextAttempt(worker[j])]
  BY AttemptFailsStep, RefusePaidStep, Parts
     DEF SessionInv, Workers, AttemptFails, RefusePaid, Radius, PlansKept
<1>1. NextAttempt(worker[j]) \in Works /\ Fits(j, NextAttempt(worker[j]))
  BY <1>0, NextAttemptFits
<1>2. worker[j] \in Works /\ ~Pushing(worker[j]) /\ (~disturbed => GoodWork(worker[j]))
  BY <1>0 DEF WorkOK, Pushing, SessionInv, SpeedsInv
<1>3. ~disturbed => GoodWork(NextAttempt(worker[j]))
  BY <1>0, <1>2, NextAttemptGood
<1>. QED BY <1>0, <1>1, <1>2, <1>3, CalmStep DEF SessionInv

LEMMA LockLostSpeeds ==
  ASSUME SessionInv, NEW j \in Jobs, LockLost(j)
  PROVE  SpeedsInv'
<1>0. /\ Typed /\ SpeedsInv /\ j \in Workers /\ WorkOK
      /\ UNCHANGED <<live, disturbed>> /\ PlansKept /\ worker[j].pc = "claimed"
  BY Parts DEF SessionInv, Workers, LockLost, Radius, PlansKept
<1>1. BuysNothing
  BY <1>0, LockLostStep
<1>. PICK x \in Works : /\ Fits(j, x) /\ worker' = [worker EXCEPT ![j] = x]
                        /\ x.pc = "strayed" /\ x.txn = worker[j].txn
  BY <1>0, LockLostStep
<1>2. ~disturbed => GoodWork(worker[j])
  BY <1>0 DEF SpeedsInv
<1>3. ~disturbed => GoodWork(x)
  BY <1>0, <1>2 DEF GoodWork, Pushing, Adjusts
<1>4. ~Pushing(worker[j])
  BY <1>0 DEF Pushing
<1>. QED BY <1>0, <1>1, <1>3, <1>4, CalmStep

LEMMA FreeSpeeds ==
  ASSUME SessionInv, NEW r \in Requests,
         (\E s \in Subs, p \in Plans : FreeCheck(r, s, p)) \/ FreeRefused(r)
  PROVE  SpeedsInv'
<1>0. Typed /\ r \in Workers /\ r \notin Jobs
  BY PlanChangeAssumption DEF SessionInv, Workers
<1>1. ASSUME NEW s \in Subs, NEW p \in Plans, FreeCheck(r, s, p) PROVE SpeedsInv'
  <2>. DEFINE x == [pc |-> "checked", txn |-> NoTxn, sub |-> s, plan |-> p, attempt |-> 1]
  <2>1. /\ worker' = [worker EXCEPT ![r] = x] /\ worker[r] = Idle
        /\ UNCHANGED <<live, disturbed>> /\ PlansKept
    BY <1>1 DEF FreeCheck, Radius, PlansKept
  <2>2. x \in Works /\ x.pc = "checked" /\ x.txn = NoTxn /\ x.sub = s
    BY DEF Works, WorkSteps, fulfillmentMaxAttempts
  <2>. HIDE DEF x
  <2>3. Fits(r, x) /\ GoodWork(x) /\ ~Pushing(worker[r])
    BY <1>0, <2>1, <2>2, IdleGood DEF Fits, RequestFits, GoodWork, Pushing, Adjusts
  <2>4. BuysNothing
    BY <1>0, <1>1, FreeCheckStep
  <2>. QED BY <1>0, <2>1, <2>2, <2>3, <2>4, CalmStep DEF SessionInv
<1>2. CASE FreeRefused(r)
  <2>1. /\ BuysNothing /\ PlansKept /\ UNCHANGED <<live, disturbed>>
        /\ worker' = [worker EXCEPT ![r] = Idle] /\ ~Pushing(worker[r])
    BY <1>0, <1>2, FreeRefusedStep DEF FreeRefused, PlansKept, Radius, Pushing
  <2>. QED BY <1>0, <2>1, IdleGood, IdleFits, IdleType, CalmStep DEF SessionInv
<1>. QED BY <1>1, <1>2

LEMMA CoaReadSpeeds ==
  ASSUME SessionInv, NEW w \in Workers, CoaRead(w)
  PROVE  SpeedsInv'
<1>. PICK y, p : y = worker[w] /\ p = sub[worker[w].sub].plan
  OBVIOUS
<1>0. /\ Typed /\ BuysNothing /\ PlansKept /\ UNCHANGED <<live, disturbed>>
      /\ y \in Works /\ y.pc = "coa" /\ Fits(w, y)
  BY CoaReadStep, Parts DEF SessionInv, CoaRead, Radius, PlansKept, WorkOK
<1>1. y.sub \in Subs
  BY <1>0 DEF Fits, JobFits, RequestFits
<1>2. p \in Plans \cup {NoPlan}
  BY <1>1, Parts DEF SessionInv, SubsOK, SubRows
<1>. DEFINE a == [y EXCEPT !.pc = "push"]
            x == [a EXCEPT !.plan = p]
<1>3. worker' = [worker EXCEPT ![w] = x]
  BY DEF CoaRead
<1>4. a \in Works /\ a.pc = "push" /\ a.txn = y.txn /\ a.sub = y.sub
  BY <1>0, WorkPc DEF WorkSteps
<1>. HIDE DEF a
<1>5. x \in Works /\ x.pc = "push" /\ x.txn = y.txn /\ x.sub = y.sub /\ x.plan = p
  BY <1>2, <1>4 DEF Works
<1>. HIDE DEF x
<1>6. Fits(w, x)
  BY <1>0, <1>1, <1>5 DEF Fits, JobFits, RequestFits
<1>7. ~disturbed => GoodWork(x)
  <2>1. ~disturbed => GoodWork(y) /\ Pushing(y)
    BY <1>0 DEF SessionInv, SpeedsInv, Pushing
  <2>. QED BY <1>5, <2>1 DEF GoodWork, Adjusts
<1>8. Pushing(x)
  BY <1>5 DEF Pushing
<1>. QED BY <1>0, <1>3, <1>5, <1>6, <1>7, <1>8, CalmStep DEF SessionInv

LEMMA CoaPushSpeeds ==
  ASSUME SessionInv, NEW w \in Workers, CoaPush(w)
  PROVE  SpeedsInv'
<1>0. /\ Typed /\ BuysNothing /\ PlansKept /\ UNCHANGED disturbed /\ WorkOK
      /\ worker' = [worker EXCEPT ![w] = Idle] /\ worker[w].pc = "push"
      /\ live' \in {NoPlan, worker[w].plan}
  BY CoaPushStep, Parts DEF SessionInv, CoaPush, PlansKept
<1>. SUFFICES ASSUME ~disturbed PROVE SpeedsInv'
  BY <1>0 DEF SpeedsInv
<1>1. worker[w].plan = group
  BY <1>0 DEF SessionInv, SpeedsInv, GoodWork
<1>2. ASSUME NEW v \in Workers PROVE GoodWork(worker[v])'
  <2>. PICK y : y = worker'[v]
    OBVIOUS
  <2>1. Fits(v, y) /\ GoodWork(y)
    BY <1>0, IdleFits, IdleGood DEF WorkOK, SessionInv, SpeedsInv
  <2>2. GoodWork(y)'
    BY <1>0, <2>1, GoodKept
  <2>. QED BY <2>2 DEF GoodWork, Pushing, Adjusts
<1>3. live' \in {NoPlan, group'}
  BY <1>0, <1>1 DEF PlansKept
<1>. QED BY <1>2, <1>3 DEF SpeedsInv

\* A new session has the speeds of the rows, and nobody is about to push others
\* if the step ends a disturbance.
LEMMA LoginSpeeds ==
  ASSUME SessionInv, Login
  PROVE  SpeedsInv'
<1>0. /\ Typed /\ BuysNothing /\ PlansKept /\ WorkOK /\ UNCHANGED worker
      /\ live' = group' /\ DOMAIN worker = Workers
      /\ disturbed' = (disturbed /\ \E w \in Workers : worker[w] # Idle)
  <2>1. Typed /\ BuysNothing /\ WorkOK
    BY LoginStep, Parts DEF SessionInv
  <2>2. DOMAIN worker = Workers
    BY <2>1 DEF WorkOK
  <2>. QED BY <2>1, <2>2 DEF Login, PlansKept
<1>. SUFFICES ASSUME ~disturbed' PROVE SpeedsInv'
  BY DEF SpeedsInv
<1>1. \A w \in Workers : GoodWork(worker[w])
  <2>1. CASE ~disturbed
    BY <2>1 DEF SessionInv, SpeedsInv
  <2>2. CASE \A w \in Workers : worker[w] = Idle
    BY <2>2, IdleGood
  <2>. QED BY <1>0, <2>1, <2>2
<1>2. ASSUME NEW v \in Workers PROVE GoodWork(worker[v])'
  <2>. PICK y : y = worker[v]
    OBVIOUS
  <2>1. Fits(v, y) /\ GoodWork(y)
    BY <1>0, <1>1 DEF WorkOK
  <2>2. GoodWork(y)'
    BY <1>0, <2>1, GoodKept
  <2>. QED BY <1>0, <2>2 DEF GoodWork, Pushing, Adjusts
<1>. QED BY <1>0, <1>2 DEF SpeedsInv

\* A change or a purchase by worker w: if the session is undisturbed after it,
\* nobody else is under way and w goes on to push the new plan.
LEMMA RewriteSpeeds ==
  ASSUME Typed, NEW w \in Workers, NEW s \in Subs, NEW p, NEW x \in Works,
         worker' = [worker EXCEPT ![w] = x], NEW pushed \in BOOLEAN, Rewrite(w, p, pushed),
         pushed => x.pc = "coa" /\ x.sub = s, sub'[s].plan = p
  PROVE  PlansInv' /\ SpeedsInv'
<1>0. WorkOK /\ DOMAIN worker = Workers /\ group' = p
      /\ disturbed' = (disturbed \/ (\E v \in Workers \ {w} : worker[v] # Idle) \/ ~pushed)
  BY Parts DEF WorkOK, Rewrite, OthersUnderWay
<1>1. PlansInv'
  BY <1>0 DEF PlansInv
<1>. SUFFICES ASSUME ~disturbed' PROVE SpeedsInv'
  BY <1>1 DEF SpeedsInv
<1>2. pushed /\ \A v \in Workers \ {w} : worker[v] = Idle
  BY <1>0
<1>3. worker'[w] = x /\ \A v \in Workers \ {w} : worker'[v] = Idle
  BY <1>0, <1>2 DEF WorkOK
<1>4. GoodWork(worker[w])' /\ Pushing(worker[w])'
  BY <1>0, <1>2, <1>3 DEF GoodWork, Pushing, Adjusts
<1>5. ASSUME NEW v \in Workers PROVE GoodWork(worker[v])'
  <2>1. CASE v = w
    BY <1>4, <2>1
  <2>2. CASE v # w
    BY <1>3, <2>2, IdleType DEF GoodWork, Pushing, Adjusts
  <2>. QED BY <2>1, <2>2
<1>. QED BY <1>4, <1>5 DEF SpeedsInv

LEMMA SubscribeSpeeds ==
  ASSUME SessionInv, NEW j \in Jobs, NEW s \in Subs, Subscribe(j, s)
  PROVE  PlansInv' /\ SpeedsInv'
<1>. PICK t, p : t = worker[j].txn /\ p = worker[j].plan
  OBVIOUS
<1>0. Typed /\ j \in Workers /\ WorkOK /\ SubsOK /\ OtherOK /\ p \in Plans /\ t \in Txns
  <2>1. Typed /\ j \in Workers /\ WorkOK /\ SubsOK /\ OtherOK
    BY Parts DEF SessionInv, Workers
  <2>. QED BY <2>1 DEF Subscribe, OtherOK, WorkOK, Fits, JobFits
<1>1. sub' = [sub EXCEPT ![s] = Fresh(p, t)] /\ Rewrite(j, p, FALSE)
  BY DEF Subscribe
<1>2. sub'[s].plan = p
  BY <1>0, <1>1, FreshType DEF SubsOK
<1>3. PICK x \in Works : worker' = [worker EXCEPT ![j] = x]
  <2>1. worker[j].pc \in Entered
    BY DEF Subscribe
  <2>2. Done(worker[j]) \in Works /\ NextAttempt(worker[j]) \in Works
    BY <1>0, <2>1, DoneFits, NextAttemptFits
  <2>. QED BY <2>2 DEF Subscribe
<1>. QED BY <1>0, <1>1, <1>2, <1>3, RewriteSpeeds

\* Done leads every change to its push.
LEMMA DonePushes ==
  ASSUME NEW x \in Works, x.txn # NoTxn => txn[x.txn].kind # "subscription"
  PROVE  Done(x).pc = "coa" /\ Done(x).sub = x.sub
BY WorkPc DEF Done, WorkSteps

LEMMA ChangeSpeeds ==
  ASSUME SessionInv, NEW w \in Workers,
         (w \in Jobs /\ AdjustPaid(w)) \/ (w \in Requests /\ FreeApply(w))
  PROVE  PlansInv' /\ SpeedsInv'
<1>. PICK y, s, p : y = worker[w] /\ s = y.sub /\ p = y.plan
  OBVIOUS
<1>0. Typed /\ WorkOK /\ TxnsOK /\ SubsOK /\ y \in Works /\ Fits(w, y)
  BY Parts DEF SessionInv, WorkOK
<1>1. /\ s \in Subs /\ (y.txn # NoTxn => txn[y.txn].kind # "subscription")
      /\ (w \in Jobs /\ y.pc \in Entered) \/ (w \in Requests /\ y.pc = "checked")
  <2>1. CASE w \in Jobs /\ AdjustPaid(w)
    <3>1. y.pc \in Entered /\ txn[y.txn].kind = "subscription_adjustment"
      BY <2>1 DEF AdjustPaid
    <3>2. y.txn \in Txns /\ s = txn[y.txn].sub
      BY <1>0, <2>1, <3>1 DEF Fits, JobFits
    <3>. QED BY <1>0, <2>1, <3>1, <3>2 DEF TxnsOK
  <2>2. CASE w \in Requests /\ FreeApply(w)
    <3>1. y.pc = "checked" /\ w \notin Jobs
      BY <2>2, PlanChangeAssumption DEF FreeApply
    <3>. QED BY <1>0, <2>2, <3>1 DEF Fits, RequestFits
  <2>. QED BY <2>1, <2>2
<1>2. PICK answered \in BOOLEAN, x \in Works :
         /\ sub' = [sub EXCEPT ![s].plan = p] /\ Rewrite(w, p, answered)
         /\ worker' = [worker EXCEPT ![w] = x]
         /\ answered => x = Done(y)
  <2>1. Done(y) \in Works /\ Idle \in Works
    BY <1>0, <1>1, DoneFits, IdleType
  <2>2. CASE w \in Jobs /\ AdjustPaid(w)
    <3>1. NextAttempt(y) \in Works
      BY <1>0, NextAttemptType
    <3>. QED BY <2>1, <2>2, <3>1 DEF AdjustPaid, Change
  <2>3. CASE w \in Requests /\ FreeApply(w)
    BY <2>1, <2>3 DEF FreeApply, Change
  <2>. QED BY <2>2, <2>3
<1>3. sub'[s].plan = p
  <2>2. sub'[s] = [sub[s] EXCEPT !.plan = p]
    BY <1>0, <1>1, <1>2 DEF SubsOK
  <2>3. sub[s] \in SubRows
    BY <1>0, <1>1 DEF SubsOK
  <2>. QED BY <2>2, <2>3 DEF SubRows
<1>4. answered => x.pc = "coa" /\ x.sub = s
  BY <1>0, <1>1, <1>2, DonePushes
<1>. QED BY <1>0, <1>1, <1>2, <1>3, <1>4, RewriteSpeeds

LEMMA SpeedsStep ==
  ASSUME SessionInv, [Next]_vars
  PROVE  PlansInv' /\ SpeedsInv'
<1>0. Typed /\ PlansInv /\ SpeedsInv
  BY DEF SessionInv
<1>1. ASSUME NEW t \in Txns, PayerStep(t) PROVE PlansInv' /\ SpeedsInv'
  <2>1. PayerMoves(t) /\ BuysNothing
    BY <1>0, <1>1, PayerSteps, PayerBuysNothing
  <2>2. PlansKept /\ UNCHANGED <<live, disturbed, worker>>
    BY <2>1 DEF PayerMoves, Rest, Radius, PlansKept
  <2>. QED BY <1>0, <2>1, <2>2, CalmerStep, PlansStay
<1>2. ASSUME NEW j \in Jobs, JobStep(j) PROVE PlansInv' /\ SpeedsInv'
  <2>1. CASE (\E s \in Subs : Subscribe(j, s)) \/ AdjustPaid(j)
    BY <1>2, <2>1, SubscribeSpeeds, ChangeSpeeds DEF Workers
  <2>2. CASE (\E t \in Txns : Start(j, t)) \/ Claim(j) \/ AttemptFails(j) \/ RefusePaid(j)
    <3>1. PlansKept
      BY <2>2 DEF Start, Claim, AttemptFails, RefusePaid, Radius, PlansKept
    <3>. QED BY <1>0, <1>2, <2>2, <3>1, PlansStay, StartSpeeds, ClaimSpeeds, AttemptEndsSpeeds
  <2>3. CASE LockLost(j)
    <3>1. PlansKept
      BY <2>3 DEF LockLost, Radius, PlansKept
    <3>. QED BY <1>0, <2>3, <3>1, PlansStay, LockLostSpeeds
  <2>. QED BY <1>2, <2>1, <2>2, <2>3 DEF JobStep
<1>3. ASSUME NEW r \in Requests, RequestStep(r) PROVE PlansInv' /\ SpeedsInv'
  <2>1. CASE FreeApply(r)
    BY <1>3, <2>1, ChangeSpeeds DEF Workers
  <2>2. CASE (\E s \in Subs, p \in Plans : FreeCheck(r, s, p)) \/ FreeRefused(r)
    <3>1. PlansKept
      BY <2>2 DEF FreeCheck, FreeRefused, Radius, PlansKept
    <3>. QED BY <1>0, <1>3, <2>2, <3>1, PlansStay, FreeSpeeds
  <2>. QED BY <1>3, <2>1, <2>2 DEF RequestStep
<1>4. ASSUME NEW w \in Workers, CoaRead(w) \/ CoaPush(w) \/ CoaFails(w)
      PROVE  PlansInv' /\ SpeedsInv'
  <2>1. PlansKept
    BY <1>4 DEF CoaRead, CoaPush, CoaFails, Radius, PlansKept
  <2>2. CoaFails(w) => disturbed'
    BY DEF CoaFails
  <2>3. SpeedsInv'
    BY <1>4, <2>2, CoaReadSpeeds, CoaPushSpeeds DEF SpeedsInv
  <2>. QED BY <1>0, <2>1, <2>3, PlansStay
<1>5. CASE DayPasses \/ (\E s \in Subs : Expire(s)) \/ (\E p \in Plans : Withdraw(p))
  <2>1. /\ BuysNothing /\ UNCHANGED <<group, live, disturbed, worker>> /\ SubsOK
    BY <1>0, <1>5, DayPassesStep, ExpireStep, WithdrawStep, Parts
       DEF DayPasses, Expire, Withdraw, Radius
  <2>2. ASSUME NEW u \in Subs PROVE sub'[u].plan = sub[u].plan
    <3>1. sub[u] \in SubRows
      BY <2>1 DEF SubsOK
    <3>2. CASE DayPasses
      <4>1. sub'[u] = [sub[u] EXCEPT !.left = IF @ > 0 THEN @ - 1 ELSE 0]
        BY <3>2 DEF DayPasses
      <4>. QED BY <3>1, <4>1 DEF SubRows
    <3>3. ASSUME NEW s \in Subs, Expire(s) PROVE sub'[u].plan = sub[u].plan
      <4>1. sub'[u] = sub[u] \/ sub'[u] = [sub[u] EXCEPT !.status = "expired"]
        BY <2>1, <3>3 DEF Expire, SubsOK
      <4>. QED BY <3>1, <4>1 DEF SubRows
    <3>. QED BY <1>5, <3>2, <3>3 DEF Withdraw
  <2>. QED BY <1>0, <2>1, <2>2, CalmerStep, PlansStay DEF PlansKept
<1>6. CASE Login
  <2>1. PlansKept
    BY <1>6 DEF Login, PlansKept
  <2>. QED BY <1>0, <1>6, <2>1, PlansStay, LoginSpeeds
<1>7. CASE Crash
  <2>1. PlansKept /\ disturbed'
    BY <1>7 DEF Crash, PlansKept
  <2>. QED BY <1>0, <2>1, PlansStay DEF SpeedsInv
<1>8. CASE UNCHANGED vars
  <2>1. BuysNothing /\ PlansKept /\ UNCHANGED <<live, disturbed, worker>>
    BY <1>0, <1>8, StillBuysNothing DEF vars, PlansKept
  <2>. QED BY <1>0, <2>1, CalmerStep, PlansStay
<1>. QED BY <1>1, <1>2, <1>3, <1>4, <1>5, <1>6, <1>7, <1>8 DEF Next, Workers

-----------------------------------------------------------------------------
(* What is spawned.                                                        *)

\* No goroutine is spawned and no job begins.
NoneSpawned == \A t \in Txns : spawned'[t] > 0 => spawned[t] > 0
NoneBegins == \A j \in Jobs : worker'[j].pc # "idle" =>
                  worker[j].pc # "idle" /\ worker'[j].txn = worker[j].txn

LEMMA StepMarks ==
  ASSUME Typed, Step
  PROVE  /\ TxnKeeps
         /\ \A t \in Txns : txn'[t].marker =>
              txn[t].marker \/ \E j \in Jobs : worker[j].pc \in Entered /\ worker[j].txn = t
<1>1. TxnKeeps
  BY DEF Step, BuysNothing, Subscribed, Changed, Marks
<1>2. ASSUME NEW t \in Txns, txn'[t].marker, ~txn[t].marker
      PROVE  \E j \in Jobs : worker[j].pc \in Entered /\ worker[j].txn = t
  <2>1. ASSUME NEW w, NEW u, Marks(w, u) PROVE t = u
    BY <1>2, <2>1 DEF Marks
  <2>2. t # NoTxn
    BY PlanChangeAssumption
  <2>. QED BY <1>2, <2>1, <2>2 DEF Step, BuysNothing, Subscribed, Changed
<1>. QED BY <1>1, <1>2

LEMMA OnceKept ==
  ASSUME Typed, OnceInv, Step, NoneSpawned, NoneBegins
  PROVE  OnceInv'
<1>0. TxnKeeps /\ WorkOK /\ SpawnOK
  BY StepMarks, Parts
<1>1. ASSUME NEW t \in Txns, ~Paid(t)' PROVE ~txn'[t].marker
  <2>1. ~Paid(t)
    BY <1>0, <1>1 DEF TxnKeeps, KeptPayment, Paid
  <2>2. \A j \in Jobs : worker[j].pc \in Entered => worker[j].txn # t
    BY <1>0, <2>1 DEF WorkOK, Workers, Fits, JobFits
  <2>. QED BY <2>1, <2>2, StepMarks DEF OnceInv
<1>2. ASSUME NEW t \in Txns, txn'[t].kind = "subscription_adjustment", spawned'[t] > 0
      PROVE  /\ ~txn'[t].marker
             /\ \A j \in Jobs : ~(worker'[j].pc # "idle" /\ worker'[j].txn = t)
  <2>1. spawned[t] > 0 /\ Paid(t)
    BY <1>0, <1>2 DEF NoneSpawned, SpawnOK
  <2>2. txn[t].kind = "subscription_adjustment"
    BY <1>0, <1>2, <2>1 DEF TxnKeeps, KeptPayment, Paid
  <2>3. ~txn[t].marker /\ \A j \in Jobs : ~(worker[j].pc # "idle" /\ worker[j].txn = t)
    BY <2>1, <2>2 DEF OnceInv
  <2>. QED BY <2>3, StepMarks DEF NoneBegins
<1>. QED BY <1>1, <1>2 DEF OnceInv

\* A payment is captured, or the sweep finds one that is not a change.
LEMMA SpawnOnce ==
  ASSUME Typed, OnceInv, NEW t \in Txns, Capture(t) \/ SweepTrigger(t)
  PROVE  OnceInv'
<1>0. WorkOK /\ TxnsOK /\ SpawnOK /\ BuysNothing /\ UNCHANGED worker
      /\ spawned' = [spawned EXCEPT ![t] = 1]
  <2>1. PayerStep(t)
    BY DEF PayerStep
  <2>2. BuysNothing
    BY <2>1, PayerSteps, PayerBuysNothing
  <2>. QED BY <2>2, Parts DEF Capture, SweepTrigger
<1>1. \A u \in Txns : u # t => spawned'[u] = spawned[u]
  BY <1>0 DEF SpawnOK
<1>2. ASSUME NEW u \in Txns, ~Paid(u)' PROVE ~txn'[u].marker
  BY <1>0, <1>2 DEF OnceInv, BuysNothing, TxnKeeps, KeptPayment, Paid
<1>3. ASSUME NEW u \in Txns, txn'[u].kind = "subscription_adjustment", spawned'[u] > 0
      PROVE  /\ ~txn'[u].marker
             /\ \A j \in Jobs : ~(worker'[j].pc # "idle" /\ worker'[j].txn = u)
  <2>1. CASE spawned[u] > 0
    <3>1. Paid(u) /\ txn[u].kind = "subscription_adjustment"
      BY <1>0, <1>3, <2>1 DEF SpawnOK, BuysNothing, TxnKeeps, KeptPayment, Paid
    <3>. QED BY <1>0, <2>1, <3>1 DEF OnceInv, BuysNothing
  <2>2. CASE ~(spawned[u] > 0)
    <3>1. u = t
      BY <1>1, <1>3, <2>2
    <3>2. ~SweepTrigger(t)
      <4>1. SUFFICES ASSUME SweepTrigger(t) PROVE FALSE
        OBVIOUS
      <4>2. txn'[t].kind = "subscription"
        BY <4>1 DEF SweepTrigger
      <4>. QED BY <1>3, <3>1, <4>2
    <3>3. ~Paid(u)
      BY <3>1, <3>2 DEF Capture, Paid
    <3>4. \A j \in Jobs : ~(worker[j].pc # "idle" /\ worker[j].txn = u)
      BY <1>0, <3>3 DEF WorkOK, Workers, Fits, JobFits
    <3>. QED BY <1>0, <3>3, <3>4 DEF OnceInv, BuysNothing
  <2>. QED BY <2>1, <2>2
<1>. QED BY <1>2, <1>3 DEF OnceInv

\* The goroutine that was spawned begins.
LEMMA StartOnce ==
  ASSUME Typed, OnceInv, NEW j \in Jobs, NEW t \in Txns, Start(j, t)
  PROVE  OnceInv'
<1>0. WorkOK /\ SpawnOK /\ UNCHANGED txn /\ spawned' = [spawned EXCEPT ![t] = 0]
  BY Parts DEF Start
<1>1. /\ spawned'[t] = 0 /\ \A u \in Txns : u # t => spawned'[u] = spawned[u]
      /\ worker'[j].txn = t /\ \A k \in Jobs : k # j => worker'[k] = worker[k]
  <2>1. worker' = [worker EXCEPT ![j] = [pc |-> "claiming", txn |-> t,
          sub |-> txn[t].sub, plan |-> txn[t].plan, attempt |-> 1]]
    BY DEF Start
  <2>2. worker'[j].txn = t
    BY <1>0, <2>1 DEF WorkOK, Workers
  <2>. QED BY <1>0, <2>1, <2>2 DEF SpawnOK, WorkOK, Workers
<1>. QED BY <1>0, <1>1 DEF OnceInv, Paid

\* One worker moves on with the payment it had, or rests.
LEMMA MovesOn ==
  ASSUME WorkOK, NEW w \in Workers, NEW x, worker' = [worker EXCEPT ![w] = x],
         w \in Jobs /\ x.pc # "idle" => worker[w].pc # "idle" /\ x.txn = worker[w].txn
  PROVE  NoneBegins
<1>1. worker'[w] = x /\ \A v \in Workers : v # w => worker'[v] = worker[v]
  BY DEF WorkOK
<1>2. \A j \in Jobs : j \in Workers
  BY DEF Workers
<1>. QED BY <1>1, <1>2 DEF NoneBegins

\* Whether an attempt ends, succeeds or is refused, the job keeps its payment.
LEMMA KeepsPayment ==
  ASSUME NEW x \in Works
  PROVE  /\ NextAttempt(x).pc # "idle" => NextAttempt(x).txn = x.txn
         /\ Done(x).pc # "idle" => Done(x).txn = x.txn
<1>. PICK y, z : y = Done(x) /\ z = [x EXCEPT !.pc = "coa"]
  OBVIOUS
<1>1. z.txn = x.txn
  BY WorkPc DEF WorkSteps
<1>2. y = Idle \/ y = z
  BY DEF Done
<1>3. y.pc # "idle" => y.txn = x.txn
  BY <1>1, <1>2, IdleType
<1>. QED BY <1>3, NextAttemptType

LEMMA JobOnce ==
  ASSUME SessionInv, NEW j \in Jobs, JobStep(j)
  PROVE  OnceInv'
<1>0. Typed /\ OnceInv /\ WorkOK /\ Step /\ j \in Workers
  <2>1. [Next]_vars
    BY DEF Next
  <2>. QED BY <2>1, Steps, Parts DEF SessionInv, Workers
<1>. PICK y : y = worker[j]
  OBVIOUS
<1>1. y \in Works
  BY <1>0 DEF WorkOK
<1>2. CASE \E t \in Txns : Start(j, t)
  BY <1>0, <1>2, StartOnce
<1>3. CASE Claim(j)
  <2>1. y.pc # "idle" /\ UNCHANGED spawned
    BY <1>3 DEF Claim
  <2>2. \/ worker' = [worker EXCEPT ![j] = Done(y)]
        \/ worker' = [worker EXCEPT ![j] = [y EXCEPT !.pc = "claimed"]]
    BY <1>3 DEF Claim
  <2>. PICK x : /\ x = Done(y) \/ x = [y EXCEPT !.pc = "claimed"]
               /\ worker' = [worker EXCEPT ![j] = x]
    BY <2>2
  <2>3. x.pc # "idle" => x.txn = y.txn
    <3>1. [y EXCEPT !.pc = "claimed"].txn = y.txn
      BY <1>1, WorkPc DEF WorkSteps
    <3>. QED BY <1>1, <3>1, KeepsPayment
  <2>4. NoneBegins
    BY <1>0, <2>1, <2>3, MovesOn
  <2>. QED BY <1>0, <2>1, <2>4, OnceKept DEF NoneSpawned
<1>4. CASE AttemptFails(j) \/ (\E s \in Subs : Subscribe(j, s)) \/ AdjustPaid(j) \/ RefusePaid(j)
  <2>1. y.pc # "idle" /\ UNCHANGED spawned
    BY <1>4 DEF AttemptFails, Subscribe, AdjustPaid, RefusePaid
  <2>2. \/ worker' = [worker EXCEPT ![j] = Done(y)]
        \/ worker' = [worker EXCEPT ![j] = NextAttempt(y)]
    BY <1>4 DEF AttemptFails, Subscribe, AdjustPaid, RefusePaid
  <2>4. NoneBegins
    BY <1>0, <1>1, <2>1, <2>2, KeepsPayment, MovesOn
  <2>. QED BY <1>0, <2>1, <2>4, OnceKept DEF NoneSpawned
<1>5. CASE LockLost(j)
  <2>. PICK x : worker' = [worker EXCEPT ![j] = x] /\ x.txn = y.txn
    BY <1>0, <1>5, LockLostStep
  <2>1. y.pc # "idle" /\ UNCHANGED spawned
    BY <1>5 DEF LockLost
  <2>2. NoneBegins
    BY <1>0, <2>1, MovesOn
  <2>. QED BY <1>0, <2>1, <2>2, OnceKept DEF NoneSpawned
<1>. QED BY <1>2, <1>3, <1>4, <1>5 DEF JobStep

LEMMA OnceStep ==
  ASSUME SessionInv, [Next]_vars
  PROVE  OnceInv'
<1>0. Typed /\ OnceInv /\ WorkOK /\ Step
  BY Steps, Parts DEF SessionInv
<1>1. CASE UNCHANGED spawned /\ NoneBegins
  BY <1>0, <1>1, OnceKept DEF NoneSpawned
<1>2. ASSUME NEW t \in Txns, PayerStep(t) PROVE OnceInv'
  <2>1. CASE Capture(t) \/ SweepTrigger(t)
    BY <1>0, <2>1, SpawnOnce
  <2>2. CASE ~(Capture(t) \/ SweepTrigger(t))
    <3>1. UNCHANGED spawned /\ NoneBegins
      BY <1>2, <2>2
         DEF PayerStep, Quote, InitiateAdjustment, InitiateSubscription, NoneBegins
    <3>. QED BY <1>1, <3>1
  <2>. QED BY <2>1, <2>2
<1>3. ASSUME NEW j \in Jobs, JobStep(j) PROVE OnceInv'
  BY <1>3, JobOnce
<1>4. ASSUME NEW r \in Requests, RequestStep(r) PROVE OnceInv'
  <2>1. r \in Workers /\ r \notin Jobs
    BY PlanChangeAssumption DEF Workers
  <2>2. UNCHANGED spawned /\ \E x : worker' = [worker EXCEPT ![r] = x]
    BY <1>4 DEF RequestStep, FreeCheck, FreeApply, FreeRefused
  <2>. QED BY <1>0, <1>1, <2>1, <2>2, MovesOn
<1>5. ASSUME NEW w \in Workers, CoaRead(w) \/ CoaPush(w) \/ CoaFails(w) PROVE OnceInv'
  <2>. PICK y : y = worker[w]
    OBVIOUS
  <2>1. y \in Works /\ y.pc # "idle" /\ UNCHANGED spawned
    BY <1>0, <1>5 DEF WorkOK, CoaRead, CoaPush, CoaFails
  <2>2. CASE CoaRead(w)
    <3>. PICK p : p = sub[y.sub].plan
      OBVIOUS
    <3>. DEFINE x == [y EXCEPT !.pc = "push", !.plan = p]
    <3>1. worker' = [worker EXCEPT ![w] = x]
      BY <2>2 DEF CoaRead
    <3>2. x.txn = y.txn
      BY <2>1 DEF Works
    <3>. HIDE DEF x
    <3>. QED BY <1>0, <1>1, <2>1, <3>1, <3>2, MovesOn
  <2>3. CASE CoaPush(w) \/ CoaFails(w)
    <3>1. worker' = [worker EXCEPT ![w] = Idle]
      BY <2>3 DEF CoaPush, CoaFails
    <3>. QED BY <1>0, <1>1, <2>1, <3>1, IdleType, MovesOn
  <2>. QED BY <1>5, <2>2, <2>3
<1>6. CASE \/ DayPasses \/ (\E s \in Subs : Expire(s)) \/ (\E p \in Plans : Withdraw(p))
           \/ Login \/ UNCHANGED vars
  <2>1. UNCHANGED <<spawned, worker>>
    BY <1>6 DEF DayPasses, Expire, Withdraw, Login, vars
  <2>. QED BY <1>1, <2>1 DEF NoneBegins
<1>7. CASE Crash
  <2>1. \A j \in Jobs : worker'[j] = Idle
    BY <1>0, <1>7 DEF Crash, WorkOK, Workers
  <2>2. \A t \in Txns : ~(spawned'[t] > 0)
    BY <1>7 DEF Crash
  <2>3. NoneSpawned /\ NoneBegins
    BY <2>1, <2>2, IdleType DEF NoneSpawned, NoneBegins
  <2>. QED BY <1>0, <2>3, OnceKept
<1>. QED BY <1>2, <1>3, <1>4, <1>5, <1>6, <1>7 DEF Next, Workers

LEMMA SessionInit == ASSUME Init PROVE SessionInv
<1>1. Typed
  BY TypedInit
<1>2. PlansInv /\ live = group
  BY FirstRows DEF PlansInv
<1>3. \A w \in Workers : worker[w] = Idle
  BY DEF Init, Workers
<1>4. SpeedsInv
  BY <1>2, <1>3, IdleGood DEF SpeedsInv
<1>5. OnceInv
  BY NoPaymentType DEF Init, OnceInv
<1>. QED BY <1>1, <1>2, <1>4, <1>5 DEF SessionInv

LEMMA SessionAlways == Spec => []SessionInv
<1>1. SessionInv /\ [Next]_vars => SessionInv'
  BY Steps, SpeedsStep, OnceStep DEF SessionInv
<1>. QED BY <1>1, SessionInit, PTL DEF Spec

\* There are no RADIUS rows only before the first subscription.
NoRowsInv == group = NoPlan => \A s \in Subs : sub[s].status = "absent"

LEMMA NoRowsStep ==
  ASSUME Typed, NoRowsInv, [Next]_vars
  PROVE  NoRowsInv'
<1>0. OtherOK /\ SubsOK
  BY Parts
<1>1. CASE UNCHANGED <<sub, group>>
  BY <1>1 DEF NoRowsInv
<1>2. ASSUME NEW w, NEW p \in Plans, NEW a, Rewrite(w, p, a) PROVE NoRowsInv'
  BY <1>2, PlanChangeAssumption DEF Rewrite, NoRowsInv
<1>3. ASSUME NEW t \in Txns, PayerStep(t) PROVE NoRowsInv'
  BY <1>1, <1>3, PayerSteps DEF PayerMoves, Rest, Radius
<1>4. ASSUME NEW j \in Jobs, JobStep(j) PROVE NoRowsInv'
  <2>1. ASSUME NEW s \in Subs, Subscribe(j, s) PROVE NoRowsInv'
    BY <1>0, <1>2, <2>1 DEF Subscribe, OtherOK
  <2>2. CASE AdjustPaid(j)
    <3>. PICK s, p : s = worker[j].sub /\ p = worker[j].plan
      OBVIOUS
    <3>1. Refusal(s, p, Cents(txn[worker[j].txn].amount), txn[worker[j].txn].flaw) = "none"
          /\ \E a : Rewrite(j, p, a)
      BY <2>2 DEF AdjustPaid, Change
    <3>2. p \in Plans
      BY <1>0, <3>1, NotRefused DEF OtherOK
    <3>. QED BY <1>2, <3>1, <3>2
  <2>3. CASE \/ \E t \in Txns : Start(j, t)
             \/ Claim(j) \/ LockLost(j) \/ AttemptFails(j) \/ RefusePaid(j)
    BY <1>1, <2>3 DEF Start, Claim, LockLost, AttemptFails, RefusePaid, Radius
  <2>. QED BY <1>4, <2>1, <2>2, <2>3 DEF JobStep
<1>5. ASSUME NEW r \in Requests, RequestStep(r) PROVE NoRowsInv'
  <2>1. CASE FreeApply(r)
    <3>. PICK s, p : s = worker[r].sub /\ p = worker[r].plan
      OBVIOUS
    <3>1. Refusal(s, p, 0, "none") = "none" /\ \E a : Rewrite(r, p, a)
      BY <2>1 DEF FreeApply, Change
    <3>2. p \in Plans
      BY <1>0, <3>1, NotRefused DEF OtherOK
    <3>. QED BY <1>2, <3>1, <3>2
  <2>2. CASE (\E s \in Subs, p \in Plans : FreeCheck(r, s, p)) \/ FreeRefused(r)
    BY <1>1, <2>2 DEF FreeCheck, FreeRefused, Radius
  <2>. QED BY <1>5, <2>1, <2>2 DEF RequestStep
<1>6. ASSUME NEW w, CoaRead(w) \/ CoaPush(w) \/ CoaFails(w) PROVE NoRowsInv'
  BY <1>1, <1>6 DEF CoaRead, CoaPush, CoaFails, Radius
<1>7. CASE DayPasses
  <2>1. ASSUME NEW s \in Subs PROVE sub'[s].status = sub[s].status
    BY <1>0, <1>7 DEF DayPasses, SubsOK, SubRows
  <2>. QED BY <1>7, <2>1 DEF DayPasses, NoRowsInv, Radius
<1>8. ASSUME NEW s \in Subs, Expire(s) PROVE NoRowsInv'
  BY <1>8 DEF Expire, NoRowsInv, Radius
<1>9. CASE (\E p \in Plans : Withdraw(p)) \/ Login \/ Crash \/ UNCHANGED vars
  BY <1>1, <1>9 DEF Withdraw, Login, Crash, vars, Radius
<1>. QED BY <1>3, <1>4, <1>5, <1>6, <1>7, <1>8, <1>9 DEF Next

\* The RADIUS rows of a customer are those of one of its subscriptions, and the
\* live session has their speeds unless someone is about to push them or a
\* failed push, an overlap or another purchase came between: whatever order
\* jobs, requests, logins and crashes run in.
THEOREM SessionHasItsSpeeds == Spec => []SessionFollowsPlan
<1>1. SessionInv /\ NoRowsInv => SessionFollowsPlan
  <2>. SUFFICES ASSUME SessionInv, NoRowsInv PROVE SessionFollowsPlan
    OBVIOUS
  <2>1. DOMAIN worker = Workers
    BY Parts DEF SessionInv, WorkOK
  <2>2. \A w \in Workers : Pushing(worker[w]) => worker[w] # Idle
    BY IdleGood
  <2>. QED BY <2>1, <2>2 DEF SessionInv, PlansInv, SpeedsInv, NoRowsInv, SessionFollowsPlan
<1>2. Init => NoRowsInv
  <2>. SUFFICES ASSUME Init, group = NoPlan, NEW s \in Subs PROVE sub[s].status = "absent"
    BY DEF NoRowsInv
  <2>1. sub = [x \in Subs |-> Absent]
    BY PlanChangeAssumption DEF Init
  <2>. QED BY <2>1 DEF Absent
<1>3. Typed /\ NoRowsInv /\ [Next]_vars => NoRowsInv'
  BY NoRowsStep
<1>. QED BY <1>1, <1>2, <1>3, SessionAlways, TypedAlways, PTL DEF Spec

-----------------------------------------------------------------------------
(* Why a payment of its quote is refused as too small.                     *)

LEMMA DivisionGrows ==
  ASSUME NEW a \in Nat, NEW b \in Nat, NEW d \in Nat \ {0}, a <= b
  PROVE  a \div d <= b \div d
<1>. PICK x \in Nat, y \in Nat : x = a \div d /\ y = b \div d
  BY Quotient
<1>1. d * x <= a /\ b < d * y + d
  OBVIOUS
<1>2. SUFFICES ASSUME y < x PROVE FALSE
  OBVIOUS
<1>3. d * (y + 1) <= d * x
  BY <1>2
<1>4. d * (y + 1) = d * y + d
  OBVIOUS
<1>. QED BY <1>1, <1>3, <1>4

LEMMA DaysCost ==
  ASSUME NEW c \in Nat, NEW l \in Nat, NEW m \in Nat, l <= m
  PROVE  c * l \in Nat /\ c * m \in Nat /\ c * l <= c * m
<1>. PICK k \in Nat : m = l + k
  <2>1. m - l \in Nat /\ m = l + (m - l)
    OBVIOUS
  <2>. QED BY <2>1
<1>1. c * m = c * l + c * k /\ c * k \in Nat /\ c * l \in Nat
  OBVIOUS
<1>. QED BY <1>1

\* A change costs no more when fewer days are left.
LEMMA FewerDaysCostLess ==
  ASSUME NEW old \in Plans, NEW new \in Plans, NEW billingDays \in Nat,
         NEW l \in Nat, NEW m \in Nat, l <= m
  PROVE  RoundedNet(old, new, billingDays, l) <= RoundedNet(old, new, billingDays, m)
<1>. PICK days \in Nat \ {0} : days = IF billingDays <= 0 THEN 30 ELSE billingDays
  OBVIOUS
<1>. PICK c \in Int : c = Price[new] - Price[old]
  BY PlanChangeAssumption
<1>1. ASSUME NEW n \in Nat
      PROVE  RoundedNet(old, new, billingDays, n)
               = IF c * n <= 0 THEN 0 ELSE (2 * (c * n) + days) \div (2 * days)
  BY DEF RoundedNet
<1>2. CASE c <= 0
  <2>1. c * l <= 0 /\ c * m <= 0
    BY <1>2
  <2>. QED BY <1>1, <2>1
<1>3. CASE c > 0
  <2>. PICK u \in Nat, v \in Nat : u = c * l /\ v = c * m /\ u <= v
    <3>1. c \in Nat
      BY <1>3
    <3>. QED BY <3>1, DaysCost
  <2>. PICK d \in Nat \ {0} : d = 2 * days
    OBVIOUS
  <2>1. (2 * u + days) \div d \in Nat /\ (2 * v + days) \div d \in Nat
        /\ (2 * u + days) \div d <= (2 * v + days) \div d
    <3>1. 2 * u + days \in Nat /\ 2 * v + days \in Nat /\ 2 * u + days <= 2 * v + days
      OBVIOUS
    <3>. QED BY <3>1, DivisionGrows, Quotient
  <2>2. /\ RoundedNet(old, new, billingDays, l)
             = IF u <= 0 THEN 0 ELSE (2 * u + days) \div d
        /\ RoundedNet(old, new, billingDays, m)
             = IF v <= 0 THEN 0 ELSE (2 * v + days) \div d
    BY <1>1
  <2>. QED BY <2>1, <2>2
<1>. QED BY <1>2, <1>3

\* A subscription keeps its term, and its days only run down.
SubsAge == \A s \in Subs : sub[s].status # "absent" =>
  /\ sub'[s].status # "absent" /\ sub'[s].term = sub[s].term
  /\ sub'[s].left <= sub[s].left

\* What a quoted change cost for the days that were left.
Quoted(x) == x.kind = "subscription_adjustment" =>
  /\ x.from \in Plans /\ x.plan \in Plans
  /\ x.sub \in Subs /\ sub[x.sub].status # "absent"
  /\ \E l \in Nat : /\ sub[x.sub].left <= l
                    /\ x.net = RoundedNet(x.from, x.plan, sub[x.sub].term, l)
QuotesInv == \A t \in Txns : Quoted(txn[t])

\* A job applies the plan its payment was made for.
PlanInv == \A j \in Jobs : worker[j].pc \in {"claiming", "claimed", "strayed"} =>
              worker[j].plan = txn[worker[j].txn].plan

PriceInv == Typed /\ QuotesInv /\ PlanInv

SameQuote(x, y) ==
  /\ y.kind = x.kind /\ y.sub = x.sub /\ y.plan = x.plan
  /\ y.from = x.from /\ y.net = x.net
SameAnswer(x, y) == y.refusal = x.refusal
Refuses(t) == \E j \in Jobs : RefusePaid(j) /\ worker[j].txn = t

\* A payment keeps its quote once it has one, and only a job refuses it.
QuotesStand == \A t \in Txns :
  \/ SameQuote(txn[t], txn'[t]) /\ (SameAnswer(txn[t], txn'[t]) \/ Refuses(t))
  \/ txn[t].state = "none" /\ Quoted(txn'[t]) /\ txn'[t].refusal = "none"

LEMMA QuoteFields ==
  ASSUME NEW x \in Payments
  PROVE  /\ \A e : SameQuote(x, [x EXCEPT !.state = e]) /\ SameAnswer(x, [x EXCEPT !.state = e])
         /\ \A e : SameQuote(x, [x EXCEPT !.amount = e]) /\ SameAnswer(x, [x EXCEPT !.amount = e])
         /\ \A e : SameQuote(x, [x EXCEPT !.flaw = e]) /\ SameAnswer(x, [x EXCEPT !.flaw = e])
         /\ \A e : SameQuote(x, [x EXCEPT !.marker = e]) /\ SameAnswer(x, [x EXCEPT !.marker = e])
         /\ \A e : SameQuote(x, [x EXCEPT !.refusal = e])
BY DEF Payments, SameQuote, SameAnswer

\* One payment changes.
LEMMA OneQuote ==
  ASSUME Typed, NEW t \in Txns, NEW m, txn' = [txn EXCEPT ![t] = m],
         \/ SameQuote(txn[t], m) /\ (SameAnswer(txn[t], m) \/ Refuses(t))
         \/ txn[t].state = "none" /\ Quoted(m) /\ m.refusal = "none"
  PROVE  QuotesStand
<1>1. txn'[t] = m /\ \A u \in Txns : u # t => txn'[u] = txn[u]
  BY Parts DEF TxnsOK
<1>. SUFFICES ASSUME NEW u \in Txns
              PROVE  \/ /\ SameQuote(txn[u], txn'[u])
                        /\ SameAnswer(txn[u], txn'[u]) \/ Refuses(u)
                     \/ txn[u].state = "none" /\ Quoted(txn'[u]) /\ txn'[u].refusal = "none"
  BY DEF QuotesStand
<1>2. CASE u = t
  BY <1>1, <1>2
<1>3. CASE u # t
  BY <1>1, <1>3 DEF SameQuote, SameAnswer
<1>. QED BY <1>2, <1>3

LEMMA NoQuote == ASSUME UNCHANGED txn PROVE QuotesStand
BY DEF QuotesStand, SameQuote, SameAnswer

LEMMA QuoteStands ==
  ASSUME Typed, NEW t \in Txns, NEW s \in Subs, NEW p \in Plans, Quote(t, s, p)
  PROVE  QuotesStand
<1>1. /\ sub[s] \in SubRows /\ sub[s].status = "active" /\ sub[s].plan \in Plans
      /\ sub[s].left \in Nat /\ sub[s].term \in Nat
  BY Parts DEF SubsOK, Quote, Adjustable, SubRows
<1>. PICK from \in Plans, net \in Nat : from = sub[s].plan /\ net = QuoteNet(s, p)
  BY <1>1, TypedNet
<1>. DEFINE m == [NoPayment EXCEPT
          !.state = "quoted", !.kind = "subscription_adjustment", !.sub = s,
          !.plan = p, !.from = from, !.net = net]
<1>2. txn' = [txn EXCEPT ![t] = m] /\ txn[t].state = "none"
  BY NoPaymentType DEF Quote
<1>3. m.from = from /\ m.plan = p /\ m.sub = s /\ m.net = net /\ m.refusal = "none"
  BY DEF NoPayment
<1>. HIDE DEF m
<1>4. \E l \in Nat : sub[s].left <= l /\ net = RoundedNet(from, p, sub[s].term, l)
  BY <1>1 DEF QuoteNet
<1>5. Quoted(m)
  BY <1>1, <1>3, <1>4 DEF Quoted
<1>. QED BY <1>2, <1>3, <1>5, OneQuote

LEMMA InitiateStands ==
  ASSUME Typed, NEW t \in Txns, NEW amount \in Nat, NEW flaw \in Flaws,
         InitiateAdjustment(t, amount, flaw)
  PROVE  QuotesStand
<1>. DEFINE m1 == [txn[t] EXCEPT !.state = "pending"]
            m2 == [m1 EXCEPT !.amount = amount]
            m == [m2 EXCEPT !.flaw = flaw]
<1>1. txn' = [txn EXCEPT ![t] = m]
  BY DEF InitiateAdjustment
<1>2. txn[t] \in Payments /\ "pending" \in PayStates
  BY Parts DEF TxnsOK, PayStates
<1>3. m1 \in Payments /\ SameQuote(txn[t], m1) /\ SameAnswer(txn[t], m1)
  BY <1>2, PayState, QuoteFields
<1>. HIDE DEF m1
<1>4. m2 \in Payments /\ SameQuote(m1, m2) /\ SameAnswer(m1, m2)
  BY <1>3, PayAmount, QuoteFields
<1>. HIDE DEF m2
<1>5. SameQuote(m2, m) /\ SameAnswer(m2, m)
  BY <1>4, QuoteFields
<1>. HIDE DEF m
<1>6. SameQuote(txn[t], m) /\ SameAnswer(txn[t], m)
  BY <1>3, <1>4, <1>5 DEF SameQuote, SameAnswer
<1>. QED BY <1>1, <1>6, OneQuote

LEMMA SubscriptionStands ==
  ASSUME Typed, NEW t \in Txns, NEW p \in Plans, InitiateSubscription(t, p)
  PROVE  QuotesStand
<1>. DEFINE m == [NoPayment EXCEPT !.state = "pending", !.plan = p, !.amount = Price[p]]
<1>1. txn' = [txn EXCEPT ![t] = m] /\ txn[t].state = "none"
  BY NoPaymentType DEF InitiateSubscription
<1>2. m.kind = "subscription" /\ m.refusal = "none"
  BY DEF NoPayment
<1>. HIDE DEF m
<1>. QED BY <1>1, <1>2, OneQuote DEF Quoted

LEMMA RefuseStands ==
  ASSUME Typed, NEW j \in Jobs, RefusePaid(j)
  PROVE  QuotesStand
<1>. PICK t, e : t = worker[j].txn /\ txn' = [txn EXCEPT ![t].refusal = e]
  BY DEF RefusePaid
<1>1. t \in Txns /\ txn[t] \in Payments
  <2>1. worker[j].pc \in Entered
    BY DEF RefusePaid
  <2>. QED BY <2>1, Parts DEF WorkOK, TxnsOK, Workers, Fits, JobFits
<1>. DEFINE m == [txn[t] EXCEPT !.refusal = e]
<1>2. SameQuote(txn[t], m) /\ Refuses(t) /\ txn' = [txn EXCEPT ![t] = m]
  BY <1>1, QuoteFields DEF Refuses
<1>. HIDE DEF m
<1>. QED BY <1>1, <1>2, OneQuote

LEMMA MarkStands ==
  ASSUME Typed, NEW t \in Txns, txn' = [txn EXCEPT ![t].marker = TRUE]
  PROVE  QuotesStand
<1>. DEFINE m == [txn[t] EXCEPT !.marker = TRUE]
<1>1. txn' = [txn EXCEPT ![t] = m]
  OBVIOUS
<1>2. SameQuote(txn[t], m) /\ SameAnswer(txn[t], m)
  <2>1. txn[t] \in Payments
    BY Parts DEF TxnsOK
  <2>. QED BY <2>1, QuoteFields
<1>. HIDE DEF m
<1>. QED BY <1>1, <1>2, OneQuote

LEMMA ChangeStands ==
  ASSUME Typed, NEW w, NEW t, NEW s, NEW p, NEW answered, Change(w, t, s, p, answered)
  PROVE  QuotesStand
<1>0. txn \in [Txns -> Payments]
  BY Parts DEF TxnsOK
<1>1. txn' = [u \in Txns |-> IF u = t THEN [txn[u] EXCEPT !.marker = TRUE] ELSE txn[u]]
  BY DEF Change
<1>2. CASE t \in Txns
  <2>1. txn' = [txn EXCEPT ![t].marker = TRUE]
    BY <1>0, <1>1, <1>2
  <2>. QED BY <1>2, <2>1, MarkStands
<1>3. CASE t \notin Txns
  <2>1. txn' = txn
    BY <1>0, <1>1, <1>3
  <2>. QED BY <2>1, NoQuote
<1>. QED BY <1>2, <1>3

LEMMA PayerStands ==
  ASSUME Typed, NEW t \in Txns, PayerStep(t)
  PROVE  QuotesStand
<1>1. ASSUME NEW amount \in Int, NEW flaw \in Flaws, InitiateAdjustment(t, amount, flaw)
      PROVE  QuotesStand
  <2>1. amount \in Nat
    BY <1>1 DEF InitiateAdjustment
  <2>. QED BY <1>1, <2>1, InitiateStands
<1>2. CASE Capture(t)
  <2>. DEFINE m == [txn[t] EXCEPT !.state = "completed"]
  <2>1. txn' = [txn EXCEPT ![t] = m]
    BY <1>2 DEF Capture
  <2>2. SameQuote(txn[t], m) /\ SameAnswer(txn[t], m)
    <3>1. txn[t] \in Payments
      BY Parts DEF TxnsOK
    <3>. QED BY <3>1, QuoteFields
  <2>. HIDE DEF m
  <2>. QED BY <2>1, <2>2, OneQuote
<1>3. CASE SweepTrigger(t)
  BY <1>3, NoQuote DEF SweepTrigger
<1>4. "none" \in Flaws /\ txn[t].net \in Int /\ txn[t].net - 1 \in Int
  <2>1. txn[t] \in Payments
    BY Parts DEF TxnsOK
  <2>. QED BY <2>1, PayFields DEF Flaws
<1>. QED BY <1>1, <1>2, <1>3, <1>4, QuoteStands, SubscriptionStands DEF PayerStep

LEMMA StandStep ==
  ASSUME Typed, [Next]_vars
  PROVE  QuotesStand
<1>1. ASSUME NEW j \in Jobs, JobStep(j) PROVE QuotesStand
  <2>1. ASSUME NEW s \in Subs, Subscribe(j, s) PROVE QuotesStand
    <3>1. worker[j].txn \in Txns
      BY <2>1, Parts DEF Subscribe, WorkOK, Workers, Fits, JobFits
    <3>. QED BY <2>1, <3>1, MarkStands DEF Subscribe
  <2>2. CASE AdjustPaid(j)
    BY <2>2, ChangeStands DEF AdjustPaid
  <2>3. CASE RefusePaid(j)
    BY <2>3, RefuseStands
  <2>4. CASE (\E t \in Txns : Start(j, t)) \/ Claim(j) \/ LockLost(j) \/ AttemptFails(j)
    BY <2>4, NoQuote DEF Start, Claim, LockLost, AttemptFails
  <2>. QED BY <1>1, <2>1, <2>2, <2>3, <2>4 DEF JobStep
<1>2. ASSUME NEW r \in Requests, RequestStep(r) PROVE QuotesStand
  <2>1. CASE FreeApply(r)
    BY <2>1, ChangeStands DEF FreeApply
  <2>2. CASE ~FreeApply(r)
    BY <1>2, <2>2, NoQuote DEF RequestStep, FreeCheck, FreeRefused
  <2>. QED BY <2>1, <2>2
<1>3. ASSUME NEW w \in Workers, CoaRead(w) \/ CoaPush(w) \/ CoaFails(w) PROVE QuotesStand
  BY <1>3, NoQuote DEF CoaRead, CoaPush, CoaFails
<1>4. CASE \/ DayPasses \/ (\E s \in Subs : Expire(s)) \/ (\E p \in Plans : Withdraw(p))
           \/ Login \/ Crash \/ UNCHANGED vars
  BY <1>4, NoQuote DEF DayPasses, Expire, Withdraw, Login, Crash, vars
<1>. QED BY <1>1, <1>2, <1>3, <1>4, PayerStands DEF Next, Workers

-----------------------------------------------------------------------------

LEMMA AgeOne ==
  ASSUME Typed, NEW s \in Subs, NEW x, sub' = [sub EXCEPT ![s] = x],
         sub[s].status # "absent" =>
            x.status # "absent" /\ x.term = sub[s].term /\ x.left <= sub[s].left
  PROVE  SubsAge
<1>1. sub'[s] = x /\ \A u \in Subs : u # s => sub'[u] = sub[u]
  BY Parts DEF SubsOK
<1>2. \A u \in Subs : sub[u].left <= sub[u].left
  BY Parts DEF SubsOK, SubRows
<1>3. ASSUME NEW u \in Subs, sub[u].status # "absent"
      PROVE  /\ sub'[u].status # "absent" /\ sub'[u].term = sub[u].term
             /\ sub'[u].left <= sub[u].left
  <2>1. CASE u = s
    BY <1>1, <1>3, <2>1
  <2>2. CASE u # s
    BY <1>1, <1>2, <1>3, <2>2
  <2>. QED BY <2>1, <2>2
<1>. QED BY <1>3 DEF SubsAge

LEMMA NoAge == ASSUME Typed, UNCHANGED sub PROVE SubsAge
<1>1. \A u \in Subs : sub[u].left <= sub[u].left
  BY Parts DEF SubsOK, SubRows
<1>. QED BY <1>1 DEF SubsAge

LEMMA ChangeAges ==
  ASSUME Typed, NEW w, NEW t, NEW s \in Subs, NEW p, NEW answered,
         Change(w, t, s, p, answered)
  PROVE  SubsAge
<1>. DEFINE x == [sub[s] EXCEPT !.plan = p]
<1>1. sub' = [sub EXCEPT ![s] = x]
  BY DEF Change
<1>2. x.status = sub[s].status /\ x.term = sub[s].term /\ x.left <= sub[s].left
  BY Parts DEF SubsOK, SubRows
<1>. HIDE DEF x
<1>. QED BY <1>1, <1>2, AgeOne

LEMMA AgeStep ==
  ASSUME Typed, [Next]_vars
  PROVE  SubsAge
<1>1. ASSUME NEW t \in Txns, PayerStep(t) PROVE SubsAge
  BY <1>1, PayerSteps, NoAge DEF PayerMoves, Rest
<1>2. ASSUME NEW j \in Jobs, JobStep(j) PROVE SubsAge
  <2>1. ASSUME NEW s \in Subs, Subscribe(j, s) PROVE SubsAge
    <3>1. \E x : sub' = [sub EXCEPT ![s] = x]
      BY <2>1 DEF Subscribe
    <3>2. sub[s].status = "absent"
      BY <2>1 DEF Subscribe, Absent
    <3>. QED BY <3>1, <3>2, AgeOne
  <2>2. CASE AdjustPaid(j)
    <3>1. worker[j].pc \in Entered /\ txn[worker[j].txn].kind = "subscription_adjustment"
      BY <2>2 DEF AdjustPaid
    <3>2. worker[j].sub \in Subs
      BY <3>1, Parts DEF WorkOK, Workers, Fits, JobFits, TxnsOK
    <3>. QED BY <2>2, <3>2, ChangeAges DEF AdjustPaid
  <2>3. CASE (\E t \in Txns : Start(j, t)) \/ Claim(j) \/ LockLost(j) \/ AttemptFails(j)
               \/ RefusePaid(j)
    BY <2>3, NoAge DEF Start, Claim, LockLost, AttemptFails, RefusePaid
  <2>. QED BY <1>2, <2>1, <2>2, <2>3 DEF JobStep
<1>3. ASSUME NEW r \in Requests, RequestStep(r) PROVE SubsAge
  <2>1. CASE FreeApply(r)
    <3>1. worker[r].pc = "checked" /\ r \notin Jobs /\ r \in Workers
      BY <2>1, PlanChangeAssumption DEF FreeApply, Workers
    <3>2. worker[r].sub \in Subs
      BY <3>1, Parts DEF WorkOK, Fits, RequestFits
    <3>. QED BY <2>1, <3>2, ChangeAges DEF FreeApply
  <2>2. CASE ~FreeApply(r)
    BY <1>3, <2>2, NoAge DEF RequestStep, FreeCheck, FreeRefused
  <2>. QED BY <2>1, <2>2
<1>4. ASSUME NEW w \in Workers, CoaRead(w) \/ CoaPush(w) \/ CoaFails(w) PROVE SubsAge
  BY <1>4, NoAge DEF CoaRead, CoaPush, CoaFails
<1>5. CASE DayPasses
  <2>1. ASSUME NEW s \in Subs
        PROVE  /\ sub'[s].status = sub[s].status /\ sub'[s].term = sub[s].term
               /\ sub'[s].left <= sub[s].left
    <3>. PICK y : y = sub[s]
      OBVIOUS
    <3>1. y \in SubRows /\ y.left \in Nat
      BY Parts DEF SubsOK, SubRows
    <3>. PICK n \in Nat : n <= y.left /\ n = IF y.left > 0 THEN y.left - 1 ELSE 0
      BY <3>1
    <3>2. sub'[s] = [y EXCEPT !.left = n]
      BY <1>5 DEF DayPasses
    <3>. QED BY <3>1, <3>2 DEF SubRows
  <2>. QED BY <2>1 DEF SubsAge
<1>6. ASSUME NEW s \in Subs, Expire(s) PROVE SubsAge
  <2>. DEFINE x == [sub[s] EXCEPT !.status = "expired"]
  <2>1. sub' = [sub EXCEPT ![s] = x]
    BY <1>6 DEF Expire
  <2>2. x.status = "expired" /\ x.term = sub[s].term /\ x.left <= sub[s].left
    BY Parts DEF SubsOK, SubRows
  <2>. HIDE DEF x
  <2>. QED BY <2>1, <2>2, AgeOne
<1>7. CASE (\E p \in Plans : Withdraw(p)) \/ Login \/ Crash \/ UNCHANGED vars
  BY <1>7, NoAge DEF Withdraw, Login, Crash, vars
<1>. QED BY <1>1, <1>2, <1>3, <1>4, <1>5, <1>6, <1>7 DEF Next, Workers

\* A quote was for at least the days that are left.
LEMMA QuotedAges ==
  ASSUME Typed, Typed', SubsAge, NEW x, Quoted(x)
  PROVE  Quoted(x)'
<1>. SUFFICES ASSUME x.kind = "subscription_adjustment" PROVE Quoted(x)'
  BY DEF Quoted
<1>. PICK s : s = x.sub
  OBVIOUS
<1>1. /\ x.from \in Plans /\ x.plan \in Plans /\ s \in Subs /\ sub[s].status # "absent"
      /\ \E l \in Nat : sub[s].left <= l /\ x.net = RoundedNet(x.from, x.plan, sub[s].term, l)
  BY DEF Quoted
<1>. PICK l \in Nat : sub[s].left <= l /\ x.net = RoundedNet(x.from, x.plan, sub[s].term, l)
  BY <1>1
<1>2. /\ sub'[s].status # "absent" /\ sub'[s].term = sub[s].term
      /\ sub'[s].left <= sub[s].left
  BY <1>1 DEF SubsAge
<1>. PICK a \in Nat, b \in Nat : a = sub[s].left /\ b = sub'[s].left
  BY <1>1 DEF Typed, StateOK, SubRows
<1>3. b <= l
  BY <1>2
<1>. QED BY <1>1, <1>2, <1>3 DEF Quoted

LEMMA QuotesStep ==
  ASSUME PriceInv, [Next]_vars
  PROVE  QuotesInv'
<1>0. Typed /\ Typed' /\ QuotesStand /\ SubsAge /\ TxnsOK
  BY Steps, StandStep, AgeStep, Parts DEF PriceInv
<1>. SUFFICES ASSUME NEW t \in Txns PROVE Quoted(txn[t])'
  BY DEF QuotesInv
<1>. PICK y, x : y = txn'[t] /\ x = txn[t]
  OBVIOUS
<1>1. Quoted(y)
  <2>1. CASE SameQuote(x, y)
    <3>1. Quoted(x)
      BY DEF PriceInv, QuotesInv
    <3>. QED BY <2>1, <3>1 DEF Quoted, SameQuote
  <2>2. CASE ~SameQuote(x, y)
    BY <1>0, <2>2 DEF QuotesStand
  <2>. QED BY <2>1, <2>2
<1>2. Quoted(y)'
  BY <1>0, <1>1, QuotedAges
<1>. QED BY <1>2 DEF Quoted

\* A job begins with its payment's plan and keeps it to the push.
PlanKept(x, y) ==
  y.pc \in {"claiming", "claimed", "strayed"} =>
     x.pc \in {"claiming", "claimed", "strayed"} /\ y.txn = x.txn /\ y.plan = x.plan

LEMMA PlanFollows ==
  ASSUME PriceInv, QuotesStand,
         \A j \in Jobs : \/ PlanKept(worker[j], worker'[j])
                         \/ \E t \in Txns : /\ Paid(t) /\ worker'[j].txn = t
                                            /\ worker'[j].plan = txn[t].plan
  PROVE  PlanInv'
<1>0. Typed /\ WorkOK /\ PlanInv
  BY Parts DEF PriceInv
<1>1. ASSUME NEW t \in Txns, Paid(t) PROVE txn'[t].plan = txn[t].plan
  BY <1>1 DEF QuotesStand, SameQuote, Paid
<1>2. ASSUME NEW j \in Jobs, worker'[j].pc \in {"claiming", "claimed", "strayed"}
      PROVE  worker'[j].plan = txn'[worker'[j].txn].plan
  <2>1. CASE PlanKept(worker[j], worker'[j])
    <3>1. /\ worker[j].pc \in {"claiming", "claimed", "strayed"} /\ worker'[j].txn = worker[j].txn
          /\ worker'[j].plan = worker[j].plan
      BY <1>2, <2>1 DEF PlanKept
    <3>2. worker[j].txn \in Txns /\ Paid(worker[j].txn)
      BY <1>0, <3>1 DEF WorkOK, Workers, Fits, JobFits
    <3>3. worker[j].plan = txn[worker[j].txn].plan
      BY <1>0, <3>1 DEF PlanInv
    <3>. QED BY <1>1, <3>1, <3>2, <3>3
  <2>2. CASE ~PlanKept(worker[j], worker'[j])
    BY <1>1, <2>2
  <2>. QED BY <2>1, <2>2
<1>. QED BY <1>2 DEF PlanInv

LEMMA PlanMoves ==
  ASSUME WorkOK, NEW w \in Workers, NEW x, worker' = [worker EXCEPT ![w] = x],
         w \in Jobs => PlanKept(worker[w], x)
  PROVE  \A j \in Jobs : PlanKept(worker[j], worker'[j])
<1>1. worker'[w] = x /\ \A v \in Workers : v # w => worker'[v] = worker[v]
  BY DEF WorkOK
<1>2. \A j \in Jobs : j \in Workers
  BY DEF Workers
<1>. QED BY <1>1, <1>2 DEF PlanKept

LEMMA PlanStill ==
  ASSUME UNCHANGED worker
  PROVE  \A j \in Jobs : PlanKept(worker[j], worker'[j])
BY DEF PlanKept

LEMMA IdleKept == \A x : PlanKept(x, Idle)
BY IdleType DEF PlanKept

LEMMA DoneKept == ASSUME NEW x \in Works PROVE PlanKept(x, Done(x))
<1>. PICK y, z : y = Done(x) /\ z = [x EXCEPT !.pc = "coa"]
  OBVIOUS
<1>1. z.pc = "coa"
  BY WorkPc DEF WorkSteps
<1>2. y = Idle \/ y = z
  BY DEF Done
<1>. QED BY <1>1, <1>2, IdleType DEF PlanKept

LEMMA NextKept ==
  ASSUME NEW x \in Works, x.pc \in {"claiming", "claimed", "strayed"}
  PROVE  PlanKept(x, NextAttempt(x))
<1>. DEFINE z == [x EXCEPT !.pc = "claiming", !.attempt = x.attempt + 1]
<1>1. NextAttempt(x) = Idle \/ NextAttempt(x) = z
  BY DEF NextAttempt
<1>2. z.txn = x.txn /\ z.plan = x.plan
  BY DEF Works
<1>. HIDE DEF z
<1>3. CASE NextAttempt(x) = Idle
  BY <1>3, IdleKept
<1>4. CASE NextAttempt(x) = z
  BY <1>2, <1>4 DEF PlanKept
<1>. QED BY <1>1, <1>3, <1>4

LEMMA PlanStep ==
  ASSUME PriceInv, [Next]_vars
  PROVE  PlanInv'
<1>0. Typed /\ WorkOK /\ SpawnOK /\ QuotesStand
  BY StandStep, Parts DEF PriceInv
<1>1. ASSUME \A j \in Jobs : PlanKept(worker[j], worker'[j]) PROVE PlanInv'
  BY <1>0, <1>1, PlanFollows
<1>2. ASSUME NEW t \in Txns, PayerStep(t) PROVE PlanInv'
  <2>1. UNCHANGED worker
    BY <1>0, <1>2, PayerSteps DEF PayerMoves
  <2>. QED BY <1>1, <2>1, PlanStill
<1>3. ASSUME NEW j \in Jobs, JobStep(j) PROVE PlanInv'
  <2>. PICK y : y = worker[j]
    OBVIOUS
  <2>0. j \in Workers /\ y \in Works
    BY <1>0 DEF Workers, WorkOK
  <2>1. ASSUME NEW t \in Txns, Start(j, t) PROVE PlanInv'
    <3>1. worker'[j].txn = t /\ worker'[j].plan = txn[t].plan
          /\ \A k \in Jobs : k # j => worker'[k] = worker[k]
      BY <1>0, <2>0, <2>1 DEF Start, WorkOK, Workers
    <3>2. Paid(t)
      BY <1>0, <2>1 DEF Start, SpawnOK
    <3>3. \A k \in Jobs : k # j => PlanKept(worker[k], worker'[k])
      BY <3>1 DEF PlanKept
    <3>. QED BY <1>0, <3>1, <3>2, <3>3, PlanFollows
  <2>2. CASE Claim(j)
    <3>. PICK x : /\ x = Done(y) \/ x = [y EXCEPT !.pc = "claimed"]
                 /\ worker' = [worker EXCEPT ![j] = x]
      BY <2>2 DEF Claim
    <3>1. PlanKept(y, [y EXCEPT !.pc = "claimed"])
      <4>1. [y EXCEPT !.pc = "claimed"].txn = y.txn /\ [y EXCEPT !.pc = "claimed"].plan = y.plan
        BY <2>0, WorkPc DEF WorkSteps
      <4>2. y.pc = "claiming"
        BY <2>2 DEF Claim
      <4>. QED BY <4>1, <4>2 DEF PlanKept
    <3>2. PlanKept(y, x)
      BY <2>0, <3>1, DoneKept
    <3>. QED BY <1>0, <1>1, <2>0, <3>2, PlanMoves
  <2>3. CASE AttemptFails(j) \/ (\E s \in Subs : Subscribe(j, s)) \/ AdjustPaid(j) \/ RefusePaid(j)
    <3>1. y.pc \in {"claiming", "claimed", "strayed"}
      BY <2>3 DEF AttemptFails, Subscribe, AdjustPaid, RefusePaid
    <3>. PICK x : (x = Done(y) \/ x = NextAttempt(y)) /\ worker' = [worker EXCEPT ![j] = x]
      BY <2>3 DEF AttemptFails, Subscribe, AdjustPaid, RefusePaid
    <3>2. PlanKept(y, x)
      BY <2>0, <3>1, DoneKept, NextKept
    <3>. QED BY <1>0, <1>1, <2>0, <3>2, PlanMoves
  <2>4. CASE LockLost(j)
    <3>. PICK x : /\ worker' = [worker EXCEPT ![j] = x] /\ x.pc = "strayed"
                 /\ x.txn = y.txn /\ x.plan = y.plan
      BY <1>0, <2>4, LockLostStep
    <3>1. PlanKept(y, x)
      BY <2>4 DEF LockLost, PlanKept
    <3>. QED BY <1>0, <1>1, <2>0, <3>1, PlanMoves
  <2>. QED BY <1>3, <2>1, <2>2, <2>3, <2>4 DEF JobStep
<1>4. ASSUME NEW r \in Requests, RequestStep(r) PROVE PlanInv'
  <2>1. r \in Workers /\ r \notin Jobs
    BY PlanChangeAssumption DEF Workers
  <2>2. \E x : worker' = [worker EXCEPT ![r] = x]
    BY <1>4 DEF RequestStep, FreeCheck, FreeApply, FreeRefused
  <2>. QED BY <1>0, <1>1, <2>1, <2>2, PlanMoves
<1>5. ASSUME NEW w \in Workers, CoaRead(w) \/ CoaPush(w) \/ CoaFails(w) PROVE PlanInv'
  <2>. PICK y : y = worker[w]
    OBVIOUS
  <2>1. CASE CoaRead(w)
    <3>. PICK p : p = sub[y.sub].plan
      OBVIOUS
    <3>. DEFINE x == [y EXCEPT !.pc = "push", !.plan = p]
    <3>1. worker' = [worker EXCEPT ![w] = x]
      BY <2>1 DEF CoaRead
    <3>2. x.pc = "push"
      BY <1>0 DEF WorkOK, Works
    <3>. HIDE DEF x
    <3>3. PlanKept(y, x)
      BY <3>2 DEF PlanKept
    <3>. QED BY <1>0, <1>1, <3>1, <3>3, PlanMoves
  <2>2. CASE CoaPush(w) \/ CoaFails(w)
    <3>1. worker' = [worker EXCEPT ![w] = Idle]
      BY <2>2 DEF CoaPush, CoaFails
    <3>. QED BY <1>0, <1>1, <3>1, IdleKept, PlanMoves
  <2>. QED BY <1>5, <2>1, <2>2
<1>6. CASE \/ DayPasses \/ (\E s \in Subs : Expire(s)) \/ (\E p \in Plans : Withdraw(p))
           \/ Login \/ UNCHANGED vars
  <2>1. UNCHANGED worker
    BY <1>6 DEF DayPasses, Expire, Withdraw, Login, vars
  <2>. QED BY <1>1, <2>1, PlanStill
<1>7. CASE Crash
  <2>1. \A j \in Jobs : worker'[j] = Idle
    BY <1>0, <1>7 DEF Crash, WorkOK, Workers
  <2>. QED BY <1>1, <2>1, IdleKept
<1>. QED BY <1>2, <1>3, <1>4, <1>5, <1>6, <1>7 DEF Next, Workers

LEMMA PriceInit == ASSUME Init PROVE PriceInv
<1>1. QuotesInv
  <2>1. NoPayment.kind = "subscription"
    BY DEF NoPayment
  <2>. QED BY <2>1 DEF Init, QuotesInv, Quoted
<1>2. PlanInv
  BY IdleType DEF Init, PlanInv
<1>. QED BY <1>1, <1>2, TypedInit DEF PriceInv

LEMMA PriceAlways == Spec => []PriceInv
<1>1. PriceInv /\ [Next]_vars => PriceInv'
  BY Steps, QuotesStep, PlanStep DEF PriceInv
<1>. QED BY <1>1, PriceInit, PTL DEF Spec

LEMMA Underpaid ==
  ASSUME NEW s, NEW p, NEW paid, NEW flaw, Refusal(s, p, paid, flaw) = "underpaid"
  PROVE  paid < GuardNet(s, p)
BY DEF Refusal

\* The refusal itself: nothing else is left to explain it.
LEMMA RefusalExplained ==
  ASSUME PriceInv, NEW j \in Jobs, NEW t \in Txns, RefusePaid(j), worker[j].txn = t,
         txn'[t].refusal = "underpaid"
  PROVE  \/ txn[t].amount < txn[t].net
         \/ txn[t].amount \in Lossy
         \/ sub[txn[t].sub].plan # txn[t].from
         \/ Period[txn[t].plan] \notin {0, sub[txn[t].sub].term}
<1>. PICK x, s, p : x = txn[t] /\ s = worker[j].sub /\ p = worker[j].plan
  OBVIOUS
<1>0. /\ SubsOK /\ TxnsOK /\ WorkOK /\ j \in Workers /\ worker[j].pc \in Entered
      /\ x \in Payments /\ s = x.sub /\ p = x.plan
  <2>1. /\ SubsOK /\ TxnsOK /\ WorkOK /\ j \in Workers /\ worker[j].pc \in Entered
    BY Parts DEF PriceInv, Workers, RefusePaid
  <2>. QED BY <2>1 DEF PriceInv, PlanInv, TxnsOK, WorkOK, Fits, JobFits
<1>1. x.kind # "subscription" /\ Refusal(s, p, Cents(x.amount), x.flaw) = "underpaid"
  <2>. PICK why : /\ why = IF x.kind = "subscription"
                           THEN (IF p \in onSale THEN "none" ELSE "plan")
                           ELSE Refusal(s, p, Cents(x.amount), x.flaw)
                  /\ txn' = [txn EXCEPT ![t].refusal =
                               IF why = "underpaid" THEN "underpaid" ELSE "other"]
    BY DEF RefusePaid
  <2>. PICK e : e = IF why = "underpaid" THEN "underpaid" ELSE "other"
    OBVIOUS
  <2>1. txn'[t] = [x EXCEPT !.refusal = e]
    BY <1>0 DEF TxnsOK
  <2>2. [x EXCEPT !.refusal = e].refusal = e
    BY <1>0 DEF Payments
  <2>3. e = "underpaid"
    BY <2>1, <2>2
  <2>4. why = "underpaid"
    BY <2>3
  <2>. QED BY <2>4
<1>2. Quoted(x) /\ x.kind = "subscription_adjustment"
  BY <1>0, <1>1, PayFields DEF PriceInv, QuotesInv
<1>3. Cents(x.amount) < GuardNet(s, p)
  BY <1>1, Underpaid
<1>. SUFFICES ASSUME ~(x.amount < x.net), x.amount \notin Lossy, sub[s].plan = x.from,
                     Period[p] \in {0, sub[s].term}
              PROVE  FALSE
  BY <1>0
<1>. PICK term \in Nat, left \in Nat : term = sub[s].term /\ left = sub[s].left
  BY <1>0, <1>2 DEF SubsOK, SubRows, Quoted
<1>. PICK l \in Nat : left <= l /\ x.net = RoundedNet(x.from, p, term, l)
  BY <1>0, <1>2 DEF Quoted
<1>4. x.from \in Plans /\ p \in Plans
  BY <1>0, <1>2 DEF Quoted
<1>5. (IF Period[p] > 0 THEN Period[p] ELSE sub[s].term) = term
  OBVIOUS
<1>6. GuardNet(s, p) = RoundedNet(x.from, p, term, left)
  BY <1>5 DEF GuardNet
<1>. PICK owed \in Nat, net \in Nat, paid \in Nat :
        /\ owed = RoundedNet(x.from, p, term, left)
        /\ net = RoundedNet(x.from, p, term, l) /\ paid = x.amount
  BY <1>0, <1>4, NetType, PayFields
<1>7. owed <= net
  BY <1>4, FewerDaysCostLess
<1>8. Cents(paid) = paid
  BY DEF Cents
<1>9. paid < owed /\ ~(paid < net)
  BY <1>3, <1>6, <1>8
<1>. QED BY <1>7, <1>9

\* A payment of the quoted net is refused as too small only if the plan of the
\* subscription changed since the quote, quote and fulfillment count different
\* billing periods, or the amount lost a unit between decimal and float: the
\* days that pass and the retries never do it.
THEOREM RefusalsExplained == Spec => UnderpaidIsExplained
<1>1. ASSUME PriceInv, [Next]_vars, NEW t \in Txns,
             txn'[t].refusal = "underpaid", txn[t].refusal # "underpaid"
      PROVE  \/ txn[t].amount < txn[t].net
             \/ txn[t].amount \in Lossy
             \/ sub[txn[t].sub].plan # txn[t].from
             \/ Period[txn[t].plan] \notin {0, sub[txn[t].sub].term}
  <2>1. QuotesStand
    BY <1>1, StandStep DEF PriceInv
  <2>2. Refuses(t)
    BY <1>1, <2>1 DEF QuotesStand, SameAnswer
  <2>. QED BY <1>1, <2>2, RefusalExplained DEF Refuses
<1>2. PriceInv /\ [Next]_vars =>
        [\A t \in Txns :
          txn'[t].refusal = "underpaid" /\ txn[t].refusal # "underpaid" =>
              \/ txn[t].amount < txn[t].net
              \/ txn[t].amount \in Lossy
              \/ sub[txn[t].sub].plan # txn[t].from
              \/ Period[txn[t].plan] \notin {0, sub[txn[t].sub].term}]_vars
  BY <1>1
<1>. QED BY <1>2, PriceAlways, PTL DEF Spec, UnderpaidIsExplained
=============================================================================
