---------------------------- MODULE Fulfillment ----------------------------
(***************************************************************************)
(* What happens to a captured payment: the fulfillment goroutine with its  *)
(* retries (payments.triggerFulfillment), the claim and the commit         *)
(* (fulfillment.Fulfill), the poller's sweep of unfulfilled rows           *)
(* (retryUnfulfilled) and the admin refund (payments.Refund).              *)
(*                                                                         *)
(* The row moves as PaymentRow allows; PaymentLifecycle shows who moves it *)
(* and that it moves no other way.                                         *)
(***************************************************************************)
EXTENDS PaymentStates, Naturals, FiniteSets

CONSTANTS
    Txns,           \* transactions
    Jobs,           \* slots for running triggerFulfillment goroutines
    Admins,         \* slots for running Refund requests
    KindOf,         \* KindOf[t]: the row's fulfillment_kind
    NoTxn, NoJob,
    MaxTriggers,    \* bound: goroutines of one row spawned and not yet started
    MaxCrashes,     \* bound: process crashes
    MaxFailures,    \* bound: database, gateway or network calls that fail
    MaxLockLosses,  \* bound: claim connections the database drops
    MaxRefunds      \* bound: times the gateway sends one row's money back

Kinds == {"voucher", "subscription", "subscription_adjustment", "topup"}

ASSUME FulfillmentAssumption ==
    /\ KindOf \in [Txns -> Kinds]
    /\ NoTxn \notin Txns /\ NoJob \notin Jobs
    /\ IsFiniteSet(Admins)
    /\ MaxTriggers \in Nat /\ MaxCrashes \in Nat
    /\ MaxFailures \in Nat /\ MaxLockLosses \in Nat
    /\ MaxRefunds \in Nat

VARIABLES
    state, completedAt, triggers,  \* the row and its goroutines, as in PaymentRow
    paid,        \* paid[t]: a gateway captured t (completed, or a fulfillment spawned)
    pin,         \* the row: voucher_pin is set
    issued,      \* issued[t]: vouchers or subscriptions committed for t
    access,      \* access[t]: the credentials issued for t are in radcheck
    lock,        \* lock[t]: the job whose connection holds GET_LOCK, or NoJob
    job,         \* local state of each fulfillment goroutine
    sweep,       \* ids retryUnfulfilled has read and not re-triggered yet
    windowOpen,  \* the row: completed_at is within fulfillmentRetryWindow
    admin,       \* local state of each Refund request
    returned,    \* returned[t]: times the gateway sent t's money back
    acknowledged, \* acknowledged[t]: the gateway answered a refund of t with success
    crashes, failures, lockLosses

rowVars == <<state, completedAt, triggers>>
grantVars == <<pin, issued, access>>
refundVars == <<returned, acknowledged>>
bounds == <<crashes, failures, lockLosses>>
vars == <<rowVars, paid, grantVars, lock, job, sweep, windowOpen, admin,
          refundVars, bounds>>

fulfillmentMaxAttempts == 3

NoWork == [pc |-> "idle", txn |-> NoTxn, attempt |-> 0]
Work == {NoWork} \cup
    [pc: {"claiming", "claimed", "issuing", "failed", "done"},
     txn: Txns, attempt: 1..fulfillmentMaxAttempts]

NoRefund == [pc |-> "idle", txn |-> NoTxn]
Request == {NoRefund} \cup [pc: {"read", "given_back", "recorded"}, txn: Txns]

TypeOK ==
    /\ state \in [Txns -> States \cup {"absent"}]
    /\ completedAt \in [Txns -> BOOLEAN]
    /\ triggers \in [Txns -> Nat]
    /\ paid \in [Txns -> BOOLEAN]
    /\ pin \in [Txns -> BOOLEAN]
    /\ issued \in [Txns -> Nat]
    /\ access \in [Txns -> BOOLEAN]
    /\ lock \in [Txns -> Jobs \cup {NoJob}]
    /\ job \in [Jobs -> Work]
    /\ sweep \subseteq Txns
    /\ windowOpen \in [Txns -> BOOLEAN]
    /\ admin \in [Admins -> Request]
    /\ returned \in [Txns -> Nat]
    /\ acknowledged \in [Txns -> BOOLEAN]
    /\ crashes \in 0..MaxCrashes
    /\ failures \in 0..MaxFailures
    /\ lockLosses \in 0..MaxLockLosses

Row == INSTANCE PaymentRow

Init ==
    /\ Row!Init
    /\ paid = [t \in Txns |-> FALSE]
    /\ pin = [t \in Txns |-> FALSE]
    /\ issued = [t \in Txns |-> 0]
    /\ access = [t \in Txns |-> FALSE]
    /\ lock = [t \in Txns |-> NoJob]
    /\ job = [j \in Jobs |-> NoWork]
    /\ sweep = {}
    /\ windowOpen = [t \in Txns |-> TRUE]
    /\ admin = [a \in Admins |-> NoRefund]
    /\ returned = [t \in Txns |-> 0]
    /\ acknowledged = [t \in Txns |-> FALSE]
    /\ crashes = 0 /\ failures = 0 /\ lockLosses = 0

\* A call to the database, the gateway or the network fails.
OneFailure ==
    /\ failures < MaxFailures
    /\ failures' = failures + 1
    /\ UNCHANGED <<crashes, lockLosses>>

-----------------------------------------------------------------------------
(* The row's other writers.                                                *)

\* Initiate, a webhook, a poll, a cancel or the timeout moves the row; a
\* capture may spawn a fulfillment goroutine.
RowMoves(t) ==
    /\ \/ Row!Insert(t)
       \/ \E to \in States : Row!Transition(t, to) \/ Row!TransitionUnacknowledged(t, to)
       \/ \E s \in States : Row!InitiateWrite(t, s)
       \/ Row!InitiateWriteLost(t)
       \/ Row!TimeOut({t})
    /\ triggers'[t] <= MaxTriggers
    /\ paid' = [paid EXCEPT ![t] = @ \/ triggers'[t] > triggers[t]
                                    \/ state'[t] = "completed"]
    /\ UNCHANGED <<grantVars, lock, job, sweep, windowOpen, admin, refundVars, bounds>>

-----------------------------------------------------------------------------
(* triggerFulfillment and Fulfill.                                         *)

\* The goroutine runs and reads the transaction's details.
Start(j, t) ==
    /\ job[j].pc = "idle"
    /\ triggers[t] > 0
    /\ triggers' = [triggers EXCEPT ![t] = @ - 1]
    /\ job' = [job EXCEPT ![j] = [pc |-> "claiming", txn |-> t, attempt |-> 1]]
    /\ UNCHANGED <<state, completedAt, paid, grantVars, lock, sweep, windowOpen,
                   admin, refundVars, bounds>>

\* That query fails: logged, and the goroutine ends without an attempt.
StartFails(t) ==
    /\ triggers[t] > 0
    /\ triggers' = [triggers EXCEPT ![t] = @ - 1]
    /\ OneFailure
    /\ UNCHANGED <<state, completedAt, paid, grantVars, lock, job, sweep,
                   windowOpen, admin, refundVars>>

\* Mutant: one attempt too many.
NextAttemptOffByOne(w) ==
    IF w.attempt > fulfillmentMaxAttempts THEN NoWork
    ELSE [w EXCEPT !.pc = "claiming", !.attempt = @ + 1]

\* After a failed attempt: back off and try again, or give up after the last.
NextAttempt(w) ==
    IF w.attempt = fulfillmentMaxAttempts THEN NoWork
    ELSE [w EXCEPT !.pc = "claiming", !.attempt = @ + 1]

\* claim: GET_LOCK on a connection of its own.
Claim(j) ==
    LET t == job[j].txn
    IN  /\ job[j].pc = "claiming"
        /\ lock[t] = NoJob
        /\ lock' = [lock EXCEPT ![t] = j]
        /\ job' = [job EXCEPT ![j].pc = "claimed"]
        /\ UNCHANGED <<rowVars, paid, grantVars, sweep, windowOpen, admin,
                       refundVars, bounds>>

\* GET_LOCK waits 15 seconds for another holder, or the connection fails.
ClaimFails(j) ==
    /\ job[j].pc = "claiming"
    /\ \/ lock[job[j].txn] # NoJob /\ UNCHANGED bounds
       \/ OneFailure
    /\ job' = [job EXCEPT ![j] = NextAttempt(@)]
    /\ UNCHANGED <<rowVars, paid, grantVars, lock, sweep, windowOpen, admin, refundVars>>

\* Mutant: the marker is not read again under the claim.
CheckMarkerSkipped(j) ==
    /\ job[j].pc = "claimed"
    /\ job' = [job EXCEPT ![j].pc = IF KindOf[job[j].txn] = "topup" THEN "done" ELSE "issuing"]
    /\ UNCHANGED <<rowVars, paid, grantVars, lock, sweep, windowOpen, admin,
                   refundVars, bounds>>

\* Under the claim: a row with its marker is a success, and a top-up is one
\* whatever the row says; any other kind is about to be issued.
CheckMarker(j) ==
    LET t == job[j].txn
        next == IF pin[t] \/ KindOf[t] = "topup" THEN "done" ELSE "issuing"
    IN  /\ job[j].pc = "claimed"
        /\ job' = [job EXCEPT ![j].pc = next]
        /\ UNCHANGED <<rowVars, paid, grantVars, lock, sweep, windowOpen, admin,
                       refundVars, bounds>>

\* What the one SERIALIZABLE transaction commits: credentials, voucher or
\* subscription, and the marker.  The adjustment does not stamp completed_at.
Commit(t) ==
    /\ pin' = [pin EXCEPT ![t] = TRUE]
    /\ issued' = [issued EXCEPT ![t] = @ + 1]
    /\ access' = [access EXCEPT ![t] = TRUE]
    /\ completedAt' = [completedAt EXCEPT ![t] =
                         @ \/ KindOf[t] \in {"voucher", "subscription"}]

Issue(j) ==
    /\ job[j].pc = "issuing"
    /\ Commit(job[j].txn)
    /\ job' = [job EXCEPT ![j].pc = "done"]
    /\ UNCHANGED <<state, triggers, paid, lock, sweep, windowOpen, admin,
                   refundVars, bounds>>

\* The commit reaches the database and its answer is lost: an error here.
IssueUnacknowledged(j) ==
    /\ job[j].pc = "issuing"
    /\ Commit(job[j].txn)
    /\ job' = [job EXCEPT ![j].pc = "failed"]
    /\ OneFailure
    /\ UNCHANGED <<state, triggers, paid, lock, sweep, windowOpen, admin, refundVars>>

\* The marker query or any statement of the transaction fails.
FulfillFails(j) ==
    /\ job[j].pc \in {"claimed", "issuing"}
    /\ job' = [job EXCEPT ![j].pc = "failed"]
    /\ OneFailure
    /\ UNCHANGED <<rowVars, paid, grantVars, lock, sweep, windowOpen, admin, refundVars>>

\* The deferred release; until then the SMS and the push are sent.
Release(j) ==
    LET t == job[j].txn
    IN  /\ job[j].pc \in {"done", "failed"}
        /\ lock' = [lock EXCEPT ![t] = IF @ = j THEN NoJob ELSE @]
        /\ job' = [job EXCEPT ![j] = IF @.pc = "done" THEN NoWork ELSE NextAttempt(@)]
        /\ UNCHANGED <<rowVars, paid, grantVars, sweep, windowOpen, admin,
                       refundVars, bounds>>

\* The database drops the connection that holds the lock; its owner, which
\* works on other connections, does not notice.
LockLost(t) ==
    /\ lock[t] # NoJob
    /\ lockLosses < MaxLockLosses
    /\ lockLosses' = lockLosses + 1
    /\ lock' = [lock EXCEPT ![t] = NoJob]
    /\ UNCHANGED <<rowVars, paid, grantVars, job, sweep, windowOpen, admin,
                   refundVars, crashes, failures>>

-----------------------------------------------------------------------------
(* retryUnfulfilled, the sweep of every poller run.                        *)

\* Mutant: subscriptions are not swept.
SweptKindsVouchersOnly == {"voucher"}

SweptKinds == {"voucher", "subscription"}

\* What its query selects; the cooldown only delays a row.
Unfulfilled(t) ==
    /\ state[t] = "completed" /\ ~pin[t]
    /\ KindOf[t] \in SweptKinds
    /\ completedAt[t] /\ windowOpen[t]

SweepPick(t) ==
    /\ Unfulfilled(t) /\ t \notin sweep
    /\ sweep' = sweep \cup {t}
    /\ UNCHANGED <<rowVars, paid, grantVars, lock, job, windowOpen, admin,
                   refundVars, bounds>>

\* Another goroutine for the row, whatever has become of it since.
SweepTrigger(t) ==
    /\ t \in sweep /\ triggers[t] < MaxTriggers
    /\ sweep' = sweep \ {t}
    /\ triggers' = [triggers EXCEPT ![t] = @ + 1]
    /\ UNCHANGED <<state, completedAt, paid, grantVars, lock, job, windowOpen,
                   admin, refundVars, bounds>>

\* fulfillmentRetryWindow has passed since completed_at.
WindowCloses(t) ==
    /\ completedAt[t] /\ windowOpen[t]
    /\ windowOpen' = [windowOpen EXCEPT ![t] = FALSE]
    /\ UNCHANGED <<rowVars, paid, grantVars, lock, job, sweep, admin, refundVars, bounds>>

-----------------------------------------------------------------------------
(* Refund.                                                                 *)

\* Mutant: a NULL voucher_pin is tolerated.
RefundReadNullPin(a, t) ==
    /\ admin[a].pc = "idle"
    /\ state[t] = "completed"
    /\ admin' = [admin EXCEPT ![a] = [pc |-> "read", txn |-> t]]
    /\ UNCHANGED <<rowVars, paid, grantVars, lock, job, sweep, windowOpen,
                   refundVars, bounds>>

\* Mutant: the row's state is not checked before the gateway is called.
RefundReadAnyState(a, t) ==
    /\ admin[a].pc = "idle"
    /\ pin[t]
    /\ admin' = [admin EXCEPT ![a] = [pc |-> "read", txn |-> t]]
    /\ UNCHANGED <<rowVars, paid, grantVars, lock, job, sweep, windowOpen,
                   refundVars, bounds>>

\* voucher_pin is scanned into a string: a row without one is an error.  (So
\* is a row without external_reference; of those this module keeps no track.)
RefundRead(a, t) ==
    /\ admin[a].pc = "idle"
    /\ state[t] = "completed" /\ pin[t]
    /\ admin' = [admin EXCEPT ![a] = [pc |-> "read", txn |-> t]]
    /\ UNCHANGED <<rowVars, paid, grantVars, lock, job, sweep, windowOpen,
                   refundVars, bounds>>

\* gateway.Refund, which no state of the row and no lock precedes.  The mock
\* accepts again what its memory has lost at a restart, EcoCash may answer 200
\* with a body that says `failed`, and the state in the answer is discarded:
\* an accepted refund may have moved money again or none, and an error may
\* hide that it did.  Otherwise the gateway refuses.
GatewayRefund(a) ==
    LET t == admin[a].txn
        refused == admin' = [admin EXCEPT ![a] = NoRefund] /\ UNCHANGED acknowledged
        giveBack == /\ returned[t] < MaxRefunds
                    /\ returned' = [returned EXCEPT ![t] = @ + 1]
    IN  /\ admin[a].pc = "read"
        /\ \/ /\ giveBack \/ UNCHANGED returned
              /\ admin' = [admin EXCEPT ![a].pc = "given_back"]
              /\ acknowledged' = [acknowledged EXCEPT ![t] = TRUE]
              /\ UNCHANGED bounds
           \/ refused /\ UNCHANGED <<returned, bounds>>
           \/ refused /\ giveBack /\ OneFailure
        /\ UNCHANGED <<rowVars, paid, grantVars, lock, job, sweep, windowOpen>>

\* The transition completed -> refunded; a row found refunded already, or in
\* any other state, ends the request with an error, and so does a failing
\* statement, even a COMMIT that took effect.
RefundTransition(a) ==
    LET t == admin[a].txn
        outcome == TransitionOutcome(state[t], "completed", "refunded")
        refund == outcome = "changed" /\ state' = [state EXCEPT ![t] = "refunded"]
        stop == admin' = [admin EXCEPT ![a] = NoRefund]
    IN  /\ admin[a].pc = "given_back"
        /\ \/ refund /\ admin' = [admin EXCEPT ![a].pc = "recorded"] /\ UNCHANGED bounds
           \/ outcome # "changed" /\ stop /\ UNCHANGED <<state, bounds>>
           \/ OneFailure /\ stop /\ (refund \/ UNCHANGED state)
        /\ UNCHANGED <<completedAt, triggers, paid, grantVars, lock, job, sweep,
                       windowOpen, refundVars>>

\* Rollback deletes the radcheck rows whose username is the marker: a
\* voucher's PIN is one, "sub:<id>" and "adj:<id>:<plan>" are not.
RefundRollback(a) ==
    LET t == admin[a].txn
    IN  /\ admin[a].pc = "recorded"
        /\ \/ /\ access' = [access EXCEPT ![t] = @ /\ KindOf[t] # "voucher"]
              /\ UNCHANGED bounds
           \/ OneFailure /\ UNCHANGED access
        /\ admin' = [admin EXCEPT ![a] = NoRefund]
        /\ UNCHANGED <<rowVars, paid, pin, issued, lock, job, sweep, windowOpen, refundVars>>

-----------------------------------------------------------------------------

\* The process dies: goroutines, requests and claims are gone.
Crash ==
    /\ crashes < MaxCrashes
    /\ crashes' = crashes + 1
    /\ Row!Restart
    /\ lock' = [t \in Txns |-> NoJob]
    /\ job' = [j \in Jobs |-> NoWork]
    /\ sweep' = {}
    /\ admin' = [a \in Admins |-> NoRefund]
    /\ UNCHANGED <<paid, grantVars, windowOpen, refundVars, failures, lockLosses>>

JobNext(j) ==
    \/ \E t \in Txns : Start(j, t)
    \/ Claim(j) \/ ClaimFails(j) \/ CheckMarker(j) \/ Issue(j)
    \/ IssueUnacknowledged(j) \/ FulfillFails(j) \/ Release(j)

SweepNext(t) == SweepPick(t) \/ SweepTrigger(t) \/ WindowCloses(t)

RefundNext(a) ==
    \/ \E t \in Txns : RefundRead(a, t)
    \/ GatewayRefund(a) \/ RefundTransition(a) \/ RefundRollback(a)

Next ==
    \/ \E t \in Txns : RowMoves(t) \/ StartFails(t) \/ SweepNext(t) \/ LockLost(t)
    \/ \E j \in Jobs : JobNext(j)
    \/ \E a \in Admins : RefundNext(a)
    \/ Crash

Spec == Init /\ [][Next]_vars
-----------------------------------------------------------------------------
(* Properties.                                                             *)

\* However many goroutines, sweeps, retries and restarts work on a captured
\* payment, one voucher or subscription is issued for it (claim and marker).
OneVoucherPerPayment == \A t \in Txns : issued[t] <= 1

\* No two fulfillments of one row are past its claim at once, and a voucher
\* is about to be written only by the claim's holder.
ClaimExcludes ==
    \A j \in Jobs : job[j].pc \in {"claimed", "issuing"} => lock[job[j].txn] = j

\* The promise to payer and operator.
Contract == INSTANCE VoucherContract WITH
    paid <- {t \in Txns : paid[t]},
    granted <- {t \in Txns : issued[t] > 0},
    returned <- returned,
    acknowledged <- {t \in Txns : acknowledged[t]},
    access <- {t \in Txns : access[t]}
ImplementsContract == Contract!Spec

\* Nothing asks the gateway to refund a row once only, but the money goes back
\* again only through a Refund that overlaps another or that crashed, and
\* through one whose call or transition failed.
RefundsAreExplained ==
    \A t \in Txns : returned[t] <= Cardinality(Admins) * (1 + crashes) + failures

\* A refund that the service recorded took the credentials away.
RefundedIsRevoked ==
    \A t \in Txns :
        acknowledged[t] /\ (\A a \in Admins : admin[a].txn # t) => ~access[t]

\* A captured payment of a kind that sets voucher_pin, not fulfilled yet.
Debt(t) == state[t] = "completed" /\ ~pin[t] /\ KindOf[t] # "topup"

\* The sweep's promise: a debt whose completion is stamped is paid off, unless
\* the window closes or the row leaves `completed` first.
StampedDebtIsPaid ==
    \A t \in Txns : Debt(t) /\ completedAt[t] ~> ~Debt(t) \/ ~windowOpen[t]

\* The same of every debt, stamped or not.
DebtIsPaid == \A t \in Txns : Debt(t) ~> ~Debt(t) \/ ~windowOpen[t]

\* Goroutines run on and the poller keeps sweeping; nobody has to refund.
Fairness ==
    /\ \A j \in Jobs :
          /\ WF_vars(\E t \in Txns : Start(j, t))
          /\ SF_vars(Claim(j))
          /\ WF_vars(CheckMarker(j)) /\ WF_vars(Issue(j)) /\ WF_vars(Release(j))
    /\ \A t \in Txns : WF_vars(SweepPick(t)) /\ WF_vars(SweepTrigger(t))
FairSpec == Spec /\ Fairness

-----------------------------------------------------------------------------
(* The inductive invariants behind the proofs.                             *)

\* A goroutine past its claim holds the lock, found no marker if it is about
\* to issue, and every issue left its marker.
ClaimInv ==
    /\ \A j \in Jobs :
          /\ job[j].pc \in {"claimed", "issuing", "done", "failed"} => lock[job[j].txn] = j
          /\ job[j].pc = "issuing" => ~pin[job[j].txn]
    /\ \A t \in Txns : issued[t] = IF pin[t] THEN 1 ELSE 0

\* Whatever may lead to an issue was paid for.
PaidInv ==
    /\ \A t \in Txns : triggers[t] > 0 \/ state[t] = "completed" \/ t \in sweep => paid[t]
    /\ \A j \in Jobs : job[j].pc # "idle" => paid[job[j].txn]

\* A refund under way is of a fulfilled row, and past the gateway's answer
\* it is acknowledged.
RefundInv ==
    /\ \A a \in Admins :
          /\ admin[a].pc # "idle" => pin[admin[a].txn]
          /\ admin[a].pc \in {"given_back", "recorded"} => acknowledged[admin[a].txn]

\* Refund requests about t before the gateway's answer, and after it.
Asking(t) == {a \in Admins : admin[a].txn = t /\ admin[a].pc = "read"}
Holding(t) == {a \in Admins : admin[a].txn = t /\ admin[a].pc = "given_back"}

\* A row that a refund has met does not become completed again; while it is
\* completed, money that went back is held by a request or was paid for by a
\* failure or a crash; after that, only those that still ask may add to it.
RefundBound(t) ==
    /\ returned[t] > 0 \/ (\E a \in Admins : admin[a].txn = t) =>
          state[t] \in {"completed", "refunded", "failed"}
    /\ returned[t] <= Cardinality(Admins) * crashes + failures
          + (IF state[t] = "completed" THEN Cardinality(Holding(t))
             ELSE Cardinality(Admins) - Cardinality(Asking(t)))

RefundBoundInv == \A t \in Txns : RefundBound(t)

\* With claim connections dropped: a goroutine past a claim it no longer has
\* may still issue, and so may the holder, unless the marker is there.
Strays(t) ==
    {j \in Jobs : /\ job[j].txn = t /\ lock[t] # j
                  /\ job[j].pc \in {"claimed", "issuing"}}
HolderIssues(t) == \E j \in Jobs : lock[t] = j /\ job[j].pc = "issuing"

\* Whatever of row t is issued, or may still be, is the claim's one voucher or
\* the price of a dropped connection.
StrayBound(t) ==
    /\ IsFiniteSet(Strays(t))
    /\ pin[t] => issued[t] + Cardinality(Strays(t))
                   + (IF HolderIssues(t) THEN 1 ELSE 0) <= 1 + lockLosses
    /\ ~pin[t] => issued[t] = 0 /\ Cardinality(Strays(t)) <= lockLosses

StrayInv ==
    /\ \A t \in Txns, j \in Jobs : lock[t] = j =>
          /\ job[j].txn = t
          /\ job[j].pc \in {"claimed", "issuing", "done", "failed"}
    /\ \A t \in Txns : StrayBound(t)
=============================================================================
