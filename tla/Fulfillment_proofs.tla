------------------------- MODULE Fulfillment_proofs -------------------------
(***************************************************************************)
(* Proofs about Fulfillment: its type invariant, and, for a database that  *)
(* keeps the claim's connection open (MaxLockLosses = 0), that the claim   *)
(* excludes and that one voucher is issued per payment (and, for one that  *)
(* does not, how many) and that the module implements VoucherContract; and *)
(* how often a payment's money can go back.                                *)
(***************************************************************************)
EXTENDS Fulfillment, FiniteSetTheorems, TLAPS

-----------------------------------------------------------------------------
(* Type correctness.                                                       *)

\* A goroutine at work has a transaction; moving it on, starting one and
\* retrying keep its state well formed.
LEMMA WorkType ==
    /\ NoWork \in Work
    /\ \A t \in Txns : [pc |-> "claiming", txn |-> t, attempt |-> 1] \in Work
    /\ \A w \in Work : w.pc # "idle" =>
          /\ w.txn \in Txns
          /\ \A p \in {"claiming", "claimed", "issuing", "failed", "done"} :
                [w EXCEPT !.pc = p] \in Work
          /\ NextAttempt(w) \in Work
  <1>1. ASSUME NEW w \in Work, w.pc # "idle"
        PROVE  NextAttempt(w) \in Work
    <2>1. /\ w \in [pc: {"claiming", "claimed", "issuing", "failed", "done"},
                     txn: Txns, attempt: 1..3]
          /\ w.attempt \in 1..3
      BY <1>1 DEF Work, NoWork, fulfillmentMaxAttempts
    <2>2. w.attempt # 3 => w.attempt + 1 \in 1..3
      BY <2>1
    <2>3. w.attempt # 3 =>
             [w EXCEPT !.pc = "claiming", !.attempt = w.attempt + 1]
                \in [pc: {"claiming", "claimed", "issuing", "failed", "done"},
                    txn: Txns, attempt: 1..3]
      BY <2>1, <2>2
    <2>4. CASE w.attempt = 3
      BY <2>4 DEF Work, NextAttempt, fulfillmentMaxAttempts
    <2>5. CASE w.attempt # 3
      <3>1. NextAttempt(w) = [w EXCEPT !.pc = "claiming", !.attempt = w.attempt + 1]
        BY <2>5 DEF NextAttempt, fulfillmentMaxAttempts
      <3> QED BY <2>3, <2>5, <3>1 DEF Work, fulfillmentMaxAttempts
    <2> QED BY <2>4, <2>5
  <1>2. ASSUME NEW w \in Work, w.pc # "idle"
        PROVE  /\ w.txn \in Txns
               /\ \A p \in {"claiming", "claimed", "issuing", "failed", "done"} :
                     [w EXCEPT !.pc = p] \in Work
    BY <1>2 DEF Work, NoWork
  <1>3. ASSUME NEW t \in Txns
        PROVE  [pc |-> "claiming", txn |-> t, attempt |-> 1] \in Work
    BY DEF Work, fulfillmentMaxAttempts
  <1>4. NoWork \in Work
    BY DEF Work
  <1> QED BY <1>1, <1>2, <1>3, <1>4

\* The initial state is well formed.
LEMMA TypeInit == Init => TypeOK
  BY FulfillmentAssumption
  DEF Init, TypeOK, Row!Init, NoWork, NoRefund, fulfillmentMaxAttempts, Work, Request

\* The row's writers keep the row's types.
LEMMA RowMovesType ==
    ASSUME TypeOK, NEW t \in Txns, RowMoves(t)
    PROVE  TypeOK'
  <1> USE DEF TypeOK, RowMoves, grantVars, refundVars, bounds
  <1>1. CASE Row!Insert(t)
    BY <1>1 DEF Row!Insert, States
  <1>2. ASSUME NEW to \in States,
               Row!Transition(t, to) \/ Row!TransitionUnacknowledged(t, to)
        PROVE  TypeOK'
    <2>1. /\ state' = [state EXCEPT ![t] = to]
          /\ completedAt' = [completedAt EXCEPT ![t] = @ \/ to = "completed"]
      BY <1>2 DEF Row!Transition, Row!TransitionUnacknowledged
    <2>2. triggers' \in [Txns -> Nat]
      BY <1>2 DEF Row!Transition, Row!TransitionUnacknowledged
    <2> QED BY <2>1, <2>2
  <1>3. ASSUME NEW s \in States, Row!InitiateWrite(t, s)
        PROVE  TypeOK'
    BY <1>3 DEF Row!InitiateWrite
  <1>4. CASE Row!InitiateWriteLost(t)
    BY <1>4 DEF Row!InitiateWriteLost
  <1>5. CASE Row!TimeOut({t})
    BY <1>5 DEF Row!TimeOut, States
  <1> QED BY <1>1, <1>2, <1>3, <1>4, <1>5

\* A goroutine's steps.
LEMMA JobType ==
    ASSUME TypeOK, NEW j \in Jobs, JobNext(j)
    PROVE  TypeOK'
  <1> USE FulfillmentAssumption DEF refundVars
  <1> DEFINE w == job[j]
  <1>0. w \in Work /\ (w.pc # "idle" => w.txn \in Txns)
    BY WorkType DEF TypeOK
  <1>1. ASSUME NEW t \in Txns, Start(j, t)
        PROVE  TypeOK'
    <2>1. [pc |-> "claiming", txn |-> t, attempt |-> 1] \in Work
      BY WorkType
    <2>2. triggers' \in [Txns -> Nat]
      BY <1>1 DEF TypeOK, Start
    <2> QED BY <1>1, <2>1, <2>2 DEF TypeOK, Start, grantVars, bounds
  <1>2. CASE Claim(j)
    <2>1. w.txn \in Txns /\ [w EXCEPT !.pc = "claimed"] \in Work
      BY <1>0, <1>2, WorkType DEF Claim
    <2> QED BY <1>2, <2>1 DEF TypeOK, Claim, rowVars, grantVars, bounds
  <1>3. CASE ClaimFails(j)
    <2>1. NextAttempt(w) \in Work
      BY <1>0, <1>3, WorkType DEF ClaimFails
    <2> QED BY <1>3, <2>1 DEF TypeOK, ClaimFails, OneFailure, rowVars, grantVars, bounds
  <1>4. CASE CheckMarker(j)
    <2>1. [w EXCEPT !.pc = "done"] \in Work /\ [w EXCEPT !.pc = "issuing"] \in Work
      BY <1>0, <1>4, WorkType DEF CheckMarker
    <2> QED BY <1>4, <2>1 DEF TypeOK, CheckMarker, rowVars, grantVars, bounds
  <1>5. CASE Issue(j)
    <2>1. w.txn \in Txns /\ [w EXCEPT !.pc = "done"] \in Work
      BY <1>0, <1>5, WorkType DEF Issue
    <2> QED BY <1>5, <2>1 DEF TypeOK, Issue, Commit, bounds
  <1>6. CASE IssueUnacknowledged(j)
    <2>1. w.txn \in Txns /\ [w EXCEPT !.pc = "failed"] \in Work
      BY <1>0, <1>6, WorkType DEF IssueUnacknowledged
    <2> QED BY <1>6, <2>1 DEF TypeOK, IssueUnacknowledged, Commit, OneFailure
  <1>7. CASE FulfillFails(j)
    <2>1. [w EXCEPT !.pc = "failed"] \in Work
      BY <1>0, <1>7, WorkType DEF FulfillFails
    <2> QED BY <1>7, <2>1 DEF TypeOK, FulfillFails, OneFailure, rowVars, grantVars
  <1>8. CASE Release(j)
    <2>1. w.txn \in Txns /\ NextAttempt(w) \in Work /\ NoWork \in Work
      BY <1>0, <1>8, WorkType DEF Release
    <2> QED BY <1>8, <2>1 DEF TypeOK, Release, rowVars, grantVars, bounds
  <1> QED BY <1>1, <1>2, <1>3, <1>4, <1>5, <1>6, <1>7, <1>8 DEF JobNext

\* A Refund request's steps.
LEMMA RefundType ==
    ASSUME TypeOK, NEW a \in Admins, RefundNext(a)
    PROVE  TypeOK'
  <1> USE FulfillmentAssumption DEF refundVars
  <1> DEFINE r == admin[a]
  <1>0. /\ r \in Request /\ NoRefund \in Request
        /\ r.pc # "idle" =>
              /\ r.txn \in Txns
              /\ \A p \in {"given_back", "recorded"} : [r EXCEPT !.pc = p] \in Request
    BY DEF TypeOK, Request, NoRefund
  <1>1. ASSUME NEW t \in Txns, RefundRead(a, t)
        PROVE  TypeOK'
    <2>1. [pc |-> "read", txn |-> t] \in Request
      BY DEF Request
    <2> QED BY <1>1, <2>1 DEF TypeOK, RefundRead, rowVars, grantVars, bounds
  <1>2. CASE GatewayRefund(a)
    <2>1. r.txn \in Txns /\ [r EXCEPT !.pc = "given_back"] \in Request
      BY <1>0, <1>2 DEF GatewayRefund
    <2>2. bounds' \in (0..MaxCrashes) \X (0..MaxFailures) \X (0..MaxLockLosses)
      BY <1>2 DEF TypeOK, GatewayRefund, OneFailure, bounds
    <2>3. returned' \in [Txns -> Nat] /\ acknowledged' \in [Txns -> BOOLEAN]
      <3>1. returned' = returned \/ returned' = [returned EXCEPT ![r.txn] = @ + 1]
        BY <1>2 DEF GatewayRefund
      <3>2. /\ acknowledged' = acknowledged
               \/ acknowledged' = [acknowledged EXCEPT ![r.txn] = TRUE]
        BY <1>2 DEF GatewayRefund
      <3>3. returned' \in [Txns -> Nat]
        BY <2>1, <3>1 DEF TypeOK
      <3>4. acknowledged' \in [Txns -> BOOLEAN]
        BY <2>1, <3>2 DEF TypeOK
      <3> QED BY <3>3, <3>4
    <2>4. admin' \in [Admins -> Request]
      BY <1>0, <1>2, <2>1 DEF TypeOK, GatewayRefund
    <2> QED BY <1>2, <2>2, <2>3, <2>4 DEF TypeOK, GatewayRefund, rowVars, grantVars, bounds
  <1>3. CASE RefundTransition(a)
    <2>1. r.txn \in Txns /\ [r EXCEPT !.pc = "recorded"] \in Request
      BY <1>0, <1>3 DEF RefundTransition
    <2>2. bounds' \in (0..MaxCrashes) \X (0..MaxFailures) \X (0..MaxLockLosses)
      BY <1>3 DEF TypeOK, RefundTransition, OneFailure, bounds
    <2>3. /\ state' \in [Txns -> States \cup {"absent"}]
          /\ admin' \in [Admins -> Request]
      BY <1>0, <1>3, <2>1 DEF TypeOK, RefundTransition, States
    <2> QED BY <1>3, <2>2, <2>3 DEF TypeOK, RefundTransition, grantVars, bounds
  <1>4. CASE RefundRollback(a)
    <2>1. r.txn \in Txns
      BY <1>0, <1>4 DEF RefundRollback
    <2>2. bounds' \in (0..MaxCrashes) \X (0..MaxFailures) \X (0..MaxLockLosses)
      BY <1>4 DEF TypeOK, RefundRollback, OneFailure, bounds
    <2>3. access' \in [Txns -> BOOLEAN] /\ admin' \in [Admins -> Request]
      BY <1>0, <1>4, <2>1 DEF TypeOK, RefundRollback
    <2> QED BY <1>4, <2>2, <2>3 DEF TypeOK, RefundRollback, rowVars, bounds
  <1> QED BY <1>1, <1>2, <1>3, <1>4 DEF RefundNext

\* Every step keeps the state well formed.
LEMMA TypeStep == TypeOK /\ [Next]_vars => TypeOK'
  <1> SUFFICES ASSUME TypeOK, [Next]_vars
               PROVE  TypeOK'
    OBVIOUS
  <1> USE FulfillmentAssumption DEF refundVars
  <1>1. ASSUME NEW t \in Txns, RowMoves(t)
        PROVE  TypeOK'
    BY <1>1, RowMovesType
  <1>2. ASSUME NEW t \in Txns, StartFails(t)
        PROVE  TypeOK'
    <2>1. triggers' \in [Txns -> Nat]
      BY <1>2 DEF TypeOK, StartFails
    <2>2. failures' \in 0..MaxFailures
      BY <1>2 DEF TypeOK, StartFails, OneFailure
    <2> QED BY <1>2, <2>1, <2>2 DEF TypeOK, StartFails, OneFailure, grantVars
  <1>3. ASSUME NEW t \in Txns, SweepNext(t)
        PROVE  TypeOK'
    <2>1. CASE SweepPick(t)
      BY <2>1 DEF TypeOK, SweepPick, rowVars, grantVars, bounds
    <2>2. CASE SweepTrigger(t)
      BY <2>2 DEF TypeOK, SweepTrigger, grantVars, bounds
    <2>3. CASE WindowCloses(t)
      BY <2>3 DEF TypeOK, WindowCloses, rowVars, grantVars, bounds
    <2> QED BY <1>3, <2>1, <2>2, <2>3 DEF SweepNext
  <1>4. ASSUME NEW t \in Txns, LockLost(t)
        PROVE  TypeOK'
    BY <1>4 DEF TypeOK, LockLost, rowVars, grantVars
  <1>5. ASSUME NEW j \in Jobs, JobNext(j)
        PROVE  TypeOK'
    BY <1>5, JobType
  <1>6. ASSUME NEW a \in Admins, RefundNext(a)
        PROVE  TypeOK'
    BY <1>6, RefundType
  <1>7. CASE Crash
    BY <1>7 DEF TypeOK, Crash, Row!Restart, NoWork, NoRefund, Work, Request,
                fulfillmentMaxAttempts, grantVars
  <1>8. CASE UNCHANGED vars
    BY <1>8 DEF TypeOK, vars, rowVars, grantVars, bounds
  <1> QED BY <1>1, <1>2, <1>3, <1>4, <1>5, <1>6, <1>7, <1>8 DEF Next

\* Every reachable state is well typed, for any number of transactions,
\* goroutines, admins, failures, crashes and lost locks.
THEOREM TypeCorrect == Spec => []TypeOK
  BY TypeInit, TypeStep, PTL DEF Spec
-----------------------------------------------------------------------------
(* The claim and the marker.                                               *)

\* Of the row's writers only the bookkeeping of goroutines matters below.
LEMMA RowMovesFrame ==
    ASSUME TypeOK, NEW t \in Txns, RowMoves(t)
    PROVE  /\ UNCHANGED <<pin, issued, access, lock, job, sweep, admin, refundVars>>
           /\ \A u \in Txns : paid[u] => paid'[u]
           /\ \A u \in Txns : triggers'[u] > triggers[u] => paid'[u]
           /\ \A u \in Txns : state'[u] = "completed" => state[u] = "completed" \/ paid'[u]
  <1>1. UNCHANGED <<pin, issued, access, lock, job, sweep, admin, refundVars>>
    BY DEF RowMoves, grantVars
  <1>2. \A u \in Txns : (paid[u] => paid'[u]) /\ (triggers'[u] > triggers[u] => paid'[u])
    <2>1. \A u \in Txns : u # t => triggers'[u] = triggers[u] /\ triggers[u] \in Nat
      BY DEF TypeOK, RowMoves, Row!Insert, Row!Transition, Row!TransitionUnacknowledged,
             Row!InitiateWrite, Row!InitiateWriteLost, Row!TimeOut
    <2>2. \A u \in Txns : u # t => ~(triggers'[u] > triggers[u])
      BY <2>1
    <2>3. /\ paid'[t] = (paid[t] \/ triggers'[t] > triggers[t] \/ state'[t] = "completed")
          /\ \A u \in Txns : u # t => paid'[u] = paid[u]
      BY Zenon DEF TypeOK, RowMoves
    <2> QED BY <2>2, <2>3, Zenon
  <1>3. ASSUME NEW u \in Txns, state'[u] = "completed"
        PROVE  state[u] = "completed" \/ paid'[u]
    <2>1. CASE u = t
      BY <1>3, <2>1, Zenon DEF TypeOK, RowMoves
    <2>2. CASE u # t
      <3>1. state'[u] = state[u]
        BY <2>2 DEF TypeOK, RowMoves, Row!Insert, Row!Transition,
           Row!TransitionUnacknowledged, Row!InitiateWrite, Row!InitiateWriteLost, Row!TimeOut
      <3> QED BY <1>3, <3>1
    <2> QED BY <2>1, <2>2
  <1> QED BY <1>1, <1>2, <1>3

\* Nothing is claimed or issued at first.
LEMMA ClaimInit == Init => ClaimInv
  BY DEF Init, ClaimInv, NoWork

\* A goroutine's steps keep the claim's bookkeeping.
LEMMA ClaimJob ==
    ASSUME TypeOK, ClaimInv, NEW j \in Jobs, JobNext(j)
    PROVE  ClaimInv'
  <1> USE FulfillmentAssumption
  <1>0. \A i \in Jobs : job[i] \in Work /\ (job[i].pc # "idle" => job[i].txn \in Txns)
    BY WorkType DEF TypeOK
  <1>1. ASSUME NEW t \in Txns, Start(j, t)
        PROVE  ClaimInv'
    BY <1>1 DEF TypeOK, ClaimInv, Start, grantVars
  <1>2. CASE Claim(j)
    BY <1>0, <1>2 DEF TypeOK, ClaimInv, Claim, grantVars
  <1>3. CASE ClaimFails(j)
    BY <1>3 DEF TypeOK, ClaimInv, ClaimFails, NextAttempt, NoWork, grantVars
  <1>4. CASE CheckMarker(j)
    BY <1>4 DEF TypeOK, ClaimInv, CheckMarker, grantVars
  <1>5. CASE Issue(j)
    BY <1>0, <1>5 DEF TypeOK, ClaimInv, Issue, Commit
  <1>6. CASE IssueUnacknowledged(j)
    BY <1>0, <1>6 DEF TypeOK, ClaimInv, IssueUnacknowledged, Commit
  <1>7. CASE FulfillFails(j)
    BY <1>7 DEF TypeOK, ClaimInv, FulfillFails, grantVars
  <1>8. CASE Release(j)
    BY <1>0, <1>8 DEF TypeOK, ClaimInv, Release, NextAttempt, NoWork, grantVars
  <1> QED BY <1>1, <1>2, <1>3, <1>4, <1>5, <1>6, <1>7, <1>8 DEF JobNext

\* Every step keeps the claim's bookkeeping while no connection is dropped.
LEMMA ClaimStep ==
    ASSUME MaxLockLosses = 0, TypeOK, ClaimInv, [Next]_vars
    PROVE  ClaimInv'
  <1> USE FulfillmentAssumption
  <1>1. ASSUME NEW t \in Txns, RowMoves(t)
        PROVE  ClaimInv'
    BY <1>1, RowMovesFrame DEF ClaimInv
  <1>2. ASSUME NEW t \in Txns, StartFails(t)
        PROVE  ClaimInv'
    BY <1>2 DEF ClaimInv, StartFails, grantVars
  <1>3. ASSUME NEW t \in Txns, SweepNext(t)
        PROVE  ClaimInv'
    BY <1>3 DEF ClaimInv, SweepNext, SweepPick, SweepTrigger, WindowCloses, grantVars
  <1>4. ASSUME NEW t \in Txns, LockLost(t)
        PROVE  FALSE
    BY <1>4 DEF TypeOK, LockLost
  <1>5. ASSUME NEW j \in Jobs, JobNext(j)
        PROVE  ClaimInv'
    BY <1>5, ClaimJob
  <1>6. ASSUME NEW a \in Admins, RefundNext(a)
        PROVE  UNCHANGED <<pin, issued, lock, job>>
    BY <1>6 DEF RefundNext, RefundRead, GatewayRefund, RefundTransition,
                RefundRollback, grantVars
  <1>7. CASE Crash
    BY <1>7 DEF TypeOK, ClaimInv, Crash, NoWork, grantVars
  <1>8. CASE UNCHANGED vars
    BY <1>8 DEF ClaimInv, vars, grantVars
  <1> QED BY <1>1, <1>2, <1>3, <1>4, <1>5, <1>6, <1>7, <1>8 DEF Next, ClaimInv

\* While the database keeps the claim's connection, no two fulfillments of a
\* row are past its claim, and a payment is fulfilled at most once: for any
\* number of webhooks, polls, sweeps, retries, failures and crashes.
THEOREM ClaimsExclude ==
    ASSUME MaxLockLosses = 0
    PROVE  Spec => [](ClaimExcludes /\ OneVoucherPerPayment)
  <1>1. ClaimInv => ClaimExcludes /\ OneVoucherPerPayment
    BY DEF ClaimInv, ClaimExcludes, OneVoucherPerPayment
  <1>2. TypeOK /\ ClaimInv /\ [Next]_vars => ClaimInv'
    BY ClaimStep
  <1> QED BY <1>1, <1>2, ClaimInit, TypeCorrect, PTL DEF Spec
-----------------------------------------------------------------------------
(* What was paid, what was returned, and the contract.                     *)

\* Nothing is triggered or paid at first.
LEMMA PaidInit == Init => PaidInv
  BY DEF Init, PaidInv, Row!Init, NoWork

\* A goroutine's steps work on paid rows only.
LEMMA PaidJob ==
    ASSUME TypeOK, PaidInv, NEW j \in Jobs, JobNext(j)
    PROVE  PaidInv'
  <1>0. \A i \in Jobs : job[i] \in Work /\ (job[i].pc # "idle" => job[i].txn \in Txns)
    BY WorkType DEF TypeOK
  <1>1. ASSUME NEW t \in Txns, Start(j, t)
        PROVE  PaidInv'
    <2>1. \A u \in Txns : triggers'[u] > 0 => triggers[u] > 0
      BY <1>1 DEF TypeOK, Start
    <2> QED BY <1>1, <2>1 DEF TypeOK, PaidInv, Start
  <1>2. ASSUME ~\E t \in Txns : Start(j, t)
        PROVE  /\ UNCHANGED <<state, triggers, paid, sweep>>
               /\ job[j].pc # "idle"
               /\ \/ \E p \in {"claimed", "issuing", "done", "failed"} :
                        job' = [job EXCEPT ![j].pc = p]
                  \/ job' = [job EXCEPT ![j] = NextAttempt(@)]
                  \/ job' = [job EXCEPT ![j] = NoWork]
    BY <1>2 DEF JobNext, Claim, ClaimFails, CheckMarker, Issue, IssueUnacknowledged,
                FulfillFails, Release, rowVars
  <1>3. ASSUME ~\E t \in Txns : Start(j, t)
        PROVE  /\ job'[j].pc # "idle" => job'[j].txn = job[j].txn
               /\ \A i \in Jobs : i # j => job'[i] = job[i]
    <2>1. NextAttempt(job[j]).pc # "idle" => NextAttempt(job[j]).txn = job[j].txn
      BY <1>0, <1>2, <1>3 DEF NextAttempt, NoWork, Work
    <2> QED BY <1>0, <1>2, <1>3, <2>1 DEF TypeOK, NoWork, Work
  <1> QED BY <1>1, <1>2, <1>3 DEF TypeOK, PaidInv

\* Every step keeps unpaid rows from being triggered, swept or worked on.
LEMMA PaidStep ==
    ASSUME TypeOK, PaidInv, [Next]_vars
    PROVE  PaidInv'
  <1>1. ASSUME NEW t \in Txns, RowMoves(t)
        PROVE  PaidInv'
    <2>1. ASSUME NEW u \in Txns, triggers'[u] > 0
          PROVE  triggers[u] > 0 \/ triggers'[u] > triggers[u]
      <3>1. triggers[u] \in Nat
        BY DEF TypeOK
      <3>2. triggers[u] = 0 \/ triggers[u] > 0
        BY <3>1
      <3> QED BY <2>1, <3>2
    <2>2. /\ UNCHANGED <<job, sweep>>
          /\ \A u \in Txns : paid[u] => paid'[u]
          /\ \A u \in Txns : triggers'[u] > triggers[u] => paid'[u]
          /\ \A u \in Txns : state'[u] = "completed" => state[u] = "completed" \/ paid'[u]
      BY <1>1, RowMovesFrame
    <2>3. \A i \in Jobs : job[i].pc # "idle" => job[i].txn \in Txns
      BY WorkType DEF TypeOK
    <2> QED BY <2>1, <2>2, <2>3 DEF PaidInv
  <1>2. ASSUME NEW t \in Txns, StartFails(t)
        PROVE  PaidInv'
    <2>1. \A u \in Txns : triggers'[u] > 0 => triggers[u] > 0
      BY <1>2 DEF TypeOK, StartFails
    <2> QED BY <1>2, <2>1 DEF PaidInv, StartFails
  <1>3. ASSUME NEW t \in Txns, SweepNext(t)
        PROVE  PaidInv'
    BY <1>3 DEF TypeOK, PaidInv, SweepNext, SweepPick, SweepTrigger, WindowCloses,
                Unfulfilled, rowVars
  <1>4. ASSUME NEW t \in Txns, LockLost(t)
        PROVE  PaidInv'
    BY <1>4 DEF PaidInv, LockLost, rowVars
  <1>5. ASSUME NEW j \in Jobs, JobNext(j)
        PROVE  PaidInv'
    BY <1>5, PaidJob
  <1>6. ASSUME NEW a \in Admins, RefundNext(a)
        PROVE  PaidInv'
    BY <1>6 DEF TypeOK, PaidInv, RefundNext, RefundRead, GatewayRefund,
                RefundTransition, RefundRollback, rowVars
  <1>7. CASE Crash
    BY <1>7 DEF PaidInv, Crash, Row!Restart, NoWork
  <1>8. CASE UNCHANGED vars
    BY <1>8 DEF PaidInv, vars, rowVars
  <1> QED BY <1>1, <1>2, <1>3, <1>4, <1>5, <1>6, <1>7, <1>8 DEF Next

\* No refund is under way at first.
LEMMA RefundInit == Init => RefundInv
  BY DEF Init, RefundInv, NoRefund

\* Every step keeps refunds to fulfilled rows, and recorded ones to those the
\* gateway acknowledged.
LEMMA RefundStep ==
    ASSUME TypeOK, RefundInv, [Next]_vars
    PROVE  RefundInv'
  <1>0. \A a \in Admins : admin[a].pc # "idle" => admin[a].txn \in Txns
    BY DEF TypeOK, Request, NoRefund
  <1>1. ASSUME NEW t \in Txns, RowMoves(t)
        PROVE  RefundInv'
    BY <1>1, RowMovesFrame DEF RefundInv, refundVars
  <1>2. ASSUME NEW t \in Txns, StartFails(t) \/ SweepNext(t) \/ LockLost(t)
        PROVE  RefundInv'
    BY <1>2 DEF RefundInv, StartFails, SweepNext, SweepPick, SweepTrigger,
                WindowCloses, LockLost, grantVars, refundVars
  <1>3. ASSUME NEW j \in Jobs, JobNext(j)
        PROVE  RefundInv'
    <2>1. UNCHANGED <<admin, acknowledged>> /\ \A t \in Txns : pin[t] => pin'[t]
      BY <1>3 DEF TypeOK, JobNext, Start, Claim, ClaimFails, CheckMarker, Issue,
                  IssueUnacknowledged, FulfillFails, Release, Commit, grantVars, refundVars
    <2> QED BY <1>0, <2>1 DEF RefundInv
  <1>4. ASSUME NEW a \in Admins, RefundNext(a)
        PROVE  RefundInv'
    <2>1. ASSUME NEW t \in Txns, RefundRead(a, t)
          PROVE  RefundInv'
      BY <2>1 DEF TypeOK, RefundInv, RefundRead, grantVars, refundVars
    <2>2. CASE GatewayRefund(a)
      <3> DEFINE t == admin[a].txn
      <3>1. t \in Txns /\ pin[t] /\ UNCHANGED pin
        BY <1>0, <2>2 DEF RefundInv, GatewayRefund, grantVars
      <3>2. /\ \A u \in Txns : acknowledged[u] => acknowledged'[u]
            /\ \/ admin' = [admin EXCEPT ![a] = NoRefund]
               \/ admin' = [admin EXCEPT ![a].pc = "given_back"] /\ acknowledged'[t]
        BY <2>2, <3>1, Zenon DEF TypeOK, GatewayRefund
      <3> QED BY <1>0, <3>1, <3>2 DEF TypeOK, RefundInv, NoRefund, Request
    <2>3. CASE RefundTransition(a)
      <3>1. admin[a].pc = "given_back" /\ UNCHANGED <<pin, acknowledged>>
        BY <2>3 DEF RefundTransition, grantVars, refundVars
      <3>2. \/ admin' = [admin EXCEPT ![a] = NoRefund]
            \/ admin' = [admin EXCEPT ![a].pc = "recorded"]
        BY <2>3 DEF RefundTransition
      <3> QED BY <1>0, <3>1, <3>2 DEF TypeOK, RefundInv, NoRefund, Request
    <2>4. CASE RefundRollback(a)
      BY <2>4 DEF TypeOK, RefundInv, RefundRollback, NoRefund, refundVars
    <2> QED BY <1>4, <2>1, <2>2, <2>3, <2>4 DEF RefundNext
  <1>5. CASE Crash
    BY <1>5 DEF RefundInv, Crash, NoRefund, grantVars, refundVars
  <1>6. CASE UNCHANGED vars
    BY <1>6 DEF RefundInv, vars, grantVars, refundVars
  <1> QED BY <1>1, <1>2, <1>3, <1>4, <1>5, <1>6 DEF Next

\* Every step is a step of the contract or leaves it alone.
LEMMA ContractStep ==
    ASSUME TypeOK, ClaimInv, PaidInv, RefundInv, [Next]_vars
    PROVE  [Contract!Next]_(Contract!contractVars)
  <1>0. /\ \A j \in Jobs : job[j].pc # "idle" => job[j].txn \in Txns
        /\ \A a \in Admins : admin[a].pc # "idle" => admin[a].txn \in Txns
    <2>1. \A j \in Jobs : job[j].pc # "idle" => job[j].txn \in Txns
      BY WorkType DEF TypeOK
    <2>2. \A a \in Admins : admin[a].pc # "idle" => admin[a].txn \in Txns
      BY DEF TypeOK, Request, NoRefund
    <2> QED BY <2>1, <2>2
  <1>1. ASSUME NEW t \in Txns, RowMoves(t)
        PROVE  Contract!Pay(t) \/ UNCHANGED Contract!contractVars
    <2>1. /\ \A u \in Txns : u # t => paid'[u] = paid[u]
          /\ paid[t] => paid'[t]
          /\ UNCHANGED <<issued, access, returned, acknowledged>>
      BY <1>1, Zenon DEF TypeOK, RowMoves, grantVars, refundVars
    <2> QED BY <2>1 DEF Contract!Pay, Contract!contractVars
  <1>2. ASSUME NEW j \in Jobs, Issue(j) \/ IssueUnacknowledged(j)
        PROVE  \E t \in Txns : Contract!Grant(t)
    <2>0. PICK t \in Txns : t = job[j].txn
      BY <1>0, <1>2 DEF Issue, IssueUnacknowledged
    <2>1. paid[t] /\ issued[t] = 0
      BY <2>0, <1>2 DEF Issue, IssueUnacknowledged, ClaimInv, PaidInv
    <2>2. /\ issued' = [issued EXCEPT ![t] = 1]
          /\ access' = [access EXCEPT ![t] = TRUE]
          /\ UNCHANGED <<paid, returned, acknowledged>>
      BY <1>2, <2>0, <2>1 DEF Issue, IssueUnacknowledged, Commit, refundVars
    <2> QED BY <2>1, <2>2 DEF TypeOK, Contract!Grant
  <1>3. ASSUME NEW j \in Jobs, JobNext(j), ~(Issue(j) \/ IssueUnacknowledged(j))
        PROVE  UNCHANGED Contract!contractVars
    BY <1>3 DEF JobNext, Start, Claim, ClaimFails, CheckMarker, FulfillFails,
                Release, grantVars, refundVars, Contract!contractVars
  <1>4. ASSUME NEW a \in Admins, GatewayRefund(a)
        PROVE  \E t \in Txns : Contract!Refund(t)
    <2>0. PICK t \in Txns : t = admin[a].txn
      BY <1>0, <1>4 DEF GatewayRefund
    <2>1. issued[t] > 0
      BY <1>4, <2>0 DEF GatewayRefund, RefundInv, ClaimInv
    <2>2. /\ returned' \in {returned, [returned EXCEPT ![t] = @ + 1]}
          /\ acknowledged' = acknowledged \/ acknowledged' = [acknowledged EXCEPT ![t] = TRUE]
          /\ UNCHANGED <<paid, issued, access>>
      BY <1>4, <2>0 DEF GatewayRefund, grantVars
    <2>3. {u \in Txns : acknowledged'[u]} \in
             {{u \in Txns : acknowledged[u]}, {u \in Txns : acknowledged[u]} \cup {t}}
      BY <2>2 DEF TypeOK
    <2> QED BY <2>1, <2>2, <2>3 DEF Contract!Refund
  <1>5. ASSUME NEW a \in Admins, RefundRollback(a)
        PROVE  (\E t \in Txns : Contract!Revoke(t)) \/ UNCHANGED Contract!contractVars
    <2>0. PICK t \in Txns : t = admin[a].txn
      BY <1>0, <1>5 DEF RefundRollback
    <2>1. acknowledged[t]
      BY <1>5, <2>0 DEF RefundRollback, RefundInv
    <2>2. /\ access' = [access EXCEPT ![t] = FALSE] \/ UNCHANGED access
          /\ UNCHANGED <<paid, issued, returned, acknowledged>>
      <3>1. CASE KindOf[t] = "voucher"
        BY <1>5, <2>0, <3>1 DEF TypeOK, RefundRollback, refundVars
      <3>2. CASE KindOf[t] # "voucher"
        BY <1>5, <2>0, <3>2 DEF TypeOK, RefundRollback, refundVars
      <3> QED BY <3>1, <3>2
    <2> QED BY <2>1, <2>2 DEF TypeOK, Contract!Revoke, Contract!contractVars
  <1>6. ASSUME NEW a \in Admins,
               RefundTransition(a) \/ \E t \in Txns : RefundRead(a, t)
        PROVE  UNCHANGED Contract!contractVars
    BY <1>6 DEF RefundTransition, RefundRead, grantVars, refundVars, Contract!contractVars
  <1>7. ASSUME NEW t \in Txns, StartFails(t) \/ SweepNext(t) \/ LockLost(t)
        PROVE  UNCHANGED Contract!contractVars
    BY <1>7 DEF StartFails, SweepNext, SweepPick, SweepTrigger, WindowCloses,
                LockLost, grantVars, refundVars, Contract!contractVars
  <1>8. CASE Crash
    BY <1>8 DEF Crash, grantVars, refundVars, Contract!contractVars
  <1>9. CASE UNCHANGED vars
    BY <1>9 DEF vars, grantVars, refundVars, Contract!contractVars
  <1>10. ASSUME NEW j \in Jobs, JobNext(j)
         PROVE  [Contract!Next]_(Contract!contractVars)
    BY <1>2, <1>3, <1>10 DEF Contract!Next
  <1>11. ASSUME NEW a \in Admins, RefundNext(a)
         PROVE  [Contract!Next]_(Contract!contractVars)
    BY <1>4, <1>5, <1>6, <1>11 DEF RefundNext, Contract!Next
  <1>12. ASSUME NEW t \in Txns, RowMoves(t) \/ StartFails(t) \/ SweepNext(t) \/ LockLost(t)
         PROVE  [Contract!Next]_(Contract!contractVars)
    BY <1>1, <1>7, <1>12 DEF Contract!Next
  <1> QED BY <1>8, <1>9, <1>10, <1>11, <1>12 DEF Next

\* Fulfillment keeps its promise to payer and operator, for any number of
\* transactions, goroutines, admins, failures and crashes and whatever the
\* gateways answer to refunds, as long as the claim's connection lives.
THEOREM FulfillmentImplementsContract ==
    ASSUME MaxLockLosses = 0
    PROVE  Spec => ImplementsContract
  <1>1. Init => Contract!Init
    BY DEF Init, Contract!Init
  <1>2. TypeOK /\ ClaimInv /\ [Next]_vars => ClaimInv'
    BY ClaimStep
  <1>3. TypeOK /\ PaidInv /\ [Next]_vars => PaidInv'
    BY PaidStep
  <1>4. TypeOK /\ RefundInv /\ [Next]_vars => RefundInv'
    BY RefundStep
  <1>5. TypeOK /\ ClaimInv /\ PaidInv /\ RefundInv /\ [Next]_vars
           => [Contract!Next]_(Contract!contractVars)
    BY ContractStep
  <1> QED BY <1>1, <1>2, <1>3, <1>4, <1>5, ClaimInit, PaidInit, RefundInit,
             TypeCorrect, PTL DEF Spec, ImplementsContract, Contract!Spec
-----------------------------------------------------------------------------
(* How often a payment's money can go back.                                *)

\* Two disjoint sets of requests are finite and together no more than all.
LEMMA DisjointSlots ==
    ASSUME NEW A \in SUBSET Admins, NEW H \in SUBSET Admins, A \intersect H = {}
    PROVE  /\ IsFiniteSet(A) /\ IsFiniteSet(H)
           /\ Cardinality(A) \in Nat /\ Cardinality(H) \in Nat
           /\ Cardinality(Admins) \in Nat
           /\ Cardinality(A) + Cardinality(H) <= Cardinality(Admins)
  <1>1. IsFiniteSet(Admins)
    BY FulfillmentAssumption
  <1>2. IsFiniteSet(A) /\ IsFiniteSet(H)
    BY <1>1, FS_Subset
  <1>3. A \cup H \in SUBSET Admins
    OBVIOUS
  <1>4. Cardinality(A \cup H) <= Cardinality(Admins)
    BY <1>1, <1>3, FS_Subset
  <1>5. IsFiniteSet({}) /\ Cardinality({}) = 0
    BY FS_EmptySet
  <1>6. Cardinality(A \cup H) = Cardinality(A) + Cardinality(H) - 0
    BY <1>2, <1>5, FS_Union
  <1>7. Cardinality(A) \in Nat /\ Cardinality(H) \in Nat /\ Cardinality(Admins) \in Nat
    BY <1>1, <1>2, FS_CardinalityType
  <1> QED BY <1>2, <1>4, <1>6, <1>7

\* So are the requests about one row before and after the gateway's answer.
LEMMA RefundSlots ==
    ASSUME NEW t \in Txns
    PROVE  /\ IsFiniteSet(Asking(t)) /\ IsFiniteSet(Holding(t))
           /\ Cardinality(Asking(t)) \in Nat /\ Cardinality(Holding(t)) \in Nat
           /\ Cardinality(Admins) \in Nat
           /\ Cardinality(Asking(t)) + Cardinality(Holding(t)) <= Cardinality(Admins)
  <1>1. /\ Asking(t) \in SUBSET Admins /\ Holding(t) \in SUBSET Admins
        /\ Asking(t) \intersect Holding(t) = {}
    BY DEF Asking, Holding
  <1> QED BY <1>1, DisjointSlots

\* What was refunded once does not become completed again.
LEMMA RowStaysSettled ==
    ASSUME TypeOK, NEW t \in Txns, RowMoves(t), NEW u \in Txns
    PROVE  /\ state[u] \in {"completed", "refunded", "failed"} =>
                 state'[u] \in {"completed", "refunded", "failed"}
           /\ state[u] \in {"refunded", "failed"} => state'[u] = state[u]
  <1> USE DEF TypeOK
  <1>1. CASE Row!Insert(t)
    BY <1>1 DEF Row!Insert
  <1>2. ASSUME NEW to \in States,
               Row!Transition(t, to) \/ Row!TransitionUnacknowledged(t, to)
        PROVE  /\ state[u] \in {"completed", "refunded", "failed"} =>
                     state'[u] \in {"completed", "refunded", "failed"}
               /\ state[u] \in {"refunded", "failed"} => state'[u] = state[u]
    <2>1. /\ CanTransition(state[t], to)
          /\ state' = [state EXCEPT ![t] = to]
      BY <1>2 DEF Row!Transition, Row!TransitionUnacknowledged, Row!CanTransition,
         Row!transitions, CanTransition, transitions
    <2>2. state[t] = "completed" => to \in {"refunded", "failed"}
      BY <2>1 DEF CanTransition, transitions
    <2>3. state[t] \notin {"refunded", "failed"}
      BY <2>1 DEF CanTransition, transitions
    <2> QED BY <2>1, <2>2, <2>3
  <1>3. ASSUME NEW s \in States, Row!InitiateWrite(t, s)
        PROVE  state[t] = "initiated" /\ state' = [state EXCEPT ![t] = s]
    BY <1>3 DEF Row!InitiateWrite
  <1>4. CASE Row!InitiateWriteLost(t)
    BY <1>4 DEF Row!InitiateWriteLost
  <1>5. CASE Row!TimeOut({t})
    BY <1>5 DEF Row!TimeOut, Row!Open, Open
  <1> QED BY <1>1, <1>2, <1>3, <1>4, <1>5 DEF RowMoves

\* One more crash pays for every request there can be.
LEMMA CrashPays ==
    ASSUME NEW n \in Nat, NEW c \in Nat
    PROVE  n * (c + 1) = n * c + n
  BY SMT

\* Steps that move neither the money nor a request keep a row's bound.
LEMMA RefundBoundKeeps ==
    ASSUME TypeOK, RefundBoundInv, UNCHANGED <<admin, returned, crashes>>,
           failures' >= failures, failures' \in Nat,
           \A u \in Txns :
              /\ state[u] \in {"completed", "refunded", "failed"} =>
                    state'[u] \in {"completed", "refunded", "failed"}
              /\ state[u] \in {"refunded", "failed"} => state'[u] = state[u]
    PROVE  RefundBoundInv'
  <1> SUFFICES ASSUME NEW t \in Txns PROVE RefundBound(t)'
    BY DEF RefundBoundInv
  <1> DEFINE n == Cardinality(Admins) * crashes
             ask == Cardinality(Asking(t))
             hold == Cardinality(Holding(t))
             all == Cardinality(Admins)
  <1>0. crashes \in Nat /\ failures \in Nat /\ returned[t] \in Nat
    BY FulfillmentAssumption DEF TypeOK
  <1>1. ask \in Nat /\ hold \in Nat /\ all \in Nat /\ ask + hold <= all
    BY RefundSlots
  <1>2. n \in Nat
    BY <1>0, <1>1
  <1>3. /\ Asking(t)' = Asking(t) /\ Holding(t)' = Holding(t)
        /\ (Cardinality(Admins) * crashes)' = n
        /\ returned'[t] = returned[t]
    BY DEF Asking, Holding
  <1>4. RefundBound(t)
    BY DEF RefundBoundInv
  <1>5. returned[t] > 0 \/ (\E a \in Admins : admin[a].txn = t) =>
           state[t] \in {"completed", "refunded", "failed"}
    BY <1>4 DEF RefundBound
  <1>6. returned'[t] > 0 \/ (\E a \in Admins : admin'[a].txn = t) =>
           state'[t] \in {"completed", "refunded", "failed"}
    BY <1>3, <1>5
  <1>7. returned[t] <= n + failures + (IF state[t] = "completed" THEN hold ELSE all - ask)
    BY <1>4 DEF RefundBound
  <1> HIDE DEF n, ask, hold, all
  <1>8. returned[t] <= n + failures'
           + (IF state'[t] = "completed" THEN hold ELSE all - ask)
    <2>1. CASE state'[t] # "completed"
      BY <1>0, <1>1, <1>2, <1>7, <2>1
    <2>2. CASE state'[t] = "completed" /\ state[t] = "completed"
      BY <1>0, <1>1, <1>2, <1>7, <2>2
    <2>3. CASE state'[t] = "completed" /\ state[t] # "completed"
      <3>1. state[t] \notin {"completed", "refunded", "failed"}
        BY <2>3
      <3>2. ~(returned[t] > 0)
        BY <1>5, <3>1
      <3>3. returned[t] = 0
        BY <1>0, <3>2
      <3> QED BY <1>0, <1>1, <1>2, <3>3, <2>3
    <2> QED BY <2>1, <2>2, <2>3
  <1> QED BY <1>3, <1>6, <1>8 DEF RefundBound, n, ask, hold, all

\* A request's step moves it between the sets of its row, and leaves the
\* other rows' sets alone.
LEMMA RefundMoves ==
    ASSUME TypeOK, NEW a \in Admins, NEW r \in Request, admin' = [admin EXCEPT ![a] = r]
    PROVE  /\ \A u \in Txns : admin[a].txn # u /\ r.txn # u =>
                 Asking(u)' = Asking(u) /\ Holding(u)' = Holding(u)
           /\ \A u \in Txns :
                 /\ Asking(u)' = IF r.txn = u /\ r.pc = "read"
                                   THEN Asking(u) \cup {a} ELSE Asking(u) \ {a}
                 /\ Holding(u)' = IF r.txn = u /\ r.pc = "given_back"
                                    THEN Holding(u) \cup {a} ELSE Holding(u) \ {a}
  <1>1. admin'[a] = r /\ \A b \in Admins : b # a => admin'[b] = admin[b]
    BY DEF TypeOK
  <1>2. \A u \in Txns :
           /\ Asking(u)' = IF r.txn = u /\ r.pc = "read"
                             THEN Asking(u) \cup {a} ELSE Asking(u) \ {a}
           /\ Holding(u)' = IF r.txn = u /\ r.pc = "given_back"
                              THEN Holding(u) \cup {a} ELSE Holding(u) \ {a}
    BY <1>1 DEF Asking, Holding
  <1>3. \A u \in Txns : admin[a].txn # u => a \notin Asking(u) /\ a \notin Holding(u)
    BY DEF Asking, Holding
  <1> QED BY <1>2, <1>3

\* A request's steps: whatever it gives back, it holds, or a failure paid.
LEMMA RefundBoundAdmin ==
    ASSUME TypeOK, RefundBoundInv, NEW a \in Admins, RefundNext(a)
    PROVE  RefundBoundInv'
  <1> SUFFICES ASSUME NEW u \in Txns PROVE RefundBound(u)'
    BY DEF RefundBoundInv
  <1> DEFINE n == Cardinality(Admins) * crashes
             ask == Cardinality(Asking(u))
             hold == Cardinality(Holding(u))
             all == Cardinality(Admins)
             asks == Cardinality(Asking(u)')
             holds == Cardinality(Holding(u)')
             r == admin'[a]
             settled == {"completed", "refunded", "failed"}
  <1>0. /\ crashes \in Nat /\ failures \in Nat /\ returned[u] \in Nat
        /\ admin[a] \in Request /\ NoRefund \in Request
        /\ admin[a].pc # "idle" => admin[a].txn \in Txns
        /\ state[u] \in States \cup {"absent"}
    BY FulfillmentAssumption DEF TypeOK, Request, NoRefund
  <1>1. TypeOK'
    BY TypeStep DEF Next
  <1>2. /\ r \in Request /\ admin' = [admin EXCEPT ![a] = r]
        /\ \A b \in Admins : b # a => admin'[b] = admin[b]
        /\ crashes' = crashes
    <2>1. admin' \in [Admins -> Request]
      BY <1>1 DEF TypeOK
    <2>2. \A b \in Admins : b # a => admin'[b] = admin[b]
      BY DEF TypeOK, RefundNext, RefundRead, GatewayRefund, RefundTransition, RefundRollback
    <2>3. admin' = [admin EXCEPT ![a] = r]
      BY <2>1, <2>2 DEF TypeOK
    <2>4. crashes' = crashes
      BY DEF RefundNext, RefundRead, GatewayRefund, RefundTransition, RefundRollback,
         OneFailure, bounds
    <2> QED BY <2>1, <2>2, <2>3, <2>4
  <1>3. /\ ask \in Nat /\ hold \in Nat /\ all \in Nat /\ ask + hold <= all /\ n \in Nat
        /\ IsFiniteSet(Asking(u)) /\ IsFiniteSet(Holding(u))
    BY <1>0, RefundSlots
  <1>4. /\ asks \in Nat /\ holds \in Nat /\ asks + holds <= all
    <2>1. /\ Asking(u)' \in SUBSET Admins /\ Holding(u)' \in SUBSET Admins
          /\ Asking(u)' \intersect Holding(u)' = {}
      BY DEF Asking, Holding
    <2> QED BY <2>1, DisjointSlots
  <1>5. /\ Asking(u)' = IF r.txn = u /\ r.pc = "read"
                          THEN Asking(u) \cup {a} ELSE Asking(u) \ {a}
        /\ Holding(u)' = IF r.txn = u /\ r.pc = "given_back"
                           THEN Holding(u) \cup {a} ELSE Holding(u) \ {a}
    BY <1>2, RefundMoves
  <1>6. /\ a \in Asking(u) <=> admin[a].txn = u /\ admin[a].pc = "read"
        /\ a \in Holding(u) <=> admin[a].txn = u /\ admin[a].pc = "given_back"
    BY DEF Asking, Holding
  <1>7. /\ asks = ask - (IF a \in Asking(u) /\ ~(r.txn = u /\ r.pc = "read") THEN 1 ELSE 0)
                      + (IF a \notin Asking(u) /\ r.txn = u /\ r.pc = "read" THEN 1 ELSE 0)
        /\ holds = hold
              - (IF a \in Holding(u) /\ ~(r.txn = u /\ r.pc = "given_back") THEN 1 ELSE 0)
              + (IF a \notin Holding(u) /\ r.txn = u /\ r.pc = "given_back" THEN 1 ELSE 0)
    <2>1. \A s : IsFiniteSet(s) =>
             /\ Cardinality(s \cup {a}) = IF a \in s THEN Cardinality(s) ELSE Cardinality(s) + 1
             /\ Cardinality(s \ {a}) = IF a \in s THEN Cardinality(s) - 1 ELSE Cardinality(s)
      <3> SUFFICES ASSUME NEW s, IsFiniteSet(s)
                   PROVE  /\ Cardinality(s \cup {a}) =
                                 IF a \in s THEN Cardinality(s) ELSE Cardinality(s) + 1
                          /\ Cardinality(s \ {a}) =
                                 IF a \in s THEN Cardinality(s) - 1 ELSE Cardinality(s)
        OBVIOUS
      <3>1. Cardinality(s \cup {a}) = IF a \in s THEN Cardinality(s) ELSE Cardinality(s) + 1
        BY FS_AddElement
      <3>2. Cardinality(s \ {a}) = IF a \in s THEN Cardinality(s) - 1 ELSE Cardinality(s)
        BY FS_RemoveElement
      <3> QED BY <3>1, <3>2
    <2>2. asks = IF r.txn = u /\ r.pc = "read"
                   THEN (IF a \in Asking(u) THEN ask ELSE ask + 1)
                   ELSE (IF a \in Asking(u) THEN ask - 1 ELSE ask)
      BY <1>3, <1>5, <2>1
    <2>3. holds = IF r.txn = u /\ r.pc = "given_back"
                    THEN (IF a \in Holding(u) THEN hold ELSE hold + 1)
                    ELSE (IF a \in Holding(u) THEN hold - 1 ELSE hold)
      BY <1>3, <1>5, <2>1
    <2> HIDE DEF ask, hold, asks, holds
    <2> QED BY <1>3, <2>2, <2>3
  <1>8. /\ returned[u] > 0 \/ (\E b \in Admins : admin[b].txn = u) => state[u] \in settled
        /\ returned[u] <= n + failures + (IF state[u] = "completed" THEN hold ELSE all - ask)
    BY DEF RefundBoundInv, RefundBound
  <1>9. SUFFICES /\ returned'[u] > 0 \/ (\E b \in Admins : admin'[b].txn = u)
                       => state'[u] \in settled
                 /\ returned'[u] <= n + failures'
                       + (IF state'[u] = "completed" THEN holds ELSE all - asks)
    BY <1>2 DEF RefundBound
  <1> HIDE DEF n, ask, hold, all, asks, holds, r
  \* A step that changes neither the row, the money nor the failures.
  <1>10. ASSUME NEW t \in Txns, RefundRead(a, t)
         PROVE  /\ returned'[u] > 0 \/ (\E b \in Admins : admin'[b].txn = u)
                      => state'[u] \in settled
                /\ returned'[u] <= n + failures'
                      + (IF state'[u] = "completed" THEN holds ELSE all - asks)
    <2>1. /\ admin[a].pc = "idle" /\ state[t] = "completed" /\ r = [pc |-> "read", txn |-> t]
          /\ state' = state /\ returned' = returned /\ failures' = failures
      BY <1>10 DEF RefundRead, rowVars, refundVars, bounds, TypeOK, r
    <2>2. holds = hold /\ (u # t => asks = ask)
      BY <1>3, <1>4, <1>6, <1>7, <2>1
    <2>3. admin[a].txn = NoTxn \/ admin[a].txn # u
      BY <1>0, <2>1 DEF Request, NoRefund
    <2>4. (\E b \in Admins : admin'[b].txn = u) => u = t \/ \E b \in Admins : admin[b].txn = u
      BY <1>2, <2>1 DEF r
    <2> QED BY <1>0, <1>3, <1>4, <1>8, <2>1, <2>2, <2>4
  <1>11. CASE GatewayRefund(a)
    <2> DEFINE t == admin[a].txn
    <2>1. /\ admin[a].pc = "read" /\ t \in Txns /\ state' = state
          /\ failures' \in Nat /\ returned'[u] \in Nat
          /\ (r.txn = t /\ r.pc = "given_back") \/ r = NoRefund
          /\ r = NoRefund => r.txn = NoTxn /\ r.pc = "idle"
      BY <1>0, <1>1, <1>11, FulfillmentAssumption
      DEF GatewayRefund, TypeOK, rowVars, r, Request, NoRefund
    <2>2. \/ returned'[u] = returned[u] /\ failures' >= failures
          \/ u = t /\ returned'[u] = returned[u] + 1 /\ failures' = failures /\ r.pc = "given_back"
          \/ u = t /\ returned'[u] = returned[u] + 1 /\ failures' = failures + 1
      BY <1>0, <1>11, <2>1 DEF GatewayRefund, TypeOK, OneFailure, bounds, r, NoRefund
    <2>3. (\E b \in Admins : admin'[b].txn = u) => \E b \in Admins : admin[b].txn = u
      BY <1>2, <2>1, FulfillmentAssumption DEF r
    <2>4. u = t => state[u] \in settled
      BY <1>8
    <2>5. CASE u # t
      <3>1. holds = hold /\ asks = ask /\ returned'[u] = returned[u] /\ failures' >= failures
        BY <1>3, <1>4, <1>6, <1>7, <2>1, <2>2, <2>5, FulfillmentAssumption
      <3> QED BY <1>0, <1>3, <1>4, <1>8, <2>1, <2>3, <3>1
    <2>6. CASE u = t
      <3>1. /\ asks = ask - 1
            /\ holds = hold + (IF r.pc = "given_back" THEN 1 ELSE 0)
        BY <1>3, <1>4, <1>6, <1>7, <2>1, <2>6
      <3> QED BY <1>0, <1>3, <1>4, <1>8, <2>1, <2>2, <2>4, <2>6, <3>1
    <2> QED BY <2>5, <2>6
  <1>12. CASE RefundTransition(a)
    <2> DEFINE t == admin[a].txn
    <2>1. /\ admin[a].pc = "given_back" /\ t \in Txns /\ returned' = returned
          /\ failures' \in Nat
          /\ (r.txn = t /\ r.pc = "recorded") \/ r = NoRefund
          /\ r = NoRefund => r.txn = NoTxn /\ r.pc = "idle"
      BY <1>0, <1>1, <1>12, FulfillmentAssumption
      DEF RefundTransition, TypeOK, refundVars, r, Request, NoRefund
    <2>2. \/ /\ state[t] = "completed" /\ state' = [state EXCEPT ![t] = "refunded"]
             /\ failures' >= failures
          \/ state[t] # "completed" /\ state' = state /\ failures' = failures
          \/ state' = state /\ failures' = failures + 1
      BY <1>0, <1>12 DEF RefundTransition, TypeOK, OneFailure, bounds, TransitionOutcome,
         CanTransition, transitions
    <2>3. (\E b \in Admins : admin'[b].txn = u) => \E b \in Admins : admin[b].txn = u
      BY <1>2, <2>1, FulfillmentAssumption DEF r
    <2>4. asks = ask /\ holds = hold - (IF u = t THEN 1 ELSE 0)
      BY <1>3, <1>4, <1>6, <1>7, <2>1, FulfillmentAssumption
    <2>5. u # t => state'[u] = state[u]
      BY <2>1, <2>2 DEF TypeOK
    <2>6. u = t => state[u] \in settled /\ (state'[u] = state[u] \/ state'[u] = "refunded")
      BY <1>8, <2>1, <2>2 DEF TypeOK
    <2>7. failures' >= failures
      BY <1>0, <2>2
    <2>8. CASE u # t
      BY <1>0, <1>3, <1>4, <1>8, <2>1, <2>3, <2>4, <2>5, <2>7, <2>8
    <2>9. CASE u = t
      BY <1>0, <1>3, <1>4, <1>8, <2>1, <2>2, <2>4, <2>6, <2>7, <2>9 DEF TypeOK
    <2> QED BY <2>8, <2>9
  <1>13. CASE RefundRollback(a)
    <2>1. /\ admin[a].pc = "recorded" /\ r = NoRefund /\ admin[a].txn \in Txns
          /\ returned' = returned /\ state' = state /\ failures' \in Nat /\ failures' >= failures
          /\ r.txn = NoTxn /\ r.pc = "idle"
      BY <1>0, <1>1, <1>13 DEF RefundRollback, TypeOK, rowVars, refundVars, OneFailure,
         bounds, r, NoRefund
    <2>2. asks = ask /\ holds = hold
      BY <1>3, <1>4, <1>6, <1>7, <2>1
    <2>3. (\E b \in Admins : admin'[b].txn = u) => \E b \in Admins : admin[b].txn = u
      BY <1>2, <2>1, FulfillmentAssumption DEF r
    <2> QED BY <1>0, <1>3, <1>4, <1>8, <2>1, <2>2, <2>3
  <1> QED BY <1>10, <1>11, <1>12, <1>13 DEF RefundNext

\* Every step keeps the bound.
LEMMA RefundBoundStep ==
    ASSUME TypeOK, RefundBoundInv, [Next]_vars
    PROVE  RefundBoundInv'
  <1>0. crashes \in Nat /\ failures \in Nat
    BY FulfillmentAssumption DEF TypeOK
  <1>1. ASSUME NEW t \in Txns, RowMoves(t)
        PROVE  RefundBoundInv'
    <2>1. UNCHANGED <<admin, returned, crashes>> /\ failures' = failures
      BY <1>1 DEF RowMoves, refundVars, bounds
    <2> QED BY <1>0, <1>1, <2>1, RowStaysSettled, RefundBoundKeeps
  <1>2. ASSUME UNCHANGED <<admin, returned, crashes, state>>,
               failures' = failures \/ failures' = failures + 1
        PROVE  RefundBoundInv'
    BY <1>0, <1>2, RefundBoundKeeps
  <1>3. ASSUME NEW t \in Txns, StartFails(t) \/ SweepNext(t) \/ LockLost(t)
        PROVE  RefundBoundInv'
    BY <1>2, <1>3 DEF StartFails, OneFailure, SweepNext, SweepPick, SweepTrigger,
       WindowCloses, LockLost, rowVars, refundVars, bounds
  <1>4. ASSUME NEW j \in Jobs, JobNext(j)
        PROVE  RefundBoundInv'
    BY <1>2, <1>4 DEF JobNext, Start, Claim, ClaimFails, CheckMarker, Issue,
       IssueUnacknowledged, FulfillFails, Release, OneFailure, rowVars, refundVars, bounds
  <1>5. CASE Crash
    <2> SUFFICES ASSUME NEW t \in Txns PROVE RefundBound(t)'
      BY DEF RefundBoundInv
    <2> DEFINE n == Cardinality(Admins) * crashes
               all == Cardinality(Admins)
               rest == IF state[t] = "completed" THEN Cardinality(Holding(t))
                       ELSE all - Cardinality(Asking(t))
    <2>1. /\ crashes' = crashes + 1 /\ UNCHANGED <<state, returned, failures>>
          /\ \A a \in Admins : admin'[a] = NoRefund
      BY <1>5 DEF Crash, Row!Restart, refundVars
    <2>2. Asking(t)' = {} /\ Holding(t)' = {} /\ Cardinality({}) = 0
      BY <2>1, FS_EmptySet DEF Asking, Holding, NoRefund
    <2>3. /\ all \in Nat /\ n \in Nat /\ rest \in Nat /\ rest <= all
          /\ returned[t] \in Nat
      BY <1>0, RefundSlots DEF TypeOK
    <2>4. all * crashes' = n + all
      BY <1>0, <2>1, <2>3, CrashPays
    <2>5. /\ returned[t] > 0 => state[t] \in {"completed", "refunded", "failed"}
          /\ returned[t] <= n + failures + rest
      BY DEF RefundBoundInv, RefundBound
    <2> HIDE DEF n, all, rest
    <2>6. returned[t] <= (n + all) + failures + 0 /\ returned[t] <= (n + all) + failures + all
      BY <1>0, <2>3, <2>5
    <2>7. ~(\E a \in Admins : admin'[a].txn = t)
      BY <2>1, FulfillmentAssumption DEF NoRefund
    <2>8. /\ Cardinality(Holding(t)') = 0 /\ Cardinality(Asking(t)') = 0
          /\ Cardinality(Admins) = all /\ all - 0 = all
      BY <2>2, <2>3 DEF all
    <2> QED BY <2>1, <2>4, <2>5, <2>6, <2>7, <2>8 DEF RefundBound
  <1>6. ASSUME NEW a \in Admins, RefundNext(a)
        PROVE  RefundBoundInv'
    BY <1>6, RefundBoundAdmin
  <1>7. CASE UNCHANGED vars
    BY <1>2, <1>7 DEF vars, rowVars, refundVars, bounds
  <1> QED BY <1>1, <1>3, <1>4, <1>5, <1>6, <1>7 DEF Next

\* No money has gone back at first.
LEMMA RefundBoundInit == Init => RefundBoundInv
  <1> SUFFICES ASSUME Init, NEW t \in Txns PROVE RefundBound(t)
    BY DEF RefundBoundInv
  <1>1. /\ returned[t] = 0 /\ crashes = 0 /\ failures = 0 /\ state[t] = "absent"
        /\ \A a \in Admins : admin[a] = NoRefund
    BY DEF Init, Row!Init
  <1>2. /\ Cardinality(Admins) \in Nat /\ Cardinality(Asking(t)) \in Nat
        /\ Cardinality(Asking(t)) <= Cardinality(Admins)
    <2>1. Asking(t) = {}
      BY <1>1 DEF Asking, NoRefund
    <2> QED BY <2>1, FS_EmptySet, FS_CardinalityType, FulfillmentAssumption
  <1>3. ~(\E a \in Admins : admin[a].txn = t)
    BY <1>1, FulfillmentAssumption DEF NoRefund
  <1>4. Cardinality(Admins) * 0 = 0
    BY <1>2
  <1> QED BY <1>1, <1>2, <1>3, <1>4 DEF RefundBound

\* The money of a payment goes back more than once only through requests that
\* overlap or crash and through failures: for any number of administrators,
\* and whatever a gateway answers to a second refund.
THEOREM RefundsExplained == Spec => []RefundsAreExplained
  <1>1. TypeOK /\ RefundBoundInv => RefundsAreExplained
    <2> SUFFICES ASSUME TypeOK, RefundBoundInv, NEW t \in Txns
                 PROVE  returned[t] <= Cardinality(Admins) * (1 + crashes) + failures
      BY DEF RefundsAreExplained
    <2> DEFINE n == Cardinality(Admins) * crashes
               all == Cardinality(Admins)
    <2>1. /\ crashes \in Nat /\ failures \in Nat /\ returned[t] \in Nat
          /\ all \in Nat /\ n \in Nat
          /\ Cardinality(Asking(t)) \in Nat /\ Cardinality(Holding(t)) \in Nat
          /\ Cardinality(Asking(t)) + Cardinality(Holding(t)) <= all
      BY FulfillmentAssumption, RefundSlots DEF TypeOK
    <2>2. all * (crashes + 1) = n + all /\ 1 + crashes = crashes + 1
      BY <2>1, CrashPays
    <2>3. returned[t] <= n + failures
            + (IF state[t] = "completed" THEN Cardinality(Holding(t))
               ELSE all - Cardinality(Asking(t)))
      BY DEF RefundBoundInv, RefundBound
    <2> HIDE DEF n, all
    <2>4. returned[t] <= (n + all) + failures
      BY <2>1, <2>3
    <2>5. all * (1 + crashes) = n + all
      BY <2>2
    <2> QED BY <2>4, <2>5 DEF all
  <1>2. TypeOK /\ RefundBoundInv /\ [Next]_vars => RefundBoundInv'
    BY RefundBoundStep
  <1> QED BY <1>1, <1>2, RefundBoundInit, TypeCorrect, PTL DEF Spec
-----------------------------------------------------------------------------
(* What a dropped claim connection can cost.                               *)

\* Steps that drop no claim and issue nothing keep a row's bound.
LEMMA BoundKeeps ==
    ASSUME TypeOK, NEW t \in Txns, StrayBound(t), Strays(t)' \subseteq Strays(t),
           HolderIssues(t)' => HolderIssues(t) \/ ~pin[t],
           lockLosses' = lockLosses, pin'[t] = pin[t], issued'[t] = issued[t]
    PROVE  StrayBound(t)'
  <1>1. /\ IsFiniteSet(Strays(t)')
        /\ Cardinality(Strays(t)') <= Cardinality(Strays(t))
    BY FS_Subset DEF StrayBound
  <1>2. Cardinality(Strays(t)') \in Nat /\ Cardinality(Strays(t)) \in Nat
    BY <1>1, FS_CardinalityType DEF StrayBound
  <1>3. lockLosses \in Nat /\ issued[t] \in Nat
    BY FulfillmentAssumption DEF TypeOK
  <1> QED BY <1>1, <1>2, <1>3 DEF StrayBound

\* An issue is paid from the issuer's own share of the bound.
LEMMA BoundIssues ==
    ASSUME TypeOK, StrayInv, NEW j \in Jobs, NEW p \in {"done", "failed"},
           job[j].pc = "issuing", Commit(job[j].txn),
           job' = [job EXCEPT ![j].pc = p], UNCHANGED <<lock, lockLosses>>
    PROVE  StrayInv'
  <1> DEFINE u == job[j].txn
  <1>0. \A i \in Jobs : job[i] \in Work /\ (job[i].pc # "idle" => job[i].txn \in Txns)
    BY WorkType DEF TypeOK
  <1>1. /\ u \in Txns /\ job'[j].txn = u /\ job'[j].pc = p
        /\ \A i \in Jobs : i # j => job'[i] = job[i]
    BY <1>0 DEF Work, NoWork, TypeOK
  <1>2. /\ pin'[u] /\ issued'[u] = issued[u] + 1
        /\ \A t \in Txns : t # u => pin'[t] = pin[t] /\ issued'[t] = issued[t]
    BY <1>1 DEF Commit, TypeOK
  <1>3. \A t \in Txns : Strays(t)' = Strays(t) \ {j}
    BY <1>1 DEF Strays
  <1>4. \A t \in Txns, i \in Jobs : lock'[t] = i =>
           job'[i].txn = t /\ job'[i].pc \in {"claimed", "issuing", "done", "failed"}
    BY <1>1 DEF StrayInv
  <1>5. ASSUME NEW t \in Txns, t # u
        PROVE  StrayBound(t)'
    <2>1. HolderIssues(t)' => HolderIssues(t)
      BY <1>1 DEF HolderIssues
    <2> QED BY <1>2, <1>3, <1>5, <2>1, BoundKeeps DEF StrayInv
  <1>6. StrayBound(u)'
    <2> DEFINE n == Cardinality(Strays(u))
               m == Cardinality(Strays(u)')
    <2>0. StrayBound(u) /\ IsFiniteSet(Strays(u))
      BY <1>1 DEF StrayInv, StrayBound
    <2>1. IsFiniteSet(Strays(u)') /\ n \in Nat /\ m \in Nat
      <3>1. IsFiniteSet(Strays(u)')
        BY <1>1, <1>3, <2>0, FS_RemoveElement
      <3> QED BY <2>0, <3>1, FS_CardinalityType
    <2>2. lockLosses \in Nat /\ issued[u] \in Nat
      BY <1>1, FulfillmentAssumption DEF TypeOK
    <2>3. CASE lock[u] = j
      <3>1. HolderIssues(u) /\ ~HolderIssues(u)'
        <4>1. HolderIssues(u)
          BY <2>3 DEF HolderIssues
        <4>2. ASSUME NEW i \in Jobs, lock'[u] = i, job'[i].pc = "issuing"
              PROVE  FALSE
          BY <1>1, <2>3, <4>2
        <4> QED BY <4>1, <4>2 DEF HolderIssues
      <3>2. Strays(u)' = Strays(u)
        BY <1>3, <1>1, <2>3 DEF Strays
      <3>3. m = n
        BY <3>2
      <3> QED BY <1>2, <2>0, <2>1, <2>2, <3>1, <3>3 DEF StrayBound
    <2>4. CASE lock[u] # j
      <3>1. j \in Strays(u)
        BY <2>4 DEF Strays
      <3>2. m = n - 1
        BY <1>1, <1>3, <2>0, <3>1, FS_RemoveElement
      <3>3. HolderIssues(u)' => HolderIssues(u)
        BY <1>1, <2>4 DEF HolderIssues
      <3> QED BY <1>2, <2>0, <2>1, <2>2, <3>2, <3>3 DEF StrayBound
    <2> QED BY <2>3, <2>4
  <1> QED BY <1>4, <1>5, <1>6 DEF StrayInv

\* A goroutine's steps keep the bounds.
LEMMA StrayJob ==
    ASSUME TypeOK, StrayInv, NEW j \in Jobs, JobNext(j)
    PROVE  StrayInv'
  <1> USE FulfillmentAssumption
  <1>0. \A i \in Jobs : job[i] \in Work /\ (job[i].pc # "idle" => job[i].txn \in Txns)
    BY WorkType DEF TypeOK
  \* A step that issues nothing, moves nobody into the claim but its new
  \* holder, and nobody to the issue but before the marker is set.
  <1>1. ASSUME UNCHANGED <<pin, issued, lockLosses>>,
               \A i \in Jobs : i # j => job'[i] = job[i],
               \A t \in Txns, i \in Jobs : i # j => (lock'[t] = i <=> lock[t] = i),
               \A t \in Txns : lock'[t] = j =>
                  job'[j].txn = t /\ job'[j].pc \in {"claimed", "issuing", "done", "failed"},
               \A t \in Txns : j \in Strays(t)' => j \in Strays(t),
               job'[j].pc = "issuing" => job[j].pc = "claimed" /\ ~pin[job[j].txn]
                                         /\ UNCHANGED lock
        PROVE  StrayInv'
    <2>1. ASSUME NEW t \in Txns PROVE Strays(t)' \subseteq Strays(t)
      <3>1. ASSUME NEW i \in Jobs, i # j, i \in Strays(t)'
            PROVE  i \in Strays(t)
        BY <1>1, <3>1 DEF Strays
      <3> QED BY <1>1, <3>1 DEF Strays
    <2>2. ASSUME NEW t \in Txns, HolderIssues(t)'
          PROVE  HolderIssues(t) \/ ~pin[t]
      <3>1. PICK i \in Jobs : lock'[t] = i /\ job'[i].pc = "issuing"
        BY <2>2 DEF HolderIssues
      <3>2. CASE i # j
        BY <1>1, <3>1, <3>2 DEF HolderIssues
      <3>3. CASE i = j
        BY <1>1, <3>1, <3>3 DEF StrayInv
      <3> QED BY <3>2, <3>3
    <2>3. \A t \in Txns : StrayBound(t)'
      BY <1>1, <2>1, <2>2, BoundKeeps DEF StrayInv
    <2>4. \A t \in Txns, i \in Jobs : lock'[t] = i =>
             job'[i].txn = t /\ job'[i].pc \in {"claimed", "issuing", "done", "failed"}
      BY <1>1 DEF StrayInv
    <2> QED BY <2>3, <2>4 DEF StrayInv
  \* The goroutine is not the holder of any row before its claim.
  <1>2. ASSUME job[j].pc \in {"idle", "claiming"}, NEW t \in Txns
        PROVE  lock[t] # j
    BY <1>2 DEF StrayInv
  \* Nor a stray, once it is past its claim.
  <1>3. ASSUME job'[j].pc \notin {"claimed", "issuing"}, NEW t \in Txns
        PROVE  j \notin Strays(t)'
    BY <1>3 DEF Strays
  <1>4. ASSUME NEW t \in Txns, Start(j, t)
        PROVE  StrayInv'
    <2>1. /\ job' = [job EXCEPT ![j] = [pc |-> "claiming", txn |-> t, attempt |-> 1]]
          /\ job[j].pc = "idle" /\ UNCHANGED <<pin, issued, lockLosses, lock>>
      BY <1>4 DEF Start, grantVars, bounds
    <2>2. job'[j].pc = "claiming" /\ \A i \in Jobs : i # j => job'[i] = job[i]
      BY <2>1 DEF TypeOK
    <2> QED BY <1>1, <1>2, <1>3, <2>1, <2>2
  <1>5. CASE Claim(j)
    <2>1. /\ job[j].pc = "claiming" /\ lock[job[j].txn] = NoJob
          /\ lock' = [lock EXCEPT ![job[j].txn] = j] /\ job[j].txn \in Txns
          /\ UNCHANGED <<pin, issued, lockLosses>>
      BY <1>0, <1>5 DEF Claim, grantVars, bounds
    <2>2. /\ job'[j].pc = "claimed" /\ job'[j].txn = job[j].txn
          /\ \A i \in Jobs : i # j => job'[i] = job[i]
      BY <1>0, <1>5, <2>1 DEF Claim, TypeOK, Work, NoWork
    <2>3. \A t \in Txns, i \in Jobs : i # j => (lock'[t] = i <=> lock[t] = i)
      BY <2>1 DEF TypeOK
    <2>4. \A t \in Txns : lock'[t] = j => t = job[j].txn
      BY <1>2, <2>1 DEF TypeOK
    <2>5. \A t \in Txns : j \notin Strays(t)'
      BY <2>1, <2>2 DEF Strays, TypeOK
    <2> QED BY <1>1, <2>1, <2>2, <2>3, <2>4, <2>5
  <1>6. CASE ClaimFails(j)
    <2>1. /\ job[j].pc = "claiming" /\ job' = [job EXCEPT ![j] = NextAttempt(job[j])]
          /\ UNCHANGED <<pin, issued, lockLosses, lock>>
      BY <1>6 DEF ClaimFails, OneFailure, grantVars, bounds
    <2>2. job'[j].pc \in {"idle", "claiming"} /\ \A i \in Jobs : i # j => job'[i] = job[i]
      BY <1>0, <2>1 DEF NextAttempt, NoWork, TypeOK, Work
    <2> QED BY <1>1, <1>2, <1>3, <2>1, <2>2
  \* A step past the claim that keeps the locks.
  <1>7. ASSUME NEW p \in {"issuing", "done", "failed"}, job' = [job EXCEPT ![j].pc = p],
               job[j].pc \in {"claimed", "issuing"}, UNCHANGED <<pin, issued, lockLosses, lock>>,
               p = "issuing" => job[j].pc = "claimed" /\ ~pin[job[j].txn]
        PROVE  StrayInv'
    <2>1. /\ job'[j].pc = p /\ job'[j].txn = job[j].txn
          /\ \A i \in Jobs : i # j => job'[i] = job[i]
      BY <1>0, <1>7 DEF TypeOK, Work, NoWork
    <2>2. \A t \in Txns : lock'[t] = j => job'[j].txn = t
      BY <1>7, <2>1 DEF StrayInv
    <2>3. \A t \in Txns : j \in Strays(t)' => j \in Strays(t)
      BY <1>7, <2>1 DEF Strays
    <2> QED BY <1>1, <1>7, <2>1, <2>2, <2>3
  <1>8. CASE CheckMarker(j)
    <2>1. PICK p \in {"issuing", "done"} :
             /\ job' = [job EXCEPT ![j].pc = p]
             /\ p = "issuing" => ~pin[job[j].txn]
      BY <1>8 DEF CheckMarker
    <2> QED BY <1>7, <1>8, <2>1 DEF CheckMarker, grantVars, bounds
  <1>9. CASE Issue(j)
    BY <1>9, BoundIssues DEF Issue, bounds
  <1>10. CASE IssueUnacknowledged(j)
    BY <1>10, BoundIssues DEF IssueUnacknowledged, OneFailure
  <1>11. CASE FulfillFails(j)
    BY <1>7, <1>11 DEF FulfillFails, OneFailure, grantVars
  <1>12. CASE Release(j)
    <2>1. /\ job[j].pc \in {"done", "failed"} /\ job[j].txn \in Txns
          /\ lock' = [lock EXCEPT ![job[j].txn] = IF lock[job[j].txn] = j THEN NoJob
                                                  ELSE lock[job[j].txn]]
          /\ job' = [job EXCEPT ![j] = IF job[j].pc = "done" THEN NoWork
                                       ELSE NextAttempt(job[j])]
          /\ UNCHANGED <<pin, issued, lockLosses>>
      BY <1>0, <1>12 DEF Release, grantVars, bounds
    <2>2. job'[j].pc \in {"idle", "claiming"} /\ \A i \in Jobs : i # j => job'[i] = job[i]
      BY <1>0, <2>1 DEF NextAttempt, NoWork, TypeOK, Work
    <2>3. \A t \in Txns : lock'[t] # j
      BY <2>1 DEF StrayInv, TypeOK
    <2>4. \A t \in Txns, i \in Jobs : i # j => (lock'[t] = i <=> lock[t] = i)
      BY <2>1 DEF TypeOK
    <2> QED BY <1>1, <1>3, <2>1, <2>2, <2>3, <2>4
  <1> QED BY <1>4, <1>5, <1>6, <1>8, <1>9, <1>10, <1>11, <1>12 DEF JobNext

\* A dropped connection makes at most its holder a stray, and is counted.
LEMMA StrayLost ==
    ASSUME TypeOK, StrayInv, NEW u \in Txns, LockLost(u)
    PROVE  StrayInv'
  <1>1. PICK h \in Jobs : lock[u] = h
    BY DEF LockLost, TypeOK
  <1>2. /\ lock' = [lock EXCEPT ![u] = NoJob] /\ lockLosses' = lockLosses + 1
        /\ UNCHANGED <<job, pin, issued>>
    BY DEF LockLost, grantVars
  <1>3. /\ lock'[u] = NoJob /\ NoJob \notin Jobs
        /\ \A t \in Txns : t # u => lock'[t] = lock[t]
    BY <1>2, FulfillmentAssumption DEF TypeOK
  <1>4. lockLosses \in Nat /\ \A t \in Txns : issued[t] \in Nat
    BY FulfillmentAssumption DEF TypeOK
  <1>5. ASSUME NEW t \in Txns, t # u
        PROVE  StrayBound(t)'
    <2>1. Strays(t)' = Strays(t) /\ (HolderIssues(t)' <=> HolderIssues(t))
      BY <1>2, <1>3, <1>5 DEF Strays, HolderIssues
    <2>2. StrayBound(t) /\ Cardinality(Strays(t)) \in Nat
      BY FS_CardinalityType DEF StrayInv, StrayBound
    <2> QED BY <1>2, <1>4, <2>1, <2>2 DEF StrayBound
  <1>6. StrayBound(u)'
    <2>1. Strays(u)' \subseteq Strays(u) \cup {h}
      BY <1>1, <1>2, <1>3 DEF Strays
    <2>2. StrayBound(u) /\ Cardinality(Strays(u)) \in Nat
      BY FS_CardinalityType DEF StrayInv, StrayBound
    <2>3. /\ IsFiniteSet(Strays(u) \cup {h})
          /\ Cardinality(Strays(u) \cup {h}) \in Nat
          /\ Cardinality(Strays(u) \cup {h}) <= Cardinality(Strays(u)) + 1
      <3>1. IsFiniteSet(Strays(u))
        BY <2>2 DEF StrayBound
      <3>2. /\ IsFiniteSet(Strays(u) \cup {h})
            /\ \/ Cardinality(Strays(u) \cup {h}) = Cardinality(Strays(u))
               \/ Cardinality(Strays(u) \cup {h}) = Cardinality(Strays(u)) + 1
        BY <3>1, FS_AddElement
      <3> QED BY <2>2, <3>2
    <2>4. /\ IsFiniteSet(Strays(u)') /\ Cardinality(Strays(u)') \in Nat
          /\ Cardinality(Strays(u)') <= Cardinality(Strays(u) \cup {h})
      BY <2>1, <2>3, FS_Subset, FS_CardinalityType
    <2>5. ~HolderIssues(u)'
      BY <1>3 DEF HolderIssues
    <2>6. pin'[u] = pin[u] /\ issued'[u] = issued[u] /\ issued[u] \in Nat
      BY <1>2, <1>4
    <2> QED BY <1>2, <1>4, <2>2, <2>3, <2>4, <2>5, <2>6 DEF StrayBound
  <1>7. \A t \in Txns, i \in Jobs : lock'[t] = i =>
           job'[i].txn = t /\ job'[i].pc \in {"claimed", "issuing", "done", "failed"}
    BY <1>2, <1>3 DEF StrayInv
  <1> QED BY <1>5, <1>6, <1>7 DEF StrayInv

\* Every step keeps the bounds.
LEMMA StrayStep ==
    ASSUME TypeOK, StrayInv, [Next]_vars
    PROVE  StrayInv'
  <1>1. ASSUME UNCHANGED <<pin, issued, lock, job, lockLosses>>
        PROVE  StrayInv'
    BY <1>1 DEF StrayInv, StrayBound, Strays, HolderIssues
  <1>2. ASSUME NEW t \in Txns, RowMoves(t) \/ StartFails(t) \/ SweepNext(t)
        PROVE  UNCHANGED <<pin, issued, lock, job, lockLosses>>
    BY <1>2 DEF RowMoves, StartFails, OneFailure, SweepNext, SweepPick, SweepTrigger,
       WindowCloses, grantVars, bounds
  <1>3. ASSUME NEW a \in Admins, RefundNext(a)
        PROVE  UNCHANGED <<pin, issued, lock, job, lockLosses>>
    BY <1>3 DEF RefundNext, RefundRead, GatewayRefund, RefundTransition,
       RefundRollback, OneFailure, grantVars, bounds
  <1>4. CASE Crash
    <2>1. /\ UNCHANGED <<pin, issued, lockLosses>>
          /\ \A t \in Txns : lock'[t] = NoJob
          /\ \A j \in Jobs : job'[j] = NoWork
      BY <1>4 DEF Crash, grantVars
    <2>2. NoJob \notin Jobs /\ lockLosses \in Nat /\ \A t \in Txns : issued[t] \in Nat
      BY FulfillmentAssumption DEF TypeOK
    <2>3. ASSUME NEW t \in Txns
          PROVE  StrayBound(t)'
      <3>1. Strays(t)' = {} /\ ~HolderIssues(t)'
        BY <2>1, <2>2 DEF Strays, HolderIssues, NoWork
      <3>2. IsFiniteSet(Strays(t)') /\ Cardinality(Strays(t)') = 0
        BY <3>1, FS_EmptySet
      <3>3. StrayBound(t) /\ Cardinality(Strays(t)) \in Nat
        BY FS_CardinalityType DEF StrayInv, StrayBound
      <3> QED BY <2>1, <2>2, <3>1, <3>2, <3>3 DEF StrayBound
    <2> QED BY <2>1, <2>2, <2>3 DEF StrayInv
  <1>5. UNCHANGED vars => UNCHANGED <<pin, issued, lock, job, lockLosses>>
    BY DEF vars, grantVars, bounds
  <1> QED BY <1>1, <1>2, <1>3, <1>4, <1>5, StrayJob, StrayLost DEF Next

\* Nothing is claimed at first.
LEMMA StrayInit == Init => StrayInv
  <1> SUFFICES ASSUME Init PROVE StrayInv
    OBVIOUS
  <1>1. \A t \in Txns : Strays(t) = {}
    BY DEF Init, Strays, NoWork
  <1>2. /\ \A t \in Txns : lock[t] = NoJob /\ issued[t] = 0 /\ ~pin[t]
        /\ lockLosses = 0 /\ NoJob \notin Jobs
    BY FulfillmentAssumption DEF Init
  <1>3. \A t \in Txns : IsFiniteSet(Strays(t)) /\ Cardinality(Strays(t)) = 0
    BY <1>1, FS_EmptySet
  <1> QED BY <1>2, <1>3 DEF StrayInv, StrayBound

\* GET_LOCK lives on a connection of its own, and its owner does not notice
\* when it is dropped: each such loss costs at most one voucher more, so that
\* a payment never has more than one plus the connections lost since.
THEOREM LostClaimsCostOneEach ==
    Spec => [](\A t \in Txns : issued[t] <= 1 + lockLosses)
  <1>1. TypeOK /\ StrayInv => \A t \in Txns : issued[t] <= 1 + lockLosses
    <2> SUFFICES ASSUME TypeOK, StrayInv, NEW t \in Txns
                 PROVE  issued[t] <= 1 + lockLosses
      OBVIOUS
    <2>1. StrayBound(t) /\ Cardinality(Strays(t)) \in Nat
      BY FS_CardinalityType DEF StrayInv, StrayBound
    <2>2. lockLosses \in Nat /\ issued[t] \in Nat
      BY FulfillmentAssumption DEF TypeOK
    <2> QED BY <2>1, <2>2 DEF StrayBound
  <1>2. TypeOK /\ StrayInv /\ [Next]_vars => StrayInv'
    BY StrayStep
  <1> QED BY <1>1, <1>2, StrayInit, TypeCorrect, PTL DEF Spec
=============================================================================
