----------------------------- MODULE PaymentRow -----------------------------
(***************************************************************************)
(* The abstract specification of a payment transaction's row: what the     *)
(* rest of the service relies on, whoever moves the row.  A row is         *)
(* inserted as `initiated`; afterwards it moves only along the state       *)
(* machine's table, each move to `completed` stamps completed_at, and      *)
(* spawns exactly one fulfillment goroutine unless the answer of its       *)
(* COMMIT is lost.  The one writer outside the state machine is Initiate,  *)
(* which may write any result over `initiated` and nothing else, and which *)
(* neither stamps completed_at nor, when its UPDATE is lost, changes the   *)
(* row it spawns a fulfillment for.                                        *)
(*                                                                         *)
(* PaymentLifecycle implements it for gateways whose webhooks are matched  *)
(* by reference only; Fulfillment runs on top of it.                       *)
(***************************************************************************)
EXTENDS PaymentStates, Naturals

CONSTANT Txns

VARIABLES
    state,        \* state[t]: payments_paymenttransaction.state, or "absent"
    completedAt,  \* completedAt[t]: completed_at is not NULL
    triggers      \* triggers[t]: triggerFulfillment goroutines spawned and not started

rowVars == <<state, completedAt, triggers>>

RowTypeOK ==
    /\ state \in [Txns -> States \cup {"absent"}]
    /\ completedAt \in [Txns -> BOOLEAN]
    /\ triggers \in [Txns -> Nat]

Init ==
    /\ state = [t \in Txns |-> "absent"]
    /\ completedAt = [t \in Txns |-> FALSE]
    /\ triggers = [t \in Txns |-> 0]

\* INSERT by Initiate.
Insert(t) ==
    /\ state[t] = "absent"
    /\ state' = [state EXCEPT ![t] = "initiated"]
    /\ UNCHANGED <<completedAt, triggers>>

\* applyTransition that changes the row, and the goroutine its caller spawns.
Transition(t, to) ==
    /\ state[t] # "absent"
    /\ CanTransition(state[t], to)
    /\ state' = [state EXCEPT ![t] = to]
    /\ completedAt' = [completedAt EXCEPT ![t] = @ \/ to = "completed"]
    /\ triggers' = [triggers EXCEPT ![t] = IF to = "completed" THEN @ + 1 ELSE @]

\* The same, when COMMIT takes effect and its answer is lost: the caller sees
\* an error and spawns nothing.
TransitionUnacknowledged(t, to) ==
    /\ state[t] # "absent"
    /\ CanTransition(state[t], to)
    /\ state' = [state EXCEPT ![t] = to]
    /\ completedAt' = [completedAt EXCEPT ![t] = @ \/ to = "completed"]
    /\ UNCHANGED triggers

\* timeoutOldTransactions: one UPDATE over the rows ts.
TimeOut(ts) ==
    /\ ts \subseteq {t \in Txns : state[t] \in Open}
    /\ state' = [t \in Txns |-> IF t \in ts THEN "failed" ELSE state[t]]
    /\ UNCHANGED <<completedAt, triggers>>

\* Initiate's UPDATE after the gateway answered.
InitiateWrite(t, s) ==
    /\ state[t] = "initiated"
    /\ state' = [state EXCEPT ![t] = s]
    /\ triggers' = [triggers EXCEPT ![t] = IF s = "completed" THEN @ + 1 ELSE @]
    /\ UNCHANGED completedAt

\* That UPDATE lost after a synchronous completion: the row stays as it was.
InitiateWriteLost(t) ==
    /\ state[t] = "initiated"
    /\ triggers' = [triggers EXCEPT ![t] = @ + 1]
    /\ UNCHANGED <<state, completedAt>>

\* The process dies: spawned goroutines are gone, rows stay.
Restart ==
    /\ triggers' = [t \in Txns |-> 0]
    /\ UNCHANGED <<state, completedAt>>

Next ==
    \/ \E t \in Txns :
          \/ Insert(t)
          \/ \E to \in States : Transition(t, to) \/ TransitionUnacknowledged(t, to)
          \/ \E s \in States : InitiateWrite(t, s)
          \/ InitiateWriteLost(t)
    \/ \E ts \in SUBSET Txns : TimeOut(ts)
    \/ Restart

Spec == Init /\ [][Next]_rowVars
=============================================================================
