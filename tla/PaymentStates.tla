--------------------------- MODULE PaymentStates ---------------------------
(***************************************************************************)
(* The payment state machine of internal/payments/statemachine.go: its     *)
(* states, which of them it calls terminal, and its transition table.      *)
(***************************************************************************)

States ==
    {"initiated", "pending", "completed", "failed", "cancelled", "refunded"}

\* The states from which, says the code, no further transition is allowed.
Terminal == {"completed", "failed", "cancelled", "refunded"}

\* The states the poller still asks the gateway about.
Open == {"initiated", "pending"}

\* NewStateMachine: current state |-> allowed next states.
transitions ==
    [initiated |-> {"pending", "completed", "failed", "cancelled"},
     pending   |-> {"completed", "failed", "cancelled"},
     completed |-> {"refunded", "failed"},
     failed    |-> {},
     cancelled |-> {},
     refunded  |-> {}]

CanTransition(from, to) == to \in transitions[from]

\* Mutant: the locked row's state is not compared with `from`.
TransitionOutcomeUnlocked(current, from, to) ==
    IF from = to THEN "noop" ELSE IF ~CanTransition(from, to) THEN "error" ELSE "changed"

(***************************************************************************)
(* What StateMachine.Transition answers a caller that read state `from`    *)
(* and wants `to`, when the locked row is found in state `current`:        *)
(* "changed" (the row is updated), "noop" or "error".                      *)
(***************************************************************************)
TransitionOutcome(current, from, to) ==
    IF from = to THEN "noop"
    ELSE IF ~CanTransition(from, to) THEN "error"
    ELSE IF current = to THEN "noop"
    ELSE IF current # from THEN "error"
    ELSE "changed"
=============================================================================
