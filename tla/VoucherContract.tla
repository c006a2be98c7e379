-------------------------- MODULE VoucherContract --------------------------
(***************************************************************************)
(* What a payer and the operator are promised, whoever retries, crashes or *)
(* races: what is granted was paid, it is granted once, money goes back    *)
(* only for what was granted, and access ends only after the gateway       *)
(* acknowledged a refund.  That the money goes back once, or at all when a *)
(* refund is acknowledged, is not promised.                                *)
(* Fulfillment implements it.                                              *)
(***************************************************************************)
EXTENDS Naturals

CONSTANT Txns

VARIABLES
    paid,      \* transactions whose money a gateway captured
    granted,   \* transactions whose voucher or subscription was issued
    returned,  \* how often the money of each transaction went back through Refund
    acknowledged, \* transactions of which a gateway answered a refund with success
    access     \* transactions whose grant opens the network now

contractVars == <<paid, granted, returned, acknowledged, access>>

Init ==
    /\ paid = {} /\ granted = {} /\ acknowledged = {} /\ access = {}
    /\ returned = [t \in Txns |-> 0]

Pay(t) ==
    /\ paid' = paid \cup {t}
    /\ UNCHANGED <<granted, returned, acknowledged, access>>

Grant(t) ==
    /\ t \in paid \ granted
    /\ granted' = granted \cup {t}
    /\ access' = access \cup {t}
    /\ UNCHANGED <<paid, returned, acknowledged>>

\* A refund: the money goes back, the gateway says so, or both.
Refund(t) ==
    /\ t \in granted
    /\ returned' \in {returned, [returned EXCEPT ![t] = @ + 1]}
    /\ acknowledged' \in {acknowledged, acknowledged \cup {t}}
    /\ UNCHANGED <<paid, granted, access>>

Revoke(t) ==
    /\ t \in acknowledged \cap access
    /\ access' = access \ {t}
    /\ UNCHANGED <<paid, granted, returned, acknowledged>>

Next == \E t \in Txns : Pay(t) \/ Grant(t) \/ Refund(t) \/ Revoke(t)

Spec == Init /\ [][Next]_contractVars
=============================================================================
