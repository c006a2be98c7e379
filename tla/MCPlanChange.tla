---------------------------- MODULE MCPlanChange ----------------------------
(***************************************************************************)
(* PlanChange on small instances, configured by plan_change.cfg: a cheap   *)
(* plan for 4 days and a dear one for 3.  A subscription bought with the   *)
(* dear plan, changed down and up again pays 59, or 29 (which is lossy),   *)
(* of the difference; one bought with the cheap plan is quoted by 4 days   *)
(* and charged by 3.                                                       *)
(***************************************************************************)
EXTENDS PlanChange, TLC

CONSTANTS p1, p2

Prices == (p1 :> 12) @@ (p2 :> 100)
Periods == (p1 :> 4) @@ (p2 :> 3)

\* The amounts up to 100 that lose a unit.
LossyAmounts == {29, 57, 58}

Symmetric == Permutations(Subs) \cup Permutations(Jobs) \cup Permutations(Requests)
=============================================================================
