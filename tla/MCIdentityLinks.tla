--------------------------- MODULE MCIdentityLinks ---------------------------
(***************************************************************************)
(* IdentityLinks on a small instance; calls are interchangeable.           *)
(***************************************************************************)
EXTENDS IdentityLinks, TLC

CallSymmetry == Permutations(Calls) \cup Permutations(Purchases)
=============================================================================
