--------------------------- MODULE MCOneTimeCodes ---------------------------
(***************************************************************************)
(* OneTimeCodes on small instances; calls are interchangeable.             *)
(***************************************************************************)
EXTENDS OneTimeCodes, TLC

CallSymmetry == Permutations(Requests) \cup Permutations(Verifications)
=============================================================================
