--------------------------- MODULE MCIdempotency ---------------------------
(***************************************************************************)
(* Idempotency on small instances; clients and bodies are interchangeable, *)
(* but symmetry is unsound for the liveness properties checked with it.    *)
(***************************************************************************)
EXTENDS Idempotency, TLC
=============================================================================
