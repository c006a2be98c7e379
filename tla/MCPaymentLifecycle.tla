------------------------ MODULE MCPaymentLifecycle ------------------------
(***************************************************************************)
(* PaymentLifecycle on small instances.  The cfg files choose the gateway, *)
(* the transactions and the number of request goroutines.                  *)
(***************************************************************************)
EXTENDS PaymentLifecycle, TLC

\* Payments 1 and 2 were placed in the same second, 1 and 3 from one phone;
\* nothing relates 2 and 3.
SomePhones == [t \in Txns |-> t % 2]
SomeCorrelators == [t \in Txns |-> t \div 3]

\* Request goroutines are interchangeable (used for safety runs only).
HandlerSymmetry == Permutations(Handlers)
=============================================================================
