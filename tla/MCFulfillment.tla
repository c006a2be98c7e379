--------------------------- MODULE MCFulfillment ---------------------------
(***************************************************************************)
(* Fulfillment on small instances: one kind per instance, chosen by the    *)
(* cfg with KindOf <- Vouchers (or Subscriptions, Adjustments, Topups).    *)
(***************************************************************************)
EXTENDS Fulfillment, TLC

Vouchers == [t \in Txns |-> "voucher"]
Subscriptions == [t \in Txns |-> "subscription"]
Adjustments == [t \in Txns |-> "subscription_adjustment"]
Topups == [t \in Txns |-> "topup"]

\* Goroutines and requests are interchangeable (used for safety runs only).
SlotSymmetry == Permutations(Jobs) \cup Permutations(Admins)
=============================================================================
