----------------------------- MODULE MCFulfillment -----------------------------
(* Symmetry for the runs of Fulfillment.                                     *)
EXTENDS FulfillmentInv, TLC

Symmetric == Permutations(Workers) \cup Permutations(Refunds)
=============================================================================
