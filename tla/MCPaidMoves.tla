----------------------------- MODULE MCPaidMoves -----------------------------
(* PaidMoves for TLC: requests, keys and passes are interchangeable.         *)
EXTENDS PaidMovesInv, TLC

Symmetry == Permutations(Requests) \cup Permutations(Keys)
            \cup Permutations(Reconcilers)
=============================================================================
