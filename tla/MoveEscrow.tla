------------------------------ MODULE MoveEscrow ------------------------------
(***************************************************************************)
(* What a paid move is to the person who pays for it, with no Worker, no    *)
(* D1 and no Durable Object in sight: the price is held, the move may be    *)
(* delivered against it, and a held price is either kept or, as long as     *)
(* nothing was delivered, given back.  Whoever cannot tell whether it was   *)
(* delivered may waive the price, and the waived price covers the move.     *)
(***************************************************************************)
EXTENDS Naturals

CONSTANT Keys

VARIABLES
  deal,    \* per key: the deal the key names now
  waived,  \* per key: deals whose price was waived
  sold,    \* per key: earlier deals that were kept and forgotten since
  moves    \* per key: moves in the mind

escrowVars == <<deal, sold, waived, moves>>

\* Deals on key k whose price was not given back.
PaidFor(k) == sold[k] + (IF deal[k] \in {"pending", "spent"} THEN 1 ELSE 0)

EscrowInit ==
  /\ deal = [k \in Keys |-> "none"]
  /\ sold = [k \in Keys |-> 0]
  /\ waived = [k \in Keys |-> 0]
  /\ moves = [k \in Keys |-> 0]

Hold(k) ==
  /\ deal[k] = "none"
  /\ deal' = [deal EXCEPT ![k] = "pending"]
  /\ UNCHANGED <<sold, waived, moves>>

Deliver(k) ==
  /\ moves[k] < PaidFor(k) + waived[k]
  /\ moves' = [moves EXCEPT ![k] = moves[k] + 1]
  /\ UNCHANGED <<deal, sold, waived>>

Keep(k) ==
  /\ deal[k] = "pending"
  /\ deal' = [deal EXCEPT ![k] = "spent"]
  /\ UNCHANGED <<sold, waived, moves>>

GiveBack(k) ==
  /\ deal[k] = "pending"
  /\ moves[k] <= sold[k] + waived[k]
  /\ deal' = [deal EXCEPT ![k] = "refunded"]
  /\ UNCHANGED <<sold, waived, moves>>

Waive(k) ==
  /\ deal[k] = "pending"
  /\ deal' = [deal EXCEPT ![k] = "refunded"]
  /\ waived' = [waived EXCEPT ![k] = waived[k] + 1]
  /\ UNCHANGED <<sold, moves>>

\* Closed deals are forgotten; deletion of the account forgets open ones too.
ForgetDeals(S) ==
  /\ deal' = [k \in Keys |-> IF k \in S THEN "none" ELSE deal[k]]
  /\ sold' = [k \in Keys |-> IF k \in S THEN PaidFor(k) ELSE sold[k]]
  /\ UNCHANGED <<waived, moves>>

\* Moves that never reached durable storage are lost with the memory.
Lose ==
  /\ moves' \in [Keys -> Nat]
  /\ \A k \in Keys : moves'[k] <= moves[k]
  /\ UNCHANGED <<deal, sold, waived>>

EscrowNext ==
  \/ \E k \in Keys : Hold(k) \/ Deliver(k) \/ Keep(k) \/ GiveBack(k) \/ Waive(k)
  \/ \E S \in SUBSET Keys : ForgetDeals(S)
  \/ Lose

EscrowSpec == EscrowInit /\ [][EscrowNext]_escrowVars
=============================================================================
