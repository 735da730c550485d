---------------------------- MODULE PaidMovesProps ----------------------------
(* What the paid-move protocol promises.                                     *)
EXTENDS PaidMoves, FiniteSetsExt

\* Charges of key k that were never returned.
Paid(k) ==
  archive[k].charges + (IF markers[k].status \in {"pending", "spent"} THEN 1 ELSE 0)

\* What covers the moves of key k: its charges that were never returned, and
\* the refunds that passes made because they misread the Mind's answer.
Covered(k) == Paid(k) + misjudged[k]

\* The escrow seen through the protocol: the marker is the deal, the Mind's
\* memory is the mind.
Escrow == INSTANCE MoveEscrow WITH
  deal  <- [k \in Keys |-> markers[k].status],
  sold  <- [k \in Keys |-> archive[k].charges],
  waived <- misjudged,
  moves <- [k \in Keys |-> cache[k].moves]

Holds(k, kind) == /\ markers[k].status \in {"pending", "spent"}
                  /\ markers[k].kind = kind

\* The credits and the free shields behind charges of k that were not returned.
CreditsBehind ==
  [k \in Keys |-> archive[k].credits
                  + (IF Holds(k, "credit") THEN markers[k].amount ELSE 0)]
FreeShieldsBehind ==
  [k \in Keys |-> archive[k].free + (IF Holds(k, "free_shield") THEN 1 ELSE 0)]

\* Every credit ever granted is in the balance, behind a charge that was not
\* returned, or was knowingly given up: however invocations, reconcile
\* passes, retention and deletion interleave, no refund is paid twice and no
\* charge is lost (auth.ts, the resolver nonces of settle and refund).
CreditsConserved ==
  ledger = balance + SumFunctionOnSet(CreditsBehind, Keys) + forfeited

\* The same for free shields: the counter is exactly the free shields that
\* were taken and not given back, and never passes the allowance.
FreeShieldsConserved ==
  used = SumFunctionOnSet(FreeShieldsBehind, Keys) /\ used <= FreeShields

\* The Mind holds no move that nobody pays for: a refunded key never applies
\* (auth.ts 275-276), and a key that is repeated applies once per charge.  The
\* one exception the code leaves is exact: a refund by a pass that took an
\* unreadable answer for "not applied" (index.ts 116 and 181) costs one move,
\* of that key, and no more.
MovesArePaid == \A k \in Keys : cache[k].moves <= Covered(k)

\* A charge closed as spent on the Mind's word is for a move the Mind has on
\* disk, whatever restarts it, unless the save of a move of that very key
\* failed after memory had it (index.ts 346).  (Past ReconcileMax markers are
\* closed without asking.)
SpentIsDurable ==
  \A k \in Keys :
    markers[k].status = "spent" /\ markers[k].age <= ReconcileMax
      => disk[k].moves > 0 \/ k \in unsaved

\* A new charge is never for a key whose success the Mind would only repeat:
\* markers outlive the Mind's records (auth.ts 19-22).
FreshChargeBuysAMove ==
  [][\A k \in Keys :
       ~closed /\ markers[k].status = "none" /\ markers'[k].status = "pending"
         => ~Pruned(cache)[k].known]_vars

\* Resolved is final: a refunded charge never becomes spent, nor the other
\* way round, whoever else still works on the marker.
ResolvedIsFinal ==
  [][\A k \in Keys :
       markers[k].status \in {"spent", "refunded"}
         => markers'[k].status \in {markers[k].status, "none"}]_vars

\* Deletion gives up no more credits than the balance the user was shown: a
\* refund or a grant that lands in between stays (auth.ts 72-74).
ForfeitsOnlyTheSeen == forfeited <= deletion.seen

\* Requests, crashes, lost calls, unsaved moves, reconcile passes and
\* retention together do no more to a key than an escrow does: above all no
\* price is given back once its move was delivered, but by a pass that misread
\* the Mind, which is the escrow's Waive.
ImplementsEscrow == Escrow!EscrowSpec

\* No charge stays pending for ever, even when the invocation died and its
\* user never comes back (auth.ts 430-431).
PendingResolves ==
  \A k \in Keys : markers[k].status = "pending" ~> markers[k].status # "pending"
=============================================================================
