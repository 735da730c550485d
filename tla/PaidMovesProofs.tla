--------------------------- MODULE PaidMovesProofs ---------------------------
(* Proofs about the paid-move protocol, for all values of the constants.     *)
EXTENDS PaidMovesInv, SumTheorems, TLAPS

-----------------------------------------------------------------------------
(* Types.                                                                   *)

LEMMA CostType == \A move \in Moves : Cost(move) \in Nat \ {0}
  BY CostAssumption DEF Moves, Cost

LEMMA EmptyTypes ==
  /\ NoMarker \in Marker
  /\ NoRecord \in Record
  /\ IdlePass \in Pass
  BY PeriodAssumption
  DEF NoMarker, NoRecord, IdlePass, Marker, Record, Pass, Ages

LEMMA InitType == Init => TypeOK
<1> SUFFICES ASSUME Init PROVE TypeOK
  OBVIOUS
<1> USE DEF Init
<1>1. reqs \in [Requests -> Request]
  BY DEF Request
<1>2. archive \in [Keys -> [charges: Nat, credits: Nat, free: Nat]]
  OBVIOUS
<1>6. misjudged \in [Keys -> Nat] /\ unsaved \subseteq Keys
  OBVIOUS
<1>3. deletion \in [pc: {"idle", "seen", "done"}, seen: Nat]
  OBVIOUS
<1>4. /\ markers \in [Keys -> Marker]
      /\ cache \in [Keys -> Record]
      /\ disk \in [Keys -> Record]
      /\ recs \in [Reconcilers -> Pass]
  BY EmptyTypes
<1>5. balance \in Nat /\ used \in Nat /\ ledger \in Int /\ forfeited \in Nat
  BY CreditAssumption
<1> QED
  BY <1>1, <1>2, <1>3, <1>4, <1>5, <1>6 DEF TypeOK

LEMMA SettleType ==
  ASSUME TypeOK, NEW k \in Keys, Settle(k)
  PROVE  markers' \in [Keys -> Marker] /\ balance' \in Nat /\ used' \in Nat
  BY DEF TypeOK, Settle, Marker

LEMMA RefundType ==
  ASSUME TypeOK, NEW k \in Keys, Refund(k)
  PROVE  markers' \in [Keys -> Marker] /\ balance' \in Nat /\ used' \in Nat
<1>1. CASE markers[k].status = "pending"
  <2>1. markers' = [markers EXCEPT ![k].status = "refunded"]
    BY <1>1 DEF Refund
  <2>2. markers' \in [Keys -> Marker]
    BY <2>1 DEF TypeOK, Marker
  <2>3. markers[k].amount \in Nat
    BY DEF TypeOK, Marker
  <2>4. balance' \in Nat /\ used' \in Nat
    BY <1>1, <2>3 DEF TypeOK, Refund
  <2> QED BY <2>2, <2>4
<1>2. CASE markers[k].status # "pending"
  BY <1>2 DEF TypeOK, Refund, d1
<1> QED BY <1>1, <1>2

LEMMA StepType ==
  ASSUME TypeOK, NEW r \in Requests,
         NEW pc \in {"idle", "authed", "calling", "done", "gone"},
         NEW replay \in BOOLEAN,
         NEW call \in {"none", "sent", "ok", "refused", "lost"}
  PROVE  Step(r, pc, replay, call) \in Request
  BY DEF TypeOK, Step, Request

LEMMA PrunedType ==
  ASSUME NEW m \in [Keys -> Record]
  PROVE  Pruned(m) \in [Keys -> Record]
  BY PeriodAssumption DEF Pruned, Record, Ages

LEMMA AppliedType ==
  ASSUME NEW m \in [Keys -> Record], NEW k \in Keys
  PROVE  Applied(m, k) \in [Keys -> Record]
  BY PeriodAssumption DEF Applied, Record, Ages

LEMMA NextRowType ==
  ASSUME TypeOK, NEW c \in Reconcilers, NEW k \in Keys
  PROVE  NextRow(c, k) \in Pass
  BY DEF TypeOK, NextRow, Pass, IdlePass

LEMMA ArchivedType ==
  ASSUME TypeOK, NEW k \in Keys
  PROVE  Archived(k) \in [charges: Nat, credits: Nat, free: Nat]
  BY DEF TypeOK, Archived, Marker

LEMMA OlderType == \A a \in Ages : Older(a) \in Ages
  BY PeriodAssumption DEF Older, Ages

LEMMA NextType == TypeOK /\ [Next]_vars => TypeOK'
<1> SUFFICES ASSUME TypeOK, [Next]_vars PROVE TypeOK'
  OBVIOUS
<1> USE DEF TypeOK
<1>1. ASSUME NEW r \in Requests, Authorize(r) PROVE TypeOK'
  BY <1>1 DEF Authorize, d1, mind, history, Request
<1>2. ASSUME NEW r \in Requests, Spend(r) PROVE TypeOK'
  <2>1. CASE Charge(r)
    <3>1. Cost(reqs[r].move) \in Nat \ {0}
      BY CostType DEF Request
    <3>2. markers' \in [Keys -> Marker] /\ balance' \in Nat /\ used' \in Nat
      BY <2>1, <3>1, PeriodAssumption
      DEF Charge, Funding, Marker, Ages, Request
    <3>3. reqs' \in [Requests -> Request]
      BY <2>1, StepType DEF Charge
    <3> QED BY <1>2, <3>2, <3>3 DEF Spend, mind, history
  <2>2. CASE Replay(r)
    BY <1>2, <2>2, StepType DEF Spend, Replay, d1, mind, history
  <2>3. CASE Reject(r)
    BY <1>2, <2>3 DEF Spend, Reject, d1, mind, history, Request
  <2> QED BY <1>2, <2>1, <2>2, <2>3 DEF Spend
<1>3. ASSUME NEW r \in Requests, Finish(r) PROVE TypeOK'
  <2>1. reqs[r].key \in Keys
    BY DEF Request
  <2>2. markers' \in [Keys -> Marker] /\ balance' \in Nat /\ used' \in Nat
    BY <1>3, <2>1, SettleType, RefundType DEF Finish, Close, d1
  <2>3. reqs' \in [Requests -> Request]
    BY <1>3 DEF Finish, Request
  <2> QED BY <1>3, <2>2, <2>3 DEF Finish, mind, history
<1>4. ASSUME NEW r \in Requests, WorkerDies(r) PROVE TypeOK'
  BY <1>4 DEF WorkerDies, d1, mind, history, Request
<1>5. ASSUME NEW r \in Requests, CallLost(r) PROVE TypeOK'
  <2>1. reqs[r].replay \in BOOLEAN
    BY DEF Request
  <2> QED BY <1>5, <2>1, StepType DEF CallLost, d1, mind, history
<1>6. ASSUME NEW r \in Requests, MindMove(r) PROVE TypeOK'
  <2>1. reqs[r].key \in Keys /\ reqs[r].replay \in BOOLEAN
    BY DEF Request
  <2>2. Pruned(cache) \in [Keys -> Record]
    BY PrunedType
  <2>3. Applied(Pruned(cache), reqs[r].key) \in [Keys -> Record]
    BY <2>1, <2>2, AppliedType
  <2>4. CASE MindHit(r)
    BY <1>6, <2>2, <2>4 DEF MindMove, MindHit, Request, d1, history
  <2>7. CASE MindRefuse(r)
    BY <1>6, <2>2, <2>7 DEF MindMove, MindRefuse, Request, d1, history
  <2>5. CASE MindApply(r)
    BY <1>6, <2>3, <2>5 DEF MindMove, MindApply, Request, d1, history
  <2>6. CASE MindApplyUnsaved(r)
    BY <1>6, <2>1, <2>3, <2>6, StepType
    DEF MindMove, MindApplyUnsaved, d1, history
  <2> QED BY <1>6, <2>4, <2>5, <2>6, <2>7 DEF MindMove
<1>7. CASE MindRead
  BY <1>7, PrunedType DEF MindRead, d1, history
<1>8. CASE MindSaves
  BY <1>8 DEF MindSaves, d1, history
<1>9. CASE MindReloads
  BY <1>9 DEF MindReloads, d1, history
<1>10. CASE MindRestarts
  <2>1. \A r \in Requests : reqs[r].replay \in BOOLEAN
    BY DEF Request
  <2>2. reqs' \in [Requests -> Request]
    BY <1>10, <2>1, StepType DEF MindRestarts
  <2> QED BY <1>10, <2>2 DEF MindRestarts, d1, history
<1>11. ASSUME NEW c \in Reconcilers, ReconcileStart(c) PROVE TypeOK'
  <2>1. PICK rows \in SUBSET Stale : recs' = [recs EXCEPT ![c] =
            [pc |-> "scan", rows |-> rows,
             blind |-> {k \in rows : markers[k].age > ReconcileMax},
             row |-> {}, applied |-> FALSE, misread |-> FALSE]]
    BY <1>11 DEF ReconcileStart
  <2>2. rows \subseteq Keys
    BY DEF Stale
  <2>3. recs' \in [Reconcilers -> Pass]
    BY <2>1, <2>2 DEF Pass
  <2> QED BY <1>11, <2>3 DEF ReconcileStart, d1, mind, history
<1>12. ASSUME NEW c \in Reconcilers, ReconcileBlind(c) PROVE TypeOK'
  <2>1. PICK k \in recs[c].rows \cap recs[c].blind :
          Settle(k) /\ recs' = [recs EXCEPT ![c] = NextRow(c, k)]
    BY <1>12 DEF ReconcileBlind
  <2>2. k \in Keys
    BY DEF Pass
  <2> QED BY <1>12, <2>1, <2>2, SettleType, NextRowType
          DEF ReconcileBlind, mind, history
<1>13. ASSUME NEW c \in Reconcilers, ReconcileAsk(c) PROVE TypeOK'
  <2>1. PICK k \in recs[c].rows \ recs[c].blind : \E applied \in Readings(k) :
          recs' = [recs EXCEPT ![c] =
            [pc |-> "answered", rows |-> recs[c].rows, blind |-> recs[c].blind,
             row |-> {k}, applied |-> applied, misread |-> applied # cache[k].known]]
    BY <1>13 DEF ReconcileAsk
  <2>2. PICK applied \in Readings(k) :
          recs' = [recs EXCEPT ![c] =
            [pc |-> "answered", rows |-> recs[c].rows, blind |-> recs[c].blind,
             row |-> {k}, applied |-> applied, misread |-> applied # cache[k].known]]
    BY <2>1
  <2>3. k \in Keys /\ recs[c].rows \subseteq Keys /\ recs[c].blind \subseteq Keys
    BY DEF Pass
  <2>4. applied \in BOOLEAN
    BY <2>3 DEF Readings, Record
  <2>5. [pc |-> "answered", rows |-> recs[c].rows, blind |-> recs[c].blind,
         row |-> {k}, applied |-> applied, misread |-> applied # cache[k].known] \in Pass
    BY <2>3, <2>4 DEF Pass
  <2>6. recs' \in [Reconcilers -> Pass]
    BY <2>2, <2>5
  <2> QED BY <1>13, <2>6 DEF ReconcileAsk, d1, mind, history
<1>14. ASSUME NEW c \in Reconcilers, ReconcileResolve(c) PROVE TypeOK'
  <2>1. PICK k \in recs[c].row :
          /\ IF recs[c].applied THEN Settle(k) ELSE Refund(k)
          /\ misjudged' \in {misjudged, [misjudged EXCEPT ![k] = misjudged[k] + 1]}
          /\ recs' = [recs EXCEPT ![c] = NextRow(c, k)]
    BY <1>14 DEF ReconcileResolve
  <2>2. k \in Keys
    BY DEF Pass
  <2>3. markers' \in [Keys -> Marker] /\ balance' \in Nat /\ used' \in Nat
    BY <2>1, <2>2, SettleType, RefundType
  <2>4. misjudged' \in [Keys -> Nat]
    BY <2>1, <2>2
  <2> QED BY <1>14, <2>1, <2>2, <2>3, <2>4, NextRowType
          DEF ReconcileResolve, mind, history
<1>15. ASSUME NEW c \in Reconcilers, ReconcileDies(c) PROVE TypeOK'
  BY <1>15 DEF ReconcileDies, IdlePass, Pass, d1, mind, history
<1>16. CASE PruneSpends
  <2>1. NoMarker \in Marker
    BY PeriodAssumption DEF NoMarker, Marker, Ages
  <2> QED BY <1>16, <2>1, ArchivedType DEF PruneSpends, mind
<1>17. CASE Grant
  BY <1>17, CreditAssumption DEF Grant, mind
<1>18. CASE Revoke
  BY <1>18, CreditAssumption DEF Revoke, mind
<1>19. CASE DeleteSees
  BY <1>19 DEF DeleteSees, d1, mind, history
<1>20. CASE DeleteAccount
  <2>1. NoMarker \in Marker
    BY PeriodAssumption DEF NoMarker, Marker, Ages
  <2>2. \A k \in Keys : [Archived(k) EXCEPT !.free = 0]
                          \in [charges: Nat, credits: Nat, free: Nat]
    BY ArchivedType
  <2> QED BY <1>20, <2>1, <2>2 DEF DeleteAccount, mind
<1>21. CASE DeletionDies
  BY <1>21 DEF DeletionDies, d1, mind, history
<1>22. CASE Tick
  <2>1. markers' \in [Keys -> Marker]
    BY <1>22, OlderType DEF Tick, Marker
  <2>2. cache' \in [Keys -> Record] /\ disk' \in [Keys -> Record]
    BY <1>22, OlderType DEF Tick, Aged, Record
  <2> QED BY <1>22, <2>1, <2>2 DEF Tick, history
<1>23. CASE UNCHANGED vars
  BY <1>23 DEF vars
<1> QED
  BY <1>1, <1>2, <1>3, <1>4, <1>5, <1>6, <1>7, <1>8, <1>9, <1>10, <1>11,
     <1>12, <1>13, <1>14, <1>15, <1>16, <1>17, <1>18, <1>19, <1>20, <1>21,
     <1>22, <1>23 DEF Next

\* Every reachable state is well typed: in particular no interleaving drives
\* the balance or the free-shield counter below zero (auth.ts 71, 85).
THEOREM TypeCorrect == Spec => []TypeOK
  BY InitType, NextType, PTL DEF Spec

-----------------------------------------------------------------------------
(* The escrow invariant.                                                    *)

\* The Mind n holds no more moves than m and remembers no less of them.
NoMore(n, m) ==
  \A k \in Keys :
    /\ n[k].moves <= m[k].moves
    /\ m[k].known /\ m[k].age <= IdempotencyTtl
         => n[k].known /\ n[k].age <= m[k].age

LEMMA PrunedNoMore ==
  ASSUME NEW m \in [Keys -> Record]
  PROVE  /\ NoMore(Pruned(m), m)
         /\ \A k \in Keys : /\ Pruned(m)[k].moves = m[k].moves
                            /\ Pruned(m)[k].known
                                 => m[k].known /\ m[k].age <= IdempotencyTtl
  BY PeriodAssumption DEF NoMore, Pruned, Record, Ages

LEMMA SameNoMore ==
  ASSUME NEW m \in [Keys -> Record]
  PROVE  NoMore(m, m)
  BY DEF NoMore, Record, Ages

LEMMA RoomKept ==
  ASSUME NEW m \in [Keys -> Record], NEW n \in [Keys -> Record],
         NoMore(n, m), NEW k \in Keys, Room(m, k), TypeOK
  PROVE  Room(n, k)
<1>1. Covered(k) \in Nat
  BY DEF TypeOK, Paid, Covered
<1> QED BY <1>1, PeriodAssumption DEF Room, NoMore, Record, Ages

LEMMA RemembersKept ==
  ASSUME NEW m \in [Keys -> Record], NEW n \in [Keys -> Record],
         NoMore(n, m), Remembers(m), TypeOK
  PROVE  Remembers(n)
<1> SUFFICES ASSUME NEW k \in Keys, HasCharge(k)
             PROVE  \/ n[k].moves < Covered(k)
                    \/ n[k].known /\ n[k].age <= markers[k].age
                    \/ markers[k].age > IdempotencyTtl
  BY DEF Remembers
<1>1. Covered(k) \in Nat
  BY DEF TypeOK, Paid, Covered
<1>2. markers[k].age \in Int /\ m[k].age \in Int /\ n[k].age \in Int
  BY DEF TypeOK, Marker, Record, Ages
<1>3. m[k].moves \in Nat /\ n[k].moves \in Nat
  BY DEF Record
<1> QED BY <1>1, <1>2, <1>3, PeriodAssumption DEF Remembers, NoMore

\* Steps that only end or narrow what invocations may do, and that leave the
\* Mind with no more than it had.
LEMMA Shrink ==
  ASSUME TypeOK, TypeOK', EscrowInv,
         UNCHANGED <<markers, archive, misjudged, recs>>,
         \A q \in Requests :
           /\ reqs'[q].key = reqs[q].key
           /\ Active(q)' => Active(q)
           /\ reqs'[q].pc \in {"idle", "authed"} => reqs'[q] = reqs[q]
           /\ reqs'[q].call = "sent" => reqs[q].call = "sent"
           /\ reqs'[q].pc = "calling" /\ reqs'[q].call = "refused"
              /\ ~reqs'[q].replay /\ markers[reqs[q].key].status = "pending"
                => cache[reqs[q].key].moves < Covered(reqs[q].key),
         NoMore(cache', cache) \/ NoMore(cache', disk),
         NoMore(disk', cache) \/ NoMore(disk', disk),
         DiskLags'
  PROVE  EscrowInv'
<1>1. \A k \in Keys : Covered(k)' = Covered(k) /\ Covered(k) \in Nat
  BY DEF Paid, Covered, TypeOK
<1>2. \A k \in Keys : cache'[k].moves <= cache[k].moves
  BY DEF NoMore, EscrowInv, DiskLags, TypeOK, Record
<1>3. OneUser'
  BY DEF EscrowInv, OneUser
<1>4. AuthedKeyIsFree'
  BY DEF EscrowInv, AuthedKeyIsFree
<1>5. UserIsRecent'
  BY DEF EscrowInv, UserIsRecent
<1>6. PassIsAlone'
  <2> SUFFICES ASSUME NEW c \in Reconcilers, recs[c].pc = "answered",
                      ~recs[c].applied, ~recs[c].misread, NEW k \in recs[c].row,
                      markers[k].status = "pending"
               PROVE  cache'[k].moves < Covered(k)'
    BY DEF EscrowInv, PassIsAlone
  <2>1. k \in Keys
    BY DEF TypeOK, Pass
  <2>2. cache[k].moves < Covered(k)
    BY DEF EscrowInv, PassIsAlone
  <2>3. cache[k].moves \in Nat /\ cache'[k].moves \in Nat
    BY <2>1 DEF TypeOK, Record
  <2> QED BY <1>1, <1>2, <2>1, <2>2, <2>3
<1>7. /\ cache \in [Keys -> Record] /\ cache' \in [Keys -> Record]
      /\ disk \in [Keys -> Record] /\ disk' \in [Keys -> Record]
  BY DEF TypeOK
<1>8. Remembers(cache') /\ Remembers(disk')
  BY <1>7, RemembersKept DEF EscrowInv
<1>9. Remembers(cache)' /\ Remembers(disk)'
  BY <1>1, <1>8 DEF Remembers, HasCharge
<1>10. SentHasRoom'
  <2> SUFFICES ASSUME NEW q \in Requests, reqs'[q].call = "sent"
               PROVE  Room(cache, reqs[q].key)' /\ Room(disk, reqs[q].key)'
    BY DEF SentHasRoom
  <2>1. reqs[q].key \in Keys
    BY DEF TypeOK, Request
  <2>2. Room(cache, reqs[q].key) /\ Room(disk, reqs[q].key)
    BY DEF EscrowInv, SentHasRoom
  <2>3. Room(cache', reqs[q].key) /\ Room(disk', reqs[q].key)
    BY <1>7, <2>1, <2>2, RoomKept
  <2> QED BY <1>1, <2>1, <2>3 DEF Room
<1>11. RefusedHasRoom'
  <2> SUFFICES ASSUME NEW q \in Requests, reqs'[q].pc = "calling",
                      reqs'[q].call = "refused", ~reqs'[q].replay,
                      markers[reqs[q].key].status = "pending"
               PROVE  cache'[reqs[q].key].moves < Covered(reqs[q].key)'
    BY DEF RefusedHasRoom
  <2>1. reqs[q].key \in Keys
    BY DEF TypeOK, Request
  <2>2. cache[reqs[q].key].moves < Covered(reqs[q].key)
    OBVIOUS
  <2>3. cache[reqs[q].key].moves \in Nat /\ cache'[reqs[q].key].moves \in Nat
    BY <2>1 DEF TypeOK, Record
  <2> QED BY <1>1, <1>2, <2>1, <2>2, <2>3
<1>12. MovesArePaid'
  <2> SUFFICES ASSUME NEW k \in Keys
               PROVE  cache'[k].moves <= Covered(k)'
    BY DEF MovesArePaid
  <2>1. cache[k].moves <= Covered(k)
    BY DEF EscrowInv, MovesArePaid
  <2>2. cache[k].moves \in Nat /\ cache'[k].moves \in Nat
    BY DEF TypeOK, Record
  <2> QED BY <1>1, <1>2, <2>1, <2>2
<1> QED
  BY <1>3, <1>4, <1>5, <1>6, <1>9, <1>10, <1>11, <1>12 DEF EscrowInv

\* Steps that close or forget markers and advance passes.
LEMMA MarkersClose ==
  ASSUME TypeOK, TypeOK', EscrowInv,
         UNCHANGED <<cache, disk>>,
         \A q \in Requests :
           /\ reqs'[q].key = reqs[q].key
           /\ Active(q)' => Active(q)
           /\ reqs'[q].pc \in {"idle", "authed"} => reqs'[q] = reqs[q]
           /\ reqs'[q].call = "sent" => reqs[q].call = "sent"
           /\ reqs'[q].pc = "calling" => reqs'[q] = reqs[q],
         \A c \in Reconcilers :
           \/ recs'[c] = recs[c]
           \/ recs'[c].row = {} /\ recs'[c].rows = {} /\ ~recs'[c].misread
           \/ /\ recs'[c].rows \subseteq recs[c].rows
              /\ recs'[c].blind = recs[c].blind
              /\ recs'[c].pc = "scan"
              /\ recs'[c].row = {} /\ ~recs'[c].misread,
         \A k \in Keys :
           /\ markers'[k].status = "pending" => markers'[k] = markers[k]
           /\ markers'[k].status = "spent" =>
                /\ markers[k].status \in {"pending", "spent"}
                /\ markers'[k].age = markers[k].age
           /\ \/ Covered(k)' = Covered(k)
              \/ /\ Covered(k)' = Covered(k) - 1
                 /\ cache[k].moves < Covered(k)
                 /\ markers'[k].status = "refunded"
                 /\ \A q \in Requests : reqs[q].key = k => reqs'[q].call # "sent"
  PROVE  EscrowInv'
<1>1. \A k \in Keys : /\ Covered(k)' \in Nat
                      /\ Covered(k) \in Nat
                      /\ cache[k].moves \in Nat
                      /\ disk[k].moves \in Nat
                      /\ disk[k].moves <= cache[k].moves
  BY DEF Paid, Covered, TypeOK, Record, EscrowInv, DiskLags
<1>2. \A q \in Requests : reqs[q].key \in Keys
  BY DEF TypeOK, Request
<1>3. OneUser'
  BY DEF EscrowInv, OneUser
<1>4. AuthedKeyIsFree'
  BY <1>2 DEF EscrowInv, AuthedKeyIsFree
<1>5. UserIsRecent'
  BY <1>2 DEF EscrowInv, UserIsRecent
<1>6. PassIsAlone'
  <2>1. \A c \in Reconcilers : recs[c].rows \subseteq Keys /\ recs[c].row \subseteq Keys
    BY DEF TypeOK, Pass
  <2>2. \A c \in Reconcilers :
          /\ recs'[c].pc = "idle" => recs'[c].rows = {}
          /\ recs'[c].row \subseteq recs'[c].rows \ recs'[c].blind
          /\ recs'[c].misread => ~recs'[c].applied
    BY DEF EscrowInv, PassIsAlone
  <2>3. ASSUME NEW c \in Reconcilers, NEW k \in recs'[c].rows
        PROVE  /\ \A r \in Requests : reqs'[r].key = k => ~Active(r)'
               /\ k \notin recs'[c].blind /\ markers'[k].status = "pending"
                    => markers'[k].age <= ReconcileMax
    BY <2>1, <2>3 DEF EscrowInv, PassIsAlone
  <2>4. ASSUME NEW c \in Reconcilers, NEW k \in recs'[c].row,
               recs'[c].pc = "answered", ~recs'[c].applied, ~recs'[c].misread,
               markers'[k].status = "pending"
        PROVE  cache'[k].moves < Covered(k)'
    <3>1. recs'[c] = recs[c] /\ k \in Keys
      BY <2>1, <2>4
    <3>2. cache[k].moves < Covered(k)
      <4>1. /\ recs[c].pc = "answered" /\ ~recs[c].applied /\ ~recs[c].misread
            /\ k \in recs[c].row /\ markers[k].status = "pending"
        BY <3>1, <2>4
      <4> QED BY <4>1 DEF EscrowInv, PassIsAlone
    <3>3. Covered(k)' = Covered(k)
      BY <2>4, <3>1
    <3>4. cache' = cache
      OBVIOUS
    <3> QED BY <3>2, <3>3, <3>4
  <2> QED BY <2>2, <2>3, <2>4 DEF PassIsAlone
<1>7. DiskLags'
  BY DEF EscrowInv, DiskLags
<1>8. Remembers(cache)' /\ Remembers(disk)'
  <2>1. \A k \in Keys : HasCharge(k)' =>
          /\ HasCharge(k) /\ markers'[k].age = markers[k].age
          /\ Covered(k)' = Covered(k)
    BY DEF HasCharge
  <2> QED BY <2>1 DEF EscrowInv, Remembers
<1>9. SentHasRoom'
  <2> SUFFICES ASSUME NEW q \in Requests, reqs'[q].call = "sent"
               PROVE  Room(cache, reqs[q].key)' /\ Room(disk, reqs[q].key)'
    BY DEF SentHasRoom
  <2>1. Room(cache, reqs[q].key) /\ Room(disk, reqs[q].key)
    BY DEF EscrowInv, SentHasRoom
  <2>2. Covered(reqs[q].key)' = Covered(reqs[q].key)
    BY <1>2
  <2> QED BY <2>1, <2>2 DEF Room
<1>10. RefusedHasRoom'
  <2> SUFFICES ASSUME NEW q \in Requests, reqs'[q].pc = "calling",
                      reqs'[q].call = "refused", ~reqs'[q].replay,
                      markers'[reqs[q].key].status = "pending"
               PROVE  cache'[reqs[q].key].moves < Covered(reqs[q].key)'
    BY DEF RefusedHasRoom
  <2>1. reqs'[q] = reqs[q] /\ markers'[reqs[q].key] = markers[reqs[q].key]
    BY <1>2
  <2>2. cache[reqs[q].key].moves < Covered(reqs[q].key)
    BY <2>1 DEF EscrowInv, RefusedHasRoom
  <2> QED BY <1>2, <2>2
<1>11. MovesArePaid'
  BY <1>1 DEF EscrowInv, MovesArePaid
<1> QED
  BY <1>3, <1>4, <1>5, <1>6, <1>7, <1>8, <1>9, <1>10, <1>11 DEF EscrowInv

\* Steps of the Mind that apply nothing.
LEMMA MindNarrows ==
  ASSUME TypeOK, TypeOK', EscrowInv, NEW r \in Requests, MindMove(r),
         MindHit(r) \/ MindRefuse(r)
  PROVE  EscrowInv'
<1>1. /\ cache \in [Keys -> Record] /\ disk \in [Keys -> Record]
      /\ reqs[r].key \in Keys
  BY DEF TypeOK, Request
<1>2. cache' = Pruned(cache) /\ disk' = disk
  BY DEF MindHit, MindRefuse
<1>3. NoMore(cache', cache) /\ NoMore(disk', disk)
  BY <1>1, <1>2, PrunedNoMore, SameNoMore
<1>4. DiskLags'
  BY <1>1, <1>2, PrunedNoMore DEF EscrowInv, DiskLags
<1>5. UNCHANGED <<markers, archive, misjudged, recs>>
  BY DEF MindMove, d1, history
<1>6. reqs[r].call = "sent" /\ Active(r)
  BY DEF MindMove, Active
<1>7. \/ /\ MindHit(r)
         /\ reqs' = [reqs EXCEPT ![r].call = "ok"]
      \/ /\ MindRefuse(r)
         /\ ~Pruned(cache)[reqs[r].key].known
         /\ reqs' = [reqs EXCEPT ![r].call = "refused"]
  BY DEF MindHit, MindRefuse
<1>8. reqs[r].pc \notin {"idle", "authed"}
  BY <1>6 DEF EscrowInv, AuthedKeyIsFree
<1>9. ~Pruned(cache)[reqs[r].key].known
        => cache[reqs[r].key].moves < Covered(reqs[r].key)
  <2>1. Room(cache, reqs[r].key)
    BY <1>6 DEF EscrowInv, SentHasRoom
  <2> QED BY <1>1, <2>1, PeriodAssumption DEF Room, Pruned, Record, Ages
<1>10. ASSUME NEW q \in Requests
       PROVE /\ reqs'[q].key = reqs[q].key
             /\ Active(q)' => Active(q)
             /\ reqs'[q].pc \in {"idle", "authed"} => reqs'[q] = reqs[q]
             /\ reqs'[q].call = "sent" => reqs[q].call = "sent"
             /\ reqs'[q].pc = "calling" /\ reqs'[q].call = "refused"
                /\ ~reqs'[q].replay /\ markers[reqs[q].key].status = "pending"
                  => cache[reqs[q].key].moves < Covered(reqs[q].key)
  <2>1. CASE q = r
    <3>1. /\ reqs'[r].key = reqs[r].key /\ reqs'[r].pc = reqs[r].pc
          /\ reqs'[r].call \in {"ok", "refused"}
          /\ reqs'[r].call = "refused" => ~Pruned(cache)[reqs[r].key].known
      BY <1>7 DEF TypeOK, Request
    <3> QED BY <2>1, <3>1, <1>6, <1>8, <1>9
  <2>2. CASE q # r
    <3>1. reqs'[q] = reqs[q]
      BY <2>2, <1>7 DEF TypeOK
    <3> QED BY <3>1 DEF EscrowInv, RefusedHasRoom, Active
  <2> QED BY <2>1, <2>2
<1> QED BY <1>3, <1>4, <1>5, <1>10, Shrink

\* Steps in which the memory or the disk is replaced, or calls are dropped.
LEMMA MindForgets ==
  ASSUME TypeOK, TypeOK', EscrowInv,
         MindRead \/ MindSaves \/ MindReloads \/ MindRestarts
  PROVE  EscrowInv'
<1>1. cache \in [Keys -> Record] /\ disk \in [Keys -> Record]
  BY DEF TypeOK
<1>2. /\ NoMore(cache, cache) /\ NoMore(disk, disk)
      /\ NoMore(Pruned(cache), cache)
  BY <1>1, SameNoMore, PrunedNoMore
<1>3. /\ NoMore(cache', cache) \/ NoMore(cache', disk)
      /\ NoMore(disk', cache) \/ NoMore(disk', disk)
  BY <1>2 DEF MindRead, MindSaves, MindReloads, MindRestarts
<1>4. DiskLags'
  BY <1>1, PrunedNoMore
  DEF MindRead, MindSaves, MindReloads, MindRestarts, EscrowInv, DiskLags, Record
<1>5. UNCHANGED <<markers, archive, misjudged, recs>>
  BY DEF MindRead, MindSaves, MindReloads, MindRestarts, d1, history
<1>6. ASSUME NEW q \in Requests
      PROVE \/ reqs'[q] = reqs[q]
            \/ /\ reqs[q].call = "sent"
               /\ reqs'[q] = Step(q, "gone", reqs[q].replay, "lost")
  BY DEF MindRead, MindSaves, MindReloads, MindRestarts
<1>7. ASSUME NEW q \in Requests
      PROVE /\ reqs'[q].key = reqs[q].key
            /\ Active(q)' => Active(q)
            /\ reqs'[q].pc \in {"idle", "authed"} => reqs'[q] = reqs[q]
            /\ reqs'[q].call = "sent" => reqs[q].call = "sent"
            /\ reqs'[q].pc = "calling" /\ reqs'[q].call = "refused"
               /\ ~reqs'[q].replay /\ markers[reqs[q].key].status = "pending"
                 => cache[reqs[q].key].moves < Covered(reqs[q].key)
  <2>1. CASE reqs'[q] = reqs[q]
    BY <2>1 DEF EscrowInv, RefusedHasRoom, Active
  <2>2. CASE /\ reqs[q].call = "sent"
             /\ reqs'[q] = Step(q, "gone", reqs[q].replay, "lost")
    <3>1. /\ reqs'[q].key = reqs[q].key
          /\ reqs'[q].pc = "gone" /\ reqs'[q].call = "lost"
      BY <2>2 DEF Step
    <3> QED BY <2>2, <3>1 DEF Active
  <2> QED BY <1>6, <2>1, <2>2
<1> QED BY <1>3, <1>4, <1>5, <1>7, Shrink

\* Steps of an invocation that ends, and steps that touch neither markers nor
\* the Mind.
LEMMA Bystanders ==
  ASSUME TypeOK, TypeOK', EscrowInv,
         \/ \E r \in Requests : WorkerDies(r) \/ CallLost(r)
         \/ \E r \in Requests : Spend(r) /\ Reject(r)
         \/ Grant \/ Revoke \/ DeleteSees \/ DeletionDies
         \/ UNCHANGED vars
  PROVE  EscrowInv'
<1>1. UNCHANGED <<markers, archive, misjudged, recs, cache, disk>>
  BY DEF WorkerDies, CallLost, Spend, Reject, Grant, Revoke, DeleteSees,
         DeletionDies, vars, d1, mind, history
<1>2. NoMore(cache', cache) /\ NoMore(disk', disk)
  BY <1>1, SameNoMore DEF TypeOK
<1>3. DiskLags'
  BY <1>1 DEF EscrowInv, DiskLags
<1>4. \/ reqs' = reqs
      \/ \E r \in Requests :
           /\ reqs[r].pc \in {"authed", "calling"}
           /\ reqs' = [reqs EXCEPT ![r].pc = "gone"]
      \/ \E r \in Requests :
           /\ reqs[r].call = "sent"
           /\ reqs' = [reqs EXCEPT ![r] = Step(r, "gone", reqs[r].replay, "lost")]
      \/ \E r \in Requests :
           /\ reqs[r].pc = "authed"
           /\ reqs' = [reqs EXCEPT ![r].pc = "done"]
  BY DEF WorkerDies, CallLost, Spend, Reject, Grant, Revoke, DeleteSees,
         DeletionDies, vars
<1>5. ASSUME NEW q \in Requests
      PROVE \/ reqs'[q] = reqs[q]
            \/ /\ Active(q)
               /\ reqs'[q].key = reqs[q].key
               /\ reqs'[q].pc \in {"gone", "done"}
               /\ reqs'[q].call \in {"lost", reqs[q].call}
  BY <1>4 DEF TypeOK, Request, Active, Step
<1>6. ASSUME NEW q \in Requests
      PROVE /\ reqs'[q].key = reqs[q].key
            /\ Active(q)' => Active(q)
            /\ reqs'[q].pc \in {"idle", "authed"} => reqs'[q] = reqs[q]
            /\ reqs'[q].call = "sent" => reqs[q].call = "sent"
            /\ reqs'[q].pc = "calling" /\ reqs'[q].call = "refused"
               /\ ~reqs'[q].replay /\ markers[reqs[q].key].status = "pending"
                 => cache[reqs[q].key].moves < Covered(reqs[q].key)
  BY <1>5 DEF EscrowInv, RefusedHasRoom, Active
<1> QED BY <1>1, <1>2, <1>3, <1>6, Shrink

LEMMA SettleCloses ==
  ASSUME TypeOK, NEW k \in Keys, Settle(k), UNCHANGED <<archive, misjudged>>
  PROVE  \A j \in Keys :
           /\ markers'[j].status = "pending" => markers'[j] = markers[j]
           /\ markers'[j].status = "spent" =>
                /\ markers[j].status \in {"pending", "spent"}
                /\ markers'[j].age = markers[j].age
           /\ Covered(j)' = Covered(j)
  BY DEF TypeOK, Settle, Marker, Paid, Covered

LEMMA RefundCloses ==
  ASSUME TypeOK, NEW k \in Keys, Refund(k), UNCHANGED <<archive, misjudged>>
  PROVE  \A j \in Keys :
           /\ markers'[j].status = "pending" => markers'[j] = markers[j]
           /\ markers'[j].status = "spent" =>
                /\ markers[j].status \in {"pending", "spent"}
                /\ markers'[j].age = markers[j].age
           /\ \/ Covered(j)' = Covered(j)
              \/ /\ j = k /\ markers[k].status = "pending"
                 /\ Covered(j)' = Covered(j) - 1
                 /\ markers'[j].status = "refunded"
<1>1. CASE markers[k].status = "pending"
  <2>1. markers' = [markers EXCEPT ![k].status = "refunded"]
    BY <1>1 DEF Refund
  <2>2. ASSUME NEW j \in Keys, j # k
        PROVE  markers'[j] = markers[j] /\ Covered(j)' = Covered(j)
    BY <2>1, <2>2 DEF TypeOK, Paid, Covered
  <2>3. markers'[k].status = "refunded" /\ Covered(k)' = Covered(k) - 1
    BY <1>1, <2>1 DEF TypeOK, Marker, Paid, Covered
  <2> QED BY <1>1, <2>2, <2>3
<1>2. CASE markers[k].status # "pending"
  BY <1>2 DEF Refund, d1, Paid, Covered
<1> QED BY <1>1, <1>2

\* A refund on a misread answer takes the price back and is written down.
LEMMA MisreadCovers ==
  ASSUME TypeOK, NEW k \in Keys, Refund(k), markers[k].status = "pending",
         archive' = archive,
         misjudged' = [misjudged EXCEPT ![k] = misjudged[k] + 1]
  PROVE  \A j \in Keys :
           /\ markers'[j].status = "pending" => markers'[j] = markers[j]
           /\ markers'[j].status = "spent" =>
                /\ markers[j].status \in {"pending", "spent"}
                /\ markers'[j].age = markers[j].age
           /\ Covered(j)' = Covered(j)
<1>1. markers' = [markers EXCEPT ![k].status = "refunded"]
  BY DEF Refund
<1>2. ASSUME NEW j \in Keys, j # k
      PROVE  markers'[j] = markers[j] /\ Covered(j)' = Covered(j)
  BY <1>1, <1>2 DEF TypeOK, Paid, Covered
<1>3. markers'[k].status = "refunded" /\ Covered(k)' = Covered(k)
  BY <1>1 DEF TypeOK, Marker, Paid, Covered
<1> QED BY <1>2, <1>3

LEMMA NextRowNarrows ==
  ASSUME TypeOK, EscrowInv, NEW c \in Reconcilers, NEW k,
         recs' = [recs EXCEPT ![c] = NextRow(c, k)]
  PROVE  \A d \in Reconcilers :
           \/ recs'[d] = recs[d]
           \/ recs'[d].row = {} /\ recs'[d].rows = {} /\ ~recs'[d].misread
           \/ /\ recs'[d].rows \subseteq recs[d].rows
              /\ recs'[d].blind = recs[d].blind
              /\ recs'[d].pc = "scan"
              /\ recs'[d].row = {} /\ ~recs'[d].misread
  BY DEF TypeOK, NextRow, IdlePass

\* finishAccountMove gives back only what the Mind refused.
LEMMA FinishKeepsEscrow ==
  ASSUME TypeOK, TypeOK', EscrowInv, NEW r \in Requests, Finish(r)
  PROVE  EscrowInv'
<1>1. reqs[r].key \in Keys
  BY DEF TypeOK, Request
<1>2. UNCHANGED <<cache, disk, recs, archive, misjudged>>
  BY DEF Finish, mind, history
<1>3. /\ reqs[r].pc = "calling" /\ reqs[r].call \in {"ok", "refused"}
      /\ reqs' = [reqs EXCEPT ![r].pc = "done"]
  BY DEF Finish
<1>4. ASSUME NEW q \in Requests
      PROVE /\ reqs'[q].key = reqs[q].key
            /\ Active(q)' => Active(q)
            /\ reqs'[q].pc \in {"idle", "authed"} => reqs'[q] = reqs[q]
            /\ reqs'[q].call = "sent" => reqs[q].call = "sent"
            /\ reqs'[q].pc = "calling" => reqs'[q] = reqs[q]
  BY <1>3 DEF TypeOK, Request, Active
<1>5. \A c \in Reconcilers : recs'[c] = recs[c]
  BY <1>2
<1>6. CASE Settle(reqs[r].key)
  <2> QED BY <1>1, <1>2, <1>4, <1>5, <1>6, SettleCloses, MarkersClose
<1>7. CASE reqs[r].call = "refused" /\ ~reqs[r].replay /\ Refund(reqs[r].key)
  <2>1. ASSUME NEW q \in Requests, reqs[q].key = reqs[r].key
        PROVE  reqs'[q].call # "sent"
    BY <1>3, <2>1 DEF EscrowInv, OneUser, Active, TypeOK, Request
  <2>2. markers[reqs[r].key].status = "pending"
          => cache[reqs[r].key].moves < Covered(reqs[r].key)
    BY <1>3, <1>7 DEF EscrowInv, RefusedHasRoom
  <2>3. \A j \in Keys :
          /\ markers'[j].status = "pending" => markers'[j] = markers[j]
          /\ markers'[j].status = "spent" =>
               /\ markers[j].status \in {"pending", "spent"}
               /\ markers'[j].age = markers[j].age
          /\ \/ Covered(j)' = Covered(j)
             \/ /\ Covered(j)' = Covered(j) - 1
                /\ cache[j].moves < Covered(j)
                /\ markers'[j].status = "refunded"
                /\ \A q \in Requests : reqs[q].key = j => reqs'[q].call # "sent"
    BY <1>1, <1>2, <1>7, <2>1, <2>2, RefundCloses
  <2> QED BY <1>2, <1>4, <1>5, <2>3, MarkersClose
<1>8. CASE UNCHANGED d1
  <2>1. \A j \in Keys : markers'[j] = markers[j] /\ Covered(j)' = Covered(j)
    BY <1>2, <1>8 DEF d1, Paid, Covered
  <2>2. \A j \in Keys :
          /\ markers'[j].status = "pending" => markers'[j] = markers[j]
          /\ markers'[j].status = "spent" =>
               /\ markers[j].status \in {"pending", "spent"}
               /\ markers'[j].age = markers[j].age
          /\ Covered(j)' = Covered(j)
    BY <2>1
  <2> QED BY <1>2, <1>4, <1>5, <2>2, MarkersClose
<1> QED BY <1>3, <1>6, <1>7, <1>8 DEF Finish, Close

\* A pass gives back only what nobody can apply any more.
LEMMA ReconcileKeepsEscrow ==
  ASSUME TypeOK, TypeOK', EscrowInv, NEW c \in Reconcilers,
         ReconcileBlind(c) \/ ReconcileResolve(c) \/ ReconcileDies(c)
  PROVE  EscrowInv'
<1>1. UNCHANGED <<cache, disk, reqs, archive>>
  BY DEF ReconcileBlind, ReconcileResolve, ReconcileDies, mind, history
<1>2. ASSUME NEW q \in Requests
      PROVE /\ reqs'[q].key = reqs[q].key
            /\ Active(q)' => Active(q)
            /\ reqs'[q].pc \in {"idle", "authed"} => reqs'[q] = reqs[q]
            /\ reqs'[q].call = "sent" => reqs[q].call = "sent"
            /\ reqs'[q].pc = "calling" => reqs'[q] = reqs[q]
  BY <1>1 DEF Active
<1>3. recs[c].rows \subseteq Keys /\ recs[c].row \subseteq Keys
  BY DEF TypeOK, Pass
<1>4. CASE /\ misjudged' = misjudged
           /\ \E k \in Keys :
                Settle(k) /\ recs' = [recs EXCEPT ![c] = NextRow(c, k)]
  <2>1. PICK k \in Keys : Settle(k) /\ recs' = [recs EXCEPT ![c] = NextRow(c, k)]
    BY <1>4
  <2> QED BY <1>1, <1>2, <1>4, <2>1, SettleCloses, NextRowNarrows, MarkersClose
<1>5. CASE \E k \in recs[c].row :
             /\ recs[c].pc = "answered" /\ ~recs[c].applied /\ ~recs[c].misread
             /\ misjudged' = misjudged
             /\ Refund(k) /\ recs' = [recs EXCEPT ![c] = NextRow(c, k)]
  <2>1. PICK k \in recs[c].row :
             /\ recs[c].pc = "answered" /\ ~recs[c].applied /\ ~recs[c].misread
             /\ misjudged' = misjudged
             /\ Refund(k) /\ recs' = [recs EXCEPT ![c] = NextRow(c, k)]
    BY <1>5
  <2>2. k \in Keys /\ k \in recs[c].rows
    BY <1>3 DEF EscrowInv, PassIsAlone
  <2>3. ASSUME NEW q \in Requests, reqs[q].key = k
        PROVE  reqs'[q].call # "sent"
    BY <1>1, <2>2, <2>3 DEF EscrowInv, PassIsAlone, Active
  <2>4. markers[k].status = "pending" => cache[k].moves < Covered(k)
    BY <2>1 DEF EscrowInv, PassIsAlone
  <2>5. \A j \in Keys :
          /\ markers'[j].status = "pending" => markers'[j] = markers[j]
          /\ markers'[j].status = "spent" =>
               /\ markers[j].status \in {"pending", "spent"}
               /\ markers'[j].age = markers[j].age
          /\ \/ Covered(j)' = Covered(j)
             \/ /\ Covered(j)' = Covered(j) - 1
                /\ cache[j].moves < Covered(j)
                /\ markers'[j].status = "refunded"
                /\ \A q \in Requests : reqs[q].key = j => reqs'[q].call # "sent"
    BY <1>1, <2>1, <2>2, <2>3, <2>4, RefundCloses
  <2> QED BY <1>1, <1>2, <2>1, <2>5, NextRowNarrows, MarkersClose
<1>6. CASE ReconcileDies(c)
  <2>1. \A j \in Keys : markers'[j] = markers[j] /\ Covered(j)' = Covered(j)
    BY <1>1, <1>6 DEF ReconcileDies, d1, Paid, Covered, history
  <2>2. \A j \in Keys :
          /\ markers'[j].status = "pending" => markers'[j] = markers[j]
          /\ markers'[j].status = "spent" =>
               /\ markers[j].status \in {"pending", "spent"}
               /\ markers'[j].age = markers[j].age
          /\ Covered(j)' = Covered(j)
    BY <2>1
  <2>3. \A d \in Reconcilers :
          \/ recs'[d] = recs[d]
          \/ recs'[d].row = {} /\ recs'[d].rows = {} /\ ~recs'[d].misread
    BY <1>6 DEF ReconcileDies, IdlePass, TypeOK
  <2> QED BY <1>1, <1>2, <2>2, <2>3, MarkersClose
<1>7. CASE \E k \in recs[c].row :
             /\ markers[k].status = "pending" /\ Refund(k)
             /\ misjudged' = [misjudged EXCEPT ![k] = misjudged[k] + 1]
             /\ recs' = [recs EXCEPT ![c] = NextRow(c, k)]
  <2>1. PICK k \in recs[c].row :
             /\ markers[k].status = "pending" /\ Refund(k)
             /\ misjudged' = [misjudged EXCEPT ![k] = misjudged[k] + 1]
             /\ recs' = [recs EXCEPT ![c] = NextRow(c, k)]
    BY <1>7
  <2>2. k \in Keys
    BY <1>3
  <2>3. \A j \in Keys :
          /\ markers'[j].status = "pending" => markers'[j] = markers[j]
          /\ markers'[j].status = "spent" =>
               /\ markers[j].status \in {"pending", "spent"}
               /\ markers'[j].age = markers[j].age
          /\ Covered(j)' = Covered(j)
    BY <1>1, <2>1, <2>2, MisreadCovers
  <2> QED BY <1>1, <1>2, <2>1, <2>3, NextRowNarrows, MarkersClose
<1>8. CASE ReconcileResolve(c)
  <2>1. PICK k \in recs[c].row :
          /\ recs[c].pc = "answered"
          /\ IF recs[c].applied THEN Settle(k) ELSE Refund(k)
          /\ misjudged' = IF recs[c].misread /\ markers[k].status = "pending"
                          THEN [misjudged EXCEPT ![k] = misjudged[k] + 1]
                          ELSE misjudged
          /\ recs' = [recs EXCEPT ![c] = NextRow(c, k)]
    BY <1>8 DEF ReconcileResolve
  <2>2. k \in Keys
    BY <1>3
  <2>3. recs[c].misread => ~recs[c].applied
    BY <2>1 DEF EscrowInv, PassIsAlone
  <2>4. CASE recs[c].applied
    BY <1>4, <2>1, <2>2, <2>3, <2>4
  <2>5. CASE ~recs[c].applied /\ ~recs[c].misread
    BY <1>5, <2>1, <2>5
  <2>6. CASE recs[c].misread /\ markers[k].status = "pending"
    BY <1>7, <2>1, <2>3, <2>6
  <2>7. CASE recs[c].misread /\ markers[k].status # "pending"
    <3>1. Settle(k)
      BY <2>1, <2>3, <2>7 DEF Refund, Settle, d1
    <3> QED BY <1>4, <2>1, <2>2, <2>7, <3>1
  <2> QED BY <2>4, <2>5, <2>6, <2>7
<1>9. CASE ReconcileBlind(c)
  BY <1>3, <1>4, <1>9 DEF ReconcileBlind, history
<1> QED BY <1>6, <1>8, <1>9

LEMMA ArchivedPays ==
  ASSUME TypeOK, NEW k \in Keys
  PROVE  Archived(k).charges = Paid(k)
  BY DEF TypeOK, Archived, Paid, Marker

\* Forgetting a marker, after its retention or with its account, takes back
\* nothing that was paid.
LEMMA ForgettingKeepsEscrow ==
  ASSUME TypeOK, TypeOK', EscrowInv, PruneSpends \/ DeleteAccount
  PROVE  EscrowInv'
<1>1. UNCHANGED <<cache, disk, reqs, recs, misjudged>>
  BY DEF PruneSpends, DeleteAccount, mind
<1>2. ASSUME NEW q \in Requests
      PROVE /\ reqs'[q].key = reqs[q].key
            /\ Active(q)' => Active(q)
            /\ reqs'[q].pc \in {"idle", "authed"} => reqs'[q] = reqs[q]
            /\ reqs'[q].call = "sent" => reqs[q].call = "sent"
            /\ reqs'[q].pc = "calling" => reqs'[q] = reqs[q]
  BY <1>1 DEF Active
<1>3. ASSUME NEW k \in Keys
      PROVE  \/ markers'[k] = markers[k] /\ archive'[k] = archive[k]
             \/ /\ markers'[k] = NoMarker
                /\ archive'[k].charges = Archived(k).charges
  <2>1. CASE PruneSpends
    BY <2>1 DEF PruneSpends
  <2>2. CASE DeleteAccount
    BY <2>2, ArchivedType DEF DeleteAccount
  <2> QED BY <2>1, <2>2
<1>4. ASSUME NEW k \in Keys
      PROVE  /\ markers'[k].status = "pending" => markers'[k] = markers[k]
             /\ markers'[k].status = "spent" =>
                  /\ markers[k].status \in {"pending", "spent"}
                  /\ markers'[k].age = markers[k].age
             /\ Covered(k)' = Covered(k)
  <2>1. CASE markers'[k] = markers[k] /\ archive'[k] = archive[k]
    BY <1>1, <2>1 DEF Paid, Covered
  <2>2. CASE markers'[k] = NoMarker /\ archive'[k].charges = Archived(k).charges
    <3>1. Paid(k)' = archive'[k].charges
      BY <2>2 DEF Paid, NoMarker, TypeOK
    <3> QED BY <1>1, <2>2, <3>1, ArchivedPays DEF NoMarker, Covered
  <2> QED BY <1>3, <2>1, <2>2
<1>5. \A d \in Reconcilers : recs'[d] = recs[d]
  BY <1>1
<1> QED BY <1>1, <1>2, <1>4, <1>5, MarkersClose

\* A client takes a key nobody uses.
LEMMA AuthorizeKeepsEscrow ==
  ASSUME GentleEnvironment, TypeOK, TypeOK', EscrowInv,
         NEW r \in Requests, Authorize(r)
  PROVE  EscrowInv'
<1>0. PICK k \in Keys : k = reqs[r].key
  BY DEF TypeOK, Request
<1>1. UNCHANGED <<markers, archive, misjudged, cache, disk, recs>>
  BY DEF Authorize, d1, mind, history
<1>2. /\ reqs[r].pc = "idle" /\ reqs[r].call = "none"
      /\ reqs'[r].pc = "authed" /\ reqs'[r].call = "none" /\ reqs'[r].key = k
  BY <1>0 DEF Authorize, EscrowInv, AuthedKeyIsFree, TypeOK, Request
<1>3. \A q \in Requests : q # r => reqs'[q] = reqs[q]
  BY DEF Authorize, TypeOK
<1>4. /\ markers[k].status # "pending"
      /\ markers[k].status = "spent" => markers[k].age <= RetryWindow
      /\ \A q \in Requests : reqs[q].key = k => ~Active(q)
      /\ \A c \in Reconcilers : k \notin recs[c].rows
  BY <1>0 DEF Authorize, ClientMayUse, GentleEnvironment
<1>5. \A q \in Requests : /\ reqs'[q].key = reqs[q].key
                          /\ Active(q)' /\ q # r => Active(q)
  BY <1>0, <1>2, <1>3 DEF Active
<1>6. OneUser'
  BY <1>2, <1>4, <1>5 DEF EscrowInv, OneUser
<1>7. AuthedKeyIsFree'
  BY <1>1, <1>2, <1>3, <1>4 DEF EscrowInv, AuthedKeyIsFree
<1>8. UserIsRecent'
  BY <1>1, <1>2, <1>4, <1>5 DEF EscrowInv, UserIsRecent
<1>9. PassIsAlone'
  <2>1. \A j : Covered(j)' = Covered(j)
    BY <1>1 DEF Paid, Covered
  <2>2. \A c \in Reconcilers : \A j \in recs[c].rows :
          \A q \in Requests : reqs'[q].key = j => ~Active(q)'
    BY <1>2, <1>4, <1>5 DEF EscrowInv, PassIsAlone
  <2> QED BY <1>1, <2>1, <2>2 DEF EscrowInv, PassIsAlone
<1>10. DiskLags' /\ Remembers(cache)' /\ Remembers(disk)' /\ MovesArePaid'
  BY <1>1 DEF EscrowInv, DiskLags, Remembers, MovesArePaid, Paid, Covered, HasCharge
<1>11. SentHasRoom'
  BY <1>1, <1>2, <1>3 DEF EscrowInv, SentHasRoom, Room, Paid, Covered
<1>12. RefusedHasRoom'
  BY <1>1, <1>2, <1>3 DEF EscrowInv, RefusedHasRoom, Paid, Covered
<1> QED BY <1>6, <1>7, <1>8, <1>9, <1>10, <1>11, <1>12 DEF EscrowInv

\* The call is sent once the key is charged, or was charged before and is
\* still remembered.
LEMMA SpendKeepsEscrow ==
  ASSUME GentleEnvironment, TypeOK, TypeOK', EscrowInv,
         NEW r \in Requests, Spend(r), Charge(r) \/ Replay(r)
  PROVE  EscrowInv'
<1>0. PICK k \in Keys : k = reqs[r].key
  BY DEF TypeOK, Request
<1>1. UNCHANGED <<archive, misjudged, cache, disk, recs>>
  BY DEF Spend, mind, history
<1>2. /\ reqs[r].pc = "authed"
      /\ reqs'[r].pc = "calling" /\ reqs'[r].call = "sent" /\ reqs'[r].key = k
  BY <1>0 DEF Spend, Charge, Replay, Step, TypeOK
<1>3. \A q \in Requests : q # r => reqs'[q] = reqs[q]
  BY DEF Charge, Replay, TypeOK
<1>4. /\ \A j \in Keys : /\ Covered(j) \in Nat /\ Covered(j)' \in Nat
                         /\ cache[j].moves \in Nat /\ disk[j].moves \in Nat
                         /\ disk[j].moves <= cache[j].moves
                         /\ cache[j].moves <= Covered(j)
  BY DEF TypeOK, Request, Record, Paid, Covered, EscrowInv, DiskLags, MovesArePaid
<1>5. \A q \in Requests : q # r /\ reqs[q].key = k => ~Active(q)
  BY <1>0, <1>2 DEF EscrowInv, OneUser, Active
<1>6. \A c \in Reconcilers : k \notin recs[c].rows
  BY <1>0, <1>2 DEF EscrowInv, PassIsAlone, Active
<1>7. \A j \in Keys : j # k => markers'[j] = markers[j] /\ Covered(j)' = Covered(j)
  BY <1>0, <1>1 DEF Charge, Replay, d1, TypeOK, Paid, Covered
<1>8. \/ /\ markers'[k].status = "pending" /\ markers'[k].age = 0
         /\ Covered(k)' = Covered(k) + 1
      \/ /\ markers'[k] = markers[k] /\ Covered(k)' = Covered(k)
         /\ markers[k].status = "spent" /\ markers[k].age <= RetryWindow
  <2>1. CASE Charge(r)
    <3>1. markers[k].status = "none" /\ markers'[k].status = "pending"
          /\ markers'[k].age = 0
      BY <1>0, <2>1 DEF Charge, TypeOK
    <3> QED BY <1>0, <1>1, <3>1 DEF Paid, Covered, TypeOK
  <2>2. CASE Replay(r)
    BY <1>0, <1>1, <1>2, <2>2 DEF Replay, d1, Paid, Covered, EscrowInv, AuthedKeyIsFree
  <2> QED BY <2>1, <2>2
<1>9. /\ Room(cache, k)' /\ Room(disk, k)'
  <2>1. CASE Covered(k)' = Covered(k) + 1
    BY <1>1, <1>4, <2>1 DEF Room
  <2>2. CASE /\ markers'[k] = markers[k] /\ Covered(k)' = Covered(k)
             /\ markers[k].status = "spent" /\ markers[k].age <= RetryWindow
    <3>1. markers[k].age \in Nat /\ cache[k].age \in Nat /\ disk[k].age \in Nat
      BY <1>4 DEF TypeOK, Marker, Record, Ages
    <3>2. markers[k].age <= IdempotencyTtl
      BY <2>2, <3>1, PeriodAssumption DEF GentleEnvironment
    <3>3. Remembers(cache) /\ Remembers(disk) /\ HasCharge(k)
      BY <2>2 DEF EscrowInv, HasCharge
    <3> QED BY <1>1, <1>4, <2>2, <3>1, <3>2, <3>3, PeriodAssumption
            DEF Remembers, Room
  <2> QED BY <1>8, <2>1, <2>2
<1>10. ASSUME NEW q \in Requests
       PROVE  /\ reqs[q].key \in Keys /\ reqs'[q].key = reqs[q].key
              /\ Active(q)' => Active(q)
  BY <1>0, <1>2, <1>3 DEF TypeOK, Request, Active
<1>11. OneUser'
  BY <1>10 DEF EscrowInv, OneUser
<1>12. AuthedKeyIsFree'
  <2> SUFFICES ASSUME NEW q \in Requests, reqs'[q].pc \in {"idle", "authed"}
               PROVE  /\ reqs'[q].call = "none"
                      /\ reqs'[q].pc = "authed" =>
                           /\ markers'[reqs'[q].key].status # "pending"
                           /\ markers'[reqs'[q].key].status = "spent"
                                => markers'[reqs'[q].key].age <= RetryWindow
    BY DEF AuthedKeyIsFree
  <2>1. q # r /\ reqs'[q] = reqs[q]
    BY <1>2, <1>3
  <2>2. reqs[q].pc = "authed" => reqs[q].key # k
    BY <1>5, <2>1 DEF Active
  <2> QED BY <1>7, <1>10, <2>1, <2>2 DEF EscrowInv, AuthedKeyIsFree
<1>13. UserIsRecent'
  <2> SUFFICES ASSUME NEW q \in Requests, Active(q)',
                      markers'[reqs'[q].key].status = "pending"
               PROVE  markers'[reqs'[q].key].age = 0
    BY DEF UserIsRecent
  <2>1. CASE reqs[q].key = k
    BY <1>8, <1>10, <2>1
  <2>2. CASE reqs[q].key # k
    BY <1>7, <1>10, <2>2 DEF EscrowInv, UserIsRecent
  <2> QED BY <2>1, <2>2
<1>14. PassIsAlone'
  <2>1. \A c \in Reconcilers :
          /\ recs[c].rows \subseteq Keys
          /\ recs[c].row \subseteq recs[c].rows
    BY DEF TypeOK, Pass, EscrowInv, PassIsAlone
  <2>2. \A c \in Reconcilers : \A j \in recs[c].rows :
          markers'[j] = markers[j] /\ Covered(j)' = Covered(j)
    BY <1>6, <1>7, <2>1
  <2> QED BY <1>1, <1>10, <2>1, <2>2 DEF EscrowInv, PassIsAlone
<1>15. DiskLags'
  BY <1>1 DEF EscrowInv, DiskLags
<1>16. Remembers(cache)' /\ Remembers(disk)'
  <2> SUFFICES ASSUME NEW m \in {cache, disk}, NEW j \in Keys, HasCharge(j)'
               PROVE  \/ m[j].moves < Covered(j)'
                      \/ m[j].known /\ m[j].age <= markers'[j].age
                      \/ markers'[j].age > IdempotencyTtl
    BY <1>1 DEF Remembers
  <2>1. Remembers(m)
    BY DEF EscrowInv
  <2>2. CASE markers'[j] = markers[j] /\ Covered(j)' = Covered(j)
    BY <2>1, <2>2 DEF Remembers, HasCharge
  <2>3. CASE Covered(j)' = Covered(j) + 1
    <3>1. cache[j].moves < Covered(j)' /\ disk[j].moves < Covered(j)'
      BY <1>4, <2>3
    <3> QED BY <3>1
  <2> QED BY <1>7, <1>8, <2>2, <2>3
<1>17. SentHasRoom'
  <2> SUFFICES ASSUME NEW q \in Requests, reqs'[q].call = "sent"
               PROVE  Room(cache, reqs[q].key)' /\ Room(disk, reqs[q].key)'
    BY <1>10 DEF SentHasRoom
  <2>1. CASE q = r
    BY <1>0, <1>2, <1>9, <2>1 DEF Room
  <2>2. CASE q # r
    <3>1. reqs'[q] = reqs[q] /\ reqs[q].key # k
      BY <1>3, <1>5, <2>2 DEF Active
    <3> QED BY <1>1, <1>7, <1>10, <3>1 DEF EscrowInv, SentHasRoom, Room
  <2> QED BY <2>1, <2>2
<1>18. RefusedHasRoom'
  <2> SUFFICES ASSUME NEW q \in Requests, reqs'[q].pc = "calling",
                      reqs'[q].call = "refused", ~reqs'[q].replay,
                      markers'[reqs[q].key].status = "pending"
               PROVE  cache'[reqs[q].key].moves < Covered(reqs[q].key)'
    BY <1>10 DEF RefusedHasRoom
  <2>1. q # r /\ reqs'[q] = reqs[q]
    BY <1>2, <1>3
  <2>2. reqs[q].key # k
    BY <1>5, <2>1 DEF Active
  <2> QED BY <1>1, <1>7, <1>10, <2>1, <2>2 DEF EscrowInv, RefusedHasRoom
<1>19. MovesArePaid'
  BY <1>1, <1>4, <1>7, <1>8 DEF MovesArePaid
<1> QED BY <1>11, <1>12, <1>13, <1>14, <1>15, <1>16, <1>17, <1>18, <1>19
        DEF EscrowInv

\* The Mind applies a move that has been paid for, saved or not.
LEMMA ApplyKeepsEscrow ==
  ASSUME TypeOK, TypeOK', EscrowInv, NEW r \in Requests, MindMove(r),
         MindApply(r) \/ MindApplyUnsaved(r)
  PROVE  EscrowInv'
<1>0. PICK k \in Keys : k = reqs[r].key
  BY DEF TypeOK, Request
<1>1. UNCHANGED <<markers, archive, misjudged, recs>>
  BY DEF MindMove, d1, history
<1>2. /\ reqs[r].call = "sent" /\ Active(r)
      /\ reqs'[r].key = k
      /\ reqs'[r].call \in {"ok", "lost"}
      /\ reqs'[r].pc \in {reqs[r].pc, "gone"}
      /\ reqs[r].pc \notin {"idle", "authed"}
  BY <1>0 DEF MindMove, MindApply, MindApplyUnsaved, Step, Active, TypeOK,
              Request, EscrowInv, AuthedKeyIsFree
<1>3. \A q \in Requests : q # r => reqs'[q] = reqs[q]
  BY DEF MindApply, MindApplyUnsaved, TypeOK
<1>4. ASSUME NEW q \in Requests
      PROVE  /\ reqs[q].key \in Keys /\ reqs'[q].key = reqs[q].key
             /\ Active(q)' => Active(q)
             /\ reqs[q].key = k /\ q # r => ~Active(q)
  BY <1>0, <1>2, <1>3 DEF TypeOK, Request, Active, EscrowInv, OneUser
<1>5. /\ cache \in [Keys -> Record] /\ Pruned(cache) \in [Keys -> Record]
      /\ disk \in [Keys -> Record]
      /\ NoMore(Pruned(cache), cache)
      /\ \A j \in Keys : Pruned(cache)[j].moves = cache[j].moves
  BY PrunedNoMore, PrunedType DEF TypeOK
<1>6. /\ ~Pruned(cache)[k].known
      /\ cache' = Applied(Pruned(cache), k)
      /\ disk' = cache' \/ disk' = disk
  BY <1>0 DEF MindApply, MindApplyUnsaved
<1>7. /\ cache'[k].moves = cache[k].moves + 1
      /\ cache'[k].known /\ cache'[k].age = 0
      /\ \A j \in Keys : j # k => cache'[j] = Pruned(cache)[j]
  BY <1>5, <1>6 DEF Applied
<1>8. \A j \in Keys : Covered(j)' = Covered(j) /\ Covered(j) \in Nat
  BY <1>1 DEF Paid, Covered, TypeOK
<1>9. \A j \in Keys : /\ cache[j].moves \in Nat /\ disk[j].moves \in Nat
                      /\ cache'[j].moves \in Nat /\ disk'[j].moves \in Nat
                      /\ markers[j].age \in Nat
                      /\ disk[j].moves <= cache[j].moves
                      /\ cache[j].moves <= Covered(j)
  BY DEF TypeOK, Record, Marker, Ages, EscrowInv, DiskLags, MovesArePaid
<1>10. cache[k].moves < Covered(k)
  <2>1. Room(cache, k)
    BY <1>0, <1>2 DEF EscrowInv, SentHasRoom
  <2> QED BY <1>6, <2>1, PeriodAssumption DEF Room, Pruned, TypeOK, Record, Ages
<1>11. OneUser'
  BY <1>4 DEF EscrowInv, OneUser
<1>12. AuthedKeyIsFree'
  BY <1>1, <1>2, <1>3 DEF EscrowInv, AuthedKeyIsFree
<1>13. UserIsRecent'
  BY <1>1, <1>4 DEF EscrowInv, UserIsRecent
<1>14. PassIsAlone'
  <2> SUFFICES ASSUME NEW c \in Reconcilers, recs[c].pc = "answered",
                      ~recs[c].applied, ~recs[c].misread, NEW j \in recs[c].row,
                      markers[j].status = "pending"
               PROVE  cache'[j].moves < Covered(j)'
    BY <1>1, <1>4 DEF EscrowInv, PassIsAlone
  <2>1. j \in Keys /\ j \in recs[c].rows
    BY DEF TypeOK, Pass, EscrowInv, PassIsAlone
  <2>2. j # k
    BY <1>0, <1>2, <2>1 DEF EscrowInv, PassIsAlone
  <2>3. cache[j].moves < Covered(j)
    BY DEF EscrowInv, PassIsAlone
  <2> QED BY <1>5, <1>7, <1>8, <2>1, <2>2, <2>3
<1>15. DiskLags'
  BY <1>5, <1>6, <1>7, <1>9 DEF DiskLags
<1>16. Remembers(cache)' /\ Remembers(disk)'
  <2>1. Remembers(cache)'
    <3>1. Remembers(Pruned(cache))
      BY <1>5, RemembersKept DEF EscrowInv
    <3> QED BY <1>1, <1>7, <1>8, <1>9, <3>1 DEF Remembers, HasCharge
  <2>2. disk' = disk => Remembers(disk)'
    BY <1>1, <1>8 DEF EscrowInv, Remembers, HasCharge
  <2>3. disk' = cache' => Remembers(disk)'
    BY <2>1 DEF Remembers
  <2> QED BY <1>6, <2>1, <2>2, <2>3
<1>17. SentHasRoom'
  <2> SUFFICES ASSUME NEW q \in Requests, reqs'[q].call = "sent"
               PROVE  Room(cache, reqs[q].key)' /\ Room(disk, reqs[q].key)'
    BY <1>4 DEF SentHasRoom
  <2>1. q # r /\ reqs'[q] = reqs[q]
    BY <1>2, <1>3
  <2>2. reqs[q].key # k
    BY <1>4, <2>1 DEF Active
  <2>3. Room(cache, reqs[q].key) /\ Room(disk, reqs[q].key)
    BY <2>1 DEF EscrowInv, SentHasRoom
  <2>4. Room(Pruned(cache), reqs[q].key)
    BY <1>4, <1>5, <2>3, RoomKept
  <2>5. Room(cache, reqs[q].key)'
    BY <1>4, <1>7, <1>8, <2>1, <2>2, <2>4 DEF Room
  <2>6. disk' = disk => Room(disk, reqs[q].key)'
    BY <1>4, <1>8, <2>1, <2>3 DEF Room
  <2>7. disk' = cache' => Room(disk, reqs[q].key)'
    BY <2>5 DEF Room
  <2> QED BY <1>6, <2>5, <2>6, <2>7
<1>18. RefusedHasRoom'
  <2> SUFFICES ASSUME NEW q \in Requests, reqs'[q].pc = "calling",
                      reqs'[q].call = "refused", ~reqs'[q].replay,
                      markers[reqs[q].key].status = "pending"
               PROVE  cache'[reqs[q].key].moves < Covered(reqs[q].key)'
    BY <1>1, <1>4 DEF RefusedHasRoom
  <2>1. q # r /\ reqs'[q] = reqs[q]
    BY <1>2, <1>3
  <2>2. reqs[q].key # k
    BY <1>4, <2>1 DEF Active
  <2>3. cache[reqs[q].key].moves < Covered(reqs[q].key)
    BY <2>1 DEF EscrowInv, RefusedHasRoom
  <2> QED BY <1>4, <1>5, <1>7, <1>8, <2>2, <2>3
<1>19. MovesArePaid'
  <2> SUFFICES ASSUME NEW j \in Keys PROVE cache'[j].moves <= Covered(j)'
    BY DEF MovesArePaid
  <2>1. CASE j = k
    BY <1>7, <1>8, <1>9, <1>10, <2>1
  <2>2. CASE j # k
    BY <1>5, <1>7, <1>8, <1>9, <2>2
  <2> QED BY <2>1, <2>2
<1> QED BY <1>11, <1>12, <1>13, <1>14, <1>15, <1>16, <1>17, <1>18, <1>19
        DEF EscrowInv

\* A pass reads rows that are too old to be in use, and refunds only on an
\* answer the Mind's memory still covers.
LEMMA PassKeepsEscrow ==
  ASSUME TypeOK, TypeOK', EscrowInv, NEW c \in Reconcilers,
         ReconcileStart(c) \/ ReconcileAsk(c)
  PROVE  EscrowInv'
<1>1. UNCHANGED <<markers, archive, misjudged, cache, disk, reqs>>
  BY DEF ReconcileStart, ReconcileAsk, d1, mind, history
<1>2. /\ OneUser' /\ AuthedKeyIsFree' /\ UserIsRecent' /\ DiskLags'
      /\ Remembers(cache)' /\ Remembers(disk)' /\ SentHasRoom'
      /\ RefusedHasRoom' /\ MovesArePaid'
  BY <1>1 DEF EscrowInv, OneUser, AuthedKeyIsFree, UserIsRecent, DiskLags,
              Remembers, SentHasRoom, RefusedHasRoom, MovesArePaid, Active,
              Paid, Covered, HasCharge, Room
<1>3. \A d \in Reconcilers : d # c => recs'[d] = recs[d]
  BY DEF ReconcileStart, ReconcileAsk, TypeOK
<1>4. /\ recs'[c].pc = "idle" => recs'[c].rows = {}
      /\ recs'[c].row \subseteq recs'[c].rows \ recs'[c].blind
      /\ \A k \in recs'[c].rows :
           /\ \A r \in Requests : reqs[r].key = k => ~Active(r)
           /\ k \notin recs'[c].blind /\ markers[k].status = "pending"
                => markers[k].age <= ReconcileMax
      /\ recs'[c].pc = "answered" /\ ~recs'[c].applied /\ ~recs'[c].misread =>
           \A k \in recs'[c].row :
             markers[k].status = "pending" => cache[k].moves < Covered(k)
      /\ recs'[c].misread => ~recs'[c].applied
  <2>1. CASE ReconcileStart(c)
    <3>1. PICK rows \in SUBSET Stale : recs' = [recs EXCEPT ![c] =
              [pc |-> "scan", rows |-> rows,
               blind |-> {k \in rows : markers[k].age > ReconcileMax},
               row |-> {}, applied |-> FALSE, misread |-> FALSE]]
      BY <2>1 DEF ReconcileStart
    <3>2. /\ recs'[c].pc = "scan" /\ recs'[c].rows = rows
          /\ recs'[c].blind = {k \in rows : markers[k].age > ReconcileMax}
          /\ recs'[c].row = {} /\ ~recs'[c].misread
      BY <3>1 DEF TypeOK
    <3>3. ASSUME NEW k \in rows, NEW r \in Requests, reqs[r].key = k
          PROVE  ~Active(r)
      <4>1. /\ markers[k].status = "pending"
            /\ markers[k].age \in Nat
            /\ markers[k].age > ReconcileAfter
        BY DEF Stale, TypeOK, Marker, Ages
      <4>2. markers[k].age # 0
        BY <4>1, PeriodAssumption
      <4> QED BY <3>3, <4>1, <4>2 DEF EscrowInv, UserIsRecent
    <3>4. ASSUME NEW k \in rows, k \notin recs'[c].blind
          PROVE  markers[k].age <= ReconcileMax
      BY <3>2, <3>4, PeriodAssumption DEF Stale, TypeOK, Marker, Ages
    <3> QED BY <3>2, <3>3, <3>4
  <2>2. CASE ReconcileAsk(c)
    <3>0. PICK k \in recs[c].rows \ recs[c].blind : \E applied \in Readings(k) :
            recs' = [recs EXCEPT ![c] =
              [pc |-> "answered", rows |-> recs[c].rows, blind |-> recs[c].blind,
               row |-> {k}, applied |-> applied,
               misread |-> applied # cache[k].known]]
      BY <2>2 DEF ReconcileAsk
    <3>1. PICK applied \in Readings(k) :
            recs' = [recs EXCEPT ![c] =
              [pc |-> "answered", rows |-> recs[c].rows, blind |-> recs[c].blind,
               row |-> {k}, applied |-> applied,
               misread |-> applied # cache[k].known]]
      BY <3>0
    <3>2. /\ recs'[c].pc = "answered" /\ recs'[c].rows = recs[c].rows
          /\ recs'[c].blind = recs[c].blind /\ recs'[c].row = {k}
          /\ recs'[c].applied = applied
          /\ recs'[c].misread = (applied # cache[k].known)
      BY <3>1 DEF TypeOK
    <3>3. k \in Keys
      BY DEF TypeOK, Pass
    <3>4. markers[k].status = "pending" /\ ~cache[k].known
            => cache[k].moves < Covered(k)
      <4>1. markers[k].status = "pending" => markers[k].age <= ReconcileMax
        BY DEF EscrowInv, PassIsAlone
      <4> QED BY <3>3, <4>1, PeriodAssumption
              DEF EscrowInv, Remembers, HasCharge, TypeOK, Marker, Ages
    <3>5. recs'[c].misread => ~recs'[c].applied
      BY <3>1, <3>2 DEF Readings
    <3> QED BY <3>1, <3>2, <3>4, <3>5 DEF EscrowInv, PassIsAlone
  <2> QED BY <2>1, <2>2
<1>5. PassIsAlone'
  <2>1. \A k : Covered(k)' = Covered(k)
    BY <1>1 DEF Paid, Covered
  <2>2. \A r \in Requests : Active(r)' = Active(r)
    BY <1>1 DEF Active
  <2> QED BY <1>1, <1>3, <1>4, <2>1, <2>2 DEF EscrowInv, PassIsAlone
<1> QED BY <1>2, <1>5 DEF EscrowInv

LEMMA OlderMonotone ==
  /\ \A a, b \in Ages : a <= b => Older(a) <= Older(b)
  /\ \A a \in Ages : a > IdempotencyTtl => Older(a) > IdempotencyTtl
  BY PeriodAssumption DEF Older, Ages

\* Time passes only between invocations, and equally for both sides.
LEMMA TickKeepsEscrow ==
  ASSUME GentleEnvironment, TypeOK, TypeOK', EscrowInv, Tick
  PROVE  EscrowInv'
<1>1. /\ \A r \in Requests : ~Active(r)
      /\ \A c \in Reconcilers : recs[c].pc = "idle"
      /\ UNCHANGED <<archive, misjudged, reqs, recs>>
  BY DEF Tick, GentleEnvironment, history
<1>2. \A r \in Requests : ~Active(r)'
  BY <1>1 DEF Active
<1>3. \A r \in Requests : /\ reqs'[r].pc \notin {"authed", "calling"}
                         /\ reqs'[r].call # "sent"
  BY <1>2 DEF Active
<1>4. \A k \in Keys :
        /\ markers'[k].status = markers[k].status
        /\ markers[k].status # "none" => markers'[k].age = Older(markers[k].age)
        /\ Covered(k)' = Covered(k)
  BY <1>1 DEF Tick, TypeOK, Marker, Paid, Covered
<1>5. \A k \in Keys :
        /\ cache'[k].moves = cache[k].moves /\ cache'[k].known = cache[k].known
        /\ cache[k].known => cache'[k].age = Older(cache[k].age)
        /\ disk'[k].moves = disk[k].moves /\ disk'[k].known = disk[k].known
        /\ disk[k].known => disk'[k].age = Older(disk[k].age)
  BY DEF Tick, TypeOK, Record, Aged
<1>6. /\ OneUser' /\ AuthedKeyIsFree' /\ UserIsRecent'
      /\ SentHasRoom' /\ RefusedHasRoom'
  BY <1>1, <1>2, <1>3 DEF EscrowInv, OneUser, AuthedKeyIsFree, UserIsRecent,
                          SentHasRoom, RefusedHasRoom
<1>7. PassIsAlone'
  BY <1>1 DEF EscrowInv, PassIsAlone
<1>8. DiskLags' /\ MovesArePaid'
  BY <1>4, <1>5 DEF EscrowInv, DiskLags, MovesArePaid
<1>9. Remembers(cache)' /\ Remembers(disk)'
  <2> SUFFICES ASSUME NEW k \in Keys, HasCharge(k)'
               PROVE  /\ \/ cache'[k].moves < Covered(k)'
                         \/ cache'[k].known /\ cache'[k].age <= markers'[k].age
                         \/ markers'[k].age > IdempotencyTtl
                      /\ \/ disk'[k].moves < Covered(k)'
                         \/ disk'[k].known /\ disk'[k].age <= markers'[k].age
                         \/ markers'[k].age > IdempotencyTtl
    BY DEF Remembers
  <2>1. HasCharge(k) /\ markers'[k].age = Older(markers[k].age)
    BY <1>4 DEF HasCharge
  <2>2. markers[k].age \in Ages /\ cache[k].age \in Ages /\ disk[k].age \in Ages
    BY DEF TypeOK, Marker, Record
  <2>3. \/ cache[k].moves < Covered(k)
        \/ cache[k].known /\ cache[k].age <= markers[k].age
        \/ markers[k].age > IdempotencyTtl
    BY <2>1 DEF EscrowInv, Remembers
  <2>4. \/ disk[k].moves < Covered(k)
        \/ disk[k].known /\ disk[k].age <= markers[k].age
        \/ markers[k].age > IdempotencyTtl
    BY <2>1 DEF EscrowInv, Remembers
  <2> QED BY <1>4, <1>5, <2>1, <2>2, <2>3, <2>4, OlderMonotone
<1> QED BY <1>6, <1>7, <1>8, <1>9 DEF EscrowInv

LEMMA InitEscrow == Init => EscrowInv
<1> SUFFICES ASSUME Init PROVE EscrowInv
  OBVIOUS
<1>1. \A r \in Requests : ~Active(r) /\ reqs[r].pc = "idle" /\ reqs[r].call = "none"
  BY DEF Init, Active
<1>2. \A k \in Keys : /\ ~HasCharge(k)
                      /\ cache[k].moves = 0 /\ disk[k].moves = 0
                      /\ Covered(k) = 0
  BY DEF Init, NoMarker, NoRecord, HasCharge, Paid, Covered
<1>3. \A c \in Reconcilers : recs[c] = IdlePass
  BY DEF Init
<1>4. OneUser /\ AuthedKeyIsFree /\ UserIsRecent
  BY <1>1 DEF OneUser, AuthedKeyIsFree, UserIsRecent
<1>5. PassIsAlone
  BY <1>3 DEF PassIsAlone, IdlePass
<1>6. DiskLags /\ MovesArePaid /\ Remembers(cache) /\ Remembers(disk)
  BY <1>2 DEF DiskLags, MovesArePaid, Remembers
<1>7. SentHasRoom /\ RefusedHasRoom
  BY <1>1 DEF SentHasRoom, RefusedHasRoom
<1> QED BY <1>4, <1>5, <1>6, <1>7 DEF EscrowInv

LEMMA NextEscrow ==
  ASSUME GentleEnvironment, TypeOK, EscrowInv, [Next]_vars
  PROVE  EscrowInv'
<1>1. TypeOK'
  BY NextType
<1>2. ASSUME NEW r \in Requests, Spend(r) PROVE EscrowInv'
  <2>1. CASE Charge(r) \/ Replay(r)
    BY <1>1, <1>2, <2>1, SpendKeepsEscrow
  <2>2. CASE Reject(r)
    BY <1>1, <1>2, <2>2, Bystanders
  <2> QED BY <1>2, <2>1, <2>2 DEF Spend
<1>3. ASSUME NEW r \in Requests, MindMove(r) PROVE EscrowInv'
  <2>1. CASE MindHit(r) \/ MindRefuse(r)
    BY <1>1, <1>3, <2>1, MindNarrows
  <2>2. CASE MindApply(r) \/ MindApplyUnsaved(r)
    BY <1>1, <1>3, <2>2, ApplyKeepsEscrow
  <2> QED BY <1>3, <2>1, <2>2 DEF MindMove
<1>4. ASSUME NEW r \in Requests, Authorize(r) \/ Finish(r) \/ WorkerDies(r)
                                   \/ CallLost(r)
      PROVE  EscrowInv'
  BY <1>1, <1>4, AuthorizeKeepsEscrow, FinishKeepsEscrow, Bystanders
<1>5. CASE MindRead \/ MindSaves \/ MindReloads \/ MindRestarts
  BY <1>1, <1>5, MindForgets
<1>6. ASSUME NEW c \in Reconcilers, ReconcileStart(c) \/ ReconcileAsk(c)
      PROVE  EscrowInv'
  BY <1>1, <1>6, PassKeepsEscrow
<1>7. ASSUME NEW c \in Reconcilers,
             ReconcileBlind(c) \/ ReconcileResolve(c) \/ ReconcileDies(c)
      PROVE  EscrowInv'
  BY <1>1, <1>7, ReconcileKeepsEscrow
<1>8. CASE PruneSpends \/ DeleteAccount
  BY <1>1, <1>8, ForgettingKeepsEscrow
<1>9. CASE Grant \/ Revoke \/ DeleteSees \/ DeletionDies \/ UNCHANGED vars
  BY <1>1, <1>9, Bystanders
<1>10. CASE Tick
  BY <1>1, <1>10, TickKeepsEscrow
<1> QED BY <1>2, <1>3, <1>4, <1>5, <1>6, <1>7, <1>8, <1>9, <1>10 DEF Next

\* The Mind never holds a move that was not paid for, and a refund never
\* leaves one behind: for any number of clients, keys and passes and any
\* periods in the order the code sets them, with lost calls, dead
\* invocations, failed saves, restarts and deletion (auth.ts 275-276).
THEOREM PaidForever == GentleEnvironment => (Spec => []MovesArePaid)
<1> SUFFICES ASSUME GentleEnvironment PROVE Spec => []MovesArePaid
  OBVIOUS
<1>1. Init => TypeOK /\ EscrowInv
  BY InitType, InitEscrow
<1>2. TypeOK /\ EscrowInv /\ [Next]_vars => (TypeOK /\ EscrowInv)'
  BY NextType, NextEscrow
<1>3. EscrowInv => MovesArePaid
  BY DEF EscrowInv
<1> QED BY <1>1, <1>2, <1>3, PTL DEF Spec

-----------------------------------------------------------------------------
(* Refinement: the protocol is an escrow.                                   *)

\* What the escrow sees of a step that settles or refunds k, or neither.
LEMMA SettleIsKeep ==
  ASSUME TypeOK, NEW k \in Keys, Settle(k), UNCHANGED <<archive, misjudged, cache>>
  PROVE  [Escrow!EscrowNext]_Escrow!escrowVars
<1>1. CASE markers[k].status = "pending"
  <2>1. markers' = [markers EXCEPT ![k].status = "spent"]
    BY <1>1 DEF Settle
  <2>2. [j \in Keys |-> markers'[j].status]
          = [[j \in Keys |-> markers[j].status] EXCEPT ![k] = "spent"]
    BY <2>1 DEF TypeOK, Marker
  <2>3. Escrow!Keep(k)
    BY <1>1, <2>2 DEF Escrow!Keep
  <2> QED BY <2>3 DEF Escrow!EscrowNext
<1>2. CASE markers[k].status # "pending"
  BY <1>2 DEF Settle, Escrow!escrowVars
<1> QED BY <1>1, <1>2

LEMMA RefundIsGiveBack ==
  ASSUME TypeOK, NEW k \in Keys, Refund(k), UNCHANGED <<archive, misjudged, cache>>,
         markers[k].status = "pending" => cache[k].moves < Covered(k)
  PROVE  [Escrow!EscrowNext]_Escrow!escrowVars
<1>1. CASE markers[k].status = "pending"
  <2>1. markers' = [markers EXCEPT ![k].status = "refunded"]
    BY <1>1 DEF Refund
  <2>2. [j \in Keys |-> markers'[j].status]
          = [[j \in Keys |-> markers[j].status] EXCEPT ![k] = "refunded"]
    BY <2>1 DEF TypeOK, Marker
  <2>3. cache[k].moves <= archive[k].charges + misjudged[k]
    BY <1>1 DEF Paid, Covered, TypeOK, Record
  <2>4. Escrow!GiveBack(k)
    BY <1>1, <2>2, <2>3 DEF Escrow!GiveBack
  <2> QED BY <2>4 DEF Escrow!EscrowNext
<1>2. CASE markers[k].status # "pending"
  BY <1>2 DEF Refund, d1, Escrow!escrowVars
<1> QED BY <1>1, <1>2

\* A price given back on a misread answer is a price waived.
LEMMA RefundIsWaive ==
  ASSUME TypeOK, NEW k \in Keys, Refund(k), UNCHANGED <<archive, cache>>,
         markers[k].status = "pending",
         misjudged' = [misjudged EXCEPT ![k] = misjudged[k] + 1]
  PROVE  [Escrow!EscrowNext]_Escrow!escrowVars
<1>1. markers' = [markers EXCEPT ![k].status = "refunded"]
  BY DEF Refund
<1>2. [j \in Keys |-> markers'[j].status]
        = [[j \in Keys |-> markers[j].status] EXCEPT ![k] = "refunded"]
  BY <1>1 DEF TypeOK, Marker
<1>3. Escrow!Waive(k)
  BY <1>2 DEF Escrow!Waive
<1> QED BY <1>3 DEF Escrow!EscrowNext

LEMMA ChargeIsHold ==
  ASSUME TypeOK, NEW r \in Requests, Charge(r), UNCHANGED <<archive, misjudged, cache>>
  PROVE  Escrow!EscrowNext
<1>0. PICK k \in Keys : k = reqs[r].key
  BY DEF TypeOK, Request
<1>1. markers[k].status = "none"
  BY <1>0 DEF Charge
<1>2. /\ markers'[k].status = "pending"
      /\ \A j \in Keys : j # k => markers'[j] = markers[j]
  BY <1>0 DEF Charge, TypeOK
<1>3. [j \in Keys |-> markers'[j].status]
        = [[j \in Keys |-> markers[j].status] EXCEPT ![k] = "pending"]
  BY <1>2
<1>4. Escrow!Hold(k)
  BY <1>1, <1>3 DEF Escrow!Hold
<1> QED BY <1>4 DEF Escrow!EscrowNext

LEMMA ApplyIsDeliver ==
  ASSUME TypeOK, EscrowInv, NEW r \in Requests, MindMove(r),
         MindApply(r) \/ MindApplyUnsaved(r)
  PROVE  Escrow!EscrowNext
<1>0. PICK k \in Keys : k = reqs[r].key
  BY DEF TypeOK, Request
<1>1. UNCHANGED <<markers, archive, misjudged>>
  BY DEF MindMove, d1, history
<1>2. /\ ~Pruned(cache)[k].known
      /\ cache' = Applied(Pruned(cache), k)
      /\ reqs[r].call = "sent"
  BY <1>0 DEF MindMove, MindApply, MindApplyUnsaved
<1>3. /\ cache'[k].moves = cache[k].moves + 1
      /\ \A j \in Keys : j # k => cache'[j].moves = cache[j].moves
  BY <1>2, PrunedType, PrunedNoMore DEF Applied, TypeOK
<1>4. cache[k].moves < Covered(k)
  <2>1. Room(cache, k)
    BY <1>0, <1>2 DEF EscrowInv, SentHasRoom
  <2> QED BY <1>2, <2>1, PeriodAssumption DEF Room, Pruned, TypeOK, Record, Ages
<1>5. [j \in Keys |-> cache'[j].moves]
        = [[j \in Keys |-> cache[j].moves] EXCEPT ![k] = cache[k].moves + 1]
  BY <1>3
<1>6. Escrow!PaidFor(k) + misjudged[k] = Covered(k)
  BY DEF Escrow!PaidFor, Paid, Covered
<1>7. Escrow!Deliver(k)
  BY <1>1, <1>4, <1>5, <1>6 DEF Escrow!Deliver
<1> QED BY <1>7 DEF Escrow!EscrowNext

\* A memory read back from disk has lost moves, and gained none.
LEMMA ReloadIsLose ==
  ASSUME TypeOK, EscrowInv, cache' = disk, UNCHANGED <<markers, archive, misjudged>>
  PROVE  Escrow!EscrowNext
<1>1. [j \in Keys |-> cache'[j].moves] \in [Keys -> Nat]
  BY DEF TypeOK, Record
<1>2. \A j \in Keys : cache'[j].moves <= cache[j].moves
  BY DEF EscrowInv, DiskLags
<1>3. Escrow!Lose
  BY <1>1, <1>2 DEF Escrow!Lose
<1> QED BY <1>3 DEF Escrow!EscrowNext

LEMMA ForgettingIsForget ==
  ASSUME TypeOK, PruneSpends \/ DeleteAccount
  PROVE  Escrow!EscrowNext
<1>1. PICK S \in SUBSET Keys :
        \A k \in Keys :
          IF k \in S THEN markers'[k] = NoMarker
                         /\ archive'[k].charges = Archived(k).charges
          ELSE markers'[k] = markers[k] /\ archive'[k] = archive[k]
  <2>1. CASE PruneSpends
    <3>1. Expired \in SUBSET Keys
      BY DEF Expired
    <3> QED BY <2>1, <3>1 DEF PruneSpends
  <2>2. CASE DeleteAccount
    <3>1. Keys \in SUBSET Keys
      OBVIOUS
    <3> QED BY <2>2, <3>1, ArchivedType DEF DeleteAccount
  <2> QED BY <2>1, <2>2
<1>2. cache' = cache /\ misjudged' = misjudged
  BY DEF PruneSpends, DeleteAccount, mind
<1>3. \A k \in Keys : Escrow!PaidFor(k) = Paid(k)
  BY DEF Escrow!PaidFor, Paid
<1>4. [k \in Keys |-> markers'[k].status]
        = [k \in Keys |-> IF k \in S THEN "none"
                          ELSE [j \in Keys |-> markers[j].status][k]]
  BY <1>1 DEF NoMarker
<1>5. [k \in Keys |-> archive'[k].charges]
        = [k \in Keys |-> IF k \in S THEN Escrow!PaidFor(k)
                          ELSE [j \in Keys |-> archive[j].charges][k]]
  BY <1>1, <1>3, ArchivedPays
<1>6. Escrow!ForgetDeals(S)
  BY <1>2, <1>4, <1>5 DEF Escrow!ForgetDeals
<1> QED BY <1>6 DEF Escrow!EscrowNext

\* A step that changes neither a marker's status, nor the history, nor a
\* move is no step of the escrow.
LEMMA HiddenStep ==
  ASSUME UNCHANGED <<archive, misjudged>>,
         \A k \in Keys : /\ markers'[k].status = markers[k].status
                         /\ cache'[k].moves = cache[k].moves
  PROVE  UNCHANGED Escrow!escrowVars
  BY DEF Escrow!escrowVars

LEMMA NextImplements ==
  ASSUME GentleEnvironment, TypeOK, EscrowInv, [Next]_vars
  PROVE  [Escrow!EscrowNext]_Escrow!escrowVars
<1>1. ASSUME NEW r \in Requests, Spend(r)
      PROVE  [Escrow!EscrowNext]_Escrow!escrowVars
  <2>1. UNCHANGED <<archive, misjudged, cache>>
    BY <1>1 DEF Spend, mind, history
  <2>2. CASE Charge(r)
    BY <2>1, <2>2, ChargeIsHold
  <2>3. CASE Replay(r) \/ Reject(r)
    BY <2>1, <2>3, HiddenStep DEF Replay, Reject, d1
  <2> QED BY <1>1, <2>2, <2>3 DEF Spend
<1>2. ASSUME NEW r \in Requests, Finish(r)
      PROVE  [Escrow!EscrowNext]_Escrow!escrowVars
  <2>1. reqs[r].key \in Keys /\ UNCHANGED <<archive, misjudged, cache>>
    BY <1>2 DEF Finish, mind, history, TypeOK, Request
  <2>2. CASE Settle(reqs[r].key)
    BY <2>1, <2>2, SettleIsKeep
  <2>3. CASE reqs[r].call = "refused" /\ ~reqs[r].replay /\ Refund(reqs[r].key)
    <3>1. markers[reqs[r].key].status = "pending"
            => cache[reqs[r].key].moves < Covered(reqs[r].key)
      BY <1>2, <2>3 DEF Finish, EscrowInv, RefusedHasRoom
    <3> QED BY <2>1, <2>3, <3>1, RefundIsGiveBack
  <2>4. CASE UNCHANGED d1
    BY <2>1, <2>4, HiddenStep DEF d1
  <2> QED BY <1>2, <2>2, <2>3, <2>4 DEF Finish, Close
<1>3. ASSUME NEW r \in Requests, MindMove(r)
      PROVE  [Escrow!EscrowNext]_Escrow!escrowVars
  <2>1. CASE MindHit(r) \/ MindRefuse(r)
    <3>1. cache' = Pruned(cache) /\ UNCHANGED <<markers, archive, misjudged>>
      BY <1>3, <2>1 DEF MindMove, MindHit, MindRefuse, d1, history
    <3> QED BY <3>1, PrunedNoMore, HiddenStep DEF TypeOK
  <2>2. CASE MindApply(r) \/ MindApplyUnsaved(r)
    BY <1>3, <2>2, ApplyIsDeliver
  <2> QED BY <1>3, <2>1, <2>2 DEF MindMove
<1>4. CASE MindRead
  <2>1. cache' = Pruned(cache) /\ UNCHANGED <<markers, archive, misjudged>>
    BY <1>4 DEF MindRead, d1, history
  <2> QED BY <2>1, PrunedNoMore, HiddenStep DEF TypeOK
<1>5. CASE MindReloads \/ MindRestarts
  <2>1. cache' = disk /\ UNCHANGED <<markers, archive, misjudged>>
    BY <1>5 DEF MindReloads, MindRestarts, d1, history
  <2> QED BY <2>1, ReloadIsLose
<1>6. ASSUME NEW c \in Reconcilers, ReconcileBlind(c) \/ ReconcileResolve(c)
      PROVE  [Escrow!EscrowNext]_Escrow!escrowVars
  <2>1. /\ recs[c].rows \subseteq Keys /\ recs[c].row \subseteq Keys
        /\ UNCHANGED <<archive, cache>>
    BY <1>6 DEF TypeOK, Pass, ReconcileBlind, ReconcileResolve, mind, history
  <2>2. ASSUME NEW k \in Keys, Settle(k), misjudged' = misjudged
        PROVE  [Escrow!EscrowNext]_Escrow!escrowVars
    BY <2>1, <2>2, SettleIsKeep
  <2>3. CASE ReconcileBlind(c)
    BY <2>1, <2>2, <2>3 DEF ReconcileBlind, history
  <2>4. CASE ReconcileResolve(c)
    <3>1. PICK k \in recs[c].row :
            /\ recs[c].pc = "answered"
            /\ IF recs[c].applied THEN Settle(k) ELSE Refund(k)
            /\ misjudged' = IF recs[c].misread /\ markers[k].status = "pending"
                            THEN [misjudged EXCEPT ![k] = misjudged[k] + 1]
                            ELSE misjudged
      BY <2>4 DEF ReconcileResolve
    <3>2. k \in Keys /\ (recs[c].misread => ~recs[c].applied)
      BY <2>1 DEF EscrowInv, PassIsAlone
    <3>3. CASE recs[c].applied
      BY <2>2, <3>1, <3>2, <3>3
    <3>4. CASE ~recs[c].applied /\ ~recs[c].misread
      <4>1. markers[k].status = "pending" => cache[k].moves < Covered(k)
        BY <3>1, <3>4 DEF EscrowInv, PassIsAlone
      <4> QED BY <2>1, <3>1, <3>2, <3>4, <4>1, RefundIsGiveBack
    <3>5. CASE recs[c].misread /\ markers[k].status = "pending"
      BY <2>1, <3>1, <3>2, <3>5, RefundIsWaive
    <3>6. CASE recs[c].misread /\ markers[k].status # "pending"
      <4>1. Settle(k)
        BY <3>1, <3>2, <3>6 DEF Refund, Settle, d1
      <4> QED BY <2>2, <3>1, <3>2, <3>6, <4>1
    <3> QED BY <3>3, <3>4, <3>5, <3>6
  <2> QED BY <1>6, <2>3, <2>4
<1>7. CASE PruneSpends \/ DeleteAccount
  BY <1>7, ForgettingIsForget
<1>8. CASE Tick
  <2>1. \A k \in Keys : /\ markers'[k].status = markers[k].status
                        /\ cache'[k].moves = cache[k].moves
    BY <1>8 DEF Tick, TypeOK, Marker, Record, Aged
  <2> QED BY <1>8, <2>1, HiddenStep DEF Tick, history
<1>9. CASE \/ \E r \in Requests : Authorize(r) \/ WorkerDies(r) \/ CallLost(r)
           \/ \E c \in Reconcilers :
                ReconcileStart(c) \/ ReconcileAsk(c) \/ ReconcileDies(c)
           \/ MindSaves \/ Grant \/ Revoke \/ DeleteSees \/ DeletionDies
           \/ UNCHANGED vars
  <2>1. UNCHANGED <<markers, archive, misjudged, cache>>
    BY <1>9 DEF Authorize, WorkerDies, CallLost, ReconcileStart, ReconcileAsk,
                ReconcileDies, MindSaves, Grant, Revoke, DeleteSees,
                DeletionDies, vars, d1, mind, history
  <2> QED BY <2>1, HiddenStep
<1> QED BY <1>1, <1>2, <1>3, <1>4, <1>5, <1>6, <1>7, <1>8, <1>9 DEF Next

\* Whatever fails, the protocol does to each key only what the escrow allows:
\* a price is given back only while nothing has been delivered for it
\* (auth.ts 275-276, 409-424).
THEOREM Refinement == GentleEnvironment => (Spec => ImplementsEscrow)
<1> SUFFICES ASSUME GentleEnvironment PROVE Spec => ImplementsEscrow
  OBVIOUS
<1>1. Init => TypeOK /\ EscrowInv
  BY InitType, InitEscrow
<1>2. TypeOK /\ EscrowInv /\ [Next]_vars => (TypeOK /\ EscrowInv)'
  BY NextType, NextEscrow
<1>3. Init => Escrow!EscrowInit
  BY DEF Init, Escrow!EscrowInit, NoMarker, NoRecord
<1>4. TypeOK /\ EscrowInv /\ [Next]_vars
        => [Escrow!EscrowNext]_Escrow!escrowVars
  BY NextImplements
<1> QED BY <1>1, <1>2, <1>3, <1>4, PTL
        DEF Spec, ImplementsEscrow, Escrow!EscrowSpec

-----------------------------------------------------------------------------
(* What holds in every environment.                                         *)

LEMMA SettleIsFinal ==
  ASSUME TypeOK, NEW k \in Keys, Settle(k) \/ Refund(k)
  PROVE  \A j \in Keys :
           markers[j].status \in {"spent", "refunded"} => markers'[j] = markers[j]
<1>1. CASE markers[k].status = "pending"
  <2>1. \A j \in Keys : j # k => markers'[j] = markers[j]
    BY <1>1 DEF Settle, Refund, TypeOK
  <2> QED BY <1>1, <2>1
<1>2. CASE markers[k].status # "pending"
  BY <1>2 DEF Settle, Refund, d1
<1> QED BY <1>1, <1>2

LEMMA NextIsFinal ==
  ASSUME TypeOK, [Next]_vars, NEW k \in Keys,
         markers[k].status \in {"spent", "refunded"}
  PROVE  markers'[k].status \in {markers[k].status, "none"}
<1>1. ASSUME NEW r \in Requests, Spend(r)
      PROVE  markers'[k] = markers[k]
  BY <1>1 DEF Spend, Charge, Replay, Reject, d1, TypeOK
<1>2. ASSUME NEW r \in Requests, Finish(r)
      PROVE  markers'[k] = markers[k]
  <2>1. reqs[r].key \in Keys
    BY DEF TypeOK, Request
  <2> QED BY <1>2, <2>1, SettleIsFinal DEF Finish, Close, d1
<1>3. ASSUME NEW c \in Reconcilers, ReconcileBlind(c) \/ ReconcileResolve(c)
      PROVE  markers'[k] = markers[k]
  <2>1. PICK j \in Keys : Settle(j) \/ Refund(j)
    BY <1>3 DEF ReconcileBlind, ReconcileResolve, TypeOK, Pass
  <2> QED BY <2>1, SettleIsFinal
<1>4. CASE PruneSpends \/ DeleteAccount
  BY <1>4 DEF PruneSpends, DeleteAccount, NoMarker
<1>5. CASE Tick
  BY <1>5 DEF Tick, TypeOK, Marker
<1>6. CASE \/ \E r \in Requests : \/ Authorize(r) \/ WorkerDies(r) \/ CallLost(r)
                                \/ MindMove(r)
           \/ \E c \in Reconcilers :
                ReconcileStart(c) \/ ReconcileAsk(c) \/ ReconcileDies(c)
           \/ MindRead \/ MindSaves \/ MindReloads \/ MindRestarts
           \/ Grant \/ Revoke \/ DeleteSees \/ DeletionDies \/ UNCHANGED vars
  BY <1>6 DEF Authorize, WorkerDies, CallLost, MindMove, ReconcileStart,
              ReconcileAsk, ReconcileDies, MindRead, MindSaves, MindReloads,
              MindRestarts, Grant, Revoke, DeleteSees, DeletionDies, vars, d1
<1> QED BY <1>1, <1>2, <1>3, <1>4, <1>5, <1>6 DEF Next

\* A closed charge is never closed again the other way, however many
\* invocations, passes and deletions race for it (auth.ts 382-405).
THEOREM FinalForever == Spec => ResolvedIsFinal
<1>1. TypeOK /\ [Next]_vars =>
        [\A k \in Keys :
           markers[k].status \in {"spent", "refunded"}
             => markers'[k].status \in {markers[k].status, "none"}]_vars
  BY NextIsFinal
<1> QED BY <1>1, TypeCorrect, PTL DEF Spec, ResolvedIsFinal

ForfeitInv == /\ TypeOK
              /\ deletion.pc # "done" => forfeited = 0
              /\ ForfeitsOnlyTheSeen

\* Deletion never gives up more than the balance its user confirmed, though
\* refunds and payments land between the question and the batch (auth.ts
\* 535-548).
THEOREM ForfeitBound == Spec => []ForfeitsOnlyTheSeen
<1>1. Init => ForfeitInv
  <2>1. Init => forfeited = 0 /\ deletion.seen = 0
    BY DEF Init
  <2> QED BY <2>1, InitType DEF ForfeitInv, ForfeitsOnlyTheSeen
<1>2. ForfeitInv /\ [Next]_vars => ForfeitInv'
  <2> SUFFICES ASSUME ForfeitInv, [Next]_vars PROVE ForfeitInv'
    OBVIOUS
  <2>1. TypeOK /\ TypeOK'
    BY NextType DEF ForfeitInv
  <2>2. CASE DeleteSees
    BY <2>1, <2>2 DEF DeleteSees, history, ForfeitInv, ForfeitsOnlyTheSeen, TypeOK
  <2>3. CASE DeleteAccount
    BY <2>1, <2>3 DEF DeleteAccount, ForfeitInv, ForfeitsOnlyTheSeen, TypeOK
  <2>4. CASE DeletionDies
    BY <2>1, <2>4 DEF DeletionDies, history, ForfeitInv, ForfeitsOnlyTheSeen, TypeOK
  <2>5. CASE UNCHANGED <<deletion, forfeited>>
    BY <2>1, <2>5 DEF ForfeitInv, ForfeitsOnlyTheSeen
  <2>6. CASE \/ \E r \in Requests : \/ Authorize(r) \/ Spend(r) \/ Finish(r)
                                  \/ WorkerDies(r) \/ CallLost(r) \/ MindMove(r)
             \/ MindRead \/ MindSaves \/ MindReloads \/ MindRestarts
             \/ PruneSpends \/ Grant \/ Revoke \/ Tick
    BY <2>5, <2>6 DEF Authorize, Spend, Finish, WorkerDies, CallLost, MindMove,
      MindRead, MindSaves, MindReloads, MindRestarts, PruneSpends, Grant,
      Revoke, Tick, history
  <2>7. CASE \E c \in Reconcilers : \/ ReconcileStart(c) \/ ReconcileBlind(c)
                                   \/ ReconcileAsk(c) \/ ReconcileResolve(c)
                                   \/ ReconcileDies(c)
    BY <2>5, <2>7 DEF ReconcileStart, ReconcileBlind, ReconcileAsk,
      ReconcileResolve, ReconcileDies, history
  <2>8. CASE UNCHANGED vars
    BY <2>5, <2>8 DEF vars
  <2> QED BY <2>2, <2>3, <2>4, <2>6, <2>7, <2>8 DEF Next
<1>3. ForfeitInv => ForfeitsOnlyTheSeen
  BY DEF ForfeitInv
<1> QED BY <1>1, <1>2, <1>3, PTL DEF Spec

-----------------------------------------------------------------------------
(* Money.                                                                   *)

LEMMA BehindType ==
  ASSUME TypeOK
  PROVE  \A k \in Keys : CreditsBehind[k] \in Nat /\ FreeShieldsBehind[k] \in Nat
  BY DEF TypeOK, CreditsBehind, FreeShieldsBehind, Marker, Holds

\* What a step does to the sums that changes the marker of one key.
LEMMA BehindChanges ==
  ASSUME IsFiniteSet(Keys), TypeOK, TypeOK', NEW k \in Keys, archive' = archive,
         \A j \in Keys \ {k} : markers'[j] = markers[j]
  PROVE  /\ SumFunctionOnSet(CreditsBehind', Keys)
              = SumFunctionOnSet(CreditsBehind, Keys)
                - CreditsBehind[k] + CreditsBehind'[k]
         /\ SumFunctionOnSet(FreeShieldsBehind', Keys)
              = SumFunctionOnSet(FreeShieldsBehind, Keys)
                - FreeShieldsBehind[k] + FreeShieldsBehind'[k]
<1>1. \A j \in Keys : /\ CreditsBehind[j] \in Int /\ CreditsBehind'[j] \in Int
                      /\ FreeShieldsBehind[j] \in Int /\ FreeShieldsBehind'[j] \in Int
  BY DEF TypeOK, CreditsBehind, FreeShieldsBehind, Marker, Holds
<1>2. \A j \in Keys \ {k} : /\ CreditsBehind'[j] = CreditsBehind[j]
                            /\ FreeShieldsBehind'[j] = FreeShieldsBehind[j]
  BY DEF CreditsBehind, FreeShieldsBehind, Holds
<1> QED BY <1>1, <1>2, SumChange

\* What a step does to them that changes what no charge is worth.
LEMMA BehindStays ==
  ASSUME IsFiniteSet(Keys),
         \A k \in Keys : /\ CreditsBehind'[k] = CreditsBehind[k]
                         /\ FreeShieldsBehind'[k] = FreeShieldsBehind[k]
  PROVE  /\ SumFunctionOnSet(CreditsBehind', Keys) = SumFunctionOnSet(CreditsBehind, Keys)
         /\ SumFunctionOnSet(FreeShieldsBehind', Keys)
              = SumFunctionOnSet(FreeShieldsBehind, Keys)
  BY SumEqual

MoneyInv == TypeOK /\ CreditsConserved /\ FreeShieldsConserved

LEMMA SumsType ==
  ASSUME IsFiniteSet(Keys), TypeOK
  PROVE  /\ SumFunctionOnSet(CreditsBehind, Keys) \in Nat
         /\ SumFunctionOnSet(FreeShieldsBehind, Keys) \in Nat
         /\ \A k \in Keys : FreeShieldsBehind[k] <= SumFunctionOnSet(FreeShieldsBehind, Keys)
  BY BehindType, SumNat

LEMMA Balances ==
  TypeOK => balance \in Nat /\ used \in Nat /\ ledger \in Int /\ forfeited \in Nat
  BY DEF TypeOK

LEMMA InitMoney == IsFiniteSet(Keys) /\ Init => MoneyInv
<1> SUFFICES ASSUME IsFiniteSet(Keys), Init PROVE MoneyInv
  OBVIOUS
<1>1. \A k \in Keys : CreditsBehind[k] = 0 /\ FreeShieldsBehind[k] = 0
  BY DEF Init, CreditsBehind, FreeShieldsBehind, Holds, NoMarker
<1>2. /\ SumFunctionOnSet(CreditsBehind, Keys) = 0
      /\ SumFunctionOnSet(FreeShieldsBehind, Keys) = 0
  BY <1>1, SumZero
<1>3. ledger = balance /\ forfeited = 0 /\ used = 0
  BY DEF Init
<1>4. TypeOK /\ balance \in Nat /\ FreeShields \in Nat
  BY InitType, Balances, CostAssumption
<1>5. CreditsConserved /\ FreeShieldsConserved
  BY <1>2, <1>3, <1>4 DEF CreditsConserved, FreeShieldsConserved
<1> QED BY <1>4, <1>5 DEF MoneyInv

\* Taking a price, closing it as spent, and giving it back.
LEMMA ChargeKeepsMoney ==
  ASSUME IsFiniteSet(Keys), MoneyInv, TypeOK', NEW r \in Requests, Charge(r),
         UNCHANGED <<ledger, forfeited, archive>>
  PROVE  CreditsConserved' /\ FreeShieldsConserved'
<1>0. TypeOK
  BY DEF MoneyInv
<1>1. PICK k \in Keys : k = reqs[r].key
  BY <1>0 DEF TypeOK, Request
<1>2. PICK kind \in {"credit", "free_shield"}, amount \in Nat :
        /\ markers[k].status = "none"
        /\ markers' = [markers EXCEPT ![k] =
             [status |-> "pending", kind |-> kind, amount |-> amount, age |-> 0]]
        /\ balance' = IF kind = "credit" THEN balance - amount ELSE balance
        /\ used' = IF kind = "free_shield" THEN used + 1 ELSE used
        /\ kind = "free_shield" => used < FreeShields
  <2>1. Cost(reqs[r].move) \in Nat
    BY <1>0, CostType DEF TypeOK, Request
  <2> QED BY <1>1, <2>1 DEF Charge, Funding
<1>3. /\ CreditsBehind'[k] = CreditsBehind[k] + (IF kind = "credit" THEN amount ELSE 0)
      /\ FreeShieldsBehind'[k]
           = FreeShieldsBehind[k] + (IF kind = "free_shield" THEN 1 ELSE 0)
  BY <1>0, <1>2 DEF CreditsBehind, FreeShieldsBehind, Holds, TypeOK, Marker
<1>4. \A j \in Keys \ {k} : markers'[j] = markers[j]
  BY <1>0, <1>2 DEF TypeOK
<1>5. /\ SumFunctionOnSet(CreditsBehind, Keys) \in Nat
      /\ SumFunctionOnSet(FreeShieldsBehind, Keys) \in Nat
      /\ CreditsBehind[k] \in Nat /\ FreeShieldsBehind[k] \in Nat
      /\ balance \in Nat /\ used \in Nat /\ ledger \in Int /\ forfeited \in Nat
  BY <1>0, SumsType, BehindType DEF TypeOK
<1>6. /\ SumFunctionOnSet(CreditsBehind', Keys)
           = SumFunctionOnSet(CreditsBehind, Keys)
             - CreditsBehind[k] + CreditsBehind'[k]
      /\ SumFunctionOnSet(FreeShieldsBehind', Keys)
           = SumFunctionOnSet(FreeShieldsBehind, Keys)
             - FreeShieldsBehind[k] + FreeShieldsBehind'[k]
  BY <1>0, <1>4, BehindChanges
<1>7. CreditsConserved'
  BY <1>2, <1>3, <1>5, <1>6 DEF MoneyInv, CreditsConserved
<1>8. FreeShieldsConserved'
  BY <1>2, <1>3, <1>5, <1>6, CostAssumption DEF MoneyInv, FreeShieldsConserved
<1> QED BY <1>7, <1>8

LEMMA CloseKeepsMoney ==
  ASSUME IsFiniteSet(Keys), MoneyInv, TypeOK', NEW k \in Keys, Settle(k) \/ Refund(k),
         UNCHANGED <<ledger, forfeited, archive>>
  PROVE  CreditsConserved' /\ FreeShieldsConserved'
<1>0. TypeOK
  BY DEF MoneyInv
<1>1. CASE markers[k].status # "pending"
  <2>1. UNCHANGED <<markers, balance, used>>
    BY <1>1 DEF Settle, Refund, d1
  <2> QED BY <2>1 DEF MoneyInv, CreditsConserved, FreeShieldsConserved,
                      CreditsBehind, FreeShieldsBehind, Holds
<1>2. CASE markers[k].status = "pending"
  <2>1. \A j \in Keys \ {k} : markers'[j] = markers[j]
    BY <1>0, <1>2 DEF TypeOK, Settle, Refund
  <2>2. /\ SumFunctionOnSet(CreditsBehind, Keys) \in Nat
        /\ SumFunctionOnSet(FreeShieldsBehind, Keys) \in Nat
        /\ FreeShieldsBehind[k] <= SumFunctionOnSet(FreeShieldsBehind, Keys)
        /\ CreditsBehind[k] \in Nat /\ FreeShieldsBehind[k] \in Nat
        /\ balance \in Nat /\ used \in Nat /\ ledger \in Int /\ forfeited \in Nat
        /\ markers[k].amount \in Nat
    BY <1>0, SumsType, BehindType DEF TypeOK, Marker
  <2>3. /\ SumFunctionOnSet(CreditsBehind', Keys)
             = SumFunctionOnSet(CreditsBehind, Keys)
               - CreditsBehind[k] + CreditsBehind'[k]
        /\ SumFunctionOnSet(FreeShieldsBehind', Keys)
             = SumFunctionOnSet(FreeShieldsBehind, Keys)
               - FreeShieldsBehind[k] + FreeShieldsBehind'[k]
    BY <1>0, <2>1, BehindChanges
  <2>4. CASE Settle(k)
    <3>1. /\ CreditsBehind'[k] = CreditsBehind[k]
          /\ FreeShieldsBehind'[k] = FreeShieldsBehind[k]
      BY <1>0, <1>2, <2>4 DEF Settle, CreditsBehind, FreeShieldsBehind, Holds, TypeOK, Marker
    <3>2. UNCHANGED <<balance, used>>
      BY <2>4 DEF Settle
    <3> QED BY <2>2, <2>3, <3>1, <3>2 DEF MoneyInv, CreditsConserved, FreeShieldsConserved
  <2>5. CASE Refund(k)
    <3>1. /\ markers'[k].status = "refunded"
          /\ balance' = IF markers[k].kind = "credit"
                        THEN balance + markers[k].amount ELSE balance
          /\ used' = IF markers[k].kind = "free_shield" /\ used > 0
                     THEN used - 1 ELSE used
      BY <1>0, <1>2, <2>5 DEF Refund, TypeOK, Marker
    <3>2. /\ CreditsBehind[k] = archive[k].credits
                + (IF markers[k].kind = "credit" THEN markers[k].amount ELSE 0)
          /\ FreeShieldsBehind[k] = archive[k].free
                + (IF markers[k].kind = "free_shield" THEN 1 ELSE 0)
          /\ CreditsBehind'[k] = archive[k].credits
          /\ FreeShieldsBehind'[k] = archive[k].free
          /\ archive[k].credits \in Nat /\ archive[k].free \in Nat
          /\ markers[k].kind \in {"credit", "free_shield"}
      BY <1>0, <1>2, <3>1 DEF CreditsBehind, FreeShieldsBehind, Holds, TypeOK, Marker
    <3>3. CreditsConserved'
      BY <2>2, <2>3, <3>1, <3>2 DEF MoneyInv, CreditsConserved
    <3>4. FreeShieldsConserved'
      BY <2>2, <2>3, <3>1, <3>2, CostAssumption DEF MoneyInv, FreeShieldsConserved
    <3> QED BY <3>3, <3>4
  <2> QED BY <2>4, <2>5
<1> QED BY <1>1, <1>2

LEMMA NextMoney == IsFiniteSet(Keys) /\ MoneyInv /\ [Next]_vars => MoneyInv'
<1> SUFFICES ASSUME IsFiniteSet(Keys), MoneyInv, [Next]_vars
             PROVE  CreditsConserved' /\ FreeShieldsConserved'
  BY NextType DEF MoneyInv
<1>0. TypeOK /\ TypeOK'
  BY NextType DEF MoneyInv
<1>1. CASE UNCHANGED <<markers, balance, used, ledger, forfeited, archive>>
  BY <1>1 DEF MoneyInv, CreditsConserved, FreeShieldsConserved, CreditsBehind,
              FreeShieldsBehind, Holds
<1>2. ASSUME NEW r \in Requests, Spend(r) PROVE CreditsConserved' /\ FreeShieldsConserved'
  <2>1. UNCHANGED <<ledger, forfeited, archive>>
    BY <1>2 DEF Spend, history
  <2>2. CASE Charge(r)
    BY <1>0, <2>1, <2>2, ChargeKeepsMoney
  <2>3. CASE Replay(r) \/ Reject(r)
    BY <1>1, <2>1, <2>3 DEF Replay, Reject, d1
  <2> QED BY <1>2, <2>2, <2>3 DEF Spend
<1>3. ASSUME NEW r \in Requests, Finish(r) PROVE CreditsConserved' /\ FreeShieldsConserved'
  <2>1. reqs[r].key \in Keys /\ UNCHANGED <<ledger, forfeited, archive>>
    BY <1>0, <1>3 DEF Finish, history, TypeOK, Request
  <2>2. CASE UNCHANGED d1
    BY <1>1, <2>1, <2>2 DEF d1
  <2>3. CASE Settle(reqs[r].key) \/ Refund(reqs[r].key)
    BY <1>0, <2>1, <2>3, CloseKeepsMoney
  <2> QED BY <1>3, <2>2, <2>3 DEF Finish, Close
<1>4. ASSUME NEW c \in Reconcilers, ReconcileBlind(c) \/ ReconcileResolve(c)
      PROVE  CreditsConserved' /\ FreeShieldsConserved'
  <2>1. PICK k \in Keys : Settle(k) \/ Refund(k)
    BY <1>0, <1>4 DEF ReconcileBlind, ReconcileResolve, TypeOK, Pass
  <2>2. UNCHANGED <<ledger, forfeited, archive>>
    BY <1>4 DEF ReconcileBlind, ReconcileResolve, history
  <2> QED BY <1>0, <2>1, <2>2, CloseKeepsMoney
<1>5. CASE PruneSpends
  <2>1. \A k \in Keys : /\ CreditsBehind'[k] = CreditsBehind[k]
                        /\ FreeShieldsBehind'[k] = FreeShieldsBehind[k]
    BY <1>0, <1>5 DEF PruneSpends, Archived, CreditsBehind, FreeShieldsBehind, Holds,
                NoMarker, TypeOK, Marker
  <2>2. UNCHANGED <<balance, used, ledger, forfeited>>
    BY <1>5 DEF PruneSpends
  <2> QED BY <2>1, <2>2, BehindStays DEF MoneyInv, CreditsConserved, FreeShieldsConserved
<1>6. CASE Grant \/ Revoke
  <2>1. UNCHANGED <<markers, used, forfeited, archive>>
    BY <1>6 DEF Grant, Revoke
  <2>0. balance \in Nat /\ ledger \in Int /\ forfeited \in Nat
    BY <1>0, Balances
  <2>2. ledger' \in Int /\ balance' \in Int /\ ledger' - balance' = ledger - balance
    BY <1>6, <2>0, CreditAssumption DEF Grant, Revoke
  <2>3. SumFunctionOnSet(CreditsBehind, Keys) \in Nat
    BY <1>0, SumsType
  <2>4. CreditsBehind' = CreditsBehind /\ FreeShieldsBehind' = FreeShieldsBehind
    BY <2>1 DEF CreditsBehind, FreeShieldsBehind, Holds
  <2>5. CreditsConserved'
    BY <2>0, <2>1, <2>2, <2>3, <2>4 DEF MoneyInv, CreditsConserved
  <2>6. FreeShieldsConserved'
    BY <2>1, <2>4 DEF MoneyInv, FreeShieldsConserved
  <2> QED BY <2>5, <2>6
<1>7. CASE DeleteAccount
  <2>1. \A k \in Keys : CreditsBehind'[k] = CreditsBehind[k] /\ FreeShieldsBehind'[k] = 0
    BY <1>0, <1>7 DEF DeleteAccount, Archived, CreditsBehind, FreeShieldsBehind, Holds,
                NoMarker, TypeOK, Marker
  <2>2. SumFunctionOnSet(CreditsBehind', Keys) = SumFunctionOnSet(CreditsBehind, Keys)
    BY <2>1, SumEqual
  <2>3. SumFunctionOnSet(FreeShieldsBehind', Keys) = 0
    BY <2>1, SumZero
  <2>4. /\ balance' + forfeited' = balance + forfeited
        /\ ledger' = ledger /\ used' = 0
    BY <1>0, <1>7, Balances DEF DeleteAccount
  <2>5. /\ SumFunctionOnSet(CreditsBehind, Keys) \in Nat
        /\ balance \in Nat /\ forfeited \in Nat /\ ledger \in Int
    BY <1>0, SumsType, Balances
  <2>6. CreditsConserved'
    <3>0. \/ UNCHANGED <<balance, forfeited>>
          \/ balance' = 0 /\ forfeited' = forfeited + balance
      BY <1>7 DEF DeleteAccount
    <3>2. ledger = balance + SumFunctionOnSet(CreditsBehind, Keys) + forfeited
      BY DEF MoneyInv, CreditsConserved
    <3>3. ledger' = balance' + SumFunctionOnSet(CreditsBehind, Keys) + forfeited'
      BY <2>4, <2>5, <3>0, <3>2
    <3> QED BY <2>2, <3>3 DEF CreditsConserved
  <2>7. FreeShieldsConserved'
    BY <2>3, <2>4, CostAssumption DEF FreeShieldsConserved
  <2> QED BY <2>6, <2>7
<1>8. CASE Tick
  <2>1. \A k \in Keys : /\ CreditsBehind'[k] = CreditsBehind[k]
                        /\ FreeShieldsBehind'[k] = FreeShieldsBehind[k]
    BY <1>0, <1>8 DEF Tick, CreditsBehind, FreeShieldsBehind, Holds, TypeOK, Marker, history
  <2>2. UNCHANGED <<balance, used, ledger, forfeited>>
    BY <1>8 DEF Tick, history
  <2> QED BY <2>1, <2>2, BehindStays DEF MoneyInv, CreditsConserved, FreeShieldsConserved
<1>9. CASE \/ \E r \in Requests : \/ Authorize(r) \/ WorkerDies(r) \/ CallLost(r)
                                \/ MindMove(r)
           \/ \E c \in Reconcilers :
                ReconcileStart(c) \/ ReconcileAsk(c) \/ ReconcileDies(c)
           \/ MindRead \/ MindSaves \/ MindReloads \/ MindRestarts
           \/ DeleteSees \/ DeletionDies \/ UNCHANGED vars
  BY <1>1, <1>9 DEF Authorize, WorkerDies, CallLost, MindMove, ReconcileStart,
              ReconcileAsk, ReconcileDies, MindRead, MindSaves, MindReloads,
              MindRestarts, DeleteSees, DeletionDies, vars, d1, history
<1> QED BY <1>2, <1>3, <1>4, <1>5, <1>6, <1>7, <1>8, <1>9 DEF Next

\* Credits are neither made nor lost: for any number of keys, requests and
\* passes, in every environment, what was granted is in the balance, behind a
\* charge that stands, or was given up (auth.ts 365-405).
THEOREM CreditsConservedEver ==
  ASSUME IsFiniteSet(Keys) PROVE Spec => []CreditsConserved
<1>1. MoneyInv => CreditsConserved
  BY DEF MoneyInv
<1> QED BY <1>1, InitMoney, NextMoney, PTL DEF Spec

\* The counter of free shields is exact and stays within the allowance, so that
\* its guard against going below zero never bites (auth.ts 85, 396).
THEOREM FreeShieldsConservedEver ==
  ASSUME IsFiniteSet(Keys) PROVE Spec => []FreeShieldsConserved
<1>1. MoneyInv => FreeShieldsConserved
  BY DEF MoneyInv
<1> QED BY <1>1, InitMoney, NextMoney, PTL DEF Spec

-----------------------------------------------------------------------------
(* What the Mind said is on its disk.                                       *)

\* A success of k may be relied on, unless a save of k failed.
Safe(k) == disk[k].moves > 0 \/ k \in unsaved

\* The Mind after a step, as DurableInv wants it.
Saved ==
  /\ unsaved \subseteq unsaved'
  /\ \A k \in Keys \ unsaved' :
       /\ cache'[k].moves = disk'[k].moves
       /\ cache'[k].known \/ disk'[k].known => disk'[k].moves > 0
       /\ disk[k].moves > 0 => disk'[k].moves > 0

\* Who was told of a success, after a step.
ToldAgain ==
  /\ \A r \in Requests :
       /\ reqs'[r].key = reqs[r].key
       /\ reqs'[r].call = "ok" => reqs[r].call = "ok" \/ disk'[reqs[r].key].moves > 0
                                                  \/ reqs[r].key \in unsaved'
  /\ \A c \in Reconcilers :
       \/ recs'[c] = recs[c]
       \/ recs'[c].pc # "answered"
       \/ recs'[c].applied => \A k \in recs'[c].row : disk'[k].moves > 0 \/ k \in unsaved'

\* No marker is closed as spent, and no pass is given a pending one.
NothingSpent ==
  /\ \A k \in Keys : markers'[k].status = "spent" =>
       markers[k].status = "spent" /\ markers'[k].age >= markers[k].age
  /\ \A k \in Keys : markers'[k].status = "pending" =>
       \/ markers[k].status = "pending" /\ markers'[k].age >= markers[k].age
       \/ \A c \in Reconcilers : k \notin recs[c].rows
  /\ \A c \in Reconcilers :
       \/ recs'[c].rows = recs[c].rows /\ recs'[c].blind = recs[c].blind
       \/ recs'[c].rows \subseteq recs[c].rows /\ recs'[c].blind \subseteq recs[c].blind

LEMMA RowsAreKeys ==
  ASSUME TypeOK, NEW c \in Reconcilers
  PROVE  recs[c].rows \subseteq Keys /\ recs[c].row \subseteq Keys /\ recs[c].blind \subseteq Keys
  BY DEF TypeOK, Pass

LEMMA ToldStays ==
  ASSUME TypeOK, ToldIsSaved, Saved, ToldAgain
  PROVE  ToldIsSaved'
<1>1. ASSUME NEW r \in Requests, reqs'[r].call = "ok"
      PROVE  disk'[reqs'[r].key].moves > 0 \/ reqs'[r].key \in unsaved'
  <2>1. reqs[r].key \in Keys /\ reqs'[r].key = reqs[r].key
    BY DEF TypeOK, Request, ToldAgain
  <2> QED BY <1>1, <2>1 DEF ToldIsSaved, ToldAgain, Saved
<1>2. ASSUME NEW c \in Reconcilers, recs'[c].pc = "answered", recs'[c].applied,
             NEW k \in recs'[c].row
      PROVE  disk'[k].moves > 0 \/ k \in unsaved'
  <2>1. CASE recs'[c] = recs[c]
    <3>1. k \in Keys /\ Safe(k)
      BY <1>2, <2>1, RowsAreKeys DEF ToldIsSaved, Safe
    <3> QED BY <3>1 DEF Saved, Safe
  <2> QED BY <1>2, <2>1 DEF ToldAgain
<1> QED BY <1>1, <1>2 DEF ToldIsSaved

LEMMA AgesAreIntegers ==
  ASSUME TypeOK, NEW k \in Keys
  PROVE  markers[k].age \in Int /\ ReconcileMax \in Int
  BY PeriodAssumption DEF TypeOK, Marker, Ages

LEMMA NothingSpentDurable ==
  ASSUME TypeOK, TypeOK', DurableInv, Saved, ToldAgain, NothingSpent
  PROVE  DurableInv'
<1>1. MovesAreSaved' /\ ToldIsSaved'
  BY ToldStays DEF DurableInv, Saved, MovesAreSaved
<1>2. \A k \in Keys : markers[k].age \in Int /\ markers'[k].age \in Int /\ ReconcileMax \in Int
  BY PeriodAssumption DEF TypeOK, Marker, Ages
<1>3. BlindIsOld'
  <2> SUFFICES ASSUME NEW c \in Reconcilers, NEW k \in recs'[c].rows, k \in recs'[c].blind,
                      markers'[k].status = "pending"
               PROVE  markers'[k].age > ReconcileMax
    BY DEF BlindIsOld
  <2>1. k \in recs[c].rows /\ k \in recs[c].blind /\ k \in Keys
    BY RowsAreKeys DEF NothingSpent
  <2>2. markers[k].status = "pending" /\ markers'[k].age >= markers[k].age
    BY <2>1 DEF NothingSpent
  <2>3. markers[k].age > ReconcileMax
    BY <2>1, <2>2 DEF DurableInv, BlindIsOld
  <2> QED BY <1>2, <2>1, <2>2, <2>3
<1>4. SpentIsDurable'
  <2> SUFFICES ASSUME NEW k \in Keys, markers'[k].status = "spent", markers'[k].age <= ReconcileMax
               PROVE  disk'[k].moves > 0 \/ k \in unsaved'
    BY DEF SpentIsDurable
  <2>1. markers[k].status = "spent" /\ markers'[k].age >= markers[k].age
    BY DEF NothingSpent
  <2>2. Safe(k)
    BY <1>2, <2>1 DEF DurableInv, SpentIsDurable, Safe
  <2> QED BY <2>2 DEF Saved, Safe
<1> QED BY <1>1, <1>3, <1>4 DEF DurableInv

\* Steps that leave the Mind and the markers alone.
LEMMA MindStaysSaved ==
  ASSUME MovesAreSaved, UNCHANGED <<mind, unsaved>>
  PROVE  Saved
  BY DEF Saved, MovesAreSaved, mind

LEMMA InvocationDurable ==
  ASSUME TypeOK, TypeOK', DurableInv, EscrowInv, NEW r \in Requests,
         Authorize(r) \/ Spend(r) \/ WorkerDies(r) \/ CallLost(r)
  PROVE  DurableInv'
<1>1. UNCHANGED <<mind, recs, unsaved>>
  BY DEF Authorize, Spend, WorkerDies, CallLost, history
<1>2. Saved
  BY <1>1, MindStaysSaved DEF DurableInv
<1>3. ToldAgain
  <2>1. ASSUME NEW q \in Requests
        PROVE  reqs'[q].key = reqs[q].key /\ (reqs'[q].call = "ok" => reqs[q].call = "ok")
    <3>1. CASE \E pc, replay : reqs' = [reqs EXCEPT ![r] = Step(r, pc, replay, "sent")]
                               \/ reqs' = [reqs EXCEPT ![r] = Step(r, pc, replay, "lost")]
      <4>1. PICK x : /\ x.key = reqs[r].key /\ x.call \in {"sent", "lost"}
                     /\ reqs' = [reqs EXCEPT ![r] = x]
        BY <3>1 DEF Step
      <4>2. reqs \in [Requests -> Request]
        BY DEF TypeOK
      <4>3. CASE q = r
        BY <4>1, <4>2, <4>3
      <4>4. CASE q # r
        BY <4>1, <4>2, <4>4
      <4> QED BY <4>3, <4>4
    <3>2. CASE \E pc : reqs' = [reqs EXCEPT ![r].pc = pc]
      BY <3>2 DEF TypeOK, Request
    <3> QED BY <3>1, <3>2 DEF Authorize, Spend, WorkerDies, CallLost, Charge, Replay, Reject
  <2> QED BY <1>1, <2>1 DEF ToldAgain
<1>4. NothingSpent
  <2>1. CASE UNCHANGED markers
    BY <1>1, <2>1, AgesAreIntegers DEF NothingSpent
  <2>2. CASE reqs[r].pc = "authed" /\ Charge(r)
    <3> DEFINE j == reqs[r].key
    <3>1. j \in Keys /\ \A c \in Reconcilers : j \notin recs[c].rows
      BY <2>2 DEF EscrowInv, PassIsAlone, Active, TypeOK, Request
    <3>2. markers'[j].status = "pending" /\ \A k \in Keys \ {j} : markers'[k] = markers[k]
      BY <2>2, <3>1 DEF Charge, TypeOK
    <3> HIDE DEF j
    <3> QED BY <1>1, <3>1, <3>2, AgesAreIntegers DEF NothingSpent
  <2> QED BY <2>1, <2>2 DEF Authorize, Spend, WorkerDies, CallLost, Replay, Reject, d1
<1> QED BY <1>2, <1>3, <1>4, NothingSpentDurable

\* A marker is closed as spent by who was told of a success, or once it is past
\* the hard bound.
LEMMA SettleDurable ==
  ASSUME TypeOK, TypeOK', DurableInv, UNCHANGED <<mind, unsaved>>, NEW k \in Keys, Settle(k),
         markers[k].status = "pending" => Safe(k) \/ markers[k].age > ReconcileMax,
         ToldAgain,
         \A c \in Reconcilers : recs'[c].rows \subseteq recs[c].rows
                                /\ recs'[c].blind \subseteq recs[c].blind
  PROVE  DurableInv'
<1>1. \A j \in Keys : /\ markers'[j].age = markers[j].age
                      /\ markers'[j].status = "pending" => markers[j].status = "pending"
                      /\ markers'[j].status = "spent" =>
                           markers[j].status = "spent" \/ (j = k /\ markers[k].status = "pending")
  <2>1. CASE markers' = markers
    BY <2>1, AgesAreIntegers
  <2>2. CASE markers[k].status = "pending" /\ markers' = [markers EXCEPT ![k].status = "spent"]
    BY <2>2 DEF TypeOK, Marker
  <2> QED BY <2>1, <2>2 DEF Settle
<1>2. Saved
  BY MindStaysSaved DEF DurableInv
<1>3. MovesAreSaved' /\ ToldIsSaved'
  BY <1>2, ToldStays DEF DurableInv, Saved, MovesAreSaved
<1>4. BlindIsOld'
  <2> SUFFICES ASSUME NEW c \in Reconcilers, NEW j \in recs'[c].rows, j \in recs'[c].blind,
                      markers'[j].status = "pending"
               PROVE  markers'[j].age > ReconcileMax
    BY DEF BlindIsOld
  <2>1. j \in recs[c].rows /\ j \in recs[c].blind /\ j \in Keys
    BY RowsAreKeys
  <2> QED BY <1>1, <2>1 DEF DurableInv, BlindIsOld
<1>5. SpentIsDurable'
  <2> SUFFICES ASSUME NEW j \in Keys, markers'[j].status = "spent", markers'[j].age <= ReconcileMax
               PROVE  Safe(j)
    BY DEF SpentIsDurable, Safe, mind
  <2>1. CASE markers[j].status = "spent"
    BY <1>1, <2>1 DEF DurableInv, SpentIsDurable, Safe
  <2>2. CASE j = k /\ markers[k].status = "pending"
    BY <1>1, <2>2, AgesAreIntegers
  <2> QED BY <1>1, <2>1, <2>2
<1> QED BY <1>3, <1>4, <1>5 DEF DurableInv

LEMMA RefundSpendsNothing ==
  ASSUME TypeOK, NEW k \in Keys, Refund(k) \/ UNCHANGED d1
  PROVE  \A j \in Keys : /\ markers'[j].age = markers[j].age
                         /\ markers'[j].status \in {"pending", "spent", "none"} =>
                              markers'[j] = markers[j]
<1>1. CASE UNCHANGED markers
  BY <1>1
<1>2. CASE markers' = [markers EXCEPT ![k].status = "refunded"]
  BY <1>2 DEF TypeOK, Marker
<1> QED BY <1>1, <1>2 DEF Refund, d1

LEMMA FinishDurable ==
  ASSUME TypeOK, TypeOK', DurableInv, NEW r \in Requests, Finish(r)
  PROVE  DurableInv'
<1>1. UNCHANGED <<mind, recs, unsaved>> /\ reqs' = [reqs EXCEPT ![r].pc = "done"] /\ reqs[r].key \in Keys
  BY DEF Finish, TypeOK, Request, history
<1>2. Saved
  BY <1>1, MindStaysSaved DEF DurableInv
<1>3. ToldAgain
  BY <1>1 DEF ToldAgain, TypeOK, Request
<1>4. CASE reqs[r].call = "ok" /\ Settle(reqs[r].key)
  <2>1. Safe(reqs[r].key)
    BY <1>4 DEF DurableInv, ToldIsSaved, Safe
  <2> QED BY <1>1, <1>3, <1>4, <2>1, SettleDurable
<1>5. CASE Refund(reqs[r].key) \/ UNCHANGED d1
  <2>1. \A j \in Keys : /\ markers'[j].age = markers[j].age
                        /\ markers'[j].status \in {"pending", "spent", "none"} =>
                             markers'[j] = markers[j]
    BY <1>1, <1>5, RefundSpendsNothing
  <2>2. NothingSpent
    BY <1>1, <2>1, AgesAreIntegers DEF NothingSpent
  <2> QED BY <1>2, <1>3, <2>2, NothingSpentDurable
<1> QED BY <1>4, <1>5 DEF Finish, Close

LEMMA PassDurable ==
  ASSUME TypeOK, TypeOK', DurableInv, EscrowInv, NEW c \in Reconcilers,
         \/ ReconcileStart(c) \/ ReconcileBlind(c) \/ ReconcileAsk(c)
         \/ ReconcileResolve(c) \/ ReconcileDies(c)
  PROVE  DurableInv'
<1>1. UNCHANGED <<mind, reqs, unsaved>> /\ recs[c].rows \subseteq Keys /\ recs[c].row \subseteq Keys
  BY RowsAreKeys DEF ReconcileStart, ReconcileBlind, ReconcileAsk, ReconcileResolve, ReconcileDies, history
<1>2. Saved
  BY <1>1, MindStaysSaved DEF DurableInv
<1>3. ASSUME NEW k, recs' = [recs EXCEPT ![c] = NextRow(c, k)] \/ recs' = [recs EXCEPT ![c] = IdlePass]
      PROVE  /\ ToldAgain
             /\ \A d \in Reconcilers : recs'[d].rows \subseteq recs[d].rows
                                       /\ recs'[d].blind \subseteq recs[d].blind
  <2>1. \A d \in Reconcilers : d # c => recs'[d] = recs[d]
    BY <1>3 DEF TypeOK
  <2>2. /\ recs'[c].pc # "answered" /\ recs'[c].rows \subseteq recs[c].rows
        /\ recs'[c].blind \subseteq recs[c].blind
    BY <1>3 DEF NextRow, IdlePass, TypeOK
  <2> QED BY <1>1, <2>1, <2>2 DEF ToldAgain
<1>4. ASSUME NEW k \in Keys, recs' = [recs EXCEPT ![c] = NextRow(c, k)],
             Refund(k)
      PROVE  DurableInv'
  <2>1. \A j \in Keys : /\ markers'[j].age = markers[j].age
                        /\ markers'[j].status \in {"pending", "spent", "none"} =>
                             markers'[j] = markers[j]
    BY <1>4, RefundSpendsNothing
  <2>2. /\ ToldAgain
        /\ \A d \in Reconcilers : recs'[d].rows \subseteq recs[d].rows
                                  /\ recs'[d].blind \subseteq recs[d].blind
    BY <1>3, <1>4
  <2>3. NothingSpent
    BY <2>1, <2>2, AgesAreIntegers DEF NothingSpent
  <2> QED BY <1>2, <2>2, <2>3, NothingSpentDurable
<1>5. CASE ReconcileBlind(c)
  <2>1. PICK k \in recs[c].rows \cap recs[c].blind :
               Settle(k) /\ recs' = [recs EXCEPT ![c] = NextRow(c, k)]
    BY <1>5 DEF ReconcileBlind
  <2>2. k \in Keys /\ (markers[k].status = "pending" => markers[k].age > ReconcileMax)
    BY <1>1 DEF DurableInv, BlindIsOld
  <2> QED BY <1>1, <1>3, <2>1, <2>2, SettleDurable
<1>6. CASE ReconcileResolve(c)
  <2>1. PICK k \in recs[c].row :
               /\ IF recs[c].applied THEN Settle(k) ELSE Refund(k)
               /\ recs' = [recs EXCEPT ![c] = NextRow(c, k)]
    BY <1>6 DEF ReconcileResolve
  <2>2. CASE recs[c].applied
    <3>1. k \in Keys /\ Safe(k)
      BY <1>1, <1>6, <2>2 DEF ReconcileResolve, DurableInv, ToldIsSaved, Safe
    <3> QED BY <1>1, <1>3, <2>1, <2>2, <3>1, SettleDurable
  <2>3. CASE ~recs[c].applied
    BY <1>1, <1>4, <2>1, <2>3
  <2> QED BY <2>2, <2>3
<1>7. CASE ReconcileDies(c)
  <2>1. UNCHANGED markers /\ recs' = [recs EXCEPT ![c] = IdlePass]
    BY <1>7 DEF ReconcileDies, d1
  <2>2. NothingSpent
    BY <1>3, <2>1, AgesAreIntegers DEF NothingSpent
  <2> QED BY <1>2, <1>3, <2>1, <2>2, NothingSpentDurable
<1>8. CASE ReconcileAsk(c)
  <2>1. UNCHANGED markers
    BY <1>8 DEF ReconcileAsk, d1
  <2>2. PICK k \in recs[c].rows : \E applied \in Readings(k) :
          recs' = [recs EXCEPT ![c] =
            [pc |-> "answered", rows |-> recs[c].rows, blind |-> recs[c].blind,
             row |-> {k}, applied |-> applied, misread |-> applied # cache[k].known]]
    BY <1>8 DEF ReconcileAsk
  <2>3. cache[k].known => disk'[k].moves > 0 \/ k \in unsaved'
    BY <1>1 DEF DurableInv, MovesAreSaved, mind
  <2>4. /\ \A d \in Reconcilers : d # c => recs'[d] = recs[d]
        /\ recs'[c].row = {k} /\ (recs'[c].applied => cache[k].known)
        /\ recs'[c].rows = recs[c].rows /\ recs'[c].blind = recs[c].blind
    <3>1. PICK applied \in Readings(k) :
            recs' = [recs EXCEPT ![c] =
              [pc |-> "answered", rows |-> recs[c].rows, blind |-> recs[c].blind,
               row |-> {k}, applied |-> applied, misread |-> applied # cache[k].known]]
      BY <2>2
    <3>2. applied => cache[k].known
      BY DEF Readings
    <3> QED BY <3>1, <3>2 DEF TypeOK
  <2>5. ToldAgain
    BY <1>1, <2>3, <2>4 DEF ToldAgain
  <2>6. NothingSpent
    BY <2>1, <2>4, AgesAreIntegers DEF NothingSpent
  <2> QED BY <1>2, <2>5, <2>6, NothingSpentDurable
<1>9. CASE ReconcileStart(c)
  <2>1. UNCHANGED markers
    BY <1>9 DEF ReconcileStart, d1
  <2>2. PICK rows \in SUBSET Stale :
          recs' = [recs EXCEPT ![c] =
            [pc |-> "scan", rows |-> rows,
             blind |-> {k \in rows : markers[k].age > ReconcileMax},
             row |-> {}, applied |-> FALSE, misread |-> FALSE]]
    BY <1>9 DEF ReconcileStart
  <2>3. /\ \A d \in Reconcilers : d # c => recs'[d] = recs[d]
        /\ recs'[c].pc = "scan"
        /\ \A k \in recs'[c].blind : markers[k].age > ReconcileMax
    BY <2>2 DEF TypeOK
  <2>4. ToldAgain
    BY <1>1, <2>3 DEF ToldAgain
  <2>5. MovesAreSaved' /\ ToldIsSaved'
    BY <1>2, <2>4, ToldStays DEF DurableInv, Saved, MovesAreSaved
  <2>6. BlindIsOld' /\ SpentIsDurable'
    BY <1>1, <2>1, <2>3 DEF DurableInv, BlindIsOld, SpentIsDurable, mind
  <2> QED BY <2>5, <2>6 DEF DurableInv
<1> QED BY <1>5, <1>6, <1>7, <1>8, <1>9

LEMMA PrunedMoves ==
  ASSUME NEW m \in [Keys -> Record], NEW k \in Keys
  PROVE  Pruned(m)[k].moves = m[k].moves /\ (Pruned(m)[k].known => m[k].known)
  BY DEF Pruned

\* A move that is applied is saved with its record, or its key counts as unsaved;
\* nothing else adds one.
LEMMA MindDurable ==
  ASSUME TypeOK, TypeOK', DurableInv,
         MindRead \/ MindSaves \/ MindReloads \/ MindRestarts \/ \E r \in Requests : MindMove(r)
  PROVE  DurableInv'
<1> USE DEF DurableInv
<1>1. /\ \A k \in Keys : cache[k].moves \in Nat /\ disk[k].moves \in Nat
      /\ cache \in [Keys -> Record] /\ disk \in [Keys -> Record]
  BY DEF TypeOK, Record
<1>2. UNCHANGED <<markers, recs>>
  BY DEF MindRead, MindSaves, MindReloads, MindRestarts, MindMove, d1
<1>3. NothingSpent
  BY <1>2, AgesAreIntegers DEF NothingSpent
<1>4. CASE MindRead \/ MindSaves \/ MindReloads \/ MindRestarts
  <2>1. Saved
    <3>1. /\ unsaved' = unsaved
          /\ cache' = Pruned(cache) \/ cache' = cache \/ cache' = disk
          /\ disk' = disk \/ (disk' = cache /\ cache' = cache)
      BY <1>4 DEF MindRead, MindSaves, MindReloads, MindRestarts, history
    <3> QED BY <1>1, <3>1, PrunedMoves DEF Saved, MovesAreSaved
  <2>2. \A q \in Requests : reqs'[q].key = reqs[q].key /\ (reqs'[q].call = "ok" => reqs[q].call = "ok")
    BY <1>4 DEF MindRead, MindSaves, MindReloads, MindRestarts, Step, TypeOK
  <2> QED BY <1>2, <1>3, <2>1, <2>2, NothingSpentDurable DEF ToldAgain
<1>5. ASSUME NEW r \in Requests, MindMove(r) PROVE DurableInv'
  <2> DEFINE k == reqs[r].key
             P == Pruned(cache)
  <2>1. k \in Keys /\ P \in [Keys -> Record] /\ \A j \in Keys : P[j].moves \in Nat
    BY <1>1, PrunedType DEF TypeOK, Request, Record
  <2>2. \A j \in Keys : P[j].moves = cache[j].moves /\ (P[j].known => cache[j].known)
    BY <1>1, PrunedMoves
  <2>3. \A q \in Requests : q # r => reqs'[q] = reqs[q]
    BY <1>5 DEF MindMove, MindHit, MindRefuse, MindApply, MindApplyUnsaved, TypeOK
  <2>4. reqs'[r].key = reqs[r].key
    BY <1>5 DEF MindMove, MindHit, MindRefuse, MindApply, MindApplyUnsaved, TypeOK, Request, Step
  <2>5. CASE MindHit(r) \/ MindRefuse(r)
    <3>1. Saved
      BY <1>1, <2>2, <2>5 DEF MindHit, MindRefuse, Saved, MovesAreSaved
    <3>2. reqs'[r].call = "ok" => disk'[k].moves > 0 \/ k \in unsaved'
      BY <2>1, <2>2, <2>5 DEF MindHit, MindRefuse, MovesAreSaved, TypeOK, Request
    <3>3. ToldAgain
      BY <1>2, <2>3, <2>4, <3>2 DEF ToldAgain
    <3> QED BY <1>3, <3>1, <3>3, NothingSpentDurable
  <2>6. CASE MindApply(r)
    <3>1. cache' = Applied(P, k) /\ disk' = cache' /\ unsaved' = unsaved
      BY <2>6 DEF MindApply
    <3>2. /\ cache'[k].moves = P[k].moves + 1
          /\ \A j \in Keys \ {k} : cache'[j] = P[j]
      BY <2>1, <3>1 DEF Applied
    <3> HIDE DEF P, k
    <3>3. Saved
      BY <1>1, <2>1, <2>2, <3>1, <3>2 DEF Saved, MovesAreSaved
    <3>4. ToldAgain
      BY <1>2, <2>1, <2>3, <2>4, <3>1, <3>2, <2>2, <1>1 DEF ToldAgain, k
    <3> QED BY <1>3, <3>3, <3>4, NothingSpentDurable
  <2>7. CASE MindApplyUnsaved(r)
    <3>1. cache' = Applied(P, k) /\ disk' = disk /\ unsaved' = unsaved \cup {k}
      BY <2>7 DEF MindApplyUnsaved
    <3>2. \A j \in Keys \ {k} : cache'[j] = P[j]
      BY <2>1, <3>1 DEF Applied
    <3>3. reqs'[r].call # "ok"
      BY <2>7 DEF MindApplyUnsaved, TypeOK, Step
    <3> HIDE DEF P, k
    <3>4. Saved
      BY <1>1, <2>1, <2>2, <3>1, <3>2 DEF Saved, MovesAreSaved
    <3>5. ToldAgain
      BY <1>2, <2>3, <2>4, <3>3 DEF ToldAgain
    <3> QED BY <1>3, <3>4, <3>5, NothingSpentDurable
  <2> QED BY <1>5, <2>5, <2>6, <2>7 DEF MindMove
<1> QED BY <1>4, <1>5

LEMMA OthersDurable ==
  ASSUME TypeOK, TypeOK', DurableInv,
         \/ PruneSpends \/ DeleteAccount \/ Grant \/ Revoke \/ DeleteSees \/ DeletionDies
         \/ UNCHANGED vars
  PROVE  DurableInv'
<1>1. UNCHANGED <<mind, recs, reqs, unsaved>>
  BY DEF PruneSpends, DeleteAccount, Grant, Revoke, DeleteSees, DeletionDies, vars, mind, history
<1>2. \A k \in Keys : markers'[k] = markers[k] \/ markers'[k] = NoMarker
  BY DEF PruneSpends, DeleteAccount, Grant, Revoke, DeleteSees, DeletionDies, vars, d1
<1>3. Saved
  BY <1>1, MindStaysSaved DEF DurableInv
<1>4. ToldAgain
  BY <1>1 DEF ToldAgain
<1>5. NothingSpent
  BY <1>1, <1>2, AgesAreIntegers DEF NothingSpent, NoMarker
<1> QED BY <1>3, <1>4, <1>5, NothingSpentDurable

LEMMA TickDurable ==
  ASSUME TypeOK, TypeOK', DurableInv, Tick
  PROVE  DurableInv'
<1>1. UNCHANGED <<recs, reqs, unsaved>>
  BY DEF Tick, history
<1>2. \A k \in Keys : /\ markers'[k].status = markers[k].status
                      /\ markers'[k].age >= markers[k].age
  <2>1. \A a \in Ages : Older(a) >= a
    BY PeriodAssumption DEF Older, Ages
  <2>2. \A k \in Keys : markers[k].age \in Ages
    BY DEF TypeOK, Marker
  <2>3. \A k \in Keys : /\ markers'[k].status = markers[k].status
                        /\ markers'[k].age = markers[k].age \/ markers'[k].age = Older(markers[k].age)
    BY DEF Tick, TypeOK, Marker
  <2> QED BY <2>1, <2>2, <2>3, AgesAreIntegers
<1>3. \A k \in Keys : /\ cache'[k].moves = cache[k].moves /\ cache'[k].known = cache[k].known
                      /\ disk'[k].moves = disk[k].moves /\ disk'[k].known = disk[k].known
  BY DEF Tick, TypeOK, Record, Aged
<1>4. Saved
  BY <1>1, <1>3 DEF Saved, DurableInv, MovesAreSaved
<1>5. ToldAgain
  BY <1>1 DEF ToldAgain
<1>6. NothingSpent
  BY <1>1, <1>2 DEF NothingSpent
<1> QED BY <1>4, <1>5, <1>6, NothingSpentDurable

LEMMA InitDurable == Init => DurableInv
<1> SUFFICES ASSUME Init PROVE DurableInv
  OBVIOUS
<1>1. \A k \in Keys : cache[k] = NoRecord /\ disk[k] = NoRecord /\ markers[k] = NoMarker
  BY DEF Init
<1>2. /\ \A r \in Requests : reqs[r].call = "none"
      /\ \A c \in Reconcilers : recs[c] = IdlePass
  BY DEF Init
<1>3. MovesAreSaved /\ SpentIsDurable
  BY <1>1 DEF MovesAreSaved, SpentIsDurable, NoRecord, NoMarker
<1>4. ToldIsSaved /\ BlindIsOld
  BY <1>2 DEF ToldIsSaved, BlindIsOld, IdlePass
<1> QED BY <1>3, <1>4 DEF DurableInv

LEMMA NextDurable ==
  ASSUME TypeOK, TypeOK', EscrowInv, DurableInv, [Next]_vars
  PROVE  DurableInv'
<1>1. ASSUME NEW r \in Requests,
             Authorize(r) \/ Spend(r) \/ Finish(r) \/ WorkerDies(r) \/ CallLost(r)
      PROVE  DurableInv'
  BY <1>1, InvocationDurable, FinishDurable
<1>2. CASE MindRead \/ MindSaves \/ MindReloads \/ MindRestarts \/ \E r \in Requests : MindMove(r)
  BY <1>2, MindDurable
<1>3. ASSUME NEW c \in Reconcilers,
             \/ ReconcileStart(c) \/ ReconcileBlind(c) \/ ReconcileAsk(c)
             \/ ReconcileResolve(c) \/ ReconcileDies(c)
      PROVE  DurableInv'
  BY <1>3, PassDurable
<1>4. CASE \/ PruneSpends \/ DeleteAccount \/ Grant \/ Revoke \/ DeleteSees \/ DeletionDies
           \/ UNCHANGED vars
  BY <1>4, OthersDurable
<1>5. CASE Tick
  BY <1>5, TickDurable
<1> QED BY <1>1, <1>2, <1>3, <1>4, <1>5 DEF Next

\* A charge that was closed as spent because the Mind said so, to the invocation
\* or to a pass, is for a move that is in storage, unless a save of that very key
\* failed: for any number of clients, keys and passes, whatever restarts, and
\* whichever saves fail.  A failed save of one key never costs another its move
\* (auth.ts 409-424, index.ts 575-586 and 280-284).
THEOREM SpentIsDurableEver == GentleEnvironment => (Spec => []SpentIsDurable)
<1> SUFFICES ASSUME GentleEnvironment PROVE Spec => []SpentIsDurable
  OBVIOUS
<1>1. Init => TypeOK /\ EscrowInv /\ DurableInv
  BY InitType, InitEscrow, InitDurable
<1>2. TypeOK /\ EscrowInv /\ DurableInv /\ [Next]_vars => (TypeOK /\ EscrowInv /\ DurableInv)'
  BY NextType, NextEscrow, NextDurable
<1>3. DurableInv => SpentIsDurable
  BY DEF DurableInv
<1> QED BY <1>1, <1>2, <1>3, PTL DEF Spec

-----------------------------------------------------------------------------
(* A new charge is not for a success that the Mind would only repeat.       *)

\* A marker stays a marker, of the same age, and none is made.
MarkersStay ==
  \A k \in Keys : /\ markers'[k].status = "none" <=> markers[k].status = "none"
                  /\ markers[k].status # "none" => markers'[k].age = markers[k].age

\* The record of k in the Mind n is one of m, or was just made while the marker
\* was in the retry window.
FromOrNew(n, m, k) ==
  n[k].known =>
    \/ m[k].known /\ n[k].age = m[k].age
    \/ ~closed => markers[k].status # "none" /\ markers[k].age <= n[k].age + RetryWindow

LEMMA StaysFresh ==
  ASSUME TypeOK, FreshInv, MarkersStay, UNCHANGED closed,
         \A r \in Requests : /\ reqs'[r].key = reqs[r].key
                             /\ reqs'[r].call = "sent" => reqs[r].call = "sent",
         \A k \in Keys : /\ FromOrNew(cache', cache, k) \/ FromOrNew(cache', disk, k)
                         /\ FromOrNew(disk', cache, k) \/ FromOrNew(disk', disk, k)
  PROVE  FreshInv'
<1>1. SentIsRecent'
  <2> SUFFICES ASSUME NEW r \in Requests, reqs'[r].call = "sent", ~closed'
               PROVE  /\ markers'[reqs'[r].key].status # "none"
                      /\ markers'[reqs'[r].key].age <= RetryWindow
    BY DEF SentIsRecent
  <2>1. reqs[r].key \in Keys /\ reqs'[r].key = reqs[r].key
    BY DEF TypeOK, Request
  <2>2. markers[reqs[r].key].status # "none" /\ markers[reqs[r].key].age <= RetryWindow
    BY DEF FreshInv, SentIsRecent
  <2> QED BY <2>1, <2>2 DEF MarkersStay
<1>2. ASSUME NEW n, NEW k \in Keys, n[k].known, ~closed',
             FromOrNew(n, cache, k) \/ FromOrNew(n, disk, k)
      PROVE  IF markers'[k].status = "none" THEN n[k].age > IdempotencyTtl
             ELSE markers'[k].age <= n[k].age + RetryWindow
  BY <1>2 DEF FromOrNew, FreshInv, Fades, MarkersStay
<1>3. Fades(cache)' /\ Fades(disk)'
  BY <1>2 DEF Fades
<1> QED BY <1>1, <1>3 DEF FreshInv

LEMMA SameIsFrom ==
  ASSUME NEW n, NEW m, NEW k, n[k] = m[k]
  PROVE  FromOrNew(n, m, k)
  BY DEF FromOrNew

\* Steps that leave the Mind alone, and make no marker.
LEMMA QuietFresh ==
  ASSUME TypeOK, FreshInv, MarkersStay, UNCHANGED <<closed, mind>>,
         \A r \in Requests : /\ reqs'[r].key = reqs[r].key
                             /\ reqs'[r].call = "sent" => reqs[r].call = "sent"
  PROVE  FreshInv'
<1>1. \A k \in Keys : FromOrNew(cache', cache, k) /\ FromOrNew(disk', disk, k)
  BY SameIsFrom DEF mind
<1> QED BY <1>1, StaysFresh

LEMMA SettleStays ==
  ASSUME TypeOK, NEW k \in Keys, Settle(k) \/ Refund(k) \/ UNCHANGED d1
  PROVE  MarkersStay
<1>1. CASE markers' = markers
  BY <1>1 DEF MarkersStay
<1>2. CASE markers[k].status = "pending"
           /\ (markers' = [markers EXCEPT ![k].status = "spent"]
               \/ markers' = [markers EXCEPT ![k].status = "refunded"])
  <2>1. \A j \in Keys \ {k} : markers'[j] = markers[j]
    BY <1>2 DEF TypeOK
  <2>2. markers'[k].status # "none" /\ markers'[k].age = markers[k].age
    BY <1>2 DEF TypeOK, Marker
  <2> QED BY <1>2, <2>1, <2>2 DEF MarkersStay
<1> QED BY <1>1, <1>2 DEF Settle, Refund, d1

LEMMA SpendFresh ==
  ASSUME TypeOK, FreshInv, EscrowInv, NEW r \in Requests, Spend(r)
  PROVE  FreshInv'
<1> DEFINE j == reqs[r].key
<1>1. /\ reqs[r].pc = "authed" /\ j \in Keys /\ UNCHANGED <<closed, cache, disk>>
      /\ markers[j].status # "pending"
      /\ markers[j].status = "spent" => markers[j].age <= RetryWindow
  BY DEF Spend, EscrowInv, AuthedKeyIsFree, TypeOK, Request, mind
<1>2. CASE Reject(r)
  <2>1. MarkersStay /\ \A q \in Requests : /\ reqs'[q].key = reqs[q].key
                                           /\ reqs'[q].call = "sent" => reqs[q].call = "sent"
    BY <1>2 DEF Reject, MarkersStay, d1, TypeOK, Request
  <2> QED BY <1>1, <2>1, QuietFresh DEF mind
<1>3. CASE Charge(r) \/ Replay(r)
  <2>1. \A q \in Requests : /\ reqs'[q].key = reqs[q].key
                            /\ q # r => reqs'[q] = reqs[q]
    BY <1>3 DEF Charge, Replay, Step, TypeOK, Request
  <2>2. /\ \A k \in Keys \ {j} : markers'[k] = markers[k]
        /\ markers'[j].status # "none" /\ markers'[j].age <= RetryWindow
        /\ \/ markers'[j] = markers[j]
           \/ markers[j].status = "none" /\ markers'[j].age = 0
    <3>1. CASE Charge(r)
      BY <1>1, <3>1, PeriodAssumption DEF Charge, TypeOK
    <3>2. CASE Replay(r)
      BY <1>1, <3>2 DEF Replay, d1
    <3> QED BY <1>3, <3>1, <3>2
  <2>3. ASSUME NEW m, m \in [Keys -> Record], Fades(m), NEW k \in Keys, m[k].known, ~closed
        PROVE  IF markers'[k].status = "none" THEN m[k].age > IdempotencyTtl
               ELSE markers'[k].age <= m[k].age + RetryWindow
    <3>1. CASE markers'[k] = markers[k]
      BY <2>3, <3>1 DEF Fades
    <3>2. CASE markers'[k].status # "none" /\ markers'[k].age = 0
      BY <2>3, <3>2, PeriodAssumption DEF Record, Ages
    <3> QED BY <2>2, <3>1, <3>2
  <2>4. Fades(cache)' /\ Fades(disk)'
    BY <1>1, <2>3 DEF Fades, FreshInv, TypeOK
  <2>5. SentIsRecent'
    <3> SUFFICES ASSUME NEW q \in Requests, reqs'[q].call = "sent", ~closed
                 PROVE  /\ markers'[reqs[q].key].status # "none"
                        /\ markers'[reqs[q].key].age <= RetryWindow
      BY <1>1, <2>1 DEF SentIsRecent
    <3>1. CASE reqs[q].key = j
      BY <2>2, <3>1
    <3>2. CASE reqs[q].key # j
      <4>1. q # r /\ reqs[q].key \in Keys \ {j}
        BY <3>2 DEF TypeOK, Request
      <4> QED BY <2>1, <2>2, <4>1 DEF FreshInv, SentIsRecent
    <3> QED BY <3>1, <3>2
  <2> QED BY <2>4, <2>5 DEF FreshInv
<1> QED BY <1>2, <1>3 DEF Spend

LEMMA PrunedFrom ==
  ASSUME NEW m \in [Keys -> Record], NEW k \in Keys
  PROVE  FromOrNew(Pruned(m), m, k)
  BY DEF FromOrNew, Pruned

LEMMA MindFresh ==
  ASSUME TypeOK, FreshInv,
         MindRead \/ MindSaves \/ MindReloads \/ MindRestarts \/ \E r \in Requests : MindMove(r)
  PROVE  FreshInv'
<1>1. cache \in [Keys -> Record] /\ disk \in [Keys -> Record]
  BY DEF TypeOK
<1>2. UNCHANGED <<markers, closed>> /\ MarkersStay
  BY DEF MindRead, MindSaves, MindReloads, MindRestarts, MindMove, d1, MarkersStay
<1>3. CASE MindRead \/ MindSaves \/ MindReloads \/ MindRestarts
  <2>1. \A q \in Requests : reqs'[q].key = reqs[q].key /\ (reqs'[q].call = "sent" => reqs[q].call = "sent")
    BY <1>3 DEF MindRead, MindSaves, MindReloads, MindRestarts, Step, TypeOK
  <2>2. \A k \in Keys : /\ FromOrNew(cache', cache, k) \/ FromOrNew(cache', disk, k)
                        /\ FromOrNew(disk', cache, k) \/ FromOrNew(disk', disk, k)
    <3>1. /\ cache' = Pruned(cache) \/ cache' = cache \/ cache' = disk
          /\ disk' = disk \/ disk' = cache
      BY <1>3 DEF MindRead, MindSaves, MindReloads, MindRestarts
    <3> QED BY <1>1, <3>1, PrunedFrom, SameIsFrom
  <2> QED BY <1>2, <2>1, <2>2, StaysFresh
<1>4. ASSUME NEW r \in Requests, MindMove(r) PROVE FreshInv'
  <2> DEFINE j == reqs[r].key
             P == Pruned(cache)
  <2>1. j \in Keys /\ P \in [Keys -> Record] /\ reqs[r].call = "sent"
    BY <1>1, <1>4, PrunedType DEF TypeOK, Request, MindMove
  <2>2. \A q \in Requests : reqs'[q].key = reqs[q].key /\ (reqs'[q].call = "sent" => reqs[q].call = "sent")
    BY <1>4 DEF MindMove, MindHit, MindRefuse, MindApply, MindApplyUnsaved, TypeOK, Request, Step
  <2>3. CASE cache' = P /\ disk' = disk
    BY <1>1, <1>2, <2>2, <2>3, PrunedFrom, SameIsFrom, StaysFresh
  <2>4. CASE cache' = Applied(P, j) /\ (disk' = disk \/ disk' = cache')
    <3>1. cache'[j].age = 0 /\ \A k \in Keys \ {j} : cache'[k] = P[k]
      BY <2>1, <2>4 DEF Applied
    <3>2. ~closed => markers[j].status # "none" /\ markers[j].age <= 0 + RetryWindow
      BY <2>1, PeriodAssumption DEF FreshInv, SentIsRecent
    <3>3. ASSUME NEW k \in Keys PROVE FromOrNew(cache', cache, k)
      <4>1. CASE k = j
        BY <3>1, <3>2, <4>1 DEF FromOrNew
      <4>2. CASE k # j
        <5>1. FromOrNew(P, cache, k) /\ cache'[k] = P[k]
          BY <1>1, <3>1, <4>2, PrunedFrom
        <5> HIDE DEF P
        <5> QED BY <5>1 DEF FromOrNew
      <4> QED BY <4>1, <4>2
    <3>4. \A k \in Keys : FromOrNew(disk', cache, k) \/ FromOrNew(disk', disk, k)
      BY <2>4, <3>3, SameIsFrom
    <3> QED BY <1>2, <2>2, <3>3, <3>4, StaysFresh
  <2> QED BY <1>4, <2>3, <2>4 DEF MindMove, MindHit, MindRefuse, MindApply, MindApplyUnsaved
<1> QED BY <1>3, <1>4

\* A marker that is pruned is so old that no record of its key is in retention.
LEMMA PruneFresh ==
  ASSUME LongRetention, TypeOK, FreshInv, PruneSpends
  PROVE  FreshInv'
<1>1. UNCHANGED <<closed, cache, disk, reqs>>
  BY DEF PruneSpends, mind
<1>2. \A k \in Keys : \/ k \notin Expired /\ markers'[k] = markers[k]
                      \/ k \in Expired /\ markers'[k].status = "none"
  BY DEF PruneSpends, NoMarker
<1>3. \A k \in Expired : markers[k].status # "none" /\ markers[k].age \in Nat /\ markers[k].age >= SpendTtl
  BY DEF Expired, TypeOK, Marker, Ages
<1>4. ASSUME NEW m, m \in [Keys -> Record], Fades(m), NEW k \in Keys, m[k].known, ~closed
      PROVE  IF markers'[k].status = "none" THEN m[k].age > IdempotencyTtl
             ELSE markers'[k].age <= m[k].age + RetryWindow
  <2>1. CASE markers'[k] = markers[k]
    BY <1>4, <2>1 DEF Fades
  <2>2. CASE k \in Expired /\ markers'[k].status = "none"
    <3>1. m[k].age \in Nat
      BY <1>4 DEF Record, Ages
    <3>2. markers[k].age <= m[k].age + RetryWindow
      BY <1>3, <1>4, <2>2 DEF Fades
    <3> QED BY <1>3, <2>2, <3>1, <3>2, PeriodAssumption DEF LongRetention
  <2> QED BY <1>2, <2>1, <2>2
<1>5. Fades(cache)' /\ Fades(disk)'
  BY <1>1, <1>4 DEF Fades, FreshInv, TypeOK
<1>6. SentIsRecent'
  <2> SUFFICES ASSUME NEW q \in Requests, reqs[q].call = "sent", ~closed
               PROVE  /\ markers'[reqs[q].key].status # "none"
                      /\ markers'[reqs[q].key].age <= RetryWindow
    BY <1>1 DEF SentIsRecent
  <2>1. /\ reqs[q].key \in Keys
        /\ markers[reqs[q].key].status # "none" /\ markers[reqs[q].key].age <= RetryWindow
    BY DEF FreshInv, SentIsRecent, TypeOK, Request
  <2>2. reqs[q].key \notin Expired
    BY <1>3, <2>1, PeriodAssumption DEF LongRetention
  <2> QED BY <1>2, <2>1, <2>2
<1> QED BY <1>5, <1>6 DEF FreshInv

LEMMA TickFresh ==
  ASSUME GentleEnvironment, TypeOK, FreshInv, Tick
  PROVE  FreshInv'
<1>1. (\A r \in Requests : reqs'[r].call # "sent") /\ UNCHANGED closed
  BY DEF Tick, GentleEnvironment, Active
<1>2. \A k \in Keys :
        /\ markers'[k].status = markers[k].status
        /\ markers[k].status # "none" => markers'[k].age = Older(markers[k].age)
  BY DEF Tick, TypeOK, Marker
<1>3. \A k \in Keys :
        /\ cache'[k].known = cache[k].known /\ disk'[k].known = disk[k].known
        /\ cache[k].known => cache'[k].age = Older(cache[k].age)
        /\ disk[k].known => disk'[k].age = Older(disk[k].age)
  BY DEF Tick, TypeOK, Record, Aged
<1>4. ASSUME NEW m, m \in [Keys -> Record], Fades(m), NEW k \in Keys, m[k].known, ~closed
      PROVE  IF markers'[k].status = "none" THEN Older(m[k].age) > IdempotencyTtl
             ELSE markers'[k].age <= Older(m[k].age) + RetryWindow
  <2>1. m[k].age \in Ages /\ markers[k].age \in Ages
    BY <1>4 DEF Record, TypeOK, Marker
  <2>2. IF markers[k].status = "none" THEN m[k].age > IdempotencyTtl
        ELSE markers[k].age <= m[k].age + RetryWindow
    BY <1>4 DEF Fades
  <2>3. \A a \in Ages : /\ Older(a) \in a .. SpendTtl /\ Older(a) <= a + 1
                        /\ Older(a) = a + 1 \/ Older(a) = SpendTtl
    BY PeriodAssumption DEF Older, Ages
  <2>4. m[k].age \in Int /\ markers[k].age \in Int
    BY <2>1 DEF Ages
  <2>5. CASE markers[k].status = "none"
    BY <1>2, <2>1, <2>2, <2>3, <2>4, <2>5, PeriodAssumption
  <2>6. CASE markers[k].status # "none"
    <3>1. markers'[k].status # "none" /\ markers'[k].age = Older(markers[k].age)
      BY <1>2, <2>6
    <3>2. /\ Older(markers[k].age) \in Int /\ Older(markers[k].age) <= SpendTtl
          /\ Older(markers[k].age) <= markers[k].age + 1
          /\ Older(m[k].age) \in Int
          /\ Older(m[k].age) = m[k].age + 1 \/ Older(m[k].age) = SpendTtl
      BY <2>1, <2>3
    <3> QED BY <2>2, <2>4, <2>6, <3>1, <3>2, PeriodAssumption
  <2> QED BY <2>5, <2>6
<1>5. Fades(cache)' /\ Fades(disk)'
  <2>1. cache \in [Keys -> Record] /\ disk \in [Keys -> Record] /\ Fades(cache) /\ Fades(disk)
    BY DEF TypeOK, FreshInv
  <2>2. ASSUME NEW k \in Keys, ~closed', cache'[k].known
        PROVE  IF markers'[k].status = "none" THEN cache'[k].age > IdempotencyTtl
               ELSE markers'[k].age <= cache'[k].age + RetryWindow
    <3>1. cache[k].known /\ cache'[k].age = Older(cache[k].age)
      BY <1>3, <2>2
    <3> QED BY <1>1, <1>4, <2>1, <2>2, <3>1
  <2>3. ASSUME NEW k \in Keys, ~closed', disk'[k].known
        PROVE  IF markers'[k].status = "none" THEN disk'[k].age > IdempotencyTtl
               ELSE markers'[k].age <= disk'[k].age + RetryWindow
    <3>1. disk[k].known /\ disk'[k].age = Older(disk[k].age)
      BY <1>3, <2>3
    <3> QED BY <1>1, <1>4, <2>1, <2>3, <3>1
  <2> QED BY <2>2, <2>3 DEF Fades
<1> QED BY <1>1, <1>5 DEF FreshInv, SentIsRecent

LEMMA InitFresh == Init => FreshInv
<1> SUFFICES ASSUME Init PROVE FreshInv
  OBVIOUS
<1>1. \A k \in Keys : ~cache[k].known /\ ~disk[k].known
  BY DEF Init, NoRecord
<1>2. \A r \in Requests : reqs[r].call = "none"
  BY DEF Init
<1> QED BY <1>1, <1>2 DEF FreshInv, Fades, SentIsRecent

LEMMA NextFresh ==
  ASSUME GentleEnvironment, LongRetention, TypeOK, EscrowInv, FreshInv, [Next]_vars
  PROVE  FreshInv'
<1>1. ASSUME NEW r \in Requests, Spend(r) PROVE FreshInv'
  BY <1>1, SpendFresh
<1>2. ASSUME NEW r \in Requests, Finish(r) PROVE FreshInv'
  <2>1. MarkersStay
    <3>1. reqs[r].key \in Keys
      BY DEF TypeOK, Request
    <3> QED BY <1>2, <3>1, SettleStays DEF Finish, Close
  <2> QED BY <1>2, <2>1, QuietFresh DEF Finish, TypeOK
<1>3. ASSUME NEW r \in Requests, Authorize(r) \/ WorkerDies(r) \/ CallLost(r) PROVE FreshInv'
  <2>1. \A q \in Requests : reqs'[q].key = reqs[q].key /\ (reqs'[q].call = "sent" => reqs[q].call = "sent")
    BY <1>3 DEF Authorize, WorkerDies, CallLost, Step, TypeOK, Request
  <2> QED BY <1>3, <2>1, QuietFresh DEF Authorize, WorkerDies, CallLost, d1, MarkersStay
<1>4. CASE MindRead \/ MindSaves \/ MindReloads \/ MindRestarts \/ \E r \in Requests : MindMove(r)
  BY <1>4, MindFresh
<1>5. ASSUME NEW c \in Reconcilers,
             \/ ReconcileStart(c) \/ ReconcileBlind(c) \/ ReconcileAsk(c)
             \/ ReconcileResolve(c) \/ ReconcileDies(c)
      PROVE  FreshInv'
  <2>1. UNCHANGED <<closed, mind, reqs>> /\ recs[c].rows \subseteq Keys /\ recs[c].row \subseteq Keys
    BY <1>5, RowsAreKeys DEF ReconcileStart, ReconcileBlind, ReconcileAsk, ReconcileResolve, ReconcileDies
  <2>2. UNCHANGED d1 \/ \E k \in Keys : Settle(k) \/ Refund(k)
    BY <1>5, <2>1 DEF ReconcileStart, ReconcileBlind, ReconcileAsk, ReconcileResolve, ReconcileDies
  <2>3. MarkersStay
    BY <2>2, SettleStays DEF MarkersStay, d1
  <2> QED BY <2>1, <2>3, QuietFresh
<1>6. CASE Grant \/ Revoke \/ DeleteSees \/ DeletionDies \/ UNCHANGED vars
  <2>1. UNCHANGED <<markers, closed, mind, reqs>>
    BY <1>6 DEF Grant, Revoke, DeleteSees, DeletionDies, vars, d1, mind
  <2> QED BY <2>1, QuietFresh DEF MarkersStay
<1>7. CASE DeleteAccount
  BY <1>7 DEF DeleteAccount, FreshInv, SentIsRecent, Fades
<1>8. CASE PruneSpends \/ Tick
  BY <1>8, PruneFresh, TickFresh
<1> QED BY <1>1, <1>2, <1>3, <1>4, <1>5, <1>6, <1>7, <1>8 DEF Next

\* A price is never taken for a key whose success the Mind would only repeat,
\* for any number of clients, keys and passes, and whatever fails or restarts:
\* the records of a key are past their retention when its marker is pruned
\* (auth.ts 19-22).
THEOREM FreshChargeEver ==
  GentleEnvironment /\ LongRetention => (Spec => FreshChargeBuysAMove)
<1> SUFFICES ASSUME GentleEnvironment, LongRetention PROVE Spec => FreshChargeBuysAMove
  OBVIOUS
<1>1. Init => TypeOK /\ EscrowInv /\ FreshInv
  BY InitType, InitEscrow, InitFresh
<1>2. TypeOK /\ EscrowInv /\ FreshInv /\ [Next]_vars => (TypeOK /\ EscrowInv /\ FreshInv)'
  BY NextType, NextEscrow, NextFresh
<1>3. TypeOK /\ FreshInv /\ [Next]_vars =>
        [\A k \in Keys :
           ~closed /\ markers[k].status = "none" /\ markers'[k].status = "pending"
             => ~Pruned(cache)[k].known]_vars
  <2> SUFFICES ASSUME TypeOK, FreshInv, NEW k \in Keys, ~closed, markers[k].status = "none"
               PROVE  ~Pruned(cache)[k].known
    OBVIOUS
  <2>1. cache[k].known => cache[k].age > IdempotencyTtl
    BY DEF FreshInv, Fades
  <2> QED BY <2>1 DEF Pruned
<1> QED BY <1>1, <1>2, <1>3, PTL DEF Spec, FreshChargeBuysAMove
=============================================================================
