------------------------------ MODULE PaidMoves ------------------------------
(***************************************************************************)
(* Paid moves: how one account's beliefs and shields are paid for.          *)
(*                                                                         *)
(* Every POST of a move runs in a Worker invocation of its own             *)
(* (worker/src/index.ts).  The invocation takes the price in D1 and leaves *)
(* a pending marker there (spendAccountMove, auth.ts), asks the single     *)
(* Durable Object, the Mind, to apply the move, and closes the marker as   *)
(* spent or refunded (finishAccountMove).  An invocation may die at any    *)
(* await, so the same markers are also closed by reconcile passes          *)
(* (reconcileAccountSpends: the hourly cron, GET /v1/credits, GET          *)
(* /v1/auth/session, and account deletion), which ask the Mind whether it  *)
(* remembers the key.  Markers and the Mind's records are forgotten after  *)
(* fixed periods.                                                          *)
(*                                                                         *)
(* One account is modelled: every statement is bound to one account_id or  *)
(* to a key that contains it.  A D1 batch is one step, because it is one   *)
(* transaction.  Time is an age, in steps of Tick, on everything that has  *)
(* a created_at; only the order of the four periods matters.               *)
(***************************************************************************)
EXTENDS Integers, FiniteSets

CONSTANTS
  Requests,            \* the POSTs the account's clients send
  Keys,                \* idempotency keys
  Reconcilers,         \* concurrent reconcile passes
  BeliefCost, ShieldCost, FreeShields,
  InitialCredits,      \* balance at the start
  GrantSize,           \* credits a payment event grants or revokes
  MaxLedger,           \* bound: credits ever granted, net
  ReconcileAfter,      \* PAID_SPEND_RECONCILE_MS      60 s
  ReconcileMax,        \* PAID_SPEND_RECONCILE_MAX_MS   6 days
  IdempotencyTtl,      \* the Mind's records            7 days
  SpendTtl,            \* PAID_SPEND_TTL_MS            30 days
  ReconcileBatch,      \* LIMIT of paidSpendPending
  MaxMisjudged,        \* bound: wrong refunds of a key the Mind's answers may cause
  \* The environment.
  PromptInvocations,   \* no invocation is still running a Tick later
  RetryPending,        \* a client may reuse a key that is still in use
  RetryWindow,         \* oldest resolved marker whose key a client reuses
  SaveMayFail          \* storage.put of the Mind may reject

ASSUME CostAssumption == /\ BeliefCost \in Nat \ {0}
                         /\ ShieldCost \in Nat \ {0}
                         /\ FreeShields \in Nat
ASSUME CreditAssumption == /\ InitialCredits \in Nat
                           /\ GrantSize \in Nat
                           /\ MaxLedger \in Nat
ASSUME PeriodAssumption ==
  /\ ReconcileAfter \in Nat /\ ReconcileMax \in Nat
  /\ IdempotencyTtl \in Nat /\ SpendTtl \in Nat /\ RetryWindow \in Nat
  /\ ReconcileAfter < ReconcileMax
  /\ ReconcileMax < IdempotencyTtl
  /\ IdempotencyTtl < SpendTtl
ASSUME BatchAssumption == ReconcileBatch \in Nat \ {0} /\ MaxMisjudged \in Nat
ASSUME EnvironmentAssumption ==
  /\ PromptInvocations \in BOOLEAN
  /\ RetryPending \in BOOLEAN
  /\ SaveMayFail \in BOOLEAN

VARIABLES
  markers,     \* D1 paid_spends with spend_meta, per key
  balance,     \* D1 credits.balance
  used,        \* D1 account_free_shields.used
  closed,      \* the account is tombstoned and its sessions are gone
  cache,       \* the Mind in memory, per key: moves applied, record kept
  disk,        \* the Mind in durable storage
  reqs,        \* the Worker invocations of Requests, and their calls
  recs,        \* the reconcile passes
  deletion,    \* the DELETE /v1/auth/account invocation
  ledger,      \* history: credits granted less credits revoked
  forfeited,   \* history: credits given up by deletion
  archive,     \* history: charges whose marker is gone, per key
  misjudged,   \* history: refunds made because a pass misread the Mind, per key
  unsaved      \* history: keys of which a move was applied and not saved

d1      == <<markers, balance, used>>
mind    == <<cache, disk>>
history == <<ledger, forfeited, archive, misjudged, unsaved>>
vars    == <<markers, balance, used, closed, cache, disk, reqs, recs,
             deletion, ledger, forfeited, archive, misjudged, unsaved>>

Ages == 0..SpendTtl
Moves == {"belief", "shield"}
Cost(move) == IF move = "belief" THEN BeliefCost ELSE ShieldCost

Marker == [status: {"none", "pending", "spent", "refunded"},
           kind: {"credit", "free_shield"}, amount: Nat, age: Ages]
NoMarker == [status |-> "none", kind |-> "credit", amount |-> 0, age |-> 0]

\* What the Mind holds of a key.  known: m.idempotency has a record of it.
Record == [moves: Nat, known: BOOLEAN, age: Ages]
NoRecord == [moves |-> 0, known |-> FALSE, age |-> 0]

Request == [pc: {"idle", "authed", "calling", "done", "gone"}, key: Keys,
            move: Moves, replay: BOOLEAN,
            call: {"none", "sent", "ok", "refused", "lost"}]

\* A pass: the rows it read, those it read as past the hard bound, and the
\* row (at most one) whose answer it holds.  misread (history): the Mind has a
\* record of that row and the pass reads that it has none.
Pass == [pc: {"idle", "scan", "answered"}, rows: SUBSET Keys,
         blind: SUBSET Keys, row: SUBSET Keys, applied: BOOLEAN,
         misread: BOOLEAN]
IdlePass == [pc |-> "idle", rows |-> {}, blind |-> {}, row |-> {},
             applied |-> FALSE, misread |-> FALSE]

TypeOK ==
  /\ markers \in [Keys -> Marker]
  /\ balance \in Nat
  /\ used \in Nat
  /\ closed \in BOOLEAN
  /\ cache \in [Keys -> Record]
  /\ disk \in [Keys -> Record]
  /\ reqs \in [Requests -> Request]
  /\ recs \in [Reconcilers -> Pass]
  /\ deletion \in [pc: {"idle", "seen", "done"}, seen: Nat]
  /\ ledger \in Int
  /\ forfeited \in Nat
  /\ archive \in [Keys -> [charges: Nat, credits: Nat, free: Nat]]
  /\ misjudged \in [Keys -> Nat]
  /\ unsaved \subseteq Keys

Init ==
  /\ markers = [k \in Keys |-> NoMarker]
  /\ balance = InitialCredits
  /\ used = 0
  /\ closed = FALSE
  /\ cache = [k \in Keys |-> NoRecord]
  /\ disk = cache
  /\ reqs \in [Requests -> [pc: {"idle"}, key: Keys, move: Moves,
                            replay: {FALSE}, call: {"none"}]]
  /\ recs = [c \in Reconcilers |-> IdlePass]
  /\ deletion = [pc |-> "idle", seen |-> 0]
  /\ ledger = InitialCredits
  /\ forfeited = 0
  /\ archive = [k \in Keys |-> [charges |-> 0, credits |-> 0, free |-> 0]]
  /\ misjudged = [k \in Keys |-> 0]
  /\ unsaved = {}

-----------------------------------------------------------------------------
(* A Worker invocation of a move.                                           *)

\* The invocation, or the call it left in flight, can still do something.
Active(r) == reqs[r].pc \in {"authed", "calling"} \/ reqs[r].call = "sent"

\* The invocation r, moved on.
Step(r, pc, replay, call) ==
  [pc |-> pc, key |-> reqs[r].key, move |-> reqs[r].move,
   replay |-> replay, call |-> call]

\* The site's client draws a fresh key for every POST; other clients of the
\* API may reuse one.
ClientMayUse(k) ==
  /\ markers[k].status \in {"spent", "refunded"} => markers[k].age <= RetryWindow
  /\ \/ RetryPending
     \/ /\ markers[k].status # "pending"
        /\ \A q \in Requests : reqs[q].key = k => ~Active(q)
        /\ \A c \in Reconcilers : k \notin recs[c].rows

\* requireAccount
Authorize(r) ==
  /\ reqs[r].pc = "idle"
  /\ ~closed
  /\ ClientMayUse(reqs[r].key)
  /\ reqs' = [reqs EXCEPT ![r].pc = "authed"]
  /\ UNCHANGED <<d1, closed, mind, recs, deletion, history>>

\* What pays for a move: a shield takes a free shield first.
Funding(move) ==
  IF move = "shield" /\ used < FreeShields THEN "free_shield"
  ELSE IF balance >= Cost(move) THEN "credit" ELSE "nothing"

\* The key is new and something pays for it: marker and price in one batch.
Charge(r) ==
  LET k == reqs[r].key
      kind == Funding(reqs[r].move)
      amount == IF kind = "credit" THEN Cost(reqs[r].move) ELSE 1
  IN /\ markers[k].status = "none"
     /\ kind # "nothing"
     /\ markers' = [markers EXCEPT ![k] =
          [status |-> "pending", kind |-> kind, amount |-> amount, age |-> 0]]
     /\ balance' = IF kind = "credit" THEN balance - amount ELSE balance
     /\ used' = IF kind = "free_shield" THEN used + 1 ELSE used
     /\ reqs' = [reqs EXCEPT ![r] = Step(r, "calling", FALSE, "sent")]

ReplayOfAnyMarker(r) ==
  /\ markers[reqs[r].key].status # "none"
  /\ reqs' = [reqs EXCEPT ![r] = Step(r, "calling", TRUE, "sent")]
  /\ UNCHANGED d1

\* The key has a marker that is not refunded: the call is made, nothing is
\* taken.
Replay(r) ==
  /\ markers[reqs[r].key].status \in {"pending", "spent"}
  /\ reqs' = [reqs EXCEPT ![r] = Step(r, "calling", TRUE, "sent")]
  /\ UNCHANGED d1

\* 409 idempotency_consumed, or 402.
Reject(r) ==
  /\ \/ markers[reqs[r].key].status = "refunded"
     \/ /\ markers[reqs[r].key].status = "none"
        /\ Funding(reqs[r].move) = "nothing"
  /\ reqs' = [reqs EXCEPT ![r].pc = "done"]
  /\ UNCHANGED d1

\* spendAccountMove
Spend(r) ==
  /\ reqs[r].pc = "authed"
  /\ Charge(r) \/ Replay(r) \/ Reject(r)
  /\ UNCHANGED <<closed, mind, recs, deletion, history>>

SettleUnclaimed(k) ==
  /\ markers' = [markers EXCEPT ![k].status =
                    IF @ = "none" THEN "none" ELSE "spent"]
  /\ UNCHANGED <<balance, used>>

RefundUnclaimed(k) ==
  IF markers[k].status \in {"pending", "refunded"}
  THEN /\ markers' = [markers EXCEPT ![k].status = "refunded"]
       /\ balance' = IF markers[k].kind = "credit"
                     THEN balance + markers[k].amount ELSE balance
       /\ used' = IF markers[k].kind = "free_shield" /\ used > 0
                  THEN used - 1 ELSE used
  ELSE UNCHANGED d1

RefundAsCredit(k) ==
  IF markers[k].status = "pending"
  THEN /\ markers' = [markers EXCEPT ![k].status = "refunded"]
       /\ balance' = balance + markers[k].amount
       /\ used' = used
  ELSE UNCHANGED d1

\* Terminal transitions of a marker; each is a claim on status = 'pending'.
Settle(k) ==
  /\ markers' = IF markers[k].status = "pending"
                THEN [markers EXCEPT ![k].status = "spent"] ELSE markers
  /\ UNCHANGED <<balance, used>>

Refund(k) ==
  IF markers[k].status = "pending"
  THEN /\ markers' = [markers EXCEPT ![k].status = "refunded"]
       /\ balance' = IF markers[k].kind = "credit"
                     THEN balance + markers[k].amount ELSE balance
       /\ used' = IF markers[k].kind = "free_shield" /\ used > 0
                  THEN used - 1 ELSE used
  ELSE UNCHANGED d1

\* What finishAccountMove does with the Mind's answer.  The marker of a
\* replayed key belongs to an earlier request.
Close(r) ==
  IF reqs[r].call = "ok" THEN Settle(reqs[r].key)
  ELSE IF reqs[r].replay THEN UNCHANGED d1 ELSE Refund(reqs[r].key)

\* finishAccountMove
Finish(r) ==
  /\ reqs[r].pc = "calling"
  /\ reqs[r].call \in {"ok", "refused"}
  /\ Close(r)
  /\ reqs' = [reqs EXCEPT ![r].pc = "done"]
  /\ UNCHANGED <<closed, mind, recs, deletion, history>>

\* The invocation dies at an await; the call it made stays in flight.
WorkerDies(r) ==
  /\ reqs[r].pc \in {"authed", "calling"}
  /\ reqs' = [reqs EXCEPT ![r].pc = "gone"]
  /\ UNCHANGED <<d1, closed, mind, recs, deletion, history>>

\* The call never reaches the Mind: fetch rejects and the invocation ends.
CallLost(r) ==
  /\ reqs[r].call = "sent"
  /\ reqs' = [reqs EXCEPT ![r] = Step(r, "gone", reqs[r].replay, "lost")]
  /\ UNCHANGED <<d1, closed, mind, recs, deletion, history>>

-----------------------------------------------------------------------------
(* The Mind.  Moves are tasks of its serialized writer queue.               *)

\* prune: records older than the retention are forgotten.
Pruned(m) ==
  [k \in Keys |-> IF m[k].known /\ m[k].age > IdempotencyTtl
                  THEN [moves |-> m[k].moves, known |-> FALSE, age |-> 0]
                  ELSE m[k]]

\* The move is applied in memory, with its record, before the save.
Applied(m, k) ==
  [m EXCEPT ![k] = [moves |-> m[k].moves + 1, known |-> TRUE, age |-> 0]]

\* A recorded success is repeated.
MindHit(r) ==
  /\ Pruned(cache)[reqs[r].key].known
  /\ cache' = Pruned(cache)
  /\ reqs' = [reqs EXCEPT ![r].call = "ok"]
  /\ UNCHANGED <<disk, unsaved>>

\* Validation, a full mind or a missing belief: nothing is recorded.
MindRefuse(r) ==
  /\ ~Pruned(cache)[reqs[r].key].known
  /\ cache' = Pruned(cache)
  /\ reqs' = [reqs EXCEPT ![r].call = "refused"]
  /\ UNCHANGED <<disk, unsaved>>

MindApplyBeforeSave(r) ==
  /\ ~Pruned(cache)[reqs[r].key].known
  /\ cache' = Applied(Pruned(cache), reqs[r].key)
  /\ reqs' = [reqs EXCEPT ![r].call = "ok"]
  /\ UNCHANGED <<disk, unsaved>>

MindApply(r) ==
  /\ ~Pruned(cache)[reqs[r].key].known
  /\ cache' = Applied(Pruned(cache), reqs[r].key)
  /\ disk' = cache'
  /\ reqs' = [reqs EXCEPT ![r].call = "ok"]
  /\ UNCHANGED unsaved

\* The save rejects: the task throws, memory keeps the move.
MindApplyUnsaved(r) ==
  /\ SaveMayFail
  /\ ~Pruned(cache)[reqs[r].key].known
  /\ cache' = Applied(Pruned(cache), reqs[r].key)
  /\ reqs' = [reqs EXCEPT ![r] = Step(r, "gone", reqs[r].replay, "lost")]
  /\ unsaved' = unsaved \cup {reqs[r].key}
  /\ UNCHANGED disk

\* Mind.fetch, POST /v1/beliefs and POST /v1/beliefs/:id/protect
MindMove(r) ==
  /\ reqs[r].call = "sent"
  /\ MindHit(r) \/ MindRefuse(r) \/ MindApply(r) \/ MindApplyUnsaved(r)
  /\ UNCHANGED <<d1, closed, recs, deletion, ledger, forfeited, archive,
                 misjudged>>

\* Mind.fetch, GET: prunes memory.
MindRead ==
  /\ cache' = Pruned(cache)
  /\ UNCHANGED <<d1, closed, disk, reqs, recs, deletion, history>>

\* Any other successful save (the diary's, another account's move).
MindSaves ==
  /\ disk' = cache
  /\ UNCHANGED <<d1, closed, cache, reqs, recs, deletion, history>>

\* A diary whose save failed drops the memory; the next load reads storage.
MindReloads ==
  /\ SaveMayFail
  /\ cache' = disk
  /\ UNCHANGED <<d1, closed, disk, reqs, recs, deletion, history>>

\* The object is evicted or restarted: memory and queued calls are lost.
MindRestarts ==
  /\ cache' = disk
  /\ reqs' = [r \in Requests |->
                IF reqs[r].call = "sent"
                THEN Step(r, "gone", reqs[r].replay, "lost") ELSE reqs[r]]
  /\ UNCHANGED <<d1, closed, disk, recs, deletion, history>>

-----------------------------------------------------------------------------
(* A reconcile pass.                                                        *)

StaleVerifiable == {k \in Keys : /\ markers[k].status = "pending"
                                 /\ markers[k].age > ReconcileAfter
                                 /\ markers[k].age <= ReconcileMax}

Stale == {k \in Keys : /\ markers[k].status = "pending"
                       /\ markers[k].age > ReconcileAfter}

\* paidSpendPending: at most ReconcileBatch rows, in no stated order.
ReconcileStart(c) ==
  /\ recs[c].pc = "idle"
  /\ \E rows \in SUBSET Stale :
       /\ rows # {}
       /\ rows = Stale \/ Cardinality(rows) = ReconcileBatch
       /\ Cardinality(rows) <= ReconcileBatch
       /\ recs' = [recs EXCEPT ![c] =
            [pc |-> "scan", rows |-> rows,
             blind |-> {k \in rows : markers[k].age > ReconcileMax},
             row |-> {}, applied |-> FALSE, misread |-> FALSE]]
  /\ UNCHANGED <<d1, closed, mind, reqs, deletion, history>>

\* The pass is done with row k.
NextRow(c, k) ==
  IF recs[c].rows = {k} THEN IdlePass
  ELSE [pc |-> "scan", rows |-> recs[c].rows \ {k}, blind |-> recs[c].blind,
        row |-> {}, applied |-> FALSE, misread |-> FALSE]

ReconcileBlindRefund(c) ==
  /\ recs[c].pc = "scan"
  /\ \E k \in recs[c].rows \cap recs[c].blind :
       /\ Refund(k)
       /\ recs' = [recs EXCEPT ![c] = NextRow(c, k)]
  /\ UNCHANGED <<closed, mind, reqs, deletion, history>>

\* Past the hard bound: closed as spent, the Mind is not asked.
ReconcileBlind(c) ==
  /\ recs[c].pc = "scan"
  /\ \E k \in recs[c].rows \cap recs[c].blind :
       /\ Settle(k)
       /\ recs' = [recs EXCEPT ![c] = NextRow(c, k)]
  /\ UNCHANGED <<closed, mind, reqs, deletion, history>>

\* What a pass may take the Mind's answer for.  An answer that is no JSON, or
\* an error's, reads as "not applied": nobody looks at its status.
Readings(k) ==
  {cache[k].known} \cup (IF misjudged[k] < MaxMisjudged THEN {FALSE} ELSE {})

\* GET /internal/idempotency: answered from memory, outside the queue.
ReconcileAsk(c) ==
  /\ recs[c].pc = "scan"
  /\ \E k \in recs[c].rows \ recs[c].blind :
     \E applied \in Readings(k) :
       recs' = [recs EXCEPT ![c] =
         [pc |-> "answered", rows |-> recs[c].rows, blind |-> recs[c].blind,
          row |-> {k}, applied |-> applied,
          misread |-> applied # cache[k].known]]
  /\ UNCHANGED <<d1, closed, mind, reqs, deletion, history>>

ReconcileResolve(c) ==
  /\ recs[c].pc = "answered"
  /\ \E k \in recs[c].row :
       /\ IF recs[c].applied THEN Settle(k) ELSE Refund(k)
       /\ misjudged' = IF recs[c].misread /\ markers[k].status = "pending"
                       THEN [misjudged EXCEPT ![k] = misjudged[k] + 1]
                       ELSE misjudged
       /\ recs' = [recs EXCEPT ![c] = NextRow(c, k)]
  /\ UNCHANGED <<closed, mind, reqs, deletion, ledger, forfeited, archive,
                 unsaved>>

\* The pass dies, or its call to the Mind or to D1 rejects.
ReconcileDies(c) ==
  /\ recs[c].pc # "idle"
  /\ recs' = [recs EXCEPT ![c] = IdlePass]
  /\ UNCHANGED <<d1, closed, mind, reqs, deletion, history>>

-----------------------------------------------------------------------------
(* Retention, payments, deletion, time.                                     *)

\* The charge of a marker that is being removed, kept in the history.
Archived(k) ==
  LET a == archive[k]
      m == markers[k]
  IN IF m.status \in {"pending", "spent"}
     THEN [charges |-> a.charges + 1,
           credits |-> a.credits + (IF m.kind = "credit" THEN m.amount ELSE 0),
           free    |-> a.free + (IF m.kind = "free_shield" THEN 1 ELSE 0)]
     ELSE a

ExpiredWithTheRecord ==
  {k \in Keys : /\ markers[k].status \in {"spent", "refunded"}
                /\ markers[k].age >= IdempotencyTtl}

\* prune: resolved markers past their retention.
Expired == {k \in Keys : /\ markers[k].status \in {"spent", "refunded"}
                         /\ markers[k].age >= SpendTtl}

PruneSpends ==
  /\ Expired # {}
  /\ markers' = [k \in Keys |-> IF k \in Expired THEN NoMarker ELSE markers[k]]
  /\ archive' = [k \in Keys |-> IF k \in Expired THEN Archived(k) ELSE archive[k]]
  /\ UNCHANGED <<balance, used, closed, mind, reqs, recs, deletion, ledger,
                 forfeited, misjudged, unsaved>>

\* Payment events change the balance beside this protocol; a debit takes at
\* most what is there.
Grant ==
  /\ ledger + GrantSize <= MaxLedger
  /\ balance' = balance + GrantSize
  /\ ledger' = ledger + GrantSize
  /\ UNCHANGED <<markers, used, closed, mind, reqs, recs, deletion, forfeited,
                 archive, misjudged, unsaved>>

Revoke ==
  LET taken == IF balance < GrantSize THEN balance ELSE GrantSize
  IN /\ taken > 0
     /\ balance' = balance - taken
     /\ ledger' = ledger - taken
     /\ UNCHANGED <<markers, used, closed, mind, reqs, recs, deletion,
                    forfeited, archive, misjudged, unsaved>>

\* DELETE /v1/auth/account reads the balance the user confirms to forfeit...
DeleteSees ==
  /\ deletion.pc = "idle"
  /\ ~closed
  /\ deletion' = [pc |-> "seen", seen |-> balance]
  /\ UNCHANGED <<d1, closed, mind, reqs, recs, history>>

DeleteAccountUnguarded ==
  /\ deletion.pc = "seen"
  /\ deletion' = [deletion EXCEPT !.pc = "done"]
  /\ closed' = TRUE
  /\ markers' = [k \in Keys |-> NoMarker]
  /\ used' = 0
  /\ balance' = 0
  /\ forfeited' = forfeited + balance
  /\ archive' = [k \in Keys |-> [Archived(k) EXCEPT !.free = 0]]
  /\ UNCHANGED <<mind, reqs, recs, ledger, misjudged, unsaved>>

\* ...and some awaits later removes the account in one batch.
DeleteAccount ==
  /\ deletion.pc = "seen"
  /\ deletion' = [deletion EXCEPT !.pc = "done"]
  /\ closed' = TRUE
  /\ markers' = [k \in Keys |-> NoMarker]
  /\ used' = 0
  /\ balance' = IF balance <= deletion.seen THEN 0 ELSE balance
  /\ forfeited' = IF balance <= deletion.seen THEN forfeited + balance
                  ELSE forfeited
  /\ archive' = [k \in Keys |-> [Archived(k) EXCEPT !.free = 0]]
  /\ UNCHANGED <<mind, reqs, recs, ledger, misjudged, unsaved>>

DeletionDies ==
  /\ deletion.pc = "seen"
  /\ deletion' = [deletion EXCEPT !.pc = "idle"]
  /\ UNCHANGED <<d1, closed, mind, reqs, recs, history>>

Older(age) == IF age < SpendTtl THEN age + 1 ELSE age
Aged(m) == [k \in Keys |-> IF m[k].known THEN [m[k] EXCEPT !.age = Older(@)]
                           ELSE m[k]]

Tick ==
  /\ PromptInvocations =>
       /\ \A r \in Requests : ~Active(r)
       /\ \A c \in Reconcilers : recs[c].pc = "idle"
       /\ deletion.pc # "seen"
  /\ markers' = [k \in Keys |-> IF markers[k].status = "none" THEN markers[k]
                                ELSE [markers[k] EXCEPT !.age = Older(@)]]
  /\ cache' = Aged(cache)
  /\ disk' = Aged(disk)
  /\ UNCHANGED <<balance, used, closed, reqs, recs, deletion, history>>

-----------------------------------------------------------------------------
Next ==
  \/ \E r \in Requests :
       \/ Authorize(r) \/ Spend(r) \/ Finish(r)
       \/ WorkerDies(r) \/ CallLost(r) \/ MindMove(r)
  \/ MindRead \/ MindSaves \/ MindReloads \/ MindRestarts
  \/ \E c \in Reconcilers :
       \/ ReconcileStart(c) \/ ReconcileBlind(c) \/ ReconcileAsk(c)
       \/ ReconcileResolve(c) \/ ReconcileDies(c)
  \/ PruneSpends \/ Grant \/ Revoke
  \/ DeleteSees \/ DeleteAccount \/ DeletionDies
  \/ Tick

Spec == Init /\ [][Next]_vars

\* The hourly cron keeps starting passes, and a pass that can read its row
\* again and again in the end gets through: D1 and the Mind are not down
\* for ever.  Nothing is assumed of clients or of the requests themselves.
Fairness ==
  /\ WF_vars(Tick)
  /\ \A c \in Reconcilers :
       /\ WF_vars(ReconcileStart(c))
       /\ SF_vars(ReconcileBlind(c))
       /\ SF_vars(ReconcileAsk(c))
       /\ SF_vars(ReconcileResolve(c))

LiveSpec == Spec /\ Fairness
=============================================================================
