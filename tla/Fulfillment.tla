----------------------------- MODULE Fulfillment -----------------------------
(***************************************************************************)
(* What one payment entitles its account to (worker/src/payments/          *)
(* fulfillment.ts, on the store of store.ts).                              *)
(*                                                                         *)
(* The payment provider reports a payment, its refunds and its disputes in *)
(* webhooks that come late, twice and in any order.  Each delivery runs    *)
(* fulfillDodoEvent in an invocation (a worker), under a lock row of the   *)
(* payment, and moves credits by rows of credit_ledger whose references    *)
(* are unique.  The reconciliation job (reconcile.ts) delivers events      *)
(* again and finishes rows whose balance was never written.                *)
(*                                                                         *)
(* One D1 batch is one step; what a handler reads in the lock and the      *)
(* write that follows from it are separate steps.  Leases of the inbox are *)
(* not here: a delivery that has completed may be followed by an equal one *)
(* under another id, or by the job's replay, so any issued event may be    *)
(* delivered at any time.                                                  *)
(***************************************************************************)
EXTENDS Integers, FiniteSets, FiniteSetsExt

CONSTANTS
  Workers,          \* invocations that handle deliveries
  Refunds,          \* refund ids of the payment
  Disputes,         \* dispute ids of the payment
  DisputeStatuses,  \* the dispute events the provider sends
  Pack,             \* order.credits
  Price,            \* order.total_amount
  Amounts,          \* what a refund may report: numbers, Unknown, Foreign
  Unknown,          \* no amount or no currency
  Foreign,          \* another currency than the order's
  OtherCredits,     \* balance from elsewhere, at the start
  MaxSpent,         \* bound: credits spent on moves
  MaxCrashes,       \* bound: invocations that die or fail
  SlowHolders,      \* a holder may still run when its lock is stolen (60 s)
  FailedAttempts    \* the payment had an attempt that failed

ASSUME PackAssumption ==
  /\ Pack \in Nat \ {0}
  /\ Price \in Nat \ {0}
  /\ OtherCredits \in Nat
ASSUME AmountAssumption == Amounts \subseteq Nat \cup {Unknown, Foreign}
ASSUME IdAssumption ==
  /\ Refunds \cap {"grant", "dispute", "regrant"} = {}
  /\ Disputes \cap (Refunds \cup {"payment"}) = {}
  /\ Workers \cap {"free", "dead"} = {}
ASSUME BoundAssumption == MaxSpent \in Nat /\ MaxCrashes \in Nat
ASSUME FreedomAssumption == SlowHolders \in BOOLEAN /\ FailedAttempts \in BOOLEAN

VARIABLES
  news,      \* the provider: events issued for the payment
  sound,     \* the payment matches business, product, currency and price
  order,     \* D1 dodo_orders: its status, and whether payment_id is set
  refunds,   \* D1 dodo_refunds
  disputes,  \* D1 dodo_disputes, status per id
  ledger,    \* D1 credit_ledger rows of the payment
  balance,   \* D1 credits.balance of the account
  lock,      \* D1 payment_locks: free, an owner, or an owner that died
  workers,   \* the invocations
  handled,   \* history: events some delivery completed
  spent,     \* history: credits spent on moves
  crashes    \* history: invocations that died or failed

records == <<order, refunds, disputes>>
money   == <<ledger, balance>>
world   == <<news, sound>>
history == <<handled, spent, crashes>>
vars    == <<world, records, money, lock, workers, history>>

Revokes  == {"opened", "accepted", "expired", "lost"}
Restores == {"won", "cancelled"}
DisputeEvents == Revokes \cup Restores \cup {"challenged"}

\* DISPUTE_TRANSITIONS; a dispute not yet recorded takes any status.
Later(status) ==
  CASE status = "none"       -> DisputeEvents
    [] status = "opened"     -> DisputeEvents \ {"opened"}
    [] status = "challenged" -> DisputeEvents \ {"opened", "challenged"}
    [] status = "accepted"   -> {"lost", "cancelled", "expired"}
    [] OTHER                 -> {}

\* The references that move credits.  Audit markers (quarantine:,
\* refund_currency:, dispute_transition:) are read by reports only.
Refs == {"grant", "dispute", "regrant"} \cup Refunds
Row == [there: BOOLEAN, delta: Int, applied: BOOLEAN]
NoRow == [there |-> FALSE, delta |-> 0, applied |-> FALSE]
Marker == [there |-> TRUE, delta |-> 0, applied |-> TRUE]

Signal(type, id, amount) == [type |-> type, id |-> id, amount |-> amount]
Payment == Signal("payment", "payment", Unknown)
Attempt == Signal("attempt_failed", "payment", Unknown)
\* The job's own work: finish a row's balance, correct a stale status.
Repairs == {Signal("repair", x, Unknown) : x \in Refs}
Mark    == Signal("mark", "payment", Unknown)

Event ==
  {Payment, Attempt, Mark} \cup Repairs
  \cup {Signal(t, r, a) : t \in {"refund", "refund_failed"},
                          r \in Refunds, a \in Amounts}
  \cup {Signal(s, d, Unknown) : s \in DisputeEvents, d \in Disputes}

Statuses == {"none", "created", "succeeded", "failed", "partially_refunded",
             "refunded", "disputed", "quarantined"}

Worker ==
  [pc: {"idle", "stamp", "record", "lock", "open", "insert", "credit",
        "settle", "restore", "debit", "status", "unlock"},
   event: Event,
   ref: Refs,                \* the row it is about to write
   amount: Int,              \* what that row is to move
   todo: SUBSET Refunds,     \* recorded refunds it has yet to settle
   done: SUBSET Refunds,     \* those it has settled
   status: Statuses]         \* the order status it is about to write
Idle == [pc |-> "idle", event |-> Payment, ref |-> "grant", amount |-> 0,
         todo |-> {}, done |-> {}, status |-> "none"]

TypeOK ==
  /\ news \subseteq Event
  /\ handled \subseteq Event
  /\ sound \in BOOLEAN
  /\ order \in [status: Statuses, linked: BOOLEAN]
  /\ refunds \in [Refunds -> [status: {"none", "failed", "succeeded"},
                              amount: Amounts \cup {Unknown}]]
  /\ disputes \in [Disputes -> DisputeEvents \cup {"none"}]
  /\ ledger \in [Refs -> Row]
  /\ balance \in Nat
  /\ lock \in {"free", "dead"} \cup Workers
  /\ workers \in [Workers -> Worker]
  /\ spent \in Nat
  /\ crashes \in Nat

\* The checkout route may have stored the order, or have died before that.
Init ==
  /\ news = {Payment} \cup (IF FailedAttempts THEN {Attempt} ELSE {})
  /\ sound \in BOOLEAN
  /\ order \in [status: {"none", "created"}, linked: {FALSE}]
  /\ refunds = [r \in Refunds |-> [status |-> "none", amount |-> Unknown]]
  /\ disputes = [d \in Disputes |-> "none"]
  /\ ledger = [x \in Refs |-> NoRow]
  /\ balance = OtherCredits
  /\ lock = "free"
  /\ workers = [w \in Workers |-> Idle]
  /\ handled = {}
  /\ spent = 0
  /\ crashes = 0

-----------------------------------------------------------------------------
(* The provider, and the account's moves.                                   *)

\* A refund has one amount, and not more is refunded than was paid.
IssueRefund(r, a, type) ==
  LET known == {e \in news \cup {Signal(type, r, a)} :
                  e.type = "refund" /\ e.amount \notin {Unknown, Foreign}}
  IN /\ \A e \in news : e.id = r => e.amount = a
     /\ SumFunctionOnSet([e \in known |-> e.amount], known) <= Price
     /\ Signal(type, r, a) \notin news
     /\ news' = news \cup {Signal(type, r, a)}
     /\ UNCHANGED <<sound, records, money, lock, workers, history>>

\* Where the dispute stands upstream.
Upstream(d) ==
  LET seen == {e.type : e \in {x \in news : x.id = d}}
  IN IF seen = {} THEN "none"
     ELSE CHOOSE s \in seen : Later(s) \cap seen = {}

IssueDispute(d, s) ==
  /\ IF Upstream(d) = "none" THEN s = "opened" ELSE s \in Later(Upstream(d))
  /\ news' = news \cup {Signal(s, d, Unknown)}
  /\ UNCHANGED <<sound, records, money, lock, workers, history>>

Spend ==
  /\ balance > 0
  /\ spent < MaxSpent
  /\ balance' = balance - 1
  /\ spent' = spent + 1
  /\ UNCHANGED <<world, records, ledger, lock, workers, handled, crashes>>

-----------------------------------------------------------------------------
(* What the store computes and writes.                                      *)

Monus(a, b) == IF a > b THEN a - b ELSE 0
Least(a, b) == IF a < b THEN a ELSE b

\* paymentSums; rows count whether or not they reached the balance.
Deltas == [x \in Refs |-> ledger[x].delta]
Moved(S) == SumFunctionOnSet(Deltas, S)
Granted == Moved({x \in Refs : ledger[x].delta > 0})
Revoked == -Moved({x \in Refs : ledger[x].delta < 0})
RefundRevoked  == -Moved({r \in Refunds : ledger[r].delta < 0})
DisputeRevoked == -Moved({x \in {"dispute"} : ledger[x].delta < 0})
Outstanding == Monus(Granted, Revoked)

\* succeededRefunds in the order's currency.
Succeeded == {r \in Refunds : /\ refunds[r].status = "succeeded"
                              /\ refunds[r].amount # Foreign}

\* The share of the pack that refunds S cover, all of it if one is unknown.
Target(S) ==
  LET total == SumFunctionOnSet([r \in S |-> refunds[r].amount], S)
  IN IF (\E r \in S : refunds[r].amount = Unknown) \/ total >= Price THEN Pack
     ELSE (Pack * total) \div Price

\* A dispute took, or holds back, the entitlement.
Held == ledger["dispute"].there /\ ~ledger["regrant"].there

Pending(x) == ledger[x].there /\ ~ledger[x].applied /\ ledger[x].delta # 0

SetMarker(x) ==
  /\ ledger' = IF ledger[x].there THEN ledger ELSE [ledger EXCEPT ![x] = Marker]
  /\ UNCHANGED balance

TakeUnclipped(x, request) ==
  /\ ledger' = [ledger EXCEPT ![x] = [there |-> TRUE, delta |-> -request,
                                      applied |-> TRUE]]
  /\ balance' = Monus(balance, request)
TakeUnfloored(x, request) ==
  /\ ledger' = [ledger EXCEPT ![x] = [there |-> TRUE, delta |-> -request,
                                      applied |-> TRUE]]
  /\ balance' = balance - request
Take(x, request) ==
  LET taken == Least(balance, request)
  IN /\ ledger' = [ledger EXCEPT ![x] = [there |-> TRUE, delta |-> -taken,
                                         applied |-> TRUE]]
     /\ balance' = balance - taken

DebitUpsert(x, request) ==
  LET taken == Least(balance, request)
  IN /\ ledger' = [ledger EXCEPT ![x] = [there |-> TRUE, delta |-> @.delta - taken,
                                         applied |-> TRUE]]
     /\ balance' = balance - taken

\* applyLedgerDebit: a row that is there is left alone.
Debit(x, request) ==
  IF ledger[x].there THEN UNCHANGED money ELSE Take(x, request)

\* applyDebitOverMarker: a row that is there and moved something is.
DebitOverMarker(x, request) ==
  IF ledger[x].there /\ ledger[x].delta # 0 THEN UNCHANGED money
  ELSE Take(x, request)

Put(w, r) == workers' = [workers EXCEPT ![w] = r]
Step(w, pc) == workers' = [workers EXCEPT ![w].pc = pc]
Runs(w, pc, types) == workers[w].pc = pc /\ workers[w].event.type \in types

\* refunded, partially_refunded or succeeded
NetStatus(target) == IF target >= Pack THEN "refunded"
                     ELSE IF target > 0 THEN "partially_refunded"
                     ELSE "succeeded"

-----------------------------------------------------------------------------
(* A delivery starts, and what it does before it asks for the lock.         *)

Done(e) == handled' = handled \cup ({e} \cap news)

\* An invocation that answers 500 or dies leaves its event to be delivered
\* again; one that answers 200 has handled it.
Answer(w) ==
  /\ Put(w, Idle)
  /\ Done(workers[w].event)

Deliver(w, e) ==
  /\ workers[w].pc = "idle"
  /\ e \in news \ {Attempt}
  /\ Put(w, [Idle EXCEPT !.event = e,
                         !.pc = IF e.type \in {"refund", "refund_failed"}
                                THEN "record" ELSE "lock"])
  /\ UNCHANGED <<world, records, money, lock, history>>

\* payment.failed reads the order, outside the lock, and writes later.
DeliverAttempt(w) ==
  /\ workers[w].pc = "idle"
  /\ Attempt \in news
  /\ IF order.status = "created"
     THEN /\ Put(w, [Idle EXCEPT !.event = Attempt, !.pc = "stamp",
                                 !.status = "failed"])
          /\ UNCHANGED handled
     ELSE Done(Attempt) /\ UNCHANGED workers
  /\ UNCHANGED <<world, records, money, lock, spent, crashes>>

\* The job found the order of a succeeded payment still at created.
JobMarks(w) ==
  /\ workers[w].pc = "idle"
  /\ order.linked /\ order.status = "created"
  /\ Put(w, [Idle EXCEPT !.event = Mark, !.pc = "stamp",
                         !.status = "succeeded"])
  /\ UNCHANGED <<world, records, money, lock, history>>

\* linkPayment and the status.
Stamp(w) ==
  /\ workers[w].pc = "stamp"
  /\ order' = [status |-> workers[w].status, linked |-> TRUE]
  /\ Answer(w)
  /\ UNCHANGED <<world, refunds, disputes, money, lock, spent, crashes>>

\* The job found a row whose balance was never written.
JobRepairsGrants(w, x) ==
  /\ workers[w].pc = "idle"
  /\ Pending(x) /\ x = "grant"
  /\ Put(w, [Idle EXCEPT !.event = Signal("repair", x, Unknown), !.ref = x,
                         !.pc = "lock"])
  /\ UNCHANGED <<world, records, money, lock, history>>
JobRepairs(w, x) ==
  /\ workers[w].pc = "idle"
  /\ Pending(x)
  /\ Put(w, [Idle EXCEPT !.event = Signal("repair", x, Unknown), !.ref = x,
                         !.pc = "lock"])
  /\ UNCHANGED <<world, records, money, lock, history>>

\* recordRefund: a refund that has succeeded stays so.
RecordRefund(w) ==
  LET e == workers[w].event
  IN /\ workers[w].pc = "record"
     /\ IF refunds[e.id].status = "succeeded" THEN UNCHANGED refunds
        ELSE refunds' = [refunds EXCEPT ![e.id] =
               [status |-> IF e.type = "refund" THEN "succeeded" ELSE "failed",
                amount |-> e.amount]]
     /\ IF e.type = "refund" THEN Step(w, "lock") /\ UNCHANGED handled
        ELSE Answer(w)
     /\ UNCHANGED <<world, order, disputes, money, lock, spent, crashes>>

-----------------------------------------------------------------------------
(* The lock of the payment.                                                 *)

Acquire(w) ==
  /\ workers[w].pc = "lock"
  /\ lock \in {"free", "dead"} \/ SlowHolders
  /\ lock' = w
  /\ Step(w, "open")
  /\ UNCHANGED <<world, records, money, history>>

\* LockUnavailable
GiveUp(w) ==
  /\ workers[w].pc = "lock"
  /\ lock # "free"
  /\ Put(w, Idle)
  /\ UNCHANGED <<world, records, money, lock, history>>

\* A stolen lock is not ours to delete.
Release(w) ==
  /\ workers[w].pc = "unlock"
  /\ lock' = IF lock = w THEN "free" ELSE lock
  /\ Answer(w)
  /\ UNCHANGED <<world, records, money, spent, crashes>>

\* The isolate dies, or a statement fails and the lock is released.
Dies(w) ==
  /\ workers[w].pc # "idle"
  /\ crashes < MaxCrashes
  /\ lock' \in IF lock = w THEN {"free", "dead"} ELSE {lock}
  /\ Put(w, Idle)
  /\ crashes' = crashes + 1
  /\ UNCHANGED <<world, records, money, handled, spent>>

-----------------------------------------------------------------------------
(* In the lock: what each event reads, and what it decides to write.        *)

\* The worker goes on to write amount at ref, then the status if it has one.
Decide(w, pc, ref, amount, status) ==
  Put(w, [workers[w] EXCEPT !.pc = pc, !.ref = ref, !.amount = amount,
                            !.status = status])

\* payment.succeeded: find or recover the order, link it, then the gates.
PaymentOpenUngated(w) ==
  /\ Runs(w, "open", {"payment"})
  /\ order' = [status |-> IF order.status = "none" THEN "created"
                          ELSE order.status, linked |-> TRUE]
  /\ IF ~sound THEN Decide(w, "status", "grant", 0, "quarantined")
     ELSE Decide(w, "insert", "grant", Pack, "none")
  /\ UNCHANGED <<world, refunds, disputes, money, lock, history>>
PaymentOpen(w) ==
  /\ Runs(w, "open", {"payment"})
  /\ order' = [status |-> IF order.status = "none" THEN "created"
                          ELSE order.status, linked |-> TRUE]
  /\ IF Held THEN Decide(w, "status", "grant", 0, "succeeded")
     ELSE IF ~sound THEN Decide(w, "status", "grant", 0, "quarantined")
     ELSE Decide(w, "insert", "grant", Pack, "none")
  /\ UNCHANGED <<world, refunds, disputes, money, lock, history>>

\* refund.succeeded: without an order a marker; in another currency nothing;
\* else what the refunds cover and have not taken yet, if it is still there.
RefundOpenUncapped(w) ==
  LET r == workers[w].event.id
      due == Monus(Target(Succeeded), RefundRevoked)
  IN /\ Runs(w, "open", {"refund"})
     /\ IF ~order.linked THEN Decide(w, "debit", r, 0, "none")
        ELSE IF workers[w].event.amount = Foreign THEN Step(w, "unlock")
        ELSE Decide(w, "debit", r, due,
                    IF Target(Succeeded) >= Pack THEN "refunded"
                    ELSE "partially_refunded")
     /\ UNCHANGED <<world, records, money, lock, history>>
RefundOpen(w) ==
  LET r == workers[w].event.id
      due == Monus(Target(Succeeded), RefundRevoked)
  IN /\ Runs(w, "open", {"refund"})
     /\ IF ~order.linked THEN Decide(w, "debit", r, 0, "none")
        ELSE IF workers[w].event.amount = Foreign THEN Step(w, "unlock")
        ELSE Decide(w, "debit", r, Least(due, Outstanding),
                    IF Target(Succeeded) >= Pack THEN "refunded"
                    ELSE "partially_refunded")
     /\ UNCHANGED <<world, records, money, lock, history>>

\* recordDisputeEvent: a status only moves along DISPUTE_TRANSITIONS.
Accepts(d, s) == s = disputes[d] \/ s \in Later(disputes[d])
RecordDispute(d, s) == disputes' = IF Accepts(d, s) THEN [disputes EXCEPT ![d] = s]
                                   ELSE disputes

\* dispute.opened, .accepted, .expired and .lost take all that is left.
DisputeOpen(w) ==
  LET e == workers[w].event
  IN /\ Runs(w, "open", Revokes \cup {"challenged"})
     /\ RecordDispute(e.id, e.type)
     /\ IF ~Accepts(e.id, e.type) \/ e.type = "challenged" THEN Step(w, "unlock")
        ELSE IF ~order.linked THEN Decide(w, "debit", "dispute", 0, "none")
        ELSE Decide(w, "debit", "dispute", Outstanding, "disputed")
     /\ UNCHANGED <<world, order, refunds, money, lock, history>>

\* dispute.won and .cancelled: the grant that was held back, or the restore.
WonOpen(w) ==
  LET e == workers[w].event
  IN /\ Runs(w, "open", Restores)
     /\ RecordDispute(e.id, e.type)
     /\ IF ~Accepts(e.id, e.type) \/ ~order.linked THEN Step(w, "unlock")
        ELSE IF ledger["grant"].there THEN Step(w, "restore")
        ELSE IF ~sound THEN Decide(w, "status", "grant", 0, "quarantined")
        ELSE Decide(w, "insert", "grant", Pack, "none")
     /\ UNCHANGED <<world, order, refunds, money, lock, history>>

\* What the dispute took, less what refunds have not been able to take.
RestoreAll(w) ==
  /\ workers[w].pc = "restore"
  /\ IF ~ledger["dispute"].there THEN Step(w, "unlock")
     ELSE IF DisputeRevoked > 0
          THEN Decide(w, "insert", "regrant", DisputeRevoked, "succeeded")
     ELSE Decide(w, "debit", "regrant", 0, NetStatus(Target(Succeeded)))
  /\ UNCHANGED <<world, records, money, lock, history>>
Restore(w) ==
  LET target == Target(Succeeded)
      back == Least(Monus(DisputeRevoked, Monus(target, RefundRevoked)), Revoked)
  IN /\ workers[w].pc = "restore"
     /\ IF ~ledger["dispute"].there THEN Step(w, "unlock")
        ELSE IF back > 0 THEN Decide(w, "insert", "regrant", back, "succeeded")
        ELSE Decide(w, "debit", "regrant", 0, NetStatus(target))
     /\ UNCHANGED <<world, records, money, lock, history>>

\* The job, in the lock, reads the row again.
RepairOpenUnread(w) ==
  /\ Runs(w, "open", {"repair"})
  /\ Step(w, "credit")
  /\ UNCHANGED <<world, records, money, lock, history>>
RepairOpen(w) ==
  /\ Runs(w, "open", {"repair"})
  /\ Step(w, IF Pending(workers[w].ref) THEN "credit" ELSE "unlock")
  /\ UNCHANGED <<world, records, money, lock, history>>

-----------------------------------------------------------------------------
(* In the lock: the writes.                                                 *)

\* applyLedgerDelta of a credit, first half: INSERT OR IGNORE of the row.
Insert(w) ==
  LET x == workers[w].ref
  IN /\ workers[w].pc = "insert"
     /\ IF ledger[x].there
        THEN /\ Step(w, IF x = "grant" /\ workers[w].event # Payment
                        THEN "restore" ELSE "unlock")
             /\ UNCHANGED ledger
        ELSE /\ ledger' = [ledger EXCEPT ![x] =
                  [there |-> TRUE, delta |-> workers[w].amount, applied |-> FALSE]]
             /\ Step(w, "credit")
     /\ UNCHANGED <<world, records, balance, lock, history>>

\* Second half, also of reapplyLedgerDelta: the balance and the flag.
Credit(w) ==
  LET x == workers[w].ref
  IN /\ workers[w].pc = "credit"
     /\ balance' = balance + ledger[x].delta
     /\ ledger' = [ledger EXCEPT ![x].applied = TRUE]
     /\ IF workers[w].event.type = "repair" THEN Step(w, "unlock")
        ELSE IF x = "grant"
             THEN Put(w, [workers[w] EXCEPT !.pc = "settle", !.todo = Succeeded])
             ELSE Step(w, "status")
     /\ UNCHANGED <<world, records, lock, history>>

\* settleRecordedRefunds, one refund: its share goes over its marker.
Settle(w, r) ==
  LET done == workers[w].done \cup {r}
      share == Monus(Target(done), Target(workers[w].done))
  IN /\ workers[w].pc = "settle"
     /\ r \in workers[w].todo
     /\ IF share > 0 THEN DebitOverMarker(r, share) ELSE SetMarker(r)
     /\ Put(w, [workers[w] EXCEPT !.todo = @ \ {r}, !.done = done])
     /\ UNCHANGED <<world, records, lock, history>>

\* A won dispute leaves a marker that says it was resolved.
Settled(w) ==
  /\ workers[w].pc = "settle"
  /\ workers[w].todo = {}
  /\ IF workers[w].event = Payment THEN UNCHANGED money ELSE SetMarker("regrant")
  /\ Put(w, [workers[w] EXCEPT !.pc = "status",
                               !.status = NetStatus(Target(workers[w].done))])
  /\ UNCHANGED <<world, records, lock, history>>

\* applyLedgerDelta of a debit, or a marker when there is nothing to take.
TakeBack(w) ==
  /\ workers[w].pc = "debit"
  /\ IF workers[w].amount > 0 THEN Debit(workers[w].ref, workers[w].amount)
     ELSE SetMarker(workers[w].ref)
  /\ Step(w, IF workers[w].status = "none" THEN "unlock" ELSE "status")
  /\ UNCHANGED <<world, records, lock, history>>

WriteStatus(w) ==
  /\ workers[w].pc = "status"
  /\ order' = [order EXCEPT !.status = workers[w].status]
  /\ Step(w, "unlock")
  /\ UNCHANGED <<world, refunds, disputes, money, lock, history>>

-----------------------------------------------------------------------------
InTheLock(w) ==
  \/ PaymentOpen(w) \/ RefundOpen(w) \/ DisputeOpen(w) \/ WonOpen(w)
  \/ RepairOpen(w) \/ Restore(w)
  \/ Insert(w) \/ Credit(w)
  \/ \E r \in Refunds : Settle(w, r)
  \/ Settled(w) \/ TakeBack(w) \/ WriteStatus(w)
  \/ Release(w)

Works(w) ==
  \/ \E e \in news : Deliver(w, e)
  \/ DeliverAttempt(w)
  \/ JobMarks(w)
  \/ Stamp(w)
  \/ \E x \in Refs : JobRepairs(w, x)
  \/ RecordRefund(w)
  \/ Acquire(w) \/ GiveUp(w)
  \/ InTheLock(w)
  \/ Dies(w)

Environment ==
  \/ \E r \in Refunds, a \in Amounts, t \in {"refund", "refund_failed"} :
       IssueRefund(r, a, t)
  \/ \E d \in Disputes, s \in DisputeStatuses : IssueDispute(d, s)
  \/ Spend

Next == Environment \/ \E w \in Workers : Works(w)

Spec == Init /\ [][Next]_vars

\* A holder goes on until it answers or dies, a waiting worker gets the lock or
\* gives up, and the job runs again and again while it finds a row to repair.
\* Its twelve tries for the lock outlast any holder: it may be starved
\* otherwise by deliveries that never end.
Patient == \A w \in Workers : GiveUp(w) => workers[w].event \notin Repairs
LiveSpec ==
  /\ Init /\ [][Next /\ Patient]_vars
  /\ \A w \in Workers : WF_vars(\/ Stamp(w) \/ RecordRefund(w)
                                    \/ Acquire(w) \/ GiveUp(w) \/ InTheLock(w))
  /\ \A x \in Refs : /\ SF_vars(\E w \in Workers : JobRepairs(w, x))
                     /\ SF_vars(\E w \in Workers :
                          Acquire(w) /\ workers[w].event \in Repairs
                                     /\ workers[w].ref = x)
=============================================================================
