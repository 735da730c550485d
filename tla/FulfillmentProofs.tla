-------------------------- MODULE FulfillmentProofs --------------------------
(* Proofs about the fulfilment of a payment, for all values of the constants. *)
EXTENDS FulfillmentInv, SumTheorems, TLAPS

-----------------------------------------------------------------------------
(* Shapes.                                                                  *)

LEMMA RefIds == {"grant", "dispute", "regrant"} \subseteq Refs /\ Refunds \subseteq Refs
  BY DEF Refs

LEMMA EventIds ==
  /\ Payment \in Event /\ Attempt \in Event /\ Mark \in Event
  /\ \A x \in Refs : Signal("repair", x, Unknown) \in Event
  /\ \A e \in Event : e.type \in {"refund", "refund_failed"} => e.id \in Refunds
<1>1. /\ Payment \in Event /\ Attempt \in Event /\ Mark \in Event
      /\ \A x \in Refs : Signal("repair", x, Unknown) \in Event
  BY DEF Event, Repairs
<1>2. ASSUME NEW e \in Event, e.type \in {"refund", "refund_failed"}
      PROVE  e.id \in Refunds
  BY <1>2 DEF Event, Repairs, Payment, Attempt, Mark, Signal, DisputeEvents,
              Revokes, Restores
<1> QED BY <1>1, <1>2

LEMMA IdleWorker == IsWorker(Idle)
  BY EventIds, RefIds DEF IsWorker, Idle, Pcs, Statuses

LEMMA EmptyRow == IsRow(NoRow) /\ IsRow(Marker)
  BY DEF IsRow, NoRow, Marker

LEMMA ShapeInit == Init => Shape
<1> SUFFICES ASSUME Init PROVE Shape
  OBVIOUS
<1>1. news \subseteq Event
  BY EventIds DEF Init
<1>2. /\ workers = [w \in Workers |-> workers[w]]
      /\ \A w \in Workers : IsWorker(workers[w])
  BY IdleWorker DEF Init
<1>3. /\ ledger = [x \in Refs |-> ledger[x]]
      /\ \A x \in Refs : IsRow(ledger[x])
  BY EmptyRow DEF Init
<1> QED BY <1>1, <1>2, <1>3 DEF Shape

-----------------------------------------------------------------------------
(* What one worker does to workers.                                         *)

WorkersShape ==
  /\ workers = [w \in Workers |-> workers[w]]
  /\ \A w \in Workers : IsWorker(workers[w])

\* Only w changes, and becomes r.
Becomes(w, r) ==
  /\ workers'[w] = r
  /\ \A v \in Workers : v # w => workers'[v] = workers[v]

LEMMA PutShape ==
  ASSUME Shape, NEW w \in Workers, NEW r, IsWorker(r), Put(w, r)
  PROVE  WorkersShape' /\ Becomes(w, r)
<1>1. workers = [v \in Workers |-> workers[v]]
  BY DEF Shape
<1>2. Becomes(w, r) /\ workers' = [v \in Workers |-> workers'[v]]
  BY <1>1 DEF Put, Becomes
<1>3. \A v \in Workers : IsWorker(workers'[v])
  BY <1>2 DEF Shape, Becomes
<1> QED BY <1>2, <1>3 DEF WorkersShape, IsWorker

LEMMA StepShape ==
  ASSUME Shape, NEW w \in Workers, NEW pc \in Pcs, Step(w, pc)
  PROVE  WorkersShape' /\ Becomes(w, [workers[w] EXCEPT !.pc = pc])
<1> DEFINE r == [workers[w] EXCEPT !.pc = pc]
<1>1. IsWorker(workers[w])
  BY DEF Shape
<1>2. IsWorker(r)
  BY <1>1 DEF IsWorker
<1>3. Put(w, r)
  BY DEF Put, Step
<1> QED BY <1>2, <1>3, PutShape

LEMMA DecideShape ==
  ASSUME Shape, NEW w \in Workers, NEW pc \in Pcs, NEW ref \in Refs,
         NEW amount, NEW status \in Statuses, Decide(w, pc, ref, amount, status)
  PROVE  /\ WorkersShape'
         /\ Becomes(w, [workers[w] EXCEPT !.pc = pc, !.ref = ref,
                                          !.amount = amount, !.status = status])
<1> DEFINE r == [workers[w] EXCEPT !.pc = pc, !.ref = ref,
                                   !.amount = amount, !.status = status]
<1>1. IsWorker(workers[w])
  BY DEF Shape
<1>2. IsWorker(r)
  BY <1>1 DEF IsWorker
<1>3. Put(w, r)
  BY DEF Put, Decide
<1> QED BY <1>2, <1>3, PutShape

-----------------------------------------------------------------------------
(* What one write does to the ledger.                                       *)

RowsShape ==
  /\ ledger = [x \in Refs |-> ledger[x]]
  /\ \A x \in Refs : IsRow(ledger[x])

\* Rows that moved something keep what they moved.
Keeps ==
  \A x \in Refs : ledger[x].delta # 0 => ledger'[x].delta = ledger[x].delta

LEMMA ShapeParts ==
  /\ Shape <=> news \subseteq Event /\ WorkersShape /\ RowsShape
  /\ Shape' <=> news' \subseteq Event' /\ WorkersShape' /\ RowsShape'
  BY DEF Shape, WorkersShape, RowsShape

LEMMA SameRows ==
  ASSUME Shape, UNCHANGED ledger
  PROVE  RowsShape' /\ Keeps
  BY DEF Shape, RowsShape, Keeps, IsRow

LEMMA WriteRow ==
  ASSUME Shape, NEW x \in Refs, NEW row, IsRow(row),
         ledger' = [ledger EXCEPT ![x] = row],
         ledger[x].delta # 0 => row.delta = ledger[x].delta
  PROVE  RowsShape' /\ Keeps
<1>1. ledger = [y \in Refs |-> ledger[y]]
  BY DEF Shape
<1>2. /\ ledger' = [y \in Refs |-> ledger'[y]]
      /\ ledger'[x] = row
      /\ \A y \in Refs : y # x => ledger'[y] = ledger[y]
  BY <1>1
<1>3. \A y \in Refs : IsRow(ledger'[y])
  BY <1>2 DEF Shape
<1>4. Keeps
  BY <1>2 DEF Keeps
<1> QED BY <1>2, <1>3, <1>4 DEF RowsShape, IsRow

LEMMA SetMarkerKeeps ==
  ASSUME Shape, NEW x \in Refs, SetMarker(x)
  PROVE  RowsShape' /\ Keeps
<1>1. CASE ledger[x].there
  BY <1>1, SameRows DEF SetMarker
<1>2. CASE ~ledger[x].there
  <2>1. ledger' = [ledger EXCEPT ![x] = Marker]
    BY <1>2 DEF SetMarker
  <2>2. ledger[x].delta = 0
    BY <1>2 DEF Shape, IsRow
  <2> QED BY <2>1, <2>2, EmptyRow, WriteRow
<1> QED BY <1>1, <1>2

LEMMA TakeKeeps ==
  ASSUME Shape, NEW x \in Refs, NEW request, Take(x, request),
         ledger[x].delta = 0
  PROVE  RowsShape' /\ Keeps
<1> DEFINE row == [there |-> TRUE, delta |-> -Least(balance, request),
                   applied |-> TRUE]
<1>1. IsRow(row)
  BY DEF IsRow
<1>2. ledger' = [ledger EXCEPT ![x] = row]
  BY DEF Take
<1> QED BY <1>1, <1>2, WriteRow

LEMMA DebitKeeps ==
  ASSUME Shape, NEW x \in Refs, NEW request,
         Debit(x, request) \/ DebitOverMarker(x, request)
  PROVE  RowsShape' /\ Keeps
<1>1. ~ledger[x].there => ledger[x].delta = 0
  BY DEF Shape, IsRow
<1>2. UNCHANGED ledger \/ (Take(x, request) /\ ledger[x].delta = 0)
  BY <1>1 DEF Debit, DebitOverMarker, money
<1> QED BY <1>2, SameRows, TakeKeeps

-----------------------------------------------------------------------------
(* Each action keeps the shape of the state and the rows that moved credits. *)

\* w is not in the lock afterwards, and nobody else changed.
Outside(w) ==
  /\ \A v \in Workers : v # w => workers'[v] = workers[v]
  /\ workers'[w].pc \notin Inside

LEMMA PutOutside ==
  ASSUME Shape, NEW w \in Workers, NEW r, IsWorker(r), r.pc \notin Inside,
         Put(w, r)
  PROVE  WorkersShape' /\ Outside(w)
  BY PutShape DEF Becomes, Outside

LEMMA DeliverShape ==
  ASSUME Shape, NEW w \in Workers, NEW e \in news, Deliver(w, e)
  PROVE  WorkersShape' /\ Outside(w)
<1> DEFINE r == [Idle EXCEPT !.event = e,
                             !.pc = IF e.type \in {"refund", "refund_failed"}
                                    THEN "record" ELSE "lock"]
<1>1. e \in Event
  BY DEF Shape
<1>2. IsWorker(r) /\ r.pc \notin Inside
  BY <1>1, IdleWorker DEF IsWorker, Idle, Pcs, Inside
<1>3. Put(w, r)
  BY DEF Deliver
<1> QED BY <1>2, <1>3, PutOutside

LEMMA StampsShape ==
  ASSUME Shape, NEW w \in Workers, DeliverAttempt(w) \/ JobMarks(w)
  PROVE  WorkersShape' /\ Outside(w)
<1> DEFINE a == [Idle EXCEPT !.event = Attempt, !.pc = "stamp", !.status = "failed"]
           m == [Idle EXCEPT !.event = Mark, !.pc = "stamp", !.status = "succeeded"]
<1>1. /\ IsWorker(a) /\ a.pc \notin Inside
      /\ IsWorker(m) /\ m.pc \notin Inside
  BY EventIds, IdleWorker DEF IsWorker, Idle, Pcs, Statuses, Inside
<1>2. Put(w, a) \/ Put(w, m) \/ (workers[w].pc = "idle" /\ UNCHANGED workers)
  BY DEF DeliverAttempt, JobMarks
<1>3. CASE workers[w].pc = "idle" /\ UNCHANGED workers
  BY <1>3 DEF Shape, WorkersShape, IsWorker, Outside, Inside
<1> HIDE DEF a, m
<1> QED BY <1>1, <1>2, <1>3, PutOutside

LEMMA JobRepairsShape ==
  ASSUME Shape, NEW w \in Workers, NEW x \in Refs, JobRepairs(w, x)
  PROVE  WorkersShape' /\ Outside(w)
<1> DEFINE r == [Idle EXCEPT !.event = Signal("repair", x, Unknown),
                             !.ref = x, !.pc = "lock"]
<1>1. IsWorker(r) /\ r.pc \notin Inside
  BY EventIds, IdleWorker DEF IsWorker, Idle, Pcs, Inside
<1>2. Put(w, r)
  BY DEF JobRepairs
<1> QED BY <1>1, <1>2, PutOutside

LEMMA AnswerShape ==
  ASSUME Shape, NEW w \in Workers, Answer(w) \/ GiveUp(w) \/ Dies(w)
  PROVE  WorkersShape' /\ Becomes(w, Idle)
<1>1. Put(w, Idle)
  BY DEF Answer, GiveUp, Dies
<1> QED BY <1>1, IdleWorker, PutShape

LEMMA IdleOutside == Idle.pc \notin Inside
  BY DEF Idle, Inside

LEMMA RecordShape ==
  ASSUME Shape, NEW w \in Workers, RecordRefund(w)
  PROVE  WorkersShape' /\ Outside(w)
<1>1. CASE Answer(w)
  BY <1>1, AnswerShape, IdleOutside DEF Becomes, Outside
<1>2. CASE Step(w, "lock")
  <2>1. WorkersShape' /\ Becomes(w, [workers[w] EXCEPT !.pc = "lock"])
    BY <1>2, StepShape DEF Pcs
  <2>2. [workers[w] EXCEPT !.pc = "lock"].pc = "lock"
    BY DEF Shape, IsWorker
  <2> QED BY <2>1, <2>2 DEF Becomes, Outside, Inside
<1> QED BY <1>1, <1>2 DEF RecordRefund

-----------------------------------------------------------------------------
(* Work in the lock.                                                        *)

\* w stays in the lock; it is about to insert a credit only if that is worth
\* something, and to credit a row only if the balance lacks it.
Forward(w) ==
  /\ \A v \in Workers : v # w => workers'[v] = workers[v]
  /\ workers'[w].pc \in Inside
  /\ workers'[w].pc = "insert" => workers'[w].amount # 0
  /\ InsertsMove /\ workers'[w].pc = "credit" => Pending(workers[w].ref)'
  /\ InsertsMove /\ workers'[w].pc = "credit" => workers'[w].ref = workers[w].ref

LEMMA StepForward ==
  ASSUME Shape, NEW w \in Workers, NEW pc \in Inside \ {"insert", "credit"},
         Step(w, pc)
  PROVE  WorkersShape' /\ Forward(w)
<1>1. pc \in Pcs
  BY DEF Inside
<1>2. WorkersShape' /\ Becomes(w, [workers[w] EXCEPT !.pc = pc])
  BY <1>1, StepShape
<1>3. [workers[w] EXCEPT !.pc = pc].pc = pc
  BY DEF Shape, IsWorker
<1> QED BY <1>2, <1>3 DEF Becomes, Forward

LEMMA DecideForward ==
  ASSUME Shape, NEW w \in Workers, NEW pc \in Inside \ {"credit"},
         NEW ref \in Refs, NEW amount, NEW status \in Statuses,
         pc = "insert" => amount # 0,
         Decide(w, pc, ref, amount, status)
  PROVE  WorkersShape' /\ Forward(w)
<1> DEFINE r == [workers[w] EXCEPT !.pc = pc, !.ref = ref,
                                   !.amount = amount, !.status = status]
<1>1. pc \in Pcs
  BY DEF Inside
<1>2. WorkersShape' /\ Becomes(w, r)
  BY <1>1, DecideShape
<1>3. r.pc = pc /\ r.amount = amount
  BY DEF Shape, IsWorker
<1> HIDE DEF r
<1> QED BY <1>2, <1>3 DEF Becomes, Forward

LEMMA OpensForward ==
  ASSUME Shape, NEW w \in Workers,
         \/ PaymentOpen(w) \/ RefundOpen(w) \/ DisputeOpen(w) \/ WonOpen(w)
         \/ Restore(w)
  PROVE  WorkersShape' /\ Forward(w)
<1> USE DEF Inside, Pcs
<1>1. CASE PaymentOpen(w)
  <2>1. Pack # 0
    BY PackAssumption
  <2>2. \/ \E s \in Statuses : Decide(w, "status", "grant", 0, s)
        \/ Decide(w, "insert", "grant", Pack, "none")
    BY <1>1 DEF PaymentOpen, Statuses
  <2> QED BY <2>1, <2>2, RefIds, DecideForward DEF Statuses
<1>2. CASE RefundOpen(w)
  <2> DEFINE r == workers[w].event.id
  <2>1. workers[w].event \in Event
    BY DEF Shape, IsWorker
  <2>2. r \in Refs
    BY <1>2, <2>1, EventIds, RefIds DEF RefundOpen, Runs
  <2>3. \/ Step(w, "unlock")
        \/ \E a, s : s \in Statuses /\ Decide(w, "debit", r, a, s)
    BY <1>2 DEF RefundOpen, Statuses
  <2> QED BY <2>2, <2>3, StepForward, DecideForward
<1>3. CASE DisputeOpen(w)
  <2>1. \/ Step(w, "unlock")
        \/ \E a, s : s \in Statuses /\ Decide(w, "debit", "dispute", a, s)
    BY <1>3 DEF DisputeOpen, Statuses
  <2> QED BY <2>1, RefIds, StepForward, DecideForward
<1>4. CASE WonOpen(w)
  <2>1. Pack # 0
    BY PackAssumption
  <2>2. \/ Step(w, "unlock") \/ Step(w, "restore")
        \/ \E s \in Statuses : Decide(w, "status", "grant", 0, s)
        \/ Decide(w, "insert", "grant", Pack, "none")
    BY <1>4 DEF WonOpen, Statuses
  <2> QED BY <2>1, <2>2, RefIds, StepForward, DecideForward DEF Statuses
<1>5. CASE Restore(w)
  <2>1. \/ Step(w, "unlock")
        \/ \E a : a > 0 /\ Decide(w, "insert", "regrant", a, "succeeded")
        \/ \E s \in Statuses : Decide(w, "debit", "regrant", 0, s)
    BY <1>5 DEF Restore, NetStatus, Statuses
  <2>2. \A a : a > 0 => a # 0
    OBVIOUS
  <2> QED BY <2>1, <2>2, RefIds, StepForward, DecideForward DEF Statuses
<1> QED BY <1>1, <1>2, <1>3, <1>4, <1>5

LEMMA RepairOpenForward ==
  ASSUME Shape, NEW w \in Workers, RepairOpen(w)
  PROVE  WorkersShape' /\ Forward(w)
<1>1. PICK pc \in {"credit", "unlock"} : Step(w, pc) /\ (pc = "credit" => Pending(workers[w].ref))
  BY DEF RepairOpen
<1>2. WorkersShape' /\ Becomes(w, [workers[w] EXCEPT !.pc = pc])
  BY <1>1, StepShape DEF Pcs
<1>3. /\ [workers[w] EXCEPT !.pc = pc].pc = pc
      /\ [workers[w] EXCEPT !.pc = pc].ref = workers[w].ref
  BY DEF Shape, IsWorker
<1>4. UNCHANGED ledger
  BY DEF RepairOpen, money
<1> QED BY <1>1, <1>2, <1>3, <1>4 DEF Becomes, Forward, Inside, Pcs, Pending

\* A row is inserted only where none is, and is then pending.
LEMMA InsertForward ==
  ASSUME Shape, NEW w \in Workers, Insert(w)
  PROVE  WorkersShape' /\ Forward(w) /\ RowsShape' /\ Keeps
<1> DEFINE x == workers[w].ref
           row == [there |-> TRUE, delta |-> workers[w].amount, applied |-> FALSE]
<1>1. IsWorker(workers[w]) /\ x \in Refs /\ IsRow(ledger[x])
  BY DEF Shape, IsWorker
<1>2. CASE ledger[x].there
  <2>1. UNCHANGED ledger /\ (Step(w, "restore") \/ Step(w, "unlock"))
    BY <1>2 DEF Insert
  <2> QED BY <2>1, SameRows, StepForward DEF Inside, Pcs
<1>3. CASE ~ledger[x].there
  <2>1. ledger' = [ledger EXCEPT ![x] = row] /\ Step(w, "credit")
    BY <1>3 DEF Insert
  <2>2. ledger[x].delta = 0 /\ IsRow(row)
    BY <1>1, <1>3 DEF IsRow
  <2>3. RowsShape' /\ Keeps
    BY <1>1, <2>1, <2>2, WriteRow
  <2>4. WorkersShape' /\ Becomes(w, [workers[w] EXCEPT !.pc = "credit"])
    BY <2>1, StepShape DEF Pcs
  <2>5. /\ workers'[w].pc = "credit"
        /\ workers'[w].ref = x
    BY <1>1, <2>4 DEF Becomes, IsWorker
  <2>6. ledger'[x] = row
    BY <1>1, <2>1 DEF Shape
  <2>7. InsertsMove => row.delta # 0
    BY DEF Insert, InsertsMove
  <2>8. InsertsMove => Pending(workers[w].ref)'
    <3>1. workers'[w].ref = x
      BY <2>5
    <3>2. InsertsMove => ledger'[x].there /\ ~ledger'[x].applied /\ ledger'[x].delta # 0
      BY <2>6, <2>7
    <3> QED BY <3>1, <3>2 DEF Pending
  <2>9. Forward(w)
    BY <2>4, <2>5, <2>8 DEF Forward, Becomes, Inside, Pcs
  <2> QED BY <2>3, <2>4, <2>9
<1> QED BY <1>2, <1>3

LEMMA CreditForward ==
  ASSUME Shape, NEW w \in Workers, Credit(w)
  PROVE  WorkersShape' /\ Forward(w) /\ RowsShape' /\ Keeps
<1> DEFINE x == workers[w].ref
           row == [ledger[x] EXCEPT !.applied = TRUE]
           r == [workers[w] EXCEPT !.pc = "settle", !.todo = Succeeded]
<1>1. IsWorker(workers[w]) /\ x \in Refs /\ IsRow(ledger[x])
  BY DEF Shape, IsWorker
<1>2. ledger' = [ledger EXCEPT ![x] = row]
  BY DEF Credit
<1>3. IsRow(row) /\ row.delta = ledger[x].delta
  BY <1>1 DEF IsRow
<1>4. RowsShape' /\ Keeps
  <2> HIDE DEF row, x
  <2> QED BY <1>1, <1>2, <1>3, WriteRow
<1>5. Step(w, "unlock") \/ Step(w, "status") \/ Put(w, r)
  BY DEF Credit
<1>6. CASE Put(w, r)
  <2>1. IsWorker(r) /\ r.pc = "settle"
    BY <1>1 DEF IsWorker, Pcs, Succeeded
  <2>2. WorkersShape' /\ Becomes(w, r)
    BY <1>6, <2>1, PutShape
  <2>3. Forward(w)
    BY <2>1, <2>2 DEF Becomes, Forward, Inside, Pcs
  <2> QED BY <1>4, <2>2, <2>3
<1>7. CASE Step(w, "unlock") \/ Step(w, "status")
  BY <1>4, <1>7, StepForward DEF Inside, Pcs
<1> QED BY <1>5, <1>6, <1>7

LEMMA SettleForward ==
  ASSUME Shape, NEW w \in Workers, NEW x \in Refunds, Settle(w, x)
  PROVE  WorkersShape' /\ Forward(w) /\ RowsShape' /\ Keeps
<1> DEFINE r == [workers[w] EXCEPT !.todo = @ \ {x},
                                   !.done = workers[w].done \cup {x}]
<1>1. RowsShape' /\ Keeps
  <2>1. \/ SetMarker(x)
        \/ \E share : DebitOverMarker(x, share)
    BY DEF Settle
  <2> QED BY <2>1, RefIds, SetMarkerKeeps, DebitKeeps
<1>2. IsWorker(workers[w]) /\ workers[w].pc = "settle"
  BY DEF Settle, Shape
<1>3. IsWorker(r) /\ r.pc = "settle"
  BY <1>2 DEF IsWorker
<1>4. Put(w, r)
  BY DEF Settle
<1>5. WorkersShape' /\ Becomes(w, r)
  BY <1>3, <1>4, PutShape
<1>6. Forward(w)
  BY <1>3, <1>5 DEF Becomes, Forward, Inside, Pcs
<1> QED BY <1>1, <1>5, <1>6

LEMMA SettledForward ==
  ASSUME Shape, NEW w \in Workers, Settled(w)
  PROVE  WorkersShape' /\ Forward(w) /\ RowsShape' /\ Keeps
<1> DEFINE s == NetStatus(Target(workers[w].done))
           r == [workers[w] EXCEPT !.pc = "status", !.status = s]
<1>1. RowsShape' /\ Keeps
  BY RefIds, SameRows, SetMarkerKeeps DEF Settled, money
<1>2. s \in Statuses
  BY DEF NetStatus, Statuses
<1>3. IsWorker(r) /\ r.pc = "status"
  BY <1>2 DEF Shape, IsWorker, Pcs
<1>4. Put(w, r)
  BY DEF Settled
<1>5. WorkersShape' /\ Becomes(w, r)
  BY <1>3, <1>4, PutShape
<1>6. Forward(w)
  BY <1>3, <1>5 DEF Becomes, Forward, Inside, Pcs
<1> QED BY <1>1, <1>5, <1>6

LEMMA TakeBackForward ==
  ASSUME Shape, NEW w \in Workers, TakeBack(w)
  PROVE  WorkersShape' /\ Forward(w) /\ RowsShape' /\ Keeps
<1>1. workers[w].ref \in Refs
  BY DEF Shape, IsWorker
<1>2. RowsShape' /\ Keeps
  BY <1>1, SetMarkerKeeps, DebitKeeps DEF TakeBack
<1>3. Step(w, "unlock") \/ Step(w, "status")
  BY DEF TakeBack
<1> QED BY <1>2, <1>3, StepForward DEF Inside, Pcs

LEMMA WriteStatusForward ==
  ASSUME Shape, NEW w \in Workers, WriteStatus(w)
  PROVE  WorkersShape' /\ Forward(w)
  BY StepForward DEF WriteStatus, Inside, Pcs

-----------------------------------------------------------------------------
(* Every step keeps the shape of the state and the rows that moved credits. *)

LEMMA EnvironmentShape ==
  ASSUME Shape, Environment
  PROVE  news' \subseteq Event /\ UNCHANGED <<workers, ledger, lock>>
<1>1. ASSUME NEW r \in Refunds, NEW a \in Amounts,
             NEW t \in {"refund", "refund_failed"}, IssueRefund(r, a, t)
      PROVE  news' \subseteq Event /\ UNCHANGED <<workers, ledger, lock>>
  <2>1. Signal(t, r, a) \in Event
    BY DEF Event
  <2> QED BY <1>1, <2>1 DEF IssueRefund, money, Shape
<1>2. ASSUME NEW d \in Disputes, NEW s \in DisputeStatuses, IssueDispute(d, s)
      PROVE  news' \subseteq Event /\ UNCHANGED <<workers, ledger, lock>>
  <2>1. \A status : Later(status) \subseteq DisputeEvents
    BY DEF Later, DisputeEvents, Revokes, Restores
  <2>2. s \in DisputeEvents
    BY <1>2, <2>1 DEF IssueDispute, DisputeEvents, Revokes, Restores
  <2>3. Signal(s, d, Unknown) \in Event
    BY <2>2 DEF Event
  <2> QED BY <1>2, <2>3 DEF IssueDispute, money, Shape
<1>3. CASE Spend
  BY <1>3 DEF Spend, world, Shape
<1> QED BY <1>1, <1>2, <1>3 DEF Environment

\* Actions of a worker that is not in the lock.
Outdoors(w) ==
  \/ \E e \in news : Deliver(w, e)
  \/ DeliverAttempt(w) \/ JobMarks(w) \/ Stamp(w)
  \/ \E x \in Refs : JobRepairs(w, x)
  \/ RecordRefund(w) \/ GiveUp(w)

\* Actions of a worker that stays in the lock.
Indoors(w) == InTheLock(w) /\ ~Release(w)

LEMMA OutdoorsShape ==
  ASSUME Shape, NEW w \in Workers, Outdoors(w)
  PROVE  /\ WorkersShape' /\ Outside(w)
         /\ UNCHANGED <<news, ledger, lock>>
<1>1. CASE \E e \in news : Deliver(w, e)
  BY <1>1, DeliverShape DEF Deliver, world, money
<1>2. CASE DeliverAttempt(w) \/ JobMarks(w)
  BY <1>2, StampsShape DEF DeliverAttempt, JobMarks, world, money
<1>3. CASE Stamp(w) \/ GiveUp(w)
  <2>1. Answer(w) \/ GiveUp(w)
    BY <1>3 DEF Stamp
  <2>2. WorkersShape' /\ Becomes(w, Idle)
    BY <2>1, AnswerShape
  <2>3. Outside(w)
    BY <2>2, IdleOutside DEF Becomes, Outside
  <2>4. UNCHANGED <<news, ledger, lock>>
    BY <1>3 DEF Stamp, GiveUp, world, money
  <2> QED BY <2>2, <2>3, <2>4
<1>4. CASE \E x \in Refs : JobRepairs(w, x)
  BY <1>4, JobRepairsShape DEF JobRepairs, world, money
<1>5. CASE RecordRefund(w)
  BY <1>5, RecordShape DEF RecordRefund, world, money
<1> QED BY <1>1, <1>2, <1>3, <1>4, <1>5 DEF Outdoors

LEMMA IndoorsShape ==
  ASSUME Shape, NEW w \in Workers, Indoors(w)
  PROVE  /\ WorkersShape' /\ Forward(w) /\ RowsShape' /\ Keeps
         /\ workers[w].pc \in Inside
         /\ UNCHANGED <<news, lock>>
<1>1. CASE PaymentOpen(w) \/ RefundOpen(w) \/ DisputeOpen(w) \/ WonOpen(w)
           \/ Restore(w)
  <2>1. UNCHANGED <<news, ledger, lock>> /\ workers[w].pc \in Inside
    BY <1>1 DEF PaymentOpen, RefundOpen, DisputeOpen, WonOpen, Restore, Runs,
                Inside, Pcs, world, money
  <2> QED BY <1>1, <2>1, OpensForward, SameRows
<1>2. CASE RepairOpen(w)
  <2>1. UNCHANGED <<news, ledger, lock>> /\ workers[w].pc \in Inside
    BY <1>2 DEF RepairOpen, Runs, Inside, Pcs, world, money
  <2> QED BY <1>2, <2>1, RepairOpenForward, SameRows
<1>3. CASE Insert(w)
  BY <1>3, InsertForward DEF Insert, Inside, Pcs, world
<1>4. CASE Credit(w)
  BY <1>4, CreditForward DEF Credit, Inside, Pcs, world
<1>5. CASE \E r \in Refunds : Settle(w, r)
  BY <1>5, SettleForward DEF Settle, Inside, Pcs, world
<1>6. CASE Settled(w)
  BY <1>6, SettledForward DEF Settled, Inside, Pcs, world
<1>7. CASE TakeBack(w)
  BY <1>7, TakeBackForward DEF TakeBack, Inside, Pcs, world
<1>8. CASE WriteStatus(w)
  <2>1. UNCHANGED <<news, ledger, lock>> /\ workers[w].pc \in Inside
    BY <1>8 DEF WriteStatus, Inside, Pcs, world, money
  <2> QED BY <1>8, <2>1, WriteStatusForward, SameRows
<1> QED
  BY <1>1, <1>2, <1>3, <1>4, <1>5, <1>6, <1>7, <1>8 DEF Indoors, InTheLock

LEMMA AcquireShape ==
  ASSUME Shape, NEW w \in Workers, Acquire(w)
  PROVE  /\ WorkersShape' /\ UNCHANGED <<news, ledger>>
         /\ workers'[w].pc = "open"
         /\ \A v \in Workers : v # w => workers'[v] = workers[v]
<1>1. Step(w, "open") /\ UNCHANGED <<news, ledger>>
  BY DEF Acquire, world, money
<1>2. WorkersShape' /\ Becomes(w, [workers[w] EXCEPT !.pc = "open"])
  BY <1>1, StepShape DEF Pcs
<1>3. [workers[w] EXCEPT !.pc = "open"].pc = "open"
  BY DEF Shape, IsWorker
<1> QED BY <1>1, <1>2, <1>3 DEF Becomes

LEMMA LeaveShape ==
  ASSUME Shape, NEW w \in Workers, Release(w) \/ Dies(w)
  PROVE  /\ WorkersShape' /\ Outside(w) /\ UNCHANGED <<news, ledger>>
         /\ lock # w => lock' = lock
<1>1. Answer(w) \/ Dies(w)
  BY DEF Release
<1>2. WorkersShape' /\ Becomes(w, Idle)
  BY <1>1, AnswerShape
<1>3. UNCHANGED <<news, ledger>> /\ (lock # w => lock' = lock)
  BY DEF Release, Dies, world, money
<1> QED BY <1>2, <1>3, IdleOutside DEF Becomes, Outside

LEMMA WorkSplits ==
  ASSUME NEW w \in Workers, Works(w)
  PROVE  Outdoors(w) \/ Acquire(w) \/ Indoors(w) \/ Release(w) \/ Dies(w)
  BY DEF Works, Outdoors, Indoors

LEMMA ShapeNext ==
  ASSUME Shape, [Next]_vars
  PROVE  Shape' /\ Keeps
<1>1. CASE Environment
  <2>1. news' \subseteq Event /\ UNCHANGED <<workers, ledger>>
    BY <1>1, EnvironmentShape
  <2>2. WorkersShape'
    BY <2>1, ShapeParts DEF WorkersShape, IsWorker
  <2> QED BY <2>1, <2>2, SameRows, ShapeParts DEF Event, Repairs
<1>2. ASSUME NEW w \in Workers, Works(w)
      PROVE  Shape' /\ Keeps
  <2>1. WorkersShape' /\ RowsShape' /\ Keeps /\ UNCHANGED news
    <3>1. CASE Outdoors(w)
      BY <3>1, OutdoorsShape, SameRows
    <3>2. CASE Acquire(w)
      BY <3>2, AcquireShape, SameRows
    <3>3. CASE Indoors(w)
      BY <3>3, IndoorsShape
    <3>4. CASE Release(w) \/ Dies(w)
      BY <3>4, LeaveShape, SameRows
    <3> QED BY <1>2, <3>1, <3>2, <3>3, <3>4, WorkSplits
  <2> QED BY <2>1, ShapeParts DEF Event, Repairs
<1>3. CASE UNCHANGED vars
  <2>1. UNCHANGED <<news, workers, ledger>>
    BY <1>3 DEF vars, world, money
  <2>2. WorkersShape'
    BY <2>1, ShapeParts DEF WorkersShape, IsWorker
  <2> QED BY <2>1, <2>2, SameRows, ShapeParts DEF Event, Repairs
<1> QED BY <1>1, <1>2, <1>3 DEF Next

\* A row of credit_ledger that moved credits keeps its delta for ever, for any
\* number of invocations, refunds and disputes and also when locks are stolen:
\* INSERT OR IGNORE and the two debits leave such a row alone, and no other
\* statement touches a delta.
THEOREM RowsFinal == Spec => RowsAreFinal
<1>1. Shape /\ [Next]_vars => Shape'
  BY ShapeNext
<1>2. Shape /\ [Next]_vars =>
        [\A x \in Refs : ledger[x].delta # 0 => ledger'[x].delta = ledger[x].delta]_vars
  BY ShapeNext DEF Keeps
<1> QED BY <1>1, <1>2, ShapeInit, PTL DEF Spec, RowsAreFinal

-----------------------------------------------------------------------------
(* One holder of the lock, one credit per row.                              *)

\* A worker that changes outside the lock disturbs nobody inside.
LEMMA OutsideSafe ==
  ASSUME LedgerInv, NEW w \in Workers, Outside(w), UNCHANGED ledger,
         lock # w => lock' = lock
  PROVE  (LockIsOwned /\ InsertsMove /\ CreditsOnce)'
<1>1. \A v \in Workers : workers'[v].pc \in Inside =>
        workers'[v] = workers[v] /\ v # w
  BY DEF Outside
<1>2. {"insert", "credit"} \subseteq Inside
  BY DEF Inside, Pcs
<1>3. LockIsOwned'
  BY <1>1 DEF LedgerInv, LockIsOwned
<1>4. InsertsMove'
  BY <1>1, <1>2 DEF LedgerInv, InsertsMove
<1>5. CreditsOnce'
  BY <1>1, <1>2, <1>3 DEF LedgerInv, CreditsOnce, LockIsOwned, Pending
<1> QED BY <1>3, <1>4, <1>5

LEMMA SafeNext ==
  ASSUME ~SlowHolders, LedgerInv, [Next]_vars
  PROVE  (LockIsOwned /\ InsertsMove /\ CreditsOnce)'
<1>1. Shape /\ LockIsOwned /\ InsertsMove /\ CreditsOnce
  BY DEF LedgerInv
<1>2. CASE UNCHANGED <<workers, ledger, lock>>
  BY <1>1, <1>2 DEF LockIsOwned, InsertsMove, CreditsOnce, Pending
<1>3. ASSUME NEW w \in Workers, Works(w)
      PROVE  (LockIsOwned /\ InsertsMove /\ CreditsOnce)'
  <2>1. CASE Outdoors(w)
    BY <1>1, <2>1, OutdoorsShape, OutsideSafe
  <2>2. CASE Release(w) \/ Dies(w)
    BY <1>1, <2>2, LeaveShape, OutsideSafe
  <2>3. CASE Acquire(w)
    <3>1. lock \in {"free", "dead"} /\ lock' = w
      BY <2>3 DEF Acquire
    <3>2. \A v \in Workers : workers[v].pc \notin Inside
      BY <1>1, <3>1, IdAssumption DEF LockIsOwned
    <3>3. \A v \in Workers :
            workers'[v].pc \in Inside => v = w /\ workers'[v].pc = "open"
      BY <1>1, <2>3, <3>2, AcquireShape
    <3>4. {"insert", "credit"} \subseteq Inside
      BY DEF Inside, Pcs
    <3> QED BY <3>1, <3>3, <3>4 DEF LockIsOwned, InsertsMove, CreditsOnce
  <2>4. CASE Indoors(w)
    <3>1. Forward(w) /\ lock = w /\ lock' = w
      BY <1>1, <2>4, IndoorsShape DEF LockIsOwned
    <3>2. \A v \in Workers : workers'[v].pc \in Inside => v = w
      BY <1>1, <3>1 DEF Forward, LockIsOwned
    <3>3. {"insert", "credit"} \subseteq Inside
      BY DEF Inside, Pcs
    <3>4. LockIsOwned'
      BY <3>1, <3>2 DEF LockIsOwned
    <3>5. InsertsMove'
      BY <3>1, <3>2, <3>3 DEF InsertsMove, Forward
    <3>6. CreditsOnce'
      <4>1. workers'[w].pc = "credit" => Pending(workers[w].ref)'
        BY <1>1, <3>1 DEF Forward
      <4> QED BY <3>1, <3>2, <3>3, <4>1 DEF CreditsOnce, Pending
    <3> QED BY <3>4, <3>5, <3>6
  <2> QED BY <1>3, <2>1, <2>2, <2>3, <2>4, WorkSplits
<1>4. Environment => UNCHANGED <<workers, ledger, lock>>
  BY <1>1, EnvironmentShape
<1>5. UNCHANGED vars => UNCHANGED <<workers, ledger, lock>>
  BY DEF vars, money
<1> QED BY <1>2, <1>3, <1>4, <1>5 DEF Next

LEMMA LedgerInvInit == Init => LedgerInv
<1> SUFFICES ASSUME Init PROVE LedgerInv
  OBVIOUS
<1>1. \A w \in Workers : workers[w].pc = "idle"
  BY DEF Init, Idle
<1> QED BY <1>1, ShapeInit
        DEF LedgerInv, LockIsOwned, InsertsMove, CreditsOnce, Inside, Pcs

\* A row reaches the balance at most once and by one invocation at a time, for
\* any number of invocations, refunds and disputes, crashes included: whoever
\* is about to credit a row owns the lock and the row is still pending.  It
\* rests on holders that finish within the 60 s after which a lock is stolen.
THEOREM CreditedOnce ==
  ASSUME ~SlowHolders PROVE Spec => []CreditsOnce
<1>1. LedgerInv /\ [Next]_vars => LedgerInv'
  BY ShapeNext, SafeNext DEF LedgerInv
<1>2. LedgerInv => CreditsOnce
  BY DEF LedgerInv
<1> QED BY <1>1, <1>2, LedgerInvInit, PTL DEF Spec

-----------------------------------------------------------------------------
(* Amounts: what the store computes is a number.                            *)

\* A share of the pack is at most the pack, and grows with the refunds.
LEMMA Quotient ==
  ASSUME NEW a \in Nat, NEW b \in Nat \ {0}
  PROVE  a \div b \in Nat /\ b * (a \div b) <= a /\ a < b * (a \div b) + b
  OBVIOUS

LEMMA QuotientGrows ==
  ASSUME NEW a \in Nat, NEW c \in Nat, NEW b \in Nat \ {0}, a <= c
  PROVE  a \div b <= c \div b
  OBVIOUS

LEMMA ShareOfPack ==
  ASSUME NEW t \in Nat, t < Price
  PROVE  (Pack * t) \div Price \in 0 .. Pack
<1>1. Pack \in Nat /\ Price \in Nat \ {0}
  BY PackAssumption
<1>2. Pack * t \in Nat /\ Pack * t <= Pack * Price
  BY <1>1
<1>3. (Pack * t) \div Price <= (Pack * Price) \div Price
  BY <1>1, <1>2, QuotientGrows
<1>4. (Pack * Price) \div Price = Pack
  BY <1>1
<1>5. (Pack * t) \div Price \in Nat
  BY <1>1, <1>2, Quotient
<1> QED BY <1>1, <1>3, <1>4, <1>5

LEMMA ShareGrows ==
  ASSUME NEW t \in Nat, NEW u \in Nat, t <= u
  PROVE  (Pack * t) \div Price <= (Pack * u) \div Price
<1>1. Pack \in Nat /\ Price \in Nat \ {0}
  BY PackAssumption
<1>2. Pack * t \in Nat /\ Pack * u \in Nat /\ Pack * t <= Pack * u
  BY <1>1
<1> QED BY <1>1, <1>2, QuotientGrows

Known(S) == \A r \in S : refunds[r].amount # Unknown
Total(S) == SumFunctionOnSet([r \in S |-> refunds[r].amount], S)

LEMMA TotalType ==
  ASSUME IsFiniteSet(Refunds), TypeOK, NEW S \in SUBSET Succeeded, Known(S)
  PROVE  Total(S) \in Nat
<1> DEFINE f == [r \in S |-> refunds[r].amount]
<1>1. IsFiniteSet(S) /\ S \subseteq Refunds
  BY FS_Subset DEF Succeeded
<1>2. \A r \in S : f[r] \in Nat
  BY <1>1, AmountAssumption DEF TypeOK, Succeeded, Known
<1> HIDE DEF f
<1>3. SumFunctionOnSet(f, S) \in Nat
  BY <1>1, <1>2, SumNat
<1> QED BY <1>3 DEF Total, f

LEMMA TotalGrows ==
  ASSUME IsFiniteSet(Refunds), TypeOK, NEW T \in SUBSET Succeeded, Known(T),
         NEW S \in SUBSET T
  PROVE  Total(S) <= Total(T)
<1> DEFINE f == [r \in S |-> refunds[r].amount]
           g == [r \in T |-> refunds[r].amount]
<1>1. IsFiniteSet(T) /\ T \subseteq Refunds /\ IsFiniteSet(S)
  BY FS_Subset DEF Succeeded
<1>2. (\A r \in T : g[r] \in Nat) /\ (\A r \in S : f[r] = g[r])
  BY <1>1, AmountAssumption DEF TypeOK, Succeeded, Known
<1>5. Total(S) = SumFunctionOnSet(f, S) /\ Total(T) = SumFunctionOnSet(g, T)
  BY DEF Total
<1> HIDE DEF f, g
<1>3. SumFunctionOnSet(f, S) = SumFunctionOnSet(g, S)
  BY <1>1, <1>2, SumEqual
<1>4. SumFunctionOnSet(g, S) <= SumFunctionOnSet(g, T)
  BY <1>1, <1>2, SumPart
<1> QED BY <1>3, <1>4, <1>5

LEMMA TargetParts ==
  ASSUME NEW S
  PROVE  Target(S) = IF ~Known(S) \/ Total(S) >= Price THEN Pack
                     ELSE (Pack * Total(S)) \div Price
  BY DEF Target, Known, Total

LEMMA TargetRange ==
  ASSUME IsFiniteSet(Refunds), TypeOK, NEW S \in SUBSET Succeeded
  PROVE  Target(S) \in 0 .. Pack
<1>1. CASE ~Known(S) \/ Total(S) >= Price
  BY <1>1, TargetParts, PackAssumption
<1>2. CASE Known(S) /\ ~(Total(S) >= Price)
  <2>1. Total(S) \in Nat /\ Total(S) < Price
    BY <1>2, TotalType, PackAssumption
  <2> QED BY <1>2, <2>1, ShareOfPack, TargetParts
<1> QED BY <1>1, <1>2

LEMMA TargetGrows ==
  ASSUME IsFiniteSet(Refunds), TypeOK, NEW T \in SUBSET Succeeded, NEW S \in SUBSET T
  PROVE  Target(S) <= Target(T)
<1>1. Target(S) \in 0 .. Pack
  BY TargetRange
<1>2. CASE ~Known(T) \/ Total(T) >= Price
  <2>1. Target(T) = Pack
    BY <1>2, TargetParts
  <2> QED BY <1>1, <2>1, PackAssumption
<1>3. CASE Known(T) /\ ~(Total(T) >= Price)
  <2>1. Known(S)
    BY <1>3 DEF Known
  <2>2. Total(S) \in Nat /\ Total(T) \in Nat /\ Total(S) <= Total(T)
    BY <1>3, <2>1, TotalType, TotalGrows
  <2>3. ~(Total(S) >= Price)
    BY <1>3, <2>2, PackAssumption
  <2>4. (Pack * Total(S)) \div Price <= (Pack * Total(T)) \div Price
    BY <2>2, ShareGrows
  <2>5. /\ Target(S) = (Pack * Total(S)) \div Price
        /\ Target(T) = (Pack * Total(T)) \div Price
    BY <1>3, <2>1, <2>3, TargetParts
  <2> QED BY <2>4, <2>5
<1> QED BY <1>2, <1>3

\* No refunds cover nothing.
LEMMA TargetEmpty == Target({}) = 0
<1>1. Total({}) = 0
  BY SumEmpty DEF Total
<1>2. Known({})
  BY DEF Known
<1>3. Pack \in Nat /\ Price \in Nat \ {0} /\ ~(0 >= Price) /\ Pack * 0 = 0
  BY PackAssumption
<1>4. 0 \div Price = 0
  BY <1>3
<1> QED BY <1>1, <1>2, <1>3, <1>4, TargetParts

\* What the ledger sums to.
LEMMA RefsFinite == IsFiniteSet(Refunds) => IsFiniteSet(Refs)
<1> SUFFICES ASSUME IsFiniteSet(Refunds) PROVE IsFiniteSet(Refs)
  OBVIOUS
<1>1. Refs = ((Refunds \cup {"grant"}) \cup {"dispute"}) \cup {"regrant"}
  BY DEF Refs
<1> QED BY <1>1, FS_AddElement

Deltaed == \A x \in Refs : ledger[x].delta \in Int

LEMMA MovedType ==
  ASSUME IsFiniteSet(Refunds), Deltaed, NEW S \in SUBSET Refs
  PROVE  Moved(S) \in Int
<1>1. IsFiniteSet(S)
  BY RefsFinite, FS_Subset
<1>2. \A x \in S : Deltas[x] \in Int
  BY DEF Deltaed, Deltas
<1> QED BY <1>1, <1>2, SumType DEF Moved

LEMMA LedgerSums ==
  ASSUME IsFiniteSet(Refunds), Deltaed
  PROVE  /\ Granted \in Int /\ Revoked \in Int /\ Outstanding \in Nat
         /\ RefundRevoked \in Int /\ DisputeRevoked \in Int
<1>1. /\ {x \in Refs : ledger[x].delta > 0} \in SUBSET Refs
      /\ {x \in Refs : ledger[x].delta < 0} \in SUBSET Refs
      /\ {r \in Refunds : ledger[r].delta < 0} \in SUBSET Refs
      /\ {x \in {"dispute"} : ledger[x].delta < 0} \in SUBSET Refs
  BY RefIds
<1>2. /\ Granted \in Int /\ Revoked \in Int
      /\ RefundRevoked \in Int /\ DisputeRevoked \in Int
  <2>1. /\ Moved({x \in Refs : ledger[x].delta > 0}) \in Int
        /\ Moved({x \in Refs : ledger[x].delta < 0}) \in Int
        /\ Moved({r \in Refunds : ledger[r].delta < 0}) \in Int
        /\ Moved({x \in {"dispute"} : ledger[x].delta < 0}) \in Int
    BY <1>1, MovedType
  <2> QED BY <2>1 DEF Granted, Revoked, RefundRevoked, DisputeRevoked
<1> QED BY <1>2 DEF Outstanding, Monus

-----------------------------------------------------------------------------
(* Every worker is about to write something that fits.                      *)

\* The parts of a state that are neither workers nor amounts.
Book ==
  /\ sound \in BOOLEAN
  /\ order \in [status: Statuses, linked: BOOLEAN]
  /\ refunds \in [Refunds -> [status: {"none", "failed", "succeeded"},
                              amount: Amounts \cup {Unknown}]]
  /\ disputes \in [Disputes -> DisputeEvents \cup {"none"}]
  /\ lock \in {"free", "dead"} \cup Workers
  /\ handled \subseteq Event
  /\ spent \in Nat
  /\ crashes \in Nat

LEMMA TypeParts ==
  /\ TypeInv => Shape /\ Book /\ Fits /\ Deltaed /\ balance \in Nat
  /\ Shape /\ Book /\ Fits /\ balance \in Nat => TypeInv
  /\ Shape' /\ Book' /\ Fits' /\ balance' \in Nat => TypeInv'
<1>1. TypeInv => Shape /\ Book /\ Fits /\ Deltaed /\ balance \in Nat
  BY DEF TypeInv, TypeOK, Book, Fits, RowFits, Deltaed
<1>2. Shape /\ Fits => /\ workers \in [Workers -> Worker]
                       /\ ledger \in [Refs -> Row]
  <2> SUFFICES ASSUME Shape, Fits
               PROVE  workers \in [Workers -> Worker] /\ ledger \in [Refs -> Row]
    OBVIOUS
  <2>1. \A w \in Workers : workers[w] \in Worker
    BY DEF Shape, Fits, WorkerFits, IsWorker, Worker, Pcs
  <2>2. \A x \in Refs : ledger[x] \in Row
    BY DEF Shape, Fits, RowFits, IsRow, Row
  <2> QED BY <2>1, <2>2 DEF Shape
<1>3. Shape /\ Book /\ Fits /\ balance \in Nat => TypeInv
  BY <1>2 DEF TypeInv, TypeOK, Book, Shape
<1>4. Shape' /\ Fits' => /\ workers' \in [Workers -> Worker]
                         /\ ledger' \in [Refs -> Row]
  <2> SUFFICES ASSUME Shape', Fits'
               PROVE  workers' \in [Workers -> Worker] /\ ledger' \in [Refs -> Row]
    OBVIOUS
  <2>1. \A w \in Workers : workers'[w] \in Worker
    BY DEF Shape, Fits, WorkerFits, IsWorker, Worker, Pcs, Event, Repairs
  <2>2. \A x \in Refs : ledger'[x] \in Row
    BY DEF Shape, Fits, RowFits, IsRow, Row
  <2> QED BY <2>1, <2>2 DEF Shape
<1>5. Shape' /\ Book' /\ Fits' /\ balance' \in Nat => TypeInv'
  <2> SUFFICES ASSUME Shape', Book', Fits', balance' \in Nat PROVE TypeOK'
    BY DEF TypeInv
  <2>1. workers' \in [Workers -> Worker] /\ ledger' \in [Refs -> Row]
    BY <1>4
  <2>2. news' \subseteq Event
    BY DEF Shape
  <2> QED BY <2>1, <2>2 DEF TypeOK, Book
<1> QED BY <1>1, <1>3, <1>5

LEMMA DoneEvents == ASSUME Book, Shape, NEW e \in Event, Done(e) PROVE handled' \subseteq Event
  BY DEF Book, Shape, Done

LEMMA BookStays ==
  ASSUME Book, UNCHANGED <<sound, order, refunds, disputes>>,
         lock' \in {"free", "dead", lock} \cup Workers, handled' \subseteq Event,
         spent' \in Nat, crashes' \in Nat
  PROVE  Book'
  BY DEF Book

\* recordRefund leaves a refund that succeeded alone.
RefundsGrow ==
  /\ Succeeded \subseteq Succeeded'
  /\ \A r \in Succeeded : refunds'[r] = refunds[r]
  /\ \A r \in Refunds : refunds[r].status = "succeeded" => refunds'[r] = refunds[r]

LEMMA SameRefunds == Book /\ UNCHANGED refunds => RefundsGrow
  BY DEF RefundsGrow, Succeeded

LEMMA RecordBook ==
  ASSUME Book, Shape, NEW w \in Workers, RecordRefund(w)
  PROVE  Book' /\ RefundsGrow
<1> DEFINE e == workers[w].event
           row == [status |-> IF e.type = "refund" THEN "succeeded" ELSE "failed",
                   amount |-> e.amount]
<1>1. e \in Event
  BY DEF Shape, IsWorker
<1>2. e.amount \in Amounts \cup {Unknown}
  BY <1>1 DEF Event, Repairs, Payment, Attempt, Mark, Signal
<1>3. refunds' = refunds \/ (refunds[e.id].status # "succeeded"
                              /\ refunds' = [refunds EXCEPT ![e.id] = row])
  BY DEF RecordRefund
<1>4. refunds' \in [Refunds -> [status: {"none", "failed", "succeeded"},
                                amount: Amounts \cup {Unknown}]]
  BY <1>2, <1>3 DEF Book
<1>5. RefundsGrow
  BY <1>3 DEF Book, RefundsGrow, Succeeded
<1>6. handled' \subseteq Event
  BY <1>1, DoneEvents DEF RecordRefund, Answer, Book
<1> QED BY <1>4, <1>5, <1>6 DEF RecordRefund, Book, world

LEMMA OutdoorsBook ==
  ASSUME Book, Shape, NEW w \in Workers, Outdoors(w)
  PROVE  Book' /\ RefundsGrow
<1>0. workers[w].event \in Event /\ workers[w].status \in Statuses
  BY DEF Shape, IsWorker
<1>1. CASE (\E e \in news : Deliver(w, e)) \/ JobMarks(w)
           \/ (\E x \in Refs : JobRepairs(w, x)) \/ GiveUp(w)
  <2>1. UNCHANGED <<world, records, lock, history>>
    BY <1>1 DEF Deliver, JobMarks, JobRepairs, GiveUp
  <2> QED BY <2>1, SameRefunds, BookStays DEF world, records, history, Book
<1>2. CASE DeliverAttempt(w)
  <2>1. UNCHANGED <<world, records, lock, spent, crashes>> /\ handled' \subseteq Event
    BY <1>2, DoneEvents, EventIds DEF DeliverAttempt, Book
  <2> QED BY <2>1, SameRefunds, BookStays DEF world, records, Book
<1>3. CASE Stamp(w)
  <2>1. handled' \subseteq Event
    BY <1>0, <1>3, DoneEvents DEF Stamp, Answer
  <2> QED BY <1>0, <1>3, <2>1, SameRefunds DEF Stamp, world, Book
<1>4. CASE RecordRefund(w)
  BY <1>4, RecordBook
<1> QED BY <1>1, <1>2, <1>3, <1>4 DEF Outdoors

LEMMA IndoorsBook ==
  ASSUME Book, Shape, NEW w \in Workers, Indoors(w)
  PROVE  Book' /\ UNCHANGED refunds
<1>0. workers[w].event \in Event /\ workers[w].status \in Statuses
  BY DEF Shape, IsWorker
<1>1. CASE PaymentOpen(w)
  BY <1>1 DEF PaymentOpen, Book, world, history, Statuses
<1>2. CASE WriteStatus(w)
  BY <1>0, <1>2 DEF WriteStatus, Book, world, history
<1>3. CASE DisputeOpen(w) \/ WonOpen(w)
  <2>1. workers[w].event.type \in DisputeEvents
    BY <1>3 DEF DisputeOpen, WonOpen, Runs, DisputeEvents
  <2>2. /\ UNCHANGED <<world, order, refunds, lock, history>>
        /\ RecordDispute(workers[w].event.id, workers[w].event.type)
    BY <1>3 DEF DisputeOpen, WonOpen
  <2>3. disputes' \in [Disputes -> DisputeEvents \cup {"none"}]
    BY <2>1, <2>2 DEF RecordDispute, Book
  <2> QED BY <2>2, <2>3 DEF Book, world, history
<1>4. CASE RefundOpen(w) \/ RepairOpen(w) \/ Restore(w) \/ Insert(w) \/ Credit(w)
           \/ (\E r \in Refunds : Settle(w, r)) \/ Settled(w) \/ TakeBack(w)
  <2>1. UNCHANGED <<world, records, lock, history>>
    BY <1>4 DEF RefundOpen, RepairOpen, Restore, Insert, Credit, Settle, Settled,
                TakeBack
  <2> QED BY <2>1, BookStays DEF world, records, history, Book
<1> QED BY <1>1, <1>2, <1>3, <1>4 DEF Indoors, InTheLock

LEMMA BookNext ==
  ASSUME Book, Shape, [Next]_vars
  PROVE  Book' /\ RefundsGrow
<1>1. CASE Environment \/ UNCHANGED vars
  <2>1. UNCHANGED <<sound, records, lock, handled, crashes>> /\ spent' \in Nat
    <3>1. CASE (\E r \in Refunds, a \in Amounts, t \in {"refund", "refund_failed"} :
                   IssueRefund(r, a, t))
               \/ (\E d \in Disputes, s \in DisputeStatuses : IssueDispute(d, s))
      BY <3>1 DEF IssueRefund, IssueDispute, history, Book
    <3>2. CASE Spend
      BY <3>2 DEF Spend, world, Book
    <3>3. CASE UNCHANGED vars
      BY <3>3 DEF vars, world, history, Book
    <3> QED BY <1>1, <3>1, <3>2, <3>3 DEF Environment
  <2> QED BY <2>1, SameRefunds, BookStays DEF records, Book
<1>2. ASSUME NEW w \in Workers, Works(w) PROVE Book' /\ RefundsGrow
  <2>0. workers[w].event \in Event
    BY DEF Shape, IsWorker
  <2>1. CASE Acquire(w)
    <3>1. UNCHANGED <<world, records, history>> /\ lock' = w
      BY <2>1 DEF Acquire
    <3> QED BY <3>1, SameRefunds, BookStays DEF world, records, history, Book
  <2>2. CASE Release(w)
    <3>1. /\ UNCHANGED <<world, records, spent, crashes>> /\ lock' \in {"free", lock}
          /\ handled' \subseteq Event
      BY <2>0, <2>2, DoneEvents DEF Release, Answer
    <3> QED BY <3>1, SameRefunds, BookStays DEF world, records, Book
  <2>3. CASE Dies(w)
    <3>1. /\ UNCHANGED <<world, records, handled, spent>> /\ lock' \in {"free", "dead", lock}
          /\ crashes' \in Nat
      BY <2>3 DEF Dies, Book
    <3> QED BY <3>1, SameRefunds, BookStays DEF world, records, Book
  <2> QED BY <1>2, <2>1, <2>2, <2>3, OutdoorsBook, IndoorsBook, SameRefunds, WorkSplits
<1> QED BY <1>1, <1>2 DEF Next

\* The other workers and the rows keep fitting.
LEMMA OthersFit ==
  ASSUME TypeInv, Keeps, RefundsGrow, NEW w \in Workers, WorkerFits(w)',
         \A v \in Workers : v # w => workers'[v] = workers[v],
         \A x \in Refs : RowFits(x)'
  PROVE  Fits'
<1>1. ASSUME NEW v \in Workers, v # w PROVE WorkerFits(v)'
  <2>1. WorkerFits(v) /\ workers'[v] = workers[v] /\ workers[v].ref \in Refs
    BY <1>1 DEF TypeInv, Fits, Shape, IsWorker
  <2>2. ledger[workers[v].ref].delta > 0 => ledger'[workers[v].ref].delta > 0
    BY <2>1 DEF Keeps
  <2> QED BY <2>1, <2>2 DEF WorkerFits, RefundsGrow
<1> QED BY <1>1 DEF Fits

LEMMA SameRowsFit ==
  ASSUME TypeInv, UNCHANGED ledger
  PROVE  \A x \in Refs : RowFits(x)'
  BY DEF TypeInv, Fits, RowFits

LEMMA WriteRowFits ==
  ASSUME TypeInv, NEW x \in Refs, NEW row, ledger' = [ledger EXCEPT ![x] = row],
         row.delta \in Int, ~row.applied => row.delta >= 0
  PROVE  \A y \in Refs : RowFits(y)'
<1>1. /\ ledger'[x] = row
      /\ \A y \in Refs : y # x => ledger'[y] = ledger[y]
      /\ \A y \in Refs : RowFits(y)
  BY DEF TypeInv, Shape, Fits
<1> QED BY <1>1 DEF RowFits

LEMMA SetMarkerFits ==
  ASSUME TypeInv, NEW x \in Refs, SetMarker(x)
  PROVE  balance' = balance /\ \A y \in Refs : RowFits(y)'
<1>1. UNCHANGED ledger \/ ledger' = [ledger EXCEPT ![x] = Marker]
  BY DEF SetMarker
<1>2. Marker.delta = 0 /\ Marker.applied
  BY DEF Marker
<1> QED BY <1>1, <1>2, SameRowsFit, WriteRowFits DEF SetMarker

LEMMA TakeFits ==
  ASSUME TypeInv, NEW x \in Refs, NEW request \in Nat, Take(x, request)
  PROVE  /\ balance' \in Nat
         /\ \A y \in Refs : RowFits(y)'
<1> DEFINE taken == Least(balance, request)
           row == [there |-> TRUE, delta |-> -taken, applied |-> TRUE]
<1>1. taken \in Nat /\ taken <= balance /\ balance \in Nat
  BY TypeParts DEF Least
<1>2. ledger' = [ledger EXCEPT ![x] = row] /\ balance' = balance - taken
  BY DEF Take
<1>3. row.delta \in Int /\ row.applied
  BY <1>1
<1>4. balance' \in Nat
  BY <1>1, <1>2
<1> HIDE DEF row, taken
<1> QED BY <1>2, <1>3, <1>4, WriteRowFits

LEMMA DebitFit ==
  ASSUME TypeInv, NEW x \in Refs, NEW request \in Nat,
         Debit(x, request) \/ DebitOverMarker(x, request)
  PROVE  /\ balance' \in Nat
         /\ \A y \in Refs : RowFits(y)'
<1>1. UNCHANGED money \/ Take(x, request)
  BY DEF Debit, DebitOverMarker
<1>2. balance \in Nat
  BY TypeParts
<1> QED BY <1>1, <1>2, TakeFits, SameRowsFit DEF money

\* A worker that writes no row next, and takes up neither an amount nor a refund.
Calm(w) ==
  /\ workers'[w].pc \notin {"insert", "debit", "credit"}
  /\ workers'[w].amount \in {0, workers[w].amount}
  /\ workers'[w].done \cup workers'[w].todo \subseteq workers[w].done \cup workers[w].todo

LEMMA CalmFits ==
  ASSUME TypeInv, RefundsGrow, NEW w \in Workers, Calm(w)
  PROVE  WorkerFits(w)'
  BY DEF TypeInv, Fits, WorkerFits, Calm, RefundsGrow

LEMMA PutIs ==
  ASSUME Shape, NEW w \in Workers, NEW r, Put(w, r)
  PROVE  workers'[w] = r
  BY DEF Shape, Put

LEMMA StepIs ==
  ASSUME Shape, NEW w \in Workers, NEW pc, Step(w, pc)
  PROVE  /\ workers'[w].pc = pc /\ workers'[w].ref = workers[w].ref
         /\ workers'[w].amount = workers[w].amount
         /\ workers'[w].event = workers[w].event
         /\ workers'[w].done = workers[w].done /\ workers'[w].todo = workers[w].todo
<1>1. workers'[w] = [workers[w] EXCEPT !.pc = pc] /\ IsWorker(workers[w])
  BY DEF Shape, Step
<1> QED BY <1>1 DEF IsWorker

LEMMA DecideIs ==
  ASSUME Shape, NEW w \in Workers, NEW pc, NEW ref, NEW amount, NEW status,
         Decide(w, pc, ref, amount, status)
  PROVE  /\ workers'[w].pc = pc /\ workers'[w].ref = ref
         /\ workers'[w].amount = amount
         /\ workers'[w].event = workers[w].event
         /\ workers'[w].done = workers[w].done /\ workers'[w].todo = workers[w].todo
<1>1. /\ workers'[w] = [workers[w] EXCEPT !.pc = pc, !.ref = ref, !.amount = amount,
                                          !.status = status]
      /\ IsWorker(workers[w])
  BY PutIs DEF Shape, Decide
<1> QED BY <1>1 DEF IsWorker

LEMMA StepCalm ==
  ASSUME Shape, NEW w \in Workers, NEW pc, pc \notin {"insert", "debit", "credit"},
         Step(w, pc)
  PROVE  Calm(w)
  BY StepIs DEF Calm

LEMMA IdleCalm ==
  ASSUME Shape, NEW w \in Workers, Answer(w) \/ GiveUp(w) \/ Dies(w)
  PROVE  Calm(w)
<1>1. Put(w, Idle)
  BY DEF Answer, GiveUp, Dies
<1> QED BY <1>1, PutIs DEF Calm, Idle

\* Outside the lock.
LEMMA OutdoorsCalm ==
  ASSUME Shape, NEW w \in Workers, Outdoors(w)
  PROVE  Calm(w) /\ UNCHANGED balance
<1>1. CASE \E e \in news : Deliver(w, e)
  <2>1. PICK e \in news : Deliver(w, e)
    BY <1>1
  <2> DEFINE pc == IF e.type \in {"refund", "refund_failed"} THEN "record" ELSE "lock"
  <2>2. Put(w, [Idle EXCEPT !.event = e, !.pc = pc]) /\ UNCHANGED balance
    BY <2>1 DEF Deliver, money
  <2>3. pc \in {"record", "lock"}
    OBVIOUS
  <2> HIDE DEF pc
  <2>4. workers'[w] = [Idle EXCEPT !.event = e, !.pc = pc]
    BY <2>2, PutIs
  <2> QED BY <2>2, <2>3, <2>4 DEF Calm, Idle
<1>2. CASE DeliverAttempt(w) \/ JobMarks(w)
  <2>0. UNCHANGED balance
    BY <1>2 DEF DeliverAttempt, JobMarks, money
  <2>1. CASE Put(w, [Idle EXCEPT !.event = Attempt, !.pc = "stamp", !.status = "failed"])
             \/ Put(w, [Idle EXCEPT !.event = Mark, !.pc = "stamp", !.status = "succeeded"])
    <3>1. \/ workers'[w] = [Idle EXCEPT !.event = Attempt, !.pc = "stamp", !.status = "failed"]
          \/ workers'[w] = [Idle EXCEPT !.event = Mark, !.pc = "stamp", !.status = "succeeded"]
      BY <2>1, PutIs
    <3> QED BY <2>0, <3>1 DEF Calm, Idle
  <2>2. CASE workers[w].pc = "idle" /\ UNCHANGED workers
    BY <1>2, <2>2 DEF Calm, DeliverAttempt, JobMarks, money
  <2>3. \/ Put(w, [Idle EXCEPT !.event = Attempt, !.pc = "stamp", !.status = "failed"])
        \/ Put(w, [Idle EXCEPT !.event = Mark, !.pc = "stamp", !.status = "succeeded"])
        \/ workers[w].pc = "idle" /\ UNCHANGED workers
    BY <1>2 DEF DeliverAttempt, JobMarks
  <2> QED BY <2>1, <2>2, <2>3
<1>3. CASE Stamp(w) \/ GiveUp(w)
  BY <1>3, IdleCalm DEF Stamp, GiveUp, money
<1>4. CASE \E x \in Refs : JobRepairs(w, x)
  <2>1. PICK x \in Refs : JobRepairs(w, x)
    BY <1>4
  <2>2. /\ Put(w, [Idle EXCEPT !.event = Signal("repair", x, Unknown), !.ref = x,
                              !.pc = "lock"])
        /\ UNCHANGED balance
    BY <2>1 DEF JobRepairs, money
  <2>3. workers'[w] = [Idle EXCEPT !.event = Signal("repair", x, Unknown), !.ref = x,
                                   !.pc = "lock"]
    BY <2>2, PutIs
  <2> QED BY <2>2, <2>3 DEF Calm, Idle
<1>5. CASE RecordRefund(w)
  BY <1>5, IdleCalm, StepCalm DEF RecordRefund, money
<1> QED BY <1>1, <1>2, <1>3, <1>4, <1>5 DEF Outdoors

\* In the lock: what is read there and decided...
LEMMA DecideFits ==
  ASSUME TypeInv, RefundsGrow, NEW w \in Workers, NEW pc, NEW ref, NEW amount \in Nat,
         NEW status, pc # "credit", pc = "insert" => amount > 0,
         Decide(w, pc, ref, amount, status)
  PROVE  WorkerFits(w)'
<1>1. /\ workers'[w].pc = pc /\ workers'[w].amount = amount
      /\ workers'[w].done = workers[w].done /\ workers'[w].todo = workers[w].todo
  BY DecideIs DEF TypeInv
<1>2. workers[w].done \cup workers[w].todo \subseteq Succeeded
  BY DEF TypeInv, Fits, WorkerFits
<1> QED BY <1>1, <1>2 DEF WorkerFits, RefundsGrow

LEMMA StepFits ==
  ASSUME TypeInv, RefundsGrow, NEW w \in Workers, NEW pc,
         pc \notin {"insert", "debit", "credit"}, Step(w, pc)
  PROVE  WorkerFits(w)'
  BY StepCalm, CalmFits DEF TypeInv

LEMMA OpensFit ==
  ASSUME IsFiniteSet(Refunds), TypeInv, RefundsGrow, NEW w \in Workers,
         \/ PaymentOpen(w) \/ RefundOpen(w) \/ DisputeOpen(w) \/ WonOpen(w)
         \/ Restore(w) \/ RepairOpen(w) \/ WriteStatus(w)
  PROVE  WorkerFits(w)' /\ UNCHANGED money
<1>0. /\ Pack \in Nat \ {0}
      /\ Revoked \in Int /\ Outstanding \in Nat
      /\ RefundRevoked \in Int /\ DisputeRevoked \in Int
      /\ Target(Succeeded) \in Int
  BY PackAssumption, TypeParts, LedgerSums, TargetRange DEF TypeInv
<1>1. CASE PaymentOpen(w)
  <2>1. \/ \E s : Decide(w, "status", "grant", 0, s)
        \/ Decide(w, "insert", "grant", Pack, "none")
    BY <1>1 DEF PaymentOpen
  <2> QED BY <1>0, <1>1, <2>1, DecideFits DEF PaymentOpen
<1>2. CASE RefundOpen(w)
  <2> DEFINE r == workers[w].event.id
             due == Monus(Target(Succeeded), RefundRevoked)
             amount == Least(due, Outstanding)
  <2>1. amount \in Nat
    BY <1>0 DEF Monus, Least
  <2>2. \/ Decide(w, "debit", r, 0, "none") \/ Step(w, "unlock")
        \/ \E s : Decide(w, "debit", r, amount, s)
    BY <1>2 DEF RefundOpen
  <2> HIDE DEF amount
  <2> QED BY <1>2, <2>1, <2>2, StepFits, DecideFits DEF RefundOpen
<1>3. CASE DisputeOpen(w)
  <2>1. \/ Step(w, "unlock") \/ Decide(w, "debit", "dispute", 0, "none")
        \/ Decide(w, "debit", "dispute", Outstanding, "disputed")
    BY <1>3 DEF DisputeOpen
  <2> QED BY <1>0, <1>3, <2>1, StepFits, DecideFits DEF DisputeOpen
<1>4. CASE WonOpen(w)
  <2>1. \/ Step(w, "unlock") \/ Step(w, "restore")
        \/ \E s : Decide(w, "status", "grant", 0, s)
        \/ Decide(w, "insert", "grant", Pack, "none")
    BY <1>4 DEF WonOpen
  <2> QED BY <1>0, <1>4, <2>1, StepFits, DecideFits DEF WonOpen
<1>5. CASE Restore(w)
  <2> DEFINE back == Least(Monus(DisputeRevoked, Monus(Target(Succeeded), RefundRevoked)),
                           Revoked)
  <2>1. back \in Int
    BY <1>0 DEF Monus, Least
  <2>2. \/ Step(w, "unlock")
        \/ back > 0 /\ Decide(w, "insert", "regrant", back, "succeeded")
        \/ \E s : Decide(w, "debit", "regrant", 0, s)
    BY <1>5 DEF Restore
  <2> HIDE DEF back
  <2> QED BY <1>5, <2>1, <2>2, StepFits, DecideFits DEF Restore
<1>6. CASE RepairOpen(w)
  <2>1. CASE Step(w, "unlock")
    BY <1>6, <2>1, StepFits DEF RepairOpen
  <2>2. CASE Step(w, "credit") /\ Pending(workers[w].ref)
    <3>1. /\ workers'[w].pc = "credit" /\ workers'[w].ref = workers[w].ref
          /\ workers'[w].amount = workers[w].amount
          /\ workers'[w].done = workers[w].done /\ workers'[w].todo = workers[w].todo
      BY <2>2, StepIs DEF TypeInv
    <3>2. workers[w].ref \in Refs /\ WorkerFits(w) /\ UNCHANGED ledger
      BY <1>6 DEF TypeInv, Fits, Shape, IsWorker, RepairOpen, money
    <3>3. RowFits(workers[w].ref)
      BY <3>2 DEF TypeInv, Fits
    <3>4. ledger[workers[w].ref].delta > 0
      BY <2>2, <3>3 DEF RowFits, Pending
    <3> QED BY <1>6, <3>1, <3>2, <3>4 DEF WorkerFits, RefundsGrow, RepairOpen
  <2> QED BY <1>6, <2>1, <2>2 DEF RepairOpen
<1>7. CASE WriteStatus(w)
  BY <1>7, StepFits DEF WriteStatus
<1> QED BY <1>1, <1>2, <1>3, <1>4, <1>5, <1>6, <1>7

\* ...and written.
LEMMA InsertFitsRow ==
  ASSUME TypeInv, RefundsGrow, NEW w \in Workers, Insert(w)
  PROVE  WorkerFits(w)' /\ (\A x \in Refs : RowFits(x)') /\ UNCHANGED balance
<1> DEFINE x == workers[w].ref
           row == [there |-> TRUE, delta |-> workers[w].amount, applied |-> FALSE]
<1>0. x \in Refs /\ WorkerFits(w) /\ UNCHANGED balance /\ workers[w].pc = "insert"
  BY DEF TypeInv, Fits, Shape, IsWorker, Insert
<1>1. CASE ledger[x].there
  <2>1. UNCHANGED ledger /\ (Step(w, "restore") \/ Step(w, "unlock"))
    BY <1>1 DEF Insert
  <2> QED BY <1>0, <2>1, SameRowsFit, StepFits
<1>2. CASE ~ledger[x].there
  <2>1. ledger' = [ledger EXCEPT ![x] = row] /\ Step(w, "credit")
    BY <1>2 DEF Insert
  <2>2. row.delta \in Int /\ row.delta > 0
    BY <1>0 DEF WorkerFits
  <2>3. \A y \in Refs : RowFits(y)'
    <3>1. row.delta >= 0
      BY <2>2
    <3> HIDE DEF row
    <3> QED BY <1>0, <2>1, <2>2, <3>1, WriteRowFits
  <2>4. /\ workers'[w].pc = "credit" /\ workers'[w].ref = x
        /\ workers'[w].amount = workers[w].amount
        /\ workers'[w].done = workers[w].done /\ workers'[w].todo = workers[w].todo
    BY <2>1, StepIs DEF TypeInv
  <2>5. ledger'[x] = row
    BY <1>0, <2>1 DEF TypeInv, Shape
  <2>6. WorkerFits(w)'
    BY <1>0, <2>2, <2>4, <2>5 DEF WorkerFits, RefundsGrow
  <2> QED BY <1>0, <2>3, <2>6
<1> QED BY <1>1, <1>2

LEMMA CreditFits ==
  ASSUME TypeInv, RefundsGrow, NEW w \in Workers, Credit(w)
  PROVE  WorkerFits(w)' /\ (\A x \in Refs : RowFits(x)') /\ balance' \in Nat
<1> DEFINE x == workers[w].ref
           row == [ledger[x] EXCEPT !.applied = TRUE]
           r == [workers[w] EXCEPT !.pc = "settle", !.todo = Succeeded]
<1>0. /\ x \in Refs /\ IsRow(ledger[x]) /\ IsWorker(workers[w]) /\ WorkerFits(w)
      /\ workers[w].pc = "credit" /\ balance \in Nat
  BY TypeParts DEF TypeInv, Fits, Shape, IsWorker, Credit
<1>1. ledger[x].delta \in Int /\ ledger[x].delta > 0
  BY <1>0 DEF WorkerFits, TypeInv, Fits, RowFits
<1>2. balance' \in Nat
  BY <1>0, <1>1 DEF Credit
<1>3. ledger' = [ledger EXCEPT ![x] = row] /\ row.delta = ledger[x].delta
  BY <1>0 DEF Credit, IsRow
<1>4. \A y \in Refs : RowFits(y)'
  <2>1. row.delta >= 0
    BY <1>1, <1>3
  <2> HIDE DEF row, x
  <2> QED BY <1>0, <1>1, <1>3, <2>1, WriteRowFits
<1>5. CASE Step(w, "unlock") \/ Step(w, "status")
  BY <1>2, <1>4, <1>5, StepFits
<1>6. CASE Put(w, r)
  <2>1. workers'[w] = r
    BY <1>6, PutIs DEF TypeInv
  <2>2. r.pc = "settle" /\ r.amount \in Int /\ r.done \cup r.todo \subseteq Succeeded
    BY <1>0 DEF IsWorker, WorkerFits
  <2> HIDE DEF r
  <2> QED BY <1>2, <1>4, <2>1, <2>2 DEF WorkerFits, RefundsGrow
<1> QED BY <1>5, <1>6 DEF Credit

LEMMA SettleFits ==
  ASSUME IsFiniteSet(Refunds), TypeInv, RefundsGrow, NEW w \in Workers,
         NEW r \in Refunds, Settle(w, r)
  PROVE  WorkerFits(w)' /\ (\A x \in Refs : RowFits(x)') /\ balance' \in Nat
<1> DEFINE done == workers[w].done \cup {r}
           share == Monus(Target(done), Target(workers[w].done))
           next == [workers[w] EXCEPT !.todo = @ \ {r}, !.done = done]
<1>0. /\ IsWorker(workers[w]) /\ WorkerFits(w) /\ workers[w].pc = "settle"
      /\ r \in workers[w].todo /\ balance \in Nat /\ TypeOK /\ r \in Refs
  BY TypeParts, RefIds DEF TypeInv, Fits, Shape, Settle
<1>1. workers[w].done \in SUBSET Succeeded /\ done \in SUBSET Succeeded
  BY <1>0 DEF WorkerFits
<1>2. share \in Nat
  <2>1. Target(done) \in Int /\ Target(workers[w].done) \in Int
    BY <1>0, <1>1, TargetRange
  <2> QED BY <2>1 DEF Monus
<1>3. DebitOverMarker(r, share) \/ SetMarker(r)
  BY DEF Settle
<1>4. (\A x \in Refs : RowFits(x)') /\ balance' \in Nat
  <2> HIDE DEF share
  <2> QED BY <1>0, <1>2, <1>3, DebitFit, SetMarkerFits
<1>5. workers'[w] = next
  BY PutIs DEF Settle, TypeInv
<1>6. next.pc = "settle" /\ next.amount \in Int /\ next.done \cup next.todo \subseteq Succeeded
  BY <1>0 DEF IsWorker, WorkerFits
<1> HIDE DEF next
<1> QED BY <1>4, <1>5, <1>6 DEF WorkerFits, RefundsGrow

LEMMA SettledFits ==
  ASSUME TypeInv, RefundsGrow, NEW w \in Workers, Settled(w)
  PROVE  WorkerFits(w)' /\ (\A x \in Refs : RowFits(x)') /\ balance' \in Nat
<1> DEFINE s == NetStatus(Target(workers[w].done))
           next == [workers[w] EXCEPT !.pc = "status", !.status = s]
<1>1. (\A x \in Refs : RowFits(x)') /\ balance' \in Nat
  BY TypeParts, RefIds, SameRowsFit, SetMarkerFits DEF Settled, money
<1>2. workers'[w] = next
  BY PutIs DEF Settled, TypeInv
<1>3. Calm(w)
  BY <1>2 DEF TypeInv, Shape, IsWorker, Calm
<1> QED BY <1>1, <1>3, CalmFits

LEMMA TakeBackFits ==
  ASSUME TypeInv, RefundsGrow, NEW w \in Workers, TakeBack(w)
  PROVE  WorkerFits(w)' /\ (\A x \in Refs : RowFits(x)') /\ balance' \in Nat
<1>1. /\ workers[w].ref \in Refs /\ WorkerFits(w) /\ balance \in Nat
      /\ workers[w].pc = "debit"
  BY TypeParts DEF TypeInv, Fits, Shape, IsWorker, TakeBack
<1>2. workers[w].amount \in Nat
  BY <1>1 DEF WorkerFits
<1>3. (\A x \in Refs : RowFits(x)') /\ balance' \in Nat
  BY <1>1, <1>2, DebitFit, SetMarkerFits DEF TakeBack
<1>4. Step(w, "unlock") \/ Step(w, "status")
  BY DEF TakeBack
<1> QED BY <1>3, <1>4, StepFits

LEMMA IndoorsFit ==
  ASSUME IsFiniteSet(Refunds), TypeInv, RefundsGrow, NEW w \in Workers, Indoors(w)
  PROVE  WorkerFits(w)' /\ (\A x \in Refs : RowFits(x)') /\ balance' \in Nat
<1>0. balance \in Nat
  BY TypeParts
<1>1. CASE \/ PaymentOpen(w) \/ RefundOpen(w) \/ DisputeOpen(w) \/ WonOpen(w)
           \/ Restore(w) \/ RepairOpen(w) \/ WriteStatus(w)
  BY <1>0, <1>1, OpensFit, SameRowsFit DEF money
<1>2. CASE Insert(w) \/ Credit(w) \/ (\E r \in Refunds : Settle(w, r))
           \/ Settled(w) \/ TakeBack(w)
  BY <1>0, <1>2, InsertFitsRow, CreditFits, SettleFits, SettledFits, TakeBackFits
<1> QED BY <1>1, <1>2 DEF Indoors, InTheLock

LEMMA TypeNext == IsFiniteSet(Refunds) /\ TypeInv /\ [Next]_vars => TypeInv'
<1> SUFFICES ASSUME IsFiniteSet(Refunds), TypeInv, [Next]_vars PROVE TypeInv'
  OBVIOUS
<1>1. Shape /\ Shape' /\ Keeps /\ Book' /\ RefundsGrow /\ balance \in Nat
  BY TypeParts, ShapeNext, BookNext
<1>2. CASE UNCHANGED <<workers, ledger>> /\ balance' \in Nat
  <2>1. \A w \in Workers : WorkerFits(w)'
    BY <1>1, <1>2 DEF TypeInv, Fits, WorkerFits, RefundsGrow
  <2>2. Fits'
    BY <1>2, <2>1, SameRowsFit DEF Fits
  <2> QED BY <1>1, <1>2, <2>2, TypeParts
<1>3. ASSUME NEW w \in Workers, Works(w) PROVE TypeInv'
  <2>1. \A v \in Workers : v # w => workers'[v] = workers[v]
    BY <1>1, <1>3, WorkSplits, OutdoorsShape, AcquireShape, IndoorsShape, LeaveShape
       DEF Outside, Forward
  <2>2. WorkerFits(w)' /\ (\A x \in Refs : RowFits(x)') /\ balance' \in Nat
    <3>1. CASE Indoors(w)
      BY <1>1, <3>1, IndoorsFit
    <3>2. CASE Outdoors(w)
      BY <1>1, <3>2, OutdoorsCalm, OutdoorsShape, CalmFits, SameRowsFit
    <3>3. CASE Acquire(w)
      <4>1. Step(w, "open") /\ UNCHANGED money
        BY <3>3 DEF Acquire
      <4> QED BY <1>1, <4>1, StepFits, SameRowsFit DEF money
    <3>4. CASE Release(w) \/ Dies(w)
      <4>1. (Answer(w) \/ Dies(w)) /\ UNCHANGED money
        BY <3>4 DEF Release, Dies
      <4> QED BY <1>1, <4>1, IdleCalm, CalmFits, SameRowsFit DEF money
    <3> QED BY <1>3, <3>1, <3>2, <3>3, <3>4, WorkSplits
  <2>3. Fits'
    BY <1>1, <2>1, <2>2, OthersFit
  <2> QED BY <1>1, <2>2, <2>3, TypeParts
<1>4. Environment \/ UNCHANGED vars => UNCHANGED <<workers, ledger>> /\ balance' \in Nat
  <2>1. CASE Spend
    BY <1>1, <2>1 DEF Spend
  <2>2. CASE Environment /\ ~Spend
    BY <1>1, <2>2 DEF Environment, IssueRefund, IssueDispute, money
  <2>3. CASE UNCHANGED vars
    BY <1>1, <2>3 DEF vars, money
  <2> QED BY <2>1, <2>2, <2>3
<1> QED BY <1>2, <1>3, <1>4 DEF Next

LEMMA TypeInit == Init => TypeInv
<1> SUFFICES ASSUME Init PROVE TypeInv
  OBVIOUS
<1>1. Shape
  BY ShapeInit
<1>2. Book /\ balance \in Nat
  BY PackAssumption DEF Init, Book, Statuses
<1>3. \A x \in Refs : RowFits(x)
  BY DEF Init, RowFits, NoRow
<1>4. \A w \in Workers : WorkerFits(w)
  BY DEF Init, WorkerFits, Idle
<1> QED BY <1>1, <1>2, <1>3, <1>4, TypeParts DEF Fits

\* The balance is never negative and every amount is a number, for any number of
\* invocations, refunds and disputes and also when locks are stolen: a debit
\* takes at most what is there (max(balance - ?, 0), the taken amount recorded),
\* a pending row is a credit, and the shares of settled refunds are those of
\* refunds that succeeded, whose amounts no later event changes.
THEOREM TypeCorrect ==
  ASSUME IsFiniteSet(Refunds) PROVE Spec => []TypeOK
<1>1. TypeInv => TypeOK
  BY DEF TypeInv
<1> QED BY <1>1, TypeInit, TypeNext, PTL DEF Spec

-----------------------------------------------------------------------------
(* The balance holds what the ledger says.                                  *)

OnBalance == [x \in Refs |-> IF ledger[x].applied THEN ledger[x].delta ELSE 0]

BalanceInv == LedgerInv /\ TypeInv /\ BalanceIsTheLedger

LEMMA AppliedSum ==
  ASSUME IsFiniteSet(Refunds), Deltaed
  PROVE  Moved(Applied) = SumFunctionOnSet(OnBalance, Refs)
<1>1. IsFiniteSet(Refs) /\ Applied \in SUBSET Refs /\ IsFiniteSet(Applied)
  BY RefsFinite, FS_Subset DEF Applied
<1>2. /\ \A x \in Refs : OnBalance[x] \in Int
      /\ \A x \in Refs \ Applied : OnBalance[x] = 0
      /\ \A x \in Applied : Deltas[x] = OnBalance[x]
  BY DEF Deltaed, OnBalance, Applied, Deltas
<1>3. SumFunctionOnSet(Deltas, Applied) = SumFunctionOnSet(OnBalance, Applied)
  BY <1>1, <1>2, SumEqual
<1>4. SumFunctionOnSet(OnBalance, Applied) = SumFunctionOnSet(OnBalance, Refs)
  BY <1>1, <1>2, SumRestrict
<1> QED BY <1>3, <1>4 DEF Moved

\* Only row x is written, and the balance with it.
Writes(x) ==
  /\ \A y \in Refs : y # x => ledger'[y] = ledger[y]
  /\ balance' - balance = OnBalance'[x] - OnBalance[x]

LEMMA WritesKeepBalance ==
  ASSUME IsFiniteSet(Refunds), BalanceInv, TypeInv', NEW x \in Refs, Writes(x),
         UNCHANGED spent
  PROVE  BalanceIsTheLedger'
<1>1. /\ Deltaed /\ Deltaed' /\ balance \in Nat /\ balance' \in Nat /\ spent \in Nat
      /\ OtherCredits \in Nat
  <2>1. /\ Deltaed /\ balance \in Nat /\ OtherCredits \in Nat
    BY PackAssumption, TypeParts DEF BalanceInv
  <2>2. balance' \in Nat /\ spent \in Nat
    BY DEF BalanceInv, TypeInv, TypeOK
  <2>3. Deltaed'
    BY DEF TypeInv, Fits, RowFits, Deltaed
  <2> QED BY <2>1, <2>2, <2>3
<1>2. /\ IsFiniteSet(Refs)
      /\ \A y \in Refs : OnBalance[y] \in Int /\ OnBalance'[y] \in Int
      /\ \A y \in Refs \ {x} : OnBalance'[y] = OnBalance[y]
  BY <1>1, RefsFinite DEF OnBalance, Deltaed, Writes
<1>3. SumFunctionOnSet(OnBalance', Refs)
        = SumFunctionOnSet(OnBalance, Refs) - OnBalance[x] + OnBalance'[x]
  BY <1>2, SumChange
<1>4. SumFunctionOnSet(OnBalance, Refs) \in Int
  BY <1>2, SumType
<1>5. Moved(Applied) = SumFunctionOnSet(OnBalance, Refs)
  BY <1>1, AppliedSum
<1>6. Moved(Applied)' = SumFunctionOnSet(OnBalance', Refs)
  <2>1. IsFiniteSet(Refs) /\ Applied' \in SUBSET Refs /\ IsFiniteSet(Applied')
    BY <1>2, FS_Subset DEF Applied
  <2>2. /\ \A y \in Refs \ Applied' : OnBalance'[y] = 0
        /\ \A y \in Applied' : Deltas'[y] = OnBalance'[y]
    BY <1>1 DEF Deltaed, OnBalance, Applied, Deltas
  <2>3. SumFunctionOnSet(Deltas', Applied') = SumFunctionOnSet(OnBalance', Applied')
    BY <2>1, <2>2, SumEqual
  <2>4. SumFunctionOnSet(OnBalance', Applied') = SumFunctionOnSet(OnBalance', Refs)
    BY <1>2, <2>1, <2>2, SumRestrict
  <2> QED BY <2>3, <2>4 DEF Moved
<1>7. balance = OtherCredits + SumFunctionOnSet(OnBalance, Refs) - spent
  BY <1>5 DEF BalanceInv, BalanceIsTheLedger
<1>8. balance' = OtherCredits + SumFunctionOnSet(OnBalance', Refs) - spent
  <2>1. balance' - balance = OnBalance'[x] - OnBalance[x]
    BY DEF Writes
  <2>2. OnBalance[x] \in Int /\ OnBalance'[x] \in Int
    BY <1>2
  <2> QED BY <1>1, <1>3, <1>4, <1>7, <2>1, <2>2
<1> QED BY <1>6, <1>8 DEF BalanceIsTheLedger

LEMMA NothingWritten ==
  ASSUME TypeInv, UNCHANGED money PROVE Writes("grant")
<1>1. balance \in Nat /\ ledger["grant"].delta \in Int
  BY RefIds, TypeParts DEF Deltaed
<1> QED BY <1>1, RefIds DEF Writes, OnBalance, money

\* What one write does to a row, and to the balance.
LEMMA RowWritten ==
  ASSUME TypeInv, NEW x \in Refs, NEW row, ledger' = [ledger EXCEPT ![x] = row]
  PROVE  /\ \A y \in Refs : y # x => ledger'[y] = ledger[y]
         /\ ledger'[x] = row
         /\ OnBalance'[x] = IF row.applied THEN row.delta ELSE 0
         /\ ledger[x].delta = 0 \/ ~ledger[x].applied => OnBalance[x] = 0
         /\ ~ledger[x].there => ledger[x].delta = 0
  BY DEF TypeInv, Shape, IsRow, OnBalance

LEMMA SetMarkerWrites ==
  ASSUME TypeInv, NEW x \in Refs, SetMarker(x)
  PROVE  \E y \in Refs : Writes(y)
<1>1. CASE ledger[x].there
  BY <1>1, RefIds, NothingWritten DEF SetMarker, money
<1>2. CASE ~ledger[x].there
  <2>1. ledger' = [ledger EXCEPT ![x] = Marker] /\ balance' = balance
    BY <1>2 DEF SetMarker
  <2>2. balance \in Nat /\ Marker.applied /\ Marker.delta = 0
    BY TypeParts DEF Marker
  <2>3. /\ \A y \in Refs : y # x => ledger'[y] = ledger[y]
        /\ OnBalance'[x] = 0 /\ OnBalance[x] = 0
    BY <1>2, <2>1, <2>2, RowWritten
  <2> QED BY <2>1, <2>2, <2>3 DEF Writes
<1> QED BY <1>1, <1>2

LEMMA DebitWrites ==
  ASSUME TypeInv, NEW x \in Refs, NEW request \in Nat,
         Debit(x, request) \/ DebitOverMarker(x, request)
  PROVE  \E y \in Refs : Writes(y)
<1>1. CASE UNCHANGED money
  BY <1>1, RefIds, NothingWritten
<1>2. CASE Take(x, request) /\ ledger[x].delta = 0
  <2> DEFINE taken == Least(balance, request)
             row == [there |-> TRUE, delta |-> -taken, applied |-> TRUE]
  <2>1. taken \in Nat /\ balance \in Nat
    BY TypeParts DEF Least
  <2>2. ledger' = [ledger EXCEPT ![x] = row] /\ balance' = balance - taken
    BY <1>2 DEF Take
  <2>3. row.applied /\ row.delta = -taken
    OBVIOUS
  <2> HIDE DEF row, taken
  <2>4. /\ \A y \in Refs : y # x => ledger'[y] = ledger[y]
        /\ OnBalance'[x] = -taken /\ OnBalance[x] = 0
    BY <1>2, <2>2, <2>3, RowWritten
  <2> QED BY <2>1, <2>2, <2>4 DEF Writes
<1>3. UNCHANGED money \/ (Take(x, request) /\ ledger[x].delta = 0)
  BY DEF Debit, DebitOverMarker, TypeInv, Shape, IsRow
<1> QED BY <1>1, <1>2, <1>3

LEMMA IndoorsWrites ==
  ASSUME IsFiniteSet(Refunds), BalanceInv, NEW w \in Workers, Indoors(w)
  PROVE  (\E x \in Refs : Writes(x)) /\ UNCHANGED spent
<1>0. /\ TypeInv /\ CreditsOnce /\ workers[w].ref \in Refs /\ WorkerFits(w)
      /\ balance \in Nat /\ TypeOK
  BY TypeParts DEF BalanceInv, LedgerInv, TypeInv, Fits, Shape, IsWorker
<1> DEFINE x == workers[w].ref
<1>1. CASE \/ PaymentOpen(w) \/ RefundOpen(w) \/ DisputeOpen(w) \/ WonOpen(w)
           \/ Restore(w) \/ RepairOpen(w) \/ WriteStatus(w)
  <2>1. UNCHANGED <<money, spent>>
    BY <1>1 DEF PaymentOpen, RefundOpen, DisputeOpen, WonOpen, Restore, RepairOpen,
                WriteStatus, history
  <2> QED BY <1>0, <2>1, RefIds, NothingWritten
<1>2. CASE Insert(w)
  <2>1. CASE ledger[x].there
    BY <1>0, <1>2, <2>1, RefIds, NothingWritten DEF Insert, history, money
  <2>2. CASE ~ledger[x].there
    <3> DEFINE row == [there |-> TRUE, delta |-> workers[w].amount, applied |-> FALSE]
    <3>1. ledger' = [ledger EXCEPT ![x] = row] /\ UNCHANGED <<balance, spent>>
      BY <1>2, <2>2 DEF Insert, history
    <3>2. ~row.applied
      OBVIOUS
    <3> HIDE DEF row, x
    <3>3. /\ \A y \in Refs : y # x => ledger'[y] = ledger[y]
          /\ OnBalance'[x] = 0 /\ OnBalance[x] = 0
      BY <1>0, <2>2, <3>1, <3>2, RowWritten DEF x
    <3>4. Writes(x)
      BY <1>0, <3>1, <3>3 DEF Writes
    <3> QED BY <1>0, <3>1, <3>4 DEF x
  <2> QED BY <2>1, <2>2
<1>3. CASE Credit(w)
  <2> DEFINE row == [ledger[x] EXCEPT !.applied = TRUE]
  <2>1. /\ ledger' = [ledger EXCEPT ![x] = row] /\ UNCHANGED spent
        /\ balance' = balance + ledger[x].delta
        /\ ~ledger[x].applied
    BY <1>0, <1>3 DEF Credit, history, CreditsOnce, Pending
  <2>2. row.applied /\ row.delta = ledger[x].delta /\ ledger[x].delta \in Int
    BY <1>0, TypeParts DEF TypeInv, Shape, IsRow, Deltaed
  <2> HIDE DEF row, x
  <2>3. /\ \A y \in Refs : y # x => ledger'[y] = ledger[y]
        /\ OnBalance'[x] = ledger[x].delta /\ OnBalance[x] = 0
    BY <1>0, <2>1, <2>2, RowWritten DEF x
  <2>4. Writes(x)
    BY <1>0, <2>1, <2>2, <2>3 DEF Writes
  <2> QED BY <1>0, <2>1, <2>4 DEF x
<1>4. ASSUME NEW r \in Refunds, Settle(w, r)
      PROVE  (\E y \in Refs : Writes(y)) /\ UNCHANGED spent
  <2> DEFINE done == workers[w].done \cup {r}
             share == Monus(Target(done), Target(workers[w].done))
  <2>1. workers[w].done \in SUBSET Succeeded /\ done \in SUBSET Succeeded /\ r \in Refs
    BY <1>0, <1>4, RefIds DEF WorkerFits, Settle
  <2>2. share \in Nat
    <3>1. Target(done) \in Int /\ Target(workers[w].done) \in Int
      BY <1>0, <2>1, TargetRange
    <3> QED BY <3>1 DEF Monus
  <2>3. (DebitOverMarker(r, share) \/ SetMarker(r)) /\ UNCHANGED spent
    BY <1>4 DEF Settle, history
  <2> HIDE DEF share
  <2> QED BY <1>0, <2>1, <2>2, <2>3, DebitWrites, SetMarkerWrites
<1>5. CASE Settled(w)
  BY <1>0, <1>5, RefIds, NothingWritten, SetMarkerWrites DEF Settled, history
<1>6. CASE TakeBack(w)
  <2>1. workers[w].amount \in Nat
    BY <1>0, <1>6 DEF WorkerFits, TakeBack
  <2> QED BY <1>0, <1>6, <2>1, DebitWrites, SetMarkerWrites DEF TakeBack, history
<1> QED BY <1>1, <1>2, <1>3, <1>4, <1>5, <1>6 DEF Indoors, InTheLock

LEMMA BalanceNext ==
  IsFiniteSet(Refunds) /\ ~SlowHolders /\ BalanceInv /\ [Next]_vars => BalanceInv'
<1> SUFFICES ASSUME IsFiniteSet(Refunds), ~SlowHolders, BalanceInv, [Next]_vars
             PROVE  BalanceInv'
  OBVIOUS
<1>1. LedgerInv /\ TypeInv /\ LedgerInv' /\ TypeInv'
  BY ShapeNext, SafeNext, TypeNext DEF BalanceInv, LedgerInv
<1>2. CASE UNCHANGED <<money, spent>>
  BY <1>1, <1>2, RefIds, NothingWritten, WritesKeepBalance DEF BalanceInv
<1>3. CASE Spend
  <2>1. UNCHANGED ledger /\ balance' = balance - 1 /\ spent' = spent + 1
    BY <1>3 DEF Spend
  <2>2. Moved(Applied)' = Moved(Applied)
    BY <2>1 DEF Moved, Applied, Deltas
  <2>3. balance \in Nat /\ spent \in Nat /\ OtherCredits \in Nat /\ Moved(Applied) \in Int
    <3>1. Deltaed /\ Applied \in SUBSET Refs
      BY <1>1, TypeParts DEF Applied
    <3> QED BY <1>1, <3>1, PackAssumption, TypeParts, MovedType DEF TypeInv, TypeOK
  <2>4. balance = OtherCredits + Moved(Applied) - spent
    BY DEF BalanceInv, BalanceIsTheLedger
  <2>5. balance' = OtherCredits + Moved(Applied)' - spent'
    BY <2>1, <2>2, <2>3, <2>4
  <2> QED BY <1>1, <2>5 DEF BalanceInv, BalanceIsTheLedger
<1>4. ASSUME NEW w \in Workers, Indoors(w) PROVE BalanceInv'
  BY <1>1, <1>4, IndoorsWrites, WritesKeepBalance DEF BalanceInv
<1>5. ASSUME NEW w \in Workers, Works(w), ~Indoors(w) PROVE UNCHANGED <<money, spent>>
  <2>1. CASE Outdoors(w)
    BY <2>1 DEF Outdoors, Deliver, DeliverAttempt, JobMarks, Stamp, JobRepairs,
                RecordRefund, GiveUp, history
  <2>2. CASE Acquire(w) \/ Release(w) \/ Dies(w)
    BY <2>2 DEF Acquire, Release, Dies, history
  <2> QED BY <1>5, <2>1, <2>2, WorkSplits
<1>6. (Environment /\ ~Spend) \/ UNCHANGED vars => UNCHANGED <<money, spent>>
  BY DEF Environment, IssueRefund, IssueDispute, vars, history
<1> QED BY <1>2, <1>3, <1>4, <1>5, <1>6 DEF Next

LEMMA BalanceInit == Init /\ IsFiniteSet(Refunds) => BalanceInv
<1> SUFFICES ASSUME Init, IsFiniteSet(Refunds) PROVE BalanceInv
  OBVIOUS
<1>1. Applied = {}
  BY DEF Init, Applied, NoRow
<1>2. Moved(Applied) = 0
  BY <1>1, SumEmpty DEF Moved
<1>3. balance = OtherCredits /\ spent = 0 /\ OtherCredits \in Nat
  BY PackAssumption DEF Init
<1> QED BY <1>2, <1>3, LedgerInvInit, TypeInit DEF BalanceInv, BalanceIsTheLedger

\* The shared balance received exactly the rows marked as applied, for any
\* number of invocations, refunds and disputes, and whatever dies between the
\* two statements of a credit: no row is applied twice, and none is marked that
\* was not.  It rests on holders that finish before their lock is stolen.
THEOREM BalanceIsTheLedgerEver ==
  ASSUME IsFiniteSet(Refunds), ~SlowHolders PROVE Spec => []BalanceIsTheLedger
<1>1. BalanceInv => BalanceIsTheLedger
  BY DEF BalanceInv
<1> QED BY <1>1, BalanceInit, BalanceNext, PTL DEF Spec

-----------------------------------------------------------------------------
(* The account keeps between nothing and one pack.                          *)

\* What paymentSums reads, when the rows have the signs they should have.
LEMMA NetParts ==
  ASSUME IsFiniteSet(Refunds), Deltaed
  PROVE  /\ Moved(Refunds) \in Int /\ Net \in Int
         /\ Net = ledger["grant"].delta + ledger["dispute"].delta
                    + ledger["regrant"].delta + Moved(Refunds)
<1> DEFINE A == Refunds \cup {"grant"}
           B == A \cup {"dispute"}
           C == B \cup {"regrant"}
<1>1. /\ IsFiniteSet(Refunds) /\ IsFiniteSet(A) /\ IsFiniteSet(B)
      /\ "grant" \notin Refunds /\ "dispute" \notin A /\ "regrant" \notin B
      /\ Refs = C
  BY IdAssumption, FS_AddElement DEF Refs
<1>2. \A x \in C : Deltas[x] \in Int /\ Deltas[x] = ledger[x].delta
  BY <1>1 DEF Deltaed, Deltas
<1>3. SumFunctionOnSet(Deltas, A) = Deltas["grant"] + SumFunctionOnSet(Deltas, Refunds)
  BY <1>1, <1>2, SumAdd
<1>4. SumFunctionOnSet(Deltas, B) = Deltas["dispute"] + SumFunctionOnSet(Deltas, A)
  <2> HIDE DEF A
  <2> QED BY <1>1, <1>2, SumAdd
<1>5. SumFunctionOnSet(Deltas, C) = Deltas["regrant"] + SumFunctionOnSet(Deltas, B)
  <2> HIDE DEF B
  <2> QED BY <1>1, <1>2, SumAdd
<1>6. SumFunctionOnSet(Deltas, Refunds) \in Int
  BY <1>1, <1>2, SumType
<1>7. /\ Deltas["grant"] = ledger["grant"].delta /\ Deltas["grant"] \in Int
      /\ Deltas["dispute"] = ledger["dispute"].delta /\ Deltas["dispute"] \in Int
      /\ Deltas["regrant"] = ledger["regrant"].delta /\ Deltas["regrant"] \in Int
  BY <1>2
<1>8. Moved(Refunds) = SumFunctionOnSet(Deltas, Refunds) /\ Net = SumFunctionOnSet(Deltas, C)
  BY <1>1 DEF Moved, Net
<1> HIDE DEF A, B, C
<1> QED BY <1>3, <1>4, <1>5, <1>6, <1>7, <1>8

LEMMA SignedSums ==
  ASSUME IsFiniteSet(Refunds), Deltaed, Signs
  PROVE  /\ Moved(Refunds) <= 0
         /\ RefundRevoked = -Moved(Refunds)
         /\ DisputeRevoked = -ledger["dispute"].delta
         /\ Granted - Revoked = Net
<1>1. /\ IsFiniteSet(Refs) /\ Refunds \subseteq Refs /\ "dispute" \in Refs
      /\ \A x \in Refs : Deltas[x] \in Int /\ Deltas[x] = ledger[x].delta
  BY RefsFinite, RefIds DEF Deltaed, Deltas
<1>2. Moved(Refunds) \in Int /\ Moved(Refunds) <= 0
  BY <1>1, SumNotPositive DEF Moved, Signs
<1>3. RefundRevoked = -Moved(Refunds)
  <2> DEFINE N == {r \in Refunds : ledger[r].delta < 0}
  <2>1. N \in SUBSET Refunds /\ \A r \in Refunds \ N : Deltas[r] = 0
    BY <1>1 DEF Signs
  <2>2. \A r \in Refunds : Deltas[r] \in Int
    BY <1>1
  <2> SUFFICES Moved(N) = Moved(Refunds)
    BY DEF RefundRevoked
  <2> HIDE DEF N
  <2> QED BY <2>1, <2>2, SumRestrict DEF Moved
<1>4. DisputeRevoked = -ledger["dispute"].delta
  <2> DEFINE N == {x \in {"dispute"} : ledger[x].delta < 0}
             D == {"dispute"}
  <2>1. IsFiniteSet(D) /\ N \in SUBSET D /\ \A x \in D \ N : Deltas[x] = 0
    <3>1. IsFiniteSet(D)
      BY FS_Singleton
    <3>2. /\ ledger["dispute"].delta \in Int /\ ledger["dispute"].delta <= 0
          /\ Deltas["dispute"] = ledger["dispute"].delta
      BY <1>1 DEF Signs
    <3>3. \A x \in D \ N : Deltas[x] = 0
      BY <3>2
    <3> QED BY <3>1, <3>3
  <2>2. \A x \in D : Deltas[x] \in Int
    BY <1>1
  <2>3. Moved(N) = Moved(D)
    <3> HIDE DEF N, D
    <3> QED BY <2>1, <2>2, SumRestrict DEF Moved
  <2>4. Moved(D) = ledger["dispute"].delta
    <3>1. D \ {"dispute"} = {}
      OBVIOUS
    <3>2. SumFunctionOnSet(Deltas, D) = Deltas["dispute"] + SumFunctionOnSet(Deltas, D \ {"dispute"})
      <4>1. "dispute" \in D
        OBVIOUS
      <4> HIDE DEF D
      <4> QED BY <2>1, <2>2, <4>1, SumRemove
    <3>3. SumFunctionOnSet(Deltas, D \ {"dispute"}) = 0
      BY <3>1, SumEmpty
    <3> QED BY <1>1, <3>2, <3>3 DEF Moved
  <2> QED BY <2>3, <2>4 DEF DisputeRevoked
<1>5. Granted - Revoked = Net
  <2> DEFINE P == {x \in Refs : ledger[x].delta > 0}
             N == {x \in Refs : ledger[x].delta < 0}
             Rest == Refs \ P
  <2>1. P \in SUBSET Refs /\ Rest \in SUBSET Refs /\ N \in SUBSET Rest
    BY <1>1
  <2>2. IsFiniteSet(Rest) /\ IsFiniteSet(N)
    BY <1>1, <2>1, FS_Subset
  <2>3. \A x \in Rest : Deltas[x] \in Int /\ (x \notin N => Deltas[x] = 0)
    BY <1>1
  <2>4. Moved(Refs) = Moved(P) + Moved(Rest)
    <3> HIDE DEF P
    <3> QED BY <1>1, <2>1, SumSplit DEF Moved
  <2>5. Moved(N) = Moved(Rest)
    <3> HIDE DEF N, Rest
    <3> QED BY <2>1, <2>2, <2>3, SumRestrict DEF Moved
  <2>6. Moved(P) \in Int /\ Moved(Rest) \in Int
    <3> HIDE DEF P, Rest
    <3> QED BY <2>1, MovedType
  <2>7. Granted = Moved(P) /\ Revoked = -Moved(N)
    BY DEF Granted, Revoked
  <2> HIDE DEF P, N, Rest
  <2> QED BY <2>4, <2>5, <2>6, <2>7 DEF Net
<1> QED BY <1>2, <1>3, <1>4, <1>5

LEMMA OutstandingIsNet ==
  ASSUME IsFiniteSet(Refunds), Deltaed, Signs, NetWithinPack
  PROVE  Outstanding = Net /\ Net \in Nat /\ Net <= Pack
<1>1. Granted \in Int /\ Revoked \in Int /\ Granted - Revoked = Net
  BY LedgerSums, SignedSums
<1>2. Net \in Nat /\ Net <= Pack
  BY PackAssumption DEF NetWithinPack, Net
<1> QED BY <1>1, <1>2 DEF Outstanding, Monus

\* How the sums change when no row moves more, and when one does.
SameDeltas ==
  \A x \in Refs : /\ ledger'[x].delta = ledger[x].delta
                  /\ ledger[x].there => ledger'[x].there

LEMMA SameSums ==
  ASSUME Deltaed, SameDeltas
  PROVE  UNCHANGED Net /\ Moved(Refunds)' = Moved(Refunds)
<1>1. Deltas' = Deltas
  BY DEF SameDeltas, Deltas
<1> QED BY <1>1 DEF Net, Moved

OneDelta(x, d) ==
  /\ ledger'[x].delta = d /\ ledger'[x].there
  /\ \A y \in Refs : y # x => ledger'[y] = ledger[y]

LEMMA OneSum ==
  ASSUME IsFiniteSet(Refunds), Deltaed, NEW x \in Refs, NEW d \in Int, OneDelta(x, d)
  PROVE  /\ Deltaed'
         /\ Net' = Net - ledger[x].delta + d
         /\ x \in Refunds => Moved(Refunds)' = Moved(Refunds) - ledger[x].delta + d
         /\ x \notin Refunds => Moved(Refunds)' = Moved(Refunds)
<1>1. /\ \A y \in Refs : Deltas[y] \in Int /\ Deltas[y] = ledger[y].delta
      /\ \A y \in Refs \ {x} : Deltas'[y] = Deltas[y]
      /\ Deltas'[x] = d
      /\ IsFiniteSet(Refs) /\ Refunds \subseteq Refs
  BY RefsFinite, RefIds DEF Deltaed, Deltas, OneDelta
<1>2. Deltaed'
  BY DEF Deltaed, OneDelta
<1>3. Net' = Net - Deltas[x] + d
  BY <1>1, SumChange DEF Net, Moved
<1>4. CASE x \in Refunds
  <2>1. /\ \A y \in Refunds : Deltas[y] \in Int
        /\ \A y \in Refunds \ {x} : Deltas'[y] = Deltas[y]
    BY <1>1
  <2>2. SumFunctionOnSet(Deltas', Refunds)
          = SumFunctionOnSet(Deltas, Refunds) - Deltas[x] + Deltas'[x]
    BY <1>1, <1>4, <2>1, SumChange
  <2>3. Moved(Refunds)' = Moved(Refunds) - Deltas[x] + d
    BY <1>1, <2>2 DEF Moved
  <2>4. Deltas[x] = ledger[x].delta
    BY <1>1
  <2> QED BY <1>2, <1>3, <1>4, <2>3, <2>4
<1>5. CASE x \notin Refunds
  <2>1. \A y \in Refunds : Deltas'[y] = Deltas[y]
    BY <1>1, <1>5
  <2>2. Moved(Refunds)' = Moved(Refunds)
    BY <2>1, SumEqual DEF Moved
  <2>3. Deltas[x] = ledger[x].delta
    BY <1>1
  <2> QED BY <1>2, <1>3, <1>5, <2>2, <2>3
<1> QED BY <1>4, <1>5

\* The sums are what they should be as long as no row moves more.
NetCore == Signs /\ GrantFirst /\ NetWithinPack

LEMMA NetFacts ==
  ASSUME IsFiniteSet(Refunds), NetInv
  PROVE  /\ TypeInv /\ LedgerInv /\ NetCore /\ Deltaed /\ Shape /\ TypeOK
         /\ Outstanding = Net /\ Net \in Nat /\ Net <= Pack
         /\ Pack \in Nat \ {0}
         /\ \A w \in Workers : Suits(w) /\ IsWorker(workers[w]) /\ WorkerFits(w)
<1>1. TypeInv /\ LedgerInv /\ NetCore /\ Deltaed /\ Shape /\ TypeOK
  BY TypeParts DEF NetInv, NetCore, TypeInv
<1>2. Outstanding = Net /\ Net \in Nat /\ Net <= Pack
  BY <1>1, OutstandingIsNet DEF NetCore
<1>3. \A w \in Workers : Suits(w) /\ IsWorker(workers[w]) /\ WorkerFits(w)
  BY <1>1 DEF NetInv, Shape, TypeInv, Fits
<1> QED BY <1>1, <1>2, <1>3, PackAssumption

LEMMA SameCore ==
  ASSUME NetCore, Deltaed, SameDeltas
  PROVE  NetCore'
<1>1. UNCHANGED Net
  BY SameSums
<1>2. NetWithinPack'
  BY <1>1 DEF NetCore, NetWithinPack, Net
<1>3. Signs'
  BY RefIds DEF NetCore, Signs, SameDeltas
<1>4. GrantFirst'
  BY RefIds DEF NetCore, GrantFirst, SameDeltas
<1> QED BY <1>2, <1>3, <1>4 DEF NetCore

LEMMA SameLedger == Shape /\ UNCHANGED ledger => SameDeltas
  BY DEF SameDeltas

LEMMA MarkerSame ==
  ASSUME Shape, NEW x \in Refs, SetMarker(x)
  PROVE  SameDeltas
<1>1. CASE ledger[x].there
  BY <1>1, SameLedger DEF SetMarker
<1>2. CASE ~ledger[x].there
  <2>1. /\ ledger'[x] = Marker /\ ledger[x].delta = 0
        /\ \A y \in Refs : y # x => ledger'[y] = ledger[y]
    BY <1>2 DEF SetMarker, Shape, IsRow
  <2> QED BY <1>2, <2>1 DEF SameDeltas, Marker
<1> QED BY <1>1, <1>2

\* A refund that succeeded keeps its amount, and so its share.
LEMMA TargetStays ==
  ASSUME RefundsGrow, NEW S \in SUBSET Succeeded
  PROVE  Target(S)' = Target(S)
<1>1. \A r \in S : refunds'[r] = refunds[r]
  BY DEF RefundsGrow
<1>2. [r \in S |-> refunds'[r].amount] = [r \in S |-> refunds[r].amount]
  BY <1>1
<1> QED BY <1>1, <1>2 DEF Target

\* A worker that waits for nothing in the ledger, or in a ledger nobody writes.
LEMMA WaitsSuits ==
  ASSUME NEW w, workers'[w].pc \notin {"insert", "debit", "credit", "settle"},
         \/ workers'[w].done \cup workers'[w].todo = {}
         \/ workers'[w].pc \in {"status", "unlock"}
  PROVE  Suits(w)'
  BY DEF Suits, InsertSuits, DebitSuits, SettleSuits, SettlesLate, Granting

LEMMA StaysSuits ==
  ASSUME TypeInv, RefundsGrow, UNCHANGED ledger,
         NEW w \in Workers, Suits(w), UNCHANGED workers[w]
  PROVE  Suits(w)'
<1>1. UNCHANGED Net /\ Moved(Refunds)' = Moved(Refunds)
  BY DEF Net, Moved, Deltas
<1>2. Target(workers[w].done)' = Target(workers[w].done)
  <2>1. workers[w].done \in SUBSET Succeeded
    BY DEF TypeInv, Fits, WorkerFits
  <2>2. Target(workers[w].done') = Target(workers[w].done)
    OBVIOUS
  <2> QED BY <2>1, TargetStays
<1>3. InsertSuits(w)' /\ DebitSuits(w)' /\ SettlesLate(w)'
  BY <1>1 DEF Suits, InsertSuits, DebitSuits, SettlesLate
<1>4. SettleSuits(w)'
  BY <1>1, <1>2 DEF Suits, SettleSuits, Granting
<1> QED BY <1>3, <1>4 DEF Suits

\* Outside the lock.
LEMMA OutdoorsSuits ==
  ASSUME Shape, NEW w \in Workers, SettlesLate(w),
         Outdoors(w) \/ Acquire(w) \/ Release(w) \/ Dies(w)
  PROVE  Suits(w)'
<1>1. CASE Release(w) \/ Dies(w)
  <2>1. Put(w, Idle)
    BY <1>1 DEF Release, Dies, Answer
  <2>2. workers'[w] = Idle
    BY <2>1, PutIs
  <2> QED BY <2>2, WaitsSuits DEF Idle
<1>2. CASE Outdoors(w)
  <2>1. Calm(w) /\ workers'[w].pc \notin Inside
    BY <1>2, OutdoorsCalm, OutdoorsShape DEF Outside
  <2>2. workers[w].pc \in {"idle", "stamp", "record", "lock"}
    BY <1>2 DEF Outdoors, Deliver, DeliverAttempt, JobMarks, Stamp, JobRepairs,
                RecordRefund, GiveUp
  <2>3. workers'[w].done \cup workers'[w].todo = {}
    BY <2>1, <2>2 DEF Calm, SettlesLate
  <2> QED BY <2>1, <2>3, WaitsSuits DEF Inside, Pcs
<1>3. CASE Acquire(w)
  <2>1. Step(w, "open") /\ workers[w].pc = "lock"
    BY <1>3 DEF Acquire
  <2>2. /\ workers'[w].pc = "open"
        /\ workers'[w].done \cup workers'[w].todo = {}
    BY <2>1, StepIs DEF SettlesLate
  <2> QED BY <2>2, WaitsSuits
<1> QED BY <1>1, <1>2, <1>3

\* In the lock: what is read there and decided.
LEMMA DecideSuits ==
  ASSUME Shape, NEW w \in Workers, SettlesLate(w), workers[w].pc \in {"open", "restore"},
         NEW pc \in {"insert", "debit", "status"}, NEW ref, NEW amount, NEW status,
         Decide(w, pc, ref, amount, status), UNCHANGED ledger,
         pc = "insert" => \/ ref = "grant" /\ amount = Pack
                          \/ ref = "regrant" /\ amount \in 1 .. -ledger["dispute"].delta,
         pc = "debit" => /\ amount \in 0 .. Net
                         /\ ref \in Refunds \cup {"dispute", "regrant"}
                         /\ ref = "regrant" => amount = 0
  PROVE  Suits(w)'
<1>1. /\ workers'[w].pc = pc /\ workers'[w].ref = ref /\ workers'[w].amount = amount
      /\ workers'[w].done \cup workers'[w].todo = {}
  BY DecideIs DEF SettlesLate
<1>2. UNCHANGED Net
  BY DEF Net, Moved, Deltas
<1> QED BY <1>1, <1>2 DEF Suits, InsertSuits, DebitSuits, SettleSuits, SettlesLate, Granting

LEMMA StepSuits ==
  ASSUME Shape, NEW w \in Workers, SettlesLate(w), NEW pc,
         pc \notin {"insert", "debit", "credit", "settle"},
         pc \in {"status", "unlock"} \/ workers[w].pc \notin {"settle", "status", "unlock"},
         Step(w, pc)
  PROVE  Suits(w)'
<1>1. /\ workers'[w].pc = pc
      /\ workers'[w].done = workers[w].done /\ workers'[w].todo = workers[w].todo
  BY StepIs
<1> QED BY <1>1, WaitsSuits DEF SettlesLate

LEMMA OpensSuit ==
  ASSUME IsFiniteSet(Refunds), NetInv, NEW w \in Workers,
         \/ PaymentOpen(w) \/ RefundOpen(w) \/ DisputeOpen(w) \/ WonOpen(w)
         \/ Restore(w) \/ RepairOpen(w) \/ WriteStatus(w)
  PROVE  Suits(w)' /\ UNCHANGED ledger
<1>0. /\ Shape /\ SettlesLate(w) /\ Outstanding = Net /\ Net \in Nat
      /\ IsWorker(workers[w]) /\ Deltaed /\ Signs /\ TypeOK
  BY NetFacts DEF Suits, NetCore
<1>1. CASE PaymentOpen(w)
  <2>1. /\ workers[w].pc = "open" /\ UNCHANGED ledger
        /\ \/ \E s : Decide(w, "status", "grant", 0, s)
           \/ Decide(w, "insert", "grant", Pack, "none")
    BY <1>1 DEF PaymentOpen, Runs, money
  <2> QED BY <1>0, <2>1, DecideSuits
<1>2. CASE RefundOpen(w)
  <2> DEFINE r == workers[w].event.id
             due == Monus(Target(Succeeded), RefundRevoked)
             amount == Least(due, Outstanding)
  <2>1. amount \in 0 .. Net
    <3>1. Target(Succeeded) \in Int /\ RefundRevoked \in Int
      BY <1>0, TargetRange, LedgerSums
    <3> QED BY <1>0, <3>1 DEF Monus, Least
  <2>2. r \in Refunds
    BY <1>0, <1>2, EventIds DEF IsWorker, RefundOpen, Runs
  <2>3. /\ workers[w].pc = "open" /\ UNCHANGED ledger
        /\ \/ Decide(w, "debit", r, 0, "none") \/ Step(w, "unlock")
           \/ \E s : Decide(w, "debit", r, amount, s)
    BY <1>2 DEF RefundOpen, Runs, money
  <2>4. r # "regrant" /\ 0 \in 0 .. Net
    BY <1>0, <2>2, IdAssumption
  <2> HIDE DEF amount, r
  <2> QED BY <1>0, <2>1, <2>2, <2>3, <2>4, StepSuits, DecideSuits
<1>3. CASE DisputeOpen(w)
  <2>1. /\ workers[w].pc = "open" /\ UNCHANGED ledger
        /\ \/ Step(w, "unlock") \/ Decide(w, "debit", "dispute", 0, "none")
           \/ Decide(w, "debit", "dispute", Net, "disputed")
    BY <1>0, <1>3 DEF DisputeOpen, Runs, money
  <2>2. 0 \in 0 .. Net /\ Net \in 0 .. Net
    BY <1>0
  <2> QED BY <1>0, <2>1, <2>2, StepSuits, DecideSuits
<1>4. CASE WonOpen(w)
  <2>1. /\ workers[w].pc = "open" /\ UNCHANGED ledger
        /\ \/ Step(w, "unlock") \/ Step(w, "restore")
           \/ \E s : Decide(w, "status", "grant", 0, s)
           \/ Decide(w, "insert", "grant", Pack, "none")
    BY <1>4 DEF WonOpen, Runs, money
  <2> QED BY <1>0, <2>1, StepSuits, DecideSuits
<1>5. CASE Restore(w)
  <2> DEFINE rest == Monus(Target(Succeeded), RefundRevoked)
             back == Least(Monus(DisputeRevoked, rest), Revoked)
  <2>1. rest \in Nat
    <3>1. Target(Succeeded) \in Int /\ RefundRevoked \in Int
      BY <1>0, TargetRange, LedgerSums
    <3> QED BY <3>1 DEF Monus
  <2>2. /\ DisputeRevoked = -ledger["dispute"].delta /\ DisputeRevoked \in Nat
        /\ Revoked \in Int
    <3>1. ledger["dispute"].delta \in Int /\ ledger["dispute"].delta <= 0
      BY <1>0, RefIds DEF Deltaed, Signs
    <3> QED BY <1>0, <3>1, SignedSums, LedgerSums
  <2>3. back \in Int /\ back <= DisputeRevoked
    <3> HIDE DEF rest
    <3> QED BY <2>1, <2>2 DEF Monus, Least
  <2>4. /\ workers[w].pc = "restore" /\ UNCHANGED ledger
        /\ \/ Step(w, "unlock")
           \/ back > 0 /\ Decide(w, "insert", "regrant", back, "succeeded")
           \/ \E s : Decide(w, "debit", "regrant", 0, s)
    BY <1>5 DEF Restore, money
  <2> HIDE DEF back
  <2>5. back > 0 => back \in 1 .. -ledger["dispute"].delta
    BY <2>2, <2>3
  <2>6. 0 \in 0 .. Net
    BY <1>0
  <2> QED BY <1>0, <2>4, <2>5, <2>6, StepSuits, DecideSuits
<1>6. CASE RepairOpen(w)
  <2>1. /\ workers[w].pc = "open" /\ workers[w].event.type = "repair"
        /\ UNCHANGED ledger /\ (Step(w, "unlock") \/ Step(w, "credit"))
    BY <1>6 DEF RepairOpen, Runs, money
  <2>2. CASE Step(w, "credit")
    <3>1. /\ workers'[w].pc = "credit" /\ workers'[w].event.type = "repair"
          /\ workers'[w].done \cup workers'[w].todo = {}
      BY <1>0, <2>1, <2>2, StepIs DEF SettlesLate
    <3> QED BY <2>1, <3>1 DEF Suits, InsertSuits, DebitSuits, SettleSuits, SettlesLate,
                              Granting
  <2> QED BY <1>0, <2>1, <2>2, StepSuits
<1>7. CASE WriteStatus(w)
  BY <1>0, <1>7, StepSuits DEF WriteStatus, money
<1> QED BY <1>1, <1>2, <1>3, <1>4, <1>5, <1>6, <1>7

\* In the lock: a row that takes what the payment has left...
LEMMA TakenCore ==
  ASSUME IsFiniteSet(Refunds), NetInv, NEW x \in Refunds \cup {"dispute"},
         NEW t \in 0 .. Net, ledger[x].delta = 0, OneDelta(x, -t)
  PROVE  /\ NetCore'
         /\ x \in Refunds => Moved(Refunds)' = Moved(Refunds) - t
<1>0. /\ Signs /\ GrantFirst /\ Deltaed /\ Net \in Nat /\ Net <= Pack /\ Pack \in Nat
      /\ x \in Refs /\ x # "grant" /\ x # "regrant" /\ "dispute" \notin Refunds
  BY NetFacts, RefIds, IdAssumption DEF NetCore
<1>1. /\ Net' = Net - t
      /\ x \in Refunds => Moved(Refunds)' = Moved(Refunds) - t
      /\ Moved(Refunds) \in Int
  BY <1>0, OneSum, NetParts
<1>2. NetWithinPack'
  BY <1>0, <1>1 DEF NetWithinPack, Net
<1>3. /\ \A y \in Refs : y # x => ledger'[y].delta = ledger[y].delta
      /\ ledger'[x].delta = -t
      /\ ledger["grant"].there => ledger'["grant"].there
  BY <1>0, RefIds DEF OneDelta
<1>4. Signs'
  <2>1. CASE x = "dispute"
    <3>1. ledger["regrant"].delta = 0
      BY <2>1 , <1>0 DEF Signs
    <3>2. /\ ledger'["grant"].delta = ledger["grant"].delta
          /\ ledger'["regrant"].delta = 0
          /\ \A r \in Refunds : ledger'[r].delta = ledger[r].delta
      BY <1>0, <1>3, <2>1, <3>1, RefIds
    <3> QED BY <1>0, <1>3, <2>1, <3>2 DEF Signs
  <2>2. CASE x \in Refunds
    <3>1. /\ ledger'["grant"].delta = ledger["grant"].delta
          /\ ledger'["dispute"].delta = ledger["dispute"].delta
          /\ ledger'["regrant"].delta = ledger["regrant"].delta
          /\ \A r \in Refunds : r # x => ledger'[r].delta = ledger[r].delta
      BY <1>0, <1>3, <2>2, RefIds
    <3> QED BY <1>0, <1>3, <3>1 DEF Signs
  <2> QED BY <2>1, <2>2
<1>5. GrantFirst'
  <2>1. CASE ledger["grant"].there
    BY <1>3, <2>1 DEF GrantFirst
  <2>2. CASE \A y \in Refs : ledger[y].delta = 0
    <3>1. Net = Moved(Refunds) /\ Moved(Refunds) <= 0
      BY <1>0, <1>1, <2>2, NetParts, SignedSums, RefIds
    <3>2. t = 0
      BY <1>0, <1>1, <3>1
    <3> QED BY <1>3, <2>2, <3>2 DEF GrantFirst
  <2> QED BY <1>0, <2>1, <2>2 DEF GrantFirst
<1> QED BY <1>1, <1>2, <1>4, <1>5 DEF NetCore

\* ...or a share of it.
LEMMA TakeIsOneDelta ==
  ASSUME TypeInv, NEW x \in Refs, NEW request \in Nat, Take(x, request)
  PROVE  \E t \in 0 .. request : OneDelta(x, -t)
<1> DEFINE t == Least(balance, request)
           row == [there |-> TRUE, delta |-> -t, applied |-> TRUE]
<1>1. t \in 0 .. request
  BY TypeParts DEF Least
<1>2. ledger' = [ledger EXCEPT ![x] = row]
  BY DEF Take
<1>3. row.there /\ row.delta = -t
  OBVIOUS
<1> HIDE DEF row, t
<1>4. ledger'[x] = row /\ \A y \in Refs : y # x => ledger'[y] = ledger[y]
  BY <1>2 DEF TypeInv, Shape
<1> QED BY <1>1, <1>3, <1>4 DEF OneDelta

LEMMA TakeBackNet ==
  ASSUME IsFiniteSet(Refunds), NetInv, NEW w \in Workers, TakeBack(w)
  PROVE  NetCore' /\ Suits(w)'
<1> DEFINE x == workers[w].ref
           amount == workers[w].amount
<1>0. /\ TypeInv /\ Shape /\ NetCore /\ Deltaed /\ SettlesLate(w) /\ Net \in Nat
      /\ amount \in 0 .. Net /\ x \in Refunds \cup {"dispute", "regrant"}
      /\ x = "regrant" => amount = 0
      /\ x \in Refs /\ IsRow(ledger[x])
  BY NetFacts, RefIds DEF Suits, DebitSuits, TakeBack, Shape
<1>1. Suits(w)'
  <2>1. (Step(w, "unlock") \/ Step(w, "status")) /\ workers[w].pc = "debit"
    BY DEF TakeBack
  <2> QED BY <1>0, <2>1, StepSuits
<1>2. NetCore'
  <2>1. CASE SetMarker(x) \/ UNCHANGED money
    BY <1>0, <2>1, MarkerSame, SameLedger, SameCore DEF money
  <2>2. CASE amount > 0 /\ ~ledger[x].there /\ Take(x, amount)
    <3>1. PICK t \in 0 .. amount : OneDelta(x, -t)
      BY <1>0, <2>2, TakeIsOneDelta
    <3>2. t \in 0 .. Net /\ x \in Refunds \cup {"dispute"} /\ ledger[x].delta = 0
      BY <1>0, <2>2, <3>1 DEF IsRow
    <3> QED BY <3>1, <3>2, TakenCore
  <2> QED BY <2>1, <2>2 DEF TakeBack, Debit
<1> QED BY <1>1, <1>2

\* A grant is the first row that moves credits, and a restore follows a dispute.
LEMMA InsertNet ==
  ASSUME IsFiniteSet(Refunds), NetInv, NEW w \in Workers, Insert(w)
  PROVE  NetCore' /\ Suits(w)'
<1> DEFINE x == workers[w].ref
           amount == workers[w].amount
           row == [there |-> TRUE, delta |-> amount, applied |-> FALSE]
<1>0. /\ TypeInv /\ Shape /\ NetCore /\ Deltaed /\ SettlesLate(w) /\ Pack \in Nat
      /\ Net \in Nat /\ Net <= Pack
      /\ x \in Refs /\ IsRow(ledger[x]) /\ workers[w].pc = "insert"
      /\ \/ x = "grant" /\ amount = Pack
         \/ x = "regrant" /\ amount \in 1 .. -ledger["dispute"].delta
  BY NetFacts DEF Suits, InsertSuits, Insert, Shape, IsWorker
<1>1. CASE ledger[x].there
  <2>1. UNCHANGED ledger /\ (Step(w, "restore") \/ Step(w, "unlock"))
    BY <1>1 DEF Insert
  <2> QED BY <1>0, <2>1, StepSuits, SameLedger, SameCore
<1>2. CASE ~ledger[x].there
  <2>1. ledger' = [ledger EXCEPT ![x] = row] /\ Step(w, "credit")
    BY <1>2 DEF Insert
  <2>2. OneDelta(x, amount) /\ ledger[x].delta = 0
    BY <1>0, <1>2, <2>1 DEF Shape, IsRow, OneDelta
  <2>3. amount \in Int
    BY <1>0, RefIds DEF Deltaed
  <2>4. /\ Net' = Net + amount /\ Moved(Refunds)' = Moved(Refunds) /\ Deltaed'
        /\ Moved(Refunds) \in Int
    <3>1. x \notin Refunds
      BY <1>0, IdAssumption
    <3> HIDE DEF amount, x
    <3> QED BY <1>0, <2>2, <2>3, <3>1, OneSum, NetParts
  <2>5. /\ workers'[w].pc = "credit" /\ workers'[w].ref = x
        /\ workers'[w].done = {} /\ workers'[w].todo = {}
    BY <1>0, <2>1, StepIs DEF SettlesLate
  <2>6. /\ \A y \in Refs : y # x => ledger'[y].delta = ledger[y].delta
        /\ ledger'[x].delta = amount /\ ledger'[x].there
    BY <2>2 DEF OneDelta
  <2>7. CASE x = "grant" /\ amount = Pack
    <3>1. \A y \in Refs : ledger[y].delta = 0
      BY <1>0, <1>2, <2>7 DEF NetCore, GrantFirst
    <3>2. /\ ledger'["grant"].delta = Pack /\ ledger'["grant"].there
          /\ ledger'["dispute"].delta = 0 /\ ledger'["regrant"].delta = 0
          /\ \A r \in Refunds : ledger'[r].delta = 0
      BY <2>6, <2>7, <3>1, RefIds, IdAssumption
    <3>3. Signs' /\ GrantFirst'
      BY <1>0, <3>2 DEF Signs, GrantFirst
    <3>4. Net' = Pack /\ Moved(Refunds)' = 0
      <4>1. Net = Moved(Refunds) /\ Moved(Refunds) <= 0
        BY <1>0, <2>4, <3>1, NetParts, SignedSums, RefIds DEF NetCore
      <4>2. Net = 0 /\ Moved(Refunds) = 0
        BY <1>0, <2>4, <4>1
      <4> QED BY <1>0, <2>4, <2>7, <4>2
    <3>5. NetWithinPack'
      BY <1>0, <3>4 DEF NetWithinPack, Net
    <3>6. Target(workers[w].done)' = 0
      <4>1. UNCHANGED refunds
        BY DEF Insert, records
      <4>2. Target(workers[w].done)' = Target({})
        BY <2>5, <4>1 DEF Target
      <4> QED BY <4>2, TargetEmpty
    <3>7. SettleSuits(w)'
      BY <3>2, <3>4, <3>6 DEF SettleSuits
    <3>8. Suits(w)'
      BY <2>5, <3>7 DEF Suits, InsertSuits, DebitSuits, SettlesLate
    <3> QED BY <3>3, <3>5, <3>8 DEF NetCore
  <2>8. CASE x = "regrant" /\ amount \in 1 .. -ledger["dispute"].delta
    <3>1. ledger["grant"].there
      BY <1>0, <2>8, RefIds DEF NetCore, GrantFirst
    <3>2. /\ ledger'["grant"].delta = ledger["grant"].delta /\ ledger'["grant"].there
          /\ ledger'["dispute"].delta = ledger["dispute"].delta
          /\ ledger'["regrant"].delta = amount
          /\ \A r \in Refunds : ledger'[r].delta = ledger[r].delta
      <4>1. ledger'["grant"] = ledger["grant"]
        BY <2>2, <2>8, RefIds DEF OneDelta
      <4> QED BY <2>6, <2>8, <3>1, <4>1, RefIds, IdAssumption
    <3>3. Signs' /\ GrantFirst'
      BY <1>0, <2>3, <2>8, <3>2 DEF NetCore, Signs, GrantFirst
    <3>4. NetWithinPack'
      <4>1. /\ Net = ledger["grant"].delta + ledger["dispute"].delta
                       + ledger["regrant"].delta + Moved(Refunds)
            /\ Moved(Refunds) <= 0 /\ ledger["regrant"].delta = 0
            /\ ledger["grant"].delta <= Pack
            /\ ledger["grant"].delta \in Int /\ ledger["dispute"].delta \in Int
        BY <1>0, <2>2, <2>8, NetParts, SignedSums, RefIds DEF NetCore, Signs, Deltaed
      <4>2. Net' \in Int /\ 0 <= Net' /\ Net' <= Pack
        BY <1>0, <2>3, <2>4, <2>8, <4>1
      <4> QED BY <1>0, <4>2 DEF NetWithinPack, Net
    <3>5. Suits(w)'
      BY <2>5, <2>8 DEF Suits, InsertSuits, DebitSuits, SettleSuits, SettlesLate, Granting
    <3> QED BY <3>3, <3>4, <3>5 DEF NetCore
  <2> QED BY <1>0, <2>7, <2>8
<1> QED BY <1>1, <1>2

LEMMA CreditNet ==
  ASSUME IsFiniteSet(Refunds), NetInv, NEW w \in Workers, Credit(w)
  PROVE  NetCore' /\ Suits(w)'
<1> DEFINE x == workers[w].ref
           r == [workers[w] EXCEPT !.pc = "settle", !.todo = Succeeded]
<1>0. /\ TypeInv /\ Shape /\ NetCore /\ Deltaed /\ Suits(w) /\ IsWorker(workers[w])
      /\ x \in Refs /\ IsRow(ledger[x]) /\ workers[w].pc = "credit" /\ UNCHANGED refunds
  BY NetFacts DEF Credit, Shape, IsWorker, records
<1>1. SameDeltas
  BY <1>0 DEF Credit, SameDeltas, Shape, IsRow
<1>2. NetCore'
  BY <1>0, <1>1, SameCore
<1>3. CASE Step(w, "unlock") \/ Step(w, "status")
  BY <1>0, <1>2, <1>3, StepSuits DEF Suits
<1>4. CASE Put(w, r) /\ workers[w].event.type # "repair" /\ x = "grant"
  <2>1. workers'[w] = r
    BY <1>0, <1>4, PutIs
  <2>2. /\ workers'[w].pc = "settle"
        /\ workers'[w].done = {} /\ workers[w].done = {}
    BY <1>0, <2>1 DEF IsWorker, Suits, SettlesLate
  <2>3. /\ ledger["grant"].delta = Pack
        /\ ledger["dispute"].delta = 0 /\ ledger["regrant"].delta = 0
        /\ \A y \in Refunds : ledger[y].delta = 0
        /\ -Moved(Refunds) <= Target({})
    BY <1>0, <1>4, <2>2 DEF Suits, SettleSuits, Granting
  <2>4. /\ ledger'["grant"].delta = Pack
        /\ ledger'["dispute"].delta = 0 /\ ledger'["regrant"].delta = 0
        /\ \A y \in Refunds : ledger'[y].delta = 0
    BY <1>1, <2>3, RefIds DEF SameDeltas
  <2>5. Target(workers[w].done)' = Target({}) /\ Moved(Refunds)' = Moved(Refunds)
    BY <1>0, <1>1, <2>2, SameSums DEF Target
  <2>6. SettleSuits(w)'
    BY <2>3, <2>4, <2>5 DEF SettleSuits
  <2>7. Suits(w)'
    BY <2>2, <2>6 DEF Suits, InsertSuits, DebitSuits, SettlesLate
  <2> QED BY <1>2, <2>7
<1> QED BY <1>3, <1>4 DEF Credit

LEMMA SettledNet ==
  ASSUME IsFiniteSet(Refunds), NetInv, NEW w \in Workers, Settled(w)
  PROVE  NetCore' /\ Suits(w)'
<1> DEFINE s == NetStatus(Target(workers[w].done))
           next == [workers[w] EXCEPT !.pc = "status", !.status = s]
<1>0. Shape /\ NetCore /\ Deltaed /\ IsWorker(workers[w])
  BY NetFacts
<1>1. NetCore'
  BY <1>0, RefIds, SameLedger, MarkerSame, SameCore DEF Settled, money
<1>2. workers'[w] = next
  BY <1>0, PutIs DEF Settled
<1>3. workers'[w].pc = "status"
  BY <1>0, <1>2 DEF IsWorker
<1> QED BY <1>1, <1>3, WaitsSuits

\* What a refund takes when the pack is granted is its part of what they cover.
LEMMA SettleNet ==
  ASSUME IsFiniteSet(Refunds), NetInv, NEW w \in Workers, NEW r \in Refunds, Settle(w, r)
  PROVE  NetCore' /\ Suits(w)'
<1> DEFINE done == workers[w].done \cup {r}
           old == Target(workers[w].done)
           new == Target(done)
           share == Monus(new, old)
           next == [workers[w] EXCEPT !.todo = @ \ {r}, !.done = done]
<1>0. /\ TypeInv /\ Shape /\ NetCore /\ Deltaed /\ TypeOK /\ Pack \in Nat
      /\ Net \in Nat /\ Net <= Pack
      /\ IsWorker(workers[w]) /\ WorkerFits(w) /\ workers[w].pc = "settle"
      /\ r \in workers[w].todo /\ r \in Refs /\ UNCHANGED refunds
      /\ SettleSuits(w) /\ Moved(Refunds) \in Int
  BY NetFacts, RefIds, NetParts DEF Settle, records, Suits
<1>1. /\ ledger["grant"].delta = Pack
      /\ ledger["dispute"].delta = 0 /\ ledger["regrant"].delta = 0
      /\ \A y \in Refunds \ workers[w].done : ledger[y].delta = 0
      /\ -Moved(Refunds) <= old
  BY <1>0 DEF SettleSuits, Granting
<1>2. /\ done \in SUBSET Succeeded /\ workers[w].done \in SUBSET done
      /\ old \in 0 .. Pack /\ new \in 0 .. Pack /\ old <= new
  <2>1. done \in SUBSET Succeeded /\ workers[w].done \in SUBSET Succeeded
    BY <1>0 DEF WorkerFits
  <2>2. workers[w].done \in SUBSET done
    OBVIOUS
  <2> QED BY <1>0, <2>1, <2>2, TargetRange, TargetGrows
<1>3. workers'[w] = next
  BY <1>0, PutIs DEF Settle
<1>4. workers'[w].pc = "settle" /\ workers'[w].done = done
  BY <1>0, <1>3 DEF IsWorker
<1>5. Target(workers[w].done)' = new
  BY <1>0, <1>4 DEF Target
<1>6. Net = Pack + Moved(Refunds)
  BY <1>0, <1>1, NetParts, RefIds DEF Deltaed
<1>7. /\ NetCore'
      /\ \A y \in Refs : y # r => ledger'[y].delta = ledger[y].delta
      /\ -Moved(Refunds)' <= new
  <2>1. CASE SetMarker(r) \/ UNCHANGED money
    <3>1. SameDeltas
      BY <1>0, <2>1, MarkerSame, SameLedger DEF money
    <3>2. NetCore' /\ Moved(Refunds)' = Moved(Refunds)
      BY <1>0, <3>1, SameCore, SameSums
    <3>3. -Moved(Refunds)' <= new
      BY <1>0, <1>1, <1>2, <3>2
    <3> QED BY <3>1, <3>2, <3>3 DEF SameDeltas
  <2>2. CASE share > 0 /\ Take(r, share) /\ ledger[r].delta = 0
    <3>1. share \in Nat /\ share = new - old
      BY <1>2, <2>2 DEF Monus
    <3> HIDE DEF share, new, old
    <3>2. PICK t \in 0 .. share : OneDelta(r, -t)
      BY <1>0, <2>2, <3>1, TakeIsOneDelta
    <3>3. t \in 0 .. Net
      BY <1>0, <1>1, <1>2, <1>6, <3>1, <3>2
    <3>4. NetCore' /\ Moved(Refunds)' = Moved(Refunds) - t
      BY <2>2, <3>2, <3>3, TakenCore
    <3>5. -Moved(Refunds)' <= new
      BY <1>0, <1>1, <1>2, <3>1, <3>2, <3>4
    <3>6. \A y \in Refs : y # r => ledger'[y].delta = ledger[y].delta
      BY <3>2 DEF OneDelta
    <3> QED BY <3>4, <3>5, <3>6
  <2>3. IF share > 0 THEN DebitOverMarker(r, share) ELSE SetMarker(r)
    BY DEF Settle
  <2>4. DebitOverMarker(r, share) =>
          UNCHANGED money \/ (Take(r, share) /\ ledger[r].delta = 0)
    BY <1>0 DEF DebitOverMarker, Shape, IsRow
  <2> QED BY <2>1, <2>2, <2>3, <2>4
<1>8. SettleSuits(w)'
  <2>1. /\ ledger'["grant"].delta = Pack
        /\ ledger'["dispute"].delta = 0 /\ ledger'["regrant"].delta = 0
        /\ \A y \in Refunds \ done : ledger'[y].delta = 0
    BY <1>1, <1>7, RefIds, IdAssumption
  <2>2. -Moved(Refunds)' <= Target(workers[w].done)'
    BY <1>5, <1>7
  <2> QED BY <1>4, <2>1, <2>2 DEF SettleSuits
<1> QED BY <1>4, <1>7, <1>8 DEF Suits, InsertSuits, DebitSuits, SettlesLate

LEMMA IndoorsNet ==
  ASSUME IsFiniteSet(Refunds), NetInv, NEW w \in Workers, Indoors(w)
  PROVE  NetCore' /\ Suits(w)'
<1>0. Shape /\ NetCore /\ Deltaed
  BY NetFacts
<1>1. CASE \/ PaymentOpen(w) \/ RefundOpen(w) \/ DisputeOpen(w) \/ WonOpen(w)
           \/ Restore(w) \/ RepairOpen(w) \/ WriteStatus(w)
  BY <1>0, <1>1, OpensSuit, SameLedger, SameCore
<1>2. CASE Insert(w) \/ Credit(w) \/ (\E r \in Refunds : Settle(w, r))
           \/ Settled(w) \/ TakeBack(w)
  BY <1>2, InsertNet, CreditNet, SettleNet, SettledNet, TakeBackNet
<1> QED BY <1>1, <1>2 DEF Indoors, InTheLock

LEMMA NetNext ==
  IsFiniteSet(Refunds) /\ ~SlowHolders /\ NetInv /\ [Next]_vars => NetInv'
<1> SUFFICES ASSUME IsFiniteSet(Refunds), ~SlowHolders, NetInv, [Next]_vars
             PROVE  NetInv'
  OBVIOUS
<1>0. /\ TypeInv /\ LedgerInv /\ NetCore /\ Deltaed /\ Shape
      /\ \A w \in Workers : Suits(w)
  BY NetFacts
<1>1. LedgerInv' /\ TypeInv' /\ RefundsGrow
  BY <1>0, ShapeNext, SafeNext, TypeNext, TypeParts, BookNext DEF LedgerInv
<1>2. CASE UNCHANGED <<workers, ledger>>
  <2>1. NetCore'
    BY <1>0, <1>2, SameLedger, SameCore
  <2>2. \A w \in Workers : Suits(w)'
    BY <1>0, <1>1, <1>2, StaysSuits
  <2> QED BY <1>1, <2>1, <2>2 DEF NetInv, NetCore
<1>3. ASSUME NEW w \in Workers, Outdoors(w) \/ Acquire(w) \/ Release(w) \/ Dies(w)
      PROVE  NetInv'
  <2>1. UNCHANGED ledger /\ \A v \in Workers : v # w => workers'[v] = workers[v]
    BY <1>0, <1>3, OutdoorsShape, AcquireShape, LeaveShape DEF Outside
  <2>2. NetCore'
    BY <1>0, <2>1, SameLedger, SameCore
  <2>3. Suits(w)'
    BY <1>0, <1>3, OutdoorsSuits DEF Suits
  <2>4. \A v \in Workers : v # w => Suits(v)'
    BY <1>0, <1>1, <2>1, StaysSuits
  <2> QED BY <1>1, <2>2, <2>3, <2>4 DEF NetInv, NetCore
<1>4. ASSUME NEW w \in Workers, Indoors(w) PROVE NetInv'
  <2>1. NetCore' /\ Suits(w)'
    BY <1>4, IndoorsNet
  <2>2. lock = w /\ \A v \in Workers : v # w => workers'[v] = workers[v]
    BY <1>0, <1>4, IndoorsShape DEF Forward, LedgerInv, LockIsOwned
  <2>3. ASSUME NEW v \in Workers, v # w PROVE Suits(v)'
    <3>1. workers[v].pc \notin Inside /\ SettlesLate(v) /\ workers'[v] = workers[v]
      BY <1>0, <2>2, <2>3 DEF LedgerInv, LockIsOwned, Suits
    <3>2. /\ workers'[v].pc \notin {"insert", "debit", "credit", "settle"}
          /\ workers'[v].done \cup workers'[v].todo = {}
      BY <1>0, <3>1 DEF Inside, Shape, IsWorker, SettlesLate, Pcs
    <3> QED BY <3>2, WaitsSuits
  <2> QED BY <1>1, <2>1, <2>3 DEF NetInv, NetCore
<1>5. Environment \/ UNCHANGED vars => UNCHANGED <<workers, ledger>>
  BY <1>0, EnvironmentShape DEF vars, money
<1> QED BY <1>2, <1>3, <1>4, <1>5, WorkSplits DEF Next

LEMMA NetInit == Init /\ IsFiniteSet(Refunds) => NetInv
<1> SUFFICES ASSUME Init, IsFiniteSet(Refunds) PROVE NetInv
  OBVIOUS
<1>1. \A x \in Refs : ledger[x].delta = 0
  BY DEF Init, NoRow
<1>2. Signs /\ GrantFirst
  BY <1>1, RefIds, PackAssumption DEF Signs, GrantFirst
<1>3. NetWithinPack
  <2>1. \A x \in Refs : Deltas[x] = 0
    BY <1>1 DEF Deltas
  <2>2. Moved(Refs) = 0
    BY <2>1, RefsFinite, SumZero DEF Moved
  <2> QED BY <2>2, PackAssumption DEF NetWithinPack
<1>4. \A w \in Workers : workers[w] = Idle
  BY DEF Init
<1>5. \A w \in Workers : Suits(w)
  BY <1>4 DEF Suits, InsertSuits, DebitSuits, SettleSuits, SettlesLate, Granting, Idle
<1> QED BY <1>2, <1>3, <1>5, LedgerInvInit, TypeInit DEF NetInv

\* Whatever comes in whatever order, for any number of invocations, refunds and
\* disputes, any amounts and any crashes, what the payment has moved stays
\* between nothing and one pack: a dispute and refunds never take more than was
\* granted, and a restore never gives back more than the dispute took.  It rests
\* on holders that finish before their lock is stolen, for a decision is as old
\* as the ledger it was read from.
THEOREM NetWithinPackEver ==
  ASSUME IsFiniteSet(Refunds), ~SlowHolders PROVE Spec => []NetWithinPack
<1>1. NetInv => NetWithinPack
  BY DEF NetInv
<1> QED BY <1>1, NetInit, NetNext, PTL DEF Spec

-----------------------------------------------------------------------------
(* An open or lost dispute holds what is left.                              *)

\* Upstream a dispute only moves up.
LEMMA LaterRanks ==
  \A s \in DisputeEvents, t \in DisputeEvents :
    /\ Rank(s) \in 0 .. 3
    /\ t \in Later(s) => Rank(s) < Rank(t)
    /\ s \in Restores => Rank(s) = 3
BY DEF DisputeEvents, Revokes, Restores, Later, Rank

LEMMA LaterEvents == \A s : Later(s) \subseteq DisputeEvents
BY DEF Later, DisputeEvents, Revokes, Restores

\* The CHOOSE of Upstream is the latest status.
LEMMA UpstreamIs ==
  ASSUME Chain, NEW d \in Disputes, NEW s, Latest(d, s)
  PROVE  Upstream(d) = s /\ s \in DisputeEvents \cap DisputeStatuses
<1>1. Seen(d) \subseteq DisputeEvents \cap DisputeStatuses /\ s \in Seen(d)
  BY DEF Chain, Latest
<1>2. Later(s) \cap Seen(d) = {}
  <2> SUFFICES ASSUME NEW t \in Later(s) \cap Seen(d) PROVE FALSE
    OBVIOUS
  <2>1. /\ Rank(s) \in 0 .. 3 /\ Rank(t) \in 0 .. 3 /\ Rank(s) < Rank(t)
    BY <1>1, LaterRanks
  <2>2. t # s
    BY <2>1
  <2>3. Rank(t) < Rank(s)
    BY <2>2 DEF Latest
  <2> QED BY <2>1, <2>3
<1>3. \A t \in Seen(d) : Later(t) \cap Seen(d) = {} => t = s
  BY DEF Latest
<1>4. Upstream(d) = CHOOSE t \in Seen(d) : Later(t) \cap Seen(d) = {}
  BY <1>1 DEF Upstream, Seen
<1> QED BY <1>1, <1>2, <1>3, <1>4

LEMMA SeenGrows ==
  ASSUME NEW e, news' = news \cup {e}, NEW d
  PROVE  /\ e.id = d => Seen(d)' = Seen(d) \cup {e.type}
         /\ e.id # d => Seen(d)' = Seen(d)
  BY DEF Seen

LEMMA ChainNext ==
  ASSUME Chain, [Next]_vars PROVE Chain'
<1>1. ASSUME UNCHANGED news PROVE Chain'
  BY <1>1 DEF Chain, Latest, Seen
<1>2. ASSUME NEW r \in Refunds, NEW a, NEW t, IssueRefund(r, a, t) PROVE Chain'
  <2>1. news' = news \cup {Signal(t, r, a)} /\ Signal(t, r, a).id = r
    BY <1>2 DEF IssueRefund, Signal
  <2>2. \A d \in Disputes : Seen(d)' = Seen(d)
    BY <2>1, SeenGrows, IdAssumption
  <2> QED BY <2>2 DEF Chain, Latest
<1>3. ASSUME NEW c \in Disputes, NEW s \in DisputeStatuses, IssueDispute(c, s)
      PROVE  Chain'
  <2>1. /\ news' = news \cup {Signal(s, c, Unknown)}
        /\ Signal(s, c, Unknown).id = c /\ Signal(s, c, Unknown).type = s
    BY <1>3 DEF IssueDispute, Signal
  <2>2. /\ Seen(c)' = Seen(c) \cup {s}
        /\ \A d \in Disputes : d # c => Seen(d)' = Seen(d)
    BY <2>1, SeenGrows
  <2>3. ASSUME NEW d \in Disputes, d # c
        PROVE  /\ Seen(d)' \subseteq DisputeEvents \cap DisputeStatuses
               /\ Seen(d)' # {} => \E t \in Seen(d)' : Latest(d, t)'
    BY <2>2, <2>3 DEF Chain, Latest
  <2>4. CASE Seen(c) = {}
    <3>1. Upstream(c) = "none"
      BY <2>4 DEF Upstream, Seen
    <3>2. s = "opened" /\ s \in DisputeEvents
      BY <1>3, <3>1 DEF IssueDispute, DisputeEvents, Revokes
    <3>3. Seen(c)' = {s} /\ Latest(c, s)'
      BY <2>2, <2>4 DEF Latest
    <3> QED BY <2>3, <3>2, <3>3 DEF Chain
  <2>5. CASE Seen(c) # {}
    <3>1. PICK u \in Seen(c) : Latest(c, u)
      BY <2>5 DEF Chain
    <3>2. Upstream(c) = u /\ u \in DisputeEvents
      BY <3>1, UpstreamIs
    <3>3. u # "none"
      BY <3>2 DEF DisputeEvents, Revokes, Restores
    <3>4. s \in Later(u) /\ s \in DisputeEvents
      BY <1>3, <3>2, <3>3, LaterEvents DEF IssueDispute
    <3>5. /\ Rank(u) \in 0 .. 3 /\ Rank(s) \in 0 .. 3 /\ Rank(u) < Rank(s)
      BY <3>2, <3>4, LaterRanks
    <3>6. \A t \in Seen(c) : /\ Rank(t) \in 0 .. 3 /\ Rank(t) <= Rank(u)
                             /\ t # u => Later(t) \cap Seen(c) # {}
      BY <3>1, <3>5, LaterRanks DEF Chain, Latest
    <3>7. \A t \in Seen(c)' \ {s} : Rank(t) < Rank(s) /\ Later(t) \cap Seen(c)' # {}
      BY <2>2, <3>4, <3>5, <3>6
    <3>8. Latest(c, s)'
      BY <2>2, <3>7 DEF Latest
    <3>9. Seen(c)' \subseteq DisputeEvents \cap DisputeStatuses
      BY <2>2, <3>4 DEF Chain
    <3> QED BY <2>2, <2>3, <3>8, <3>9 DEF Chain
  <2> QED BY <2>4, <2>5
<1>4. Spend => UNCHANGED news
  BY DEF Spend, world
<1>5. ASSUME NEW w \in Workers, Works(w) PROVE UNCHANGED news
  <2>1. Outdoors(w) => UNCHANGED news
    BY DEF Outdoors, Deliver, DeliverAttempt, JobMarks, Stamp, JobRepairs,
           RecordRefund, GiveUp, world
  <2>2. Acquire(w) \/ Release(w) \/ Dies(w) => UNCHANGED news
    BY DEF Acquire, Release, Dies, world
  <2>3. Indoors(w) => UNCHANGED news
    BY DEF Indoors, InTheLock, PaymentOpen, RefundOpen, DisputeOpen, WonOpen,
           RepairOpen, Restore, Insert, Credit, Settle, Settled, TakeBack,
           WriteStatus, world
  <2> QED BY <1>5, <2>1, <2>2, <2>3, WorkSplits
<1>6. UNCHANGED vars => UNCHANGED news
  BY DEF vars, world
<1> QED BY <1>1, <1>2, <1>3, <1>4, <1>5, <1>6 DEF Next, Environment

\* What is issued stays, and so does what links an order to its payment.
LEMMA NewsGrow ==
  ASSUME Shape, Book, [Next]_vars
  PROVE  news \subseteq news' /\ (order.linked => order'.linked)
<1>1. Environment \/ UNCHANGED vars => news \subseteq news' /\ UNCHANGED order
  BY DEF Environment, IssueRefund, IssueDispute, Spend, vars, world, records
<1>2. ASSUME NEW w \in Workers, Works(w)
      PROVE  UNCHANGED news /\ (order.linked => order'.linked)
  <2>1. CASE Stamp(w) \/ PaymentOpen(w) \/ WriteStatus(w)
    BY <2>1 DEF Stamp, PaymentOpen, WriteStatus, world, Book
  <2>2. CASE Outdoors(w) /\ ~Stamp(w)
    BY <2>2 DEF Outdoors, Deliver, DeliverAttempt, JobMarks, JobRepairs,
           RecordRefund, GiveUp, world, records
  <2>3. CASE Acquire(w) \/ Release(w) \/ Dies(w)
    BY <2>3 DEF Acquire, Release, Dies, world, records
  <2>4. CASE Indoors(w) /\ ~PaymentOpen(w) /\ ~WriteStatus(w)
    BY <2>4 DEF Indoors, InTheLock, RefundOpen, DisputeOpen, WonOpen, RepairOpen,
           Restore, Insert, Credit, Settle, Settled, TakeBack, world, records
  <2> QED BY <1>2, <2>1, <2>2, <2>3, <2>4, WorkSplits
<1> QED BY <1>1, <1>2 DEF Next

\* A worker handles one event from its delivery to its answer.
LEMMA IndoorsEvent ==
  ASSUME Shape, NEW w \in Workers, Indoors(w)
  PROVE  workers'[w].event = workers[w].event
<1>1. CASE \/ PaymentOpen(w) \/ RefundOpen(w) \/ DisputeOpen(w) \/ WonOpen(w)
           \/ Restore(w) \/ RepairOpen(w) \/ Insert(w) \/ TakeBack(w) \/ WriteStatus(w)
  <2>1. \/ \E pc : Step(w, pc)
        \/ \E pc, ref, amount, status : Decide(w, pc, ref, amount, status)
    BY <1>1 DEF PaymentOpen, RefundOpen, DisputeOpen, WonOpen, RepairOpen, Restore,
                Insert, TakeBack, WriteStatus
  <2> QED BY <2>1, StepIs, DecideIs
<1>2. CASE Credit(w)
  <2>1. (\E pc : Step(w, pc))
        \/ Put(w, [workers[w] EXCEPT !.pc = "settle", !.todo = Succeeded])
    BY <1>2 DEF Credit
  <2>2. Put(w, [workers[w] EXCEPT !.pc = "settle", !.todo = Succeeded]) =>
          workers'[w] = [workers[w] EXCEPT !.pc = "settle", !.todo = Succeeded]
    BY PutIs
  <2> QED BY <2>1, <2>2, StepIs DEF Shape, IsWorker
<1>3. ASSUME NEW r \in Refunds, Settle(w, r) PROVE workers'[w].event = workers[w].event
  <2> DEFINE next == [workers[w] EXCEPT !.todo = @ \ {r},
                                        !.done = workers[w].done \cup {r}]
  <2>1. workers'[w] = next
    BY <1>3, PutIs DEF Settle
  <2> QED BY <2>1 DEF Shape, IsWorker
<1>4. CASE Settled(w)
  <2> DEFINE s == NetStatus(Target(workers[w].done))
             next == [workers[w] EXCEPT !.pc = "status", !.status = s]
  <2>1. workers'[w] = next
    BY <1>4, PutIs DEF Settled
  <2> QED BY <2>1 DEF Shape, IsWorker
<1> QED BY <1>1, <1>2, <1>3, <1>4 DEF Indoors, InTheLock

LEMMA SentNext ==
  ASSUME Shape, Book, \A w \in Workers : Sent(w), [Next]_vars
  PROVE  \A w \in Workers : Sent(w)'
<1>0. news \subseteq news'
  BY NewsGrow
<1>1. ASSUME NEW v \in Workers, workers'[v].event = workers[v].event PROVE Sent(v)'
  BY <1>0, <1>1 DEF Sent, Repairs
<1>2. CASE Environment \/ UNCHANGED vars
  <2>1. UNCHANGED workers
    BY <1>2, EnvironmentShape DEF vars
  <2> QED BY <1>1, <2>1
<1>3. ASSUME NEW w \in Workers, Works(w) PROVE \A v \in Workers : Sent(v)'
  <2>1. \A v \in Workers : v # w => workers'[v] = workers[v]
    BY <1>3, WorkSplits, OutdoorsShape, AcquireShape, LeaveShape, IndoorsShape
       DEF Outside, Forward
  <2>2. Sent(w)'
    <3>1. CASE Indoors(w)
      BY <1>1, <3>1, IndoorsEvent
    <3>2. CASE Acquire(w)
      <4>1. Step(w, "open")
        BY <3>2 DEF Acquire
      <4> QED BY <1>1, <4>1, StepIs
    <3>3. ASSUME NEW r, Put(w, r),
                 r.event \in news \cup {Payment, Mark} \cup Repairs
          PROVE  Sent(w)'
      <4>1. workers'[w] = r
        BY <3>3, PutIs
      <4> QED BY <1>0, <3>3, <4>1 DEF Sent, Repairs
    <3>4. CASE Release(w) \/ Dies(w) \/ Stamp(w) \/ GiveUp(w)
      <4>1. Put(w, Idle) /\ Idle.event = Payment
        BY <3>4 DEF Release, Dies, Stamp, GiveUp, Answer, Idle
      <4> QED BY <3>3, <4>1
    <3>5. ASSUME NEW e \in news, Deliver(w, e) PROVE Sent(w)'
      <4> DEFINE r == [Idle EXCEPT !.event = e,
                                   !.pc = IF e.type \in {"refund", "refund_failed"}
                                          THEN "record" ELSE "lock"]
      <4>1. Put(w, r) /\ r.event = e
        BY <3>5 DEF Deliver, Idle
      <4> HIDE DEF r
      <4> QED BY <3>3, <4>1
    <3>6. CASE DeliverAttempt(w)
      <4>1. \/ UNCHANGED workers
            \/ Put(w, [Idle EXCEPT !.event = Attempt, !.pc = "stamp", !.status = "failed"])
        BY <3>6 DEF DeliverAttempt
      <4>2. [Idle EXCEPT !.event = Attempt, !.pc = "stamp", !.status = "failed"].event
               \in news
        BY <3>6 DEF DeliverAttempt, Idle
      <4> QED BY <1>1, <3>3, <4>1, <4>2
    <3>7. CASE JobMarks(w)
      <4>1. Put(w, [Idle EXCEPT !.event = Mark, !.pc = "stamp", !.status = "succeeded"])
        BY <3>7 DEF JobMarks
      <4>2. [Idle EXCEPT !.event = Mark, !.pc = "stamp", !.status = "succeeded"].event = Mark
        BY DEF Idle
      <4> QED BY <3>3, <4>1, <4>2
    <3>8. ASSUME NEW x \in Refs, JobRepairs(w, x) PROVE Sent(w)'
      <4> DEFINE r == [Idle EXCEPT !.event = Signal("repair", x, Unknown), !.ref = x,
                                   !.pc = "lock"]
      <4>1. Put(w, r) /\ r.event \in Repairs
        BY <3>8 DEF JobRepairs, Idle, Repairs
      <4> HIDE DEF r
      <4> QED BY <3>3, <4>1
    <3>9. CASE RecordRefund(w)
      <4>1. Step(w, "lock") \/ Put(w, Idle)
        BY <3>9 DEF RecordRefund, Answer
      <4>2. Idle.event = Payment
        BY DEF Idle
      <4> QED BY <1>1, <3>3, <4>1, <4>2, StepIs
    <3> QED BY <1>3, <3>1, <3>2, <3>4, <3>5, <3>6, <3>7, <3>8, <3>9, WorkSplits DEF Outdoors
  <2> QED BY <1>1, <2>1, <2>2
<1> QED BY <1>2, <1>3 DEF Next

\* What is about to be written while no dispute was resolved.
LEMMA EventTypes ==
  ASSUME NEW e \in Event
  PROVE  /\ e.type = "payment" => e = Payment
         /\ e.type \in DisputeEvents => e.id \in Disputes
         /\ e \in {Payment, Mark} \cup Repairs => e.type \notin DisputeEvents
  BY DEF Event, Repairs, Payment, Attempt, Mark, Signal, DisputeEvents, Revokes, Restores

LEMMA WaitsHold ==
  ASSUME NEW w, workers'[w].pc \notin {"restore", "insert", "settle", "credit", "debit"}
  PROVE  HoldSuits(w)'
  BY DEF HoldSuits

LEMMA StaysHold ==
  ASSUME UNCHANGED ledger, NEW w \in Workers, HoldSuits(w), UNCHANGED workers[w]
  PROVE  HoldSuits(w)'
<1>1. UNCHANGED Net
  BY DEF Net, Moved, Deltas
<1> QED BY <1>1 DEF HoldSuits

\* Without a grant there is nothing left to take.
LEMMA NothingLeft ==
  ASSUME IsFiniteSet(Refunds), NetInv, ~ledger["grant"].there
  PROVE  Net = 0
<1>1. \A x \in Refs : Deltas[x] = 0
  BY DEF NetInv, GrantFirst, Deltas
<1> QED BY <1>1, RefsFinite, SumZero DEF Net, Moved

LEMMA OpensHold ==
  ASSUME IsFiniteSet(Refunds), NetInv, Contested, Holding, NEW w \in Workers, Sent(w),
         \/ PaymentOpen(w) \/ RefundOpen(w) \/ DisputeOpen(w) \/ WonOpen(w)
         \/ Restore(w) \/ RepairOpen(w) \/ WriteStatus(w)
  PROVE  /\ HoldSuits(w)' /\ UNCHANGED ledger
         /\ workers'[w].pc = "insert" => order'.linked
<1>0. /\ Shape /\ Outstanding = Net /\ workers[w].event \in Event
      /\ HoldSuits(w) /\ ~ledger["regrant"].there
      /\ ledger["grant"].there => order.linked
  BY NetFacts DEF IsWorker, Holding, LinkedFirst
<1>1. CASE PaymentOpen(w)
  <2>1. /\ workers[w].event = Payment /\ UNCHANGED ledger /\ order'.linked
        /\ \/ \E s : Decide(w, "status", "grant", 0, s)
           \/ ~Held /\ Decide(w, "insert", "grant", Pack, "none")
    BY <1>0, <1>1, EventTypes DEF PaymentOpen, Runs, money
  <2>2. CASE \E s : Decide(w, "status", "grant", 0, s)
    BY <1>0, <2>1, <2>2, DecideIs, WaitsHold
  <2>3. CASE ~Held /\ Decide(w, "insert", "grant", Pack, "none")
    <3>1. /\ workers'[w].pc = "insert" /\ workers'[w].ref = "grant"
          /\ workers'[w].event = Payment /\ ~ledger'["dispute"].there
      BY <1>0, <2>1, <2>3, DecideIs DEF Held
    <3> QED BY <2>1, <3>1 DEF HoldSuits
  <2> QED BY <2>1, <2>2, <2>3
<1>2. CASE RefundOpen(w)
  <2> DEFINE r == workers[w].event.id
  <2>1. r \in Refunds /\ r # "regrant" /\ r # "dispute"
    BY <1>0, <1>2, EventIds, IdAssumption DEF RefundOpen, Runs
  <2>2. UNCHANGED ledger /\ (Step(w, "unlock") \/ \E a, s : Decide(w, "debit", r, a, s))
    BY <1>2 DEF RefundOpen, money
  <2>3. CASE Step(w, "unlock")
    BY <1>0, <2>2, <2>3, StepIs, WaitsHold
  <2>4. CASE \E a, s : Decide(w, "debit", r, a, s)
    <3>1. workers'[w].pc = "debit" /\ workers'[w].ref = r
      BY <1>0, <2>4, DecideIs
    <3> QED BY <2>1, <2>2, <3>1 DEF HoldSuits
  <2> QED BY <2>2, <2>3, <2>4
<1>3. CASE DisputeOpen(w)
  <2>1. /\ UNCHANGED ledger
        /\ \/ Step(w, "unlock")
           \/ ~order.linked /\ Decide(w, "debit", "dispute", 0, "none")
           \/ Decide(w, "debit", "dispute", Net, "disputed")
    BY <1>0, <1>3 DEF DisputeOpen, money
  <2>2. CASE Step(w, "unlock")
    BY <1>0, <2>1, <2>2, StepIs, WaitsHold
  <2>3. CASE \E s : Decide(w, "debit", "dispute", Net, s)
    <3>1. workers'[w].pc = "debit" /\ workers'[w].ref = "dispute" /\ workers'[w].amount = Net
      BY <1>0, <2>3, DecideIs
    <3>2. UNCHANGED Net
      BY <2>1 DEF Net, Moved, Deltas
    <3> QED BY <2>1, <3>1, <3>2 DEF HoldSuits
  <2>4. ~order.linked => Net = 0
    BY <1>0, NothingLeft
  <2> QED BY <2>1, <2>2, <2>3, <2>4
<1>4. CASE WonOpen(w) \/ Restore(w)
  <2>1. WonOpen(w)
    BY <1>0, <1>4 DEF HoldSuits, Restore
  <2>2. workers[w].event.type \in Restores /\ Restores \subseteq DisputeEvents
    BY <2>1 DEF WonOpen, Runs, DisputeEvents
  <2>3. workers[w].event \in news
    BY <1>0, <2>2, EventTypes DEF Sent
  <2> QED BY <2>2, <2>3 DEF Contested
<1>5. CASE RepairOpen(w)
  <2>1. /\ workers[w].event.type = "repair" /\ UNCHANGED ledger
        /\ Step(w, "unlock") \/ Step(w, "credit")
    BY <1>5 DEF RepairOpen, Runs, money
  <2>2. workers'[w].pc \in {"unlock", "credit"} /\ workers'[w].event.type = "repair"
    BY <1>0, <2>1, StepIs
  <2> QED BY <2>1, <2>2 DEF HoldSuits
<1>6. CASE WriteStatus(w)
  <2>1. UNCHANGED ledger /\ Step(w, "unlock")
    BY <1>6 DEF WriteStatus, money
  <2> QED BY <1>0, <2>1, StepIs, WaitsHold
<1> QED BY <1>1, <1>2, <1>3, <1>4, <1>5, <1>6

\* Who works in the lock is the only one who has a row to put on the balance.
LEMMA NonePending ==
  ASSUME LedgerInv, PendingIsOwned, NEW w \in Workers, workers[w].pc \in Inside,
         NEW x \in Refs, Pending(x)
  PROVE  workers[w].pc = "credit" /\ workers[w].ref = x
<1>1. PICK v \in Workers : workers[v].pc = "credit" /\ workers[v].ref = x
  BY DEF PendingIsOwned
<1>2. lock = v /\ lock = w
  BY <1>1 DEF LedgerInv, LockIsOwned, Inside, Pcs
<1> QED BY <1>1, <1>2

\* Then the balance has all the payment moved, and a dispute finds what of it
\* is not spent.
LEMMA BalanceCovers ==
  ASSUME IsFiniteSet(Refunds), NetInv, BalanceIsTheLedger, \A x \in Refs : ~Pending(x)
  PROVE  balance >= Net - spent
<1>1. /\ Deltaed /\ Shape /\ TypeOK /\ IsFiniteSet(Refs) /\ OtherCredits \in Nat
  BY NetFacts, RefsFinite, PackAssumption
<1>2. \A x \in Refs : Deltas[x] \in Int /\ (x \notin Applied => Deltas[x] = 0)
  BY <1>1 DEF Pending, Applied, Deltaed, Deltas, Shape, IsRow
<1>3. Applied \in SUBSET Refs
  BY DEF Applied
<1>4. Moved(Applied) = Net /\ Net \in Int
  BY <1>1, <1>2, <1>3, SumRestrict, MovedType, NetFacts DEF Moved, Net
<1>5. balance = OtherCredits + Net - spent /\ spent \in Nat
  BY <1>1, <1>4 DEF BalanceIsTheLedger, TypeOK
<1> QED BY <1>1, <1>4, <1>5

\* What a debit or a marker leaves is on the balance.
LEMMA DebitSettles ==
  ASSUME Shape, NEW x \in Refs,
         SetMarker(x) \/ UNCHANGED ledger \/ (\E n : Take(x, n))
  PROVE  \A y \in Refs : \/ ledger'[y] = ledger[y]
                         \/ y = x /\ ledger'[x].applied
<1>1. CASE SetMarker(x)
  BY <1>1 DEF SetMarker, Marker, Shape
<1>2. ASSUME NEW n, Take(x, n)
      PROVE  \A y \in Refs : ledger'[y] = ledger[y] \/ (y = x /\ ledger'[x].applied)
  <2> DEFINE row == [there |-> TRUE, delta |-> -Least(balance, n), applied |-> TRUE]
  <2>1. ledger' = [ledger EXCEPT ![x] = row] /\ row.applied
    BY <1>2 DEF Take
  <2> HIDE DEF row
  <2> QED BY <2>1 DEF Shape
<1> QED BY <1>1, <1>2

\* What a write in the lock keeps.
RowsHold ==
  /\ ledger["grant"].there => order.linked
  /\ ~ledger["regrant"].there
  /\ ledger["dispute"].there => Net <= spent
  /\ PendingIsOwned
Kept(w) ==
  RowsHold' /\ HoldSuits(w)' /\ (workers'[w].pc = "insert" => order'.linked)

LEMMA HoldFacts ==
  ASSUME IsFiniteSet(Refunds), NetInv, Holding
  PROVE  /\ RowsHold /\ TypeInv /\ LedgerInv /\ Shape /\ Deltaed /\ IsFiniteSet(Refs)
         /\ Net \in Nat /\ spent \in Nat /\ balance \in Nat
         /\ \A w \in Workers : HoldSuits(w) /\ Suits(w) /\ IsWorker(workers[w])
<1>1. /\ TypeInv /\ LedgerInv /\ Shape /\ Deltaed /\ Net \in Nat /\ TypeOK
      /\ \A w \in Workers : Suits(w) /\ IsWorker(workers[w])
  BY NetFacts
<1> QED BY <1>1, RefsFinite DEF Holding, RowsHold, LinkedFirst, TypeOK

\* A write of row x that leaves it on the balance, while nothing is pending.
LEMMA WriteHolds ==
  ASSUME LedgerInv, PendingIsOwned, NEW w \in Workers,
         workers[w].pc \in Inside, workers[w].pc # "credit", NEW x,
         \A y \in Refs : ledger'[y] = ledger[y] \/ (y = x /\ ledger'[x].applied)
  PROVE  PendingIsOwned'
<1>1. \A y \in Refs : ~Pending(y)
  BY NonePending
<1>2. \A y \in Refs : ~Pending(y)'
  BY <1>1 DEF Pending
<1> QED BY <1>2 DEF PendingIsOwned

\* No row of the dispute's is written, and nothing moves but back.
LEMMA RefundHolds ==
  ASSUME RowsHold, PendingIsOwned', UNCHANGED <<order, spent>>,
         Net \in Nat, Net' \in Int, Net' <= Net, spent \in Nat,
         NEW x \in Refunds, \A y \in Refs : y # x => ledger'[y] = ledger[y]
  PROVE  RowsHold'
<1>1. /\ ledger'["grant"] = ledger["grant"] /\ ledger'["regrant"] = ledger["regrant"]
      /\ ledger'["dispute"] = ledger["dispute"]
  BY RefIds, IdAssumption
<1>2. ledger'["dispute"].there => Net' <= spent'
  BY <1>1 DEF RowsHold
<1> QED BY <1>1, <1>2 DEF RowsHold

LEMMA DebitMoves ==
  ASSUME IsFiniteSet(Refunds), NetInv, NEW x \in Refs, NEW n \in Nat,
         \/ SetMarker(x) \/ UNCHANGED ledger
         \/ Take(x, n) /\ ledger[x].delta = 0
  PROVE  Net' \in Int /\ Net' <= Net
<1>1. TypeInv /\ Shape /\ Deltaed /\ Net \in Nat
  BY NetFacts
<1>2. CASE SetMarker(x) \/ UNCHANGED ledger
  <2>1. UNCHANGED Net
    BY <1>1, <1>2, MarkerSame, SameLedger, SameSums
  <2> QED BY <1>1, <2>1
<1>3. CASE Take(x, n) /\ ledger[x].delta = 0
  <2>1. PICK t \in 0 .. n : OneDelta(x, -t)
    BY <1>1, <1>3, TakeIsOneDelta
  <2>2. -t \in Int
    OBVIOUS
  <2>3. Net' = Net - 0 + -t
    BY <1>1, <1>3, <2>1, <2>2, OneSum
  <2> QED BY <1>1, <2>3
<1> QED BY <1>2, <1>3

LEMMA TakeBackHolds ==
  ASSUME IsFiniteSet(Refunds), NetInv, BalanceIsTheLedger, Holding,
         NEW w \in Workers, TakeBack(w)
  PROVE  Kept(w)
<1> DEFINE x == workers[w].ref
           amount == workers[w].amount
<1>0. /\ RowsHold /\ TypeInv /\ LedgerInv /\ Shape /\ Deltaed
      /\ Net \in Nat /\ spent \in Nat /\ balance \in Nat
      /\ HoldSuits(w) /\ Suits(w) /\ IsWorker(workers[w])
      /\ workers[w].pc = "debit" /\ UNCHANGED <<order, spent>>
  BY HoldFacts DEF TakeBack, records, history
<1>1. /\ x \in Refs /\ IsRow(ledger[x]) /\ amount \in 0 .. Net
      /\ x \in Refunds \cup {"dispute"} /\ (x = "dispute" => amount = Net)
  BY <1>0 DEF Suits, DebitSuits, HoldSuits, Shape, IsWorker
<1>2. \/ SetMarker(x) /\ amount = 0
      \/ UNCHANGED ledger /\ ledger[x].there
      \/ Take(x, amount) /\ ~ledger[x].there
  BY <1>0, <1>1 DEF TakeBack, Debit, money
<1>3. ~ledger[x].there => ledger[x].delta = 0
  BY <1>1 DEF IsRow
<1>4. /\ PendingIsOwned'
      /\ \A y \in Refs : y # x => ledger'[y] = ledger[y]
  <2> HIDE DEF x, amount
  <2>1. \A y \in Refs : ledger'[y] = ledger[y] \/ (y = x /\ ledger'[x].applied)
    BY <1>0, <1>1, <1>2, DebitSettles
  <2>2. PendingIsOwned
    BY <1>0 DEF RowsHold
  <2> QED BY <1>0, <2>1, <2>2, WriteHolds DEF Inside, Pcs
<1>5. workers'[w].pc \in {"unlock", "status"}
  BY <1>0, StepIs DEF TakeBack
<1>6. Net' \in Int /\ Net' <= Net
  <2> HIDE DEF x, amount
  <2>1. amount \in Nat
    BY <1>0, <1>1
  <2> QED BY <1>1, <1>2, <1>3, <2>1, DebitMoves
<1>7. CASE x \in Refunds
  <2>1. RowsHold'
    BY <1>0, <1>4, <1>6, <1>7, RefundHolds
  <2> QED BY <1>5, <2>1, WaitsHold DEF Kept
<1>8. CASE x = "dispute"
  <2>1. /\ ledger'["grant"] = ledger["grant"] /\ ledger'["regrant"] = ledger["regrant"]
    BY <1>4, <1>8, RefIds
  <2>2. Net' <= spent
    <3>1. CASE ledger["dispute"].there
      <4>1. Net <= spent
        BY <1>0, <3>1 DEF RowsHold
      <4> QED BY <1>0, <1>6, <4>1
    <3>2. CASE SetMarker(x) /\ amount = 0
      BY <1>0, <1>1, <1>6, <1>8, <3>2
    <3>3. CASE Take(x, amount) /\ ~ledger[x].there
      <4>1. balance >= Net - spent
        <5>1. \A y \in Refs : ~Pending(y)
          BY <1>0, NonePending DEF RowsHold, Inside, Pcs
        <5> QED BY <5>1, BalanceCovers
      <4> DEFINE taken == Least(balance, Net)
      <4>2. taken \in Nat /\ taken >= Net - spent
        BY <1>0, <4>1 DEF Least
      <4>3. OneDelta(x, -taken) /\ ledger[x].delta = 0
        <5> DEFINE row == [there |-> TRUE, delta |-> -taken, applied |-> TRUE]
        <5>1. ledger' = [ledger EXCEPT ![x] = row] /\ row.there /\ row.delta = -taken
          BY <1>1, <1>8, <3>3 DEF Take
        <5> HIDE DEF row, taken
        <5>2. ledger'[x] = row
          BY <1>0, <1>1, <5>1 DEF Shape
        <5> QED BY <1>3, <1>4, <3>3, <5>1, <5>2 DEF OneDelta
      <4> HIDE DEF taken
      <4>4. -taken \in Int
        BY <4>2
      <4>5. Net' = Net - 0 + -taken
        BY <1>0, <1>1, <4>3, <4>4, OneSum
      <4> QED BY <1>0, <4>2, <4>5
    <3> QED BY <1>2, <1>8, <3>1, <3>2, <3>3
  <2>3. RowsHold'
    BY <1>0, <1>4, <2>1, <2>2 DEF RowsHold
  <2> QED BY <1>5, <2>3, WaitsHold DEF Kept
<1> QED BY <1>1, <1>7, <1>8

LEMMA SettleHolds ==
  ASSUME IsFiniteSet(Refunds), NetInv, Holding,
         NEW w \in Workers, NEW r \in Refunds, Settle(w, r)
  PROVE  Kept(w)
<1> DEFINE done == workers[w].done \cup {r}
           share == Monus(Target(done), Target(workers[w].done))
           next == [workers[w] EXCEPT !.todo = @ \ {r}, !.done = done]
<1>0. /\ RowsHold /\ TypeInv /\ LedgerInv /\ Shape /\ TypeOK
      /\ Net \in Nat /\ spent \in Nat /\ r \in Refs /\ WorkerFits(w)
      /\ HoldSuits(w) /\ IsWorker(workers[w]) /\ IsRow(ledger[r])
      /\ workers[w].pc = "settle" /\ UNCHANGED <<order, spent>> /\ r \in workers[w].todo
  BY HoldFacts, NetFacts, RefIds DEF Settle, records, history, Shape
<1>1. share \in Nat
  <2>1. workers[w].done \in SUBSET Succeeded /\ done \in SUBSET Succeeded
    BY <1>0 DEF WorkerFits
  <2>2. Target(done) \in Int /\ Target(workers[w].done) \in Int
    BY <1>0, <2>1, TargetRange
  <2> QED BY <2>2 DEF Monus
<1>2. \/ SetMarker(r) \/ UNCHANGED ledger
      \/ Take(r, share) /\ ledger[r].delta = 0
  <2> HIDE DEF share
  <2>1. DebitOverMarker(r, share) \/ SetMarker(r)
    BY DEF Settle, share
  <2> QED BY <1>0, <2>1 DEF DebitOverMarker, money, IsRow
<1>3. workers'[w] = next
  BY <1>0, PutIs DEF Settle
<1>4. workers'[w].pc = "settle" /\ workers'[w].event = workers[w].event
  BY <1>0, <1>3 DEF IsWorker
<1>5. HoldSuits(w)'
  BY <1>0, <1>4 DEF HoldSuits
<1>6. Net' \in Int /\ Net' <= Net
  <2> HIDE DEF share
  <2> QED BY <1>0, <1>1, <1>2, DebitMoves
<1>7. \A y \in Refs : ledger'[y] = ledger[y] \/ (y = r /\ ledger'[r].applied)
  <2> HIDE DEF share
  <2> QED BY <1>0, <1>2, DebitSettles
<1>8. PendingIsOwned'
  <2>1. PendingIsOwned
    BY <1>0 DEF RowsHold
  <2> QED BY <1>0, <1>7, <2>1, WriteHolds DEF Inside, Pcs
<1>9. RowsHold'
  BY <1>0, <1>6, <1>7, <1>8, RefundHolds
<1> QED BY <1>4, <1>5, <1>9 DEF Kept

LEMMA InsertHolds ==
  ASSUME IsFiniteSet(Refunds), NetInv, Holding, NEW w \in Workers, Insert(w)
  PROVE  Kept(w)
<1> DEFINE x == workers[w].ref
           row == [there |-> TRUE, delta |-> workers[w].amount, applied |-> FALSE]
<1>0. /\ RowsHold /\ LedgerInv /\ Shape /\ HoldSuits(w) /\ LinkedFirst
      /\ workers[w].pc = "insert" /\ UNCHANGED <<order, spent>>
  BY HoldFacts DEF Insert, records, history, Holding
<1>1. /\ x = "grant" /\ x \in Refs /\ workers[w].event = Payment
      /\ ~ledger["dispute"].there /\ order.linked
  BY <1>0, RefIds DEF HoldSuits, LinkedFirst
<1>2. CASE ledger[x].there
  <2>1. UNCHANGED ledger /\ Step(w, "unlock")
    BY <1>1, <1>2 DEF Insert
  <2>2. workers'[w].pc = "unlock"
    BY <1>0, <2>1, StepIs
  <2>3. PendingIsOwned'
    BY <1>0, <2>1, WriteHolds DEF RowsHold, Inside, Pcs
  <2>4. RowsHold'
    BY <1>0, <1>1, <2>1, <2>3 DEF RowsHold
  <2> QED BY <2>2, <2>4, WaitsHold DEF Kept
<1>3. CASE ~ledger[x].there
  <2>1. ledger' = [ledger EXCEPT ![x] = row] /\ Step(w, "credit")
    BY <1>3 DEF Insert
  <2> HIDE DEF row
  <2>2. \A y \in Refs : y # x => ledger'[y] = ledger[y]
    BY <1>0, <2>1 DEF Shape
  <2>3. /\ workers'[w].pc = "credit" /\ workers'[w].ref = x
        /\ workers'[w].event = Payment
    BY <1>0, <1>1, <2>1, StepIs
  <2>4. HoldSuits(w)'
    BY <2>3 DEF HoldSuits
  <2>5. PendingIsOwned'
    <3> SUFFICES ASSUME NEW y \in Refs, Pending(y)' PROVE y = x
      BY <2>3 DEF PendingIsOwned
    <3>1. ~Pending(y)
      BY <1>0, NonePending DEF RowsHold, Inside, Pcs
    <3> QED BY <2>2, <3>1 DEF Pending
  <2>6. /\ ledger'["dispute"] = ledger["dispute"]
        /\ ledger'["regrant"] = ledger["regrant"]
    BY <1>1, <2>2, RefIds
  <2>7. RowsHold'
    BY <1>0, <1>1, <2>5, <2>6 DEF RowsHold
  <2> QED BY <2>3, <2>4, <2>7 DEF Kept
<1> QED BY <1>2, <1>3

LEMMA CreditHolds ==
  ASSUME IsFiniteSet(Refunds), NetInv, Holding, NEW w \in Workers, Credit(w)
  PROVE  Kept(w)
<1> DEFINE x == workers[w].ref
           row == [ledger[x] EXCEPT !.applied = TRUE]
           r == [workers[w] EXCEPT !.pc = "settle", !.todo = Succeeded]
<1>0. /\ RowsHold /\ LedgerInv /\ Shape /\ Deltaed /\ HoldSuits(w)
      /\ IsWorker(workers[w]) /\ x \in Refs /\ IsRow(ledger[x])
      /\ workers[w].pc = "credit" /\ UNCHANGED <<order, spent>>
  BY HoldFacts DEF Credit, records, history, Shape, IsWorker
<1>1. ledger' = [ledger EXCEPT ![x] = row]
  BY DEF Credit
<1>2. row.applied /\ row.there = ledger[x].there /\ row.delta = ledger[x].delta
  BY <1>0 DEF IsRow
<1>3. /\ ledger'[x] = row
      /\ \A y \in Refs : y # x => ledger'[y] = ledger[y]
  <2> HIDE DEF row, x
  <2> QED BY <1>0, <1>1 DEF Shape
<1>4. PendingIsOwned'
  <2> SUFFICES ASSUME NEW y \in Refs, Pending(y)' PROVE FALSE
    BY DEF PendingIsOwned
  <2>1. y # x
    BY <1>2, <1>3 DEF Pending
  <2>2. Pending(y)
    BY <1>3, <2>1 DEF Pending
  <2> QED BY <1>0, <2>1, <2>2, NonePending DEF RowsHold, Inside, Pcs
<1>5. /\ \A y \in Refs : ledger'[y].there = ledger[y].there
      /\ SameDeltas
  <2> HIDE DEF row, x
  <2> QED BY <1>2, <1>3 DEF SameDeltas
<1>6. UNCHANGED Net
  BY <1>0, <1>5, SameSums
<1>7. RowsHold'
  BY <1>0, <1>4, <1>5, <1>6, RefIds DEF RowsHold
<1>8. CASE Step(w, "unlock") \/ Step(w, "status")
  BY <1>0, <1>7, <1>8, StepIs, WaitsHold DEF Kept
<1>9. CASE Put(w, r) /\ workers[w].event.type # "repair"
  <2>1. workers'[w] = r /\ workers[w].event = Payment
    BY <1>0, <1>9, PutIs DEF HoldSuits
  <2>2. workers'[w].pc = "settle" /\ workers'[w].event = Payment
    BY <1>0, <2>1 DEF IsWorker
  <2> QED BY <1>7, <2>2 DEF Kept, HoldSuits
<1> QED BY <1>8, <1>9 DEF Credit

LEMMA SettledHolds ==
  ASSUME IsFiniteSet(Refunds), NetInv, Holding, NEW w \in Workers, Settled(w)
  PROVE  Kept(w)
<1> DEFINE s == NetStatus(Target(workers[w].done))
           next == [workers[w] EXCEPT !.pc = "status", !.status = s]
<1>0. /\ RowsHold /\ LedgerInv /\ Shape /\ HoldSuits(w) /\ IsWorker(workers[w])
      /\ workers[w].pc = "settle" /\ UNCHANGED <<order, spent>>
  BY HoldFacts DEF Settled, records, history
<1>1. UNCHANGED ledger
  BY <1>0 DEF Settled, HoldSuits, money
<1>2. workers'[w] = next
  BY <1>0, PutIs DEF Settled
<1>3. workers'[w].pc = "status"
  BY <1>0, <1>2 DEF IsWorker
<1>4. PendingIsOwned'
  BY <1>0, <1>1, WriteHolds DEF RowsHold, Inside, Pcs
<1>5. UNCHANGED Net
  BY <1>1 DEF Net, Moved, Deltas
<1>6. RowsHold'
  BY <1>0, <1>1, <1>4, <1>5 DEF RowsHold
<1> QED BY <1>3, <1>6, WaitsHold DEF Kept

LEMMA IndoorsKeep ==
  ASSUME IsFiniteSet(Refunds), NetInv, BalanceIsTheLedger, Contested, Holding,
         NEW w \in Workers, Sent(w), Indoors(w), order.linked => order'.linked
  PROVE  Kept(w)
<1>1. CASE \/ PaymentOpen(w) \/ RefundOpen(w) \/ DisputeOpen(w) \/ WonOpen(w)
           \/ Restore(w) \/ RepairOpen(w) \/ WriteStatus(w)
  <2>1. /\ HoldSuits(w)' /\ UNCHANGED ledger
        /\ workers'[w].pc = "insert" => order'.linked
    BY <1>1, OpensHold
  <2>2. /\ workers[w].pc \in Inside /\ workers[w].pc # "credit" /\ UNCHANGED spent
    BY <1>1 DEF PaymentOpen, RefundOpen, DisputeOpen, WonOpen, Restore, RepairOpen,
                WriteStatus, Runs, history, Inside, Pcs
  <2>3. RowsHold /\ LedgerInv
    BY HoldFacts
  <2>4. PendingIsOwned'
    BY <2>1, <2>2, <2>3, WriteHolds DEF RowsHold
  <2>5. UNCHANGED Net
    BY <2>1 DEF Net, Moved, Deltas
  <2>6. RowsHold'
    BY <2>1, <2>2, <2>3, <2>4, <2>5 DEF RowsHold
  <2> QED BY <2>1, <2>6 DEF Kept
<1>2. CASE Insert(w) \/ Credit(w) \/ (\E r \in Refunds : Settle(w, r))
           \/ Settled(w) \/ TakeBack(w)
  BY <1>2, InsertHolds, CreditHolds, SettleHolds, SettledHolds, TakeBackHolds
<1> QED BY <1>1, <1>2 DEF Indoors, InTheLock

\* A step of nobody in the lock leaves what is pending to its owner.
LEMMA OwnersStay ==
  ASSUME PendingIsOwned, UNCHANGED ledger,
         \A v \in Workers : workers[v].pc = "credit" => workers'[v] = workers[v]
  PROVE  PendingIsOwned'
  BY DEF PendingIsOwned, Pending

LEMMA ContestedBefore ==
  ASSUME Shape, Book, [Next]_vars, Contested'
  PROVE  Contested /\ \A w \in Workers : ~Dies(w)
<1>1. news \subseteq news'
  BY NewsGrow
<1>2. crashes' = 0 => crashes = 0 /\ \A w \in Workers : ~Dies(w)
  <2>1. \A w \in Workers : Dies(w) => crashes' # 0
    BY DEF Dies, Book
  <2>2. ASSUME crashes # 0, \A w \in Workers : ~Dies(w) PROVE UNCHANGED crashes
    <3>1. Environment \/ UNCHANGED vars => UNCHANGED crashes
      BY DEF Environment, IssueRefund, IssueDispute, Spend, vars, history
    <3>2. ASSUME NEW w \in Workers, Works(w) PROVE UNCHANGED crashes
      <4>1. Outdoors(w) => UNCHANGED crashes
        BY DEF Outdoors, Deliver, DeliverAttempt, JobMarks, Stamp, JobRepairs,
               RecordRefund, GiveUp, history
      <4>2. Acquire(w) \/ Release(w) => UNCHANGED crashes
        BY DEF Acquire, Release, history
      <4>3. Indoors(w) => UNCHANGED crashes
        BY DEF Indoors, InTheLock, PaymentOpen, RefundOpen, DisputeOpen, WonOpen,
               RepairOpen, Restore, Insert, Credit, Settle, Settled, TakeBack,
               WriteStatus, history
      <4> QED BY <2>2, <3>2, <4>1, <4>2, <4>3, WorkSplits
    <3> QED BY <3>1, <3>2 DEF Next
  <2> QED BY <2>1, <2>2
<1> QED BY <1>1, <1>2 DEF Contested

LEMMA HoldingNext ==
  ASSUME IsFiniteSet(Refunds), ~SlowHolders, HoldInv, [Next]_vars, Contested'
  PROVE  Holding'
<1>1. /\ NetInv /\ BalanceIsTheLedger /\ Shape /\ Book /\ LedgerInv
      /\ \A w \in Workers : Sent(w)
  BY NetFacts, TypeParts DEF HoldInv
<1>2. news \subseteq news' /\ (order.linked => order'.linked)
  BY <1>1, NewsGrow
<1>4. Contested /\ \A w \in Workers : ~Dies(w)
  BY <1>1, ContestedBefore
<1>5. /\ Holding /\ RowsHold /\ Net \in Nat /\ spent \in Nat
      /\ \A w \in Workers : HoldSuits(w)
  BY <1>1, <1>4, HoldFacts DEF HoldInv
<1>6. ASSUME UNCHANGED ledger, spent' >= spent, spent' \in Nat,
             \A v \in Workers :
               \/ workers'[v] = workers[v]
               \/ /\ workers[v].pc # "credit"
                  /\ workers'[v].pc \notin
                       {"restore", "insert", "settle", "credit", "debit"}
      PROVE  Holding'
  <2>1. UNCHANGED Net
    BY <1>6 DEF Net, Moved, Deltas
  <2>2. PendingIsOwned'
    BY <1>5, <1>6, OwnersStay DEF RowsHold
  <2>3. \A v \in Workers : HoldSuits(v)'
    BY <1>5, <1>6, StaysHold, WaitsHold
  <2>4. LinkedFirst'
    BY <1>2, <1>5, <1>6 DEF Holding, LinkedFirst
  <2>5. ledger'["dispute"].there => Net' <= spent'
    BY <1>5, <1>6, <2>1 DEF RowsHold
  <2>6. ~ledger'["regrant"].there
    BY <1>5, <1>6 DEF RowsHold
  <2> QED BY <2>2, <2>3, <2>4, <2>5, <2>6 DEF Holding
<1>7. CASE Environment \/ UNCHANGED vars
  <2>1. UNCHANGED <<workers, ledger>>
    BY <1>1, <1>7, EnvironmentShape DEF vars, money
  <2>2. spent' \in {spent, spent + 1}
    BY <1>7 DEF Environment, IssueRefund, IssueDispute, Spend, vars, history
  <2>3. spent' >= spent /\ spent' \in Nat
    BY <1>5, <2>2
  <2> QED BY <1>6, <2>1, <2>3
<1>8. ASSUME NEW w \in Workers, Outdoors(w) \/ Acquire(w) \/ Release(w)
      PROVE  Holding'
  <2>1. /\ UNCHANGED ledger /\ \A v \in Workers : v # w => workers'[v] = workers[v]
        /\ workers'[w].pc \notin Inside \/ workers'[w].pc = "open"
    BY <1>1, <1>8, OutdoorsShape, AcquireShape, LeaveShape DEF Outside
  <2>2. workers'[w].pc \notin {"restore", "insert", "settle", "credit", "debit"}
    BY <2>1 DEF Inside, Pcs
  <2>3. UNCHANGED spent /\ workers[w].pc # "credit"
    <3>1. Acquire(w) \/ Release(w) => UNCHANGED spent /\ workers[w].pc # "credit"
      BY DEF Acquire, Release, history
    <3>2. Outdoors(w) => UNCHANGED spent /\ workers[w].pc # "credit"
      BY DEF Outdoors, Deliver, DeliverAttempt, JobMarks, Stamp, JobRepairs,
             RecordRefund, GiveUp, history
    <3> QED BY <1>8, <3>1, <3>2
  <2> QED BY <1>5, <1>6, <2>1, <2>2, <2>3
<1>9. ASSUME NEW w \in Workers, Indoors(w) PROVE Holding'
  <2>1. Kept(w)
    BY <1>1, <1>2, <1>4, <1>5, <1>9, IndoorsKeep
  <2>2. \A v \in Workers : v # w => workers'[v] = workers[v] /\ workers[v].pc \notin Inside
    BY <1>1, <1>9, IndoorsShape DEF Forward, LedgerInv, LockIsOwned
  <2>3. \A v \in Workers : v # w =>
          workers'[v].pc \notin {"restore", "insert", "settle", "credit", "debit"}
    BY <2>2 DEF Inside, Pcs
  <2>4. \A v \in Workers : HoldSuits(v)'
    BY <2>1, <2>3, WaitsHold DEF Kept
  <2>5. LinkedFirst'
    BY <2>1, <2>3 DEF Kept, RowsHold, LinkedFirst
  <2> QED BY <2>1, <2>4, <2>5 DEF Kept, RowsHold, Holding
<1> QED BY <1>4, <1>7, <1>8, <1>9, WorkSplits DEF Next

LEMMA HoldNext ==
  IsFiniteSet(Refunds) /\ ~SlowHolders /\ HoldInv /\ [Next]_vars => HoldInv'
<1> SUFFICES ASSUME IsFiniteSet(Refunds), ~SlowHolders, HoldInv, [Next]_vars
             PROVE  HoldInv'
  OBVIOUS
<1>1. NetInv /\ BalanceInv /\ Shape /\ Book
  BY NetFacts, TypeParts DEF HoldInv, BalanceInv
<1>2. NetInv' /\ BalanceIsTheLedger'
  BY <1>1, NetNext, BalanceNext DEF BalanceInv
<1>3. Chain' /\ \A w \in Workers : Sent(w)'
  BY <1>1, ChainNext, SentNext DEF HoldInv
<1>4. Contested' => Holding'
  BY HoldingNext
<1> QED BY <1>2, <1>3, <1>4 DEF HoldInv

LEMMA HoldInit == Init /\ IsFiniteSet(Refunds) => HoldInv
<1> SUFFICES ASSUME Init, IsFiniteSet(Refunds) PROVE HoldInv
  OBVIOUS
<1>1. NetInv /\ BalanceIsTheLedger
  BY NetInit, BalanceInit DEF BalanceInv
<1>2. \A w \in Workers : workers[w] = Idle
  BY DEF Init
<1>3. \A w \in Workers : Sent(w)
  BY <1>2 DEF Sent, Idle
<1>4. \A x \in Refs : ~ledger[x].there
  BY DEF Init, NoRow
<1>5. Chain
  <2>1. \A e \in news : e.id = "payment"
    BY DEF Init, Payment, Attempt, Signal
  <2>2. \A d \in Disputes : Seen(d) = {}
    BY <2>1, IdAssumption DEF Seen
  <2> QED BY <2>2 DEF Chain
<1>6. Holding
  <2>1. LinkedFirst /\ PendingIsOwned
    BY <1>2, <1>4, RefIds DEF LinkedFirst, PendingIsOwned, Pending, Idle
  <2>2. \A w \in Workers : HoldSuits(w)
    BY <1>2 DEF HoldSuits, Idle
  <2> QED BY <1>4, <2>1, <2>2, RefIds DEF Holding
<1> QED BY <1>1, <1>3, <1>5, <1>6 DEF HoldInv

\* While the dispute is open or lost, and once every delivery is in and the job
\* has nothing to do, the account holds no more of the pack than it has spent on
\* moves: in whatever order grant, dispute, refunds and moves came, and for any
\* number of invocations and refunds.  It says nothing before that, nor of a
\* payment of which an invocation died.  It rests on
\* holders that finish before their lock is stolen, on
\* one dispute of the payment (all disputes share one row of the ledger, so
\* the second takes nothing), and on no dispute.challenged, which is recorded
\* and takes nothing.
THEOREM DisputedIsHeldEver ==
  ASSUME IsFiniteSet(Refunds), ~SlowHolders,
         \A c, d \in Disputes : c = d, "challenged" \notin DisputeStatuses
  PROVE  Spec => []DisputedIsHeld
<1>1. ASSUME HoldInv, Quiet, crashes = 0, InDispute PROVE Moved(Refs) <= spent
  <2>1. PICK d \in Disputes : Upstream(d) \in Revokes \cup {"challenged"}
    BY <1>1 DEF InDispute
  <2>2. Seen(d) # {}
    BY <2>1 DEF Upstream, Seen, Revokes
  <2>3. PICK s \in Seen(d) : Latest(d, s)
    BY <1>1, <2>2 DEF HoldInv, Chain
  <2>4. /\ Upstream(d) = s /\ s \in DisputeEvents /\ s \in Revokes
        /\ ledger["dispute"].there
    <3>1. Upstream(d) = s /\ s \in DisputeEvents \cap DisputeStatuses
      BY <1>1, <2>3, UpstreamIs DEF HoldInv
    <3> QED BY <1>1, <2>1, <3>1 DEF Quiet
  <2>5. Contested
    <3> SUFFICES ASSUME NEW e \in news, e.type \in Restores PROVE FALSE
      BY <1>1 DEF Contested
    <3>1. e \in Event /\ e.type \in DisputeEvents
      BY <1>1, NetFacts DEF HoldInv, Shape, DisputeEvents
    <3>2. e.id = d
      BY <3>1, EventTypes
    <3>3. e.type \in Seen(d) /\ e.type # s
      BY <2>4, <3>2 DEF Seen, Revokes, Restores
    <3>4. Rank(e.type) < Rank(s)
      BY <2>3, <3>3 DEF Latest
    <3>5. Rank(e.type) = 3 /\ Rank(s) \in 0 .. 3
      BY <2>4, <3>1, LaterRanks
    <3> QED BY <3>4, <3>5
  <2> QED BY <1>1, <2>4, <2>5 DEF HoldInv, Holding, Net
<1>2. HoldInv => DisputedIsHeld
  BY <1>1 DEF DisputedIsHeld
<1> QED BY <1>2, HoldInit, HoldNext, PTL DEF Spec

-----------------------------------------------------------------------------
(* What refunds take does not depend on the order of the news.              *)

\* Rows are never deleted, and each comes from who was about to write it.
MayAdd(w, x) ==
  \/ workers[w].pc \in {"insert", "debit"} /\ x = workers[w].ref
  \/ workers[w].pc = "settle" /\ (x \in workers[w].todo \/ workers[w].event # Payment)
OnlyAdds(w) ==
  \A x \in Refs : /\ ledger[x].there => ledger'[x].there
                  /\ ledger'[x].there => ledger[x].there \/ MayAdd(w, x)

LEMMA RowsCome ==
  ASSUME Shape, NEW w \in Workers, Indoors(w)
  PROVE  OnlyAdds(w)
<1>1. ASSUME NEW x \in Refs, NEW row, row.there, ledger' = [ledger EXCEPT ![x] = row],
             ledger[x].there \/ MayAdd(w, x)
      PROVE  OnlyAdds(w)
  BY <1>1 DEF Shape, OnlyAdds
<1>2. ASSUME NEW x \in Refs, SetMarker(x), MayAdd(w, x)
      PROVE  OnlyAdds(w)
  BY <1>1, <1>2 DEF SetMarker, Marker, OnlyAdds
<1>3. ASSUME NEW x \in Refs, NEW n, Debit(x, n) \/ DebitOverMarker(x, n), MayAdd(w, x)
      PROVE  OnlyAdds(w)
  <2> DEFINE row == [there |-> TRUE, delta |-> -Least(balance, n), applied |-> TRUE]
  <2>1. UNCHANGED ledger \/ ledger' = [ledger EXCEPT ![x] = row]
    BY <1>3 DEF Debit, DebitOverMarker, Take, money
  <2>2. row.there
    OBVIOUS
  <2> HIDE DEF row
  <2> QED BY <1>1, <1>3, <2>1, <2>2 DEF OnlyAdds
<1>4. /\ workers[w].ref \in Refs /\ "regrant" \in Refs /\ Refunds \subseteq Refs
      /\ \A x \in Refs : IsRow(ledger[x])
  BY RefIds DEF Shape, IsWorker
<1>5. CASE \/ PaymentOpen(w) \/ RefundOpen(w) \/ DisputeOpen(w) \/ WonOpen(w)
           \/ Restore(w) \/ RepairOpen(w) \/ WriteStatus(w)
  BY <1>5 DEF PaymentOpen, RefundOpen, DisputeOpen, WonOpen, Restore, RepairOpen,
              WriteStatus, money, OnlyAdds
<1>6. CASE Insert(w)
  <2> DEFINE x == workers[w].ref
             row == [there |-> TRUE, delta |-> workers[w].amount, applied |-> FALSE]
  <2>1. UNCHANGED ledger \/ ledger' = [ledger EXCEPT ![x] = row]
    BY <1>6 DEF Insert
  <2>2. row.there /\ MayAdd(w, x)
    BY <1>6 DEF Insert, MayAdd
  <2> HIDE DEF row
  <2> QED BY <1>1, <1>4, <2>1, <2>2 DEF OnlyAdds
<1>7. CASE Credit(w)
  <2> DEFINE x == workers[w].ref
             row == [ledger[x] EXCEPT !.applied = TRUE]
  <2>1. ledger' = [ledger EXCEPT ![x] = row] /\ row.there = ledger[x].there
    BY <1>4, <1>7 DEF Credit, IsRow
  <2> HIDE DEF row, x
  <2>2. x \in Refs
    BY <1>4 DEF x
  <2> QED BY <2>1, <2>2 DEF Shape, OnlyAdds
<1>8. ASSUME NEW r \in Refunds, Settle(w, r) PROVE OnlyAdds(w)
  <2>1. MayAdd(w, r)
    BY <1>8 DEF Settle, MayAdd
  <2> QED BY <1>2, <1>3, <1>4, <1>8, <2>1 DEF Settle
<1>9. CASE Settled(w)
  <2>1. UNCHANGED ledger \/ (SetMarker("regrant") /\ MayAdd(w, "regrant"))
    BY <1>9 DEF Settled, money, MayAdd
  <2> QED BY <1>2, <1>4, <2>1 DEF OnlyAdds
<1>10. CASE TakeBack(w)
  <2>1. MayAdd(w, workers[w].ref)
    BY <1>10 DEF TakeBack, MayAdd
  <2> QED BY <1>2, <1>3, <1>4, <1>10, <2>1 DEF TakeBack
<1> QED BY <1>5, <1>6, <1>7, <1>8, <1>9, <1>10 DEF Indoors, InTheLock

\* What a step of anybody leaves.
LEMMA WorldStays ==
  ASSUME Shape, Book, [Next]_vars
  PROVE  /\ sound' = sound
         /\ \A x \in Refs : ledger[x].there => ledger'[x].there
         /\ spent' >= spent
<1>1. Environment \/ UNCHANGED vars =>
        sound' = sound /\ UNCHANGED ledger /\ spent' >= spent
  <2>1. Environment \/ UNCHANGED vars =>
          UNCHANGED <<sound, ledger>> /\ spent' \in {spent, spent + 1}
    BY DEF Environment, IssueRefund, IssueDispute, Spend, vars, world, money, history
  <2> QED BY <2>1 DEF Book
<1>2. ASSUME NEW w \in Workers, Works(w)
      PROVE  sound' = sound /\ spent' = spent
             /\ \A x \in Refs : ledger[x].there => ledger'[x].there
  <2>1. CASE Outdoors(w)
    <3>1. UNCHANGED <<sound, spent>>
      BY <2>1 DEF Outdoors, Deliver, DeliverAttempt, JobMarks, Stamp, JobRepairs,
                  RecordRefund, GiveUp, world, history
    <3> QED BY <2>1, <3>1, OutdoorsShape
  <2>2. CASE Acquire(w) \/ Release(w) \/ Dies(w)
    BY <2>2 DEF Acquire, Release, Dies, world, money, history
  <2>3. CASE Indoors(w)
    <3>1. UNCHANGED <<sound, spent>>
      BY <2>3 DEF Indoors, InTheLock, PaymentOpen, RefundOpen, DisputeOpen, WonOpen,
                  RepairOpen, Restore, Insert, Credit, Settle, Settled, TakeBack,
                  WriteStatus, world, history
    <3> QED BY <2>3, <3>1, RowsCome DEF OnlyAdds
  <2> QED BY <1>2, <2>1, <2>2, <2>3, WorkSplits
<1>3. spent \in Nat
  BY DEF Book
<1> QED BY <1>1, <1>2, <1>3 DEF Next

LEMMA EvenFacts ==
  ASSUME IsFiniteSet(Refunds), HoldInv, Contested
  PROVE  /\ NetInv /\ Holding /\ RowsHold /\ TypeInv /\ LedgerInv /\ Shape /\ Book
         /\ TypeOK /\ Deltaed /\ BalanceIsTheLedger /\ NetCore
         /\ Outstanding = Net /\ Net \in Nat /\ Net <= Pack /\ Pack \in Nat \ {0}
         /\ \A w \in Workers : /\ HoldSuits(w) /\ Suits(w) /\ Sent(w)
                               /\ IsWorker(workers[w]) /\ WorkerFits(w)
<1>1. NetInv /\ BalanceIsTheLedger /\ Holding /\ \A w \in Workers : Sent(w)
  BY DEF HoldInv
<1>2. /\ TypeInv /\ LedgerInv /\ NetCore /\ Deltaed /\ Shape /\ TypeOK
      /\ Outstanding = Net /\ Net \in Nat /\ Net <= Pack /\ Pack \in Nat \ {0}
      /\ \A w \in Workers : Suits(w) /\ IsWorker(workers[w]) /\ WorkerFits(w)
  BY <1>1, NetFacts
<1>3. RowsHold /\ \A w \in Workers : HoldSuits(w)
  BY <1>1, HoldFacts
<1>4. Book
  BY <1>2, TypeParts
<1> QED BY <1>1, <1>2, <1>3, <1>4

\* Only recordRefund writes a refund.
LEMMA WhoRecords ==
  ASSUME Shape, Book, [Next]_vars
  PROVE  \/ UNCHANGED refunds
         \/ \E w \in Workers : RecordRefund(w) /\ UNCHANGED news
<1>1. Environment \/ UNCHANGED vars => UNCHANGED refunds
  BY DEF Environment, IssueRefund, IssueDispute, Spend, vars, records
<1>2. ASSUME NEW w \in Workers, Works(w)
      PROVE  UNCHANGED refunds \/ (RecordRefund(w) /\ UNCHANGED news)
  <2>1. Outdoors(w) => UNCHANGED refunds \/ (RecordRefund(w) /\ UNCHANGED news)
    BY DEF Outdoors, Deliver, DeliverAttempt, JobMarks, Stamp, JobRepairs,
           RecordRefund, GiveUp, records, world
  <2>2. Acquire(w) \/ Release(w) \/ Dies(w) => UNCHANGED refunds
    BY DEF Acquire, Release, Dies, records
  <2>3. Indoors(w) => UNCHANGED refunds
    BY IndoorsBook
  <2> QED BY <1>2, <2>1, <2>2, <2>3, WorkSplits
<1> QED BY <1>1, <1>2 DEF Next

\* The event of a worker that handles a refund is the provider's.
LEMMA RefundSent ==
  ASSUME Shape, NEW w \in Workers, Sent(w), workers[w].event.type = "refund"
  PROVE  LET e == workers[w].event
         IN e \in news /\ e.id \in Refunds /\ e = Signal("refund", e.id, e.amount)
<1> DEFINE e == workers[w].event
<1>1. e \in Event
  BY DEF Shape, IsWorker
<1>2. e.id \in Refunds /\ e = Signal("refund", e.id, e.amount)
  BY <1>1 DEF Event, Repairs, Payment, Attempt, Mark, Signal, DisputeEvents,
              Revokes, Restores
<1>3. e \in news
  BY DEF Sent, Payment, Mark, Repairs, Signal
<1> QED BY <1>2, <1>3

LEMMA OneAmountNext ==
  ASSUME IsFiniteSet(Refunds), HoldInv, Contested, Reasoned, [Next]_vars
  PROVE  OneAmount'
<1>0. /\ Shape /\ Book /\ OneAmount /\ RefundsGrow /\ news \subseteq news'
      /\ \A w \in Workers : /\ HoldSuits(w) /\ Sent(w) /\ OwnRow(w) /\ WorkerFits(w)
                            /\ IsWorker(workers[w])
  BY EvenFacts, BookNext, NewsGrow DEF Reasoned
<1>1. \A e, f \in news' : e.id \in Refunds /\ e.id = f.id => e.amount = f.amount
  <2>1. ASSUME NEW r \in Refunds, NEW a, NEW t, IssueRefund(r, a, t)
        PROVE  \A e, f \in news' : e.id \in Refunds /\ e.id = f.id => e.amount = f.amount
    <3>1. /\ news' = news \cup {Signal(t, r, a)}
          /\ \A e \in news : e.id = r => e.amount = a
      BY <2>1 DEF IssueRefund
    <3> QED BY <1>0, <3>1 DEF OneAmount, Signal
  <2>2. ASSUME NEW d \in Disputes, NEW s, IssueDispute(d, s)
        PROVE  \A e, f \in news' : e.id \in Refunds /\ e.id = f.id => e.amount = f.amount
    <3>1. news' = news \cup {Signal(s, d, Unknown)} /\ d \notin Refunds
      BY <2>2, IdAssumption DEF IssueDispute
    <3> QED BY <1>0, <3>1 DEF OneAmount, Signal
  <2>3. ASSUME NEW w \in Workers, Works(w) PROVE UNCHANGED news
    BY <1>0, <2>3, WorkSplits, OutdoorsShape, IndoorsShape, AcquireShape, LeaveShape
  <2>4. Spend \/ UNCHANGED vars => UNCHANGED news
    BY DEF Spend, vars, world
  <2> QED BY <1>0, <2>1, <2>2, <2>3, <2>4 DEF Next, Environment, OneAmount
<1>2. ASSUME NEW r \in Refunds, refunds'[r].status = "succeeded"
      PROVE  Signal("refund", r, refunds'[r].amount) \in news'
  <2>1. CASE refunds'[r] = refunds[r]
    BY <1>0, <1>2, <2>1 DEF OneAmount
  <2>2. ASSUME NEW w \in Workers, RecordRefund(w), refunds'[r] # refunds[r]
        PROVE  Signal("refund", r, refunds'[r].amount) \in news'
    <3> DEFINE e == workers[w].event
               row == [status |-> IF e.type = "refund" THEN "succeeded" ELSE "failed",
                       amount |-> e.amount]
    <3>1. refunds' = [refunds EXCEPT ![e.id] = row]
      BY <2>2 DEF RecordRefund
    <3>2. r = e.id /\ refunds'[r] = row
      BY <1>0, <2>2, <3>1 DEF Book
    <3>3. e.type = "refund" /\ refunds'[r].amount = e.amount
      BY <1>2, <3>2
    <3>4. e \in news /\ e = Signal("refund", e.id, e.amount)
      BY <1>0, <3>3, RefundSent
    <3> HIDE DEF e
    <3> QED BY <1>0, <3>2, <3>3, <3>4
  <2> QED BY <1>0, <2>1, <2>2, WhoRecords
<1>3. ASSUME NEW r \in Refunds, ledger'[r].there
      PROVE  refunds'[r].status = "succeeded"
  <2>1. CASE ledger[r].there
    BY <1>0, <2>1 DEF OneAmount, RefundsGrow
  <2>2. CASE UNCHANGED ledger
    BY <1>3, <2>1, <2>2
  <2>3. ASSUME NEW w \in Workers, Indoors(w), ~ledger[r].there
        PROVE  refunds'[r].status = "succeeded"
    <3>1. MayAdd(w, r) /\ UNCHANGED refunds
      BY <1>0, <1>3, <2>3, RowsCome, IndoorsBook, RefIds DEF OnlyAdds
    <3>2. CASE workers[w].pc = "insert" /\ r = workers[w].ref
      BY <1>0, <3>2, IdAssumption DEF HoldSuits
    <3>3. CASE workers[w].pc = "debit" /\ r = workers[w].ref
      <4>1. workers[w].event.type = "refund" /\ r = workers[w].event.id
        BY <1>0, <3>3, IdAssumption DEF OwnRow
      <4> QED BY <1>0, <3>1, <3>3, <4>1 DEF OwnRow
    <3>4. CASE workers[w].pc = "settle" /\ r \in workers[w].todo
      BY <1>0, <3>1, <3>4 DEF WorkerFits, Succeeded
    <3>5. CASE workers[w].pc = "settle" /\ workers[w].event # Payment
      BY <1>0, <3>5 DEF HoldSuits
    <3> QED BY <3>1, <3>2, <3>3, <3>4, <3>5 DEF MayAdd
  <2>4. ASSUME NEW w \in Workers, Works(w), ~Indoors(w) PROVE UNCHANGED ledger
    BY <1>0, <2>4, WorkSplits, OutdoorsShape, AcquireShape, LeaveShape
  <2>5. Environment \/ UNCHANGED vars => UNCHANGED ledger
    BY <1>0, EnvironmentShape DEF vars, money
  <2> QED BY <2>1, <2>2, <2>3, <2>4, <2>5 DEF Next
<1> QED BY <1>1, <1>2, <1>3 DEF OneAmount

LEMMA WhoAdds ==
  ASSUME Shape, [Next]_vars, NEW x \in Refs, ledger'[x].there, ~ledger[x].there
  PROVE  \E w \in Workers : Indoors(w) /\ MayAdd(w, x)
<1>1. ASSUME NEW w \in Workers, Works(w), ~Indoors(w) PROVE UNCHANGED ledger
  BY <1>1, WorkSplits, OutdoorsShape, AcquireShape, LeaveShape
<1>2. Environment \/ UNCHANGED vars => UNCHANGED ledger
  BY EnvironmentShape DEF vars, money
<1>3. ASSUME NEW w \in Workers, Indoors(w) PROVE MayAdd(w, x)
  BY <1>3, RowsCome DEF OnlyAdds
<1> QED BY <1>1, <1>2, <1>3 DEF Next

\* Who answers a refund has written its row.
LEMMA WhoAnswers ==
  ASSUME Shape, Book, [Next]_vars, NEW e \in handled', e \notin handled, e.type = "refund"
  PROVE  \E w \in Workers : (Release(w) \/ Stamp(w)) /\ e = workers[w].event
<1>1. Environment \/ UNCHANGED vars => UNCHANGED handled
  BY DEF Environment, IssueRefund, IssueDispute, Spend, vars, history
<1>2. ASSUME NEW w \in Workers, Works(w)
      PROVE  (Release(w) \/ Stamp(w)) /\ e = workers[w].event
  <2>1. Acquire(w) \/ Dies(w) => UNCHANGED handled
    BY DEF Acquire, Dies, history
  <2>2. Indoors(w) => UNCHANGED handled
    BY DEF Indoors, InTheLock, PaymentOpen, RefundOpen, DisputeOpen, WonOpen,
           RepairOpen, Restore, Insert, Credit, Settle, Settled, TakeBack,
           WriteStatus, history
  <2>3. Release(w) \/ Stamp(w) => e = workers[w].event
    BY DEF Release, Stamp, Answer, Done
  <2>4. ~DeliverAttempt(w)
    <3>1. DeliverAttempt(w) => UNCHANGED handled \/ e = Attempt
      BY DEF DeliverAttempt, Done
    <3> QED BY <3>1 DEF Attempt, Signal
  <2>5. ~RecordRefund(w)
    BY DEF RecordRefund, Answer, Done
  <2>6. (\E f \in news : Deliver(w, f)) \/ JobMarks(w) \/ (\E x \in Refs : JobRepairs(w, x))
          \/ GiveUp(w) => UNCHANGED handled
    BY DEF Deliver, JobMarks, JobRepairs, GiveUp, history
  <2> QED BY <1>2, <2>1, <2>2, <2>3, <2>4, <2>5, <2>6, WorkSplits DEF Outdoors
<1> QED BY <1>1, <1>2 DEF Next

LEMMA FoundedNext ==
  ASSUME IsFiniteSet(Refunds), HoldInv, Contested, Reasoned, [Next]_vars
  PROVE  Founded'
<1>0. /\ Shape /\ Book /\ Founded /\ Keeps /\ news \subseteq news' /\ sound' = sound
      /\ Pack \in Nat \ {0}
      /\ \A x \in Refs : ledger[x].there => ledger'[x].there
      /\ \A w \in Workers : /\ HoldSuits(w) /\ Sent(w) /\ OwnRow(w) /\ WorkerFits(w)
                            /\ IsWorker(workers[w]) /\ Suits(w)
  BY EvenFacts, WorldStays, NewsGrow, ShapeNext DEF Reasoned
<1>1. ASSUME ledger'["grant"].there PROVE sound' /\ ledger'["grant"].delta = Pack
  <2>1. CASE ledger["grant"].there
    BY <1>0, <2>1, RefIds DEF Founded, Keeps
  <2>2. CASE ~ledger["grant"].there
    <3>1. PICK w \in Workers : Indoors(w) /\ MayAdd(w, "grant")
      BY <1>0, <1>1, <2>2, RefIds, WhoAdds
    <3>2. workers[w].pc = "insert" /\ workers[w].ref = "grant"
      BY <1>0, <3>1, IdAssumption DEF MayAdd, Suits, DebitSuits, WorkerFits, Succeeded,
                                      HoldSuits
    <3>3. sound /\ workers[w].amount = Pack
      BY <1>0, <3>2 DEF OwnRow, Suits, InsertSuits
    <3>4. Insert(w)
      BY <3>1, <3>2 DEF Indoors, InTheLock, PaymentOpen, RefundOpen, DisputeOpen,
            WonOpen, RepairOpen, Restore, Credit, Settle, Settled, TakeBack, WriteStatus, Runs
    <3> DEFINE row == [there |-> TRUE, delta |-> workers[w].amount, applied |-> FALSE]
    <3>5. ledger' = [ledger EXCEPT !["grant"] = row] /\ row.delta = Pack
      BY <2>2, <3>2, <3>3, <3>4 DEF Insert
    <3> HIDE DEF row
    <3> QED BY <1>0, <3>3, <3>5, RefIds DEF Shape
  <2> QED BY <2>1, <2>2
<1>2. ASSUME ledger'["dispute"].there PROVE \E e \in news' : e.type \in DisputeEvents
  <2>1. CASE ledger["dispute"].there
    BY <1>0, <2>1 DEF Founded
  <2>2. CASE ~ledger["dispute"].there
    <3>1. PICK w \in Workers : Indoors(w) /\ MayAdd(w, "dispute")
      BY <1>0, <1>2, <2>2, RefIds, WhoAdds
    <3>2. workers[w].pc = "debit" /\ workers[w].ref = "dispute"
      BY <1>0, <3>1, IdAssumption DEF MayAdd, WorkerFits, Succeeded, HoldSuits
    <3>3. workers[w].event \in Event
      BY <1>0 DEF IsWorker
    <3>4. workers[w].event.type \in DisputeEvents
      BY <1>0, <3>2, <3>3, EventIds, IdAssumption DEF OwnRow
    <3>5. workers[w].event \in news
      BY <1>0, <3>3, <3>4, EventTypes DEF Sent
    <3> QED BY <1>0, <3>4, <3>5
  <2> QED BY <2>1, <2>2
<1>3. ASSUME NEW e \in handled', e.type = "refund", e.amount # Foreign
      PROVE  ledger'[e.id].there
  <2>0. e.id \in Refs
    <3>1. e \in Event'
      BY <1>0, BookNext DEF Book
    <3> QED BY <1>3, <3>1, EventIds, RefIds DEF Event, Repairs
  <2>1. CASE e \in handled
    BY <1>0, <1>3, <2>0, <2>1 DEF Founded
  <2>2. CASE e \notin handled
    <3>1. PICK w \in Workers : (Release(w) \/ Stamp(w)) /\ e = workers[w].event
      BY <1>0, <1>3, <2>2, WhoAnswers
    <3>2. workers[w].pc = "unlock"
      BY <1>0, <1>3, <3>1 DEF Release, Stamp, OwnRow
    <3>3. ledger[e.id].there
      BY <1>0, <1>3, <3>1, <3>2 DEF OwnRow
    <3> QED BY <1>0, <2>0, <3>3
  <2> QED BY <2>1, <2>2
<1> QED BY <1>1, <1>2, <1>3 DEF Founded

LEMMA OwnStays ==
  ASSUME Shape, NEW w \in Workers, OwnRow(w), UNCHANGED workers[w],
         sound' = sound, RefundsGrow,
         \A x \in Refs : ledger[x].there => ledger'[x].there
  PROVE  OwnRow(w)'
<1>1. workers[w].event.type = "refund" => workers[w].event.id \in Refunds
  BY EventIds DEF Shape, IsWorker
<1> QED BY <1>1, RefIds DEF OwnRow, RefundsGrow

\* A worker that has nothing to write, of an event that is not a refund.
LEMMA OwnNothing ==
  ASSUME NEW w, workers'[w].pc \notin {"insert", "debit"},
         workers'[w].event.type # "refund"
  PROVE  OwnRow(w)'
  BY DEF OwnRow

LEMMA OwnOutdoors ==
  ASSUME Shape, Book, NEW w \in Workers, OwnRow(w),
         Outdoors(w) \/ Acquire(w) \/ Release(w)
  PROVE  OwnRow(w)'
<1>0. workers[w].event \in Event /\ IsWorker(workers[w])
  BY DEF Shape, IsWorker
<1>1. ASSUME NEW r, Put(w, r), r.pc \notin {"insert", "debit"}, r.event.type # "refund"
      PROVE  OwnRow(w)'
  BY <1>1, PutIs, OwnNothing
<1>2. Idle.pc = "idle" /\ Idle.event.type = "payment"
  BY DEF Idle, Payment, Signal
<1>3. CASE Release(w) \/ Stamp(w) \/ GiveUp(w)
  <2>1. Put(w, Idle)
    BY <1>3 DEF Release, Stamp, GiveUp, Answer
  <2> QED BY <1>1, <1>2, <2>1
<1>4. CASE Acquire(w)
  <2>1. Step(w, "open") /\ workers[w].pc = "lock" /\ UNCHANGED refunds
    BY <1>4 DEF Acquire, records
  <2>2. workers'[w].pc = "open" /\ workers'[w].event = workers[w].event
    BY <2>1, StepIs
  <2> QED BY <2>1, <2>2 DEF OwnRow
<1>5. ASSUME NEW e \in news, Deliver(w, e) PROVE OwnRow(w)'
  <2> DEFINE r == [Idle EXCEPT !.event = e,
                               !.pc = IF e.type \in {"refund", "refund_failed"}
                                      THEN "record" ELSE "lock"]
  <2>1. Put(w, r)
    BY <1>5 DEF Deliver
  <2>2. r.event = e /\ r.pc = IF e.type \in {"refund", "refund_failed"}
                              THEN "record" ELSE "lock"
    BY DEF Idle
  <2> HIDE DEF r
  <2>3. workers'[w] = r
    BY <2>1, PutIs
  <2> QED BY <2>2, <2>3 DEF OwnRow
<1>6. CASE DeliverAttempt(w) \/ JobMarks(w)
  <2> DEFINE a == [Idle EXCEPT !.event = Attempt, !.pc = "stamp", !.status = "failed"]
             m == [Idle EXCEPT !.event = Mark, !.pc = "stamp", !.status = "succeeded"]
  <2>1. UNCHANGED workers \/ Put(w, a) \/ Put(w, m)
    BY <1>6 DEF DeliverAttempt, JobMarks
  <2>2. /\ a.pc = "stamp" /\ a.event.type # "refund"
        /\ m.pc = "stamp" /\ m.event.type # "refund"
    BY DEF Idle, Attempt, Mark, Signal
  <2>3. CASE UNCHANGED workers
    <3>1. UNCHANGED <<sound, refunds, ledger>>
      BY <1>6 DEF DeliverAttempt, JobMarks, world, records, money
    <3> QED BY <2>3, <3>1 DEF OwnRow
  <2> HIDE DEF a, m
  <2> QED BY <1>1, <2>1, <2>2, <2>3
<1>7. ASSUME NEW x \in Refs, JobRepairs(w, x) PROVE OwnRow(w)'
  <2> DEFINE r == [Idle EXCEPT !.event = Signal("repair", x, Unknown), !.ref = x,
                               !.pc = "lock"]
  <2>1. Put(w, r) /\ r.pc = "lock" /\ r.event.type # "refund"
    BY <1>7 DEF JobRepairs, Idle, Signal
  <2> HIDE DEF r
  <2> QED BY <1>1, <2>1
<1>8. CASE RecordRefund(w)
  <2>1. CASE workers[w].event.type # "refund"
    <3>1. Put(w, Idle)
      BY <1>8, <2>1 DEF RecordRefund, Answer
    <3> QED BY <1>1, <1>2, <3>1
  <2>2. CASE workers[w].event.type = "refund"
    <3> DEFINE e == workers[w].event
               row == [status |-> IF e.type = "refund" THEN "succeeded" ELSE "failed",
                       amount |-> e.amount]
    <3>1. Step(w, "lock")
      BY <1>8, <2>2 DEF RecordRefund
    <3>2. workers'[w].pc = "lock" /\ workers'[w].event = workers[w].event
      BY <3>1, StepIs
    <3>3. e.id \in Refunds /\ row.status = "succeeded"
      BY <1>0, <2>2, EventIds
    <3>4. \/ UNCHANGED refunds /\ refunds[e.id].status = "succeeded"
          \/ refunds' = [refunds EXCEPT ![e.id] = row]
      BY <1>8 DEF RecordRefund
    <3> HIDE DEF row, e
    <3>5. refunds'[e.id].status = "succeeded"
      BY <3>3, <3>4 DEF Book
    <3> QED BY <3>2, <3>5 DEF OwnRow, e
  <2> QED BY <2>1, <2>2
<1> QED BY <1>3, <1>4, <1>5, <1>6, <1>7, <1>8 DEF Outdoors

\* A debit leaves a row, if only a marker.
LEMMA TakeBackRow ==
  ASSUME Shape, NEW w \in Workers, TakeBack(w)
  PROVE  ledger'[workers[w].ref].there
<1> DEFINE x == workers[w].ref
           row == [there |-> TRUE, delta |-> -Least(balance, workers[w].amount),
                   applied |-> TRUE]
<1>1. \/ ledger[x].there /\ UNCHANGED ledger
      \/ ledger' = [ledger EXCEPT ![x] = Marker]
      \/ ledger' = [ledger EXCEPT ![x] = row]
  BY DEF TakeBack, Debit, Take, SetMarker, money
<1>2. row.there /\ Marker.there /\ x \in Refs
  BY DEF Marker, Shape, IsWorker
<1> HIDE DEF row, x
<1>3. ledger'[x].there
  BY <1>1, <1>2 DEF Shape
<1> QED BY <1>3 DEF x

LEMMA OwnIndoors ==
  ASSUME IsFiniteSet(Refunds), HoldInv, Contested, Reasoned, NEW w \in Workers, Indoors(w)
  PROVE  OwnRow(w)'
<1> DEFINE e == workers[w].event
<1>0. /\ Shape /\ Book /\ HoldSuits(w) /\ Sent(w) /\ OwnRow(w) /\ IsWorker(workers[w])
      /\ e \in Event
  BY EvenFacts DEF Reasoned, IsWorker
<1>1. /\ workers'[w].event = e /\ workers'[w].pc \in Inside /\ UNCHANGED refunds
      /\ workers[w].pc \in Inside /\ sound' = sound
      /\ \A x \in Refs : ledger[x].there => ledger'[x].there
  <2>1. sound' = sound
    BY DEF Indoors, InTheLock, PaymentOpen, RefundOpen, DisputeOpen, WonOpen,
           RepairOpen, Restore, Insert, Credit, Settle, Settled, TakeBack,
           WriteStatus, world
  <2> QED BY <1>0, <2>1, IndoorsEvent, IndoorsShape, IndoorsBook, RowsCome
          DEF Forward, OnlyAdds
<1>2. e.type = "refund" => refunds'[e.id].status = "succeeded"
  BY <1>0, <1>1 DEF OwnRow, Inside
<1>3. ASSUME workers'[w].pc = "insert" => sound,
             workers'[w].pc = "debit" =>
               \/ e.type = "refund" /\ workers'[w].ref = e.id
               \/ e.type \in DisputeEvents /\ workers'[w].ref = "dispute",
             e.type = "refund" /\ e.amount # Foreign /\ workers'[w].pc \in {"status", "unlock"}
               => ledger'[e.id].there
      PROVE  OwnRow(w)'
  BY <1>1, <1>2, <1>3 DEF OwnRow, Inside, Pcs
<1> HIDE DEF e
<1>4. CASE PaymentOpen(w)
  <2>1. /\ e.type = "payment"
        /\ \/ \E s : Decide(w, "status", "grant", 0, s)
           \/ sound /\ Decide(w, "insert", "grant", Pack, "none")
    BY <1>4 DEF PaymentOpen, Runs, e
  <2>2. workers'[w].pc = "status" \/ (sound /\ workers'[w].pc = "insert")
    BY <1>0, <2>1, DecideIs
  <2> QED BY <1>3, <2>1, <2>2
<1>5. CASE RefundOpen(w)
  <2>1. /\ e.type = "refund"
        /\ \/ e.amount = Foreign /\ Step(w, "unlock")
           \/ \E a, s : Decide(w, "debit", e.id, a, s)
    BY <1>5 DEF RefundOpen, Runs, e
  <2>2. \/ e.amount = Foreign /\ workers'[w].pc = "unlock"
        \/ workers'[w].pc = "debit" /\ workers'[w].ref = e.id
    BY <1>0, <2>1, StepIs, DecideIs
  <2> QED BY <1>3, <2>1, <2>2
<1>6. CASE DisputeOpen(w)
  <2>1. /\ e.type \in DisputeEvents /\ e.type # "refund"
        /\ Step(w, "unlock") \/ \E a, s : Decide(w, "debit", "dispute", a, s)
    BY <1>6 DEF DisputeOpen, Runs, e, DisputeEvents, Revokes, Restores
  <2>2. \/ workers'[w].pc = "unlock"
        \/ workers'[w].pc = "debit" /\ workers'[w].ref = "dispute"
    BY <1>0, <2>1, StepIs, DecideIs
  <2> QED BY <1>3, <2>1, <2>2
<1>7. ~WonOpen(w) /\ ~Restore(w)
  <2>1. WonOpen(w) => e.type \in Restores /\ e.type \in DisputeEvents
    BY DEF WonOpen, Runs, e, DisputeEvents
  <2>2. WonOpen(w) => e \in news
    BY <1>0, <2>1, EventTypes DEF Sent, e
  <2> QED BY <1>0, <2>1, <2>2 DEF Contested, Restore, HoldSuits
<1>8. CASE RepairOpen(w)
  <2>1. e.type = "repair" /\ (Step(w, "credit") \/ Step(w, "unlock"))
    BY <1>8 DEF RepairOpen, Runs, e
  <2>2. workers'[w].pc \in {"credit", "unlock"}
    BY <1>0, <2>1, StepIs
  <2> QED BY <1>3, <2>1, <2>2
<1>9. CASE WriteStatus(w)
  <2>1. workers'[w].pc = "unlock" /\ workers[w].pc = "status" /\ UNCHANGED ledger
    BY <1>0, <1>9, StepIs DEF WriteStatus, money
  <2>2. e.type = "refund" /\ e.amount # Foreign => ledger[e.id].there
    BY <1>0, <2>1 DEF OwnRow, e
  <2> QED BY <1>3, <2>1, <2>2
<1>10. CASE TakeBack(w)
  <2> DEFINE x == workers[w].ref
  <2>1. /\ workers'[w].pc \in {"unlock", "status"}
        /\ workers[w].pc = "debit" /\ x \in Refs
    BY <1>0, <1>10, StepIs DEF TakeBack, IsWorker
  <2>2. ledger'[x].there
    BY <1>0, <1>10, TakeBackRow
  <2>3. e.type = "refund" => x = e.id
    BY <1>0, <2>1 DEF OwnRow, e, DisputeEvents, Revokes, Restores
  <2> QED BY <1>3, <2>1, <2>2, <2>3
<1>11. CASE Insert(w) \/ Credit(w) \/ Settled(w) \/ (\E r \in Refunds : Settle(w, r))
  <2>1. workers[w].pc \in {"insert", "credit", "settle"}
    BY <1>11 DEF Insert, Credit, Settled, Settle
  <2>2. e.type # "refund"
    BY <1>0, <2>1 DEF HoldSuits, e, Payment, Signal
  <2>3. workers'[w].pc \notin {"insert", "debit"}
    <3>1. CASE Insert(w) \/ Credit(w)
      <4> DEFINE r == [workers[w] EXCEPT !.pc = "settle", !.todo = Succeeded]
      <4>1. \/ \E pc \in {"restore", "unlock", "credit", "status"} : Step(w, pc)
            \/ Put(w, r)
        BY <3>1 DEF Insert, Credit
      <4>2. Put(w, r) => workers'[w] = r
        BY <1>0, PutIs
      <4> QED BY <1>0, <4>1, <4>2, StepIs DEF IsWorker
    <3>2. CASE Settled(w)
      <4> DEFINE s == NetStatus(Target(workers[w].done))
                 next == [workers[w] EXCEPT !.pc = "status", !.status = s]
      <4>1. workers'[w] = next
        BY <1>0, <3>2, PutIs DEF Settled
      <4> QED BY <1>0, <4>1 DEF IsWorker
    <3>3. ASSUME NEW r \in Refunds, Settle(w, r) PROVE workers'[w].pc = "settle"
      <4> DEFINE done == workers[w].done \cup {r}
                 next == [workers[w] EXCEPT !.todo = @ \ {r}, !.done = done]
      <4>1. workers'[w] = next /\ workers[w].pc = "settle"
        BY <1>0, <3>3, PutIs DEF Settle
      <4> QED BY <1>0, <4>1 DEF IsWorker
    <3> QED BY <1>11, <3>1, <3>2, <3>3
  <2> QED BY <1>3, <2>2, <2>3
<1> QED BY <1>4, <1>5, <1>6, <1>7, <1>8, <1>9, <1>10, <1>11 DEF Indoors, InTheLock

\* Without the deaths of invocations the reasons stay.
LEMMA ReasonedNext ==
  ASSUME IsFiniteSet(Refunds), HoldInv, Contested, Reasoned, [Next]_vars,
         \A w \in Workers : ~Dies(w)
  PROVE  Reasoned'
<1>1. /\ Shape /\ Book /\ sound' = sound /\ RefundsGrow
      /\ \A x \in Refs : ledger[x].there => ledger'[x].there
      /\ \A w \in Workers : OwnRow(w)
  BY EvenFacts, WorldStays, BookNext DEF Reasoned
<1>2. CASE Environment \/ UNCHANGED vars
  <2>1. UNCHANGED workers
    BY <1>1, <1>2, EnvironmentShape DEF vars
  <2> QED BY <1>1, <2>1, OneAmountNext, FoundedNext, OwnStays DEF Reasoned
<1>3. ASSUME NEW w \in Workers, Works(w) PROVE \A v \in Workers : OwnRow(v)'
  <2>1. \A v \in Workers : v # w => workers'[v] = workers[v]
    BY <1>1, <1>3, WorkSplits, OutdoorsShape, AcquireShape, LeaveShape, IndoorsShape
       DEF Outside, Forward
  <2>2. OwnRow(w)'
    BY <1>1, <1>3, WorkSplits, OwnOutdoors, OwnIndoors
  <2> QED BY <1>1, <2>1, <2>2, OwnStays
<1> QED BY <1>2, <1>3, OneAmountNext, FoundedNext DEF Next, Reasoned

\* The refunds that succeeded cover at most one pack, and any of them no more.
Tops ==
  \A S \in SUBSET Succeeded :
    Target(S) \in 0 .. Pack /\ Target(S) <= Target(Succeeded)

LEMMA TargetTops == ASSUME IsFiniteSet(Refunds), TypeOK PROVE Tops
<1> SUFFICES ASSUME NEW S \in SUBSET Succeeded
             PROVE  Target(S) \in 0 .. Pack /\ Target(S) <= Target(Succeeded)
  BY DEF Tops
<1>1. Succeeded \in SUBSET Succeeded /\ S \in SUBSET Succeeded
  OBVIOUS
<1> QED BY <1>1, TargetRange, TargetGrows

LEMMA TopsLater == ASSUME IsFiniteSet(Refunds) PROVE TypeOK' => Tops'
<1>1. TypeOK => Tops
  BY TargetTops
<1> QED BY <1>1, PTL

\* What the recorded refunds cover grows.
LEMMA TargetLater ==
  ASSUME IsFiniteSet(Refunds), TypeOK, TypeOK', RefundsGrow
  PROVE  /\ Target(Succeeded) \in 0 .. Pack /\ Target(Succeeded)' \in 0 .. Pack
         /\ Target(Succeeded) <= Target(Succeeded)'
<1>1. PICK S : S = Succeeded
  OBVIOUS
<1>2. Target(S)' = Target(S) /\ Target(S) \in 0 .. Pack
  <2>1. S \in SUBSET Succeeded
    BY <1>1
  <2> QED BY <2>1, TargetStays, TargetRange
<1>3. Tops' /\ S \in SUBSET Succeeded'
  BY <1>1, TopsLater DEF RefundsGrow
<1>4. Target(S)' <= Target(Succeeded)'
  BY <1>3 DEF Tops
<1>5. Target(Succeeded)' \in 0 .. Pack
  BY <1>3 DEF Tops
<1> QED BY <1>1, <1>2, <1>4, <1>5

\* Nobody writes in the ledger.
LEMMA ShareStays ==
  ASSUME IsFiniteSet(Refunds), TypeOK, TypeOK', Shape, Deltaed, RefundsGrow, OneAmount,
         UNCHANGED ledger, Shared,
         \A v \in Workers :
           \/ workers'[v] = workers[v] /\ WorkerFits(v)
           \/ /\ workers[v].pc \notin {"credit", "settle"}
              /\ workers'[v].pc \notin {"debit", "credit", "settle"}
  PROVE  Shared'
<1>1. There' = There
  BY DEF There, Succeeded, RefundsGrow, OneAmount
<1>2. Taken' = Taken /\ Taken \in Int
  BY SameLedger, SameSums, NetParts DEF Taken
<1>3. /\ Target(Succeeded) \in Int /\ Target(Succeeded)' \in Int
      /\ Target(Succeeded) <= Target(Succeeded)'
  BY TargetLater, PackAssumption
<1>4. PICK T : T = There
  OBVIOUS
<1>5. T \in SUBSET Succeeded
  BY <1>4 DEF There
<1>6. Even'
  <2> SUFFICES ASSUME ledger'["grant"].there, \A w \in Workers : ~Granting(w)'
               PROVE  Target(There)' <= Taken' /\ Taken' <= Target(Succeeded)'
    BY DEF Even
  <2>1. \A w \in Workers : ~Granting(w)
    BY DEF Granting
  <2>2. Target(T) <= Taken /\ Taken <= Target(Succeeded)
    BY <1>4, <2>1 DEF Shared, Even
  <2>3. Target(There)' = Target(T)'
    BY <1>1, <1>4 DEF Target
  <2>4. Target(T)' = Target(T)
    BY <1>5, TargetStays
  <2> QED BY <1>2, <1>3, <2>2, <2>3, <2>4
<1>7. ASSUME NEW w \in Workers, workers'[w] = workers[w], WorkerFits(w) PROVE ShareSuits(w)'
  <2>1. ASSUME workers[w].pc = "debit", workers[w].ref # "dispute", ledger["grant"].there
        PROVE  /\ workers'[w].ref \in Succeeded'
               /\ Target(There \cup {workers[w].ref})' <= workers'[w].amount + Taken'
               /\ workers'[w].amount + Taken' <= Target(Succeeded)'
    <3> DEFINE U == T \cup {workers[w].ref}
    <3>1. PICK V : V = U
      OBVIOUS
    <3>2. /\ workers[w].ref \in Succeeded
          /\ Target(V) <= workers[w].amount + Taken
          /\ workers[w].amount + Taken <= Target(Succeeded)
          /\ workers[w].amount \in Int
      BY <1>4, <1>7, <2>1, <3>1 DEF Shared, ShareSuits, WorkerFits
    <3>3. V \in SUBSET Succeeded
      BY <1>5, <3>1, <3>2
    <3>4. Target(V)' = Target(V)
      BY <3>3, TargetStays
    <3>5. Target(There \cup {workers[w].ref})' = Target(V)'
      BY <1>1, <1>4, <1>7, <3>1 DEF Target
    <3>6. workers'[w].ref \in Succeeded'
      BY <1>7, <3>2 DEF RefundsGrow
    <3> HIDE DEF U
    <3> QED BY <1>2, <1>3, <1>7, <3>2, <3>4, <3>5, <3>6
  <2>2. ASSUME Granting(w)
        PROVE  /\ Taken' = Target(workers[w].done)'
               /\ workers'[w].done \cap workers'[w].todo = {}
               /\ workers'[w].pc = "settle" => There' \subseteq workers'[w].done \cup workers'[w].todo
    <3>1. PICK D : D = workers[w].done
      OBVIOUS
    <3>2. D \in SUBSET Succeeded
      BY <1>7, <3>1 DEF WorkerFits
    <3>3. Target(D)' = Target(D)
      BY <3>2, TargetStays
    <3>4. Target(workers[w].done)' = Target(D)'
      BY <1>7, <3>1 DEF Target
    <3>5. Taken = Target(D)
      BY <2>2, <3>1 DEF Shared, ShareSuits
    <3> QED BY <1>1, <1>2, <1>7, <2>2, <3>3, <3>4, <3>5 DEF Shared, ShareSuits
  <2>3. Granting(w)' => Granting(w)
    BY <1>7 DEF Granting
  <2> QED BY <1>7, <2>1, <2>2, <2>3 DEF ShareSuits
<1>8. ASSUME NEW w \in Workers, workers'[w].pc \notin {"debit", "credit", "settle"}
      PROVE  ShareSuits(w)'
  BY <1>8 DEF ShareSuits, Granting
<1> QED BY <1>6, <1>7, <1>8 DEF Shared

\* What is left when no dispute took anything.
LEMMA ClearNet ==
  ASSUME IsFiniteSet(Refunds), HoldInv, Contested, Reasoned, Clear
  PROVE  /\ Taken \in Nat /\ RefundRevoked = Taken
         /\ ledger["grant"].there => Net = Pack - Taken
<1>1. /\ Deltaed /\ Signs /\ Shape /\ RowsHold
  BY EvenFacts DEF NetCore
<1>2. Moved(Refunds) \in Int /\ Moved(Refunds) <= 0 /\ RefundRevoked = -Moved(Refunds)
  BY <1>1, NetParts, SignedSums
<1>3. ledger["dispute"].delta = 0 /\ ledger["regrant"].delta = 0
  BY <1>1, RefIds DEF Clear, RowsHold, Shape, IsRow
<1>4. ledger["grant"].there => ledger["grant"].delta = Pack
  BY DEF Reasoned, Founded
<1> QED BY <1>1, <1>2, <1>3, <1>4, NetParts, PackAssumption DEF Taken

\* Who works in the lock is alone.
LEMMA Alone ==
  ASSUME Shape, LedgerInv, NEW w \in Workers, Indoors(w)
  PROVE  \A v \in Workers : v # w =>
           /\ workers'[v] = workers[v]
           /\ ~Granting(v) /\ ~Granting(v)' /\ ShareSuits(v)'
<1>1. lock = w /\ \A v \in Workers : v # w => workers'[v] = workers[v]
  BY IndoorsShape DEF Forward, LedgerInv, LockIsOwned
<1>2. \A v \in Workers : v # w => workers[v].pc \notin {"debit", "credit", "settle"}
  BY <1>1 DEF LedgerInv, LockIsOwned, Inside, Pcs
<1> QED BY <1>1, <1>2 DEF Granting, ShareSuits

\* A refund in the lock has been recorded, and it counts.
LEMMA RefundCounts ==
  ASSUME IsFiniteSet(Refunds), HoldInv, Contested, Reasoned, NEW w \in Workers,
         workers[w].pc \in Inside, workers[w].event.type = "refund",
         workers[w].event.amount # Foreign
  PROVE  workers[w].event.id \in Succeeded
<1> DEFINE e == workers[w].event
<1>1. /\ Shape /\ Sent(w) /\ OwnRow(w) /\ OneAmount
  BY EvenFacts DEF Reasoned
<1>2. e \in news /\ e.id \in Refunds
  BY <1>1, RefundSent
<1>3. refunds[e.id].status = "succeeded"
  BY <1>1 DEF OwnRow, Inside
<1>4. PICK f \in news : f = Signal("refund", e.id, refunds[e.id].amount)
  BY <1>1, <1>2, <1>3 DEF OneAmount
<1>5. f.id = e.id /\ f.amount = refunds[e.id].amount
  BY <1>4 DEF Signal
<1>6. e.amount = f.amount
  BY <1>1, <1>2, <1>5 DEF OneAmount
<1> QED BY <1>2, <1>3, <1>5, <1>6 DEF Succeeded

LEMMA OpensShare ==
  ASSUME IsFiniteSet(Refunds), HoldInv, Contested, Reasoned, Clear, Shared,
         NEW w \in Workers, Indoors(w),
         \/ PaymentOpen(w) \/ RefundOpen(w) \/ DisputeOpen(w) \/ WonOpen(w)
         \/ Restore(w) \/ RepairOpen(w) \/ WriteStatus(w)
  PROVE  Shared'
<1>0. /\ Shape /\ LedgerInv /\ HoldSuits(w) /\ Sent(w) /\ OwnRow(w) /\ IsWorker(workers[w])
      /\ Outstanding = Net /\ Net \in Nat /\ TypeOK /\ Pack \in Nat \ {0} /\ LinkedFirst
  BY EvenFacts DEF Reasoned, Holding
<1>1. UNCHANGED <<ledger, refunds>> /\ workers[w].pc \in {"open", "status", "restore"}
  BY DEF PaymentOpen, RefundOpen, DisputeOpen, WonOpen, Restore, RepairOpen,
         WriteStatus, Runs, money, records
<1>2. There' = There /\ Taken' = Taken /\ Succeeded' = Succeeded
  BY <1>1 DEF There, Succeeded, Taken, Moved, Deltas
<1>3. Target(There)' = Target(There) /\ Target(Succeeded)' = Target(Succeeded)
  BY <1>1, <1>2 DEF Target
<1>4. ~Granting(w) /\ \A v \in Workers : ~Granting(v)
  BY <1>0, <1>1, Alone DEF Granting
<1>5. ASSUME ledger["grant"].there
      PROVE  /\ Target(There) <= Taken /\ Taken <= Target(Succeeded)
             /\ Net = Pack - Taken /\ Taken \in Nat /\ RefundRevoked = Taken
  BY <1>4, <1>5, ClearNet DEF Shared, Even
<1>6. Even'
  BY <1>1, <1>2, <1>3, <1>5 DEF Even
<1>7. ASSUME workers'[w].pc \notin {"debit", "credit", "settle"} PROVE Shared'
  BY <1>0, <1>6, <1>7, Alone DEF Shared, ShareSuits, Granting
<1>8. CASE PaymentOpen(w)
  <2>1. \/ \E s : Decide(w, "status", "grant", 0, s)
        \/ Decide(w, "insert", "grant", Pack, "none")
    BY <1>8 DEF PaymentOpen
  <2> QED BY <1>0, <1>7, <2>1, DecideIs
<1>9. CASE DisputeOpen(w)
  <2>1. Step(w, "unlock") \/ \E a, s : Decide(w, "debit", "dispute", a, s)
    BY <1>9 DEF DisputeOpen
  <2>2. CASE Step(w, "unlock")
    BY <1>0, <1>7, <2>2, StepIs
  <2>3. CASE \E a, s : Decide(w, "debit", "dispute", a, s)
    <3>1. workers'[w].pc = "debit" /\ workers'[w].ref = "dispute"
      BY <1>0, <2>3, DecideIs
    <3> QED BY <1>0, <1>6, <3>1, Alone DEF Shared, ShareSuits, Granting
  <2> QED BY <2>1, <2>2, <2>3
<1>10. ~WonOpen(w) /\ ~Restore(w)
  <2>1. WonOpen(w) => workers[w].event.type \in Restores \cap DisputeEvents
    BY DEF WonOpen, Runs, DisputeEvents
  <2>2. WonOpen(w) => workers[w].event \in news
    BY <1>0, <2>1, EventTypes DEF Sent, IsWorker
  <2> QED BY <1>0, <2>1, <2>2 DEF Contested, Restore, HoldSuits
<1>11. CASE RepairOpen(w)
  <2>1. /\ workers[w].event.type = "repair"
        /\ Step(w, "credit") \/ Step(w, "unlock")
    BY <1>11 DEF RepairOpen, Runs
  <2>2. workers'[w].pc \in {"credit", "unlock"} /\ workers'[w].event.type = "repair"
    BY <1>0, <2>1, StepIs
  <2> QED BY <1>0, <1>6, <2>2, Alone DEF Shared, ShareSuits, Granting
<1>12. CASE WriteStatus(w)
  BY <1>0, <1>7, <1>12, StepIs DEF WriteStatus
<1>13. CASE RefundOpen(w)
  <2> DEFINE r == workers[w].event.id
             due == Monus(Target(Succeeded), RefundRevoked)
  <2>1. /\ workers[w].pc \in Inside /\ workers[w].event.type = "refund"
        /\ \/ ~order.linked /\ Decide(w, "debit", r, 0, "none")
           \/ Step(w, "unlock")
           \/ /\ workers[w].event.amount # Foreign
              /\ \E s : Decide(w, "debit", r, Least(due, Outstanding), s)
    BY <1>13 DEF RefundOpen, Runs, Inside, Pcs
  <2>2. CASE Step(w, "unlock")
    BY <1>0, <1>7, <2>2, StepIs
  <2>3. CASE ~order.linked /\ Decide(w, "debit", r, 0, "none")
    <3>1. workers'[w].pc = "debit" /\ ~ledger'["grant"].there
      BY <1>0, <1>1, <2>3, DecideIs DEF LinkedFirst
    <3> QED BY <1>0, <1>6, <3>1, Alone DEF Shared, ShareSuits, Granting
  <2>4. ASSUME NEW s, workers[w].event.amount # Foreign,
               Decide(w, "debit", r, Least(due, Outstanding), s)
        PROVE  Shared'
    <3>1. r \in Succeeded
      BY <2>1, <2>4, RefundCounts
    <3> HIDE DEF r, due
    <3>2. /\ workers'[w].pc = "debit" /\ workers'[w].ref = r
          /\ workers'[w].amount = Least(due, Net)
      BY <1>0, <2>4, DecideIs
    <3>3. ASSUME ledger["grant"].there
          PROVE  /\ Target(There \cup {r}) <= Least(due, Net) + Taken
                 /\ Least(due, Net) + Taken <= Target(Succeeded)
      <4>1. /\ Target(Succeeded) \in 0 .. Pack
            /\ Target(There \cup {r}) \in 0 .. Pack
            /\ Target(There \cup {r}) <= Target(Succeeded)
        <5>1. There \cup {r} \in SUBSET Succeeded /\ Succeeded \in SUBSET Succeeded
          BY <3>1 DEF There
        <5> QED BY <1>0, <5>1, TargetTops DEF Tops
      <4>2. due = Target(Succeeded) - Taken
        BY <1>5, <3>3, <4>1 DEF due, Monus
      <4>3. Least(due, Net) = Target(Succeeded) - Taken
        BY <1>0, <1>5, <3>3, <4>1, <4>2 DEF Least
      <4> QED BY <1>0, <1>5, <3>3, <4>1, <4>3
    <3>4. Target(There \cup {r})' = Target(There \cup {r})
      <4>1. r' = r
        BY <1>0, IndoorsEvent DEF r
      <4> QED BY <1>1, <1>2, <4>1 DEF Target
    <3>5. ShareSuits(w)'
      <4>1. r' = r
        BY <1>0, IndoorsEvent DEF r
      <4>2. workers'[w].ref = r'
        BY <3>2, <4>1
      <4>3. Target(There \cup {workers[w].ref})' = Target(There \cup {r})'
        BY <4>2
      <4> QED BY <1>1, <1>2, <1>3, <3>1, <3>2, <3>3, <3>4, <4>3 DEF ShareSuits, Granting
    <3> QED BY <1>0, <1>6, <3>5, Alone DEF Shared
  <2> QED BY <2>1, <2>2, <2>3, <2>4
<1> QED BY <1>8, <1>9, <1>10, <1>11, <1>12, <1>13

\* A request that the balance covers is taken whole.
LEMMA TakesAll ==
  ASSUME Shape, NEW x \in Refs, NEW request \in Nat, balance \in Nat, balance >= request,
         Take(x, request)
  PROVE  OneDelta(x, -request)
<1> DEFINE row == [there |-> TRUE, delta |-> -Least(balance, request), applied |-> TRUE]
<1>1. Least(balance, request) = request
  BY DEF Least
<1>2. ledger' = [ledger EXCEPT ![x] = row] /\ row.there /\ row.delta = -request
  BY <1>1 DEF Take
<1> HIDE DEF row
<1>3. ledger'[x] = row /\ \A y \in Refs : y # x => ledger'[y] = ledger[y]
  BY <1>2 DEF Shape
<1> QED BY <1>2, <1>3 DEF OneDelta

\* While nothing is spent and nothing pending, the balance covers what is left.
LEMMA ClearBalance ==
  ASSUME IsFiniteSet(Refunds), HoldInv, Contested, Clear, NEW w \in Workers,
         workers[w].pc \in Inside, workers[w].pc # "credit"
  PROVE  balance \in Nat /\ balance >= Net
<1>1. /\ NetInv /\ LedgerInv /\ RowsHold /\ BalanceIsTheLedger /\ TypeOK /\ Net \in Nat
  BY EvenFacts
<1>2. \A y \in Refs : ~Pending(y)
  BY <1>1, NonePending DEF RowsHold
<1>3. balance \in Nat /\ spent = 0
  BY <1>1 DEF TypeOK, Clear
<1>4. balance >= Net - spent
  BY <1>1, <1>2, BalanceCovers
<1> QED BY <1>1, <1>3, <1>4

LEMMA TakeBackShare ==
  ASSUME IsFiniteSet(Refunds), HoldInv, Contested, Reasoned, Clear, Clear', Shared,
         NEW w \in Workers, Indoors(w), TakeBack(w)
  PROVE  Shared'
<1> DEFINE x == workers[w].ref
           amount == workers[w].amount
<1>0. /\ Shape /\ LedgerInv /\ HoldSuits(w) /\ Suits(w) /\ IsWorker(workers[w])
      /\ Net \in Nat /\ TypeOK /\ Pack \in Nat \ {0} /\ Deltaed
      /\ workers[w].pc = "debit" /\ UNCHANGED refunds
  BY EvenFacts DEF TakeBack, records
<1>1. x \in Refunds /\ x \in Refs /\ amount \in 0 .. Net /\ IsRow(ledger[x])
  <2>1. x \in Refunds \cup {"dispute"} /\ amount \in 0 .. Net /\ x \in Refs
    BY <1>0 DEF Suits, DebitSuits, HoldSuits, IsWorker
  <2>2. x # "dispute"
    BY <1>0, TakeBackRow DEF Clear
  <2> QED BY <1>0, <2>1, <2>2 DEF Shape
<1>2. workers'[w].pc \in {"unlock", "status"}
  BY <1>0, StepIs DEF TakeBack
<1>3. \A v \in Workers : ~Granting(v) /\ ShareSuits(v)'
  BY <1>0, <1>2, Alone DEF Granting, ShareSuits
<1>4. ASSUME ledger'["grant"].there
      PROVE  Target(There)' <= Taken' /\ Taken' <= Target(Succeeded)'
  <2>1. ledger["grant"].there
    BY <1>0, <1>1, <1>4, RowsCome, RefIds, IdAssumption DEF OnlyAdds, MayAdd
  <2>2. /\ Target(There) <= Taken /\ Taken <= Target(Succeeded)
        /\ Target(There \cup {x}) <= amount + Taken
        /\ amount + Taken <= Target(Succeeded)
        /\ x \in Succeeded
    BY <1>0, <1>1, <1>3, <2>1, IdAssumption DEF Shared, Even, ShareSuits
  <2>3. Succeeded' = Succeeded /\ Target(Succeeded)' = Target(Succeeded)
    BY <1>0 DEF Succeeded, Target
  <2>4. Taken \in Nat /\ Moved(Refunds) \in Int /\ Taken = -Moved(Refunds)
    BY <1>0, ClearNet, NetParts DEF Taken
  <2>5. CASE ledger[x].there
    <3>1. UNCHANGED ledger
      BY <2>5 DEF TakeBack, Debit, SetMarker, money
    <3>2. There' = There /\ Taken' = Taken
      BY <2>3, <3>1 DEF There, Taken, Moved, Deltas
    <3>3. Target(There)' = Target(There)
      BY <1>0, <3>2 DEF Target
    <3> QED BY <2>2, <2>3, <3>2, <3>3
  <2>6. CASE ~ledger[x].there
    <3>1. ledger[x].delta = 0
      BY <1>1, <2>6 DEF IsRow
    <3>2. Taken' = Taken + amount
      <4>1. CASE amount > 0
        <5>1. Take(x, amount)
          BY <2>6, <4>1 DEF TakeBack, Debit
        <5>2. balance \in Nat /\ balance >= Net
          BY <1>0, ClearBalance DEF Inside, Pcs
        <5>3. amount \in Nat /\ balance >= amount
          BY <1>0, <1>1, <5>2
        <5> HIDE DEF x, amount
        <5>4. OneDelta(x, -amount)
          BY <1>0, <1>1, <5>1, <5>2, <5>3, TakesAll
        <5>5. -amount \in Int
          BY <5>3
        <5>6. Moved(Refunds)' = Moved(Refunds) - ledger[x].delta + -amount
          BY <1>0, <1>1, <5>4, <5>5, OneSum
        <5> QED BY <2>4, <3>1, <5>3, <5>6 DEF Taken
      <4>2. CASE ~(amount > 0)
        <5>1. SetMarker(x) /\ amount = 0
          BY <1>0, <1>1, <4>2 DEF TakeBack
        <5>2. Moved(Refunds)' = Moved(Refunds)
          BY <1>0, <1>1, <5>1, MarkerSame, SameSums
        <5> QED BY <2>4, <5>1, <5>2 DEF Taken
      <4> QED BY <4>1, <4>2
    <3>3. There' = There \cup {x}
      <4>1. ledger'[x].there
        BY <1>0, TakeBackRow
      <4>2. \A y \in Refs : ledger[y].there => ledger'[y].there
        BY <1>0, RowsCome DEF OnlyAdds
      <4>3. \A y \in Refs : ledger'[y].there => ledger[y].there \/ y = x
        BY <1>0, RowsCome DEF OnlyAdds, MayAdd
      <4> QED BY <2>2, <2>3, <4>1, <4>2, <4>3, RefIds DEF There, Succeeded
    <3>4. Target(There)' = Target(There \cup {x})
      BY <1>0, <3>3 DEF Target
    <3> HIDE DEF x, amount
    <3>5. Target(There)' <= Taken'
      BY <1>1, <2>2, <2>4, <3>2, <3>4
    <3>6. Taken' <= Target(Succeeded)'
      BY <1>1, <2>2, <2>3, <2>4, <3>2
    <3> QED BY <3>5, <3>6
  <2> QED BY <2>5, <2>6
<1> QED BY <1>3, <1>4 DEF Shared, Even

LEMMA InsertShare ==
  ASSUME IsFiniteSet(Refunds), HoldInv, Contested, Reasoned, Shared,
         NEW w \in Workers, Indoors(w), Insert(w)
  PROVE  Shared'
<1> DEFINE row == [there |-> TRUE, delta |-> Pack, applied |-> FALSE]
<1>0. /\ Shape /\ LedgerInv /\ HoldSuits(w) /\ Suits(w) /\ IsWorker(workers[w])
      /\ NetCore /\ Net \in Nat /\ Deltaed /\ Pack \in Nat \ {0}
      /\ workers[w].pc = "insert" /\ UNCHANGED refunds
  BY EvenFacts DEF Insert, records
<1>1. /\ workers[w].ref = "grant" /\ workers[w].amount = Pack /\ "grant" \in Refs
      /\ workers[w].event = Payment /\ "grant" \notin Refunds
  BY <1>0, RefIds, IdAssumption DEF Suits, InsertSuits, HoldSuits
<1>2. CASE ledger["grant"].there
  <2>1. UNCHANGED ledger /\ Step(w, "unlock")
    BY <1>1, <1>2 DEF Insert
  <2>2. workers'[w].pc = "unlock"
    BY <1>0, <2>1, StepIs
  <2>3. \A v \in Workers : ~Granting(v) /\ ShareSuits(v)'
    BY <1>0, <2>2, Alone DEF Granting, ShareSuits
  <2>4. /\ There' = There /\ Taken' = Taken /\ Succeeded' = Succeeded
    BY <1>0, <2>1 DEF There, Succeeded, Taken, Moved, Deltas
  <2>5. Target(There)' = Target(There) /\ Target(Succeeded)' = Target(Succeeded)
    BY <1>0, <2>4 DEF Target
  <2> QED BY <1>2, <2>3, <2>4, <2>5 DEF Shared, Even
<1>3. CASE ~ledger["grant"].there
  <2>1. ledger' = [ledger EXCEPT !["grant"] = row] /\ Step(w, "credit")
    BY <1>1, <1>3 DEF Insert
  <2>2. OneDelta("grant", Pack)
    BY <1>0, <1>1, <2>1 DEF Shape, OneDelta
  <2>3. /\ workers'[w].pc = "credit" /\ workers'[w].ref = "grant"
        /\ workers'[w].event = Payment
        /\ workers'[w].done = {} /\ workers'[w].todo = {}
    BY <1>0, <1>1, <2>1, StepIs DEF Suits, SettlesLate
  <2>4. Granting(w)'
    BY <2>3 DEF Granting, Payment, Signal
  <2>5. \A x \in Refs : ledger[x].delta = 0
    BY <1>0, <1>3 DEF NetCore, GrantFirst
  <2>6. Moved(Refunds) = 0
    <3>1. Net = Moved(Refunds) /\ Moved(Refunds) \in Int /\ Moved(Refunds) <= 0
      BY <1>0, <2>5, NetParts, SignedSums, RefIds DEF NetCore
    <3> QED BY <1>0, <3>1
  <2>7. Taken' = 0
    <3>1. Moved(Refunds)' = Moved(Refunds)
      BY <1>0, <1>1, <2>2, OneSum
    <3>2. PICK m \in Int : m = Moved(Refunds)' /\ m <= 0 /\ m >= 0
      BY <2>6, <3>1
    <3>3. -m = 0
      BY <3>2
    <3>4. Taken' = -m
      BY <3>2 DEF Taken
    <3> QED BY <3>3, <3>4
  <2>8. Target(workers[w].done)' = 0
    <3>1. Target(workers[w].done)' = Target({})
      BY <1>0, <2>3 DEF Target
    <3> QED BY <3>1, TargetEmpty
  <2>9. ShareSuits(w)'
    BY <2>3, <2>7, <2>8 DEF ShareSuits
  <2> QED BY <1>0, <2>4, <2>9, Alone DEF Shared, Even
<1> QED BY <1>2, <1>3

LEMMA CreditShare ==
  ASSUME IsFiniteSet(Refunds), HoldInv, Contested, Reasoned, Shared,
         NEW w \in Workers, Indoors(w), Credit(w)
  PROVE  Shared'
<1> DEFINE x == workers[w].ref
           row == [ledger[x] EXCEPT !.applied = TRUE]
           r == [workers[w] EXCEPT !.pc = "settle", !.todo = Succeeded]
<1>0. /\ Shape /\ LedgerInv /\ HoldSuits(w) /\ Suits(w) /\ IsWorker(workers[w])
      /\ NetCore /\ RowsHold /\ WorkerFits(w) /\ Deltaed
      /\ workers[w].pc = "credit" /\ UNCHANGED refunds
  BY EvenFacts DEF Credit, records
<1>1. x \in Refs /\ IsRow(ledger[x])
  BY <1>0 DEF Shape, IsWorker
<1>2. /\ \A y \in Refs : ledger'[y].there = ledger[y].there
      /\ SameDeltas
  <2>1. ledger' = [ledger EXCEPT ![x] = row]
    BY DEF Credit
  <2>2. row.there = ledger[x].there /\ row.delta = ledger[x].delta
    BY <1>1 DEF IsRow
  <2> HIDE DEF row, x
  <2>3. ledger'[x] = row /\ \A y \in Refs : y # x => ledger'[y] = ledger[y]
    BY <1>0, <1>1, <2>1 DEF Shape
  <2> QED BY <2>2, <2>3 DEF SameDeltas
<1>3. There' = There /\ Taken' = Taken /\ Succeeded' = Succeeded
  <2>1. Moved(Refunds)' = Moved(Refunds)
    BY <1>0, <1>2, SameSums
  <2>2. Succeeded' = Succeeded
    BY <1>0 DEF Succeeded
  <2> QED BY <1>2, <2>1, <2>2, RefIds DEF There, Taken, Succeeded
<1>4. CASE workers[w].event.type = "repair"
  <2>1. workers'[w].pc = "unlock"
    BY <1>0, <1>4, StepIs DEF Credit
  <2>2. \A v \in Workers : ~Granting(v) /\ ShareSuits(v)'
    BY <1>0, <1>4, <2>1, Alone DEF Granting, ShareSuits
  <2>3. Target(There)' = Target(There) /\ Target(Succeeded)' = Target(Succeeded)
    BY <1>0, <1>3 DEF Target
  <2> QED BY <1>2, <1>3, <2>2, <2>3, RefIds DEF Shared, Even
<1>5. CASE workers[w].event.type # "repair"
  <2>1. x = "grant"
    <3>1. ledger[x].delta > 0
      BY <1>0, <1>1 DEF WorkerFits
    <3>2. /\ ledger["dispute"].delta <= 0 /\ ledger["dispute"].delta \in Int
          /\ \A y \in Refunds : ledger[y].delta <= 0 /\ ledger[y].delta \in Int
      BY <1>0, RefIds DEF NetCore, Signs, Deltaed
    <3>3. ledger["regrant"].delta = 0
      BY <1>0, RefIds DEF RowsHold, Shape, IsRow
    <3> QED BY <1>1, <3>1, <3>2, <3>3 DEF Refs
  <2>2. Put(w, r)
    BY <1>5, <2>1 DEF Credit
  <2>3. workers'[w] = r
    BY <1>0, <2>2, PutIs
  <2>4. /\ workers'[w].pc = "settle" /\ workers'[w].todo = Succeeded
        /\ workers'[w].done = {} /\ workers[w].done = {}
    BY <1>0, <2>3 DEF IsWorker, Suits, SettlesLate
  <2>5. Granting(w) /\ Granting(w)'
    BY <1>0, <1>5, <2>1, <2>4 DEF Granting
  <2>6. Taken = Target({})
    BY <2>4, <2>5 DEF Shared, ShareSuits
  <2>7. Target(workers[w].done)' = Target({})
    BY <1>0, <2>4 DEF Target
  <2>8. ShareSuits(w)'
    BY <1>3, <2>4, <2>6, <2>7 DEF ShareSuits, There
  <2> QED BY <1>0, <2>5, <2>8, Alone DEF Shared, Even
<1> QED BY <1>4, <1>5

LEMMA SettleShare ==
  ASSUME IsFiniteSet(Refunds), HoldInv, Contested, Reasoned, Clear, Shared,
         NEW w \in Workers, Indoors(w), NEW r \in Refunds, Settle(w, r)
  PROVE  Shared'
<1> DEFINE done == workers[w].done \cup {r}
           old == Target(workers[w].done)
           new == Target(done)
           share == Monus(new, old)
           next == [workers[w] EXCEPT !.todo = @ \ {r}, !.done = done]
<1>0. /\ Shape /\ LedgerInv /\ Suits(w) /\ IsWorker(workers[w]) /\ TypeOK
      /\ NetCore /\ WorkerFits(w) /\ Deltaed /\ HoldSuits(w) /\ Net \in Nat
      /\ workers[w].pc = "settle" /\ r \in workers[w].todo /\ UNCHANGED refunds
      /\ r \in Refs /\ IsRow(ledger[r]) /\ Pack \in Nat \ {0}
  BY EvenFacts, RefIds DEF Settle, records, Shape
<1>1. /\ Taken = old /\ workers[w].done \cap workers[w].todo = {}
      /\ There \subseteq workers[w].done \cup workers[w].todo
      /\ ledger["grant"].delta = Pack /\ ledger[r].delta = 0
  <2>1. Granting(w)
    BY <1>0 DEF Granting
  <2>2. /\ Taken = old /\ workers[w].done \cap workers[w].todo = {}
        /\ There \subseteq workers[w].done \cup workers[w].todo
    BY <1>0, <2>1 DEF Shared, ShareSuits
  <2>3. r \notin workers[w].done
    BY <1>0, <2>2
  <2> QED BY <1>0, <2>1, <2>2, <2>3 DEF Suits, SettleSuits
<1>2. /\ old \in 0 .. Pack /\ new \in 0 .. Pack /\ old <= new
  <2>1. /\ done \in SUBSET Succeeded /\ workers[w].done \in SUBSET done
        /\ workers[w].done \in SUBSET Succeeded
    BY <1>0 DEF WorkerFits
  <2> QED BY <1>0, <2>1, TargetRange, TargetGrows
<1>3. share \in Nat /\ share = new - old
  <2> HIDE DEF new, old
  <2> QED BY <1>0, <1>2 DEF Monus
<1>4. workers'[w] = next
  BY <1>0, PutIs DEF Settle
<1>5. /\ workers'[w].pc = "settle" /\ workers'[w].done = done
      /\ workers'[w].todo = workers[w].todo \ {r}
  BY <1>0, <1>4 DEF IsWorker
<1>6. Target(workers[w].done)' = new
  BY <1>0, <1>5 DEF Target
<1>7. Moved(Refunds) \in Int /\ Taken = -Moved(Refunds) /\ Net = Pack - Taken
  <2>1. ledger["grant"].there
    BY <1>0, <1>1, RefIds DEF Shape, IsRow
  <2> QED BY <1>0, <2>1, ClearNet, NetParts DEF Taken
<1>8. Taken' = new
  <2>1. CASE share > 0
    <3>1. Take(r, share)
      BY <1>1, <2>1 DEF Settle, DebitOverMarker
    <3>2. balance \in Nat /\ balance >= Net
      BY <1>0, ClearBalance DEF Inside, Pcs
    <3> HIDE DEF share, new, old
    <3>3. balance >= share
      BY <1>0, <1>1, <1>2, <1>3, <1>7, <3>2
    <3>4. OneDelta(r, -share)
      BY <1>0, <1>3, <3>1, <3>2, <3>3, TakesAll
    <3>5. -share \in Int
      BY <1>3
    <3>6. Moved(Refunds)' = Moved(Refunds) - ledger[r].delta + -share
      BY <1>0, <3>4, <3>5, OneSum
    <3> QED BY <1>0, <1>1, <1>2, <1>3, <1>7, <3>6 DEF Taken
  <2>2. CASE ~(share > 0)
    <3>1. SetMarker(r)
      BY <2>2 DEF Settle
    <3>2. Moved(Refunds)' = Moved(Refunds)
      BY <1>0, <3>1, MarkerSame, SameSums
    <3> HIDE DEF share, new, old
    <3> QED BY <1>1, <1>2, <1>3, <1>7, <2>2, <3>2 DEF Taken
  <2> QED BY <2>1, <2>2
<1>9. There' \subseteq done \cup (workers[w].todo \ {r})
  <2>1. workers[w].event = Payment
    BY <1>0 DEF HoldSuits
  <2>2. There' \subseteq There \cup workers[w].todo
    BY <1>0, <2>1, RowsCome, RefIds DEF There, Succeeded, OnlyAdds, MayAdd
  <2> QED BY <1>1, <2>2
<1>10. ShareSuits(w)'
  BY <1>1, <1>5, <1>6, <1>8, <1>9 DEF ShareSuits
<1>11. Granting(w)'
  BY <1>5 DEF Granting
<1> QED BY <1>0, <1>10, <1>11, Alone DEF Shared, Even

LEMMA SettledShare ==
  ASSUME IsFiniteSet(Refunds), HoldInv, Contested, Reasoned, Shared,
         NEW w \in Workers, Indoors(w), Settled(w)
  PROVE  Shared'
<1> DEFINE s == NetStatus(Target(workers[w].done))
           next == [workers[w] EXCEPT !.pc = "status", !.status = s]
<1>0. /\ Shape /\ LedgerInv /\ IsWorker(workers[w]) /\ TypeOK
      /\ WorkerFits(w) /\ HoldSuits(w)
      /\ workers[w].pc = "settle" /\ workers[w].todo = {} /\ UNCHANGED refunds
  BY EvenFacts DEF Settled, records
<1>1. UNCHANGED ledger
  BY <1>0 DEF Settled, HoldSuits, money
<1>2. Taken = Target(workers[w].done) /\ There \subseteq workers[w].done
  BY <1>0 DEF Shared, ShareSuits, Granting
<1>3. Target(There) <= Taken /\ Taken <= Target(Succeeded)
  <2>1. /\ workers[w].done \in SUBSET Succeeded /\ There \in SUBSET workers[w].done
        /\ Succeeded \in SUBSET Succeeded
    BY <1>0, <1>2 DEF WorkerFits
  <2> QED BY <1>0, <1>2, <2>1, TargetGrows
<1>4. There' = There /\ Taken' = Taken /\ Succeeded' = Succeeded
  BY <1>0, <1>1 DEF There, Succeeded, Taken, Moved, Deltas
<1>5. Target(There)' = Target(There) /\ Target(Succeeded)' = Target(Succeeded)
  BY <1>0, <1>4 DEF Target
<1>6. Even'
  BY <1>3, <1>4, <1>5 DEF Even
<1>7. workers'[w] = next
  BY <1>0, PutIs DEF Settled
<1>8. workers'[w].pc = "status"
  BY <1>0, <1>7 DEF IsWorker
<1> QED BY <1>0, <1>6, <1>8, Alone DEF Shared, ShareSuits, Granting

LEMMA SharedNext ==
  ASSUME IsFiniteSet(Refunds), HoldInv, TypeOK', Contested, Reasoned,
         Clear, Clear', Shared, [Next]_vars, \A w \in Workers : ~Dies(w)
  PROVE  Shared'
<1>0. /\ Shape /\ LedgerInv /\ Deltaed /\ TypeOK /\ RefundsGrow /\ OneAmount
      /\ \A w \in Workers : WorkerFits(w)
  BY EvenFacts, BookNext DEF Reasoned
<1>1. CASE Environment \/ UNCHANGED vars
  <2>1. UNCHANGED <<workers, ledger>>
    BY <1>0, <1>1, EnvironmentShape DEF vars, money
  <2> QED BY <1>0, <2>1, ShareStays
<1>2. ASSUME NEW w \in Workers, Outdoors(w) \/ Acquire(w) \/ Release(w) PROVE Shared'
  <2>1. /\ UNCHANGED ledger /\ \A v \in Workers : v # w => workers'[v] = workers[v]
        /\ workers'[w].pc \notin Inside \/ workers'[w].pc = "open"
    BY <1>0, <1>2, OutdoorsShape, AcquireShape, LeaveShape DEF Outside
  <2>2. workers'[w].pc \notin {"debit", "credit", "settle"}
    BY <2>1 DEF Inside, Pcs
  <2>3. workers[w].pc \notin {"credit", "settle"}
    <3>1. Acquire(w) \/ Release(w) => workers[w].pc \notin {"credit", "settle"}
      BY DEF Acquire, Release
    <3>2. Outdoors(w) => workers[w].pc \notin {"credit", "settle"}
      BY DEF Outdoors, Deliver, DeliverAttempt, JobMarks, Stamp, JobRepairs,
             RecordRefund, GiveUp
    <3> QED BY <1>2, <3>1, <3>2
  <2> QED BY <1>0, <2>1, <2>2, <2>3, ShareStays
<1>3. ASSUME NEW w \in Workers, Indoors(w) PROVE Shared'
  <2>1. CASE \/ PaymentOpen(w) \/ RefundOpen(w) \/ DisputeOpen(w) \/ WonOpen(w)
             \/ Restore(w) \/ RepairOpen(w) \/ WriteStatus(w)
    BY <1>3, <2>1, OpensShare
  <2>2. CASE Insert(w) \/ Credit(w) \/ (\E r \in Refunds : Settle(w, r))
             \/ Settled(w) \/ TakeBack(w)
    BY <1>3, <2>2, InsertShare, CreditShare, SettleShare, SettledShare, TakeBackShare
  <2> QED BY <1>3, <2>1, <2>2 DEF Indoors, InTheLock
<1> QED BY <1>1, <1>2, <1>3, WorkSplits DEF Next

LEMMA EvenNext ==
  IsFiniteSet(Refunds) /\ ~SlowHolders /\ EvenInv /\ [Next]_vars => EvenInv'
<1> SUFFICES ASSUME IsFiniteSet(Refunds), ~SlowHolders, EvenInv, [Next]_vars
             PROVE  EvenInv'
  OBVIOUS
<1>1. HoldInv /\ HoldInv'
  BY HoldNext DEF EvenInv
<1>2. Shape /\ Book /\ TypeOK'
  BY <1>1, NetFacts, TypeParts DEF HoldInv, NetInv, TypeInv
<1>3. ASSUME Contested' PROVE Reasoned' /\ (Clear' => Shared')
  <2>1. Contested /\ Reasoned /\ \A w \in Workers : ~Dies(w)
    BY <1>2, <1>3, ContestedBefore DEF EvenInv
  <2>2. Clear' => Clear
    <3>1. /\ ledger["dispute"].there => ledger'["dispute"].there
          /\ spent' >= spent /\ spent \in Nat
      BY <1>2, WorldStays, RefIds DEF Book
    <3> QED BY <3>1 DEF Clear
  <2>3. Clear => Shared
    BY <2>1 DEF EvenInv
  <2> QED BY <1>1, <1>2, <2>1, <2>2, <2>3, ReasonedNext, SharedNext
<1> QED BY <1>1, <1>3 DEF EvenInv

LEMMA EvenInit == Init /\ IsFiniteSet(Refunds) => EvenInv
<1> SUFFICES ASSUME Init, IsFiniteSet(Refunds) PROVE EvenInv
  OBVIOUS
<1>1. /\ \A x \in Refs : ~ledger[x].there
      /\ \A w \in Workers : workers[w] = Idle
      /\ \A r \in Refunds : refunds[r].status = "none"
      /\ \A e \in news : e.amount = Unknown
      /\ handled = {}
  BY DEF Init, NoRow, Payment, Attempt, Signal
<1>2. OneAmount /\ Founded
  BY <1>1, RefIds DEF OneAmount, Founded
<1>3. \A w \in Workers : OwnRow(w) /\ ShareSuits(w)
  BY <1>1 DEF OwnRow, ShareSuits, Granting, Idle, Payment, Signal
<1>4. Even
  BY <1>1, RefIds DEF Even
<1> QED BY <1>2, <1>3, <1>4, HoldInit DEF EvenInv, Reasoned, Shared

\* When everything is in, the refunds that have a row are those of the provider.
LEMMA AllIn ==
  ASSUME Shape, Reasoned, news = handled
  PROVE  There = Returned /\ Succeeded = Returned
<1>1. ASSUME NEW r \in Returned PROVE r \in There
  <2>1. PICK e \in news : e.type = "refund" /\ e.id = r /\ e.amount # Foreign
    BY DEF Returned
  <2>2. r \in Refunds /\ ledger[r].there /\ refunds[r].status = "succeeded"
    BY <2>1 DEF Returned, Reasoned, Founded, OneAmount
  <2>3. PICK f \in news : f = Signal("refund", r, refunds[r].amount)
    BY <2>2 DEF Reasoned, OneAmount
  <2>4. refunds[r].amount = e.amount
    BY <2>1, <2>2, <2>3 DEF Reasoned, OneAmount, Signal
  <2> QED BY <2>1, <2>2, <2>4 DEF There, Succeeded
<1>2. ASSUME NEW r \in Succeeded PROVE r \in Returned
  <2>1. r \in Refunds /\ Signal("refund", r, refunds[r].amount) \in news
    BY DEF Succeeded, Reasoned, OneAmount
  <2> QED BY <2>1 DEF Returned, Signal, Succeeded
<1> QED BY <1>1, <1>2 DEF There

LEMMA EvenIsEntitlement ==
  ASSUME IsFiniteSet(Refunds), DisputeStatuses \subseteq Revokes,
         EvenInv, crashes = 0, Quiet, spent = 0
  PROVE  Moved(Refs) = IF ~sound \/ InDispute THEN 0 ELSE Pack - Target(Returned)
<1>0. /\ HoldInv /\ Shape /\ Chain
  BY NetFacts DEF EvenInv, HoldInv
<1>1. ASSUME NEW d \in Disputes, Seen(d) # {} PROVE Upstream(d) \in Revokes
  <2>1. PICK s \in Seen(d) : Latest(d, s)
    BY <1>0, <1>1 DEF Chain
  <2> QED BY <1>0, <2>1, UpstreamIs
<1>2. ASSUME NEW e \in news, e.type \in DisputeEvents
      PROVE  e.id \in Disputes /\ e.type \in Seen(e.id) /\ e.type \in Revokes
  <2>1. e.id \in Disputes
    BY <1>0, <1>2, EventTypes DEF Shape
  <2> QED BY <1>0, <2>1 DEF Seen, Chain
<1>3. Contested
  BY <1>2 DEF Contested, DisputeEvents, Revokes, Restores
<1>4. /\ Holding /\ Reasoned /\ Net \in Nat /\ NetInv
      /\ Clear => Shared
  BY <1>0, <1>3, EvenFacts DEF EvenInv
<1>5. CASE InDispute
  <2>1. PICK d \in Disputes : Upstream(d) \in Revokes \cup {"challenged"}
    BY <1>5 DEF InDispute
  <2>2. Seen(d) # {}
    BY <2>1 DEF Upstream, Seen, Revokes
  <2>3. ledger["dispute"].there
    BY <1>1, <2>2 DEF Quiet
  <2>4. Net = 0
    BY <1>4, <2>3 DEF Holding
  <2> QED BY <1>5, <2>4 DEF Net
<1>6. CASE ~InDispute
  <2>1. Clear
    <3> SUFFICES ASSUME ledger["dispute"].there PROVE FALSE
      BY DEF Clear
    <3>1. PICK e \in news : e.type \in DisputeEvents
      BY <1>4 DEF Reasoned, Founded
    <3> QED BY <1>1, <1>2, <1>6, <3>1 DEF InDispute
  <2>2. CASE ~sound
    <3>1. ~ledger["grant"].there
      BY <1>4, <2>2 DEF Reasoned, Founded
    <3> QED BY <1>4, <2>2, <3>1, NothingLeft DEF Net
  <2>3. CASE sound
    <3>1. ledger["grant"].there
      BY <2>1, <2>3 DEF Quiet, Held, Clear
    <3>2. \A w \in Workers : ~Granting(w)
      BY DEF Quiet, Granting
    <3>3. Target(There) <= Taken /\ Taken <= Target(Succeeded)
      BY <1>4, <2>1, <3>1, <3>2 DEF Shared, Even
    <3>4. There = Returned /\ Succeeded = Returned
      BY <1>0, <1>4, AllIn DEF Quiet
    <3>5. Target(Returned) \in Int
      <4>1. TypeOK /\ Returned \in SUBSET Succeeded
        BY <1>4, <3>4, NetFacts
      <4> QED BY <4>1, TargetRange, PackAssumption
    <3>6. Taken \in Nat /\ Net = Pack - Taken
      BY <1>0, <1>3, <1>4, <2>1, <3>1, ClearNet
    <3>7. Taken = Target(Returned)
      BY <3>3, <3>4, <3>5, <3>6
    <3> QED BY <1>6, <2>3, <3>6, <3>7 DEF Net
  <2> QED BY <2>2, <2>3
<1> QED BY <1>5, <1>6

\* In the end the account has of the pack what the refunds do not cover, or
\* nothing when the payment fails the gates or is in dispute, in whatever order
\* grant, refunds and disputes were delivered, again and by how many invocations
\* at once, for any refunds of any amounts: the webhooks' orders converge.  It
\* rests on holders that finish before their lock is stolen and on no
\* invocation having died, and is about disputes that were not resolved for the
\* account (won, cancelled) nor challenged.
THEOREM EntitlementEver ==
  ASSUME IsFiniteSet(Refunds), ~SlowHolders, DisputeStatuses \subseteq Revokes
  PROVE  Spec => [](crashes = 0 => NetIsEntitlement)
<1>1. EvenInv => (crashes = 0 => NetIsEntitlement)
  BY EvenIsEntitlement DEF NetIsEntitlement
<1> QED BY <1>1, EvenInit, EvenNext, PTL DEF Spec
=============================================================================
