---------------------------- MODULE PurchaseProofs ----------------------------
(* Proofs about a purchase, for any number of requests, sessions, events,     *)
(* handlers and failures: first the webhook inbox, whatever the checkout and  *)
(* the job do beside it; then the page of a key; then types; then its order.  *)
EXTENDS Purchase, TLAPS

-----------------------------------------------------------------------------
(* Shapes.                                                                    *)

InboxRow == [status : {"none", "processing", "completed", "failed"},
             owner : Handlers \cup {NoOwner, Gone}, live : BOOLEAN]
Pcs == {"off", "insert", "read", "steal", "work", "recover", "complete", "fail"}
Handler == [pc : Pcs, event : Events \cup {NoEvent}, seen : InboxRow]

\* A handler at work has an event; one that is to steal a row saw it unsettled.
Sensible(q) ==
  /\ q.pc # "off" => q.event \in Events
  /\ q.pc = "steal" => q.seen.status \in {"failed", "processing"}

HandlersOK ==
  handlers \in [Handlers -> Handler] /\ \A h \in Handlers : Sensible(handlers[h])
InboxOK == inbox \in [Events -> InboxRow]
Shape == HandlersOK /\ InboxOK /\ paid \subseteq Sessions

LEMMA RowShapes ==
  /\ NoRow \in InboxRow /\ Off \in Handler /\ Sensible(Off)
  /\ \A s \in {"none", "completed", "failed"} :
       [NoRow EXCEPT !.status = s] \in InboxRow
  /\ \A h \in Handlers :
       [status |-> "processing", owner |-> h, live |-> TRUE] \in InboxRow
  BY DEF NoRow, InboxRow, Off, Handler, Sensible, Pcs

LEMMA ShapeInit == Init => Shape
<1> SUFFICES ASSUME Init PROVE Shape
  OBVIOUS
<1>1. handlers = [h \in Handlers |-> Off] /\ inbox = [e \in Events |-> NoRow] /\ paid = {}
  BY DEF Init, InboxInit, CheckoutInit
<1> QED BY <1>1, RowShapes DEF Shape, HandlersOK, InboxOK

-----------------------------------------------------------------------------
\* What a step makes of its handler, and of no other.
Becomes(h, q) ==
  /\ handlers' = [handlers EXCEPT ![h] = q]
  /\ q \in Handler /\ Sensible(q)

LEMMA BecomesShape ==
  ASSUME HandlersOK, NEW h \in Handlers, NEW q, Becomes(h, q)
  PROVE  /\ HandlersOK' /\ handlers'[h] = q
         /\ \A g \in Handlers \ {h} : handlers'[g] = handlers[g]
  BY DEF HandlersOK, Becomes

LEMMA MoveBecomes ==
  ASSUME HandlersOK, NEW h \in Handlers, ~In(h, "off"), NEW pc \in Pcs \ {"steal"}, Move(h, pc)
  PROVE  Becomes(h, [handlers[h] EXCEPT !.pc = pc])
<1>1. handlers[h] \in Handler /\ handlers[h].event \in Events
  BY DEF HandlersOK, Sensible, In
<1> DEFINE q == [handlers[h] EXCEPT !.pc = pc]
<1>2. q \in Handler /\ Sensible(q)
  BY <1>1 DEF Handler, Sensible
<1>3. handlers' = [handlers EXCEPT ![h] = q]
  BY DEF Move, HandlersOK
<1> QED BY <1>2, <1>3 DEF Becomes

LEMMA LeaveBecomes ==
  ASSUME HandlersOK, NEW h \in Handlers, Leave(h)
  PROVE  Becomes(h, Off)
  BY RowShapes DEF Leave, Becomes

LEMMA RowIsShape ==
  ASSUME InboxOK, NEW h \in Handlers, handlers[h].event \in Events, NEW row \in InboxRow,
         RowIs(h, row)
  PROVE  /\ InboxOK' /\ inbox'[handlers[h].event] = row
         /\ \A e \in Events \ {handlers[h].event} : inbox'[e] = inbox[e]
  BY DEF InboxOK, RowIs
-----------------------------------------------------------------------------
(* What is done, and what a step may do to it.                                *)

\* What the provider was told is done, what the inbox keeps as completed and
\* what a handler is about to complete, all lie in S.
DoneIn(S) ==
  /\ acked \subseteq S
  /\ \A e \in Events : inbox[e].status = "completed" => e \in S
  /\ \A h \in Handlers : In(h, "complete") => handlers[h].event \in S

CompletedStays ==
  \A e \in Events : inbox[e].status = "completed" => inbox'[e].status \in {"completed", "none"}
Keeps(S) == HandlersOK' /\ InboxOK' /\ DoneIn(S)' /\ CompletedStays

\* What is enough of a step of one handler.
LEMMA StepKeeps ==
  ASSUME Shape, NEW S, DoneIn(S), NEW h \in Handlers, NEW q, Becomes(h, q), InboxOK',
         acked' \subseteq S, CompletedStays,
         \A e \in Events : inbox'[e].status = "completed" =>
           inbox[e].status = "completed" \/ e \in S,
         q.pc = "complete" => q.event \in S
  PROVE  Keeps(S)
<1>1. /\ HandlersOK' /\ handlers'[h] = q
      /\ \A g \in Handlers \ {h} : handlers'[g] = handlers[g]
  BY BecomesShape DEF Shape
<1>2. (\A g \in Handlers : In(g, "complete") => handlers[g].event \in S)'
  BY <1>1 DEF DoneIn, In
<1>3. DoneIn(S)'
  BY <1>2 DEF DoneIn
<1> QED BY <1>1, <1>3 DEF Keeps

\* A step that only moves its handler, to no settled place.
LEMMA MoveKeeps ==
  ASSUME Shape, NEW S, DoneIn(S), NEW h \in Handlers, NEW q, Becomes(h, q),
         q.pc # "complete", UNCHANGED inbox, acked' \subseteq S
  PROVE  Keeps(S)
  BY StepKeeps DEF Shape, InboxOK, CompletedStays

\* A step that settles, or claims, the row of its handler.
LEMMA SettleKeeps ==
  ASSUME Shape, NEW S, DoneIn(S), NEW h \in Handlers, NEW q, Becomes(h, q),
         q.pc # "complete", handlers[h].event \in Events, NEW row \in InboxRow, RowIs(h, row),
         Row(h).status # "completed" \/ row.status = "completed",
         row.status = "completed" => handlers[h].event \in S, acked' \subseteq S
  PROVE  Keeps(S)
<1>1. /\ InboxOK' /\ inbox'[handlers[h].event] = row
      /\ \A e \in Events \ {handlers[h].event} : inbox'[e] = inbox[e]
  BY RowIsShape DEF Shape
<1>2. CompletedStays
  BY <1>1 DEF CompletedStays, Row
<1> QED BY <1>1, <1>2, StepKeeps

-----------------------------------------------------------------------------
\* The steps of a handler in the inbox.
LEMMA HandlerStepsKeep ==
  ASSUME Shape, NEW S, DoneIn(S), NEW h \in Handlers, HandlerSteps(h)
  PROVE  Keeps(S)
<1>1. HandlersOK /\ InboxOK /\ acked \subseteq S
  BY DEF Shape, DoneIn
<1>2. \A s \in {"read", "work", "fail"} : s \in Pcs \ {"steal"} /\ s # "complete"
  BY DEF Pcs
<1>3. ASSUME NEW s \in {"read", "work", "fail"}, ~In(h, "off"), Move(h, s)
      PROVE  \E q : Becomes(h, q) /\ q.pc # "complete"
  <2>1. [handlers[h] EXCEPT !.pc = s].pc = s
    BY <1>1 DEF HandlersOK, Handler
  <2> QED BY <1>1, <1>2, <1>3, <2>1, MoveBecomes
<1>4. ASSUME Leave(h)
      PROVE  \E q : Becomes(h, q) /\ q.pc # "complete"
  BY <1>1, <1>4, LeaveBecomes DEF Off
<1>5. ~In(h, "off") /\ handlers[h].event \in Events
  BY <1>1 DEF HandlerSteps, Insert, ReadRow, Steal, Complete, Fail, In, HandlersOK, Sensible
<1>6. CASE Insert(h)
  <2>1. CASE Row(h).status = "none" /\ Claimed(h) /\ Move(h, "work")
    BY <1>1, <1>3, <1>5, <1>6, <2>1, SettleKeeps, RowShapes DEF Insert, Claimed
  <2>2. CASE Move(h, "read") /\ UNCHANGED inbox
    BY <1>1, <1>3, <1>5, <1>6, <2>2, MoveKeeps DEF Insert
  <2> QED BY <1>6, <2>1, <2>2 DEF Insert
<1>7. CASE ReadRow(h)
  <2>1. UNCHANGED inbox
    BY <1>7 DEF ReadRow
  <2>2. CASE Leave(h) /\ UNCHANGED acked
    BY <1>1, <1>4, <2>1, <2>2, MoveKeeps
  <2>3. CASE Row(h).status = "completed" /\ Leave(h) /\ Ack(h)
    <3>1. handlers[h].event \in S
      BY <1>5, <2>3 DEF DoneIn, Row
    <3> QED BY <1>1, <1>4, <2>1, <2>3, <3>1, MoveKeeps DEF Ack
  <2>4. CASE /\ Row(h).status \in {"failed", "processing"} /\ UNCHANGED acked
             /\ handlers' = [handlers EXCEPT ![h].pc = "steal", ![h].seen = Row(h)]
    <3> DEFINE q == [handlers[h] EXCEPT !.pc = "steal", !.seen = Row(h)]
    <3>1. handlers[h] \in Handler /\ Row(h) \in InboxRow
      BY <1>1, <1>5 DEF HandlersOK, InboxOK, Row
    <3>2. q \in Handler /\ Sensible(q) /\ q.pc # "complete"
      BY <1>5, <2>4, <3>1 DEF Handler, Sensible, Pcs
    <3>3. handlers' = [handlers EXCEPT ![h] = q]
      BY <1>1, <2>4 DEF HandlersOK
    <3> QED BY <1>1, <2>1, <2>4, <3>2, <3>3, MoveKeeps DEF Becomes
  <2> QED BY <1>7, <2>2, <2>3, <2>4 DEF ReadRow
<1>8. CASE Steal(h)
  <2>1. CASE Row(h) = handlers[h].seen /\ Claimed(h) /\ Move(h, "work")
    <3>1. Row(h).status # "completed"
      BY <1>1, <1>8, <2>1 DEF Steal, HandlersOK, Sensible, In
    <3> QED BY <1>1, <1>3, <1>5, <1>8, <2>1, <3>1, SettleKeeps, RowShapes DEF Steal, Claimed
  <2>2. CASE Leave(h) /\ UNCHANGED inbox
    BY <1>1, <1>4, <1>8, <2>2, MoveKeeps DEF Steal
  <2> QED BY <1>8, <2>1, <2>2 DEF Steal
<1>9. CASE Complete(h)
  <2>1. handlers[h].event \in S
    BY <1>9 DEF Complete, DoneIn
  <2>2. [NoRow EXCEPT !.status = "completed"].status = "completed"
    BY DEF NoRow
  <2>3. CASE Leave(h) /\ Ack(h) /\ Owns(h) /\ RowIs(h, [NoRow EXCEPT !.status = "completed"])
    BY <1>1, <1>4, <1>5, <2>1, <2>2, <2>3, SettleKeeps, RowShapes DEF Ack
  <2>4. CASE Leave(h) /\ Ack(h) /\ UNCHANGED inbox
    BY <1>1, <1>4, <2>1, <2>4, MoveKeeps DEF Ack
  <2>5. CASE Move(h, "fail") /\ UNCHANGED <<inbox, acked>>
    BY <1>1, <1>3, <1>5, <2>5, MoveKeeps
  <2> QED BY <1>9, <2>3, <2>4, <2>5 DEF Complete
<1>10. CASE Fail(h)
  <2>1. CASE Owns(h) /\ RowIs(h, [NoRow EXCEPT !.status = "failed"])
    <3>1. /\ Row(h).status # "completed"
          /\ [NoRow EXCEPT !.status = "failed"].status # "completed"
      BY <2>1 DEF Owns, NoRow
    <3> QED BY <1>1, <1>4, <1>5, <1>10, <2>1, <3>1, SettleKeeps, RowShapes DEF Fail
  <2>2. CASE UNCHANGED inbox
    BY <1>1, <1>4, <1>10, <2>2, MoveKeeps DEF Fail
  <2> QED BY <1>10, <2>1, <2>2 DEF Fail
<1> QED BY <1>6, <1>7, <1>8, <1>9, <1>10 DEF HandlerSteps

\* A handler is to complete only what it has worked on.
LEMMA WorkKeeps ==
  ASSUME Shape, NEW S, DoneIn(S), NEW h \in Handlers, Recovers(h) \/ Worked(h) \/ Refuse(h),
         Worked(h) => handlers[h].event \in S
  PROVE  Keeps(S)
<1>1. HandlersOK /\ InboxOK /\ ~In(h, "off") /\ UNCHANGED <<inbox, acked>> /\ acked \subseteq S
  BY DEF Shape, DoneIn, Recovers, Worked, Refuse, In
<1>2. CASE Worked(h)
  <2> DEFINE q == [handlers[h] EXCEPT !.pc = "complete"]
  <2>1. Becomes(h, q)
    BY <1>1, <1>2, MoveBecomes DEF Worked, Pcs
  <2>2. q.event \in S
    BY <1>1, <1>2 DEF HandlersOK, Handler
  <2> HIDE DEF q
  <2> QED BY <1>1, <2>1, <2>2, StepKeeps DEF InboxOK, CompletedStays
<1>3. ASSUME NEW s \in {"recover", "fail"}, Move(h, s) PROVE Keeps(S)
  <2> DEFINE q == [handlers[h] EXCEPT !.pc = s]
  <2>1. Becomes(h, q) /\ q.pc # "complete"
    BY <1>1, <1>3, MoveBecomes DEF Pcs, HandlersOK, Handler
  <2> HIDE DEF q
  <2> QED BY <1>1, <1>3, <2>1, MoveKeeps
<1> QED BY <1>2, <1>3 DEF Recovers, Refuse

LEMMA DeliverKeeps ==
  ASSUME Shape, NEW S, DoneIn(S), NEW h \in Handlers, NEW e \in Events, Deliver(h, e)
  PROVE  Keeps(S)
<1> DEFINE q == [Off EXCEPT !.pc = "insert", !.event = e]
<1>1. q \in Handler /\ Sensible(q) /\ q.pc # "complete"
  BY RowShapes DEF Off, Handler, Sensible, Pcs
<1> QED BY <1>1, MoveKeeps DEF Deliver, Becomes, DoneIn

\* The claims of a handler that is gone change their token only.
LEMMA VanishKeeps ==
  ASSUME Shape, NEW S, DoneIn(S), NEW h \in Handlers, Vanish(h)
  PROVE  Keeps(S)
<1> DEFINE Token(row) == IF row.owner = h THEN [row EXCEPT !.owner = Gone] ELSE row
<1>1. /\ inbox' = [e \in Events |-> Token(inbox[e])] /\ UNCHANGED acked
      /\ handlers' = [g \in Handlers |->
           IF g = h THEN Off ELSE [handlers[g] EXCEPT !.seen = Token(@)]]
  BY DEF Vanish, Abandon
<1>2. \A row \in InboxRow : Token(row) \in InboxRow /\ Token(row).status = row.status
  BY DEF InboxRow
<1> HIDE DEF Token
<1>3. ASSUME NEW g \in Handlers
      PROVE  /\ handlers'[g] \in Handler /\ Sensible(handlers'[g])
             /\ handlers'[g].pc = "complete" => /\ In(g, "complete")
                                                /\ handlers'[g].event = handlers[g].event
  <2>1. handlers[g] \in Handler /\ Sensible(handlers[g])
    BY DEF Shape, HandlersOK
  <2>2. Token(handlers[g].seen) \in InboxRow
        /\ Token(handlers[g].seen).status = handlers[g].seen.status
    BY <1>2, <2>1 DEF Handler
  <2>3. CASE g = h
    BY <1>1, <2>3, RowShapes DEF Off
  <2>4. CASE g # h
    <3>1. handlers'[g] = [handlers[g] EXCEPT !.seen = Token(handlers[g].seen)]
      BY <1>1, <2>4
    <3> QED BY <2>1, <2>2, <3>1 DEF Handler, Sensible, In
  <2> QED BY <2>3, <2>4
<1>4. InboxOK' /\ \A e \in Events : inbox'[e].status = inbox[e].status
  BY <1>1, <1>2 DEF Shape, InboxOK
<1>5. HandlersOK'
  BY <1>1, <1>3 DEF HandlersOK
<1>6. ASSUME NEW g \in Handlers, handlers'[g].pc = "complete"
      PROVE  handlers'[g].event \in S
  BY <1>3, <1>6 DEF DoneIn
<1>7. DoneIn(S)'
  BY <1>1, <1>4, <1>6 DEF DoneIn, In
<1> QED BY <1>4, <1>5, <1>7 DEF Keeps, CompletedStays

\* Steps that leave the handlers alone, and settle no row.
LEMMA AsideKeeps ==
  ASSUME Shape, NEW S, DoneIn(S), UNCHANGED <<handlers, acked>>, InboxOK',
         \A e \in Events : inbox'[e].status \in {inbox[e].status, "none"}
  PROVE  Keeps(S)
  BY DEF Shape, HandlersOK, DoneIn, Keeps, CompletedStays, In

LEMMA PruneKeeps ==
  ASSUME Shape, NEW S, DoneIn(S), NEW kept \in SUBSET Events, Prune(kept)
  PROVE  Keeps(S)
<1>1. InboxOK'
  BY RowShapes DEF Prune, Shape, InboxOK
<1>2. \A e \in Events : inbox'[e].status \in {inbox[e].status, "none"}
  BY DEF Prune, NoRow
<1> QED BY <1>1, <1>2, AsideKeeps DEF Prune

LEMMA ExpireKeeps ==
  ASSUME Shape, NEW S, DoneIn(S), NEW e \in Events, Expire(e)
  PROVE  Keeps(S)
<1>1. InboxOK' /\ \A x \in Events : inbox'[x].status = inbox[x].status
  BY DEF Expire, Shape, InboxOK, InboxRow
<1> QED BY <1>1, AsideKeeps DEF Expire

\* The checkout and most steps of the job touch no delivery.
LEMMA ElsewhereKeeps ==
  ASSUME Shape, NEW S, DoneIn(S), UNCHANGED delivery
  PROVE  Keeps(S)
  BY AsideKeeps DEF Shape, InboxOK, delivery

LEMMA InboxNext ==
  ASSUME Shape, [Next]_vars, NEW S, DoneIn(S),
         \A h \in Handlers : (Fulfill(h) \/ Recover(h)) /\ Worked(h) => handlers[h].event \in S
  PROVE  Keeps(S)
<1>1. CASE Buy \/ JobDie \/ UNCHANGED vars
  BY <1>1, ElsewhereKeeps DEF Buy, JobDie, vars
<1>2. CASE JobSteps
  <2>1. CASE JobStart
    BY <2>1, PruneKeeps DEF JobStart
  <2>2. CASE \E e \in Events : JobRetry(e)
    BY <2>2, DeliverKeeps, PurchaseAssumption DEF JobRetry
  <2>3. CASE \/ \E e \in Events : JobPayment(e)
             \/ JobList \/ JobOrder \/ JobMark \/ JobReplay \/ JobIntent
    BY <2>3, ElsewhereKeeps DEF JobPayment, JobList, JobOrder, JobMark, JobReplay, JobIntent
  <2> QED BY <1>2, <2>1, <2>2, <2>3 DEF JobSteps
<1>3. ASSUME NEW h \in Handlers, Receive(h) PROVE Keeps(S)
  BY <1>3, DeliverKeeps, PurchaseAssumption DEF Receive, Shape
<1>4. ASSUME NEW h \in Handlers, Handle(h) PROVE Keeps(S)
  <2>1. CASE HandlerSteps(h)
    BY <2>1, HandlerStepsKeep
  <2>2. CASE Fulfill(h) \/ Recover(h)
    <3>1. Recovers(h) \/ Worked(h) \/ Refuse(h)
      BY <2>2 DEF Fulfill, Recover
    <3> QED BY <2>2, <3>1, WorkKeeps
  <2> QED BY <1>4, <2>1, <2>2 DEF Handle
<1>5. ASSUME NEW h \in Handlers, Lose(h) PROVE Keeps(S)
  BY <1>5, VanishKeeps DEF Lose
<1>6. ASSUME NEW e \in Events, Lapse(e) PROVE Keeps(S)
  BY <1>6, ExpireKeeps DEF Lapse
<1> QED BY <1>1, <1>2, <1>3, <1>4, <1>5, <1>6 DEF Next

LEMMA PaidNext == Shape /\ [Next]_vars => (paid \subseteq Sessions)'
<1> SUFFICES ASSUME paid \subseteq Sessions, [Next]_vars PROVE paid' \subseteq Sessions
  BY DEF Shape
<1>1. ASSUME NEW s \in Sessions, Pay(s) PROVE paid' \subseteq Sessions
  BY <1>1 DEF Pay
<1>2. CASE Buy
  BY <1>1, <1>2
  DEF Buy, CheckoutNext, RequestSteps, Find, Escalate, Create, Call, MarkRefused,
      MarkAmbiguous, Finalize, Reread, Order, Catch, Die, Stale
<1>3. CASE JobSteps \/ JobDie \/ UNCHANGED vars
  BY <1>3 DEF JobSteps, JobStart, JobRetry, JobList, JobPayment, JobOrder, JobMark, JobReplay,
              JobIntent, JobDie, vars, checkout
<1>4. CASE \/ \E h \in Handlers : Receive(h) \/ Handle(h) \/ Lose(h)
           \/ \E e \in Events : Lapse(e)
  BY <1>4 DEF Receive, Handle, Fulfill, Recover, Lose, Lapse, checkout
<1> QED BY <1>2, <1>3, <1>4 DEF Next

InboxInv == Shape /\ DoneIn(Events)

LEMMA DoneInit == Init => \A S : DoneIn(S)
  BY DEF Init, InboxInit, DoneIn, NoRow, Off, In

LEMMA InboxInvInit == Init => InboxInv
  BY ShapeInit, DoneInit DEF InboxInv

LEMMA InboxKeeps == InboxInv /\ [Next]_vars => Keeps(Events)
<1> SUFFICES ASSUME InboxInv, [Next]_vars PROVE Keeps(Events)
  OBVIOUS
<1>1. \A h \in Handlers : Worked(h) => handlers[h].event \in Events
  BY DEF InboxInv, Shape, HandlersOK, Sensible, Worked
<1> QED BY <1>1, InboxNext DEF InboxInv

LEMMA InboxInvNext == InboxInv /\ [Next]_vars => InboxInv'
  BY InboxKeeps, PaidNext DEF Keeps, InboxInv, Shape

\* A completed delivery is not reopened by an owner that lost its lease, nor
\* stolen by one that read the row before (store.ts 269-292).
THEOREM CompletedFinal == Spec => CompletedIsFinal
<1>1. InboxInv /\ [Next]_vars => [CompletedStays]_delivery
  BY InboxKeeps DEF Keeps
<1> QED BY <1>1, InboxInvInit, InboxInvNext, PTL DEF Spec, CompletedIsFinal, CompletedStays

-----------------------------------------------------------------------------
(* One page for one key.                                                      *)

Statuses == {"none", "pending", "created", "failed", "recovered", "needs_reconciliation"}
Intent == [status : Statuses, session : Sessions \cup {None},
           finalize : BOOLEAN, fresh : BOOLEAN]
RequestPcs == {"idle", "escalate", "create", "call", "refusal", "unsure", "finalize",
               "reread", "order", "catch"}
Request == [pc : RequestPcs, session : Sessions \cup {None}]
JobState == [pc : {"rest", "inbox", "payments", "order", "mark", "replay"},
             seen : SUBSET Sessions, todo : SUBSET Sessions,
             payment : Sessions \cup {None}, status : Statuses]
BuyTyped ==
  /\ intent \in Intent /\ requests \in [Requests -> Request] /\ sessions \subseteq Sessions
  /\ paid \subseteq Sessions /\ job \in JobState

\* The requests that passed the row of the key, and those that have a session.
Past == {"call", "refusal", "unsure", "finalize", "reread", "order", "catch"}
Holding == {"finalize", "reread", "order", "catch"}
Pc(r) == requests[r].pc

\* One request is past the row, and it has the only session.
OnePast ==
  /\ \A r, t \in Requests : Pc(r) \in Past /\ Pc(t) \in Past => r = t
  /\ \A r \in Requests :
       /\ Pc(r) \in Past => intent.status # "none"
       /\ Pc(r) = "call" => sessions = {}
       /\ Pc(r) # "refusal"
       /\ Pc(r) \in Holding => sessions = {requests[r].session}
OneSession ==
  /\ \A s, t \in sessions : s = t
  /\ shown \subseteq sessions /\ paid \subseteq shown
  /\ intent.status = "none" => sessions = {}
  /\ intent.status = "created" => intent.session \in sessions
  /\ intent.status # "failed" /\ (intent.status = "recovered" => paid # {})
\* The job has seen a payment before it writes a status, and not that of a row
\* that is missing or was refused.
JobSeen ==
  /\ job.seen \subseteq paid
  /\ job.pc \in {"payments", "order", "mark", "replay"} => job.todo \subseteq paid
  /\ job.pc \in {"order", "mark"} =>
       /\ paid # {} /\ job.status \notin {"none", "failed"}
       /\ job.status = "created" => intent.session \in sessions
PageInv == OnePast /\ OneSession /\ JobSeen
BuyInv == BuyTyped /\ (~Refused => PageInv)

LEMMA BuyInit == Init => BuyInv
<1> SUFFICES ASSUME Init PROVE BuyInv
  OBVIOUS
<1>1. BuyTyped
  BY DEF Init, CheckoutInit, BuyTyped, Intent, Statuses, Request, RequestPcs, Idle,
         JobState, Rest
<1>2. OnePast
  BY DEF Init, CheckoutInit, OnePast, Pc, Idle, Past, Holding
<1>3. OneSession
  BY DEF Init, CheckoutInit, OneSession
<1>4. JobSeen
  BY DEF Init, JobSeen, Rest
<1> QED BY <1>1, <1>2, <1>3, <1>4 DEF BuyInv, PageInv

\* What a statement makes of its request, and of no other.
LEMMA RequestMoves ==
  ASSUME BuyTyped, NEW r \in Requests
  PROVE  /\ \A pc \in RequestPcs : Goto(r, pc) =>
              /\ requests' \in [Requests -> Request]
              /\ requests'[r].pc = pc /\ requests'[r].session = requests[r].session
              /\ \A t \in Requests \ {r} : requests'[t] = requests[t]
         /\ Answer(r) =>
              /\ requests' \in [Requests -> Request]
              /\ requests'[r].pc = "idle"
              /\ \A t \in Requests \ {r} : requests'[t] = requests[t]
  BY DEF BuyTyped, Goto, Answer, Idle, Request, RequestPcs

LEMMA IntentMoves ==
  ASSUME BuyTyped, NEW s \in Statuses
  PROVE  /\ IntentIs(s) => /\ intent' \in Intent /\ intent'.status = s
                           /\ intent'.session = intent.session
         /\ Escalated \in Intent /\ Escalated.status = "needs_reconciliation"
         /\ Escalated.session = intent.session
  BY DEF BuyTyped, Intent, IntentIs, Escalated, Statuses

\* A request that goes on, or ends, with the session it has.
LEMMA PastKept ==
  ASSUME OnePast, NEW r \in Requests, UNCHANGED sessions,
         \A t \in Requests \ {r} : requests'[t] = requests[t],
         Pc(r)' \in Past => Pc(r) \in Past, Pc(r)' \notin {"call", "refusal"},
         Pc(r)' \in Holding => Pc(r) \in Holding /\ requests'[r].session = requests[r].session,
         intent.status # "none" => intent'.status # "none"
  PROVE  OnePast'
  BY DEF OnePast, Pc

\* The job is not disturbed by a request.
LEMMA JobKept ==
  ASSUME JobSeen, UNCHANGED job, paid \subseteq paid',
         intent.session \in sessions => intent'.session \in sessions'
  PROVE  JobSeen'
<1>1. paid # {} => paid' # {}
  OBVIOUS
<1> QED BY <1>1 DEF JobSeen

LEMMA FindPage ==
  ASSUME BuyInv, NEW r \in Requests, UNCHANGED job, ~Again, Find(r)
  PROVE  BuyInv'
<1> USE DEF BuyInv, PageInv
<1>1. /\ BuyTyped /\ UNCHANGED <<job, paid, intent, sessions, answers>>
      /\ Refused <=> Refused'
  BY DEF Find, Refused
<1>2. \/ UNCHANGED requests
      \/ \E pc \in {"escalate", "create"} : Goto(r, pc)
      \/ intent.status \in {"failed", "recovered"} /\ paid = {} /\ Goto(r, "call")
  BY DEF Find
<1>3. \A pc \in {"escalate", "create", "call"} : pc \in RequestPcs
  BY DEF RequestPcs
<1>4. requests' \in [Requests -> Request]
  BY <1>1, <1>2, <1>3, RequestMoves DEF BuyTyped
<1>5. BuyTyped'
  BY <1>1, <1>4 DEF BuyTyped
<1>6. ASSUME ~Refused PROVE PageInv'
  <2>1. UNCHANGED requests \/ \E pc \in {"escalate", "create"} : Goto(r, pc)
    BY <1>2, <1>6 DEF OneSession
  <2>2. ASSUME UNCHANGED requests PROVE OnePast'
    BY <1>1, <1>6, <2>2 DEF OnePast, Pc
  <2>3. ASSUME NEW pc \in {"escalate", "create"}, Goto(r, pc) PROVE OnePast'
    <3>1. /\ requests'[r].pc \notin Past \cup Holding
          /\ \A t \in Requests \ {r} : requests'[t] = requests[t]
      BY <1>1, <1>3, <2>3, RequestMoves DEF Past, Holding
    <3>2. Pc(r)' \notin {"call", "refusal"} /\ Pc(r)' \notin Past /\ Pc(r)' \notin Holding
      BY <3>1 DEF Pc, Past
    <3> QED BY <1>1, <1>6, <3>1, <3>2, PastKept
  <2>4. OneSession'
    BY <1>1, <1>6 DEF Find, Show, OneSession
  <2>5. JobSeen'
    BY <1>1, <1>6, JobKept
  <2> QED BY <2>1, <2>2, <2>3, <2>4, <2>5
<1> QED BY <1>1, <1>5, <1>6

\* A request that ends, with what it makes of the row.
LEMMA AnswerPage ==
  ASSUME BuyInv, NEW r \in Requests, UNCHANGED job,
         Escalate(r) \/ Die(r) \/ MarkRefused(r) \/ MarkAmbiguous(r)
  PROVE  BuyInv'
<1> USE DEF BuyInv, PageInv
<1>1. /\ BuyTyped /\ UNCHANGED <<job, paid, sessions, shown, answers>>
      /\ Answer(r) /\ (Refused <=> Refused')
  BY DEF Escalate, Die, MarkRefused, MarkAmbiguous, Refused
<1>2. \/ UNCHANGED intent \/ intent' = Escalated \/ IntentIs(intent.status)
      \/ Pc(r) = "refusal" /\ IntentIs("failed")
  BY DEF Escalate, Die, MarkRefused, MarkAmbiguous, At, Pc
<1>3. intent.status \in Statuses /\ "failed" \in Statuses
  BY <1>1 DEF BuyTyped, Intent, Statuses
<1>4. intent' \in Intent
  BY <1>1, <1>2, <1>3, IntentMoves DEF BuyTyped
<1>5. BuyTyped'
  BY <1>1, <1>4, RequestMoves DEF BuyTyped
<1>6. ASSUME ~Refused PROVE PageInv'
  <2>1. /\ intent'.session = intent.session
        /\ intent'.status \in {"needs_reconciliation", intent.status}
    BY <1>1, <1>2, <1>3, <1>6, IntentMoves DEF OnePast
  <2>2. OneSession'
    BY <1>1, <1>6, <2>1 DEF OneSession
  <2>3. /\ Pc(r)' \notin Past /\ Pc(r)' \notin Holding /\ Pc(r)' \notin {"call", "refusal"}
        /\ \A t \in Requests \ {r} : requests'[t] = requests[t]
    BY <1>1, RequestMoves DEF Pc, Past, Holding
  <2>4. OnePast'
    BY <1>1, <1>6, <2>1, <2>3, PastKept
  <2>5. JobSeen'
    BY <1>1, <1>6, <2>1, JobKept
  <2> QED BY <2>2, <2>4, <2>5
<1> QED BY <1>1, <1>5, <1>6

LEMMA CreatePage ==
  ASSUME BuyInv, NEW r \in Requests, UNCHANGED job, Create(r)
  PROVE  BuyInv'
<1> USE DEF BuyInv, PageInv
<1>1. /\ BuyTyped /\ UNCHANGED <<job, paid, sessions, shown, answers>>
      /\ Refused <=> Refused'
  BY DEF Create, Refused
<1>2. CASE Answer(r) /\ UNCHANGED intent
  <2>1. BuyTyped'
    BY <1>1, <1>2, RequestMoves DEF BuyTyped
  <2>2. ASSUME ~Refused PROVE PageInv'
    <3>1. /\ Pc(r)' \notin Past /\ Pc(r)' \notin Holding /\ Pc(r)' \notin {"call", "refusal"}
          /\ \A t \in Requests \ {r} : requests'[t] = requests[t]
      BY <1>1, <1>2, RequestMoves DEF Pc, Past, Holding
    <3>2. OnePast'
      BY <1>1, <1>2, <2>2, <3>1, PastKept
    <3>3. JobSeen'
      BY <1>1, <1>2, <2>2, JobKept
    <3> QED BY <1>1, <1>2, <2>2, <3>2, <3>3 DEF OneSession
  <2> QED BY <1>1, <2>1, <2>2
<1>3. CASE intent.status = "none" /\ IntentIs("pending") /\ Goto(r, "call")
  <2>1. /\ intent' \in Intent /\ intent'.status = "pending" /\ intent'.session = intent.session
        /\ "call" \in RequestPcs
    BY <1>1, <1>3, IntentMoves DEF Statuses, RequestPcs
  <2>2. /\ requests' \in [Requests -> Request] /\ Pc(r)' = "call"
        /\ \A t \in Requests \ {r} : requests'[t] = requests[t]
    BY <1>1, <1>3, <2>1, RequestMoves DEF Pc
  <2>3. BuyTyped'
    BY <1>1, <2>1, <2>2 DEF BuyTyped
  <2>4. ASSUME ~Refused PROVE PageInv'
    <3>1. sessions = {} /\ \A t \in Requests : Pc(t) \notin Past
      BY <1>3, <2>4 DEF OneSession, OnePast
    <3>2. \A t \in Requests \ {r} : Pc(t)' \notin Past /\ Pc(t)' # "refusal"
      BY <2>2, <3>1 DEF Pc, Past
    <3>3. OnePast'
      BY <1>1, <2>1, <2>2, <3>1, <3>2 DEF OnePast, Past, Holding
    <3>4. OneSession'
      BY <1>1, <2>1, <2>4, <3>1 DEF OneSession
    <3>5. JobSeen'
      BY <1>1, <2>1, <2>4, JobKept
    <3> QED BY <3>3, <3>4, <3>5
  <2> QED BY <1>1, <2>3, <2>4
<1> QED BY <1>2, <1>3 DEF Create

LEMMA CallPage ==
  ASSUME BuyInv, NEW r \in Requests, UNCHANGED job, Call(r)
  PROVE  BuyInv'
<1> USE DEF BuyInv, PageInv
<1>1. BuyTyped /\ UNCHANGED <<job, paid, shown, intent>> /\ Pc(r) = "call"
  BY DEF Call, At, Pc
<1>2. ASSUME NEW s \in Sessions \ sessions, sessions' = sessions \cup {s},
             requests' = [requests EXCEPT ![r] = [pc |-> "finalize", session |-> s]],
             UNCHANGED answers
      PROVE  BuyInv'
  <2>1. [pc |-> "finalize", session |-> s] \in Request
    BY DEF Request, RequestPcs
  <2>2. /\ requests' \in [Requests -> Request]
        /\ Pc(r)' = "finalize" /\ requests'[r].session = s
        /\ \A t \in Requests \ {r} : requests'[t] = requests[t]
    BY <1>1, <1>2, <2>1 DEF BuyTyped, Pc
  <2>3. BuyTyped'
    BY <1>1, <1>2, <2>2 DEF BuyTyped
  <2>4. ASSUME ~Refused PROVE PageInv'
    <3>1. sessions = {} /\ sessions' = {s} /\ intent.status # "none"
      BY <1>1, <1>2, <2>4 DEF OnePast, Past
    <3>2. \A t \in Requests \ {r} : Pc(t) \notin Past
      BY <1>1, <2>4 DEF OnePast, Past
    <3>3. \A t \in Requests \ {r} : Pc(t)' \notin Past
      BY <2>2, <3>2 DEF Pc
    <3>4. OnePast'
      BY <1>1, <2>2, <3>1, <3>3 DEF OnePast, Past, Holding
    <3>5. OneSession'
      BY <1>1, <2>4, <3>1 DEF OneSession
    <3>6. JobSeen'
      BY <1>1, <1>2, <2>4, JobKept
    <3> QED BY <3>4, <3>5, <3>6
  <2> QED BY <1>2, <2>3, <2>4 DEF Refused
<1>3. ASSUME NEW a \in {"refusal", "unsure"}, Goto(r, a), answers' = answers \cup {a},
             UNCHANGED sessions
      PROVE  BuyInv'
  <2>1. a \in RequestPcs
    BY DEF RequestPcs
  <2>2. BuyTyped'
    BY <1>1, <1>3, <2>1, RequestMoves DEF BuyTyped
  <2>3. ASSUME ~Refused' PROVE PageInv'
    <3>1. ~Refused /\ a = "unsure"
      BY <1>3, <2>3 DEF Refused
    <3>2. /\ Pc(r)' = "unsure" /\ \A t \in Requests \ {r} : requests'[t] = requests[t]
      BY <1>1, <1>3, <2>1, <3>1, RequestMoves DEF Pc
    <3>3. OnePast'
      BY <1>1, <1>3, <3>1, <3>2, PastKept DEF Past, Holding
    <3>4. JobSeen'
      BY <1>1, <1>3, <3>1, JobKept
    <3> QED BY <1>1, <1>3, <3>1, <3>3, <3>4 DEF OneSession
  <2> QED BY <2>2, <2>3
<1> QED BY <1>2, <1>3 DEF Call

\* A request that has a session.
LEMMA HoldingPage ==
  ASSUME BuyInv, NEW r \in Requests, UNCHANGED job,
         Finalize(r) \/ Reread(r) \/ Order(r) \/ Catch(r)
  PROVE  BuyInv'
<1> USE DEF BuyInv, PageInv
<1> DEFINE s == requests[r].session
<1>1. /\ BuyTyped /\ UNCHANGED <<job, paid, sessions, answers>>
      /\ Pc(r) \in Holding /\ (Refused <=> Refused')
  BY DEF Finalize, Reread, Order, Catch, At, Pc, Holding, Refused
<1>2. s \in Sessions \cup {None}
  BY <1>1 DEF BuyTyped, Request
<1>3. \/ UNCHANGED intent
      \/ intent' = [status |-> "created", session |-> s, finalize |-> FALSE, fresh |-> TRUE]
      \/ intent' = [intent EXCEPT !.status = "pending", !.finalize = TRUE, !.fresh = TRUE]
  BY DEF Finalize, Reread, Order, Catch
<1>4. /\ intent' \in Intent
      /\ \/ UNCHANGED intent
         \/ intent'.status = "created" /\ intent'.session = s
         \/ intent'.status = "pending" /\ intent'.session = intent.session
  <2>1. intent \in Intent
    BY <1>1 DEF BuyTyped
  <2>2. CASE intent' = [status |-> "created", session |-> s, finalize |-> FALSE, fresh |-> TRUE]
    BY <1>2, <2>2 DEF Intent, Statuses
  <2>3. CASE intent' = [intent EXCEPT !.status = "pending", !.finalize = TRUE, !.fresh = TRUE]
    BY <2>1, <2>3 DEF Intent, Statuses
  <2> QED BY <1>3, <2>1, <2>2, <2>3
<1>5. Answer(r) \/ \E pc \in {"order", "reread", "catch"} : Goto(r, pc)
  BY DEF Finalize, Reread, Order, Catch
<1>6. \A pc \in {"order", "reread", "catch"} : pc \in RequestPcs
  BY DEF RequestPcs
<1>7. /\ requests' \in [Requests -> Request]
      /\ \A t \in Requests \ {r} : requests'[t] = requests[t]
      /\ Pc(r)' \notin {"call", "refusal"}
      /\ Pc(r)' \in Holding => requests'[r].session = s
  BY <1>1, <1>5, <1>6, RequestMoves DEF Pc, Holding
<1>8. BuyTyped'
  BY <1>1, <1>4, <1>7 DEF BuyTyped
<1>9. \/ UNCHANGED shown
      \/ intent.status = "created" /\ Show(intent.session)
      \/ Show(s)
  BY DEF Finalize, Reread, Order, Catch
<1>10. ASSUME ~Refused PROVE PageInv'
  <2>1. sessions = {s} /\ intent.status # "none"
    BY <1>1, <1>10 DEF OnePast, Holding, Past
  <2>2. OnePast'
    <3>1. Pc(r) \in Past
      BY <1>1 DEF Holding, Past
    <3> QED BY <1>1, <1>4, <1>7, <1>10, <3>1, PastKept
  <2>3. shown \subseteq shown' /\ shown' \subseteq sessions
    BY <1>9, <1>10, <2>1 DEF OneSession, Show
  <2>4. OneSession'
    BY <1>1, <1>4, <1>10, <2>1, <2>3 DEF OneSession
  <2>5. JobSeen'
    BY <1>1, <1>4, <1>10, <2>1, JobKept
  <2> QED BY <2>2, <2>4, <2>5
<1> QED BY <1>1, <1>8, <1>10

\* The buyer pays, and ten minutes pass.
LEMMA TimePage ==
  ASSUME BuyInv, UNCHANGED job, Stale \/ \E s \in Sessions : Pay(s)
  PROVE  BuyInv'
<1> USE DEF BuyInv, PageInv
<1>1. /\ BuyTyped /\ UNCHANGED <<job, requests, sessions, shown, answers>>
      /\ paid \subseteq paid' /\ paid' \subseteq Sessions \cap (paid \cup shown)
  BY DEF Stale, Pay, BuyTyped
<1>2. /\ intent' \in Intent /\ intent'.status = intent.status
      /\ intent'.session = intent.session
  BY <1>1 DEF Stale, Pay, BuyTyped, Intent
<1>3. BuyTyped'
  BY <1>1, <1>2 DEF BuyTyped
<1>4. ASSUME ~Refused PROVE PageInv'
  <2>1. OnePast'
    BY <1>1, <1>2, <1>4 DEF OnePast, Pc
  <2>2. OneSession'
    <3>1. paid # {} => paid' # {}
      BY <1>1
    <3> QED BY <1>1, <1>2, <1>4, <3>1 DEF OneSession
  <2>3. JobSeen'
    BY <1>1, <1>2, <1>4, JobKept
  <2> QED BY <2>1, <2>2, <2>3
<1> QED BY <1>1, <1>3, <1>4 DEF Refused

\* What the job makes of its own state, and nobody else's.
LEMMA JobMovePage ==
  ASSUME BuyInv, UNCHANGED <<intent, requests, sessions, shown, paid, answers>>,
         job' \in JobState, ~Refused /\ JobSeen => JobSeen'
  PROVE  BuyInv'
<1>1. BuyTyped'
  BY DEF BuyInv, BuyTyped
<1>2. ASSUME ~Refused PROVE OnePast' /\ OneSession'
  BY <1>2 DEF BuyInv, PageInv, OnePast, OneSession, Pc
<1> QED BY <1>1, <1>2 DEF BuyInv, PageInv, Refused

\* The job writes a status it may write.
LEMMA JobWritePage ==
  ASSUME BuyInv, UNCHANGED <<requests, sessions, shown, paid, answers>>,
         job' \in JobState, intent' \in Intent, intent'.session = intent.session,
         ~Refused /\ PageInv =>
           /\ JobSeen'
           /\ intent'.status \notin {"none", "failed"}
           /\ intent'.status = "created" => intent.session \in sessions
           /\ intent'.status = "recovered" => paid # {}
  PROVE  BuyInv'
<1>1. BuyTyped'
  BY DEF BuyInv, BuyTyped
<1>2. ASSUME ~Refused PROVE OnePast' /\ OneSession'
  BY <1>2 DEF BuyInv, PageInv, OnePast, OneSession, Pc
<1> QED BY <1>1, <1>2 DEF BuyInv, PageInv, Refused

LEMMA RestPage == Rest \in JobState /\ Rest.seen = {} /\ Rest.pc = "rest"
  BY DEF Rest, JobState, Statuses

LEMMA DonePage ==
  ASSUME BuyInv, Done, job.pc \in {"order", "mark", "replay"}
  PROVE  /\ job' \in JobState
         /\ UNCHANGED <<intent, sessions, paid>> /\ ~Refused /\ JobSeen => JobSeen'
<1>1. job \in JobState
  BY DEF BuyInv, BuyTyped
<1>2. CASE job' = Rest
  BY <1>2, RestPage DEF JobSeen
<1>3. CASE job' = [job EXCEPT !.pc = "payments", !.todo = @ \ {job.payment}]
  <2>1. /\ job' \in JobState /\ job'.pc = "payments" /\ job'.seen = job.seen
        /\ job'.todo \subseteq job.todo
    BY <1>1, <1>3 DEF JobState
  <2> QED BY <2>1 DEF JobSeen
<1> QED BY <1>2, <1>3 DEF Done

LEMMA JobDoPage ==
  ASSUME BuyTyped, NEW pc \in {"replay", "order", "mark"}, NEW p \in Sessions,
         NEW s \in Statuses, JobDo(pc, p, s)
  PROVE  /\ job' \in JobState /\ job'.pc = pc /\ job'.status = s
         /\ job'.seen = job.seen /\ job'.todo = job.todo
  BY DEF BuyTyped, JobDo, JobState

LEMMA JobPage ==
  ASSUME BuyInv, JobSteps
  PROVE  BuyInv'
<1>1. /\ BuyTyped /\ job \in JobState /\ intent \in Intent /\ paid \subseteq Sessions
      /\ intent.status \in Statuses /\ Events = Sessions
  BY PurchaseAssumption DEF BuyInv, BuyTyped, Intent
<1>2. CASE JobStart
  <2> DEFINE kept == {e \in Events : inbox'[e].status \in {"failed", "processing"}}
  <2>1. job' = [Rest EXCEPT !.pc = "inbox", !.todo = kept] /\ UNCHANGED checkout
    BY <1>2 DEF JobStart
  <2>2. kept \in SUBSET Sessions
    BY <1>1
  <2> HIDE DEF kept
  <2>3. job' \in JobState /\ job'.pc = "inbox" /\ job'.seen = {}
    BY <2>1, <2>2 DEF Rest, JobState, Statuses
  <2> QED BY <2>1, <2>3, JobMovePage DEF checkout, JobSeen
<1>3. ASSUME NEW e \in Events, JobRetry(e) PROVE BuyInv'
  <2>1. /\ job' \in JobState /\ job'.pc = "inbox" /\ job'.seen = job.seen
        /\ UNCHANGED checkout
    BY <1>1, <1>3 DEF JobRetry, JobAt, JobState
  <2> QED BY <2>1, JobMovePage DEF checkout, JobSeen
<1>4. CASE JobList
  <2>1. CASE job' = [job EXCEPT !.pc = "payments", !.seen = paid, !.todo = paid]
    <3>1. job' \in JobState /\ job'.pc = "payments" /\ job'.seen = paid /\ job'.todo = paid
      BY <1>1, <2>1 DEF JobState
    <3> QED BY <1>4, <3>1, JobMovePage DEF JobList, checkout, JobSeen
  <2>2. CASE job' = Rest
    BY <1>4, <2>2, RestPage, JobMovePage DEF JobList, checkout, JobSeen
  <2> QED BY <1>4, <2>1, <2>2 DEF JobList
<1>5. ASSUME NEW p \in Events, JobPayment(p) PROVE BuyInv'
  <2>1. PICK pc \in {"replay", "order"}, s \in Statuses :
          /\ JobDo(pc, p, s) /\ s \in {"recovered", intent.status} /\ UNCHANGED checkout
    BY <1>1, <1>5 DEF JobPayment, Statuses
  <2>2. /\ job' \in JobState /\ job'.pc = pc /\ job'.status = s
        /\ job'.seen = job.seen /\ job'.todo = job.todo
    BY <1>1, <2>1, JobDoPage
  <2>3. ASSUME ~Refused, JobSeen PROVE JobSeen'
    <3>1. job.todo \subseteq paid /\ paid # {}
      BY <1>5, <2>3 DEF JobPayment, JobAt, JobSeen
    <3>2. /\ s \notin {"none", "failed"} /\ (s = "created" => intent.session \in sessions)
      BY <2>1, <2>3, <3>1 DEF BuyInv, PageInv, OneSession
    <3> QED BY <2>1, <2>2, <2>3, <3>1, <3>2 DEF JobSeen, checkout
  <2> QED BY <2>1, <2>2, <2>3, JobMovePage DEF checkout
<1>6. CASE JobOrder
  <2>1. UNCHANGED <<intent, requests, sessions, shown, paid, answers>> /\ JobAt("order")
    BY <1>6 DEF JobOrder
  <2>2. CASE job' = [job EXCEPT !.pc = "mark"]
    <3>1. /\ job' \in JobState /\ job'.pc = "mark" /\ job'.status = job.status
          /\ job'.seen = job.seen /\ job'.todo = job.todo
      BY <1>1, <2>2 DEF JobState
    <3> QED BY <2>1, <3>1, JobMovePage DEF JobSeen, JobAt
  <2>3. CASE Done
    BY <2>1, <2>3, DonePage, JobMovePage DEF JobAt
  <2> QED BY <1>6, <2>2, <2>3 DEF JobOrder
<1>7. CASE JobMark
  <2>1. UNCHANGED <<requests, sessions, shown, paid, answers>> /\ job.pc = "mark"
    BY <1>7 DEF JobMark, JobAt
  <2>2. CASE IntentIs(job.status) /\ job' = [job EXCEPT !.pc = "replay"]
    <3>1. /\ job' \in JobState /\ job'.pc = "replay" /\ job.status \in Statuses
          /\ job'.seen = job.seen /\ job'.todo = job.todo
      BY <1>1, <2>2 DEF JobState
    <3>2. intent' \in Intent /\ intent'.status = job.status /\ intent'.session = intent.session
      BY <1>1, <2>2, <3>1, IntentMoves
    <3>3. ASSUME ~Refused, PageInv
          PROVE  /\ JobSeen' /\ paid # {} /\ job.status \notin {"none", "failed"}
                 /\ job.status = "created" => intent.session \in sessions
      BY <2>1, <3>1, <3>3 DEF PageInv, JobSeen
    <3> QED BY <2>1, <3>1, <3>2, <3>3, JobWritePage
  <2>3. CASE Done /\ UNCHANGED intent
    BY <2>1, <2>3, DonePage, JobMovePage
  <2> QED BY <1>7, <2>2, <2>3 DEF JobMark
<1>8. CASE JobReplay
  BY <1>8, DonePage, JobMovePage DEF JobReplay, JobAt
<1>9. CASE JobIntent
  <2>1. UNCHANGED <<requests, sessions, shown, paid, answers>> /\ job.pc = "payments"
    BY <1>9 DEF JobIntent, JobAt
  <2>2. ASSUME NEW p \in job.seen, NEW pc \in {"mark", "order"}, JobDo(pc, p, "recovered"),
               UNCHANGED intent
        PROVE  BuyInv'
    <3>1. /\ job' \in JobState /\ job'.pc = pc /\ job'.status = "recovered"
          /\ job'.seen = job.seen /\ job'.todo = job.todo
      <4>1. p \in Sessions /\ "recovered" \in Statuses
        BY <1>1 DEF JobState, Statuses
      <4> QED BY <1>1, <2>2, <4>1, JobDoPage
    <3>2. JobSeen => JobSeen'
      BY <2>1, <2>2, <3>1 DEF JobSeen
    <3> QED BY <2>1, <2>2, <3>1, <3>2, JobMovePage
  <2>3. CASE job' = Rest /\ UNCHANGED intent
    BY <2>1, <2>3, RestPage, JobMovePage DEF JobSeen
  <2>4. CASE job' = Rest /\ intent' = Escalated
    <3>1. /\ Escalated \in Intent /\ Escalated.status = "needs_reconciliation"
          /\ Escalated.session = intent.session
      BY <1>1, IntentMoves DEF Statuses
    <3>2. JobSeen'
      BY <2>4, RestPage DEF JobSeen
    <3> QED BY <2>1, <2>4, <3>1, <3>2, RestPage, JobWritePage
  <2> QED BY <1>9, <2>2, <2>3, <2>4 DEF JobIntent
<1> QED BY <1>2, <1>3, <1>4, <1>5, <1>6, <1>7, <1>8, <1>9 DEF JobSteps

LEMMA BuyNext == ~Again /\ BuyInv /\ [Next]_vars => BuyInv'
<1> SUFFICES ASSUME ~Again, BuyInv, [Next]_vars PROVE BuyInv'
  OBVIOUS
<1>1. CASE Buy
  BY <1>1, FindPage, AnswerPage, CreatePage, CallPage, HoldingPage, TimePage
  DEF Buy, CheckoutNext, RequestSteps
<1>2. CASE JobSteps
  BY <1>2, JobPage
<1>3. ASSUME job' \in {job, Rest}, UNCHANGED <<intent, requests, sessions, shown, paid, answers>>
      PROVE  BuyInv'
  <2>1. job' \in JobState
    BY <1>3, RestPage DEF BuyInv, BuyTyped
  <2>2. JobSeen => JobSeen'
    BY <1>3, RestPage DEF JobSeen
  <2> QED BY <1>3, <2>1, <2>2, JobMovePage
<1>4. CASE JobDie \/ UNCHANGED vars
  BY <1>3, <1>4 DEF JobDie, vars, checkout
<1>5. CASE \/ \E h \in Handlers : Receive(h) \/ Handle(h) \/ Lose(h)
           \/ \E e \in Events : Lapse(e)
  BY <1>3, <1>5 DEF Receive, Handle, Fulfill, Recover, Lose, Lapse, checkout
<1> QED BY <1>1, <1>2, <1>4, <1>5 DEF Next

\* One key gives the buyer one page to pay on, for any number of requests,
\* failures and runs of the job, if the provider refused no request of the key
\* and the buyer does not use it again after paying: the primary key of the
\* row lets one request pass (routes.ts 244-291).
THEOREM OnePageEver ==
  ASSUME ~Again PROVE Spec => []OnePage
<1>1. BuyInv => OnePage
  BY DEF BuyInv, PageInv, OneSession, OnePage
<1> QED BY <1>1, BuyInit, BuyNext, PTL DEF Spec
-----------------------------------------------------------------------------
(* Types: what is shown, paid, handled and granted is known to the provider.  *)

OrderRow == [session : Sessions \cup {Recovered}, payment : Sessions \cup {None}]

\* Sessions: a page is one of the provider, a paid one was shown.
SessionsKnown ==
  /\ shown \subseteq sessions /\ paid \subseteq shown
  /\ \A r \in Requests : Pc(r) \in Holding => requests[r].session \in sessions
  /\ intent.session \in sessions \cup {None}
  /\ "created" \in {intent.status, job.status} => intent.session \in sessions
\* Payments: the job and the inbox work on what was paid.
JobKnown ==
  /\ job.seen \subseteq paid /\ job.todo \subseteq paid
  /\ job.pc \in {"order", "mark", "replay"} => job.payment \in paid
DeliveryKnown ==
  /\ \A e \in Events : inbox[e].status # "none" => e \in paid
  /\ \A h \in Handlers : handlers[h].pc # "off" => handlers[h].event \in paid
RowsTyped ==
  orders \subseteq OrderRow /\ answers \subseteq {"refusal", "unsure"} /\ faults \in Nat
Known ==
  BuyTyped /\ RowsTyped /\ SessionsKnown /\ JobKnown /\ DeliveryKnown
  /\ granted \cup missed \subseteq paid

LEMMA KnownInit == Init => Known
<1> SUFFICES ASSUME Init PROVE Known
  OBVIOUS
<1>1. BuyTyped
  BY BuyInit DEF BuyInv
<1>2. RowsTyped
  BY DEF Init, CheckoutInit, NoFaultYet, RowsTyped
<1>3. SessionsKnown
  BY DEF Init, CheckoutInit, SessionsKnown, Pc, Idle, Holding, Rest
<1>4. JobKnown
  BY DEF Init, Rest, JobKnown
<1>5. DeliveryKnown
  BY DEF Init, InboxInit, NoRow, Off, DeliveryKnown
<1> QED BY <1>1, <1>2, <1>3, <1>4, <1>5 DEF Known, Init

LEMMA FaultCounts ==
  ASSUME RowsTyped, UNCHANGED faults \/ (faults < MaxFaults /\ faults' = faults + 1)
  PROVE  faults' \in Nat
  BY DEF RowsTyped

\* What a step of a request makes of it, of the sessions and of the row.
Takes(r) ==
  /\ requests' \in [Requests -> Request]
  /\ \A t \in Requests \ {r} : requests'[t] = requests[t]
  /\ requests'[r].pc \in Holding => requests'[r].session \in sessions'
  /\ sessions \subseteq sessions' /\ sessions' \subseteq Sessions
  /\ intent' \in Intent
  /\ \/ intent'.session \in sessions'
     \/ /\ intent'.session = intent.session
        /\ intent'.status = "created" => intent.status = "created"
  /\ shown \subseteq shown' /\ shown' \subseteq sessions'

LEMMA TakesKnown ==
  ASSUME Known, NEW r \in Requests, Takes(r), UNCHANGED <<job, paid, delivery, credits>>,
         RowsTyped'
  PROVE  Known'
<1>1. BuyTyped'
  BY DEF Known, BuyTyped, Takes
<1>2. SessionsKnown'
  <2>1. (\A t \in Requests : Pc(t) \in Holding => requests[t].session \in sessions)'
    BY DEF Known, SessionsKnown, Takes, Pc
  <2>2. (intent.session \in sessions \cup {None})'
    BY DEF Known, SessionsKnown, Takes
  <2>3. ("created" \in {intent.status, job.status} => intent.session \in sessions)'
    BY DEF Known, SessionsKnown, Takes
  <2> QED BY <2>1, <2>2, <2>3 DEF Known, SessionsKnown, Takes
<1> QED BY <1>1, <1>2 DEF Known, JobKnown, DeliveryKnown, delivery, credits

\* A request that ends, or goes on with the session it has, if any.
LEMMA MoveTakes ==
  ASSUME Known, NEW r \in Requests,
         Answer(r) \/ \E pc \in RequestPcs : Goto(r, pc) /\ (pc \in Holding => Pc(r) \in Holding),
         UNCHANGED sessions, shown' \in {shown, shown \cup {intent.session}, shown \cup {requests[r].session}},
         shown' # shown => \/ shown' = shown \cup {intent.session} /\ intent.session \in sessions
                           \/ shown' = shown \cup {requests[r].session} /\ Pc(r) \in Holding,
         intent' \in Intent,
         \/ intent'.session = requests[r].session /\ Pc(r) \in Holding
         \/ /\ intent'.session = intent.session
            /\ intent'.status = "created" => intent.status = "created"
  PROVE  Takes(r)
<1>1. BuyTyped /\ SessionsKnown
  BY DEF Known
<1>2. /\ requests' \in [Requests -> Request]
      /\ \A t \in Requests \ {r} : requests'[t] = requests[t]
      /\ requests'[r].pc \in Holding => /\ Pc(r) \in Holding
                                        /\ requests'[r].session = requests[r].session
  <2>1. CASE Answer(r)
    BY <1>1, <2>1, RequestMoves DEF Holding
  <2>2. ASSUME NEW pc \in RequestPcs, Goto(r, pc), pc \in Holding => Pc(r) \in Holding
        PROVE  /\ requests' \in [Requests -> Request]
               /\ \A t \in Requests \ {r} : requests'[t] = requests[t]
               /\ requests'[r].pc \in Holding => /\ Pc(r) \in Holding
                                                 /\ requests'[r].session = requests[r].session
    BY <1>1, <2>2, RequestMoves
  <2> QED BY <2>1, <2>2
<1>3. Pc(r) \in Holding => requests[r].session \in sessions
  BY <1>1 DEF SessionsKnown
<1> QED BY <1>1, <1>2, <1>3 DEF Takes, BuyTyped, SessionsKnown
\* What a step of the checkout leaves alone, and what it counts.
LEMMA AsideRows ==
  ASSUME RowsTyped, UNCHANGED orders, answers' \subseteq answers \cup {"refusal", "unsure"},
         UNCHANGED faults \/ (faults < MaxFaults /\ faults' = faults + 1)
  PROVE  RowsTyped'
  BY FaultCounts DEF RowsTyped

LEMMA FindKnown ==
  ASSUME Known, NEW r \in Requests, Find(r), UNCHANGED <<job, delivery, credits>>
  PROVE  Known'
<1>1. /\ UNCHANGED <<intent, orders, sessions, paid, answers, faults>>
      /\ SessionsKnown /\ BuyTyped /\ RowsTyped
  BY DEF Find, Known
<1>2. RowsTyped'
  BY <1>1 DEF RowsTyped
<1>3. CASE UNCHANGED requests
  BY <1>1, <1>2, <1>3, TakesKnown DEF Find, Show, Takes, SessionsKnown, BuyTyped, Pc
<1>4. CASE \E pc \in {"escalate", "create", "call"} : Goto(r, pc) /\ UNCHANGED shown
  <2>1. \A pc \in {"escalate", "create", "call"} : pc \in RequestPcs /\ pc \notin Holding
    BY DEF RequestPcs, Holding
  <2>2. Takes(r)
    BY <1>1, <1>4, <2>1, MoveTakes DEF BuyTyped
  <2> QED BY <1>1, <1>2, <2>2, TakesKnown
<1>5. UNCHANGED requests \/ \E pc \in {"escalate", "create", "call"} : Goto(r, pc) /\ UNCHANGED shown
  BY DEF Find
<1> QED BY <1>3, <1>4, <1>5

LEMMA AnswerKnown ==
  ASSUME Known, NEW r \in Requests, UNCHANGED <<job, delivery, credits>>,
         Escalate(r) \/ Die(r) \/ MarkRefused(r) \/ MarkAmbiguous(r)
  PROVE  Known'
<1>1. /\ UNCHANGED <<orders, sessions, shown, paid, answers>> /\ Answer(r)
      /\ BuyTyped /\ RowsTyped
      /\ UNCHANGED faults \/ (faults < MaxFaults /\ faults' = faults + 1)
  BY DEF Escalate, Die, MarkRefused, MarkAmbiguous, Known, Works, Fails
<1>2. UNCHANGED intent \/ intent' = Escalated \/ IntentIs(intent.status) \/ IntentIs("failed")
  BY DEF Escalate, Die, MarkRefused, MarkAmbiguous
<1>3. intent.status \in Statuses /\ "failed" \in Statuses
  BY <1>1 DEF BuyTyped, Intent, Statuses
<1>4. /\ intent' \in Intent /\ intent'.session = intent.session
      /\ intent'.status = "created" => intent.status = "created"
  BY <1>1, <1>2, <1>3, IntentMoves DEF BuyTyped
<1>5. RowsTyped'
  BY <1>1, AsideRows
<1> QED BY <1>1, <1>4, <1>5, MoveTakes, TakesKnown

LEMMA CreateKnown ==
  ASSUME Known, NEW r \in Requests, UNCHANGED <<job, delivery, credits>>, Create(r)
  PROVE  Known'
<1>1. /\ UNCHANGED <<orders, sessions, shown, paid, answers>>
      /\ BuyTyped /\ RowsTyped
      /\ UNCHANGED faults \/ (faults < MaxFaults /\ faults' = faults + 1)
      /\ Answer(r) \/ Goto(r, "call")
      /\ UNCHANGED intent \/ IntentIs("pending")
  BY DEF Create, Known, Works, Fails
<1>2. "pending" \in Statuses /\ "call" \in RequestPcs /\ "call" \notin Holding
  BY DEF Statuses, RequestPcs, Holding
<1>3. /\ intent' \in Intent /\ intent'.session = intent.session
      /\ intent'.status = "created" => intent.status = "created"
  BY <1>1, <1>2, IntentMoves DEF BuyTyped
<1>4. RowsTyped'
  BY <1>1, AsideRows
<1> QED BY <1>1, <1>2, <1>3, <1>4, MoveTakes, TakesKnown

LEMMA CallKnown ==
  ASSUME Known, NEW r \in Requests, UNCHANGED <<job, delivery, credits>>, Call(r)
  PROVE  Known'
<1>1. /\ UNCHANGED <<intent, orders, shown, paid>> /\ BuyTyped /\ RowsTyped /\ SessionsKnown
      /\ UNCHANGED faults \/ (faults < MaxFaults /\ faults' = faults + 1)
      /\ answers' \subseteq answers \cup {"refusal", "unsure"}
  BY DEF Call, Known, Works, Fails
<1>2. RowsTyped'
  BY <1>1, AsideRows
<1>3. ASSUME NEW s \in Sessions \ sessions, sessions' = sessions \cup {s},
             requests' = [requests EXCEPT ![r] = [pc |-> "finalize", session |-> s]]
      PROVE  Known'
  <2>1. [pc |-> "finalize", session |-> s] \in Request
    BY DEF Request, RequestPcs
  <2>2. /\ requests' \in [Requests -> Request] /\ requests'[r].session = s
        /\ \A t \in Requests \ {r} : requests'[t] = requests[t]
    BY <1>1, <1>3, <2>1 DEF BuyTyped
  <2>3. Takes(r)
    BY <1>1, <1>3, <2>2 DEF Takes, BuyTyped, SessionsKnown
  <2> QED BY <1>1, <1>2, <2>3, TakesKnown
<1>4. ASSUME NEW a \in {"refusal", "unsure"}, Goto(r, a), UNCHANGED sessions
      PROVE  Known'
  <2>1. a \in RequestPcs /\ a \notin Holding
    BY DEF RequestPcs, Holding
  <2> QED BY <1>1, <1>2, <1>4, <2>1, MoveTakes, TakesKnown DEF BuyTyped
<1> QED BY <1>3, <1>4 DEF Call

LEMMA HoldingKnown ==
  ASSUME Known, NEW r \in Requests, UNCHANGED <<job, delivery, credits>>,
         Finalize(r) \/ Reread(r) \/ Order(r) \/ Catch(r)
  PROVE  Known'
<1> DEFINE s == requests[r].session
<1>1. /\ UNCHANGED <<sessions, paid, answers>> /\ Pc(r) \in Holding
      /\ BuyTyped /\ RowsTyped /\ SessionsKnown
      /\ UNCHANGED faults \/ (faults < MaxFaults /\ faults' = faults + 1)
  BY DEF Finalize, Reread, Order, Catch, Known, Works, Fails, At, Pc, Holding
<1>2. s \in sessions /\ s \in Sessions /\ intent \in Intent
  BY <1>1 DEF SessionsKnown, BuyTyped
<1>3. UNCHANGED orders \/ orders' = orders \cup {[session |-> s, payment |-> None]}
  BY DEF Finalize, Reread, Order, Catch, CreateOrder
<1>4. orders' \subseteq OrderRow
  BY <1>1, <1>2, <1>3 DEF RowsTyped, OrderRow
<1>5. RowsTyped'
  BY <1>1, <1>4, FaultCounts DEF RowsTyped
<1>6. Answer(r) \/ \E pc \in {"order", "reread", "catch"} : Goto(r, pc)
  BY DEF Finalize, Reread, Order, Catch
<1>7. \A pc \in {"order", "reread", "catch"} : pc \in RequestPcs
  BY DEF RequestPcs
<1>8. \/ UNCHANGED shown
      \/ intent.status = "created" /\ shown' = shown \cup {intent.session}
      \/ shown' = shown \cup {s}
  BY DEF Finalize, Reread, Order, Catch, Show
<1>9. \/ UNCHANGED intent
      \/ intent' = [status |-> "created", session |-> s, finalize |-> FALSE, fresh |-> TRUE]
      \/ intent' = [intent EXCEPT !.status = "pending", !.finalize = TRUE, !.fresh = TRUE]
  BY DEF Finalize, Reread, Order, Catch
<1>10. /\ intent' \in Intent
       /\ \/ intent'.session = s
          \/ /\ intent'.session = intent.session
             /\ intent'.status = "created" => intent.status = "created"
  <2>1. CASE intent' = [status |-> "created", session |-> s, finalize |-> FALSE, fresh |-> TRUE]
    BY <1>2, <2>1 DEF Intent, Statuses
  <2>2. CASE intent' = [intent EXCEPT !.status = "pending", !.finalize = TRUE, !.fresh = TRUE]
    BY <1>2, <2>2 DEF Intent, Statuses
  <2> QED BY <1>2, <1>9, <2>1, <2>2
<1>11. intent.status = "created" => intent.session \in sessions
  BY <1>1 DEF SessionsKnown
<1> HIDE DEF s
<1>12. Takes(r)
  BY <1>1, <1>6, <1>7, <1>8, <1>10, <1>11, MoveTakes DEF s
<1> QED BY <1>1, <1>5, <1>12, TakesKnown

LEMMA TimeKnown ==
  ASSUME Known, UNCHANGED <<job, delivery, credits>>, Stale \/ \E s \in Sessions : Pay(s)
  PROVE  Known'
<1>1. /\ BuyTyped /\ RowsTyped /\ SessionsKnown
      /\ UNCHANGED <<orders, requests, sessions, shown, answers, faults>>
      /\ paid \subseteq paid' /\ paid' \subseteq paid \cup shown
  BY DEF Known, Stale, Pay
<1>2. /\ intent' \in Intent /\ intent'.status = intent.status
      /\ intent'.session = intent.session
  BY <1>1 DEF Stale, Pay, BuyTyped, Intent
<1>3. SessionsKnown'
  BY <1>1, <1>2 DEF SessionsKnown, Pc
<1>4. BuyTyped'
  BY <1>1, <1>2, <1>3 DEF BuyTyped, SessionsKnown
<1>5. RowsTyped'
  BY <1>1 DEF RowsTyped
<1>6. JobKnown' /\ DeliveryKnown' /\ granted' \cup missed' \subseteq paid'
  BY <1>1 DEF Known, JobKnown, DeliveryKnown, delivery, credits
<1> QED BY <1>3, <1>4, <1>5, <1>6 DEF Known

LEMMA BuyKnown == ASSUME Known, Buy PROVE Known'
  BY FindKnown, AnswerKnown, CreateKnown, CallKnown, HoldingKnown, TimeKnown
  DEF Buy, CheckoutNext, RequestSteps
-----------------------------------------------------------------------------
\* The inbox takes in what was paid, and forgets what it likes.
LEMMA HandledKnown ==
  ASSUME Shape, DeliveryKnown, NEW h \in Handlers, UNCHANGED paid,
         HandlerSteps(h) \/ Recovers(h) \/ Worked(h) \/ Refuse(h)
  PROVE  DeliveryKnown'
<1>1. /\ HandlersOK /\ InboxOK /\ handlers[h].pc # "off"
      /\ handlers[h].event \in Events /\ handlers[h].event \in paid
  BY DEF Shape, HandlersOK, Sensible, DeliveryKnown, HandlerSteps, Insert, ReadRow, Steal,
         Complete, Fail, Recovers, Worked, Refuse, In
<1>2. UNCHANGED inbox \/ \E row : RowIs(h, row)
  BY DEF HandlerSteps, Insert, ReadRow, Steal, Complete, Fail, Recovers, Worked, Refuse, Claimed
<1>3. \A e \in Events : inbox'[e].status # "none" => e \in paid
  BY <1>1, <1>2 DEF RowIs, InboxOK, DeliveryKnown
<1>4. \/ Leave(h)
      \/ \E pc : Move(h, pc)
      \/ handlers' = [handlers EXCEPT ![h].pc = "steal", ![h].seen = Row(h)]
  BY DEF HandlerSteps, Insert, ReadRow, Steal, Complete, Fail, Recovers, Worked, Refuse
<1>5. /\ \A g \in Handlers \ {h} : handlers'[g] = handlers[g]
      /\ handlers'[h].pc # "off" => handlers'[h].event = handlers[h].event
  BY <1>1, <1>4 DEF Leave, Move, Off, HandlersOK, Handler
<1>6. \A g \in Handlers : handlers'[g].pc # "off" => handlers'[g].event \in paid
  BY <1>1, <1>5 DEF DeliveryKnown
<1> QED BY <1>3, <1>6 DEF DeliveryKnown

LEMMA DeliverKnown ==
  ASSUME Shape, DeliveryKnown, NEW h \in Handlers, NEW e \in paid, UNCHANGED paid, Deliver(h, e)
  PROVE  DeliveryKnown'
<1>1. /\ UNCHANGED inbox /\ \A g \in Handlers \ {h} : handlers'[g] = handlers[g]
      /\ handlers'[h].event = e
  BY DEF Deliver, Shape, HandlersOK, Off
<1> QED BY <1>1 DEF DeliveryKnown

LEMMA VanishKnown ==
  ASSUME Shape, DeliveryKnown, NEW h \in Handlers, UNCHANGED paid, Vanish(h)
  PROVE  DeliveryKnown'
<1> DEFINE Token(row) == IF row.owner = h THEN [row EXCEPT !.owner = Gone] ELSE row
<1>1. /\ inbox' = [e \in Events |-> Token(inbox[e])]
      /\ handlers' = [g \in Handlers |->
           IF g = h THEN Off ELSE [handlers[g] EXCEPT !.seen = Token(@)]]
  BY DEF Vanish, Abandon
<1>2. \A row \in InboxRow : Token(row).status = row.status
  BY DEF InboxRow
<1> HIDE DEF Token
<1>3. \A e \in Events : inbox'[e].status = inbox[e].status
  BY <1>1, <1>2 DEF Shape, InboxOK
<1>4. ASSUME NEW g \in Handlers, handlers'[g].pc # "off"
      PROVE  handlers[g].pc # "off" /\ handlers'[g].event = handlers[g].event
  <2>1. handlers[g] \in Handler
    BY DEF Shape, HandlersOK
  <2>2. handlers'[g] = [handlers[g] EXCEPT !.seen = Token(handlers[g].seen)]
    BY <1>1, <1>4 DEF Off
  <2> QED BY <1>4, <2>1, <2>2 DEF Handler
<1> QED BY <1>3, <1>4 DEF DeliveryKnown

LEMMA LapseKnown ==
  ASSUME Shape, DeliveryKnown, UNCHANGED <<handlers, paid>>,
         \A e \in Events : inbox'[e].status \in {inbox[e].status, "none"}
  PROVE  DeliveryKnown'
  BY DEF DeliveryKnown

-----------------------------------------------------------------------------
\* What a step of fulfilment or of the job may do.
Serves ==
  /\ UNCHANGED <<requests, sessions, shown, paid, answers>>
  /\ intent' \in Intent /\ intent'.session = intent.session
  /\ job' \in JobState
  /\ "created" \in {intent'.status, job'.status} => "created" \in {intent.status, job.status}
  /\ orders' \subseteq OrderRow
  /\ granted' \subseteq granted \cup paid /\ missed' \subseteq missed \cup paid
  /\ UNCHANGED faults \/ (faults < MaxFaults /\ faults' = faults + 1)

LEMMA ServesKnown ==
  ASSUME Known, Serves, JobKnown', DeliveryKnown'
  PROVE  Known'
<1>1. RowsTyped'
  BY FaultCounts DEF Known, RowsTyped, Serves
<1>2. BuyTyped'
  BY DEF Known, BuyTyped, Serves
<1>3. SessionsKnown'
  BY DEF Known, SessionsKnown, Serves, Pc
<1> QED BY <1>1, <1>2, <1>3 DEF Known, Serves

LEMMA LinkedTyped ==
  ASSUME RowsTyped, NEW p \in Sessions, Fulfilled(p) \/ Unfulfilled(p)
  PROVE  orders' \subseteq OrderRow /\ granted' \subseteq granted \cup {p} /\ UNCHANGED missed
<1>1. Linked(p) \subseteq OrderRow
  BY DEF RowsTyped, Linked, OrderRow
<1> QED BY <1>1 DEF Fulfilled, Unfulfilled, Settles, RowsTyped

LEMMA FulfillKnown ==
  ASSUME Known, Shape, NEW h \in Handlers, Fulfill(h) \/ Recover(h)
  PROVE  Known'
<1> DEFINE p == handlers[h].event
<1>1. /\ UNCHANGED <<intent, requests, sessions, shown, paid, answers, job>>
      /\ Recovers(h) \/ Worked(h) \/ Refuse(h)
  BY DEF Fulfill, Recover
<1>2. p \in paid /\ p \in Sessions
  <2>1. ~In(h, "off")
    BY <1>1 DEF Recovers, Worked, Refuse, In
  <2> QED BY <2>1 DEF Known, BuyTyped, DeliveryKnown, In
<1>3. DeliveryKnown'
  BY <1>1, HandledKnown DEF Known
<1>4. \/ Fulfilled(p) \/ Unfulfilled(p)
      \/ UNCHANGED <<orders, granted>> /\ missed' \in {missed, missed \cup {p}}
  BY DEF Fulfill, Recover, credits
<1>5. /\ orders' \subseteq OrderRow /\ granted' \subseteq granted \cup {p}
      /\ missed' \subseteq missed \cup {p}
  BY <1>2, <1>4, LinkedTyped DEF Known, RowsTyped
<1>6. UNCHANGED faults \/ (faults < MaxFaults /\ faults' = faults + 1)
  BY DEF Fulfill, Recover, Unfulfilled, Works, Fails
<1> HIDE DEF p
<1>7. Serves
  BY <1>1, <1>2, <1>5, <1>6 DEF Serves, Known, BuyTyped
<1> QED BY <1>1, <1>3, <1>7, ServesKnown DEF Known, JobKnown

\* The end of a round of the job.
LEMMA DoneKnown ==
  ASSUME Known, Done, UNCHANGED paid
  PROVE  /\ job' \in JobState /\ JobKnown'
         /\ job'.status = "created" => job.status = "created"
<1>1. job \in JobState /\ JobKnown
  BY DEF Known, BuyTyped
<1>2. CASE job' = Rest
  <2>1. job' \in JobState /\ job'.status = "none" /\ job'.seen = {} /\ job'.todo = {} /\ job'.pc = "rest"
    BY <1>2, RestPage DEF Rest
  <2> QED BY <2>1 DEF JobKnown
<1>3. CASE job' = [job EXCEPT !.pc = "payments", !.todo = @ \ {job.payment}]
  <2>1. /\ job' \in JobState /\ job'.pc = "payments" /\ job'.seen = job.seen
        /\ job'.todo \subseteq job.todo /\ job'.status = job.status
    BY <1>1, <1>3 DEF JobState
  <2> QED BY <1>1, <2>1 DEF JobKnown
<1> QED BY <1>2, <1>3 DEF Done

\* The job takes up a payment.
LEMMA JobDoKnown ==
  ASSUME Known, NEW pc \in {"replay", "order", "mark"}, NEW p \in paid,
         NEW s \in Statuses, JobDo(pc, p, s), UNCHANGED paid
  PROVE  job' \in JobState /\ JobKnown' /\ job'.status = s
<1>1. p \in Sessions /\ BuyTyped /\ job \in JobState /\ JobKnown
  BY DEF Known, BuyTyped
<1>2. /\ job' \in JobState /\ job'.pc = pc /\ job'.status = s
      /\ job'.seen = job.seen /\ job'.todo = job.todo
  BY <1>1, JobDoPage
<1>3. job'.payment = p
  BY <1>1 DEF JobDo, JobState
<1> QED BY <1>1, <1>2, <1>3 DEF JobKnown

\* The job ends, or is killed.
LEMMA RestKnown ==
  ASSUME job' = Rest
  PROVE  job' \in JobState /\ JobKnown' /\ job'.status = "none"
<1>1. job' \in JobState /\ job'.status = "none" /\ job'.seen = {} /\ job'.todo = {} /\ job'.pc = "rest"
  BY RestPage DEF Rest
<1> QED BY <1>1 DEF JobKnown

LEMMA JobStepsKnown ==
  ASSUME Known, Shape, JobSteps
  PROVE  Known'
<1>1. /\ BuyTyped /\ RowsTyped /\ JobKnown /\ DeliveryKnown /\ job \in JobState
      /\ intent \in Intent /\ intent.status \in Statuses
      /\ paid \subseteq Sessions /\ granted \cup missed \subseteq paid /\ Events = Sessions
  BY PurchaseAssumption DEF Known, BuyTyped, Intent
<1>2. ASSUME UNCHANGED <<checkout, credits>>, job' \in JobState, DeliveryKnown', JobKnown',
             job'.status = "created" => "created" \in {intent.status, job.status},
             UNCHANGED faults \/ (faults < MaxFaults /\ faults' = faults + 1)
      PROVE  Known'
  <2>1. Serves
    BY <1>1, <1>2 DEF Serves, checkout, credits, RowsTyped
  <2> QED BY <1>2, <2>1, ServesKnown
<1>3. UNCHANGED <<delivery, paid>> => DeliveryKnown'
  BY <1>1 DEF DeliveryKnown, delivery
<1>4. CASE JobStart
  <2> DEFINE kept == {e \in Events : inbox'[e].status \in {"failed", "processing"}}
  <2>1. /\ job' = [Rest EXCEPT !.pc = "inbox", !.todo = kept]
        /\ UNCHANGED <<checkout, credits, handlers, faults>>
        /\ \A e \in Events : inbox'[e].status \in {inbox[e].status, "none"}
    BY <1>4 DEF JobStart, Prune, NoRow
  <2>2. DeliveryKnown'
    BY <1>1, <2>1, LapseKnown DEF checkout
  <2>3. kept \subseteq paid
    BY <1>1, <2>1 DEF DeliveryKnown
  <2> HIDE DEF kept
  <2>4. /\ job' \in JobState /\ job'.pc = "inbox" /\ job'.seen = {} /\ job'.todo = kept
        /\ job'.status = "none"
    BY <1>1, <2>1, <2>3 DEF Rest, JobState, Statuses
  <2>5. JobKnown'
    BY <2>1, <2>3, <2>4 DEF JobKnown, checkout
  <2> QED BY <1>2, <2>1, <2>2, <2>4, <2>5
<1>5. ASSUME NEW e \in Events, JobRetry(e) PROVE Known'
  <2>1. /\ job' \in JobState /\ job'.pc = "inbox" /\ job'.seen = job.seen
        /\ job'.todo \subseteq job.todo /\ job'.status = job.status
        /\ UNCHANGED <<checkout, credits, faults>> /\ e \in paid
        /\ Deliver(Job, e)
    BY <1>1, <1>5 DEF JobRetry, JobAt, JobState, JobKnown, Deliver
  <2>2. DeliveryKnown'
    BY <1>1, <2>1, DeliverKnown, PurchaseAssumption DEF checkout
  <2>3. JobKnown'
    BY <1>1, <2>1 DEF JobKnown, checkout
  <2> QED BY <1>2, <2>1, <2>2, <2>3
<1>6. CASE JobList
  <2>1. /\ UNCHANGED <<checkout, delivery, credits>>
        /\ UNCHANGED faults \/ (faults < MaxFaults /\ faults' = faults + 1)
    BY <1>6 DEF JobList, Works, Fails
  <2>2. DeliveryKnown'
    BY <1>3, <2>1 DEF checkout
  <2>3. CASE job' = [job EXCEPT !.pc = "payments", !.seen = paid, !.todo = paid]
    <3>1. /\ job' \in JobState /\ job'.pc = "payments" /\ job'.seen = paid /\ job'.todo = paid
          /\ job'.status = job.status
      BY <1>1, <2>3 DEF JobState
    <3>2. JobKnown'
      BY <2>1, <3>1 DEF JobKnown, checkout
    <3> QED BY <1>2, <2>1, <2>2, <3>1, <3>2
  <2>4. CASE job' = Rest
    BY <1>2, <2>1, <2>2, <2>4, RestKnown
  <2> QED BY <1>6, <2>3, <2>4 DEF JobList
<1>7. ASSUME NEW p \in Events, JobPayment(p) PROVE Known'
  <2>1. PICK pc \in {"replay", "order"}, s \in Statuses :
          /\ JobDo(pc, p, s) /\ s \in {"recovered", intent.status}
          /\ UNCHANGED <<checkout, delivery, credits, faults>>
    BY <1>1, <1>7 DEF JobPayment, Statuses
  <2>2. p \in paid
    BY <1>1, <1>7 DEF JobPayment, JobKnown
  <2>3. job' \in JobState /\ JobKnown' /\ job'.status = s
    BY <2>1, <2>2, JobDoKnown DEF checkout
  <2> QED BY <1>2, <1>3, <2>1, <2>3 DEF checkout
<1>8. CASE JobOrder
  <2>1. /\ UNCHANGED <<intent, requests, sessions, shown, paid, answers, delivery, credits>>
        /\ JobAt("order")
        /\ UNCHANGED faults \/ (faults < MaxFaults /\ faults' = faults + 1)
    BY <1>8 DEF JobOrder, Works, Fails
  <2>2. job.payment \in paid /\ intent.session \in Sessions \cup {None}
    BY <1>1, <2>1 DEF JobKnown, JobAt, Intent
  <2>3. orders' \subseteq OrderRow
    <3> DEFINE o == [session |-> IF intent.session = None THEN Recovered ELSE intent.session,
                     payment |-> job.payment]
    <3>1. o \in OrderRow
      BY <1>1, <2>2 DEF OrderRow
    <3>2. UNCHANGED orders \/ orders' = orders \cup {o}
      BY <1>8 DEF JobOrder, CreateOrder
    <3> QED BY <1>1, <3>1, <3>2 DEF RowsTyped
  <2>4. job' \in JobState /\ JobKnown' /\ (job'.status = "created" => job.status = "created")
    <3>1. CASE job' = [job EXCEPT !.pc = "mark"]
      <4>1. /\ job' \in JobState /\ job'.status = job.status /\ job'.payment = job.payment
            /\ job'.seen = job.seen /\ job'.todo = job.todo
        BY <1>1, <3>1 DEF JobState
      <4> QED BY <1>1, <2>1, <2>2, <4>1 DEF JobKnown
    <3> QED BY <1>8, <2>1, <3>1, DoneKnown DEF JobOrder
  <2>5. Serves
    BY <1>1, <2>1, <2>3, <2>4 DEF Serves, credits
  <2> QED BY <1>3, <2>1, <2>4, <2>5, ServesKnown
<1>9. CASE JobMark
  <2>1. /\ UNCHANGED <<orders, requests, sessions, shown, paid, answers, delivery, credits>>
        /\ JobAt("mark")
        /\ UNCHANGED faults \/ (faults < MaxFaults /\ faults' = faults + 1)
    BY <1>9 DEF JobMark, Works, Fails
  <2>2. job.payment \in paid /\ job.status \in Statuses
    BY <1>1, <2>1 DEF JobKnown, JobAt, JobState
  <2>3. CASE IntentIs(job.status) /\ job' = [job EXCEPT !.pc = "replay"]
    <3>1. /\ job' \in JobState /\ job'.status = job.status /\ job'.payment = job.payment
          /\ job'.seen = job.seen /\ job'.todo = job.todo
      BY <1>1, <2>3 DEF JobState
    <3>2. JobKnown'
      BY <1>1, <2>1, <2>2, <3>1 DEF JobKnown
    <3>3. intent' \in Intent /\ intent'.status = job.status /\ intent'.session = intent.session
      BY <1>1, <2>2, <2>3, IntentMoves
    <3>4. Serves
      BY <1>1, <2>1, <3>1, <3>3 DEF Serves, credits, RowsTyped
    <3> QED BY <1>3, <2>1, <3>2, <3>4, ServesKnown
  <2>4. CASE Done /\ UNCHANGED intent
    BY <1>2, <1>3, <2>1, <2>4, DoneKnown DEF checkout
  <2> QED BY <1>9, <2>3, <2>4 DEF JobMark
<1>10. CASE JobReplay
  <2>1. /\ UNCHANGED <<intent, requests, sessions, shown, paid, answers, delivery>>
        /\ Done /\ job.payment \in paid
        /\ UNCHANGED faults \/ (faults < MaxFaults /\ faults' = faults + 1)
    BY <1>1, <1>10 DEF JobReplay, Works, Fails, JobAt, JobKnown, Unfulfilled
  <2>2. /\ orders' \subseteq OrderRow /\ granted' \subseteq granted \cup {job.payment}
        /\ UNCHANGED missed
    <3>1. job.payment \in Sessions
      BY <1>1, <2>1
    <3>2. \/ UNCHANGED <<orders, credits>>
          \/ Fulfilled(job.payment) \/ Unfulfilled(job.payment)
      BY <1>10 DEF JobReplay
    <3> QED BY <1>1, <3>1, <3>2, LinkedTyped DEF RowsTyped, credits
  <2>3. job' \in JobState /\ JobKnown' /\ (job'.status = "created" => job.status = "created")
    BY <2>1, DoneKnown
  <2>4. Serves
    BY <1>1, <2>1, <2>2, <2>3 DEF Serves
  <2> QED BY <1>3, <2>1, <2>3, <2>4, ServesKnown
<1>11. CASE JobIntent
  <2>1. /\ UNCHANGED <<orders, requests, sessions, shown, paid, answers, delivery, credits>>
        /\ UNCHANGED faults \/ (faults < MaxFaults /\ faults' = faults + 1)
    BY <1>11 DEF JobIntent, Works, Fails
  <2>2. ASSUME NEW p \in job.seen, NEW pc \in {"mark", "order"}, JobDo(pc, p, "recovered"),
               UNCHANGED intent
        PROVE  Known'
    <3>1. p \in paid /\ "recovered" \in Statuses
      BY <1>1 DEF JobKnown, Statuses
    <3>2. job' \in JobState /\ JobKnown' /\ job'.status = "recovered"
      BY <2>1, <2>2, <3>1, JobDoKnown
    <3> QED BY <1>2, <1>3, <2>1, <2>2, <3>2 DEF checkout
  <2>3. CASE job' = Rest /\ intent' \in {intent, Escalated}
    <3>1. job' \in JobState /\ JobKnown' /\ job'.status = "none"
      BY <2>3, RestKnown
    <3>2. /\ intent' \in Intent /\ intent'.session = intent.session
          /\ intent'.status = "created" => intent.status = "created"
      BY <1>1, <2>3, IntentMoves
    <3>3. Serves
      BY <1>1, <2>1, <3>1, <3>2 DEF Serves, credits, RowsTyped
    <3> QED BY <1>3, <2>1, <3>1, <3>3, ServesKnown
  <2> QED BY <1>11, <2>2, <2>3 DEF JobIntent
<1> QED BY <1>4, <1>5, <1>6, <1>7, <1>8, <1>9, <1>10, <1>11 DEF JobSteps

LEMMA KnownNext == InboxInv /\ Known /\ [Next]_vars => Known'
<1> SUFFICES ASSUME Shape, Known, [Next]_vars PROVE Known'
  BY DEF InboxInv
<1>1. CASE Buy
  BY <1>1, BuyKnown DEF Buy
<1>2. CASE JobSteps
  BY <1>2, JobStepsKnown
<1>3. ASSUME UNCHANGED <<checkout, credits>>, job' \in {job, Rest}, DeliveryKnown',
             UNCHANGED faults \/ (faults < MaxFaults /\ faults' = faults + 1)
      PROVE  Known'
  <2>1. job' \in JobState /\ (job'.status = "created" => job.status = "created") /\ JobKnown'
    BY <1>3, RestKnown DEF Known, BuyTyped, JobKnown, checkout
  <2>2. Serves
    BY <1>3, <2>1 DEF Serves, Known, BuyTyped, RowsTyped, checkout, credits
  <2> QED BY <1>3, <2>1, <2>2, ServesKnown
<1>4. UNCHANGED <<delivery, paid>> => DeliveryKnown'
  BY DEF Known, DeliveryKnown, delivery
<1>5. CASE JobDie
  BY <1>3, <1>4, <1>5 DEF JobDie, Fails, checkout
<1>6. CASE UNCHANGED vars
  BY <1>3, <1>4, <1>6 DEF vars, checkout
<1>7. ASSUME NEW h \in Handlers, Receive(h) PROVE Known'
  <2>1. DeliveryKnown' /\ UNCHANGED faults
    BY <1>7, DeliverKnown DEF Receive, Known, checkout, Deliver
  <2> QED BY <1>3, <1>7, <2>1 DEF Receive
<1>8. ASSUME NEW h \in Handlers, Handle(h) PROVE Known'
  <2>1. CASE HandlerSteps(h) /\ UNCHANGED <<checkout, credits, job>>
    <3>1. DeliveryKnown'
      BY <2>1, HandledKnown DEF Known, checkout
    <3>2. UNCHANGED faults \/ (faults < MaxFaults /\ faults' = faults + 1)
      BY <2>1 DEF HandlerSteps, Insert, ReadRow, Steal, Complete, Fail, Works, Fails
    <3> QED BY <1>3, <2>1, <3>1, <3>2
  <2> QED BY <1>8, <2>1, FulfillKnown DEF Handle
<1>9. ASSUME NEW h \in Handlers, Lose(h) PROVE Known'
  <2>1. DeliveryKnown'
    BY <1>9, VanishKnown DEF Lose, Known, checkout
  <2> QED BY <1>3, <1>9, <2>1 DEF Lose, Vanish, Fails
<1>10. ASSUME NEW e \in Events, Lapse(e) PROVE Known'
  <2>1. \A x \in Events : inbox'[x].status \in {inbox[x].status, "none"}
    BY <1>10 DEF Lapse, Expire, Shape, InboxOK, InboxRow
  <2>2. DeliveryKnown'
    BY <1>10, <2>1, LapseKnown DEF Lapse, Expire, Known, checkout
  <2> QED BY <1>3, <1>10, <2>2 DEF Lapse, Expire, Works, Fails
<1> QED BY <1>1, <1>2, <1>5, <1>6, <1>7, <1>8, <1>9, <1>10 DEF Next

\* Types, and three facts that no single statement keeps: a page is one of the
\* provider, what is paid was shown, and credits are granted for what was paid
\* only, whoever wrote the order or the row first (routes.ts 234-363,
\* reconcile.ts 142-304).  Also when the provider refused, and when the key is
\* used again.
THEOREM TypeCorrect == Spec => []TypeOK
<1>1. InboxInv /\ Known => TypeOK
  <2> SUFFICES ASSUME InboxInv, Known PROVE TypeOK
    OBVIOUS
  <2>1. CheckoutTypeOK
    BY DEF Known, BuyTyped, RowsTyped, SessionsKnown, CheckoutTypeOK, OrderRow, Intent, Statuses,
           Request, RequestPcs
  <2>2. InboxTypeOK
    <3>1. acked \subseteq Events
      BY DEF InboxInv, DoneIn
    <3> QED BY <3>1 DEF InboxInv, Shape, HandlersOK, InboxOK, InboxTypeOK, InboxRow, Handler, Pcs
  <2>3. job \in JobState /\ granted \subseteq paid /\ missed \subseteq paid
    BY DEF Known, BuyTyped
  <2> QED BY <2>1, <2>2, <2>3 DEF TypeOK, JobState, Statuses
<1> QED BY <1>1, InboxInvInit, InboxInvNext, KnownInit, KnownNext, PTL DEF Spec
-----------------------------------------------------------------------------
(* One order for one payment.                                                 *)

\* There is one order at most: that of the session of the row, or the one the
\* job wrote for a payment.
OneRow ==
  /\ \A o, x \in orders : o = x
  /\ \A o \in orders :
       /\ o.session \in sessions \cup {Recovered} /\ o.payment \in sessions \cup {None}
       /\ o.session = Recovered => o.payment # None
       /\ o.payment = None => o.session = intent.session
\* A request that is to finalize finds no order; one that is to write the order
\* has its session in the row already, so the job uses that session too.
OrderToCome ==
  \A r \in Requests :
    /\ Pc(r) = "finalize" => shown = {} /\ orders = {} /\ intent.status # "created"
    /\ Pc(r) = "order" => /\ intent.session = requests[r].session
                          /\ \A o \in orders : o.session # Recovered
OrderInv == OneRow /\ OrderToCome

\* What the other invariants say of a key that was not refused.
Unrefused == Known /\ PageInv /\ OrderInv

LEMMA OrderInit == Init => OrderInv
<1> SUFFICES ASSUME Init PROVE OrderInv
  OBVIOUS
<1>1. orders = {} /\ \A r \in Requests : Pc(r) = "idle"
  BY DEF Init, CheckoutInit, Pc, Idle
<1> QED BY <1>1 DEF OrderInv, OneRow, OrderToCome

\* Steps that write no order, and bring no request to its last two steps.
LEMMA OrdersKept ==
  ASSUME OrderInv, UNCHANGED <<orders, sessions>>, intent'.session = intent.session,
         \A t \in Requests : requests'[t] = requests[t] \/ Pc(t)' \notin {"finalize", "order"},
         \/ /\ UNCHANGED shown
            /\ intent'.status = "created" => intent.status = "created"
         \/ \A t \in Requests : Pc(t) # "finalize"
  PROVE  OrderInv'
<1>1. OneRow'
  BY DEF OrderInv, OneRow
<1>2. OrderToCome'
  BY DEF OrderInv, OrderToCome, Pc
<1> QED BY <1>1, <1>2 DEF OrderInv

LEMMA FindOrder ==
  ASSUME Unrefused, NEW r \in Requests, Find(r)
  PROVE  OrderInv'
<1>1. BuyTyped /\ OrderInv /\ UNCHANGED <<intent, orders, sessions>>
  BY DEF Find, Unrefused, Known
<1>2. \A pc \in {"escalate", "create", "call"} : pc \in RequestPcs /\ pc \notin {"finalize", "order"}
  BY DEF RequestPcs
<1>3. CASE \E pc \in {"escalate", "create", "call"} : Goto(r, pc) /\ UNCHANGED shown
  <2>1. \A t \in Requests : requests'[t] = requests[t] \/ Pc(t)' \notin {"finalize", "order"}
    BY <1>1, <1>2, <1>3, RequestMoves DEF Pc
  <2> QED BY <1>1, <1>3, <2>1, OrdersKept
<1>4. CASE intent.status = "created" /\ UNCHANGED requests
  <2>1. \A t \in Requests : Pc(t) # "finalize"
    BY <1>1, <1>4 DEF OrderInv, OrderToCome
  <2> QED BY <1>1, <1>4, <2>1, OrdersKept
<1> QED BY <1>3, <1>4 DEF Find

LEMMA AnswerOrder ==
  ASSUME Unrefused, NEW r \in Requests,
         Escalate(r) \/ Die(r) \/ MarkRefused(r) \/ MarkAmbiguous(r) \/ Create(r)
  PROVE  OrderInv'
<1>1. /\ BuyTyped /\ OrderInv /\ UNCHANGED <<orders, sessions, shown>>
      /\ Answer(r) \/ Goto(r, "call")
  BY DEF Escalate, Die, MarkRefused, MarkAmbiguous, Create, Unrefused, Known
<1>2. \/ UNCHANGED intent \/ intent' = Escalated \/ IntentIs(intent.status)
      \/ IntentIs("failed") \/ IntentIs("pending")
  BY DEF Escalate, Die, MarkRefused, MarkAmbiguous, Create
<1>3. intent.status \in Statuses /\ "failed" \in Statuses /\ "pending" \in Statuses
  BY <1>1 DEF BuyTyped, Intent, Statuses
<1>4. /\ intent'.session = intent.session
      /\ intent'.status = "created" => intent.status = "created"
  BY <1>1, <1>2, <1>3, IntentMoves
<1>5. \A t \in Requests : requests'[t] = requests[t] \/ Pc(t)' \notin {"finalize", "order"}
  <2>1. "call" \in RequestPcs
    BY DEF RequestPcs
  <2> QED BY <1>1, <2>1, RequestMoves DEF Pc
<1> QED BY <1>1, <1>4, <1>5, OrdersKept

LEMMA CallOrder ==
  ASSUME Unrefused, NEW r \in Requests, Call(r)
  PROVE  OrderInv'
<1>1. /\ BuyTyped /\ OrderInv /\ OnePast /\ OneSession /\ UNCHANGED <<intent, orders, shown>>
      /\ Pc(r) = "call"
  BY DEF Call, Unrefused, Known, PageInv, At, Pc
<1>2. CASE \E a \in {"refusal", "unsure"} : Goto(r, a) /\ UNCHANGED sessions
  <2>1. \A a \in {"refusal", "unsure"} : a \in RequestPcs /\ a \notin {"finalize", "order"}
    BY DEF RequestPcs
  <2>2. \A t \in Requests : requests'[t] = requests[t] \/ Pc(t)' \notin {"finalize", "order"}
    BY <1>1, <1>2, <2>1, RequestMoves DEF Pc
  <2> QED BY <1>1, <1>2, <2>2, OrdersKept
<1>3. ASSUME NEW s \in Sessions \ sessions,
             requests' = [requests EXCEPT ![r] = [pc |-> "finalize", session |-> s]]
      PROVE  OrderInv'
  <2>1. sessions = {} /\ shown = {} /\ intent.status # "created"
    BY <1>1 DEF OnePast, OneSession
  <2>2. orders = {}
    BY <1>1, <2>1 DEF OrderInv, OneRow
  <2>3. OneRow'
    BY <1>1, <2>2 DEF OneRow
  <2>4. \A t \in Requests \ {r} : Pc(t)' # "order"
    BY <1>1, <1>3 DEF OnePast, Past, Pc, BuyTyped
  <2>5. Pc(r)' = "finalize"
    BY <1>1, <1>3 DEF BuyTyped, Pc
  <2> QED BY <1>1, <2>1, <2>2, <2>3, <2>4, <2>5 DEF OrderInv, OrderToCome
<1> QED BY <1>2, <1>3 DEF Call

\* The only order that a request with a session can write is the first one.
LEMMA HoldingOrder ==
  ASSUME Unrefused, NEW r \in Requests, Finalize(r) \/ Reread(r) \/ Order(r) \/ Catch(r)
  PROVE  OrderInv'
<1> DEFINE s == requests[r].session
<1>1. /\ BuyTyped /\ OrderInv /\ OnePast /\ UNCHANGED sessions /\ Pc(r) \in Holding
  BY DEF Finalize, Reread, Order, Catch, Unrefused, Known, PageInv, At, Pc, Holding
<1>2. sessions = {s} /\ s \in Sessions /\ s # Recovered
  <2>1. sessions = {s}
    BY <1>1 DEF OnePast
  <2> QED BY <1>1, <2>1, CheckoutAssumption DEF BuyTyped
<1>3. \A t \in Requests \ {r} : Pc(t) \notin {"finalize", "order"}
  BY <1>1 DEF OnePast, Past, Holding
<1>4. Answer(r) \/ \E pc \in {"order", "reread", "catch"} : Goto(r, pc)
  BY DEF Finalize, Reread, Order, Catch
<1>5. \A pc \in {"order", "reread", "catch"} : pc \in RequestPcs
  BY DEF RequestPcs
<1>6. /\ \A t \in Requests \ {r} : requests'[t] = requests[t]
      /\ Pc(r)' \in {"idle", "order", "reread", "catch"}
      /\ Pc(r)' # "idle" => requests'[r].session = s
  BY <1>1, <1>4, <1>5, RequestMoves DEF Pc
<1>7. \A t \in Requests \ {r} : Pc(t)' \notin {"finalize", "order"}
  BY <1>3, <1>6 DEF Pc
<1>8. CASE Finalize(r)
  <2>1. orders = {} /\ UNCHANGED orders
    BY <1>1, <1>8 DEF Finalize, OrderInv, OrderToCome, At, Pc
  <2>2. OneRow'
    BY <2>1 DEF OneRow
  <2>3. ASSUME Pc(r)' = "order" PROVE intent'.session = s
    <3>1. /\ \A pc \in {"reread", "catch"} : ~Goto(r, pc)
      BY <1>1, <1>5, <2>3, RequestMoves DEF Pc
    <3> QED BY <1>8, <3>1 DEF Finalize
  <2> QED BY <1>6, <1>7, <2>1, <2>2, <2>3 DEF OrderInv, OrderToCome
<1>9. CASE Reread(r) \/ Catch(r)
  <2>1. UNCHANGED orders /\ intent'.session = intent.session /\ Pc(r) \in {"reread", "catch"}
    <3>1. intent \in Intent
      BY <1>1 DEF BuyTyped
    <3> QED BY <1>9, <3>1 DEF Reread, Catch, At, Pc, Intent
  <2>2. Pc(r)' # "order"
    <3>1. Answer(r) \/ Goto(r, "catch")
      BY <1>9 DEF Reread, Catch
    <3> QED BY <1>1, <1>5, <3>1, RequestMoves DEF Pc
  <2>3. \A t \in Requests : Pc(t) # "finalize"
    BY <1>3, <2>1
  <2> QED BY <1>1, <1>6, <2>1, <2>2, <2>3, OrdersKept
<1>10. CASE Order(r)
  <2>1. /\ UNCHANGED intent /\ Pc(r) = "order" /\ intent.session = s
        /\ \A o \in orders : o.session # Recovered
    BY <1>1, <1>10 DEF Order, OrderInv, OrderToCome, At, Pc
  <2>2. Pc(r)' # "order"
    <3>1. Answer(r) \/ Goto(r, "catch")
      BY <1>10 DEF Order
    <3> QED BY <1>1, <1>5, <3>1, RequestMoves DEF Pc
  <2>3. CASE UNCHANGED orders
    <3>1. \A t \in Requests : Pc(t) # "finalize"
      BY <1>3, <2>1
    <3> QED BY <1>1, <1>6, <2>1, <2>2, <2>3, <3>1, OrdersKept
  <2>4. CASE CreateOrder([session |-> s, payment |-> None])
    <3> DEFINE o == [session |-> s, payment |-> None]
    <3>1. orders = {}
      BY <1>1, <1>2, <2>1, <2>4 DEF CreateOrder, Vacant, OrderInv, OneRow
    <3>2. orders' = {o} /\ o.session = s /\ o.payment = None
      BY <2>4, <3>1 DEF CreateOrder
    <3> HIDE DEF o
    <3>3. OneRow'
      BY <1>1, <1>2, <2>1, <3>2 DEF OneRow
    <3> QED BY <1>6, <1>7, <2>2, <3>3 DEF OrderInv, OrderToCome
  <2> QED BY <1>10, <2>3, <2>4 DEF Order
<1> QED BY <1>8, <1>9, <1>10

LEMMA TimeOrder ==
  ASSUME Unrefused, Stale \/ \E s \in Sessions : Pay(s)
  PROVE  OrderInv'
<1>1. OrderInv /\ UNCHANGED <<orders, requests, sessions, shown>>
  BY DEF Stale, Pay, Unrefused
<1>2. intent'.session = intent.session /\ intent'.status = intent.status
  BY DEF Stale, Pay, Unrefused, Known, BuyTyped, Intent
<1> QED BY <1>1, <1>2, OrdersKept

\* Once a session is paid, no request is to finalize, and it is the only one.
LEMMA PaidAlone ==
  ASSUME Unrefused, NEW p \in paid
  PROVE  /\ sessions = {p} /\ p \in Sessions
         /\ \A r \in Requests : Pc(r) # "finalize"
         /\ intent.session \in {p, None} /\ p \notin {None, Recovered}
         /\ \A o \in orders : o.session \in {p, Recovered} /\ o.payment \in {p, None}
<1>1. p \in shown /\ p \in sessions /\ p \in Sessions
  BY DEF Unrefused, Known, SessionsKnown, BuyTyped
<1>2. sessions = {p}
  BY <1>1 DEF Unrefused, PageInv, OneSession
<1>3. \A r \in Requests : Pc(r) # "finalize"
  BY <1>1 DEF Unrefused, OrderInv, OrderToCome
<1>4. intent.session \in {p, None}
  BY <1>2 DEF Unrefused, Known, SessionsKnown
<1> QED BY <1>1, <1>2, <1>3, <1>4, CheckoutAssumption DEF Unrefused, OrderInv, OneRow

\* A step that leaves one order, with the session of the row if there is one.
LEMMA OneOrderLeft ==
  ASSUME Unrefused, NEW p \in paid, UNCHANGED <<intent, requests, sessions>>, NEW o,
         orders' = {o}, o.payment = p, o.session \in {p, Recovered},
         o.session = Recovered => \A r \in Requests : Pc(r) # "order"
  PROVE  OrderInv'
<1>1. /\ sessions = {p} /\ p \notin {None, Recovered}
      /\ \A r \in Requests : Pc(r) # "finalize"
  BY PaidAlone
<1>2. OneRow'
  BY <1>1 DEF OneRow
<1>3. OrderToCome'
  BY <1>1 DEF OrderToCome, Unrefused, OrderInv, Pc
<1> QED BY <1>2, <1>3 DEF OrderInv

LEMMA LinkOrder ==
  ASSUME Unrefused, NEW p \in paid, UNCHANGED <<intent, requests, sessions, shown>>,
         Fulfilled(p) \/ Unfulfilled(p)
  PROVE  OrderInv'
<1>1. /\ sessions = {p} /\ p \notin {None, Recovered} /\ OrderInv
      /\ \A o \in orders : o.session \in {p, Recovered} /\ o.payment \in {p, None}
  BY PaidAlone DEF Unrefused
<1>2. UNCHANGED orders \/ orders' = Linked(p)
  BY DEF Fulfilled, Unfulfilled, Settles
<1>3. CASE UNCHANGED orders
  BY <1>1, <1>3, OrdersKept
<1>4. CASE orders' = Linked(p) /\ OfSession(p) = {}
  <2>1. ASSUME NEW o \in orders PROVE o \in OfPayment(p)
    BY <1>1, <1>4, <2>1 DEF OfSession, OfPayment, OrderInv, OneRow
  <2>2. CASE orders = {}
    <3>1. orders' = {[session |-> p, payment |-> p]}
      BY <1>4, <2>2 DEF Linked, OfPayment, OfSession
    <3> QED BY <1>1, <3>1, OneOrderLeft
  <2>3. CASE orders # {}
    BY <1>1, <1>4, <2>1, <2>3, OrdersKept DEF Linked
  <2> QED BY <2>2, <2>3
<1>5. CASE orders' = Linked(p) /\ OfSession(p) # {}
  <2>1. orders \ OfSession(p) = {}
    BY <1>1, <1>5 DEF OfSession, OrderInv, OneRow
  <2>2. orders' = {[session |-> p, payment |-> p]}
    BY <1>5, <2>1 DEF Linked
  <2> QED BY <1>1, <2>2, OneOrderLeft
<1> QED BY <1>2, <1>3, <1>4, <1>5

LEMMA JobStepsOrder ==
  ASSUME Unrefused, JobSteps
  PROVE  OrderInv'
<1>1. OrderInv /\ intent \in Intent /\ intent.status \in Statuses /\ JobKnown /\ BuyTyped
  BY DEF Unrefused, Known, BuyTyped, Intent
<1>2. UNCHANGED checkout => OrderInv'
  BY <1>1, OrdersKept DEF checkout
<1>3. CASE JobStart \/ (\E e \in Events : JobRetry(e) \/ JobPayment(e)) \/ JobList
  BY <1>2, <1>3 DEF JobStart, JobRetry, JobPayment, JobList
<1>4. CASE JobOrder
  <2> DEFINE p == job.payment
             o == [session |-> IF intent.session = None THEN Recovered ELSE intent.session,
                   payment |-> p]
  <2>1. p \in paid /\ UNCHANGED <<intent, requests, sessions, shown>>
    BY <1>1, <1>4 DEF JobOrder, JobAt, JobKnown
  <2>2. /\ sessions = {p} /\ p \notin {None, Recovered} /\ intent.session \in {p, None}
        /\ \A x \in orders : x.session \in {p, Recovered} /\ x.payment \in {p, None}
    BY <2>1, PaidAlone
  <2>3. CASE UNCHANGED orders
    BY <1>1, <2>1, <2>3, OrdersKept
  <2>4. CASE CreateOrder(o)
    <3>1. orders = {}
      <4> SUFFICES ASSUME NEW x \in orders PROVE FALSE
        OBVIOUS
      <4>1. x.payment # p /\ (x.session = o.session => o.session = Recovered)
        BY <2>2, <2>4 DEF CreateOrder, Vacant
      <4>2. x.payment = None /\ x.session = intent.session /\ x.session # Recovered
        BY <1>1, <2>2, <4>1 DEF OrderInv, OneRow
      <4> QED BY <2>2, <4>1, <4>2
    <3>2. orders' = {o} /\ o.payment = p /\ o.session \in {p, Recovered}
      BY <2>2, <2>4, <3>1 DEF CreateOrder
    <3>3. ASSUME o.session = Recovered, NEW r \in Requests PROVE Pc(r) # "order"
      <4>1. intent.session = None
        BY <2>2, <3>3
      <4>2. Pc(r) \in Holding => requests[r].session = p
        BY <2>2 DEF Unrefused, Known, SessionsKnown
      <4> QED BY <1>1, <2>2, <4>1, <4>2 DEF OrderInv, OrderToCome, Holding
    <3> HIDE DEF o, p
    <3> QED BY <2>1, <3>2, <3>3, OneOrderLeft
  <2> QED BY <1>4, <2>3, <2>4 DEF JobOrder
<1>5. CASE JobMark
  <2>1. job.payment \in paid /\ UNCHANGED <<orders, requests, sessions, shown>>
        /\ job.status \in Statuses
    BY <1>1, <1>5 DEF JobMark, JobAt, JobKnown, BuyTyped, JobState
  <2>2. intent'.session = intent.session
    BY <1>1, <1>5, <2>1, IntentMoves DEF JobMark
  <2>3. \A r \in Requests : Pc(r) # "finalize"
    BY <2>1, PaidAlone
  <2> QED BY <1>1, <2>1, <2>2, <2>3, OrdersKept
<1>6. CASE JobReplay
  <2>1. job.payment \in paid /\ UNCHANGED <<intent, requests, sessions, shown>>
    BY <1>1, <1>6 DEF JobReplay, JobAt, JobKnown
  <2>2. CASE UNCHANGED orders
    BY <1>1, <2>1, <2>2, OrdersKept
  <2>3. CASE Fulfilled(job.payment) \/ Unfulfilled(job.payment)
    BY <2>1, <2>3, LinkOrder
  <2> QED BY <1>6, <2>2, <2>3 DEF JobReplay
<1>7. CASE JobIntent
  <2>1. UNCHANGED <<orders, requests, sessions, shown>> /\ intent' \in {intent, Escalated}
    BY <1>7 DEF JobIntent
  <2>2. /\ intent'.session = intent.session
        /\ intent'.status = "created" => intent.status = "created"
    BY <1>1, <2>1, IntentMoves
  <2> QED BY <1>1, <2>1, <2>2, OrdersKept
<1> QED BY <1>3, <1>4, <1>5, <1>6, <1>7 DEF JobSteps

LEMMA OrderNext == Unrefused /\ [Next]_vars => OrderInv'
<1> SUFFICES ASSUME Unrefused, [Next]_vars PROVE OrderInv'
  OBVIOUS
<1>1. CASE Buy
  BY <1>1, FindOrder, AnswerOrder, CallOrder, HoldingOrder, TimeOrder
  DEF Buy, CheckoutNext, RequestSteps
<1>2. CASE JobSteps
  BY <1>2, JobStepsOrder
<1>3. UNCHANGED checkout => OrderInv'
  BY OrdersKept DEF checkout, Unrefused
<1>4. ASSUME NEW h \in Handlers, Fulfill(h) \/ Recover(h) PROVE OrderInv'
  <2>1. handlers[h].event \in paid
    BY <1>4 DEF Fulfill, Recover, In, Unrefused, Known, DeliveryKnown
  <2>2. /\ UNCHANGED <<intent, requests, sessions, shown>>
        /\ \/ UNCHANGED orders
           \/ Fulfilled(handlers[h].event) \/ Unfulfilled(handlers[h].event)
    BY <1>4 DEF Fulfill, Recover
  <2> QED BY <2>1, <2>2, LinkOrder, OrdersKept DEF Unrefused
<1>5. CASE JobDie \/ UNCHANGED vars
  BY <1>3, <1>5 DEF JobDie, vars
<1>6. CASE \/ \E h \in Handlers : Receive(h) \/ Handle(h) \/ Lose(h)
           \/ \E e \in Events : Lapse(e)
  BY <1>3, <1>4, <1>6 DEF Receive, Handle, Lose, Lapse
<1> QED BY <1>1, <1>2, <1>5, <1>6 DEF Next

LEMMA RefusedStays == [Next]_vars => (Refused => Refused')
<1> SUFFICES ASSUME [Next]_vars PROVE answers \subseteq answers'
  BY DEF Refused
<1>1. CASE Buy
  BY <1>1
  DEF Buy, CheckoutNext, RequestSteps, Find, Escalate, Create, Call, MarkRefused,
      MarkAmbiguous, Finalize, Reread, Order, Catch, Die, Stale, Pay
<1>2. CASE JobSteps \/ JobDie \/ UNCHANGED vars
  BY <1>2 DEF JobSteps, JobStart, JobRetry, JobList, JobPayment, JobOrder, JobMark, JobReplay,
              JobIntent, JobDie, vars, checkout
<1>3. CASE \/ \E h \in Handlers : Receive(h) \/ Handle(h) \/ Lose(h)
           \/ \E e \in Events : Lapse(e)
  BY <1>3 DEF Receive, Handle, Fulfill, Recover, Lose, Lapse, checkout
<1> QED BY <1>1, <1>2, <1>3 DEF Next

\* A payment has one order, whoever comes first: the request that finalizes the
\* row, a webhook, or the job, whatever fails between them; so the unique
\* payment_id of dodo_orders never stops a link (reconcile.ts 190-262,
\* fulfillment.ts 188-237).  If the provider refused no request of the key, and
\* the buyer does not use it again after paying.
THEOREM OneOrderEver ==
  ASSUME ~Again PROVE Spec => []OneOrder
<1> DEFINE Inv == InboxInv /\ Known /\ BuyInv /\ (~Refused => OrderInv)
<1>1. Init => Inv
  BY InboxInvInit, KnownInit, BuyInit, OrderInit
<1>2. Inv /\ [Next]_vars => Inv'
  <2> SUFFICES ASSUME Inv, [Next]_vars PROVE Inv'
    OBVIOUS
  <2>1. InboxInv' /\ Known' /\ BuyInv'
    BY InboxInvNext, KnownNext, BuyNext
  <2>2. ASSUME ~Refused' PROVE OrderInv'
    <3>1. ~Refused
      BY <2>2, RefusedStays
    <3> QED BY <3>1, OrderNext DEF Unrefused, BuyInv
  <2> QED BY <2>1, <2>2
<1>3. Inv => OneOrder
  BY DEF OrderInv, OneRow, OneOrder, OfSession, OfPayment
<1> HIDE DEF Inv
<1> QED BY <1>1, <1>2, <1>3, PTL DEF Spec

-----------------------------------------------------------------------------
(* What is acknowledged is settled.                                           *)

\* Payments with credits, or with an order and credits withheld, or missed.
Settled == granted \cup missed \cup {e \in Withheld : Refused \/ OfPayment(e) # {}}

LEMMA CreditsGrow == [Next]_vars => granted \subseteq granted' /\ missed \subseteq missed'
<1> SUFFICES ASSUME [Next]_vars PROVE granted \subseteq granted' /\ missed \subseteq missed'
  OBVIOUS
<1>1. CASE Buy \/ JobDie \/ UNCHANGED vars
  BY <1>1 DEF Buy, JobDie, vars, credits
<1>2. CASE JobSteps
  BY <1>2 DEF JobSteps, JobStart, JobRetry, JobList, JobPayment, JobOrder, JobMark, JobReplay,
              JobIntent, Fulfilled, Unfulfilled, Settles, credits
<1>3. CASE \/ \E h \in Handlers : Receive(h) \/ Handle(h) \/ Lose(h)
           \/ \E e \in Events : Lapse(e)
  BY <1>3 DEF Receive, Handle, Fulfill, Recover, Fulfilled, Unfulfilled, Settles, Lose, Lapse,
              credits
<1> QED BY <1>1, <1>2, <1>3 DEF Next

\* An order is added, or linked to a payment.
LEMMA OrdersGrow ==
  ASSUME Unrefused, [Next]_vars
  PROVE  orders \subseteq orders' \/ \E p \in paid : orders' = Linked(p)
<1>1. CASE Buy
  BY <1>1
  DEF Buy, CheckoutNext, RequestSteps, Find, Escalate, Create, Call, MarkRefused,
      MarkAmbiguous, Finalize, Reread, Order, Catch, Die, Stale, Pay, CreateOrder
<1>2. CASE JobSteps
  <2>1. JobReplay => job.payment \in paid
    BY DEF JobReplay, JobAt, Unrefused, Known, JobKnown
  <2> QED BY <1>2, <2>1
      DEF JobSteps, JobStart, JobRetry, JobList, JobPayment, JobOrder, JobMark, JobReplay,
          JobIntent, CreateOrder, Fulfilled, Unfulfilled, Settles, checkout
<1>3. ASSUME NEW h \in Handlers, Fulfill(h) \/ Recover(h)
      PROVE  orders \subseteq orders' \/ \E p \in paid : orders' = Linked(p)
  <2>1. handlers[h].event \in paid
    BY <1>3 DEF Fulfill, Recover, In, Unrefused, Known, DeliveryKnown
  <2> QED BY <1>3, <2>1 DEF Fulfill, Recover, Fulfilled, Unfulfilled, Settles
<1>4. CASE UNCHANGED checkout
  BY <1>4 DEF checkout
<1>5. CASE JobDie \/ UNCHANGED vars
  BY <1>4, <1>5 DEF JobDie, vars
<1>6. CASE \/ \E h \in Handlers : Receive(h) \/ Handle(h) \/ Lose(h)
           \/ \E e \in Events : Lapse(e)
  BY <1>3, <1>4, <1>6 DEF Receive, Handle, Lose, Lapse
<1> QED BY <1>1, <1>2, <1>5, <1>6 DEF Next

\* To link an order takes it from no other payment.
LEMMA SettledStays ==
  ASSUME InboxInv, Known, ~Refused => PageInv /\ OrderInv, [Next]_vars
  PROVE  Settled \subseteq Settled'
<1>1. (Refused => Refused') /\ granted \subseteq granted' /\ missed \subseteq missed'
  BY RefusedStays, CreditsGrow
<1>2. ASSUME NEW e \in Withheld, ~Refused, OfPayment(e) # {} PROVE OfPayment(e)' # {}
  <2>1. Unrefused /\ e \in Sessions /\ e # None
    BY <1>2, PurchaseAssumption, CheckoutAssumption DEF Unrefused
  <2>2. PICK o \in orders : o.payment = e
    BY <1>2 DEF OfPayment
  <2>3. CASE orders \subseteq orders'
    BY <2>2, <2>3 DEF OfPayment
  <2>4. ASSUME NEW p \in paid, orders' = Linked(p) PROVE OfPayment(e)' # {}
    <3>1. p = e
      BY <2>1, <2>2, PaidAlone
    <3>2. (OfSession(p) = {} /\ orders' = orders) \/ [session |-> p, payment |-> p] \in orders'
      BY <2>4 DEF Linked
    <3> QED BY <2>2, <3>1, <3>2 DEF OfPayment
  <2> QED BY <2>1, <2>3, <2>4, OrdersGrow
<1> QED BY <1>1, <1>2 DEF Settled

\* A handler is done with an event that is settled.
LEMMA WorkSettles ==
  ASSUME Shape, NEW h \in Handlers, NEW p, p = handlers[h].event,
         Fulfill(h) \/ Recover(h), Worked(h)
  PROVE  p \in Settled'
<1>1. ~Refuse(h) /\ ~Recovers(h)
  BY DEF Shape, HandlersOK, Handler, Worked, Refuse, Recovers, Move
<1>2. Fulfilled(p) \/ p \in missed'
  BY <1>1 DEF Fulfill, Recover
<1>3. ASSUME Fulfilled(p) PROVE p \in granted' \/ (p \in Withheld /\ OfPayment(p)' # {})
  <2>1. p \in granted' \/ p \in Withheld
    BY <1>3 DEF Fulfilled, Settles
  <2>2. \/ orders' = orders /\ OfPayment(p) # {}
        \/ [session |-> p, payment |-> p] \in orders'
    BY <1>3 DEF Fulfilled, Settles, Linked
  <2>3. OfPayment(p)' # {}
    BY <2>2 DEF OfPayment
  <2> QED BY <2>1, <2>3
<1> QED BY <1>2, <1>3 DEF Settled

\* What the provider is told is done, and what the inbox keeps as completed, has
\* its grant, or its order if the credits are withheld, or is a payment of which
\* a delivery ended without an order: for any number of deliveries, thefts of a
\* lease, crashes and runs of the job (routes.ts 186-191, fulfillment.ts
\* 326-358).  On the same terms as OneOrderEver.
THEOREM AckedSettled ==
  ASSUME ~Again PROVE Spec => []AckedIsSettled
<1> DEFINE Inv == InboxInv /\ Known /\ BuyInv /\ (~Refused => OrderInv) /\ DoneIn(Settled)
<1>1. Init => Inv
  BY InboxInvInit, KnownInit, BuyInit, OrderInit, DoneInit
<1>2. Inv /\ [Next]_vars => Inv'
  <2> SUFFICES ASSUME Inv, [Next]_vars PROVE Inv'
    OBVIOUS
  <2>1. InboxInv' /\ Known' /\ BuyInv'
    BY InboxInvNext, KnownNext, BuyNext
  <2>2. ASSUME ~Refused' PROVE OrderInv'
    <3>1. ~Refused
      BY <2>2, RefusedStays
    <3> QED BY <3>1, OrderNext DEF Unrefused, BuyInv
  <2>3. PICK S : S = Settled'
    BY Zenon
  <2>4. DoneIn(S)
    <3>1. Settled \subseteq S
      BY <2>3, SettledStays DEF BuyInv
    <3> QED BY <3>1 DEF DoneIn
  <2>5. \A h \in Handlers : (Fulfill(h) \/ Recover(h)) /\ Worked(h) => handlers[h].event \in S
    BY <2>3, WorkSettles DEF InboxInv
  <2>6. DoneIn(S)'
    BY <2>4, <2>5, InboxNext DEF InboxInv, Keeps
  <2>7. DoneIn(Settled)'
    BY <2>3, <2>6 DEF DoneIn
  <2> QED BY <2>1, <2>2, <2>7
<1>3. Inv => AckedIsSettled
  BY DEF DoneIn, Settled, AckedIsSettled
<1> HIDE DEF Inv
<1> QED BY <1>1, <1>2, <1>3, PTL DEF Spec

=============================================================================
