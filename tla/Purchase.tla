------------------------------- MODULE Purchase -------------------------------
(* A purchase from the checkout to the grant: the checkout of one key, the    *)
(* inbox that takes the webhooks of its payments, and the reconciliation job  *)
(* (payments/reconcile.ts) that works on the rows of both.                    *)
(*                                                                            *)
(* Fulfilment looks for an order in one step and works on it in the same, or  *)
(* writes one in another: nothing that others may do between its further      *)
(* statements makes a difference, but an order may be written between the two *)
(* (the job's is, outside the payment lock).  The job claims deliveries as    *)
(* the handler Job.                                                           *)
EXTENDS Checkout, WebhookInbox

CONSTANTS
  Job,
  Withheld  \* payments whose credits are withheld: not what was ordered, or in dispute
ASSUME PurchaseAssumption ==
  Events = Sessions /\ Job \in Handlers /\ Withheld \subseteq Sessions

VARIABLES
  granted,  \* payments with a grant in the ledger
  missed,   \* history: payments of which a delivery ended with no_order
  job       \* where the job is, the payments it was given, what is to do, and
            \* the payment at hand with the status its intent will get
credits == <<granted, missed>>
vars == <<checkout, delivery, credits, job, faults>>

Rest == [pc |-> "rest", seen |-> {}, todo |-> {}, payment |-> None, status |-> "none"]

Init == /\ NoFaultYet /\ CheckoutInit /\ InboxInit
        /\ granted = {} /\ missed = {} /\ job = Rest

-----------------------------------------------------------------------------
\* fulfillDodoEvent for payment.succeeded.
OfSession(p) == {o \in orders : o.session = p}
OfPayment(p) == {o \in orders : o.payment = p}
Found(p) == OfSession(p) \cup OfPayment(p) # {}

\* The order of the session, else of the payment, else a new one from the
\* metadata, with its payment.  The update fails if another order has the
\* payment (payment_id is unique).
Linked(p) ==
  IF OfSession(p) = {} /\ OfPayment(p) # {} THEN orders
  ELSE (orders \ OfSession(p)) \cup {[session |-> p, payment |-> p]}
Conflict(p) == \E o \in OfSession(p), x \in OfPayment(p) : o # x

\* Quarantined and suppressed grants end normally, too.
Settles(p) == /\ orders' = Linked(p)
              /\ granted' = granted \cup ({p} \ Withheld)
Fulfilled(p) == ~Conflict(p) /\ Settles(p) /\ UNCHANGED missed
Unfulfilled(p) ==
  /\ IF Conflict(p) THEN Works /\ UNCHANGED <<orders, granted>>
     ELSE /\ Fails("fulfill")
          /\ \/ orders' \in {orders, Linked(p)} /\ UNCHANGED granted
             \/ Settles(p)
  /\ UNCHANGED missed

\* withPaymentLock: who waits for too long gives up.
Locked(p) == \E h \in Handlers : In(h, "recover") /\ handlers[h].event = p

Fulfill(h) ==
  LET p == handlers[h].event IN
  /\ In(h, "work")
  /\ \/ /\ ~Locked(p) /\ Found(p)
        /\ \/ Worked(h) /\ Works /\ Fulfilled(p)
           \/ Refuse(h) /\ Unfulfilled(p)
     \/ ~Locked(p) /\ ~Found(p) /\ Recovers(h) /\ Works /\ UNCHANGED <<orders, credits>>
     \/ /\ Refuse(h) /\ UNCHANGED <<orders, credits>>
        /\ (Locked(p) /\ Works) \/ Fails("fulfill")
  /\ UNCHANGED <<intent, requests, sessions, shown, paid, answers, job>>

\* recoverOrder: whatever prevents the insert, the order of the session is read
\* again, and if there is none the event is done; that read may fail, too.
Recover(h) ==
  LET p == handlers[h].event IN
  /\ In(h, "recover")
  /\ \/ /\ OfSession(p) # {} \/ OfPayment(p) = {}
        /\ \/ Worked(h) /\ Works /\ Fulfilled(p)
           \/ Refuse(h) /\ Unfulfilled(p)
     \/ /\ OfSession(p) = {} /\ Worked(h) /\ UNCHANGED <<orders, granted>>
        /\ (OfPayment(p) # {} /\ Works) \/ Fails("recover")
        /\ missed' = missed \cup {p}
     \/ Refuse(h) /\ Fails("recover") /\ UNCHANGED <<orders, credits>>
  /\ UNCHANGED <<intent, requests, sessions, shown, paid, answers, job>>

-----------------------------------------------------------------------------
\* The job.

JobAt(pc) == job.pc = pc
\* On to the next payment; after the last one the intent is looked at, and
\* after that the job ends.
Done == job' = IF job.todo = {} THEN Rest
               ELSE [job EXCEPT !.pc = "payments", !.todo = @ \ {job.payment}]
JobDo(pc, p, status) ==
  job' = [job EXCEPT !.pc = pc, !.payment = p, !.status = status]

JobStart ==
  /\ JobAt("rest")
  /\ \E kept \in SUBSET Events : Prune(kept)
  /\ job' = [Rest EXCEPT !.pc = "inbox", !.todo =
       {e \in Events : inbox'[e].status \in {"failed", "processing"}}]
  /\ UNCHANGED <<checkout, credits>>

\* Deliveries that failed or were abandoned are claimed and fulfilled again.
JobRetry(e) ==
  /\ JobAt("inbox") /\ e \in job.todo /\ Deliver(Job, e)
  /\ job' = [job EXCEPT !.todo = @ \ {e}]
  /\ UNCHANGED <<checkout, credits>>

JobList ==
  /\ JobAt("inbox") /\ job.todo = {} /\ In(Job, "off")
  /\ \/ Works /\ job' = [job EXCEPT !.pc = "payments", !.seen = paid, !.todo = paid]
     \/ Fails("list") /\ job' = Rest
  /\ UNCHANGED <<checkout, delivery, credits>>

JobPaymentOrdered(p) ==
  /\ JobAt("payments") /\ p \in job.todo
  /\ IF OfPayment(p) \cup OfSession(p) # {} THEN job' = [job EXCEPT !.todo = @ \ {p}]
     ELSE JobDo("order", p, "recovered")
  /\ UNCHANGED <<checkout, delivery, credits, faults>>

\* A payment without an order gets one from the intent, whose status follows.
JobPayment(p) ==
  /\ JobAt("payments") /\ p \in job.todo
  /\ JobDo(IF OfPayment(p) \cup OfSession(p) # {} THEN "replay" ELSE "order", p,
           IF intent.status = "pending" THEN "recovered" ELSE intent.status)
  /\ UNCHANGED <<checkout, delivery, credits, faults>>

JobOrderOfPayment ==
  LET o == [session |-> Recovered, payment |-> job.payment] IN
  /\ JobAt("order") /\ Works
  /\ IF Vacant(o) THEN orders' = orders \cup {o} /\ job' = [job EXCEPT !.pc = "mark"]
     ELSE Done /\ UNCHANGED orders
  /\ UNCHANGED <<intent, requests, sessions, shown, paid, answers, delivery, credits>>

JobOrder ==
  LET o == [session |-> IF intent.session = None THEN Recovered ELSE intent.session,
            payment |-> job.payment] IN
  /\ JobAt("order")
  /\ \/ Works /\ CreateOrder(o) /\ job' = [job EXCEPT !.pc = "mark"]
     \/ /\ \/ Works /\ ~Vacant(o)
           \/ Fails("order")
        /\ Done /\ UNCHANGED orders
  /\ UNCHANGED <<intent, requests, sessions, shown, paid, answers, delivery, credits>>

JobMark ==
  /\ JobAt("mark")
  /\ \/ Works /\ IntentIs(job.status) /\ job' = [job EXCEPT !.pc = "replay"]
     \/ Fails("mark") /\ Done /\ UNCHANGED intent
  /\ UNCHANGED <<orders, requests, sessions, shown, paid, answers, delivery, credits>>

JobReplay ==
  LET p == job.payment IN
  /\ JobAt("replay") /\ Done
  /\ \/ (p \in granted \/ Locked(p)) /\ Works /\ UNCHANGED <<orders, credits>>
     \/ /\ p \notin granted /\ ~Locked(p)
        /\ (Works /\ Fulfilled(p)) \/ Unfulfilled(p)
  /\ UNCHANGED <<intent, requests, sessions, shown, paid, answers, delivery>>

\* The intent, if it is unresolved: a payment of its key recovers it; without
\* one, and unless its address was given away, it is left to a human.
Unresolved ==
  \/ intent.status = "pending" /\ ~intent.fresh
  \/ intent.status = "needs_reconciliation"
JobIntent ==
  /\ JobAt("payments") /\ job.todo = {}
  /\ \/ /\ Unresolved /\ UNCHANGED <<intent, faults>>
        /\ \E p \in job.seen :
             JobDo(IF OfPayment(p) # {} THEN "mark" ELSE "order", p, "recovered")
     \/ /\ Unresolved /\ job.seen = {} /\ ~intent.finalize /\ job' = Rest
        /\ \/ /\ Works
              /\ intent' = IF intent.status = "pending" THEN Escalated ELSE intent
           \/ Fails("escalate") /\ UNCHANGED intent
     \/ /\ ~Unresolved \/ (job.seen = {} /\ intent.finalize)
        /\ Works /\ job' = Rest /\ UNCHANGED intent
  /\ UNCHANGED <<orders, requests, sessions, shown, paid, answers, delivery, credits>>

JobSteps ==
  \/ JobStart \/ (\E e \in Events : JobRetry(e) \/ JobPayment(e)) \/ JobList
  \/ JobOrder \/ JobMark \/ JobReplay \/ JobIntent

JobDie ==
  /\ ~JobAt("rest") /\ In(Job, "off") /\ Fails("job") /\ job' = Rest
  /\ UNCHANGED <<checkout, delivery, credits>>

-----------------------------------------------------------------------------
Buy == CheckoutNext /\ UNCHANGED <<delivery, credits, job>>
Receive(h) ==
  h # Job /\ (\E e \in paid : Deliver(h, e)) /\ UNCHANGED <<checkout, credits, job>>
Lapse(e) == Expire(e) /\ UNCHANGED <<checkout, credits, job>>
Handle(h) ==
  \/ HandlerSteps(h) /\ UNCHANGED <<checkout, credits, job>>
  \/ Fulfill(h) \/ Recover(h)
Lose(h) ==
  /\ Vanish(h) /\ job' = IF h = Job THEN Rest ELSE job
  /\ UNCHANGED <<checkout, credits>>

Next == \/ Buy \/ JobSteps \/ JobDie
        \/ \E h \in Handlers : Receive(h) \/ Handle(h) \/ Lose(h)
        \/ \E e \in Events : Lapse(e)

Spec == Init /\ [][Next]_vars

\* The job is started again and again, it and a handler go on until they end,
\* and the lease of an owner that is gone runs out.  No webhook need ever come.
LiveSpec ==
  /\ Spec /\ WF_vars(JobSteps) /\ \A h \in Handlers : WF_vars(Handle(h))
  /\ \A e \in Events : WF_vars(inbox[e].owner = Gone /\ Lapse(e))

-----------------------------------------------------------------------------
TypeOK ==
  /\ CheckoutTypeOK /\ InboxTypeOK /\ granted \subseteq paid /\ missed \subseteq paid
  /\ job \in [pc : {"rest", "inbox", "payments", "order", "mark", "replay"},
              seen : SUBSET Sessions, todo : SUBSET Sessions,
              payment : Sessions \cup {None},
              status : {"none", "pending", "created", "failed", "recovered",
                        "needs_reconciliation"}]

\* A payment has one order, whether the checkout, a webhook or the job wrote it
\* first; with two, to link the payment would fail for ever (reconcile.ts 190).
OneOrder == ~Refused => \A p \in paid : \A o, x \in OfSession(p) \cup OfPayment(p) : o = x

\* The provider is told that a payment is done, and its payload is deleted,
\* only when the credits are granted, or withheld with the order at hand, or
\* when no order could be found or written (routes.ts 186-191,
\* fulfillment.ts 326-358).
AckedIsSettled ==
  \A e \in Events :
    e \in acked \/ inbox[e].status = "completed" =>
      \/ e \in granted \cup missed
      \/ e \in Withheld /\ (Refused \/ OfPayment(e) # {})

\* The last only happens after a failure: a webhook that overtakes the order of
\* the checkout, or that the job's order overtakes, finds an order of its
\* session (fulfillment.ts 233-236, reconcile.ts 189-202).
MissedNeedsFailure == faults = 0 => missed = {}

\* No payment ends without credits, although its checkout, its order or every
\* delivery of it failed, or a delivery was done without an order
\* (reconcile.ts 5-15).
PaidIsGranted ==
  \A p \in Sessions \ Withheld : p \in paid ~> Refused \/ p \in granted

\* A delivery that failed, or whose owner is gone, is taken up again until it
\* is completed or pruned (reconcile.ts 142-144).
DeliverySettles ==
  \A e \in Events : inbox[e].status \in {"processing", "failed"}
                     ~> inbox[e].status \in {"completed", "none"}
=============================================================================
