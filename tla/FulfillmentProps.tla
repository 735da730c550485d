--------------------------- MODULE FulfillmentProps ---------------------------
(* What the fulfilment of one payment promises.                             *)
EXTENDS Fulfillment

Applied == {x \in Refs : ledger[x].applied}

\* The shared balance received exactly what the ledger says it did: no row is
\* applied twice, by its writer and the job, or lost (store.ts, a row and the
\* balance are two statements for credits, and the job finishes them).
BalanceIsTheLedger == balance = OtherCredits + Moved(Applied) - spent

\* Two invocations never work in the lock at once, and a row is credited only
\* while the balance lacks it: the writer, a redelivery and the job cannot both
\* credit it (reconcile.ts: the loser's re-read observes the winner's flag).
CreditsOnce ==
  \A w \in Workers :
    workers[w].pc = "credit" => lock = w /\ Pending(workers[w].ref)

\* Whatever the order of grant, refunds, dispute and restore, and whatever was
\* spent in between, the account keeps between nothing and one pack of it.
NetWithinPack == Moved(Refs) \in 0 .. Pack

\* A ledger row that moved credits is never rewritten: redeliveries, markers
\* and upgrades of markers leave it alone.
RowsAreFinal ==
  [][\A x \in Refs : ledger[x].delta # 0 => ledger'[x].delta = ledger[x].delta]_vars

\* No delivery is left, and the job would find nothing to do: every event was
\* handled, every row is on the balance, and neither the payment, a refund or
\* the dispute lacks the row the job looks for and could still write.
Quiet ==
  /\ \A w \in Workers : workers[w].pc = "idle"
  /\ news = handled
  /\ \A x \in Refs : ~Pending(x)
  /\ sound => ledger["grant"].there \/ Held
  /\ \A d \in Disputes : /\ Upstream(d) \in Revokes => ledger["dispute"].there
                         /\ Upstream(d) \in Restores => ~Held

InDispute == \E d \in Disputes : Upstream(d) \in Revokes \cup {"challenged"}

\* The refunds that succeeded upstream.
Returned == {r \in Refunds : \E e \in news : /\ e.type = "refund" /\ e.id = r
                                           /\ e.amount # Foreign}

\* In the end the account has of the pack what the refunds do not cover,
\* nothing while the dispute is open or lost, and all orders of the news lead
\* there (fulfillment.ts: compute their deltas ... and converge exactly).
NetIsEntitlement ==
  Quiet /\ spent = 0 =>
    Moved(Refs) = IF ~sound \/ InDispute THEN 0 ELSE Pack - Target(Returned)

\* While a dispute is open or lost the account holds nothing of the pack that
\* it has not already spent, unless an invocation died: a grant whose balance is
\* written late credits a disputed pack (fulfillment.ts: revoke everything
\* still outstanding).
DisputedIsHeld == Quiet /\ crashes = 0 /\ InDispute => Moved(Refs) <= spent

\* A late failure never takes back the status of a payment that was granted.
\* The code does not keep this: the status is read before the grant and written
\* after it, outside the lock (fulfillment.ts, payment.failed).
FailureNeverRegresses ==
  [][ledger["grant"].there /\ order'.status = "failed" => order.status = "failed"]_vars

\* A credit whose balance was never written, because its invocation died
\* between the two statements, is written in the end, also when the lock of
\* the dead invocation is still there (store.ts: the job re-applies it).
PendingIsApplied == \A x \in Refs : Pending(x) ~> ~Pending(x)
=============================================================================
