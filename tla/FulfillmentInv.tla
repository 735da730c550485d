---------------------------- MODULE FulfillmentInv ----------------------------
(***************************************************************************)
(* The inductive invariants of the fulfilment: LedgerInv behind            *)
(* RowsAreFinal, which needs nothing of the environment, and CreditsOnce,  *)
(* which needs prompt lock holders, both for any amounts; TypeInv behind   *)
(* TypeOK; with prompt holders NetInv behind NetWithinPack, HoldInv behind *)
(* DisputedIsHeld and EvenInv behind NetIsEntitlement.                     *)
(***************************************************************************)
EXTENDS FulfillmentProps

Pcs == {"idle", "stamp", "record", "lock", "open", "insert", "credit",
        "settle", "restore", "debit", "status", "unlock"}
Inside == Pcs \ {"idle", "stamp", "record", "lock"}

IsWorker(r) == r \in [pc: Pcs, event: Event, ref: Refs, amount: {r.amount},
                      todo: SUBSET Refunds, done: SUBSET Refunds,
                      status: Statuses]

\* A row that is not there moved nothing.
IsRow(row) ==
  /\ row \in [there: BOOLEAN, delta: {row.delta}, applied: BOOLEAN]
  /\ ~row.there => row.delta = 0

Shape ==
  /\ news \subseteq Event
  /\ workers = [w \in Workers |-> workers[w]]
  /\ \A w \in Workers : IsWorker(workers[w])
  /\ ledger = [x \in Refs |-> ledger[x]]
  /\ \A x \in Refs : IsRow(ledger[x])

\* Who works in the lock owns it.
LockIsOwned == \A w \in Workers : workers[w].pc \in Inside => lock = w

\* A credit that is about to be inserted is worth something, so that its row
\* is pending until it is on the balance.
InsertsMove ==
  \A w \in Workers : workers[w].pc = "insert" => workers[w].amount # 0

LedgerInv == Shape /\ LockIsOwned /\ InsertsMove /\ CreditsOnce

-----------------------------------------------------------------------------
(* Amounts.                                                                 *)

\* What the balance still lacks adds to it.
RowFits(x) ==
  /\ ledger[x].delta \in Int
  /\ ~ledger[x].applied => ledger[x].delta >= 0

\* A worker is about to insert or to credit something, takes nothing negative,
\* and settles refunds that succeeded, which stay so.
WorkerFits(w) ==
  /\ workers[w].amount \in Int
  /\ workers[w].pc = "insert" => workers[w].amount > 0
  /\ workers[w].pc = "debit" => workers[w].amount >= 0
  /\ workers[w].pc = "credit" => ledger[workers[w].ref].delta > 0
  /\ workers[w].done \cup workers[w].todo \subseteq Succeeded

Fits == (\A x \in Refs : RowFits(x)) /\ (\A w \in Workers : WorkerFits(w))

TypeInv == Shape /\ TypeOK /\ Fits

-----------------------------------------------------------------------------
(* What the payment has left of its pack.                                   *)

Net == Moved(Refs)

\* The grant is the whole pack, a restore gives back no more than the dispute
\* took, and nothing else adds.
Signs ==
  /\ ledger["grant"].delta \in {0, Pack}
  /\ ledger["dispute"].delta <= 0
  /\ ledger["regrant"].delta \in 0 .. -ledger["dispute"].delta
  /\ \A r \in Refunds : ledger[r].delta <= 0

\* Nothing is taken from a pack that was not granted.
GrantFirst ==
  ledger["grant"].there \/ \A x \in Refs : ledger[x].delta = 0

\* What a worker is about to write still suits the ledger it was computed from.
InsertSuits(w) ==
  workers[w].pc = "insert" =>
    \/ workers[w].ref = "grant" /\ workers[w].amount = Pack
    \/ /\ workers[w].ref = "regrant"
       /\ workers[w].amount \in 1 .. -ledger["dispute"].delta
DebitSuits(w) ==
  workers[w].pc = "debit" =>
    /\ workers[w].amount \in 0 .. Net
    /\ workers[w].ref \in Refunds \cup {"dispute", "regrant"}
    /\ workers[w].ref = "regrant" => workers[w].amount = 0

\* Who has just granted the pack settles the recorded refunds alone, and they
\* have taken no more so far than those settled cover.
Granting(w) ==
  \/ workers[w].pc = "settle"
  \/ /\ workers[w].pc = "credit"
     /\ workers[w].event.type # "repair"
     /\ workers[w].ref = "grant"
SettleSuits(w) ==
  Granting(w) =>
    /\ ledger["grant"].delta = Pack
    /\ ledger["dispute"].delta = 0 /\ ledger["regrant"].delta = 0
    /\ \A r \in Refunds \ workers[w].done : ledger[r].delta = 0
    /\ -Moved(Refunds) <= Target(workers[w].done)
SettlesLate(w) ==
  workers[w].done \cup workers[w].todo # {} =>
    workers[w].pc \in {"settle", "status", "unlock"}
Suits(w) ==
  InsertSuits(w) /\ DebitSuits(w) /\ SettleSuits(w) /\ SettlesLate(w)

NetInv ==
  /\ LedgerInv /\ TypeInv
  /\ Signs /\ GrantFirst /\ NetWithinPack
  /\ \A w \in Workers : Suits(w)

-----------------------------------------------------------------------------
(* An open or lost dispute holds what is left.                              *)

\* Upstream a dispute moves up, and its last status is the one it is in.
Rank(status) ==
  CASE status = "opened"     -> 0
    [] status = "challenged" -> 1
    [] status = "accepted"   -> 2
    [] OTHER                 -> 3
Seen(d) == {e.type : e \in {x \in news : x.id = d}}
Latest(d, s) ==
  /\ s \in Seen(d)
  /\ \A t \in Seen(d) \ {s} : Rank(t) < Rank(s) /\ Later(t) \cap Seen(d) # {}
Chain ==
  \A d \in Disputes : /\ Seen(d) \subseteq DisputeEvents \cap DisputeStatuses
                      /\ Seen(d) # {} => \E s \in Seen(d) : Latest(d, s)

\* What is delivered was issued, but for the job's own work.
Sent(w) == workers[w].event \in news \cup {Payment, Mark} \cup Repairs

\* A pack is granted to an order that is linked to its payment.
LinkedFirst ==
  /\ ledger["grant"].there => order.linked
  /\ \A w \in Workers : workers[w].pc = "insert" => order.linked

\* No dispute was resolved for the account, and nothing has died.
Contested == crashes = 0 /\ \A e \in news : e.type \notin Restores

\* Nobody is about to restore, the pack is granted only while no dispute is
\* recorded, and a dispute takes all that is left.
HoldSuits(w) ==
  /\ workers[w].pc # "restore"
  /\ workers[w].pc \in {"insert", "settle"} => workers[w].event = Payment
  /\ workers[w].pc = "credit" =>
       workers[w].event = Payment \/ workers[w].event.type = "repair"
  /\ workers[w].pc = "insert" =>
       workers[w].ref = "grant" /\ ~ledger["dispute"].there
  /\ workers[w].pc = "debit" =>
       /\ workers[w].ref # "regrant"
       /\ workers[w].ref = "dispute" => workers[w].amount = Net

PendingIsOwned ==
  \A x \in Refs : Pending(x) =>
    \E w \in Workers : workers[w].pc = "credit" /\ workers[w].ref = x

Holding ==
  /\ LinkedFirst
  /\ ~ledger["regrant"].there
  /\ ledger["dispute"].there => Net <= spent
  /\ PendingIsOwned
  /\ \A w \in Workers : HoldSuits(w)

HoldInv ==
  /\ NetInv /\ BalanceIsTheLedger
  /\ Chain /\ \A w \in Workers : Sent(w)
  /\ Contested => Holding

-----------------------------------------------------------------------------
(* What refunds take does not depend on the order of the news.              *)

\* The refunds that count and have a row, and what all of them have taken.
There == {r \in Succeeded : ledger[r].there}
Taken == -Moved(Refunds)

\* A refund has one amount, and a row only once it is recorded as succeeded.
OneAmount ==
  /\ \A e, f \in news : e.id \in Refunds /\ e.id = f.id => e.amount = f.amount
  /\ \A r \in Refunds :
       /\ refunds[r].status = "succeeded"
            => Signal("refund", r, refunds[r].amount) \in news
       /\ ledger[r].there => refunds[r].status = "succeeded"

\* A row has its reason: a grant a payment that passes the gates, the
\* dispute's row the news of a dispute.  And an event that was answered has
\* its row.
Founded ==
  /\ ledger["grant"].there => sound /\ ledger["grant"].delta = Pack
  /\ ledger["dispute"].there => \E e \in news : e.type \in DisputeEvents
  /\ \A e \in handled :
       e.type = "refund" /\ e.amount # Foreign => ledger[e.id].there

\* A worker writes the row of its own event, after the record of the refund.
OwnRow(w) ==
  LET e == workers[w].event
  IN /\ workers[w].pc = "insert" => sound
     /\ workers[w].pc = "debit" =>
          \/ e.type = "refund" /\ workers[w].ref = e.id
          \/ e.type \in DisputeEvents /\ workers[w].ref = "dispute"
     /\ e.type = "refund" => /\ workers[w].pc # "stamp"
                             /\ workers[w].pc # "record"
                                  => refunds[e.id].status = "succeeded"
     /\ e.type = "refund" /\ e.amount # Foreign /\ workers[w].pc \in {"status", "unlock"}
          => ledger[e.id].there

\* Once the pack is granted, refunds have taken at least what those with a row
\* cover, and at most what all recorded ones do.
Even ==
  ledger["grant"].there /\ (\A w \in Workers : ~Granting(w))
    => Target(There) <= Taken /\ Taken <= Target(Succeeded)

\* A refund is about to take what brings them there, and who granted the pack
\* has taken just what the refunds it settled cover, and has the rest to do.
ShareSuits(w) ==
  /\ workers[w].pc = "debit" /\ workers[w].ref # "dispute" /\ ledger["grant"].there =>
       /\ workers[w].ref \in Succeeded
       /\ Target(There \cup {workers[w].ref}) <= workers[w].amount + Taken
       /\ workers[w].amount + Taken <= Target(Succeeded)
  /\ Granting(w) =>
       /\ Taken = Target(workers[w].done)
       /\ workers[w].done \cap workers[w].todo = {}
       /\ workers[w].pc = "settle" => There \subseteq workers[w].done \cup workers[w].todo

\* Nothing was spent, and no dispute took what is left.
Clear == spent = 0 /\ ~ledger["dispute"].there

Reasoned == OneAmount /\ Founded /\ \A w \in Workers : OwnRow(w)
Shared == Even /\ \A w \in Workers : ShareSuits(w)
EvenInv == HoldInv /\ (Contested => Reasoned /\ (Clear => Shared))
=============================================================================
