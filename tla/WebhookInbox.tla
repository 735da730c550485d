----------------------------- MODULE WebhookInbox -----------------------------
(* The inbox of webhook deliveries (payments/store.ts, claimDelivery and what *)
(* settles a claim): one row per webhook id, owned by a token for as long as  *)
(* a lease lasts, and the invocations that handle deliveries, the             *)
(* reconciliation job among them.                                             *)
(*                                                                            *)
(* The token of a claim is its handler; the token of a handler that is gone   *)
(* reads Gone, wherever it was written or seen.                               *)
EXTENDS Faults

CONSTANTS
  Events,    \* webhook ids
  Handlers,  \* invocations that handle deliveries
  NoEvent, NoOwner, Gone
ASSUME InboxAssumption ==
  NoEvent \notin Events /\ {NoOwner, Gone} \cap Handlers = {} /\ NoOwner # Gone

VARIABLES
  inbox,     \* webhook_inbox: status, token, and whether the lease runs
  handlers,  \* where a handler is, its event, and the row it has read
  acked      \* events the provider was told are done
delivery == <<inbox, handlers, acked>>

NoRow == [status |-> "none", owner |-> NoOwner, live |-> FALSE]
Off == [pc |-> "off", event |-> NoEvent, seen |-> NoRow]

InboxInit ==
  /\ inbox = [e \in Events |-> NoRow] /\ acked = {}
  /\ handlers = [h \in Handlers |-> Off]

In(h, pc) == handlers[h].pc = pc
Move(h, pc) == handlers' = [handlers EXCEPT ![h].pc = pc]
Leave(h) == handlers' = [handlers EXCEPT ![h] = Off]
Row(h) == inbox[handlers[h].event]
Owns(h) == Row(h).status = "processing" /\ Row(h).owner = h
RowIs(h, row) == inbox' = [inbox EXCEPT ![handlers[h].event] = row]
Ack(h) == acked' = acked \cup {handlers[h].event}

\* A handler is gone, its claim unsettled.
Abandon(h) ==
  LET Token(row) == IF row.owner = h THEN [row EXCEPT !.owner = Gone] ELSE row IN
  /\ inbox' = [e \in Events |-> Token(inbox[e])]
  /\ handlers' = [g \in Handlers |->
       IF g = h THEN Off ELSE [handlers[g] EXCEPT !.seen = Token(@)]]

-----------------------------------------------------------------------------
\* The provider delivers, as often as it likes.
Deliver(h, e) ==
  /\ In(h, "off")
  /\ handlers' = [handlers EXCEPT ![h] = [Off EXCEPT !.pc = "insert", !.event = e]]
  /\ UNCHANGED <<inbox, acked, faults>>

Claimed(h) == RowIs(h, [status |-> "processing", owner |-> h, live |-> TRUE])

Insert(h) ==
  /\ In(h, "insert")
  /\ \/ Row(h).status = "none" /\ Claimed(h) /\ Move(h, "work")
     \/ Row(h).status # "none" /\ Move(h, "read") /\ UNCHANGED inbox
  /\ UNCHANGED <<acked, faults>>

\* A completed delivery is acknowledged, a running one left to its owner.
ReadRowAsDuplicate(h) ==
  /\ In(h, "read") /\ Leave(h) /\ UNCHANGED <<inbox, faults>>
  /\ IF Row(h).status = "none" THEN UNCHANGED acked ELSE Ack(h)
ReadRowPatiently(h) ==
  /\ In(h, "read") /\ UNCHANGED <<inbox, faults>>
  /\ IF Row(h).status = "failed"
     THEN handlers' = [handlers EXCEPT ![h].pc = "steal", ![h].seen = Row(h)]
     ELSE Leave(h)
  /\ acked' = IF Row(h).status = "completed" THEN acked \cup {handlers[h].event} ELSE acked
ReadRow(h) ==
  LET row == Row(h) IN
  /\ In(h, "read")
  /\ \/ row.status = "none" /\ Leave(h) /\ UNCHANGED acked
     \/ row.status = "completed" /\ Leave(h) /\ Ack(h)
     \/ row.status = "processing" /\ row.live /\ Leave(h) /\ UNCHANGED acked
     \/ /\ row.status = "failed" \/ (row.status = "processing" /\ ~row.live)
        /\ handlers' = [handlers EXCEPT ![h].pc = "steal", ![h].seen = row]
        /\ UNCHANGED acked
  /\ UNCHANGED <<inbox, faults>>

\* Conditional on the exact row read: of several thieves one succeeds.
Steal(h) ==
  /\ In(h, "steal")
  /\ \/ Row(h) = handlers[h].seen /\ Claimed(h) /\ Move(h, "work")
     \/ Row(h) # handlers[h].seen /\ Leave(h) /\ UNCHANGED inbox
  /\ UNCHANGED <<acked, faults>>

\* The event is fulfilled, in one step or two; who composes this module says
\* what that is, and whether it ends normally or with an exception.
Recovers(h) == In(h, "work") /\ Move(h, "recover") /\ UNCHANGED <<inbox, acked>>
Worked(h) == handlers[h].pc \in {"work", "recover"} /\ Move(h, "complete") /\ UNCHANGED <<inbox, acked>>
Refuse(h) == handlers[h].pc \in {"work", "recover"} /\ Move(h, "fail") /\ UNCHANGED <<inbox, acked>>

\* Acknowledged also when the lease was stolen meanwhile.
Complete(h) ==
  /\ In(h, "complete")
  /\ \/ /\ Works /\ Leave(h) /\ Ack(h)
        /\ IF Owns(h) THEN RowIs(h, [NoRow EXCEPT !.status = "completed"])
           ELSE UNCHANGED inbox
     \/ Fails("complete") /\ Move(h, "fail") /\ UNCHANGED <<inbox, acked>>

FailUnowned(h) ==
  /\ In(h, "fail") /\ UNCHANGED <<acked, faults>> /\ Leave(h)
  /\ RowIs(h, [NoRow EXCEPT !.status = "failed"])
Fail(h) ==
  /\ In(h, "fail") /\ Leave(h) /\ UNCHANGED <<acked, faults>>
  /\ IF Owns(h) THEN RowIs(h, [NoRow EXCEPT !.status = "failed"])
     ELSE UNCHANGED inbox

\* It dies, or cannot even record that it failed.
Vanish(h) == ~In(h, "off") /\ Fails("handler") /\ Abandon(h) /\ UNCHANGED acked

\* A lease runs out a minute after the claim: that of an owner that is gone
\* always, that of one still at work if it is slow.
Expire(e) ==
  /\ inbox[e].live /\ inbox' = [inbox EXCEPT ![e].live = FALSE]
  /\ \/ inbox[e].owner = Gone /\ Works
     \/ inbox[e].owner # Gone /\ Fails("slow")
  /\ UNCHANGED <<handlers, acked>>

\* Rows that were settled long ago are deleted.
Prune(kept) ==
  /\ \A e \in Events \ kept : inbox[e].status \in {"none", "completed", "failed"}
  /\ inbox' = [e \in Events |-> IF e \in kept THEN inbox[e] ELSE NoRow]
  /\ UNCHANGED <<handlers, acked, faults>>

HandlerSteps(h) == Insert(h) \/ ReadRow(h) \/ Steal(h) \/ Complete(h) \/ Fail(h)

-----------------------------------------------------------------------------
InboxTypeOK ==
  LET Rows == [status : {"none", "processing", "completed", "failed"},
               owner : Handlers \cup {NoOwner, Gone}, live : BOOLEAN] IN
  /\ inbox \in [Events -> Rows] /\ acked \subseteq Events
  /\ handlers \in [Handlers ->
       [pc : {"off", "insert", "read", "steal", "work", "recover", "complete", "fail"},
        event : Events \cup {NoEvent}, seen : Rows]]

\* A delivery that was completed stays so until it is pruned: an owner whose
\* lease was stolen neither fails nor reopens it (store.ts 269-292).
CompletedIsFinal ==
  [][\A e \in Events : inbox[e].status = "completed" =>
       inbox'[e].status \in {"completed", "none"}]_delivery
=============================================================================
