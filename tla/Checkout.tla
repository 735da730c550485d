------------------------------- MODULE Checkout -------------------------------
(* The checkout of one idempotency key of one account (payments/routes.ts,    *)
(* handleCheckoutSession): the row of checkout_intents, the sessions of the   *)
(* payment provider, and the requests of the buyer, which may overlap.        *)
(*                                                                            *)
(* A statement in D1 and the call to the provider are a step each.  A session *)
(* can be paid once its address was answered to a request; the payment of a   *)
(* session has the name of the session.                                       *)
EXTENDS Faults

CONSTANTS
  Requests,   \* requests of the buyer that may be open at once
  Sessions,   \* sessions the provider may create, and their payments (bound)
  None,       \* no session, no payment
  Recovered,  \* stands for the session 'recovered:<payment>'
  Again       \* the buyer may use a key again after it was paid

ASSUME CheckoutAssumption ==
  /\ Again \in BOOLEAN
  /\ {None, Recovered} \cap Sessions = {} /\ None # Recovered

VARIABLES
  intent,    \* the row of the key; "none" is no row
  orders,    \* dodo_orders: session, and payment once it is known
  requests,  \* where a request is, and the session it was given
  sessions,  \* sessions the provider created
  shown,     \* those whose address was answered to the buyer
  paid,      \* those that were paid
  answers    \* history: answers of the provider that were no session
checkout == <<intent, orders, requests, sessions, shown, paid, answers>>

Idle == [pc |-> "idle", session |-> None]

CheckoutInit ==
  /\ intent = [status |-> "none", session |-> None, finalize |-> FALSE, fresh |-> TRUE]
  /\ orders = {} /\ requests = [r \in Requests |-> Idle]
  /\ sessions = {} /\ shown = {} /\ paid = {} /\ answers = {}

At(r, pc) == requests[r].pc = pc
Goto(r, pc) == requests' = [requests EXCEPT ![r].pc = pc]
Answer(r) == requests' = [requests EXCEPT ![r] = Idle]
Show(s) == shown' = shown \cup {s}

\* updateIntent is unconditional, and stamps the row.
IntentIs(status) ==
  intent' = [intent EXCEPT !.status = status, !.finalize = FALSE, !.fresh = TRUE]
Escalated ==
  [intent EXCEPT !.status = "needs_reconciliation", !.finalize = FALSE, !.fresh = TRUE]

Vacant(o) ==
  \A x \in orders :
    /\ x.session = o.session => o.session = Recovered /\ x.payment # o.payment
    /\ x.payment = o.payment => o.payment = None
CreateOrder(o) == Vacant(o) /\ orders' = orders \cup {o}

-----------------------------------------------------------------------------
\* A key that is settled is answered from its row; one that may have a session
\* already is locked; one that was refused, or recovered, goes to the provider.
Find(r) ==
  /\ At(r, "idle") /\ (paid = {} \/ Again)
  /\ \/ /\ intent.status = "created" /\ Show(intent.session) /\ UNCHANGED requests
     \/ /\ intent.status = "pending" /\ ~intent.finalize /\ ~intent.fresh
        /\ Goto(r, "escalate") /\ UNCHANGED shown
     \/ intent.status = "none" /\ Goto(r, "create") /\ UNCHANGED shown
     \/ intent.status \in {"failed", "recovered"} /\ Goto(r, "call") /\ UNCHANGED shown
  /\ UNCHANGED <<intent, orders, sessions, paid, answers, faults>>

Escalate(r) ==
  /\ At(r, "escalate") /\ Answer(r)
  /\ \/ Works /\ intent' = Escalated
     \/ Fails("escalate") /\ UNCHANGED intent
  /\ UNCHANGED <<orders, sessions, shown, paid, answers>>

\* The primary key lets one of several first requests pass.
Create(r) ==
  /\ At(r, "create")
  /\ \/ Works /\ intent.status = "none" /\ IntentIs("pending") /\ Goto(r, "call")
     \/ Works /\ intent.status # "none" /\ Answer(r) /\ UNCHANGED intent
     \/ Fails("create") /\ Answer(r) /\ UNCHANGED intent
  /\ UNCHANGED <<orders, sessions, shown, paid, answers>>

Call(r) ==
  /\ At(r, "call")
  /\ \/ \E s \in Sessions \ sessions :
          /\ requests' = [requests EXCEPT ![r] = [pc |-> "finalize", session |-> s]]
          /\ sessions' = sessions \cup {s} /\ Works /\ UNCHANGED answers
     \/ \E a \in {"refusal", "unsure"} :
          Fails(a) /\ Goto(r, a) /\ answers' = answers \cup {a} /\ UNCHANGED sessions
  /\ UNCHANGED <<intent, orders, shown, paid>>

MarkRefused(r) ==
  /\ At(r, "refusal") /\ Answer(r)
  /\ \/ Works /\ IntentIs("failed")
     \/ Fails("refused") /\ UNCHANGED intent
  /\ UNCHANGED <<orders, sessions, shown, paid, answers>>

\* Only the error is written: the status stays what it is.
MarkAmbiguous(r) ==
  /\ At(r, "unsure") /\ Answer(r)
  /\ \/ Works /\ IntentIs(intent.status)
     \/ Fails("ambiguous") /\ UNCHANGED intent
  /\ UNCHANGED <<orders, sessions, shown, paid, answers>>

Finalize(r) ==
  /\ At(r, "finalize")
  /\ \/ /\ Works /\ intent.status \in {"pending", "failed"} /\ Goto(r, "order")
        /\ intent' = [status |-> "created", session |-> requests[r].session,
                      finalize |-> FALSE, fresh |-> TRUE]
     \/ /\ Works /\ intent.status \notin {"pending", "failed"} /\ Goto(r, "reread")
        /\ UNCHANGED intent
     \/ Fails("finalize") /\ Goto(r, "catch") /\ UNCHANGED intent
  /\ UNCHANGED <<orders, sessions, shown, paid, answers>>

\* Another request was first: its session is the answer.
RereadUnchecked(r) ==
  /\ At(r, "reread") /\ Works /\ Answer(r) /\ Show(intent.session)
  /\ UNCHANGED <<intent, orders, sessions, paid, answers>>
Reread(r) ==
  /\ At(r, "reread")
  /\ \/ Works /\ intent.status = "created" /\ Answer(r) /\ Show(intent.session)
     \/ /\ \/ Works /\ intent.status # "created"
           \/ Fails("reread")
        /\ Goto(r, "catch") /\ UNCHANGED shown
  /\ UNCHANGED <<intent, orders, sessions, paid, answers>>

Order(r) ==
  LET o == [session |-> requests[r].session, payment |-> None] IN
  /\ At(r, "order")
  /\ \/ Works /\ CreateOrder(o) /\ Answer(r) /\ Show(o.session)
     \/ /\ \/ Works /\ ~Vacant(o)
           \/ Fails("order")
        /\ Goto(r, "catch") /\ UNCHANGED <<orders, shown>>
  /\ UNCHANGED <<intent, sessions, paid, answers>>

\* The buyer gets the address even so; the job recovers the rest.
CatchUnlocked(r) ==
  /\ At(r, "catch") /\ Answer(r) /\ Show(requests[r].session)
  /\ Works /\ IntentIs("failed")
  /\ UNCHANGED <<orders, sessions, paid, answers>>
Catch(r) ==
  /\ At(r, "catch") /\ Answer(r) /\ Show(requests[r].session)
  /\ \/ /\ Works
        /\ intent' = [intent EXCEPT !.status = "pending", !.finalize = TRUE, !.fresh = TRUE]
     \/ Fails("catch") /\ UNCHANGED intent
  /\ UNCHANGED <<orders, sessions, paid, answers>>

Die(r) ==
  /\ requests[r] # Idle /\ Fails("request") /\ Answer(r)
  /\ UNCHANGED <<intent, orders, sessions, shown, paid, answers>>

RequestSteps(r) ==
  \/ Escalate(r) \/ Create(r) \/ Call(r) \/ MarkRefused(r) \/ MarkAmbiguous(r)
  \/ Finalize(r) \/ Reread(r) \/ Order(r) \/ Catch(r)

-----------------------------------------------------------------------------
Pay(s) ==
  /\ s \in shown \ paid /\ paid' = paid \cup {s}
  /\ UNCHANGED <<intent, orders, requests, sessions, shown, answers, faults>>

\* Ten minutes pass: far longer than a request is open.
Stale ==
  /\ intent.fresh /\ intent.status # "none" /\ \A r \in Requests : At(r, "idle")
  /\ intent' = [intent EXCEPT !.fresh = FALSE]
  /\ UNCHANGED <<orders, requests, sessions, shown, paid, answers, faults>>

CheckoutNext ==
  \/ \E r \in Requests : Find(r) \/ RequestSteps(r) \/ Die(r)
  \/ \E s \in Sessions : Pay(s)
  \/ Stale

-----------------------------------------------------------------------------
CheckoutTypeOK ==
  /\ intent \in [status : {"none", "pending", "created", "failed", "recovered",
                           "needs_reconciliation"},
                 session : Sessions \cup {None}, finalize : BOOLEAN, fresh : BOOLEAN]
  /\ orders \subseteq [session : Sessions \cup {Recovered}, payment : Sessions \cup {None}]
  /\ requests \in [Requests ->
       [pc : {"idle", "escalate", "create", "call", "refusal", "unsure",
              "finalize", "reread", "order", "catch"}, session : Sessions \cup {None}]]
  /\ sessions \subseteq Sessions /\ shown \subseteq sessions /\ paid \subseteq shown
  /\ answers \subseteq {"refusal", "unsure"} /\ faults \in Nat

\* One key gives the buyer one page to pay on, whatever its requests and the
\* failures in D1, as long as the provider refused none of them: after a
\* refusal a retry starts afresh (routes.ts 244-250, docs/dodo-payments.md:108).
Refused == "refusal" \in answers
OnePage == ~Refused => \A s, t \in shown : s = t

\* What the code means to promise (routes.ts 312-316) and does not keep once the
\* key was refused: after an answer that may have created a session, no request
\* of the key goes to the provider any more.
NeverRetriedUpstream ==
  [][("unsure" \in answers) => \A r \in Requests :
       requests'[r].pc = "call" => requests[r].pc = "call"]_checkout
=============================================================================
