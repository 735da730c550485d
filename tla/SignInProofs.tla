----------------------------- MODULE SignInProofs -----------------------------
(* Proofs about signing in, for all values of the constants: any number of    *)
(* requests, accounts, links and sessions, and any limits.                    *)
EXTENDS SignIn, FiniteSetTheorems, TLAPS

-----------------------------------------------------------------------------
(* Types.  A request that inserts a link has its account, one that mails it   *)
(* has the link.                                                              *)

Pcs == {"idle", "lookup", "older", "rekey", "email", "ip", "refund", "account",
        "select", "link", "mail", "unsent"}
Request == [pc : Pcs, release : Peppers,
            account : Accounts \cup {Nothing}, link : Links \cup {Nothing}]
Carries(q) ==
  /\ q.pc = "link" => q.account \in Accounts
  /\ q.pc \in {"mail", "unsent"} => q.link \in Links

RequestsOK ==
  requests \in [Requests -> Request] /\ \A r \in Requests : Carries(requests[r])
CountsOK ==
  /\ byEmail \in [Peppers -> 0..EmailLimit] /\ byIp \in 0..IpLimit
  /\ kept \in [Peppers -> Nat] /\ torn \in [Peppers -> BOOLEAN]
RowsOK ==
  /\ accounts \in [Accounts -> Peppers \cup {"unused", "deleted"}]
  /\ links \subseteq [token : Links, account : Accounts, used : BOOLEAN]
  /\ sessions \subseteq [token : Tokens, account : Accounts]
  /\ deletion \in [account : Accounts \cup {Nothing},
                   hash : Peppers \cup {"none", "unused", "deleted"}]
  /\ mailed \subseteq Links /\ opened \subseteq [token : Tokens, link : Links]
  /\ raced \subseteq Accounts
Typed == RequestsOK /\ CountsOK /\ RowsOK

LEMMA TypedOK == Typed => TypeOK
  BY DEF Typed, RequestsOK, CountsOK, RowsOK, TypeOK, Request, Pcs

LEMMA TypeInit == Init => Typed
  BY SignInAssumption
  DEF Init, Typed, RequestsOK, CountsOK, RowsOK, Carries, Request, Pcs, Idle, NoDeletion, Peppers

-----------------------------------------------------------------------------
\* What a statement makes of its request, and of no other.
LEMMA GotoMoves ==
  ASSUME RequestsOK, NEW r \in Requests, NEW p \in Pcs, Goto(r, p)
  PROVE  /\ requests' \in [Requests -> Request]
         /\ requests'[r] = [requests[r] EXCEPT !.pc = p]
         /\ requests'[r].pc = p /\ requests'[r].release = Hash(r)
         /\ requests'[r].account = requests[r].account
         /\ requests'[r].link = requests[r].link
         /\ \A s \in Requests \ {r} : requests'[s] = requests[s]
  BY DEF RequestsOK, Goto, Request, Pcs, Hash

LEMMA EndMoves ==
  ASSUME RequestsOK, NEW r \in Requests, End(r)
  PROVE  /\ requests' \in [Requests -> Request]
         /\ requests'[r] = Idle /\ requests'[r].pc = "idle"
         /\ \A s \in Requests \ {r} : requests'[s] = requests[s]
  BY DEF RequestsOK, End, Idle, Request, Pcs, Peppers

\* A step of one request.
Moved(r) ==
  /\ requests' \in [Requests -> Request]
  /\ Carries(requests'[r])
  /\ \A s \in Requests \ {r} : requests'[s] = requests[s]

LEMMA LinkStepsMove ==
  ASSUME RequestsOK, RowsOK, NEW r \in Requests, LinkSteps(r)
  PROVE  Moved(r)
<1> USE DEF Moved, Carries
<1>1. ASSUME End(r) PROVE Moved(r)
  BY <1>1, EndMoves
<1>2. ASSUME NEW p \in Pcs \ {"link", "mail", "unsent"}, Goto(r, p) PROVE Moved(r)
  BY <1>2, GotoMoves
<1>3. CASE Ask(r)
  <2>1. PICK p \in Peppers :
          requests' = [requests EXCEPT ![r].pc = "lookup", ![r].release = p]
    BY <1>3, SignInAssumption DEF Ask
  <2> QED BY <2>1 DEF RequestsOK, Request, Pcs
<1>4. CASE Lookup(r)
  BY <1>4, <1>2 DEF Lookup, Pcs
<1>5. CASE Older(r)
  BY <1>5, <1>2 DEF Older, Pcs
<1>6. CASE Rekey(r) \/ HitEmail(r) \/ HitIp(r) \/ Refund(r)
  BY <1>6, <1>1, <1>2 DEF Rekey, HitEmail, HitIp, Refund, Pcs
<1>7. CASE Upsert(r)
  BY <1>7, <1>2 DEF Upsert, Pcs
<1>8. CASE Select(r)
  <2>1. ASSUME NEW a \in Of(Hash(r)),
               requests' = [requests EXCEPT ![r].pc = "link", ![r].account = a]
        PROVE  Moved(r)
    BY <2>1 DEF Of, RequestsOK, Request, Pcs
  <2> QED BY <1>8, <1>1, <2>1 DEF Select
<1>9. CASE InsertLink(r)
  <2>1. PICK l \in Links \ {x.token : x \in links} :
          requests' = [requests EXCEPT ![r].pc = "mail", ![r].link = l]
    BY <1>9 DEF InsertLink
  <2> QED BY <2>1 DEF RequestsOK, Request, Pcs
<1>10. CASE Mail(r)
  <2>1. ASSUME Goto(r, "unsent") PROVE Moved(r)
    BY <1>10, <2>1, GotoMoves DEF Mail, At, RequestsOK, Pcs
  <2> QED BY <1>10, <1>1, <2>1 DEF Mail
<1>11. CASE DeleteUnused(r) \/ Die(r)
  BY <1>11, <1>1 DEF DeleteUnused, Die
<1> QED BY <1>3, <1>4, <1>5, <1>6, <1>7, <1>8, <1>9, <1>10, <1>11 DEF LinkSteps

\* The other steps leave the requests alone.
Outside ==
  \/ \E l \in links : LinkEnds(l) \/ \E t \in Tokens \ {o.token : o \in opened} : Verify(l, t)
  \/ \E s \in sessions : SessionEnds(s) \/ Authorise(s)
  \/ Delete \/ IpWindow \/ OtherAddress \/ \E p \in Peppers : EmailWindow(p)

LEMMA NextSplits == Next <=> Outside \/ \E r \in Requests : LinkSteps(r)
  BY DEF Next, Outside

LEMMA OutsideKeeps == Outside \/ UNCHANGED vars => UNCHANGED requests
  BY DEF Outside, LinkEnds, Verify, OpenSession, SessionEnds, Authorise, Delete,
         Tombstone, IpWindow, OtherAddress, EmailWindow, vars

LEMMA RequestsNext == Typed /\ [Next]_vars => RequestsOK'
<1> SUFFICES ASSUME Typed, [Next]_vars PROVE RequestsOK'
  OBVIOUS
<1>1. CASE Outside \/ UNCHANGED vars
  BY <1>1, OutsideKeeps DEF Typed, RequestsOK, Carries
<1>2. ASSUME NEW r \in Requests, LinkSteps(r) PROVE RequestsOK'
  BY <1>2, LinkStepsMove DEF Moved, Typed, RequestsOK
<1> QED BY <1>1, <1>2, NextSplits
LEMMA CountsNext == Typed /\ [Next]_vars => CountsOK'
<1> SUFFICES ASSUME Typed, [Next]_vars PROVE CountsOK'
  OBVIOUS
<1> USE SignInAssumption DEF Typed
<1>1. ASSUME UNCHANGED rates PROVE CountsOK'
  BY <1>1 DEF rates, CountsOK
<1>2. ASSUME NEW r \in Requests, LinkSteps(r) PROVE CountsOK'
  <2>1. Hash(r) \in Peppers
    BY DEF RequestsOK, Request, Hash
  <2>2. CASE HitEmail(r)
    BY <2>1, <2>2 DEF HitEmail, Kept, CountsOK
  <2>3. CASE HitIp(r) \/ Die(r)
    BY <2>1, <2>3 DEF HitIp, Die, Kept, CountsOK
  <2>4. CASE Refund(r)
    BY <2>1, <2>4 DEF Refund, CountsOK
  <2> QED BY <1>1, <1>2, <2>2, <2>3, <2>4
          DEF LinkSteps, Ask, Lookup, Older, Rekey, Upsert, Select, InsertLink, Mail, DeleteUnused
<1>3. ASSUME NEW h, Emptied(h) PROVE CountsOK'
  <2>1. torn' \in [Peppers -> BOOLEAN]
    BY <1>3, Zenon DEF Emptied, CountsOK
  <2> QED BY <1>3, <2>1 DEF Emptied, CountsOK
<1>4. CASE Outside
  <2>1. CASE Delete
    BY <1>3, <2>1 DEF Delete, Tombstone
  <2>2. CASE IpWindow \/ OtherAddress \/ \E p \in Peppers : EmailWindow(p)
    BY <1>3, <2>2 DEF IpWindow, OtherAddress, EmailWindow, CountsOK
  <2>3. CASE \/ \E l \in links :
                  LinkEnds(l) \/ \E t \in Tokens \ {o.token : o \in opened} : Verify(l, t)
             \/ \E s \in sessions : SessionEnds(s) \/ Authorise(s)
    BY <1>1, <2>3 DEF LinkEnds, Verify, OpenSession, SessionEnds, Authorise
  <2> QED BY <1>4, <2>1, <2>2, <2>3 DEF Outside
<1>5. CASE UNCHANGED vars
  BY <1>1, <1>5 DEF vars, rates
<1> QED BY <1>2, <1>4, <1>5, NextSplits

LEMMA RowsNext == Typed /\ [Next]_vars => RowsOK'
<1> SUFFICES ASSUME Typed, [Next]_vars PROVE RowsOK'
  OBVIOUS
<1> USE DEF Typed
<1>1. ASSUME UNCHANGED <<accounts, links, devices, mailed>> PROVE RowsOK'
  BY <1>1 DEF devices, RowsOK
<1>2. ASSUME NEW r \in Requests, LinkSteps(r) PROVE RowsOK'
  <2>1. requests[r] \in Request /\ Carries(requests[r])
    BY DEF RequestsOK
  <2>2. CASE Rekey(r)
    BY <2>2 DEF Rekey, RowsOK, devices, Peppers
  <2>3. CASE Upsert(r)
    BY <2>1, <2>3 DEF Upsert, Hash, Request, RowsOK, devices
  <2>4. CASE InsertLink(r)
    <3>1. requests[r].account \in Accounts
      BY <2>1, <2>4 DEF InsertLink, At, Carries
    <3>2. PICK l \in Links :
            links' = links \cup {[token |-> l, account |-> requests[r].account, used |-> FALSE]}
      BY <2>4 DEF InsertLink
    <3>3. UNCHANGED <<accounts, devices, mailed>>
      BY <2>4 DEF InsertLink
    <3>4. [token |-> l, account |-> requests[r].account, used |-> FALSE]
            \in [token : Links, account : Accounts, used : BOOLEAN]
      BY <3>1
    <3> QED BY <3>2, <3>3, <3>4 DEF RowsOK, devices
  <2>5. CASE Mail(r)
    BY <2>1, <2>5 DEF Mail, At, Carries, RowsOK, devices
  <2>6. CASE DeleteUnused(r)
    BY <2>6 DEF DeleteUnused, RowsOK, devices
  <2>7. CASE \/ Ask(r) \/ Lookup(r) \/ Older(r) \/ HitEmail(r) \/ HitIp(r) \/ Refund(r)
             \/ Select(r) \/ Die(r)
    BY <1>1, <2>7 DEF Ask, Lookup, Older, HitEmail, HitIp, Refund, Select, Die
  <2> QED BY <1>2, <2>2, <2>3, <2>4, <2>5, <2>6, <2>7 DEF LinkSteps
<1>3. CASE Outside
  <2>1. ASSUME NEW l \in links, NEW t \in Tokens, Verify(l, t) PROVE RowsOK'
    <3>1. l \in [token : Links, account : Accounts, used : BOOLEAN]
      BY DEF RowsOK
    <3>2. /\ [l EXCEPT !.used = TRUE] \in [token : Links, account : Accounts, used : BOOLEAN]
          /\ [token |-> t, account |-> l.account] \in [token : Tokens, account : Accounts]
          /\ [token |-> t, link |-> l.token] \in [token : Tokens, link : Links]
      BY <3>1
    <3>3. /\ links' \subseteq links \cup {[l EXCEPT !.used = TRUE]}
          /\ sessions' = sessions \cup {[token |-> t, account |-> l.account]}
          /\ opened' = opened \cup {[token |-> t, link |-> l.token]}
          /\ UNCHANGED <<accounts, deletion, raced, mailed>>
      BY <2>1 DEF Verify, OpenSession
    <3> QED BY <3>2, <3>3 DEF RowsOK
  <2>2. ASSUME NEW s \in sessions, SessionEnds(s) \/ Authorise(s) PROVE RowsOK'
    BY <2>2 DEF SessionEnds, Authorise, RowsOK
  <2>3. CASE Delete
    <3>1. Late \subseteq Accounts
      BY DEF Late, At, RequestsOK, Carries
    <3> QED BY <2>3, <3>1 DEF Delete, Tombstone, NoDeletion, RowsOK
  <2>4. ASSUME NEW l \in links, LinkEnds(l) PROVE RowsOK'
    BY <2>4 DEF LinkEnds, devices, RowsOK
  <2> QED BY <1>1, <1>3, <2>1, <2>2, <2>3, <2>4
          DEF Outside, IpWindow, OtherAddress, EmailWindow
<1>4. CASE UNCHANGED vars
  BY <1>1, <1>4 DEF vars, devices
<1> QED BY <1>2, <1>3, <1>4, NextSplits

LEMMA TypedNext == Typed /\ [Next]_vars => Typed'
  BY RequestsNext, CountsNext, RowsNext DEF Typed

\* Types hold in every reachable state; no count goes below zero or beyond its
\* limit (the conditional increments and refunds of auth.ts 174-194).
THEOREM TypeCorrect == Spec => []TypeOK
  BY TypeInit, TypedNext, TypedOK, PTL DEF Spec

-----------------------------------------------------------------------------
(* One account of an address.                                                 *)

\* With one release, a request that has looked the address up leaves no account
\* under the old pepper behind.
LookedUp == {"email", "ip", "refund", "account", "select", "link", "mail", "unsent"}
AccountInv ==
  /\ OneAccount
  /\ \A r \in Requests : Hash(r) = "current"
  /\ (\E r \in Requests : requests[r].pc \in LookedUp) => Of("old") = {}

LEMMA AccountInit == Init => AccountInv
<1> SUFFICES ASSUME Init PROVE AccountInv
  OBVIOUS
<1>1. \A r \in Requests : requests[r] = Idle
  BY DEF Init
<1>2. OneAccount
  BY DEF Init, OneAccount, Of
<1> QED BY <1>1, <1>2 DEF AccountInv, Hash, Idle, LookedUp

\* No row becomes live, or moves to the old pepper: all is as it was.
LEMMA AccountKept ==
  ASSUME Typed, AccountInv, \A a \in Accounts : accounts'[a] \in {accounts[a], "deleted"},
         \A r \in Requests : \/ requests'[r].pc \notin LookedUp
                             \/ Of("old") = {}
                             \/ requests[r].pc \in LookedUp,
         \A r \in Requests : requests'[r].release = "current"
  PROVE  AccountInv'
  BY DEF Typed, RowsOK, AccountInv, OneAccount, Of, Hash

LEMMA LinkStepsAccount ==
  ASSUME Typed, AccountInv, Releases = {"current"}, NEW r \in Requests, LinkSteps(r)
  PROVE  AccountInv'
<1> USE DEF Typed
<1>1. Moved(r) /\ Hash(r) = "current"
  BY LinkStepsMove DEF AccountInv
<1>2. ASSUME UNCHANGED accounts, requests'[r].release = "current",
             requests'[r].pc \notin LookedUp \/ Of("old") = {} \/ requests[r].pc \in LookedUp
      PROVE  AccountInv'
  BY <1>1, <1>2, AccountKept DEF Moved, AccountInv, Hash
<1>3. ASSUME UNCHANGED accounts, End(r) PROVE AccountInv'
  BY <1>2, <1>3, EndMoves DEF LookedUp, Idle
<1>4. ASSUME UNCHANGED accounts, NEW p \in Pcs, Goto(r, p),
             p \notin LookedUp \/ Of("old") = {} \/ requests[r].pc \in LookedUp
      PROVE  AccountInv'
  BY <1>1, <1>2, <1>4, GotoMoves DEF AccountInv
<1>5. CASE Ask(r)
  <2>1. requests'[r].release = "current" /\ requests'[r].pc = "lookup"
    BY <1>5 DEF Ask, RequestsOK, Request
  <2> QED BY <1>2, <1>5, <2>1 DEF Ask, LookedUp
<1>6. CASE Lookup(r)
  <2>1. Of("current") # {} => Of("old") = {}
    BY DEF AccountInv, OneAccount, Of
  <2> QED BY <1>1, <1>4, <1>6, <2>1 DEF Lookup, Pcs, LookedUp
<1>7. CASE Older(r)
  BY <1>4, <1>7 DEF Older, Pcs, LookedUp
<1>8. CASE Rekey(r)
  <2>1. CASE Of("old") # {} /\ Of("current") # {}
    BY <1>3, <1>8, <2>1 DEF Rekey
  <2>2. CASE ~(Of("old") # {} /\ Of("current") # {})
    <3>1. /\ Goto(r, "email")
          /\ accounts' = [a \in Accounts |->
                            IF accounts[a] = "old" THEN "current" ELSE accounts[a]]
      BY <1>8, <2>2 DEF Rekey
    <3>2. /\ Of("old")' = {}
          /\ Of("current")' \subseteq Of("old") \cup Of("current")
      BY <3>1 DEF Of
    <3>3. OneAccount'
      BY <3>2 DEF AccountInv, OneAccount
    <3>4. \A s \in Requests : Hash(s)' = "current"
      BY <1>1, <3>1, GotoMoves DEF Pcs, AccountInv, Hash
    <3> QED BY <3>2, <3>3, <3>4 DEF AccountInv
  <2> QED BY <2>1, <2>2
<1>9. CASE Upsert(r)
  <2>1. Goto(r, "select") /\ At(r, "account") /\ "select" \in Pcs
    BY <1>9 DEF Upsert, Pcs
  <2>2. CASE UNCHANGED accounts
    BY <1>4, <2>1, <2>2 DEF At, LookedUp
  <2>3. CASE Of("current") = {}
             /\ \E a \in Of("unused") : accounts' = [accounts EXCEPT ![a] = "current"]
    <3>1. Of("old") = {}
      BY <2>1 DEF AccountInv, At, LookedUp
    <3>2. PICK a \in Of("unused") : accounts' = [accounts EXCEPT ![a] = "current"]
      BY <2>3
    <3>3. Of("old")' = {} /\ Of("current")' = {a}
      BY <2>3, <3>1, <3>2 DEF Of, RowsOK
    <3>4. OneAccount'
      BY <3>3 DEF OneAccount
    <3>5. \A s \in Requests : Hash(s)' = "current"
      BY <1>1, <2>1, GotoMoves DEF AccountInv, Hash
    <3> QED BY <3>3, <3>4, <3>5 DEF AccountInv
  <2> QED BY <1>1, <1>9, <2>2, <2>3 DEF Upsert
<1>10. CASE HitEmail(r) \/ HitIp(r) \/ Refund(r) \/ Mail(r) \/ DeleteUnused(r) \/ Die(r)
  BY <1>3, <1>4, <1>10
  DEF HitEmail, HitIp, Refund, Mail, DeleteUnused, Die, At, Pcs, LookedUp
<1>11. CASE Select(r)
  <2>1. ASSUME NEW a \in Of(Hash(r)),
               requests' = [requests EXCEPT ![r].pc = "link", ![r].account = a]
        PROVE  requests'[r].release = "current"
    BY <1>1, <2>1 DEF RequestsOK, Request, Hash
  <2> QED BY <1>2, <1>3, <1>11, <2>1 DEF Select, At, LookedUp
<1>12. CASE InsertLink(r)
  <2>1. requests'[r].release = "current"
    BY <1>1, <1>12 DEF InsertLink, RequestsOK, Request, Hash
  <2> QED BY <1>2, <1>12, <2>1 DEF InsertLink, At, LookedUp
<1> QED BY <1>5, <1>6, <1>7, <1>8, <1>9, <1>10, <1>11, <1>12 DEF LinkSteps

LEMMA OutsideAccount ==
  ASSUME Typed, AccountInv, Outside \/ UNCHANGED vars
  PROVE  AccountInv'
<1>1. UNCHANGED requests
  BY OutsideKeeps
<1>2. \A a \in Accounts : accounts'[a] \in {accounts[a], "deleted"}
  <2>1. CASE Delete
    BY <2>1 DEF Delete, Tombstone, Typed, RowsOK
  <2>2. CASE UNCHANGED accounts
    BY <2>2
  <2> QED BY <2>1, <2>2
          DEF Outside, LinkEnds, Verify, OpenSession, SessionEnds, Authorise, IpWindow,
              OtherAddress, EmailWindow, vars
<1> QED BY <1>1, <1>2, AccountKept DEF AccountInv, Hash

\* When one release serves the requests, an address has one account, however
\* many requests, changes of the pepper and deletions overlap: the row is moved
\* to the new pepper before the upsert can miss it (auth.ts 241-255).
THEOREM OneAccountEver ==
  ASSUME Releases = {"current"} PROVE Spec => []OneAccount
<1>1. Typed /\ AccountInv /\ [Next]_vars => AccountInv'
  BY LinkStepsAccount, OutsideAccount, NextSplits
<1>2. AccountInv => OneAccount
  BY DEF AccountInv
<1> QED BY <1>1, <1>2, TypeInit, TypedNext, AccountInit, PTL DEF Spec

-----------------------------------------------------------------------------
(* Deleted accounts.                                                          *)

\* An account that is live, or was deleted behind the back of a request.
Live(a) == accounts[a] \in Peppers \/ a \in raced
ClosedInv ==
  /\ DeletedIsClosed
  /\ \A r \in Requests : At(r, "link") => Live(requests[r].account)

LEMMA ClosedInit == Init => ClosedInv
  BY DEF Init, ClosedInv, DeletedIsClosed, At, Idle

\* What is to hold after a step that takes no live account away.
LEMMA ClosedKept ==
  ASSUME \A a \in Accounts : Live(a) => Live(a)',
         \A x \in (sessions \cup links)' : x.account \in Accounts /\ Live(x.account),
         \A r \in Requests : At(r, "link")' =>
           requests'[r].account \in Accounts /\ Live(requests'[r].account)
  PROVE  ClosedInv'
<1>1. DeletedIsClosed'
  BY DEF DeletedIsClosed, Live
<1>2. (\A r \in Requests : At(r, "link") => Live(requests[r].account))'
  BY DEF At, Live
<1> QED BY <1>1, <1>2 DEF ClosedInv

LEMMA LinkStepsClosed ==
  ASSUME Typed, ClosedInv, NEW r \in Requests, LinkSteps(r)
  PROVE  ClosedInv'
<1> USE DEF Typed
<1>1. Moved(r) /\ RowsOK
  BY LinkStepsMove
<1>2. \A a \in Accounts : Live(a) => Live(a)'
  <2>1. CASE Rekey(r)
    BY <2>1 DEF Rekey, Live, Peppers, devices
  <2>2. CASE Upsert(r)
    BY <2>2 DEF Upsert, Live, Of, RowsOK, Peppers, devices
  <2> QED BY <2>1, <2>2 DEF Live, LinkSteps, Ask, Lookup, Older, HitEmail, HitIp, Refund,
                            Select, InsertLink, Mail, DeleteUnused, Die, devices
<1>3. \A x \in (sessions \cup links)' : x.account \in Accounts /\ Live(x.account)
  <2>1. \A x \in sessions \cup links : x.account \in Accounts /\ Live(x.account)
    BY DEF RowsOK, ClosedInv, DeletedIsClosed, Live
  <2>2. CASE InsertLink(r)
    <3>1. requests[r].account \in Accounts /\ Live(requests[r].account)
      BY <2>2 DEF InsertLink, RequestsOK, Carries, ClosedInv, At
    <3>2. PICK l \in Links :
            links' = links \cup {[token |-> l, account |-> requests[r].account, used |-> FALSE]}
      BY <2>2 DEF InsertLink
    <3>3. UNCHANGED sessions
      BY <2>2 DEF InsertLink, devices
    <3> QED BY <2>1, <3>1, <3>2, <3>3
  <2>3. CASE UNCHANGED sessions /\ links' \subseteq links
    BY <2>1, <2>3
  <2> QED BY <2>2, <2>3 DEF LinkSteps, Ask, Lookup, Older, Rekey, HitEmail, HitIp, Refund,
                            Upsert, Select, Mail, DeleteUnused, Die, devices
<1>4. \A s \in Requests \ {r} : At(s, "link")' =>
        requests'[s].account \in Accounts /\ Live(requests'[s].account)
  BY <1>1, <1>2 DEF Moved, ClosedInv, At, RequestsOK, Carries
<1>5. At(r, "link")' => requests'[r].account \in Accounts /\ Live(requests'[r].account)
  <2>1. ASSUME End(r) PROVE requests'[r].pc # "link"
    BY <2>1, EndMoves
  <2>2. ASSUME NEW p \in Pcs, Goto(r, p), p # "link" PROVE requests'[r].pc # "link"
    BY <2>2, GotoMoves
  <2>3. CASE Select(r)
    <3>1. ASSUME NEW a \in Of(Hash(r)),
                 requests' = [requests EXCEPT ![r].pc = "link", ![r].account = a]
          PROVE  requests'[r].account = a /\ a \in Accounts /\ Live(a)
      BY <3>1 DEF RequestsOK, Request, Of, Live, Hash
    <3> QED BY <2>1, <2>3, <3>1 DEF Select, At
  <2>4. CASE Ask(r) \/ InsertLink(r)
    BY <2>4 DEF Ask, InsertLink, At, RequestsOK, Request
  <2> QED BY <2>1, <2>2, <2>3, <2>4
          DEF LinkSteps, Lookup, Older, Rekey, HitEmail, HitIp, Refund, Upsert, Mail,
              DeleteUnused, Die, Pcs, At
<1> QED BY <1>2, <1>3, <1>4, <1>5, ClosedKept

LEMMA OutsideClosed ==
  ASSUME Typed, ClosedInv, Outside \/ UNCHANGED vars
  PROVE  ClosedInv'
<1> USE DEF Typed
<1>1. UNCHANGED requests
  BY OutsideKeeps
<1>2. \A x \in sessions \cup links : x.account \in Accounts /\ Live(x.account)
  BY DEF RowsOK, ClosedInv, DeletedIsClosed, Live
<1>3. CASE Delete
  <2>1. ASSUME NEW r \in Requests, At(r, "link")
        PROVE  Live(requests[r].account)' /\ requests[r].account \in Accounts
    <3>1. requests[r].account \in Accounts /\ Live(requests[r].account)
      BY <2>1 DEF ClosedInv, At, RequestsOK, Carries
    <3>2. requests[r].account \in Late
      BY <2>1 DEF Late
    <3> QED BY <1>1, <1>3, <3>1, <3>2 DEF Delete, Tombstone, Live, RowsOK
  <2>2. \A x \in (sessions \cup links)' :
          x \in sessions \cup links /\ x.account # deletion.account
    BY <1>3 DEF Delete, Tombstone
  <2>3. /\ raced \subseteq raced'
        /\ \A a \in Accounts \ {deletion.account} : accounts'[a] = accounts[a]
    BY <1>3 DEF Delete, Tombstone, RowsOK
  <2>4. \A x \in (sessions \cup links)' : x.account \in Accounts /\ Live(x.account)'
    BY <1>2, <2>2, <2>3 DEF Live
  <2> QED BY <1>1, <2>1, <2>4 DEF ClosedInv, DeletedIsClosed, Live, At
<1>4. ASSUME UNCHANGED <<accounts, raced>>,
             \A x \in (sessions \cup links)' : x.account \in Accounts /\ Live(x.account)
      PROVE  ClosedInv'
  BY <1>1, <1>4 DEF ClosedInv, DeletedIsClosed, Live, At
<1>5. ASSUME NEW l \in links, NEW t \in Tokens, Verify(l, t) PROVE ClosedInv'
  <2>1. l \in [token : Links, account : Accounts, used : BOOLEAN] /\ Live(l.account)
    BY <1>2 DEF RowsOK
  <2>2. /\ [l EXCEPT !.used = TRUE].account = l.account
        /\ [token |-> t, account |-> l.account].account = l.account
    BY <2>1
  <2>3. /\ links' \subseteq links \cup {[l EXCEPT !.used = TRUE]}
        /\ sessions' = sessions \cup {[token |-> t, account |-> l.account]}
        /\ UNCHANGED <<accounts, raced>>
    BY <1>5 DEF Verify, OpenSession
  <2> QED BY <1>2, <1>4, <2>1, <2>2, <2>3
<1>6. CASE UNCHANGED <<accounts, raced>> /\ sessions' \subseteq sessions /\ links' \subseteq links
  BY <1>2, <1>4, <1>6
<1> QED BY <1>3, <1>5, <1>6
        DEF Outside, LinkEnds, SessionEnds, Authorise, IpWindow, OtherAddress, EmailWindow,
            vars, devices

\* A deletion that comes while no request for a link has read the account and
\* not yet inserted its link closes the account for ever: no session and no link
\* of it is left or made, for any number of requests, verifications and
\* deletions.  It says nothing of the account of such a request, whose link
\* does open it again (auth.ts 470-476, 538-551).
THEOREM ClosedForever == Spec => []DeletedIsClosed
<1>1. Typed /\ ClosedInv /\ [Next]_vars => ClosedInv'
  BY LinkStepsClosed, OutsideClosed, NextSplits
<1>2. ClosedInv => DeletedIsClosed
  BY DEF ClosedInv
<1> QED BY <1>1, <1>2, TypeInit, TypedNext, ClosedInit, PTL DEF Spec

-----------------------------------------------------------------------------
(* One session of a link.                                                     *)

\* Tokens of links differ, and a link that opened a session is used.
LinkInv ==
  /\ LinkOpensOne
  /\ \A l, x \in links : l.token = x.token => l = x
  /\ \A l \in links : ~l.used => \A o \in opened : o.link # l.token

\* Rows that go, and rows that stay as they were, change nothing.
LEMMA LinkKept ==
  ASSUME LinkInv, links' \subseteq links, opened' = opened PROVE LinkInv'
  BY DEF LinkInv, LinkOpensOne

LEMMA LinkNext == Typed /\ LinkInv /\ [Next]_vars => LinkInv'
<1> SUFFICES ASSUME Typed, LinkInv, [Next]_vars PROVE LinkInv'
  OBVIOUS
<1> USE DEF Typed
<1>1. ASSUME NEW r \in Requests, InsertLink(r) PROVE LinkInv'
  <2>1. PICK l \in Links \ {x.token : x \in links} :
          /\ \A o \in opened : o.link # l
          /\ links' = links \cup {[token |-> l, account |-> requests[r].account, used |-> FALSE]}
    BY <1>1 DEF InsertLink
  <2> DEFINE m == [token |-> l, account |-> requests[r].account, used |-> FALSE]
  <2>2. m.token = l /\ \A x \in links : x.token # l
    BY <2>1
  <2>3. links' = links \cup {m} /\ opened' = opened
    BY <1>1, <2>1 DEF InsertLink, devices
  <2> HIDE DEF m
  <2> QED BY <2>1, <2>2, <2>3 DEF LinkInv, LinkOpensOne
<1>2. ASSUME NEW r \in Requests, LinkSteps(r), ~InsertLink(r) PROVE LinkInv'
  BY <1>2, LinkKept
  DEF LinkSteps, Ask, Lookup, Older, Rekey, HitEmail, HitIp, Refund, Upsert, Select, Mail,
      DeleteUnused, Die, devices
<1>3. ASSUME NEW l \in links, NEW t \in Tokens, Verify(l, t) PROVE LinkInv'
  <2> DEFINE m == [l EXCEPT !.used = TRUE]
             n == [token |-> t, link |-> l.token]
  <2>1. /\ ~l.used /\ links' = (links \ {l}) \cup {m}
        /\ opened' = opened \cup {n}
    BY <1>3 DEF Verify, OpenSession
  <2>2. m.token = l.token /\ m.used /\ n.link = l.token
    BY DEF RowsOK
  <2>3. /\ \A o \in opened : o.link # n.link
        /\ \A x \in links \ {l} : x.token # m.token
    BY <2>1, <2>2 DEF LinkInv
  <2> HIDE DEF m, n
  <2>4. LinkOpensOne'
    BY <2>1, <2>3 DEF LinkInv, LinkOpensOne
  <2>5. (\A x, y \in links : x.token = y.token => x = y)'
    BY <2>1, <2>3 DEF LinkInv
  <2>6. (\A x \in links : ~x.used => \A o \in opened : o.link # x.token)'
    BY <2>1, <2>2, <2>3 DEF LinkInv
  <2> QED BY <2>4, <2>5, <2>6 DEF LinkInv
<1>4. CASE Outside /\ ~\E l \in links, t \in Tokens : Verify(l, t)
  BY <1>4, LinkKept
  DEF Outside, LinkEnds, SessionEnds, Authorise, Delete, Tombstone, IpWindow, OtherAddress,
      EmailWindow, devices
<1>5. CASE UNCHANGED vars
  BY <1>5, LinkKept DEF vars, devices
<1> QED BY <1>1, <1>2, <1>3, <1>4, <1>5, NextSplits

\* A link opens one session, for any number of verifications of it and whatever
\* else goes on (the two statements of one batch, auth.ts 62-63).
THEOREM OpensOne == Spec => []LinkOpensOne
<1>1. Init => LinkInv
  BY DEF Init, LinkInv, LinkOpensOne
<1>2. LinkInv => LinkOpensOne
  BY DEF LinkInv
<1> QED BY <1>1, <1>2, LinkNext, TypeInit, TypedNext, PTL DEF Spec

-----------------------------------------------------------------------------
(* The count of an address.                                                   *)

\* Whether a request may still give its charge back.
Waits(r, p) == Hash(r) = p /\ (At(r, "ip") \/ At(r, "refund"))

\* What is said of the bucket of one hash.
Fits(p) ==
  /\ byEmail[p] <= kept[p] + Cardinality(Waiting(p))
  /\ ~torn[p] => byEmail[p] = kept[p] + Cardinality(Waiting(p))

LEMMA BucketFits == BucketIsExact <=> \A p \in Peppers : Fits(p)
  BY DEF BucketIsExact, Fits

LEMMA WaitingFinite ==
  ASSUME IsFiniteSet(Requests), NEW p
  PROVE  /\ IsFiniteSet(Waiting(p)) /\ Cardinality(Waiting(p)) \in Nat
         /\ \A r \in Waiting(p) : Cardinality(Waiting(p)) > 0
<1>1. IsFiniteSet(Waiting(p))
  BY FS_Subset DEF Waiting, Waits
<1> QED BY <1>1, FS_CardinalityType, FS_EmptySet

\* A step of one request adds or takes away at most that one.
LEMMA WaitingMoves ==
  ASSUME IsFiniteSet(Requests), NEW p, NEW r \in Requests, Moved(r)
  PROVE  /\ Waits(r, p) /\ ~Waits(r, p)' =>
              Cardinality(Waiting(p))' = Cardinality(Waiting(p)) - 1
         /\ ~Waits(r, p) /\ Waits(r, p)' =>
              Cardinality(Waiting(p))' = Cardinality(Waiting(p)) + 1
         /\ (Waits(r, p) <=> Waits(r, p)') =>
              Cardinality(Waiting(p))' = Cardinality(Waiting(p))
<1>1. \A s \in Requests \ {r} : Waits(s, p) <=> Waits(s, p)'
  BY DEF Moved, Waits, Hash, At
<1>2. Waiting(p)' = IF Waits(r, p)' THEN Waiting(p) \cup {r} ELSE Waiting(p) \ {r}
  BY <1>1 DEF Waiting, Waits
<1>3. r \in Waiting(p) <=> Waits(r, p)
  BY DEF Waiting, Waits
<1>4. CASE Waits(r, p)'
  BY <1>2, <1>3, <1>4, WaitingFinite, FS_AddElement
<1>5. CASE ~Waits(r, p)'
  BY <1>2, <1>3, <1>5, WaitingFinite, FS_RemoveElement
<1> QED BY <1>4, <1>5

LEMMA BucketLinkSteps ==
  ASSUME IsFiniteSet(Requests), Typed, BucketIsExact, NEW r \in Requests, LinkSteps(r)
  PROVE  \A p \in Peppers : Fits(p)'
<1> USE DEF Typed
<1>1. Moved(r) /\ Hash(r) \in Peppers
  BY LinkStepsMove DEF RequestsOK, Request, Hash
<1>2. SUFFICES ASSUME NEW p \in Peppers PROVE Fits(p)'
  OBVIOUS
<1> DEFINE n == Cardinality(Waiting(p))
           m == Cardinality(Waiting(p))'
<1>3. /\ byEmail[p] <= kept[p] + n /\ (~torn[p] => byEmail[p] = kept[p] + n) /\ n \in Nat
      /\ byEmail[p] \in Nat /\ kept[p] \in Nat
      /\ Waits(r, p) => n > 0
  BY <1>2, BucketFits, WaitingFinite, SignInAssumption DEF CountsOK, Fits, Waiting, Waits
<1>4. /\ Waits(r, p) /\ ~Waits(r, p)' => m = n - 1
      /\ ~Waits(r, p) /\ Waits(r, p)' => m = n + 1
      /\ (Waits(r, p) <=> Waits(r, p)') => m = n
  BY <1>1, WaitingMoves
<1> HIDE DEF n, m
<1> DEFINE Right == /\ byEmail'[p] <= kept'[p] + m
                    /\ ~torn[p] => byEmail'[p] = kept'[p] + m
<1>20. ASSUME Right, UNCHANGED torn PROVE Fits(p)'
  BY <1>20 DEF Fits, m
<1>21. HitEmail(r) \/ HitIp(r) \/ Refund(r) \/ Die(r) \/ UNCHANGED rates => UNCHANGED torn
  BY DEF HitEmail, HitIp, Refund, Die, rates
<1>5. ASSUME End(r) PROVE ~Waits(r, p)'
  BY <1>5, EndMoves DEF Waits, At
<1>6. ASSUME NEW c \in Pcs, Goto(r, c)
      PROVE  Waits(r, p)' <=> Hash(r) = p /\ c \in {"ip", "refund"}
  BY <1>6, GotoMoves DEF Waits, At, Hash
<1>7. CASE HitEmail(r)
  <2>1. CASE byEmail[Hash(r)] >= EmailLimit /\ End(r) /\ UNCHANGED <<byEmail, kept>>
    <3>1. ~Waits(r, p) /\ ~Waits(r, p)'
      BY <1>5, <1>7, <2>1 DEF HitEmail, Waits, At
    <3>2. Right
      BY <1>3, <1>4, <2>1, <3>1
    <3> QED BY <3>2, <1>7, <1>20, <1>21
  <2>2. CASE /\ byEmail' = [byEmail EXCEPT ![Hash(r)] = @ + 1]
             /\ Goto(r, "ip") /\ UNCHANGED kept
    <3>1. ~Waits(r, p) /\ (Waits(r, p)' <=> Hash(r) = p)
      BY <1>6, <1>7, <2>2 DEF HitEmail, Waits, At, Pcs
    <3>2. byEmail'[p] = IF Hash(r) = p THEN byEmail[p] + 1 ELSE byEmail[p]
      BY <2>2 DEF CountsOK
    <3>3. Right
      BY <1>3, <1>4, <2>2, <3>1, <3>2
    <3> QED BY <3>3, <1>7, <1>20, <1>21
  <2>3. CASE /\ byEmail' = [byEmail EXCEPT ![Hash(r)] = @ + 1]
             /\ Goto(r, "account") /\ Kept(Hash(r))
    <3>1. ~Waits(r, p) /\ ~Waits(r, p)'
      BY <1>6, <1>7, <2>3 DEF HitEmail, Waits, At, Pcs
    <3>2. /\ byEmail'[p] = IF Hash(r) = p THEN byEmail[p] + 1 ELSE byEmail[p]
          /\ kept'[p] = IF Hash(r) = p THEN kept[p] + 1 ELSE kept[p]
      BY <2>3 DEF CountsOK, Kept
    <3>3. Right
      BY <1>3, <1>4, <3>1, <3>2
    <3> QED BY <3>3, <1>7, <1>20, <1>21
  <2> QED BY <1>7, <2>1, <2>2, <2>3 DEF HitEmail
<1>8. CASE HitIp(r)
  <2>1. CASE Goto(r, "refund") /\ UNCHANGED kept
    <3>1. Waits(r, p) <=> Waits(r, p)'
      BY <1>6, <1>8, <2>1 DEF HitIp, Waits, At, Pcs
    <3>2. UNCHANGED byEmail
      BY <1>8 DEF HitIp
    <3>3. Right
      BY <1>3, <1>4, <2>1, <3>1, <3>2
    <3> QED BY <3>3, <1>8, <1>20, <1>21
  <2>2. CASE Goto(r, "account") /\ Kept(Hash(r))
    <3>1. ~Waits(r, p)' /\ (Waits(r, p) <=> Hash(r) = p)
      BY <1>6, <1>8, <2>2 DEF HitIp, Waits, At, Pcs
    <3>2. kept'[p] = IF Hash(r) = p THEN kept[p] + 1 ELSE kept[p]
      BY <2>2 DEF CountsOK, Kept
    <3>3. UNCHANGED byEmail
      BY <1>8 DEF HitIp
    <3>4. Right
      BY <1>3, <1>4, <3>1, <3>2, <3>3
    <3> QED BY <3>4, <1>8, <1>20, <1>21
  <2> QED BY <1>8, <2>1, <2>2 DEF HitIp
<1>9. CASE Refund(r)
  <2>1. ~Waits(r, p)' /\ (Waits(r, p) <=> Hash(r) = p)
    BY <1>5, <1>9 DEF Refund, Waits, At
  <2>2. /\ UNCHANGED kept
        /\ byEmail'[p] = IF Hash(r) = p /\ byEmail[p] > 0 THEN byEmail[p] - 1 ELSE byEmail[p]
    BY <1>3, <1>9 DEF Refund, CountsOK
  <2>3. Right
    BY <1>3, <1>4, <2>1, <2>2
  <2> QED BY <2>3, <1>9, <1>20, <1>21
<1>10. CASE Die(r)
  <2>1. ~Waits(r, p)' /\ UNCHANGED byEmail
    BY <1>5, <1>10 DEF Die
  <2>2. kept'[p] = IF Waits(r, p) THEN kept[p] + 1 ELSE kept[p]
    BY <1>10 DEF Die, Kept, CountsOK, Waits
  <2>3. Right
    BY <1>3, <1>4, <2>1, <2>2
  <2> QED BY <2>3, <1>10, <1>20, <1>21
<1>11. ASSUME UNCHANGED rates, ~Waits(r, p), ~Waits(r, p)'
       PROVE  Fits(p)'
  <2>1. Right
    BY <1>3, <1>4, <1>11 DEF rates
  <2> QED BY <2>1, <1>11, <1>20, <1>21
<1>12. CASE \/ Lookup(r) \/ Older(r) \/ Rekey(r) \/ Upsert(r) \/ Mail(r) \/ DeleteUnused(r)
  BY <1>5, <1>6, <1>11, <1>12
  DEF Lookup, Older, Rekey, Upsert, Mail, DeleteUnused, Waits, At, Pcs
<1>13. CASE Ask(r) \/ InsertLink(r)
  <2>1. requests'[r].pc \in {"lookup", "mail"}
    BY <1>13 DEF Ask, InsertLink, RequestsOK, Request
  <2> QED BY <1>11, <1>13, <2>1 DEF Ask, InsertLink, Waits, At
<1>14. CASE Select(r)
  <2>1. End(r) \/ requests'[r].pc = "link"
    BY <1>14 DEF Select, RequestsOK, Request
  <2> QED BY <1>5, <1>11, <1>14, <2>1 DEF Select, Waits, At
<1> QED BY <1>7, <1>8, <1>9, <1>10, <1>12, <1>13, <1>14 DEF LinkSteps

LEMMA BucketOutside ==
  ASSUME IsFiniteSet(Requests), Typed, BucketIsExact, Outside \/ UNCHANGED vars
  PROVE  \A p \in Peppers : Fits(p)'
<1> USE DEF Typed
<1>1. SUFFICES ASSUME NEW p \in Peppers PROVE Fits(p)'
  OBVIOUS
<1>2. UNCHANGED requests
  BY OutsideKeeps
<1>3. Waiting(p)' = Waiting(p)
  BY <1>2 DEF Waiting, Hash, At
<1>4. Fits(p)
  BY <1>1, BucketFits
<1>5. CASE UNCHANGED <<byEmail, kept, torn>>
  BY <1>3, <1>4, <1>5 DEF Fits
<1>6. ASSUME NEW h, Emptied(h) PROVE Fits(p)'
  <2>1. CASE p # h
    <3>1. byEmail'[p] = byEmail[p] /\ kept'[p] = kept[p] /\ torn'[p] = torn[p]
      BY <1>1, <1>6, <2>1 DEF Emptied
    <3> QED BY <1>3, <1>4, <3>1 DEF Fits
  <2>2. CASE p = h
    <3>1. byEmail'[p] = 0 /\ kept'[p] = 0 /\ (~torn'[p] => Waiting(p) = {})
      BY <1>1, <1>6, <2>2 DEF Emptied
    <3>2. /\ Cardinality(Waiting(p)) \in Nat
          /\ Waiting(p) = {} => Cardinality(Waiting(p)) = 0
      BY WaitingFinite, FS_EmptySet
    <3> QED BY <1>3, <3>1, <3>2 DEF Fits
  <2> QED BY <2>1, <2>2
<1>7. CASE Delete
  BY <1>6, <1>7 DEF Delete, Tombstone
<1>8. CASE \E q \in Peppers : EmailWindow(q)
  BY <1>6, <1>8 DEF EmailWindow
<1> QED BY <1>5, <1>7, <1>8
        DEF Outside, LinkEnds, Verify, OpenSession, SessionEnds, Authorise, IpWindow,
            OtherAddress, vars, rates

\* The count of an address is what its requests used of the window, for any
\* number of overlapping requests and any limits: a refusal for the source gives
\* back its own charge and no other.  Where the window began anew between the
\* charge and its return, the count is no more than that (auth.ts 174-194).
THEOREM BucketExact ==
  ASSUME IsFiniteSet(Requests) PROVE Spec => []BucketIsExact
<1>1. Init => BucketIsExact
  <2> SUFFICES ASSUME Init PROVE BucketIsExact
    OBVIOUS
  <2>1. \A p \in Peppers : Waiting(p) = {} /\ byEmail[p] = 0 /\ kept[p] = 0
    BY DEF Init, Waiting, At, Idle
  <2>2. Cardinality({}) = 0
    BY FS_EmptySet
  <2>3. \A p \in Peppers : Fits(p)
    BY <2>1, <2>2 DEF Fits
  <2> QED BY <2>3, BucketFits
<1>2. (\A p \in Peppers : Fits(p))' => BucketIsExact'
  BY DEF BucketIsExact, Fits
<1>3. Typed /\ BucketIsExact /\ [Next]_vars => BucketIsExact'
  BY <1>2, BucketLinkSteps, BucketOutside, NextSplits
<1> QED BY <1>1, <1>3, TypeInit, TypedNext, PTL DEF Spec

=============================================================================
