-------------------------------- MODULE SignIn --------------------------------
(* Signing in with one e-mail address (auth.ts): requests for a magic link,   *)
(* which may overlap, the two rate limits they pass, the account they find,   *)
(* move to the new pepper or open, the verification of links, and the         *)
(* deletion of the account from a device that is signed in.                   *)
(*                                                                            *)
(* A statement in D1 is a step, but the three of one bucket are one: those    *)
(* before the conditional increment do nothing unless the window is over.  A  *)
(* hash of the address is the pepper it was made with.  A row that expired is *)
(* as good as deleted, for every statement asks for its expiry.               *)
EXTENDS Naturals, FiniteSets

CONSTANTS
  Requests,    \* requests for a link that may be open at once
  Accounts,    \* ids that may be drawn
  Links,       \* tokens of links that may be drawn (bound)
  Tokens,      \* tokens of sessions that may be drawn (bound)
  Nothing,     \* no account, no link
  EmailLimit, IpLimit,
  Releases     \* peppers of the releases that serve requests

Peppers == {"old", "current"}
ASSUME SignInAssumption ==
  /\ EmailLimit \in Nat /\ IpLimit \in Nat
  /\ Releases \subseteq Peppers /\ Nothing \notin Accounts \cup Links

VARIABLES
  accounts,  \* email_hmac of each row
  requests,  \* where a request is, its release, account and link
  byEmail,   \* count of the address, under the hash of either pepper
  byIp,      \* count of the one source
  links,     \* magic_links
  sessions,  \* account_sessions that are not revoked
  deletion,  \* the account being deleted, and the hash that was read
  mailed,    \* links that arrived
  kept,      \* history: charges of the window that are not to be given back
  torn,      \* history: whether the window began between a charge and its refund
  raced,     \* history: accounts deleted just before a link for them was inserted
  opened     \* history: the link every session was opened with
rates == <<byEmail, byIp, kept, torn>>
devices == <<sessions, deletion, opened, raced>>
vars == <<accounts, requests, rates, links, devices, mailed>>

Idle == [pc |-> "idle", release |-> "current", account |-> Nothing, link |-> Nothing]
NoDeletion == [account |-> Nothing, hash |-> "none"]

\* An address that never signed in, or one whose account has the old pepper.
Init ==
  /\ \E some \in BOOLEAN, b \in Accounts :
       accounts = [a \in Accounts |-> IF some /\ a = b THEN "old" ELSE "unused"]
  /\ requests = [r \in Requests |-> Idle]
  /\ byEmail = [p \in Peppers |-> 0] /\ byIp = 0 /\ kept = [p \in Peppers |-> 0]
  /\ torn = [p \in Peppers |-> FALSE] /\ raced = {}
  /\ links = {} /\ sessions = {} /\ deletion = NoDeletion /\ mailed = {} /\ opened = {}

At(r, pc) == requests[r].pc = pc
Goto(r, pc) == requests' = [requests EXCEPT ![r].pc = pc]
End(r) == requests' = [requests EXCEPT ![r] = Idle]
Hash(r) == requests[r].release
Of(hash) == {a \in Accounts : accounts[a] = hash}

-----------------------------------------------------------------------------
\* A request for a link: lookupHmac.

Ask(r) ==
  /\ At(r, "idle")
  /\ \E p \in Releases :
       requests' = [requests EXCEPT ![r].pc = "lookup", ![r].release = p]
  /\ UNCHANGED <<accounts, rates, links, devices, mailed>>

\* Only the current release has a ring of older peppers.
LookupRingless(r) ==
  /\ At(r, "lookup") /\ Goto(r, "email")
  /\ UNCHANGED <<accounts, rates, links, devices, mailed>>
Lookup(r) ==
  /\ At(r, "lookup")
  /\ Goto(r, IF Of(Hash(r)) = {} /\ Hash(r) = "current" THEN "older" ELSE "email")
  /\ UNCHANGED <<accounts, rates, links, devices, mailed>>

Older(r) ==
  /\ At(r, "older") /\ Goto(r, IF Of("old") = {} THEN "email" ELSE "rekey")
  /\ UNCHANGED <<accounts, rates, links, devices, mailed>>

\* email_hmac is unique: the update fails if the new one is taken.
Rekey(r) ==
  /\ At(r, "rekey")
  /\ IF Of("old") # {} /\ Of("current") # {} THEN End(r) /\ UNCHANGED accounts
     ELSE /\ Goto(r, "email")
          /\ accounts' = [a \in Accounts |->
                            IF accounts[a] = "old" THEN "current" ELSE accounts[a]]
  /\ UNCHANGED <<rates, links, devices, mailed>>

-----------------------------------------------------------------------------
\* rateLimitOk: the bucket of the address, then that of the source, if known.

Kept(hash) == kept' = [kept EXCEPT ![hash] = @ + 1]

HitEmail(r) ==
  /\ At(r, "email")
  /\ \/ byEmail[Hash(r)] >= EmailLimit /\ End(r) /\ UNCHANGED <<byEmail, kept>>
     \/ /\ byEmail[Hash(r)] < EmailLimit /\ byEmail' = [byEmail EXCEPT ![Hash(r)] = @ + 1]
        /\ \/ Goto(r, "ip") /\ UNCHANGED kept
           \/ Goto(r, "account") /\ Kept(Hash(r))
  /\ UNCHANGED <<accounts, byIp, torn, links, devices, mailed>>

HitIp(r) ==
  /\ At(r, "ip")
  /\ \/ byIp >= IpLimit /\ Goto(r, "refund") /\ UNCHANGED <<byIp, kept>>
     \/ byIp < IpLimit /\ byIp' = byIp + 1 /\ Goto(r, "account") /\ Kept(Hash(r))
  /\ UNCHANGED <<accounts, byEmail, torn, links, devices, mailed>>

RefundUnknown(r) ==
  /\ At(r, "refund") /\ End(r) /\ UNCHANGED <<accounts, rates, links, devices, mailed>>
Refund(r) ==
  /\ At(r, "refund") /\ End(r)
  /\ byEmail' = [byEmail EXCEPT ![Hash(r)] = IF @ > 0 THEN @ - 1 ELSE 0]
  /\ UNCHANGED <<accounts, byIp, kept, torn, links, devices, mailed>>

-----------------------------------------------------------------------------
\* The account, the link and the mail.

Upsert(r) ==
  /\ At(r, "account") /\ Goto(r, "select")
  /\ \/ Of(Hash(r)) # {} /\ UNCHANGED accounts
     \/ /\ Of(Hash(r)) = {}
        /\ \E a \in Of("unused") : accounts' = [accounts EXCEPT ![a] = Hash(r)]
  /\ UNCHANGED <<rates, links, devices, mailed>>

\* The row is gone only if it was deleted, or moved to another hash, meanwhile.
Select(r) ==
  /\ At(r, "select")
  /\ \/ \E a \in Of(Hash(r)) :
          requests' = [requests EXCEPT ![r].pc = "link", ![r].account = a]
     \/ Of(Hash(r)) = {} /\ End(r)
  /\ UNCHANGED <<accounts, rates, links, devices, mailed>>

InsertLink(r) ==
  /\ At(r, "link")
  /\ \E l \in Links \ {x.token : x \in links} :
       /\ l \notin mailed /\ \A o \in opened : o.link # l
       /\ links' = links \cup {[token |-> l, account |-> requests[r].account, used |-> FALSE]}
       /\ requests' = [requests EXCEPT ![r].pc = "mail", ![r].link = l]
  /\ UNCHANGED <<accounts, rates, devices, mailed>>

\* The mail may arrive although its sending failed, and get lost although not.
Mail(r) ==
  /\ At(r, "mail")
  /\ \E arrives \in SUBSET {requests[r].link} : mailed' = mailed \cup arrives
  /\ Goto(r, "unsent") \/ End(r)
  /\ UNCHANGED <<accounts, rates, links, devices>>

DeleteUnused(r) ==
  /\ At(r, "unsent") /\ End(r)
  /\ links' = {l \in links : l.token = requests[r].link => l.used}
  /\ UNCHANGED <<accounts, rates, devices, mailed>>

Die(r) ==
  /\ ~At(r, "idle") /\ End(r)
  /\ IF At(r, "ip") \/ At(r, "refund") THEN Kept(Hash(r)) ELSE UNCHANGED kept
  /\ UNCHANGED <<accounts, byEmail, byIp, torn, links, devices, mailed>>

LinkSteps(r) ==
  \/ Ask(r) \/ Lookup(r) \/ Older(r) \/ Rekey(r) \/ HitEmail(r) \/ HitIp(r) \/ Refund(r)
  \/ Upsert(r) \/ Select(r) \/ InsertLink(r) \/ Mail(r) \/ DeleteUnused(r) \/ Die(r)

-----------------------------------------------------------------------------
\* One batch consumes the link and inserts the session; a link that is used,
\* expired or unknown changes nothing.
OpenSession(l, t) ==
  /\ sessions' = sessions \cup {[token |-> t, account |-> l.account]}
  /\ opened' = opened \cup {[token |-> t, link |-> l.token]}
  /\ UNCHANGED <<accounts, requests, rates, deletion, raced, mailed>>
VerifyUsed(l, t) ==
  /\ l.token \in mailed
  /\ links' = (links \ {l}) \cup {[l EXCEPT !.used = TRUE]} /\ OpenSession(l, t)
Verify(l, t) ==
  /\ l.token \in mailed /\ ~l.used
  /\ links' = (links \ {l}) \cup {[l EXCEPT !.used = TRUE]} /\ OpenSession(l, t)

\* The user signs out, or thirty days pass.
SessionEnds(s) ==
  /\ sessions' = sessions \ {s}
  /\ UNCHANGED <<accounts, requests, rates, links, deletion, mailed, opened, raced>>

LinkEnds(l) ==
  /\ links' = links \ {l}
  /\ UNCHANGED <<accounts, requests, rates, devices, mailed>>

Authorise(s) ==
  /\ deletion = NoDeletion
  /\ deletion' = [account |-> s.account, hash |-> accounts[s.account]]
  /\ UNCHANGED <<accounts, requests, rates, links, sessions, mailed, opened, raced>>

\* Those who charged the address, and may yet give the charge back.
Waiting(hash) == {r \in Requests : Hash(r) = hash /\ (At(r, "ip") \/ At(r, "refund"))}

\* The bucket of an address begins anew.
Emptied(hash) ==
  /\ byEmail' = [p \in Peppers |-> IF p = hash THEN 0 ELSE byEmail[p]]
  /\ kept' = [p \in Peppers |-> IF p = hash THEN 0 ELSE kept[p]]
  /\ torn' = [p \in Peppers |-> IF p = hash THEN Waiting(p) # {} ELSE torn[p]]
  /\ UNCHANGED byIp

\* The deletion does not see a request that has read the account.
Late == {requests[r].account : r \in {r \in Requests : At(r, "link")}}
Tombstone ==
  /\ deletion # NoDeletion /\ deletion' = NoDeletion
  /\ sessions' = {s \in sessions : s.account # deletion.account}
  /\ accounts' = [accounts EXCEPT ![deletion.account] = "deleted"]
  /\ raced' = raced \cup ({deletion.account} \cap Late)
  /\ Emptied(deletion.hash) /\ UNCHANGED <<requests, mailed, opened>>
DeleteKeepsLinks == Tombstone /\ UNCHANGED links
Delete == Tombstone /\ links' = {l \in links : l.account # deletion.account}

-----------------------------------------------------------------------------
\* An hour passes for a bucket; a request of another address from the source.
EmailWindow(p) ==
  /\ byEmail[p] > 0 /\ Emptied(p)
  /\ UNCHANGED <<accounts, requests, links, devices, mailed>>
IpWindow ==
  /\ byIp > 0 /\ byIp' = 0
  /\ UNCHANGED <<accounts, requests, byEmail, kept, torn, links, devices, mailed>>
OtherAddress ==
  /\ byIp < IpLimit /\ byIp' = byIp + 1
  /\ UNCHANGED <<accounts, requests, byEmail, kept, torn, links, devices, mailed>>

Next ==
  \/ \E r \in Requests : LinkSteps(r)
  \/ \E l \in links : LinkEnds(l) \/ \E t \in Tokens \ {o.token : o \in opened} : Verify(l, t)
  \/ \E s \in sessions : SessionEnds(s) \/ Authorise(s)
  \/ Delete \/ IpWindow \/ OtherAddress \/ \E p \in Peppers : EmailWindow(p)

Spec == Init /\ [][Next]_vars

-----------------------------------------------------------------------------
TypeOK ==
  /\ accounts \in [Accounts -> Peppers \cup {"unused", "deleted"}]
  /\ requests \in [Requests ->
       [pc : {"idle", "lookup", "older", "rekey", "email", "ip", "refund", "account",
              "select", "link", "mail", "unsent"},
        release : Peppers, account : Accounts \cup {Nothing}, link : Links \cup {Nothing}]]
  /\ byEmail \in [Peppers -> 0..EmailLimit] /\ byIp \in 0..IpLimit
  /\ kept \in [Peppers -> Nat] /\ torn \in [Peppers -> BOOLEAN] /\ raced \subseteq Accounts
  /\ links \subseteq [token : Links, account : Accounts, used : BOOLEAN]
  /\ sessions \subseteq [token : Tokens, account : Accounts]
  /\ deletion \in [account : Accounts \cup {Nothing},
                   hash : Peppers \cup {"none", "unused", "deleted"}]
  /\ mailed \subseteq Links /\ opened \subseteq [token : Tokens, link : Links]

\* The count of an address is what its requests used of the window and nothing
\* that was refused for its source: neither bucket is burned by the other's
\* rejection, and no refund takes back another's charge (auth.ts 174-194).  If
\* the window began between a charge and its refund, the refund may, and the
\* count is no more than that.
BucketIsExact ==
  \A p \in Peppers :
    LET used == kept[p] + Cardinality(Waiting(p)) IN
    byEmail[p] <= used /\ (~torn[p] => byEmail[p] = used)

\* An address has one account, through a change of the pepper, overlapping
\* first sign-ins and a deletion (auth.ts 241-255; two would split its credits).
OneAccount == \A a, b \in Of("old") \cup Of("current") : a = b

\* Nobody is signed in to an account that was deleted, or holds a link that
\* would open it, unless a request for a link had found the account before its
\* deletion and inserted the link after it (auth.ts 470-476, 538-551).
DeletedIsClosed ==
  \A x \in sessions \cup links : accounts[x.account] \in Peppers \/ x.account \in raced

\* A link opens one session, whatever becomes of the session, and of the mail
\* that brought it (auth.ts 7-10).
LinkOpensOne == \A o, x \in opened : o.link = x.link => o = x
=============================================================================
