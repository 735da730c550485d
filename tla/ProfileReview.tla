---------------------------- MODULE ProfileReview ----------------------------
(* The picture, or the link, an account shows on its beliefs (profile.ts):    *)
(* the account's edits, which may overlap, the mails that ask for a review,   *)
(* the reviewer's answers, and the deletion of the account.                   *)
(*                                                                            *)
(* A statement in D1 is a step.  A review link names the value it is about,   *)
(* so that the mails of one value are as one.  The page a link opens shows    *)
(* the value and changes nothing.                                             *)
EXTENDS Faults

CONSTANTS
  Edits,    \* requests of the account that may be open at once
  Reviews,  \* answers of the reviewer that may be open at once
  Values,   \* pictures, or links
  Ids,      \* public ids that may be drawn (bound)
  Nothing,  \* NULL
  Field     \* "image" or "link"
ASSUME ProfileAssumption == Nothing \notin Values \cup Ids /\ Field \in {"image", "link"}

VARIABLES
  open,      \* the account is not deleted
  row,       \* its row of account_profiles: public id, shown and pending value
  edits,     \* where an edit is, and its value; Nothing takes the field back
  reviews,   \* where an answer is, its value, and whether it approves
  mails,     \* values with a review link that arrived and has not expired
  drawn,     \* public ids drawn so far
  worn,      \* those that a belief carries
  asked,     \* history: the last value that the account wanted shown
  approved   \* history: values whose approval was sent
vars == <<open, row, edits, reviews, mails, drawn, worn, asked, approved, faults>>

NoRow == [id |-> Nothing, shown |-> Nothing, pending |-> Nothing]
IdleEdit == [pc |-> "idle", value |-> Nothing]
IdleReview == [pc |-> "idle", value |-> Nothing, approves |-> FALSE]

Init ==
  /\ open = TRUE /\ row = NoRow /\ NoFaultYet
  /\ edits = [e \in Edits |-> IdleEdit] /\ reviews = [r \in Reviews |-> IdleReview]
  /\ mails = {} /\ drawn = {} /\ worn = {} /\ asked = Nothing /\ approved = {}

At(e, pc) == edits[e].pc = pc
Goto(e, pc) == edits' = [edits EXCEPT ![e].pc = pc]
End(e) == edits' = [edits EXCEPT ![e] = IdleEdit]
Answered(r) == reviews' = [reviews EXCEPT ![r] = IdleReview]

\* An UPDATE: it changes nothing if there is no row.
RowGets(shown, pending) ==
  row' = IF row = NoRow THEN row ELSE [row EXCEPT !.shown = shown, !.pending = pending]

-----------------------------------------------------------------------------
\* PUT /v1/profile; with the account checked here, the rest may come later.
Begin(e, v) ==
  /\ At(e, "idle") /\ open
  /\ edits' = [edits EXCEPT ![e] = [pc |-> "ensure", value |-> v]]
  /\ UNCHANGED <<open, row, reviews, mails, drawn, worn, asked, approved, faults>>

\* INSERT OR IGNORE, with a public id that was never used.
EnsureSameId(e) ==
  /\ At(e, "ensure") /\ Goto(e, "read")
  /\ \/ row # NoRow /\ UNCHANGED <<row, drawn>>
     \/ /\ row = NoRow
        /\ \E i \in Ids : (drawn = {} \/ i \in drawn)
                          /\ row' = [NoRow EXCEPT !.id = i] /\ drawn' = drawn \cup {i}
  /\ UNCHANGED <<open, reviews, mails, worn, asked, approved, faults>>
Ensure(e) ==
  /\ At(e, "ensure") /\ Goto(e, "read")
  /\ \/ row # NoRow /\ UNCHANGED <<row, drawn>>
     \/ /\ row = NoRow
        /\ \E i \in Ids \ drawn : row' = [NoRow EXCEPT !.id = i] /\ drawn' = drawn \cup {i}
  /\ UNCHANGED <<open, reviews, mails, worn, asked, approved, faults>>

\* A link that is shown or waits for its review already is left as it is.
Unchanged(v) == Field = "link" /\ v # Nothing /\ v \in {row.shown, row.pending}
Read(e) ==
  LET v == edits[e].value IN
  /\ At(e, "read")
  /\ IF row = NoRow \/ Unchanged(v) THEN End(e) ELSE Goto(e, "set")
  /\ asked' = IF row # NoRow /\ Unchanged(v) THEN v ELSE asked
  /\ UNCHANGED <<open, row, reviews, mails, drawn, worn, approved, faults>>

\* What is taken back is hidden at once, what is new waits for its review.
SetLeavesPending(e) ==
  LET v == edits[e].value IN
  /\ At(e, "set") /\ asked' = v
  /\ \/ v = Nothing /\ RowGets(Nothing, row.pending) /\ End(e)
     \/ v # Nothing /\ RowGets(row.shown, v) /\ Goto(e, "mail")
  /\ UNCHANGED <<open, reviews, mails, drawn, worn, approved, faults>>
Set(e) ==
  LET v == edits[e].value IN
  /\ At(e, "set") /\ asked' = v
  /\ \/ v = Nothing /\ RowGets(Nothing, Nothing) /\ End(e)
     \/ v # Nothing /\ RowGets(row.shown, v) /\ Goto(e, "mail")
  /\ UNCHANGED <<open, reviews, mails, drawn, worn, approved, faults>>

\* sendReview: nobody is told if the mail is lost.
Mail(e) ==
  /\ At(e, "mail") /\ End(e)
  /\ \/ Works /\ mails' = IF row = NoRow THEN mails ELSE mails \cup {edits[e].value}
     \/ Fails("mail") /\ UNCHANGED mails
  /\ UNCHANGED <<open, row, reviews, drawn, worn, asked, approved>>

DieEdit(e) ==
  /\ ~At(e, "idle") /\ Fails("edit") /\ End(e)
  /\ UNCHANGED <<open, row, reviews, mails, drawn, worn, asked, approved>>

-----------------------------------------------------------------------------
\* POST /v1/review: the reviewer may answer twice, and differently.
Post(r, v, approves) ==
  /\ reviews[r].pc = "idle" /\ v \in mails
  /\ reviews' = [reviews EXCEPT ![r] = [pc |-> "check", value |-> v, approves |-> approves]]
  /\ approved' = IF approves THEN approved \cup {v} ELSE approved
  /\ UNCHANGED <<open, row, edits, mails, drawn, worn, asked, faults>>

\* The value that is pending must be that of the link.
Check(r) ==
  /\ reviews[r].pc = "check"
  /\ IF row.pending = reviews[r].value THEN reviews' = [reviews EXCEPT ![r].pc = "decide"]
     ELSE Answered(r)
  /\ UNCHANGED <<open, row, edits, mails, drawn, worn, asked, approved, faults>>

\* The update has that condition once more.
DecideUnchecked(r) ==
  /\ reviews[r].pc = "decide" /\ Answered(r)
  /\ RowGets(IF reviews[r].approves THEN row.pending ELSE row.shown, Nothing)
  /\ UNCHANGED <<open, edits, mails, drawn, worn, asked, approved, faults>>
Decide(r) ==
  LET v == reviews[r].value IN
  /\ reviews[r].pc = "decide" /\ Answered(r)
  /\ IF row.pending = v
     THEN RowGets(IF reviews[r].approves THEN v ELSE row.shown, Nothing)
     ELSE UNCHANGED row
  /\ UNCHANGED <<open, edits, mails, drawn, worn, asked, approved, faults>>

DieReview(r) ==
  /\ reviews[r].pc # "idle" /\ Fails("review") /\ Answered(r)
  /\ UNCHANGED <<open, row, edits, mails, drawn, worn, asked, approved>>

\* REVIEW_TTL_MS
LinkExpires(v) ==
  /\ v \in mails /\ mails' = mails \ {v}
  /\ UNCHANGED <<open, row, edits, reviews, drawn, worn, asked, approved, faults>>

-----------------------------------------------------------------------------
\* A belief of an account with a name; the charge and the row are read in one batch.
PlaceBelief ==
  /\ open /\ row # NoRow /\ worn' = worn \cup {row.id}
  /\ UNCHANGED <<open, row, edits, reviews, mails, drawn, asked, approved, faults>>

DeleteAccount ==
  /\ open /\ open' = FALSE /\ row' = NoRow /\ asked' = Nothing
  /\ UNCHANGED <<edits, reviews, mails, drawn, worn, approved, faults>>

EditSteps(e) == Ensure(e) \/ Read(e) \/ Set(e) \/ Mail(e) \/ DieEdit(e)
ReviewSteps(r) == Check(r) \/ Decide(r) \/ DieReview(r)

Next ==
  \/ \E e \in Edits : EditSteps(e) \/ \E v \in Values \cup {Nothing} : Begin(e, v)
  \/ \E r \in Reviews : ReviewSteps(r) \/ \E v \in Values, a \in BOOLEAN : Post(r, v, a)
  \/ \E v \in Values : LinkExpires(v)
  \/ PlaceBelief \/ DeleteAccount

Spec == Init /\ [][Next]_vars

-----------------------------------------------------------------------------
TypeOK ==
  /\ open \in BOOLEAN /\ faults \in Nat
  /\ row \in [id : Ids \cup {Nothing}, shown : Values \cup {Nothing},
              pending : Values \cup {Nothing}]
  /\ edits \in [Edits -> [pc : {"idle", "ensure", "read", "set", "mail"},
                          value : Values \cup {Nothing}]]
  /\ reviews \in [Reviews -> [pc : {"idle", "check", "decide"},
                              value : Values \cup {Nothing}, approves : BOOLEAN]]
  /\ mails \subseteq Values /\ drawn \subseteq Ids /\ worn \subseteq drawn
  /\ asked \in Values \cup {Nothing} /\ approved \subseteq Values

\* What is shown was approved, and it is that very value: an edit between the
\* reviewer's page and the answer, or between the answer's check and its
\* update, shows nothing that nobody reviewed (migration 0006, profile.ts 169).
ShownWasApproved == row.shown # Nothing => row.shown \in approved

\* What the account took back stays hidden until it asks for something again:
\* no review that was under way, and no answer that is repeated, brings it back.
TakenBackIsHidden == asked = Nothing => row.shown = Nothing

\* The beliefs of a deleted account lead to no profile: one that an edit still
\* under way creates anew has a public id that no belief carries
\* (privacy.html, migration 0006).
DeletedIsUnknown == ~open /\ row # NoRow => row.id \notin worn

\* What a test means to promise (profile.test.ts 63, profile.ts 177) and the code
\* does not keep when the account goes back to the link that is shown: an old
\* review link does nothing once the account changed the value.
ChangedIsStale ==
  [][row'.shown # row.shown /\ row'.shown # Nothing => row'.shown = asked]_vars
=============================================================================
