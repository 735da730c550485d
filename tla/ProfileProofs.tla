----------------------------- MODULE ProfileProofs -----------------------------
(* Theorems about profiles and their review, for any number of edits, answers *)
(* of the reviewer, values and public ids, and for either field.              *)
EXTENDS ProfileReview, TLAPS

\* An answer under way is about a value, and one that approves was counted.
AnswerInv ==
  /\ \A r \in Reviews : reviews[r].pc # "idle" =>
       /\ reviews[r].value \in Values
       /\ reviews[r].approves => reviews[r].value \in approved
  /\ ShownWasApproved

\* What was taken back does not wait for a review either.
BackInv == asked = Nothing => row.shown = Nothing /\ row.pending = Nothing

\* An id that a row has was drawn, so that a new row has another.
IdInv ==
  /\ row # NoRow => row.id \in drawn
  /\ DeletedIsUnknown

\* A mail that is to be sent is about a value.
MailInv == \A e \in Edits : At(e, "mail") => edits[e].value \in Values

ProfileInv == TypeOK /\ AnswerInv /\ BackInv /\ IdInv /\ MailInv

LEMMA InitInv == Init => ProfileInv
BY ProfileAssumption
DEF Init, ProfileInv, TypeOK, AnswerInv, BackInv, IdInv, ShownWasApproved,
    DeletedIsUnknown, MailInv, At, NoRow, IdleEdit, IdleReview, NoFaultYet

\* An edit that does not go on to its mail.
LEMMA MailKept ==
  ASSUME TypeOK, MailInv, NEW e \in Edits, NEW pc \in {"idle", "ensure", "read", "set"},
         Goto(e, pc) \/ End(e)
  PROVE  MailInv'
BY DEF TypeOK, MailInv, At, Goto, End, IdleEdit

\* Types of what an edit, an answer or an UPDATE leaves.
LEMMA EditTypes ==
  ASSUME TypeOK, NEW e \in Edits, NEW pc \in {"idle", "ensure", "read", "set", "mail"},
         Goto(e, pc) \/ End(e)
  PROVE  edits' \in [Edits -> [pc : {"idle", "ensure", "read", "set", "mail"},
                               value : Values \cup {Nothing}]]
BY DEF TypeOK, Goto, End, IdleEdit

LEMMA RowTypes ==
  ASSUME TypeOK, IdInv, NEW s \in Values \cup {Nothing}, NEW p \in Values \cup {Nothing},
         RowGets(s, p)
  PROVE  /\ row' \in [id : Ids \cup {Nothing}, shown : Values \cup {Nothing},
                      pending : Values \cup {Nothing}]
         /\ row'.id = row.id
         /\ row = NoRow <=> row' = NoRow
         /\ row # NoRow => row'.shown = s /\ row'.pending = p
         /\ row = NoRow => row'.shown = Nothing /\ row'.pending = Nothing
<1>1. CASE row = NoRow
  BY <1>1 DEF RowGets, TypeOK, NoRow
<1>2. CASE row # NoRow
  <2>1. row.id # Nothing
    BY <1>2, ProfileAssumption DEF TypeOK, IdInv
  <2>2. row' = [row EXCEPT !.shown = s, !.pending = p]
    BY <1>2 DEF RowGets
  <2>3. row' \in [id : Ids \cup {Nothing}, shown : Values \cup {Nothing},
                  pending : Values \cup {Nothing}]
        /\ row'.id = row.id /\ row'.shown = s /\ row'.pending = p
    BY <2>2 DEF TypeOK
  <2>4. row' # NoRow
    BY <2>1, <2>3 DEF NoRow
  <2> QED BY <1>2, <2>3, <2>4
<1> QED BY <1>1, <1>2

-----------------------------------------------------------------------------
\* A step of an edit.

\* What the answers, and what they go by, do not touch.
LEMMA AnswersKept ==
  ASSUME AnswerInv, UNCHANGED <<row, reviews, approved>>
  PROVE  AnswerInv'
BY DEF AnswerInv, ShownWasApproved

LEMMA RowKept ==
  ASSUME IdInv, BackInv, UNCHANGED <<open, row, drawn, worn>>, asked' = asked \/ asked' # Nothing
  PROVE  IdInv' /\ BackInv'
BY DEF IdInv, BackInv, DeletedIsUnknown, NoRow

LEMMA EnsureInv ==
  ASSUME ProfileInv, NEW e \in Edits, Ensure(e)
  PROVE  ProfileInv'
<1> USE DEF ProfileInv
<1>1. edits' \in [Edits -> [pc : {"idle", "ensure", "read", "set", "mail"},
                            value : Values \cup {Nothing}]]
  BY EditTypes DEF Ensure
<1>m. MailInv'
  BY MailKept DEF Ensure
<1>2. CASE UNCHANGED <<row, drawn>>
  <2>1. TypeOK'
    BY <1>1, <1>2 DEF Ensure, TypeOK
  <2>2. AnswerInv'
    BY <1>2, AnswersKept DEF Ensure
  <2>3. IdInv' /\ BackInv'
    BY <1>2, RowKept DEF Ensure
  <2> QED BY <1>m, <2>1, <2>2, <2>3
<1>3. ASSUME NEW i \in Ids \ drawn, row' = [NoRow EXCEPT !.id = i], drawn' = drawn \cup {i}
      PROVE  ProfileInv'
  <2>0. row' = [id |-> i, shown |-> Nothing, pending |-> Nothing]
    BY <1>3 DEF NoRow
  <2>1. TypeOK'
    BY <1>1, <1>3, <2>0 DEF Ensure, TypeOK
  <2>2. AnswerInv'
    BY <2>0 DEF Ensure, AnswerInv, ShownWasApproved
  <2>3. BackInv'
    BY <2>0 DEF BackInv
  <2>4. IdInv'
    BY <1>3, <2>0 DEF Ensure, IdInv, DeletedIsUnknown, TypeOK
  <2> QED BY <1>m, <2>1, <2>2, <2>3, <2>4
<1> QED BY <1>2, <1>3 DEF Ensure

LEMMA ReadInv ==
  ASSUME ProfileInv, NEW e \in Edits, Read(e)
  PROVE  ProfileInv'
<1> USE DEF ProfileInv
<1>0. edits[e].value \in Values \cup {Nothing}
  BY DEF TypeOK
<1>1. asked' = asked \/ (asked' = edits[e].value /\ asked' # Nothing)
  BY DEF Read, Unchanged
<1>2. edits' \in [Edits -> [pc : {"idle", "ensure", "read", "set", "mail"},
                            value : Values \cup {Nothing}]]
  BY EditTypes DEF Read
<1>3. TypeOK'
  BY <1>0, <1>1, <1>2 DEF Read, TypeOK
<1>4. AnswerInv'
  BY AnswersKept DEF Read
<1>5. IdInv' /\ BackInv'
  BY <1>1, RowKept DEF Read
<1>6. MailInv'
  BY MailKept DEF Read
<1> QED BY <1>3, <1>4, <1>5, <1>6

LEMMA SetInv ==
  ASSUME ProfileInv, NEW e \in Edits, Set(e)
  PROVE  ProfileInv'
<1> USE DEF ProfileInv
<1> DEFINE v == edits[e].value
           shown == IF v = Nothing THEN Nothing ELSE row.shown
<1>0. v \in Values \cup {Nothing} /\ shown \in Values \cup {Nothing}
  BY DEF TypeOK
<1>1. RowGets(shown, v) /\ asked' = v
  BY DEF Set
<1>2. /\ row' \in [id : Ids \cup {Nothing}, shown : Values \cup {Nothing},
                   pending : Values \cup {Nothing}]
      /\ row'.id = row.id
      /\ row = NoRow <=> row' = NoRow
      /\ row # NoRow => row'.shown = shown /\ row'.pending = v
      /\ row = NoRow => row'.shown = Nothing /\ row'.pending = Nothing
  <2> HIDE DEF v, shown
  <2> QED BY <1>0, <1>1, RowTypes
<1>3. edits' \in [Edits -> [pc : {"idle", "ensure", "read", "set", "mail"},
                            value : Values \cup {Nothing}]]
  BY EditTypes DEF Set
<1>4. TypeOK'
  BY <1>0, <1>1, <1>2, <1>3 DEF Set, TypeOK
<1>5. AnswerInv'
  <2>1. row'.shown # Nothing => row'.shown = row.shown
    BY <1>2
  <2> QED BY <2>1 DEF Set, AnswerInv, ShownWasApproved
<1>6. BackInv'
  BY <1>1, <1>2 DEF BackInv
<1>7. IdInv'
  BY <1>2 DEF Set, IdInv, DeletedIsUnknown
<1>8. MailInv'
  <2>1. CASE v = Nothing
    BY <2>1, MailKept DEF Set
  <2>2. CASE v # Nothing
    BY <2>2, <1>0, ProfileAssumption DEF Set, Goto, TypeOK, MailInv, At
  <2> QED BY <2>1, <2>2
<1> QED BY <1>4, <1>5, <1>6, <1>7, <1>8

\* A step of an edit that leaves the row alone: it begins, mails or dies.
LEMMA EditRestInv ==
  ASSUME ProfileInv, NEW e \in Edits,
         Mail(e) \/ DieEdit(e) \/ \E v \in Values \cup {Nothing} : Begin(e, v)
  PROVE  ProfileInv'
<1> USE DEF ProfileInv
<1>1. edits' \in [Edits -> [pc : {"idle", "ensure", "read", "set", "mail"},
                            value : Values \cup {Nothing}]]
  <2>1. CASE Mail(e) \/ DieEdit(e)
    BY <2>1, EditTypes DEF Mail, DieEdit
  <2>2. CASE \E v \in Values \cup {Nothing} : Begin(e, v)
    BY <2>2 DEF Begin, TypeOK
  <2> QED BY <2>1, <2>2
<1>2. mails' \subseteq Values
  BY DEF Mail, DieEdit, Begin, TypeOK, MailInv
<1>3. faults' \in Nat
  BY DEF Mail, DieEdit, Begin, Works, Fails, TypeOK
<1>4. UNCHANGED <<open, row, reviews, drawn, worn, asked, approved>>
  BY DEF Mail, DieEdit, Begin
<1>5. AnswerInv'
  BY <1>4, AnswersKept
<1>6. IdInv' /\ BackInv'
  BY <1>4, RowKept
<1>7. MailInv'
  <2>1. CASE Mail(e) \/ DieEdit(e)
    BY <2>1, MailKept DEF Mail, DieEdit
  <2>2. CASE \E v \in Values \cup {Nothing} : Begin(e, v)
    BY <2>2 DEF Begin, TypeOK, MailInv, At
  <2> QED BY <2>1, <2>2
<1>8. TypeOK'
  BY <1>1, <1>2, <1>3, <1>4 DEF TypeOK
<1> QED BY <1>5, <1>6, <1>7, <1>8

-----------------------------------------------------------------------------
\* A step of an answer.
LEMMA AnswerStepsInv ==
  ASSUME ProfileInv, NEW r \in Reviews,
         ReviewSteps(r) \/ \E v \in Values, a \in BOOLEAN : Post(r, v, a)
  PROVE  ProfileInv'
<1> USE DEF ProfileInv
<1> DEFINE Reviewing == [Reviews -> [pc : {"idle", "check", "decide"},
                                     value : Values \cup {Nothing}, approves : BOOLEAN]]
<1>1. CASE \E v \in Values, a \in BOOLEAN : Post(r, v, a)
  <2>1. TypeOK'
    BY <1>1 DEF Post, TypeOK
  <2>2. AnswerInv'
    BY <1>1 DEF Post, TypeOK, AnswerInv, ShownWasApproved
  <2>3. IdInv' /\ BackInv'
    BY <1>1, RowKept DEF Post
  <2>4. MailInv'
    BY <1>1 DEF Post, MailInv, At
  <2> QED BY <2>1, <2>2, <2>3, <2>4
<1>2. CASE Check(r) \/ DieReview(r)
  <2>1. reviews' \in Reviewing
    <3>1. reviews \in Reviewing /\ Nothing \in Values \cup {Nothing}
      BY DEF TypeOK
    <3>2. CASE Answered(r)
      BY <3>1, <3>2 DEF Answered, IdleReview
    <3>3. CASE reviews' = [reviews EXCEPT ![r].pc = "decide"]
      BY <3>1, <3>3
    <3> QED BY <1>2, <3>2, <3>3 DEF Check, DieReview
  <2>2. faults' \in Nat
    BY <1>2 DEF Check, DieReview, Fails, TypeOK
  <2>3. UNCHANGED <<open, row, edits, mails, drawn, worn, asked, approved>>
    BY <1>2 DEF Check, DieReview
  <2>4. TypeOK'
    BY <2>1, <2>2, <2>3 DEF TypeOK
  <2>5. AnswerInv'
    <3>1. \A q \in Reviews : reviews'[q].pc # "idle" =>
            /\ reviews[q].pc # "idle" /\ reviews'[q].value = reviews[q].value
            /\ reviews'[q].approves = reviews[q].approves
      BY <1>2 DEF Check, DieReview, Answered, IdleReview, TypeOK
    <3> QED BY <2>3, <3>1 DEF AnswerInv, ShownWasApproved
  <2>6. IdInv' /\ BackInv'
    BY <2>3, RowKept
  <2>7. MailInv'
    BY <2>3 DEF MailInv, At
  <2> QED BY <2>4, <2>5, <2>6, <2>7
<1>3. CASE Decide(r)
  <2> DEFINE v == reviews[r].value
             shown == IF reviews[r].approves THEN v ELSE row.shown
  <2>1. v \in Values /\ v # Nothing /\ (reviews[r].approves => v \in approved)
    BY <1>3, ProfileAssumption DEF Decide, AnswerInv
  <2>2. /\ reviews' \in Reviewing
        /\ \A q \in Reviews : reviews'[q].pc # "idle" => reviews'[q] = reviews[q]
    BY <1>3 DEF Decide, Answered, IdleReview, TypeOK
  <2>3. UNCHANGED <<open, edits, mails, drawn, worn, asked, approved, faults>>
    BY <1>3 DEF Decide
  <2>4. CASE row.pending = v
    <3>1. RowGets(shown, Nothing) /\ shown \in Values \cup {Nothing}
      BY <1>3, <2>1, <2>4 DEF Decide, TypeOK
    <3>2. /\ row' \in [id : Ids \cup {Nothing}, shown : Values \cup {Nothing},
                       pending : Values \cup {Nothing}]
          /\ row'.id = row.id
          /\ row = NoRow <=> row' = NoRow
          /\ row # NoRow => row'.shown = shown /\ row'.pending = Nothing
          /\ row = NoRow => row'.shown = Nothing /\ row'.pending = Nothing
      <4> HIDE DEF v, shown
      <4> QED BY <3>1, RowTypes
    <3>3. TypeOK'
      BY <2>2, <2>3, <3>2 DEF TypeOK
    <3>4. AnswerInv'
      <4>1. row'.shown \in {Nothing, row.shown} \/ (reviews[r].approves /\ row'.shown = v)
        BY <3>2
      <4>2. ShownWasApproved'
        BY <2>1, <2>3, <4>1 DEF AnswerInv, ShownWasApproved
      <4> QED BY <2>2, <2>3, <4>2 DEF AnswerInv
    <3>5. BackInv'
      BY <2>1, <2>3, <2>4 DEF BackInv
    <3>6. IdInv'
      BY <2>3, <3>2 DEF IdInv, DeletedIsUnknown
    <3>7. MailInv'
      BY <2>3 DEF MailInv, At
    <3> QED BY <3>3, <3>4, <3>5, <3>6, <3>7
  <2>5. CASE row.pending # v
    <3>1. UNCHANGED row
      BY <1>3, <2>5 DEF Decide
    <3>2. TypeOK'
      BY <2>2, <2>3, <3>1 DEF TypeOK
    <3>3. AnswerInv'
      BY <2>2, <2>3, <3>1 DEF AnswerInv, ShownWasApproved
    <3>4. IdInv' /\ BackInv'
      BY <2>3, <3>1, RowKept
    <3>5. MailInv'
      BY <2>3 DEF MailInv, At
    <3> QED BY <3>2, <3>3, <3>4, <3>5
  <2> QED BY <2>4, <2>5
<1> QED BY <1>1, <1>2, <1>3 DEF ReviewSteps

-----------------------------------------------------------------------------
\* The other actions.
LEMMA RestInv ==
  ASSUME ProfileInv,
         \/ \E v \in Values : LinkExpires(v)
         \/ PlaceBelief \/ DeleteAccount \/ UNCHANGED vars
  PROVE  ProfileInv'
<1> USE DEF ProfileInv
<1>1. CASE (\E v \in Values : LinkExpires(v)) \/ UNCHANGED vars
  <2>1. UNCHANGED <<open, row, edits, reviews, drawn, worn, asked, approved, faults>>
        /\ mails' \subseteq Values
    BY <1>1 DEF LinkExpires, vars, TypeOK
  <2>2. TypeOK' /\ MailInv'
    BY <2>1 DEF TypeOK, MailInv, At
  <2>3. AnswerInv'
    BY <2>1, AnswersKept
  <2>4. IdInv' /\ BackInv'
    BY <2>1, RowKept
  <2> QED BY <2>2, <2>3, <2>4
<1>2. CASE PlaceBelief
  <2>1. TypeOK' /\ MailInv'
    BY <1>2 DEF PlaceBelief, TypeOK, IdInv, MailInv, At
  <2>2. AnswerInv'
    BY <1>2, AnswersKept DEF PlaceBelief
  <2>3. IdInv' /\ BackInv'
    BY <1>2 DEF PlaceBelief, IdInv, DeletedIsUnknown, BackInv
  <2> QED BY <2>1, <2>2, <2>3
<1>3. CASE DeleteAccount
  <2>1. row' = NoRow /\ open' = FALSE
        /\ UNCHANGED <<edits, reviews, mails, drawn, worn, approved, faults>>
    BY <1>3 DEF DeleteAccount
  <2>2. TypeOK' /\ MailInv'
    <3>1. row' \in [id : Ids \cup {Nothing}, shown : Values \cup {Nothing},
                    pending : Values \cup {Nothing}]
      BY <2>1 DEF NoRow
    <3>2. open' \in BOOLEAN /\ asked' \in Values \cup {Nothing}
      BY <1>3 DEF DeleteAccount
    <3> QED BY <2>1, <3>1, <3>2 DEF TypeOK, MailInv, At
  <2>3. AnswerInv'
    BY <2>1 DEF AnswerInv, ShownWasApproved, NoRow
  <2>4. IdInv' /\ BackInv'
    BY <2>1 DEF IdInv, DeletedIsUnknown, BackInv, NoRow
  <2> QED BY <2>2, <2>3, <2>4
<1> QED BY <1>1, <1>2, <1>3

LEMMA NextInv == ProfileInv /\ [Next]_vars => ProfileInv'
<1> SUFFICES ASSUME ProfileInv, [Next]_vars PROVE ProfileInv'
  OBVIOUS
<1>1. ASSUME NEW e \in Edits,
             EditSteps(e) \/ \E v \in Values \cup {Nothing} : Begin(e, v)
      PROVE  ProfileInv'
  BY <1>1, EnsureInv, ReadInv, SetInv, EditRestInv DEF EditSteps
<1>2. ASSUME NEW r \in Reviews,
             ReviewSteps(r) \/ \E v \in Values, a \in BOOLEAN : Post(r, v, a)
      PROVE  ProfileInv'
  BY <1>2, AnswerStepsInv
<1> QED BY <1>1, <1>2, RestInv DEF Next

-----------------------------------------------------------------------------
\* The invariant holds in every reachable state.
LEMMA Reachable == Spec => []ProfileInv
BY InitInv, NextInv, PTL DEF Spec

\* A value that is shown is one whose approval was sent, for any number of
\* edits and answers under way, lost mails and dead requests (profile.ts 122-189).
THEOREM ApprovedEver == Spec => []ShownWasApproved
<1>1. ProfileInv => ShownWasApproved
  BY DEF ProfileInv, AnswerInv
<1> QED BY <1>1, Reachable, PTL

\* What the account took back, and did not ask for again, is hidden
\* (profile.ts 21-26, 140).
THEOREM HiddenEver == Spec => []TakenBackIsHidden
<1>1. ProfileInv => TakenBackIsHidden
  BY DEF ProfileInv, BackInv, TakenBackIsHidden
<1> QED BY <1>1, Reachable, PTL

\* No belief of a deleted account leads to a profile, also if an edit that was
\* under way writes the row anew (profile.ts 78-81, auth.ts 548).
THEOREM UnknownEver == Spec => []DeletedIsUnknown
<1>1. ProfileInv => DeletedIsUnknown
  BY DEF ProfileInv, IdInv
<1> QED BY <1>1, Reachable, PTL
=============================================================================
