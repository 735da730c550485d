---------------------------- MODULE PaidMovesInv ----------------------------
(***************************************************************************)
(* The inductive invariant behind MovesArePaid, for an environment where   *)
(* invocations are short, a key is not reused while it is in use, and a    *)
(* key is not reused once the Mind may have forgotten it.                  *)
(***************************************************************************)
EXTENDS PaidMovesProps

GentleEnvironment ==
  /\ PromptInvocations
  /\ ~RetryPending
  /\ RetryWindow <= IdempotencyTtl

HasCharge(k) == markers[k].status \in {"pending", "spent"}

\* The next move on k is covered, or the Mind m would only repeat a
\* success it remembers.
Room(m, k) == \/ m[k].moves < Covered(k)
              \/ m[k].known /\ m[k].age <= IdempotencyTtl

\* A key has one user at a time.
OneUser ==
  \A q, r \in Requests :
    Active(q) /\ Active(r) /\ reqs[q].key = reqs[r].key => q = r

\* An invocation that has not spent yet finds no pending marker, and finds a
\* spent one only inside the retry window.
AuthedKeyIsFree ==
  \A r \in Requests :
    /\ reqs[r].pc \in {"idle", "authed"} => reqs[r].call = "none"
    /\ reqs[r].pc = "authed" =>
         /\ markers[reqs[r].key].status # "pending"
         /\ markers[reqs[r].key].status = "spent"
              => markers[reqs[r].key].age <= RetryWindow

\* While a key has a user, its pending marker is from this Tick.
UserIsRecent ==
  \A r \in Requests :
    Active(r) /\ markers[reqs[r].key].status = "pending"
      => markers[reqs[r].key].age = 0

\* A pass works on keys nobody uses, and refunds only what was not applied,
\* unless it misread the Mind.
PassIsAlone ==
  \A c \in Reconcilers :
    /\ recs[c].pc = "idle" => recs[c].rows = {}
    /\ recs[c].row \subseteq recs[c].rows \ recs[c].blind
    /\ \A k \in recs[c].rows :
         /\ \A r \in Requests : reqs[r].key = k => ~Active(r)
         /\ k \notin recs[c].blind /\ markers[k].status = "pending"
              => markers[k].age <= ReconcileMax
    /\ recs[c].pc = "answered" /\ ~recs[c].applied /\ ~recs[c].misread =>
         \A k \in recs[c].row :
           markers[k].status = "pending" => cache[k].moves < Covered(k)
    /\ recs[c].misread => ~recs[c].applied

\* Storage lags behind memory.
DiskLags == \A k \in Keys : disk[k].moves <= cache[k].moves

\* What was paid for and applied is remembered as long as it is needed.
Remembers(m) ==
  \A k \in Keys :
    HasCharge(k) => \/ m[k].moves < Covered(k)
                    \/ m[k].known /\ m[k].age <= markers[k].age
                    \/ markers[k].age > IdempotencyTtl

\* A call in flight cannot apply an unpaid move.
SentHasRoom ==
  \A r \in Requests :
    reqs[r].call = "sent" => Room(cache, reqs[r].key) /\ Room(disk, reqs[r].key)

\* A refused first attempt left nothing behind that its refund would strand.
RefusedHasRoom ==
  \A r \in Requests :
    reqs[r].pc = "calling" /\ reqs[r].call = "refused" /\ ~reqs[r].replay
      => (markers[reqs[r].key].status = "pending"
            => cache[reqs[r].key].moves < Covered(reqs[r].key))

\* The strengthening of MovesArePaid that every step preserves: it says who
\* may still act on a key, and what the Mind remembers of it (auth.ts
\* 268-276 and 409-424, index.ts 570).
EscrowInv ==
  /\ OneUser
  /\ AuthedKeyIsFree
  /\ UserIsRecent
  /\ PassIsAlone
  /\ DiskLags
  /\ Remembers(cache) /\ Remembers(disk)
  /\ SentHasRoom
  /\ RefusedHasRoom
  /\ MovesArePaid

-----------------------------------------------------------------------------
\* Behind SpentIsDurable: but for keys of which a save failed, memory and
\* storage have the same moves, whoever was told of a success may rely on it, and a
\* row read as past the hard bound is past it for as long as it is pending.
MovesAreSaved ==
  \A k \in Keys \ unsaved :
    /\ cache[k].moves = disk[k].moves
    /\ cache[k].known \/ disk[k].known => disk[k].moves > 0
ToldIsSaved ==
  /\ \A r \in Requests :
       reqs[r].call = "ok" => disk[reqs[r].key].moves > 0 \/ reqs[r].key \in unsaved
  /\ \A c \in Reconcilers :
       recs[c].pc = "answered" /\ recs[c].applied =>
         \A k \in recs[c].row : disk[k].moves > 0 \/ k \in unsaved
BlindIsOld ==
  \A c \in Reconcilers : \A k \in recs[c].rows \cap recs[c].blind :
    markers[k].status = "pending" => markers[k].age > ReconcileMax
DurableInv == MovesAreSaved /\ ToldIsSaved /\ BlindIsOld /\ SpentIsDurable

\* Behind FreshChargeBuysAMove, for markers that outlive a record made in the
\* retry window: a marker is not much older than its key's record, and no
\* record is left in its retention when the marker is gone.
LongRetention == RetryWindow + IdempotencyTtl < SpendTtl
SentIsRecent ==
  \A r \in Requests :
    reqs[r].call = "sent" /\ ~closed =>
      /\ markers[reqs[r].key].status # "none"
      /\ markers[reqs[r].key].age <= RetryWindow
Fades(m) ==
  \A k \in Keys :
    m[k].known /\ ~closed =>
      IF markers[k].status = "none" THEN m[k].age > IdempotencyTtl
      ELSE markers[k].age <= m[k].age + RetryWindow
FreshInv == SentIsRecent /\ Fades(cache) /\ Fades(disk)
=============================================================================
