----------------------------- MODULE MindBeliefs -----------------------------
(* The beliefs of the Mind (index.ts): moves that add or shield one, the      *)
(* eviction that keeps them in the mind's capacity, what storage holds of     *)
(* them, and the copies that leave the Mind: the public snapshot in R2        *)
(* (public-snapshot.ts) and the one a page shows (realtime.js).               *)
(*                                                                            *)
(* A task of the writer queue is one step.  The storage is written by one     *)
(* Mind only, so a Mind that dropped its memory reads it back at once here.   *)
EXTENDS Faults, Integers, FiniteSets, FiniteSetsExt, Sequences

CONSTANTS
  Capacity,   \* tokens the mind has room for (1000)
  Sizes,      \* what a belief may weigh
  Lifetime,   \* SHIELD_TTL
  Cutoffs,    \* the half-past-midnights, when a day's diary is written
  MaxWait,    \* how long a move waits for the writer queue (bound)
  Protecting, \* PROTECT_NEW_UNTIL_DIARY
  Decaying,   \* SHIELD_DECAY
  LastTime, MaxBeliefs, MaxVersion  \* bounds

ASSUME MindAssumption ==
  /\ Capacity \in Nat /\ Sizes \subseteq 1 .. Capacity
  /\ Lifetime \in Nat /\ Cutoffs \subseteq Nat /\ MaxWait \in Nat
  /\ Protecting \in BOOLEAN /\ Decaying \in BOOLEAN
  /\ {LastTime, MaxVersion} \subseteq Nat /\ MaxBeliefs \in Nat \ {0}

VARIABLES
  clock,
  memory,     \* the cached MindState: beliefs and version
  stored,     \* the same in the Durable Object's storage
  queue,      \* snapshotQueue: snapshots still to be published
  published,  \* the object in R2
  page,       \* what a page shows, which may be opened at any time
  told,       \* beliefs whose author was told that they were added
  born,       \* ids drawn so far
  forgotten   \* versions that memory had and dropped without storing them
vars == <<clock, memory, stored, queue, published, page, told, born, forgotten, faults>>

Time == 0 .. LastTime
Nowhere == [version |-> -1, ids |-> {}]
Ids(m) == {b.id : b \in m.beliefs}
Copy(m) == [version |-> m.version, ids |-> Ids(m)]

\* A Mind that has looked for its last diary once (ensureDiary), and is empty or
\* holds a belief that was shielded just now.  Versions count from there.
Unshielded == [t \in Time |-> 0]
Shielded(n) ==
  [id |-> 0, tokens |-> n, created |-> 0, times |-> [Unshielded EXCEPT ![0] = 1]]
Init ==
  /\ \E beliefs \in {{}} \cup {{Shielded(n)} : n \in Sizes} :
       /\ memory = [beliefs |-> beliefs, version |-> 0] /\ stored = memory
       /\ told = {[id |-> b.id, created |-> b.created] : b \in beliefs}
       /\ born = Cardinality(beliefs)
  /\ clock = 0 /\ queue = <<>> /\ published = Nowhere /\ page = Nowhere
  /\ forgotten = {} /\ NoFaultYet

-----------------------------------------------------------------------------
\* Shields and eviction.

\* The shields added to a belief, as how many were placed at each time; load
\* drops those that are too old.
Young(t) == ~Decaying \/ clock - t < Lifetime
Live(b) == [t \in Time |-> IF Young(t) THEN b.times[t] ELSE 0]
Placed(b) == {t \in Time : b.times[t] > 0}
Shields(b) == SumFunctionOnSet(b.times, Placed(b))
LoadedAsStored == memory
Loaded == [memory EXCEPT !.beliefs = {[b EXCEPT !.times = Live(b)] : b \in @}]

Tokens(beliefs) == SumFunctionOnSet([b \in beliefs |-> b.tokens], beliefs)
OverByMore(beliefs) == Tokens(beliefs) > Capacity + 1
Over(beliefs) == Tokens(beliefs) > Capacity

\* A belief of before the last cutoff: created <= lastDiaryCutoff(now).
Diarised(b, now) == \E c \in Cutoffs : b.created <= c /\ c <= now

\* Fewest shields first, oldest first, then the order of the list.
Before(a, b) ==
  \/ Shields(a) < Shields(b)
  \/ Shields(a) = Shields(b) /\ a.created < b.created
  \/ Shields(a) = Shields(b) /\ a.created = b.created /\ a.id < b.id

\* planEviction: who may go, and who goes before what is left fits.
CandidatesUnprotected(all, new) == all
Candidates(all, new) ==
  IF Protecting THEN {b \in all \ {new} : Diarised(b, new.created)} ELSE all
Evicted(all, new) ==
  LET may == Candidates(all, new) IN
  {b \in may : Over(all \ {c \in may : Before(c, b)})}

-----------------------------------------------------------------------------
\* Moves and the diary: tasks of the writer queue.

BumpedFromStorage(m) == [m EXCEPT !.version = stored.version + 1]
Bumped(m) == [m EXCEPT !.version = @ + 1]

\* repairSnapshot
Enqueue(m) == queue' = Append(queue, Copy(m))

\* A page takes a newer version, and one of its own version if the diary is
\* newer, which is left open.
Shows(m) ==
  \/ m.version >= page.version /\ page' = Copy(m)
  \/ m.version <= page.version /\ UNCHANGED page

\* A move whose save fails answers with an error, and stays in memory.
Save(m, answered) ==
  /\ m.version <= MaxVersion /\ memory' = m
  /\ \/ Works /\ stored' = m /\ Enqueue(m) /\ told' = answered
     \/ Fails("save") /\ UNCHANGED <<stored, queue, told>>
  /\ UNCHANGED <<clock, published, page, forgotten>>

\* `now` is read before the move waits for the writer queue.
Arrivals == {t \in Time : t <= clock /\ clock - t <= MaxWait}

\* POST /v1/beliefs: 409 if what may go is not enough.
AddBelief(tokens, now) ==
  LET m == Bumped(Loaded)
      new == [id |-> born, tokens |-> tokens, created |-> now, times |-> Unshielded]
      all == m.beliefs \cup {new}
      kept == all \ Evicted(all, new)
  IN  /\ born < MaxBeliefs /\ now \in Arrivals
      /\ IF Over(kept)
         THEN /\ memory' = Loaded
              /\ UNCHANGED <<clock, stored, queue, published, page, told, born, forgotten, faults>>
         ELSE /\ Save([m EXCEPT !.beliefs = kept], told \cup {[id |-> born, created |-> now]})
              /\ born' = born + 1

\* POST /v1/beliefs/<id>/protect
Protect(b, now) ==
  LET m == Bumped(Loaded) IN
  /\ now \in Arrivals
  /\ Save([m EXCEPT !.beliefs = (@ \ {b}) \cup {[b EXCEPT !.times[now] = @ + 1]}], told)
  /\ UNCHANGED born

\* Memory is dropped; versions up to `top` that storage does not have may be
\* in copies outside.
Forget(top) ==
  /\ memory' = stored
  /\ forgotten' = forgotten \cup (stored.version + 1 .. top)

\* A day's entry: after a failed save the Mind drops its memory, but a broadcast
\* that was due may still show the state that was to be saved.
WriteDiary ==
  LET m == Bumped(Loaded) IN
  /\ m.version <= MaxVersion
  /\ \/ /\ Works /\ memory' = m /\ stored' = m /\ Enqueue(m)
        /\ UNCHANGED <<page, forgotten>>
     \/ /\ Fails("save") /\ Forget(m.version)
        /\ UNCHANGED <<stored, queue>>
        /\ \/ UNCHANGED page
           \/ Shows(m)
  /\ UNCHANGED <<clock, published, told, born>>

-----------------------------------------------------------------------------
\* Copies outside, time, restarts.

\* GET /v1/mind and a socket's first message, which publish the snapshot again,
\* a broadcast and the answer to a ping, which do not.  An answer that comes
\* late is lost or older than another, so it is received at once here.  No read
\* adds a snapshot that waits already: one that comes once it is out may (bound).
Waiting == {queue[i] : i \in DOMAIN queue}
Read ==
  /\ memory' = Loaded /\ Shows(Loaded)
  /\ UNCHANGED queue \/ (Copy(Loaded) \notin Waiting /\ Enqueue(Loaded))
  /\ UNCHANGED <<clock, stored, published, told, forgotten, born, faults>>

\* A page that reads the public snapshot instead.
ReadPublished ==
  /\ published.version >= page.version /\ page' = published
  /\ UNCHANGED <<clock, memory, stored, queue, published, told, forgotten, born, faults>>

\* publishIfNewer: the queue is the only writer of the object.
Publish ==
  /\ queue # <<>> /\ queue' = Tail(queue)
  /\ \/ Works /\ published' = IF published.version >= Head(queue).version
                              THEN published ELSE Head(queue)
     \/ Fails("publish") /\ UNCHANGED published
  /\ UNCHANGED <<clock, memory, stored, page, told, forgotten, born>>

Restart ==
  /\ Fails("restart") /\ Forget(memory.version) /\ queue' = <<>>
  /\ UNCHANGED <<clock, stored, published, page, told, born>>

Tick ==
  /\ clock < LastTime /\ clock' = clock + 1
  /\ told' = {b \in told : ~Diarised(b, clock')}
  /\ UNCHANGED <<memory, stored, queue, published, page, forgotten, born, faults>>

Next ==
  \/ \E n \in Sizes, t \in Time : AddBelief(n, t)
  \/ \E b \in Loaded.beliefs, t \in Time : Protect(b, t)
  \/ WriteDiary \/ Read \/ ReadPublished \/ Publish \/ Restart \/ Tick

Spec == Init /\ [][Next]_vars

-----------------------------------------------------------------------------
\* Types, and the capacity: neither memory nor storage ever holds more tokens
\* than the mind has room for, whatever was evicted or failed to be saved.
Mind == [beliefs : SUBSET [id : 0 .. MaxBeliefs, tokens : Sizes, created : Time,
                           times : [Time -> Nat]],
         version : 0 .. MaxVersion]
CopyType == [version : -1 .. MaxVersion, ids : SUBSET (0 .. MaxBeliefs)]
TypeOK ==
  /\ clock \in Time /\ memory \in Mind /\ stored \in Mind
  /\ Tokens(memory.beliefs) <= Capacity /\ Tokens(stored.beliefs) <= Capacity
  /\ queue \in Seq(CopyType)
  /\ told \subseteq [id : 0 .. MaxBeliefs, created : Time] /\ born \in 0 .. MaxBeliefs
  /\ published \in CopyType /\ page \in CopyType /\ forgotten \subseteq 0 .. MaxVersion
  /\ faults \in Nat

\* A belief whose author was told that it was added stays until the diary of
\* the next half past midnight, in memory and in storage, whatever is added,
\* fails or restarts meanwhile (wrangler.toml:45, index.ts:45-47).
KeepsPromise ==
  Protecting =>
    \A b \in told : (\A c \in Cutoffs : c < b.created \/ c > clock)
                      => b.id \in Ids(memory) /\ b.id \in Ids(stored)

\* When beliefs go, every one of them is of before the last diary and is not
\* stronger, by the shields that still count, than an unprotected one that
\* stays, and without the strongest of them the rest would not have fitted.
Strength(b) == 1 + SumFunctionOnSet(b.times, {t \in Placed(b) : Young(t)})
WeakestGo ==
  LET added == memory'.beliefs \ memory.beliefs
      gone == {b \in memory.beliefs : b.id \notin Ids(memory')} IN
  born' > born /\ gone # {} =>
    \A n \in {m \in added : m.id = born} :
      /\ Protecting => \A g \in gone : Diarised(g, n.created)
      /\ \A g \in gone, k \in memory.beliefs \ gone :
           ~Protecting \/ Diarised(k, n.created) =>
             \/ Strength(g) < Strength(k)
             \/ Strength(g) = Strength(k) /\ g.created <= k.created
      /\ \E g \in gone : Tokens(memory'.beliefs \cup {g}) > Capacity
WeakestFirst == [][WeakestGo]_vars

\* A copy outside is no newer than the Mind, and one of the Mind's own version
\* shows the Mind's beliefs, unless the Mind forgot that version: what was
\* published or shown before its save failed and memory was dropped.
Follows(copy, m) ==
  /\ copy.version <= m.version
  /\ copy.version = m.version => copy.ids = Ids(m)
SnapshotFollows ==
  \A copy \in {published, page} :
    copy.version \notin forgotten => Follows(copy, memory)
=============================================================================
