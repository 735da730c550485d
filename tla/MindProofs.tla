----------------------------- MODULE MindProofs -----------------------------
(* Proofs about the beliefs of the Mind, for all values of the constants:     *)
(* what an author was told is kept, and what left the Mind is the Mind's.     *)
EXTENDS MindBeliefs, SumTheorems, TLAPS

-----------------------------------------------------------------------------
(* Shapes.                                                                  *)

IsBelief(b) ==
  /\ b = [id |-> b.id, tokens |-> b.tokens, created |-> b.created, times |-> b.times]
  /\ b.created \in Nat
IsMind(m) ==
  /\ m = [beliefs |-> m.beliefs, version |-> m.version]
  /\ m.version \in Nat /\ \A b \in m.beliefs : IsBelief(b)
IsCopy(c) == c = [version |-> c.version, ids |-> c.ids] /\ c.version \in Int

Shape ==
  /\ clock \in Nat /\ IsMind(memory) /\ IsMind(stored)
  /\ queue \in Seq(Waiting) /\ \A c \in Waiting : IsCopy(c)
  /\ IsCopy(published) /\ IsCopy(page)
  /\ \A p \in told : p = [id |-> p.id, created |-> p.created] /\ p.created \in Nat

\* load changes neither the version nor who is in the mind.
LEMMA LoadedKeeps ==
  ASSUME IsMind(memory)
  PROVE  /\ IsMind(Loaded) /\ Loaded.version = memory.version
         /\ Ids(Loaded) = Ids(memory)
         /\ \A b \in memory.beliefs : \E x \in Loaded.beliefs : x.id = b.id /\ x.created = b.created
         /\ \A x \in Loaded.beliefs : \E b \in memory.beliefs : x.id = b.id /\ x.created = b.created
<1> DEFINE Kept(b) == [b EXCEPT !.times = Live(b)]
<1>1. /\ Loaded.beliefs = {Kept(b) : b \in memory.beliefs}
      /\ Loaded.version = memory.version
      /\ Loaded = [beliefs |-> Loaded.beliefs, version |-> Loaded.version]
  BY DEF Loaded, IsMind
<1>2. ASSUME NEW b \in memory.beliefs
      PROVE  IsBelief(Kept(b)) /\ Kept(b).id = b.id /\ Kept(b).created = b.created
  BY DEF IsMind, IsBelief
<1> HIDE DEF Kept
<1>3. Ids(Loaded) = Ids(memory)
  BY <1>1, <1>2 DEF Ids
<1> QED BY <1>1, <1>2, <1>3 DEF IsMind

LEMMA BumpedUp ==
  ASSUME IsMind(memory)
  PROVE  /\ IsMind(Bumped(Loaded)) /\ Bumped(Loaded).beliefs = Loaded.beliefs
         /\ Bumped(Loaded).version = memory.version + 1
  BY LoadedKeeps DEF Bumped, IsMind

LEMMA CopyIsCopy ==
  ASSUME NEW m, IsMind(m)
  PROVE  IsCopy(Copy(m)) /\ Copy(m).version = m.version /\ Copy(m).ids = Ids(m)
  BY DEF IsMind, IsCopy, Copy

LEMMA SeqOfItsOwn ==
  ASSUME NEW S, NEW s \in Seq(S)
  PROVE  s \in Seq({s[i] : i \in DOMAIN s})
<1> DEFINE R == {s[i] : i \in DOMAIN s}
<1>1. Len(s) \in Nat /\ DOMAIN s = 1 .. Len(s) /\ s = [i \in 1 .. Len(s) |-> s[i]]
  OBVIOUS
<1>2. s \in [1 .. Len(s) -> R]
  BY <1>1
<1> QED BY <1>1, <1>2

LEMMA Enqueued ==
  ASSUME NEW m, IsMind(m), Shape, Enqueue(m)
  PROVE  /\ queue' \in Seq(Waiting') /\ \A c \in Waiting' : IsCopy(c)
         /\ Waiting' \subseteq Waiting \cup {Copy(m)}
<1> DEFINE Q == Waiting \cup {Copy(m)}
<1>1. queue \in Seq(Q) /\ Copy(m) \in Q
  BY DEF Shape
<1> HIDE DEF Q
<1>2. queue' \in Seq(Q)
  BY <1>1 DEF Enqueue
<1>3. Waiting' \subseteq Q
  BY <1>2 DEF Waiting
<1>4. queue' \in Seq(Waiting')
  BY <1>2, SeqOfItsOwn DEF Waiting
<1> QED BY <1>3, <1>4, CopyIsCopy DEF Q, Shape

LEMMA Dequeued ==
  ASSUME Shape, queue # <<>>, queue' = Tail(queue)
  PROVE  /\ queue' \in Seq(Waiting') /\ Waiting' \subseteq Waiting /\ Head(queue) \in Waiting
<1>1. queue' \in Seq(Waiting)
  BY DEF Shape
<1>2. Head(queue) \in Waiting
  BY DEF Shape
<1>3. Waiting' \subseteq Waiting
  BY <1>1 DEF Waiting
<1>4. queue' \in Seq(Waiting')
  <2> DEFINE s == queue'
  <2>1. s \in Seq({s[i] : i \in DOMAIN s})
    <3>1. s \in Seq(Waiting)
      BY <1>1
    <3> HIDE DEF s
    <3> QED BY <3>1, SeqOfItsOwn
  <2> QED BY <2>1 DEF Waiting
<1> QED BY <1>2, <1>3, <1>4

-----------------------------------------------------------------------------
(* The invariants.                                                          *)

\* A copy is of a version that memory has reached, and one of the version of
\* memory or of storage shows the beliefs of that one.
Faithful(c) ==
  c.version \notin forgotten =>
    Follows(c, memory) /\ (c.version = stored.version => c.ids = Ids(stored))
CopyInv ==
  /\ stored.version <= memory.version
  /\ stored.version = memory.version => Ids(stored) = Ids(memory)
  /\ Faithful(published) /\ Faithful(page) /\ \A c \in Waiting : Faithful(c)

\* Who was told, and is still protected, is in m.
Holds(m, p) == \E b \in m.beliefs : b.id = p.id /\ b.created = p.created
PromiseInv ==
  Protecting => \A p \in told : ~Diarised(p, clock) => Holds(memory, p) /\ Holds(stored, p)

MindInv == Shape /\ CopyInv /\ PromiseInv

LEMMA MindInit == Init => MindInv
<1> SUFFICES ASSUME Init PROVE MindInv
  OBVIOUS
<1>1. PICK B \in {{}} \cup {{Shielded(n)} : n \in Sizes} :
        /\ memory = [beliefs |-> B, version |-> 0] /\ stored = memory
        /\ told = {[id |-> b.id, created |-> b.created] : b \in B}
        /\ queue = <<>> /\ published = Nowhere /\ page = Nowhere /\ clock = 0
  BY DEF Init
<1>6. \A b \in B : IsBelief(b) /\ b.created = 0
  BY DEF Shielded, IsBelief
<1>2. Waiting = {} /\ queue \in Seq(Waiting)
  BY <1>1 DEF Waiting
<1>3. Shape
  <2>1. IsMind(memory) /\ IsMind(stored)
    BY <1>1, <1>6 DEF IsMind
  <2>2. \A p \in told : p = [id |-> p.id, created |-> p.created] /\ p.created \in Nat
    BY <1>1, <1>6
  <2> QED BY <1>1, <1>2, <2>1, <2>2 DEF Shape, IsCopy, Nowhere
<1>4. CopyInv
  BY <1>1, <1>2 DEF CopyInv, Faithful, Follows, Nowhere, Ids
<1>5. PromiseInv
  BY <1>1 DEF PromiseInv, Holds
<1> QED BY <1>3, <1>4, <1>5 DEF MindInv

-----------------------------------------------------------------------------
(* One lemma for what steps have in common.                                  *)

\* A copy of memory is faithful.
LEMMA OwnCopy ==
  ASSUME Shape, CopyInv
  PROVE  IsCopy(Copy(Loaded)) /\ Faithful(Copy(Loaded))
<1>1. /\ IsMind(Loaded) /\ Loaded.version = memory.version /\ Ids(Loaded) = Ids(memory)
      /\ memory.version \in Nat
  BY LoadedKeeps DEF Shape, IsMind
<1>2. /\ IsCopy(Copy(Loaded)) /\ Copy(Loaded).version = memory.version
      /\ Copy(Loaded).ids = Ids(memory)
  BY <1>1, CopyIsCopy
<1>3. Follows(Copy(Loaded), memory)
  BY <1>1, <1>2 DEF Follows
<1>4. Copy(Loaded).version = stored.version => Copy(Loaded).ids = Ids(stored)
  BY <1>2 DEF CopyInv
<1> QED BY <1>2, <1>3, <1>4 DEF Faithful

\* A step to a new version, saved or not.
LEMMA NewVersion ==
  ASSUME Shape, CopyInv, NEW m, IsMind(m), m.version = memory.version + 1,
         memory' = m,
         stored' = m \/ stored' = stored,
         forgotten' = forgotten
  PROVE  /\ stored'.version <= memory'.version
         /\ stored'.version = memory'.version => Ids(stored)' = Ids(memory)'
         /\ \A c : IsCopy(c) /\ Faithful(c) => Faithful(c)'
         /\ stored' = m => \A c : c = Copy(m) => Faithful(c)'
<1>1. /\ stored.version \in Nat /\ memory.version \in Nat /\ stored.version <= memory.version
      /\ memory'.version = memory.version + 1
  BY DEF Shape, IsMind, CopyInv
<1>2. stored' = m => Ids(stored)' = Ids(memory)'
  BY DEF Ids
<1>3. ASSUME NEW c, IsCopy(c), Faithful(c) PROVE Faithful(c)'
  <2>1. c.version \in Int
    BY <1>3 DEF IsCopy
  <2>2. CASE stored' = m
    BY <2>1, <2>2, <1>1, <1>3 DEF Faithful, Follows
  <2>3. CASE stored' = stored
    BY <2>1, <2>3, <1>1, <1>3 DEF Faithful, Follows, Ids
  <2> QED BY <2>2, <2>3
<1>4. ASSUME stored' = m, NEW c, c = Copy(m) PROVE Faithful(c)'
  <2>1. c.version = m.version /\ c.ids = Ids(m)
    BY <1>4, CopyIsCopy
  <2> QED BY <2>1, <1>1, <1>4 DEF Faithful, Follows, Ids
<1> QED BY <1>1, <1>2, <1>3, <1>4

\* Memory that is dropped takes with it every version that storage lacks.
LEMMA Forgetting ==
  ASSUME Shape, CopyInv, NEW top \in Nat, memory.version <= top, Forget(top), stored' = stored
  PROVE  /\ stored'.version <= memory'.version
         /\ Ids(stored)' = Ids(memory)'
         /\ \A c : IsCopy(c) /\ (Faithful(c) \/ (c.version = top /\ stored.version < top))
                     => Faithful(c)'
<1>1. /\ stored.version \in Nat /\ memory.version \in Nat /\ stored.version <= memory.version
      /\ memory' = stored /\ stored' = stored
      /\ forgotten' = forgotten \cup (stored.version + 1 .. top)
  BY DEF Shape, IsMind, CopyInv, Forget
<1>2. ASSUME NEW c, IsCopy(c), Faithful(c) \/ (c.version = top /\ stored.version < top)
      PROVE  Faithful(c)'
  <2>1. c.version \in Int
    BY <1>2 DEF IsCopy
  <2>2. SUFFICES ASSUME c.version \notin forgotten'
                 PROVE  Follows(c, memory)' /\ (c.version = stored.version => c.ids = Ids(stored))'
    BY DEF Faithful
  <2>3. c.version \notin forgotten /\ ~(stored.version < c.version /\ c.version <= top)
    BY <2>1, <2>2, <1>1
  <2>4. Faithful(c) /\ c.version <= stored.version
    BY <2>1, <2>3, <1>1, <1>2 DEF Faithful, Follows
  <2> QED BY <2>1, <2>3, <2>4, <1>1 DEF Faithful, Follows, Ids
<1> QED BY <1>1, <1>2 DEF Ids

-----------------------------------------------------------------------------
(* Moves.                                                                   *)

\* What a move does around its change of the beliefs.
LEMMA SaveKeeps ==
  ASSUME MindInv, NEW m, IsMind(m), m.version = memory.version + 1,
         NEW answered, Save(m, answered)
  PROVE  /\ CopyInv' /\ clock' = clock /\ memory' = m
         /\ \/ stored' = m /\ told' = answered
            \/ stored' = stored /\ told' = told
         /\ (\A p \in answered : p = [id |-> p.id, created |-> p.created] /\ p.created \in Nat)
              => Shape'
<1>1. Shape /\ CopyInv
  BY DEF MindInv
<1>2. /\ memory' = m /\ forgotten' = forgotten /\ clock' = clock
      /\ published' = published /\ page' = page
      /\ \/ stored' = m /\ Enqueue(m) /\ told' = answered
         \/ stored' = stored /\ queue' = queue /\ told' = told
  BY DEF Save
<1>3. /\ stored'.version <= memory'.version
      /\ stored'.version = memory'.version => Ids(stored)' = Ids(memory)'
      /\ \A c : IsCopy(c) /\ Faithful(c) => Faithful(c)'
      /\ stored' = m => \A c : c = Copy(m) => Faithful(c)'
  BY <1>1, <1>2, NewVersion
<1>4. /\ queue' \in Seq(Waiting') /\ \A c \in Waiting' : IsCopy(c)
      /\ \A c \in Waiting' : Faithful(c)'
  <2>1. CASE stored' = m /\ Enqueue(m)
    <3>1. /\ queue' \in Seq(Waiting') /\ \A c \in Waiting' : IsCopy(c)
          /\ Waiting' \subseteq Waiting \cup {Copy(m)}
      BY <1>1, <2>1, Enqueued
    <3>2. \A c \in Waiting : Faithful(c)'
      BY <1>1, <1>3 DEF Shape, CopyInv
    <3> QED BY <3>1, <3>2, <1>3, <2>1
  <2>2. CASE queue' = queue
    <3>1. Waiting' = Waiting
      BY <2>2 DEF Waiting
    <3> QED BY <3>1, <2>2, <1>1, <1>3 DEF Shape, CopyInv
  <2> QED BY <2>1, <2>2, <1>2
<1>5. Faithful(published)' /\ Faithful(page)'
  BY <1>1, <1>2, <1>3 DEF Shape, CopyInv
<1>6. CopyInv'
  BY <1>3, <1>4, <1>5 DEF CopyInv
<1>7. ASSUME \A p \in answered : p = [id |-> p.id, created |-> p.created] /\ p.created \in Nat
      PROVE  Shape'
  BY <1>1, <1>2, <1>4, <1>7 DEF Shape
<1> QED BY <1>2, <1>6, <1>7

\* Whoever is held before a move, and does not go, is held after it.
LEMMA StillHeld ==
  ASSUME Shape, NEW p, Holds(memory, p), NEW kept,
         \A x \in Loaded.beliefs : x.id = p.id /\ x.created = p.created
           => \E y \in kept : y.id = x.id /\ y.created = x.created
  PROVE  \E y \in kept : y.id = p.id /\ y.created = p.created
<1>1. PICK b \in memory.beliefs : b.id = p.id /\ b.created = p.created
  BY DEF Holds
<1>2. PICK x \in Loaded.beliefs : x.id = b.id /\ x.created = b.created
  BY LoadedKeeps DEF Shape
<1> QED BY <1>1, <1>2

\* A belief is of before the last diary once it was when a move arrived.
LEMMA OnceDiarised ==
  ASSUME NEW b, NEW now \in Nat, NEW later \in Nat, now <= later, Diarised(b, now)
  PROVE  Diarised(b, later)
  BY MindAssumption DEF Diarised

LEMMA AddKeeps ==
  ASSUME MindInv, NEW n, NEW now \in Time, AddBelief(n, now)
  PROVE  MindInv'
<1> DEFINE m == Bumped(Loaded)
           new == [id |-> born, tokens |-> n, created |-> now, times |-> Unshielded]
           all == m.beliefs \cup {new}
           kept == all \ Evicted(all, new)
           done == [m EXCEPT !.beliefs = kept]
           answered == told \cup {[id |-> born, created |-> now]}
<1>1. Shape /\ CopyInv /\ PromiseInv
  BY DEF MindInv
<1>2. /\ IsMind(Loaded) /\ Loaded.version = memory.version /\ Ids(Loaded) = Ids(memory)
      /\ IsMind(m) /\ m.beliefs = Loaded.beliefs /\ m.version = memory.version + 1
  BY <1>1, LoadedKeeps, BumpedUp DEF Shape
<1>3. now \in Nat /\ now <= clock /\ clock \in Nat
  BY <1>1, MindAssumption DEF AddBelief, Arrivals, Time, Shape
<1>4. IsBelief(new)
  BY <1>3 DEF IsBelief
<1>5. /\ \/ Over(kept) /\ memory' = Loaded
            /\ UNCHANGED <<clock, stored, queue, published, page, told, born, forgotten, faults>>
         \/ Save(done, answered)
  BY DEF AddBelief
<1>6. CASE memory' = Loaded /\ UNCHANGED <<clock, stored, queue, published, page, told, forgotten>>
  <2>1. Waiting' = Waiting
    BY <1>6 DEF Waiting
  <2>2. Shape'
    BY <1>1, <1>2, <1>6, <2>1 DEF Shape
  <2>3. Ids(memory)' = Ids(memory) /\ Ids(stored)' = Ids(stored)
        /\ memory'.version = memory.version
    BY <1>2, <1>6 DEF Ids
  <2>4. \A c : Faithful(c) => Faithful(c)'
    BY <1>6, <2>3 DEF Faithful, Follows
  <2>5. CopyInv'
    BY <1>1, <1>6, <2>1, <2>3, <2>4 DEF CopyInv
  <2>6. PromiseInv'
    <3> SUFFICES ASSUME Protecting, NEW p \in told, ~Diarised(p, clock)
                 PROVE  Holds(Loaded, p) /\ Holds(stored, p)
      BY <1>6 DEF PromiseInv, Holds, Diarised
    <3>1. Holds(memory, p) /\ Holds(stored, p)
      BY <1>1 DEF PromiseInv
    <3> QED BY <1>1, <3>1, StillHeld DEF Holds
  <2> QED BY <2>2, <2>5, <2>6 DEF MindInv
<1>7. CASE Save(done, answered)
  <2>1. /\ IsMind(done) /\ done.version = memory.version + 1 /\ done.beliefs = kept
    <3>1. \A b \in kept : IsBelief(b)
      <4>1. \A b \in all : IsBelief(b)
        BY <1>2, <1>4 DEF IsMind
      <4> HIDE DEF all
      <4> QED BY <4>1
    <3> HIDE DEF kept, m
    <3> QED BY <1>2, <3>1 DEF IsMind
  <2>2. \A p \in answered : p = [id |-> p.id, created |-> p.created] /\ p.created \in Nat
    BY <1>1, <1>3 DEF Shape
  <2> HIDE DEF m, new, kept, done, answered, all
  <2>3. /\ CopyInv' /\ clock' = clock /\ memory' = done /\ Shape'
        /\ \/ stored' = done /\ told' = answered
           \/ stored' = stored /\ told' = told
    BY <1>7, <2>1, <2>2, SaveKeeps
  <2> USE DEF m, new, kept, answered, all
  <2>4. ASSUME Protecting, NEW p \in told, ~Diarised(p, clock)
        PROVE  (\E y \in kept : y.id = p.id /\ y.created = p.created) /\ Holds(stored, p)
    <3>1. Holds(memory, p) /\ Holds(stored, p)
      BY <1>1, <2>4 DEF PromiseInv
    <3>2. ASSUME NEW x \in Loaded.beliefs, x.id = p.id, x.created = p.created
          PROVE  x \in kept
      <4>1. ~Diarised(x, now)
        BY <1>3, <2>4, <3>2, OnceDiarised DEF Diarised
      <4>2. new.created = now /\ x \in all
        BY <1>2
      <4>3. x \notin Candidates(all, new)
        BY <2>4, <4>1, <4>2 DEF Candidates
      <4> HIDE DEF all, new
      <4> QED BY <4>2, <4>3 DEF Evicted
    <3> HIDE DEF kept
    <3> QED BY <1>1, <3>1, <3>2, StillHeld
  <2>5. ASSUME Protecting
        PROVE  new \in kept
    <3>1. new \notin Candidates(all, new)
      BY <2>5 DEF Candidates
    <3>2. new \in all
      OBVIOUS
    <3> HIDE DEF all, new
    <3> QED BY <3>1, <3>2 DEF Evicted
  <2>6. ASSUME Protecting, NEW p \in answered, ~Diarised(p, clock)
        PROVE  \E y \in kept : y.id = p.id /\ y.created = p.created
    <3>1. CASE p \in told
      BY <2>4, <2>6, <3>1
    <3>2. CASE p = [id |-> born, created |-> now]
      <4>1. new.id = p.id /\ new.created = p.created
        BY <3>2
      <4> HIDE DEF new, kept
      <4> QED BY <2>5, <2>6, <4>1
    <3> QED BY <2>6, <3>1, <3>2
  <2>7. PromiseInv'
    <3> SUFFICES ASSUME Protecting, NEW p \in told', ~Diarised(p, clock)
                 PROVE  Holds(memory, p)' /\ Holds(stored, p)'
      BY <2>3 DEF PromiseInv, Diarised
    <3> HIDE DEF kept, answered
    <3>1. CASE stored' = done /\ told' = answered
      BY <2>1, <2>3, <2>6, <3>1 DEF Holds
    <3>2. CASE stored' = stored /\ told' = told
      BY <2>1, <2>3, <2>4, <3>2 DEF Holds
    <3> QED BY <2>3, <3>1, <3>2
  <2> QED BY <2>3, <2>7 DEF MindInv
<1> QED BY <1>5, <1>6, <1>7

LEMMA ProtectKeeps ==
  ASSUME MindInv, NEW b \in Loaded.beliefs, NEW now \in Time, Protect(b, now)
  PROVE  MindInv'
<1> DEFINE m == Bumped(Loaded)
           longer == [b EXCEPT !.times[now] = @ + 1]
           kept == (m.beliefs \ {b}) \cup {longer}
           done == [m EXCEPT !.beliefs = (@ \ {b}) \cup {longer}]
<1>1. Shape /\ CopyInv /\ PromiseInv
  BY DEF MindInv
<1>2. /\ IsMind(Loaded) /\ IsMind(m) /\ m.beliefs = Loaded.beliefs
      /\ m.version = memory.version + 1
  BY <1>1, LoadedKeeps, BumpedUp DEF Shape
<1>3. IsBelief(longer) /\ longer.id = b.id /\ longer.created = b.created
  <2>1. IsBelief(b)
    BY <1>2 DEF IsMind
  <2> DEFINE more == [b.times EXCEPT ![now] = @ + 1]
  <2>2. longer = [b EXCEPT !.times = more]
    OBVIOUS
  <2> HIDE DEF more, longer
  <2> QED BY <2>1, <2>2 DEF IsBelief
<1>4. Save(done, told)
  BY DEF Protect
<1> HIDE DEF m, longer
<1>5. IsMind(done) /\ done.version = memory.version + 1 /\ done.beliefs = kept
  <2>1. done = [beliefs |-> kept, version |-> m.version]
    BY <1>2 DEF IsMind
  <2>2. \A x \in kept : IsBelief(x)
    BY <1>2, <1>3 DEF IsMind
  <2> HIDE DEF kept, done
  <2> QED BY <1>2, <2>1, <2>2 DEF IsMind
<1>6. \A p \in told : p = [id |-> p.id, created |-> p.created] /\ p.created \in Nat
  BY <1>1 DEF Shape
<1> HIDE DEF done
<1>7. /\ CopyInv' /\ Shape' /\ clock' = clock /\ memory' = done /\ told' = told
      /\ stored' = done \/ stored' = stored
  BY <1>4, <1>5, <1>6, SaveKeeps
<1>8. ASSUME NEW p, Holds(memory, p)
      PROVE  Holds(done, p)
  <2>1. ASSUME NEW x \in Loaded.beliefs, x.id = p.id, x.created = p.created
        PROVE  \E y \in kept : y.id = x.id /\ y.created = x.created
    BY <1>2, <1>3
  <2> HIDE DEF kept
  <2> QED BY <1>1, <1>5, <1>8, <2>1, StillHeld DEF Holds
<1>9. PromiseInv'
  BY <1>1, <1>7, <1>8 DEF PromiseInv, Holds, Diarised
<1> QED BY <1>7, <1>9 DEF MindInv

-----------------------------------------------------------------------------
(* The other steps.                                                         *)

\* What is left where no belief goes and no promise is made.
LEMMA PromiseStays ==
  ASSUME Shape, PromiseInv, told' \subseteq told, clock' \in Nat, clock <= clock',
         \A p \in told : Holds(memory, p) /\ Holds(stored, p)
                           => Holds(memory, p)' /\ Holds(stored, p)'
  PROVE  PromiseInv'
<1> SUFFICES ASSUME Protecting, NEW p \in told', ~Diarised(p, clock')
             PROVE  Holds(memory, p)' /\ Holds(stored, p)'
  BY DEF PromiseInv, Diarised
<1>1. ~Diarised(p, clock)
  BY OnceDiarised DEF Shape
<1> QED BY <1>1 DEF PromiseInv

LEMMA LoadHolds ==
  ASSUME Shape, NEW p, Holds(memory, p)
  PROVE  Holds(Loaded, p) /\ Holds(Bumped(Loaded), p)
<1>1. \E y \in Loaded.beliefs : y.id = p.id /\ y.created = p.created
  BY StillHeld
<1> QED BY <1>1, BumpedUp DEF Holds, Shape

LEMMA DiaryKeeps ==
  ASSUME MindInv, WriteDiary
  PROVE  MindInv'
<1>1. Shape /\ CopyInv /\ PromiseInv
  BY DEF MindInv
<1> SUFFICES ASSUME NEW m, m = Bumped(Loaded) PROVE MindInv'
  OBVIOUS
<1>2. IsMind(m) /\ m.version = memory.version + 1 /\ memory.version \in Nat
      /\ stored.version \in Nat /\ stored.version <= memory.version
  BY <1>1, BumpedUp DEF Shape, IsMind, CopyInv
<1>3. UNCHANGED <<clock, published, told>>
  BY DEF WriteDiary
<1>4. IsCopy(Copy(m)) /\ Copy(m).version = m.version
  BY <1>2, CopyIsCopy
<1>5. CASE memory' = m /\ stored' = m /\ Enqueue(m) /\ UNCHANGED <<page, forgotten>>
  <2>1. /\ stored'.version <= memory'.version
        /\ stored'.version = memory'.version => Ids(stored)' = Ids(memory)'
        /\ \A c : IsCopy(c) /\ Faithful(c) => Faithful(c)'
        /\ \A c : c = Copy(m) => Faithful(c)'
    BY <1>1, <1>2, <1>5, NewVersion
  <2>2. /\ queue' \in Seq(Waiting') /\ \A c \in Waiting' : IsCopy(c)
        /\ Waiting' \subseteq Waiting \cup {Copy(m)}
    BY <1>1, <1>2, <1>5, Enqueued
  <2>3. Shape'
    BY <1>1, <1>2, <1>3, <1>5, <2>2 DEF Shape
  <2>4. CopyInv'
    BY <1>1, <1>3, <1>5, <2>1, <2>2 DEF CopyInv, Shape
  <2>5. ASSUME NEW p, Holds(memory, p) PROVE Holds(memory, p)' /\ Holds(stored, p)'
    BY <1>1, <1>5, <2>5, LoadHolds DEF Holds
  <2>6. PromiseInv'
    BY <1>1, <1>3, <2>5, PromiseStays DEF Shape
  <2> QED BY <2>3, <2>4, <2>6 DEF MindInv
<1>6. CASE /\ Forget(m.version) /\ UNCHANGED <<stored, queue>>
           /\ page' = page \/ page' = Copy(m)
  <2>1. /\ stored'.version <= memory'.version
        /\ Ids(stored)' = Ids(memory)'
        /\ \A c : IsCopy(c) /\ (Faithful(c) \/ (c.version = m.version /\ stored.version < m.version))
                    => Faithful(c)'
    BY <1>1, <1>2, <1>6, Forgetting
  <2>2. Waiting' = Waiting
    BY <1>6 DEF Waiting
  <2>3. Shape'
    BY <1>1, <1>3, <1>4, <1>6, <2>2 DEF Shape, Forget
  <2>4. Faithful(page)'
    BY <1>1, <1>2, <1>4, <1>6, <2>1 DEF CopyInv, Shape
  <2>5. ASSUME NEW c, IsCopy(c), Faithful(c) PROVE Faithful(c)'
    BY <2>1, <2>5
  <2>6. Faithful(published)' /\ \A c \in Waiting' : Faithful(c)'
    BY <1>1, <1>3, <2>5, <2>2 DEF CopyInv, Shape
  <2>7. CopyInv'
    BY <2>1, <2>4, <2>6 DEF CopyInv
  <2>8. ASSUME NEW p, Holds(stored, p) PROVE Holds(memory, p)' /\ Holds(stored, p)'
    BY <1>6, <2>8 DEF Holds, Forget
  <2>9. PromiseInv'
    BY <1>1, <1>3, <2>8, PromiseStays DEF Shape
  <2> QED BY <2>3, <2>7, <2>9 DEF MindInv
<1> QED BY <1>5, <1>6 DEF WriteDiary, Shows

LEMMA ReadKeeps ==
  ASSUME MindInv, Read
  PROVE  MindInv'
<1>1. Shape /\ CopyInv /\ PromiseInv
  BY DEF MindInv
<1> SUFFICES ASSUME NEW m, m = Loaded PROVE MindInv'
  OBVIOUS
<1>2. /\ IsMind(m) /\ m.version = memory.version /\ Ids(m) = Ids(memory)
      /\ IsCopy(Copy(m)) /\ Faithful(Copy(m))
  BY <1>1, LoadedKeeps, OwnCopy DEF Shape
<1>3. /\ memory' = m
      /\ UNCHANGED queue \/ Enqueue(m)
      /\ page' = page \/ page' = Copy(m)
      /\ UNCHANGED <<clock, stored, published, told, forgotten>>
  BY DEF Read, Shows
<1>4. /\ queue' \in Seq(Waiting') /\ \A c \in Waiting' : IsCopy(c)
      /\ Waiting' \subseteq Waiting \cup {Copy(m)}
  <2>1. CASE UNCHANGED queue
    <3>1. Waiting' = Waiting
      BY <2>1 DEF Waiting
    <3> QED BY <1>1, <2>1, <3>1 DEF Shape
  <2>2. CASE Enqueue(m)
    BY <1>1, <1>2, <2>2, Enqueued
  <2> QED BY <1>3, <2>1, <2>2
<1>5. Ids(memory)' = Ids(memory) /\ Ids(stored)' = Ids(stored)
  BY <1>2, <1>3 DEF Ids
<1>6. ASSUME NEW c, Faithful(c) PROVE Faithful(c)'
  BY <1>2, <1>3, <1>5, <1>6 DEF Faithful, Follows
<1>7. Shape'
  BY <1>1, <1>2, <1>3, <1>4 DEF Shape
<1>8. Faithful(page)' /\ Faithful(published)' /\ \A c \in Waiting' : Faithful(c)'
  BY <1>1, <1>2, <1>3, <1>4, <1>6 DEF CopyInv
<1>9. CopyInv'
  BY <1>1, <1>2, <1>3, <1>5, <1>8 DEF CopyInv
<1>10. ASSUME NEW p, Holds(memory, p) /\ Holds(stored, p)
       PROVE  Holds(memory, p)' /\ Holds(stored, p)'
  BY <1>1, <1>3, <1>10, LoadHolds DEF Holds
<1>11. PromiseInv'
  BY <1>1, <1>3, <1>10, PromiseStays DEF Shape
<1> QED BY <1>7, <1>9, <1>11 DEF MindInv

\* Steps that leave the Mind alone.
LEMMA Outside ==
  ASSUME MindInv, UNCHANGED <<memory, stored, forgotten>>,
         clock' \in Nat, clock <= clock', told' \subseteq told,
         published' = published \/ published' \in Waiting,
         page' = page \/ page' = published,
         queue' \in Seq(Waiting'), Waiting' \subseteq Waiting
  PROVE  MindInv'
<1>1. Shape /\ CopyInv /\ PromiseInv
  BY DEF MindInv
<1>2. Shape'
  BY <1>1 DEF Shape
<1>3. Ids(memory)' = Ids(memory) /\ Ids(stored)' = Ids(stored)
  BY DEF Ids
<1>4. ASSUME NEW c, Faithful(c) PROVE Faithful(c)'
  BY <1>3, <1>4 DEF Faithful, Follows
<1>5. CopyInv'
  BY <1>1, <1>3, <1>4 DEF CopyInv
<1>6. ASSUME NEW p, Holds(memory, p) /\ Holds(stored, p)
      PROVE  Holds(memory, p)' /\ Holds(stored, p)'
  BY <1>6 DEF Holds
<1>7. PromiseInv'
  BY <1>1, <1>6, PromiseStays
<1> QED BY <1>2, <1>5, <1>7 DEF MindInv

LEMMA RestartKeeps ==
  ASSUME MindInv, Restart
  PROVE  MindInv'
<1>1. Shape /\ CopyInv /\ PromiseInv
  BY DEF MindInv
<1>2. /\ Forget(memory.version) /\ queue' = <<>> /\ stored' = stored
      /\ UNCHANGED <<clock, published, page, told>>
  BY DEF Restart
<1>3. /\ stored'.version <= memory'.version
      /\ Ids(stored)' = Ids(memory)'
      /\ \A c : IsCopy(c) /\ Faithful(c) => Faithful(c)'
  <2> SUFFICES ASSUME NEW top, top = memory.version
               PROVE  /\ stored'.version <= memory'.version
                      /\ Ids(stored)' = Ids(memory)'
                      /\ \A c : IsCopy(c) /\ Faithful(c) => Faithful(c)'
    OBVIOUS
  <2>1. top \in Nat /\ memory.version <= top /\ Forget(top)
    BY <1>1, <1>2 DEF Shape, IsMind
  <2> QED BY <1>1, <1>2, <2>1, Forgetting
<1>4. Waiting' = {} /\ queue' \in Seq(Waiting')
  BY <1>2 DEF Waiting
<1>5. Shape'
  BY <1>1, <1>2, <1>4 DEF Shape, Forget
<1>6. CopyInv'
  BY <1>1, <1>2, <1>3, <1>4 DEF CopyInv, Shape
<1>7. ASSUME NEW p, Holds(stored, p) PROVE Holds(memory, p)' /\ Holds(stored, p)'
  BY <1>2, <1>7 DEF Holds, Forget
<1>8. PromiseInv'
  BY <1>1, <1>2, <1>7, PromiseStays DEF Shape
<1> QED BY <1>5, <1>6, <1>8 DEF MindInv

LEMMA MindStep == MindInv /\ [Next]_vars => MindInv'
<1> SUFFICES ASSUME MindInv, [Next]_vars PROVE MindInv'
  OBVIOUS
<1>1. Shape /\ clock \in Nat
  BY DEF MindInv, Shape
<1>2. queue \in Seq(Waiting)
  BY <1>1 DEF Shape
<1>3. CASE \E n \in Sizes, t \in Time : AddBelief(n, t)
  BY <1>3, AddKeeps
<1>4. CASE \E b \in Loaded.beliefs, t \in Time : Protect(b, t)
  BY <1>4, ProtectKeeps
<1>5. CASE WriteDiary
  BY <1>5, DiaryKeeps
<1>6. CASE Read
  BY <1>6, ReadKeeps
<1>7. CASE ReadPublished
  <2>1. Waiting' = Waiting
    BY <1>7 DEF ReadPublished, Waiting
  <2> QED BY <1>1, <1>2, <1>7, <2>1, Outside DEF ReadPublished
<1>8. CASE Publish
  <2>1. queue' \in Seq(Waiting') /\ Waiting' \subseteq Waiting /\ Head(queue) \in Waiting
    BY <1>1, <1>8, Dequeued DEF Publish
  <2> QED BY <1>1, <1>8, <2>1, Outside DEF Publish
<1>9. CASE Restart
  BY <1>9, RestartKeeps
<1>10. CASE Tick
  <2>1. Waiting' = Waiting
    BY <1>10 DEF Tick, Waiting
  <2> QED BY <1>1, <1>2, <1>10, <2>1, Outside DEF Tick
<1>11. CASE UNCHANGED vars
  <2>1. Waiting' = Waiting
    BY <1>11 DEF vars, Waiting
  <2> QED BY <1>1, <1>2, <1>11, <2>1, Outside DEF vars
<1> QED BY <1>3, <1>4, <1>5, <1>6, <1>7, <1>8, <1>9, <1>10, <1>11 DEF Next

-----------------------------------------------------------------------------
\* Whoever was told that a belief was added finds it until the diary after it,
\* in memory and in storage (planEviction, index.ts:48-56, and the order of
\* save and answer, index.ts:582-584).
THEOREM PromiseKept == Spec => []KeepsPromise
<1>1. ASSUME MindInv PROVE KeepsPromise
  <2> SUFFICES ASSUME Protecting, NEW p \in told,
                      \A c \in Cutoffs : c < p.created \/ c > clock
               PROVE  p.id \in Ids(memory) /\ p.id \in Ids(stored)
    BY DEF KeepsPromise
  <2>1. ~Diarised(p, clock)
    BY <1>1, MindAssumption DEF Diarised, MindInv, Shape
  <2>2. Holds(memory, p) /\ Holds(stored, p)
    BY <1>1, <2>1 DEF MindInv, PromiseInv
  <2> QED BY <2>2 DEF Holds, Ids
<1> QED BY <1>1, MindInit, MindStep, PTL DEF Spec

\* What was published or shown is no newer than the Mind and, at the Mind's
\* version, is what the Mind has, but for versions the Mind forgot
\* (index.ts:320-324, public-snapshot.ts:7-10, realtime.js:9-14).
THEOREM CopiesFollow == Spec => []SnapshotFollows
<1>1. MindInv => SnapshotFollows
  BY DEF MindInv, CopyInv, Faithful, SnapshotFollows
<1> QED BY <1>1, MindInit, MindStep, PTL DEF Spec

-----------------------------------------------------------------------------
(* Types, and the capacity.                                                 *)

Belief == [id : 0 .. MaxBeliefs, tokens : Sizes, created : Time, times : [Time -> Nat]]

\* Beliefs that a mind may hold: finitely many, no two of them with one id.
Beliefs(B) ==
  B \subseteq Belief /\ IsFiniteSet(B) /\ \A a, b \in B : a.id = b.id => a = b

\* A mind with no more tokens than it has room for, of ids that were drawn.
Sound(m, drawn) ==
  /\ m \in Mind /\ Beliefs(m.beliefs) /\ (\A b \in m.beliefs : b.id < drawn)
  /\ Tokens(m.beliefs) <= Capacity

Sorts ==
  /\ clock \in Time /\ born \in 0 .. MaxBeliefs /\ faults \in Nat
  /\ queue \in Seq(CopyType) /\ published \in CopyType /\ page \in CopyType
  /\ told \subseteq [id : 0 .. MaxBeliefs, created : Time]
  /\ forgotten \subseteq 0 .. MaxVersion
SoundInv == Sorts /\ Sound(memory, born) /\ Sound(stored, born)

LEMMA TimeFinite == IsFiniteSet(Time) /\ Time \subseteq Nat
<1>1. LastTime \in Nat
  BY MindAssumption
<1>2. 0 \in Int /\ LastTime \in Int
  BY <1>1
<1>3. IsFiniteSet(0 .. LastTime)
  BY <1>2, FS_Interval
<1>4. 0 .. LastTime \subseteq Nat
  BY <1>1
<1> QED BY <1>3, <1>4 DEF Time

LEMMA TokensNat ==
  ASSUME NEW B, Beliefs(B)
  PROVE  Tokens(B) \in Nat /\ \A b \in B : b.tokens \in Nat
<1> DEFINE f == [b \in B |-> b.tokens]
<1>1. \A b \in B : b.tokens \in Nat /\ f[b] = b.tokens
  <2>1. Sizes \subseteq Nat
    BY MindAssumption
  <2>2. \A b \in B : b.tokens \in Sizes
    BY DEF Beliefs, Belief
  <2> QED BY <2>1, <2>2
<1> HIDE DEF f
<1>2. SumFunctionOnSet(f, B) \in Nat
  BY <1>1, SumNat DEF Beliefs
<1> QED BY <1>1, <1>2 DEF Tokens, f

\* A mind may be given the same beliefs with other shields.
LEMMA Reshielded ==
  ASSUME NEW B, Beliefs(B), NEW h,
         \A b \in B : h[b] \in Belief /\ h[b].id = b.id /\ h[b].tokens = b.tokens
  PROVE  LET C == {h[b] : b \in B} IN Beliefs(C) /\ Tokens(C) = Tokens(B)
<1> DEFINE C == {h[b] : b \in B}
           f == [b \in B |-> b.tokens]
           g == [c \in C |-> c.tokens]
<1>1. IsFiniteSet(C)
  BY ImageFinite DEF Beliefs
<1>2. Beliefs(C)
  BY <1>1 DEF Beliefs
<1>3. \A x, y \in B : h[x] = h[y] => x = y
  BY DEF Beliefs
<1>4. \A b \in B : f[b] \in Int /\ g[h[b]] = f[b]
  BY TokensNat
<1>5. SumFunctionOnSet(g, C) = SumFunctionOnSet(f, B)
  <2> HIDE DEF f, g
  <2> QED BY <1>3, <1>4, SumImage DEF Beliefs
<1> QED BY <1>2, <1>5 DEF Tokens

LEMMA LiveTyped ==
  ASSUME NEW b \in Belief, clock \in Nat
  PROVE  [b EXCEPT !.times = Live(b)] \in Belief
<1>1. Live(b) \in [Time -> Nat]
  BY DEF Live, Belief
<1> HIDE DEF Live
<1> QED BY <1>1 DEF Belief

LEMMA LoadedSound ==
  ASSUME Sound(memory, born), clock \in Nat
  PROVE  Sound(Loaded, born) /\ Loaded.version = memory.version
<1> DEFINE h == [b \in memory.beliefs |-> [b EXCEPT !.times = Live(b)]]
           C == {h[b] : b \in memory.beliefs}
<1>1. ASSUME NEW b \in memory.beliefs
      PROVE  h[b] \in Belief /\ h[b].id = b.id /\ h[b].tokens = b.tokens
  <2>1. b \in Belief
    BY DEF Sound, Beliefs
  <2>2. h[b] = [b EXCEPT !.times = Live(b)]
    OBVIOUS
  <2> QED BY <2>1, <2>2, LiveTyped DEF Belief
<1>2. Loaded = [beliefs |-> C, version |-> memory.version]
  <2>1. C = {[b EXCEPT !.times = Live(b)] : b \in memory.beliefs}
    OBVIOUS
  <2>2. memory = [beliefs |-> memory.beliefs, version |-> memory.version]
    BY DEF Sound, Mind
  <2>3. Loaded = [memory EXCEPT !.beliefs = C]
    BY <2>1 DEF Loaded
  <2> HIDE DEF C
  <2> QED BY <2>2, <2>3
<1> HIDE DEF h
<1>3. Beliefs(C) /\ Tokens(C) = Tokens(memory.beliefs)
  BY <1>1, Reshielded DEF Sound
<1>4. \A c \in C : c.id < born
  BY <1>1 DEF Sound
<1> HIDE DEF C
<1>5. Loaded \in Mind
  BY <1>2, <1>3 DEF Sound, Mind, Beliefs, Belief
<1> QED BY <1>2, <1>3, <1>4, <1>5 DEF Sound

\* A mind with the beliefs of a sound one, at a version that is allowed.
LEMMA VersionSound ==
  ASSUME NEW m, NEW n, NEW drawn, Sound(m, drawn), n = [m EXCEPT !.version = @ + 1],
         n.version <= MaxVersion
  PROVE  Sound(n, drawn)
<1>1. n = [beliefs |-> m.beliefs, version |-> m.version + 1] /\ m.version \in 0 .. MaxVersion
  BY DEF Sound, Mind
<1>2. n \in Mind
  BY <1>1, MindAssumption DEF Sound, Mind
<1> QED BY <1>1, <1>2 DEF Sound

LEMMA CopyTyped ==
  ASSUME NEW m \in Mind
  PROVE  Copy(m) \in CopyType
<1>1. Ids(m) \subseteq 0 .. MaxBeliefs
  BY DEF Mind, Ids
<1> QED BY <1>1, MindAssumption DEF Mind, Copy, CopyType

LEMMA EnqueueTyped ==
  ASSUME NEW m \in Mind, queue \in Seq(CopyType), Enqueue(m)
  PROVE  queue' \in Seq(CopyType)
  BY CopyTyped DEF Enqueue

\* More ids are drawn; fewer beliefs weigh less.
LEMMA DrawnMore ==
  ASSUME NEW m, NEW a \in Nat, NEW b \in Nat, a <= b, Sound(m, a)
  PROVE  Sound(m, b)
<1>1. \A x \in m.beliefs : x.id \in Nat
  BY DEF Sound, Mind
<1> QED BY <1>1 DEF Sound

\* What a move does around its change of the beliefs.
LEMMA SaveSound ==
  ASSUME SoundInv, born' \in born .. MaxBeliefs, NEW m, Sound(m, born'), NEW answered, Save(m, answered),
         answered \subseteq [id : 0 .. MaxBeliefs, created : Time]
  PROVE  SoundInv'
<1>1. born \in Nat /\ born' \in Nat /\ born <= born' /\ born' \in 0 .. MaxBeliefs
  BY MindAssumption DEF SoundInv, Sorts
<1>2. Sound(memory, born)' /\ Sound(stored, born)'
  <2>1. Sound(stored, born')
    BY <1>1, DrawnMore DEF SoundInv
  <2> QED BY <2>1 DEF Save
<1>3. Sorts'
  <2>1. queue' \in Seq(CopyType)
    BY EnqueueTyped DEF Save, Sound, SoundInv, Sorts
  <2>2. faults' \in Nat /\ told' \subseteq [id : 0 .. MaxBeliefs, created : Time]
    BY DEF Save, Works, Fails, SoundInv, Sorts
  <2> QED BY <1>1, <2>1, <2>2 DEF Save, SoundInv, Sorts
<1> QED BY <1>2, <1>3 DEF SoundInv
-----------------------------------------------------------------------------
\* A step that saves nothing, and leaves the Mind as it is or only loads it.
LEMMA AsideSound ==
  ASSUME SoundInv, Sound(memory', born), UNCHANGED <<stored, born, told, forgotten>>,
         clock' \in Time, faults' \in Nat, queue' \in Seq(CopyType),
         published' \in CopyType, page' \in CopyType
  PROVE  SoundInv'
  BY DEF SoundInv, Sorts

\* What the mind may come to hold when a belief is added.
LEMMA Incoming ==
  ASSUME Sound(memory, born), clock \in Nat, born \in 0 .. MaxBeliefs,
         NEW n \in Sizes, NEW now \in Time,
         NEW new, new = [id |-> born, tokens |-> n, created |-> now, times |-> Unshielded]
  PROVE  /\ Beliefs(Loaded.beliefs \cup {new}) /\ new \notin Loaded.beliefs
         /\ \A b \in Loaded.beliefs : b.id < born
<1>1. Sound(Loaded, born)
  BY LoadedSound
<1>2. Unshielded \in [Time -> Nat]
  BY DEF Unshielded
<1>3. new \in Belief /\ new.id = born
  <2> HIDE DEF Unshielded
  <2> QED BY <1>2 DEF Belief
<1>4. \A b \in Loaded.beliefs : b.id < born /\ b.id \in Nat
  BY <1>1 DEF Sound, Beliefs, Belief
<1>5. IsFiniteSet(Loaded.beliefs \cup {new})
  BY <1>1, FS_AddElement DEF Sound, Beliefs
<1>6. \A b \in Loaded.beliefs : b.id # new.id
  BY <1>3, <1>4
<1> QED BY <1>1, <1>3, <1>4, <1>5, <1>6 DEF Sound, Beliefs

LEMMA FewerBeliefs ==
  ASSUME NEW B, Beliefs(B), NEW C \in SUBSET B
  PROVE  Beliefs(C)
  BY FS_Subset DEF Beliefs

LEMMA AddSound ==
  ASSUME SoundInv, NEW n \in Sizes, NEW now \in Time, AddBelief(n, now)
  PROVE  SoundInv'
<1> DEFINE m == Bumped(Loaded)
           new == [id |-> born, tokens |-> n, created |-> now, times |-> Unshielded]
           all == m.beliefs \cup {new}
           kept == all \ Evicted(all, new)
           done == [m EXCEPT !.beliefs = kept]
           answered == told \cup {[id |-> born, created |-> now]}
<1>1. clock \in Nat /\ born \in 0 .. MaxBeliefs /\ born < MaxBeliefs /\ MaxBeliefs \in Nat
  BY TimeFinite, MindAssumption DEF SoundInv, Sorts, AddBelief
<1>2. Sound(Loaded, born) /\ Loaded = [beliefs |-> Loaded.beliefs, version |-> Loaded.version]
  BY <1>1, LoadedSound DEF SoundInv, Sound, Mind
<1>3. m = [beliefs |-> Loaded.beliefs, version |-> Loaded.version + 1]
  BY <1>2 DEF Bumped
<1>4. Beliefs(all) /\ \A b \in all : b.id < born + 1
  <2>1. /\ Beliefs(Loaded.beliefs \cup {new})
        /\ \A b \in Loaded.beliefs : b.id < born
    <3> HIDE DEF new
    <3> QED BY <1>1, Incoming DEF SoundInv, new
  <2>2. m.beliefs = Loaded.beliefs
    BY <1>3
  <2>3. new.id = born
    OBVIOUS
  <2>4. \A b \in Loaded.beliefs : b.id \in Nat
    BY <1>2 DEF Sound, Beliefs, Belief
  <2> HIDE DEF m, new
  <2> QED BY <1>1, <2>1, <2>2, <2>3, <2>4
<1>5. Beliefs(kept) /\ \A b \in kept : b.id < born + 1
  <2> HIDE DEF all
  <2> QED BY <1>4, FewerBeliefs
<1>6. CASE Over(kept)
  <2>1. memory' = Loaded
        /\ UNCHANGED <<clock, stored, queue, published, page, told, born, forgotten, faults>>
    BY <1>6 DEF AddBelief
  <2> QED BY <1>2, <2>1, AsideSound DEF SoundInv, Sorts
<1>7. CASE ~Over(kept)
  <2>1. Save(done, answered) /\ born' = born + 1
    BY <1>7 DEF AddBelief
  <2>2. Tokens(kept) <= Capacity
    <3> HIDE DEF kept
    <3> QED BY <1>5, <1>7, TokensNat, MindAssumption DEF Over
  <2>3. done = [beliefs |-> kept, version |-> Loaded.version + 1]
    <3>1. m.version = Loaded.version + 1 /\ m = [beliefs |-> m.beliefs, version |-> m.version]
      <4> HIDE DEF m
      <4> QED BY <1>3
    <3> HIDE DEF kept, m
    <3> QED BY <3>1
  <2>4. done.version <= MaxVersion /\ Loaded.version \in 0 .. MaxVersion
    <3> HIDE DEF done
    <3> QED BY <1>2, <2>1 DEF Save, Sound, Mind
  <2> HIDE DEF kept
  <2>5. Sound(done, born + 1)
    <3>1. Loaded.version + 1 \in 0 .. MaxVersion
      BY <2>3, <2>4, MindAssumption
    <3>2. done \in Mind
      BY <1>5, <2>3, <3>1 DEF Mind, Beliefs, Belief
    <3> QED BY <1>5, <2>2, <2>3, <3>2 DEF Sound
  <2>6. answered \subseteq [id : 0 .. MaxBeliefs, created : Time]
    BY <1>1 DEF SoundInv, Sorts
  <2> HIDE DEF done, answered
  <2>7. born' \in born .. MaxBeliefs
    BY <1>1, <2>1
  <2>8. Sound(done, born')
    BY <2>1, <2>5
  <2> QED BY <2>1, <2>6, <2>7, <2>8, SaveSound
<1> QED BY <1>6, <1>7

LEMMA ProtectSound ==
  ASSUME SoundInv, NEW b \in Loaded.beliefs, NEW now \in Time, Protect(b, now)
  PROVE  SoundInv'
<1> DEFINE m == Bumped(Loaded)
           longer == [b EXCEPT !.times[now] = @ + 1]
           h == [x \in Loaded.beliefs |-> IF x = b THEN longer ELSE x]
           kept == (Loaded.beliefs \ {b}) \cup {longer}
           done == [m EXCEPT !.beliefs = (@ \ {b}) \cup {longer}]
<1>1. clock \in Nat /\ born \in 0 .. MaxBeliefs
  BY TimeFinite DEF SoundInv, Sorts
<1>2. Sound(Loaded, born) /\ Loaded = [beliefs |-> Loaded.beliefs, version |-> Loaded.version]
  BY <1>1, LoadedSound DEF SoundInv, Sound, Mind
<1>3. Save(done, told) /\ UNCHANGED born
  BY DEF Protect
<1>4. done = [beliefs |-> kept, version |-> Loaded.version + 1]
  <2>1. m = [beliefs |-> Loaded.beliefs, version |-> Loaded.version + 1]
    BY <1>2 DEF Bumped
  <2> HIDE DEF m, longer
  <2> QED BY <2>1
<1>5. longer \in Belief /\ longer.id = b.id /\ longer.tokens = b.tokens
  <2>1. b \in Belief
    BY <1>2 DEF Sound, Beliefs
  <2> DEFINE more == [b.times EXCEPT ![now] = @ + 1]
  <2>2. longer = [b EXCEPT !.times = more] /\ more \in [Time -> Nat]
    BY <2>1 DEF Belief
  <2> HIDE DEF more, longer
  <2> QED BY <2>1, <2>2 DEF Belief
<1> HIDE DEF longer
<1>6. {h[x] : x \in Loaded.beliefs} = kept
  OBVIOUS
<1>7. Beliefs(kept) /\ Tokens(kept) = Tokens(Loaded.beliefs)
  <2>1. \A x \in Loaded.beliefs : h[x] \in Belief /\ h[x].id = x.id /\ h[x].tokens = x.tokens
    BY <1>2, <1>5 DEF Sound, Beliefs
  <2> HIDE DEF h, kept
  <2> QED BY <1>2, <1>6, <2>1, Reshielded DEF Sound
<1>8. \A x \in kept : x.id < born
  BY <1>2, <1>5 DEF Sound
<1> HIDE DEF kept, done
<1>9. Sound(done, born)
  <2>1. done.version <= MaxVersion
    BY <1>3 DEF Save
  <2>2. Loaded.version + 1 \in 0 .. MaxVersion
    BY <1>2, <1>4, <2>1, MindAssumption DEF Sound, Mind
  <2>3. done \in Mind
    BY <1>4, <1>7, <2>2 DEF Mind, Beliefs, Belief
  <2> QED BY <1>2, <1>4, <1>7, <1>8, <2>3 DEF Sound
<1>10. born' \in born .. MaxBeliefs /\ Sound(done, born')
  BY <1>1, <1>3, <1>9
<1> QED BY <1>3, <1>10, SaveSound DEF SoundInv, Sorts

LEMMA DiarySound ==
  ASSUME SoundInv, WriteDiary
  PROVE  SoundInv'
<1> DEFINE m == Bumped(Loaded)
<1>1. clock \in Nat /\ m.version <= MaxVersion /\ Sound(Loaded, born)
  BY TimeFinite, LoadedSound DEF SoundInv, Sorts, WriteDiary
<1>2. m = [Loaded EXCEPT !.version = @ + 1]
  BY DEF Bumped
<1> HIDE DEF m
<1>3. Sound(m, born) /\ m \in Mind /\ Copy(m) \in CopyType
  <2>1. Sound(m, born)
    BY <1>1, <1>2, VersionSound
  <2> QED BY <2>1, CopyTyped DEF Sound
<1>4. UNCHANGED <<clock, published, told, born>>
  BY DEF WriteDiary
<1>5. CASE Works /\ memory' = m /\ stored' = m /\ Enqueue(m) /\ UNCHANGED <<page, forgotten>>
  <2>1. queue' \in Seq(CopyType)
    BY <1>3, <1>5, EnqueueTyped DEF SoundInv, Sorts
  <2> QED BY <1>3, <1>4, <1>5, <2>1 DEF SoundInv, Sorts, Works
<1>6. CASE /\ Fails("save") /\ Forget(m.version) /\ UNCHANGED <<stored, queue>>
           /\ page' \in {page, Copy(m)}
  <2>1. stored.version + 1 .. m.version \subseteq 0 .. MaxVersion
    <3>1. stored.version \in 0 .. MaxVersion /\ m.version \in 0 .. MaxVersion /\ MaxVersion \in Nat
      BY <1>3, MindAssumption DEF SoundInv, Sound, Mind
    <3> QED BY <3>1
  <2>2. forgotten' \subseteq 0 .. MaxVersion /\ memory' = stored
    BY <1>6, <2>1 DEF SoundInv, Sorts, Forget
  <2> QED BY <1>3, <1>4, <1>6, <2>2 DEF SoundInv, Sorts, Fails
<1> QED BY <1>5, <1>6 DEF WriteDiary, Shows, m

LEMMA ReadSound ==
  ASSUME SoundInv, Read
  PROVE  SoundInv'
<1>1. clock \in Nat /\ Sound(Loaded, born)
  BY TimeFinite, LoadedSound DEF SoundInv, Sorts
<1>2. Loaded \in Mind /\ Copy(Loaded) \in CopyType
  BY <1>1, CopyTyped DEF Sound
<1>3. queue' \in Seq(CopyType)
  BY <1>2, EnqueueTyped DEF Read, SoundInv, Sorts
<1>4. page' \in CopyType
  BY <1>2 DEF Read, Shows, SoundInv, Sorts
<1> QED BY <1>1, <1>3, <1>4, AsideSound DEF Read, SoundInv, Sorts

LEMMA OutsideSound ==
  ASSUME SoundInv, ReadPublished \/ Publish \/ Restart \/ Tick
  PROVE  SoundInv'
<1>1. CASE ReadPublished
  BY <1>1 DEF ReadPublished, SoundInv, Sorts
<1>2. CASE Publish
  <2>1. queue' \in Seq(CopyType) /\ Head(queue) \in CopyType
    BY <1>2 DEF Publish, SoundInv, Sorts
  <2>2. published' \in CopyType /\ faults' \in Nat
    BY <1>2, <2>1 DEF Publish, SoundInv, Sorts, Works, Fails
  <2> QED BY <1>2, <2>1, <2>2 DEF Publish, SoundInv, Sorts
<1>3. CASE Restart
  <2>1. stored.version + 1 .. memory.version \subseteq 0 .. MaxVersion
    BY MindAssumption DEF SoundInv, Sound, Mind
  <2>2. forgotten' \subseteq 0 .. MaxVersion /\ memory' = stored /\ queue' = <<>>
    BY <1>3, <2>1 DEF SoundInv, Sorts, Restart, Forget
  <2>3. queue' \in Seq(CopyType)
    BY <2>2
  <2> QED BY <1>3, <2>2, <2>3 DEF SoundInv, Sorts, Restart, Fails
<1>4. CASE Tick
  <2>1. clock' \in Time
    BY <1>4, MindAssumption DEF SoundInv, Sorts, Tick, Time
  <2> QED BY <1>4, <2>1 DEF SoundInv, Sorts, Tick
<1> QED BY <1>1, <1>2, <1>3, <1>4

LEMMA SoundInit == Init => SoundInv
<1> SUFFICES ASSUME Init PROVE SoundInv
  OBVIOUS
<1>1. PICK B \in {{}} \cup {{Shielded(n)} : n \in Sizes} :
        /\ memory = [beliefs |-> B, version |-> 0] /\ stored = memory
        /\ told = {[id |-> b.id, created |-> b.created] : b \in B} /\ born = Cardinality(B)
  BY DEF Init
<1>2. /\ Beliefs(B) /\ Tokens(B) <= Capacity /\ Cardinality(B) \in {0, 1}
      /\ \A b \in B : b.id = 0 /\ b.created = 0 /\ Cardinality(B) = 1
  <2>1. CASE B = {}
    BY <2>1, FS_EmptySet, SumEmpty, MindAssumption DEF Beliefs, Tokens
  <2>2. ASSUME NEW n \in Sizes, NEW b, b = Shielded(n), B = {b}
        PROVE  /\ Beliefs(B) /\ Tokens(B) <= Capacity /\ Cardinality(B) = 1
               /\ b.id = 0 /\ b.created = 0
    <3>1. b.id = 0 /\ b.tokens = n /\ b.created = 0
      BY <2>2 DEF Shielded
    <3>2. 0 \in Time /\ 0 \in 0 .. MaxBeliefs
      BY MindAssumption DEF Time
    <3>3. [Unshielded EXCEPT ![0] = 1] \in [Time -> Nat]
      BY DEF Unshielded
    <3>4. b \in Belief
      BY <2>2, <3>2, <3>3 DEF Shielded, Belief
    <3>5. IsFiniteSet({b}) /\ Cardinality({b}) = 1
      BY FS_Singleton
    <3>6. Tokens({b}) = n
      <4> DEFINE f == [x \in {b} |-> x.tokens]
      <4>1. f[b] = n /\ n \in Int
        BY <3>1, MindAssumption
      <4> HIDE DEF f
      <4>2. SumFunctionOnSet(f, {b}) = f[b] + SumFunctionOnSet(f, {b} \ {b})
        BY <3>5, <4>1, SumRemove
      <4>3. {b} \ {b} = {}
        OBVIOUS
      <4> QED BY <4>1, <4>2, <4>3, SumEmpty DEF Tokens, f
    <3> QED BY <2>2, <3>1, <3>4, <3>5, <3>6, MindAssumption DEF Beliefs
  <2> QED BY <2>1, <2>2
<1>3. told \subseteq [id : 0 .. MaxBeliefs, created : Time] /\ born \in 0 .. MaxBeliefs
  BY <1>1, <1>2, MindAssumption DEF Time
<1>4. memory \in Mind
  BY <1>1, <1>2, MindAssumption DEF Mind, Beliefs, Belief
<1>5. Sound(memory, born)
  BY <1>1, <1>2, <1>4 DEF Sound
<1>6. Sorts
  <2>1. Nowhere \in CopyType
    BY MindAssumption DEF Nowhere, CopyType
  <2>2. queue \in Seq(CopyType)
    BY DEF Init
  <2> QED BY <1>3, <2>1, <2>2, MindAssumption DEF Init, Sorts, Time, NoFaultYet
<1> QED BY <1>1, <1>5, <1>6 DEF SoundInv

LEMMA SoundNext == SoundInv /\ [Next]_vars => SoundInv'
<1> SUFFICES ASSUME SoundInv, [Next]_vars PROVE SoundInv'
  OBVIOUS
<1>1. CASE UNCHANGED vars
  BY <1>1 DEF vars, SoundInv, Sorts
<1> QED BY <1>1, AddSound, ProtectSound, DiarySound, ReadSound, OutsideSound DEF Next

\* Neither memory nor storage holds more tokens than the mind has room for,
\* whatever was evicted, refused, decayed or failed to be saved, and every
\* value has its type (index.ts:48-57, 571-586).
THEOREM TypeCorrect == Spec => []TypeOK
<1>1. SoundInv => TypeOK
  BY DEF SoundInv, Sorts, Sound, TypeOK
<1> QED BY <1>1, SoundInit, SoundNext, PTL DEF Spec

-----------------------------------------------------------------------------
(* Eviction: Before is a strict total order of the beliefs of a mind, what   *)
(* goes is closed under it among the candidates, and the last that goes is   *)
(* the one without which the rest would not have fitted.                     *)

LEMMA ShieldsNat ==
  ASSUME NEW b \in Belief
  PROVE  Shields(b) \in Nat /\ b.id \in Nat /\ b.created \in Nat
<1>1. IsFiniteSet(Placed(b)) /\ \A t \in Placed(b) : b.times[t] \in Nat
  BY TimeFinite, FS_Subset DEF Placed, Belief
<1>2. SumFunctionOnSet(b.times, Placed(b)) \in Nat
  BY <1>1, SumNat
<1>3. b.created \in Nat
  BY TimeFinite DEF Belief
<1> QED BY <1>2, <1>3 DEF Shields, Belief

LEMMA BeforeIsAnOrder ==
  ASSUME NEW B, Beliefs(B)
  PROVE  /\ \A a \in B : ~Before(a, a)
         /\ \A a, b, c \in B : Before(a, b) /\ Before(b, c) => Before(a, c)
         /\ \A a, b \in B : a # b => Before(a, b) \/ Before(b, a)
<1>1. \A b \in B : Shields(b) \in Nat /\ b.id \in Nat /\ b.created \in Nat
  BY ShieldsNat DEF Beliefs
<1>2. \A a, b \in B : a # b => a.id # b.id
  BY DEF Beliefs
<1> QED BY <1>1, <1>2 DEF Before

LEMMA TokensPart ==
  ASSUME NEW B, Beliefs(B), NEW C \in SUBSET B
  PROVE  Tokens(C) <= Tokens(B) /\ Tokens(C) \in Nat /\ Tokens(B) \in Nat
<1> DEFINE f == [b \in B |-> b.tokens]
           g == [b \in C |-> b.tokens]
<1>1. \A b \in B : f[b] \in Nat
  BY TokensNat
<1>2. Beliefs(C)
  BY FewerBeliefs
<1>3. \A b \in C : f[b] = g[b]
  OBVIOUS
<1> HIDE DEF f, g
<1>4. SumFunctionOnSet(f, C) <= SumFunctionOnSet(f, B)
  BY <1>1, SumPart DEF Beliefs
<1>5. SumFunctionOnSet(f, C) = SumFunctionOnSet(g, C)
  BY <1>2, <1>3, SumEqual DEF Beliefs
<1> QED BY <1>2, <1>4, <1>5, TokensNat DEF Tokens, f, g

LEMMA OverAlso ==
  ASSUME NEW B, Beliefs(B), NEW C \in SUBSET B, Over(C)
  PROVE  Over(B)
<1>1. Tokens(C) <= Tokens(B) /\ Tokens(C) \in Nat /\ Tokens(B) \in Nat
  BY TokensPart
<1> QED BY <1>1, MindAssumption DEF Over

LEMMA EvictedIsClosed ==
  ASSUME NEW all, Beliefs(all), NEW new, NEW g \in Evicted(all, new),
         NEW k \in Candidates(all, new), Before(k, g)
  PROVE  k \in Evicted(all, new)
<1> DEFINE may == Candidates(all, new)
           Without(b) == all \ {c \in may : Before(c, b)}
<1>1. may \subseteq all
  BY DEF Candidates
<1>2. g \in may /\ k \in may /\ Over(Without(g))
  BY DEF Evicted
<1>3. Without(g) \subseteq Without(k)
  <2>1. \A c \in may : Before(c, k) => Before(c, g)
    <3> HIDE DEF may
    <3> QED BY <1>1, <1>2, BeforeIsAnOrder
  <2> HIDE DEF may
  <2> QED BY <2>1
<1>4. Beliefs(Without(k))
  <2>1. Without(k) \subseteq all
    OBVIOUS
  <2> HIDE DEF Without
  <2> QED BY <2>1, FewerBeliefs
<1>5. Over(Without(k))
  <2> HIDE DEF Without
  <2> QED BY <1>2, <1>3, <1>4, OverAlso
<1> QED BY <1>5 DEF Evicted

\* A finite set of beliefs that is not empty has a last one.
LEMMA LastBelief ==
  ASSUME NEW E, Beliefs(E), E # {}
  PROVE  \E g \in E : \A c \in E : ~Before(g, c)
<1> DEFINE Later(b) == {c \in E : Before(b, c)}
           Bad == {Later(b) : b \in E}
<1>1. Bad \in SUBSET SUBSET E /\ Bad # {}
  OBVIOUS
<1>2. PICK T \in Bad : \A U \in SUBSET T : U # T => U \notin Bad
  <2> HIDE DEF Bad
  <2> QED BY <1>1, LeastSubset DEF Beliefs
<1>3. PICK g \in E : T = Later(g)
  OBVIOUS
<1>4. ASSUME NEW c \in E, Before(g, c) PROVE FALSE
  <2>1. Later(c) \in Bad /\ c \in Later(g)
    BY <1>4
  <2>2. c \notin Later(c) /\ Later(c) \subseteq Later(g)
    BY <1>4, BeforeIsAnOrder
  <2> HIDE DEF Bad, Later
  <2> QED BY <1>2, <1>3, <2>1, <2>2
<1> QED BY <1>4

LEMMA LastWasNeeded ==
  ASSUME NEW all, Beliefs(all), NEW new, Evicted(all, new) # {}
  PROVE  \E g \in Evicted(all, new) : Over((all \ Evicted(all, new)) \cup {g})
<1> DEFINE may == Candidates(all, new)
           E == Evicted(all, new)
           Without(b) == all \ {c \in may : Before(c, b)}
<1>1. E \subseteq may /\ may \subseteq all /\ \A g \in E : Over(Without(g))
  BY DEF Evicted, Candidates
<1>2. Beliefs(E)
  BY <1>1, FewerBeliefs
<1> HIDE DEF E, may
<1>3. PICK g \in E : \A c \in E : ~Before(g, c)
  BY <1>2, LastBelief DEF E
<1>4. Without(g) \subseteq (all \ E) \cup {g}
  <2>1. \A c \in E : c # g => Before(c, g)
    BY <1>2, <1>3, BeforeIsAnOrder
  <2> QED BY <1>1, <2>1
<1>5. Beliefs((all \ E) \cup {g})
  BY <1>1, FewerBeliefs
<1>6. Over((all \ E) \cup {g})
  <2> HIDE DEF Without
  <2> QED BY <1>1, <1>4, <1>5, OverAlso
<1> QED BY <1>6 DEF E

\* How strong a belief is by the shields that still count is how strong it is
\* once it is loaded.
LEMMA LoadedStrength ==
  ASSUME NEW b \in Belief, NEW y, y = [b EXCEPT !.times = Live(b)]
  PROVE  /\ Strength(b) = 1 + Shields(y) /\ Shields(y) \in Nat
         /\ y.id = b.id /\ y.created = b.created /\ y.tokens = b.tokens
<1> DEFINE S == {t \in Placed(b) : Young(t)}
<1>1. /\ y.times = Live(b) /\ y.id = b.id /\ y.created = b.created /\ y.tokens = b.tokens
      /\ b.times \in [Time -> Nat]
  BY DEF Belief
<1>2. \A t \in Time : Live(b)[t] = IF Young(t) THEN b.times[t] ELSE 0
  BY DEF Live
<1>3. Placed(y) = S
  <2> HIDE DEF Live, Young
  <2> QED BY <1>1, <1>2 DEF Placed
<1>4. IsFiniteSet(S) /\ \A t \in S : b.times[t] \in Nat /\ Live(b)[t] = b.times[t]
  <2>1. S \subseteq Time
    BY DEF Placed
  <2>2. \A t \in S : Young(t)
    OBVIOUS
  <2> HIDE DEF S
  <2> QED BY <1>1, <1>2, <2>1, <2>2, TimeFinite, FS_Subset
<1> HIDE DEF S
<1>5. SumFunctionOnSet(b.times, S) \in Nat /\ SumFunctionOnSet(Live(b), S) = SumFunctionOnSet(b.times, S)
  BY <1>4, SumNat, SumEqual
<1>6. Shields(y) = SumFunctionOnSet(b.times, S)
  BY <1>1, <1>3, <1>5 DEF Shields
<1> QED BY <1>1, <1>5, <1>6 DEF Strength, S

LEMMA AddEvictsWeakest ==
  ASSUME SoundInv, NEW tokens \in Sizes, NEW now \in Time, AddBelief(tokens, now)
  PROVE  WeakestGo
<1> DEFINE m == Bumped(Loaded)
           new == [id |-> born, tokens |-> tokens, created |-> now, times |-> Unshielded]
           all == m.beliefs \cup {new}
           E == Evicted(all, new)
           kept == all \ E
           Y(b) == [b EXCEPT !.times = Live(b)]
           added == memory'.beliefs \ memory.beliefs
           gone == {b \in memory.beliefs : b.id \notin Ids(memory')}
<1> SUFFICES ASSUME born' > born, gone # {}, NEW n \in added, n.id = born
             PROVE  /\ Protecting => \A g \in gone : Diarised(g, n.created)
                    /\ \A g \in gone, k \in memory.beliefs \ gone :
                         ~Protecting \/ Diarised(k, n.created) =>
                           \/ Strength(g) < Strength(k)
                           \/ Strength(g) = Strength(k) /\ g.created <= k.created
                    /\ \E g \in gone : Tokens(memory'.beliefs \cup {g}) > Capacity
  BY DEF WeakestGo
<1>1. clock \in Nat /\ born \in 0 .. MaxBeliefs /\ born \in Nat /\ MaxBeliefs \in Nat /\ born < MaxBeliefs
  BY TimeFinite, MindAssumption DEF SoundInv, Sorts, AddBelief
<1>2. /\ Sound(Loaded, born) /\ Sound(memory, born)
      /\ Loaded = [beliefs |-> Loaded.beliefs, version |-> Loaded.version]
      /\ memory = [beliefs |-> memory.beliefs, version |-> memory.version]
  BY <1>1, LoadedSound DEF SoundInv, Sound, Mind
<1>3. m.beliefs = Loaded.beliefs /\ m = [beliefs |-> m.beliefs, version |-> m.version]
  BY <1>2 DEF Bumped
<1>4. Loaded.beliefs = {Y(b) : b \in memory.beliefs}
  BY <1>2 DEF Loaded
<1>5. memory'.beliefs = kept
  <2>1. memory' = [m EXCEPT !.beliefs = kept]
    <3>1. \/ born' = born
          \/ Save([m EXCEPT !.beliefs = kept], told \cup {[id |-> born, created |-> now]})
      BY DEF AddBelief
    <3> HIDE DEF kept, m
    <3> QED BY <1>1, <3>1 DEF Save
  <2> HIDE DEF kept, m
  <2> QED BY <1>3, <2>1
<1>6. Beliefs(all)
  <2>1. Beliefs(Loaded.beliefs \cup {new})
    <3> HIDE DEF new
    <3> QED BY <1>1, Incoming DEF SoundInv, new
  <2> HIDE DEF m, new
  <2> QED BY <1>3, <2>1
<1>7. /\ \A b \in memory.beliefs : b \in Belief /\ b.id < born /\ Y(b) \in all /\ Y(b) # new
                                   /\ Y(b).id = b.id /\ Y(b).created = b.created /\ Y(b).tokens = b.tokens
                                   /\ Strength(b) = 1 + Shields(Y(b)) /\ Shields(Y(b)) \in Nat
      /\ \A x \in all : x = new \/ \E b \in memory.beliefs : x = Y(b)
      /\ \A x, y \in all : x.id = y.id => x = y
  <2>1. ASSUME NEW b \in memory.beliefs
        PROVE  b \in Belief /\ b.id < born /\ Y(b).id = b.id /\ Y(b).created = b.created
               /\ Y(b).tokens = b.tokens /\ Strength(b) = 1 + Shields(Y(b)) /\ Shields(Y(b)) \in Nat
    <3>1. b \in Belief /\ b.id < born
      BY <1>2 DEF Sound, Beliefs
    <3> QED BY <3>1, LoadedStrength
  <2>2. new.id = born
    OBVIOUS
  <2>3. \A b \in memory.beliefs : b.id \in Nat
    <3> HIDE DEF m, new, Y
    <3> QED BY <2>1 DEF Belief
  <2> HIDE DEF m, new, Y
  <2> QED BY <1>1, <1>3, <1>4, <1>6, <2>1, <2>2, <2>3 DEF Beliefs
<1> HIDE DEF m, Y
<1>8. n = new /\ n \in kept /\ new \notin E
  <2>1. n \in all /\ new.id = born /\ new \in all
    BY <1>5
  <2> HIDE DEF new, E, all
  <2> QED BY <1>5, <1>7, <2>1
<1>9. n.created = now /\ new.created = now
  BY <1>8
<1> HIDE DEF new, all
<1>10. E \subseteq Candidates(all, new) /\ Candidates(all, new) \subseteq all
  BY DEF Evicted, Candidates
<1> HIDE DEF E
<1>11. \A b \in memory.beliefs : b \in gone <=> Y(b) \in E
  BY <1>5, <1>7, <1>10 DEF Ids
<1> HIDE DEF gone
<1>12. gone \subseteq memory.beliefs
  BY DEF gone
<1>13. Protecting => \A g \in gone : Diarised(g, n.created)
  <2> SUFFICES ASSUME Protecting, NEW g \in gone PROVE Diarised(g, now)
    BY <1>9
  <2>1. Y(g) \in Candidates(all, new) /\ Y(g).created = g.created
    BY <1>7, <1>10, <1>11, <1>12
  <2>2. Diarised(Y(g), now)
    BY <1>9, <2>1 DEF Candidates
  <2> QED BY <2>1, <2>2 DEF Diarised
<1>14. ASSUME NEW g \in gone, NEW k \in memory.beliefs \ gone,
              ~Protecting \/ Diarised(k, n.created)
       PROVE  \/ Strength(g) < Strength(k)
              \/ Strength(g) = Strength(k) /\ g.created <= k.created
  <2>1. Y(g) \in E /\ Y(k) \notin E /\ Y(g) \in all /\ Y(k) \in all /\ Y(k) # new
        /\ Y(k).created = k.created /\ Y(g).created = g.created
    BY <1>7, <1>11, <1>12, <1>14
  <2>2. Y(k) \in Candidates(all, new)
    <3>1. CASE ~Protecting
      BY <2>1, <3>1 DEF Candidates
    <3>2. CASE Protecting
      <4>1. Diarised(Y(k), new.created)
        BY <1>9, <1>14, <2>1, <3>2 DEF Diarised
      <4> QED BY <2>1, <3>2, <4>1 DEF Candidates
    <3> QED BY <3>1, <3>2
  <2>3. ~Before(Y(k), Y(g))
    BY <1>6, <2>1, <2>2, EvictedIsClosed DEF E
  <2>4. Before(Y(g), Y(k))
    BY <1>6, <2>1, <2>3, BeforeIsAnOrder
  <2>5. /\ Strength(g) = 1 + Shields(Y(g)) /\ Shields(Y(g)) \in Nat /\ g.created \in Nat
        /\ Strength(k) = 1 + Shields(Y(k)) /\ Shields(Y(k)) \in Nat /\ k.created \in Nat
    BY <1>7, <1>12, ShieldsNat
  <2> QED BY <2>1, <2>4, <2>5 DEF Before
<1>15. \E g \in gone : Tokens(memory'.beliefs \cup {g}) > Capacity
  <2>1. E # {}
    BY <1>11, <1>12
  <2>2. PICK e \in E : Over(kept \cup {e})
    BY <1>6, <2>1, LastWasNeeded DEF E
  <2>3. PICK g \in memory.beliefs : e = Y(g)
    BY <1>7, <1>8, <1>10
  <2>4. g \in gone
    BY <1>11, <2>3
  <2>5. Tokens(kept \cup {g}) = Tokens(kept \cup {e})
    <3> DEFINE B == kept \cup {e}
               h == [x \in B |-> IF x = e THEN g ELSE x]
    <3>1. Beliefs(B) /\ e \notin kept
      BY <1>6, <1>10, FewerBeliefs
    <3>2. \A x \in B : h[x] \in Belief /\ h[x].id = x.id /\ h[x].tokens = x.tokens
      <4>1. e.id = g.id /\ e.tokens = g.tokens /\ g \in Belief
        BY <1>7, <2>3
      <4>2. \A x \in B : x \in Belief
        BY <3>1 DEF Beliefs
      <4> QED BY <4>1, <4>2
    <3>3. {h[x] : x \in B} = kept \cup {g}
      BY <3>1
    <3> HIDE DEF h, B
    <3>4. Tokens({h[x] : x \in B}) = Tokens(B)
      BY <3>1, <3>2, Reshielded
    <3> QED BY <3>3, <3>4 DEF B
  <2> QED BY <1>5, <2>2, <2>4, <2>5 DEF Over
<1> QED BY <1>13, <1>14, <1>15

LEMMA OthersEvictNone ==
  ASSUME SoundInv, UNCHANGED born
  PROVE  WeakestGo
<1>1. born \in Nat
  BY MindAssumption DEF SoundInv, Sorts
<1> QED BY <1>1 DEF WeakestGo

\* When a move evicts beliefs, each of them is of before the last diary and no
\* stronger, by the shields that still count, than an unprotected one that
\* stays, and without the strongest of them the rest would not have fitted
\* (index.ts:48-57, 575-586).
THEOREM WeakestAlwaysFirst == Spec => WeakestFirst
<1>1. SoundInv /\ [Next]_vars => [WeakestGo]_vars
  <2> SUFFICES ASSUME SoundInv, Next PROVE WeakestGo
    OBVIOUS
  <2>1. CASE \E n \in Sizes, t \in Time : AddBelief(n, t)
    BY <2>1, AddEvictsWeakest
  <2>2. CASE \E b \in Loaded.beliefs, t \in Time : Protect(b, t)
    BY <2>2, OthersEvictNone DEF Protect
  <2>3. CASE WriteDiary \/ Read \/ ReadPublished \/ Publish \/ Restart \/ Tick
    BY <2>3, OthersEvictNone DEF WriteDiary, Read, ReadPublished, Publish, Restart, Tick
  <2> QED BY <2>1, <2>2, <2>3 DEF Next
<1> QED BY <1>1, SoundInit, SoundNext, PTL DEF Spec, WeakestFirst
=============================================================================
