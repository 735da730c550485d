------------------------------ MODULE DiaryProofs ------------------------------
(* Proofs about the diary, for any number of overlapping runs, days, attempts *)
(* and failures.                                                              *)
EXTENDS DiaryDays, WellFoundedInduction, TLAPS

-----------------------------------------------------------------------------
(* Least and greatest numbers.                                                *)

Less == {ss \in Nat \X Nat : ss[1] < ss[2]}

LEMMA LessWellFounded == IsWellFoundedOn(Less, Nat)
  BY NatLessThanWellFounded DEF OpToRel, Less

LEMMA LeastNatural ==
  ASSUME NEW T \in SUBSET Nat, T # {}
  PROVE  \E x \in T : \A y \in T : x <= y
<1>1. PICK x \in T : \A y \in T : ~(<<y, x>> \in Less)
  BY LessWellFounded, WFMin
<1>2. \A y \in T : ~(y < x)
  BY <1>1 DEF Less
<1> QED BY <1>2

LEMMA MinOf ==
  ASSUME NEW T \in SUBSET Nat, T # {}
  PROVE  Min(T) \in T /\ \A y \in T : Min(T) <= y
  BY LeastNatural DEF Min

LEMMA MaxOf ==
  ASSUME NEW T \in SUBSET Nat, T # {}, NEW b \in Nat, \A x \in T : x <= b
  PROVE  Max(T) \in T /\ \A y \in T : y <= Max(T)
<1> DEFINE U == {b - x : x \in T}
<1>1. U \in SUBSET Nat /\ U # {}
  <2>1. \A x \in T : b - x \in Nat
    OBVIOUS
  <2> QED BY <2>1
<1>2. PICK u \in U : \A v \in U : u <= v
  BY <1>1, LeastNatural
<1>3. PICK x \in T : u = b - x
  OBVIOUS
<1>4. \A y \in T : x >= y
  BY <1>2, <1>3
<1> QED BY <1>3, <1>4 DEF Max

-----------------------------------------------------------------------------
(* Types.                                                                     *)

Source == [status : {"none", "pending", "written", "failed"},
           attempts : 0 .. MaxAttempts, cycle : Nat]
Entry == [day : Days, cycle : Nat \ {0}, made : Days]
Pcs == {"rest", "capture", "older", "draft", "late", "insert", "more", "today",
        "claim", "mark", "write"}
Tick == [pc : Pcs, day : {0} \cup Days, target : {0} \cup Days]

SourceOK ==
  /\ source \in [Days -> Source]
  /\ \A d \in Days :
       source[d].status \in {"none", "pending"} => source[d].attempts < MaxAttempts
\* Cycles are bounded, so that there is a greatest one.
EntriesOK ==
  entries \subseteq Entry /\ \E b \in Nat : \A e \in entries : e.cycle <= b
MindOK == mind \in [date : {0} \cup Days, cycle : Nat \ {0}]
\* A run that has started has a day, and what it drafts has one.
TicksOK ==
  /\ ticks \in [Ticks -> Tick]
  /\ \A t \in Ticks : ~At(t, "rest") => ticks[t].day \in Days /\ ticks[t].target \in Days
Typed ==
  /\ today \in Days /\ empty \in BOOLEAN /\ faults \in Nat
  /\ SourceOK /\ EntriesOK /\ MindOK /\ TicksOK

LEMMA TypedOK == Typed => TypeOK
  BY DEF Typed, SourceOK, EntriesOK, MindOK, TicksOK, TypeOK, Source, Entry, Tick, Pcs

LEMMA DayNumbers == \A d \in Days : d \in Nat \ {0}
  BY DEF Days

LEMMA TypeInit == Init => Typed
<1> SUFFICES ASSUME Init PROVE Typed
  OBVIOUS
<1>1. today \in Days /\ empty \in BOOLEAN /\ faults \in Nat
  <2>1. NewMind \in BOOLEAN
    BY DiaryAssumption
  <2>2. 1 \in Days
    BY DiaryAssumption DEF Days
  <2>3. today = 1 /\ faults = 0 /\ empty \in {FALSE, NewMind}
    BY Zenon DEF Init, NoFaultYet
  <2>4. empty \in BOOLEAN
    BY <2>1, <2>3, Zenon
  <2> QED BY <2>2, <2>3, <2>4
<1>2. SourceOK
  BY DiaryAssumption DEF Init, SourceOK, Source, Pending
<1>3. EntriesOK /\ MindOK
  BY DEF Init, EntriesOK, MindOK
<1>4. TicksOK
  BY DEF Init, TicksOK, Resting, Tick, Pcs, At
<1> QED BY <1>1, <1>2, <1>3, <1>4 DEF Typed

\* Every cycle number in use is below the next one.
LEMMA CycleIsNew ==
  ASSUME EntriesOK, MindOK
  PROVE  NextCycle \in Nat \ {0} /\ \A e \in entries : e.cycle < NextCycle
<1> DEFINE T == {0} \cup {e.cycle : e \in entries}
<1>1. PICK b \in Nat : \A e \in entries : e.cycle <= b
  BY DEF EntriesOK
<1>2. T \in SUBSET Nat /\ T # {} /\ \A x \in T : x <= b
  BY <1>1 DEF EntriesOK, Entry
<1>3. MaxCycle \in T /\ \A y \in T : y <= MaxCycle
  BY <1>2, MaxOf DEF MaxCycle
<1>4. MaxCycle \in Nat /\ \A e \in entries : e.cycle <= MaxCycle
  BY <1>2, <1>3
<1> DEFINE N == {mind.cycle, MaxCycle + 1}
<1>5. mind.cycle \in Nat \ {0}
  BY DEF MindOK
<1>6. N \in SUBSET Nat /\ N # {} /\ \A x \in N : x <= mind.cycle + MaxCycle + 1
  BY <1>4, <1>5
<1>7. NextCycle \in N /\ \A y \in N : y <= NextCycle
  <2>1. mind.cycle + MaxCycle + 1 \in Nat /\ NextCycle = Max(N)
    BY <1>4, <1>5 DEF NextCycle
  <2> HIDE DEF N
  <2> QED BY <1>6, <2>1, MaxOf
<1> QED BY <1>4, <1>5, <1>7 DEF EntriesOK, Entry

-----------------------------------------------------------------------------
(* What the operations do to the sources and the entries.                     *)

\* Only the row of d changes, and a status never goes back.
Turned(S, d) ==
  /\ S \in [Days -> Source]
  /\ \A e \in Days \ {d} : S[e] = source[e]
  /\ S[d].status \in {"none", "pending"} => S[d].attempts < MaxAttempts
  /\ source[d].status # "none" => S[d].status # "none"
  /\ source[d].status \in {"written", "failed"} => S[d] = source[d]

LEMMA SourceTurns ==
  ASSUME SourceOK, NEW d \in Days
  PROVE  /\ Turned(Captured(d), d) /\ Captured(d)[d].cycle = source[d].cycle
         /\ Captured(d)[d].status \in {source[d].status, "pending"} \ {"none"}
         /\ Turned(Noted(d), d) /\ Noted(d)[d].cycle = source[d].cycle
         /\ Noted(d)[d].status \in {source[d].status, "failed"}
         /\ Turned(Marked(d), d) /\ Marked(d)[d].cycle = source[d].cycle
         /\ Marked(d)[d].status # "pending"
<1>1. source[d] \in Source
  BY DEF SourceOK
<1>2. /\ Turned(Captured(d), d) /\ Captured(d)[d].cycle = source[d].cycle
      /\ Captured(d)[d].status \in {source[d].status, "pending"} \ {"none"}
  BY <1>1, DiaryAssumption DEF SourceOK, Turned, Captured, Source, Pending
<1>3. /\ Turned(Noted(d), d) /\ Noted(d)[d].cycle = source[d].cycle
      /\ Noted(d)[d].status \in {source[d].status, "failed"}
  <2>1. CASE ~Pending(d)
    BY <1>1, <2>1 DEF SourceOK, Turned, Noted, Pending
  <2>2. CASE Pending(d)
    <3> DEFINE n == source[d].attempts + 1
               q == [source[d] EXCEPT !.attempts = n,
                       !.status = IF n >= MaxAttempts THEN "failed" ELSE source[d].status]
    <3>1. n \in 0 .. MaxAttempts
      BY <1>1, <2>2, DiaryAssumption DEF SourceOK, Source, Pending
    <3>2. q \in Source /\ q.attempts = n /\ q.cycle = source[d].cycle
          /\ q.status = IF n >= MaxAttempts THEN "failed" ELSE "pending"
      BY <1>1, <2>2, <3>1 DEF Source, Pending
    <3>3. Noted(d) = [source EXCEPT ![d] = q]
      BY <1>1, <2>2 DEF Noted, SourceOK, Source
    <3> HIDE DEF q
    <3> QED BY <2>2, <3>1, <3>2, <3>3, DiaryAssumption DEF Turned, SourceOK, Pending
  <2> QED BY <2>1, <2>2
<1>4. /\ Turned(Marked(d), d) /\ Marked(d)[d].cycle = source[d].cycle
      /\ Marked(d)[d].status # "pending"
  BY <1>1 DEF SourceOK, Turned, Marked, Source, Pending
<1> QED BY <1>2, <1>3, <1>4

LEMMA SourceTied ==
  ASSUME SourceOK, NEW d \in Days, NEW n \in Nat
  PROVE  /\ Turned(Tied(d, n), d) /\ Tied(d, n)[d].status # "pending"
         /\ Pending(d) => Tied(d, n)[d].status = "written" /\ Tied(d, n)[d].cycle = n
         /\ ~Pending(d) => Tied(d, n) = source
<1>1. source[d] \in Source
  BY DEF SourceOK
<1> QED BY <1>1 DEF SourceOK, Turned, Tied, Source, Pending

LEMMA TurnedOK ==
  ASSUME SourceOK, NEW d \in Days, Turned(source', d)
  PROVE  SourceOK'
  BY DEF Turned, SourceOK, Pending
-----------------------------------------------------------------------------
(* What a run of the cron does, failures aside.                               *)

LEMMA WriteLateDoes ==
  ASSUME NEW t, WriteLate(t)
  PROVE  /\ At(t, "insert") /\ today' = today /\ empty' = empty
         /\ \/ /\ Insert(ticks[t].target) /\ Goto(t, "more")
               /\ mind' = [date |-> mind.date, cycle |-> NextCycle + 1]
            \/ Insert(ticks[t].target) /\ Stop(t) /\ mind' = mind
            \/ Stop(t) /\ UNCHANGED <<entries, source, mind>>
  BY DEF WriteLate, Write

LEMMA ClaimDayDoes ==
  ASSUME NEW t, ClaimDay(t)
  PROVE  LET d == ticks[t].day IN
         /\ At(t, "claim") /\ QueueFree /\ UNCHANGED <<today, empty, entries, source>>
         /\ \/ mind.date = d /\ Goto(t, "mark") /\ mind' = mind
            \/ /\ RowsOf(d) # {} /\ Goto(t, "mark")
               /\ mind' = [date |-> d, cycle |-> NextCycle]
            \/ Stop(t) /\ mind' = mind
            \/ /\ ticks' = [ticks EXCEPT ![t].pc = "draft", ![t].target = d]
               /\ mind' = mind
  BY DEF ClaimDay, Claim

LEMMA WriteTodayDoes ==
  ASSUME NEW t, WriteToday(t)
  PROVE  LET d == ticks[t].day IN
         /\ At(t, "write") /\ QueueFree /\ Stop(t) /\ UNCHANGED <<today, empty>>
         /\ \/ UNCHANGED <<entries, source, mind>>
            \/ /\ RowsOf(d) # {} /\ UNCHANGED <<entries, source>>
               /\ mind' = [date |-> d, cycle |-> NextCycle]
            \/ /\ RowsOf(d) = {} /\ today = d /\ Insert(d)
               /\ mind' \in {mind, [date |-> d, cycle |-> NextCycle + 1]}
  BY DEF WriteToday, Claim, Write

\* The other steps insert nothing.
Reads(t) ==
  \/ LookOlder(t) \/ CheckLate(t) \/ LookMore(t) \/ ReadSource(t)
Notes(t) == Capture(t) \/ Draft(t) \/ MarkSource(t)
Writes(t) == WriteLate(t) \/ WriteToday(t)

LEMMA StepsSplit == \A t : Steps(t) <=> Reads(t) \/ Notes(t) \/ ClaimDay(t) \/ Writes(t)
  BY DEF Steps, Reads, Notes, Writes

LEMMA ReadsDo ==
  ASSUME NEW t, Reads(t)
  PROVE  UNCHANGED <<today, empty, source, entries, mind>>
  BY DEF Reads, LookOlder, CheckLate, LookMore, ReadSource

LEMMA NotesDo ==
  ASSUME NEW t, Notes(t)
  PROVE  /\ UNCHANGED <<today, empty, entries, mind>>
         /\ \/ UNCHANGED source /\ (At(t, "capture") => "capture" \in Fragile)
            \/ At(t, "capture") /\ source' = Captured(ticks[t].day)
            \/ At(t, "draft") /\ source' = Noted(ticks[t].target)
            \/ At(t, "mark") /\ source' = Marked(ticks[t].day)
  BY DEF Notes, Capture, Draft, MarkSource, Fails, At

LEMMA FaultsNext == faults \in Nat /\ [Next]_vars => faults' \in Nat
<1> SUFFICES ASSUME faults \in Nat, [Next]_vars PROVE faults' \in Nat
  OBVIOUS
<1>1. (\E what : Fails(what)) \/ UNCHANGED faults
  <2>1. ASSUME NEW t \in Ticks, Start(t) \/ Steps(t)
        PROVE  (\E what : Fails(what)) \/ UNCHANGED faults
    BY <2>1 DEF Start, Steps, Capture, LookOlder, Draft, CheckLate, WriteLate, LookMore,
                ReadSource, ClaimDay, MarkSource, WriteToday, Claim, Write, Works
  <2> QED BY <2>1 DEF Next, Midnight, FirstBelief, Restart, vars
<1> QED BY <1>1 DEF Fails
-----------------------------------------------------------------------------
(* Where a step leaves its run.                                               *)

LEMMA GotoMoves ==
  ASSUME TicksOK, NEW t \in Ticks, ~At(t, "rest"), NEW pc \in Pcs, Goto(t, pc)
  PROVE  /\ TicksOK' /\ ticks'[t].pc = pc
         /\ ticks'[t].day = ticks[t].day /\ ticks'[t].target = ticks[t].target
         /\ \A u \in Ticks \ {t} : ticks'[u] = ticks[u]
<1>1. /\ ticks' \in [Ticks -> Tick] /\ ticks'[t].pc = pc
      /\ ticks'[t].day = ticks[t].day /\ ticks'[t].target = ticks[t].target
      /\ \A u \in Ticks \ {t} : ticks'[u] = ticks[u]
  BY DEF TicksOK, Goto, Tick
<1> QED BY <1>1 DEF TicksOK, At

LEMMA StopMoves ==
  ASSUME TicksOK, NEW t \in Ticks, Stop(t)
  PROVE  /\ TicksOK' /\ ticks'[t].pc = "rest"
         /\ \A u \in Ticks \ {t} : ticks'[u] = ticks[u]
<1>1. Resting \in Tick /\ Resting.pc = "rest"
  BY DEF Resting, Tick, Pcs
<1>2. ticks' \in [Ticks -> Tick] /\ ticks'[t] = Resting
      /\ \A u \in Ticks \ {t} : ticks'[u] = ticks[u]
  BY <1>1 DEF TicksOK, Stop
<1> QED BY <1>1, <1>2 DEF TicksOK, At

\* A run that turns to the draft of day d.
LEMMA DraftMoves ==
  ASSUME TicksOK, NEW t \in Ticks, ~At(t, "rest"), NEW d \in Days,
         ticks' = [ticks EXCEPT ![t].pc = "draft", ![t].target = d]
  PROVE  /\ TicksOK' /\ ticks'[t].pc = "draft"
         /\ ticks'[t].day = ticks[t].day /\ ticks'[t].target = d
         /\ \A u \in Ticks \ {t} : ticks'[u] = ticks[u]
<1>1. /\ ticks' \in [Ticks -> Tick] /\ ticks'[t].pc = "draft"
      /\ ticks'[t].day = ticks[t].day /\ ticks'[t].target = d
      /\ \A u \in Ticks \ {t} : ticks'[u] = ticks[u]
  BY DEF TicksOK, Tick, Pcs
<1> QED BY <1>1 DEF TicksOK, At

\* The ways a run can go, and what it found on its way.
Goes(t) ==
  \/ ticks'[t].pc = "rest"
  \/ /\ ticks'[t].day = ticks[t].day
     /\ \/ /\ ticks'[t].target = ticks[t].target
           /\ \/ At(t, "capture") /\ ticks'[t].pc = "older"
              \/ /\ At(t, "older") /\ ticks'[t].pc = "today"
                 /\ Older(ticks[t].day) = {} \/ "older" \in Fragile
              \/ At(t, "draft") /\ ticks[t].target < ticks[t].day /\ ticks'[t].pc = "late"
              \/ At(t, "draft") /\ ticks[t].target >= ticks[t].day /\ ticks'[t].pc = "write"
              \/ /\ At(t, "late") /\ QueueFree
                 /\ \/ ticks'[t].pc = "insert" /\ Pending(ticks[t].target)
                    \/ ticks'[t].pc = "more"
              \/ At(t, "insert") /\ ticks'[t].pc = "more"
              \/ /\ At(t, "more") /\ ticks'[t].pc = "today"
                 /\ Older(ticks[t].day) = {} \/ "more" \in Fragile
              \/ At(t, "today") /\ ticks'[t].pc = "claim"
              \/ At(t, "claim") /\ ticks'[t].pc = "mark"
        \/ /\ At(t, "older") /\ ticks'[t].pc = "draft"
           /\ Older(ticks[t].day) # {} /\ ticks'[t].target = Min(Older(ticks[t].day))
        \/ /\ At(t, "claim") /\ ticks'[t].pc = "draft" /\ ticks'[t].target = ticks[t].day

LEMMA OlderDays ==
  ASSUME NEW d \in Days, Older(d) # {}
  PROVE  /\ Min(Older(d)) \in Days /\ Min(Older(d)) < d /\ Pending(Min(Older(d)))
         /\ \A e \in Days : e < Min(Older(d)) => ~Pending(e)
<1>1. Older(d) \in SUBSET Nat
  BY DayNumbers DEF Older
<1>2. Min(Older(d)) \in Older(d) /\ \A e \in Older(d) : Min(Older(d)) <= e
  BY <1>1, MinOf
<1>3. Min(Older(d)) \in Days /\ Min(Older(d)) < d /\ Pending(Min(Older(d)))
  BY <1>2 DEF Older
<1>4. ASSUME NEW e \in Days, e < Min(Older(d)) PROVE ~Pending(e)
  BY <1>2, <1>3, <1>4, DayNumbers DEF Older
<1> QED BY <1>3, <1>4

LEMMA StepsGo ==
  ASSUME TicksOK, NEW t \in Ticks, Steps(t)
  PROVE  /\ TicksOK' /\ Goes(t) /\ ~At(t, "rest")
         /\ \A u \in Ticks \ {t} : ticks'[u] = ticks[u]
<1>1. ~At(t, "rest") /\ ticks[t].day \in Days /\ ticks[t].target \in Days
  BY DEF Steps, Capture, LookOlder, Draft, CheckLate, WriteLate, LookMore, ReadSource,
         ClaimDay, MarkSource, WriteToday, At, TicksOK
<1> DEFINE Good == /\ TicksOK' /\ Goes(t) /\ ~At(t, "rest")
                   /\ \A u \in Ticks \ {t} : ticks'[u] = ticks[u]
<1>2. ASSUME Stop(t) PROVE Good
  BY <1>1, <1>2, StopMoves DEF Goes
<1> SUFFICES Good
  OBVIOUS
<1> HIDE DEF Good
<1>3. CASE Capture(t)
  BY <1>1, <1>3, GotoMoves DEF Capture, Goes, Good, Pcs
<1>4. CASE LookOlder(t)
  <2>1. CASE /\ Older(ticks[t].day) # {}
             /\ ticks' = [ticks EXCEPT ![t].pc = "draft", ![t].target = Min(Older(ticks[t].day))]
    BY <1>1, <1>4, <2>1, OlderDays, DraftMoves DEF LookOlder, Goes, Good
  <2>2. CASE /\ Older(ticks[t].day) = {} \/ "older" \in Fragile
             /\ Goto(t, "today")
    BY <1>1, <1>4, <2>2, GotoMoves DEF LookOlder, Goes, Good, Pcs
  <2> QED BY <1>4, <2>1, <2>2 DEF LookOlder, Fails
<1>5. CASE Draft(t)
  <2>1. CASE Goto(t, IF ticks[t].target < ticks[t].day THEN "late" ELSE "write")
    <3>1. CASE ticks[t].target < ticks[t].day
      BY <1>1, <1>5, <2>1, <3>1, GotoMoves DEF Draft, Goes, Good, Pcs
    <3>2. CASE ~(ticks[t].target < ticks[t].day)
      <4>1. ticks[t].target >= ticks[t].day
        BY <1>1, <3>2, DayNumbers
      <4> QED BY <1>1, <1>5, <2>1, <3>2, <4>1, GotoMoves DEF Draft, Goes, Good, Pcs
    <3> QED BY <3>1, <3>2
  <2> QED BY <1>2, <1>5, <2>1 DEF Draft
<1>6. CASE CheckLate(t)
  <2>1. \/ Goto(t, "insert") /\ Pending(ticks[t].target)
        \/ Goto(t, "more")
    BY <1>6 DEF CheckLate
  <2> QED BY <1>1, <1>6, <2>1, GotoMoves DEF CheckLate, Goes, Good, Pcs
<1>7. CASE WriteLate(t)
  BY <1>1, <1>2, <1>7, WriteLateDoes, GotoMoves DEF Goes, Good, Pcs
<1>8. CASE LookMore(t)
  <2>1. \/ Stop(t)
        \/ Goto(t, "today") /\ (Older(ticks[t].day) = {} \/ "more" \in Fragile)
    BY <1>8 DEF LookMore, Fails
  <2> QED BY <1>1, <1>2, <1>8, <2>1, GotoMoves DEF LookMore, Goes, Good, Pcs
<1>9. CASE ReadSource(t)
  BY <1>1, <1>2, <1>9, GotoMoves DEF ReadSource, Goes, Good, Pcs
<1>10. CASE ClaimDay(t)
  <2>1. /\ At(t, "claim")
        /\ \/ Goto(t, "mark") \/ Stop(t)
           \/ ticks' = [ticks EXCEPT ![t].pc = "draft", ![t].target = ticks[t].day]
    BY <1>10, ClaimDayDoes
  <2>2. CASE Goto(t, "mark")
    BY <1>1, <2>1, <2>2, GotoMoves DEF Goes, Good, Pcs
  <2>3. CASE ticks' = [ticks EXCEPT ![t].pc = "draft", ![t].target = ticks[t].day]
    BY <1>1, <2>1, <2>3, DraftMoves DEF Goes, Good
  <2> QED BY <1>2, <2>1, <2>2, <2>3
<1>11. CASE MarkSource(t) \/ WriteToday(t)
  BY <1>2, <1>11, WriteTodayDoes DEF MarkSource
<1> QED BY <1>3, <1>4, <1>5, <1>6, <1>7, <1>8, <1>9, <1>10, <1>11 DEF Steps, Good

\* What an insert adds: a cycle number never used.
LEMMA InsertAdds ==
  ASSUME Typed, NEW d \in Days, Insert(d)
  PROVE  \E x \in Entry :
           /\ x.day = d /\ x.made = today /\ entries' = entries \cup {x}
           /\ \A e \in entries : e.cycle < x.cycle
           /\ SourceOK' /\ EntriesOK' /\ Turned(source', d)
           /\ Pending(d) => source'[d].status = "written" /\ source'[d].cycle = x.cycle
           /\ ~Pending(d) => UNCHANGED source
<1> DEFINE n == NextCycle
           x == [day |-> d, cycle |-> n, made |-> today]
<1>1. n \in Nat \ {0} /\ \A e \in entries : e.cycle < n
  BY CycleIsNew DEF Typed
<1>2. x \in Entry /\ x.day = d /\ x.made = today /\ x.cycle = n
  BY <1>1 DEF Entry, Typed
<1>3. entries' = entries \cup {x} /\ source' = Tied(d, n)
  BY DEF Insert
<1> HIDE DEF n, x
<1>4. SourceOK' /\ Turned(source', d)
      /\ (Pending(d) => source'[d].status = "written" /\ source'[d].cycle = n)
      /\ (~Pending(d) => UNCHANGED source)
  BY <1>1, <1>3, SourceTied, TurnedOK DEF Typed
<1>5. EntriesOK'
  <2>1. \A e \in entries' : e.cycle <= n
    BY <1>1, <1>2, <1>3 DEF Typed, EntriesOK, Entry
  <2>2. entries' \subseteq Entry
    BY <1>2, <1>3 DEF Typed, EntriesOK
  <2> QED BY <1>1, <2>1, <2>2 DEF EntriesOK
<1> QED BY <1>1, <1>2, <1>3, <1>4, <1>5

\* What a step does to the sources: an insert apart, it moves no cycle number.
Calm == "capture" \notin Fragile
Quiet(t) ==
  \/ UNCHANGED source
  \/ \E d \in Days :
       /\ Turned(source', d) /\ source'[d].cycle = source[d].cycle
       /\ \/ /\ At(t, "capture") /\ d = ticks[t].day
             /\ source'[d].status \in {source[d].status, "pending"} \ {"none"}
          \/ At(t, "draft") /\ source'[d].status \in {source[d].status, "failed"}
          \/ At(t, "mark") /\ d = ticks[t].day /\ source'[d].status # "pending"

LEMMA QuietSteps ==
  ASSUME Typed, NEW t \in Ticks, Notes(t)
  PROVE  /\ Quiet(t) /\ SourceOK'
         /\ Calm /\ At(t, "capture") => source'[ticks[t].day].status # "none"
<1>1. ~At(t, "rest") /\ ticks[t].day \in Days /\ ticks[t].target \in Days /\ SourceOK
  BY DEF Notes, Capture, Draft, MarkSource, At, Typed, TicksOK
<1>2. CASE UNCHANGED source /\ (At(t, "capture") => "capture" \in Fragile)
  BY <1>1, <1>2 DEF Quiet, SourceOK, Calm
<1>3. CASE At(t, "capture") /\ source' = Captured(ticks[t].day)
  BY <1>1, <1>3, SourceTurns, TurnedOK DEF Quiet
<1>4. CASE At(t, "draft") /\ source' = Noted(ticks[t].target)
  BY <1>1, <1>4, SourceTurns, TurnedOK DEF Quiet, At
<1>5. CASE At(t, "mark") /\ source' = Marked(ticks[t].day)
  BY <1>1, <1>5, SourceTurns, TurnedOK DEF Quiet, At
<1> QED BY <1>2, <1>3, <1>4, <1>5, NotesDo

\* The steps of a run, by what they write.
Inserts(t) ==
  \E d \in Days :
    /\ Insert(d)
    /\ \/ At(t, "insert") /\ d = ticks[t].target
       \/ At(t, "write") /\ d = ticks[t].day /\ today = d /\ RowsOf(d) = {} /\ QueueFree

LEMMA StepsWrite ==
  ASSUME Typed, NEW t \in Ticks, Steps(t)
  PROVE  /\ UNCHANGED <<today, empty>>
         /\ \/ /\ UNCHANGED entries /\ Quiet(t) /\ SourceOK'
               /\ Calm /\ At(t, "capture") => source'[ticks[t].day].status # "none"
            \/ Inserts(t)
<1>1. CASE Reads(t) \/ ClaimDay(t)
  BY <1>1, ReadsDo, ClaimDayDoes
  DEF Typed, Quiet, SourceOK, Reads, LookOlder, CheckLate, LookMore, ReadSource, At
<1>2. CASE Notes(t)
  BY <1>2, NotesDo, QuietSteps
<1>3. CASE WriteLate(t)
  <2>1. At(t, "insert") /\ ticks[t].target \in Days
    BY <1>3, WriteLateDoes DEF At, Typed, TicksOK
  <2> QED BY <1>3, <2>1, WriteLateDoes DEF Inserts, Quiet, SourceOK, Typed, At
<1>4. CASE WriteToday(t)
  <2>1. At(t, "write") /\ ticks[t].day \in Days
    BY <1>4, WriteTodayDoes DEF At, Typed, TicksOK
  <2> QED BY <1>4, <2>1, WriteTodayDoes DEF Inserts, Quiet, SourceOK, Typed, At
<1> QED BY <1>1, <1>2, <1>3, <1>4, StepsSplit DEF Writes

LEMMA TypeNext == Typed /\ [Next]_vars => Typed'
<1> SUFFICES ASSUME Typed, [Next]_vars PROVE Typed'
  OBVIOUS
<1>1. faults' \in Nat
  BY FaultsNext DEF Typed
<1>2. ASSUME NEW t \in Ticks, Steps(t) PROVE Typed'
  <2>1. today' \in Days /\ empty' \in BOOLEAN
    BY <1>2, StepsWrite DEF Typed
  <2>2. SourceOK' /\ EntriesOK'
    <3>1. CASE UNCHANGED entries /\ SourceOK'
      BY <3>1 DEF Typed, EntriesOK
    <3>2. CASE Inserts(t)
      BY <3>2, InsertAdds DEF Inserts
    <3> QED BY <1>2, <3>1, <3>2, StepsWrite
  <2>3. TicksOK'
    BY <1>2, StepsGo DEF Typed
  <2>4. MindOK'
    <3>1. NextCycle \in Nat \ {0} /\ NextCycle + 1 \in Nat \ {0} /\ MindOK
      BY CycleIsNew DEF Typed
    <3>2. ticks[t].day \in {0} \cup Days
      BY DEF Typed, TicksOK, Tick
    <3>3. mind' = mind
          \/ \E d \in {mind.date, ticks[t].day}, n \in {NextCycle, NextCycle + 1} :
               mind' = [date |-> d, cycle |-> n]
      <4>1. CASE Reads(t) \/ Notes(t)
        BY <4>1, ReadsDo, NotesDo
      <4>2. CASE ClaimDay(t)
        BY <4>2, ClaimDayDoes
      <4>3. CASE WriteLate(t)
        BY <4>3, WriteLateDoes
      <4>4. CASE WriteToday(t)
        BY <4>4, WriteTodayDoes
      <4> QED BY <1>2, <4>1, <4>2, <4>3, <4>4, StepsSplit DEF Writes
    <3> QED BY <3>1, <3>2, <3>3 DEF MindOK
  <2> QED BY <1>1, <2>1, <2>2, <2>3, <2>4 DEF Typed
<1>3. ASSUME NEW t \in Ticks, Start(t) PROVE Typed'
  <2>1. UNCHANGED <<today, empty, source, entries, mind>>
    BY <1>3 DEF Start
  <2>2. TicksOK'
    <3>1. CASE UNCHANGED ticks
      BY <3>1 DEF Typed, TicksOK, At
    <3>2. CASE ticks' = [ticks EXCEPT ![t] =
                 [pc |-> IF empty THEN "older" ELSE "capture",
                  day |-> today, target |-> today]]
      BY <3>2 DEF Typed, TicksOK, Tick, Pcs, At
    <3> QED BY <1>3, <3>1, <3>2 DEF Start
  <2> QED BY <1>1, <2>1, <2>2 DEF Typed, SourceOK, EntriesOK, MindOK
<1>4. CASE Midnight
  <2>1. today' \in Days /\ UNCHANGED <<empty, source, entries, mind, ticks>>
    BY <1>4, DiaryAssumption DEF Midnight, Typed, Days
  <2> QED BY <1>1, <2>1 DEF Typed, SourceOK, EntriesOK, MindOK, TicksOK, At
<1>5. CASE Restart
  <2>1. UNCHANGED <<today, empty, source, entries, mind>> /\ TicksOK'
    BY <1>5 DEF Restart, TicksOK, Resting, Tick, Pcs, At
  <2> QED BY <1>1, <2>1 DEF Typed, SourceOK, EntriesOK, MindOK
<1>6. CASE UNCHANGED vars
  BY <1>6 DEF vars, Typed, SourceOK, EntriesOK, MindOK, TicksOK, At
<1>7. CASE FirstBelief
  BY <1>1, <1>7 DEF FirstBelief, Typed, SourceOK, EntriesOK, MindOK, TicksOK, At
<1> QED BY <1>2, <1>3, <1>4, <1>5, <1>6, <1>7 DEF Next

-----------------------------------------------------------------------------
(* A day is written once.                                                     *)

\* A run works on its day or, late, on an earlier one; these are captured, if
\* the mind is not empty.
RunOK(t) ==
  ~At(t, "rest") =>
    /\ ticks[t].day <= today
    /\ At(t, "capture") => ticks[t].day = today
    /\ ~At(t, "capture") => source[ticks[t].day].status # "none"
    /\ At(t, "draft") => ticks[t].target <= ticks[t].day
    /\ At(t, "late") \/ At(t, "insert") => ticks[t].target < ticks[t].day
    /\ At(t, "draft") \/ At(t, "late") \/ At(t, "insert") =>
         source[ticks[t].target].status # "none"
RunsOK == empty = FALSE /\ \A t \in Ticks : RunOK(t)

\* Statuses and cycles under a step.
SourceMoves(t) ==
  /\ \A d \in Days :
       /\ source[d].status # "none" => source'[d].status # "none"
       /\ source[d].status \in {"written", "failed"} => source'[d] = source[d]
       /\ source'[d].status = "pending" =>
            Pending(d) \/ (At(t, "capture") /\ d = ticks[t].day)

LEMMA SourcesMove ==
  ASSUME Typed, Calm, NEW t \in Ticks, Steps(t)
  PROVE  SourceMoves(t)
<1>1. CASE Quiet(t)
  <2>1. CASE UNCHANGED source
    BY <2>1 DEF SourceMoves, Pending
  <2>2. ASSUME NEW d \in Days, Turned(source', d), source'[d].cycle = source[d].cycle,
               \/ At(t, "capture") /\ d = ticks[t].day
               \/ source'[d].status \in {source[d].status, "failed"}
               \/ source'[d].status # "pending"
        PROVE  SourceMoves(t)
    BY <2>2 DEF SourceMoves, Turned, Pending
  <2> QED BY <1>1, <2>1, <2>2 DEF Quiet
<1>2. CASE Inserts(t)
  <2>1. PICK d \in Days : Insert(d)
    BY <1>2 DEF Inserts
  <2>2. /\ Turned(source', d)
        /\ Pending(d) => source'[d].status = "written"
        /\ ~Pending(d) => UNCHANGED source
    BY <2>1, InsertAdds
  <2> QED BY <2>2 DEF SourceMoves, Turned, Pending
<1> QED BY <1>1, <1>2, StepsWrite

LEMMA RunsInit == ~NewMind /\ Init => RunsOK
<1> SUFFICES ASSUME ~NewMind, Init PROVE RunsOK
  OBVIOUS
<1>1. empty \in {FALSE, NewMind} /\ NewMind = FALSE
  BY DiaryAssumption, Zenon DEF Init
<1>2. empty = FALSE
  BY <1>1, Zenon
<1> QED BY <1>2 DEF Init, RunsOK, RunOK, At, Resting

LEMMA RunsNext == Typed /\ Calm /\ RunsOK /\ [Next]_vars => RunsOK'
<1> SUFFICES ASSUME Typed, Calm, RunsOK, [Next]_vars PROVE RunsOK'
  OBVIOUS
<1>1. ASSUME NEW t \in Ticks, Steps(t) PROVE RunsOK'
  <2>1. /\ SourceMoves(t) /\ today' = today /\ Goes(t) /\ ~At(t, "rest") /\ TicksOK'
        /\ \A u \in Ticks \ {t} : ticks'[u] = ticks[u]
        /\ At(t, "capture") => source'[ticks[t].day].status # "none"
    <3>1. At(t, "capture") => ~Inserts(t)
      BY DEF Inserts, At
    <3> QED BY <1>1, <3>1, SourcesMove, StepsWrite, StepsGo DEF Typed
  <2>2. ASSUME NEW u \in Ticks \ {t} PROVE RunOK(u)'
    BY <2>1, <2>2 DEF RunsOK, RunOK, At, SourceMoves, Typed, TicksOK
  <2>3. RunOK(t)'
    <3>1. RunOK(t) /\ ticks[t].day \in Days /\ ticks[t].target \in Days
      BY <2>1 DEF RunsOK, Typed, TicksOK
    <3>2. ticks'[t].pc # "rest" => source'[ticks[t].day].status # "none"
      BY <2>1, <3>1 DEF RunOK, SourceMoves
    <3>3. CASE ticks'[t].pc \notin {"draft", "late", "insert"}
      BY <2>1, <3>1, <3>2, <3>3 DEF RunOK, Goes, At
    <3>4. CASE At(t, "older") /\ ticks'[t].pc = "draft"
      <4>1. /\ Older(ticks[t].day) # {} /\ ticks'[t].target = Min(Older(ticks[t].day))
            /\ ticks'[t].day = ticks[t].day
        BY <2>1, <3>4 DEF Goes, At
      <4>2. /\ ticks'[t].target \in Days /\ ticks'[t].target < ticks[t].day
            /\ Pending(ticks'[t].target)
        BY <3>1, <4>1, OlderDays
      <4> QED BY <2>1, <3>1, <3>2, <3>4, <4>1, <4>2, DayNumbers
              DEF RunOK, At, Pending, SourceMoves
    <3>5. CASE At(t, "claim") /\ ticks'[t].pc = "draft"
      <4>1. ticks'[t].target = ticks[t].day /\ ticks'[t].day = ticks[t].day
        BY <2>1, <3>5 DEF Goes, At
      <4> QED BY <2>1, <3>1, <3>2, <3>5, <4>1, DayNumbers DEF RunOK, At
    <3>6. CASE ticks'[t].pc \in {"late", "insert"}
      <4>1. /\ ticks'[t].target = ticks[t].target /\ ticks'[t].day = ticks[t].day
            /\ \/ At(t, "draft") /\ ticks[t].target < ticks[t].day
               \/ At(t, "late")
        BY <2>1, <3>6 DEF Goes, At
      <4> QED BY <2>1, <3>1, <3>2, <3>6, <4>1 DEF RunOK, At, SourceMoves
    <3>7. ticks'[t].pc = "draft" => At(t, "older") \/ At(t, "claim")
      BY <2>1 DEF Goes
    <3> QED BY <3>3, <3>4, <3>5, <3>6, <3>7
  <2>4. empty' = FALSE
    BY <1>1, StepsWrite DEF RunsOK
  <2> QED BY <2>2, <2>3, <2>4 DEF RunsOK
<1>2. ASSUME NEW t \in Ticks, Start(t) PROVE RunsOK'
  <2>1. UNCHANGED <<today, source, empty>> /\ empty = FALSE
    BY <1>2 DEF Start, RunsOK
  <2>2. CASE UNCHANGED ticks
    BY <2>1, <2>2 DEF RunsOK, RunOK, At
  <2>3. CASE ticks' = [ticks EXCEPT ![t] =
               [pc |-> IF empty THEN "older" ELSE "capture",
                day |-> today, target |-> today]]
    <3>1. /\ ticks'[t].pc = "capture" /\ ticks'[t].day = today
          /\ \A u \in Ticks \ {t} : ticks'[u] = ticks[u]
      BY <2>1, <2>3 DEF Typed, TicksOK
    <3>2. \A u \in Ticks \ {t} : RunOK(u)'
      BY <2>1, <3>1 DEF RunsOK, RunOK, At
    <3>3. RunOK(t)'
      BY <2>1, <3>1, DayNumbers DEF RunOK, At, Typed
    <3> QED BY <2>1, <3>2, <3>3 DEF RunsOK
  <2> QED BY <1>2, <2>2, <2>3 DEF Start
<1>3. CASE Midnight
  BY <1>3, DayNumbers DEF Midnight, RunsOK, RunOK, At, Typed, TicksOK
<1>4. CASE Restart
  BY <1>4 DEF Restart, RunsOK, RunOK, At, Resting
<1>5. CASE UNCHANGED vars
  BY <1>5 DEF vars, RunsOK, RunOK, At
<1>6. ~FirstBelief
  BY DEF FirstBelief, RunsOK
<1> QED BY <1>1, <1>2, <1>3, <1>4, <1>5, <1>6 DEF Next

\* An entry is of a day that had come when it was made and whose source is done
\* with; a cycle number is one entry's, and a source's is that of its own entry.
EntryInv ==
  /\ \A e \in entries : /\ e.day <= e.made /\ e.made <= today
                        /\ source[e.day].status \in {"written", "failed"}
  /\ \A e, f \in entries : e.cycle = f.cycle => e = f
  /\ \A d \in Days : source[d].cycle # 0 =>
       \E e \in entries : e.day = d /\ e.cycle = source[d].cycle
  /\ OneEntryPerDay

\* The task of a late entry has the queue to itself, and its day no entry.
InsertInv ==
  \A t \in Ticks : At(t, "insert") =>
    /\ \A u \in Ticks \ {t} : ~At(u, "insert")
    /\ \A e \in entries : e.day # ticks[t].target

WrittenInv == Typed /\ RunsOK /\ EntryInv /\ InsertInv

\* Today's claim finds every entry of today: one that was made today for today
\* is no other day's.
LEMMA NoRowNoEntry ==
  ASSUME Typed, EntryInv, NEW d \in Days, today = d, RowsOf(d) = {}
  PROVE  \A e \in entries : e.day # d
<1> SUFFICES ASSUME NEW e \in entries, e.day = d PROVE FALSE
  OBVIOUS
<1>1. e \in Entry
  BY DEF Typed, EntriesOK
<1>2. e.made = d
  <2>1. e.day <= e.made /\ e.made <= today /\ e.made \in Nat /\ d \in Nat
    BY <1>1, DayNumbers DEF EntryInv, Entry
  <2> QED BY <2>1
<1>3. PICK f \in Days \ {d} : source[f].cycle = e.cycle
  BY <1>2 DEF RowsOf
<1>4. PICK g \in entries : g.day = f /\ g.cycle = source[f].cycle
  BY <1>1, <1>3 DEF EntryInv, Entry
<1> QED BY <1>3, <1>4 DEF EntryInv

LEMMA EntryKept ==
  ASSUME WrittenInv, NEW t \in Ticks, UNCHANGED <<today, entries>>, Quiet(t), SourceMoves(t)
  PROVE  EntryInv'
<1>1. \A d \in Days : source'[d].cycle = source[d].cycle
  <2>1. CASE UNCHANGED source
    BY <2>1
  <2>2. ASSUME NEW c \in Days, Turned(source', c), source'[c].cycle = source[c].cycle
        PROVE  \A d \in Days : source'[d].cycle = source[d].cycle
    BY <2>2 DEF Turned
  <2> QED BY <2>1, <2>2 DEF Quiet
<1>2. \A e \in entries : source'[e.day] = source[e.day]
  BY DEF SourceMoves, WrittenInv, EntryInv, Typed, EntriesOK, Entry
<1> QED BY <1>1, <1>2 DEF WrittenInv, EntryInv, OneEntryPerDay

LEMMA EntryAdded ==
  ASSUME WrittenInv, NEW d \in Days, Insert(d), UNCHANGED today,
         d <= today, source[d].status # "none", \A e \in entries : e.day # d
  PROVE  EntryInv'
<1>1. PICK x \in Entry :
        /\ x.day = d /\ x.made = today /\ entries' = entries \cup {x}
        /\ \A e \in entries : e.cycle < x.cycle
        /\ Turned(source', d)
        /\ Pending(d) => source'[d].status = "written" /\ source'[d].cycle = x.cycle
        /\ ~Pending(d) => UNCHANGED source
  BY InsertAdds DEF WrittenInv
<1>2. source[d].status \in {"none", "pending", "written", "failed"} /\ entries \subseteq Entry
  BY DEF WrittenInv, Typed, SourceOK, Source, EntriesOK
<1>3. source'[d].status \in {"written", "failed"}
  BY <1>1, <1>2 DEF Pending
<1>4. \A e \in entries : source'[e.day] = source[e.day]
  BY <1>1, <1>2 DEF Turned, Entry
<1>5. \A e \in entries' : /\ e.day <= e.made /\ e.made <= today'
                          /\ source'[e.day].status \in {"written", "failed"}
  BY <1>1, <1>3, <1>4, DayNumbers DEF WrittenInv, EntryInv, Typed
<1>6. \A e \in entries : e.cycle # x.cycle
  BY <1>1, <1>2 DEF Entry
<1>7. \A e, f \in entries' : e.cycle = f.cycle => e = f
  BY <1>1, <1>6 DEF WrittenInv, EntryInv
<1>8. ASSUME NEW c \in Days, source'[c].cycle # 0
      PROVE  \E e \in entries' : e.day = c /\ e.cycle = source'[c].cycle
  <2>1. CASE source'[c] = source[c]
    BY <1>1, <1>8, <2>1 DEF WrittenInv, EntryInv
  <2>2. CASE c = d /\ Pending(d)
    BY <1>1, <2>2
  <2> QED BY <1>1, <2>1, <2>2 DEF Turned
<1>9. OneEntryPerDay'
  BY <1>1 DEF WrittenInv, EntryInv, OneEntryPerDay
<1> QED BY <1>5, <1>7, <1>8, <1>9 DEF EntryInv

LEMMA WrittenInit == ~NewMind /\ Init => WrittenInv
<1> SUFFICES ASSUME ~NewMind, Init PROVE WrittenInv
  OBVIOUS
<1>1. Typed /\ RunsOK
  BY TypeInit, RunsInit
<1>2. EntryInv
  BY DEF Init, EntryInv, OneEntryPerDay
<1>3. InsertInv
  BY DEF Init, InsertInv, At, Resting
<1> QED BY <1>1, <1>2, <1>3 DEF WrittenInv

LEMMA WrittenNext == WrittenInv /\ Calm /\ [Next]_vars => WrittenInv'
<1> SUFFICES ASSUME WrittenInv, Calm, [Next]_vars PROVE WrittenInv'
  OBVIOUS
<1>1. Typed' /\ RunsOK'
  BY TypeNext, RunsNext DEF WrittenInv
<1>2. ASSUME NEW t \in Ticks, Steps(t) PROVE EntryInv' /\ InsertInv'
  <2>1. /\ SourceMoves(t) /\ today' = today /\ Goes(t) /\ ~At(t, "rest")
        /\ \A u \in Ticks \ {t} : ticks'[u] = ticks[u]
    BY <1>2, SourcesMove, StepsWrite, StepsGo DEF WrittenInv, Typed
  <2>2. CASE UNCHANGED entries /\ Quiet(t)
    <3>1. EntryInv'
      BY <2>1, <2>2, EntryKept
    <3>2. CASE ticks'[t].pc = "insert"
      <4>1. QueueFree /\ Pending(ticks[t].target) /\ ticks'[t].target = ticks[t].target
        BY <2>1, <3>2 DEF Goes
      <4>2. \A e \in entries : e.day # ticks[t].target
        BY <4>1 DEF WrittenInv, EntryInv, Pending
      <4> QED BY <2>1, <2>2, <3>1, <4>1, <4>2 DEF InsertInv, QueueFree, At
    <3>3. CASE ticks'[t].pc # "insert"
      BY <2>1, <2>2, <3>1, <3>3 DEF InsertInv, WrittenInv, At
    <3> QED BY <3>2, <3>3
  <2>3. CASE Inserts(t)
    <3>1. PICK d \in Days :
            /\ Insert(d)
            /\ \/ At(t, "insert") /\ d = ticks[t].target
               \/ At(t, "write") /\ d = ticks[t].day /\ today = d /\ RowsOf(d) = {} /\ QueueFree
      BY <2>3 DEF Inserts
    <3>2. /\ d <= today /\ source[d].status # "none" /\ \A e \in entries : e.day # d
          /\ \A u \in Ticks \ {t} : ~At(u, "insert")
      <4>1. CASE At(t, "insert") /\ d = ticks[t].target
        BY <2>1, <4>1, DayNumbers DEF WrittenInv, InsertInv, RunsOK, RunOK, At, Typed, TicksOK
      <4>2. CASE /\ At(t, "write") /\ d = ticks[t].day
                 /\ today = d /\ RowsOf(d) = {} /\ QueueFree
        BY <2>1, <4>2, NoRowNoEntry, DayNumbers DEF WrittenInv, RunsOK, RunOK, At, QueueFree
      <4> QED BY <3>1, <4>1, <4>2
    <3>3. EntryInv'
      BY <2>1, <3>1, <3>2, EntryAdded
    <3>4. ticks'[t].pc # "insert"
      BY <2>1, <3>1 DEF Goes, At
    <3> QED BY <2>1, <3>2, <3>3, <3>4 DEF InsertInv, At
  <2> QED BY <1>2, <2>2, <2>3, StepsWrite DEF WrittenInv
<1>3. ASSUME NEW t \in Ticks, Start(t) PROVE EntryInv' /\ InsertInv'
  <2>1. UNCHANGED <<today, source, entries>>
    BY <1>3 DEF Start
  <2>2. \A u \in Ticks : ticks'[u].pc # "insert" \/ ticks'[u] = ticks[u]
    BY <1>3 DEF Start, WrittenInv, Typed, TicksOK
  <2> QED BY <2>1, <2>2 DEF EntryInv, OneEntryPerDay, InsertInv, WrittenInv, At
<1>4. CASE Midnight
  <2>1. today' = today + 1 /\ UNCHANGED <<source, entries, ticks>> /\ today \in Nat
    BY <1>4, DayNumbers DEF Midnight, WrittenInv, Typed
  <2>2. \A e \in entries : e.made \in Nat /\ e.made <= today
    BY DayNumbers DEF WrittenInv, EntryInv, Typed, EntriesOK, Entry
  <2>3. \A e \in entries : e.made <= today'
    BY <2>1, <2>2
  <2>4. EntryInv'
    BY <2>1, <2>3 DEF EntryInv, OneEntryPerDay, WrittenInv
  <2>5. InsertInv'
    BY <2>1 DEF InsertInv, WrittenInv, At
  <2> QED BY <1>1, <2>4, <2>5 DEF WrittenInv
<1>5. CASE Restart \/ UNCHANGED vars
  <2>1. UNCHANGED <<today, source, entries>>
    BY <1>5 DEF Restart, vars
  <2>2. \A t \in Ticks : ticks'[t].pc # "insert" \/ UNCHANGED ticks
    BY <1>5 DEF Restart, Resting, vars
  <2>3. EntryInv'
    BY <2>1 DEF EntryInv, OneEntryPerDay, WrittenInv
  <2>4. InsertInv'
    BY <2>1, <2>2 DEF InsertInv, WrittenInv, At
  <2> QED BY <1>1, <2>3, <2>4 DEF WrittenInv
<1>6. ~FirstBelief
  BY DEF FirstBelief, WrittenInv, RunsOK
<1> QED BY <1>1, <1>2, <1>3, <1>4, <1>5, <1>6 DEF Next, WrittenInv

-----------------------------------------------------------------------------
(* Days are written in their order.                                           *)

\* A D1 error while looking for older days is taken for none (index.ts 439, 476).
Sighted == Calm /\ "older" \notin Fragile /\ "more" \notin Fragile

NonePending(d) == \A e \in Days : e < d => ~Pending(e)

\* What a run is about to write has no older day before it, and what it inserts
\* no later entry.
InTurn(t) ==
  /\ At(t, "draft") \/ At(t, "late") \/ At(t, "insert") => NonePending(ticks[t].target)
  /\ At(t, "today") \/ At(t, "claim") \/ At(t, "write") => NonePending(ticks[t].day)
  /\ At(t, "insert") => \A e \in entries : e.day < ticks[t].target
OrderInv ==
  /\ \A e \in entries : NonePending(e.day)
  /\ InDayOrder
  /\ \A t \in Ticks : InTurn(t)

\* A day that becomes pending is today, so nothing that had its turn loses it.
LEMMA NonePendingKept ==
  ASSUME WrittenInv, NEW t \in Ticks, SourceMoves(t), NEW d \in Days, d <= today,
         NonePending(d)
  PROVE  NonePending(d)'
<1> SUFFICES ASSUME NEW e \in Days, e < d, Pending(e)' PROVE FALSE
  BY DEF NonePending
<1>1. At(t, "capture") /\ e = ticks[t].day
  BY DEF SourceMoves, NonePending, Pending
<1>2. e = today
  BY <1>1 DEF WrittenInv, RunsOK, RunOK, At
<1> QED BY <1>2, DayNumbers DEF WrittenInv, Typed

LEMMA OlderNone ==
  ASSUME NEW d \in Days, Older(d) = {}
  PROVE  NonePending(d)
  BY DEF Older, NonePending

LEMMA OrderInit == Init => OrderInv
  BY DEF Init, OrderInv, InDayOrder, InTurn, At, Resting

\* The turns of the runs after a step of t that leaves the entries as they are.
LEMMA TurnsKept ==
  ASSUME WrittenInv, OrderInv, Sighted, NEW t \in Ticks, Steps(t), WrittenInv',
         UNCHANGED entries
  PROVE  \A u \in Ticks : InTurn(u)'
<1>1. /\ SourceMoves(t) /\ today' = today /\ Goes(t) /\ ~At(t, "rest") /\ TicksOK /\ TicksOK'
      /\ \A u \in Ticks \ {t} : ticks'[u] = ticks[u]
  BY SourcesMove, StepsWrite, StepsGo DEF WrittenInv, Typed, Sighted
<1>2. \A u \in Ticks : ~At(u, "rest") =>
        /\ ticks[u].day \in Days /\ ticks[u].target \in Days /\ ticks[u].day <= today
        /\ At(u, "draft") \/ At(u, "late") \/ At(u, "insert") => ticks[u].target <= ticks[u].day
  BY <1>1, DayNumbers DEF WrittenInv, RunsOK, RunOK, TicksOK
<1>3. \A u \in Ticks : At(u, "draft") \/ At(u, "late") \/ At(u, "insert") =>
        ticks[u].target \in Days /\ ticks[u].target <= today
  <2> SUFFICES ASSUME NEW u \in Ticks, At(u, "draft") \/ At(u, "late") \/ At(u, "insert")
               PROVE  ticks[u].target \in Days /\ ticks[u].target <= today
    OBVIOUS
  <2>1. /\ ticks[u].day \in Days /\ ticks[u].target \in Days
        /\ ticks[u].target <= ticks[u].day /\ ticks[u].day <= today
    BY <1>2 DEF At
  <2> QED BY <2>1, DayNumbers DEF WrittenInv, Typed
<1>4. ASSUME NEW u \in Ticks \ {t} PROVE InTurn(u)'
  <2>1. ASSUME At(u, "draft") \/ At(u, "late") \/ At(u, "insert")
        PROVE  NonePending(ticks[u].target)'
    <3>1. NonePending(ticks[u].target) /\ ticks'[u] = ticks[u]
      BY <1>1, <2>1 DEF OrderInv, InTurn
    <3> DEFINE d == ticks[u].target
    <3>2. NonePending(d)'
      BY <1>1, <1>3, <2>1, <3>1, NonePendingKept DEF NonePending, Pending
    <3> QED BY <3>1, <3>2 DEF NonePending, Pending
  <2>2. ASSUME At(u, "today") \/ At(u, "claim") \/ At(u, "write")
        PROVE  NonePending(ticks[u].day)'
    <3>1. NonePending(ticks[u].day) /\ ticks'[u] = ticks[u]
      BY <1>1, <2>2 DEF OrderInv, InTurn
    <3>2. ticks[u].day \in Days /\ ticks[u].day <= today
      BY <1>2, <2>2 DEF At
    <3> QED BY <1>1, <3>1, <3>2, NonePendingKept DEF NonePending, Pending
  <2> QED BY <1>1, <2>1, <2>2 DEF OrderInv, InTurn, At
<1>5. InTurn(t)'
  <2>1. ticks[t].day \in Days /\ ticks[t].day <= today
    BY <1>1, <1>2
  <2>2. ASSUME ticks'[t].pc \in {"today", "claim", "write"}
        PROVE  NonePending(ticks[t].day)'
    <3>1. ticks'[t].day = ticks[t].day /\ NonePending(ticks[t].day)
      <4>1. CASE /\ ticks'[t].pc = "today" /\ ticks'[t].day = ticks[t].day
                 /\ Older(ticks[t].day) = {}
        BY <2>1, <4>1, OlderNone
      <4>2. CASE At(t, "today") /\ ticks'[t].pc = "claim" /\ ticks'[t].day = ticks[t].day
        BY <4>2 DEF OrderInv, InTurn
      <4>3. CASE /\ At(t, "draft") /\ ticks[t].target >= ticks[t].day
                 /\ ticks'[t].day = ticks[t].day
        <5>1. ticks[t].target = ticks[t].day
          BY <1>2, <4>3, DayNumbers DEF At
        <5> QED BY <4>3, <5>1 DEF OrderInv, InTurn
      <4> QED BY <1>1, <2>2, <4>1, <4>2, <4>3 DEF Goes, Sighted
    <3>2. NonePending(ticks[t].day)
      BY <3>1
    <3>3. \A e \in Days : e < ticks[t].day => ~Pending(e)'
      BY <1>1, <2>1, <3>2, NonePendingKept DEF NonePending
    <3> QED BY <3>1, <3>3 DEF NonePending
  <2>3. ASSUME ticks'[t].pc \in {"draft", "late", "insert"}
        PROVE  NonePending(ticks[t].target)'
    <3>1. /\ ticks'[t].target \in Days /\ ticks'[t].target <= today
          /\ NonePending(ticks'[t].target)
      <4>1. CASE /\ At(t, "older") /\ Older(ticks[t].day) # {}
                 /\ ticks'[t].target = Min(Older(ticks[t].day))
        <5>1. /\ ticks'[t].target \in Days /\ ticks'[t].target < ticks[t].day
              /\ NonePending(ticks'[t].target)
          BY <2>1, <4>1, OlderDays DEF NonePending
        <5> QED BY <2>1, <5>1, DayNumbers DEF WrittenInv, Typed
      <4>2. CASE At(t, "claim") /\ ticks'[t].target = ticks[t].day
        BY <2>1, <4>2 DEF OrderInv, InTurn
      <4>3. CASE (At(t, "draft") \/ At(t, "late")) /\ ticks'[t].target = ticks[t].target
        BY <1>3, <4>3 DEF OrderInv, InTurn
      <4> QED BY <1>1, <2>3, <4>1, <4>2, <4>3 DEF Goes
    <3> DEFINE d == ticks'[t].target
    <3>2. d \in Days /\ d <= today /\ NonePending(d)
      BY <3>1
    <3> HIDE DEF d
    <3>3. \A e \in Days : e < d => ~Pending(e)'
      <4> SUFFICES ASSUME NEW e \in Days, e < d, Pending(e)' PROVE FALSE
        OBVIOUS
      <4>1. e = today
        BY <1>1, <3>2 DEF SourceMoves, NonePending, Pending, WrittenInv, RunsOK, RunOK, At
      <4> QED BY <3>2, <4>1, DayNumbers DEF WrittenInv, Typed
    <3> QED BY <3>3 DEF NonePending, d
  <2>4. ASSUME ticks'[t].pc = "insert"
        PROVE  \A e \in entries' : e.day < ticks'[t].target
    <3>1. Pending(ticks[t].target) /\ ticks'[t].target = ticks[t].target /\ At(t, "late")
      BY <1>1, <2>4 DEF Goes
    <3>2. ticks[t].target \in Days
      BY <1>3, <3>1
    <3>3. \A e \in entries : e.day \in Days /\ NonePending(e.day) /\ ~Pending(e.day)
      BY DEF OrderInv, WrittenInv, EntryInv, Typed, EntriesOK, Entry, Pending
    <3>4. \A e \in entries : e.day < ticks[t].target
      BY <3>1, <3>2, <3>3, DayNumbers DEF NonePending
    <3> QED BY <3>1, <3>4
  <2> QED BY <2>2, <2>3, <2>4 DEF InTurn, At
<1> QED BY <1>4, <1>5

LEMMA OrderNext == WrittenInv /\ OrderInv /\ Sighted /\ WrittenInv' /\ [Next]_vars => OrderInv'
<1> SUFFICES ASSUME WrittenInv, OrderInv, Sighted, WrittenInv', [Next]_vars
             PROVE  OrderInv'
  OBVIOUS
<1>1. ASSUME NEW t \in Ticks, Steps(t) PROVE OrderInv'
  <2>1. /\ SourceMoves(t) /\ today' = today /\ Goes(t)
        /\ \A u \in Ticks \ {t} : ticks'[u] = ticks[u]
    BY <1>1, SourcesMove, StepsWrite, StepsGo DEF WrittenInv, Typed, Sighted
  <2>2. ASSUME NEW e \in entries PROVE NonePending(e.day)'
    <3>1. e.day \in Days /\ e.day <= today /\ NonePending(e.day)
      <4>1. e \in Entry /\ e.day <= e.made /\ e.made <= today
        BY DEF WrittenInv, Typed, EntriesOK, EntryInv
      <4> QED BY <4>1, DayNumbers DEF OrderInv, Entry, WrittenInv, Typed
    <3> QED BY <2>1, <3>1, NonePendingKept
  <2>3. CASE UNCHANGED entries
    BY <1>1, <2>2, <2>3, TurnsKept DEF OrderInv, InDayOrder
  <2>4. CASE Inserts(t)
    <3>1. PICK d \in Days :
            /\ Insert(d)
            /\ \/ At(t, "insert") /\ d = ticks[t].target
               \/ At(t, "write") /\ d = ticks[t].day /\ today = d /\ RowsOf(d) = {} /\ QueueFree
      BY <2>4 DEF Inserts
    <3>2. /\ d <= today /\ NonePending(d) /\ \A e \in entries : e.day < d
          /\ \A u \in Ticks \ {t} : ~At(u, "insert")
      <4>1. CASE At(t, "insert") /\ d = ticks[t].target
        BY <4>1, DayNumbers
        DEF WrittenInv, InsertInv, RunsOK, RunOK, At, Typed, TicksOK, OrderInv, InTurn
      <4>2. CASE /\ At(t, "write") /\ d = ticks[t].day
                 /\ today = d /\ RowsOf(d) = {} /\ QueueFree
        <5>1. \A e \in entries : e \in Entry /\ e.day <= e.made /\ e.made <= d /\ e.day # d
          BY <4>2, NoRowNoEntry DEF WrittenInv, EntryInv, Typed, EntriesOK
        <5>2. \A e \in entries : e.day < d
          BY <5>1, DayNumbers DEF Entry
        <5> QED BY <4>2, <5>2, DayNumbers DEF OrderInv, InTurn, At, QueueFree
      <4> QED BY <3>1, <4>1, <4>2
    <3>3. PICK x \in Entry : /\ x.day = d /\ entries' = entries \cup {x}
                             /\ \A e \in entries : e.cycle < x.cycle
      BY <3>1, InsertAdds DEF WrittenInv
    <3>4. \A e \in entries' : NonePending(e.day)'
      <4>1. NonePending(d)'
        BY <2>1, <3>2, NonePendingKept
      <4> QED BY <2>2, <3>3, <4>1 DEF NonePending, Pending
    <3>5. InDayOrder'
      <4>1. ~(x.day < x.day) /\ \A e \in entries : e.day < x.day /\ ~(x.day < e.day)
        BY <3>2, <3>3, DayNumbers DEF WrittenInv, Typed, EntriesOK, Entry
      <4> QED BY <3>3, <4>1 DEF OrderInv, InDayOrder
    <3>6. ASSUME NEW u \in Ticks PROVE InTurn(u)'
      <4>1. CASE u = t
        BY <2>1, <3>1, <4>1 DEF Goes, InTurn, At
      <4>2. CASE u # t
        <5>1. ticks'[u] = ticks[u] /\ ticks[u].pc # "insert" /\ InTurn(u)
          BY <2>1, <3>2, <4>2 DEF OrderInv, At
        <5>2. ASSUME ~At(u, "rest")
              PROVE  /\ ticks[u].day \in Days /\ ticks[u].day <= today /\ ticks[u].target \in Days
                     /\ At(u, "draft") \/ At(u, "late") => ticks[u].target <= today
          <6>1. ticks[u].day \in Days /\ ticks[u].target \in Days /\ today \in Days
            BY <5>2 DEF WrittenInv, Typed, TicksOK
          <6> QED BY <5>2, <6>1, DayNumbers DEF WrittenInv, RunsOK, RunOK
        <5>3. At(u, "draft") \/ At(u, "late") => NonePending(ticks[u].target)'
          BY <2>1, <5>1, <5>2, NonePendingKept DEF InTurn, At, NonePending, Pending
        <5>4. At(u, "today") \/ At(u, "claim") \/ At(u, "write") => NonePending(ticks[u].day)'
          BY <2>1, <5>1, <5>2, NonePendingKept DEF InTurn, At, NonePending, Pending
        <5> QED BY <5>1, <5>3, <5>4 DEF InTurn, At
      <4> QED BY <4>1, <4>2
    <3> QED BY <3>4, <3>5, <3>6 DEF OrderInv
  <2> QED BY <1>1, <2>3, <2>4, StepsWrite DEF WrittenInv, Sighted
<1>2. CASE ~(\E t \in Ticks : Steps(t))
  <2>1. UNCHANGED <<source, entries>>
    BY <1>2 DEF Next, Start, Midnight, FirstBelief, Restart, vars
  <2>2. \A u \in Ticks : ticks'[u].pc \in {"rest", "older", "capture"} \/ ticks'[u] = ticks[u]
    BY <1>2 DEF Next, Start, Midnight, FirstBelief, Restart, Resting, vars,
                WrittenInv, Typed, TicksOK
  <2>3. \A u \in Ticks : InTurn(u)'
    BY <2>1, <2>2 DEF OrderInv, InTurn, At, NonePending, Pending
  <2> QED BY <2>1, <2>3 DEF OrderInv, InDayOrder, NonePending, Pending
<1> QED BY <1>1, <1>2

-----------------------------------------------------------------------------
(* What the Mind believes of a day.                                           *)

Has(d) == \E e \in entries : e.day = d

\* A written source is tied to the entry of its day, and a run that is about to
\* mark its source has seen the entry of its day.
KnownInv ==
  /\ \A e \in entries : source[e.day].cycle = e.cycle
  /\ \A d \in Days : source[d].status = "written" => Has(d)
  /\ mind.date # 0 => Has(mind.date)
  /\ \A t \in Ticks : At(t, "mark") => Has(ticks[t].day)

\* A row that the claim of a day finds is that day's entry.
LEMMA RowIsEntry ==
  ASSUME Typed, KnownInv, NEW d \in Days, RowsOf(d) # {}
  PROVE  Has(d)
<1>1. PICK e \in entries : \A f \in Days \ {d} : source[f].cycle # e.cycle
  BY DEF RowsOf
<1>2. e.day \in Days /\ source[e.day].cycle = e.cycle
  BY DEF Typed, EntriesOK, Entry, KnownInv
<1> QED BY <1>1, <1>2 DEF Has

\* Where the Mind's date comes from.
LEMMA DatesMove ==
  ASSUME Typed, Calm, NEW t \in Ticks, Steps(t)
  PROVE  /\ \/ mind'.date = mind.date
            \/ RowsOf(ticks[t].day) # {} /\ mind'.date = ticks[t].day
            \/ \E e \in entries' : e.day = mind'.date
         /\ ticks'[t].pc = "mark" =>
              /\ ticks'[t].day = ticks[t].day
              /\ mind.date = ticks[t].day \/ RowsOf(ticks[t].day) # {}
<1>1. Goes(t) /\ TicksOK
  BY StepsGo DEF Typed
<1>2. CASE Reads(t) \/ Notes(t)
  <2>1. mind' = mind /\ ~At(t, "claim")
    BY <1>2, ReadsDo, NotesDo
    DEF Calm, Reads, LookOlder, CheckLate, LookMore, ReadSource, Notes, Capture, Draft,
        MarkSource, At
  <2> QED BY <1>1, <2>1 DEF Goes
<1>3. CASE ClaimDay(t)
  <2> DEFINE adopted == [date |-> ticks[t].day, cycle |-> NextCycle]
  <2>1. \/ mind' = mind
        \/ RowsOf(ticks[t].day) # {} /\ mind'.date = ticks[t].day
    <3>1. \/ mind' = mind
          \/ RowsOf(ticks[t].day) # {} /\ mind' = adopted
      BY <1>3, ClaimDayDoes
    <3> QED BY <3>1
  <2>2. \/ mind.date = ticks[t].day \/ RowsOf(ticks[t].day) # {}
        \/ Stop(t) \/ ticks' = [ticks EXCEPT ![t].pc = "draft", ![t].target = ticks[t].day]
    BY <1>3, ClaimDayDoes
  <2>3. Stop(t) \/ ticks' = [ticks EXCEPT ![t].pc = "draft", ![t].target = ticks[t].day]
        => ticks'[t].pc # "mark"
    BY <1>1 DEF Stop, Resting, TicksOK, Tick
  <2> QED BY <1>1, <2>1, <2>2, <2>3 DEF Goes
<1>4. CASE WriteLate(t)
  BY <1>1, <1>4, WriteLateDoes DEF Goes, At
<1>5. CASE WriteToday(t)
  <2>1. ~At(t, "claim")
    BY <1>5, WriteTodayDoes DEF At
  <2> DEFINE dated(n) == [date |-> ticks[t].day, cycle |-> n]
  <2>2. \/ mind' = mind
        \/ RowsOf(ticks[t].day) # {} /\ mind'.date = ticks[t].day
        \/ Insert(ticks[t].day) /\ mind'.date = ticks[t].day
    <3>1. \/ mind' = mind
          \/ RowsOf(ticks[t].day) # {} /\ mind' = dated(NextCycle)
          \/ Insert(ticks[t].day) /\ mind' = dated(NextCycle + 1)
      BY <1>5, WriteTodayDoes
    <3>2. \A n : dated(n).date = ticks[t].day
      OBVIOUS
    <3> HIDE DEF dated
    <3> QED BY <3>1, <3>2
  <2>3. ticks[t].day \in Days
    BY <1>5, WriteTodayDoes DEF At, Typed, TicksOK
  <2>4. Insert(ticks[t].day) => \E e \in entries' : e.day = ticks[t].day
    BY <2>3, InsertAdds
  <2> QED BY <1>1, <2>1, <2>2, <2>4 DEF Goes
<1> QED BY <1>2, <1>3, <1>4, <1>5, StepsSplit DEF Writes

LEMMA KnownInit == Init => KnownInv
  BY DEF Init, KnownInv, At, Resting

LEMMA KnownNext ==
  WrittenInv /\ (ParkedUnwritten => KnownInv) /\ Calm /\ WrittenInv' /\ [Next]_vars
    => (ParkedUnwritten => KnownInv)'
<1> SUFFICES ASSUME WrittenInv, ParkedUnwritten => KnownInv, Calm, WrittenInv', [Next]_vars,
                    ParkedUnwritten'
             PROVE  KnownInv'
  OBVIOUS
<1>1. ASSUME NEW t \in Ticks, Steps(t) PROVE KnownInv'
  <2>1. /\ SourceMoves(t) /\ Goes(t) /\ ~At(t, "rest") /\ ticks[t].day \in Days
        /\ \A u \in Ticks \ {t} : ticks'[u] = ticks[u]
    BY <1>1, SourcesMove, StepsGo DEF WrittenInv, Typed, TicksOK
  <2>2. entries \subseteq entries'
    BY <1>1, StepsWrite DEF Inserts, Insert, WrittenInv
  <2>3. ParkedUnwritten /\ KnownInv
    BY <2>1, <2>2 DEF ParkedUnwritten, SourceMoves
  <2>4. \A d : Has(d) => Has(d)'
    BY <2>2 DEF Has
  <2>5. RowsOf(ticks[t].day) # {} => Has(ticks[t].day)
    BY <2>1, <2>3, RowIsEntry DEF WrittenInv
  <2>6. mind'.date # 0 => Has(mind.date)'
    <3>1. CASE mind'.date = mind.date
      BY <2>3, <2>4, <3>1 DEF KnownInv, Has
    <3>2. CASE Has(ticks[t].day) /\ mind'.date = ticks[t].day
      BY <2>4, <3>2 DEF Has
    <3> QED BY <1>1, <2>5, <3>1, <3>2, DatesMove DEF WrittenInv, Has
  <2>7. ASSUME NEW u \in Ticks, ticks'[u].pc = "mark" PROVE Has(ticks[u].day)'
    <3>1. Has(ticks[u].day) /\ ticks'[u].day = ticks[u].day
      <4>1. CASE u = t
        <5>1. /\ ticks'[t].day = ticks[t].day
              /\ mind.date = ticks[t].day \/ RowsOf(ticks[t].day) # {}
          BY <1>1, <2>7, <4>1, DatesMove DEF WrittenInv
        <5>2. ticks[t].day # 0
          BY <2>1, DayNumbers
        <5> QED BY <2>3, <2>5, <4>1, <5>1, <5>2 DEF KnownInv
      <4>2. CASE u # t
        BY <2>1, <2>3, <2>7, <4>2 DEF KnownInv, At
      <4> QED BY <4>1, <4>2
    <3> QED BY <2>4, <3>1 DEF Has
  <2>8. /\ \A e \in entries' : source'[e.day].cycle = e.cycle
        /\ \A d \in Days : source'[d].status = "written" => Has(d)'
    <3>1. \A e \in entries : source'[e.day] = source[e.day] /\ source[e.day].cycle = e.cycle
      BY <2>1, <2>3 DEF SourceMoves, KnownInv, WrittenInv, EntryInv, Typed, EntriesOK, Entry
    <3>2. CASE UNCHANGED entries /\ Quiet(t)
      <4>1. \A e \in entries' : source'[e.day].cycle = e.cycle
        BY <3>1, <3>2
      <4>2. ASSUME NEW d \in Days, source'[d].status = "written", ~Has(d) PROVE FALSE
        <5>1. source[d].status # "written"
          BY <2>3, <4>2 DEF KnownInv
        <5>2. PICK c \in Days :
                /\ Turned(source', c)
                /\ \/ source'[c].status \in {source[c].status, "pending"}
                   \/ At(t, "draft") /\ source'[c].status \in {source[c].status, "failed"}
                   \/ At(t, "mark") /\ c = ticks[t].day
          BY <3>2, <4>2, <5>1 DEF Quiet
        <5>3. c = d
          BY <4>2, <5>1, <5>2 DEF Turned
        <5>4. CASE At(t, "mark") /\ c = ticks[t].day
          BY <2>3, <4>2, <5>3, <5>4 DEF KnownInv
        <5> QED BY <2>1, <4>2, <5>1, <5>2, <5>3, <5>4
      <4> QED BY <2>4, <4>1, <4>2
    <3>3. CASE Inserts(t)
      <4>1. PICK d \in Days :
              /\ Insert(d)
              /\ \/ At(t, "insert") /\ d = ticks[t].target
                 \/ At(t, "write") /\ d = ticks[t].day /\ today = d /\ RowsOf(d) = {}
        BY <3>3 DEF Inserts
      <4>2. ~Has(d) /\ source[d].status # "none"
        BY <2>1, <4>1, NoRowNoEntry
        DEF WrittenInv, InsertInv, RunsOK, RunOK, At, Has
      <4>3. PICK x \in Entry :
              /\ x.day = d /\ entries' = entries \cup {x} /\ Turned(source', d)
              /\ Pending(d) => source'[d].status = "written" /\ source'[d].cycle = x.cycle
              /\ ~Pending(d) => UNCHANGED source
        BY <4>1, InsertAdds DEF WrittenInv
      <4>4. Pending(d)
        <5>1. source[d].status \in {"pending", "failed"}
          BY <2>3, <4>2 DEF KnownInv, WrittenInv, Typed, SourceOK, Source
        <5>2. source[d].status # "failed"
          BY <4>3 DEF ParkedUnwritten, Pending
        <5> QED BY <5>1, <5>2 DEF Pending
      <4>5. \A e \in entries' : source'[e.day].cycle = e.cycle
        BY <3>1, <4>3, <4>4
      <4>6. \A c \in Days : source'[c].status = "written" => Has(c)'
        BY <2>3, <2>4, <4>3 DEF Turned, KnownInv, Has
      <4> QED BY <4>5, <4>6
    <3> QED BY <1>1, <3>2, <3>3, StepsWrite DEF WrittenInv
  <2> QED BY <2>6, <2>7, <2>8 DEF KnownInv, At
<1>2. CASE ~(\E t \in Ticks : Steps(t))
  <2>1. UNCHANGED <<source, entries, mind>>
    BY <1>2 DEF Next, Start, Midnight, FirstBelief, Restart, vars
  <2>2. \A u \in Ticks : ticks'[u].pc # "mark" \/ ticks'[u] = ticks[u]
    BY <1>2 DEF Next, Start, Midnight, FirstBelief, Restart, Resting, vars,
                WrittenInv, Typed, TicksOK
  <2>3. KnownInv
    BY <2>1 DEF ParkedUnwritten
  <2> QED BY <2>1, <2>2, <2>3 DEF KnownInv, Has, At
<1> QED BY <1>1, <1>2

\* The values of the diary stay in their types: a frozen day, its attempts, a
\* cycle number, a run's day (index.ts 364-525), whatever fails, and whether or
\* not the mind has a belief.
THEOREM TypeCorrect == Spec => []TypeOK
<1>1. Init => Typed
  BY TypeInit
<1>2. Typed /\ [Next]_vars => Typed'
  BY TypeNext
<1>3. Typed => TypeOK
  BY TypedOK
<1> QED BY <1>1, <1>2, <1>3, PTL DEF Spec

\* No day has two entries, however many runs of the cron overlap, whatever a
\* failed save or a restart leaves behind, and although a late entry is made on
\* another day than its own (index.ts 364-365, 498-499), for a mind that has a
\* belief and whose runs freeze their day: no capture fails.
THEOREM OnceOnly == ~NewMind /\ Calm => (Spec => []OneEntryPerDay)
<1> SUFFICES ASSUME ~NewMind, Calm PROVE Spec => []OneEntryPerDay
  OBVIOUS
<1>1. Init => WrittenInv
  BY WrittenInit
<1>2. WrittenInv /\ [Next]_vars => WrittenInv'
  BY WrittenNext
<1>3. WrittenInv => OneEntryPerDay
  BY DEF WrittenInv, EntryInv
<1> QED BY <1>1, <1>2, <1>3, PTL DEF Spec

\* Days that were missed are caught up with before today is written, so that
\* cycle numbers are in the order of the days (index.ts 404-405), provided that
\* D1 also answers whenever a run looks for older days.
THEOREM InOrder == ~NewMind /\ Sighted => (Spec => []InDayOrder)
<1> SUFFICES ASSUME ~NewMind, Sighted PROVE Spec => []InDayOrder
  OBVIOUS
<1>1. Init => WrittenInv /\ OrderInv
  BY WrittenInit, OrderInit
<1>2. WrittenInv /\ OrderInv /\ [Next]_vars => WrittenInv' /\ OrderInv'
  BY WrittenNext, OrderNext DEF Sighted
<1>3. OrderInv => InDayOrder
  BY DEF OrderInv
<1> QED BY <1>1, <1>2, <1>3, PTL DEF Spec

\* The Mind believes a day written only if it has an entry, so that a late entry
\* is never taken for that of the day it was made on (index.ts 369-370), provided
\* that no day was parked while its late entry was being written and no capture
\* failed.
THEOREM KnownIsWritten == ~NewMind /\ Calm => (Spec => []DateHasEntry)
<1> SUFFICES ASSUME ~NewMind, Calm PROVE Spec => []DateHasEntry
  OBVIOUS
<1> DEFINE Known == ParkedUnwritten => KnownInv
<1>1. Init => WrittenInv /\ Known
  BY WrittenInit, KnownInit
<1>2. WrittenInv /\ Known /\ [Next]_vars => WrittenInv' /\ Known'
  BY WrittenNext, KnownNext
<1>3. Known => DateHasEntry
  BY DEF KnownInv, DateHasEntry, Has
<1> HIDE DEF Known
<1> QED BY <1>1, <1>2, <1>3, PTL DEF Spec

=============================================================================
