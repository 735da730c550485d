------------------------------ MODULE DiaryDays ------------------------------
(* The daily diary (index.ts, runScheduledDiary and what it calls): runs of   *)
(* the cron in the Mind, the rows of diaries and diary_sources in D1, and the *)
(* day the Mind's state says was written.                                     *)
(*                                                                            *)
(* A task of the writer queue is one step, or the step that ends at an await  *)
(* where the outside can interfere; what a failure in it leaves behind is     *)
(* chosen in the step.  A Mind restarted, or that dropped its memory after a  *)
(* failed save, reads the storage again, so only the stored state is kept.    *)
EXTENDS Faults, FiniteSetsExt

CONSTANTS
  Ticks,        \* runs of the cron that may overlap
  LastDay,      \* days are 1 .. LastDay (bound)
  MaxAttempts,  \* DIARY_MAX_ATTEMPTS
  NewMind       \* the mind may begin without a belief

ASSUME DiaryAssumption ==
  /\ LastDay \in Nat \ {0} /\ MaxAttempts \in Nat \ {0} /\ NewMind \in BOOLEAN

VARIABLES
  today,    \* the UTC day of the clock
  empty,    \* the mind has no belief yet
  source,   \* diary_sources by day; "none" is no row
  entries,  \* diaries: whose day a row is, its cycle, the day it was created
  mind,     \* the stored diaryDate (0 is none) and next cycle
  ticks     \* where a run is, the day it was scheduled for, the day it drafts
vars == <<today, empty, source, entries, mind, ticks, faults>>

Days == 1 .. LastDay
Resting == [pc |-> "rest", day |-> 0, target |-> 0]

Init ==
  /\ today = 1 /\ empty \in {FALSE, NewMind} /\ entries = {} /\ NoFaultYet
  /\ source = [d \in Days |-> [status |-> "none", attempts |-> 0, cycle |-> 0]]
  /\ mind = [date |-> 0, cycle |-> 1]
  /\ ticks = [t \in Ticks |-> Resting]

At(t, pc) == ticks[t].pc = pc
Goto(t, pc) == ticks' = [ticks EXCEPT ![t].pc = pc]
Stop(t) == ticks' = [ticks EXCEPT ![t] = Resting]

\* The writer queue admits one task; the only one of several steps is that of
\* a late entry, between its check and its insert.
QueueFree == \A t \in Ticks : ~At(t, "insert")

-----------------------------------------------------------------------------
\* Sources.

Pending(d) == source[d].status = "pending"
OlderThanYesterday(d) == {e \in Days : e + 1 < d /\ Pending(e)}
Older(d) == {e \in Days : e < d /\ Pending(e)}

\* INSERT OR IGNORE: only the first attempt of a day freezes its beliefs.
Captured(d) ==
  IF source[d].status = "none" THEN [source EXCEPT ![d].status = "pending"]
  ELSE source

\* A failed draft is counted, and a day that keeps failing is parked.
NotedUncounted(d) == source
Noted(d) ==
  LET n == source[d].attempts + 1 IN
  IF ~Pending(d) THEN source
  ELSE [source EXCEPT ![d].attempts = n,
                      ![d].status = IF n >= MaxAttempts THEN "failed" ELSE @]

\* The update batched with an insert, and the one after an adoption.
Tied(d, n) ==
  IF Pending(d) THEN [source EXCEPT ![d].status = "written", ![d].cycle = n]
  ELSE source
Marked(d) ==
  IF Pending(d) THEN [source EXCEPT ![d].status = "written"] ELSE source

-----------------------------------------------------------------------------
\* Entries.

MaxCycle == Max({0} \cup {e.cycle : e \in entries})
NextCycle == Max({mind.cycle, MaxCycle + 1})

\* lookupDiaryDay: rows created on day d, but for the late entries of other days.
RowsCreated(d) == {e \in entries : e.made = d}
RowsOf(d) ==
  {e \in entries : /\ e.made = d
                   /\ \A f \in Days \ {d} : source[f].cycle # e.cycle}

Insert(d) ==
  /\ entries' = entries \cup {[day |-> d, cycle |-> NextCycle, made |-> today]}
  /\ source' = Tied(d, NextCycle)

\* Insert and update land together or not at all; after a lost answer, a failed
\* save or a restart the Mind does not know of an entry that did land.
Write(t, d, date, next) ==
  \/ Works /\ Insert(d) /\ next /\ mind' = [date |-> date, cycle |-> NextCycle + 1]
  \/ Fails("save") /\ Insert(d) /\ Stop(t) /\ UNCHANGED mind
  \/ Fails("insert") /\ Stop(t) /\ UNCHANGED <<entries, source, mind>>

ClaimUnread(t, done, free) ==
  LET d == ticks[t].day IN
  \/ Works /\ mind.date = d /\ done /\ UNCHANGED <<entries, source, mind>>
  \/ mind.date # d /\ free

\* claimDiaryDay: done if the day is known to be written; an entry that D1 has
\* and the Mind lacks is adopted; free if D1 has none; without D1, no write.
Claim(t, done, free) ==
  LET d == ticks[t].day IN
  \/ Works /\ mind.date = d /\ done /\ UNCHANGED <<entries, source, mind>>
  \/ /\ mind.date # d /\ RowsOf(d) # {}
     /\ UNCHANGED <<entries, source>>
     /\ \/ Works /\ done /\ mind' = [date |-> d, cycle |-> NextCycle]
        \/ Fails("save") /\ Stop(t) /\ UNCHANGED mind
  \/ mind.date # d /\ RowsOf(d) = {} /\ free
  \/ mind.date # d /\ Fails("lookup") /\ Stop(t) /\ UNCHANGED <<entries, source, mind>>

-----------------------------------------------------------------------------
\* A run of the cron.

\* A run for a day that the Mind knows to be written stops at once.  One that is
\* delivered on another day than it was scheduled for changes nothing.
Start(t) ==
  /\ At(t, "rest")
  /\ IF mind.date = today THEN UNCHANGED ticks
     ELSE ticks' = [ticks EXCEPT ![t] =
            [pc |-> IF empty THEN "older" ELSE "capture",
             day |-> today, target |-> today]]
  /\ UNCHANGED <<today, empty, source, entries, mind, faults>>

Capture(t) ==
  /\ At(t, "capture") /\ Goto(t, "older")
  /\ \/ Works /\ source' = Captured(ticks[t].day)
     \/ Fails("capture") /\ UNCHANGED source
  /\ UNCHANGED <<today, empty, entries, mind>>

\* catchUpDiary: the oldest pending day before today is drafted first.
LookOlder(t) ==
  /\ At(t, "older")
  /\ LET late == Older(ticks[t].day) IN
     \/ Works /\ late = {} /\ Goto(t, "today")
     \/ /\ Works /\ late # {}
        /\ ticks' = [ticks EXCEPT ![t].pc = "draft", ![t].target = Min(late)]
     \/ Fails("older") /\ Goto(t, "today")
  /\ UNCHANGED <<today, empty, source, entries, mind>>

\* The AI is asked outside the queue; it may fail, or its text be rejected.
Draft(t) ==
  /\ At(t, "draft")
  /\ LET d == ticks[t].target IN
     \/ /\ Goto(t, IF d < ticks[t].day THEN "late" ELSE "write")
        /\ UNCHANGED <<source, faults>>
     \/ Works /\ Stop(t) /\ source' = Noted(d)
     \/ Fails("note") /\ Stop(t) /\ UNCHANGED source
  /\ UNCHANGED <<today, empty, entries, mind>>

\* In the queue: a source that is no longer pending, or unreadable, is left.
CheckLate(t) ==
  /\ At(t, "late") /\ QueueFree
  /\ \/ Works /\ Goto(t, IF Pending(ticks[t].target) THEN "insert" ELSE "more")
     \/ Fails("source") /\ Goto(t, "more")
  /\ UNCHANGED <<today, empty, source, entries, mind>>
WriteLate(t) ==
  /\ At(t, "insert")
  /\ Write(t, ticks[t].target, mind.date, Goto(t, "more"))
  /\ UNCHANGED <<today, empty>>

\* Another older day may still be pending; the next run continues.
LookMore(t) ==
  /\ At(t, "more")
  /\ \/ Works /\ IF Older(ticks[t].day) # {} THEN Stop(t) ELSE Goto(t, "today")
     \/ Fails("more") /\ Goto(t, "today")
  /\ UNCHANGED <<today, empty, source, entries, mind>>

\* A parked day is left; a day without beliefs, frozen or live, has no entry.
ReadSource(t) ==
  /\ At(t, "today")
  /\ LET status == source[ticks[t].day].status IN
     \/ /\ Works
        /\ IF status = "failed" \/ (status = "none" /\ empty) THEN Stop(t)
           ELSE Goto(t, "claim")
     \/ Fails("source") /\ IF empty THEN Stop(t) ELSE Goto(t, "claim")
  /\ UNCHANGED <<today, empty, source, entries, mind>>

ClaimDay(t) ==
  /\ At(t, "claim") /\ QueueFree
  /\ Claim(t, Goto(t, "mark"),
           /\ Works /\ UNCHANGED <<entries, source, mind>>
           /\ ticks' = [ticks EXCEPT ![t].pc = "draft", ![t].target = ticks[t].day])
  /\ UNCHANGED <<today, empty>>

MarkSource(t) ==
  /\ At(t, "mark") /\ Stop(t)
  /\ \/ Works /\ source' = Marked(ticks[t].day)
     \/ Fails("mark") /\ UNCHANGED source
  /\ UNCHANGED <<today, empty, entries, mind>>

\* In the queue: claim again, and write only if it is still the day's day.
WriteToday(t) ==
  LET d == ticks[t].day IN
  /\ At(t, "write") /\ QueueFree
  /\ Claim(t, Stop(t),
           \/ today # d /\ Works /\ Stop(t) /\ UNCHANGED <<entries, source, mind>>
           \/ today = d /\ Write(t, d, d, Stop(t)))
  /\ UNCHANGED <<today, empty>>

-----------------------------------------------------------------------------
\* The clock, the first belief (a mind never becomes empty again), and a
\* restart of the Mind, which ends every run.
Midnight ==
  /\ today < LastDay /\ today' = today + 1
  /\ \A t \in Ticks : ~At(t, "capture")
  /\ UNCHANGED <<empty, source, entries, mind, ticks, faults>>
FirstBelief ==
  /\ empty /\ empty' = FALSE
  /\ UNCHANGED <<today, source, entries, mind, ticks, faults>>
Restart ==
  /\ Fails("restart") /\ ticks' = [t \in Ticks |-> Resting]
  /\ UNCHANGED <<today, empty, source, entries, mind>>

Steps(t) ==
  \/ Capture(t) \/ LookOlder(t) \/ Draft(t) \/ CheckLate(t) \/ WriteLate(t)
  \/ LookMore(t) \/ ReadSource(t) \/ ClaimDay(t) \/ MarkSource(t) \/ WriteToday(t)

Next == \/ \E t \in Ticks : Start(t) \/ Steps(t)
        \/ Midnight \/ FirstBelief \/ Restart

Spec == Init /\ [][Next]_vars

\* The clock and the cron go on, and a run goes on until it ends; every failure
\* but those of the AI is one of finitely many.
LiveSpec == /\ Spec /\ SF_vars(Midnight)
            /\ \A t \in Ticks : WF_vars(Start(t)) /\ WF_vars(Steps(t))

-----------------------------------------------------------------------------
TypeOK ==
  /\ today \in Days /\ empty \in BOOLEAN /\ faults \in Nat
  /\ source \in [Days -> [status : {"none", "pending", "written", "failed"},
                          attempts : 0 .. MaxAttempts, cycle : Nat]]
  /\ entries \subseteq [day : Days, cycle : Nat \ {0}, made : Days]
  /\ mind \in [date : {0} \cup Days, cycle : Nat \ {0}]
  /\ ticks \in [Ticks -> [pc : {"rest", "capture", "older", "draft", "late",
                                "insert", "more", "today", "claim", "mark", "write"},
                          day : {0} \cup Days, target : {0} \cup Days]]

\* No day is written twice: not by two runs that draft at once, not after a
\* save that failed, nor by a late run of a day that was written
\* (index.ts 364-365, 498-499).
OneEntryPerDay == \A e, f \in entries : e.day = f.day => e = f

\* Days that were missed are caught up with before today is written: cycle
\* numbers are in the order of the days (index.ts 404-405).
InDayOrder == \A e, f \in entries : e.day < f.day => e.cycle < f.cycle

\* The Mind believes a day written only if that day has an entry: it does not
\* take a late entry of another day for it (index.ts 369-370), provided that
\* no day was parked while its late entry was being written.
ParkedUnwritten ==
  \A d \in Days : source[d].status = "failed" => \A e \in entries : e.day # d
DateHasEntry ==
  ParkedUnwritten /\ mind.date # 0 => \E e \in entries : e.day = mind.date

\* No day that was frozen is lost: it is written or, after MaxAttempts, parked
\* (index.ts 402-407), unless the model's last day ends before its turn.
FrozenIsFinished == \A d \in Days : Pending(d) ~> ~Pending(d) \/ mind.date = LastDay
=============================================================================
