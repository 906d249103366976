----------------------------- MODULE Schedules -----------------------------
(***************************************************************************)
(* Scheduled agents: packages/server/src/server/schedule/service.ts over    *)
(* the files of store.ts.                                                  *)
(*                                                                         *)
(* A timer starts a tick every second whether or not the last one has       *)
(* ended.  A tick lists the schedules once, then walks the list and waits   *)
(* for each run it starts, so a long run holds a list that grows old while  *)
(* other ticks, users and archived agents change the files.  store.ts       *)
(* serialises the read-modify-write of one file: each is one action here.   *)
(*                                                                         *)
(* Time is a number; a slot of the cadence falls on each (computeNextRunAt  *)
(* is the next number), which loses nothing but the length of the gaps.     *)
(***************************************************************************)
EXTENDS Naturals, Sequences, FiniteSets, SequencesExt

CONSTANTS
  Ids,        \* schedules
  NewAgent,   \* those whose target creates an agent, in a workspace of the run
  Keeps,      \* those with archiveOnFinish = false
  Ticks,      \* ticks that may be under way at once
  MaxTime, MaxInputs   \* bounds: on time, and on edits, runs by hand, losses and restarts together

ASSUME ScheduleAssumption ==
  /\ IsFiniteSet(Ids) /\ NewAgent \subseteq Ids /\ Keeps \subseteq NewAgent
  /\ 0 \notin Ticks
  /\ MaxTime \in Nat

VARIABLES
  sched,      \* the files: status, next slot (0: none), maximum, runs
  gone,       \* schedules whose target agent is archived, or whose directory is removed
  archiving,  \* those of them that completeForAgent is still to complete
  running,    \* runningScheduleIds
  runs,       \* runs under way in this process
  ticks,      \* the rest of each tick's list; waiting for a run it started
  spaces,     \* workspaces of runs that exist
  lost,       \* history: workspaces that no file told of when the daemon stopped, for
              \* their record was not written yet or their schedule was deleted
  failed,     \* history: workspaces whose archive failed
  kept,       \* history: workspaces whose agent was made to stay
  now, started, inputs   \* time, runs so far, use of the bound

process == <<running, runs, ticks>>
rooms == <<spaces, lost, failed, kept>>
vars == <<sched, gone, archiving, process, rooms, now, started, inputs>>

Open == {"active", "paused"}
Fresh == [status |-> "absent", next |-> 0, max |-> 0, done |-> 0, open |-> {}]
Free == [todo |-> <<>>, waits |-> FALSE]

Init ==
  /\ sched = [i \in Ids |-> Fresh]
  /\ gone = {} /\ archiving = {} /\ running = {} /\ runs = {}
  /\ ticks = [k \in Ticks |-> Free]
  /\ spaces = {} /\ lost = {} /\ failed = {} /\ kept = {}
  /\ now = 1 /\ started = 0
  /\ inputs = 0

\* computeNextRunAt, repeated until the slot is in the future.
After(slot) == (IF slot > now THEN slot ELSE now) + 1

With(s, status, next, max) == [s EXCEPT !.status = status, !.next = next, !.max = max]

Completed(s) == With(s, "completed", 0, s.max)

\* shouldCompleteSchedule; an expiry date is left out.
ShouldComplete(s) == s.max > 0 /\ s.done >= s.max

\* The file is there: without it an operation throws (requireSchedule).
Exists(i) == sched[i].status \notin {"absent", "deleted"}

Time ==
  /\ now < MaxTime /\ now' = now + 1
  /\ UNCHANGED <<sched, gone, archiving, process, rooms, started, inputs>>

-----------------------------------------------------------------------------
(* What users and agents do to a schedule.                                  *)

Input == inputs < MaxInputs /\ inputs' = inputs + 1

Edit(i, s) ==
  /\ Input
  /\ sched' = [sched EXCEPT ![i] = s]
  /\ UNCHANGED <<gone, archiving, process, rooms, now, started>>

Create(i) ==
  /\ sched[i].status = "absent" /\ i \notin gone
  /\ \E next \in {now, now + 1}, max \in {0, 1} :
       Edit(i, With(Fresh, "active", next, max))

\* createOrReplace of a schedule that has the name and target already.
Replace(i) ==
  /\ sched[i].status \in Open
  /\ \E next \in {now, now + 1}, max \in {0, 1} :
       Edit(i, With(sched[i], "active", next, max))

Pause(i) ==
  /\ sched[i].status = "active"
  /\ Edit(i, With(sched[i], "paused", 0, sched[i].max))

Resume(i) ==
  /\ sched[i].status = "paused"
  /\ Edit(i, With(sched[i], "active", now + 1, sched[i].max))

\* Mutant: a new cadence gives a slot to a schedule that is not active.
NewSlotAny(s) == now + 1

\* The slot a new cadence gives.
NewSlot(s) == IF s.status = "active" THEN now + 1 ELSE 0

\* update: a new cadence, a new maximum, or both.
Update(i) ==
  /\ Exists(i)
  /\ \E next \in {sched[i].next, NewSlot(sched[i])}, max \in {0, 1} :
       Edit(i, With(sched[i], sched[i].status, next, max))

Delete(i) == Exists(i) /\ Edit(i, [Fresh EXCEPT !.status = "deleted"])

\* The target agent is archived, or the working directory removed.
TargetGone(i) ==
  /\ Input
  /\ i \notin gone /\ gone' = gone \cup {i}
  /\ archiving' = IF i \in NewAgent THEN archiving ELSE archiving \cup {i}
  /\ UNCHANGED <<sched, process, rooms, now, started>>

\* completeScheduleForAgent, and the sweep at start.
CompletesOpen(s) == IF s.status \in Open THEN Completed(s) ELSE s

CompleteForAgent(i) ==
  /\ i \in archiving /\ archiving' = archiving \ {i}
  /\ sched' = [sched EXCEPT ![i] = CompletesOpen(@)]
  /\ UNCHANGED <<gone, process, rooms, now, started, inputs>>

-----------------------------------------------------------------------------
(* Ticks and runs.                                                          *)

Run(i, manual, tick) ==
  [n |-> started + 1, id |-> i, step |-> "append", manual |-> manual, tick |-> tick,
   agent |-> FALSE, outcome |-> "none"]

\* runSchedule up to its first await.
Begin(i, manual, tick) ==
  /\ running' = running \cup {i}
  /\ runs' = runs \cup {Run(i, manual, tick)}
  /\ started' = started + 1

\* Mutant: a run by hand does not look whether one is under way.
RunOnceAlways(i) ==
  /\ Input
  /\ sched[i].status \in Open
  /\ Begin(i, TRUE, 0)
  /\ UNCHANGED <<sched, gone, archiving, ticks, rooms, now>>

RunOnce(i) ==
  /\ Input
  /\ sched[i].status \in Open /\ i \notin running
  /\ Begin(i, TRUE, 0)
  /\ UNCHANGED <<sched, gone, archiving, ticks, rooms, now>>

\* What the loop of a tick does to a schedule depends on the list it read alone,
\* but for a schedule that is running when the loop comes to it.
Entry(i) == [id |-> i, ends |-> ShouldComplete(sched[i])]
ToDo == {i \in Ids : sched[i].status = "active" /\ sched[i].next > 0
                     /\ (ShouldComplete(sched[i]) \/ sched[i].next <= now)}

TickStart(k) ==
  /\ ticks[k] = Free /\ ToDo # {}
  /\ LET listed == SetToSeq(ToDo)
     IN  ticks' = [ticks EXCEPT ![k].todo = [j \in 1..Len(listed) |-> Entry(listed[j])]]
  /\ UNCHANGED <<sched, gone, archiving, running, runs, rooms, now, started, inputs>>

Rest(k) == [ticks EXCEPT ![k].todo = Tail(@)]

TickSkip(k) ==
  /\ ticks[k].todo # <<>> /\ ~ticks[k].waits
  /\ Head(ticks[k].todo).id \in running
  /\ ticks' = Rest(k)
  /\ UNCHANGED <<sched, gone, archiving, running, runs, rooms, now, started, inputs>>

\* completeScheduleIfDue looks again; a file that is gone ends the tick.
TickComplete(k) ==
  /\ ticks[k].todo # <<>> /\ ~ticks[k].waits
  /\ LET entry == Head(ticks[k].todo)
         s == sched[entry.id]
     IN  /\ entry.ends /\ entry.id \notin running
         /\ ticks' = IF Exists(entry.id) THEN Rest(k) ELSE [ticks EXCEPT ![k] = Free]
         /\ sched' = IF s.status = "active" /\ s.next > 0 /\ ShouldComplete(s)
                     THEN [sched EXCEPT ![entry.id] = Completed(s)] ELSE sched
  /\ UNCHANGED <<gone, archiving, running, runs, rooms, now, started, inputs>>

TickRun(k) ==
  /\ ticks[k].todo # <<>> /\ ~ticks[k].waits
  /\ LET entry == Head(ticks[k].todo)
     IN  /\ ~entry.ends /\ entry.id \notin running
         /\ Begin(entry.id, FALSE, k)
  /\ ticks' = [ticks EXCEPT ![k].waits = TRUE]
  /\ UNCHANGED <<sched, gone, archiving, rooms, now, inputs>>

Becomes(r, s) == runs' = (runs \ {r}) \cup {s}

\* The tick that waited goes on with its list, or ends if the run threw.
Released(r, threw) ==
  ticks' = IF r.tick \notin Ticks THEN ticks
           ELSE [ticks EXCEPT ![r.tick] = IF threw THEN Free
                                          ELSE [todo |-> Tail(@.todo), waits |-> FALSE]]

\* appendRunningRun is outside the try: when the file is gone the schedule's id
\* stays in runningScheduleIds.
AppendRun(r) ==
  /\ r.step = "append"
  /\ IF Exists(r.id)
     THEN /\ sched' = [sched EXCEPT ![r.id].open =
                         @ \cup {[n |-> r.n, space |-> FALSE, agent |-> FALSE]}]
          /\ Becomes(r, [r EXCEPT !.step = "start"])
          /\ UNCHANGED ticks
     ELSE /\ runs' = runs \ {r} /\ Released(r, TRUE)
          /\ UNCHANGED sched
  /\ UNCHANGED <<gone, archiving, running, rooms, now, started, inputs>>

Ends(r, outcome) ==
  [r EXCEPT !.outcome = outcome,
            !.step = IF r.n \in spaces THEN "clean" ELSE "finish"]

\* executeSchedule to its first effect: the target is looked for, an agent that
\* is busy refuses, a workspace is made for a new agent (or cannot be).
StartRun(r) ==
  /\ r.step = "start"
  /\ \/ r.id \in gone /\ Becomes(r, Ends(r, "gone")) /\ UNCHANGED spaces
     \/ r.id \notin gone /\ Becomes(r, Ends(r, "failed")) /\ UNCHANGED spaces
     \/ /\ r.id \notin gone \cup NewAgent
        /\ Becomes(r, [r EXCEPT !.step = "run"]) /\ UNCHANGED spaces
     \/ /\ r.id \in NewAgent \ gone
        /\ Becomes(r, [r EXCEPT !.step = "record"]) /\ spaces' = spaces \cup {r.n}
  /\ UNCHANGED <<sched, gone, archiving, running, ticks, lost, failed, kept, now, started, inputs>>

Noted(r, agent) ==
  [sched EXCEPT ![r.id].open =
     {IF o.n = r.n THEN [n |-> r.n, space |-> TRUE, agent |-> agent] ELSE o : o \in @}]

\* recordRunWorkspace, before the agent is created and after.
RecordSpace(r) ==
  /\ r.step \in {"record", "name"}
  /\ IF Exists(r.id)
     THEN /\ sched' = Noted(r, r.agent)
          /\ Becomes(r, [r EXCEPT !.step = IF @ = "record" THEN "create" ELSE "run"])
     ELSE Becomes(r, Ends(r, "failed")) /\ UNCHANGED sched
  /\ UNCHANGED <<gone, archiving, running, ticks, rooms, now, started, inputs>>

CreateAgent(r) ==
  /\ r.step = "create"
  /\ \/ /\ Becomes(r, [r EXCEPT !.agent = TRUE, !.step = "name"])
        /\ kept' = IF r.id \in Keeps THEN kept \cup {r.n} ELSE kept
     \/ Becomes(r, Ends(r, "failed")) /\ UNCHANGED kept
  /\ UNCHANGED <<sched, gone, archiving, running, ticks, spaces, lost, failed>>
  /\ UNCHANGED <<now, started, inputs>>

RunEnds(r) ==
  /\ r.step = "run"
  /\ \E outcome \in {"succeeded", "failed"} : Becomes(r, Ends(r, outcome))
  /\ UNCHANGED <<sched, gone, archiving, running, ticks, rooms, now, started, inputs>>

\* shouldArchiveScheduleRunWorkspace
Archives(i, agent) == ~agent \/ i \notin Keeps

\* The finally of executeSchedule. An archive that fails is only logged.
Clean(r) ==
  /\ r.step = "clean"
  /\ Becomes(r, [r EXCEPT !.step = "finish"])
  /\ \/ /\ spaces' = IF Archives(r.id, r.agent) THEN spaces \ {r.n} ELSE spaces
        /\ UNCHANGED failed
     \/ Archives(r.id, r.agent) /\ failed' = failed \cup {r.n} /\ UNCHANGED spaces
  /\ UNCHANGED <<sched, gone, archiving, running, ticks, lost, kept, now, started, inputs>>

\* Mutant: the end of a run sets the next slot whatever happened meanwhile.
SettledAlways(r, s) ==
  CASE r.outcome = "gone" -> Completed(s)
    [] r.outcome # "gone" /\ r.manual -> s
    [] OTHER -> IF ShouldComplete(s) THEN Completed(s)
                ELSE With(s, "active", After(s.next), s.max)

\* finishRun on the file as it is now: a target that is gone completes it, a
\* schedule completed meanwhile stays so, a run by hand moves no slot.
Settled(r, s) ==
  CASE r.outcome = "gone" -> Completed(s)
    [] r.outcome # "gone" /\ (s.status = "completed" \/ r.manual) -> s
    [] OTHER -> IF ShouldComplete(s) THEN Completed(s)
                ELSE [s EXCEPT !.next = IF s.status = "paused" THEN 0 ELSE After(s.next)]

\* Mutant: only a run that succeeded gives its schedule free.
FreedBySuccess(r) == IF r.outcome = "succeeded" THEN running \ {r.id} ELSE running

Freed(r) == running \ {r.id}

\* The run is marked as ended in its file.
Ended(r, s) == [s EXCEPT !.open = {o \in @ : o.n # r.n}, !.done = @ + 1]

FinishRun(r) ==
  /\ r.step = "finish"
  /\ LET s == sched[r.id]
     IN  sched' = IF Exists(r.id) THEN [sched EXCEPT ![r.id] = Settled(r, Ended(r, s))] ELSE sched
  /\ running' = Freed(r)
  /\ runs' = runs \ {r} /\ Released(r, ~Exists(r.id))
  /\ UNCHANGED <<gone, archiving, rooms, now, started, inputs>>

-----------------------------------------------------------------------------
(* The daemon stops at any point and starts again.                          *)

\* The first run that a file marks as running.
FirstOpen(s) == {o \in s.open : \A p \in s.open : o.n <= p.n}

\* recoverInterruptedSchedule: the first run marked running has failed, and a
\* slot that passed is skipped. A completed schedule keeps its status.
Recovered(s) ==
  [s EXCEPT !.open = @ \ FirstOpen(s),
            !.done = IF s.open = {} THEN @ ELSE @ + 1,
            !.next = IF s.status = "active" /\ @ <= now THEN After(@) ELSE @]

\* Mutant: recovery archives nothing.
InterruptedNone(i) == {}

\* The workspace recovery archives for schedule i: that of the run cut short, if the
\* file has it.
Interrupted(i) ==
  IF i \in NewAgent
  THEN {o.n : o \in {p \in FirstOpen(sched[i]) : p.space /\ Archives(i, p.agent)}} ELSE {}

\* Completed by the sweep, before any request is served.
Swept(i, s) == IF i \in gone \ NewAgent THEN CompletesOpen(s) ELSE s

\* No file tells of the workspace of run r.
Untold(r) == r.step = "record" \/ ~Exists(r.id)

\* Recovery goes through the files there are; an archive that fails is only logged.
Restart ==
  /\ Input
  /\ sched' = [i \in Ids |-> Swept(i, Recovered(sched[i]))]
  /\ LET archived == UNION {Interrupted(i) : i \in Ids}
     IN  \E unable \in SUBSET archived :
           /\ spaces' = spaces \ (archived \ unable)
           /\ failed' = failed \cup unable
  /\ lost' = lost \cup {r.n : r \in {x \in runs : x.n \in spaces /\ Untold(x)}}
  /\ running' = {} /\ runs' = {} /\ archiving' = {}
  /\ ticks' = [k \in Ticks |-> Free]
  /\ UNCHANGED <<gone, kept, now, started>>

-----------------------------------------------------------------------------
RunStep(r) ==
  \/ AppendRun(r) \/ StartRun(r) \/ RecordSpace(r) \/ CreateAgent(r)
  \/ RunEnds(r) \/ Clean(r) \/ FinishRun(r)

TickStep(k) == TickStart(k) \/ TickSkip(k) \/ TickComplete(k) \/ TickRun(k)

Next ==
  \/ Time \/ Restart
  \/ \E i \in Ids :
       \/ Create(i) \/ Replace(i) \/ Pause(i) \/ Resume(i) \/ Update(i) \/ Delete(i)
       \/ RunOnce(i) \/ TargetGone(i) \/ CompleteForAgent(i)
  \/ \E k \in Ticks : TickStart(k) \/ TickSkip(k) \/ TickComplete(k) \/ TickRun(k)
  \/ \E r \in runs :
       \/ AppendRun(r) \/ StartRun(r) \/ RecordSpace(r) \/ CreateAgent(r)
       \/ RunEnds(r) \/ Clean(r) \/ FinishRun(r)

Spec == Init /\ [][Next]_vars

\* The timer ticks, runs end, and an archived agent's schedules are completed.
LiveSpec ==
  /\ Spec
  /\ \A k \in Ticks : WF_vars(TickStep(k))
  /\ WF_vars(\E r \in runs : RunStep(r))
  /\ \A i \in Ids : WF_vars(CompleteForAgent(i))

-----------------------------------------------------------------------------
\* A schedule never has two runs at once, whatever ticks and users do; and its
\* file says a run is under way exactly when one is.
OneRunning ==
  \A i \in Ids :
    LET under == {r \in runs : r.id = i /\ r.step # "append"}
    IN  /\ Cardinality({r \in runs : r.id = i}) <= 1
        /\ Exists(i) => {o.n : o \in sched[i].open} = {r.n : r \in under}

\* An active schedule has a next slot and one that is not has none, so that a
\* paused or completed schedule fires no more and an active one is not forgotten.
SlotIffActive ==
  \A i \in Ids : sched[i].next > 0 <=> sched[i].status = "active"

\* A workspace made for a run outlives it only where its agent was made to stay, where
\* the archive failed, or where the daemon stopped when no file told of it: before its
\* record was written, or after its schedule was deleted.  What a file tells of,
\* recovery archives, at whatever step the run was cut short.
SpacesFreed == spaces \subseteq {r.n : r \in runs} \cup kept \cup failed \cup lost

\* A schedule that was completed while one of its runs was under way stays so: the
\* end of the run, a restart or an edit never brings it back.
CompletedIsFinal ==
  [][\A i \in Ids :
       sched[i].status = "completed" => sched'[i].status \in {"completed", "deleted"}]_vars

Due(i) == sched[i].status = "active" /\ sched[i].next <= now

\* A schedule that is due is run, or stops being due: no end of a run, deletion of
\* another schedule or restart leaves it waiting for ever.  And the schedules of an
\* archived agent all end, the paused ones too.
SchedulesServed ==
  /\ \A i \in Ids : Due(i) ~> ~Due(i)
  /\ \A i \in Ids \ NewAgent :
       i \in gone /\ Exists(i) ~> sched[i].status \in {"completed", "deleted"}

\* A schedule that nobody runs by hand or edits runs at most its maximum of times.
WithinMaxRuns ==
  inputs <= Cardinality({i \in Ids : sched[i].status # "absent"}) =>
    \A i \in Ids : sched[i].max > 0 => sched[i].done + Cardinality(sched[i].open) <= sched[i].max

=============================================================================
