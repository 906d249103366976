---------------------------- MODULE ScheduleProofs ----------------------------
(***************************************************************************)
(* Proofs about Schedules, for any finite set of schedules and any number   *)
(* of overlapping ticks, edits, losses and restarts.                        *)
(***************************************************************************)
EXTENDS Schedules, FiniteSetTheorems, TLAPS

Statuses == {"absent", "active", "paused", "completed", "deleted"}
OpenRuns == [n : Nat, space : BOOLEAN, agent : BOOLEAN]
Files == [status : Statuses, next : Nat, max : Nat, done : Nat, open : SUBSET OpenRuns]
Steps == {"append", "start", "record", "create", "name", "run", "clean", "finish"}
Outcomes == {"none", "gone", "succeeded", "failed"}
RunsOf == [n : Nat, id : Ids, step : Steps, manual : BOOLEAN, tick : Ticks \cup {0},
           agent : BOOLEAN, outcome : Outcomes]
Entries == [id : Ids, ends : BOOLEAN]
Flags == BOOLEAN
Lists == [todo : Seq(Entries), waits : Flags]

TypeOK ==
  /\ sched \in [Ids -> Files]
  /\ running \subseteq Ids /\ runs \in SUBSET RunsOf
  /\ now \in Nat \ {0} /\ started \in Nat

\* A schedule that has a run was created at some time, and so was one on a list.
Known == \A r \in runs : sched[r.id].status # "absent"

OnList(t) == {t.todo[j].id : j \in 1..Len(t.todo)}

TicksOK ==
  /\ ticks \in [Ticks -> Lists]
  /\ \A k \in Ticks : \A i \in OnList(ticks[k]) : sched[i].status # "absent"

\* Runs have numbers of their own, one at a time for each schedule.
Unique ==
  /\ \A r \in runs : r.id \in running /\ r.n \in 1..started
  /\ \A r, q \in runs : r.id = q.id \/ r.n = q.n => r = q

\* What a file says is under way is under way, and the reverse.
Recorded ==
  /\ \A i \in Ids : ~Exists(i) => sched[i].open = {}
  /\ \A i \in Ids : \A o \in sched[i].open :
       \E r \in runs : r.id = i /\ r.step # "append" /\ r.n = o.n
  /\ \A i \in Ids : \A o, p \in sched[i].open : o.n = p.n => o = p
  /\ \A r \in runs : r.step # "append" /\ Exists(r.id) => \E o \in sched[r.id].open : o.n = r.n

\* A workspace has a run that will still clean it up, or nothing ever will.
Cared ==
  /\ spaces \subseteq 1..started
  /\ \A n \in spaces : n \in lost \cup failed \cup kept
       \/ \E r \in runs : r.n = n /\ r.step \notin {"append", "start", "finish"}
  /\ \A r \in runs : r.agent /\ r.id \in Keeps => r.n \in kept

\* Once it is recorded, the file tells of a run's workspace for as long as there is a
\* file, and of no agent that the run has not got.
Told ==
  \A r \in runs :
    /\ r.n \in spaces => r.id \in NewAgent /\ r.step \notin {"append", "start"}
    /\ r.n \in spaces /\ ~Untold(r) => \A o \in sched[r.id].open : o.space
    /\ \A o \in sched[r.id].open : o.agent => r.agent

IInv == TypeOK /\ Known /\ Unique /\ Recorded /\ Cared /\ Told /\ SlotIffActive

----------------------------------------------------------------------------
(* The operators. *)

\* The list of a tick names schedules that were active.
LEMMA Listed ==
  ASSUME NEW S \in SUBSET Ids
  PROVE  SetToSeq(S) \in Seq(S)
<1>1. IsFiniteSet(S)
  BY ScheduleAssumption, FS_Subset
<1>2. Cardinality(S) \in Nat /\ ExistsBijection(1..Cardinality(S), S)
  BY <1>1, FS_CardinalityType
<1>3. PICK f \in [1..Cardinality(S) -> S] : \A a, b \in 1..Cardinality(S) : f[a] = f[b] => a = b
  BY <1>2 DEF ExistsBijection, Bijection, Injection, IsInjective
<1>4. \E g \in [1..Cardinality(S) -> S] : IsInjective(g)
  BY <1>3 DEF IsInjective
<1>5. SetToSeq(S) \in [1..Cardinality(S) -> S]
  BY <1>4 DEF SetToSeq
<1> QED BY <1>2, <1>5

LEMMA AfterFacts ==
  ASSUME now \in Nat \ {0}, NEW slot \in Nat
  PROVE  After(slot) \in Nat /\ After(slot) > 0
BY DEF After

\* A new status, slot and maximum leave the rest of the file alone.
LEMMA WithFacts ==
  ASSUME NEW s \in Files, NEW status \in Statuses, NEW next \in Nat, NEW max \in Nat
  PROVE  /\ With(s, status, next, max) \in Files /\ With(s, status, next, max).open = s.open
         /\ With(s, status, next, max).status = status /\ With(s, status, next, max).next = next
<1> DEFINE t == [s EXCEPT !.status = status]
           u == [t EXCEPT !.next = next]
           v == [u EXCEPT !.max = max]
<1>1. t \in Files /\ t.open = s.open /\ t.status = status
  BY DEF Files
<1>2. u \in Files /\ u.open = s.open /\ u.status = status /\ u.next = next
  <2> HIDE DEF t
  <2> QED BY <1>1 DEF Files
<1>3. v \in Files /\ v.open = s.open /\ v.status = status /\ v.next = next
  <2> HIDE DEF u
  <2> QED BY <1>2 DEF Files
<1>4. With(s, status, next, max) = v
  BY DEF With
<1> QED BY <1>3, <1>4

LEMMA EndedFacts ==
  ASSUME NEW s \in Files, NEW r
  PROVE  /\ Ended(r, s) \in Files /\ Ended(r, s).open = {o \in s.open : o.n # r.n}
         /\ Ended(r, s).status = s.status /\ Ended(r, s).next = s.next
<1> DEFINE t == [s EXCEPT !.open = {o \in s.open : o.n # r.n}]
           u == [t EXCEPT !.done = s.done + 1]
<1>1. s.done + 1 \in Nat /\ {o \in s.open : o.n # r.n} \in SUBSET OpenRuns
  BY DEF Files
<1>2. /\ t \in Files /\ t.open = {o \in s.open : o.n # r.n}
      /\ t.status = s.status /\ t.next = s.next
  BY <1>1 DEF Files
<1>3. u \in Files /\ u.open = t.open /\ u.status = t.status /\ u.next = t.next
  <2> HIDE DEF t
  <2> QED BY <1>1, <1>2 DEF Files
<1>4. Ended(r, s) = [s EXCEPT !.open = {o \in s.open : o.n # r.n}, !.done = s.done + 1]
  BY DEF Ended, Files
<1>5. Ended(r, s) = u
  BY <1>4
<1> QED BY <1>2, <1>3, <1>5

LEMMA CompletedFacts ==
  ASSUME NEW s \in Files
  PROVE  /\ Completed(s) \in Files /\ Completed(s).open = s.open
         /\ Completed(s).status = "completed" /\ Completed(s).next = 0
         /\ CompletesOpen(s) \in Files /\ CompletesOpen(s).open = s.open
         /\ CompletesOpen(s) = s \/ (CompletesOpen(s) = Completed(s) /\ s.status \in Open)
<1>1. /\ Completed(s) \in Files /\ Completed(s).open = s.open
      /\ Completed(s).status = "completed" /\ Completed(s).next = 0
  <2>1. "completed" \in Statuses /\ s.max \in Nat /\ 0 \in Nat
    BY DEF Statuses, Files
  <2> QED BY <2>1, WithFacts DEF Completed
<1> QED BY <1>1 DEF CompletesOpen

\* The end of a run keeps what is open, completes or keeps the status, and gives
\* a slot to an active schedule alone.
LEMMA SettledFacts ==
  ASSUME NEW r, NEW s \in Files, now \in Nat \ {0},
         s.status \notin {"absent", "deleted"}, s.next > 0 <=> s.status = "active"
  PROVE  /\ Settled(r, s) \in Files /\ Settled(r, s).open = s.open
         /\ Settled(r, s).status \in {s.status, "completed"}
         /\ Settled(r, s).next > 0 <=> Settled(r, s).status = "active"
<1>1. CASE Settled(r, s) = Completed(s)
  BY <1>1, CompletedFacts
<1>2. CASE Settled(r, s) = s
  BY <1>2
<1>3. CASE /\ s.status # "completed"
           /\ Settled(r, s) = [s EXCEPT !.next = IF s.status = "paused" THEN 0 ELSE After(s.next)]
  <2>1. s.next \in Nat /\ s.status \in Statuses
    BY DEF Files
  <2>2. After(s.next) \in Nat /\ After(s.next) > 0
    BY <2>1, AfterFacts
  <2> QED BY <1>3, <2>1, <2>2 DEF Files, Statuses
<1> QED BY <1>1, <1>2, <1>3 DEF Settled

\* The one run of a file is its first.
LEMMA FirstFacts ==
  ASSUME NEW s \in Files, \A o, p \in s.open : o = p
  PROVE  FirstOpen(s) = s.open
<1>1. \A o \in s.open : o.n \in Nat
  BY DEF Files, OpenRuns
<1>2. \A o, p \in s.open : o.n <= p.n
  BY <1>1
<1> QED BY <1>2 DEF FirstOpen

\* A restart ends the one run of a file, and gives a slot to an active schedule alone.
LEMMA RecoveredFacts ==
  ASSUME NEW s \in Files, now \in Nat \ {0}, s.next > 0 <=> s.status = "active",
         \A o, p \in s.open : o = p
  PROVE  /\ Recovered(s) \in Files /\ Recovered(s).open = {}
         /\ Recovered(s).status = s.status
         /\ Recovered(s).next > 0 <=> s.status = "active"
<1> DEFINE cut == s.open \ FirstOpen(s)
           next == IF s.status = "active" /\ s.next <= now THEN After(s.next) ELSE s.next
           done == IF s.open = {} THEN s.done ELSE s.done + 1
<1>1. Recovered(s) = [s EXCEPT !.open = cut, !.done = done, !.next = next]
  BY DEF Recovered
<1>2. s.next \in Nat /\ s.done \in Nat /\ s.open \in SUBSET OpenRuns
  BY DEF Files
<1>3. cut = {}
  <2>1. FirstOpen(s) = s.open
    BY FirstFacts
  <2> QED BY <2>1
<1>4. next \in Nat /\ (next > 0 <=> s.status = "active") /\ done \in Nat
  BY <1>2, AfterFacts
<1> DEFINE t == [s EXCEPT !.open = cut]
           u == [t EXCEPT !.done = done]
           v == [u EXCEPT !.next = next]
<1>5. Recovered(s) = v
  BY <1>1
<1> HIDE DEF cut, next, done
<1>6. t \in Files /\ t.open = {} /\ t.status = s.status
  BY <1>3 DEF Files
<1>7. u \in Files /\ u.open = {} /\ u.status = s.status
  <2> HIDE DEF t
  <2> QED BY <1>4, <1>6 DEF Files
<1>8. v \in Files /\ v.open = {} /\ v.status = s.status /\ v.next = next
  <2> HIDE DEF u
  <2> QED BY <1>4, <1>7 DEF Files
<1> QED BY <1>4, <1>5, <1>8

----------------------------------------------------------------------------
LEMMA Initially == Init => IInv
<1> SUFFICES ASSUME Init PROVE IInv
  OBVIOUS
<1>1. Fresh \in Files /\ Fresh.open = {} /\ Fresh.status = "absent" /\ Fresh.next = 0
  BY DEF Fresh, Files, Statuses
<1>2. TypeOK
  BY <1>1 DEF Init, TypeOK
<1>3. Known /\ Unique /\ Recorded /\ Cared /\ Told
  BY <1>1 DEF Init, Known, Unique, Recorded, Cared, Told, Exists
<1> QED BY <1>1, <1>2, <1>3 DEF Init, IInv, SlotIffActive

\* What changes nothing but the time, the users' budget and what is archived.
LEMMA Idle ==
  ASSUME IInv, UNCHANGED <<sched, running, runs, rooms, started>>, now' \in Nat \ {0}
  PROVE  IInv'
BY DEF IInv, TypeOK, Known, Unique, Recorded, Cared, Told, Untold, SlotIffActive, Exists, rooms

\* One file changes, and what it says is open does not.
LEMMA FileKeeps ==
  ASSUME IInv, NEW i \in Ids, NEW f \in Files, f = sched[i],
         NEW s \in Files, sched' = [sched EXCEPT ![i] = s],
         s.open = f.open, s.status \notin {"absent", "deleted"},
         f.status # "deleted", s.next > 0 <=> s.status = "active",
         UNCHANGED <<running, runs, rooms, now, started>>
  PROVE  IInv'
<1>1. sched'[i] = s /\ \A j \in Ids \ {i} : sched'[j] = sched[j]
  BY DEF IInv, TypeOK
<1>2. TypeOK' /\ SlotIffActive'
  BY <1>1 DEF IInv, TypeOK, SlotIffActive
<1>3. Known'
  BY <1>1 DEF IInv, TypeOK, Known, RunsOf
<1>4. Unique' /\ Cared'
  BY DEF IInv, Unique, Cared, rooms
<1>5. \A j \in Ids : Exists(j)' => Exists(j) \/ sched[j].status = "absent"
  BY <1>1 DEF Exists
<1>6. Recorded'
  BY <1>1, <1>5 DEF IInv, TypeOK, Known, Recorded, Exists, RunsOf
<1>7. \A j \in Ids : sched'[j].open = sched[j].open
  BY <1>1
<1>8. Told'
  BY <1>5, <1>7 DEF IInv, TypeOK, Known, Told, Untold, RunsOf, rooms
<1> QED BY <1>2, <1>3, <1>4, <1>6, <1>8 DEF IInv

\* The same for a step that leaves the file with a new status, slot and maximum.
LEMMA WithKeeps ==
  ASSUME IInv, NEW i \in Ids, NEW f \in Files, f = sched[i], f.status # "deleted",
         NEW status \in Statuses \ {"absent", "deleted"}, NEW next \in Nat, NEW max \in Nat,
         next > 0 <=> status = "active",
         sched' = [sched EXCEPT ![i] = With(f, status, next, max)],
         UNCHANGED <<running, runs, rooms, now, started>>
  PROVE  IInv'
<1> DEFINE s == With(f, status, next, max)
<1>1. s \in Files /\ s.open = f.open /\ s.status = status /\ s.next = next
  BY WithFacts
<1>2. sched' = [sched EXCEPT ![i] = s]
  OBVIOUS
<1> HIDE DEF s
<1>3. s.status \notin {"absent", "deleted"} /\ (s.next > 0 <=> s.status = "active")
  BY <1>1
<1>4. s \in Files /\ s.open = f.open
  BY <1>1
<1> QED BY <1>2, <1>3, <1>4, FileKeeps

LEMMA Now == ASSUME IInv PROVE now \in Nat /\ now > 0
BY DEF IInv, TypeOK

LEMMA FilesHere ==
  ASSUME IInv, NEW i \in Ids
  PROVE  /\ sched[i] \in Files /\ sched[i].status \in Statuses
         /\ sched[i].max \in Nat /\ sched[i].next \in Nat
         /\ sched[i].next > 0 <=> sched[i].status = "active"
         /\ ~Exists(i) => sched[i].open = {}
BY DEF IInv, TypeOK, SlotIffActive, Recorded, Files

LEMMA CreateKeeps ==
  ASSUME IInv, NEW i \in Ids, Create(i)
  PROVE  IInv'
<1>1. PICK next \in {now, now + 1}, max \in {0, 1} :
        sched' = [sched EXCEPT ![i] = With(Fresh, "active", next, max)]
  BY DEF Create, Edit
<1>2. next \in Nat /\ next > 0 /\ max \in Nat
  BY Now
<1>3. PICK f \in Files : f = sched[i] /\ f.status = "absent" /\ f.open = {}
  BY FilesHere DEF Create, Exists
<1>4. Fresh \in Files /\ Fresh.open = {}
  BY DEF Fresh, Files, Statuses
<1>5. PICK g \in Files, status \in Statuses : g = Fresh /\ g.open = {} /\ status = "active"
  BY <1>4 DEF Statuses
<1> DEFINE s == With(g, status, next, max)
<1>6. s \in Files /\ s.open = {} /\ s.status = "active" /\ s.next = next
  BY <1>2, <1>5, WithFacts
<1>7. sched' = [sched EXCEPT ![i] = s] /\ UNCHANGED <<running, runs, rooms, now, started>>
  BY <1>1, <1>5 DEF Create, Edit, process
<1> HIDE DEF s
<1> QED BY <1>2, <1>3, <1>6, <1>7, FileKeeps

LEMMA ReplaceKeeps ==
  ASSUME IInv, NEW i \in Ids, Replace(i)
  PROVE  IInv'
<1>1. PICK next \in {now, now + 1}, max \in {0, 1} :
        sched' = [sched EXCEPT ![i] = With(sched[i], "active", next, max)]
  BY DEF Replace, Edit
<1>2. next \in Nat /\ next > 0 /\ max \in Nat
  BY Now
<1>3. PICK f \in Files : f = sched[i] /\ f.status # "deleted"
  BY FilesHere DEF Replace, Open
<1>4. UNCHANGED <<running, runs, rooms, now, started>>
  BY DEF Replace, Edit, process
<1> QED BY <1>1, <1>2, <1>3, <1>4, WithKeeps DEF Statuses

LEMMA PauseKeeps ==
  ASSUME IInv, NEW i \in Ids, Pause(i) \/ Resume(i)
  PROVE  IInv'
<1>1. PICK f \in Files : f = sched[i] /\ f.status # "deleted" /\ f.max \in Nat
  BY FilesHere DEF Pause, Resume
<1>2. UNCHANGED <<running, runs, rooms, now, started>>
  BY DEF Pause, Resume, Edit, process
<1>3. CASE Pause(i)
  <2>1. "paused" \in Statuses \ {"absent", "deleted"} /\ 0 \in Nat /\ ~(0 > 0)
    BY DEF Statuses
  <2>2. PICK next \in Nat, max \in Nat, status \in Statuses \ {"absent", "deleted"} :
          /\ next > 0 <=> status = "active"
          /\ sched' = [sched EXCEPT ![i] = With(f, status, next, max)]
    BY <1>1, <1>3, <2>1 DEF Pause, Edit
  <2> QED BY <1>1, <1>2, <2>2, WithKeeps
<1>4. CASE Resume(i)
  <2>1. sched' = [sched EXCEPT ![i] = With(f, "active", now + 1, f.max)]
    BY <1>1, <1>4 DEF Resume, Edit
  <2>2. PICK next \in Nat : next = now + 1 /\ next > 0
    BY Now
  <2> QED BY <1>1, <1>2, <2>1, <2>2, WithKeeps DEF Statuses
<1> QED BY <1>3, <1>4

LEMMA UpdateKeeps ==
  ASSUME IInv, NEW i \in Ids, Update(i)
  PROVE  IInv'
<1>1. PICK f \in Files : f = sched[i] /\ f.status \in Statuses \ {"absent", "deleted"}
                         /\ f.next \in Nat /\ (f.next > 0 <=> f.status = "active")
  BY FilesHere DEF Update, Exists
<1>2. PICK next \in {f.next, NewSlot(f)}, max \in {0, 1} :
        sched' = [sched EXCEPT ![i] = With(f, f.status, next, max)]
  BY <1>1 DEF Update, Edit
<1>3. next \in Nat /\ (next > 0 <=> f.status = "active") /\ max \in Nat
  BY <1>1, Now DEF NewSlot
<1>4. UNCHANGED <<running, runs, rooms, now, started>>
  BY DEF Update, Edit, process
<1>5. PICK status \in Statuses \ {"absent", "deleted"} : status = f.status
  BY <1>1
<1> QED BY <1>1, <1>2, <1>3, <1>4, <1>5, WithKeeps

LEMMA DeleteKeeps ==
  ASSUME IInv, NEW i \in Ids, Delete(i)
  PROVE  IInv'
<1> DEFINE s == [Fresh EXCEPT !.status = "deleted"]
<1>1. Fresh \in Files /\ Fresh.open = {} /\ Fresh.next = 0
  BY DEF Fresh, Files, Statuses
<1>2. s \in Files /\ s.open = {} /\ s.status = "deleted" /\ s.next = 0
  BY <1>1 DEF Files, Statuses
<1>3. sched' = [sched EXCEPT ![i] = s] /\ UNCHANGED <<running, runs, rooms, now, started>>
  BY DEF Delete, Edit, process
<1> HIDE DEF s
<1>4. sched'[i] = s /\ \A j \in Ids \ {i} : sched'[j] = sched[j]
  BY <1>3 DEF IInv, TypeOK
<1>5. TypeOK' /\ SlotIffActive'
  BY <1>2, <1>3, <1>4 DEF IInv, TypeOK, SlotIffActive
<1>6. Known'
  BY <1>2, <1>3, <1>4 DEF IInv, TypeOK, Known, RunsOf
<1>7. Unique' /\ Cared'
  BY <1>3 DEF IInv, Unique, Cared, rooms
<1>8. Recorded'
  BY <1>2, <1>3, <1>4 DEF IInv, TypeOK, Recorded, Exists, RunsOf
<1>9. Told'
  BY <1>2, <1>3, <1>4 DEF IInv, TypeOK, Told, Untold, Exists, RunsOf, rooms
<1> QED BY <1>5, <1>6, <1>7, <1>8, <1>9 DEF IInv

LEMMA CompleteKeeps ==
  ASSUME IInv, NEW i \in Ids, CompleteForAgent(i)
  PROVE  IInv'
<1>1. PICK f \in Files : f = sched[i] /\ f.max \in Nat
  BY FilesHere
<1>2. sched' = [sched EXCEPT ![i] = CompletesOpen(f)]
  BY <1>1 DEF CompleteForAgent
<1>3. UNCHANGED <<running, runs, rooms, now, started>>
  BY DEF CompleteForAgent, process
<1>4. CASE f.status \in Open
  <2>1. "completed" \in Statuses \ {"absent", "deleted"} /\ 0 \in Nat /\ ~(0 > 0)
    BY DEF Statuses
  <2>2. PICK next \in Nat, max \in Nat, status \in Statuses \ {"absent", "deleted"} :
          /\ next > 0 <=> status = "active"
          /\ sched' = [sched EXCEPT ![i] = With(f, status, next, max)]
    BY <1>1, <1>2, <1>4, <2>1 DEF CompletesOpen, Completed
  <2>3. f = sched[i] /\ f.status # "deleted"
    BY <1>1, <1>4 DEF Open
  <2> QED BY <1>3, <2>2, <2>3, WithKeeps
<1>5. CASE f.status \notin Open
  <2>1. sched' = sched
    BY <1>1, <1>2, <1>5 DEF CompletesOpen, IInv, TypeOK
  <2> QED BY <1>3, <2>1, Idle DEF IInv, TypeOK
<1> QED BY <1>4, <1>5

----------------------------------------------------------------------------
(* Runs. *)

LEMMA RunFacts ==
  ASSUME IInv, NEW r \in runs
  PROVE  /\ r \in RunsOf /\ r.id \in Ids /\ r.n \in Nat /\ r.step \in Steps
         /\ r.id \in running /\ r.n \in 1..started /\ sched[r.id].status # "absent"
         /\ \A q \in runs : q.id = r.id \/ q.n = r.n => q = r
BY DEF IInv, TypeOK, Known, Unique, RunsOf

LEMMA BeginKeeps ==
  ASSUME IInv, NEW i \in Ids, i \notin running, sched[i].status # "absent",
         NEW manual \in BOOLEAN, NEW tick \in Ticks \cup {0}, Begin(i, manual, tick),
         UNCHANGED <<sched, rooms, now>>
  PROVE  IInv'
<1> DEFINE q == Run(i, manual, tick)
<1>1. /\ q \in RunsOf /\ q.n = started + 1 /\ q.id = i /\ q.step = "append" /\ ~q.agent
      /\ started \in Nat
  BY DEF Run, RunsOf, Steps, Outcomes, IInv, TypeOK
<1>2. runs' = runs \cup {q} /\ running' = running \cup {i} /\ started' = started + 1
  BY DEF Begin
<1> HIDE DEF q
<1>3. TypeOK' /\ Known' /\ SlotIffActive'
  BY <1>1, <1>2 DEF IInv, TypeOK, Known, SlotIffActive, RunsOf
<1>4. Unique'
  BY <1>1, <1>2, RunFacts DEF IInv, Unique
<1>5. Recorded'
  BY <1>1, <1>2, RunFacts DEF IInv, Recorded, Exists
<1>6. Cared'
  BY <1>1, <1>2 DEF IInv, Cared, rooms
<1>7. q.n \notin spaces /\ sched[i].open = {}
  BY <1>1 DEF IInv, Cared, Recorded, Unique
<1>8. Told'
  BY <1>1, <1>2, <1>7 DEF IInv, Told, Untold, Exists, rooms
<1> QED BY <1>3, <1>4, <1>5, <1>6, <1>8 DEF IInv

\* A run takes a step; what its file says is open is looked at by the caller.
LEMMA RunMoves ==
  ASSUME IInv, NEW r \in runs, NEW q \in RunsOf, q.n = r.n, q.id = r.id, q.step # "append",
         Becomes(r, q), UNCHANGED <<running, now, started>>,
         sched' \in [Ids -> Files],
         \A i \in Ids : sched'[i].status = sched[i].status /\ sched'[i].next = sched[i].next,
         spaces' \subseteq spaces \cup {r.n},
         lost \subseteq lost', failed \subseteq failed', kept \subseteq kept',
         r.n \in spaces' => \/ r.n \in lost' \cup failed' \cup kept'
                            \/ q.step \notin {"append", "start", "finish"},
         q.agent /\ q.id \in Keeps => q.n \in kept',
         Recorded', Told'
  PROVE  IInv'
<1>1. runs' = (runs \ {r}) \cup {q}
  BY DEF Becomes
<1>2. TypeOK' /\ Known' /\ SlotIffActive'
  BY <1>1, RunFacts DEF IInv, TypeOK, Known, SlotIffActive, RunsOf
<1>3. Unique'
  BY <1>1, RunFacts DEF IInv, Unique
<1>4. Cared'
  <2>1. spaces' \subseteq 1..started'
    BY RunFacts DEF IInv, Cared, TypeOK
  <2>2. ASSUME NEW n \in spaces'
        PROVE  \/ n \in lost' \cup failed' \cup kept'
               \/ \E x \in runs' : x.n = n /\ x.step \notin {"append", "start", "finish"}
    <3>1. CASE n = r.n
      BY <1>1, <2>2, <3>1
    <3>2. CASE n # r.n
      <4>1. n \in spaces
        BY <2>2, <3>2
      <4> QED BY <1>1, <3>2, <4>1 DEF IInv, Cared
    <3> QED BY <3>1, <3>2
  <2>3. \A x \in runs' : x.agent /\ x.id \in Keeps => x.n \in kept'
    BY <1>1 DEF IInv, Cared
  <2> QED BY <2>1, <2>2, <2>3 DEF Cared
<1> QED BY <1>2, <1>3, <1>4 DEF IInv

LEMMA RecordedMoves ==
  ASSUME IInv, NEW r \in runs, NEW q \in RunsOf, q.n = r.n, q.id = r.id,
         r.step # "append", q.step # "append", Becomes(r, q), sched' = sched
  PROVE  Recorded'
<1>1. runs' = (runs \ {r}) \cup {q}
  BY DEF Becomes
<1> QED BY <1>1 DEF IInv, Recorded, Exists

\* A file goes on telling of a run's workspace.
LEMMA ToldMoves ==
  ASSUME IInv, NEW r \in runs, NEW q \in RunsOf, q.n = r.n, q.id = r.id, r.agent => q.agent,
         Becomes(r, q), sched' = sched, spaces' \subseteq spaces \cup {r.n},
         r.n \in spaces' => r.id \in NewAgent /\ q.step \notin {"append", "start"},
         r.n \in spaces' /\ Exists(r.id) =>
           q.step = "record" \/ (r.n \in spaces /\ r.step # "record")
  PROVE  Told'
<1>1. runs' = (runs \ {r}) \cup {q}
  BY DEF Becomes
<1>2. \A i \in Ids : Exists(i)' <=> Exists(i)
  BY DEF Exists
<1>3. ASSUME NEW x \in runs \ {r}
      PROVE  /\ x.n \in spaces' => x.id \in NewAgent /\ x.step \notin {"append", "start"}
             /\ x.n \in spaces' /\ ~Untold(x)' => \A o \in sched'[x.id].open : o.space
             /\ \A o \in sched'[x.id].open : o.agent => x.agent
  <2>1. x.n # r.n /\ x.id \in Ids
    BY <1>3, RunFacts
  <2> QED BY <1>2, <2>1 DEF IInv, Told, Untold
<1>4. /\ q.n \in spaces' => q.id \in NewAgent /\ q.step \notin {"append", "start"}
      /\ q.n \in spaces' /\ ~Untold(q)' => \A o \in sched'[q.id].open : o.space
      /\ \A o \in sched'[q.id].open : o.agent => q.agent
  <2>1. q.id \in Ids
    BY RunFacts
  <2> QED BY <1>2, <2>1 DEF IInv, Told, Untold
<1> QED BY <1>1, <1>3, <1>4 DEF Told

\* A run leaves.
LEMMA RunLeaves ==
  ASSUME IInv, NEW r \in runs, r.step \in {"append", "finish"}, runs' = runs \ {r},
         running' = running \/ running' = running \ {r.id},
         UNCHANGED <<rooms, now, started>>, sched' \in [Ids -> Files],
         \A i \in Ids : sched[i].status # "absent" => sched'[i].status # "absent",
         Recorded', Told', SlotIffActive'
  PROVE  IInv'
<1>1. TypeOK' /\ Known'
  BY RunFacts DEF IInv, TypeOK, Known
<1>2. Unique'
  BY RunFacts DEF IInv, Unique
<1>3. Cared'
  BY DEF IInv, Cared, rooms
<1> QED BY <1>1, <1>2, <1>3 DEF IInv

LEMMA AppendRunKeeps ==
  ASSUME IInv, NEW r \in runs, AppendRun(r)
  PROVE  IInv'
<1>1. r.step = "append" /\ UNCHANGED <<running, rooms, now, started>>
  BY DEF AppendRun
<1>2. CASE Exists(r.id)
  <2> DEFINE q == [r EXCEPT !.step = "start"]
             o == [n |-> r.n, space |-> FALSE, agent |-> FALSE]
             s == [sched[r.id] EXCEPT !.open = sched[r.id].open \cup {o}]
  <2>1. /\ q \in RunsOf /\ q.n = r.n /\ q.id = r.id /\ q.step = "start" /\ q.agent = r.agent
    BY RunFacts DEF RunsOf, Steps
  <2>2. sched' = [sched EXCEPT ![r.id] = s] /\ Becomes(r, q)
    BY <1>2 DEF AppendRun
  <2>3. o \in OpenRuns /\ o.n = r.n
    BY RunFacts DEF OpenRuns
  <2>4. sched[r.id].open = {}
    BY <1>1, RunFacts DEF IInv, Recorded
  <2>5. sched[r.id] \in Files /\ sched \in [Ids -> Files]
    BY RunFacts DEF IInv, TypeOK
  <2> HIDE DEF o
  <2>6. /\ s \in Files /\ s.open = {o}
        /\ s.status = sched[r.id].status /\ s.next = sched[r.id].next
    BY <2>3, <2>4, <2>5 DEF Files
  <2> HIDE DEF s, q
  <2>7. /\ sched' \in [Ids -> Files] /\ sched'[r.id] = s
        /\ \A i \in Ids \ {r.id} : sched'[i] = sched[i]
    BY <2>2, <2>5, <2>6, RunFacts
  <2>8. runs' = (runs \ {r}) \cup {q}
    BY <2>2 DEF Becomes
  <2>9. Recorded'
    <3>1. \A i \in Ids : ~Exists(i)' => sched'[i].open = {}
      BY <1>2, <2>6, <2>7 DEF IInv, Recorded, Exists
    <3>2. ASSUME NEW i \in Ids, NEW p \in sched'[i].open
          PROVE  \E x \in runs' : x.id = i /\ x.step # "append" /\ x.n = p.n
      <4>1. CASE i = r.id
        BY <2>1, <2>3, <2>6, <2>7, <2>8, <3>2, <4>1
      <4>2. CASE i # r.id
        <5>1. PICK x \in runs : x.id = i /\ x.step # "append" /\ x.n = p.n
          BY <2>7, <3>2, <4>2 DEF IInv, Recorded
        <5> QED BY <2>8, <4>2, <5>1
      <4> QED BY <4>1, <4>2
    <3>3. \A i \in Ids : \A a, b \in sched'[i].open : a.n = b.n => a = b
      BY <2>6, <2>7 DEF IInv, Recorded
    <3>4. ASSUME NEW x \in runs', x.step # "append", Exists(x.id)'
          PROVE  \E p \in sched'[x.id].open : p.n = x.n
      <4>1. CASE x = q
        BY <2>1, <2>3, <2>6, <2>7, <4>1
      <4>2. CASE x # q
        <5>1. x \in runs /\ x # r
          BY <2>8, <4>2
        <5>2. x.id \in Ids \ {r.id}
          BY <5>1, RunFacts
        <5> QED BY <2>7, <3>4, <5>1, <5>2 DEF IInv, Recorded, Exists
      <4> QED BY <4>1, <4>2
    <3> QED BY <3>1, <3>2, <3>3, <3>4 DEF Recorded
  <2>10. r.n \notin spaces
    BY <1>1 DEF IInv, Told
  <2>14. Told'
    <3>1. \A i \in Ids : Exists(i)' <=> Exists(i)
      BY <2>6, <2>7 DEF Exists
    <3>2. ASSUME NEW x \in runs \ {r}
          PROVE  /\ x.n \in spaces' => x.id \in NewAgent /\ x.step \notin {"append", "start"}
                 /\ x.n \in spaces' /\ ~Untold(x)' => \A y \in sched'[x.id].open : y.space
                 /\ \A y \in sched'[x.id].open : y.agent => x.agent
      <4>1. x.id \in Ids \ {r.id} /\ spaces' = spaces
        BY <1>1, <3>2, RunFacts DEF rooms
      <4>2. sched'[x.id] = sched[x.id]
        BY <2>7, <4>1
      <4> QED BY <3>1, <4>1, <4>2 DEF IInv, Told, Untold
    <3>3. q.n \notin spaces' /\ sched'[q.id].open = {o} /\ ~o.agent
      BY <1>1, <2>1, <2>6, <2>7, <2>10 DEF rooms, o
    <3> QED BY <2>8, <3>2, <3>3 DEF Told
  <2>11. UNCHANGED <<spaces, lost, failed, kept>>
    BY <1>1 DEF rooms
  <2>12. q.agent /\ q.id \in Keeps => q.n \in kept
    BY <2>1 DEF IInv, Cared
  <2>13. \A i \in Ids : sched'[i].status = sched[i].status /\ sched'[i].next = sched[i].next
    BY <2>6, <2>7
  <2> QED BY <1>1, <2>1, <2>2, <2>7, <2>9, <2>10, <2>11, <2>12, <2>13, <2>14, RunMoves
<1>3. CASE ~Exists(r.id)
  <2>1. runs' = runs \ {r} /\ sched' = sched
    BY <1>3 DEF AppendRun
  <2>2. Recorded'
    BY <1>1, <1>3, <2>1 DEF IInv, Recorded, Exists
  <2>3. SlotIffActive' /\ sched' \in [Ids -> Files]
    BY <2>1 DEF IInv, TypeOK, SlotIffActive
  <2>4. Told'
    BY <1>1, <2>1 DEF IInv, Told, Untold, Exists, rooms
  <2> QED BY <1>1, <2>1, <2>2, <2>3, <2>4, RunLeaves
<1> QED BY <1>2, <1>3

LEMMA StepFacts ==
  ASSUME NEW r \in RunsOf, NEW step \in Steps
  PROVE  LET q == [r EXCEPT !.step = step]
         IN  q \in RunsOf /\ q.n = r.n /\ q.id = r.id /\ q.step = step /\ q.agent = r.agent
BY DEF RunsOf

LEMMA EndsFacts ==
  ASSUME NEW r \in RunsOf, NEW outcome \in Outcomes
  PROVE  /\ Ends(r, outcome) \in RunsOf
         /\ Ends(r, outcome).n = r.n /\ Ends(r, outcome).id = r.id
         /\ Ends(r, outcome).agent = r.agent
         /\ Ends(r, outcome).step = IF r.n \in spaces THEN "clean" ELSE "finish"
<1> DEFINE step == IF r.n \in spaces THEN "clean" ELSE "finish"
           t == [r EXCEPT !.outcome = outcome]
           u == [t EXCEPT !.step = step]
<1>1. t \in RunsOf /\ t.n = r.n /\ t.id = r.id /\ t.agent = r.agent
  BY DEF RunsOf
<1>2. step \in Steps
  BY DEF Steps
<1>3. u \in RunsOf /\ u.n = r.n /\ u.id = r.id /\ u.agent = r.agent /\ u.step = step
  <2> HIDE DEF t, step
  <2> QED BY <1>1, <1>2, StepFacts
<1>4. Ends(r, outcome) = u
  BY DEF Ends
<1> QED BY <1>3, <1>4

\* A run that ends goes to its clean-up if it has a workspace.
LEMMA EndsKeeps ==
  ASSUME IInv, NEW r \in runs, r.step # "append", r.step = "record" => ~Exists(r.id),
  NEW outcome \in Outcomes,
         Becomes(r, Ends(r, outcome)), UNCHANGED <<sched, running, rooms, now, started>>
  PROVE  IInv'
<1> DEFINE q == Ends(r, outcome)
<1>1. /\ q \in RunsOf /\ q.n = r.n /\ q.id = r.id /\ q.agent = r.agent
      /\ q.step = IF r.n \in spaces THEN "clean" ELSE "finish"
  BY RunFacts, EndsFacts
<1>2. Becomes(r, q)
  OBVIOUS
<1> HIDE DEF q
<1>3. Recorded'
  BY <1>1, <1>2, RecordedMoves
<1>4. q.agent /\ q.id \in Keeps => q.n \in kept
  BY <1>1 DEF IInv, Cared
<1>5. /\ sched' \in [Ids -> Files] /\ UNCHANGED <<spaces, lost, failed, kept>>
      /\ \A i \in Ids : sched'[i].status = sched[i].status /\ sched'[i].next = sched[i].next
  BY DEF IInv, TypeOK, rooms
<1>6. q.step # "append" /\ (r.n \in spaces => q.step = "clean")
  BY <1>1
<1>7. Told'
  BY <1>1, <1>2, <1>5, <1>6, ToldMoves DEF IInv, Told
<1> QED BY <1>1, <1>2, <1>3, <1>4, <1>5, <1>6, <1>7, RunMoves

\* A run goes on to a step with neither an end nor a clean-up of its own.
LEMMA StepKeeps ==
  ASSUME IInv, NEW r \in runs, r.step # "append", NEW step \in Steps \ {"append", "start",
  "finish"},
         Becomes(r, [r EXCEPT !.step = step]), 
         UNCHANGED <<sched, running, lost, failed, kept, now, started>>,
         spaces' \subseteq spaces \cup {r.n}, r.n \in spaces' => r.id \in NewAgent,
         r.n \in spaces' => step = "record" \/ (r.n \in spaces /\ r.step # "record")
  PROVE  IInv'
<1> DEFINE q == [r EXCEPT !.step = step]
<1>1. q \in RunsOf /\ q.n = r.n /\ q.id = r.id /\ q.step = step /\ q.agent = r.agent
  BY RunFacts, StepFacts
<1>2. Becomes(r, q)
  OBVIOUS
<1> HIDE DEF q
<1>3. Recorded'
  BY <1>1, <1>2, RecordedMoves
<1>4. q.agent /\ q.id \in Keeps => q.n \in kept
  BY <1>1 DEF IInv, Cared
<1>5. /\ sched' \in [Ids -> Files]
      /\ \A i \in Ids : sched'[i].status = sched[i].status /\ sched'[i].next = sched[i].next
  BY DEF IInv, TypeOK
<1>6. Told'
  BY <1>1, <1>2, <1>5, ToldMoves
<1> QED BY <1>1, <1>2, <1>3, <1>4, <1>5, <1>6, RunMoves

LEMMA StartRunKeeps ==
  ASSUME IInv, NEW r \in runs, StartRun(r)
  PROVE  IInv'
<1>1. r.step = "start" /\ UNCHANGED <<sched, running, lost, failed, kept, now, started>>
  BY DEF StartRun
<1>2. CASE \/ Becomes(r, Ends(r, "gone")) /\ UNCHANGED spaces
           \/ Becomes(r, Ends(r, "failed")) /\ UNCHANGED spaces
  BY <1>1, <1>2, EndsKeeps DEF Outcomes, rooms
<1>3. r.n \notin spaces
  BY <1>1 DEF IInv, Told
<1>4. CASE Becomes(r, [r EXCEPT !.step = "run"]) /\ UNCHANGED spaces
  BY <1>1, <1>4, <1>3, StepKeeps DEF Steps
<1>5. CASE Becomes(r, [r EXCEPT !.step = "record"]) /\ spaces' = spaces \cup {r.n} /\ r.id \in NewAgent
  BY <1>1, <1>5, StepKeeps DEF Steps
<1> QED BY <1>2, <1>4, <1>5 DEF StartRun

LEMMA RunEndsKeeps ==
  ASSUME IInv, NEW r \in runs, RunEnds(r)
  PROVE  IInv'
BY EndsKeeps DEF RunEnds, Outcomes

LEMMA CreateAgentKeeps ==
  ASSUME IInv, NEW r \in runs, CreateAgent(r)
  PROVE  IInv'
<1>1. r.step = "create" /\ UNCHANGED <<sched, running, spaces, lost, failed, now, started>>
  BY DEF CreateAgent
<1>2. CASE Becomes(r, Ends(r, "failed")) /\ UNCHANGED kept
  BY <1>1, <1>2, EndsKeeps DEF Outcomes, rooms
<1>3. CASE /\ Becomes(r, [r EXCEPT !.agent = TRUE, !.step = "name"])
           /\ kept' = IF r.id \in Keeps THEN kept \cup {r.n} ELSE kept
  <2> DEFINE t == [r EXCEPT !.agent = TRUE]
             q == [t EXCEPT !.step = "name"]
  <2>1. t \in RunsOf /\ t.n = r.n /\ t.id = r.id
    BY RunFacts DEF RunsOf
  <2>2. q \in RunsOf /\ q.n = r.n /\ q.id = r.id /\ q.step = "name"
    <3> HIDE DEF t
    <3> QED BY <2>1, StepFacts DEF Steps
  <2>3. Becomes(r, q)
    BY <1>3
  <2> HIDE DEF q
  <2>4. Recorded'
    BY <1>1, <2>2, <2>3, RecordedMoves
  <2>5. q.id \in Keeps => q.n \in kept'
    BY <1>3, <2>2
  <2>6. kept \subseteq kept'
    BY <1>3
  <2>7. /\ sched' \in [Ids -> Files]
        /\ \A i \in Ids : sched'[i].status = sched[i].status /\ sched'[i].next = sched[i].next
    BY <1>1 DEF IInv, TypeOK
  <2>8. q.agent
    BY RunFacts DEF q, RunsOf
  <2>9. Told'
    BY <1>1, <2>2, <2>3, <2>8, ToldMoves DEF IInv, Told
  <2> QED BY <1>1, <2>2, <2>3, <2>4, <2>5, <2>6, <2>7, <2>9, RunMoves
<1> QED BY <1>2, <1>3 DEF CreateAgent

LEMMA CleanKeeps ==
  ASSUME IInv, NEW r \in runs, Clean(r)
  PROVE  IInv'
<1> DEFINE q == [r EXCEPT !.step = "finish"]
<1>1. q \in RunsOf /\ q.n = r.n /\ q.id = r.id /\ q.step = "finish" /\ q.agent = r.agent
  BY RunFacts, StepFacts DEF Steps
<1>2. Becomes(r, q) /\ r.step = "clean" /\ UNCHANGED <<sched, running, kept, now, started>>
  BY DEF Clean
<1> HIDE DEF q
<1>3. Recorded'
  BY <1>1, <1>2, RecordedMoves
<1>4. q.agent /\ q.id \in Keeps => q.n \in kept
  BY <1>1 DEF IInv, Cared
<1>5. /\ sched' \in [Ids -> Files]
      /\ \A i \in Ids : sched'[i].status = sched[i].status /\ sched'[i].next = sched[i].next
  BY <1>2 DEF IInv, TypeOK
<1>6. /\ spaces' \subseteq spaces /\ lost' = lost /\ failed \subseteq failed'
      /\ r.n \in spaces' => r.n \in failed' \cup kept'
  BY <1>1, <1>2, <1>4 DEF Clean, Archives
<1>7. Told'
  BY <1>1, <1>2, <1>6, ToldMoves DEF IInv, Told
<1> QED BY <1>1, <1>2, <1>3, <1>4, <1>5, <1>6, <1>7, RunMoves

LEMMA RecordSpaceKeeps ==
  ASSUME IInv, NEW r \in runs, RecordSpace(r)
  PROVE  IInv'
<1>1. r.step \in {"record", "name"} /\ UNCHANGED <<running, rooms, now, started>>
  BY DEF RecordSpace
<1>2. CASE ~Exists(r.id)
  BY <1>1, <1>2, EndsKeeps DEF RecordSpace, Outcomes
<1>3. CASE Exists(r.id)
  <2> DEFINE step == IF r.step = "record" THEN "create" ELSE "run"
             q == [r EXCEPT !.step = step]
             o == [n |-> r.n, space |-> TRUE, agent |-> r.agent]
             opens == {IF x.n = r.n THEN o ELSE x : x \in sched[r.id].open}
             s == [sched[r.id] EXCEPT !.open = opens]
  <2>0. step \in Steps \ {"append", "start", "finish"}
    BY DEF Steps
  <2>1. Becomes(r, q)
    BY <1>3 DEF RecordSpace
  <2> HIDE DEF step
  <2>2. q \in RunsOf /\ q.n = r.n /\ q.id = r.id /\ q.step = step /\ q.agent = r.agent
    BY <2>0, RunFacts, StepFacts
  <2>3. sched' = [sched EXCEPT ![r.id] = s]
    BY <1>3 DEF RecordSpace, Noted
  <2>4. o \in OpenRuns /\ o.n = r.n
    BY RunFacts DEF OpenRuns, RunsOf
  <2>5. sched[r.id] \in Files /\ sched \in [Ids -> Files] /\ sched[r.id].open \subseteq OpenRuns
    BY RunFacts DEF IInv, TypeOK, Files
  <2> HIDE DEF o, q
  <2>6. opens \in SUBSET OpenRuns
    BY <2>4, <2>5
  <2>7. /\ \A x \in opens : \E y \in sched[r.id].open : y.n = x.n
        /\ \A y \in sched[r.id].open : \E x \in opens : x.n = y.n
        /\ \A x, y \in opens : x.n = y.n => x = y
    BY <2>4, RunFacts DEF IInv, Recorded
  <2> HIDE DEF opens
  <2>8. /\ s \in Files /\ s.open = opens
        /\ s.status = sched[r.id].status /\ s.next = sched[r.id].next
    BY <2>5, <2>6 DEF Files
  <2> HIDE DEF s
  <2>9. /\ sched' \in [Ids -> Files] /\ sched'[r.id] = s
        /\ \A i \in Ids \ {r.id} : sched'[i] = sched[i]
    BY <2>3, <2>5, <2>8, RunFacts
  <2>10. \A i \in Ids : sched'[i].status = sched[i].status /\ sched'[i].next = sched[i].next
    BY <2>8, <2>9
  <2>11. runs' = (runs \ {r}) \cup {q}
    BY <2>1 DEF Becomes
  <2>12. Recorded'
    <3>1. \A i \in Ids : ~Exists(i)' => sched'[i].open = {}
      BY <1>3, <2>8, <2>9 DEF IInv, Recorded, Exists
    <3>2. ASSUME NEW i \in Ids, NEW p \in sched'[i].open
          PROVE  \E x \in runs' : x.id = i /\ x.step # "append" /\ x.n = p.n
      <4>1. PICK y \in sched[i].open : y.n = p.n
        BY <2>7, <2>8, <2>9, <3>2
      <4>2. PICK x \in runs : x.id = i /\ x.step # "append" /\ x.n = y.n
        BY DEF IInv, Recorded
      <4> QED BY <2>0, <2>2, <2>11, <4>1, <4>2
    <3>3. \A i \in Ids : \A a, b \in sched'[i].open : a.n = b.n => a = b
      BY <2>7, <2>8, <2>9 DEF IInv, Recorded
    <3>4. ASSUME NEW x \in runs', x.step # "append", Exists(x.id)'
          PROVE  \E p \in sched'[x.id].open : p.n = x.n
      <4>1. PICK y \in runs : y.n = x.n /\ y.id = x.id /\ y.step # "append"
        BY <1>1, <2>2, <2>11, <3>4
      <4>2. y.id \in Ids /\ Exists(y.id)
        BY <2>10, <3>4, <4>1, RunFacts DEF Exists
      <4>3. PICK o1 \in sched[y.id].open : o1.n = y.n
        BY <4>1, <4>2 DEF IInv, Recorded
      <4> QED BY <2>7, <2>8, <2>9, <4>1, <4>2, <4>3
    <3> QED BY <3>1, <3>2, <3>3, <3>4 DEF Recorded
  <2>13. q.agent /\ q.id \in Keeps => q.n \in kept
    BY <2>2 DEF IInv, Cared
  <2>14. UNCHANGED <<spaces, lost, failed, kept>>
    BY <1>1 DEF rooms
  <2>15. \A x \in opens : x.space /\ x.agent = r.agent
    BY RunFacts DEF IInv, Recorded, opens, o
  <2>16. Told'
    <3>1. \A i \in Ids : Exists(i)' <=> Exists(i)
      BY <2>10 DEF Exists
    <3>2. ASSUME NEW x \in runs \ {r}
          PROVE  /\ x.n \in spaces' => x.id \in NewAgent /\ x.step \notin {"append", "start"}
                 /\ x.n \in spaces' /\ ~Untold(x)' => \A y \in sched'[x.id].open : y.space
                 /\ \A y \in sched'[x.id].open : y.agent => x.agent
      <4>1. x.id \in Ids \ {r.id}
        BY <3>2, RunFacts
      <4>2. sched'[x.id] = sched[x.id]
        BY <2>9, <4>1
      <4> QED BY <2>14, <3>1, <4>1, <4>2 DEF IInv, Told, Untold
    <3>3. sched'[q.id].open = opens
      BY <2>2, <2>8, <2>9
    <3>4. q.n \in spaces' => q.id \in NewAgent /\ q.step \notin {"append", "start"}
      BY <2>0, <2>2, <2>14 DEF IInv, Told
    <3> QED BY <2>2, <2>11, <2>15, <3>2, <3>3, <3>4 DEF Told
  <2> QED BY <1>1, <2>0, <2>1, <2>2, <2>9, <2>10, <2>12, <2>13, <2>14, <2>16, RunMoves
<1> QED BY <1>2, <1>3

LEMMA FinishRunKeeps ==
  ASSUME IInv, NEW r \in runs, FinishRun(r)
  PROVE  IInv'
<1>1. /\ r.step = "finish" /\ runs' = runs \ {r} /\ running' = running \ {r.id}
      /\ UNCHANGED <<rooms, now, started>>
  BY DEF FinishRun, Freed
<1>2. CASE ~Exists(r.id)
  <2>1. sched' = sched
    BY <1>2 DEF FinishRun
  <2>2. Recorded'
    BY <1>1, <1>2, <2>1 DEF IInv, Recorded, Exists
  <2>3. SlotIffActive' /\ sched' \in [Ids -> Files]
    BY <2>1 DEF IInv, TypeOK, SlotIffActive
  <2>4. Told'
    BY <1>1, <2>1 DEF IInv, Told, Untold, Exists, rooms
  <2> QED BY <1>1, <2>1, <2>2, <2>3, <2>4, RunLeaves
<1>3. CASE Exists(r.id)
  <2> DEFINE e == Ended(r, sched[r.id])
             s == Settled(r, e)
  <2>1. sched' = [sched EXCEPT ![r.id] = s]
    BY <1>3 DEF FinishRun
  <2>2. /\ e \in Files /\ e.open = {o \in sched[r.id].open : o.n # r.n}
        /\ e.status = sched[r.id].status /\ e.next = sched[r.id].next
    <3>1. PICK f \in Files : f = sched[r.id]
      BY RunFacts DEF IInv, TypeOK
    <3> QED BY <3>1, EndedFacts
  <2>3. /\ e.status \notin {"absent", "deleted"} /\ now \in Nat \ {0}
        /\ e.next > 0 <=> e.status = "active"
    BY <1>3, <2>2, RunFacts DEF Exists, IInv, TypeOK, SlotIffActive
  <2>4. e.open = {}
    BY <2>2, RunFacts DEF IInv, Recorded
  <2> HIDE DEF e
  <2>5. /\ s \in Files /\ s.open = {} /\ s.status \in {e.status, "completed"}
        /\ s.next > 0 <=> s.status = "active"
    BY <2>2, <2>3, <2>4, SettledFacts
  <2> HIDE DEF s
  <2>6. /\ sched' \in [Ids -> Files] /\ sched'[r.id] = s
        /\ \A i \in Ids \ {r.id} : sched'[i] = sched[i]
    BY <2>1, <2>5, RunFacts DEF IInv, TypeOK
  <2>7. SlotIffActive'
    BY <2>5, <2>6 DEF IInv, SlotIffActive
  <2>8. \A i \in Ids : sched[i].status # "absent" => sched'[i].status # "absent"
    BY <2>3, <2>5, <2>6
  <2>9. Recorded'
    <3>1. \A x \in runs' : x \in runs /\ x # r /\ x.id \in Ids \ {r.id}
      BY <1>1, RunFacts
    <3>2. ASSUME NEW i \in Ids, NEW p \in sched'[i].open
          PROVE  \E x \in runs' : x.id = i /\ x.step # "append" /\ x.n = p.n
      <4>1. i # r.id /\ p \in sched[i].open
        BY <2>5, <2>6, <3>2
      <4>2. PICK x \in runs : x.id = i /\ x.step # "append" /\ x.n = p.n
        BY <4>1 DEF IInv, Recorded
      <4> QED BY <1>1, <4>1, <4>2
    <3>3. /\ \A i \in Ids : ~Exists(i)' => sched'[i].open = {}
          /\ \A i \in Ids : \A a, b \in sched'[i].open : a.n = b.n => a = b
      BY <2>5, <2>6 DEF IInv, Recorded, Exists
    <3>4. \A x \in runs' : x.step # "append" /\ Exists(x.id)' => \E p \in sched'[x.id].open : p.n = x.n
      BY <2>6, <3>1 DEF IInv, Recorded, Exists
    <3> QED BY <3>2, <3>3, <3>4 DEF Recorded
  <2>10. Told'
    <3>1. ASSUME NEW x \in runs'
          PROVE  x \in runs /\ x.id \in Ids /\ sched'[x.id] = sched[x.id]
      BY <1>1, <2>6, <3>1, RunFacts
    <3> QED BY <1>1, <3>1 DEF IInv, Told, Untold, Exists, rooms
  <2> QED BY <1>1, <2>6, <2>7, <2>8, <2>9, <2>10, RunLeaves
<1> QED BY <1>2, <1>3

LEMMA TickKeeps ==
  ASSUME IInv, TicksOK, NEW k \in Ticks,
  TickStart(k) \/ TickSkip(k) \/ TickComplete(k) \/ TickRun(k)
  PROVE  IInv'
<1>1. CASE TickStart(k) \/ TickSkip(k)
  BY <1>1, Idle DEF TickStart, TickSkip, IInv, TypeOK
<1>2. ASSUME ticks[k].todo # <<>>
      PROVE  /\ Head(ticks[k].todo).id \in Ids
             /\ sched[Head(ticks[k].todo).id].status # "absent"
  <2>1. ticks[k].todo \in Seq(Entries)
    BY DEF TicksOK, Lists
  <2>2. Head(ticks[k].todo) = ticks[k].todo[1] /\ 1 \in 1..Len(ticks[k].todo)
        /\ ticks[k].todo[1] \in Entries
    BY <1>2, <2>1
  <2> QED BY <2>2 DEF TicksOK, OnList, Entries
<1>3. CASE TickComplete(k)
  <2>1. PICK i \in Ids :
          /\ i = Head(ticks[k].todo).id
          /\ sched' = IF sched[i].status = "active" /\ sched[i].next > 0 /\ ShouldComplete(sched[i])
                      THEN [sched EXCEPT ![i] = Completed(sched[i])] ELSE sched
    BY <1>2, <1>3 DEF TickComplete
  <2>2. UNCHANGED <<running, runs, rooms, now, started>>
    BY <1>3 DEF TickComplete
  <2>3. CASE sched' = sched
    BY <2>2, <2>3, Idle DEF IInv, TypeOK
  <2>4. CASE sched' = [sched EXCEPT ![i] = Completed(sched[i])] /\ sched[i].status = "active"
    <3>1. PICK f \in Files : f = sched[i] /\ f.max \in Nat /\ f.status # "deleted"
      BY <2>4, FilesHere
    <3>2. "completed" \in Statuses \ {"absent", "deleted"} /\ 0 \in Nat /\ ~(0 > 0)
      BY DEF Statuses
    <3>3. PICK next \in Nat, max \in Nat, status \in Statuses \ {"absent", "deleted"} :
            /\ next > 0 <=> status = "active"
            /\ sched' = [sched EXCEPT ![i] = With(f, status, next, max)]
      BY <2>4, <3>1, <3>2 DEF Completed
    <3> QED BY <2>2, <3>1, <3>3, WithKeeps
  <2> QED BY <2>1, <2>3, <2>4
<1>4. CASE TickRun(k)
  <2>1. PICK i \in Ids : i = Head(ticks[k].todo).id /\ i \notin running
                         /\ sched[i].status # "absent" /\ Begin(i, FALSE, k)
    BY <1>2, <1>4 DEF TickRun
  <2>2. UNCHANGED <<sched, rooms, now>>
    BY <1>4 DEF TickRun
  <2> QED BY <2>1, <2>2, BeginKeeps
<1> QED BY <1>1, <1>3, <1>4

LEMMA RunOnceKeeps ==
  ASSUME IInv, NEW i \in Ids, RunOnce(i)
  PROVE  IInv'
<1>1. i \notin running /\ sched[i].status # "absent" /\ UNCHANGED <<sched, rooms, now>>
  BY DEF RunOnce, Open
<1> QED BY <1>1, BeginKeeps DEF RunOnce

LEMMA RestartKeeps ==
  ASSUME IInv, Restart
  PROVE  IInv'
<1> DEFINE archived == UNION {Interrupted(i) : i \in Ids}
<1>1. /\ sched' = [i \in Ids |-> Swept(i, Recovered(sched[i]))]
      /\ \A n \in spaces' : n \in spaces /\ (n \in archived => n \in failed')
      /\ failed \subseteq failed'
      /\ lost' = lost \cup {r.n : r \in {x \in runs : x.n \in spaces /\ Untold(x)}}
      /\ running' = {} /\ runs' = {} /\ UNCHANGED <<kept, now, started>>
  BY DEF Restart
<1>2. ASSUME NEW i \in Ids
      PROVE  /\ sched'[i] \in Files /\ sched'[i].open = {}
             /\ sched'[i].next > 0 <=> sched'[i].status = "active"
  <2>1. PICK f \in Files : /\ f = sched[i] /\ (f.next > 0 <=> f.status = "active")
                           /\ \A o, p \in f.open : o = p
    <3>1. \A o, p \in sched[i].open : o = p
      BY RunFacts DEF IInv, Recorded
    <3> QED BY <3>1, FilesHere
  <2>2. PICK g \in Files : /\ g = Recovered(f) /\ g.open = {}
                           /\ g.next > 0 <=> g.status = "active"
    BY <2>1, RecoveredFacts DEF IInv, TypeOK
  <2>3. sched'[i] = g \/ sched'[i] = CompletesOpen(g)
    BY <1>1, <2>1, <2>2 DEF Swept
  <2>4. CompletesOpen(g) = g \/ CompletesOpen(g) = Completed(g)
    BY CompletedFacts
  <2>5. CASE sched'[i] = g
    BY <2>2, <2>5
  <2>6. CASE sched'[i] = Completed(g)
    BY <2>2, <2>6, CompletedFacts
  <2> QED BY <2>3, <2>4, <2>5, <2>6
<1>3. TypeOK' /\ Known' /\ Unique' /\ SlotIffActive'
  BY <1>1, <1>2 DEF IInv, TypeOK, Known, Unique, SlotIffActive
<1>4. Recorded'
  BY <1>1, <1>2 DEF Recorded
<1>5. Told'
  BY <1>1 DEF Told
<1>6. ASSUME NEW r \in runs, r.n \in spaces, ~Untold(r)
      PROVE  r.n \in archived \/ r.n \in kept
  <2>1. /\ r.id \in Ids /\ Exists(r.id) /\ r.id \in NewAgent
        /\ r.step \notin {"append", "start", "record"}
    BY <1>6, RunFacts DEF IInv, Told, Untold
  <2>2. PICK o \in sched[r.id].open : o.n = r.n
    BY <2>1 DEF IInv, Recorded
  <2>3. PICK f \in Files : f = sched[r.id] /\ \A p, q \in f.open : p = q
    <3>1. \A p, q \in sched[r.id].open : p = q
      BY <2>1, RunFacts DEF IInv, Recorded
    <3> QED BY <2>1, <3>1, FilesHere
  <2>4. o \in FirstOpen(sched[r.id])
    BY <2>2, <2>3, FirstFacts
  <2>5. o.space /\ (o.agent => r.agent)
    BY <1>6, <2>2 DEF IInv, Told
  <2>6. CASE Archives(r.id, o.agent)
    <3>1. r.n \in Interrupted(r.id)
      BY <2>1, <2>2, <2>4, <2>5, <2>6 DEF Interrupted
    <3> QED BY <2>1, <3>1
  <2>7. CASE ~Archives(r.id, o.agent)
    BY <2>5, <2>7 DEF Archives, IInv, Cared
  <2> QED BY <2>6, <2>7
<1> HIDE DEF archived
<1>7. Cared'
  <2>1. ASSUME NEW n \in spaces' PROVE n \in lost' \cup failed' \cup kept'
    <3>1. CASE n \in lost \cup failed \cup kept
      BY <1>1, <3>1
    <3>2. CASE \E r \in runs : r.n = n
      <4>1. PICK r \in runs : r.n = n /\ r.n \in spaces
        BY <1>1, <3>2
      <4>2. CASE Untold(r)
        BY <1>1, <4>1, <4>2
      <4>3. CASE ~Untold(r)
        BY <1>1, <1>6, <4>1, <4>3
      <4> QED BY <4>2, <4>3
    <3> QED BY <1>1, <3>1, <3>2 DEF IInv, Cared
  <2> QED BY <1>1, <2>1 DEF IInv, Cared
<1> QED BY <1>3, <1>4, <1>5, <1>7 DEF IInv

----------------------------------------------------------------------------
(* What a step may do to the status of a schedule. *)

\* A schedule that was created is never absent again, and a completed one stays so.
StaysOn(i) ==
  /\ sched[i].status # "absent" => sched'[i].status # "absent"
  /\ sched[i].status = "completed" => sched'[i].status \in {"completed", "deleted"}

\* One file changes.
LEMMA FileStays ==
  ASSUME IInv, NEW i \in Ids, NEW s, sched' = [sched EXCEPT ![i] = s],
         s.status # "absent", sched[i].status = "completed" => s.status \in {"completed",
         "deleted"}
  PROVE  \A j \in Ids : StaysOn(j)
<1>1. sched'[i] = s /\ \A j \in Ids \ {i} : sched'[j] = sched[j]
  BY DEF IInv, TypeOK
<1> QED BY <1>1 DEF StaysOn

LEMMA SameStays ==
  ASSUME \A i \in Ids : sched'[i].status = sched[i].status
  PROVE  \A i \in Ids : StaysOn(i)
BY DEF StaysOn

LEMMA WithStays ==
  ASSUME IInv, NEW i \in Ids, NEW f \in Files, NEW status \in Statuses \ {"absent"},
         NEW next \in Nat, NEW max \in Nat,
         sched' = [sched EXCEPT ![i] = With(f, status, next, max)],
         sched[i].status = "completed" => status \in {"completed", "deleted"}
  PROVE  \A j \in Ids : StaysOn(j)
<1> DEFINE s == With(f, status, next, max)
<1>1. s.status = status
  BY WithFacts
<1>2. sched' = [sched EXCEPT ![i] = s]
  OBVIOUS
<1> HIDE DEF s
<1> QED BY <1>1, <1>2, FileStays

LEMMA EditStays ==
  ASSUME IInv, NEW i \in Ids,
         Create(i) \/ Replace(i) \/ Pause(i) \/ Resume(i) \/ Update(i) \/ Delete(i)
  PROVE  \A j \in Ids : StaysOn(j)
<1>1. PICK f \in Files : /\ f = sched[i] /\ f.status \in Statuses
                         /\ f.next \in Nat /\ f.max \in Nat
  BY FilesHere
<1>2. Fresh \in Files
  BY DEF Fresh, Files, Statuses
<1>3. CASE Create(i) \/ Replace(i)
  <2>1. PICK g \in Files, next \in {now, now + 1}, max \in {0, 1},
  status \in Statuses \ {"absent"} :
          /\ sched' = [sched EXCEPT ![i] = With(g, status, next, max)]
          /\ sched[i].status # "completed"
    <3>1. "active" \in Statuses \ {"absent"}
      BY DEF Statuses
    <3> QED BY <1>1, <1>2, <1>3, <3>1 DEF Create, Replace, Edit, Open
  <2>2. next \in Nat /\ max \in Nat
    BY Now
  <2> QED BY <2>1, <2>2, WithStays
<1>4. CASE Pause(i) \/ Resume(i)
  <2>1. "active" \in Statuses \ {"absent"} /\ "paused" \in Statuses \ {"absent"}
        /\ now + 1 \in Nat /\ 0 \in Nat
    BY Now DEF Statuses
  <2>2. PICK next \in Nat, status \in Statuses \ {"absent"} :
          /\ sched' = [sched EXCEPT ![i] = With(f, status, next, f.max)]
          /\ sched[i].status # "completed"
    BY <1>1, <1>4, <2>1 DEF Pause, Resume, Edit
  <2>3. PICK max \in Nat : max = f.max
    BY <1>1
  <2> QED BY <2>2, <2>3, WithStays
<1>5. CASE Update(i)
  <2>1. PICK next \in {f.next, NewSlot(f)}, max \in {0, 1} :
          sched' = [sched EXCEPT ![i] = With(f, f.status, next, max)]
    BY <1>1, <1>5 DEF Update, Edit
  <2>2. next \in Nat /\ max \in Nat
    BY <1>1, Now DEF NewSlot
  <2>3. PICK status \in Statuses \ {"absent"} : status = f.status /\ status = sched[i].status
    BY <1>1, <1>5 DEF Update, Exists
  <2> QED BY <2>1, <2>2, <2>3, WithStays
<1>6. CASE Delete(i)
  <2> DEFINE s == [Fresh EXCEPT !.status = "deleted"]
  <2>1. s.status = "deleted"
    BY DEF Fresh
  <2>2. sched' = [sched EXCEPT ![i] = s]
    BY <1>6 DEF Delete, Edit
  <2> HIDE DEF s
  <2> QED BY <2>1, <2>2, FileStays
<1> QED BY <1>3, <1>4, <1>5, <1>6

LEMMA CompleteStays ==
  ASSUME IInv, NEW i \in Ids, CompleteForAgent(i)
  PROVE  \A j \in Ids : StaysOn(j)
<1>1. PICK f \in Files : f = sched[i]
  BY FilesHere
<1>2. sched' = [sched EXCEPT ![i] = CompletesOpen(f)]
  BY <1>1 DEF CompleteForAgent
<1>3. CASE CompletesOpen(f) = f
  <2>1. sched' = sched
    BY <1>1, <1>2, <1>3 DEF IInv, TypeOK
  <2> QED BY <2>1, SameStays
<1>4. CASE CompletesOpen(f) = Completed(f)
  <2>1. PICK s \in Files : s = Completed(f) /\ s.status = "completed"
    BY CompletedFacts
  <2> QED BY <1>2, <1>4, <2>1, FileStays
<1> QED BY <1>3, <1>4, CompletedFacts

LEMMA TickStays ==
  ASSUME IInv, TicksOK, NEW k \in Ticks,
         TickStart(k) \/ TickSkip(k) \/ TickComplete(k) \/ TickRun(k)
  PROVE  \A j \in Ids : StaysOn(j)
<1>1. CASE sched' = sched
  BY <1>1, SameStays
<1>2. CASE TickComplete(k) /\ sched' # sched
  <2>1. ticks[k].todo \in Seq(Entries) /\ ticks[k].todo # <<>>
    BY <1>2 DEF TickComplete, TicksOK, Lists
  <2>2. Head(ticks[k].todo) \in Entries
    BY <2>1
  <2>3. PICK i \in Ids : i = Head(ticks[k].todo).id
    BY <2>2 DEF Entries
  <2>4. sched' = [sched EXCEPT ![i] = Completed(sched[i])]
    BY <1>2, <2>3 DEF TickComplete
  <2>5. PICK f \in Files : f = sched[i]
    BY FilesHere
  <2>6. PICK s \in Files : s = Completed(f) /\ s.status = "completed"
    BY CompletedFacts
  <2> QED BY <2>4, <2>5, <2>6, FileStays
<1> QED BY <1>1, <1>2 DEF TickStart, TickSkip, TickRun

LEMMA FinishStays ==
  ASSUME IInv, NEW r \in runs, FinishRun(r)
  PROVE  \A j \in Ids : StaysOn(j)
<1>1. CASE ~Exists(r.id)
  <2>1. sched' = sched
    BY <1>1 DEF FinishRun
  <2> QED BY <2>1, SameStays
<1>2. CASE Exists(r.id)
  <2>1. PICK f \in Files : f = sched[r.id] /\ f.status \notin {"absent", "deleted"}
                           /\ (f.next > 0 <=> f.status = "active")
    BY <1>2, RunFacts, FilesHere DEF Exists
  <2>2. PICK e \in Files : e = Ended(r, f) /\ e.status = f.status /\ e.next = f.next
    BY EndedFacts
  <2>3. PICK s \in Files : s = Settled(r, e) /\ s.status \in {e.status, "completed"}
    BY <2>1, <2>2, SettledFacts DEF IInv, TypeOK
  <2>4. sched' = [sched EXCEPT ![r.id] = s]
    BY <1>2, <2>1, <2>2, <2>3 DEF FinishRun
  <2> QED BY <2>1, <2>2, <2>3, <2>4, FileStays, RunFacts
<1> QED BY <1>1, <1>2

LEMMA RunStays ==
  ASSUME IInv, NEW r \in runs, RunStep(r)
  PROVE  \A j \in Ids : StaysOn(j)
<1>1. PICK f \in Files : f = sched[r.id]
  BY RunFacts, FilesHere
<1>2. ASSUME NEW opens, sched' = [sched EXCEPT ![r.id].open = opens]
      PROVE  \A j \in Ids : StaysOn(j)
  <2>1. \A i \in Ids : sched'[i].status = sched[i].status
    BY <1>1, <1>2, RunFacts DEF IInv, TypeOK, Files
  <2> QED BY <2>1, SameStays
<1>3. CASE sched' = sched
  BY <1>3, SameStays
<1>4. CASE AppendRun(r)
  BY <1>2, <1>3, <1>4 DEF AppendRun
<1>5. CASE RecordSpace(r)
  BY <1>2, <1>3, <1>5 DEF RecordSpace, Noted
<1>6. CASE FinishRun(r)
  BY <1>6, FinishStays
<1>7. CASE StartRun(r) \/ CreateAgent(r) \/ RunEnds(r) \/ Clean(r)
  BY <1>3, <1>7 DEF StartRun, CreateAgent, RunEnds, Clean
<1> QED BY <1>4, <1>5, <1>6, <1>7 DEF RunStep

LEMMA RestartStays ==
  ASSUME IInv, Restart
  PROVE  \A j \in Ids : StaysOn(j)
<1> SUFFICES ASSUME NEW i \in Ids PROVE StaysOn(i)
  OBVIOUS
<1>1. PICK f \in Files : /\ f = sched[i] /\ (f.next > 0 <=> f.status = "active")
                         /\ \A o, p \in f.open : o = p
  <2>1. \A o, p \in sched[i].open : o = p
    BY RunFacts DEF IInv, Recorded
  <2> QED BY <2>1, FilesHere
<1>2. PICK g \in Files : g = Recovered(f) /\ g.status = f.status
  BY <1>1, RecoveredFacts DEF IInv, TypeOK
<1>3. sched'[i] = g \/ sched'[i] = CompletesOpen(g)
  BY <1>1, <1>2 DEF Restart, Swept
<1>4. CompletesOpen(g) = g \/ CompletesOpen(g) = Completed(g)
  BY CompletedFacts
<1> QED BY <1>1, <1>2, <1>3, <1>4, CompletedFacts DEF StaysOn

----------------------------------------------------------------------------
(* The lists of the ticks name schedules that were created. *)

LEMMA ListOf ==
  ASSUME NEW todo \in Seq(Entries), NEW waits \in Flags
  PROVE  /\ [todo |-> todo, waits |-> waits] \in Lists
         /\ [todo |-> todo, waits |-> waits].todo = todo
BY DEF Lists

LEMMA ListsFacts ==
  ASSUME NEW t \in Lists
  PROVE  /\ t.todo \in Seq(Entries) /\ OnList(t) \subseteq Ids /\ t.waits \in Flags
         /\ \A a : [t EXCEPT !.todo = a] = [todo |-> a, waits |-> t.waits]
         /\ \A b : [t EXCEPT !.waits = b] = [todo |-> t.todo, waits |-> b]
<1>1. t.todo \in Seq(Entries) /\ t.waits \in Flags
  BY DEF Lists
<1>2. OnList(t) \subseteq Ids
  <2>1. \A e \in Entries : e.id \in Ids
    BY DEF Entries
  <2>2. \A j \in 1..Len(t.todo) : t.todo[j] \in Entries
    BY <1>1
  <2> QED BY <2>1, <2>2 DEF OnList
<1> QED BY <1>1, <1>2 DEF Lists

LEMMA TailFacts ==
  ASSUME NEW s \in Seq(Entries), s # <<>>
  PROVE  /\ Tail(s) \in Seq(Entries)
         /\ \A j \in 1..Len(Tail(s)) : j + 1 \in 1..Len(s) /\ Tail(s)[j] = s[j + 1]
OBVIOUS

\* The list of one tick changes, and names no schedule that was never created.
LEMMA ListMoves ==
  ASSUME TicksOK, \A i \in Ids : StaysOn(i), NEW k \in Ticks, NEW t \in Lists,
         ticks' = [ticks EXCEPT ![k] = t],
         \A i \in OnList(t) : sched[i].status # "absent"
  PROVE  TicksOK'
<1>1. ticks' \in [Ticks -> Lists] /\ ticks'[k] = t /\ \A x \in Ticks \ {k} : ticks'[x] = ticks[x]
  BY DEF TicksOK
<1>2. ASSUME NEW x \in Ticks, NEW i \in OnList(ticks'[x])
      PROVE  sched'[i].status # "absent"
  <2>1. i \in Ids /\ sched[i].status # "absent"
    BY <1>1, <1>2, ListsFacts DEF TicksOK
  <2> QED BY <2>1 DEF StaysOn
<1> QED BY <1>1, <1>2 DEF TicksOK, OnList

LEMMA ListsStay ==
  ASSUME TicksOK, \A i \in Ids : StaysOn(i), ticks' = ticks
  PROVE  TicksOK'
<1>1. ASSUME NEW x \in Ticks, NEW i \in OnList(ticks[x])
      PROVE  sched'[i].status # "absent"
  <2>1. i \in Ids /\ sched[i].status # "absent"
    BY <1>1, ListsFacts DEF TicksOK
  <2> QED BY <2>1 DEF StaysOn
<1> QED BY <1>1 DEF TicksOK, OnList

\* A tick drops the head of its list, and stops waiting if it was.
LEMMA ListDrops ==
  ASSUME TicksOK, \A i \in Ids : StaysOn(i), NEW k \in Ticks, NEW waits \in Flags,
         ticks[k].todo # <<>>,
         ticks' = [ticks EXCEPT ![k] = [todo |-> Tail(ticks[k].todo), waits |-> waits]]
  PROVE  TicksOK'
<1>1. PICK u \in Lists : u = ticks[k]
  BY DEF TicksOK
<1>2. PICK s \in Seq(Entries) : s = u.todo /\ s # <<>>
  BY <1>1, ListsFacts
<1>3. PICK rest \in Seq(Entries) : rest = Tail(s)
  BY <1>2, TailFacts
<1>4. PICK t \in Lists : t = [todo |-> rest, waits |-> waits] /\ t.todo = rest
  BY ListOf
<1>5. ticks' = [ticks EXCEPT ![k] = t]
  BY <1>1, <1>2, <1>3, <1>4
<1>6. \A j \in 1..Len(rest) : j + 1 \in 1..Len(s) /\ rest[j] = s[j + 1]
  BY <1>2, <1>3, TailFacts
<1>7. OnList(t) \subseteq OnList(u)
  BY <1>2, <1>4, <1>6 DEF OnList
<1>8. \A i \in OnList(t) : sched[i].status # "absent"
  BY <1>1, <1>7 DEF TicksOK
<1> QED BY <1>5, <1>8, ListMoves

LEMMA FreeFacts == Free \in Lists /\ Free.todo = << >> /\ OnList(Free) = {}
<1>1. << >> \in Seq(Entries) /\ Len(<< >>) = 0
  OBVIOUS
<1>2. PICK waits \in Flags : waits = FALSE
  BY Zenon DEF Flags
<1>3. Free \in Lists /\ Free.todo = << >>
  BY <1>1, <1>2, ListOf DEF Free
<1> QED BY <1>1, <1>3 DEF OnList

LEMMA TicksInitially == Init => TicksOK
BY FreeFacts DEF Init, TicksOK

LEMMA TickLists ==
  ASSUME IInv, TicksOK, NEW k \in Ticks, \A i \in Ids : StaysOn(i),
         TickStart(k) \/ TickSkip(k) \/ TickComplete(k) \/ TickRun(k)
  PROVE  TicksOK'
<1>1. PICK u \in Lists : u = ticks[k]
  BY DEF TicksOK
<1>2. CASE TickStart(k)
  <2> DEFINE listed == SetToSeq(ToDo)
             todo == [j \in 1..Len(listed) |-> Entry(listed[j])]
             t == [u EXCEPT !.todo = todo]
  <2>1. ToDo \in SUBSET Ids
    BY DEF ToDo
  <2>2. listed \in Seq(ToDo)
    BY <2>1, Listed
  <2>3. ticks' = [ticks EXCEPT ![k] = t]
    BY <1>1, <1>2 DEF TickStart
  <2> HIDE DEF listed
  <2>4. Len(listed) \in Nat /\ \A j \in 1..Len(listed) : listed[j] \in ToDo
    BY <2>2
  <2>5. \A i \in ToDo : Entry(i) \in Entries /\ Entry(i).id = i
    BY <2>1 DEF Entry, Entries, ShouldComplete
  <2>6. /\ todo \in Seq(Entries) /\ Len(todo) = Len(listed)
        /\ \A j \in 1..Len(listed) : todo[j].id \in ToDo
    BY <2>4, <2>5
  <2> HIDE DEF todo
  <2>7. t \in Lists /\ t.todo = todo
    BY <2>6 DEF Lists
  <2>8. \A i \in OnList(t) : sched[i].status # "absent"
    BY <2>6, <2>7 DEF OnList, ToDo
  <2> HIDE DEF t
  <2> QED BY <2>3, <2>7, <2>8, ListMoves
<1>3. CASE ticks[k].todo # <<>> /\ ticks' = Rest(k)
  <2>1. [u EXCEPT !.todo = Tail(u.todo)] = [todo |-> Tail(u.todo), waits |-> u.waits]
    BY ListsFacts
  <2>2. ticks' = [ticks EXCEPT ![k] = [todo |-> Tail(ticks[k].todo), waits |-> u.waits]]
    BY <1>1, <1>3, <2>1 DEF Rest
  <2>3. PICK waits \in Flags : waits = u.waits
    BY ListsFacts
  <2> QED BY <1>3, <2>2, <2>3, ListDrops
<1>4. CASE ticks' = [ticks EXCEPT ![k] = Free]
  BY <1>4, FreeFacts, ListMoves
<1>5. CASE TickRun(k)
  <2>1. PICK waits \in Flags : waits = TRUE
    BY Zenon DEF Flags
  <2>2. PICK todo \in Seq(Entries) : todo = u.todo
    BY ListsFacts
  <2>3. PICK t \in Lists : t = [todo |-> todo, waits |-> waits] /\ t.todo = todo
    BY ListOf
  <2>4. [u EXCEPT !.waits = waits] = t
    BY <2>2, <2>3, ListsFacts
  <2>5. ticks' = [ticks EXCEPT ![k] = t]
    BY <1>1, <1>5, <2>1, <2>4 DEF TickRun
  <2>6. \A i \in OnList(t) : sched[i].status # "absent"
    BY <1>1, <2>2, <2>3 DEF OnList, TicksOK
  <2> QED BY <2>5, <2>6, ListMoves
<1> QED BY <1>2, <1>3, <1>4, <1>5 DEF TickSkip, TickComplete


\* What a step of a run does to the ticks and to the runs.
LEMMA RunTicks ==
  ASSUME IInv, TicksOK, NEW r \in runs, RunStep(r)
  PROVE  \/ ticks' = ticks /\ \E q : Becomes(r, q) /\ q.tick = r.tick
         \/ ticks' = ticks /\ runs' = runs \ {r}
         \/ /\ r.tick \in Ticks /\ runs' = runs \ {r}
            /\ \/ ticks' = [ticks EXCEPT ![r.tick] = Free]
               \/ ticks' = [ticks EXCEPT ![r.tick] =
                              [todo |-> Tail(ticks[r.tick].todo), waits |-> FALSE]]
<1>1. r \in RunsOf
  BY RunFacts
<1>2. \A step \in Steps : [r EXCEPT !.step = step].tick = r.tick
  BY <1>1 DEF RunsOf
<1>3. ASSUME NEW outcome \in Outcomes PROVE Ends(r, outcome).tick = r.tick
  <2> DEFINE step == IF r.n \in spaces THEN "clean" ELSE "finish"
             t == [r EXCEPT !.outcome = outcome]
  <2>1. t.tick = r.tick /\ t \in RunsOf
    BY <1>1 DEF RunsOf
  <2>2. [t EXCEPT !.step = step].tick = r.tick
    <3> HIDE DEF t, step
    <3> QED BY <2>1 DEF RunsOf
  <2>3. Ends(r, outcome) = [t EXCEPT !.step = step]
    BY DEF Ends
  <2> QED BY <2>2, <2>3
<1>4. [r EXCEPT !.agent = TRUE, !.step = "name"].tick = r.tick
  <2> DEFINE t == [r EXCEPT !.agent = TRUE]
  <2>1. t.tick = r.tick /\ t \in RunsOf
    BY <1>1 DEF RunsOf
  <2>2. [t EXCEPT !.step = "name"].tick = r.tick
    <3> HIDE DEF t
    <3> QED BY <2>1 DEF RunsOf
  <2> QED BY <2>2
<1>5. CASE StartRun(r)
  BY <1>2, <1>3, <1>5 DEF StartRun, Steps, Outcomes
<1>6. CASE RecordSpace(r)
  <2> DEFINE step == IF r.step = "record" THEN "create" ELSE "run"
  <2>1. step \in Steps
    BY DEF Steps
  <2>2. ticks' = ticks /\ (Becomes(r, [r EXCEPT !.step = step]) \/ Becomes(r, Ends(r, "failed")))
    BY <1>6 DEF RecordSpace
  <2> HIDE DEF step
  <2>3. [r EXCEPT !.step = step].tick = r.tick
    BY <1>2, <2>1
  <2>4. Ends(r, "failed").tick = r.tick
    BY <1>3 DEF Outcomes
  <2> QED BY <2>2, <2>3, <2>4
<1>7. CASE CreateAgent(r)
  BY <1>3, <1>4, <1>7 DEF CreateAgent, Outcomes
<1>8. CASE RunEnds(r)
  BY <1>3, <1>8 DEF RunEnds, Outcomes
<1>9. CASE Clean(r)
  BY <1>2, <1>9 DEF Clean, Steps
<1>10. ASSUME \/ Released(r, TRUE) \/ Released(r, FALSE)
       PROVE  \/ ticks' = ticks
              \/ /\ r.tick \in Ticks
                 /\ \/ ticks' = [ticks EXCEPT ![r.tick] = Free]
                    \/ ticks' = [ticks EXCEPT ![r.tick] =
                                   [todo |-> Tail(ticks[r.tick].todo), waits |-> FALSE]]
  BY <1>10 DEF Released, TicksOK
<1>11. CASE AppendRun(r)
  BY <1>2, <1>10, <1>11 DEF AppendRun, Steps
<1>12. CASE FinishRun(r)
  <2>1. runs' = runs \ {r} /\ (Released(r, TRUE) \/ Released(r, FALSE))
    BY <1>12, Zenon DEF FinishRun
  <2> QED BY <1>10, <2>1
<1> QED BY <1>5, <1>6, <1>7, <1>8, <1>9, <1>11, <1>12 DEF RunStep

\* A tick whose run is under way waits for it, and has its schedule on its list.
Awaited ==
  /\ \A r \in runs : r.tick \in Ticks => ticks[r.tick].waits /\ ticks[r.tick].todo # <<>>
  /\ \A r, q \in runs : r.tick \in Ticks /\ r.tick = q.tick => r = q

LEMMA RunLists ==
  ASSUME IInv, TicksOK, Awaited, NEW r \in runs, \A i \in Ids : StaysOn(i), RunStep(r)
  PROVE  TicksOK' /\ Awaited'
<1>1. CASE ticks' = ticks
  <2>1. TicksOK'
    BY <1>1, ListsStay
  <2>2. Awaited'
    BY <1>1, RunTicks DEF Awaited, Becomes
  <2> QED BY <2>1, <2>2
<1>2. CASE /\ r.tick \in Ticks /\ runs' = runs \ {r}
           /\ \/ ticks' = [ticks EXCEPT ![r.tick] = Free]
              \/ ticks' = [ticks EXCEPT ![r.tick] =
                             [todo |-> Tail(ticks[r.tick].todo), waits |-> FALSE]]
  <2>1. PICK k \in Ticks, waits \in Flags : k = r.tick /\ waits = FALSE
    BY <1>2, Zenon DEF Flags
  <2>2. ticks[k].todo # <<>>
    BY <2>1 DEF Awaited
  <2>3. TicksOK'
    BY <1>2, <2>1, <2>2, FreeFacts, ListMoves, ListDrops
  <2>4. \A x \in Ticks \ {k} : ticks'[x] = ticks[x]
    BY <1>2, <2>1 DEF TicksOK
  <2>5. Awaited'
    BY <1>2, <2>1, <2>4 DEF Awaited
  <2> QED BY <2>3, <2>5
<1> QED BY <1>1, <1>2, RunTicks

LEMMA TickOfRun ==
  ASSUME NEW i, NEW manual, NEW tick
  PROVE  Run(i, manual, tick).tick = tick
BY DEF Run

\* A new run belongs to no tick, or to one that did not wait and now does.
LEMMA TickAwaits ==
  ASSUME IInv, TicksOK, Awaited, NEW k \in Ticks,
         TickStart(k) \/ TickSkip(k) \/ TickComplete(k) \/ TickRun(k)
  PROVE  Awaited'
<1>1. \A x \in Ticks \ {k} : ticks'[x] = ticks[x]
  BY DEF TickStart, TickSkip, TickComplete, TickRun, Rest, TicksOK
<1>2. \A r \in runs : r.tick # k
  <2>1. CASE TickStart(k)
    <3>1. ticks[k].todo = <<>>
      BY <2>1, FreeFacts DEF TickStart
    <3> QED BY <3>1 DEF Awaited
  <2>2. CASE ~ticks[k].waits
    BY <2>2 DEF Awaited
  <2> QED BY <2>1, <2>2 DEF TickSkip, TickComplete, TickRun
<1>3. CASE runs' = runs
  BY <1>1, <1>2, <1>3 DEF Awaited
<1>4. CASE TickRun(k)
  <2>0. PICK i : Begin(i, FALSE, k)
    BY <1>4 DEF TickRun
  <2>1. PICK q : runs' = runs \cup {q} /\ q.tick = k
    BY <2>0, TickOfRun DEF Begin
  <2>2. ticks'[k].waits /\ ticks'[k].todo = ticks[k].todo /\ ticks[k].todo # <<>>
    BY <1>4 DEF TickRun, TicksOK, Lists
  <2> QED BY <1>1, <1>2, <2>1, <2>2 DEF Awaited
<1> QED BY <1>3, <1>4 DEF TickStart, TickSkip, TickComplete

\* A step that leaves the ticks and the runs alone.
LEMMA RestStays ==
  ASSUME TicksOK, Awaited, \A i \in Ids : StaysOn(i), UNCHANGED <<ticks, runs>>
  PROVE  TicksOK' /\ Awaited'
<1>1. TicksOK'
  BY ListsStay
<1> QED BY <1>1 DEF Awaited

Inv == IInv /\ TicksOK /\ Awaited

LEMMA Start == Init => Inv
BY Initially, TicksInitially DEF Inv, Init, Awaited

LEMMA Keeping ==
  ASSUME Inv, [Next]_vars
  PROVE  Inv' /\ \A i \in Ids : StaysOn(i)
<1> USE DEF Inv
<1>1. CASE Time \/ UNCHANGED vars
  <2>1. /\ UNCHANGED <<sched, running, runs, rooms, started>> /\ UNCHANGED ticks
        /\ now' \in Nat \ {0}
    BY <1>1, Now DEF Time, vars, process
  <2> QED BY <2>1, Idle, SameStays, RestStays
<1>2. CASE Restart
  <2>1. TicksOK' /\ Awaited'
    <3>1. ticks' = [k \in Ticks |-> Free] /\ runs' = {}
      BY <1>2 DEF Restart
    <3> QED BY <3>1, FreeFacts DEF TicksOK, Awaited
  <2> QED BY <1>2, <2>1, RestartKeeps, RestartStays
<1>3. ASSUME NEW i \in Ids,
             Create(i) \/ Replace(i) \/ Pause(i) \/ Resume(i) \/ Update(i) \/ Delete(i)
      PROVE  Inv' /\ \A j \in Ids : StaysOn(j)
  <2>1. UNCHANGED <<ticks, runs>>
    BY <1>3 DEF Create, Replace, Pause, Resume, Update, Delete, Edit, process
  <2>2. IInv'
    BY <1>3, CreateKeeps, ReplaceKeeps, PauseKeeps, UpdateKeeps, DeleteKeeps
  <2>3. \A j \in Ids : StaysOn(j)
    BY <1>3, EditStays
  <2> QED BY <2>1, <2>2, <2>3, RestStays
<1>4. ASSUME NEW i \in Ids, TargetGone(i)
      PROVE  Inv' /\ \A j \in Ids : StaysOn(j)
  <2>1. /\ UNCHANGED <<sched, running, runs, rooms, started>> /\ UNCHANGED ticks
        /\ now' \in Nat \ {0}
    BY <1>4, Now DEF TargetGone, process
  <2> QED BY <2>1, Idle, SameStays, RestStays
<1>5. ASSUME NEW i \in Ids, CompleteForAgent(i)
      PROVE  Inv' /\ \A j \in Ids : StaysOn(j)
  <2>1. UNCHANGED <<ticks, runs>>
    BY <1>5 DEF CompleteForAgent, process
  <2>2. IInv' /\ \A j \in Ids : StaysOn(j)
    BY <1>5, CompleteKeeps, CompleteStays
  <2> QED BY <2>1, <2>2, RestStays
<1>6. ASSUME NEW i \in Ids, RunOnce(i)
      PROVE  Inv' /\ \A j \in Ids : StaysOn(j)
  <2>1. UNCHANGED <<sched, ticks>>
    BY <1>6 DEF RunOnce
  <2>2. \A j \in Ids : StaysOn(j)
    BY <2>1, SameStays
  <2>3. PICK q : runs' = runs \cup {q} /\ q.tick = 0
    BY <1>6, TickOfRun DEF RunOnce, Begin
  <2>4. TicksOK'
    BY <2>1, <2>2, ListsStay
  <2>5. Awaited'
    BY <2>1, <2>3, ScheduleAssumption DEF Awaited
  <2> QED BY <1>6, <2>2, <2>4, <2>5, RunOnceKeeps
<1>7. ASSUME NEW k \in Ticks, TickStart(k) \/ TickSkip(k) \/ TickComplete(k) \/ TickRun(k)
      PROVE  Inv' /\ \A j \in Ids : StaysOn(j)
  <2>1. IInv' /\ \A j \in Ids : StaysOn(j)
    BY <1>7, TickKeeps, TickStays
  <2> QED BY <1>7, <2>1, TickLists, TickAwaits
<1>8. ASSUME NEW r \in runs, RunStep(r)
      PROVE  Inv' /\ \A j \in Ids : StaysOn(j)
  <2>1. IInv'
    BY <1>8, AppendRunKeeps, StartRunKeeps, RecordSpaceKeeps, CreateAgentKeeps, RunEndsKeeps,
       CleanKeeps, FinishRunKeeps DEF RunStep
  <2>2. \A j \in Ids : StaysOn(j)
    BY <1>8, RunStays
  <2> QED BY <1>8, <2>1, <2>2, RunLists
<1>9. CASE Next
  BY <1>1, <1>2, <1>3, <1>4, <1>5, <1>6, <1>7, <1>8, <1>9 DEF Next, RunStep
<1> QED BY <1>1, <1>9

LEMMA Always == Spec => []Inv
<1>1. Inv /\ [Next]_vars => Inv'
  BY Keeping
<1> QED BY <1>1, Start, PTL DEF Spec

----------------------------------------------------------------------------
(* The results. *)

\* However ticks, edits, runs and restarts interleave, a schedule has a slot exactly
\* while it is active: a paused or completed schedule fires no more and an active
\* one is never forgotten (resume, update, finishRun, completeForAgent).
THEOREM SlotsAreHonest == Spec => []SlotIffActive
<1>1. Inv => SlotIffActive
  BY DEF Inv, IInv
<1> QED BY <1>1, Always, PTL

\* No interleaving of overlapping ticks, runs by hand and restarts gives a schedule
\* two runs at once, and its file says a run is under way exactly when one is
\* (runningScheduleIds against appendRunningRun and finishRun).
THEOREM RunsOneAtATime == Spec => []OneRunning
<1>1. ASSUME Inv, NEW i \in Ids
      PROVE  Cardinality({r \in runs : r.id = i}) <= 1
  <2>1. CASE {r \in runs : r.id = i} = {}
    BY <2>1, FS_EmptySet
  <2>2. CASE {r \in runs : r.id = i} # {}
    <3>1. PICK r \in runs : r.id = i
      BY <2>2
    <3>2. {q \in runs : q.id = i} = {r}
      BY <1>1, <3>1 DEF Inv, IInv, Unique
    <3> QED BY <3>2, FS_Singleton
  <2> QED BY <2>1, <2>2
<1>2. ASSUME Inv, NEW i \in Ids, Exists(i)
      PROVE  {o.n : o \in sched[i].open}
               = {r.n : r \in {x \in runs : x.id = i /\ x.step # "append"}}
  BY <1>2 DEF Inv, IInv, Recorded
<1>3. Inv => OneRunning
  BY <1>1, <1>2 DEF OneRunning
<1> QED BY <1>3, Always, PTL

\* A workspace made for a run is archived by the end of the run or by the next start
\* of the daemon, but where its agent was made to stay, the archive failed, or the
\* daemon stopped when no file told of the workspace: whatever the step at which a run
\* was cut short, recovery archives what the run's file tells of.
THEOREM SpacesAreFreed == Spec => []SpacesFreed
<1>1. Inv => SpacesFreed
  BY DEF Inv, IInv, Cared, SpacesFreed
<1> QED BY <1>1, Always, PTL

\* No run that ends late, edit or restart brings a completed schedule back.
THEOREM CompletionIsFinal == Spec => CompletedIsFinal
<1>1. Inv /\ [Next]_vars =>
        [\A i \in Ids : sched[i].status = "completed" =>
                          sched'[i].status \in {"completed", "deleted"}]_vars
  BY Keeping DEF StaysOn
<1> QED BY <1>1, Always, PTL DEF Spec, CompletedIsFinal

============================================================================
