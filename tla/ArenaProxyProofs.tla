-------------------------- MODULE ArenaProxyProofs --------------------------
(***************************************************************************)
(* Theorems about ArenaProxy, for every set of clients and every bound on  *)
(* restarts and file errors.                                               *)
(*                                                                         *)
(* The safety invariants are not inductive alone: that a late generation   *)
(* cannot touch an early decision rests on generations being started only  *)
(* on two finished sides (JobsOnFinishedWork), and that the head's request *)
(* means something rests on the shape of the queue (QueueSound).           *)
(***************************************************************************)
EXTENDS ArenaProxy, TLAPS

-----------------------------------------------------------------------------
(* What every operation keeps true of a record it is given *)

Sound(r) ==
  /\ r \in Record
  /\ r.vote = None => r.winner = None /\ ~r.early
  /\ r.vote \in Votes =>
       /\ r.winner = Winner(r.vote)
       /\ r.completed[r.winner]
       /\ ~r.early => AllCompleted(r)
       /\ r.vote = "tie" => ~r.early
  /\ r.vote = "stopped" => ~r.early
  /\ r.vote = "stopped" <=> r.comparison = "stopped"
  /\ r.early <=> r.comparison = "early"

\* The record keeps every acknowledged change.
Keeps(r, changes) ==
  /\ \A s \in Sides : [op |-> "complete", arg |-> s] \in changes => r.completed[s]
  /\ \A v \in Votes : [op |-> "vote", arg |-> v] \in changes => r.vote = v
  /\ [op |-> "stop", arg |-> None] \in changes => r.vote = "stopped"

\* A fresh battle is sound (createBattle).
LEMMA FreshSound == Sound(FreshRecord)
  BY DEF Sound, FreshRecord, Record, Sides, Votes, Decisions, None, Comparisons, AllCompleted

\* markComplete, vote, stop and startComparison keep a record sound.
LEMMA EffectSound ==
  ASSUME NEW r, Sound(r), NEW q \in Requests, Allowed(r, q)
  PROVE  Sound(Effect(r, q))
<1>1. CASE q.op = "complete"
  <2>1. q.arg \in Sides /\ Effect(r, q) = Completed(r, q.arg)
    BY <1>1 DEF Requests, Effect
  <2> DEFINE s == q.arg
             r1 == Completed(r, s)
  <2>2. /\ r1 \in Record
        /\ r1.vote = r.vote /\ r1.winner = r.winner /\ r1.early = r.early
        /\ r1.comparison = r.comparison
        /\ \A t \in Sides : r.completed[t] => r1.completed[t]
    BY <2>1 DEF Sound, Completed, Record
  <2>3. r.winner = Winner(r.vote) /\ r.vote \in Votes => r.winner \in Sides
    BY DEF Winner, Votes, Sides
  <2> HIDE DEF r1
  <2>4. Sound(r1)
    BY <2>2, <2>3 DEF Sound, AllCompleted
  <2> QED
    BY <2>1, <2>4 DEF r1
<1>2. CASE q.op = "vote"
  <2>1. q.arg \in Votes /\ Effect(r, q) = Voted(r, q.arg) /\ CanVote(r, q.arg)
    BY <1>2 DEF Requests, Effect, Allowed
  <2> QED
    BY <2>1 DEF Sound, Voted, CanVote, Record, Sides, Votes, Decisions, None, Comparisons,
                AllCompleted, Winner
<1>3. CASE q.op = "stop"
  <2>1. Effect(r, q) = Stopped(r) /\ CanStop(r)
    BY <1>3 DEF Effect, Allowed
  <2> QED
    BY <2>1 DEF Sound, Stopped, CanStop, Record, Sides, Votes, Decisions, None, Comparisons,
                AllCompleted, Winner
<1>4. CASE q.op = "compare"
  <2>1. Effect(r, q) = Compared(r, q.arg = "edits") /\ CanCompare(r)
    BY <1>4 DEF Effect, Allowed
  <2> QED
    BY <2>1 DEF Sound, Compared, CanCompare, Record, Sides, Votes, Decisions, None,
                Comparisons, AllCompleted, Winner
<1> QED
  BY <1>1, <1>2, <1>3, <1>4 DEF Requests

\* So does a generation that comes back to a record decided on two sides.
LEMMA GeneratedSound ==
  ASSUME NEW r, Sound(r), ~r.early, CanRecordGenerated(r),
         NEW outcome \in {"completed", "error"}
  PROVE  Sound(Generated(r, outcome))
  BY DEF Sound, Generated, CanRecordGenerated, Record, Sides, Votes, Decisions, None,
         Comparisons, AllCompleted, Winner

\* Once both sides finished with no early decision, it stays so.
LEMMA FinishedWorkStays ==
  ASSUME NEW r, Sound(r), NEW q \in Requests, Allowed(r, q),
         AllCompleted(r), ~r.early
  PROVE  AllCompleted(Effect(r, q)) /\ ~Effect(r, q).early
<1>1. CASE q.op = "complete"
  BY <1>1 DEF Requests, Effect, Completed, Sound, Record, AllCompleted, Sides
<1>2. CASE q.op = "vote"
  BY <1>2 DEF Requests, Effect, Voted, Sound, Record, AllCompleted
<1>3. CASE q.op = "stop"
  BY <1>3 DEF Effect, Stopped, Sound, Record, AllCompleted
<1>4. CASE q.op = "compare"
  BY <1>4 DEF Effect, Compared, Sound, Record, AllCompleted
<1> QED
  BY <1>1, <1>2, <1>3, <1>4 DEF Requests

\* No operation undoes an acknowledged change, and each keeps its own.
LEMMA EffectKeeps ==
  ASSUME NEW r, Sound(r), NEW changes, Keeps(r, changes),
         NEW q \in Requests, Allowed(r, q)
  PROVE  Keeps(Effect(r, q), changes \cup {q})
<1>1. CASE q.op = "complete"
  <2>1. q.arg \in Sides /\ Effect(r, q) = Completed(r, q.arg)
    BY <1>1 DEF Requests, Effect
  <2> QED
    BY <1>1, <2>1 DEF Sound, Keeps, Completed, Record, Sides, Votes
<1>2. CASE q.op = "vote"
  <2>1. q.arg \in Votes /\ Effect(r, q) = Voted(r, q.arg) /\ r.vote = None
    BY <1>2 DEF Requests, Effect, Allowed, CanVote
  <2> QED
    BY <1>2, <2>1 DEF Sound, Keeps, Voted, Record, Sides, Votes, None, Requests
<1>3. CASE q.op = "stop"
  <2>1. Effect(r, q) = Stopped(r) /\ r.vote = None
    BY <1>3 DEF Effect, Allowed, CanStop
  <2> QED
    BY <1>3, <2>1 DEF Sound, Keeps, Stopped, Record, Sides, Votes, None, Requests
<1>4. CASE q.op = "compare"
  <2>1. Effect(r, q) = Compared(r, q.arg = "edits")
    BY <1>4 DEF Effect, Allowed
  <2> QED
    BY <1>4, <2>1 DEF Sound, Keeps, Compared, Record, Sides, Votes, None, Requests
<1> QED
  BY <1>1, <1>2, <1>3, <1>4 DEF Requests

-----------------------------------------------------------------------------
(* The inductive invariant *)

\* A generation is under way only for a battle both sides of which finished,
\* and which was not decided early.
JobsOnFinishedWork ==
  \A c \in Clients : job[c] # "idle" => AllCompleted(record) /\ ~record.early

\* The generation a request will start has its slot to itself.
JobReserved == \A c \in Clients : request[c] = CompareEdits => job[c] = "idle"

\* A queued caller has something to do, and no caller is queued twice.
QueueSound ==
  /\ \A i \in 1..Len(queue) :
       /\ queue[i][1] = "request" => request[queue[i][2]] # NoRequest
       /\ queue[i][1] = "job" => job[queue[i][2]] \in {"completed", "error"}
  /\ \A i, j \in 1..Len(queue) : queue[i] = queue[j] => i = j

IInv ==
  /\ TypeOK
  /\ Sound(record)
  /\ Keeps(record, acked)
  /\ NoLostUpdate
  /\ JobsOnFinishedWork
  /\ JobReserved
  /\ QueueSound

\* Appending a caller that is not in the queue keeps the queue sound.
LEMMA QueueAppend ==
  ASSUME NEW q \in Seq(Callers), NEW x \in Callers,
         \A i \in 1..Len(q) : q[i] # x,
         \A i, j \in 1..Len(q) : q[i] = q[j] => i = j
  PROVE  /\ Append(q, x) \in Seq(Callers)
         /\ Len(Append(q, x)) = Len(q) + 1
         /\ \A i \in 1..Len(Append(q, x)) :
              \/ i \in 1..Len(q) /\ Append(q, x)[i] = q[i]
              \/ i = Len(q) + 1 /\ Append(q, x)[i] = x
         /\ \A i, j \in 1..Len(Append(q, x)) :
              Append(q, x)[i] = Append(q, x)[j] => i = j
  OBVIOUS

\* Removing the head leaves the other callers, none of which is the head.
LEMMA QueueTail ==
  ASSUME NEW q \in Seq(Callers), q # <<>>,
         \A i, j \in 1..Len(q) : q[i] = q[j] => i = j
  PROVE  /\ Head(q) = q[1] /\ Head(q) \in Callers /\ 1 \in 1..Len(q)
         /\ Tail(q) \in Seq(Callers)
         /\ \A i \in 1..Len(Tail(q)) :
              i + 1 \in 1..Len(q) /\ Tail(q)[i] = q[i + 1] /\ Tail(q)[i] # Head(q)
         /\ \A i, j \in 1..Len(Tail(q)) : Tail(q)[i] = Tail(q)[j] => i = j
  OBVIOUS

LEMMA InitIInv == Init => IInv
<1> SUFFICES ASSUME Init PROVE IInv
  OBVIOUS
<1>1. TypeOK
  BY FreshSound, BoundsAssumption
  DEF Init, TypeOK, Sound, Requests, NoRequest, Jobs, Callers
<1>2. Keeps(record, acked)
  BY DEF Init, Keeps
<1> QED
  BY <1>1, <1>2, FreshSound
  DEF Init, IInv, NoLostUpdate, JobsOnFinishedWork, JobReserved, QueueSound

\* Releasing the battle: what is left of the queue is sound for the callers
\* that stay in it, whatever happened to the head's own slot.
LEMMA ReleaseQueue ==
  ASSUME TypeOK, QueueSound, queue # <<>>, Release,
         \A x \in Callers : x # Head(queue) =>
           /\ x[1] = "request" => request'[x[2]] = request[x[2]]
           /\ x[1] = "job" /\ job[x[2]] # "idle" => job'[x[2]] = job[x[2]]
  PROVE  queue' \in Seq(Callers) /\ QueueSound'
<1>1. queue \in Seq(Callers)
  BY DEF TypeOK
<1>2. /\ queue' \in Seq(Callers)
      /\ \A i \in 1..Len(queue') :
           i + 1 \in 1..Len(queue) /\ queue'[i] = queue[i + 1] /\ queue'[i] # Head(queue)
      /\ \A i, j \in 1..Len(queue') : queue'[i] = queue'[j] => i = j
  BY <1>1, QueueTail DEF QueueSound, Release
<1>3. ASSUME NEW i \in 1..Len(queue')
      PROVE  /\ queue'[i][1] = "request" => request'[queue'[i][2]] # NoRequest
             /\ queue'[i][1] = "job" => job'[queue'[i][2]] \in {"completed", "error"}
  <2> DEFINE x == queue'[i]
  <2>1. x \in Callers /\ x = queue[i + 1] /\ i + 1 \in 1..Len(queue) /\ x # Head(queue)
    BY <1>2
  <2>2. /\ x[1] = "request" => request[x[2]] # NoRequest
        /\ x[1] = "job" => job[x[2]] \in {"completed", "error"}
    BY <2>1 DEF QueueSound
  <2> HIDE DEF x
  <2>3. /\ x[1] = "request" => request'[x[2]] = request[x[2]]
        /\ x[1] = "job" => job'[x[2]] = job[x[2]]
    BY <2>1, <2>2
  <2> QED
    BY <2>2, <2>3 DEF x
<1> QED
  BY <1>2, <1>3 DEF QueueSound

\* Taking a place in the queue: the new caller is not in it yet and has
\* something to do, and the slots of the queued callers are untouched.
LEMMA Enqueue ==
  ASSUME TypeOK, QueueSound,
         NEW x \in Callers, \A i \in 1..Len(queue) : queue[i] # x,
         queue' = Append(queue, x),
         x[1] = "request" => request'[x[2]] # NoRequest,
         x[1] = "job" => job'[x[2]] \in {"completed", "error"},
         \A y \in Callers : y # x =>
           /\ y[1] = "request" => request'[y[2]] = request[y[2]]
           /\ y[1] = "job" => job'[y[2]] = job[y[2]]
  PROVE  queue' \in Seq(Callers) /\ QueueSound'
<1>1. queue \in Seq(Callers)
  BY DEF TypeOK
<1>2. /\ queue' \in Seq(Callers)
      /\ Len(queue') = Len(queue) + 1
      /\ \A i \in 1..Len(queue') :
           \/ i \in 1..Len(queue) /\ queue'[i] = queue[i]
           \/ i = Len(queue) + 1 /\ queue'[i] = x
      /\ \A i, j \in 1..Len(queue') : queue'[i] = queue'[j] => i = j
  BY <1>1, QueueAppend DEF QueueSound
<1>3. ASSUME NEW i \in 1..Len(queue')
      PROVE  /\ queue'[i][1] = "request" => request'[queue'[i][2]] # NoRequest
             /\ queue'[i][1] = "job" => job'[queue'[i][2]] \in {"completed", "error"}
  <2>1. CASE i \in 1..Len(queue) /\ queue'[i] = queue[i]
    <3>1. queue[i] \in Callers /\ queue[i] # x
      BY <1>1, <2>1
    <3> QED
      BY <2>1, <3>1 DEF QueueSound
  <2>2. CASE queue'[i] = x
    BY <2>2
  <2> QED
    BY <1>2, <2>1, <2>2
<1> QED
  BY <1>2, <1>3 DEF QueueSound

\* A caller with a free slot is not in the queue.
LEMMA FreshRequest ==
  ASSUME IInv, NEW c \in Clients, request[c] = NoRequest
  PROVE  \A i \in 1..Len(queue) : queue[i] # <<"request", c>>
  BY DEF IInv, QueueSound

LEMMA FreshJob ==
  ASSUME IInv, NEW c \in Clients, job[c] = "fetching"
  PROVE  \A i \in 1..Len(queue) : queue[i] # <<"job", c>>
  BY DEF IInv, QueueSound

LEMMA HeadRequest ==
  ASSUME IInv, NEW c \in Clients, queue # <<>>, Head(queue) = <<"request", c>>
  PROVE  request[c] \in Requests
<1>1. queue[1] = <<"request", c>> /\ 1 \in 1..Len(queue)
  BY QueueTail DEF IInv, TypeOK, QueueSound
<1> QED
  BY <1>1 DEF IInv, QueueSound, TypeOK

LEMMA HeadJob ==
  ASSUME IInv, NEW c \in Clients, queue # <<>>, Head(queue) = <<"job", c>>
  PROVE  job[c] \in {"completed", "error"}
<1>1. queue[1] = <<"job", c>> /\ 1 \in 1..Len(queue)
  BY QueueTail DEF IInv, TypeOK, QueueSound
<1> QED
  BY <1>1 DEF IInv, QueueSound

LEMMA NextIInv == IInv /\ [Next]_vars => IInv'
<1> SUFFICES ASSUME IInv, [Next]_vars PROVE IInv'
  OBVIOUS
<1>0. TypeOK /\ QueueSound /\ Sound(record) /\ Keeps(record, acked)
  BY DEF IInv
<1>1. ASSUME NEW c \in Clients, NEW r \in Requests, Submit(c, r) PROVE IInv'
  <2>1. <<"request", c>> \in Callers /\ r # NoRequest
    BY DEF Callers, Requests, NoRequest, Votes, Sides, None
  <2>2. queue' \in Seq(Callers) /\ QueueSound'
    <3>1. \A i \in 1..Len(queue) : queue[i] # <<"request", c>>
      BY <1>1, FreshRequest DEF Submit
    <3>2. request' = [request EXCEPT ![c] = r] /\ job' = job /\ request'[c] # NoRequest
      BY <1>0, <1>1, <2>1 DEF Submit, TypeOK
    <3>3. ASSUME NEW y \in Callers, y # <<"request", c>>
          PROVE  y[1] = "request" => request'[y[2]] = request[y[2]]
      <4>1. y[1] = "request" => y[2] \in Clients /\ y[2] # c
        BY <3>3 DEF Callers
      <4> QED
        BY <1>0, <3>2, <4>1 DEF TypeOK
    <3> QED
      BY <1>0, <1>1, <2>1, <3>1, <3>2, <3>3, Enqueue DEF Submit
  <2>3. TypeOK'
    BY <1>0, <1>1, <2>2 DEF TypeOK, Submit
  <2> QED
    BY <1>0, <1>1, <2>2, <2>3 DEF IInv, Submit, NoLostUpdate, JobsOnFinishedWork, JobReserved, TypeOK
<1>2. CASE Read
  BY <1>0, <1>2 DEF IInv, Read, TypeOK, Sound, NoLostUpdate, JobsOnFinishedWork, JobReserved, QueueSound
<1>3. ASSUME NEW c \in Clients, Commit(c) PROVE IInv'
  <2>1. request[c] \in Requests /\ copy = record /\ Allowed(record, request[c])
    BY <1>3, HeadRequest DEF Commit, IInv, NoLostUpdate
  <2>2. Sound(record') /\ Keeps(record', acked')
    BY <1>0, <1>3, <2>1, EffectSound, EffectKeeps DEF Commit
  <2>3. queue' \in Seq(Callers) /\ QueueSound'
    <3>1. \A x \in Callers : x # Head(queue) =>
            /\ x[1] = "request" => request'[x[2]] = request[x[2]]
            /\ x[1] = "job" /\ job[x[2]] # "idle" => job'[x[2]] = job[x[2]]
      BY <1>0, <1>3 DEF Commit, TypeOK, Callers, IInv, JobReserved
    <3> QED
      BY <1>0, <1>3, <3>1, ReleaseQueue DEF Commit
  <2>4. TypeOK'
    BY <1>0, <1>3, <2>1, <2>2, <2>3 DEF TypeOK, Commit, Release, Jobs, Sound
  <2>5. JobsOnFinishedWork'
    <3>1. AllCompleted(record) /\ ~record.early
            => AllCompleted(record') /\ ~record'.early
      BY <1>0, <1>3, <2>1, FinishedWorkStays DEF Commit
    <3>2. request[c] = CompareEdits => AllCompleted(record') /\ ~record'.early
      BY <1>3, <2>1, <3>1 DEF CompareEdits, Allowed, CanCompare
    <3> QED
      BY <1>0, <1>3, <3>1, <3>2 DEF IInv, JobsOnFinishedWork, Commit, TypeOK
  <2>6. JobReserved'
    BY <1>0, <1>3 DEF IInv, JobReserved, Commit, TypeOK, NoRequest, CompareEdits, None
  <2> QED
    BY <1>3, <2>2, <2>3, <2>4, <2>5, <2>6 DEF IInv, Commit, Release, NoLostUpdate
<1>4. ASSUME NEW c \in Clients, Refuse(c) PROVE IInv'
  <2>1. queue' \in Seq(Callers) /\ QueueSound'
    BY <1>0, <1>4, ReleaseQueue DEF Refuse, TypeOK, Callers
  <2>2. TypeOK'
    BY <1>0, <1>4, <2>1 DEF TypeOK, Refuse, Release
  <2> QED
    BY <1>0, <1>4, <2>1, <2>2 
    DEF IInv, Refuse, Release, NoLostUpdate, JobsOnFinishedWork, JobReserved, TypeOK,
        NoRequest, CompareEdits, None
<1>5. ASSUME NEW c \in Clients, NEW o \in {"completed", "error"}, Fetched(c, o)
      PROVE  IInv'
  <2>1. <<"job", c>> \in Callers
    BY DEF Callers
  <2>2. queue' \in Seq(Callers) /\ QueueSound'
    <3>1. \A i \in 1..Len(queue) : queue[i] # <<"job", c>>
      BY <1>5, FreshJob DEF Fetched
    <3>2. job' = [job EXCEPT ![c] = o] /\ request' = request /\ job'[c] = o
      BY <1>0, <1>5 DEF Fetched, TypeOK
    <3>3. ASSUME NEW y \in Callers, y # <<"job", c>>
          PROVE  y[1] = "job" => job'[y[2]] = job[y[2]]
      <4>1. y[1] = "job" => y[2] \in Clients /\ y[2] # c
        BY <3>3 DEF Callers
      <4> QED
        BY <1>0, <3>2, <4>1 DEF TypeOK
    <3> QED
      BY <1>0, <1>5, <2>1, <3>1, <3>2, <3>3, Enqueue DEF Fetched
  <2>3. TypeOK'
    BY <1>0, <1>5, <2>2 DEF TypeOK, Fetched, Jobs
  <2>4. JobsOnFinishedWork'
    BY <1>0, <1>5 DEF IInv, JobsOnFinishedWork, Fetched, TypeOK
  <2> QED
    BY <1>0, <1>5, <2>2, <2>3, <2>4 DEF IInv, Fetched, NoLostUpdate, JobReserved, TypeOK
<1>6. ASSUME NEW c \in Clients, RecordGenerated(c) PROVE IInv'
  <2>1. job[c] \in {"completed", "error"} /\ copy = record
    BY <1>6, HeadJob DEF RecordGenerated, IInv, NoLostUpdate
  <2>2. ~record.early /\ AllCompleted(record)
    BY <1>0, <2>1 DEF IInv, JobsOnFinishedWork
  <2>3. Sound(record') /\ record'.completed = record.completed
          /\ record'.vote = record.vote /\ record'.early = record.early
    BY <1>0, <1>6, <2>1, <2>2, GeneratedSound DEF RecordGenerated, Generated, Sound, Record
  <2>4. queue' \in Seq(Callers) /\ QueueSound'
    BY <1>0, <1>6, ReleaseQueue DEF RecordGenerated, TypeOK, Callers
  <2>5. TypeOK'
    BY <1>0, <1>6, <2>3, <2>4 DEF TypeOK, RecordGenerated, Release, Jobs, Sound
  <2> QED
    BY <1>0, <1>6, <2>3, <2>4, <2>5
    DEF IInv, RecordGenerated, Release, NoLostUpdate, JobsOnFinishedWork, JobReserved, Keeps,
        AllCompleted, TypeOK
<1>7. ASSUME NEW c \in Clients, IoError(c) PROVE IInv'
  <2>1. queue' \in Seq(Callers) /\ QueueSound'
    BY <1>0, <1>7, ReleaseQueue DEF IoError, TypeOK, Callers
  <2>2. TypeOK'
    BY <1>0, <1>7, <2>1, BoundsAssumption DEF TypeOK, IoError, Release
  <2> QED
    BY <1>0, <1>7, <2>1, <2>2 
    DEF IInv, IoError, Release, NoLostUpdate, JobsOnFinishedWork, JobReserved, TypeOK,
        NoRequest, CompareEdits, None
<1>8. CASE Restart
  BY <1>0, <1>8, BoundsAssumption
  DEF IInv, Restart, TypeOK, NoLostUpdate, JobsOnFinishedWork, JobReserved, QueueSound, Jobs,
      NoRequest, CompareEdits, None
<1>9. CASE UNCHANGED vars
  BY <1>0, <1>9 DEF IInv, vars, TypeOK, NoLostUpdate, JobsOnFinishedWork, JobReserved, QueueSound
<1> QED
  BY <1>1, <1>2, <1>3, <1>4, <1>5, <1>6, <1>7, <1>8, <1>9 DEF Next

-----------------------------------------------------------------------------
(* The theorems *)

\* Whatever the interleaving of requests, generations, file errors and
\* restarts, the inductive invariant holds.
THEOREM Invariance == Spec => []IInv
<1>1. Init => IInv
  BY InitIInv
<1>2. IInv /\ [Next]_vars => IInv'
  BY NextIInv
<1> QED
  BY <1>1, <1>2, PTL DEF Spec

\* Every variable keeps its type (service.ts, types.ts).
THEOREM TypeCorrectness == Spec => []TypeOK
<1>1. IInv => TypeOK
  BY DEF IInv
<1> QED
  BY <1>1, Invariance, PTL

\* withMutation never lets an operation write over a file it has not read.
THEOREM Serialised == Spec => []NoLostUpdate
<1>1. IInv => NoLostUpdate
  BY DEF IInv
<1> QED
  BY <1>1, Invariance, PTL

\* An answered completion, vote or stop is never taken back.
THEOREM Durability == Spec => []AckedIsDurable
<1>1. IInv => AckedIsDurable
  BY DEF IInv, Keeps, AckedIsDurable
<1> QED
  BY <1>1, Invariance, PTL

\* Every recorded vote names finished work, and a late comparison never reopens
\* a stopped or early-decided battle.
THEOREM DecisionsAreFair == Spec => []FairDecision
<1>1. IInv => FairDecision
  BY DEF IInv, Sound, FairDecision
<1> QED
  BY <1>1, Invariance, PTL

\* The abstract module's constants are this module's.
LEMMA SameNames ==
  /\ Decision!Sides = Sides /\ Decision!Votes = Votes /\ Decision!None = None
  /\ \A v : Decision!Winner(v) = Winner(v)
  BY DEF Decision!Sides, Decision!Votes, Decision!None, Decision!Winner,
         Sides, Votes, None, Winner

\* Each of the record's operations is a step of the abstract decision.
LEMMA RecordImplements ==
  ASSUME Sound(record), NEW q \in Requests, Allowed(record, q),
         record' = Effect(record, q)
  PROVE  Decision!Next \/ UNCHANGED Decision!vars
<1>1. Sound(record')
  BY EffectSound
<1>2. CASE q.op = "complete"
  <2>1. q.arg \in Sides /\ record' = Completed(record, q.arg)
    BY <1>2 DEF Requests, Effect
  <2>2. Decision!Finish(q.arg)
    <3>1. Finished' = Finished \cup {q.arg}
      BY <2>1 DEF Finished, Completed, Sound, Record
    <3>2. record'.vote = record.vote /\ Summary' = Summary
      BY <2>1 DEF Summary, Completed, Sound, Record
    <3> QED
      BY <3>1, <3>2 DEF Decision!Finish
  <2> QED
    BY <2>1, <2>2, SameNames DEF Decision!Next
<1>3. CASE q.op = "vote"
  <2>1. /\ q.arg \in Votes /\ record' = Voted(record, q.arg)
        /\ CanVote(record, q.arg)
    BY <1>3 DEF Requests, Effect, Allowed
  <2>2. Decision!Decide(q.arg)
    <3>1. /\ record.vote = None /\ record'.vote = q.arg
          /\ Winner(q.arg) \in Finished /\ Finished' = Finished
          /\ q.arg = "tie" => Finished = Sides
      BY <2>1 DEF Voted, CanVote, Sound, Record, AllCompleted, Winner, Votes, Sides, Finished
    <3>2. Summary' = IF Finished = Sides THEN Summary ELSE "withheld"
      BY <2>1 DEF Voted, Sound, Record, AllCompleted, Sides, Finished, Summary
    <3> QED
      BY <3>1, <3>2, SameNames DEF Decision!Decide
  <2> QED
    BY <2>1, <2>2, SameNames DEF Decision!Next
<1>4. CASE q.op = "stop"
  <2>1. record' = Stopped(record) /\ CanStop(record)
    BY <1>4 DEF Effect, Allowed
  <2>2. Decision!Stop
    BY <2>1, SameNames
    DEF Decision!Stop, Stopped, CanStop, Sound, Record, Finished, Summary
  <2> QED
    BY <2>2 DEF Decision!Next
<1>5. CASE q.op = "compare"
  <2>1. record' = Compared(record, q.arg = "edits") /\ CanCompare(record)
    BY <1>5 DEF Effect, Allowed
  <2>2. Decision!Summarise
    <3>1. Finished = Sides /\ Finished' = Finished /\ record'.vote = record.vote
      BY <2>1 DEF Compared, CanCompare, Sound, Record, AllCompleted, Finished
    <3>2. Summary # "withheld" /\ Summary' \in {"open", "shown"}
      BY <2>1 DEF Compared, CanCompare, Sound, Record, Summary
    <3> QED
      BY <3>1, <3>2, SameNames DEF Decision!Summarise
  <2> QED
    BY <2>2 DEF Decision!Next
<1> QED
  BY <1>2, <1>3, <1>4, <1>5 DEF Requests

\* The concurrent, restarting service implements the abstract decision: one
\* irrevocable decision on finished work, comparisons withheld for good.
THEOREM Refinement == Spec => RefinesDecision
<1>1. Init => Decision!Init
  BY SameNames DEF Init, Decision!Init, FreshRecord, Finished, Summary
<1>2. IInv /\ [Next]_vars => [Decision!Next]_(Decision!vars)
  <2> SUFFICES ASSUME IInv, [Next]_vars
               PROVE  Decision!Next \/ UNCHANGED Decision!vars
    OBVIOUS
  <2>1. ASSUME NEW c \in Clients, Commit(c)
        PROVE  Decision!Next \/ UNCHANGED Decision!vars
    <3>1. request[c] \in Requests /\ copy = record
      BY <2>1, HeadRequest DEF Commit, IInv, NoLostUpdate
    <3> QED
      BY <2>1, <3>1, RecordImplements DEF Commit, IInv
  <2>2. ASSUME NEW c \in Clients, RecordGenerated(c)
        PROVE  Decision!Next \/ UNCHANGED Decision!vars
    <3>1. job[c] \in {"completed", "error"} /\ copy = record
      BY <2>2, HeadJob DEF RecordGenerated, IInv, NoLostUpdate
    <3>2. AllCompleted(record) /\ ~record.early
      BY <3>1 DEF IInv, JobsOnFinishedWork
    <3>3. CASE CanRecordGenerated(record)
      <4>1. record' = Generated(record, job[c])
        BY <2>2, <3>1, <3>3 DEF RecordGenerated
      <4>2. Decision!Summarise
        <5>1. Finished = Sides /\ Finished' = Finished /\ record'.vote = record.vote
          BY <3>2, <4>1 DEF Generated, IInv, Sound, Record, AllCompleted, Finished
        <5>2. Summary # "withheld" /\ Summary' \in {"open", "shown"}
          BY <3>1, <3>2, <3>3, <4>1
          DEF Generated, CanRecordGenerated, IInv, Sound, Record, Summary
        <5> QED
          BY <5>1, <5>2, SameNames DEF Decision!Summarise
      <4> QED
        BY <4>2 DEF Decision!Next
    <3>4. CASE ~CanRecordGenerated(record)
      BY <2>2, <3>1, <3>4 DEF RecordGenerated, Decision!vars, Finished, Summary
    <3> QED
      BY <3>3, <3>4
  <2>3. CASE UNCHANGED record
    BY <2>3 DEF Decision!vars, Finished, Summary
  <2>4. \/ \E c \in Clients : Commit(c) \/ RecordGenerated(c)
        \/ UNCHANGED record
    BY DEF Next, Submit, Read, Refuse, Fetched, IoError, Restart, vars
  <2> QED
    BY <2>1, <2>2, <2>3, <2>4
<1> QED
  BY <1>1, <1>2, Invariance, PTL DEF Spec, Decision!Spec, RefinesDecision
=============================================================================
