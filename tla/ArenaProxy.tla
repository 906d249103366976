----------------------------- MODULE ArenaProxy -----------------------------
(***************************************************************************)
(* ArenaProxyService for one battle: concurrent HTTP handlers serialised   *)
(* by withMutation, each a read of the JSON file, a change of that copy    *)
(* and an atomic replacement of the file, and the comparison generations   *)
(* that run in the background outside the queue and come back through it.  *)
(*                                                                         *)
(* A caller is <<"request", c>> for a handler on behalf of client c or     *)
(* <<"job", c>> for the generation that c's comparison request started.    *)
(* mutationTails chains promises in call order, so it is the sequence      *)
(* queue, whose head is the operation that runs.  The file survives a      *)
(* restart; the queue, the copy and the generations do not.                *)
(***************************************************************************)
EXTENDS ArenaRecord, Sequences

CONSTANTS
  Clients,      \* concurrent connections, each with one request at a time
  MaxRestarts,  \* bound on process restarts
  MaxIoErrors,  \* bound on failing file reads and writes
  NoCopy        \* not a record: the head has not read the file yet

ASSUME BoundsAssumption ==
  /\ MaxRestarts \in Nat
  /\ MaxIoErrors \in Nat

ASSUME NoCopyAssumption == NoCopy \notin Record

VARIABLES
  record,    \* the JSON file of the battle
  queue,     \* callers in withMutation order; the head holds the battle
  copy,      \* what the head has read, or NoCopy before it has
  request,   \* request[c]: the request c waits on, or NoRequest
  job,       \* job[c]: the generation c's request started
  acked,     \* history: the changes whose callers were answered with success
  restarts, ioErrors

vars == <<record, queue, copy, request, job, acked, restarts, ioErrors>>

NoRequest == [op |-> None, arg |-> None]

\* Not running, waiting for the model provider, or queued with its outcome.
Jobs == {"idle", "fetching", "completed", "error"}

Callers == {"request", "job"} \X Clients

-----------------------------------------------------------------------------
Init ==
  /\ record = FreshRecord
  /\ queue = <<>>
  /\ copy = NoCopy
  /\ request = [c \in Clients |-> NoRequest]
  /\ job = [c \in Clients |-> "idle"]
  /\ acked = {}
  /\ restarts = 0
  /\ ioErrors = 0

\* A handler calls withMutation: it takes its place in the queue at once.
\* A client asks for a second generation only after its first has ended,
\* which bounds the generations in flight.
Submit(c, r) ==
  /\ request[c] = NoRequest
  /\ r = CompareEdits => job[c] = "idle"
  /\ request' = [request EXCEPT ![c] = r]
  /\ queue' = Append(queue, <<"request", c>>)
  /\ UNCHANGED <<record, copy, job, acked, restarts, ioErrors>>

\* The head's `await this.requireBattle(id)`.
Read ==
  /\ queue # <<>>
  /\ copy = NoCopy
  /\ copy' = record
  /\ UNCHANGED <<record, queue, request, job, acked, restarts, ioErrors>>

\* Mutant: the next operation goes on with the copy of the last one.
ReleaseKeepsCopy ==
  /\ queue' = Tail(queue)
  /\ UNCHANGED copy

\* The finally block: the next caller becomes the head.
Release ==
  /\ queue' = Tail(queue)
  /\ copy' = NoCopy

\* markComplete, vote, stop and startComparison past their checks: put and
\* answer.  startComparison then leaves a generation running.
Commit(c) ==
  /\ queue # <<>>
  /\ Head(queue) = <<"request", c>>
  /\ copy # NoCopy
  /\ Allowed(copy, request[c])
  /\ record' = Effect(copy, request[c])
  /\ job' = IF request[c] = CompareEdits
              THEN [job EXCEPT ![c] = "fetching"] ELSE job
  /\ acked' = acked \cup {request[c]}
  /\ request' = [request EXCEPT ![c] = NoRequest]
  /\ Release
  /\ UNCHANGED <<restarts, ioErrors>>

\* One of the checks throws; nothing is written.
Refuse(c) ==
  /\ queue # <<>>
  /\ Head(queue) = <<"request", c>>
  /\ copy # NoCopy
  /\ ~Allowed(copy, request[c])
  /\ request' = [request EXCEPT ![c] = NoRequest]
  /\ Release
  /\ UNCHANGED <<record, job, acked, restarts, ioErrors>>

\* Mutant: the catch block that turns a failure into an outcome is missing.
FetchedUncaught(c, outcome) ==
  /\ job[c] = "fetching"
  /\ IF outcome = "error"
       THEN job' = [job EXCEPT ![c] = "idle"] /\ UNCHANGED queue
       ELSE job' = [job EXCEPT ![c] = outcome] /\ queue' = Append(queue, <<"job", c>>)
  /\ UNCHANGED <<record, copy, request, acked, restarts, ioErrors>>

\* The provider answers, fails or times out, and the generation queues up.
Fetched(c, outcome) ==
  /\ job[c] = "fetching"
  /\ job' = [job EXCEPT ![c] = outcome]
  /\ queue' = Append(queue, <<"job", c>>)
  /\ UNCHANGED <<record, copy, request, acked, restarts, ioErrors>>

\* The generation's mutation: dropped when the battle has been stopped.
RecordGenerated(c) ==
  /\ queue # <<>>
  /\ Head(queue) = <<"job", c>>
  /\ copy # NoCopy
  /\ record' = IF CanRecordGenerated(copy) THEN Generated(copy, job[c]) ELSE record
  /\ job' = [job EXCEPT ![c] = "idle"]
  /\ Release
  /\ UNCHANGED <<request, acked, restarts, ioErrors>>

\* readFile, writeFile or rename throws under a request: the rename is the
\* commit point, so the file is as it was, and the queue moves on.
IoError(c) ==
  /\ queue # <<>>
  /\ Head(queue) = <<"request", c>>
  /\ ioErrors < MaxIoErrors
  /\ ioErrors' = ioErrors + 1
  /\ request' = [request EXCEPT ![c] = NoRequest]
  /\ Release
  /\ UNCHANGED <<record, job, acked, restarts>>

\* The process ends and starts again.  A file error under a generation is
\* an unhandled rejection and ends the process too.
Restart ==
  /\ restarts < MaxRestarts
  /\ restarts' = restarts + 1
  /\ queue' = <<>>
  /\ copy' = NoCopy
  /\ request' = [c \in Clients |-> NoRequest]
  /\ job' = [c \in Clients |-> "idle"]
  /\ UNCHANGED <<record, acked, ioErrors>>

Next ==
  \/ \E c \in Clients, r \in Requests : Submit(c, r)
  \/ Read
  \/ \E c \in Clients : Commit(c) \/ Refuse(c) \/ RecordGenerated(c) \/ IoError(c)
  \/ \E c \in Clients, outcome \in {"completed", "error"} : Fetched(c, outcome)
  \/ Restart

\* The event loop runs what is ready.  Clients need not call, the disk need
\* not fail and the process need not restart; the provider's answer is
\* bounded by fetch's own timeouts.
Progress ==
  \/ Read
  \/ \E c \in Clients : Commit(c) \/ Refuse(c) \/ RecordGenerated(c)

Spec == Init /\ [][Next]_vars

FairSpec ==
  /\ Spec
  /\ WF_vars(Progress)
  /\ \A c \in Clients : WF_vars(\E o \in {"completed", "error"} : Fetched(c, o))

-----------------------------------------------------------------------------
TypeOK ==
  /\ record \in Record
  /\ queue \in Seq(Callers)
  /\ copy \in Record \cup {NoCopy}
  /\ request \in [Clients -> Requests \cup {NoRequest}]
  /\ job \in [Clients -> Jobs]
  /\ acked \in SUBSET Requests
  /\ restarts \in 0..MaxRestarts
  /\ ioErrors \in 0..MaxIoErrors

\* withMutation makes a read-modify-write atomic: what the running operation
\* has read is still what the file holds when it writes.
NoLostUpdate == copy # NoCopy => copy = record

\* A change the caller was told of is in the file, across later operations,
\* late generations, file errors and restarts (service.test.ts:91).
AckedIsDurable ==
  /\ \A s \in Sides : [op |-> "complete", arg |-> s] \in acked => record.completed[s]
  /\ \A v \in Votes : [op |-> "vote", arg |-> v] \in acked => record.vote = v
  /\ [op |-> "stop", arg |-> None] \in acked => record.vote = "stopped"

\* A recorded vote names finished work: the winner finished, both sides did
\* unless the vote is marked early, and a tie is never early.  And no
\* comparison, however late it comes back, replaces the reason a stopped or
\* early-decided battle has none (service.test.ts:114, docs/arena.md:70).
FairDecision ==
  /\ record.vote \in Votes =>
       /\ record.winner = Winner(record.vote)
       /\ record.completed[record.winner]
       /\ ~record.early => AllCompleted(record)
       /\ record.vote = "tie" => ~record.early
  /\ record.vote = "stopped" => record.comparison = "stopped"
  /\ record.early => record.comparison = "early"

\* What the record says of the abstract decision's state.
Finished == {s \in Sides : record.completed[s]}

Summary ==
  IF record.comparison = "completed" THEN "shown"
  ELSE IF record.comparison \in {"early", "stopped"} THEN "withheld"
  ELSE "open"

Decision == INSTANCE ArenaDecision WITH
  finished <- Finished, decision <- record.vote, summary <- Summary

\* The proxy implements the abstract decision of ArenaDecision: one decision,
\* never changed, taken on finished work, whatever clients, generations and
\* restarts do.
RefinesDecision == Decision!Spec

\* Every handler is answered, as an operation that throws releases the queue
\* like one that returns; and while the process stays up a comparison does not
\* stay "generating".
WorkEnds ==
  /\ \A c \in Clients : request[c] # NoRequest ~> request[c] = NoRequest
  /\ record.comparison = "generating" ~> record.comparison # "generating" \/ restarts > 0
=============================================================================
