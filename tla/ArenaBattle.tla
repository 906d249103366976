---------------------------- MODULE ArenaBattle ----------------------------
(***************************************************************************)
(* ArenaBattleService on the daemon, for one battle that has been started: *)
(* clients vote, stop and look, agents end their turns, comparisons are    *)
(* polled for, and every one of these is a mutation of one JSON file run   *)
(* in call order by withMutation, with awaits inside.  A mutation reads    *)
(* the file into mem, works through its steps (pc) and writes mem back.    *)
(*                                                                         *)
(* The proxy is the record px, changed atomically by each call: ArenaProxy *)
(* shows that its queue makes that so.  A call can time out after 30 s     *)
(* (proxy-client.ts) and still arrive, at once, later or never.            *)
(*                                                                         *)
(* Faults that the code handles or survives are enabled by kind and        *)
(* limited in number:                                                      *)
(*   "proxy"    a call to the proxy times out                              *)
(*   "restart"  the proxy restarts and forgets its generations             *)
(*   "crash"    the daemon restarts; sessions are gone, files are not      *)
(*   "promote"  setWorkspaceInternal throws                                *)
(*   "archive"  a side's agent and workspace cannot be archived            *)
(*   "diff"     buildBoundedBattleDiff throws                              *)
(*   "launch"   a step of startBattle fails (ArenaLaunch)                  *)
(***************************************************************************)
EXTENDS ArenaRecord, SequencesExt

CONSTANTS
  Faults,     \* the kinds of fault that may occur
  MaxFaults,  \* bound on how many do
  MaxQueue    \* bound on mutations waiting when a client calls

ASSUME FaultsAssumption ==
  /\ Faults \subseteq {"proxy", "restart", "crash", "promote", "archive", "diff", "launch"}
  /\ MaxFaults \in Nat
  /\ MaxQueue \in Nat

VARIABLES
  px,          \* the proxy's record
  generations, \* comparison generations running in the proxy
  late,        \* requests whose caller has given up, not yet arrived
  disk,        \* the daemon's file for the battle
  queue,       \* mutations in withMutation order; the head runs
  pc,          \* the next step of the head, "idle" before its first
  mem,         \* the head's copy of the file
  polls,       \* pollComparison loops running
  agent,       \* agent[s]: the OpenCode agent of side s
  monitor,     \* monitor[s]: monitorSide is subscribed to it
  space,       \* space[s]: the worktree workspace of side s
  source,      \* the agent the battle was started from
  card,        \* the battle card is in the winner's timeline
  faults

proxyVars == <<px, generations, late>>
opVars    == <<queue, pc, mem>>
worldVars == <<agent, monitor, space, source, card>>
vars      == <<px, generations, late, disk, queue, pc, mem, polls, agent, monitor,
               space, source, card, faults>>

SideStatuses == {"preparing", "running", "completed", "cancelled", "error"}
Terminal     == {"completed", "cancelled", "error"}
Outcomes     == {"completed", "cancelled", "error"}

Battle == [status     : {"preparing", "running", "awaiting_vote", "decided", "stopped", "error"},
           side       : [Sides -> SideStatuses],
           linked     : SUBSET Sides,   \* agentId and workspaceId are recorded
           decision   : Decisions \cup {None},
           winner     : Sides \cup {None},
           early      : BOOLEAN,
           revealed   : BOOLEAN,
           comparison : Comparisons,
           detected   : BOOLEAN]     \* comparisonDetectionVersion is current

\* The record startBattle saves before it prompts the two agents.
Started == [status     |-> "running",
            side       |-> [s \in Sides |-> "running"],
            linked     |-> Sides,
            decision   |-> None,
            winner     |-> None,
            early      |-> FALSE,
            revealed   |-> FALSE,
            comparison |-> "pending",
            detected   |-> FALSE]

Mutations ==
  [op : {"vote"}, side : {None}, arg : Votes]
    \cup [op : {"stop", "get"}, side : {None}, arg : {None}]
    \cup [op : {"finish"}, side : Sides, arg : Outcomes]
    \cup [op : {"poll"}, side : {None}, arg : Settled]

\* "none" before ArenaLaunch has made it.
Agents == {"none", "running", "idle", "unloaded", "archived"}
Spaces == {"none", "internal", "visible", "archived"}

Init ==
  /\ px = FreshRecord /\ generations = 0 /\ late = {}
  /\ disk = Started
  /\ queue = <<>> /\ pc = "idle" /\ mem = Started
  /\ polls = 0
  /\ agent = [s \in Sides |-> "running"]
  /\ monitor = [s \in Sides |-> TRUE]
  /\ space = [s \in Sides |-> "internal"]
  /\ source = "idle"
  /\ card = FALSE
  /\ faults = <<>>

-----------------------------------------------------------------------------
(* Pieces of the steps *)

CompletedSides(b) == {s \in Sides : b.side[s] = "completed"}
AllTerminal(b)    == \A s \in Sides : b.side[s] \in Terminal

\* applyProxyDecision: the daemon's view of a decision is the proxy's.
Applied(b, r) ==
  [b EXCEPT !.decision = r.vote, !.winner = r.winner, !.early = r.early,
            !.revealed = Revealed(r), !.comparison = r.comparison]

Fault(kind) ==
  /\ kind \in Faults
  /\ Len(faults) < MaxFaults
  /\ faults' = Append(faults, kind)

\* The three ways a call to the proxy ends for its caller.
Accepts(q) ==
  /\ Allowed(px, q)
  /\ px' = Effect(px, q)
  /\ generations' = IF q = CompareEdits THEN generations + 1 ELSE generations
  /\ UNCHANGED <<late, faults>>

Refuses(q) ==
  /\ ~Allowed(px, q)
  /\ UNCHANGED <<px, generations, late, faults>>

TimesOut(q) ==
  /\ Fault("proxy")
  /\ late' = late \cup {q}
  /\ UNCHANGED <<px, generations>>

\* syncTerminalSides: every locally completed side is reported again; the
\* calls in lost time out, and one that does fails the caller.
SyncCalls(lost) ==
  /\ px' = [px EXCEPT !.completed =
              [s \in Sides |-> @[s] \/ s \in CompletedSides(mem) \ lost]]
  /\ late' = late \cup [op : {"complete"}, arg : lost]
  /\ IF lost = {} THEN UNCHANGED faults ELSE Fault("proxy")
  /\ UNCHANGED generations

\* The finally block of withMutation.
Release ==
  /\ queue' = Tail(queue)
  /\ pc' = "idle"
  /\ mem' = Started

Goto(step, b) ==
  /\ pc' = step
  /\ mem' = b
  /\ UNCHANGED queue

\* The steps that belong to the head of the queue.
At(step, op) ==
  /\ pc = step
  /\ queue # <<>>
  /\ Head(queue).op = op

\* archiveSide for the sides in S: a run is cancelled, which its monitor
\* sees as turn_canceled, then agent and workspace are archived, except for
\* the sides in kept, whose archiving fails with a warning.
Retire(S, kept) ==
  LET seen == {s \in S : agent[s] = "running" /\ monitor[s]} IN
  /\ kept \subseteq S
  /\ IF kept = {} THEN UNCHANGED faults ELSE Fault("archive")
  /\ agent' = [s \in Sides |->
       CASE s \in S \ kept /\ agent[s] # "none" -> "archived"
         [] s \in kept /\ agent[s] = "running" -> "idle"
         [] OTHER -> agent[s]]
  /\ space' = [s \in Sides |-> IF s \in S \ kept THEN "archived" ELSE space[s]]
  /\ monitor' = [s \in Sides |-> monitor[s] /\ s \notin seen]
  /\ \E order \in SetToSeqs(seen) :
       queue' = queue \o [i \in 1..Len(order) |->
                            [op |-> "finish", side |-> order[i], arg |-> "cancelled"]]

\* cancelAndArchiveSide also marks a side that was still running.
Cancelled(b, S) ==
  [b EXCEPT !.side = [s \in Sides |->
     IF s \in S /\ @[s] \notin Terminal THEN "cancelled" ELSE @[s]]]

-----------------------------------------------------------------------------
(* Clients *)

\* A client's vote, stop or get takes its place in the queue at once.
Call(m) ==
  /\ m.op \in {"vote", "stop", "get"}
  /\ Len(queue) < MaxQueue
  /\ queue' = Append(queue, m)
  /\ UNCHANGED <<proxyVars, disk, pc, mem, polls, worldVars, faults>>

-----------------------------------------------------------------------------
(* vote *)

\* The checks before anything is sent; one that fails throws.
VoteBegin ==
  /\ At("idle", "vote")
  /\ LET v == Head(queue).arg IN
     IF /\ disk.decision = None
        /\ v = "tie" => CompletedSides(disk) = Sides
        /\ Winner(v) \in CompletedSides(disk)
       THEN Goto("sync", disk)
       ELSE Release
  /\ UNCHANGED <<proxyVars, disk, polls, worldVars, faults>>

VoteSync ==
  /\ At("sync", "vote")
  /\ \E lost \in SUBSET CompletedSides(mem) :
       /\ SyncCalls(lost)
       /\ IF lost = {} THEN Goto("send", mem) ELSE Release
  /\ UNCHANGED <<disk, polls, worldVars>>

\* Mutants: a vote that timed out is taken as recorded; one the proxy refuses
\* is sent again.
VoteSendOptimistic ==
  /\ At("send", "vote")
  /\ LET q == [op |-> "vote", arg |-> Head(queue).arg] IN
     \/ Accepts(q) /\ Goto("promote", [Applied(mem, px') EXCEPT !.status = "decided"])
     \/ Refuses(q) /\ Release
     \/ /\ TimesOut(q)
        /\ Goto("promote", [Applied(mem, Voted(px, q.arg)) EXCEPT !.status = "decided"])
  /\ UNCHANGED <<disk, polls, worldVars>>

VoteSendRetries ==
  /\ At("send", "vote")
  /\ LET q == [op |-> "vote", arg |-> Head(queue).arg] IN
     \/ Accepts(q) /\ Goto("promote", [Applied(mem, px') EXCEPT !.status = "decided"])
     \/ Refuses(q) /\ Goto("sync", mem)
     \/ TimesOut(q) /\ Release
  /\ UNCHANGED <<disk, polls, worldVars>>

VoteSend ==
  /\ At("send", "vote")
  /\ LET q == [op |-> "vote", arg |-> Head(queue).arg] IN
     \/ Accepts(q) /\ Goto("promote", [Applied(mem, px') EXCEPT !.status = "decided"])
     \/ Refuses(q) /\ Release
     \/ TimesOut(q) /\ Release
  /\ UNCHANGED <<disk, polls, worldVars>>

\* Mutant: a failing setWorkspaceInternal is swallowed.
VotePromoteSwallows ==
  /\ At("promote", "vote")
  /\ \/ /\ space' = [space EXCEPT ![mem.winner] = IF @ = "internal" THEN "visible" ELSE @]
        /\ UNCHANGED faults
     \/ Fault("promote") /\ UNCHANGED space
  /\ Goto("retire", mem)
  /\ UNCHANGED <<proxyVars, disk, polls, agent, monitor, source, card>>

\* setWorkspaceInternal(winner, false), which throws past the cleanup.
VotePromote ==
  /\ At("promote", "vote")
  /\ \/ /\ space' = [space EXCEPT ![mem.winner] = IF @ = "internal" THEN "visible" ELSE @]
        /\ Goto("retire", mem)
        /\ UNCHANGED faults
     \/ Fault("promote") /\ Release /\ UNCHANGED space
  /\ UNCHANGED <<proxyVars, disk, polls, agent, monitor, source, card>>

\* The loser is archived, cancelled first if the vote was early; then the
\* source agent.
VoteRetire ==
  /\ At("retire", "vote")
  /\ LET loser == {Other(mem.winner)} IN
     /\ \E kept \in SUBSET loser : Retire(loser \cap mem.linked, kept)
     /\ mem' = IF mem.early
                 THEN [Cancelled(mem, loser) EXCEPT !.comparison = "early"]
                 ELSE mem
  /\ source' = "archived"
  /\ pc' = "card"
  /\ UNCHANGED <<proxyVars, disk, polls, card>>

\* appendTimelineItem requires the winner's agent to be loaded.
VoteCard ==
  /\ At("card", "vote")
  /\ IF agent[mem.winner] \in {"running", "idle"}
       THEN card' = TRUE /\ Goto("save", mem)
       ELSE Release /\ UNCHANGED card
  /\ UNCHANGED <<proxyVars, disk, polls, agent, monitor, space, source, faults>>

\* persistAndEmit, the last step of vote, stop, finishSide's short paths
\* and the poll.
Save ==
  /\ pc = "save"
  /\ disk' = mem
  /\ Release
  /\ UNCHANGED <<proxyVars, polls, worldVars, faults>>

-----------------------------------------------------------------------------
(* stop *)

StopBegin ==
  /\ At("idle", "stop")
  /\ IF disk.decision = None THEN Goto("send", disk) ELSE Release
  /\ UNCHANGED <<proxyVars, disk, polls, worldVars, faults>>

StopSend ==
  /\ At("send", "stop")
  /\ LET q == [op |-> "stop", arg |-> None] IN
     \/ Accepts(q) /\ Goto("retire", [Applied(mem, px') EXCEPT !.status = "stopped"])
     \/ Refuses(q) /\ Release
     \/ TimesOut(q) /\ Release
  /\ UNCHANGED <<disk, polls, worldVars>>

StopRetire ==
  /\ At("retire", "stop")
  /\ \E kept \in SUBSET Sides : Retire(mem.linked, kept)
  /\ mem' = Cancelled(mem, Sides)
  /\ pc' = "save"
  /\ UNCHANGED <<proxyVars, disk, polls, source, card>>

-----------------------------------------------------------------------------
(* getBattle *)

\* A battle found without edits by an older detection is examined again.
NeedsDetection(b) ==
  /\ b.decision = None
  /\ CompletedSides(b) = Sides
  /\ b.comparison = "noEdits"
  /\ ~b.detected

GetContinue(b) == IF NeedsDetection(b) THEN Goto("prepare", b) ELSE Release

GetBegin ==
  /\ At("idle", "get")
  /\ Goto("send", disk)
  /\ UNCHANGED <<proxyVars, disk, polls, worldVars, faults>>

\* The proxy's state is applied and saved if it tells anything new; a proxy
\* that does not answer is passed over.
GetSend ==
  /\ At("send", "get")
  /\ \/ /\ disk' = IF Applied(mem, px) # mem THEN Applied(mem, px) ELSE disk
        /\ GetContinue(Applied(mem, px))
        /\ UNCHANGED faults
     \/ Fault("proxy") /\ GetContinue(mem) /\ UNCHANGED disk
  /\ UNCHANGED <<proxyVars, polls, worldVars>>

-----------------------------------------------------------------------------
(* finishSide *)

\* Mutants: a side that has ended may end again; the record is the one the
\* monitor was created with.
FinishBeginAgain ==
  /\ At("idle", "finish")
  /\ LET m == Head(queue) IN
     \E outcome \in IF m.arg = "error" THEN {"error", "completed"} ELSE {m.arg} :
       Goto(IF outcome = "completed" THEN "report" ELSE "settle",
            [disk EXCEPT !.side[m.side] = outcome])
  /\ UNCHANGED <<proxyVars, disk, polls, worldVars, faults>>

FinishBeginStale ==
  /\ At("idle", "finish")
  /\ LET m == Head(queue) IN
     \E outcome \in IF m.arg = "error" THEN {"error", "completed"} ELSE {m.arg} :
       Goto(IF outcome = "completed" THEN "report" ELSE "settle",
            [Started EXCEPT !.side[m.side] = outcome])
  /\ UNCHANGED <<proxyVars, disk, polls, worldVars, faults>>

\* A failed turn with a substantive reply counts as completed.
FinishBegin ==
  /\ At("idle", "finish")
  /\ LET m == Head(queue) IN
     IF disk.side[m.side] \in Terminal
       THEN Release
       ELSE \E outcome \in IF m.arg = "error" THEN {"error", "completed"} ELSE {m.arg} :
              Goto(IF outcome = "completed" THEN "report" ELSE "settle",
                   [disk EXCEPT !.side[m.side] = outcome])
  /\ UNCHANGED <<proxyVars, disk, polls, worldVars, faults>>

\* A completion the proxy did not acknowledge is only logged.
FinishReport ==
  /\ At("report", "finish")
  /\ LET q == [op |-> "complete", arg |-> Head(queue).side] IN Accepts(q) \/ TimesOut(q)
  /\ Goto("settle", mem)
  /\ UNCHANGED <<disk, polls, worldVars>>

\* The other side is still at work, or the battle is already decided.
FinishAlone ==
  /\ At("settle", "finish")
  /\ ~AllTerminal(mem) \/ mem.decision # None
  /\ disk' = mem
  /\ Release
  /\ UNCHANGED <<proxyVars, polls, worldVars, faults>>

SettlesWith(n) ==
  /\ At("settle", "finish")
  /\ AllTerminal(mem)
  /\ mem.decision = None
  /\ Cardinality(CompletedSides(mem)) = n

\* Both sides answered: the battle awaits a vote and a comparison.
FinishBoth ==
  /\ SettlesWith(2)
  /\ disk' = [mem EXCEPT !.status = "awaiting_vote"]
  /\ Goto("prepare", disk')
  /\ UNCHANGED <<proxyVars, polls, worldVars, faults>>

\* One side answered: the other is archived at once.
FinishOne ==
  /\ SettlesWith(1)
  /\ LET failed == Sides \ CompletedSides(mem) IN
       \E kept \in SUBSET failed : Retire(failed \cap mem.linked, kept)
  /\ mem' = [mem EXCEPT !.status = "awaiting_vote", !.comparison = "oneFailed"]
  /\ pc' = "save"
  /\ UNCHANGED <<proxyVars, disk, polls, source, card>>

\* Neither did: the battle is over, and the proxy is told to stop.
FinishNone ==
  /\ SettlesWith(0)
  /\ LET q == [op |-> "stop", arg |-> None] IN Accepts(q) \/ Refuses(q) \/ TimesOut(q)
  /\ Goto("abandon", [mem EXCEPT !.status = "error", !.comparison = "noneUsable"])
  /\ UNCHANGED <<disk, polls, worldVars>>

FinishAbandon ==
  /\ At("abandon", "finish")
  /\ \E kept \in SUBSET Sides : Retire(mem.linked, kept)
  /\ pc' = "save"
  /\ UNCHANGED <<proxyVars, disk, mem, polls, source, card>>

-----------------------------------------------------------------------------
(* prepareBattleComparison, under finishSide or getBattle *)

\* The worktrees are compared; with edits, "generating" is saved first.
Prepare ==
  /\ pc = "prepare"
  /\ \/ /\ disk' = [mem EXCEPT !.detected = TRUE, !.comparison = "generating"]
        /\ Goto("syncEdits", disk')
     \/ /\ Goto("syncNoEdits", [mem EXCEPT !.detected = TRUE])
        /\ UNCHANGED disk
  /\ UNCHANGED <<proxyVars, polls, worldVars, faults>>

\* Any failure from here on is recorded as the comparison's error.
CompareFailed ==
  /\ disk' = [mem EXCEPT !.comparison = "error"]
  /\ Release

PrepareSync ==
  /\ pc \in {"syncEdits", "syncNoEdits"}
  /\ \E lost \in SUBSET CompletedSides(mem) :
       /\ SyncCalls(lost)
       /\ IF lost = {}
            THEN /\ Goto(IF pc = "syncEdits" THEN "compareEdits" ELSE "compareNoEdits", mem)
                 /\ UNCHANGED disk
            ELSE CompareFailed
  /\ UNCHANGED <<polls, worldVars>>

Compare ==
  /\ pc \in {"compareEdits", "compareNoEdits"}
  /\ LET q == [op |-> "compare", arg |-> IF pc = "compareEdits" THEN "edits" ELSE "noEdits"] IN
     \/ /\ Accepts(q)
        /\ Goto(IF pc = "compareEdits" THEN "saveAndPoll" ELSE "save",
                [mem EXCEPT !.comparison = px'.comparison])
        /\ UNCHANGED disk
     \/ Refuses(q) /\ CompareFailed
     \/ TimesOut(q) /\ CompareFailed
  /\ UNCHANGED <<polls, worldVars>>

SaveAndPoll ==
  /\ pc = "saveAndPoll"
  /\ disk' = mem
  /\ polls' = polls + 1
  /\ Release
  /\ UNCHANGED <<proxyVars, worldVars, faults>>

-----------------------------------------------------------------------------
(* pollComparison *)

\* The proxy is read outside the queue; what it said is applied inside.
PollRead ==
  /\ polls > 0
  /\ px.comparison \in Settled
  /\ polls' = polls - 1
  /\ queue' = Append(queue, [op |-> "poll", side |-> None, arg |-> px.comparison])
  /\ UNCHANGED <<proxyVars, disk, pc, mem, worldVars, faults>>

\* 150 attempts without an answer.
PollGivesUp ==
  /\ polls > 0
  /\ polls' = polls - 1
  /\ UNCHANGED <<proxyVars, disk, opVars, worldVars, faults>>

PollBegin ==
  /\ At("idle", "poll")
  /\ Goto("save", [disk EXCEPT !.comparison = Head(queue).arg])
  /\ UNCHANGED <<proxyVars, disk, polls, worldVars, faults>>

-----------------------------------------------------------------------------
(* The agents, the proxy and the processes *)

\* A turn ends on its own or is cancelled by the user; monitorSide queues
\* finishSide and unsubscribes.
TurnEnds(s, outcome) ==
  /\ agent[s] = "running"
  /\ agent' = [agent EXCEPT ![s] = "idle"]
  /\ monitor' = [monitor EXCEPT ![s] = FALSE]
  /\ queue' = IF monitor[s]
                THEN Append(queue, [op |-> "finish", side |-> s, arg |-> outcome])
                ELSE queue
  /\ UNCHANGED <<proxyVars, disk, pc, mem, polls, space, source, card, faults>>

\* A client opens an agent the daemon has not loaded since it restarted.
Load(s) ==
  /\ agent[s] = "unloaded"
  /\ agent' = [agent EXCEPT ![s] = "idle"]
  /\ UNCHANGED <<proxyVars, disk, opVars, polls, monitor, space, source, card, faults>>

\* A request whose caller has given up reaches the proxy after all.
Arrive(q) ==
  /\ q \in late
  /\ late' = late \ {q}
  /\ px' = IF Allowed(px, q) THEN Effect(px, q) ELSE px
  /\ generations' = IF Allowed(px, q) /\ q = CompareEdits THEN generations + 1 ELSE generations
  /\ UNCHANGED <<disk, opVars, polls, worldVars, faults>>

\* generateComparison comes back with a summary or an error.
GenerationEnds(outcome) ==
  /\ generations > 0
  /\ generations' = generations - 1
  /\ px' = IF CanRecordGenerated(px) THEN Generated(px, outcome) ELSE px
  /\ UNCHANGED <<late, disk, opVars, polls, worldVars, faults>>

ProxyRestarts ==
  /\ Fault("restart")
  /\ generations' = 0
  /\ UNCHANGED <<px, late, disk, opVars, polls, worldVars>>

\* Queue, polls and monitors are memory; agents are loaded again on demand.
DaemonRestarts ==
  /\ queue' = <<>> /\ pc' = "idle" /\ mem' = Started
  /\ polls' = 0
  /\ monitor' = [s \in Sides |-> FALSE]
  /\ agent' = [s \in Sides |->
                 IF agent[s] \in {"running", "idle"} THEN "unloaded" ELSE agent[s]]
  /\ UNCHANGED <<proxyVars, disk, space, source, card>>

Crash == Fault("crash") /\ DaemonRestarts

\* The diff throws: getBattle fails, but finishSide is not awaited, and an
\* unhandled rejection ends the daemon.
DiffFails ==
  /\ pc = "prepare"
  /\ Fault("diff")
  /\ IF Head(queue).op = "get"
       THEN Release /\ UNCHANGED <<proxyVars, disk, polls, worldVars>>
       ELSE DaemonRestarts

-----------------------------------------------------------------------------
MutationStep ==
  \/ VoteBegin \/ VoteSync \/ VoteSend \/ VotePromote \/ VoteRetire \/ VoteCard
  \/ StopBegin \/ StopSend \/ StopRetire
  \/ GetBegin \/ GetSend
  \/ FinishBegin \/ FinishReport \/ FinishAlone \/ FinishBoth \/ FinishOne
  \/ FinishNone \/ FinishAbandon
  \/ Prepare \/ PrepareSync \/ Compare \/ SaveAndPoll
  \/ PollBegin
  \/ Save

\* Every step but those that end the daemon.
Running ==
  \/ \E m \in Mutations : Call(m)
  \/ MutationStep
  \/ PollRead \/ PollGivesUp
  \/ \E s \in Sides, outcome \in Outcomes : TurnEnds(s, outcome)
  \/ \E s \in Sides : Load(s)
  \/ \E q \in Requests : Arrive(q)
  \/ \E outcome \in {"completed", "error"} : GenerationEnds(outcome)
  \/ ProxyRestarts

Next == Running \/ Crash \/ DiffFails

Spec == Init /\ [][Next]_vars

\* A mutation that can go on does; a turn ends; a poll sees a settled
\* comparison (2 s period); a generation ends (fetch has its own timeouts).
\* Clients need not call, faults need not happen, and a late request need
\* not arrive.
FairSpec ==
  /\ Spec
  /\ WF_vars(MutationStep)
  /\ \A s \in Sides : WF_vars(\E outcome \in Outcomes : TurnEnds(s, outcome))
  /\ WF_vars(PollRead)
  /\ WF_vars(\E outcome \in {"completed", "error"} : GenerationEnds(outcome))

-----------------------------------------------------------------------------
(* Properties *)

Steps == {"idle", "sync", "send", "promote", "retire", "card", "save", "report", "settle",
          "abandon", "prepare", "syncEdits", "syncNoEdits", "compareEdits",
          "compareNoEdits", "saveAndPoll"}

TypeOK ==
  /\ px \in Record /\ generations \in Nat /\ late \subseteq Requests
  /\ disk \in Battle
  /\ queue \in Seq(Mutations) /\ pc \in Steps /\ mem \in Battle
  /\ polls \in Nat
  /\ agent \in [Sides -> Agents] /\ monitor \in [Sides -> BOOLEAN]
  /\ space \in [Sides -> Spaces]
  /\ source \in {"idle", "archived"} /\ card \in BOOLEAN
  /\ faults \in Seq(Faults) /\ Len(faults) <= MaxFaults

\* The daemon never shows a decision, or the models behind the sides, that
\* the proxy has not recorded, whatever calls were lost in between; and a vote
\* it sends on is one the proxy accepts, unless it is already decided there:
\* the completions a proxy outage swallowed have been made up for
\* (battle-service.ts:525, "cannot leave an otherwise valid battle unvotable").
AgreesWithProxy ==
  /\ disk.decision # None =>
       disk.decision = px.vote /\ disk.winner = px.winner /\ disk.early = px.early
  /\ disk.revealed => px.vote \in Votes
  /\ pc = "send" /\ Head(queue).op = "vote" /\ px.vote = None =>
       CanVote(px, Head(queue).arg)

Suffered(kind) == \E i \in DOMAIN faults : faults[i] = kind

\* The winner a client is shown finished successfully, and its agent and
\* worktree are still there to go on with.  A battle saved as decided has been
\* cleaned up after: the loser's agent and worktree archived, the winner's
\* worktree visible, the source thread archived and the card written.  A
\* stopped one has archived both sides.  (Where archiving itself worked.)
CleanedUp ==
  /\ disk.decision \in Votes =>
       /\ disk.side[disk.winner] = "completed"
       /\ agent[disk.winner] # "archived" /\ space[disk.winner] # "archived"
  /\ disk.status = "decided" /\ ~Suffered("archive") =>
       /\ disk.decision \in Votes
       /\ agent[Other(disk.winner)] = "archived" /\ space[Other(disk.winner)] = "archived"
       /\ space[disk.winner] = "visible"
       /\ source = "archived" /\ card
  /\ disk.status = "stopped" /\ ~Suffered("archive") =>
       /\ disk.decision = "stopped"
       /\ \A s \in Sides : agent[s] = "archived" /\ space[s] = "archived"

\* Mutations are serialised on the file: when the head writes, the file still
\* has the outcomes and the decision the head began with.
NoLostUpdate ==
  pc # "idle" =>
    /\ \A s \in Sides : disk.side[s] \in Terminal => mem.side[s] = disk.side[s]
    /\ disk.decision # None => mem.decision = disk.decision

\* A side's outcome and the decision are recorded once: later turn events,
\* cancellations, votes and late comparisons do not change them, nor the reason
\* an early decision has no comparison (docs/arena.md:70).
RecordedOnce ==
  [][/\ \A s \in Sides : disk.side[s] \in Terminal => disk'.side[s] = disk.side[s]
     /\ disk.decision # None => disk'.decision = disk.decision
     /\ disk.decision \in Votes /\ disk.early => disk'.comparison = "early"]_vars

=============================================================================
