---------------------------- MODULE ArenaRecord ----------------------------
(***************************************************************************)
(* The battle record of the Arena proxy (StoredProxyBattle) and what each  *)
(* operation of ArenaProxyService does to one: a guard (the checks that    *)
(* throw) and a transition (the assignments before store.put).  Nothing    *)
(* here is concurrent; ArenaProxy interleaves these operations and         *)
(* ArenaBattle calls them over the network.                                *)
(*                                                                         *)
(* Timestamps keep only whether they are set, and the comparison keeps its *)
(* status together with the reason it is unavailable, because the daemon   *)
(* and the tests tell the reasons apart; summary text, prompt and model    *)
(* identities are left out.                                                *)
(***************************************************************************)
EXTENDS Naturals, FiniteSets

Sides == {"A", "B"}

Other(s) == IF s = "A" THEN "B" ELSE "A"

None == "none"

Votes == {"A", "B", "tie"}

Decisions == Votes \cup {"stopped"}

\* The last four are status "unavailable" with the reason the code gives;
\* the proxy itself never records "oneFailed" or "noneUsable".
Comparisons == {"pending", "generating", "completed", "error",
                "noEdits", "early", "stopped", "oneFailed", "noneUsable"}

Settled == Comparisons \ {"pending", "generating"}

Record == [completed  : [Sides -> BOOLEAN],
           vote       : Decisions \cup {None},
           winner     : Sides \cup {None},
           early      : BOOLEAN,
           comparison : Comparisons]

FreshRecord == [completed  |-> [s \in Sides |-> FALSE],
                vote       |-> None,
                winner     |-> None,
                early      |-> FALSE,
                comparison |-> "pending"]

AllCompleted(r) == \A s \in Sides : r.completed[s]

\* A tie is recorded as a tie and promotes A.
Winner(v) == IF v = "tie" THEN "A" ELSE v

-----------------------------------------------------------------------------
(* The operations *)

\* Mutant: the winner need not have finished.
CanVoteUnfinished(r, v) ==
  /\ r.vote = None
  /\ v = "tie" => AllCompleted(r)

CanVote(r, v) ==
  /\ r.vote = None
  /\ v = "tie" => AllCompleted(r)
  /\ r.completed[Winner(v)]

\* Mutant: the tie is recorded as the winner.
VotedTieWins(r, v) ==
  [r EXCEPT !.vote = v,
            !.winner = v,
            !.early = ~AllCompleted(r),
            !.comparison = IF AllCompleted(r) THEN @ ELSE "early"]

Voted(r, v) ==
  [r EXCEPT !.vote = v,
            !.winner = Winner(v),
            !.early = ~AllCompleted(r),
            !.comparison = IF AllCompleted(r) THEN @ ELSE "early"]

\* Mutant: a decided battle can be stopped.
CanStopAlways(r) == r.vote # "stopped"

CanStop(r) == r.vote = None

Stopped(r) ==
  [r EXCEPT !.vote = "stopped", !.winner = None, !.comparison = "stopped"]

Completed(r, s) == [r EXCEPT !.completed[s] = TRUE]

\* Mutant: an early decision does not rule out a comparison.
CanCompareEarly(r) ==
  /\ r.vote # "stopped"
  /\ AllCompleted(r)

CanCompare(r) ==
  /\ r.vote # "stopped"
  /\ ~r.early
  /\ AllCompleted(r)

Compared(r, edits) ==
  [r EXCEPT !.comparison = IF edits THEN "generating" ELSE "noEdits"]

\* The summary (or the error) of a background generation comes back.
CanRecordGenerated(r) == r.vote # "stopped"

Generated(r, outcome) == [r EXCEPT !.comparison = outcome]

-----------------------------------------------------------------------------
(* The control requests of the proxy's HTTP interface *)

Requests ==
  [op : {"complete"}, arg : Sides] \cup [op : {"vote"}, arg : Votes]
    \cup [op : {"stop"}, arg : {None}] \cup [op : {"compare"}, arg : {"edits", "noEdits"}]

\* startComparison with hasEdits, the one that leaves a generation running.
CompareEdits == [op |-> "compare", arg |-> "edits"]

Allowed(r, q) ==
  CASE q.op = "complete" -> TRUE
    [] q.op = "vote"     -> CanVote(r, q.arg)
    [] q.op = "stop"     -> CanStop(r)
    [] q.op = "compare"  -> CanCompare(r)

Effect(r, q) ==
  CASE q.op = "complete" -> Completed(r, q.arg)
    [] q.op = "vote"     -> Voted(r, q.arg)
    [] q.op = "stop"     -> Stopped(r)
    [] q.op = "compare"  -> Compared(r, q.arg = "edits")

-----------------------------------------------------------------------------
(* What the outside world is shown *)

\* publicBattle reveals the two models after a vote, never after a stop.
Revealed(r) == r.vote \in Votes

\* A side-scoped inference token resolves to a model until any decision.
TokenLive(r) == r.vote = None
=============================================================================
