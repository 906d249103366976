--------------------------- MODULE HubExecutions ---------------------------
(***************************************************************************)
(* What the daemon does for its Hub: DaemonExecutions                      *)
(* (hub/daemon-executions.ts).  The Hub names an execution and asks for it *)
(* to be created, interrupted or archived, and asks again when an answer   *)
(* is lost.  Promises already pending are shared: a create by execution, a *)
(* control by execution and action.  The authority can end, and the daemon *)
(* can crash, between any two steps.                                       *)
(*                                                                         *)
(* A create that is started has a number of its own, which also names the  *)
(* agent it may make: the agent manager draws a fresh id for each.         *)
(***************************************************************************)
EXTENDS Naturals, FiniteSets

CONSTANTS
  Executions, \* the execution ids the Hub uses
  MaxCreates  \* bound: createOrResolve calls started

ASSUME CreatesAssumption == MaxCreates \in Nat

Creates == 1..MaxCreates
Actions == {"interrupt", "archive"}
None == "none"

\* No execution has the name that stands for "none": the code has null for that.
ASSUME ExecutionsAssumption == None \notin Executions

VARIABLES
  authority,   \* authorityActive: generations are only bumped as it is cleared
  creates,     \* creates[c]: the createOrResolve call c; in flight it is the
               \* pendingCreates entry of its execution
  controls,    \* controls[e][x]: the control action; in flight it is the
               \* pendingControlActions entry
  tail,        \* controlTails[e]: the last control of e that is in flight
  agents       \* agents[c]: the agent that create c makes, and its record

vars == <<authority, creates, controls, tail, agents>>

InFlight == {"find", "launch", "register", "prompt", "close", "clean", "remove"}
NoAgent == [record |-> None, live |-> FALSE, running |-> FALSE]

Init ==
  /\ authority = TRUE
  /\ creates = [c \in Creates |-> [at |-> "unused", exec |-> None, worktree |-> FALSE,
                                   knows |-> FALSE, result |-> 0]]
  /\ controls = [e \in Executions |-> [x \in Actions |->
                   [at |-> "idle", behind |-> {}, awaits |-> {}, before |-> {}, agent |-> 0]]]
  /\ tail = [e \in Executions |-> None]
  /\ agents = [c \in Creates |-> NoAgent]

----------------------------------------------------------------------------

Started(e) == {c \in Creates : creates[c].exec = e}
PendingCreates(e) == {c \in Started(e) : creates[c].at \in InFlight}
PendingControls(e) == {x \in Actions : controls[e][x].at \in {"waiting", "acting"}}

\* findByDaemonExecution: an index by owner, so at most one agent.
Recorded(e) == {c \in Started(e) : agents[c].record # None}
Find(e) == IF Recorded(e) = {} THEN 0 ELSE CHOOSE c \in Recorded(e) : TRUE

\* The promise of create c settles and leaves pendingCreates; a control that
\* waits for it goes on, however it settled.
Settle(c, how, result) ==
  /\ creates' = [creates EXCEPT ![c].at = how, ![c].result = result]
  /\ controls' = [e \in Executions |-> [x \in Actions |->
                    [controls[e][x] EXCEPT !.awaits = @ \ {c}]]]
  /\ UNCHANGED tail

Move(c, to) == creates' = [creates EXCEPT ![c].at = to] /\ UNCHANGED <<controls, tail>>

\* Mutant: every request starts a createOrResolve of its own.
CreateAlways(e, c) ==
  /\ authority
  /\ creates[c].at = "unused" /\ \A d \in 1..(c - 1) : creates[d].at # "unused"
  /\ creates' = [creates EXCEPT ![c].at = "find", ![c].exec = e]
  /\ UNCHANGED <<authority, controls, tail, agents>>

\* create: a request while one is pending shares its promise, which changes nothing.
Create(e, c) ==
  /\ authority
  /\ PendingCreates(e) = {}
  /\ creates[c].at = "unused" /\ \A d \in 1..(c - 1) : creates[d].at # "unused"
  /\ creates' = [creates EXCEPT ![c].at = "find", ![c].exec = e]
  /\ UNCHANGED <<authority, controls, tail, agents>>

\* createOrResolve after its lookup: the agent of the execution answers for a
\* repeated request; otherwise createAgentCommand begins.
CreateFinds(c) ==
  LET found == Find(creates[c].exec) IN
  /\ creates[c].at = "find"
  /\ \/ ~authority /\ Settle(c, "failed", 0)
     \/ authority /\ found # 0 /\ Settle(c, "done", found)
     \/ authority /\ found = 0 /\ Move(c, "launch")
  /\ UNCHANGED <<authority, agents>>

\* createAgentCommand resolves where the agent works: in a worktree made for it
\* (onWorktreeCreated), or in a directory or worktree that was there before.
MakeWorktree(c) ==
  /\ creates[c].at = "launch"
  /\ \/ \E made \in BOOLEAN :
          creates' = [creates EXCEPT ![c].at = "register", ![c].worktree = made]
     \/ creates' = [creates EXCEPT ![c].at = "close"]
  /\ UNCHANGED <<authority, controls, tail, agents>>

\* agentManager.createAgent saves the agent with its owner and onCreated tells its
\* id; or the manager fails before it has saved it, or saving it again fails.
Register(c) ==
  /\ creates[c].at = "register"
  /\ \/ /\ agents' = [agents EXCEPT ![c].record = "kept", ![c].live = TRUE]
        /\ creates' = [creates EXCEPT ![c].at = "prompt", ![c].knows = TRUE]
     \/ /\ agents' = [agents EXCEPT ![c].record = "kept", ![c].live = TRUE]
        /\ creates' = [creates EXCEPT ![c].at = "close"]
     \/ UNCHANGED agents /\ creates' = [creates EXCEPT ![c].at = "close"]
  /\ UNCHANGED <<authority, controls, tail>>

\* Mutant: the authority is not asked for again after createAgentCommand.
PromptUnchecked(c) ==
  /\ creates[c].at = "prompt"
  /\ \/ /\ agents[c].live
        /\ agents' = [agents EXCEPT ![c].running = TRUE]
        /\ Settle(c, "done", c)
     \/ UNCHANGED agents /\ Move(c, "close")
  /\ UNCHANGED authority

\* The prompt starts the first turn, or cannot, as of a closed agent; createAgentCommand returns, and
\* the authority may have ended by then.
Prompt(c) ==
  /\ creates[c].at = "prompt"
  /\ \/ /\ agents[c].live
        /\ agents' = [agents EXCEPT ![c].running = TRUE]
        /\ IF authority THEN Settle(c, "done", c) ELSE Move(c, "close")
     \/ UNCHANGED agents /\ Move(c, "close")
  /\ UNCHANGED authority

\* The rollback of a create that failed, as far as it knows what was made:
\* close the agent, take away the worktree, remove the record.
CloseAgent(c) ==
  /\ creates[c].at = "close"
  /\ agents' = IF creates[c].knows
               THEN [agents EXCEPT ![c].live = FALSE, ![c].running = FALSE] ELSE agents
  /\ Move(c, "clean")
  /\ UNCHANGED authority

CleanWorktree(c) ==
  /\ creates[c].at = "clean"
  /\ creates' = [creates EXCEPT ![c].at = "remove", ![c].worktree = FALSE]
  /\ UNCHANGED <<authority, controls, tail, agents>>

RemoveRecord(c) ==
  /\ creates[c].at = "remove"
  /\ agents' = IF creates[c].knows THEN [agents EXCEPT ![c].record = None] ELSE agents
  /\ Settle(c, "failed", 0)
  /\ UNCHANGED authority

----------------------------------------------------------------------------

\* Mutant: a control that does not wait for a create.
AwaitsNothing(e) == {}

\* previous, when no control is in flight: the create in flight.
Awaits(e) == IF tail[e] = None THEN PendingCreates(e) ELSE {}

\* Mutant: the tail is set first, and the control waits for itself.
BehindItself(e, x) == {x}

\* previous, when there is one: the last control in flight.
Behind(e, x) == {tail[e]} \ {None}

\* control: one promise for each action, behind what was asked before.  "before"
\* records the creates that had been asked for by then.
Control(e, x) ==
  /\ authority
  /\ x \notin PendingControls(e)
  /\ controls' = [controls EXCEPT ![e][x] =
       [at |-> "waiting", behind |-> Behind(e, x), awaits |-> Awaits(e),
        before |-> Started(e), agent |-> 0]]
  /\ tail' = [tail EXCEPT ![e] = x]
  /\ UNCHANGED <<authority, creates, agents>>

\* release: the control leaves both maps, and the one behind it goes on.
Finish(e, x, how) ==
  /\ controls' = [controls EXCEPT ![e] = [y \in Actions |->
       [controls[e][y] EXCEPT !.behind = controls[e][y].behind \ {x},
                              !.at = IF y = x THEN how ELSE controls[e][y].at]]]
  /\ tail' = [tail EXCEPT ![e] = IF @ = x THEN None ELSE @]

\* controlOwnedExecution up to the call that acts: without a record, and for an
\* interrupt without a live agent, there is nothing to do.
ControlRuns(e, x) ==
  LET found == Find(e)
      todo == found # 0 /\ (x = "interrupt" => agents[found].record = "kept" /\ agents[found].live)
  IN /\ controls[e][x].at = "waiting"
     /\ controls[e][x].behind = {} /\ controls[e][x].awaits = {}
     /\ \/ ~authority /\ Finish(e, x, "refused")
        \/ authority /\ ~todo /\ Finish(e, x, "done")
        \/ /\ authority /\ todo
           /\ controls' = [controls EXCEPT ![e][x].at = "acting", ![e][x].agent = found]
           /\ UNCHANGED tail
     /\ UNCHANGED <<authority, creates, agents>>

\* interruptAgent ends the turn; archiveWorkspace archives the agent, which closes it.
ControlActs(e, x) ==
  LET a == controls[e][x].agent IN
  /\ controls[e][x].at = "acting"
  /\ \/ /\ agents' = IF x = "interrupt" THEN [agents EXCEPT ![a].running = FALSE]
                     ELSE [agents EXCEPT ![a] = [record |-> "archived", live |-> FALSE,
                                                 running |-> FALSE]]
        /\ Finish(e, x, "done")
     \/ UNCHANGED agents /\ Finish(e, x, "refused")
  /\ UNCHANGED <<authority, creates>>

----------------------------------------------------------------------------

\* The turn of an agent ends by itself.
EndTurn(c) ==
  /\ agents[c].running
  /\ agents' = [agents EXCEPT ![c].running = FALSE]
  /\ UNCHANGED <<authority, creates, controls, tail>>

\* invalidateAuthority: the relationship with the Hub ends.
InvalidateAuthority ==
  /\ authority
  /\ authority' = FALSE
  /\ UNCHANGED <<creates, controls, tail, agents>>

\* The daemon dies and starts again: records and worktrees are what is left, and
\* a new DaemonExecutions for the same relationship.
Crash ==
  /\ creates' = [c \in Creates |-> IF creates[c].at \in InFlight
                                   THEN [creates[c] EXCEPT !.at = "lost"] ELSE creates[c]]
  /\ controls' = [e \in Executions |-> [x \in Actions |->
       IF x \in PendingControls(e) THEN [controls[e][x] EXCEPT !.at = "idle", !.behind = {}, !.awaits = {}]
       ELSE controls[e][x]]]
  /\ tail' = [e \in Executions |-> None]
  /\ agents' = [c \in Creates |-> [agents[c] EXCEPT !.live = FALSE, !.running = FALSE]]
  /\ UNCHANGED authority

CreateSteps(c) ==
  \/ MakeWorktree(c) \/ Register(c) \/ Prompt(c)
  \/ CloseAgent(c) \/ CleanWorktree(c) \/ RemoveRecord(c)

\* Continuations with nothing left to wait for (the records are in memory) run
\* before the event loop takes up a message or the end of an operation.  (Several
\* messages read from the socket at once would be taken up together; the Hub is
\* supposed to send them apart.)
Drained ==
  /\ \A c \in Creates : creates[c].at # "find"
  /\ \A e \in Executions, x \in Actions :
       controls[e][x].at = "waiting" => controls[e][x].behind # {} \/ controls[e][x].awaits # {}

Request ==
  /\ Drained
  /\ \E e \in Executions :
       (\E c \in Creates : Create(e, c)) \/ (\E x \in Actions : Control(e, x))

Continue ==
  (\E c \in Creates : CreateFinds(c)) \/ (\E e \in Executions, x \in Actions : ControlRuns(e, x))

Operate ==
  /\ Drained
  /\ \/ \E c \in Creates : CreateSteps(c) \/ EndTurn(c)
     \/ \E e \in Executions, x \in Actions : ControlActs(e, x)

Next == Request \/ Continue \/ Operate \/ InvalidateAuthority \/ Crash

Spec == Init /\ [][Next]_vars

\* What is called returns or throws, and the event loop takes up each end of an
\* operation in its turn, however many requests arrive in between: strong fairness.
Fairness ==
  /\ WF_vars(Continue)
  /\ \A c \in Creates : SF_vars(Drained /\ CreateSteps(c))
  /\ \A e \in Executions, x \in Actions : SF_vars(Drained /\ ControlActs(e, x))

LiveSpec == Spec /\ Fairness

----------------------------------------------------------------------------
\* Properties

\* However often the Hub asks, loses the answer, or the daemon restarts, an
\* execution has one agent (docs/hub.md:37): requests answered with success were all
\* given it, and no later failure takes it away; one answered with a failure has
\* left no worktree, and no agent or record that it knew of (one whose registration
\* failed half-way was never told of).
AnswersHold ==
  /\ \A e \in Executions : Cardinality(Recorded(e)) <= 1
  /\ \A c, d \in Creates :
       (creates[c].at = "done" /\ creates[d].at = "done" /\ creates[c].exec = creates[d].exec)
         => /\ creates[c].result = creates[d].result
            /\ agents[creates[c].result].record # None
  /\ \A c \in Creates : creates[c].at = "failed" =>
       ~creates[c].worktree /\ (creates[c].knows => agents[c] = NoAgent)

\* No create succeeds once the authority it began under has ended, however far it
\* had come.
EndsWithAuthority ==
  [][\A c \in Creates : creates[c].at # "done" /\ creates'[c].at = "done" => authority]_vars

\* A control that succeeds holds for every create asked for before it: none of
\* their agents runs on after an interrupt, or is still there after an archive.
ControlHolds ==
  [][\A e \in Executions, x \in Actions :
       controls[e][x].at # "done" /\ controls'[e][x].at = "done"
         => \A c \in controls[e][x].before :
              /\ creates[c].at \notin InFlight
              /\ ~agents'[c].running
              /\ x = "archive" => agents'[c].record # "kept"]_vars

\* Every request is answered, whatever ends meanwhile: no control waits for ever
\* for a create or a control, nor two for each other.
EveryoneAnswered ==
  /\ \A c \in Creates : (creates[c].at \in InFlight) ~> (creates[c].at \notin InFlight)
  /\ \A e \in Executions, x \in Actions : (x \in PendingControls(e)) ~> (x \notin PendingControls(e))
=============================================================================
