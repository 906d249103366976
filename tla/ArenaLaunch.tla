---------------------------- MODULE ArenaLaunch ----------------------------
(***************************************************************************)
(* startBattle, from the moment the battle exists (the proxy has created   *)
(* it and the daemon has saved it as "preparing") to its return or its     *)
(* catch block, together with everything ArenaBattle does meanwhile: the   *)
(* battle is announced to clients before it is ready, and startBattle      *)
(* writes its own copy of the record without withMutation.                 *)
(***************************************************************************)
EXTENDS ArenaBattle

VARIABLES
  stage,    \* where startBattle is
  stored,   \* its copy of the record
  made,     \* the sides whose worktree exists (createdWorkspaceIds)
  creating, \* the sides whose createAgent has not come back
  prompt    \* prompt[s]: the prompt to side s, "none" before the agents run

launchVars == <<stage, stored, made, creating, prompt>>
allVars == <<vars, launchVars>>

Stages == {"worktrees", "agents", "prompt", "undo", "undoRetire", "undoSave",
           "started", "failed", "lost"}

Preparing == [Started EXCEPT !.status = "preparing",
                             !.side = [s \in Sides |-> "preparing"],
                             !.linked = {}]

LaunchInit ==
  /\ px = FreshRecord /\ generations = 0 /\ late = {}
  /\ disk = Preparing
  /\ queue = <<>> /\ pc = "idle" /\ mem = Started
  /\ polls = 0
  /\ agent = [s \in Sides |-> "none"]
  /\ monitor = [s \in Sides |-> FALSE]
  /\ space = [s \in Sides |-> "none"]
  /\ source = "idle"
  /\ card = FALSE
  /\ faults = <<>>
  /\ stage = "worktrees"
  /\ stored = Preparing
  /\ made = {}
  /\ creating = {}
  /\ prompt = [s \in Sides |-> "none"]

\* Side A first, then side B.
NextSide == IF "A" \in made THEN "B" ELSE "A"

\* createWorktree, the copy of the working tree and the OpenCode config.
MakeWorktree ==
  /\ stage = "worktrees"
  /\ made' = made \cup {NextSide}
  /\ space' = [space EXCEPT ![NextSide] = "internal"]
  /\ IF made' = Sides
       THEN stage' = "agents" /\ creating' = Sides
       ELSE UNCHANGED <<stage, creating>>
  /\ UNCHANGED <<proxyVars, disk, opVars, polls, agent, monitor, source, card, faults,
                 stored, prompt>>

\* It fails before or after the worktree is made.
WorktreeFails ==
  /\ stage = "worktrees"
  /\ Fault("launch")
  /\ \/ UNCHANGED <<made, space>>
     \/ /\ made' = made \cup {NextSide}
        /\ space' = [space EXCEPT ![NextSide] = "internal"]
  /\ stage' = "undo"
  /\ UNCHANGED <<proxyVars, disk, opVars, polls, agent, monitor, source, card,
                 stored, creating, prompt>>

\* createAgent comes back, even after the other side's has failed.
AgentCreated(s) ==
  /\ s \in creating
  /\ creating' = creating \ {s}
  /\ agent' = [agent EXCEPT ![s] = "idle"]
  /\ stored' = [stored EXCEPT !.linked = @ \cup {s}]
  /\ UNCHANGED <<proxyVars, disk, opVars, polls, monitor, space, source, card, faults,
                 stage, made, prompt>>

AgentFails(s) ==
  /\ stage = "agents"
  /\ s \in creating
  /\ Fault("launch")
  /\ creating' = creating \ {s}
  /\ stage' = "undo"
  /\ UNCHANGED <<proxyVars, disk, opVars, polls, worldVars, stored, made, prompt>>

\* The source agent is gone by the time the prompt is added to its timeline.
AnnounceFails ==
  /\ stage = "agents"
  /\ creating = {}
  /\ Fault("launch")
  /\ stage' = "undo"
  /\ UNCHANGED <<proxyVars, disk, opVars, polls, worldVars,
                 stored, made, creating, prompt>>

\* Both agents exist: the record is saved as running, over whatever the file
\* holds by now, and both are monitored.
SaveRunning ==
  /\ stage = "agents"
  /\ creating = {}
  /\ stored' = [stored EXCEPT !.status = "running", !.side = [s \in Sides |-> "running"]]
  /\ disk' = stored'
  /\ monitor' = [s \in Sides |-> TRUE]
  /\ stage' = "prompt"
  /\ prompt' = [s \in Sides |-> "unsent"]
  /\ UNCHANGED <<proxyVars, opVars, polls, agent, space, source, card, faults,
                 made, creating>>

\* sendPromptToAgent: an archived agent is unarchived to run.  A failure of
\* the other side's does not hold it back.
SendPrompt(s) ==
  /\ prompt[s] = "unsent"
  /\ agent' = [agent EXCEPT ![s] = "running"]
  /\ prompt' = [prompt EXCEPT ![s] = "sent"]
  /\ UNCHANGED <<proxyVars, disk, opVars, polls, monitor, space, source, card, faults,
                 stage, stored, made, creating>>

\* waitForAgentRunStart has seen the run begin.
RunStarts(s) ==
  /\ prompt[s] = "sent"
  /\ agent[s] \in {"running", "idle"}
  /\ prompt' = [prompt EXCEPT ![s] = "done"]
  /\ stage' = IF stage = "prompt" /\ prompt'[Other(s)] = "done" THEN "started" ELSE stage
  /\ UNCHANGED <<proxyVars, disk, opVars, polls, worldVars, faults,
                 stored, made, creating>>

\* It takes more than 15 s or fails, or the agent has been archived meanwhile.
RunFails(s) ==
  /\ stage = "prompt"
  /\ prompt[s] = "sent"
  /\ IF agent[s] = "archived" THEN UNCHANGED faults ELSE Fault("launch")
  /\ prompt' = [prompt EXCEPT ![s] = "done"]
  /\ stage' = "undo"
  /\ UNCHANGED <<proxyVars, disk, opVars, polls, worldVars, stored, made, creating>>

\* The catch block: both sides failed, and the proxy is told to stop.
UndoStop ==
  /\ stage = "undo"
  /\ stored' = [stored EXCEPT !.status = "error", !.side = [s \in Sides |-> "error"]]
  /\ LET q == [op |-> "stop", arg |-> None] IN Accepts(q) \/ Refuses(q) \/ TimesOut(q)
  /\ stage' = "undoRetire"
  /\ UNCHANGED <<disk, opVars, polls, worldVars, made, creating, prompt>>

\* Mutant: only the sides whose agent was created are archived.
UndoRetireLinked ==
  /\ stage = "undoRetire"
  /\ \E kept \in SUBSET stored.linked : Retire(stored.linked, kept)
  /\ stage' = "undoSave"
  /\ UNCHANGED <<proxyVars, disk, pc, mem, polls, source, card,
                 stored, made, creating, prompt>>

\* What has been created is archived.
UndoRetire ==
  /\ stage = "undoRetire"
  /\ \E kept \in SUBSET made : Retire(made, kept)
  /\ stage' = "undoSave"
  /\ UNCHANGED <<proxyVars, disk, pc, mem, polls, source, card,
                 stored, made, creating, prompt>>

\* The failed record is saved, again over whatever the file holds by now.
UndoSave ==
  /\ stage = "undoSave"
  /\ disk' = stored
  /\ stage' = "failed"
  /\ UNCHANGED <<proxyVars, opVars, polls, worldVars, faults,
                 stored, made, creating, prompt>>

\* startBattle dies with the daemon.
LaunchLost ==
  /\ Crash
  /\ stage' = "lost"
  /\ creating' = {}
  /\ prompt' = [s \in Sides |-> "done"]
  /\ UNCHANGED <<stored, made>>

LaunchStep ==
  \/ MakeWorktree \/ WorktreeFails
  \/ \E s \in Sides : AgentCreated(s) \/ AgentFails(s) \/ SendPrompt(s)
                        \/ RunStarts(s) \/ RunFails(s)
  \/ AnnounceFails \/ SaveRunning
  \/ UndoStop \/ UndoRetire \/ UndoSave

LaunchNext ==
  \/ Running /\ UNCHANGED launchVars
  \/ LaunchStep
  \/ LaunchLost

LaunchSpec == LaunchInit /\ [][LaunchNext]_allVars

\* startBattle goes on when its awaits come back, which they all do; the rest
\* goes on as in FairSpec.
FairLaunchSpec ==
  /\ LaunchSpec
  /\ WF_allVars(LaunchStep)
  /\ WF_allVars(MutationStep /\ UNCHANGED launchVars)
  /\ \A s \in Sides :
       WF_allVars((\E outcome \in Outcomes : TurnEnds(s, outcome)) /\ UNCHANGED launchVars)
  /\ WF_allVars(PollRead /\ UNCHANGED launchVars)
  /\ WF_allVars((\E outcome \in {"completed", "error"} : GenerationEnds(outcome))
                 /\ UNCHANGED launchVars)

-----------------------------------------------------------------------------
(* Properties *)

LaunchTypeOK ==
  /\ TypeOK
  /\ stage \in Stages
  /\ stored \in Battle
  /\ made \subseteq Sides
  /\ creating \subseteq Sides
  /\ prompt \in [Sides -> {"none", "unsent", "sent", "done"}]

\* A launch that failed leaves no worktree behind and no live inference
\* token, whatever clients did in the meantime (battle-service.ts:362-377),
\* where archiving worked and the proxy could be reached.
FailedLaunchCleansUp ==
  stage = "failed" /\ ~Suffered("proxy") /\ ~Suffered("archive") =>
    /\ \A s \in Sides : space[s] \in {"none", "archived"}
    /\ ~TokenLive(px)

\* startBattle returns or fails, whatever happens to the battle meanwhile; every
\* mutation ends and lets the next one run, also when a step throws; and while the
\* daemon stays up the battle does not stay "running": some end is recorded for
\* each side, however the launch went.
BattleSettles ==
  /\ <>(stage \in {"started", "failed", "lost"})
  /\ pc # "idle" ~> pc = "idle"
  /\ <>(stage = "lost" \/ \A s \in Sides : disk.side[s] \in Terminal)

=============================================================================
