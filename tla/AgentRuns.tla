----------------------------- MODULE AgentRuns -----------------------------
(***************************************************************************)
(* The turns of one agent, as the daemon's AgentManager runs them          *)
(* (agent/agent-manager.ts with agent/agent-run-state.ts and               *)
(* agent/agent-prompt.ts).  A prompt starts a turn at the provider, or     *)
(* takes the place of the one that runs; a stop cancels it; the provider   *)
(* reports starts and ends, in its own time, and starts turns of its own.  *)
(*                                                                         *)
(* Calls are numbered, and the turn that the provider makes for a prompt   *)
(* has the prompt's number; the turns it makes by itself follow.  The      *)
(* provider names the turn in each event, as Claude's does.                *)
(***************************************************************************)
EXTENDS Naturals, Sequences, FiniteSets

CONSTANTS
  MaxCalls,  \* bound: prompts, stops and turns of the provider's own, together
  MaxOwn     \* bound: turns that the provider starts by itself

ASSUME CallsAssumption == MaxCalls \in Nat /\ MaxOwn \in Nat

Calls == 1..MaxCalls
Own == (MaxCalls + 1)..(MaxCalls + MaxOwn)
Turns == Calls \cup Own
NoTurn == 0
Ends == {"completed", "failed", "canceled"}

VARIABLES
  agent,      \* the ManagedAgent: lifecycle, activeForegroundTurnId, activeTurnId,
              \* pendingReplacement, whether lastError is set, and what is shown
              \* and saved of it: "live" and "closing", its lifecycle; "closed", the
              \* closed copy; and then what a call that still holds it puts over that
  run,        \* its entry in AgentRunState.runs, with the call that made it
  finalized,  \* finalizedForegroundTurnIds (the limit of 50 is not reached)
  queue,      \* session events behind sessionEventTails
  calls,      \* the calls in progress
  provider    \* provider[t]: how far the provider is with turn t

vars == <<agent, run, finalized, queue, calls, provider>>

Cancelling == {"interrupting", "settling", "forced"}

NoRun == [kind |-> "none", call |-> 0, turn |-> NoTurn, staged |-> <<>>]
Unused == [kind |-> "none", at |-> "unused", target |-> NoTurn, acked |-> FALSE,
           settled |-> FALSE, replaces |-> FALSE, told |-> "none"]

Init ==
  /\ agent = [lifecycle |-> "idle", foreground |-> NoTurn, active |-> NoTurn,
              replacing |-> FALSE, failed |-> FALSE, shown |-> "live"]
  /\ run = NoRun
  /\ finalized = {}
  /\ queue = <<>>
  /\ calls = [c \in Calls |-> Unused]
  /\ provider = [t \in Turns |-> "none"]

\* The manager has the agent no more; calls in progress still do.
Gone == agent.shown # "live"

\* emitState: what is shown of an agent that the manager may have closed.
Over(lifecycle) ==
  IF agent.shown \in {"live", "closing"} THEN agent.shown ELSE lifecycle

----------------------------------------------------------------------------
(***************************************************************************)
(* What a session event does                                               *)
(***************************************************************************)

\* attachManagedTurnIdentity, for an end.
Identified(t) ==
  IF t # NoTurn THEN t ELSE IF agent.foreground # NoTurn THEN agent.foreground ELSE agent.active

\* Mutant: a foreground run is settled by the end of any turn.
SettlesAny(t) == run.kind # "none" /\ (run.kind = "foreground" => run.turn # NoTurn)

\* settleTerminalRun: is the run the one that turn t ends?
Settles(t) ==
  \/ run.kind = "foreground" /\ run.turn # NoTurn /\ run.turn = t
  \/ run.kind = "autonomous" /\ (run.turn = NoTurn \/ t = NoTurn \/ run.turn = t)

\* finalizeForegroundTurn: the lifecycle after the foreground turn.
RestOf(failed) ==
  IF failed THEN "error" ELSE IF agent.replacing THEN "running" ELSE "idle"

\* applyActiveTurnTerminal: the end of a turn that is not the active one.
Stale(t) == agent.active # NoTurn /\ t # NoTurn /\ agent.active # t

\* handleStreamEvent on the agent, for an end of turn t.
AfterEnd(type, t) ==
  LET own == t # NoTurn /\ agent.foreground = t
      failed == IF Stale(t) THEN agent.failed ELSE type = "failed"
  IN [agent EXCEPT
       !.foreground = IF own THEN NoTurn ELSE @,
       !.active = IF Stale(t) THEN @ ELSE NoTurn,
       !.failed = failed,
       !.lifecycle = IF own THEN RestOf(failed)
                     ELSE IF Stale(t) \/ agent.foreground # NoTurn THEN @
                     ELSE IF type = "failed" THEN "error"
                     ELSE IF agent.replacing THEN @ ELSE "idle"]

\* Mutant: the end of a run does not release the calls that wait for it.
ToldStreams(base, settles, type, t) ==
  [c \in Calls |-> [base[c] EXCEPT
     !.told = IF c = t /\ base[c].at = "streaming" THEN type ELSE @]]

\* The calls that wait for the run, and the stream that waits for turn t.
Told(base, settles, type, t) ==
  [c \in Calls |->
     [base[c] EXCEPT !.settled = @ \/ (settles /\ base[c].at \in Cancelling),
                     !.told = IF c = t /\ base[c].at = "streaming" THEN type ELSE @]]

\* dispatchSessionEvent for an end: nothing when the turn was finalized before.
End(e, base) ==
  LET t == Identified(e.turn) IN
  IF t \in finalized THEN calls' = base /\ UNCHANGED <<agent, run, finalized>>
  ELSE /\ agent' = AfterEnd(e.type, t)
       /\ run' = IF Settles(t) THEN NoRun ELSE run
       /\ finalized' = IF t # NoTurn /\ agent.foreground = t THEN finalized \cup {t} ELSE finalized
       /\ calls' = Told(base, Settles(t), e.type, e.turn)

\* onStreamTurnStarted: with no foreground turn, a turn that the provider started.
Start(t) ==
  /\ UNCHANGED <<finalized, calls>>
  /\ IF agent.foreground # NoTurn THEN UNCHANGED <<agent, run>>
     ELSE /\ agent' = [agent EXCEPT !.active = t, !.lifecycle = "running"]
          /\ run' = IF run.kind = "none" THEN [NoRun EXCEPT !.kind = "autonomous", !.turn = t] ELSE run

\* The next session event is taken up, unless the manager has closed the agent.
Dispatch ==
  /\ queue # <<>>
  /\ queue' = Tail(queue)
  /\ IF Gone THEN UNCHANGED <<agent, run, finalized, calls>>
     ELSE IF Head(queue).type = "started" THEN Start(Head(queue).turn)
     ELSE End(Head(queue), calls)
  /\ UNCHANGED provider

----------------------------------------------------------------------------
(***************************************************************************)
(* Prompts                                                                 *)
(***************************************************************************)

\* Mutant: streamAgent does not look for a run that has no turn yet.
BusyWithTurn == agent.foreground # NoTurn

\* streamAgent's test; and the test of replaceAgentRun and of hasInFlightRun.
Busy == agent.foreground # NoTurn \/ run.kind # "none"
InFlight == agent.lifecycle = "running" \/ Busy

\* streamAgent and the first step of its generator: the provider is asked.
StreamAgent(c, kind) ==
  /\ agent' = [agent EXCEPT !.failed = FALSE]
  /\ run' = [NoRun EXCEPT !.kind = "foreground", !.call = c]
  /\ calls' = [calls EXCEPT ![c].kind = kind, ![c].at = "starting", ![c].settled = FALSE,
                            ![c].replaces = agent.replacing]
  /\ provider' = [provider EXCEPT ![c] = "asked"]

\* Continuations that have nothing left to wait for, and session events, run
\* before the event loop takes up a message, a timer or the provider's answer.
Drained ==
  /\ queue = <<>>
  /\ \A c \in Calls :
       /\ ~(calls[c].at \in {"settling", "forced"} /\ calls[c].settled)
       /\ ~(calls[c].at = "streaming" /\ calls[c].told # "none")

\* The bound on what is started.
More == Cardinality({c \in Calls : calls[c].at # "unused"} \cup {t \in Own : provider[t] # "none"})
          < MaxCalls

New(c) ==
  /\ More /\ Drained /\ ~Gone
  /\ calls[c].at = "unused" /\ \A d \in 1..(c - 1) : calls[d].at # "unused"

\* runAgent: a prompt that does not replace; with a run in flight it throws.
RunAgent(c) ==
  /\ New(c)
  /\ ~Busy
  /\ StreamAgent(c, "run")
  /\ UNCHANGED <<finalized, queue>>

\* cancelAgentRun, to its first await: the run to be waited for.
Cancel(c, kind) ==
  LET it == IF run.kind = "none" THEN [NoRun EXCEPT !.kind = "autonomous"] ELSE run IN
  /\ run' = it
  /\ calls' = [calls EXCEPT ![c].kind = kind, ![c].at = "interrupting",
                 ![c].target = IF it.kind = "foreground" THEN it.call ELSE it.turn]

\* startAgentRun with replaceRunning: streamAgent, or replaceAgentRun.
Prompt(c) ==
  /\ New(c)
  /\ \/ /\ ~InFlight
        /\ StreamAgent(c, "prompt")
     \/ /\ InFlight
        /\ agent' = [agent EXCEPT !.replacing = TRUE, !.lifecycle = "running"]
        /\ Cancel(c, "prompt")
        /\ UNCHANGED provider
  /\ UNCHANGED <<finalized, queue>>

\* cancelAgentRunCommand; with nothing in flight there is nothing to do.
Stop(c) ==
  /\ New(c) /\ InFlight
  /\ Cancel(c, "stop")
  /\ UNCHANGED <<agent, finalized, queue, provider>>

\* Staged events but for the start of turn c, which is told at most once.
WithoutStart(s, c) ==
  LET starts == {i \in 1..Len(s) : s[i] = [type |-> "started", turn |-> c]}
      k == CHOOSE i \in starts : TRUE
  IN IF starts = {} THEN s ELSE [i \in 1..(Len(s) - 1) |-> IF i < k THEN s[i] ELSE s[i + 1]]

\* startTurn returns the turn: it is the foreground turn, and the events that came
\* before are queued (its own start is known).  An agent that was closed meanwhile is
\* shown running again: it has no run, the events are dropped, and the stream is left
\* with no one to end it.
Accept(c) ==
  /\ Drained
  /\ calls[c].at = "starting" /\ provider[c] # "refused"
  /\ calls' = [calls EXCEPT ![c].at = "streaming", ![c].replaces = FALSE]
  /\ agent' = [agent EXCEPT !.foreground = c, !.active = c, !.lifecycle = "running",
                            !.replacing = @ /\ ~calls[c].replaces, !.shown = Over("running")]
  /\ IF Gone THEN UNCHANGED <<run, queue>>
     ELSE /\ run' = [run EXCEPT !.turn = c, !.staged = <<>>]
          /\ queue' = queue \o WithoutStart(run.staged, c)
  /\ UNCHANGED <<finalized, provider>>

\* startTurn throws: an error that ends no turn, and the run, if the agent still has
\* one, is settled.  An agent that was closed meanwhile is shown with the error.
Refuse(c) ==
  /\ Drained
  /\ calls[c].at = "starting" /\ provider[c] = "asked"
  /\ provider' = [provider EXCEPT ![c] = "refused"]
  /\ agent' = [lifecycle |-> "error", foreground |-> NoTurn, active |-> NoTurn,
               replacing |-> FALSE, failed |-> TRUE, shown |-> Over("error")]
  /\ run' = NoRun
  /\ calls' = [Told(calls, ~Gone, "failed", NoTurn) EXCEPT ![c].at = "failed", ![c].replaces = FALSE]
  /\ UNCHANGED <<finalized, queue>>

\* The stream ends after the end of its turn; its finally settles its run.
StreamEnds(c) ==
  /\ calls[c].at = "streaming" /\ calls[c].told # "none"
  /\ LET mine == run.kind = "foreground" /\ run.call = c IN
     /\ run' = IF mine THEN NoRun ELSE run
     /\ calls' = [Told(calls, mine, "none", NoTurn) EXCEPT ![c].at = "done"]
  /\ UNCHANGED <<agent, finalized, queue, provider>>

----------------------------------------------------------------------------
(***************************************************************************)
(* Stopping                                                                *)
(***************************************************************************)

\* session.interrupt() returns; or throws, or not in time.
Interrupted(c) ==
  /\ Drained
  /\ calls[c].at = "interrupting"
  /\ \E acked \in BOOLEAN :
       calls' = [calls EXCEPT ![c].at = "settling", ![c].acked = acked]
  /\ UNCHANGED <<agent, run, finalized, queue, provider>>

\* The end of cancelAgentRun: a stop reports it; replaceAgentRun goes on to the
\* turn, or gives the replacement up (which it can tell only an agent that is there).
Return(c, status) ==
  IF calls[c].kind = "stop"
  THEN /\ calls' = [calls EXCEPT ![c].at = "done", ![c].settled = FALSE, ![c].told = status]
       /\ UNCHANGED <<agent, run, provider>>
  ELSE IF ~Gone /\ status = "settled" /\ ~Busy
  THEN StreamAgent(c, "prompt")
  ELSE /\ calls' = [calls EXCEPT ![c].at = "failed", ![c].settled = FALSE,
                               ![c].told = status]
       /\ agent' = [agent EXCEPT !.replacing = @ /\ Gone]
       /\ UNCHANGED <<run, provider>>

Settled(c) ==
  /\ calls[c].at \in {"settling", "forced"} /\ calls[c].settled
  /\ Return(c, "settled")
  /\ UNCHANGED <<finalized, queue>>

\* The manager ends the turn by itself.
EndForced(c) ==
  /\ End([type |-> "canceled", turn |-> run.turn],
         [calls EXCEPT ![c].at = "forced", ![c].settled = run.turn = NoTurn])
  /\ UNCHANGED provider

\* Mutant: a turn that goes on after an acknowledged interrupt is left alone.
TimesOutLeaves(c) ==
  /\ Drained
  /\ calls[c].at = "settling"
  /\ Return(c, IF calls[c].acked THEN "settled" ELSE "refused")
  /\ UNCHANGED <<finalized, queue>>

\* The run is not settled in time.  Without an acknowledgement the call is
\* refused; with one, a turn that is known is ended here, and a run whose turn
\* has not been accepted is left.
TimesOut(c) ==
  /\ Drained
  /\ calls[c].at = "settling"
  /\ IF ~calls[c].acked THEN Return(c, "refused") /\ UNCHANGED finalized
     ELSE IF run.turn # NoTurn \/ run.kind = "autonomous" THEN EndForced(c)
     ELSE Return(c, "settled") /\ UNCHANGED finalized
  /\ UNCHANGED queue

----------------------------------------------------------------------------

\* closeAgentRuntime, to the wait for the session: the manager forgets the agent,
\* streams are told, and the run is cleared.
Close ==
  /\ Drained /\ ~Gone
  /\ agent' = [agent EXCEPT !.shown = "closing"]
  /\ run' = NoRun
  /\ calls' = [c \in Calls |->
       [calls[c] EXCEPT !.settled = @ \/ calls[c].at \in Cancelling,
                        !.told = IF calls[c].at = "streaming" THEN "canceled" ELSE @]]
  /\ UNCHANGED <<finalized, queue, provider>>

\* The session is closed: the closed copy is saved and shown.
Closed ==
  /\ Drained /\ agent.shown = "closing"
  /\ agent' = [agent EXCEPT !.shown = "closed"]
  /\ UNCHANGED <<run, finalized, queue, calls, provider>>

\* enqueueSessionEvent: events before the turn is accepted are staged.
Enqueue(e) ==
  IF run.kind = "foreground" /\ run.turn = NoTurn
  THEN run' = [run EXCEPT !.staged = Append(@, e)] /\ UNCHANGED queue
  ELSE queue' = Append(queue, e) /\ UNCHANGED run

Says(e, to) ==
  /\ Drained /\ ~Gone
  /\ provider' = [provider EXCEPT ![e.turn] = to]
  /\ Enqueue(e)
  /\ UNCHANGED <<agent, finalized, calls>>

\* The provider announces the turn of a prompt, or one of its own.  (A turn that
\* the manager gave up on is supposed not to be announced after that.)
Announce(t) ==
  /\ \/ t \in Calls /\ provider[t] = "asked" /\ t \notin finalized
     \/ /\ t \in Own /\ provider[t] = "none" /\ More
        /\ \A u \in Turns : provider[u] \notin {"asked", "announced"}
  /\ Says([type |-> "started", turn |-> t], "announced")

\* A turn ends at the provider, interrupted or not.
Finish(t) ==
  /\ provider[t] = "announced"
  /\ \E type \in Ends : Says([type |-> type, turn |-> t], type)

Manage(c) ==
  \/ Accept(c) \/ Refuse(c) \/ StreamEnds(c) \/ Interrupted(c) \/ Settled(c) \/ TimesOut(c)

Next ==
  \/ Dispatch
  \/ \E c \in Calls : RunAgent(c) \/ Prompt(c) \/ Stop(c) \/ Manage(c)
  \/ Close
  \/ Closed
  \/ \E t \in Turns : Announce(t) \/ Finish(t)

Spec == Init /\ [][Next]_vars

\* Every await ends: the provider answers a start, interrupts and waits have
\* timers; and the event loop takes everything up.
LiveSpec == Spec /\ WF_vars(Dispatch) /\ \A c \in Calls : WF_vars(Manage(c))

----------------------------------------------------------------------------
\* Properties

\* The agent has one run: while a prompt is being started no turn is in the
\* foreground, and a turn in the foreground is the run's, however prompts, stops
\* and late ends of other turns meet.  A stream that ended said how its own turn
\* ended at the provider, and only a turn whose interrupt was acknowledged is ended
\* without the provider (docs/agent-lifecycle.md:38).
OneRun ==
  /\ ~Gone =>
       /\ \A c \in Calls : calls[c].at = "starting" =>
            run.call = c /\ run.turn = NoTurn /\ agent.foreground = NoTurn
       /\ agent.foreground # NoTurn => run.turn = agent.foreground /\ agent.active = agent.foreground
  /\ \A c \in Calls :
       /\ calls[c].told \in {"completed", "failed"} => provider[c] = calls[c].told
       /\ c \in finalized /\ provider[c] \notin Ends =>
            \E d \in Calls : calls[d].acked /\ calls[d].target = c

\* What the agent shows is true: at rest it has no turn, it is not idle while a
\* replacement is pending, and as long as the manager has it, it shows running only
\* with a run, or for a prompt that is about to make one.  (Of a closed agent that is
\* not so: the answer to a prompt that was being started shows it running, without a
\* run, over closed.)
LifecycleHonest ==
  /\ agent.replacing => agent.lifecycle # "idle"
  /\ agent.lifecycle \in {"idle", "error"} =>
       agent.foreground = NoTurn /\ run.turn = NoTurn
  /\ agent.shown = "live" /\ agent.lifecycle = "running" /\ run.kind = "none" =>
       \E c \in Calls : calls[c].kind = "prompt" /\ calls[c].at \in Cancelling

\* A cancellation that is reported as settled has ended the turn it was for,
\* unless the provider had not accepted that turn yet.
SettledIsOver ==
  [][\A c \in Calls :
       calls[c].at \in Cancelling /\ (calls'[c].at = "starting" \/ calls'[c].told = "settled") =>
         run.kind = "none" \/ run.turn = NoTurn \/ run.turn # calls[c].target]_vars

\* Every stop and every replacement returns, and a stream whose turn is over ends.
CallsReturn ==
  \A c \in Calls :
    /\ (calls[c].at \in Cancelling) ~> (calls[c].at \notin Cancelling)
    /\ (calls[c].at = "streaming" /\ c \in finalized) ~> (calls[c].at = "done")
=============================================================================
