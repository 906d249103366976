--------------------------- MODULE ArenaDecision ---------------------------
(***************************************************************************)
(* What the Arena proxy promises about one blind battle, with no record,   *)
(* no queue, no network and no restart: sides finish, at most one decision *)
(* is ever taken, and it is taken on finished work.                        *)
(***************************************************************************)
EXTENDS ArenaRecord

VARIABLES
  finished,   \* the sides reported complete
  decision,   \* the vote, "stopped", or None
  summary     \* "open", "shown", or "withheld" for good

vars == <<finished, decision, summary>>

Init ==
  /\ finished = {}
  /\ decision = None
  /\ summary = "open"

Finish(s) ==
  /\ finished' = finished \cup {s}
  /\ UNCHANGED <<decision, summary>>

\* An early decision withholds the comparison for good.
Decide(v) ==
  /\ decision = None
  /\ Winner(v) \in finished
  /\ v = "tie" => finished = Sides
  /\ decision' = v
  /\ summary' = IF finished = Sides THEN summary ELSE "withheld"
  /\ UNCHANGED finished

Stop ==
  /\ decision = None
  /\ decision' = "stopped"
  /\ summary' = "withheld"
  /\ UNCHANGED finished

\* A comparison of two finished sides may be shown, and may be redone.
Summarise ==
  /\ finished = Sides
  /\ summary # "withheld"
  /\ summary' \in {"open", "shown"}
  /\ UNCHANGED <<finished, decision>>

Next ==
  \/ \E s \in Sides : Finish(s)
  \/ \E v \in Votes : Decide(v)
  \/ Stop
  \/ Summarise

Spec == Init /\ [][Next]_vars
=============================================================================
