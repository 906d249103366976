---------------------------- MODULE HubAuthority ----------------------------
(***************************************************************************)
(* What the daemon and the Hub promise each other, whatever is lost,       *)
(* retried or restarted: one relationship at a time; its life only goes    *)
(* forward; and the daemon forgets one, unless it abandons it, only when   *)
(* the Hub holds nothing for it any more.                                  *)
(***************************************************************************)
EXTENDS Naturals

CONSTANT MaxRelationships

Relationships == 1..MaxRelationships

VARIABLES
  life, \* life[r]: where the daemon's relationship r is
  hub   \* hub[r]: what the Hub holds for it

vars == <<life, hub>>

Begun == {"pending", "active", "disconnecting"}

Init ==
  /\ life = [r \in Relationships |-> "unborn"]
  /\ hub = [r \in Relationships |-> "never"]

Begin(r) ==
  /\ life[r] = "unborn"
  /\ \A q \in Relationships : life[q] \notin Begun
  /\ life' = [life EXCEPT ![r] = "pending"]
  /\ UNCHANGED hub

\* Only a relationship the Hub has granted is ever dialled.
Activate(r) ==
  /\ life[r] = "pending"
  /\ hub[r] # "never"
  /\ life' = [life EXCEPT ![r] = "active"]
  /\ UNCHANGED hub

Leave(r) ==
  /\ life[r] \in {"pending", "active"}
  /\ life' = [life EXCEPT ![r] = "disconnecting"]
  /\ UNCHANGED hub

End(r) ==
  /\ life[r] \in {"active", "disconnecting"}
  /\ hub[r] # "held"
  /\ life' = [life EXCEPT ![r] = "ended"]
  /\ UNCHANGED hub

Abandon(r) ==
  /\ life[r] \in Begun
  /\ life' = [life EXCEPT ![r] = "abandoned"]
  /\ UNCHANGED hub

Grant(r) ==
  /\ life[r] \in Begun \cup {"abandoned"}
  /\ hub[r] = "never"
  /\ hub' = [hub EXCEPT ![r] = "held"]
  /\ UNCHANGED life

Withdraw(r) ==
  /\ hub[r] = "held"
  /\ hub' = [hub EXCEPT ![r] = "ended"]
  /\ UNCHANGED life

Next ==
  \E r \in Relationships :
    \/ Begin(r) \/ Activate(r) \/ Leave(r) \/ End(r) \/ Abandon(r)
    \/ Grant(r) \/ Withdraw(r)

Spec == Init /\ [][Next]_vars

=============================================================================
