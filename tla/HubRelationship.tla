-------------------------- MODULE HubRelationship --------------------------
(***************************************************************************)
(* The daemon's relationship with its Hub: HubRelationshipController       *)
(* (hub/relationship-controller.ts), driven by the connect and disconnect  *)
(* requests of trusted clients, by its retry timer, by restarts of the     *)
(* daemon, and by the Hub over requests and a socket that may be lost.     *)
(*                                                                         *)
(* The controller guards every continuation by comparing a generation      *)
(* number captured earlier with the present one.  Only equality is ever    *)
(* asked, so a captured number is modelled by "current": TRUE until the    *)
(* generation it was captured from is bumped.  A revocation request whose  *)
(* generation is bumped is dropped from the model: neither its answer nor  *)
(* its failure changes anything, and the Hub's serving it is HubEnds.      *)
(***************************************************************************)
EXTENDS Naturals, FiniteSets

CONSTANTS
  MaxRelationships, \* bound: connects that create a relationship
  MaxInFlight       \* bound: enrollment requests in flight

ASSUME BoundsAssumption == MaxRelationships \in Nat /\ MaxInFlight \in Nat \ {0}

Relationships == 1..MaxRelationships
Slots == 1..MaxInFlight

VARIABLES
  record,      \* hub-relationship.json, and this.record, which equals it
  state,       \* this.state, the connection state status() reports
  retry,       \* this.retry, what the one timer will do
  attempts,    \* attempts[s]: an enrollment request in flight (tryEnrollment)
  revocations, \* the current revocation requests in flight (tryRevocation)
  waits,       \* the disconnects awaiting inFlightEnrollments
  socket,      \* this.socket, and what it is to its events
  agents,      \* this.executionAgents, the relationship they act for
  issued,      \* the relationships created so far
  grant,       \* grant[r]: what the Hub holds for relationship r
  abandoned,   \* history: dropped by --force or on a refused enrollment
  overtaken    \* history: disconnecting ones whose disconnect was waiting when
               \* another call revoked, and ones a revocation of another removed

daemonVars == <<record, state, retry, attempts, revocations, waits, socket, agents>>
history == <<abandoned, overtaken>>
vars == <<daemonVars, issued, grant, history>>

Held == {"pending", "active", "disconnecting"}
None == 0

NoRecord == [state |-> "none", rel |-> None]
NoRetry == [kind |-> "none", rel |-> None, by |-> "none"]
NoSocket == [phase |-> "none", rel |-> None, current |-> FALSE]
Idle == [at |-> "none", rel |-> None, current |-> FALSE, startup |-> FALSE]

\* Requests to the Hub: where each is and for which relationship; whether an
\* enrollment's generation still holds, and whether start sent it; which call a
\* revocation or its retry belongs to (no two of one call are ever in flight).
Callers == {"start", "call", "waited"}
Attempts == [at : {"none", "sent", "accepted", "refused"}, rel : Relationships \cup {None},
             current : BOOLEAN, startup : BOOLEAN]
Revocations == [at : {"sent", "served"}, rel : Relationships, by : Callers]

TypeOK ==
  /\ record \in [state : Held \cup {"none", "revoked"}, rel : Relationships \cup {None}]
  /\ state \in {"not_connected", "connecting", "connected", "reconnecting",
                "disconnecting", "revoked"}
  /\ retry \in [kind : {"none", "enroll", "socket", "revoke"}, rel : Relationships \cup {None},
                by : Callers \cup {"none"}]
  /\ attempts \in [Slots -> Attempts]
  /\ revocations \subseteq Revocations
  /\ waits \subseteq [rel : Relationships, on : SUBSET Slots]
  /\ socket \in [phase : {"none", "dialing", "open"}, rel : Relationships \cup {None},
                 current : BOOLEAN]
  /\ agents \in Relationships \cup {None}
  /\ issued \in 0..MaxRelationships
  /\ grant \in [Relationships -> {"never", "held", "ended"}]
  /\ abandoned \subseteq Relationships
  /\ overtaken \subseteq Relationships

----------------------------------------------------------------------------
\* The controller's private methods.

InFlight == {s \in Slots : attempts[s].at # "none"}

\* ++enrollmentGeneration, seen by the requests that captured it.
Superseded(a) == [s \in Slots |-> [a[s] EXCEPT !.current = FALSE]]

\* Mutant: the answer to a revocation is not compared with the generation.
FencedNever(R) == R

\* ++generation: what is left of the revocations R that captured it.
Fenced(R) == {}

Enrolling(r, startup) == [at |-> "sent", rel |-> r, current |-> TRUE, startup |-> startup]
Revoking(r, by) == [at |-> "sent", rel |-> r, by |-> by]

\* The slot the next request takes, were there one.
Free(s) == /\ attempts[s].at = "none"
           /\ \A t \in Slots : t < s => attempts[t].at # "none"

\* cancelLifecycle, of the attempts a and the revocations R.
CancelLifecycle(a, R) ==
  /\ retry' = NoRetry
  /\ attempts' = Superseded(a)
  /\ revocations' = Fenced(R)

\* remove: it neither closes the socket nor forgets it.
Remove(a, R) ==
  /\ CancelLifecycle(a, R)
  /\ record' = NoRecord
  /\ state' = "not_connected"
  /\ agents' = None

OpenSocket(r, status) ==
  /\ socket' = [phase |-> "dialing", rel |-> r, current |-> TRUE]
  /\ state' = status

\* schedule, which cancels whatever the timer was set for.
Schedule(kind, r, by) == retry' = [kind |-> kind, rel |-> r, by |-> by]

\* Mutant: revoke leaves the execution agents their authority.
RevokeKeepsAgents ==
  /\ CancelLifecycle(attempts, revocations)
  /\ record' = [record EXCEPT !.state = "revoked"]
  /\ state' = "revoked"
  /\ socket' = NoSocket
  /\ UNCHANGED agents

\* revoke: the record stays, without its secret.
Revoke ==
  /\ CancelLifecycle(attempts, revocations)
  /\ record' = [record EXCEPT !.state = "revoked"]
  /\ state' = "revoked"
  /\ agents' = None
  /\ socket' = NoSocket

----------------------------------------------------------------------------
\* Requests of trusted clients.

\* Is a disconnect of r waiting for enrollments?
WaitsFor(r, W) == \E w \in W : w.rel = r

\* connect, from no relationship or a revoked one: the pending record is saved
\* before the Hub hears of it.
Connect(s) ==
  /\ record.state \in {"none", "revoked"}
  /\ issued < MaxRelationships
  /\ Free(s)
  /\ issued' = issued + 1
  /\ record' = [state |-> "pending", rel |-> issued']
  /\ state' = "connecting"
  /\ retry' = NoRetry
  /\ attempts' = [Superseded(attempts) EXCEPT ![s] = Enrolling(issued', FALSE)]
  /\ UNCHANGED <<revocations, waits, socket, agents, grant, history>>

\* connect again while pending, with a fresh token for the same ceremony.
ConnectAfresh(s) ==
  /\ record.state = "pending"
  /\ Free(s)
  /\ state' = "connecting"
  /\ retry' = NoRetry
  /\ attempts' = [Superseded(attempts) EXCEPT ![s] = Enrolling(record.rel, FALSE)]
  /\ UNCHANGED <<record, revocations, waits, socket, agents, issued, grant, history>>

\* disconnect with nothing to revoke, or with force.
DisconnectLocally ==
  /\ Remove(attempts, revocations)
  /\ socket' = NoSocket
  /\ abandoned' = IF record.state \in Held THEN abandoned \cup {record.rel} ELSE abandoned
  /\ UNCHANGED <<waits, issued, grant, overtaken>>

\* disconnect without force: saved as disconnecting, and revoked at once unless
\* it was pending, when the enrollments in flight come first.  A second one finds
\* it disconnecting, and does not wait.
Disconnect ==
  /\ record.state \in Held
  /\ record' = [record EXCEPT !.state = "disconnecting"]
  /\ state' = "disconnecting"
  /\ retry' = NoRetry
  /\ attempts' = Superseded(attempts)
  /\ IF record.state = "pending" /\ InFlight # {}
       THEN /\ waits' = waits \cup {[rel |-> record.rel, on |-> InFlight]}
            /\ revocations' = Fenced(revocations)
       ELSE /\ revocations' = Fenced(revocations) \cup {Revoking(record.rel, "call")}
            /\ UNCHANGED waits
  /\ socket' = NoSocket
  /\ agents' = None
  /\ overtaken' = overtaken \cup
       {r \in {record.rel} : record.state = "disconnecting" /\ WaitsFor(r, waits)}
  /\ UNCHANGED <<issued, grant, abandoned>>

----------------------------------------------------------------------------
\* tryEnrollment, after its request.

\* Mutant: the generation is not compared when the answer comes.
EnrollmentAcceptedStale(s) ==
  /\ attempts[s].at = "accepted"
  /\ attempts' = [attempts EXCEPT ![s] = Idle]
  /\ record' = [state |-> "active", rel |-> attempts[s].rel]
  /\ retry' = NoRetry
  /\ OpenSocket(attempts[s].rel, "connecting")
  /\ revocations' = Fenced(revocations)
  /\ UNCHANGED <<waits, agents, issued, grant, history>>

EnrollmentAccepted(s) ==
  /\ attempts[s].at = "accepted" /\ attempts[s].current
  /\ attempts' = [attempts EXCEPT ![s] = Idle]
  /\ record' = [state |-> "active", rel |-> attempts[s].rel]
  /\ retry' = NoRetry
  /\ OpenSocket(attempts[s].rel, "connecting")
  /\ revocations' = Fenced(revocations)
  /\ UNCHANGED <<waits, agents, issued, grant, history>>

EnrollmentRefused(s) ==
  /\ attempts[s].at = "refused" /\ attempts[s].current
  /\ Remove([attempts EXCEPT ![s] = Idle], revocations)
  /\ socket' = [socket EXCEPT !.current = FALSE]
  /\ abandoned' = abandoned \cup {record.rel}
  /\ UNCHANGED <<waits, issued, grant, overtaken>>

\* Mutant: only the first failure is retried.
EnrollmentFailsOnce(s) ==
  /\ attempts[s].at # "none" /\ attempts[s].current
  /\ attempts' = [attempts EXCEPT ![s] = Idle]
  /\ state' = "reconnecting"
  /\ IF state = "connecting" THEN Schedule("enroll", attempts[s].rel, "none") ELSE UNCHANGED retry
  /\ UNCHANGED <<record, revocations, waits, socket, agents, issued, grant, history>>

\* Lost, timed out, failed at the Hub, or not an answer to this ceremony.
EnrollmentFails(s) ==
  /\ attempts[s].at # "none" /\ attempts[s].current
  /\ attempts' = [attempts EXCEPT ![s] = Idle]
  /\ state' = "reconnecting"
  /\ Schedule("enroll", attempts[s].rel, "none")
  /\ UNCHANGED <<record, revocations, waits, socket, agents, issued, grant, history>>

\* Mutant: start goes on to revoke whatever the record is.
ResumedStartUnchecked(a) == IF a.startup THEN {Revoking(record.rel, "start")} ELSE {}

\* start goes on to revoke if it was disconnected meanwhile.
ResumedStart(a) ==
  IF a.startup /\ record.state = "disconnecting"
    THEN {Revoking(record.rel, "start")} ELSE {}

\* Mutant: a disconnect that waited never goes on.
StaleEnrollmentForgotten(s) ==
  /\ attempts[s].at # "none" /\ ~attempts[s].current
  /\ attempts' = [attempts EXCEPT ![s] = Idle]
  /\ waits' = {w \in {[v EXCEPT !.on = @ \ {s}] : v \in waits} : w.on # {}}
  /\ revocations' = revocations \cup ResumedStart(attempts[s])
  /\ UNCHANGED <<record, state, retry, socket, agents, issued, grant, history>>

\* Mutant: a disconnect waits for one of the enrollments in flight only.
StaleEnrollmentRaces(s) ==
  /\ attempts[s].at # "none" /\ ~attempts[s].current
  /\ attempts' = [attempts EXCEPT ![s] = Idle]
  /\ waits' = {w \in waits : s \notin w.on}
  /\ revocations' = revocations
       \cup {Revoking(w.rel, "waited") : w \in {v \in waits : s \in v.on}}
       \cup ResumedStart(attempts[s])
  /\ UNCHANGED <<record, state, retry, socket, agents, issued, grant, history>>

\* A superseded request is over, however it went: the disconnects that wait
\* for no other go on to revoke what they captured, whatever the record is now,
\* and so does start if it sent the request.
StaleEnrollmentSettles(s) ==
  /\ attempts[s].at # "none" /\ ~attempts[s].current
  /\ attempts' = [attempts EXCEPT ![s] = Idle]
  /\ waits' = {w \in {[v EXCEPT !.on = @ \ {s}] : v \in waits} : w.on # {}}
  /\ revocations' = revocations
       \cup {Revoking(w.rel, "waited") : w \in {v \in waits : v.on = {s}}}
       \cup ResumedStart(attempts[s])
  /\ overtaken' = overtaken \cup
       {r \in {record.rel} : ResumedStart(attempts[s]) # {} /\ WaitsFor(r, waits')}
  /\ UNCHANGED <<record, state, retry, socket, agents, issued, grant, abandoned>>

----------------------------------------------------------------------------
\* tryRevocation, after its request.

\* The record goes, whichever relationship it is of.
RevocationAnswered(v) ==
  /\ v.at = "served"
  /\ Remove(attempts, revocations \ {v})
  /\ socket' = [socket EXCEPT !.current = FALSE]
  /\ overtaken' = overtaken \cup
       {r \in {record.rel} : record.state \in Held /\ r # v.rel /\ v.by = "waited"}
  /\ UNCHANGED <<waits, issued, grant, abandoned>>

RevocationFails(v) ==
  /\ revocations' = revocations \ {v}
  /\ state' = "disconnecting"
  /\ Schedule("revoke", v.rel, v.by)
  /\ UNCHANGED <<record, attempts, waits, socket, agents, issued, grant, history>>

----------------------------------------------------------------------------
\* The retry timer.

RetryEnrollment(s) ==
  /\ retry.kind = "enroll"
  /\ Free(s)
  /\ retry' = NoRetry
  /\ attempts' = [attempts EXCEPT ![s] = Enrolling(retry.rel, FALSE)]
  /\ UNCHANGED <<record, state, revocations, waits, socket, agents, issued, grant, history>>

RetrySocket ==
  /\ retry.kind = "socket"
  /\ retry' = NoRetry
  /\ OpenSocket(retry.rel, "reconnecting")
  /\ revocations' = Fenced(revocations)
  /\ UNCHANGED <<record, attempts, waits, agents, issued, grant, history>>

RetryRevocation ==
  /\ retry.kind = "revoke"
  /\ retry' = NoRetry
  /\ revocations' = revocations \cup {Revoking(retry.rel, retry.by)}
  /\ UNCHANGED <<record, state, attempts, waits, socket, agents, issued, grant, history>>

----------------------------------------------------------------------------
\* The events of the socket.

SocketConnected ==
  /\ socket.phase = "dialing"
  /\ socket.rel # None /\ grant[socket.rel] = "held"
  /\ IF socket.current
       THEN /\ socket' = [socket EXCEPT !.phase = "open"]
            /\ state' = "connected"
            /\ agents' = socket.rel
       ELSE socket' = NoSocket /\ UNCHANGED <<state, agents>>
  /\ UNCHANGED <<record, retry, attempts, revocations, waits, issued, grant, history>>

\* socketRejected (401, 403) while dialing, socketClosed(4403) while open.
SocketRevoked ==
  /\ socket.phase # "none"
  /\ grant[socket.rel] = "ended"
  /\ IF socket.current
       THEN Revoke
       ELSE socket' = NoSocket /\ UNCHANGED <<record, state, retry, attempts, revocations, agents>>
  /\ UNCHANGED <<waits, issued, grant, history>>

\* socketClosed with any other code, or socketFailed.
SocketLost ==
  /\ socket.phase # "none"
  /\ socket' = NoSocket
  /\ IF socket.current /\ record.state = "active"
       THEN state' = "reconnecting" /\ Schedule("socket", socket.rel, "none")
       ELSE UNCHANGED <<state, retry>>
  /\ UNCHANGED <<record, attempts, revocations, waits, agents, issued, grant, history>>

----------------------------------------------------------------------------
\* The Hub.  A relationship it has ended it never grants again, and the retry of
\* a ceremony it has granted it does not refuse.

HubGrants(s) ==
  /\ attempts[s].at = "sent"
  /\ grant[attempts[s].rel] # "ended"
  /\ grant' = [grant EXCEPT ![attempts[s].rel] = "held"]
  /\ attempts' = [attempts EXCEPT ![s].at = "accepted"]
  /\ UNCHANGED <<record, state, retry, revocations, waits, socket, agents, issued, history>>

HubRefuses(s) ==
  /\ attempts[s].at = "sent"
  /\ grant[attempts[s].rel] # "held"
  /\ attempts' = [attempts EXCEPT ![s].at = "refused"]
  /\ UNCHANGED <<record, state, retry, revocations, waits, socket, agents, issued, grant,
                 history>>

Ended(g) == IF g = "held" THEN "ended" ELSE g

\* DELETE /api/daemons/<id>: success, or 401, 403 or 404 when there is no such grant.
HubServesRevocation(v) ==
  /\ v.at = "sent"
  /\ grant' = [grant EXCEPT ![v.rel] = Ended(@)]
  /\ revocations' = (revocations \ {v}) \cup {[v EXCEPT !.at = "served"]}
  /\ UNCHANGED <<record, state, retry, attempts, waits, socket, agents, issued, history>>

\* Somebody ends the relationship at the Hub, or a superseded revocation does.
HubEnds(r) ==
  /\ grant[r] = "held"
  /\ grant' = [grant EXCEPT ![r] = "ended"]
  /\ UNCHANGED <<daemonVars, issued, history>>

----------------------------------------------------------------------------
\* stop or a crash, then the constructor and start: only the file survives, and
\* the requests in flight die with their connections.
Restart ==
  /\ waits' = {}
  /\ agents' = None
  /\ retry' = NoRetry
  /\ state' = CASE record.state = "none" -> "not_connected"
                [] record.state \in {"revoked", "disconnecting"} -> record.state
                [] OTHER -> "connecting"
  /\ attempts' = [s \in Slots |-> IF s = 1 /\ record.state = "pending"
                                    THEN Enrolling(record.rel, TRUE) ELSE Idle]
  /\ revocations' = IF record.state = "disconnecting"
                      THEN {Revoking(record.rel, "start")} ELSE {}
  /\ socket' = IF record.state = "active"
                 THEN [phase |-> "dialing", rel |-> record.rel, current |-> TRUE]
                 ELSE NoSocket
  /\ UNCHANGED <<record, issued, grant, history>>

Init ==
  /\ record = NoRecord
  /\ state = "not_connected"
  /\ retry = NoRetry
  /\ attempts = [s \in Slots |-> Idle]
  /\ revocations = {}
  /\ waits = {}
  /\ socket = NoSocket
  /\ agents = None
  /\ issued = 0
  /\ grant = [r \in Relationships |-> "never"]
  /\ abandoned = {}
  /\ overtaken = {}

Next ==
  \/ \E s \in Slots : \/ Connect(s) \/ ConnectAfresh(s)
                      \/ EnrollmentAccepted(s) \/ EnrollmentRefused(s)
                      \/ EnrollmentFails(s) \/ StaleEnrollmentSettles(s)
                      \/ RetryEnrollment(s)
                      \/ HubGrants(s) \/ HubRefuses(s)
  \/ \E v \in revocations : \/ RevocationAnswered(v) \/ RevocationFails(v)
                            \/ HubServesRevocation(v)
  \/ \E r \in Relationships : HubEnds(r)
  \/ DisconnectLocally \/ Disconnect
  \/ RetrySocket \/ RetryRevocation
  \/ SocketConnected \/ SocketRevoked \/ SocketLost
  \/ Restart

Spec == Init /\ [][Next]_vars

----------------------------------------------------------------------------
\* Safety.

\* A disconnect that waited while its relationship went revokes it all the same:
\* the answer will remove the record, and a failure takes the timer and the status.
Stray ==
  \/ retry.kind = "revoke" /\ retry.by = "waited" /\ retry.rel # record.rel
  \/ \E v \in revocations : v.by = "waited" /\ v.rel # record.rel

\* Whatever state the record is in, something will move it on: a live request,
\* the timer, a socket or a disconnect that waits, its own or a stray one.  The
\* controller has one timer and cancels it in seven places; losing the last driver
\* would strand the relationship until the daemon restarts.
AlwaysDriven ==
  /\ record.state = "pending" =>
       \/ Stray
       \/ retry.kind = "enroll" /\ retry.rel = record.rel
       \/ \E s \in Slots : attempts[s].current /\ attempts[s].rel = record.rel
  /\ record.state = "active" =>
       \/ Stray
       \/ retry.kind = "socket" /\ retry.rel = record.rel
       \/ socket.phase # "none" /\ socket.current /\ socket.rel = record.rel
  /\ record.state = "disconnecting" =>
       \/ Stray
       \/ retry.kind = "revoke" /\ retry.rel = record.rel
       \/ \E v \in revocations : v.rel = record.rel
       \/ WaitsFor(record.rel, waits)

\* status() says connected, not connected or revoked only if the record and the
\* socket bear it out, and disconnecting always when the record is; a stray
\* revocation that fails makes it say so of any other record.
StatusHonest ==
  /\ state = "connected" =>
       /\ record.state = "active"
       /\ socket = [phase |-> "open", rel |-> record.rel, current |-> TRUE]
  /\ state = "not_connected" => record.state = "none"
  /\ state = "revoked" => record.state = "revoked"
  /\ record.state = "disconnecting" => state = "disconnecting"
  /\ state = "disconnecting" => record.state = "disconnecting" \/ Stray
  /\ record.state = "none" => state = "not_connected" \/ Stray
  /\ record.state = "revoked" => state = "revoked" \/ Stray

\* Execution authority belongs to the one active relationship, and so does any
\* live socket, except one left open when a stray revocation removed its record.
AuthorityIsActive ==
  /\ agents # None => record = [state |-> "active", rel |-> agents]
  /\ socket.phase # "none" =>
       record = [state |-> "active", rel |-> socket.rel] \/ socket.rel \in overtaken

\* A ceremony has at most one live request, and the timer set for another only
\* when there is none (stale answers would otherwise race fresh ones).
OneEnrollment ==
  /\ \A s, t \in Slots : attempts[s].current /\ attempts[t].current => s = t
  /\ retry.kind = "enroll" => \A s \in Slots : ~attempts[s].current

\* A relationship is moved on, and its enrollment by one thing only.
DrivenByOne == AlwaysDriven /\ OneEnrollment

\* The Hub has decided about r, or has no request to decide on.
Settled(r) ==
  grant[r] # "never" \/ \A s \in Slots : attempts[s].at = "sent" => attempts[s].rel # r

\* The daemon forgets a relationship only when the Hub holds nothing for it and
\* never will: no credential is left behind at the Hub.  Except for one abandoned,
\* and for one whose waiting disconnect was overtaken or that a stray revocation
\* removed; the last two are the code's doing (DisconnectAlwaysWaits).
RevokedBeforeForgotten ==
  \A r \in 1..issued :
    \/ r \in abandoned \cup overtaken
    \/ record.rel = r /\ record.state \in Held
    \/ grant[r] # "held" /\ Settled(r)

\* No revocation is asked for, of this relationship or of another, while an
\* enrollment of it that could still be granted is in flight, unless a second
\* disconnect or start overtakes the one that waits for it.
RevokesAfterSettling ==
  \A v \in revocations : Settled(v.rel) \/ v.rel \in overtaken

\* "disconnect revokes only after an in-flight enrollment settles"
\* (relationship-controller.test.ts:367), however many disconnects there are.
DisconnectAlwaysWaits ==
  \A v \in revocations : Settled(v.rel)

\* The daemon and the Hub keep the promises of HubAuthority.
life ==
  [r \in Relationships |->
     IF record.rel = r /\ record.state \in Held THEN record.state
     ELSE IF r \in abandoned \cup overtaken THEN "abandoned"
     ELSE IF r <= issued THEN "ended" ELSE "unborn"]

Authority == INSTANCE HubAuthority WITH hub <- grant
KeepsAuthority == Authority!Spec

----------------------------------------------------------------------------
\* Liveness.  Timers fire and requests settle (they time out after 15 seconds);
\* however often requests and sockets are lost, not every one is.  Clients, the
\* Hub's own decisions and restarts are not fair.

Current(s) == attempts[s].current
Fairness ==
  /\ \A s \in Slots : /\ WF_vars(RetryEnrollment(s))
                      /\ WF_vars(EnrollmentFails(s) \/ StaleEnrollmentSettles(s))
  /\ WF_vars(RetrySocket)
  /\ WF_vars(RetryRevocation)
  /\ WF_vars(\E v \in revocations : RevocationFails(v))
  /\ SF_vars(\E s \in Slots : Current(s) /\ (HubGrants(s) \/ HubRefuses(s)))
  /\ SF_vars(\E s \in Slots : EnrollmentAccepted(s) \/ EnrollmentRefused(s))
  /\ SF_vars(\E v \in revocations : HubServesRevocation(v))
  /\ SF_vars(\E v \in revocations : RevocationAnswered(v))
  /\ SF_vars(socket.current /\ (SocketConnected \/ SocketRevoked))

LiveSpec == Spec /\ Fairness

\* An enrollment comes to an end, over lost answers, fresh tokens and restarts; an
\* active relationship is dialled until it is connected or no longer active; and a
\* disconnect completes, across failed revocations and restarts of the daemon.
RelationshipSettles ==
  /\ record.state = "pending" ~> record.state # "pending"
  /\ record.state = "active" ~> (state = "connected" \/ record.state # "active")
  /\ record.state = "disconnecting" ~> record.state # "disconnecting"

============================================================================
