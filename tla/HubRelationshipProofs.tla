----------------------- MODULE HubRelationshipProofs -----------------------
(***************************************************************************)
(* Proofs about HubRelationship, for any number of relationships and of    *)
(* requests in flight, and whatever clients ask for while a disconnect     *)
(* waits.                                                                  *)
(***************************************************************************)
EXTENDS HubRelationship, TLAPS

\* The inductive invariant.  Whatever is in use names a relationship begun, and
\* one whose disconnect was overtaken is either still disconnecting or gone.
Numbered ==
  /\ record.state # "none" => record.rel \in 1..issued
  /\ \A s \in Slots : attempts[s].at # "none" => attempts[s].rel \in 1..issued
  /\ \A s \in Slots : attempts[s].at = "none" => ~attempts[s].current /\ ~attempts[s].startup
  /\ retry.kind # "none" => retry.rel \in 1..issued
  /\ retry.kind = "revoke" => retry.by \in Callers
  /\ \A v \in revocations : v.rel \in 1..issued
  /\ \A w \in waits : w.rel \in 1..issued
  /\ \A r \in Relationships : grant[r] # "never" => r \in 1..issued
  /\ abandoned \subseteq 1..issued
  /\ overtaken \subseteq 1..issued
  /\ record.state \in Held => record.rel \notin abandoned
  /\ record.state \in Held /\ record.rel \in overtaken => record.state = "disconnecting"
  /\ record.state = "none" => record.rel = None

\* Live enrollments are of the pending relationship.
EnrollsPending ==
  /\ \A s \in Slots :
       attempts[s].current => record.state = "pending" /\ record.rel = attempts[s].rel
  /\ retry.kind = "enroll" => record.state = "pending" /\ record.rel = retry.rel
  /\ OneEnrollment

\* Sockets are of the active relationship, or of one a stray revocation removed.
DialsActive ==
  /\ retry.kind = "socket" => record.state = "active" /\ record.rel = retry.rel
  /\ socket.phase # "none" /\ socket.current => record.state = "active" /\ record.rel = socket.rel
  /\ socket.phase # "none" /\ ~socket.current => socket.rel \in overtaken
  /\ agents # None => record.state = "active" /\ record.rel = agents

\* A revocation is of the disconnecting relationship, unless it waited while
\* its relationship went.
RevokesDisconnecting ==
  /\ retry.kind = "revoke" =>
       IF retry.rel = record.rel THEN record.state = "disconnecting" ELSE retry.by = "waited"
  /\ \A v \in revocations :
       IF v.rel = record.rel THEN record.state = "disconnecting" ELSE v.by = "waited"
  /\ \A w \in waits : w.rel = record.rel => record.state = "disconnecting"

\* A waiting disconnect waits for every request of its relationship.
WaitsForAll ==
  \A w \in waits :
    /\ w.on # {}
    /\ \A s \in w.on : attempts[s].at # "none" /\ ~attempts[s].current
    /\ \A s \in Slots : attempts[s].at # "none" /\ attempts[s].rel = w.rel => s \in w.on

\* An answer is what the Hub said.
HubSaid ==
  /\ \A s \in Slots : attempts[s].at = "accepted" => grant[attempts[s].rel] # "never"
  /\ record.state = "active" => grant[record.rel] # "never"
  /\ \A v \in revocations : v.at = "served" => grant[v.rel] # "held" \/ v.rel \in overtaken

\* What is or will be revoked is settled, waited for or overtaken.
SettledWhenRevoking ==
  /\ RevokesAfterSettling
  /\ retry.kind = "revoke" => Settled(retry.rel) \/ retry.rel \in overtaken
  /\ record.state = "disconnecting" =>
       Settled(record.rel) \/ record.rel \in overtaken \/ WaitsFor(record.rel, waits)

IInv ==
  /\ TypeOK /\ Numbered
  /\ EnrollsPending /\ DialsActive /\ RevokesDisconnecting
  /\ WaitsForAll /\ HubSaid /\ SettledWhenRevoking
  /\ RevokedBeforeForgotten /\ AlwaysDriven /\ StatusHonest

----------------------------------------------------------------------------
\* Bumping a generation changes nothing but what is current.
LEMMA SupersededFacts ==
  ASSUME NEW a \in [Slots -> Attempts]
  PROVE  /\ Superseded(a) \in [Slots -> Attempts]
         /\ \A s \in Slots : /\ ~Superseded(a)[s].current
                             /\ Superseded(a)[s].at = a[s].at
                             /\ Superseded(a)[s].rel = a[s].rel
                             /\ Superseded(a)[s].startup = a[s].startup
BY DEF Superseded, Attempts

LEMMA RequestTypes ==
  ASSUME NEW r \in Relationships
  PROVE  /\ Enrolling(r, TRUE) \in Attempts
         /\ Enrolling(r, FALSE) \in Attempts
         /\ Revoking(r, "start") \in Revocations
         /\ Revoking(r, "call") \in Revocations
         /\ Revoking(r, "waited") \in Revocations
BY DEF Enrolling, Revoking, Attempts, Revocations, Callers

LEMMA RevokingFacts ==
  ASSUME NEW r, NEW by
  PROVE  Revoking(r, by).rel = r /\ Revoking(r, by).by = by /\ Revoking(r, by).at = "sent"
BY DEF Revoking

LEMMA IdleType == Idle \in Attempts
BY DEF Idle, Attempts, None

\* What is in use names a relationship, not None.
LEMMA NamesRelationships ==
  ASSUME TypeOK, Numbered
  PROVE  /\ issued \in Nat /\ 1..issued \subseteq Relationships
         /\ issued < MaxRelationships => issued + 1 \in Relationships
         /\ record.state # "none" => record.rel \in Relationships
         /\ \A s \in Slots : attempts[s].at # "none" => attempts[s].rel \in Relationships
BY BoundsAssumption DEF TypeOK, Numbered, Relationships

----------------------------------------------------------------------------
\* Every action preserves the invariant.

LEMMA ConnectPreserves ==
  ASSUME IInv, NEW s \in Slots, Connect(s)
  PROVE  IInv'
<1>1. TypeOK'
  <2>1. attempts' \in [Slots -> Attempts]
    BY NamesRelationships, RequestTypes, SupersededFacts DEF IInv, TypeOK, Connect, history
  <2>2. issued' \in 0..MaxRelationships /\ issued' \in Relationships
    BY BoundsAssumption DEF IInv, TypeOK, Connect, Relationships, history
  <2> QED BY <2>2, <2>1 DEF IInv, TypeOK, Connect, NoRetry, Held, history
<1>2. Numbered'
  BY NamesRelationships, SupersededFacts, RevokingFacts
  DEF IInv, Connect, NoRetry, Enrolling, Idle, Fenced, Free, Numbered, TypeOK,
      EnrollsPending, RevokesDisconnecting, Revocations, Held, None, history
<1>3. EnrollsPending'
  BY DEF IInv, Connect, NoRetry, Enrolling, Superseded, EnrollsPending, OneEnrollment,
         TypeOK, Attempts, history
<1>4. DialsActive'
  BY DEF IInv, Connect, NoRetry, DialsActive, history
<1>5. RevokesDisconnecting'
  BY NamesRelationships
  DEF IInv, Connect, NoRetry, Fenced, RevokesDisconnecting, EnrollsPending, Numbered, None
<1>6. WaitsForAll'
  BY NamesRelationships, SupersededFacts
  DEF IInv, Connect, Enrolling, Idle, Free, WaitsForAll, TypeOK, Numbered,
      EnrollsPending, RevokesDisconnecting
<1>7. HubSaid'
  BY DEF IInv, Connect, Enrolling, Superseded, HubSaid, TypeOK, Attempts, history
<1>8. SettledWhenRevoking'
  <2>1. \A r : r \in 1..issued /\ Settled(r) => Settled(r)'
    BY NamesRelationships, SupersededFacts
    DEF IInv, Connect, Settled, Enrolling, Idle, TypeOK, Numbered, EnrollsPending
  <2> QED BY <2>1, RevokingFacts
          DEF IInv, Connect, NoRetry, Fenced, SettledWhenRevoking, RevokesAfterSettling, Numbered,
              RevokesDisconnecting, EnrollsPending, Held, WaitsFor, history
<1>9. RevokedBeforeForgotten'
  BY DEF IInv, Connect, Enrolling, Superseded, RevokedBeforeForgotten,
         Settled, TypeOK, Held, Attempts, history
<1>10. AlwaysDriven'
  BY DEF IInv, Connect, Enrolling, Superseded, AlwaysDriven, Stray, WaitsFor,
         RevokesDisconnecting, Numbered, history
<1>11. StatusHonest'
  BY DEF IInv, Connect, StatusHonest, Stray, WaitsFor, RevokesDisconnecting, Numbered, history
<1> QED BY <1>1, <1>2, <1>3, <1>4, <1>5, <1>6, <1>7, <1>8, <1>9, <1>10, <1>11 DEF IInv, history

LEMMA ConnectAfreshPreserves ==
  ASSUME IInv, NEW s \in Slots, ConnectAfresh(s)
  PROVE  IInv'
<1>1. TypeOK'
  <2>1. attempts' \in [Slots -> Attempts]
    BY NamesRelationships, RequestTypes, SupersededFacts DEF IInv, TypeOK, ConnectAfresh, history
  <2> QED BY NamesRelationships, <2>1 DEF IInv, TypeOK, ConnectAfresh, NoRetry, history
<1>2. Numbered'
  BY NamesRelationships, SupersededFacts, RevokingFacts
  DEF IInv, ConnectAfresh, NoRetry, Enrolling, Idle, Fenced, Free, Numbered, TypeOK,
      EnrollsPending, RevokesDisconnecting, Revocations, Held, None, history
<1>3. EnrollsPending'
  BY DEF IInv, ConnectAfresh, NoRetry, Enrolling, Superseded, EnrollsPending, OneEnrollment,
         TypeOK, Attempts, history
<1>4. DialsActive'
  BY DEF IInv, ConnectAfresh, NoRetry, DialsActive, history
<1>5. RevokesDisconnecting'
  BY DEF IInv, ConnectAfresh, NoRetry, RevokesDisconnecting, history
<1>6. WaitsForAll'
  BY NamesRelationships, SupersededFacts
  DEF IInv, ConnectAfresh, Enrolling, Idle, Free, WaitsForAll, TypeOK, Numbered,
      EnrollsPending, RevokesDisconnecting
<1>7. HubSaid'
  BY DEF IInv, ConnectAfresh, Enrolling, Superseded, HubSaid, TypeOK, Attempts, history
<1>8. SettledWhenRevoking'
  <2>1. \A r : r # record.rel /\ Settled(r) => Settled(r)'
    BY NamesRelationships, SupersededFacts
    DEF IInv, ConnectAfresh, Settled, Enrolling, Idle, TypeOK, Numbered, EnrollsPending
  <2> QED BY <2>1, RevokingFacts
          DEF IInv, ConnectAfresh, NoRetry, Fenced, SettledWhenRevoking, RevokesAfterSettling,
              Numbered,
              RevokesDisconnecting, EnrollsPending, Held, WaitsFor, history
<1>9. RevokedBeforeForgotten'
  BY DEF IInv, ConnectAfresh, Enrolling, Superseded, RevokedBeforeForgotten, Settled,
         TypeOK, Attempts, history
<1>10. AlwaysDriven'
  BY DEF IInv, ConnectAfresh, Enrolling, Superseded, AlwaysDriven, Stray, WaitsFor,
         RevokesDisconnecting, Numbered, history
<1>11. StatusHonest'
  BY DEF IInv, ConnectAfresh, StatusHonest, Stray, WaitsFor, RevokesDisconnecting, Numbered,
         history
<1> QED BY <1>1, <1>2, <1>3, <1>4, <1>5, <1>6, <1>7, <1>8, <1>9, <1>10, <1>11 DEF IInv, history

LEMMA DisconnectLocallyPreserves ==
  ASSUME IInv, DisconnectLocally
  PROVE  IInv'
<1>1. TypeOK'
  <2>1. attempts' \in [Slots -> Attempts]
    BY SupersededFacts DEF IInv, TypeOK, DisconnectLocally, Remove, CancelLifecycle, history
  <2>2. revocations' \subseteq Revocations
    BY DEF Fenced, IInv, TypeOK, DisconnectLocally, Remove, CancelLifecycle, history
  <2> QED BY NamesRelationships, <2>1, <2>2 DEF IInv, TypeOK, DisconnectLocally, Remove,
                                                CancelLifecycle, NoRetry, NoRecord,
                                                NoSocket, Held, history
<1>2. Numbered'
  <2>1. abandoned' \subseteq 1..issued /\ overtaken' = overtaken
    BY NamesRelationships DEF IInv, Numbered, DisconnectLocally, Held
  <2>2. /\ record' = NoRecord /\ retry' = NoRetry /\ attempts' = Superseded(attempts)
        /\ revocations' = {} /\ UNCHANGED <<waits, issued, grant>>
    BY DEF DisconnectLocally, Remove, CancelLifecycle, Fenced
  <2> QED BY <2>1, <2>2, SupersededFacts
          DEF IInv, TypeOK, Numbered, NoRecord, NoRetry, Held
<1>3. EnrollsPending'
  BY DEF IInv, DisconnectLocally, Remove, CancelLifecycle, NoRetry, Superseded,
         EnrollsPending, OneEnrollment, TypeOK, Attempts, history
<1>4. DialsActive'
  BY DEF IInv, DisconnectLocally, Remove, CancelLifecycle, NoRetry, NoSocket, DialsActive, history
<1>5. RevokesDisconnecting'
  BY NamesRelationships
  DEF IInv, DisconnectLocally, Remove, CancelLifecycle, NoRecord, NoSocket, NoRetry, Fenced,
      RevokesDisconnecting, EnrollsPending, Numbered, None
<1>6. WaitsForAll'
  BY NamesRelationships, SupersededFacts
  DEF IInv, DisconnectLocally, Remove, CancelLifecycle, NoRecord, NoSocket, Enrolling, Idle,
      Free, WaitsForAll, TypeOK, Numbered,
      EnrollsPending, RevokesDisconnecting
<1>7. HubSaid'
  BY DEF IInv, DisconnectLocally, Remove, CancelLifecycle, NoRecord, Superseded, Fenced,
         HubSaid, TypeOK, Attempts, Revocations, history
<1>8. SettledWhenRevoking'
  <2>1. \A r : Settled(r) => Settled(r)'
    BY NamesRelationships, SupersededFacts
    DEF IInv, DisconnectLocally, Remove, CancelLifecycle, NoRecord, NoSocket, Settled, Enrolling,
        Idle, TypeOK, Numbered, EnrollsPending
  <2> QED BY <2>1, RevokingFacts
          DEF IInv, DisconnectLocally, Remove, CancelLifecycle, NoRecord, NoSocket, NoRetry,
              Fenced, SettledWhenRevoking, RevokesAfterSettling, Numbered,
              RevokesDisconnecting, EnrollsPending, Held, WaitsFor, history
<1>9. RevokedBeforeForgotten'
  BY DEF IInv, DisconnectLocally, Remove, CancelLifecycle, Superseded,
         RevokedBeforeForgotten, Settled, TypeOK, Attempts, history
<1>10. AlwaysDriven'
  BY DEF IInv, DisconnectLocally, Remove, NoRecord, AlwaysDriven, Stray, WaitsFor,
         RevokesDisconnecting, Numbered, history
<1>11. StatusHonest'
  BY DEF IInv, DisconnectLocally, Remove, NoRecord, StatusHonest, Stray, WaitsFor,
         RevokesDisconnecting, Numbered, history
<1> QED BY <1>1, <1>2, <1>3, <1>4, <1>5, <1>6, <1>7, <1>8, <1>9, <1>10, <1>11 DEF IInv, history

LEMMA DisconnectPreserves ==
  ASSUME IInv, Disconnect
  PROVE  IInv'
<1>1. TypeOK'
  <2>1. attempts' \in [Slots -> Attempts]
    BY SupersededFacts DEF IInv, TypeOK, Disconnect, history
  <2>2. revocations' \subseteq Revocations
    <3>1. record.rel \in Relationships
      BY NamesRelationships DEF IInv, Disconnect, Held, history
    <3>2. Fenced(revocations) \subseteq Revocations
      BY DEF Fenced, IInv, TypeOK, history
    <3>3. Revoking(record.rel, "call") \in Revocations
      BY <3>1, RequestTypes
    <3> QED BY <3>2, <3>3 DEF Disconnect, history
  <2> QED BY NamesRelationships, <2>1, <2>2 DEF IInv, TypeOK, Disconnect, InFlight, NoRetry,
                                                NoSocket, Held, history
<1>2. Numbered'
  BY DEF IInv, Disconnect, NoRetry, NoSocket, Superseded, Fenced, Revoking, Numbered,
         TypeOK, EnrollsPending, RevokesDisconnecting, Relationships, Held, Attempts,
         Revocations, history
<1>3. EnrollsPending'
  BY DEF IInv, Disconnect, NoRetry, Superseded, EnrollsPending, OneEnrollment, TypeOK, Attempts,
         history
<1>4. DialsActive'
  BY DEF IInv, Disconnect, NoRetry, NoSocket, DialsActive, history
<1>5. RevokesDisconnecting'
  BY DEF IInv, Disconnect, NoRetry, Fenced, Revoking, RevokesDisconnecting, TypeOK, Revocations,
         history
<1>6. WaitsForAll'
  BY DEF IInv, Disconnect, NoRetry, Superseded, Fenced, InFlight, WaitsForAll,
         TypeOK, Attempts, Revocations, history
<1>7. HubSaid'
  BY DEF IInv, Disconnect, Superseded, Fenced, Revoking, HubSaid, TypeOK, Relationships,
         Attempts, Revocations, history
<1>8. SettledWhenRevoking'
  <2>1. record'.rel = record.rel /\ record'.state = "disconnecting" /\ retry' = NoRetry
    BY DEF IInv, TypeOK, Disconnect
  <2>2. \A r : Settled(r) => Settled(r)'
    BY SupersededFacts DEF IInv, TypeOK, Disconnect, Settled
  <2>3. CASE record.state = "pending" /\ InFlight # {}
    <3>1. revocations' = {} /\ [rel |-> record.rel, on |-> InFlight] \in waits'
      BY <2>3 DEF Disconnect, Fenced
    <3>2. WaitsFor(record.rel, waits')
      BY <3>1 DEF WaitsFor
    <3> QED BY <2>1, <3>1, <3>2 DEF SettledWhenRevoking, RevokesAfterSettling, WaitsFor, NoRetry
  <2>4. CASE ~(record.state = "pending" /\ InFlight # {})
    <3>1. revocations' = {Revoking(record.rel, "call")} /\ waits' = waits
      BY <2>4 DEF Disconnect, Fenced
    <3>2. Settled(record.rel) \/ record.rel \in overtaken'
      <4>1. CASE record.state = "pending"
        BY <2>4, <4>1 DEF InFlight, Settled
      <4>2. CASE record.state = "active"
        BY <4>2 DEF IInv, HubSaid, Settled
      <4>3. CASE record.state = "disconnecting"
        BY <4>3 DEF IInv, Disconnect, SettledWhenRevoking
      <4> QED BY <4>1, <4>2, <4>3 DEF Disconnect, Held
    <3> QED BY <2>1, <2>2, <3>1, <3>2, RevokingFacts
            DEF SettledWhenRevoking, RevokesAfterSettling, NoRetry
  <2> QED BY <2>3, <2>4
<1>9. RevokedBeforeForgotten'
  BY DEF IInv, Disconnect, Superseded, RevokedBeforeForgotten, Settled, TypeOK, Held, Attempts,
         history
<1>10. AlwaysDriven'
  <2>1. record'.state = "disconnecting" /\ record'.rel = record.rel
    BY DEF IInv, TypeOK, Disconnect, history
  <2>2. CASE record.state = "pending" /\ InFlight # {}
    <3>1. [rel |-> record.rel, on |-> InFlight] \in waits'
      BY <2>2 DEF Disconnect, history
    <3> QED BY <2>1, <3>1
            DEF AlwaysDriven, Stray, WaitsFor, RevokesDisconnecting, Numbered, history
  <2>3. CASE ~(record.state = "pending" /\ InFlight # {})
    <3>1. Revoking(record.rel, "call") \in revocations'
      BY <2>3 DEF Disconnect, history
    <3> QED BY <2>1, <3>1, RevokingFacts
            DEF AlwaysDriven, Stray, WaitsFor, RevokesDisconnecting, Numbered, history
  <2> QED BY <2>2, <2>3
<1>11. StatusHonest'
  BY DEF IInv, Disconnect, StatusHonest, Stray, WaitsFor, RevokesDisconnecting, Numbered, history
<1> QED BY <1>1, <1>2, <1>3, <1>4, <1>5, <1>6, <1>7, <1>8, <1>9, <1>10, <1>11 DEF IInv, history

LEMMA EnrollmentAcceptedPreserves ==
  ASSUME IInv, NEW s \in Slots, EnrollmentAccepted(s)
  PROVE  IInv'
<1>1. TypeOK'
  <2>1. attempts' \in [Slots -> Attempts]
    BY IdleType DEF IInv, TypeOK, EnrollmentAccepted, history
  <2>2. revocations' \subseteq Revocations
    BY DEF Fenced, IInv, TypeOK, EnrollmentAccepted, history
  <2>3. attempts[s].rel \in Relationships
    BY NamesRelationships DEF IInv, EnrollmentAccepted, history
  <2> QED BY <2>3, <2>1, <2>2
          DEF IInv, TypeOK, EnrollmentAccepted, OpenSocket, NoRetry, Held, history
<1>2. Numbered'
  BY NamesRelationships, SupersededFacts, RevokingFacts
  DEF IInv, EnrollmentAccepted, OpenSocket, NoRetry, Enrolling, Idle, Fenced, Free, Numbered,
      TypeOK,
      EnrollsPending, RevokesDisconnecting, Revocations, Held, None, history
<1>3. EnrollsPending'
  BY DEF IInv, EnrollmentAccepted, NoRetry, Idle, EnrollsPending, OneEnrollment, TypeOK, history
<1>4. DialsActive'
  BY DEF IInv, EnrollmentAccepted, NoRetry, OpenSocket, DialsActive, EnrollsPending, history
<1>5. RevokesDisconnecting'
  BY DEF Fenced, IInv, TypeOK, RevokesDisconnecting, EnrollsPending, EnrollmentAccepted,
                     NoRetry, history
<1>6. WaitsForAll'
  BY NamesRelationships, SupersededFacts
  DEF IInv, EnrollmentAccepted, OpenSocket, Enrolling, Idle, Free, WaitsForAll, TypeOK, Numbered,
      EnrollsPending, RevokesDisconnecting
<1>7. HubSaid'
  BY DEF IInv, EnrollmentAccepted, Fenced, Idle, HubSaid, TypeOK, Revocations, history
<1>8. SettledWhenRevoking'
  <2>1. \A r : Settled(r) => Settled(r)'
    BY NamesRelationships, SupersededFacts
    DEF IInv, EnrollmentAccepted, OpenSocket, Settled, Enrolling, Idle, TypeOK, Numbered,
        EnrollsPending
  <2> QED BY <2>1, RevokingFacts
          DEF IInv, EnrollmentAccepted, OpenSocket, NoRetry, Fenced, SettledWhenRevoking,
              RevokesAfterSettling, Numbered,
              RevokesDisconnecting, EnrollsPending, Held, WaitsFor, history
<1>9. RevokedBeforeForgotten'
  BY DEF IInv, EnrollmentAccepted, Idle, RevokedBeforeForgotten, Settled, EnrollsPending, Held,
         history
<1>10. AlwaysDriven'
  BY DEF IInv, EnrollmentAccepted, OpenSocket, AlwaysDriven, Stray, WaitsFor,
         RevokesDisconnecting, Numbered, history
<1>11. StatusHonest'
  BY DEF IInv, EnrollmentAccepted, OpenSocket, StatusHonest, Stray, WaitsFor,
         RevokesDisconnecting, Numbered, history
<1> QED BY <1>1, <1>2, <1>3, <1>4, <1>5, <1>6, <1>7, <1>8, <1>9, <1>10, <1>11 DEF IInv, history

LEMMA EnrollmentRefusedPreserves ==
  ASSUME IInv, NEW s \in Slots, EnrollmentRefused(s)
  PROVE  IInv'
<1>1. TypeOK'
  <2>1. attempts' \in [Slots -> Attempts]
    BY IdleType, SupersededFacts
    DEF IInv, TypeOK, EnrollmentRefused, Remove, CancelLifecycle, history
  <2>2. revocations' \subseteq Revocations
    BY DEF Fenced, IInv, TypeOK, EnrollmentRefused, Remove, CancelLifecycle, history
  <2> QED BY NamesRelationships, <2>1, <2>2 DEF IInv, TypeOK, EnrollsPending,
                                                EnrollmentRefused, Remove, CancelLifecycle,
                                                NoRetry, NoRecord, history
<1>2. Numbered'
  <2>1. abandoned' \subseteq 1..issued /\ overtaken' = overtaken
    BY DEF IInv, Numbered, EnrollsPending, EnrollmentRefused
  <2>2. /\ record' = NoRecord /\ retry' = NoRetry /\ revocations' = {}
        /\ attempts' = Superseded([attempts EXCEPT ![s] = Idle])
        /\ UNCHANGED <<waits, issued, grant>>
    BY DEF EnrollmentRefused, Remove, CancelLifecycle, Fenced
  <2>3. [attempts EXCEPT ![s] = Idle] \in [Slots -> Attempts]
    BY IdleType DEF IInv, TypeOK
  <2>4. \A t \in Slots :
          /\ attempts'[t].at # "none" => attempts'[t].rel \in 1..issued
          /\ attempts'[t].at = "none" => ~attempts'[t].current /\ ~attempts'[t].startup
    <3> DEFINE a == [attempts EXCEPT ![s] = Idle]
    <3>1. ASSUME NEW t \in Slots
          PROVE  /\ a[t].at # "none" => a[t].rel \in 1..issued
                 /\ a[t].at = "none" => ~a[t].startup
      BY DEF IInv, TypeOK, Numbered, Idle
    <3> HIDE DEF a
    <3> QED BY <2>2, <2>3, <3>1, SupersededFacts DEF a
  <2> QED BY <2>1, <2>2, <2>4 DEF IInv, TypeOK, Numbered, NoRecord, NoRetry, Held
<1>3. EnrollsPending'
  BY DEF IInv, EnrollmentRefused, Remove, CancelLifecycle, NoRetry, Superseded, Idle,
         EnrollsPending, OneEnrollment, TypeOK, Attempts, history
<1>4. DialsActive'
  BY DEF IInv, EnrollmentRefused, Remove, CancelLifecycle, NoRetry, DialsActive, EnrollsPending,
         history
<1>5. RevokesDisconnecting'
  BY NamesRelationships
  DEF IInv, EnrollmentRefused, Remove, CancelLifecycle, NoRecord, NoRetry, Fenced,
      RevokesDisconnecting, EnrollsPending, Numbered, None
<1>6. WaitsForAll'
  <2>1. attempts' = Superseded([attempts EXCEPT ![s] = Idle]) /\ waits' = waits
    BY DEF EnrollmentRefused, Remove, CancelLifecycle
  <2>2. [attempts EXCEPT ![s] = Idle] \in [Slots -> Attempts]
    BY IdleType DEF IInv, TypeOK
  <2>3. \A w \in waits : s \notin w.on
    BY DEF IInv, EnrollmentRefused, WaitsForAll
  <2>4. ASSUME NEW t \in Slots
        PROVE  /\ attempts'[t].at # "none" =>
                    attempts[t].at # "none" /\ attempts'[t].rel = attempts[t].rel
               /\ t # s => attempts'[t].at = attempts[t].at
               /\ ~attempts'[t].current
    BY <2>1 DEF Superseded, IInv, TypeOK, Idle, Attempts
  <2>5. ASSUME NEW w \in waits
        PROVE  /\ w.on # {}
               /\ \A t \in w.on : attempts'[t].at # "none" /\ ~attempts'[t].current
               /\ \A t \in Slots :
                    attempts'[t].at # "none" /\ attempts'[t].rel = w.rel => t \in w.on
    <3>1. w.on \subseteq Slots
      BY DEF IInv, TypeOK
    <3> QED BY <2>3, <2>4, <3>1 DEF IInv, WaitsForAll
  <2> QED BY <2>1, <2>5 DEF WaitsForAll
<1>7. HubSaid'
  BY DEF IInv, EnrollmentRefused, Remove, CancelLifecycle, NoRecord, Superseded, Fenced,
         Idle, HubSaid, TypeOK, Relationships, Attempts, Revocations, history
<1>8. SettledWhenRevoking'
  <2>1. \A r : Settled(r) => Settled(r)'
    BY DEF IInv, EnrollmentRefused, Remove, CancelLifecycle, Superseded, Settled, Idle, TypeOK,
           Attempts
  <2> QED BY <2>1, RevokingFacts
          DEF IInv, EnrollmentRefused, Remove, CancelLifecycle, NoRecord, NoRetry, Fenced,
              SettledWhenRevoking, RevokesAfterSettling, Numbered,
              RevokesDisconnecting, EnrollsPending, Held, WaitsFor, history
<1>9. RevokedBeforeForgotten'
  BY DEF IInv, EnrollmentRefused, Remove, CancelLifecycle, Superseded, Idle,
         RevokedBeforeForgotten, Settled, TypeOK, Attempts, history
<1>10. AlwaysDriven'
  BY DEF IInv, EnrollmentRefused, Remove, NoRecord, AlwaysDriven, Stray, WaitsFor,
         RevokesDisconnecting, Numbered, history
<1>11. StatusHonest'
  BY DEF IInv, EnrollmentRefused, Remove, NoRecord, StatusHonest, Stray, WaitsFor,
         RevokesDisconnecting, Numbered, history
<1> QED BY <1>1, <1>2, <1>3, <1>4, <1>5, <1>6, <1>7, <1>8, <1>9, <1>10, <1>11 DEF IInv, history

LEMMA EnrollmentFailsPreserves ==
  ASSUME IInv, NEW s \in Slots, EnrollmentFails(s)
  PROVE  IInv'
<1>1. TypeOK'
  BY DEF IInv, EnrollmentFails, Schedule, Idle, TypeOK, Attempts, history
<1>2. Numbered'
  BY NamesRelationships, SupersededFacts, RevokingFacts
  DEF IInv, EnrollmentFails, Schedule, NoRetry, Enrolling, Idle, Fenced, Free, Numbered, TypeOK,
      EnrollsPending, RevokesDisconnecting, Revocations, Held, None, history
<1>3. EnrollsPending'
  BY DEF IInv, EnrollmentFails, Schedule, Idle, EnrollsPending, OneEnrollment, TypeOK, history
<1>4. DialsActive'
  BY DEF IInv, EnrollmentFails, Schedule, DialsActive, history
<1>5. RevokesDisconnecting'
  BY DEF IInv, EnrollmentFails, Schedule, RevokesDisconnecting, history
<1>6. WaitsForAll'
  BY NamesRelationships, SupersededFacts
  DEF IInv, EnrollmentFails, Schedule, Enrolling, Idle, Free, WaitsForAll, TypeOK, Numbered,
      EnrollsPending, RevokesDisconnecting
<1>7. HubSaid'
  BY DEF IInv, EnrollmentFails, Idle, HubSaid, history
<1>8. SettledWhenRevoking'
  <2>1. \A r : Settled(r) => Settled(r)'
    BY NamesRelationships, SupersededFacts
    DEF IInv, EnrollmentFails, Schedule, Settled, Enrolling, Idle, TypeOK, Numbered,
        EnrollsPending
  <2> QED BY <2>1, RevokingFacts
          DEF IInv, EnrollmentFails, Schedule, NoRetry, Fenced, SettledWhenRevoking,
              RevokesAfterSettling, Numbered,
              RevokesDisconnecting, EnrollsPending, Held, WaitsFor, history
<1>9. RevokedBeforeForgotten'
  BY DEF IInv, EnrollmentFails, Idle, RevokedBeforeForgotten, Settled, history
<1>10. AlwaysDriven'
  BY DEF IInv, EnrollmentFails, Schedule, AlwaysDriven, EnrollsPending, Stray, WaitsFor,
         RevokesDisconnecting, Numbered, history
<1>11. StatusHonest'
  BY DEF IInv, EnrollmentFails, StatusHonest, EnrollsPending, Stray, WaitsFor,
         RevokesDisconnecting, Numbered, history
<1> QED BY <1>1, <1>2, <1>3, <1>4, <1>5, <1>6, <1>7, <1>8, <1>9, <1>10, <1>11 DEF IInv, history

\* What a superseded enrollment that is over does to the waits and the revocations.
LEMMA StaleSettlesFacts ==
  ASSUME IInv, NEW s \in Slots, StaleEnrollmentSettles(s)
  PROVE  /\ \A t \in Slots : t # s => attempts'[t] = attempts[t]
         /\ attempts'[s] = Idle
         /\ revocations \subseteq revocations'
         /\ \A w \in waits : w.on = {s} => Revoking(w.rel, "waited") \in revocations'
         /\ \A w \in waits' : \E v \in waits : w.rel = v.rel /\ w.on = v.on \ {s} /\ w.on # {}
         /\ \A v \in waits :
              v.on # {s} => \E w \in waits' : w.rel = v.rel /\ w.on = v.on \ {s}
         /\ \A v \in revocations' \ revocations :
              \/ \E w \in waits : w.on = {s} /\ v = Revoking(w.rel, "waited")
              \/ /\ record.state = "disconnecting" /\ v = Revoking(record.rel, "start")
                 /\ (WaitsFor(record.rel, waits') => record.rel \in overtaken')
         /\ overtaken \subseteq overtaken'
         /\ overtaken' \subseteq overtaken \cup {record.rel}
         /\ record.state # "disconnecting" => overtaken' = overtaken
<1>1. \A t \in Slots : t # s => attempts'[t] = attempts[t]
  BY DEF StaleEnrollmentSettles, IInv, TypeOK
<1>2. attempts'[s] = Idle
  BY DEF StaleEnrollmentSettles, IInv, TypeOK
<1>3. ASSUME NEW w \in waits'
      PROVE  \E v \in waits : w.rel = v.rel /\ w.on = v.on \ {s} /\ w.on # {}
  <2>1. PICK v \in waits : w = [v EXCEPT !.on = @ \ {s}]
    BY <1>3 DEF StaleEnrollmentSettles
  <2>2. w.on # {}
    BY <1>3 DEF StaleEnrollmentSettles
  <2>3. v \in [rel : Relationships, on : SUBSET Slots]
    BY DEF IInv, TypeOK
  <2> QED BY <2>1, <2>2, <2>3
<1>4. ASSUME NEW v \in waits, v.on # {s}
      PROVE  \E w \in waits' : w.rel = v.rel /\ w.on = v.on \ {s}
  <2> DEFINE rest == [v EXCEPT !.on = @ \ {s}]
  <2>1. v \in [rel : Relationships, on : SUBSET Slots] /\ v.on # {}
    BY DEF IInv, TypeOK, WaitsForAll
  <2>2. rest.rel = v.rel /\ rest.on = v.on \ {s} /\ rest.on # {}
    BY <1>4, <2>1
  <2>3. rest \in waits'
    BY <2>2 DEF StaleEnrollmentSettles
  <2> QED BY <2>2, <2>3
<1>5. \A w \in waits : w.on = {s} => Revoking(w.rel, "waited") \in revocations'
  BY DEF StaleEnrollmentSettles
<1>6. revocations \subseteq revocations'
  BY DEF StaleEnrollmentSettles
<1>7. ASSUME NEW v \in revocations' \ revocations
      PROVE  \/ \E w \in waits : w.on = {s} /\ v = Revoking(w.rel, "waited")
             \/ /\ record.state = "disconnecting" /\ v = Revoking(record.rel, "start")
                /\ (WaitsFor(record.rel, waits') => record.rel \in overtaken')
  <2>1. CASE v \in ResumedStart(attempts[s])
    BY <2>1 DEF ResumedStart, StaleEnrollmentSettles
  <2>2. CASE v \notin ResumedStart(attempts[s])
    BY <1>7, <2>2 DEF StaleEnrollmentSettles
  <2> QED BY <2>1, <2>2
<1>8. /\ overtaken \subseteq overtaken' /\ overtaken' \subseteq overtaken \cup {record.rel}
      /\ record.state # "disconnecting" => overtaken' = overtaken
  BY DEF StaleEnrollmentSettles, ResumedStart
<1> QED BY <1>1, <1>2, <1>3, <1>4, <1>5, <1>6, <1>7, <1>8

LEMMA StaleEnrollmentSettlesPreserves ==
  ASSUME IInv, NEW s \in Slots, StaleEnrollmentSettles(s)
  PROVE  IInv'
<1> USE StaleSettlesFacts
<1>1. /\ attempts[s].at # "none" /\ ~attempts[s].current
      /\ UNCHANGED <<record, state, retry, socket, agents, issued, grant, abandoned>>
  BY DEF StaleEnrollmentSettles
<1>2. \A w \in waits : w.on = {s} => Settled(w.rel)'
  BY <1>1 DEF IInv, WaitsForAll, Settled, Idle
<1>3. \A r : Settled(r) => Settled(r)'
  BY <1>1 DEF Settled, Idle
<1>4. \A v \in revocations' \ revocations :
        \/ \E w \in waits : w.on = {s} /\ v = Revoking(w.rel, "waited")
        \/ /\ record.state = "disconnecting" /\ v = Revoking(record.rel, "start")
           /\ (WaitsFor(record.rel, waits') => record.rel \in overtaken')
  BY StaleSettlesFacts
<1>5. TypeOK'
  <2>1. attempts' \in [Slots -> Attempts]
    BY IdleType DEF IInv, TypeOK, StaleEnrollmentSettles
  <2>2. revocations' \subseteq Revocations
    <3>1. ASSUME NEW v \in revocations' \ revocations
          PROVE  v \in Revocations
      <4>1. ASSUME NEW w \in waits, v = Revoking(w.rel, "waited")
            PROVE  v \in Revocations
        <5>1. w.rel \in Relationships
          BY DEF IInv, TypeOK
        <5> QED BY <4>1, <5>1, RequestTypes
      <4>2. CASE record.state = "disconnecting" /\ v = Revoking(record.rel, "start")
        BY <4>2, NamesRelationships, RequestTypes DEF IInv
      <4> QED BY <3>1, <4>1, <4>2
    <3> QED BY <3>1 DEF IInv, TypeOK
  <2>3. overtaken' \subseteq Relationships
    BY NamesRelationships DEF IInv, TypeOK
  <2>4. waits' \subseteq [rel : Relationships, on : SUBSET Slots]
    BY DEF IInv, TypeOK, StaleEnrollmentSettles
  <2> QED BY <1>1, <2>1, <2>2, <2>3, <2>4 DEF IInv, TypeOK
<1>6. Numbered'
  <2>1. \A v \in revocations' : v.rel \in 1..issued
    BY RevokingFacts, NamesRelationships DEF IInv, Numbered
  <2>2. \A w \in waits' : w.rel \in 1..issued
    BY DEF IInv, Numbered
  <2>3. overtaken' \subseteq 1..issued
    BY DEF IInv, Numbered
  <2>4. record.state \in Held /\ record.rel \in overtaken' => record.state = "disconnecting"
    BY DEF IInv, Numbered
  <2>5. \A t \in Slots :
          /\ attempts'[t].at # "none" => attempts'[t].rel \in 1..issued
          /\ attempts'[t].at = "none" => ~attempts'[t].current /\ ~attempts'[t].startup
    BY DEF IInv, Numbered, Idle
  <2> QED BY <1>1, <2>1, <2>2, <2>3, <2>4, <2>5 DEF IInv, Numbered
<1>7. EnrollsPending'
  BY <1>1 DEF IInv, Idle, EnrollsPending, OneEnrollment
<1>8. DialsActive'
  BY <1>1 DEF IInv, DialsActive
<1>9. RevokesDisconnecting'
  <2>1. ASSUME NEW v \in revocations' \ revocations
        PROVE  IF v.rel = record.rel THEN record.state = "disconnecting" ELSE v.by = "waited"
    BY RevokingFacts DEF IInv, RevokesDisconnecting
  <2> QED BY <1>1, <2>1 DEF IInv, RevokesDisconnecting
<1>10. WaitsForAll'
  <2>1. ASSUME NEW w \in waits'
        PROVE  /\ w.on # {}
               /\ \A t \in w.on : attempts'[t].at # "none" /\ ~attempts'[t].current
               /\ \A t \in Slots :
                    attempts'[t].at # "none" /\ attempts'[t].rel = w.rel => t \in w.on
    <3>1. PICK v \in waits : w.rel = v.rel /\ w.on = v.on \ {s} /\ w.on # {}
      BY <2>1
    <3> QED BY <3>1 DEF IInv, WaitsForAll, Idle, TypeOK
  <2> QED BY <2>1 DEF WaitsForAll
<1>11. HubSaid'
  BY <1>1, RevokingFacts DEF IInv, Idle, HubSaid
<1>12. SettledWhenRevoking'
  <2>1. record.state = "disconnecting" =>
          (Settled(record.rel))' \/ record.rel \in overtaken' \/ WaitsFor(record.rel, waits')
    <3>1. ASSUME NEW w \in waits, w.rel = record.rel
          PROVE  Settled(w.rel)' \/ WaitsFor(record.rel, waits')
      BY <1>2, <3>1 DEF WaitsFor
    <3>2. CASE ~WaitsFor(record.rel, waits)
      BY <1>1, <1>3, <3>2 DEF IInv, SettledWhenRevoking
    <3> QED BY <1>1, <3>1, <3>2 DEF WaitsFor
  <2>2. ASSUME NEW v \in revocations'
        PROVE  Settled(v.rel)' \/ v.rel \in overtaken'
    <3>1. CASE v \in revocations
      BY <1>3, <3>1 DEF IInv, SettledWhenRevoking, RevokesAfterSettling
    <3>2. ASSUME NEW w \in waits, w.on = {s}, v = Revoking(w.rel, "waited")
          PROVE  Settled(v.rel)'
      BY <1>2, <3>2, RevokingFacts
    <3>3. ASSUME record.state = "disconnecting", v = Revoking(record.rel, "start"),
                 WaitsFor(record.rel, waits') => record.rel \in overtaken'
          PROVE  Settled(v.rel)' \/ v.rel \in overtaken'
      BY <1>1, <2>1, <3>3, RevokingFacts
    <3>4. ASSUME v \notin revocations
          PROVE  \/ \E w \in waits : w.on = {s} /\ v = Revoking(w.rel, "waited")
                 \/ /\ record.state = "disconnecting" /\ v = Revoking(record.rel, "start")
                    /\ (WaitsFor(record.rel, waits') => record.rel \in overtaken')
      <4>1. v \in revocations' \ revocations
        BY <2>2, <3>4
      <4> QED BY ONLY <1>4, <4>1
    <3> QED BY <3>1, <3>2, <3>3, <3>4
  <2>3. retry.kind = "revoke" => Settled(retry.rel)' \/ retry.rel \in overtaken'
    BY <1>1, <1>3 DEF IInv, SettledWhenRevoking
  <2> QED BY <1>1, <2>1, <2>2, <2>3 DEF SettledWhenRevoking, RevokesAfterSettling, WaitsFor
<1>13. RevokedBeforeForgotten'
  BY <1>1, <1>3 DEF IInv, RevokedBeforeForgotten
<1>14. AlwaysDriven'
  <2>1. Stray => Stray'
    BY <1>1 DEF Stray
  <2>2. WaitsFor(record.rel, waits) =>
          WaitsFor(record.rel, waits') \/ \E v \in revocations' : v.rel = record.rel
    BY RevokingFacts DEF WaitsFor
  <2> QED BY <1>1, <2>1, <2>2 DEF IInv, AlwaysDriven, EnrollsPending, WaitsFor
<1>15. StatusHonest'
  <2>1. Stray => Stray'
    BY <1>1 DEF Stray
  <2> QED BY <1>1, <2>1 DEF IInv, StatusHonest
<1> QED
  BY <1>5, <1>6, <1>7, <1>8, <1>9, <1>10, <1>11, <1>12, <1>13, <1>14, <1>15 DEF IInv

LEMMA RevocationAnsweredPreserves ==
  ASSUME IInv, NEW v \in revocations, RevocationAnswered(v)
  PROVE  IInv'
<1>1. /\ v.at = "served"
      /\ record' = NoRecord /\ state' = "not_connected" /\ retry' = NoRetry /\ agents' = None
      /\ attempts' = Superseded(attempts) /\ revocations' = {}
      /\ socket' = [socket EXCEPT !.current = FALSE]
      /\ UNCHANGED <<waits, issued, grant, abandoned>>
  BY DEF RevocationAnswered, Remove, CancelLifecycle, Fenced
<1>2. /\ overtaken \subseteq overtaken' /\ overtaken' \subseteq overtaken \cup {record.rel}
      /\ record.state \in Held /\ record.rel # v.rel => record.rel \in overtaken'
      /\ record.state \notin Held => overtaken' = overtaken
  BY DEF RevocationAnswered, IInv, RevokesDisconnecting
<1>3. TypeOK'
  <2>1. attempts' \in [Slots -> Attempts]
    BY <1>1, SupersededFacts DEF IInv, TypeOK
  <2>2. overtaken' \subseteq Relationships
    BY <1>2, NamesRelationships DEF IInv, TypeOK, Held
  <2> QED BY <1>1, <2>1, <2>2 DEF IInv, TypeOK, NoRetry, NoRecord
<1>4. Numbered'
  BY <1>1, <1>2, SupersededFacts DEF IInv, NoRecord, NoRetry, Numbered, TypeOK, Held, None
<1>5. EnrollsPending'
  BY <1>1, SupersededFacts DEF IInv, NoRetry, EnrollsPending, OneEnrollment, TypeOK
<1>6. DialsActive'
  BY <1>1, <1>2 DEF IInv, TypeOK, DialsActive, RevokesDisconnecting, NoRetry, NoRecord, None, Held
<1>7. RevokesDisconnecting'
  BY <1>1, NamesRelationships DEF IInv, NoRetry, NoRecord, RevokesDisconnecting, Numbered, None
<1>8. WaitsForAll'
  BY <1>1, SupersededFacts DEF IInv, WaitsForAll, TypeOK
<1>9. HubSaid'
  BY <1>1, SupersededFacts DEF IInv, NoRecord, HubSaid, TypeOK
<1>10. SettledWhenRevoking'
  BY <1>1 DEF IInv, NoRecord, NoRetry, SettledWhenRevoking, RevokesAfterSettling
<1>11. RevokedBeforeForgotten'
  <2>1. ASSUME NEW r \in 1..issued
        PROVE  r \in (abandoned \cup overtaken)' \/ (grant[r] # "held" /\ Settled(r))
    <3>1. CASE r \in abandoned \cup overtaken
      BY <1>1, <1>2, <3>1
    <3>2. CASE record.rel = r /\ record.state \in Held
      BY <1>1, <1>2, <3>2 DEF IInv, HubSaid, SettledWhenRevoking, RevokesAfterSettling
    <3>3. CASE grant[r] # "held" /\ Settled(r)
      BY <3>3
    <3> QED BY <2>1, <3>1, <3>2, <3>3 DEF IInv, RevokedBeforeForgotten
  <2>2. \A r : Settled(r)' <=> Settled(r)
    BY <1>1, SupersededFacts DEF Settled, IInv, TypeOK
  <2> QED BY <1>1, <2>1, <2>2 DEF RevokedBeforeForgotten
<1>12. AlwaysDriven'
  BY <1>1 DEF IInv, NoRecord, AlwaysDriven
<1>13. StatusHonest'
  BY <1>1 DEF IInv, NoRecord, StatusHonest
<1> QED
  BY <1>3, <1>4, <1>5, <1>6, <1>7, <1>8, <1>9, <1>10, <1>11, <1>12, <1>13 DEF IInv

LEMMA RevocationFailsPreserves ==
  ASSUME IInv, NEW v \in revocations, RevocationFails(v)
  PROVE  IInv'
<1>1. TypeOK'
  BY DEF IInv, RevocationFails, Schedule, TypeOK, Revocations, history
<1>2. Numbered'
  BY NamesRelationships, SupersededFacts, RevokingFacts
  DEF IInv, RevocationFails, Schedule, NoRetry, Enrolling, Idle, Fenced, Free, Numbered, TypeOK,
      EnrollsPending, RevokesDisconnecting, Revocations, Held, None, history
<1>3. EnrollsPending'
  BY DEF IInv, RevocationFails, Schedule, EnrollsPending, OneEnrollment, history
<1>4. DialsActive'
  BY DEF IInv, RevocationFails, Schedule, DialsActive, history
<1>5. RevokesDisconnecting'
  BY DEF IInv, RevocationFails, Schedule, RevokesDisconnecting, history
<1>6. WaitsForAll'
  BY DEF IInv, RevocationFails, WaitsForAll, history
<1>7. HubSaid'
  BY DEF IInv, RevocationFails, HubSaid, history
<1>8. SettledWhenRevoking'
  <2>1. \A r : Settled(r) => Settled(r)'
    BY NamesRelationships, SupersededFacts
    DEF IInv, RevocationFails, Schedule, Settled, Enrolling, Idle, TypeOK, Numbered,
        EnrollsPending
  <2> QED BY <2>1, RevokingFacts
          DEF IInv, RevocationFails, Schedule, NoRetry, Fenced, SettledWhenRevoking,
              RevokesAfterSettling, Numbered,
              RevokesDisconnecting, EnrollsPending, Held, WaitsFor, history
<1>9. RevokedBeforeForgotten'
  BY DEF IInv, RevocationFails, RevokedBeforeForgotten, Settled, history
<1>10. AlwaysDriven'
  BY DEF IInv, RevocationFails, Schedule, AlwaysDriven, RevokesDisconnecting, Stray, WaitsFor,
         Numbered, history
<1>11. StatusHonest'
  <2>1. /\ state' = "disconnecting" /\ record' = record
        /\ retry' = [kind |-> "revoke", rel |-> v.rel, by |-> v.by]
    BY DEF RevocationFails, Schedule
  <2> QED BY <2>1 DEF IInv, StatusHonest, RevokesDisconnecting, Stray
<1> QED BY <1>1, <1>2, <1>3, <1>4, <1>5, <1>6, <1>7, <1>8, <1>9, <1>10, <1>11 DEF IInv, history

LEMMA RetryEnrollmentPreserves ==
  ASSUME IInv, NEW s \in Slots, RetryEnrollment(s)
  PROVE  IInv'
<1>1. TypeOK'
  BY DEF IInv, RetryEnrollment, NoRetry, Enrolling, TypeOK, Attempts, history
<1>2. Numbered'
  BY NamesRelationships, SupersededFacts, RevokingFacts
  DEF IInv, RetryEnrollment, NoRetry, Enrolling, Idle, Fenced, Free, Numbered, TypeOK,
      EnrollsPending, RevokesDisconnecting, Revocations, Held, None, history
<1>3. EnrollsPending'
  BY DEF IInv, RetryEnrollment, NoRetry, Enrolling, EnrollsPending, OneEnrollment, history
<1>4. DialsActive'
  BY DEF IInv, RetryEnrollment, NoRetry, DialsActive, history
<1>5. RevokesDisconnecting'
  BY DEF IInv, RetryEnrollment, NoRetry, RevokesDisconnecting, history
<1>6. WaitsForAll'
  BY NamesRelationships, SupersededFacts
  DEF IInv, RetryEnrollment, Enrolling, Idle, Free, WaitsForAll, TypeOK, Numbered,
      EnrollsPending, RevokesDisconnecting
<1>7. HubSaid'
  BY DEF IInv, RetryEnrollment, Enrolling, HubSaid, history
<1>8. SettledWhenRevoking'
  <2>1. \A r : r # record.rel /\ Settled(r) => Settled(r)'
    BY NamesRelationships, SupersededFacts
    DEF IInv, RetryEnrollment, Settled, Enrolling, Idle, TypeOK, Numbered, EnrollsPending
  <2> QED BY <2>1, RevokingFacts
          DEF IInv, RetryEnrollment, NoRetry, Fenced, SettledWhenRevoking, RevokesAfterSettling,
              Numbered,
              RevokesDisconnecting, EnrollsPending, Held, WaitsFor, history
<1>9. RevokedBeforeForgotten'
  BY DEF IInv, RetryEnrollment, Enrolling, RevokedBeforeForgotten, Settled, TypeOK,
         EnrollsPending, history
<1>10. AlwaysDriven'
  BY DEF IInv, RetryEnrollment, Enrolling, Free, AlwaysDriven, TypeOK, Numbered, Stray, WaitsFor,
         RevokesDisconnecting, history
<1>11. StatusHonest'
  BY DEF IInv, RetryEnrollment, StatusHonest, Stray, WaitsFor, RevokesDisconnecting, Numbered,
         history
<1> QED BY <1>1, <1>2, <1>3, <1>4, <1>5, <1>6, <1>7, <1>8, <1>9, <1>10, <1>11 DEF IInv, history

LEMMA RetrySocketPreserves ==
  ASSUME IInv, RetrySocket
  PROVE  IInv'
<1>1. TypeOK'
  <2>2. revocations' \subseteq Revocations
    BY DEF Fenced, IInv, TypeOK, RetrySocket, history
  <2> QED BY NamesRelationships, <2>2 DEF IInv, TypeOK, RetrySocket, OpenSocket, NoRetry, history
<1>2. Numbered'
  BY NamesRelationships, SupersededFacts, RevokingFacts
  DEF IInv, RetrySocket, NoRetry, Enrolling, Idle, Fenced, Free, Numbered, TypeOK,
      EnrollsPending, RevokesDisconnecting, Revocations, Held, None, history
<1>3. EnrollsPending'
  BY DEF IInv, RetrySocket, NoRetry, EnrollsPending, OneEnrollment, history
<1>4. DialsActive'
  BY DEF IInv, RetrySocket, NoRetry, OpenSocket, DialsActive, history
<1>5. RevokesDisconnecting'
  BY DEF IInv, RetrySocket, NoRetry, Fenced, RevokesDisconnecting, TypeOK, Revocations, history
<1>6. WaitsForAll'
  BY DEF IInv, RetrySocket, WaitsForAll, history
<1>7. HubSaid'
  BY DEF IInv, RetrySocket, Fenced, HubSaid, TypeOK, Revocations, history
<1>8. SettledWhenRevoking'
  <2>1. \A r : Settled(r) => Settled(r)'
    BY NamesRelationships, SupersededFacts
    DEF IInv, RetrySocket, Settled, Enrolling, Idle, TypeOK, Numbered, EnrollsPending
  <2> QED BY <2>1, RevokingFacts
          DEF IInv, RetrySocket, NoRetry, Fenced, SettledWhenRevoking, RevokesAfterSettling,
              Numbered,
              RevokesDisconnecting, EnrollsPending, Held, WaitsFor, history
<1>9. RevokedBeforeForgotten'
  BY DEF IInv, RetrySocket, RevokedBeforeForgotten, Settled, history
<1>10. AlwaysDriven'
  BY DEF IInv, RetrySocket, OpenSocket, AlwaysDriven, DialsActive, Stray, WaitsFor,
         RevokesDisconnecting, Numbered, history
<1>11. StatusHonest'
  BY DEF IInv, RetrySocket, OpenSocket, StatusHonest, DialsActive, Stray, WaitsFor,
         RevokesDisconnecting, Numbered, history
<1> QED BY <1>1, <1>2, <1>3, <1>4, <1>5, <1>6, <1>7, <1>8, <1>9, <1>10, <1>11 DEF IInv, history

LEMMA RetryRevocationPreserves ==
  ASSUME IInv, RetryRevocation
  PROVE  IInv'
<1>1. TypeOK'
  <2>1. Revoking(retry.rel, retry.by) \in Revocations
    BY NamesRelationships, RequestTypes DEF IInv, Numbered, RetryRevocation, Callers
  <2> QED BY <2>1 DEF IInv, TypeOK, RetryRevocation, NoRetry, history
<1>2. Numbered'
  BY NamesRelationships, SupersededFacts, RevokingFacts
  DEF IInv, RetryRevocation, NoRetry, Enrolling, Idle, Fenced, Free, Numbered, TypeOK,
      EnrollsPending, RevokesDisconnecting, Revocations, Held, None, history
<1>3. EnrollsPending'
  BY DEF IInv, RetryRevocation, NoRetry, EnrollsPending, OneEnrollment, history
<1>4. DialsActive'
  BY DEF IInv, RetryRevocation, NoRetry, DialsActive, history
<1>5. RevokesDisconnecting'
  BY DEF IInv, RetryRevocation, NoRetry, Revoking, RevokesDisconnecting, history
<1>6. WaitsForAll'
  BY DEF IInv, RetryRevocation, WaitsForAll, history
<1>7. HubSaid'
  BY DEF IInv, RetryRevocation, Revoking, HubSaid, history
<1>8. SettledWhenRevoking'
  <2>1. \A r : Settled(r) => Settled(r)'
    BY NamesRelationships, SupersededFacts
    DEF IInv, RetryRevocation, Settled, Enrolling, Idle, TypeOK, Numbered, EnrollsPending
  <2> QED BY <2>1, RevokingFacts
          DEF IInv, RetryRevocation, NoRetry, Fenced, SettledWhenRevoking, RevokesAfterSettling,
              Numbered,
              RevokesDisconnecting, EnrollsPending, Held, WaitsFor, history
<1>9. RevokedBeforeForgotten'
  BY DEF IInv, RetryRevocation, RevokedBeforeForgotten, Settled, history
<1>10. AlwaysDriven'
  <2>1. Revoking(retry.rel, retry.by) \in revocations' /\ revocations \subseteq revocations'
    BY DEF RetryRevocation
  <2>2. Stray => Stray'
    BY <2>1, RevokingFacts DEF Stray, RetryRevocation
  <2> QED BY <2>1, <2>2, RevokingFacts DEF IInv, AlwaysDriven, RetryRevocation, WaitsFor
<1>11. StatusHonest'
  <2>1. Revoking(retry.rel, retry.by) \in revocations' /\ revocations \subseteq revocations'
    BY DEF RetryRevocation
  <2>2. Stray => Stray'
    BY <2>1, RevokingFacts DEF Stray, RetryRevocation
  <2> QED BY <2>2 DEF IInv, StatusHonest, RetryRevocation
<1> QED BY <1>1, <1>2, <1>3, <1>4, <1>5, <1>6, <1>7, <1>8, <1>9, <1>10, <1>11 DEF IInv, history

\* A socket that is no longer the controller's own closes unnoticed.
LEMMA StraySocketClosed ==
  ASSUME IInv, ~socket.current, socket' = NoSocket,
         UNCHANGED <<record, state, retry, attempts, revocations, waits, agents, issued, grant,
                     abandoned, overtaken>>
  PROVE  IInv'
<1>1. TypeOK' /\ Numbered' /\ EnrollsPending' /\ RevokesDisconnecting'
  BY DEF IInv, TypeOK, NoSocket, Numbered, EnrollsPending, OneEnrollment, RevokesDisconnecting
<1>2. DialsActive'
  BY DEF IInv, NoSocket, DialsActive
<1>3. WaitsForAll' /\ HubSaid' /\ SettledWhenRevoking'
  BY DEF IInv, WaitsForAll, HubSaid, SettledWhenRevoking, RevokesAfterSettling, Settled, WaitsFor
<1>4. RevokedBeforeForgotten'
  BY DEF IInv, RevokedBeforeForgotten, Settled
<1>5. AlwaysDriven'
  BY DEF IInv, AlwaysDriven, Stray, WaitsFor
<1>6. StatusHonest'
  BY DEF IInv, StatusHonest, Stray
<1> QED BY <1>1, <1>2, <1>3, <1>4, <1>5, <1>6 DEF IInv

LEMMA SocketConnectedPreserves ==
  ASSUME IInv, SocketConnected
  PROVE  IInv'
<1>1. CASE ~socket.current
  BY <1>1, StraySocketClosed DEF SocketConnected, history
<1>2. CASE socket.current
  <2>1. /\ socket' = [phase |-> "open", rel |-> record.rel, current |-> TRUE]
        /\ state' = "connected" /\ agents' = record.rel /\ record.state = "active"
        /\ socket.phase # "none" /\ socket.rel = record.rel
        /\ UNCHANGED <<record, retry, attempts, revocations, waits, issued, grant, abandoned,
                       overtaken>>
    BY <1>2 DEF IInv, TypeOK, DialsActive, SocketConnected, history
  <2>2. TypeOK'
    BY <2>1, NamesRelationships DEF IInv, TypeOK
  <2>3. Numbered' /\ EnrollsPending' /\ DialsActive' /\ RevokesDisconnecting'
    BY <2>1 DEF IInv, Numbered, EnrollsPending, OneEnrollment, DialsActive, RevokesDisconnecting
  <2>4. WaitsForAll' /\ HubSaid' /\ SettledWhenRevoking'
    BY <2>1 DEF IInv, WaitsForAll, HubSaid, SettledWhenRevoking, RevokesAfterSettling, Settled,
                WaitsFor
  <2>5. RevokedBeforeForgotten'
    BY <2>1 DEF IInv, RevokedBeforeForgotten, Settled
  <2>6. AlwaysDriven'
    BY <2>1 DEF AlwaysDriven
  <2>7. StatusHonest'
    BY <2>1 DEF StatusHonest
  <2> QED BY <2>2, <2>3, <2>4, <2>5, <2>6, <2>7 DEF IInv
<1> QED BY <1>1, <1>2

LEMMA SocketRevokedPreserves ==
  ASSUME IInv, SocketRevoked
  PROVE  IInv'
<1>1. CASE ~socket.current
  BY <1>1, StraySocketClosed DEF SocketRevoked, history
<1>2. CASE socket.current
  <2>1. /\ record.state = "active" /\ record.rel = socket.rel /\ grant[record.rel] = "ended"
        /\ record.rel \in 1..issued /\ record.rel \in Relationships
    BY <1>2, NamesRelationships DEF IInv, Numbered, DialsActive, SocketRevoked
  <2>2. /\ record' = [state |-> "revoked", rel |-> record.rel] /\ state' = "revoked"
        /\ retry' = NoRetry /\ attempts' = Superseded(attempts) /\ revocations' = {}
        /\ agents' = None /\ socket' = NoSocket
        /\ UNCHANGED <<waits, issued, grant, abandoned, overtaken>>
    BY <1>2 DEF IInv, TypeOK, SocketRevoked, Revoke, CancelLifecycle, Fenced, history
  <2>3. TypeOK'
    BY <2>1, <2>2, SupersededFacts DEF IInv, TypeOK, NoRetry, NoSocket
  <2>4. Numbered'
    BY <2>1, <2>2, SupersededFacts DEF IInv, TypeOK, Numbered, NoRetry, Held
  <2>5. EnrollsPending' /\ DialsActive'
    BY <2>2, SupersededFacts
    DEF IInv, TypeOK, EnrollsPending, OneEnrollment, DialsActive, NoRetry, NoSocket
  <2>6. RevokesDisconnecting'
    BY <2>1, <2>2 DEF IInv, RevokesDisconnecting, NoRetry
  <2>7. WaitsForAll' /\ HubSaid'
    BY <2>1, <2>2, SupersededFacts DEF IInv, TypeOK, WaitsForAll, HubSaid
  <2>8. SettledWhenRevoking'
    BY <2>2 DEF SettledWhenRevoking, RevokesAfterSettling, NoRetry
  <2>9. RevokedBeforeForgotten'
    BY <2>1, <2>2, SupersededFacts DEF IInv, TypeOK, RevokedBeforeForgotten, Settled, Held
  <2>10. AlwaysDriven' /\ StatusHonest'
    BY <2>2 DEF AlwaysDriven, StatusHonest
  <2> QED BY <2>3, <2>4, <2>5, <2>6, <2>7, <2>8, <2>9, <2>10 DEF IInv
<1> QED BY <1>1, <1>2

LEMMA SocketLostPreserves ==
  ASSUME IInv, SocketLost
  PROVE  IInv'
<1>1. TypeOK'
  <2>1. CASE socket.current /\ record.state = "active"
    <3>1. /\ retry' = [kind |-> "socket", rel |-> socket.rel, by |-> "none"]
          /\ state' = "reconnecting" /\ socket' = NoSocket
      BY <2>1 DEF SocketLost, Schedule
    <3> QED BY <3>1 DEF IInv, TypeOK, SocketLost, NoSocket, history
  <2>2. CASE ~(socket.current /\ record.state = "active")
    BY <2>2 DEF IInv, TypeOK, SocketLost, NoSocket, history
  <2> QED BY <2>1, <2>2
<1>2. Numbered'
  <2>1. \/ retry' = retry
        \/ /\ record.state = "active"
           /\ retry' = [kind |-> "socket", rel |-> record.rel, by |-> "none"]
    BY DEF IInv, DialsActive, SocketLost, Schedule
  <2>2. UNCHANGED <<record, attempts, revocations, waits, issued, grant, abandoned, overtaken>>
    BY DEF SocketLost, history
  <2> QED BY <2>1, <2>2 DEF IInv, Numbered
<1>3. EnrollsPending'
  BY DEF IInv, SocketLost, Schedule, EnrollsPending, OneEnrollment, history
<1>4. DialsActive'
  BY DEF IInv, SocketLost, NoSocket, Schedule, DialsActive, history
<1>5. RevokesDisconnecting'
  BY DEF IInv, SocketLost, Schedule, RevokesDisconnecting, history
<1>6. WaitsForAll'
  BY DEF IInv, SocketLost, WaitsForAll, RevokesDisconnecting, history
<1>7. HubSaid'
  BY DEF IInv, SocketLost, HubSaid, history
<1>8. SettledWhenRevoking'
  <2>1. \A r : Settled(r) => Settled(r)'
    BY NamesRelationships, SupersededFacts
    DEF IInv, SocketLost, Schedule, Settled, Enrolling, Idle, TypeOK, Numbered, EnrollsPending
  <2> QED BY <2>1, RevokingFacts
          DEF IInv, SocketLost, Schedule, NoRetry, Fenced, SettledWhenRevoking,
              RevokesAfterSettling, Numbered,
              RevokesDisconnecting, EnrollsPending, Held, WaitsFor, history
<1>9. RevokedBeforeForgotten'
  BY DEF IInv, SocketLost, RevokedBeforeForgotten, Settled, history
<1>10. AlwaysDriven'
  BY DEF IInv, SocketLost, Schedule, AlwaysDriven, DialsActive, Stray, WaitsFor,
         RevokesDisconnecting, Numbered, history
<1>11. StatusHonest'
  BY DEF IInv, SocketLost, StatusHonest, Stray, WaitsFor, RevokesDisconnecting, Numbered, history
<1> QED BY <1>1, <1>2, <1>3, <1>4, <1>5, <1>6, <1>7, <1>8, <1>9, <1>10, <1>11 DEF IInv, history

LEMMA HubGrantsPreserves ==
  ASSUME IInv, NEW s \in Slots, HubGrants(s)
  PROVE  IInv'
<1>1. TypeOK'
  BY DEF IInv, HubGrants, TypeOK, Numbered, None, Attempts, history
<1>2. Numbered'
  BY DEF IInv, HubGrants, Numbered, history
<1>3. EnrollsPending'
  BY DEF IInv, HubGrants, EnrollsPending, OneEnrollment, history
<1>4. DialsActive'
  BY DEF IInv, HubGrants, DialsActive, history
<1>5. RevokesDisconnecting'
  BY DEF IInv, HubGrants, RevokesDisconnecting, history
<1>6. WaitsForAll'
  BY DEF IInv, HubGrants, WaitsForAll, history
<1>7. HubSaid'
  BY DEF IInv, HubGrants, HubSaid, TypeOK, Numbered, RevokesDisconnecting,
         SettledWhenRevoking, Settled, WaitsForAll, None, Attempts, RevokesAfterSettling,
         WaitsFor, Idle, history
<1>8. SettledWhenRevoking'
  BY DEF IInv, HubGrants, SettledWhenRevoking, Settled, RevokesAfterSettling, WaitsFor,
         RevokesDisconnecting, WaitsForAll, Idle, TypeOK, history
<1>9. RevokedBeforeForgotten'
  BY DEF IInv, HubGrants, RevokedBeforeForgotten, Settled, TypeOK, history
<1>10. AlwaysDriven'
  BY DEF IInv, HubGrants, AlwaysDriven, Stray, WaitsFor, RevokesDisconnecting, Numbered, history
<1>11. StatusHonest'
  BY DEF IInv, HubGrants, StatusHonest, Stray, WaitsFor, RevokesDisconnecting, Numbered, history
<1> QED BY <1>1, <1>2, <1>3, <1>4, <1>5, <1>6, <1>7, <1>8, <1>9, <1>10, <1>11 DEF IInv, history

LEMMA HubRefusesPreserves ==
  ASSUME IInv, NEW s \in Slots, HubRefuses(s)
  PROVE  IInv'
<1>1. TypeOK'
  BY DEF IInv, HubRefuses, TypeOK, Attempts, history
<1>2. Numbered'
  BY DEF IInv, HubRefuses, Numbered, history
<1>3. EnrollsPending'
  BY DEF IInv, HubRefuses, EnrollsPending, OneEnrollment, history
<1>4. DialsActive'
  BY DEF IInv, HubRefuses, DialsActive, history
<1>5. RevokesDisconnecting'
  BY DEF IInv, HubRefuses, RevokesDisconnecting, history
<1>6. WaitsForAll'
  BY DEF IInv, HubRefuses, WaitsForAll, history
<1>7. HubSaid'
  BY DEF IInv, HubRefuses, HubSaid, history
<1>8. SettledWhenRevoking'
  BY DEF IInv, HubRefuses, SettledWhenRevoking, Settled, RevokesAfterSettling, WaitsFor,
         RevokesDisconnecting, WaitsForAll, Idle, TypeOK, history
<1>9. RevokedBeforeForgotten'
  BY DEF IInv, HubRefuses, RevokedBeforeForgotten, Settled, history
<1>10. AlwaysDriven'
  BY DEF IInv, HubRefuses, AlwaysDriven, Stray, WaitsFor, RevokesDisconnecting, Numbered, history
<1>11. StatusHonest'
  BY DEF IInv, HubRefuses, StatusHonest, Stray, WaitsFor, RevokesDisconnecting, Numbered, history
<1> QED BY <1>1, <1>2, <1>3, <1>4, <1>5, <1>6, <1>7, <1>8, <1>9, <1>10, <1>11 DEF IInv, history

LEMMA HubServesRevocationPreserves ==
  ASSUME IInv, NEW v \in revocations, HubServesRevocation(v)
  PROVE  IInv'
<1>1. ASSUME NEW u \in revocations
      PROVE  \E x \in revocations' : x.rel = u.rel /\ x.by = u.by
  <2>1. CASE u = v
    <3>1. [v EXCEPT !.at = "served"] \in revocations'
      BY DEF HubServesRevocation, history
    <3>2. v \in Revocations
      BY DEF IInv, TypeOK, history
    <3> QED BY <2>1, <3>1, <3>2 DEF Revocations, history
  <2>2. CASE u # v
    BY <2>2 DEF HubServesRevocation, history
  <2> QED BY <2>1, <2>2
<1>2. Stray => Stray'
  BY <1>1 DEF Stray, HubServesRevocation
<1>3. TypeOK'
  BY DEF IInv, HubServesRevocation, Ended, TypeOK, Revocations, history
<1>4. Numbered'
  BY DEF IInv, HubServesRevocation, Numbered, TypeOK, Revocations, history
<1>5. EnrollsPending'
  BY DEF IInv, HubServesRevocation, EnrollsPending, OneEnrollment, history
<1>6. DialsActive'
  BY DEF IInv, HubServesRevocation, DialsActive, history
<1>7. RevokesDisconnecting'
  BY DEF IInv, HubServesRevocation, RevokesDisconnecting, TypeOK, Revocations, history
<1>8. WaitsForAll'
  BY DEF IInv, HubServesRevocation, WaitsForAll, TypeOK, Revocations, history
<1>9. HubSaid'
  BY DEF IInv, HubServesRevocation, Ended, HubSaid, TypeOK, Revocations, history
<1>10. SettledWhenRevoking'
  <2>1. \A r : Settled(r) => Settled(r)'
    BY DEF IInv, TypeOK, HubServesRevocation, Ended, Settled
  <2>2. \A u \in revocations' : \E x \in revocations : u.rel = x.rel
    BY DEF IInv, TypeOK, HubServesRevocation, Revocations
  <2> QED BY <2>1, <2>2
          DEF IInv, HubServesRevocation, SettledWhenRevoking, RevokesAfterSettling, WaitsFor,
              history
<1>11. RevokedBeforeForgotten'
  BY DEF IInv, HubServesRevocation, Ended, RevokedBeforeForgotten, Settled, history
<1>12. AlwaysDriven'
  BY <1>2, <1>1 DEF IInv, AlwaysDriven, HubServesRevocation, WaitsFor
<1>13. StatusHonest'
  BY <1>2 DEF IInv, StatusHonest, HubServesRevocation
<1> QED BY <1>3, <1>4, <1>5, <1>6, <1>7, <1>8, <1>9, <1>10, <1>11, <1>12, <1>13 DEF IInv, history

LEMMA HubEndsPreserves ==
  ASSUME IInv, NEW r \in Relationships, HubEnds(r)
  PROVE  IInv'
<1>1. TypeOK'
  BY DEF IInv, HubEnds, daemonVars, TypeOK, history
<1>2. Numbered'
  BY DEF IInv, HubEnds, daemonVars, Numbered, history
<1>3. EnrollsPending'
  BY DEF IInv, HubEnds, daemonVars, EnrollsPending, OneEnrollment, history
<1>4. DialsActive'
  BY DEF IInv, HubEnds, daemonVars, DialsActive, history
<1>5. RevokesDisconnecting'
  BY DEF IInv, HubEnds, daemonVars, RevokesDisconnecting, history
<1>6. WaitsForAll'
  BY DEF IInv, HubEnds, daemonVars, WaitsForAll, history
<1>7. HubSaid'
  BY DEF IInv, HubEnds, daemonVars, HubSaid, history
<1>8. SettledWhenRevoking'
  BY DEF IInv, HubEnds, daemonVars, SettledWhenRevoking, Settled, RevokesAfterSettling, WaitsFor,
         RevokesDisconnecting, WaitsForAll, Idle, TypeOK, history
<1>9. RevokedBeforeForgotten'
  BY DEF IInv, HubEnds, daemonVars, RevokedBeforeForgotten, Settled, history
<1>10. AlwaysDriven'
  BY DEF IInv, HubEnds, daemonVars, AlwaysDriven, Stray, WaitsFor, RevokesDisconnecting,
         Numbered, history
<1>11. StatusHonest'
  BY DEF IInv, HubEnds, daemonVars, StatusHonest, Stray, WaitsFor, RevokesDisconnecting,
         Numbered, history
<1> QED BY <1>1, <1>2, <1>3, <1>4, <1>5, <1>6, <1>7, <1>8, <1>9, <1>10, <1>11 DEF IInv, history

LEMMA RestartPreserves ==
  ASSUME IInv, Restart
  PROVE  IInv'
<1>1. TypeOK'
  <2>1. attempts' \in [Slots -> Attempts]
    BY NamesRelationships, RequestTypes, IdleType DEF IInv, TypeOK, Restart, history
  <2>2. revocations' \subseteq Revocations
    <3>1. CASE record.state = "disconnecting"
      BY <3>1, NamesRelationships, RequestTypes DEF IInv, Restart
    <3>2. CASE record.state # "disconnecting"
      BY <3>2 DEF Restart
    <3> QED BY <3>1, <3>2
  <2> QED BY NamesRelationships, <2>1, <2>2 DEF IInv, TypeOK, Restart, NoRetry, NoSocket, history
<1>2. Numbered'
  BY NamesRelationships, SupersededFacts, RevokingFacts
  DEF IInv, Restart, NoRetry, Enrolling, Idle, Fenced, Free, Numbered, TypeOK,
      EnrollsPending, RevokesDisconnecting, Revocations, Held, None, history
<1>3. EnrollsPending'
  BY DEF Restart, NoRetry, Enrolling, Idle, EnrollsPending, OneEnrollment, history
<1>4. DialsActive'
  BY DEF IInv, Restart, NoRetry, NoSocket, DialsActive, history
<1>5. RevokesDisconnecting'
  BY DEF Restart, NoRetry, Revoking, RevokesDisconnecting, history
<1>6. WaitsForAll'
  BY DEF IInv, Restart, WaitsForAll, history
<1>7. HubSaid'
  BY DEF IInv, Restart, Enrolling, Idle, Revoking, HubSaid, history
<1>8. SettledWhenRevoking'
  <2>1. record.state = "disconnecting" => Settled(record.rel)'
    BY DEF Restart, Settled, Idle
  <2>2. revocations' = IF record.state = "disconnecting" THEN {Revoking(record.rel,
  "start")} ELSE {}
    BY DEF Restart
  <2> QED BY <2>1, <2>2, RevokingFacts
          DEF Restart, NoRetry, SettledWhenRevoking, RevokesAfterSettling
<1>9. RevokedBeforeForgotten'
  BY DEF IInv, Restart, Enrolling, Idle, RevokedBeforeForgotten, Settled, TypeOK, history
<1>10. AlwaysDriven'
  <2>1. CASE record.state = "pending"
    BY <2>1, BoundsAssumption
    DEF IInv, AlwaysDriven, Restart, Enrolling, Slots, Stray, WaitsFor, RevokesDisconnecting,
        Numbered, history
  <2>2. CASE record.state = "active"
    BY <2>2
    DEF IInv, AlwaysDriven, Restart, Stray, WaitsFor, RevokesDisconnecting, Numbered, history
  <2>3. CASE record.state = "disconnecting"
    <3>1. Revoking(record.rel, "start") \in revocations'
      BY <2>3 DEF Restart, history
    <3> QED BY <2>3, <3>1, RevokingFacts
            DEF AlwaysDriven, Restart, Stray, WaitsFor, RevokesDisconnecting, Numbered, history
  <2> QED BY <2>1, <2>2, <2>3
          DEF AlwaysDriven, Restart, Stray, WaitsFor, RevokesDisconnecting, Numbered, history
<1>11. StatusHonest'
  BY DEF IInv, Restart, StatusHonest, Stray, WaitsFor, RevokesDisconnecting, Numbered, history
<1> QED BY <1>1, <1>2, <1>3, <1>4, <1>5, <1>6, <1>7, <1>8, <1>9, <1>10, <1>11 DEF IInv, history

----------------------------------------------------------------------------
LEMMA InitInvariant == Init => IInv
BY BoundsAssumption, IdleType
   DEF Init, IInv, TypeOK, Numbered, EnrollsPending, OneEnrollment, DialsActive,
       RevokesDisconnecting, WaitsForAll, HubSaid, SettledWhenRevoking,
       RevokedBeforeForgotten, AlwaysDriven, StatusHonest, NoRecord, NoRetry, NoSocket, Idle,
       Held, None, Relationships, Stray, WaitsFor, RevokesAfterSettling, Settled, history

LEMMA StutterPreserves ==
  ASSUME IInv, UNCHANGED vars
  PROVE  IInv'
BY DEF vars, daemonVars, IInv, TypeOK, Numbered, EnrollsPending, OneEnrollment, DialsActive,
       RevokesDisconnecting, WaitsForAll, HubSaid, SettledWhenRevoking, Settled,
       RevokedBeforeForgotten, AlwaysDriven, StatusHonest, Stray, WaitsFor, RevokesAfterSettling,
       Idle, history

LEMMA NextPreserves ==
  ASSUME IInv, [Next]_vars
  PROVE  IInv'
<1>1. ASSUME NEW s \in Slots,
             \/ Connect(s) \/ ConnectAfresh(s) \/ EnrollmentAccepted(s) \/ EnrollmentRefused(s)
             \/ EnrollmentFails(s) \/ StaleEnrollmentSettles(s) \/ RetryEnrollment(s)
             \/ HubGrants(s) \/ HubRefuses(s)
      PROVE  IInv'
  BY <1>1, ConnectPreserves, ConnectAfreshPreserves, EnrollmentAcceptedPreserves,
     EnrollmentRefusedPreserves, EnrollmentFailsPreserves, StaleEnrollmentSettlesPreserves,
     RetryEnrollmentPreserves, HubGrantsPreserves, HubRefusesPreserves
<1>2. ASSUME NEW v \in revocations,
             RevocationAnswered(v) \/ RevocationFails(v) \/ HubServesRevocation(v)
      PROVE  IInv'
  BY <1>2, RevocationAnsweredPreserves, RevocationFailsPreserves, HubServesRevocationPreserves
<1>3. ASSUME NEW r \in Relationships, HubEnds(r)
      PROVE  IInv'
  BY <1>3, HubEndsPreserves
<1>4. CASE DisconnectLocally \/ Disconnect \/ RetrySocket \/ RetryRevocation
  BY <1>4, DisconnectLocallyPreserves, DisconnectPreserves, RetrySocketPreserves,
     RetryRevocationPreserves
<1>5. CASE SocketConnected \/ SocketRevoked \/ SocketLost \/ Restart
  BY <1>5, SocketConnectedPreserves, SocketRevokedPreserves, SocketLostPreserves,
     RestartPreserves
<1>6. CASE UNCHANGED vars
  BY <1>6, StutterPreserves
<1> QED BY <1>1, <1>2, <1>3, <1>4, <1>5, <1>6 DEF Next, history

THEOREM Invariance ==
  Spec => []IInv
BY InitInvariant, NextPreserves, PTL DEF Spec

----------------------------------------------------------------------------
\* The controller's state keeps its types, for any number of relationships and
\* of requests in flight.
THEOREM TypeCorrectness == Spec => []TypeOK
<1>1. IInv => TypeOK
  BY DEF IInv
<1> QED BY <1>1, Invariance, PTL

\* The daemon never forgets a relationship the Hub holds or may still grant, but
\* by --force, on a refused enrollment, or in the two ways the code loses one: a
\* second disconnect overtakes the one that waits, and a stray revocation.
THEOREM NothingLeftBehind == Spec => []RevokedBeforeForgotten
<1>1. IInv => RevokedBeforeForgotten
  BY DEF IInv
<1> QED BY <1>1, Invariance, PTL

\* A revocation is requested only when no enrollment can be granted after it, but
\* for a relationship whose waiting disconnect was overtaken.
THEOREM RevocationsComeLast == Spec => []RevokesAfterSettling
<1>1. IInv => RevokesAfterSettling
  BY DEF IInv, RevokesDisconnecting, WaitsForAll, SettledWhenRevoking, RevokesAfterSettling
<1> QED BY <1>1, Invariance, PTL

\* Execution authority exists only for the active relationship, and a socket only
\* for it or for one a stray revocation removed.
THEOREM AuthorityFollowsRecord == Spec => []AuthorityIsActive
<1>1. IInv => AuthorityIsActive
  BY DEF IInv, TypeOK, DialsActive, AuthorityIsActive
<1> QED BY <1>1, Invariance, PTL

\* No cancellation of the one timer ever leaves a relationship with nothing to
\* move it on but a stray revocation, nor an enrollment with two requests.
THEOREM NeverStranded == Spec => []DrivenByOne
<1>1. IInv => DrivenByOne
  BY DEF IInv, EnrollsPending, DrivenByOne
<1> QED BY <1>1, Invariance, PTL

\* What clients are told is what the record and the socket bear out, except while
\* a stray revocation says the daemon is disconnecting.
THEOREM StatusIsHonest == Spec => []StatusHonest
<1>1. IInv => StatusHonest
  BY DEF IInv
<1> QED BY <1>1, Invariance, PTL

----------------------------------------------------------------------------
\* The refinement: what each step does to the life of each relationship.

LEMMA LifeOfRecord ==
  ASSUME IInv, record.state \in Held
  PROVE  record.rel \in Relationships /\ life[record.rel] = record.state
BY NamesRelationships DEF IInv, Held, life

\* Where the record and the number begun stay, so does life, whatever is said of
\* the relationship the record is of.
LEMMA LifeStays ==
  ASSUME record' = record, issued' = issued,
         \A q \in Relationships :
           \/ record.state \in Held /\ q = record.rel
           \/ q \in (abandoned \cup overtaken)' <=> q \in abandoned \cup overtaken
  PROVE  life' = life
BY DEF life

LEMMA OneLife ==
  ASSUME NEW r \in Relationships, NEW x,
         \A q \in Relationships : life'[q] = IF q = r THEN x ELSE life[q]
  PROVE  life' = [life EXCEPT ![r] = x]
BY DEF life

\* The record of a begun relationship moves from one state to another.
LEMMA LifeMoves ==
  ASSUME IInv, record.state \in Held, record'.state \in Held, record'.rel = record.rel,
         issued' = issued,
         \A q \in Relationships :
           \/ q = record.rel
           \/ q \in (abandoned \cup overtaken)' <=> q \in abandoned \cup overtaken
  PROVE  life' = [life EXCEPT ![record.rel] = record'.state]
<1>1. \A q \in Relationships :
        life'[q] = IF q = record.rel THEN record'.state ELSE life[q]
  BY DEF life
<1> QED BY <1>1, LifeOfRecord, OneLife

\* The record of a begun relationship is gone, or is left without its secret.
LEMMA LifeEnds ==
  ASSUME IInv, record.state \in Held, record'.state \notin Held, issued' = issued,
         \A q \in Relationships :
           \/ q = record.rel
           \/ q \in (abandoned \cup overtaken)' <=> q \in abandoned \cup overtaken
  PROVE  life' = [life EXCEPT ![record.rel] =
                    IF record.rel \in (abandoned \cup overtaken)' THEN "abandoned" ELSE "ended"]
<1>1. record.rel \in 1..issued
  BY DEF IInv, Numbered, Held
<1>2. \A q \in Relationships :
        life'[q] = IF q = record.rel
                     THEN IF record.rel \in (abandoned \cup overtaken)'
                            THEN "abandoned" ELSE "ended"
                     ELSE life[q]
  BY <1>1 DEF life, IInv, TypeOK
<1> QED BY <1>2, LifeOfRecord, OneLife

LEMMA SameRelationships == Authority!Relationships = Relationships
BY DEF Authority!Relationships, Relationships

LEMMA AbandonStep ==
  ASSUME IInv, record.state \in Held, record'.state \notin Held, issued' = issued, grant' = grant,
         record.rel \in (abandoned \cup overtaken)',
         \A q \in Relationships :
           \/ q = record.rel
           \/ q \in (abandoned \cup overtaken)' <=> q \in abandoned \cup overtaken
  PROVE  Authority!Next
<1>1. life' = [life EXCEPT ![record.rel] = "abandoned"]
  BY LifeEnds
<1> QED BY <1>1, LifeOfRecord, SameRelationships
        DEF Authority!Next, Authority!Abandon, Authority!Begun, Held

LEMMA EndStep ==
  ASSUME IInv, record.state \in {"active", "disconnecting"}, record'.state \notin Held,
         issued' = issued, grant' = grant, grant[record.rel] # "held",
         UNCHANGED <<abandoned, overtaken>>, record.rel \notin abandoned \cup overtaken
  PROVE  Authority!Next
<1>1. life' = [life EXCEPT ![record.rel] = "ended"]
  BY LifeEnds DEF Held
<1> QED BY <1>1, LifeOfRecord, SameRelationships DEF Authority!Next, Authority!End, Held

\* The daemon and the Hub keep the promises of HubAuthority: one relationship at
\* a time, its life only goes forward, and it ends only when the Hub holds
\* nothing for it.
THEOREM Refinement == Spec => KeepsAuthority
<1>1. Init => Authority!Init
  BY SameRelationships DEF Init, Authority!Init, life, NoRecord, None, Held, Relationships
<1>2. IInv /\ [Next]_vars => [Authority!Next]_(Authority!vars)
  <2> SUFFICES ASSUME IInv, [Next]_vars
               PROVE  Authority!Next \/ UNCHANGED Authority!vars
    OBVIOUS
  <2>1. ASSUME NEW s \in Slots, Connect(s)
        PROVE  Authority!Next
    <3> DEFINE r == issued + 1
    <3>1. r \in Relationships /\ r \notin 1..issued /\ issued \in Nat
      BY <2>1, NamesRelationships DEF IInv, Connect
    <3>2. \A q \in Relationships : life[q] \notin Held
      BY <2>1 DEF Connect, Held, life
    <3>3. life[r] = "unborn"
      BY <2>1, <3>1 DEF Connect, life, IInv, Numbered, Held, Relationships
    <3>4. \A q \in Relationships : life'[q] = IF q = r THEN "pending" ELSE life[q]
      BY <2>1, <3>1 DEF Connect, life, Held, Relationships, history
    <3>5. life' = [life EXCEPT ![r] = "pending"]
      BY <3>1, <3>4, OneLife
    <3> QED BY <2>1, <3>1, <3>2, <3>3, <3>5, SameRelationships
            DEF Connect, Authority!Next, Authority!Begin, Authority!Begun, Held
  <2>2. CASE DisconnectLocally
    <3>1. CASE record.state \in Held
      <4>1. /\ record' = NoRecord /\ abandoned' = abandoned \cup {record.rel}
            /\ UNCHANGED <<issued, grant, overtaken>>
        BY <2>2, <3>1 DEF DisconnectLocally, Remove
      <4> QED BY <3>1, <4>1, AbandonStep DEF NoRecord, Held
    <3>2. CASE record.state \notin Held
      BY <2>2, <3>2 DEF DisconnectLocally, Remove, NoRecord, Held, life, Authority!vars
    <3> QED BY <3>1, <3>2
  <2>3. CASE Disconnect
    <3>1. life' = [life EXCEPT ![record.rel] = "disconnecting"]
      <4>1. /\ record.state \in Held /\ record' = [state |-> "disconnecting", rel |-> record.rel]
            /\ UNCHANGED <<issued, grant, abandoned>>
            /\ \A q : q # record.rel => (q \in overtaken' <=> q \in overtaken)
        BY <2>3 DEF IInv, TypeOK, Disconnect
      <4> QED BY <4>1, LifeMoves DEF Held
    <3>2. CASE record.state \in {"pending", "active"}
      BY <2>3, <3>1, <3>2, LifeOfRecord, SameRelationships
      DEF Disconnect, Held, Authority!Next, Authority!Leave
    <3>3. CASE record.state = "disconnecting"
      <4>1. /\ record' = record /\ UNCHANGED <<issued, grant, abandoned>>
            /\ \A q : q # record.rel => (q \in overtaken' <=> q \in overtaken)
        BY <2>3, <3>3 DEF IInv, TypeOK, Disconnect
      <4> QED BY <3>3, <4>1, LifeStays DEF Held, Authority!vars
    <3> QED BY <2>3, <3>2, <3>3 DEF Disconnect, Held
  <2>4. ASSUME NEW s \in Slots, EnrollmentAccepted(s)
        PROVE  Authority!Next
    <3>1. record.state = "pending" /\ record.rel = attempts[s].rel /\ grant[record.rel] # "never"
      BY <2>4 DEF IInv, EnrollsPending, HubSaid, EnrollmentAccepted
    <3>2. life' = [life EXCEPT ![record.rel] = "active"]
      BY <2>4, <3>1, LifeMoves DEF EnrollmentAccepted, Held, history
    <3> QED BY <2>4, <3>1, <3>2, LifeOfRecord, SameRelationships
            DEF EnrollmentAccepted, Held, Authority!Next, Authority!Activate
  <2>5. ASSUME NEW s \in Slots, EnrollmentRefused(s)
        PROVE  Authority!Next
    <3>1. /\ record.state = "pending" /\ record' = NoRecord
          /\ abandoned' = abandoned \cup {record.rel} /\ UNCHANGED <<issued, grant, overtaken>>
      BY <2>5 DEF IInv, EnrollsPending, EnrollmentRefused, Remove
    <3> QED BY <3>1, AbandonStep DEF NoRecord, Held
  <2>6. ASSUME NEW v \in revocations, RevocationAnswered(v)
        PROVE  Authority!Next \/ UNCHANGED Authority!vars
    <3>1. /\ record' = NoRecord /\ UNCHANGED <<issued, grant, abandoned>>
          /\ overtaken' = overtaken \cup
               {r \in {record.rel} : record.state \in Held /\ r # v.rel /\ v.by = "waited"}
      BY <2>6 DEF RevocationAnswered, Remove
    <3>2. CASE record.state \notin Held
      BY <3>1, <3>2 DEF NoRecord, Held, life, Authority!vars
    <3>3. CASE record.state \in Held /\ record.rel # v.rel
      <4>1. record.rel \in overtaken'
        BY <3>1, <3>3 DEF IInv, RevokesDisconnecting
      <4> QED BY <3>1, <3>3, <4>1, AbandonStep DEF NoRecord, Held
    <3>4. CASE record.state \in Held /\ record.rel = v.rel
      <4>1. record.state = "disconnecting" /\ overtaken' = overtaken /\ record.rel \notin abandoned
        BY <3>1, <3>4 DEF IInv, RevokesDisconnecting, Numbered
      <4>2. CASE record.rel \in overtaken
        BY <3>1, <3>4, <4>1, <4>2, AbandonStep DEF NoRecord, Held
      <4>3. CASE record.rel \notin overtaken
        <5>1. grant[record.rel] # "held"
          BY <2>6, <3>4, <4>3 DEF IInv, HubSaid, RevocationAnswered
        <5> QED BY <3>1, <4>1, <4>3, <5>1, EndStep DEF NoRecord, Held
      <4> QED BY <4>2, <4>3
    <3> QED BY <3>2, <3>3, <3>4
  <2>7. CASE SocketRevoked
    <3>1. CASE socket.current
      <4>1. /\ record.state = "active" /\ record.rel = socket.rel /\ grant[record.rel] = "ended"
            /\ record.rel \notin abandoned \cup overtaken
        BY <2>7, <3>1 DEF IInv, DialsActive, Numbered, Held, SocketRevoked
      <4>2. record'.state = "revoked" /\ UNCHANGED <<issued, grant, abandoned, overtaken>>
        BY <2>7, <3>1 DEF IInv, TypeOK, SocketRevoked, Revoke, history
      <4> QED BY <4>1, <4>2, EndStep DEF Held
    <3>2. CASE ~socket.current
      BY <2>7, <3>2, LifeStays DEF SocketRevoked, Authority!vars, history
    <3> QED BY <3>1, <3>2
  <2>8. ASSUME NEW s \in Slots, HubGrants(s)
        PROVE  Authority!Next \/ UNCHANGED Authority!vars
    <3> DEFINE r == attempts[s].rel
    <3>1. r \in Relationships /\ r \in 1..issued
      BY <2>8, NamesRelationships DEF IInv, Numbered, HubGrants
    <3>2. life' = life
      BY <2>8, LifeStays DEF HubGrants, history
    <3>3. CASE grant[r] = "held"
      BY <2>8, <3>2, <3>3 DEF IInv, TypeOK, HubGrants, Authority!vars
    <3>4. CASE grant[r] = "never"
      <4>1. life[r] \in Held \cup {"abandoned"}
        BY <2>8, <3>1, <3>4
        DEF IInv, RevokedBeforeForgotten, Settled, HubGrants, life
      <4> QED BY <2>8, <3>1, <3>2, <3>4, <4>1, SameRelationships
              DEF HubGrants, Held, Authority!Next, Authority!Grant, Authority!Begun
    <3> QED BY <2>8, <3>1, <3>3, <3>4 DEF IInv, TypeOK, HubGrants
  <2>9. ASSUME NEW v \in revocations, HubServesRevocation(v)
        PROVE  Authority!Next \/ UNCHANGED Authority!vars
    <3>1. life' = life /\ v.rel \in Relationships
      BY <2>9, LifeStays DEF IInv, TypeOK, Revocations, HubServesRevocation, history
    <3>2. CASE grant[v.rel] = "held"
      BY <2>9, <3>1, <3>2, SameRelationships
      DEF HubServesRevocation, Ended, Authority!Next, Authority!Withdraw
    <3>3. CASE grant[v.rel] # "held"
      BY <2>9, <3>1, <3>3 DEF IInv, TypeOK, HubServesRevocation, Ended, Authority!vars
    <3> QED BY <3>2, <3>3
  <2>10. ASSUME NEW r \in Relationships, HubEnds(r)
         PROVE  Authority!Next
    BY <2>10, LifeStays, SameRelationships
    DEF HubEnds, daemonVars, history, Authority!Next, Authority!Withdraw
  <2>11. CASE UNCHANGED <<record, issued, grant, history>>
    BY <2>11, LifeStays DEF Authority!vars, history
  <2>12. ASSUME NEW s \in Slots, StaleEnrollmentSettles(s)
         PROVE  UNCHANGED Authority!vars
    <3>1. /\ UNCHANGED <<record, issued, grant, abandoned>>
          /\ \A q : q # record.rel => (q \in overtaken' <=> q \in overtaken)
          /\ record.state # "disconnecting" => overtaken' = overtaken
      BY <2>12 DEF StaleEnrollmentSettles, ResumedStart
    <3> QED BY <3>1, LifeStays DEF Held, Authority!vars
  <2>13. \/ \E s \in Slots : \/ Connect(s) \/ EnrollmentAccepted(s) \/ EnrollmentRefused(s)
                             \/ HubGrants(s) \/ StaleEnrollmentSettles(s)
         \/ \E v \in revocations : RevocationAnswered(v) \/ HubServesRevocation(v)
         \/ \E r \in Relationships : HubEnds(r)
         \/ DisconnectLocally \/ Disconnect \/ SocketRevoked
         \/ UNCHANGED <<record, issued, grant, history>>
    BY DEF Next, ConnectAfresh, EnrollmentFails, RetryEnrollment,
           HubRefuses, RevocationFails, RetrySocket, RetryRevocation, SocketConnected,
           SocketLost, Restart, vars, daemonVars
  <2> QED
    BY <2>1, <2>2, <2>3, <2>4, <2>5, <2>6, <2>7, <2>8, <2>9, <2>10, <2>11, <2>12, <2>13
<1> QED
  BY <1>1, <1>2, Invariance, PTL DEF Spec, Authority!Spec, KeepsAuthority
============================================================================
