------------------------- MODULE ArenaBattleProofs -------------------------
(***************************************************************************)
(* Proofs about ArenaBattle and ArenaLaunch, for any set of fault kinds    *)
(* and any bounds on faults and waiting mutations.                         *)
(*                                                                         *)
(* First what both specifications keep: types, and which mutation a step   *)
(* belongs to.  Then the battle that has been started: what its file, the  *)
(* copy of the running mutation, the proxy and the agents say of each      *)
(* other.  Then the launch.                                                *)
(***************************************************************************)
EXTENDS ArenaLaunch, FiniteSetTheorems, SequenceTheorems, TLAPS

-----------------------------------------------------------------------------
(* Types, and which mutation a step belongs to *)

\* The steps a mutation goes through.
StepOf(step, op) ==
  /\ step \in {"sync", "promote", "card"} => op = "vote"
  /\ step = "send" => op \in {"vote", "stop", "get"}
  /\ step = "retire" => op \in {"vote", "stop"}
  /\ step \in {"report", "settle", "abandon"} => op = "finish"
  /\ step \in {"prepare", "syncEdits", "syncNoEdits", "compareEdits", "compareNoEdits",
               "saveAndPoll"} => op \in {"get", "finish"}

\* The running mutation is the head of the queue, and pc is one of its steps.
Steady ==
  /\ pc = "idle" => mem = Started
  /\ pc # "idle" => queue # <<>> /\ StepOf(pc, Head(queue).op)

\* The parts of the state that a step changes together.
ProxyFits ==
  /\ px \in Record /\ generations \in Nat /\ late \subseteq Requests
  /\ faults \in Seq(Faults) /\ Len(faults) <= MaxFaults
OpFits == queue \in Seq(Mutations) /\ pc \in Steps /\ mem \in Battle /\ Steady
FileFits == disk \in Battle /\ polls \in Nat
WorldFits ==
  /\ agent \in [Sides -> Agents] /\ monitor \in [Sides -> BOOLEAN]
  /\ space \in [Sides -> Spaces]
  /\ source \in {"idle", "archived"} /\ card \in BOOLEAN

Shape == ProxyFits /\ OpFits /\ FileFits /\ WorldFits

Ends(i, s) == queue[i].op = "finish" /\ queue[i].side = s

\* Started is a record of a battle.
LEMMA StartedType == Started \in Battle
  BY DEF Started, Battle, Sides, SideStatuses, Decisions, Votes, None, Comparisons

\* Every request leaves a proxy record (service.ts).
LEMMA EffectType ==
  ASSUME NEW r \in Record, NEW q \in Requests
  PROVE  Effect(r, q) \in Record
<1>1. CASE q.op = "complete"
  BY <1>1 DEF Requests, Effect, Completed, Record
<1>2. CASE q.op = "vote"
  <2>1. q.arg \in Votes /\ Winner(q.arg) \in Sides
    BY <1>2 DEF Requests, Votes, Winner, Sides
  <2> QED
    BY <1>2, <2>1 DEF Effect, Voted, Record, Decisions, Comparisons
<1>3. CASE q.op = "stop"
  BY <1>3 DEF Effect, Stopped, Record, Decisions, Comparisons
<1>4. CASE q.op = "compare"
  BY <1>4 DEF Effect, Compared, Record, Comparisons
<1> QED
  BY <1>1, <1>2, <1>3, <1>4 DEF Requests

\* A fault is remembered, and so are those before it.
LEMMA FaultFacts ==
  ASSUME faults \in Seq(Faults), NEW kind, Fault(kind)
  PROVE  /\ faults' \in Seq(Faults) /\ Len(faults') <= MaxFaults
         /\ Suffered(kind)'
         /\ \A k : Suffered(k) => Suffered(k)'
<1>1. /\ kind \in Faults /\ faults' = Append(faults, kind)
      /\ Len(faults) \in Nat /\ Len(faults) < MaxFaults /\ MaxFaults \in Nat
  BY FaultsAssumption DEF Fault
<1>2. faults' \in Seq(Faults) /\ Len(faults') = Len(faults) + 1
  BY <1>1
<1>3. faults'[Len(faults) + 1] = kind /\ \A i \in 1..Len(faults) : faults'[i] = faults[i]
  BY <1>1
<1>4. DOMAIN faults = 1..Len(faults) /\ DOMAIN faults' = 1..Len(faults')
  BY <1>2
<1>5. Suffered(kind)'
  BY <1>1, <1>2, <1>3, <1>4 DEF Suffered
<1>6. ASSUME NEW k, Suffered(k) PROVE Suffered(k)'
  BY <1>1, <1>2, <1>3, <1>4, <1>6 DEF Suffered
<1> QED
  BY <1>1, <1>2, <1>5, <1>6

\* A call that the proxy accepts, refuses, or does not answer in time.
LEMMA CallType ==
  ASSUME ProxyFits, NEW q \in Requests, Accepts(q) \/ Refuses(q) \/ TimesOut(q)
  PROVE  ProxyFits'
<1>1. CASE Accepts(q)
  BY <1>1, EffectType DEF ProxyFits, Accepts
<1>2. CASE Refuses(q)
  BY <1>2 DEF ProxyFits, Refuses
<1>3. CASE TimesOut(q)
  BY <1>3, FaultFacts DEF ProxyFits, TimesOut
<1> QED
  BY <1>1, <1>2, <1>3

\* The calls of syncTerminalSides.
LEMMA SyncType ==
  ASSUME ProxyFits, mem \in Battle, NEW lost \in SUBSET CompletedSides(mem), SyncCalls(lost)
  PROVE  ProxyFits'
<1>1. px' \in Record
  <2> DEFINE done == [s \in Sides |-> px.completed[s] \/ s \in CompletedSides(mem) \ lost]
  <2>1. done \in [Sides -> BOOLEAN]
    OBVIOUS
  <2>2. px' = [px EXCEPT !.completed = done]
    BY Zenon DEF SyncCalls
  <2> HIDE DEF done
  <2> QED
    BY <2>1, <2>2 DEF ProxyFits, Record
<1>2. lost \subseteq Sides
  BY DEF CompletedSides
<1>3. late' \subseteq Requests
  BY <1>2 DEF ProxyFits, SyncCalls, Requests
<1>4. faults' \in Seq(Faults) /\ Len(faults') <= MaxFaults
  <2>1. CASE lost = {}
    BY <2>1 DEF ProxyFits, SyncCalls
  <2>2. CASE lost # {}
    BY <2>2, FaultFacts DEF ProxyFits, SyncCalls
  <2> QED
    BY <2>1, <2>2
<1> QED
  BY <1>1, <1>3, <1>4 DEF ProxyFits, SyncCalls

\* applyProxyDecision changes the decision, and no side.
LEMMA AppliedFacts ==
  ASSUME NEW b \in Battle, NEW r \in Record
  PROVE  /\ Applied(b, r) \in Battle
         /\ Applied(b, r).side = b.side /\ Applied(b, r).status = b.status
         /\ Applied(b, r).linked = b.linked
         /\ Applied(b, r).decision = r.vote /\ Applied(b, r).winner = r.winner
         /\ Applied(b, r).early = r.early /\ Applied(b, r).comparison = r.comparison
         /\ Applied(b, r).revealed = (r.vote \in Votes)
<1> DEFINE open == Revealed(r)
<1>1. Applied(b, r) = [b EXCEPT !.decision = r.vote, !.winner = r.winner, !.early = r.early,
                                !.revealed = open, !.comparison = r.comparison]
  BY Zenon DEF Applied
<1>2. open \in BOOLEAN /\ open = (r.vote \in Votes)
  BY DEF Revealed
<1> HIDE DEF open
<1> QED
  BY <1>1, <1>2 DEF Battle, Record

\* cancelAndArchiveSide marks sides that had not ended, and nothing else.
LEMMA CancelledFacts ==
  ASSUME NEW b \in Battle, NEW S
  PROVE  /\ Cancelled(b, S) \in Battle
         /\ Cancelled(b, S) = [b EXCEPT !.side = Cancelled(b, S).side]
         /\ \A s \in Sides :
              Cancelled(b, S).side[s] = b.side[s]
                \/ (b.side[s] \notin Terminal /\ Cancelled(b, S).side[s] = "cancelled")
<1> DEFINE now == [s \in Sides |->
                     IF s \in S /\ b.side[s] \notin Terminal THEN "cancelled" ELSE b.side[s]]
<1>1. Cancelled(b, S) = [b EXCEPT !.side = now]
  BY Zenon DEF Cancelled
<1>2. now \in [Sides -> SideStatuses]
  BY DEF Battle, SideStatuses, Terminal
<1>3. \A s \in Sides :
        now[s] = b.side[s] \/ (b.side[s] \notin Terminal /\ now[s] = "cancelled")
  <2> TAKE s \in Sides
  <2>1. now[s] = IF s \in S /\ b.side[s] \notin Terminal THEN "cancelled" ELSE b.side[s]
    BY Zenon
  <2> HIDE DEF now
  <2> QED
    BY <2>1
<1> HIDE DEF now
<1> QED
  BY <1>1, <1>2, <1>3 DEF Battle

-----------------------------------------------------------------------------
(* The queue *)

\* What every step leaves of the mutations that were waiting.
Kept ==
  /\ queue' \in Seq(Mutations)
  /\ Len(queue) <= Len(queue')
  /\ \A i \in 1..Len(queue) : queue'[i] = queue[i]

\* A mutation that joins the queue joins it last.
LEMMA AppendFacts ==
  ASSUME queue \in Seq(Mutations), NEW m \in Mutations, queue' = Append(queue, m)
  PROVE  /\ Kept
         /\ Len(queue') = Len(queue) + 1
         /\ queue'[Len(queue) + 1] = m
  BY DEF Kept

\* The head leaves the queue, and the others move up.
LEMMA ReleaseFacts ==
  ASSUME queue \in Seq(Mutations), queue # <<>>, Release
  PROVE  /\ queue' \in Seq(Mutations)
         /\ Len(queue') = Len(queue) - 1
         /\ \A i \in 1..Len(queue') : i + 1 \in 1..Len(queue) /\ queue'[i] = queue[i + 1]
         /\ pc' = "idle" /\ mem' = Started
  BY DEF Release

\* The head is the first, whatever joins behind it.
LEMMA HeadFacts ==
  ASSUME queue \in Seq(Mutations), queue # <<>>
  PROVE  /\ Head(queue) = queue[1] /\ 1 \in 1..Len(queue)
         /\ Head(queue) \in Mutations
         /\ Kept => queue' # <<>> /\ Head(queue') = Head(queue)
<1>1. Head(queue) = queue[1] /\ 1 \in 1..Len(queue) /\ Head(queue) \in Mutations
  OBVIOUS
<1>2. ASSUME Kept PROVE queue' # <<>> /\ Head(queue') = Head(queue)
  <2>1. Len(queue) \in Nat /\ Len(queue') \in Nat /\ Len(queue) >= 1 /\ Len(queue') >= 1
    BY <1>1, <1>2 DEF Kept
  <2>2. queue' # <<>> /\ Head(queue') = queue'[1]
    BY <1>2, <2>1 DEF Kept
  <2> QED
    BY <1>1, <1>2, <2>2 DEF Kept
<1> QED
  BY <1>1, <1>2

\* archiveSide for some sides: they end archived unless archiving fails, and every
\* run it cancels under a monitor is one mutation more.
LEMMA RetireFacts ==
  ASSUME queue \in Seq(Mutations), faults \in Seq(Faults), Len(faults) <= MaxFaults,
         agent \in [Sides -> Agents], monitor \in [Sides -> BOOLEAN],
         space \in [Sides -> Spaces],
         NEW S \in SUBSET Sides, NEW kept, Retire(S, kept)
  PROVE  /\ faults' \in Seq(Faults) /\ Len(faults') <= MaxFaults
         /\ \A k : Suffered(k) => Suffered(k)'
         /\ agent' \in [Sides -> Agents] /\ monitor' \in [Sides -> BOOLEAN]
         /\ space' \in [Sides -> Spaces]
         /\ \A s \in Sides :
              /\ agent[s] # "none" => agent'[s] # "none"
              /\ agent[s] = "archived" => agent'[s] = "archived"
              /\ space'[s] \in {space[s], "archived"}
              /\ s \notin S => agent'[s] = agent[s] /\ space'[s] = space[s]
              /\ s \in S => \/ Suffered("archive")'
                            \/ /\ space'[s] = "archived"
                               /\ agent[s] # "none" => agent'[s] = "archived"
              /\ monitor'[s] => monitor[s]
         /\ Kept
         /\ \A i \in 1..Len(queue') : i > Len(queue) =>
              /\ queue'[i].op = "finish" /\ queue'[i].side \in Sides
              /\ monitor[queue'[i].side] /\ ~monitor'[queue'[i].side]
              /\ \A j \in 1..Len(queue') :
                   j > Len(queue) /\ queue'[j].side = queue'[i].side => i = j
<1> DEFINE seen == {s \in S : agent[s] = "running" /\ monitor[s]}
<1>1. PICK order \in SetToSeqs(seen) :
        queue' = queue \o [i \in 1..Len(order) |->
                             [op |-> "finish", side |-> order[i], arg |-> "cancelled"]]
  BY Zenon DEF Retire
<1>2. IsFiniteSet(seen) /\ Cardinality(seen) \in Nat
  <2>1. IsFiniteSet(Sides)
    <3>1. Sides = {"A"} \cup {"B"}
      BY DEF Sides
    <3> QED
      BY <3>1, FS_Singleton, FS_Union
  <2> QED
    BY <2>1, FS_Subset, FS_CardinalityType
<1>3. /\ order \in [1..Cardinality(seen) -> seen]
      /\ \A i, j \in 1..Cardinality(seen) : i # j => order[i] # order[j]
  BY <1>1 DEF SetToSeqs
<1>4. order \in Seq(seen) /\ Len(order) = Cardinality(seen)
  <2> HIDE DEF seen
  <2> QED
    BY <1>2, <1>3
<1> DEFINE new == [i \in 1..Len(order) |->
                     [op |-> "finish", side |-> order[i], arg |-> "cancelled"]]
<1>5. \A i \in 1..Len(order) :
        /\ new[i] = [op |-> "finish", side |-> order[i], arg |-> "cancelled"]
        /\ new[i] \in Mutations /\ new[i].side = order[i] /\ order[i] \in seen
  <2> TAKE i \in 1..Len(order)
  <2>1. new[i] = [op |-> "finish", side |-> order[i], arg |-> "cancelled"]
    OBVIOUS
  <2>2. order[i] \in seen /\ order[i] \in Sides
    BY <1>3, <1>4
  <2> HIDE DEF new
  <2> QED
    BY <2>1, <2>2 DEF Mutations, Outcomes
<1>6. new \in Seq(Mutations) /\ Len(new) = Len(order)
  <2>1. DOMAIN new = 1..Len(order) /\ Len(order) \in Nat
    BY <1>2, <1>4
  <2>2. new \in [1..Len(order) -> Mutations]
    BY <1>5
  <2> HIDE DEF new
  <2> QED
    BY <2>1, <2>2
<1>7. queue' = queue \o new
  BY <1>1
<1> HIDE DEF new
<1>8. /\ queue' \in Seq(Mutations) /\ Len(queue') = Len(queue) + Len(order)
      /\ Len(queue) \in Nat /\ Len(order) \in Nat
      /\ \A i \in 1..Len(queue) : queue'[i] = queue[i]
      /\ \A i \in 1..Len(queue') : i > Len(queue) =>
           queue'[i] = new[i - Len(queue)] /\ i - Len(queue) \in 1..Len(order)
  <2>1. Len(queue) \in Nat /\ Len(order) \in Nat
    BY <1>2, <1>4
  <2>2. queue' \in Seq(Mutations) /\ Len(queue') = Len(queue) + Len(order)
    BY <1>6, <1>7, ConcatProperties
  <2>3. ASSUME NEW i \in 1..Len(queue')
        PROVE  queue'[i] = IF i <= Len(queue) THEN queue[i] ELSE new[i - Len(queue)]
    BY <1>6, <1>7, <2>1, <2>2
  <2>4. ASSUME NEW i \in 1..Len(queue) PROVE queue'[i] = queue[i]
    BY <2>1, <2>2, <2>3
  <2>5. ASSUME NEW i \in 1..Len(queue'), i > Len(queue)
        PROVE  queue'[i] = new[i - Len(queue)] /\ i - Len(queue) \in 1..Len(order)
    BY <2>1, <2>2, <2>3, <2>5
  <2> QED
    BY <2>1, <2>2, <2>4, <2>5
<1>9. Kept
  BY <1>8 DEF Kept
<1>10. ASSUME NEW s \in Sides PROVE monitor'[s] = (monitor[s] /\ s \notin seen)
  BY Zenon DEF Retire
<1>11. monitor' \in [Sides -> BOOLEAN]
  BY DEF Retire
<1>12. ASSUME NEW i \in 1..Len(queue'), i > Len(queue)
       PROVE  /\ queue'[i].op = "finish" /\ queue'[i].side \in Sides
              /\ monitor[queue'[i].side] /\ ~monitor'[queue'[i].side]
              /\ \A j \in 1..Len(queue') :
                   j > Len(queue) /\ queue'[j].side = queue'[i].side => i = j
  <2>1. /\ i - Len(queue) \in 1..Len(order)
        /\ queue'[i].op = "finish" /\ queue'[i].side = order[i - Len(queue)]
        /\ order[i - Len(queue)] \in seen
    <3> HIDE DEF seen
    <3>1. i - Len(queue) \in 1..Len(order) /\ queue'[i] = new[i - Len(queue)]
      BY <1>8, <1>12
    <3>2. new[i - Len(queue)] = [op |-> "finish", side |-> order[i - Len(queue)],
                                 arg |-> "cancelled"]
      BY <1>5, <3>1
    <3> QED
      BY <1>5, <3>1, <3>2
  <2>2. ASSUME NEW j \in 1..Len(queue'), j > Len(queue), queue'[j].side = queue'[i].side
        PROVE  i = j
    <3> HIDE DEF seen
    <3>1. j - Len(queue) \in 1..Len(order) /\ queue'[j] = new[j - Len(queue)]
      BY <1>8, <2>2
    <3>2. new[j - Len(queue)].side = order[j - Len(queue)]
      BY <1>5, <3>1
    <3>3. i - Len(queue) = j - Len(queue)
      BY <1>3, <1>4, <2>1, <2>2, <3>1, <3>2
    <3> QED
      BY <1>8, <3>3
  <2> QED
    BY <1>10, <2>1, <2>2
<1>13. /\ faults' \in Seq(Faults) /\ Len(faults') <= MaxFaults
       /\ \A k : Suffered(k) => Suffered(k)'
       /\ kept # {} => Suffered("archive")'
  <2>1. CASE kept = {}
    BY <2>1 DEF Retire, Suffered
  <2>2. CASE kept # {}
    BY <2>2, FaultFacts DEF Retire
  <2> QED
    BY <2>1, <2>2
<1>14. ASSUME NEW s \in Sides
       PROVE  agent'[s] = CASE s \in S \ kept /\ agent[s] # "none" -> "archived"
                            [] s \in kept /\ agent[s] = "running" -> "idle"
                            [] OTHER -> agent[s]
  BY Zenon DEF Retire
<1>15. ASSUME NEW s \in Sides
       PROVE  space'[s] = IF s \in S \ kept THEN "archived" ELSE space[s]
  BY Zenon DEF Retire
<1>16. agent' \in [Sides -> Agents] /\ space' \in [Sides -> Spaces]
  BY DEF Retire, Agents, Spaces
<1>17. ASSUME NEW s \in Sides
       PROVE  /\ agent[s] # "none" => agent'[s] # "none"
              /\ agent[s] = "archived" => agent'[s] = "archived"
              /\ space'[s] \in {space[s], "archived"}
              /\ s \notin S => agent'[s] = agent[s] /\ space'[s] = space[s]
              /\ s \in S => \/ Suffered("archive")'
                            \/ /\ space'[s] = "archived"
                               /\ agent[s] # "none" => agent'[s] = "archived"
              /\ monitor'[s] => monitor[s]
  <2>1. kept \subseteq S
    BY DEF Retire
  <2> QED
    BY <1>10, <1>13, <1>14, <1>15, <2>1
<1> QED
  BY <1>8, <1>9, <1>11, <1>12, <1>13, <1>16, <1>17

-----------------------------------------------------------------------------
(* The shape of the state is kept *)

\* A mutation goes on to a step of its own, whatever joins the queue.
LEMMA GoesOn ==
  ASSUME OpFits, queue # <<>>, Kept, pc' \in Steps \ {"idle"}, mem' \in Battle,
         StepOf(pc', Head(queue).op)
  PROVE  OpFits'
  BY HeadFacts DEF OpFits, Steady, Kept

\* Goto is such a step.
LEMMA GotoFits ==
  ASSUME OpFits, queue # <<>>, NEW step \in Steps \ {"idle"}, NEW b \in Battle,
         Goto(step, b), StepOf(step, Head(queue).op)
  PROVE  OpFits'
<1>1. Kept
  BY DEF Goto, Kept, OpFits
<1> QED
  BY <1>1, GoesOn DEF Goto

\* A mutation that ends leaves the queue to the next.
LEMMA ReleaseFits ==
  ASSUME OpFits, queue # <<>>, Release
  PROVE  OpFits'
  BY ReleaseFacts, StartedType DEF OpFits, Steady, Steps

\* Mutations that join the queue leave the running one alone.
LEMMA JoinFits ==
  ASSUME OpFits, Kept, UNCHANGED <<pc, mem>>
  PROVE  OpFits'
  BY HeadFacts DEF OpFits, Steady, Kept

\* A vote ends or goes on, and leaves the shape of the state.
LEMMA VoteShape ==
  ASSUME Shape,
         VoteBegin \/ VoteSync \/ VoteSend \/ VotePromote \/ VoteRetire \/ VoteCard
  PROVE  Shape'
<1> USE DEF Shape
<1>1. CASE VoteBegin
  <2>1. queue # <<>> /\ (Goto("sync", disk) \/ Release) /\ Head(queue).op = "vote"
    BY <1>1 DEF VoteBegin, At
  <2>2. OpFits'
    BY <2>1, GotoFits, ReleaseFits DEF StepOf, Steps, FileFits
  <2> QED
    BY <1>1, <2>2 DEF VoteBegin, proxyVars, worldVars, ProxyFits, FileFits, WorldFits
<1>2. CASE VoteSync
  <2>1. PICK lost \in SUBSET CompletedSides(mem) :
          SyncCalls(lost) /\ (Goto("send", mem) \/ Release)
    BY <1>2 DEF VoteSync
  <2>2. queue # <<>> /\ Head(queue).op = "vote"
    BY <1>2 DEF VoteSync, At
  <2>3. OpFits'
    BY <2>1, <2>2, GotoFits, ReleaseFits DEF StepOf, Steps, OpFits
  <2>4. ProxyFits'
    BY <2>1, SyncType DEF OpFits
  <2> QED
    BY <1>2, <2>3, <2>4 DEF VoteSync, worldVars, FileFits, WorldFits
<1>3. CASE VoteSend
  <2> DEFINE q == [op |-> "vote", arg |-> Head(queue).arg]
  <2>1. queue # <<>> /\ Head(queue).op = "vote" /\ Head(queue) \in Mutations
    BY <1>3, HeadFacts DEF VoteSend, At, OpFits
  <2>2. q \in Requests
    BY <2>1 DEF Mutations, Requests
  <2>3. /\ Accepts(q) \/ Refuses(q) \/ TimesOut(q)
        /\ Goto("promote", [Applied(mem, px') EXCEPT !.status = "decided"]) \/ Release
    BY <1>3 DEF VoteSend
  <2>4. ProxyFits'
    BY <2>2, <2>3, CallType
  <2>5. [Applied(mem, px') EXCEPT !.status = "decided"] \in Battle
    BY <2>4, AppliedFacts DEF ProxyFits, OpFits, Battle
  <2>6. OpFits'
    BY <2>1, <2>3, <2>5, GotoFits, ReleaseFits DEF StepOf, Steps
  <2> QED
    BY <1>3, <2>4, <2>6 DEF VoteSend, worldVars, FileFits, WorldFits
<1>4. CASE VotePromote
  <2>1. /\ queue # <<>> /\ Head(queue).op = "vote"
        /\ Goto("retire", mem) \/ Release
        /\ UNCHANGED faults \/ Fault("promote")
    BY <1>4 DEF VotePromote, At
  <2>2. OpFits'
    BY <2>1, GotoFits, ReleaseFits DEF StepOf, Steps, OpFits
  <2>3. ProxyFits'
    BY <1>4, <2>1, FaultFacts DEF VotePromote, proxyVars, ProxyFits
  <2>4. space' \in [Sides -> Spaces]
    BY <1>4 DEF VotePromote, WorldFits, Spaces
  <2> QED
    BY <1>4, <2>2, <2>3, <2>4 DEF VotePromote, FileFits, WorldFits
<1>5. CASE VoteRetire
  <2> DEFINE loser == {Other(mem.winner)}
  <2>1. PICK kept \in SUBSET loser : Retire(loser \cap mem.linked, kept)
    BY <1>5 DEF VoteRetire
  <2>2. loser \cap mem.linked \in SUBSET Sides
    BY DEF OpFits, Battle
  <2>3. /\ faults' \in Seq(Faults) /\ Len(faults') <= MaxFaults /\ Kept
        /\ agent' \in [Sides -> Agents] /\ monitor' \in [Sides -> BOOLEAN]
        /\ space' \in [Sides -> Spaces]
    BY <2>1, <2>2, RetireFacts DEF OpFits, ProxyFits, WorldFits
  <2>4. /\ queue # <<>> /\ Head(queue).op = "vote" /\ pc' = "card"
        /\ mem' = [Cancelled(mem, loser) EXCEPT !.comparison = "early"] \/ mem' = mem
    BY <1>5 DEF VoteRetire, At
  <2>5. mem' \in Battle
    BY <2>4, CancelledFacts DEF OpFits, Battle, Comparisons
  <2>6. OpFits'
    BY <2>3, <2>4, <2>5, GoesOn DEF StepOf, Steps
  <2> QED
    BY <1>5, <2>3, <2>6 DEF VoteRetire, proxyVars, ProxyFits, FileFits, WorldFits
<1>6. CASE VoteCard
  <2>1. queue # <<>> /\ (Goto("save", mem) \/ Release) /\ card' \in BOOLEAN
    BY <1>6 DEF VoteCard, At, WorldFits
  <2>2. OpFits'
    BY <2>1, GotoFits, ReleaseFits DEF StepOf, Steps, OpFits
  <2> QED
    BY <1>6, <2>1, <2>2 DEF VoteCard, proxyVars, ProxyFits, FileFits, WorldFits
<1> QED
  BY <1>1, <1>2, <1>3, <1>4, <1>5, <1>6

\* So does a stop.
LEMMA StopShape ==
  ASSUME Shape, StopBegin \/ StopSend \/ StopRetire
  PROVE  Shape'
<1> USE DEF Shape
<1>1. CASE StopBegin
  <2>1. queue # <<>> /\ Head(queue).op = "stop" /\ (Goto("send", disk) \/ Release)
    BY <1>1 DEF StopBegin, At
  <2>2. OpFits'
    BY <2>1, GotoFits, ReleaseFits DEF StepOf, Steps, FileFits
  <2> QED
    BY <1>1, <2>2 DEF StopBegin, proxyVars, worldVars, ProxyFits, FileFits, WorldFits
<1>2. CASE StopSend
  <2> DEFINE q == [op |-> "stop", arg |-> None]
  <2>1. queue # <<>> /\ Head(queue).op = "stop"
    BY <1>2 DEF StopSend, At
  <2>2. /\ Accepts(q) \/ Refuses(q) \/ TimesOut(q)
        /\ Goto("retire", [Applied(mem, px') EXCEPT !.status = "stopped"]) \/ Release
    BY <1>2 DEF StopSend
  <2>3. q \in Requests
    BY DEF Requests
  <2>4. ProxyFits'
    BY <2>2, <2>3, CallType
  <2>5. [Applied(mem, px') EXCEPT !.status = "stopped"] \in Battle
    BY <2>4, AppliedFacts DEF ProxyFits, OpFits, Battle
  <2>6. OpFits'
    BY <2>1, <2>2, <2>5, GotoFits, ReleaseFits DEF StepOf, Steps
  <2> QED
    BY <1>2, <2>4, <2>6 DEF StopSend, worldVars, FileFits, WorldFits
<1>3. CASE StopRetire
  <2>1. PICK kept \in SUBSET Sides : Retire(mem.linked, kept)
    BY <1>3 DEF StopRetire
  <2>2. mem.linked \in SUBSET Sides
    BY DEF OpFits, Battle
  <2>3. /\ faults' \in Seq(Faults) /\ Len(faults') <= MaxFaults /\ Kept
        /\ agent' \in [Sides -> Agents] /\ monitor' \in [Sides -> BOOLEAN]
        /\ space' \in [Sides -> Spaces]
    BY <2>1, <2>2, RetireFacts DEF OpFits, ProxyFits, WorldFits
  <2>4. queue # <<>> /\ pc' = "save" /\ mem' = Cancelled(mem, Sides)
    BY <1>3 DEF StopRetire, At
  <2>5. OpFits'
    BY <2>3, <2>4, CancelledFacts, GoesOn DEF StepOf, Steps, OpFits
  <2> QED
    BY <1>3, <2>3, <2>5 DEF StopRetire, proxyVars, ProxyFits, FileFits, WorldFits
<1> QED
  BY <1>1, <1>2, <1>3

\* So does a look at the battle.
LEMMA GetShape ==
  ASSUME Shape, GetBegin \/ GetSend
  PROVE  Shape'
<1> USE DEF Shape
<1>1. CASE GetBegin
  <2>1. queue # <<>> /\ Head(queue).op = "get" /\ Goto("send", disk)
    BY <1>1 DEF GetBegin, At
  <2>2. OpFits'
    BY <2>1, GotoFits DEF StepOf, Steps, FileFits
  <2> QED
    BY <1>1, <2>2 DEF GetBegin, proxyVars, worldVars, ProxyFits, FileFits, WorldFits
<1>2. CASE GetSend
  <2>1. queue # <<>> /\ Head(queue).op = "get"
    BY <1>2 DEF GetSend, At
  <2>2. Applied(mem, px) \in Battle
    BY AppliedFacts DEF OpFits, ProxyFits
  <2>3. PICK b \in Battle : Goto("prepare", b) \/ Release
    BY <1>2, <2>2 DEF GetSend, GetContinue, OpFits
  <2>4. OpFits'
    BY <2>1, <2>3, GotoFits, ReleaseFits DEF StepOf, Steps
  <2>5. disk' \in Battle /\ (UNCHANGED faults \/ Fault("proxy"))
    BY <1>2, <2>2 DEF GetSend, FileFits
  <2>6. ProxyFits'
    BY <1>2, <2>5, FaultFacts DEF GetSend, proxyVars, ProxyFits
  <2> QED
    BY <1>2, <2>4, <2>5, <2>6 DEF GetSend, worldVars, FileFits, WorldFits
<1> QED
  BY <1>1, <1>2

\* So does the end of a side.
LEMMA FinishShape ==
  ASSUME Shape,
         FinishBegin \/ FinishReport \/ FinishAlone \/ FinishBoth \/ FinishOne
           \/ FinishNone \/ FinishAbandon
  PROVE  Shape'
<1> USE DEF Shape
<1>1. CASE FinishBegin
  <2> DEFINE m == Head(queue)
  <2>1. queue # <<>> /\ m.op = "finish" /\ m \in Mutations
    BY <1>1, HeadFacts DEF FinishBegin, At, OpFits
  <2>2. m.side \in Sides /\ m.arg \in Outcomes
    BY <2>1 DEF Mutations
  <2>3. \/ Release
        \/ \E outcome \in Outcomes, step \in {"report", "settle"} :
             Goto(step, [disk EXCEPT !.side[m.side] = outcome])
    BY <1>1, <2>2 DEF FinishBegin, Outcomes
  <2>4. OpFits'
    <3>1. CASE Release
      BY <2>1, <3>1, ReleaseFits
    <3>2. ASSUME NEW outcome \in Outcomes, NEW step \in {"report", "settle"},
                 Goto(step, [disk EXCEPT !.side[m.side] = outcome])
          PROVE  OpFits'
      <4>1. [disk EXCEPT !.side[m.side] = outcome] \in Battle
        BY <2>2 DEF FileFits, Battle, Outcomes, SideStatuses
      <4> QED
        BY <2>1, <3>2, <4>1, GotoFits DEF StepOf, Steps
    <3> QED
      BY <2>3, <3>1, <3>2
  <2> QED
    BY <1>1, <2>4 DEF FinishBegin, proxyVars, worldVars, ProxyFits, FileFits, WorldFits
<1>2. CASE FinishReport
  <2> DEFINE q == [op |-> "complete", arg |-> Head(queue).side]
  <2>1. queue # <<>> /\ Head(queue).op = "finish" /\ Head(queue) \in Mutations
    BY <1>2, HeadFacts DEF FinishReport, At, OpFits
  <2>2. q \in Requests
    BY <2>1 DEF Mutations, Requests
  <2>3. (Accepts(q) \/ TimesOut(q)) /\ Goto("settle", mem)
    BY <1>2 DEF FinishReport
  <2>4. ProxyFits'
    BY <2>2, <2>3, CallType
  <2>5. OpFits'
    BY <2>1, <2>3, GotoFits DEF StepOf, Steps, OpFits
  <2> QED
    BY <1>2, <2>4, <2>5 DEF FinishReport, worldVars, FileFits, WorldFits
<1>3. CASE FinishAlone
  <2>1. queue # <<>> /\ Release /\ disk' \in Battle
    BY <1>3 DEF FinishAlone, At, OpFits
  <2>2. OpFits'
    BY <2>1, ReleaseFits
  <2> QED
    BY <1>3, <2>1, <2>2 DEF FinishAlone, proxyVars, worldVars, ProxyFits, FileFits, WorldFits
<1>4. CASE FinishBoth
  <2>1. queue # <<>> /\ Head(queue).op = "finish" /\ Goto("prepare", disk') /\ disk' \in Battle
    BY <1>4 DEF FinishBoth, SettlesWith, At, OpFits, Battle
  <2>2. OpFits'
    BY <2>1, GotoFits DEF StepOf, Steps
  <2> QED
    BY <1>4, <2>1, <2>2 DEF FinishBoth, proxyVars, worldVars, ProxyFits, FileFits, WorldFits
<1>5. CASE FinishOne
  <2> DEFINE failed == Sides \ CompletedSides(mem)
  <2>1. PICK kept \in SUBSET failed : Retire(failed \cap mem.linked, kept)
    BY <1>5 DEF FinishOne
  <2>2. failed \cap mem.linked \in SUBSET Sides
    OBVIOUS
  <2>3. /\ faults' \in Seq(Faults) /\ Len(faults') <= MaxFaults /\ Kept
        /\ agent' \in [Sides -> Agents] /\ monitor' \in [Sides -> BOOLEAN]
        /\ space' \in [Sides -> Spaces]
    BY <2>1, <2>2, RetireFacts DEF OpFits, ProxyFits, WorldFits
  <2>4. queue # <<>> /\ pc' = "save" /\ mem' \in Battle
    BY <1>5 DEF FinishOne, SettlesWith, At, OpFits, Battle, Comparisons
  <2>5. OpFits'
    BY <2>3, <2>4, GoesOn DEF StepOf, Steps
  <2> QED
    BY <1>5, <2>3, <2>5 DEF FinishOne, proxyVars, ProxyFits, FileFits, WorldFits
<1>6. CASE FinishNone
  <2> DEFINE q == [op |-> "stop", arg |-> None]
  <2>1. queue # <<>> /\ Head(queue).op = "finish"
    BY <1>6 DEF FinishNone, SettlesWith, At
  <2>2. /\ Accepts(q) \/ Refuses(q) \/ TimesOut(q)
        /\ Goto("abandon", [mem EXCEPT !.status = "error", !.comparison = "noneUsable"])
    BY <1>6 DEF FinishNone
  <2>3. q \in Requests
    BY DEF Requests
  <2>4. ProxyFits'
    BY <2>2, <2>3, CallType
  <2>5. [mem EXCEPT !.status = "error", !.comparison = "noneUsable"] \in Battle
    BY DEF OpFits, Battle, Comparisons
  <2>6. OpFits'
    BY <2>1, <2>2, <2>5, GotoFits DEF StepOf, Steps
  <2> QED
    BY <1>6, <2>4, <2>6 DEF FinishNone, worldVars, FileFits, WorldFits
<1>7. CASE FinishAbandon
  <2>1. PICK kept \in SUBSET Sides : Retire(mem.linked, kept)
    BY <1>7 DEF FinishAbandon
  <2>2. mem.linked \in SUBSET Sides
    BY DEF OpFits, Battle
  <2>3. /\ faults' \in Seq(Faults) /\ Len(faults') <= MaxFaults /\ Kept
        /\ agent' \in [Sides -> Agents] /\ monitor' \in [Sides -> BOOLEAN]
        /\ space' \in [Sides -> Spaces]
    BY <2>1, <2>2, RetireFacts DEF OpFits, ProxyFits, WorldFits
  <2>4. queue # <<>> /\ pc' = "save" /\ mem' \in Battle
    BY <1>7 DEF FinishAbandon, At, OpFits
  <2>5. OpFits'
    BY <2>3, <2>4, GoesOn DEF StepOf, Steps
  <2> QED
    BY <1>7, <2>3, <2>5 DEF FinishAbandon, proxyVars, ProxyFits, FileFits, WorldFits
<1> QED
  BY <1>1, <1>2, <1>3, <1>4, <1>5, <1>6, <1>7

\* So does a comparison, whoever asked for it, and the last save.
LEMMA CompareShape ==
  ASSUME Shape, Prepare \/ PrepareSync \/ Compare \/ SaveAndPoll \/ PollBegin \/ Save
  PROVE  Shape'
<1> USE DEF Shape
<1>1. CASE Prepare
  <2>1. queue # <<>> /\ Head(queue).op \in {"get", "finish"}
    BY <1>1 DEF Prepare, OpFits, Steady, StepOf
  <2>2. PICK step \in {"syncEdits", "syncNoEdits"}, b \in Battle :
          Goto(step, b) /\ disk' \in Battle
    BY <1>1 DEF Prepare, OpFits, FileFits, Battle, Comparisons
  <2>3. OpFits'
    BY <2>1, <2>2, GotoFits DEF StepOf, Steps
  <2> QED
    BY <1>1, <2>2, <2>3 DEF Prepare, proxyVars, worldVars, ProxyFits, FileFits, WorldFits
<1>2. CASE PrepareSync
  <2>1. PICK lost \in SUBSET CompletedSides(mem) :
          /\ SyncCalls(lost)
          /\ \/ /\ UNCHANGED disk
                /\ \E step \in {"compareEdits", "compareNoEdits"} : Goto(step, mem)
             \/ CompareFailed
    BY <1>2 DEF PrepareSync
  <2>2. queue # <<>> /\ Head(queue).op \in {"get", "finish"}
    BY <1>2 DEF PrepareSync, OpFits, Steady, StepOf
  <2>3. OpFits'
    BY <2>1, <2>2, GotoFits, ReleaseFits DEF StepOf, Steps, CompareFailed, OpFits
  <2>4. ProxyFits'
    BY <2>1, SyncType DEF OpFits
  <2>5. disk' \in Battle
    BY <2>1 DEF CompareFailed, OpFits, FileFits, Battle, Comparisons
  <2> QED
    BY <1>2, <2>3, <2>4, <2>5 DEF PrepareSync, worldVars, FileFits, WorldFits
<1>3. CASE Compare
  <2> DEFINE q == [op |-> "compare", arg |-> IF pc = "compareEdits" THEN "edits" ELSE "noEdits"]
  <2>1. queue # <<>> /\ Head(queue).op \in {"get", "finish"}
    BY <1>3 DEF Compare, OpFits, Steady, StepOf
  <2>2. q \in Requests
    BY DEF Requests
  <2>3. /\ Accepts(q) \/ Refuses(q) \/ TimesOut(q)
        /\ \/ /\ UNCHANGED disk
              /\ \E step \in {"saveAndPoll", "save"} :
                   Goto(step, [mem EXCEPT !.comparison = px'.comparison])
           \/ CompareFailed
    BY <1>3 DEF Compare
  <2>4. ProxyFits'
    BY <2>2, <2>3, CallType
  <2>5. [mem EXCEPT !.comparison = px'.comparison] \in Battle
    BY <2>4 DEF ProxyFits, OpFits, Battle, Record
  <2>6. OpFits'
    BY <2>1, <2>3, <2>5, GotoFits, ReleaseFits DEF StepOf, Steps, CompareFailed
  <2>7. disk' \in Battle
    BY <2>3 DEF CompareFailed, OpFits, FileFits, Battle, Comparisons
  <2> QED
    BY <1>3, <2>4, <2>6, <2>7 DEF Compare, worldVars, FileFits, WorldFits
<1>4. CASE SaveAndPoll
  <2>1. queue # <<>> /\ Release /\ disk' \in Battle
    BY <1>4 DEF SaveAndPoll, OpFits, Steady
  <2>2. OpFits'
    BY <2>1, ReleaseFits
  <2> QED
    BY <1>4, <2>1, <2>2 DEF SaveAndPoll, proxyVars, worldVars, ProxyFits, FileFits, WorldFits
<1>5. CASE PollBegin
  <2> DEFINE b == [disk EXCEPT !.comparison = Head(queue).arg]
  <2>1. queue # <<>> /\ Head(queue).op = "poll" /\ Head(queue) \in Mutations
    BY <1>5, HeadFacts DEF PollBegin, At, OpFits
  <2>2. Head(queue).arg \in Comparisons
    BY <2>1 DEF Mutations, Settled
  <2>3. b \in Battle
    BY <2>2 DEF FileFits, Battle
  <2>4. Goto("save", b)
    BY <1>5 DEF PollBegin
  <2>5. OpFits'
    BY <2>1, <2>3, <2>4, GotoFits DEF StepOf, Steps
  <2> QED
    BY <1>5, <2>5 DEF PollBegin, proxyVars, worldVars, ProxyFits, FileFits, WorldFits
<1>6. CASE Save
  <2>1. queue # <<>> /\ Release /\ disk' \in Battle
    BY <1>6 DEF Save, OpFits, Steady
  <2>2. OpFits'
    BY <2>1, ReleaseFits
  <2> QED
    BY <1>6, <2>1, <2>2 DEF Save, proxyVars, worldVars, ProxyFits, FileFits, WorldFits
<1> QED
  BY <1>1, <1>2, <1>3, <1>4, <1>5, <1>6

\* So do the clients, the agents, the polls and the proxy.
LEMMA WorldShape ==
  ASSUME Shape,
         \/ \E m \in Mutations : Call(m)
         \/ PollRead \/ PollGivesUp \/ ProxyRestarts
         \/ \E s \in Sides, outcome \in Outcomes : TurnEnds(s, outcome)
         \/ \E s \in Sides : Load(s)
         \/ \E q \in Requests : Arrive(q)
         \/ \E outcome \in {"completed", "error"} : GenerationEnds(outcome)
  PROVE  Shape'
<1> USE DEF Shape
<1>1. ASSUME NEW m \in Mutations, Call(m) PROVE Shape'
  <2>1. queue' = Append(queue, m) /\ UNCHANGED <<pc, mem>>
    BY <1>1 DEF Call
  <2>2. OpFits'
    BY <2>1, AppendFacts, JoinFits DEF OpFits
  <2> QED
    BY <1>1, <2>2 DEF Call, proxyVars, worldVars, ProxyFits, FileFits, WorldFits
<1>2. CASE PollRead
  <2> DEFINE m == [op |-> "poll", side |-> None, arg |-> px.comparison]
  <2>1. m \in Mutations
    BY <1>2 DEF PollRead, Mutations
  <2>2. queue' = Append(queue, m) /\ UNCHANGED <<pc, mem>>
    BY <1>2 DEF PollRead
  <2>3. OpFits'
    BY <2>1, <2>2, AppendFacts, JoinFits DEF OpFits
  <2>4. polls' \in Nat
    BY <1>2 DEF PollRead, FileFits
  <2> QED
    BY <1>2, <2>3, <2>4 DEF PollRead, proxyVars, worldVars, ProxyFits, FileFits, WorldFits
<1>3. CASE PollGivesUp
  <2>1. polls' \in Nat
    BY <1>3 DEF PollGivesUp, FileFits
  <2> QED
    BY <1>3, <2>1
    DEF PollGivesUp, proxyVars, opVars, worldVars, ProxyFits, OpFits, Steady, FileFits,
        WorldFits
<1>4. CASE ProxyRestarts
  <2>1. ProxyFits'
    BY <1>4, FaultFacts DEF ProxyRestarts, ProxyFits
  <2> QED
    BY <1>4, <2>1 DEF ProxyRestarts, opVars, worldVars, OpFits, Steady, FileFits, WorldFits
<1>5. ASSUME NEW s \in Sides, NEW outcome \in Outcomes, TurnEnds(s, outcome) PROVE Shape'
  <2> DEFINE m == [op |-> "finish", side |-> s, arg |-> outcome]
  <2>1. m \in Mutations
    BY DEF Mutations
  <2>2. queue' = Append(queue, m) \/ queue' = queue
    BY <1>5 DEF TurnEnds
  <2>3. Kept
    BY <2>1, <2>2, AppendFacts DEF OpFits, Kept
  <2>4. OpFits'
    BY <1>5, <2>3, JoinFits DEF TurnEnds
  <2>5. agent' \in [Sides -> Agents] /\ monitor' \in [Sides -> BOOLEAN]
    BY <1>5 DEF TurnEnds, WorldFits, Agents
  <2> QED
    BY <1>5, <2>4, <2>5 DEF TurnEnds, proxyVars, ProxyFits, FileFits, WorldFits
<1>6. ASSUME NEW s \in Sides, Load(s) PROVE Shape'
  <2>1. agent' \in [Sides -> Agents]
    BY <1>6 DEF Load, WorldFits, Agents
  <2> QED
    BY <1>6, <2>1
    DEF Load, proxyVars, opVars, ProxyFits, OpFits, Steady, FileFits, WorldFits
<1>7. ASSUME NEW q \in Requests, Arrive(q) PROVE Shape'
  <2>1. ProxyFits'
    BY <1>7, EffectType DEF Arrive, ProxyFits
  <2> QED
    BY <1>7, <2>1 DEF Arrive, opVars, worldVars, OpFits, Steady, FileFits, WorldFits
<1>8. ASSUME NEW outcome \in {"completed", "error"}, GenerationEnds(outcome) PROVE Shape'
  <2>1. Generated(px, outcome) \in Record
    BY DEF Generated, ProxyFits, Record, Comparisons
  <2>2. ProxyFits'
    BY <1>8, <2>1 DEF GenerationEnds, ProxyFits
  <2> QED
    BY <1>8, <2>2 DEF GenerationEnds, opVars, worldVars, OpFits, Steady, FileFits, WorldFits
<1> QED
  BY <1>1, <1>2, <1>3, <1>4, <1>5, <1>6, <1>7, <1>8

\* The daemon comes back with its files and without what it had in memory.
LEMMA RestartShape ==
  ASSUME Shape, DaemonRestarts, faults' \in Seq(Faults), Len(faults') <= MaxFaults
  PROVE  Shape'
<1>1. queue' \in Seq(Mutations)
  BY DEF DaemonRestarts
<1>2. OpFits'
  BY <1>1, StartedType DEF DaemonRestarts, OpFits, Steady, Steps
<1>3. agent' \in [Sides -> Agents] /\ monitor' \in [Sides -> BOOLEAN]
  BY DEF DaemonRestarts, Shape, WorldFits, Agents
<1> QED
  BY <1>2, <1>3 DEF DaemonRestarts, Shape, proxyVars, ProxyFits, FileFits, WorldFits

\* A comparison that cannot read the worktrees.
LEMMA DiffShape ==
  ASSUME Shape, DiffFails
  PROVE  Shape'
<1>1. faults' \in Seq(Faults) /\ Len(faults') <= MaxFaults
  BY FaultFacts DEF DiffFails, Shape, ProxyFits
<1>2. CASE DaemonRestarts
  BY <1>1, <1>2, RestartShape
<1>3. CASE Release /\ UNCHANGED <<proxyVars, disk, polls, worldVars>>
  <2>1. OpFits'
    BY <1>3, ReleaseFits DEF DiffFails, Shape, OpFits, Steady
  <2> QED
    BY <1>1, <1>3, <2>1 DEF proxyVars, worldVars, Shape, ProxyFits, FileFits, WorldFits
<1> QED
  BY <1>2, <1>3 DEF DiffFails

\* Every step but those that end the daemon keeps the shape of the state, also
\* while the battle is being launched.
LEMMA RunningShape ==
  ASSUME Shape, Running
  PROVE  Shape'
<1>1. CASE MutationStep
  BY <1>1, VoteShape, StopShape, GetShape, FinishShape, CompareShape DEF MutationStep
<1> QED
  BY <1>1, WorldShape DEF Running

\* So does a crash.
LEMMA CrashShape ==
  ASSUME Shape, Crash
  PROVE  Shape'
  BY FaultFacts, RestartShape DEF Crash, Shape, ProxyFits

\* A step that changes nothing.
LEMMA StutterShape ==
  ASSUME Shape, UNCHANGED vars
  PROVE  Shape'
  BY DEF vars, Shape, ProxyFits, OpFits, Steady, FileFits, WorldFits

\* The shape is what the type invariant asks for, and more.
LEMMA ShapeType == Shape => TypeOK
  BY DEF Shape, TypeOK, ProxyFits, OpFits, FileFits, WorldFits

-----------------------------------------------------------------------------
(* What holds of a battle that has been started *)

\* A proxy record: the winner is the one voted for, and an early vote rules
\* out a comparison for good.
Sound(r) ==
  /\ r.vote \in {None, "stopped"} => ~r.early
  /\ r.vote \in Votes => r.winner = Winner(r.vote)
  /\ r.early => r.comparison = "early"

\* What a copy of the file says was decided is what the proxy has recorded.
Honest(b) ==
  /\ b.decision # None =>
       b.decision = px.vote /\ b.winner = px.winner /\ b.early = px.early
  /\ b.revealed => px.vote \in Votes
  /\ b.decision \in Votes /\ b.early => b.comparison = "early"
  /\ b.status = "decided" => b.decision \in Votes
  /\ b.status = "stopped" => b.decision = "stopped"
  /\ b.linked = Sides

\* A copy that says the battle is over is of one that has been cleaned up after.
LoserGone(b) ==
  \/ Suffered("archive")
  \/ agent[Other(b.winner)] = "archived" /\ space[Other(b.winner)] = "archived"

WinnerKept(b) == b.status = "decided" /\ space[b.winner] = "visible"

Clean(b) ==
  /\ b.status = "decided" =>
       LoserGone(b) /\ WinnerKept(b) /\ source = "archived" /\ card
  /\ b.status = "stopped" =>
       \/ Suffered("archive")
       \/ \A s \in Sides : agent[s] = "archived" /\ space[s] = "archived"

\* The running mutation's copy has what the file has, and besides only ends of
\* sides that have none there.
Follows(b) ==
  /\ \A s \in Sides :
       \/ b.side[s] = disk.side[s]
       \/ /\ disk.side[s] \notin Terminal
          /\ Head(queue).op = "finish" => Head(queue).side = s /\ b.side[s] \in Terminal
          /\ Head(queue).op # "finish" => b.side[s] = "cancelled"
  /\ disk.decision # None => b.decision = disk.decision

\* The checks of vote still hold when it sends, and the proxy knows the ends
\* they rest on.
MaySend(step) ==
  Head(queue).op = "vote" =>
    /\ Head(queue).arg = "tie" => CompletedSides(disk) = Sides
    /\ Winner(Head(queue).arg) \in CompletedSides(disk)
    /\ step = "send" => \A s \in CompletedSides(disk) : px.completed[s]

\* How far the running mutation has got.
Reached(step, b) ==
  /\ step \in {"sync", "send"} => b = disk /\ MaySend(step)
  /\ step \in {"prepare", "syncEdits", "syncNoEdits", "compareEdits", "compareNoEdits",
               "saveAndPoll", "abandon"} => b.decision = None
  /\ step = "abandon" => \A s \in Sides : b.side[s] \in Terminal \ {"completed"}
  /\ step = "promote" => b.status = "decided"
  /\ step = "retire" /\ Head(queue).op = "vote" => WinnerKept(b)
  /\ step = "retire" /\ Head(queue).op = "stop" => b.status = "stopped"
  /\ step = "card" => WinnerKept(b) /\ LoserGone(b) /\ source = "archived"
  /\ step \notin {"promote", "retire", "card"} => Clean(b)

HeadFits(step, b) == Follows(b) /\ Honest(b) /\ Reached(step, b)

\* A vote is recorded, or on its way, only for a side whose end is in the file.
VotesOnDone ==
  /\ px.vote \in Votes => disk.side[px.winner] = "completed"
  /\ \A q \in late : q.op = "vote" => disk.side[Winner(q.arg)] = "completed"

\* A comparison that is running, awaited or about to be saved is of a battle
\* that can no longer be decided early.
Comparing ==
  \/ generations > 0 \/ polls > 0 \/ pc = "saveAndPoll"
  \/ \E i \in 1..Len(queue) : queue[i].op = "poll"

ComparesDone == Comparing => AllCompleted(px) /\ ~px.early

\* Each side ends once: it is monitored, or its end is waiting, or neither.
EndsOnce ==
  \A s \in Sides, i \in 1..Len(queue) : Ends(i, s) =>
    /\ ~monitor[s]
    /\ \A j \in 1..Len(queue) : Ends(j, s) => i = j

\* Only what no vote can promote is archived: a side that has lost, that the stopped
\* battle leaves behind, or that can no longer complete.
Gone(s) == agent[s] = "archived" \/ space[s] = "archived"

Hopeless(s) ==
  /\ disk.side[s] # "completed"
  /\ \/ disk.side[s] \in Terminal
     \/ /\ ~monitor[s]
        /\ \A i \in 1..Len(queue) : Ends(i, s) =>
             i = 1 /\ pc # "idle" /\ mem.side[s] \in Terminal \ {"completed"}

Unneeded ==
  \A s \in Sides : Gone(s) =>
    \/ px.vote = "stopped"
    \/ px.vote \in Votes /\ px.winner # s
    \/ Hopeless(s)

MadeAll == \A s \in Sides : agent[s] # "none" /\ space[s] # "none"

IInv ==
  /\ Shape
  /\ Sound(px)
  /\ Honest(disk)
  /\ Clean(disk)
  /\ pc # "idle" => HeadFits(pc, mem)
  /\ VotesOnDone
  /\ ComparesDone
  /\ EndsOnce
  /\ Unneeded
  /\ MadeAll

-----------------------------------------------------------------------------
(* What the proxy does to its record *)

\* The record only gains: ends of sides, one decision, and no early one once
\* both sides have ended without.
Gains(r, t) ==
  /\ Sound(t)
  /\ \A s \in Sides : r.completed[s] => t.completed[s]
  /\ r.vote # None => t.vote = r.vote /\ t.winner = r.winner /\ t.early = r.early
  /\ AllCompleted(r) /\ ~r.early => AllCompleted(t) /\ ~t.early

\* An accepted request does no more, and a vote comes from one for it.
LEMMA EffectGains ==
  ASSUME NEW r \in Record, Sound(r), NEW q \in Requests, Allowed(r, q)
  PROVE  /\ Gains(r, Effect(r, q))
         /\ Effect(r, q).vote \in Votes =>
              \/ r.vote = Effect(r, q).vote
              \/ q = [op |-> "vote", arg |-> Effect(r, q).vote]
         /\ q.op = "complete" => Effect(r, q).completed[q.arg]
         /\ q.op = "compare" => AllCompleted(Effect(r, q)) /\ ~Effect(r, q).early
<1>1. CASE q.op = "complete"
  <2>1. q.arg \in Sides /\ Effect(r, q) = Completed(r, q.arg)
    BY <1>1 DEF Requests, Effect
  <2>2. /\ Effect(r, q).vote = r.vote /\ Effect(r, q).winner = r.winner
        /\ Effect(r, q).early = r.early /\ Effect(r, q).comparison = r.comparison
        /\ \A s \in Sides : r.completed[s] => Effect(r, q).completed[s]
        /\ Effect(r, q).completed[q.arg]
    BY <2>1 DEF Completed, Record
  <2> QED
    BY <1>1, <2>2 DEF Gains, Sound, AllCompleted
<1>2. CASE q.op = "vote"
  <2>1. q.arg \in Votes /\ Effect(r, q) = Voted(r, q.arg) /\ r.vote = None
    BY <1>2 DEF Requests, Effect, Allowed, CanVote
  <2>2. q = [op |-> "vote", arg |-> q.arg]
    BY <1>2 DEF Requests
  <2>3. /\ Voted(r, q.arg).vote = q.arg /\ Voted(r, q.arg).winner = Winner(q.arg)
        /\ Voted(r, q.arg).completed = r.completed
        /\ Voted(r, q.arg).early = ~AllCompleted(r)
        /\ Voted(r, q.arg).early => Voted(r, q.arg).comparison = "early"
    BY DEF Voted, Record, AllCompleted
  <2> QED
    BY <1>2, <2>1, <2>2, <2>3 DEF Gains, Sound, AllCompleted, Votes, None
<1>3. CASE q.op = "stop"
  <2>1. Effect(r, q) = Stopped(r) /\ r.vote = None
    BY <1>3 DEF Effect, Allowed, CanStop
  <2>2. /\ Stopped(r).vote = "stopped" /\ Stopped(r).completed = r.completed
        /\ Stopped(r).early = r.early /\ ~r.early
    BY <2>1 DEF Stopped, Record, Sound
  <2> QED
    BY <1>3, <2>1, <2>2 DEF Gains, Sound, AllCompleted, Votes, None
<1>4. CASE q.op = "compare"
  <2>1. Effect(r, q) = Compared(r, q.arg = "edits") /\ AllCompleted(r) /\ ~r.early
    BY <1>4 DEF Effect, Allowed, CanCompare
  <2>2. /\ Effect(r, q).vote = r.vote /\ Effect(r, q).completed = r.completed
        /\ Effect(r, q).early = r.early /\ Effect(r, q).winner = r.winner
    BY <2>1 DEF Compared, Record
  <2> QED
    BY <1>4, <2>1, <2>2 DEF Gains, Sound, AllCompleted
<1> QED
  BY <1>1, <1>2, <1>3, <1>4 DEF Requests

\* A record gains nothing when nothing happens to it.
LEMMA SameGains ==
  ASSUME NEW r, Sound(r)
  PROVE  Gains(r, r)
  BY DEF Gains

\* What a step may do to the proxy, its requests and the faults.
ProxyMoves ==
  /\ Gains(px, px')
  /\ generations' > 0 => generations > 0 \/ (AllCompleted(px') /\ ~px'.early)
  /\ px'.vote \in Votes =>
       \/ px.vote = px'.vote
       \/ disk.side[Winner(px'.vote)] = "completed"
  /\ \A q \in late' : q.op = "vote" => q \in late \/ disk.side[Winner(q.arg)] = "completed"
  /\ Suffered("archive") => Suffered("archive")'

\* A step that leaves the proxy alone.
LEMMA ProxyAlone ==
  ASSUME Sound(px), UNCHANGED proxyVars, UNCHANGED faults
  PROVE  ProxyMoves
  BY SameGains DEF proxyVars, ProxyMoves, Suffered

\* A call by a mutation: only the vote of a side that has ended is sent.
LEMMA CallMoves ==
  ASSUME ProxyFits, Sound(px), NEW q \in Requests,
         q.op = "vote" => disk.side[Winner(q.arg)] = "completed",
         Accepts(q) \/ Refuses(q) \/ TimesOut(q)
  PROVE  ProxyMoves
<1>1. CASE Accepts(q)
  <2>1. px' = Effect(px, q) /\ Allowed(px, q)
    BY <1>1 DEF Accepts
  <2>2. Gains(px, px')
    BY <2>1, EffectGains DEF ProxyFits
  <2>3. generations' > 0 => generations > 0 \/ (AllCompleted(px') /\ ~px'.early)
    <3>1. CASE q = CompareEdits
      BY <2>1, <3>1, EffectGains DEF ProxyFits, CompareEdits
    <3>2. CASE q # CompareEdits
      BY <1>1, <3>2 DEF Accepts
    <3> QED
      BY <3>1, <3>2
  <2>4. px'.vote \in Votes =>
          px.vote = px'.vote \/ q = [op |-> "vote", arg |-> px'.vote]
    BY <2>1, EffectGains DEF ProxyFits
  <2> QED
    BY <1>1, <2>2, <2>3, <2>4 DEF Accepts, ProxyMoves, Suffered
<1>2. CASE Refuses(q)
  BY <1>2, ProxyAlone DEF Refuses, proxyVars
<1>3. CASE TimesOut(q)
  BY <1>3, SameGains, FaultFacts DEF TimesOut, ProxyMoves, ProxyFits
<1> QED
  BY <1>1, <1>2, <1>3

\* The calls of syncTerminalSides tell the proxy of ends only.
LEMMA SyncMoves ==
  ASSUME ProxyFits, Sound(px), NEW lost \in SUBSET CompletedSides(mem), SyncCalls(lost)
  PROVE  /\ ProxyMoves
         /\ px'.vote = px.vote
         /\ lost = {} => \A s \in CompletedSides(mem) : px'.completed[s]
<1> DEFINE done == [s \in Sides |-> px.completed[s] \/ s \in CompletedSides(mem) \ lost]
<1>1. px' = [px EXCEPT !.completed = done]
  BY Zenon DEF SyncCalls
<1>2. \A s \in Sides : done[s] = (px.completed[s] \/ s \in CompletedSides(mem) \ lost)
  BY Zenon
<1> HIDE DEF done
<1>3. /\ px'.completed = done /\ px'.vote = px.vote /\ px'.winner = px.winner
      /\ px'.early = px.early /\ px'.comparison = px.comparison
  BY <1>1 DEF ProxyFits, Record
<1>4. \A s \in Sides : px.completed[s] => px'.completed[s]
  BY <1>2, <1>3
<1>5. Gains(px, px')
  BY <1>3, <1>4 DEF Gains, Sound, AllCompleted
<1>6. lost = {} => \A s \in CompletedSides(mem) : px'.completed[s]
  BY <1>2, <1>3 DEF CompletedSides
<1>7. Suffered("archive") => Suffered("archive")'
  <2>1. CASE lost = {}
    BY <2>1 DEF SyncCalls, Suffered
  <2>2. CASE lost # {}
    BY <2>2, FaultFacts DEF SyncCalls, ProxyFits
  <2> QED
    BY <2>1, <2>2
<1>8. \A q \in late' : q.op = "vote" => q \in late
  BY DEF SyncCalls
<1> QED
  BY <1>3, <1>5, <1>6, <1>7, <1>8 DEF ProxyMoves, SyncCalls

-----------------------------------------------------------------------------
(* The ends of the sides *)

\* What joins the queue, besides clients' calls, is the end of a side that was
\* monitored and is no longer.
Joined ==
  /\ Kept
  /\ \A s \in Sides : monitor'[s] => monitor[s]
  /\ \A i \in 1..Len(queue') : i > Len(queue) /\ queue'[i].op = "finish" =>
       /\ monitor[queue'[i].side] /\ ~monitor'[queue'[i].side]
       /\ \A j \in 1..Len(queue') :
            j > Len(queue) /\ queue'[j].op = "finish" /\ queue'[j].side = queue'[i].side
              => i = j

\* Nobody joins.
LEMMA NobodyJoins ==
  ASSUME OpFits, UNCHANGED <<queue, monitor>>
  PROVE  Joined
  BY DEF OpFits, Joined, Kept

\* A side's end is waiting once, also when another joins.
LEMMA JoinedOnce ==
  ASSUME OpFits, EndsOnce, Joined
  PROVE  EndsOnce'
<1>1. Len(queue) \in Nat /\ Len(queue') \in Nat
  BY DEF OpFits, Joined, Kept
<1>2. ASSUME NEW s \in Sides, NEW i \in 1..Len(queue'), Ends(i, s)' PROVE ~monitor'[s]
  <2>1. CASE i <= Len(queue)
    <3>1. i \in 1..Len(queue) /\ Ends(i, s)
      BY <1>1, <1>2, <2>1 DEF Joined, Kept, Ends
    <3> QED
      BY <3>1 DEF EndsOnce, Joined
  <2>2. CASE i > Len(queue)
    BY <1>2, <2>2 DEF Joined, Ends
  <2> QED
    BY <1>1, <2>1, <2>2
<1>3. ASSUME NEW s \in Sides, NEW i \in 1..Len(queue'), NEW j \in 1..Len(queue'),
             Ends(i, s)', Ends(j, s)'
      PROVE  i = j
  <2>1. ASSUME NEW k \in 1..Len(queue'), k <= Len(queue), Ends(k, s)'
        PROVE  k \in 1..Len(queue) /\ Ends(k, s) /\ ~monitor[s]
    BY <1>1, <2>1 DEF Joined, Kept, Ends, EndsOnce
  <2>2. ASSUME NEW k \in 1..Len(queue'), k > Len(queue), Ends(k, s)'
        PROVE  monitor[s]
    BY <2>2 DEF Joined, Ends
  <2>3. CASE i <= Len(queue)
    BY <1>1, <1>3, <2>1, <2>2, <2>3 DEF EndsOnce
  <2>4. CASE i > Len(queue)
    <3>1. j > Len(queue)
      BY <1>1, <1>3, <2>1, <2>2, <2>4
    <3>2. /\ queue'[i].op = "finish" /\ queue'[i].side = s
          /\ queue'[j].op = "finish" /\ queue'[j].side = s
      BY <1>3 DEF Ends
    <3> QED
      BY <1>3, <2>4, <3>1, <3>2 DEF Joined
  <2> QED
    BY <1>1, <2>3, <2>4
<1> QED
  BY <1>2, <1>3 DEF EndsOnce

\* Also when the head leaves.
LEMMA ReleasedOnce ==
  ASSUME OpFits, EndsOnce, queue # <<>>, Release, UNCHANGED monitor
  PROVE  EndsOnce'
<1>1. /\ Len(queue) \in Nat /\ Len(queue') \in Nat /\ Len(queue') = Len(queue) - 1
      /\ \A i \in 1..Len(queue') : i + 1 \in 1..Len(queue) /\ queue'[i] = queue[i + 1]
  BY ReleaseFacts DEF OpFits
<1>2. ASSUME NEW s \in Sides, NEW i \in 1..Len(queue'), Ends(i, s)'
      PROVE  i + 1 \in 1..Len(queue) /\ Ends(i + 1, s)
  BY <1>1, <1>2 DEF Ends
<1>3. ASSUME NEW s \in Sides, NEW i \in 1..Len(queue'), Ends(i, s)' PROVE ~monitor'[s]
  BY <1>2, <1>3 DEF EndsOnce
<1>4. ASSUME NEW s \in Sides, NEW i \in 1..Len(queue'), NEW j \in 1..Len(queue'),
             Ends(i, s)', Ends(j, s)'
      PROVE  i = j
  <2>1. i + 1 = j + 1
    BY <1>2, <1>4 DEF EndsOnce
  <2> QED
    BY <1>1, <2>1
<1> QED
  BY <1>3, <1>4 DEF EndsOnce

\* What a step may write to the file: it keeps an end that is there, and adds
\* one only from the running mutation's copy.
Wrote(s) ==
  \/ disk'.side[s] = disk.side[s]
  \/ pc # "idle" /\ Follows(mem) /\ disk'.side[s] = mem.side[s]

\* Ends are written once.
LEMMA WroteOnce ==
  ASSUME NEW s \in Sides, Wrote(s), disk.side[s] \in Terminal
  PROVE  disk'.side[s] = disk.side[s]
  BY DEF Wrote, Follows

\* A side that cannot complete still cannot after the running mutation went on,
\* and others joined the queue.
LEMMA HopelessGoesOn ==
  ASSUME OpFits, Joined, NEW s \in Sides, Hopeless(s), Wrote(s),
         pc # "idle" => /\ pc' # "idle"
                        /\ Head(queue).op = "finish" => mem'.side[s] = mem.side[s]
  PROVE  Hopeless(s)'
<1>1. CASE disk.side[s] \in Terminal
  BY <1>1, WroteOnce DEF Hopeless
<1>2. CASE disk.side[s] \notin Terminal
  <2>1. /\ ~monitor[s]
        /\ \A i \in 1..Len(queue) : Ends(i, s) =>
             i = 1 /\ pc # "idle" /\ mem.side[s] \in Terminal \ {"completed"}
    BY <1>2 DEF Hopeless
  <2>2. ASSUME NEW i \in 1..Len(queue'), Ends(i, s)'
        PROVE  i = 1 /\ pc' # "idle" /\ mem'.side[s] \in Terminal \ {"completed"}
    <3>1. i <= Len(queue)
      BY <2>1, <2>2 DEF Joined, Kept, Ends, OpFits
    <3>2. i \in 1..Len(queue) /\ Ends(i, s)
      BY <2>2, <3>1 DEF Joined, Kept, Ends, OpFits
    <3>3. i = 1 /\ pc # "idle" /\ mem.side[s] \in Terminal \ {"completed"}
      BY <2>1, <3>2
    <3>4. Head(queue).op = "finish"
      BY <3>2, <3>3, HeadFacts DEF Ends, OpFits, Steady
    <3> QED
      BY <3>3, <3>4
  <2>3. ~monitor'[s]
    BY <2>1 DEF Joined
  <2>4. CASE disk'.side[s] = disk.side[s]
    BY <2>2, <2>3, <2>4 DEF Hopeless
  <2>5. CASE disk'.side[s] # disk.side[s]
    <3>1. pc # "idle" /\ Follows(mem) /\ disk'.side[s] = mem.side[s]
      BY <2>5 DEF Wrote
    <3>2. queue # <<>> /\ Head(queue) = queue[1] /\ 1 \in 1..Len(queue)
      BY <3>1, HeadFacts DEF OpFits, Steady
    <3>3. mem.side[s] \in Terminal \ {"completed"}
      <4>1. CASE Head(queue).op = "finish"
        BY <2>1, <2>5, <3>1, <3>2, <4>1 DEF Follows, Ends
      <4>2. CASE Head(queue).op # "finish"
        BY <2>5, <3>1, <4>2 DEF Follows, Terminal
      <4> QED
        BY <4>1, <4>2
    <3> QED
      BY <3>1, <3>3 DEF Hopeless
  <2> QED
    BY <2>4, <2>5
<1> QED
  BY <1>1, <1>2

\* Nor after it ended.
LEMMA HopelessReleased ==
  ASSUME OpFits, EndsOnce, queue # <<>>, Release, UNCHANGED monitor,
         NEW s \in Sides, Hopeless(s), Wrote(s)
  PROVE  Hopeless(s)'
<1>1. CASE disk.side[s] \in Terminal
  BY <1>1, WroteOnce DEF Hopeless
<1>2. CASE disk.side[s] \notin Terminal
  <2>1. /\ ~monitor[s]
        /\ \A i \in 1..Len(queue) : Ends(i, s) =>
             i = 1 /\ pc # "idle" /\ mem.side[s] \in Terminal \ {"completed"}
    BY <1>2 DEF Hopeless
  <2>2. ASSUME NEW i \in 1..Len(queue'), Ends(i, s)' PROVE FALSE
    <3>1. i + 1 \in 1..Len(queue) /\ Ends(i + 1, s)
      BY <2>2, ReleaseFacts DEF Ends, OpFits
    <3> QED
      BY <2>1, <3>1
  <2>3. CASE disk'.side[s] = disk.side[s]
    BY <2>1, <2>2, <2>3 DEF Hopeless
  <2>4. CASE disk'.side[s] # disk.side[s]
    <3>1. pc # "idle" /\ Follows(mem) /\ disk'.side[s] = mem.side[s]
      BY <2>4 DEF Wrote
    <3>2. Head(queue) = queue[1] /\ 1 \in 1..Len(queue)
      BY HeadFacts DEF OpFits
    <3>3. mem.side[s] \in Terminal \ {"completed"}
      <4>1. CASE Head(queue).op = "finish"
        BY <2>1, <2>4, <3>1, <3>2, <4>1 DEF Follows, Ends
      <4>2. CASE Head(queue).op # "finish"
        BY <2>4, <3>1, <4>2 DEF Follows, Terminal
      <4> QED
        BY <4>1, <4>2
    <3> QED
      BY <3>1, <3>3 DEF Hopeless
  <2> QED
    BY <2>3, <2>4
<1> QED
  BY <1>1, <1>2

-----------------------------------------------------------------------------
(* What a step leaves as it is *)

\* What a step may do to the agents, the worktrees, the source thread and the card.
WorldMoves ==
  /\ \A s \in Sides :
       /\ agent[s] # "none" => agent'[s] # "none"
       /\ agent[s] = "archived" => agent'[s] = "archived"
       /\ space[s] # "none" => space'[s] # "none"
       /\ space[s] = "archived" => space'[s] = "archived"
       /\ space[s] = "visible" => space'[s] \in {"visible", "archived"}
  /\ source = "archived" => source' = "archived"
  /\ card => card'

\* A step that leaves them alone.
LEMMA WorldAlone ==
  ASSUME UNCHANGED <<agent, space, source, card>>
  PROVE  WorldMoves
  BY DEF WorldMoves

\* Recorded votes stay votes for what the file says has ended.
LEMMA VotesStay ==
  ASSUME IInv, Shape', ProxyMoves, \A s \in Sides : Wrote(s)
  PROVE  VotesOnDone'
<1>1. \A v \in Votes : Winner(v) \in Sides
  BY DEF Votes, Winner, Sides
<1>2. \A s \in Sides : disk.side[s] = "completed" => disk'.side[s] = "completed"
  BY WroteOnce DEF Terminal
<1>3. ASSUME px'.vote \in Votes PROVE disk'.side[px'.winner] = "completed"
  <2>1. px'.winner = Winner(px'.vote) /\ px'.winner \in Sides
    BY <1>1, <1>3 DEF ProxyMoves, Gains, Sound
  <2>2. disk.side[px'.winner] = "completed"
    <3>1. CASE px.vote = px'.vote
      BY <1>3, <2>1, <3>1 DEF IInv, VotesOnDone, Sound
    <3>2. CASE px.vote # px'.vote
      BY <1>3, <2>1, <3>2 DEF ProxyMoves
    <3> QED
      BY <3>1, <3>2
  <2> QED
    BY <1>2, <2>1, <2>2
<1>4. ASSUME NEW q \in late', q.op = "vote" PROVE disk'.side[Winner(q.arg)] = "completed"
  <2>1. q.arg \in Votes
    BY <1>4 DEF Shape, ProxyFits, Requests
  <2> QED
    BY <1>1, <1>2, <1>4, <2>1 DEF ProxyMoves, IInv, VotesOnDone
<1> QED
  BY <1>3, <1>4 DEF VotesOnDone

\* So nothing of the winner is archived.
LEMMA WinnerStays ==
  ASSUME Unneeded', VotesOnDone', ProxyMoves, px'.vote \in Votes
  PROVE  px'.winner \in Sides /\ space'[px'.winner] # "archived"
<1>1. px'.winner \in Sides
  BY DEF ProxyMoves, Gains, Sound, Votes, Winner, Sides
<1>2. ASSUME space'[px'.winner] = "archived" PROVE FALSE
  <2>1. Hopeless(px.winner)' \/ px'.vote = "stopped"
    BY <1>1, <1>2 DEF Unneeded, Gone
  <2> QED
    BY <2>1 DEF Hopeless, VotesOnDone, Votes
<1> QED
  BY <1>1, <1>2

\* A copy that says the battle is over stays one of a battle that has been
\* cleaned up after.
LEMMA CleanStays ==
  ASSUME Unneeded', VotesOnDone', ProxyMoves, WorldMoves,
         NEW b, Clean(b), Honest(b)'
  PROVE  Clean(b)'
<1>1. CASE b.status = "decided"
  <2>1. /\ b.decision \in Votes /\ b.decision # None
        /\ LoserGone(b) /\ space[b.winner] = "visible" /\ source = "archived" /\ card
    BY <1>1 DEF Clean, Honest, WinnerKept, Votes, None
  <2>2. px'.vote \in Votes /\ b.winner = px'.winner
    BY <2>1 DEF Honest
  <2>3. b.winner \in Sides /\ space'[b.winner] # "archived"
    BY <2>2, WinnerStays
  <2>4. Other(b.winner) \in Sides
    BY DEF Other, Sides
  <2> QED
    BY <1>1, <2>1, <2>3, <2>4 DEF Clean, LoserGone, WinnerKept, WorldMoves, ProxyMoves
<1>2. CASE b.status = "stopped"
  BY <1>2 DEF Clean, WorldMoves, ProxyMoves
<1>3. CASE b.status \notin {"decided", "stopped"}
  BY <1>3 DEF Clean
<1> QED
  BY <1>1, <1>2, <1>3

\* What the winner's and the loser's worktrees have come to stays while a vote
\* is cleaned up after.
LEMMA CleaningStays ==
  ASSUME Unneeded', VotesOnDone', ProxyMoves, WorldMoves, NEW b, Honest(b)'
  PROVE  /\ WinnerKept(b) => WinnerKept(b)'
         /\ LoserGone(b) => LoserGone(b)'
<1>1. ASSUME WinnerKept(b) PROVE WinnerKept(b)'
  <2>1. b.decision \in Votes /\ b.decision # None /\ space[b.winner] = "visible"
    BY <1>1 DEF Honest, WinnerKept, Votes, None
  <2>2. px'.vote \in Votes /\ b.winner = px'.winner
    BY <2>1 DEF Honest
  <2>3. b.winner \in Sides /\ space'[b.winner] # "archived"
    BY <2>2, WinnerStays
  <2> QED
    BY <1>1, <2>1, <2>3 DEF WinnerKept, WorldMoves
<1>2. ASSUME LoserGone(b) PROVE LoserGone(b)'
  <2>1. Other(b.winner) \in Sides
    BY DEF Other, Sides
  <2> QED
    BY <1>2, <2>1 DEF LoserGone, WorldMoves, ProxyMoves
<1> QED
  BY <1>1, <1>2

\* What a copy says of the decision stays what the proxy has.
LEMMA HonestStays ==
  ASSUME ProxyMoves, NEW b, Honest(b)
  PROVE  Honest(b)'
<1>1. px.vote # None => px'.vote = px.vote /\ px'.winner = px.winner /\ px'.early = px.early
  BY DEF ProxyMoves, Gains
<1> QED
  BY <1>1 DEF Honest, Votes, Decisions, None

\* A battle whose decision the proxy has just told is told truly.
LEMMA HonestApplied ==
  ASSUME ProxyMoves, NEW b \in Battle, Honest(b), NEW t \in Record, t = px'
  PROVE  Honest(Applied(b, t))'
<1>1. /\ Applied(b, t).decision = t.vote /\ Applied(b, t).winner = t.winner
      /\ Applied(b, t).early = t.early /\ Applied(b, t).comparison = t.comparison
      /\ Applied(b, t).revealed = (t.vote \in Votes)
      /\ Applied(b, t).status = b.status /\ Applied(b, t).linked = b.linked
  BY AppliedFacts
<1>2. b.decision # None => t.vote = b.decision
  BY DEF Honest, ProxyMoves, Gains
<1>3. t.early => t.comparison = "early"
  BY DEF ProxyMoves, Gains, Sound
<1> QED
  BY <1>1, <1>2, <1>3 DEF Honest, Votes, Decisions, None

\* The decision of a battle that was over stays, and so it stays cleaned up after.
LEMMA CleanApplied ==
  ASSUME ProxyMoves, NEW b \in Battle, Honest(b), Clean(b)', NEW t \in Record, t = px'
  PROVE  Clean(Applied(b, t))'
<1>1. /\ Applied(b, t).decision = t.vote /\ Applied(b, t).winner = t.winner
      /\ Applied(b, t).status = b.status
  BY AppliedFacts
<1>2. b.decision # None => t.winner = b.winner
  BY DEF Honest, ProxyMoves, Gains
<1>3. b.status = "decided" => b.decision # None
  BY DEF Honest, Votes, None
<1> QED
  BY <1>1, <1>2, <1>3 DEF Clean, LoserGone, WinnerKept

\* It has the ends and the decision that the file has.
LEMMA FollowsApplied ==
  ASSUME Honest(disk), ProxyMoves, NEW b \in Battle, Follows(b), NEW t \in Record, t = px'
  PROVE  Follows(Applied(b, t))
<1>1. Applied(b, t).decision = t.vote /\ Applied(b, t).side = b.side
  BY AppliedFacts
<1>2. disk.decision # None => t.vote = disk.decision
  BY DEF Honest, ProxyMoves, Gains
<1> QED
  BY <1>1, <1>2 DEF Follows

\* What a step archives is of no use to a vote.
ArchivesUnneeded ==
  \A s \in Sides : Gone(s)' =>
    \/ Gone(s)
    \/ px'.vote = "stopped"
    \/ px'.vote \in Votes /\ px'.winner # s
    \/ Hopeless(s)'

\* Archiving more is all that can make a side needed: whatever was archived before
\* stays unneeded.
LEMMA UnneededStays ==
  ASSUME Unneeded, ProxyMoves,
         \A s \in Sides : Hopeless(s) => Hopeless(s)',
         ArchivesUnneeded
  PROVE  Unneeded'
<1>1. px.vote # None => px'.vote = px.vote /\ px'.winner = px.winner
  BY DEF ProxyMoves, Gains
<1>2. None # "stopped" /\ None \notin Votes
  BY DEF None, Votes
<1> QED
  BY <1>1, <1>2 DEF Unneeded, ArchivesUnneeded

\* The file is written with what is true, or not at all.
FileStays == disk' = disk \/ (Honest(disk)' /\ Clean(disk)')

\* What is left to show of a step that makes the moves above.
LEMMA StepKeeps ==
  ASSUME IInv, Shape', ProxyMoves, WorldMoves,
         \A s \in Sides : Wrote(s),
         FileStays,
         EndsOnce',
         Comparing' => Comparing \/ (AllCompleted(px') /\ ~px'.early),
         \A s \in Sides : Hopeless(s) => Hopeless(s)',
         ArchivesUnneeded,
         Honest(disk)' /\ Clean(disk)' /\ Unneeded' /\ VotesOnDone' /\ pc' # "idle"
           => HeadFits(pc, mem)'
  PROVE  IInv'
<1>1. Unneeded'
  BY UnneededStays DEF IInv
<1>2. VotesOnDone'
  BY VotesStay
<1>3. Honest(disk)' /\ Clean(disk)'
  <2>1. CASE disk' = disk
    <3>1. PICK b : b = disk
      OBVIOUS
    <3>2. Honest(b) /\ Clean(b)
      BY <3>1 DEF IInv
    <3>3. Honest(b)'
      BY <3>2, HonestStays
    <3>4. Clean(b)'
      BY <1>1, <1>2, <3>2, <3>3, CleanStays
    <3>5. disk' = b
      BY <2>1, <3>1
    <3>6. Honest(disk)'
      BY <3>3, <3>5 DEF Honest
    <3>7. Clean(disk)'
      BY <3>4, <3>5 DEF Clean, LoserGone, WinnerKept
    <3> QED
      BY <3>6, <3>7
  <2> QED
    BY <2>1 DEF FileStays
<1>4. ComparesDone'
  BY DEF ComparesDone, IInv, ProxyMoves, Gains
<1>5. MadeAll'
  BY DEF IInv, MadeAll, WorldMoves
<1>6. Sound(px')
  BY DEF ProxyMoves, Gains
<1> QED
  BY <1>1, <1>2, <1>3, <1>4, <1>5, <1>6 DEF IInv

\* The running mutation does not notice what others do.
LEMMA HeadStays ==
  ASSUME IInv, Shape', ProxyMoves, WorldMoves, Joined, UNCHANGED <<pc, mem, disk>>,
         Honest(disk)', Clean(disk)', Unneeded', VotesOnDone', pc' # "idle"
  PROVE  HeadFits(pc, mem)'
<1>1. HeadFits(pc, mem) /\ mem' = mem /\ disk' = disk /\ pc' = pc
  BY DEF IInv
<1>2. queue # <<>> /\ Head(queue') = Head(queue)
  BY <1>1, HeadFacts DEF IInv, Shape, OpFits, Steady, Joined
<1>3. PICK b : b = mem
  OBVIOUS
<1>4. Honest(b)'
  BY <1>1, <1>3, HonestStays DEF HeadFits
<1>5. Honest(mem)'
  BY <1>1, <1>3, <1>4 DEF Honest
<1>6. Follows(mem)'
  BY <1>1, <1>2 DEF HeadFits, Follows
<1>7. MaySend(pc) => MaySend(pc)'
  BY <1>1, <1>2 DEF MaySend, ProxyMoves, Gains, CompletedSides
<1>8. /\ WinnerKept(b) => WinnerKept(b)'
      /\ LoserGone(b) => LoserGone(b)'
      /\ Clean(b) => Clean(b)'
  BY <1>4, CleaningStays, CleanStays
<1>9. /\ WinnerKept(mem) => WinnerKept(mem)'
      /\ LoserGone(mem) => LoserGone(mem)'
      /\ Clean(mem) => Clean(mem)'
  BY <1>1, <1>3, <1>8 DEF Clean, LoserGone, WinnerKept
<1>10. Reached(pc, mem)'
  BY <1>1, <1>2, <1>7, <1>9 DEF HeadFits, Reached, WorldMoves
<1> QED
  BY <1>5, <1>6, <1>10 DEF HeadFits

-----------------------------------------------------------------------------
(* Steps outside the running mutation keep the invariant *)

\* What such a step has to show.
LEMMA OthersKeep ==
  ASSUME IInv, Shape', ProxyMoves, WorldMoves, Joined, UNCHANGED <<pc, mem, disk>>,
         \A s \in Sides : Gone(s)' => Gone(s),
         Comparing' => Comparing \/ (AllCompleted(px') /\ ~px'.early)
  PROVE  IInv'
<1> ArchivesUnneeded
  BY DEF ArchivesUnneeded
<1>1. \A s \in Sides : Wrote(s)
  BY DEF Wrote
<1>2. FileStays
  BY DEF FileStays
<1>3. EndsOnce'
  BY JoinedOnce DEF IInv, Shape
<1>4. ASSUME NEW s \in Sides, Hopeless(s) PROVE Hopeless(s)'
  BY <1>1, <1>4, HopelessGoesOn DEF IInv, Shape
<1>5. ASSUME Honest(disk)' /\ Clean(disk)' /\ Unneeded' /\ VotesOnDone' /\ pc' # "idle"
      PROVE  HeadFits(pc, mem)'
  BY <1>5, HeadStays
<1> QED
  BY <1>1, <1>2, <1>3, <1>4, <1>5, StepKeeps

\* A mutation that joins the queue and is neither a poll's nor a side's end.
LEMMA CallJoins ==
  ASSUME OpFits, NEW m \in Mutations, queue' = Append(queue, m), UNCHANGED monitor,
         m.op # "finish"
  PROVE  /\ Joined
         /\ m.op # "poll" => \A i \in 1..Len(queue') :
              queue'[i].op = "poll" => i \in 1..Len(queue) /\ queue[i].op = "poll"
<1>1. /\ Kept /\ Len(queue) \in Nat /\ Len(queue') = Len(queue) + 1
      /\ queue'[Len(queue) + 1] = m
  BY AppendFacts DEF OpFits
<1>2. \A i \in 1..Len(queue') : i > Len(queue) => i = Len(queue) + 1
  BY <1>1
<1>3. Joined
  BY <1>1, <1>2 DEF Joined
<1>4. ASSUME m.op # "poll", NEW i \in 1..Len(queue'), queue'[i].op = "poll"
      PROVE  i \in 1..Len(queue) /\ queue[i].op = "poll"
  BY <1>1, <1>2, <1>4 DEF Kept
<1> QED
  BY <1>3, <1>4

\* A client's call.
LEMMA CallKeeps ==
  ASSUME IInv, Shape', NEW m \in Mutations, Call(m)
  PROVE  IInv'
<1>1. /\ queue' = Append(queue, m) /\ m.op \in {"vote", "stop", "get"}
      /\ UNCHANGED <<px, generations, late, disk, pc, mem, polls, agent, monitor, space,
                     source, card, faults>>
  BY DEF Call, proxyVars, worldVars
<1>2. ProxyMoves /\ WorldMoves
  BY <1>1, ProxyAlone, WorldAlone DEF IInv, proxyVars
<1>3. Joined /\ \A i \in 1..Len(queue') :
                  queue'[i].op = "poll" => i \in 1..Len(queue) /\ queue[i].op = "poll"
  BY <1>1, CallJoins DEF IInv, Shape
<1>4. Comparing' => Comparing
  BY <1>1, <1>3 DEF Comparing
<1>5. \A s \in Sides : Gone(s)' => Gone(s)
  BY <1>1 DEF Gone
<1> QED
  BY <1>1, <1>2, <1>3, <1>4, <1>5, OthersKeep

\* A poll sees a settled comparison, or gives up.
LEMMA PollKeeps ==
  ASSUME IInv, Shape', PollRead \/ PollGivesUp
  PROVE  IInv'
<1>1. /\ polls > 0
      /\ UNCHANGED <<px, generations, late, disk, pc, mem, agent, monitor, space,
                     source, card, faults>>
  BY DEF PollRead, PollGivesUp, proxyVars, opVars, worldVars
<1>2. ProxyMoves /\ WorldMoves
  BY <1>1, ProxyAlone, WorldAlone DEF IInv, proxyVars
<1>3. Joined
  <2>1. CASE PollRead
    <3> DEFINE m == [op |-> "poll", side |-> None, arg |-> px.comparison]
    <3>1. m \in Mutations
      BY <2>1 DEF PollRead, Mutations
    <3>2. queue' = Append(queue, m)
      BY <2>1 DEF PollRead
    <3> QED
      BY <1>1, <3>1, <3>2, CallJoins DEF IInv, Shape
  <2>2. CASE PollGivesUp
    BY <1>1, <2>2, NobodyJoins DEF PollGivesUp, opVars, IInv, Shape
  <2> QED
    BY <2>1, <2>2
<1>4. Comparing
  BY <1>1 DEF Comparing
<1>5. \A s \in Sides : Gone(s)' => Gone(s)
  BY <1>1 DEF Gone
<1> QED
  BY <1>1, <1>2, <1>3, <1>4, <1>5, OthersKeep

\* A turn ends.
LEMMA TurnKeeps ==
  ASSUME IInv, Shape', NEW s \in Sides, NEW outcome \in Outcomes, TurnEnds(s, outcome)
  PROVE  IInv'
<1> DEFINE m == [op |-> "finish", side |-> s, arg |-> outcome]
<1>1. /\ agent[s] = "running"
      /\ agent' = [agent EXCEPT ![s] = "idle"]
      /\ monitor' = [monitor EXCEPT ![s] = FALSE]
      /\ queue' = IF monitor[s] THEN Append(queue, m) ELSE queue
      /\ UNCHANGED <<px, generations, late, disk, pc, mem, polls, space, source, card, faults>>
  BY DEF TurnEnds, proxyVars
<1>2. ProxyMoves
  BY <1>1, ProxyAlone DEF IInv, proxyVars
<1>3. /\ \A t \in Sides : agent'[t] = IF t = s THEN "idle" ELSE agent[t]
      /\ \A t \in Sides : monitor'[t] = IF t = s THEN FALSE ELSE monitor[t]
  BY <1>1 DEF IInv, Shape, WorldFits
<1>4. WorldMoves /\ \A t \in Sides : Gone(t)' => Gone(t)
  BY <1>1, <1>3 DEF WorldMoves, Gone
<1>5. Joined /\ \A i \in 1..Len(queue') :
                  queue'[i].op = "poll" => i \in 1..Len(queue) /\ queue[i].op = "poll"
  <2>1. CASE monitor[s]
    <3>1. m \in Mutations
      BY DEF Mutations
    <3>2. queue' = Append(queue, m) /\ m.op = "finish" /\ m.side = s
      BY <1>1, <2>1
    <3> HIDE DEF m
    <3>3. /\ Kept /\ Len(queue) \in Nat /\ Len(queue') = Len(queue) + 1
          /\ queue'[Len(queue) + 1] = m
      BY <3>1, <3>2, AppendFacts DEF IInv, Shape, OpFits
    <3>4. \A i \in 1..Len(queue') : i > Len(queue) => i = Len(queue) + 1
      BY <3>3
    <3>5. Joined
      BY <1>3, <2>1, <3>2, <3>3, <3>4 DEF Joined
    <3>6. ASSUME NEW i \in 1..Len(queue'), queue'[i].op = "poll"
          PROVE  i \in 1..Len(queue) /\ queue[i].op = "poll"
      BY <3>2, <3>3, <3>4, <3>6 DEF Kept
    <3> QED
      BY <3>5, <3>6
  <2>2. CASE ~monitor[s]
    <3>1. queue' = queue
      BY <1>1, <2>2
    <3>2. Kept /\ Len(queue) \in Nat
      BY <3>1 DEF IInv, Shape, OpFits, Kept
    <3>3. \A t \in Sides : monitor'[t] => monitor[t]
      BY <1>3
    <3>4. Joined
      BY <3>1, <3>2, <3>3 DEF Joined
    <3> QED
      BY <3>1, <3>4
  <2> QED
    BY <2>1, <2>2
<1>6. Comparing' => Comparing
  BY <1>1, <1>5 DEF Comparing
<1> QED
  BY <1>1, <1>2, <1>4, <1>5, <1>6, OthersKeep

\* A client opens an agent.
LEMMA LoadKeeps ==
  ASSUME IInv, Shape', NEW s \in Sides, Load(s)
  PROVE  IInv'
<1>1. /\ agent[s] = "unloaded"
      /\ agent' = [agent EXCEPT ![s] = "idle"]
      /\ UNCHANGED <<px, generations, late, disk, queue, pc, mem, polls, monitor, space,
                     source, card, faults>>
  BY DEF Load, proxyVars, opVars
<1>2. ProxyMoves /\ Joined
  BY <1>1, ProxyAlone, NobodyJoins DEF IInv, Shape, proxyVars
<1>3. \A t \in Sides : agent'[t] = IF t = s THEN "idle" ELSE agent[t]
  BY <1>1 DEF IInv, Shape, WorldFits
<1>4. WorldMoves /\ \A t \in Sides : Gone(t)' => Gone(t)
  BY <1>1, <1>3 DEF WorldMoves, Gone
<1>5. Comparing' => Comparing
  BY <1>1 DEF Comparing
<1> QED
  BY <1>1, <1>2, <1>4, <1>5, OthersKeep

\* The proxy gets a late request, ends a generation, or restarts.
LEMMA ProxyKeeps ==
  ASSUME IInv, Shape',
         \/ \E q \in Requests : Arrive(q)
         \/ \E outcome \in {"completed", "error"} : GenerationEnds(outcome)
         \/ ProxyRestarts
  PROVE  IInv'
<1>1. UNCHANGED <<disk, queue, pc, mem, polls, agent, monitor, space, source, card>>
  BY DEF Arrive, GenerationEnds, ProxyRestarts, opVars, worldVars
<1>2. px \in Record /\ Sound(px) /\ generations \in Nat
  BY DEF IInv, Shape, ProxyFits
<1>3. ASSUME NEW q \in Requests, Arrive(q) PROVE ProxyMoves
  <2>1. CASE Allowed(px, q)
    <3>1. px' = Effect(px, q) /\ q \in late /\ late' = late \ {q} /\ UNCHANGED faults
      BY <1>3, <2>1 DEF Arrive
    <3>2. Gains(px, px')
      BY <1>2, <2>1, <3>1, EffectGains
    <3>3. generations' > 0 => generations > 0 \/ (AllCompleted(px') /\ ~px'.early)
      <4>1. CASE q = CompareEdits
        BY <1>2, <2>1, <3>1, <4>1, EffectGains DEF CompareEdits
      <4>2. CASE q # CompareEdits
        BY <1>3, <4>2 DEF Arrive
      <4> QED
        BY <4>1, <4>2
    <3>4. px'.vote \in Votes =>
            px.vote = px'.vote \/ q = [op |-> "vote", arg |-> px'.vote]
      BY <1>2, <2>1, <3>1, EffectGains
    <3>5. q.op = "vote" => disk.side[Winner(q.arg)] = "completed"
      BY <3>1 DEF IInv, VotesOnDone
    <3> QED
      BY <3>1, <3>2, <3>3, <3>4, <3>5 DEF ProxyMoves, Suffered
  <2>2. CASE ~Allowed(px, q)
    <3>1. px' = px /\ generations' = generations /\ late' = late \ {q} /\ UNCHANGED faults
      BY <1>3, <2>2 DEF Arrive
    <3> QED
      BY <1>2, <3>1, SameGains DEF ProxyMoves, Suffered
  <2> QED
    BY <2>1, <2>2
<1>4. ASSUME NEW outcome \in {"completed", "error"}, GenerationEnds(outcome) PROVE ProxyMoves
  <2>1. /\ generations > 0 /\ generations' = generations - 1
        /\ px' = px \/ px' = Generated(px, outcome)
        /\ UNCHANGED <<late, faults>>
    BY <1>4 DEF GenerationEnds
  <2>2. AllCompleted(px) /\ ~px.early
    BY <2>1 DEF IInv, ComparesDone, Comparing
  <2>3. Gains(px, px')
    <3>1. CASE px' = px
      BY <1>2, <3>1, SameGains
    <3>2. CASE px' = Generated(px, outcome)
      <4>1. /\ px'.completed = px.completed /\ px'.vote = px.vote /\ px'.winner = px.winner
            /\ px'.early = px.early
        BY <1>2, <3>2 DEF Generated, Record
      <4> QED
        BY <1>2, <2>2, <4>1 DEF Gains, Sound, AllCompleted
    <3> QED
      BY <2>1, <3>1, <3>2
  <2>4. px'.vote \in Votes => px.vote = px'.vote
    BY <1>2, <2>1 DEF Generated, Record
  <2> QED
    BY <2>1, <2>3, <2>4 DEF ProxyMoves, Suffered
<1>5. ASSUME ProxyRestarts PROVE ProxyMoves
  BY <1>2, <1>5, SameGains, FaultFacts DEF ProxyRestarts, ProxyMoves, IInv, Shape, ProxyFits
<1>6. ProxyMoves
  BY <1>3, <1>4, <1>5
<1>7. WorldMoves /\ Joined
  BY <1>1, WorldAlone, NobodyJoins DEF IInv, Shape
<1>8. Comparing' => Comparing \/ (AllCompleted(px') /\ ~px'.early)
  BY <1>1, <1>6 DEF Comparing, ProxyMoves
<1>9. \A s \in Sides : Gone(s)' => Gone(s)
  BY <1>1 DEF Gone
<1> QED
  BY <1>1, <1>6, <1>7, <1>8, <1>9, OthersKeep

-----------------------------------------------------------------------------
(* Steps of the running mutation keep the invariant *)

\* What a step has to show that ends the mutation.
LEMMA ReleaseKeeps ==
  ASSUME IInv, Shape', ProxyMoves, queue # <<>>, Release,
         UNCHANGED <<agent, monitor, space, source, card>>,
         \A s \in Sides : Wrote(s),
         FileStays,
         polls' > 0 => polls > 0 \/ pc = "saveAndPoll"
  PROVE  IInv'
<1>1. EndsOnce'
  BY ReleasedOnce DEF IInv, Shape
<1>2. \A s \in Sides : Hopeless(s) => Hopeless(s)'
  BY HopelessReleased DEF IInv, Shape
<1>3. ArchivesUnneeded
  BY DEF ArchivesUnneeded, Gone
<1>4. Comparing' => Comparing \/ (AllCompleted(px') /\ ~px'.early)
  <2>1. pc' = "idle"
    BY DEF Release
  <2>2. ASSUME NEW i \in 1..Len(queue'), queue'[i].op = "poll" PROVE Comparing
    <3>1. i + 1 \in 1..Len(queue) /\ queue[i + 1].op = "poll"
      BY <2>2, ReleaseFacts DEF IInv, Shape, OpFits
    <3> QED
      BY <3>1 DEF Comparing
  <2> QED
    BY <2>1, <2>2 DEF Comparing, ProxyMoves
<1>5. pc' = "idle"
  BY DEF Release
<1> QED
  BY <1>1, <1>2, <1>3, <1>4, <1>5, WorldAlone, StepKeeps

\* What a step has to show that goes on with the mutation.
LEMMA GoesOnKeeps ==
  ASSUME IInv, Shape', ProxyMoves, WorldMoves, Joined, pc' # "idle",
         pc # "idle" => \A s \in Sides : mem'.side[s] = mem.side[s] \/ Head(queue).op # "finish",
         \A s \in Sides : Wrote(s),
         FileStays,
         ArchivesUnneeded,
         Comparing' => Comparing \/ (AllCompleted(px') /\ ~px'.early),
         Honest(disk)' /\ Clean(disk)' /\ Unneeded' /\ VotesOnDone' => HeadFits(pc, mem)'
  PROVE  IInv'
<1>1. EndsOnce'
  BY JoinedOnce DEF IInv, Shape
<1>2. ASSUME NEW s \in Sides, Hopeless(s) PROVE Hopeless(s)'
  BY <1>2, HopelessGoesOn DEF IInv, Shape
<1> QED
  BY <1>1, <1>2, StepKeeps

\* A mutation that does not go to saveAndPoll compares no more than before.
LEMMA ComparesNoMore ==
  ASSUME ProxyMoves, UNCHANGED <<queue, polls>>, pc' # "saveAndPoll"
  PROVE  Comparing' => Comparing \/ (AllCompleted(px') /\ ~px'.early)
  BY DEF Comparing, ProxyMoves

\* A copy of the file as it is.
LEMMA CopyFits ==
  ASSUME mem' = disk', Honest(disk)', Clean(disk)'
  PROVE  Follows(mem)' /\ Honest(mem)' /\ Clean(mem)'
  BY DEF Follows, Honest, Clean, LoserGone, WinnerKept

\* vote's checks.
LEMMA VoteBeginKeeps ==
  ASSUME IInv, Shape', VoteBegin
  PROVE  IInv'
<1>1. /\ pc = "idle" /\ queue # <<>> /\ Head(queue).op = "vote"
      /\ UNCHANGED <<px, generations, late, disk, polls, agent, monitor, space, source, card,
                     faults>>
  BY DEF VoteBegin, At, proxyVars, worldVars
<1>2. ProxyMoves /\ WorldMoves /\ FileStays /\ \A s \in Sides : Wrote(s)
  BY <1>1, ProxyAlone, WorldAlone DEF IInv, proxyVars, FileStays, Wrote
<1>3. CASE Release
  BY <1>1, <1>2, <1>3, ReleaseKeeps
<1>4. CASE /\ Goto("sync", disk)
           /\ Head(queue).arg = "tie" => CompletedSides(disk) = Sides
           /\ Winner(Head(queue).arg) \in CompletedSides(disk)
  <2>1. queue' = queue /\ pc' = "sync" /\ mem' = disk
    BY <1>4 DEF Goto
  <2>2. Joined /\ ArchivesUnneeded
    BY <1>1, <2>1, NobodyJoins DEF IInv, Shape, ArchivesUnneeded, Gone
  <2>3. ASSUME Honest(disk)', Clean(disk)' PROVE HeadFits(pc, mem)'
    <3>1. mem' = disk' /\ disk' = disk
      BY <1>1, <2>1
    <3>2. MaySend(pc)'
      BY <1>4, <2>1, <3>1 DEF MaySend, CompletedSides
    <3> QED
      BY <2>1, <2>3, <3>1, <3>2, CopyFits DEF HeadFits, Reached
  <2> QED
    BY <1>1, <1>2, <2>1, <2>2, <2>3, ComparesNoMore, GoesOnKeeps
<1> QED
  BY <1>3, <1>4 DEF VoteBegin

\* vote tells the proxy again which sides have ended.
LEMMA VoteSyncKeeps ==
  ASSUME IInv, Shape', VoteSync
  PROVE  IInv'
<1>1. /\ pc = "sync" /\ queue # <<>> /\ Head(queue).op = "vote"
      /\ UNCHANGED <<disk, polls, agent, monitor, space, source, card>>
  BY DEF VoteSync, At, worldVars
<1>2. PICK lost \in SUBSET CompletedSides(mem) :
        /\ SyncCalls(lost)
        /\ IF lost = {} THEN Goto("send", mem) ELSE Release
  BY DEF VoteSync
<1>3. /\ ProxyMoves
      /\ lost = {} => \A s \in CompletedSides(mem) : px'.completed[s]
  BY <1>2, SyncMoves DEF IInv, Shape
<1>4. WorldMoves /\ FileStays /\ \A s \in Sides : Wrote(s)
  BY <1>1, WorldAlone DEF FileStays, Wrote
<1>5. CASE Release
  BY <1>1, <1>3, <1>4, <1>5, ReleaseKeeps
<1>6. CASE lost = {} /\ Goto("send", mem)
  <2>1. queue' = queue /\ pc' = "send" /\ mem' = mem
    BY <1>6 DEF Goto
  <2>2. Joined /\ ArchivesUnneeded
    BY <1>1, <2>1, NobodyJoins DEF IInv, Shape, ArchivesUnneeded, Gone
  <2>3. mem = disk /\ MaySend("sync")
    BY <1>1 DEF IInv, HeadFits, Reached
  <2>4. ASSUME Honest(disk)', Clean(disk)' PROVE HeadFits(pc, mem)'
    <3>1. mem' = disk' /\ disk' = disk
      BY <1>1, <2>1, <2>3
    <3>2. MaySend(pc)'
      BY <1>3, <1>6, <2>1, <2>3, <3>1 DEF MaySend, CompletedSides
    <3> QED
      BY <2>1, <2>4, <3>1, <3>2, CopyFits DEF HeadFits, Reached
  <2> QED
    BY <1>1, <1>3, <1>4, <2>1, <2>2, <2>4, ComparesNoMore, GoesOnKeeps
<1> QED
  BY <1>2, <1>5, <1>6

\* The copy once the proxy has recorded the mutation's decision.
LEMMA DecisionFits ==
  ASSUME IInv, Shape', ProxyMoves, queue' = queue, disk' = disk, mem = disk,
         NEW status \in {"decided", "stopped"},
         mem' = [Applied(mem, px') EXCEPT !.status = status],
         status = "decided" => px'.vote \in Votes,
         status = "stopped" => px'.vote = "stopped"
  PROVE  Follows(mem)' /\ Honest(mem)' /\ mem'.status = status /\ mem'.side = mem.side
<1>1. PICK b \in Battle : b = mem
  BY DEF IInv, Shape, OpFits
<1>2. PICK t \in Record : t = px'
  BY DEF Shape, ProxyFits
<1>3. PICK a \in Battle : a = Applied(b, t)
  BY AppliedFacts
<1>4. Honest(b) /\ Follows(b) /\ Honest(disk)
  BY <1>1 DEF IInv, Honest, Follows
<1>5. Honest(a)'
  BY <1>2, <1>3, <1>4, HonestApplied
<1>6. Follows(a)
  BY <1>2, <1>3, <1>4, FollowsApplied
<1>7. a.decision = t.vote /\ a.side = b.side
  BY <1>3, AppliedFacts
<1>8. mem' = [a EXCEPT !.status = status]
  BY <1>1, <1>2, <1>3
<1>9. /\ mem'.status = status /\ mem'.side = mem.side /\ mem'.side = a.side
      /\ mem'.decision = a.decision /\ mem'.winner = a.winner /\ mem'.early = a.early
      /\ mem'.revealed = a.revealed /\ mem'.comparison = a.comparison
      /\ mem'.linked = a.linked
  BY <1>1, <1>7, <1>8 DEF Battle
<1>10. Follows(mem)'
  BY <1>6, <1>9 DEF Follows
<1>11. Honest(mem)'
  BY <1>2, <1>5, <1>7, <1>9 DEF Honest
<1> QED
  BY <1>9, <1>10, <1>11

\* The vote is sent.
LEMMA VoteSendKeeps ==
  ASSUME IInv, Shape', VoteSend
  PROVE  IInv'
<1> DEFINE q == [op |-> "vote", arg |-> Head(queue).arg]
<1>1. /\ pc = "send" /\ queue # <<>> /\ Head(queue).op = "vote"
      /\ UNCHANGED <<disk, polls, agent, monitor, space, source, card>>
  BY DEF VoteSend, At, worldVars
<1>2. /\ q \in Requests /\ q.arg \in Votes
      /\ disk.side[Winner(q.arg)] = "completed"
      /\ mem = disk
  <2>1. q.arg \in Votes
    BY <1>1, HeadFacts DEF IInv, Shape, OpFits, Mutations
  <2>2. mem = disk /\ MaySend("send")
    BY <1>1 DEF IInv, HeadFits, Reached
  <2> QED
    BY <1>1, <2>1, <2>2 DEF MaySend, CompletedSides, Requests
<1>3. Accepts(q) \/ Refuses(q) \/ TimesOut(q)
  BY DEF VoteSend
<1>4. ProxyMoves
  BY <1>2, <1>3, CallMoves DEF IInv, Shape
<1>5. WorldMoves /\ FileStays /\ \A s \in Sides : Wrote(s)
  BY <1>1, WorldAlone DEF FileStays, Wrote
<1>6. CASE Release
  BY <1>1, <1>4, <1>5, <1>6, ReleaseKeeps
<1>7. CASE Accepts(q) /\ Goto("promote", [Applied(mem, px') EXCEPT !.status = "decided"])
  <2>1. /\ queue' = queue /\ pc' = "promote"
        /\ mem' = [Applied(mem, px') EXCEPT !.status = "decided"]
    BY <1>7 DEF Goto
  <2>2. Joined /\ ArchivesUnneeded
    BY <1>1, <2>1, NobodyJoins DEF IInv, Shape, ArchivesUnneeded, Gone
  <2>3. px'.vote \in Votes
    <3>1. px' = Voted(px, q.arg)
      BY <1>7 DEF Accepts, Effect
    <3> QED
      BY <1>2, <3>1 DEF Voted, IInv, Shape, ProxyFits, Record
  <2>4. Follows(mem)' /\ Honest(mem)' /\ mem'.status = "decided" /\ mem'.side = mem.side
    BY <1>1, <1>2, <1>4, <2>1, <2>3, DecisionFits
  <2>5. HeadFits(pc, mem)'
    BY <2>1, <2>4 DEF HeadFits, Reached
  <2> QED
    BY <1>1, <1>4, <1>5, <2>1, <2>2, <2>4, <2>5, ComparesNoMore, GoesOnKeeps
<1> QED
  BY <1>6, <1>7 DEF VoteSend

\* The winner's worktree is made visible.
LEMMA VotePromoteKeeps ==
  ASSUME IInv, Shape', VotePromote
  PROVE  IInv'
<1>1. /\ pc = "promote" /\ queue # <<>> /\ Head(queue).op = "vote"
      /\ UNCHANGED <<px, generations, late, disk, polls, agent, monitor, source, card>>
  BY DEF VotePromote, At, proxyVars
<1>2. FileStays /\ \A s \in Sides : Wrote(s)
  BY <1>1 DEF FileStays, Wrote
<1>3. CASE Fault("promote") /\ Release /\ UNCHANGED space
  <2>1. ProxyMoves
    BY <1>1, <1>3, SameGains, FaultFacts DEF ProxyMoves, IInv, Shape, ProxyFits
  <2> QED
    BY <1>1, <1>2, <1>3, <2>1, ReleaseKeeps
<1>4. CASE /\ space' = [space EXCEPT ![mem.winner] = IF @ = "internal" THEN "visible" ELSE @]
           /\ Goto("retire", mem)
           /\ UNCHANGED faults
  <2>1. /\ queue' = queue /\ pc' = "retire" /\ mem' = mem
        /\ space \in [Sides -> Spaces]
    BY <1>4 DEF Goto, IInv, Shape, WorldFits
  <2>2. \A s \in Sides : space'[s] = IF s = mem.winner /\ space[s] = "internal"
                                       THEN "visible" ELSE space[s]
    BY <1>4, <2>1
  <2>3. ProxyMoves
    BY <1>1, <1>4, ProxyAlone DEF IInv, proxyVars
  <2>4. WorldMoves /\ Joined /\ ArchivesUnneeded
    BY <1>1, <2>1, <2>2, NobodyJoins
    DEF WorldMoves, IInv, Shape, ArchivesUnneeded, Gone
  <2>5. ASSUME Unneeded', VotesOnDone' PROVE HeadFits(pc, mem)'
    <3>1. Follows(mem) /\ Honest(mem) /\ mem.status = "decided"
      BY <1>1 DEF IInv, HeadFits, Reached
    <3>2. Follows(mem)' /\ Honest(mem)'
      BY <1>1, <2>1, <3>1 DEF Follows, Honest
    <3>3. px'.vote \in Votes /\ mem.winner = px'.winner
      BY <1>1, <3>1 DEF Honest, Votes, None
    <3>4. mem.winner \in Sides /\ space'[mem.winner] # "archived"
      BY <2>3, <2>5, <3>3, WinnerStays
    <3>5. space[mem.winner] \in {"internal", "visible", "archived"}
      BY <2>1, <3>4 DEF IInv, MadeAll, Spaces
    <3>6. WinnerKept(mem)'
      BY <2>1, <2>2, <3>1, <3>4, <3>5 DEF WinnerKept
    <3> QED
      BY <1>1, <2>1, <3>2, <3>6 DEF HeadFits, Reached
  <2> QED
    BY <1>1, <1>2, <2>1, <2>3, <2>4, <2>5, ComparesNoMore, GoesOnKeeps
<1> QED
  BY <1>3, <1>4 DEF VotePromote

\* Archiving sides moves the world, ends runs that were monitored, and joins no poll.
LEMMA RetireMoves ==
  ASSUME IInv, NEW S \in SUBSET Sides, NEW kept, Retire(S, kept),
         UNCHANGED proxyVars, UNCHANGED card, source' \in {source, "archived"}
  PROVE  /\ ProxyMoves /\ WorldMoves /\ Joined
         /\ \A i \in 1..Len(queue') :
              queue'[i].op = "poll" => i \in 1..Len(queue) /\ queue[i].op = "poll"
         /\ \A s \in Sides : Gone(s)' => Gone(s) \/ s \in S
         /\ \A s \in Sides : s \notin S => space'[s] = space[s]
         /\ \/ Suffered("archive")'
            \/ \A s \in S : agent'[s] = "archived" /\ space'[s] = "archived"
<1>1. /\ queue \in Seq(Mutations) /\ faults \in Seq(Faults) /\ Len(faults) <= MaxFaults
      /\ agent \in [Sides -> Agents] /\ monitor \in [Sides -> BOOLEAN]
      /\ space \in [Sides -> Spaces] /\ Sound(px) /\ MadeAll
  BY DEF IInv, Shape, ProxyFits, OpFits, WorldFits
<1>2. /\ \A k : Suffered(k) => Suffered(k)'
      /\ \A s \in Sides :
           /\ agent[s] # "none" => agent'[s] # "none"
           /\ agent[s] = "archived" => agent'[s] = "archived"
           /\ space'[s] \in {space[s], "archived"}
           /\ s \notin S => agent'[s] = agent[s] /\ space'[s] = space[s]
           /\ s \in S => \/ Suffered("archive")'
                         \/ /\ space'[s] = "archived"
                            /\ agent[s] # "none" => agent'[s] = "archived"
           /\ monitor'[s] => monitor[s]
  BY <1>1, RetireFacts
<1>3. /\ Kept
      /\ \A i \in 1..Len(queue') : i > Len(queue) =>
           /\ queue'[i].op = "finish" /\ queue'[i].side \in Sides
           /\ monitor[queue'[i].side] /\ ~monitor'[queue'[i].side]
           /\ \A j \in 1..Len(queue') :
                j > Len(queue) /\ queue'[j].side = queue'[i].side => i = j
  BY <1>1, RetireFacts
<1>4. Joined
  BY <1>2, <1>3 DEF Joined
<1>5. ASSUME NEW i \in 1..Len(queue'), queue'[i].op = "poll"
      PROVE  i \in 1..Len(queue) /\ queue[i].op = "poll"
  <2>1. Len(queue) \in Nat
    BY <1>1
  <2>2. i <= Len(queue)
    BY <1>3, <1>5, <2>1
  <2> QED
    BY <1>3, <1>5, <2>1, <2>2 DEF Kept
<1>6. ProxyMoves
  BY <1>1, <1>2, SameGains DEF ProxyMoves, proxyVars
<1>7. WorldMoves
  BY <1>2 DEF WorldMoves
<1>8. \A s \in Sides : Gone(s)' => Gone(s) \/ s \in S
  BY <1>2 DEF Gone
<1>9. \/ Suffered("archive")'
      \/ \A s \in S : agent'[s] = "archived" /\ space'[s] = "archived"
  BY <1>1, <1>2 DEF MadeAll
<1> QED
  BY <1>2, <1>4, <1>5, <1>6, <1>7, <1>8, <1>9

\* After a vote the loser and the source thread are archived.
LEMMA VoteRetireKeeps ==
  ASSUME IInv, Shape', VoteRetire
  PROVE  IInv'
<1> DEFINE loser == {Other(mem.winner)}
<1>1. /\ pc = "retire" /\ queue # <<>> /\ Head(queue).op = "vote" /\ pc' = "card"
      /\ source' = "archived"
      /\ UNCHANGED <<px, generations, late, disk, polls, card>>
      /\ mem' = IF mem.early
                  THEN [Cancelled(mem, loser) EXCEPT !.comparison = "early"]
                  ELSE mem
  BY DEF VoteRetire, At, proxyVars
<1>2. /\ Follows(mem) /\ Honest(mem) /\ WinnerKept(mem) /\ mem \in Battle
  BY <1>1 DEF IInv, HeadFits, Reached, Shape, OpFits
<1>3. /\ px.vote \in Votes /\ px.vote # "stopped" /\ mem.winner = px.winner
      /\ mem.winner \in Sides /\ mem.linked = Sides
  <2>1. px.vote \in Votes /\ mem.winner = px.winner /\ mem.linked = Sides
    BY <1>2 DEF Honest, WinnerKept, Votes, None
  <2> QED
    BY <2>1 DEF IInv, Sound, Votes, Winner, Sides
<1>4. loser \cap mem.linked = loser /\ loser \in SUBSET Sides /\ mem.winner \notin loser
  BY <1>3 DEF Other, Sides
<1>5. PICK kept \in SUBSET loser : Retire(loser, kept)
  BY <1>4 DEF VoteRetire
<1> HIDE DEF loser
<1>6. /\ ProxyMoves /\ WorldMoves /\ Joined
      /\ \A i \in 1..Len(queue') :
           queue'[i].op = "poll" => i \in 1..Len(queue) /\ queue[i].op = "poll"
      /\ \A s \in Sides : Gone(s)' => Gone(s) \/ s \in loser
      /\ \A s \in Sides : s \notin loser => space'[s] = space[s]
      /\ \/ Suffered("archive")'
         \/ \A s \in loser : agent'[s] = "archived" /\ space'[s] = "archived"
  BY <1>1, <1>4, <1>5, RetireMoves DEF proxyVars
<1>7. FileStays /\ \A s \in Sides : Wrote(s)
  BY <1>1 DEF FileStays, Wrote
<1>8. ArchivesUnneeded
  BY <1>1, <1>3, <1>4, <1>6 DEF ArchivesUnneeded
<1>9. Comparing' => Comparing
  BY <1>1, <1>6 DEF Comparing
<1>10. /\ mem'.decision = mem.decision /\ mem'.winner = mem.winner /\ mem'.early = mem.early
       /\ mem'.revealed = mem.revealed /\ mem'.status = mem.status
       /\ mem'.linked = mem.linked
       /\ mem'.comparison = mem.comparison \/ mem'.comparison = "early"
       /\ \A s \in Sides : mem'.side[s] = mem.side[s]
                             \/ (mem.side[s] \notin Terminal /\ mem'.side[s] = "cancelled")
  <2>1. CASE mem.early
    <3>1. PICK c \in Battle : c = Cancelled(mem, loser)
      BY <1>2, CancelledFacts
    <3>2. /\ c = [mem EXCEPT !.side = c.side]
          /\ \A s \in Sides : c.side[s] = mem.side[s]
                               \/ (mem.side[s] \notin Terminal /\ c.side[s] = "cancelled")
      BY <1>2, <3>1, CancelledFacts
    <3>3. mem' = [c EXCEPT !.comparison = "early"]
      BY <1>1, <2>1, <3>1
    <3> QED
      BY <1>2, <3>1, <3>2, <3>3 DEF Battle
  <2>2. CASE ~mem.early
    BY <1>1, <2>2
  <2> QED
    BY <2>1, <2>2
<1>11. HeadFits(pc, mem)'
  <2>1. Head(queue') = Head(queue)
    BY <1>1, <1>6, HeadFacts DEF IInv, Shape, OpFits, Joined
  <2>2. Follows(mem)'
    BY <1>1, <1>2, <1>10, <2>1 DEF Follows, Terminal
  <2>3. Honest(mem)'
    BY <1>1, <1>2, <1>10 DEF Honest
  <2>4. WinnerKept(mem)'
    BY <1>2, <1>3, <1>4, <1>6, <1>10 DEF WinnerKept
  <2>5. LoserGone(mem)'
    BY <1>3, <1>6, <1>10 DEF LoserGone, loser
  <2> QED
    BY <1>1, <2>2, <2>3, <2>4, <2>5 DEF HeadFits, Reached
<1> QED
  BY <1>1, <1>6, <1>7, <1>8, <1>9, <1>11, GoesOnKeeps

\* The card is written to the winner's timeline.
LEMMA VoteCardKeeps ==
  ASSUME IInv, Shape', VoteCard
  PROVE  IInv'
<1>1. /\ pc = "card" /\ queue # <<>> /\ Head(queue).op = "vote"
      /\ UNCHANGED <<px, generations, late, disk, polls, agent, monitor, space, source, faults>>
      /\ (card' = TRUE /\ Goto("save", mem)) \/ (Release /\ UNCHANGED card)
  BY DEF VoteCard, At, proxyVars
<1>2. ProxyMoves /\ FileStays /\ \A s \in Sides : Wrote(s)
  BY <1>1, ProxyAlone DEF IInv, proxyVars, FileStays, Wrote
<1>3. CASE Release /\ UNCHANGED card
  BY <1>1, <1>2, <1>3, ReleaseKeeps
<1>4. CASE card' = TRUE /\ Goto("save", mem)
  <2>1. queue' = queue /\ pc' = "save" /\ mem' = mem
    BY <1>4 DEF Goto
  <2>2. WorldMoves /\ Joined /\ ArchivesUnneeded
    BY <1>1, <1>4, <2>1, NobodyJoins DEF WorldMoves, IInv, Shape, ArchivesUnneeded, Gone
  <2>3. HeadFits(pc, mem)'
    <3>1. /\ Follows(mem) /\ Honest(mem) /\ WinnerKept(mem) /\ LoserGone(mem)
          /\ source = "archived"
      BY <1>1 DEF IInv, HeadFits, Reached
    <3>2. Follows(mem)' /\ Honest(mem)'
      BY <1>1, <2>1, <3>1 DEF Follows, Honest
    <3>3. Clean(mem)'
      BY <1>1, <1>4, <2>1, <3>1 DEF Clean, WinnerKept, LoserGone, Suffered
    <3> QED
      BY <1>1, <2>1, <3>2, <3>3 DEF HeadFits, Reached
  <2> QED
    BY <1>1, <1>2, <2>1, <2>2, <2>3, ComparesNoMore, GoesOnKeeps
<1> QED
  BY <1>1, <1>3, <1>4

\* stop's check, and getBattle's reading of the file.
LEMMA ReadKeeps ==
  ASSUME IInv, Shape', StopBegin \/ GetBegin
  PROVE  IInv'
<1>1. /\ pc = "idle" /\ queue # <<>> /\ Head(queue).op \in {"stop", "get"}
      /\ UNCHANGED <<px, generations, late, disk, polls, agent, monitor, space, source, card,
                     faults>>
      /\ Goto("send", disk) \/ Release
  BY DEF StopBegin, GetBegin, At, proxyVars, worldVars
<1>2. ProxyMoves /\ WorldMoves /\ FileStays /\ \A s \in Sides : Wrote(s)
  BY <1>1, ProxyAlone, WorldAlone DEF IInv, proxyVars, FileStays, Wrote
<1>3. CASE Release
  BY <1>1, <1>2, <1>3, ReleaseKeeps
<1>4. CASE Goto("send", disk)
  <2>1. queue' = queue /\ pc' = "send" /\ mem' = disk
    BY <1>4 DEF Goto
  <2>2. Joined /\ ArchivesUnneeded
    BY <1>1, <2>1, NobodyJoins DEF IInv, Shape, ArchivesUnneeded, Gone
  <2>3. ASSUME Honest(disk)', Clean(disk)' PROVE HeadFits(pc, mem)'
    <3>1. mem' = disk' /\ MaySend(pc)'
      BY <1>1, <2>1 DEF MaySend
    <3> QED
      BY <2>1, <2>3, <3>1, CopyFits DEF HeadFits, Reached
  <2> QED
    BY <1>1, <1>2, <2>1, <2>2, <2>3, ComparesNoMore, GoesOnKeeps
<1> QED
  BY <1>1, <1>3, <1>4

\* The stop is sent.
LEMMA StopSendKeeps ==
  ASSUME IInv, Shape', StopSend
  PROVE  IInv'
<1> DEFINE q == [op |-> "stop", arg |-> None]
<1>1. /\ pc = "send" /\ queue # <<>> /\ Head(queue).op = "stop"
      /\ UNCHANGED <<disk, polls, agent, monitor, space, source, card>>
  BY DEF StopSend, At, worldVars
<1>2. q \in Requests /\ q.op # "vote" /\ mem = disk
  BY <1>1 DEF IInv, HeadFits, Reached, Requests
<1>3. Accepts(q) \/ Refuses(q) \/ TimesOut(q)
  BY DEF StopSend
<1>4. ProxyMoves
  BY <1>2, <1>3, CallMoves DEF IInv, Shape
<1>5. WorldMoves /\ FileStays /\ \A s \in Sides : Wrote(s)
  BY <1>1, WorldAlone DEF FileStays, Wrote
<1>6. CASE Release
  BY <1>1, <1>4, <1>5, <1>6, ReleaseKeeps
<1>7. CASE Accepts(q) /\ Goto("retire", [Applied(mem, px') EXCEPT !.status = "stopped"])
  <2>1. /\ queue' = queue /\ pc' = "retire"
        /\ mem' = [Applied(mem, px') EXCEPT !.status = "stopped"]
    BY <1>7 DEF Goto
  <2>2. Joined /\ ArchivesUnneeded
    BY <1>1, <2>1, NobodyJoins DEF IInv, Shape, ArchivesUnneeded, Gone
  <2>3. px'.vote = "stopped"
    <3>1. px' = Stopped(px)
      BY <1>7 DEF Accepts, Effect
    <3> QED
      BY <3>1 DEF Stopped, IInv, Shape, ProxyFits, Record
  <2>4. Follows(mem)' /\ Honest(mem)' /\ mem'.status = "stopped" /\ mem'.side = mem.side
    BY <1>1, <1>2, <1>4, <2>1, <2>3, DecisionFits
  <2>5. HeadFits(pc, mem)'
    BY <1>1, <2>1, <2>4 DEF HeadFits, Reached
  <2> QED
    BY <1>1, <1>4, <1>5, <2>1, <2>2, <2>4, <2>5, ComparesNoMore, GoesOnKeeps
<1> QED
  BY <1>6, <1>7 DEF StopSend

\* A stopped battle archives both sides.
LEMMA StopRetireKeeps ==
  ASSUME IInv, Shape', StopRetire
  PROVE  IInv'
<1>1. /\ pc = "retire" /\ queue # <<>> /\ Head(queue).op = "stop" /\ pc' = "save"
      /\ UNCHANGED <<px, generations, late, disk, polls, source, card>>
      /\ mem' = Cancelled(mem, Sides)
  BY DEF StopRetire, At, proxyVars
<1>2. Follows(mem) /\ Honest(mem) /\ mem.status = "stopped" /\ mem \in Battle
  BY <1>1 DEF IInv, HeadFits, Reached, Shape, OpFits
<1>3. px.vote = "stopped" /\ mem.linked = Sides
  BY <1>2 DEF Honest, None
<1>4. PICK kept \in SUBSET Sides : Retire(Sides, kept)
  BY <1>3 DEF StopRetire
<1>5. /\ ProxyMoves /\ WorldMoves /\ Joined
      /\ \A i \in 1..Len(queue') :
           queue'[i].op = "poll" => i \in 1..Len(queue) /\ queue[i].op = "poll"
      /\ \/ Suffered("archive")'
         \/ \A s \in Sides : agent'[s] = "archived" /\ space'[s] = "archived"
  BY <1>1, <1>4, RetireMoves DEF proxyVars
<1>6. FileStays /\ \A s \in Sides : Wrote(s)
  BY <1>1 DEF FileStays, Wrote
<1>7. ArchivesUnneeded
  BY <1>1, <1>3 DEF ArchivesUnneeded
<1>8. Comparing' => Comparing
  BY <1>1, <1>5 DEF Comparing
<1>9. /\ mem'.decision = mem.decision /\ mem'.winner = mem.winner /\ mem'.early = mem.early
      /\ mem'.revealed = mem.revealed /\ mem'.status = mem.status
      /\ mem'.linked = mem.linked /\ mem'.comparison = mem.comparison
      /\ \A s \in Sides : mem'.side[s] = mem.side[s]
                            \/ (mem.side[s] \notin Terminal /\ mem'.side[s] = "cancelled")
  <2>1. /\ mem' \in Battle
        /\ mem' = [mem EXCEPT !.side = mem'.side]
        /\ \A s \in Sides : mem'.side[s] = mem.side[s]
                            \/ (mem.side[s] \notin Terminal /\ mem'.side[s] = "cancelled")
    BY <1>1, <1>2, CancelledFacts
  <2> QED
    BY <1>2, <2>1 DEF Battle
<1>10. HeadFits(pc, mem)'
  <2>1. Head(queue') = Head(queue)
    BY <1>1, <1>5, HeadFacts DEF IInv, Shape, OpFits, Joined
  <2>2. Follows(mem)'
    BY <1>1, <1>2, <1>9, <2>1 DEF Follows, Terminal
  <2>3. Honest(mem)'
    BY <1>1, <1>2, <1>9 DEF Honest
  <2>4. Clean(mem)'
    BY <1>2, <1>5, <1>9 DEF Clean
  <2> QED
    BY <1>1, <2>2, <2>3, <2>4 DEF HeadFits, Reached
<1> QED
  BY <1>1, <1>5, <1>6, <1>7, <1>8, <1>10, GoesOnKeeps

\* The copy is saved.
LEMMA SaveKeeps ==
  ASSUME IInv, Shape', Save \/ SaveAndPoll
  PROVE  IInv'
<1>1. /\ pc \in {"save", "saveAndPoll"} /\ queue # <<>> /\ Release /\ disk' = mem
      /\ UNCHANGED <<px, generations, late, agent, monitor, space, source, card, faults>>
      /\ polls' = polls \/ pc = "saveAndPoll"
  BY DEF Save, SaveAndPoll, proxyVars, worldVars, IInv, Shape, OpFits, Steady
<1>2. ProxyMoves
  BY <1>1, ProxyAlone DEF IInv, proxyVars
<1>3. Follows(mem) /\ Honest(mem) /\ Clean(mem)
  BY <1>1 DEF IInv, HeadFits, Reached
<1>4. \A s \in Sides : Wrote(s)
  BY <1>1, <1>3 DEF Wrote
<1>5. FileStays
  BY <1>1, <1>3 DEF FileStays, Honest, Clean, LoserGone, WinnerKept, Suffered
<1> QED
  BY <1>1, <1>2, <1>4, <1>5, ReleaseKeeps

\* A poll's answer is taken into a copy of the file.
LEMMA PollBeginKeeps ==
  ASSUME IInv, Shape', PollBegin
  PROVE  IInv'
<1>1. /\ pc = "idle" /\ queue # <<>> /\ Head(queue).op = "poll"
      /\ queue' = queue /\ pc' = "save" /\ mem' = [disk EXCEPT !.comparison = Head(queue).arg]
      /\ UNCHANGED <<px, generations, late, disk, polls, agent, monitor, space, source, card,
                     faults>>
  BY DEF PollBegin, At, Goto, proxyVars, worldVars
<1>2. ProxyMoves /\ WorldMoves /\ FileStays /\ \A s \in Sides : Wrote(s)
  BY <1>1, ProxyAlone, WorldAlone DEF IInv, proxyVars, FileStays, Wrote
<1>3. Joined /\ ArchivesUnneeded
  BY <1>1, NobodyJoins DEF IInv, Shape, ArchivesUnneeded, Gone
<1>4. ~px.early
  <2>1. Comparing
    BY <1>1, HeadFacts DEF Comparing, IInv, Shape, OpFits
  <2> QED
    BY <2>1 DEF IInv, ComparesDone
<1>5. /\ mem'.decision = disk.decision /\ mem'.winner = disk.winner /\ mem'.early = disk.early
      /\ mem'.revealed = disk.revealed /\ mem'.status = disk.status
      /\ mem'.linked = disk.linked /\ mem'.side = disk.side
  BY <1>1 DEF IInv, Shape, FileFits, Battle
<1>6. ASSUME Honest(disk)', Clean(disk)' PROVE HeadFits(pc, mem)'
  <2>1. Follows(mem)'
    BY <1>1, <1>5 DEF Follows
  <2>2. Honest(mem)'
    BY <1>1, <1>4, <1>5, <1>6 DEF Honest, Votes, None
  <2>3. Clean(mem)'
    BY <1>1, <1>5, <1>6 DEF Clean, LoserGone, WinnerKept
  <2> QED
    BY <1>1, <2>1, <2>2, <2>3 DEF HeadFits, Reached
<1> QED
  BY <1>1, <1>2, <1>3, <1>6, ComparesNoMore, GoesOnKeeps

\* getBattle asks the proxy, saves what is new, and may prepare a comparison.
LEMMA GetSendKeeps ==
  ASSUME IInv, Shape', GetSend
  PROVE  IInv'
<1>1. /\ pc = "send" /\ queue # <<>> /\ Head(queue).op = "get"
      /\ UNCHANGED <<px, generations, late, polls, agent, monitor, space, source, card>>
  BY DEF GetSend, At, proxyVars, worldVars
<1>2. mem = disk /\ mem \in Battle /\ px \in Record /\ Honest(mem) /\ Clean(mem)
  BY <1>1 DEF IInv, HeadFits, Reached, Shape, OpFits, ProxyFits
<1>3. UNCHANGED faults \/ Fault("proxy")
  BY DEF GetSend
<1>4. ProxyMoves /\ WorldMoves
  BY <1>1, <1>3, ProxyAlone, SameGains, FaultFacts, WorldAlone
  DEF ProxyMoves, IInv, Shape, ProxyFits, proxyVars
<1>5. PICK b \in Battle : b = mem
  BY <1>2
<1>6. PICK t \in Record : t = px'
  BY <1>1, <1>2
<1>7. PICK a \in Battle : a = Applied(b, t)
  BY AppliedFacts
<1>8. a.side = b.side
  BY <1>7, AppliedFacts
<1>9. Honest(b) /\ Honest(b)' /\ Clean(b)'
  BY <1>1, <1>2, <1>4, <1>5 DEF Honest, Clean, LoserGone, WinnerKept, ProxyMoves
<1>10. Honest(a)' /\ Clean(a)'
  BY <1>4, <1>6, <1>7, <1>9, HonestApplied, CleanApplied
<1>11. PICK n \in {a, b} : disk' = n /\ (Release \/ (Goto("prepare", n) /\ n.decision = None))
  <2>1. CASE GetContinue(mem) /\ UNCHANGED disk
    BY <1>2, <1>5, <2>1 DEF GetContinue, NeedsDetection
  <2>2. CASE /\ disk' = IF Applied(mem, px) # mem THEN Applied(mem, px) ELSE disk
             /\ GetContinue(Applied(mem, px))
    <3>1. Applied(mem, px) = a
      BY <1>1, <1>5, <1>6, <1>7
    <3>2. disk' = a
      BY <1>2, <2>2, <3>1
    <3> QED
      BY <2>2, <3>1, <3>2 DEF GetContinue, NeedsDetection
  <2> QED
    BY <2>1, <2>2 DEF GetSend
<1>12. Honest(n)' /\ Clean(n)' /\ n.side = disk.side
  BY <1>2, <1>5, <1>8, <1>9, <1>10
<1>13. FileStays /\ \A s \in Sides : Wrote(s)
  BY <1>11, <1>12 DEF FileStays, Wrote, Honest, Clean, LoserGone, WinnerKept
<1>14. CASE Release
  BY <1>1, <1>4, <1>13, <1>14, ReleaseKeeps
<1>15. CASE Goto("prepare", n) /\ n.decision = None
  <2>1. queue' = queue /\ pc' = "prepare" /\ mem' = n
    BY <1>15 DEF Goto
  <2>2. Joined /\ ArchivesUnneeded
    BY <1>1, <2>1, NobodyJoins DEF IInv, Shape, ArchivesUnneeded, Gone
  <2>3. mem'.side = mem.side
    BY <1>2, <1>12, <2>1
  <2>4. ASSUME Honest(disk)', Clean(disk)' PROVE HeadFits(pc, mem)'
    <3>1. mem' = disk' /\ mem'.decision = None
      BY <1>11, <1>15, <2>1
    <3> QED
      BY <2>1, <2>4, <3>1, CopyFits DEF HeadFits, Reached
  <2> QED
    BY <1>1, <1>4, <1>13, <2>1, <2>2, <2>3, <2>4, ComparesNoMore, GoesOnKeeps
<1> QED
  BY <1>11, <1>14, <1>15

\* The end of a side is taken into a copy of the file, once.
LEMMA FinishBeginKeeps ==
  ASSUME IInv, Shape', FinishBegin
  PROVE  IInv'
<1> DEFINE m == Head(queue)
<1>1. /\ pc = "idle" /\ queue # <<>> /\ m.op = "finish"
      /\ UNCHANGED <<px, generations, late, disk, polls, agent, monitor, space, source, card,
                     faults>>
  BY DEF FinishBegin, At, proxyVars, worldVars
<1>2. m.side \in Sides /\ m.arg \in Outcomes
  BY <1>1, HeadFacts DEF IInv, Shape, OpFits, Mutations
<1>3. ProxyMoves /\ WorldMoves /\ FileStays /\ \A s \in Sides : Wrote(s)
  BY <1>1, ProxyAlone, WorldAlone DEF IInv, proxyVars, FileStays, Wrote
<1>4. CASE Release
  BY <1>1, <1>3, <1>4, ReleaseKeeps
<1>5. ASSUME disk.side[m.side] \notin Terminal,
             NEW outcome \in Outcomes, NEW step \in {"report", "settle"},
             Goto(step, [disk EXCEPT !.side[m.side] = outcome])
      PROVE  IInv'
  <2>1. queue' = queue /\ pc' = step /\ mem' = [disk EXCEPT !.side[m.side] = outcome]
    BY <1>5 DEF Goto
  <2>2. Joined /\ ArchivesUnneeded
    BY <1>1, <2>1, NobodyJoins DEF IInv, Shape, ArchivesUnneeded, Gone
  <2>3. /\ mem'.decision = disk.decision /\ mem'.winner = disk.winner
        /\ mem'.early = disk.early /\ mem'.revealed = disk.revealed
        /\ mem'.status = disk.status /\ mem'.linked = disk.linked
        /\ mem'.comparison = disk.comparison
        /\ \A s \in Sides : mem'.side[s] = IF s = m.side THEN outcome ELSE disk.side[s]
    BY <1>2, <2>1 DEF IInv, Shape, FileFits, Battle
  <2>4. ASSUME Honest(disk)', Clean(disk)' PROVE HeadFits(pc, mem)'
    <3>1. Follows(mem)'
      BY <1>1, <1>5, <2>1, <2>3 DEF Follows, Terminal, Outcomes
    <3>2. Honest(mem)'
      BY <1>1, <2>3, <2>4 DEF Honest
    <3>3. Clean(mem)'
      BY <1>1, <2>3, <2>4 DEF Clean, LoserGone, WinnerKept
    <3> QED
      BY <1>5, <2>1, <3>1, <3>2, <3>3 DEF HeadFits, Reached
  <2> QED
    BY <1>1, <1>3, <1>5, <2>1, <2>2, <2>4, ComparesNoMore, GoesOnKeeps
<1> QED
  BY <1>2, <1>4, <1>5 DEF FinishBegin, Outcomes

\* The proxy is told of it.
LEMMA FinishReportKeeps ==
  ASSUME IInv, Shape', FinishReport
  PROVE  IInv'
<1> DEFINE q == [op |-> "complete", arg |-> Head(queue).side]
<1>1. /\ pc = "report" /\ queue # <<>> /\ Head(queue).op = "finish"
      /\ queue' = queue /\ pc' = "settle" /\ mem' = mem
      /\ UNCHANGED <<disk, polls, agent, monitor, space, source, card>>
  BY DEF FinishReport, At, Goto, worldVars
<1>2. q \in Requests /\ q.op # "vote"
  BY <1>1, HeadFacts DEF IInv, Shape, OpFits, Mutations, Requests
<1>3. ProxyMoves
  BY <1>2, CallMoves DEF FinishReport, IInv, Shape
<1>4. WorldMoves /\ FileStays /\ \A s \in Sides : Wrote(s)
  BY <1>1, WorldAlone DEF FileStays, Wrote
<1>5. Joined /\ ArchivesUnneeded
  BY <1>1, NobodyJoins DEF IInv, Shape, ArchivesUnneeded, Gone
<1>6. HeadFits(pc, mem)'
  <2>1. Follows(mem) /\ Honest(mem) /\ Clean(mem)
    BY <1>1 DEF IInv, HeadFits, Reached
  <2>2. PICK b : b = mem
    OBVIOUS
  <2>3. Honest(b)'
    BY <1>3, <2>1, <2>2, HonestStays
  <2>4. Follows(mem)' /\ Honest(mem)'
    BY <1>1, <2>1, <2>2, <2>3 DEF Follows, Honest
  <2>5. Clean(mem)'
    BY <1>1, <1>3, <2>1 DEF Clean, LoserGone, WinnerKept, ProxyMoves
  <2> QED
    BY <1>1, <2>4, <2>5 DEF HeadFits, Reached
<1> QED
  BY <1>1, <1>3, <1>4, <1>5, <1>6, ComparesNoMore, GoesOnKeeps

\* The end is saved while the other side works, or after the decision.
LEMMA FinishAloneKeeps ==
  ASSUME IInv, Shape', FinishAlone
  PROVE  IInv'
<1>1. /\ pc = "settle" /\ queue # <<>> /\ Release /\ disk' = mem
      /\ UNCHANGED <<px, generations, late, polls, agent, monitor, space, source, card, faults>>
  BY DEF FinishAlone, At, proxyVars, worldVars
<1>2. ProxyMoves
  BY <1>1, ProxyAlone DEF IInv, proxyVars
<1>3. Follows(mem) /\ Honest(mem) /\ Clean(mem)
  BY <1>1 DEF IInv, HeadFits, Reached
<1>4. \A s \in Sides : Wrote(s)
  BY <1>1, <1>3 DEF Wrote
<1>5. FileStays
  BY <1>1, <1>3 DEF FileStays, Honest, Clean, LoserGone, WinnerKept, Suffered
<1> QED
  BY <1>1, <1>2, <1>4, <1>5, ReleaseKeeps

\* Both sides completed: the battle awaits a vote.
LEMMA FinishBothKeeps ==
  ASSUME IInv, Shape', FinishBoth
  PROVE  IInv'
<1>1. /\ pc = "settle" /\ queue # <<>> /\ Head(queue).op = "finish" /\ mem.decision = None
      /\ queue' = queue /\ pc' = "prepare" /\ mem' = disk'
      /\ disk' = [mem EXCEPT !.status = "awaiting_vote"]
      /\ UNCHANGED <<px, generations, late, polls, agent, monitor, space, source, card, faults>>
  BY DEF FinishBoth, SettlesWith, At, Goto, proxyVars, worldVars
<1>2. ProxyMoves /\ WorldMoves
  BY <1>1, ProxyAlone, WorldAlone DEF IInv, proxyVars
<1>3. Joined /\ ArchivesUnneeded
  BY <1>1, NobodyJoins DEF IInv, Shape, ArchivesUnneeded, Gone
<1>4. Follows(mem) /\ Honest(mem) /\ mem \in Battle
  BY <1>1 DEF IInv, HeadFits, Shape, OpFits
<1>5. /\ disk'.decision = None /\ disk'.revealed = mem.revealed
      /\ disk'.status = "awaiting_vote" /\ disk'.linked = mem.linked
      /\ disk'.side = mem.side
  BY <1>1, <1>4 DEF Battle
<1>6. \A s \in Sides : Wrote(s)
  BY <1>1, <1>4, <1>5 DEF Wrote
<1>7. Honest(disk)' /\ Clean(disk)'
  BY <1>1, <1>4, <1>5 DEF Honest, Clean, Votes, None
<1>8. HeadFits(pc, mem)'
  BY <1>1, <1>5, <1>7, CopyFits DEF HeadFits, Reached
<1> QED
  BY <1>1, <1>2, <1>3, <1>5, <1>6, <1>7, <1>8, ComparesNoMore, GoesOnKeeps DEF FileStays

\* A side that this mutation ended without completing it cannot complete any more.
LEMMA FailedHopeless ==
  ASSUME IInv, Joined, pc \in {"settle", "abandon"}, Head(queue).op = "finish",
         disk' = disk, pc' # "idle", mem'.side = mem.side,
         NEW s \in Sides, mem.side[s] \in Terminal \ {"completed"}
  PROVE  Hopeless(s)'
<1>1. Follows(mem) /\ OpFits /\ EndsOnce /\ queue # <<>>
  BY DEF IInv, HeadFits, Shape, OpFits, Steady
<1>2. CASE mem.side[s] = disk.side[s]
  BY <1>2 DEF Hopeless
<1>3. CASE disk.side[s] \notin Terminal /\ Head(queue).side = s
  <2>1. 1 \in 1..Len(queue) /\ queue[1].op = "finish" /\ queue[1].side = s
    BY <1>1, <1>3, HeadFacts DEF OpFits
  <2>2. 1 \in 1..Len(queue') /\ queue'[1] = queue[1]
    BY <1>1, <2>1 DEF Joined, Kept, OpFits
  <2>3. EndsOnce'
    BY <1>1, JoinedOnce
  <2>4. ~monitor'[s] /\ \A j \in 1..Len(queue') : Ends(j, s)' => j = 1
    BY <2>1, <2>2, <2>3 DEF EndsOnce, Ends
  <2> QED
    BY <1>3, <2>4 DEF Hopeless, Terminal
<1> QED
  BY <1>1, <1>2, <1>3 DEF Follows

\* One side completed: the other is archived, and the battle awaits a vote.
LEMMA FinishOneKeeps ==
  ASSUME IInv, Shape', FinishOne
  PROVE  IInv'
<1> DEFINE failed == Sides \ CompletedSides(mem)
<1>1. /\ pc = "settle" /\ queue # <<>> /\ Head(queue).op = "finish"
      /\ AllTerminal(mem) /\ mem.decision = None /\ pc' = "save"
      /\ UNCHANGED <<px, generations, late, disk, polls, source, card>>
      /\ mem' = [mem EXCEPT !.status = "awaiting_vote", !.comparison = "oneFailed"]
  BY DEF FinishOne, SettlesWith, At, proxyVars
<1>2. Follows(mem) /\ Honest(mem) /\ mem \in Battle
  BY <1>1 DEF IInv, HeadFits, Shape, OpFits
<1>3. PICK kept : Retire(failed \cap mem.linked, kept)
  BY DEF FinishOne
<1>4. failed \cap mem.linked \subseteq failed /\ failed \subseteq Sides
  OBVIOUS
<1>5. /\ ProxyMoves /\ WorldMoves /\ Joined
      /\ \A i \in 1..Len(queue') :
           queue'[i].op = "poll" => i \in 1..Len(queue) /\ queue[i].op = "poll"
      /\ \A s \in Sides : Gone(s)' => Gone(s) \/ s \in failed
  <2> DEFINE S == failed \cap mem.linked
  <2>1. S \in SUBSET Sides /\ Retire(S, kept)
    BY <1>3
  <2> HIDE DEF S
  <2>2. /\ ProxyMoves /\ WorldMoves /\ Joined
        /\ \A i \in 1..Len(queue') :
             queue'[i].op = "poll" => i \in 1..Len(queue) /\ queue[i].op = "poll"
        /\ \A s \in Sides : Gone(s)' => Gone(s) \/ s \in S
    BY <1>1, <2>1, RetireMoves DEF proxyVars
  <2>3. S \subseteq failed
    BY DEF S
  <2> QED
    BY <2>2, <2>3
<1>6. /\ mem'.decision = None /\ mem'.revealed = mem.revealed /\ mem'.linked = mem.linked
      /\ mem'.status = "awaiting_vote" /\ mem'.side = mem.side
  BY <1>1, <1>2 DEF Battle
<1>7. FileStays /\ \A s \in Sides : Wrote(s)
  BY <1>1 DEF FileStays, Wrote
<1>8. ArchivesUnneeded
  <2>1. \A s \in failed : mem.side[s] \in Terminal \ {"completed"}
    BY <1>1 DEF AllTerminal, CompletedSides
  <2>2. \A s \in failed : Hopeless(s)'
    BY <1>1, <1>5, <1>6, <2>1, FailedHopeless
  <2> QED
    BY <1>5, <2>2 DEF ArchivesUnneeded
<1>9. Comparing' => Comparing
  BY <1>1, <1>5 DEF Comparing
<1>10. HeadFits(pc, mem)'
  <2>1. Head(queue') = Head(queue)
    BY <1>1, <1>5, HeadFacts DEF IInv, Shape, OpFits, Joined
  <2>2. Follows(mem)'
    BY <1>1, <1>2, <1>6, <2>1 DEF Follows
  <2>3. Honest(mem)' /\ Clean(mem)'
    BY <1>1, <1>2, <1>6 DEF Honest, Clean, Votes, None
  <2> QED
    BY <1>1, <2>2, <2>3 DEF HeadFits, Reached
<1> QED
  BY <1>1, <1>5, <1>6, <1>7, <1>8, <1>9, <1>10, GoesOnKeeps

\* Neither did: the battle is over, and the proxy is told to stop.
LEMMA FinishNoneKeeps ==
  ASSUME IInv, Shape', FinishNone
  PROVE  IInv'
<1> DEFINE q == [op |-> "stop", arg |-> None]
<1>1. /\ pc = "settle" /\ queue # <<>> /\ Head(queue).op = "finish"
      /\ AllTerminal(mem) /\ mem.decision = None /\ Cardinality(CompletedSides(mem)) = 0
      /\ queue' = queue /\ pc' = "abandon"
      /\ mem' = [mem EXCEPT !.status = "error", !.comparison = "noneUsable"]
      /\ UNCHANGED <<disk, polls, agent, monitor, space, source, card>>
  BY DEF FinishNone, SettlesWith, At, Goto, worldVars
<1>2. Follows(mem) /\ Honest(mem) /\ mem \in Battle
  BY <1>1 DEF IInv, HeadFits, Shape, OpFits
<1>3. q \in Requests /\ q.op # "vote"
  BY DEF Requests
<1>4. ProxyMoves
  BY <1>3, CallMoves DEF FinishNone, IInv, Shape
<1>5. WorldMoves /\ FileStays /\ \A s \in Sides : Wrote(s)
  BY <1>1, WorldAlone DEF FileStays, Wrote
<1>6. Joined /\ ArchivesUnneeded
  BY <1>1, NobodyJoins DEF IInv, Shape, ArchivesUnneeded, Gone
<1>7. CompletedSides(mem) = {}
  <2>1. IsFiniteSet(CompletedSides(mem))
    <3>1. IsFiniteSet(Sides)
      <4>1. Sides = {"A"} \cup {"B"}
        BY DEF Sides
      <4>2. IsFiniteSet({"A"}) /\ IsFiniteSet({"B"})
        BY FS_Singleton
      <4> QED
        BY <4>1, <4>2, FS_Union
    <3> QED
      BY <3>1, FS_Subset DEF CompletedSides
  <2> QED
    BY <1>1, <2>1, FS_EmptySet
<1>8. /\ mem'.decision = None /\ mem'.revealed = mem.revealed /\ mem'.linked = mem.linked
      /\ mem'.status = "error" /\ mem'.side = mem.side
  BY <1>1, <1>2 DEF Battle
<1>9. HeadFits(pc, mem)'
  <2>1. PICK b : b = mem
    OBVIOUS
  <2>2. Honest(b)'
    BY <1>2, <1>4, <2>1, HonestStays
  <2>3. Follows(mem)'
    BY <1>1, <1>2, <1>8 DEF Follows
  <2>4. Honest(mem)' /\ Clean(mem)'
    BY <1>8, <2>1, <2>2 DEF Honest, Clean, Votes, None
  <2>5. \A s \in Sides : mem'.side[s] \in Terminal \ {"completed"}
    BY <1>1, <1>7, <1>8 DEF AllTerminal, CompletedSides
  <2> QED
    BY <1>1, <1>8, <2>3, <2>4, <2>5 DEF HeadFits, Reached
<1> QED
  BY <1>1, <1>4, <1>5, <1>6, <1>8, <1>9, ComparesNoMore, GoesOnKeeps

\* Both sides are archived.
LEMMA FinishAbandonKeeps ==
  ASSUME IInv, Shape', FinishAbandon
  PROVE  IInv'
<1>1. /\ pc = "abandon" /\ queue # <<>> /\ Head(queue).op = "finish" /\ pc' = "save"
      /\ UNCHANGED <<px, generations, late, disk, mem, polls, source, card>>
  BY DEF FinishAbandon, At, proxyVars
<1>2. /\ Follows(mem) /\ Honest(mem) /\ mem.decision = None
      /\ \A s \in Sides : mem.side[s] \in Terminal \ {"completed"}
  BY <1>1 DEF IInv, HeadFits, Reached
<1>3. PICK kept \in SUBSET Sides : Retire(Sides, kept)
  BY <1>2 DEF FinishAbandon, Honest
<1>4. /\ ProxyMoves /\ WorldMoves /\ Joined
      /\ \A i \in 1..Len(queue') :
           queue'[i].op = "poll" => i \in 1..Len(queue) /\ queue[i].op = "poll"
  BY <1>1, <1>3, RetireMoves DEF proxyVars
<1>5. FileStays /\ \A s \in Sides : Wrote(s)
  BY <1>1 DEF FileStays, Wrote
<1>6. ArchivesUnneeded
  <2>1. \A s \in Sides : Hopeless(s)'
    BY <1>1, <1>2, <1>4, FailedHopeless
  <2> QED
    BY <2>1 DEF ArchivesUnneeded
<1>7. Comparing' => Comparing
  BY <1>1, <1>4 DEF Comparing
<1>8. HeadFits(pc, mem)'
  <2>1. Head(queue') = Head(queue)
    BY <1>1, <1>4, HeadFacts DEF IInv, Shape, OpFits, Joined
  <2>2. Follows(mem)'
    BY <1>1, <1>2, <2>1 DEF Follows
  <2>3. Honest(mem)' /\ Clean(mem)'
    BY <1>1, <1>2 DEF Honest, Clean, Votes, None
  <2> QED
    BY <1>1, <2>2, <2>3 DEF HeadFits, Reached
<1> QED
  BY <1>1, <1>4, <1>5, <1>6, <1>7, <1>8, GoesOnKeeps

\* The worktrees are compared.
LEMMA PrepareKeeps ==
  ASSUME IInv, Shape', Prepare
  PROVE  IInv'
<1>1. /\ pc = "prepare" /\ queue # <<>> /\ queue' = queue
      /\ UNCHANGED <<px, generations, late, polls, agent, monitor, space, source, card, faults>>
  BY DEF Prepare, Goto, proxyVars, worldVars, IInv, Shape, OpFits, Steady
<1>2. ProxyMoves /\ WorldMoves
  BY <1>1, ProxyAlone, WorldAlone DEF IInv, proxyVars
<1>3. Joined /\ ArchivesUnneeded
  BY <1>1, NobodyJoins DEF IInv, Shape, ArchivesUnneeded, Gone
<1>4. /\ Follows(mem) /\ Honest(mem) /\ Clean(mem) /\ mem.decision = None
      /\ mem \in Battle
  BY <1>1 DEF IInv, HeadFits, Reached, Shape, OpFits
<1>5. CASE /\ disk' = [mem EXCEPT !.detected = TRUE, !.comparison = "generating"]
           /\ Goto("syncEdits", disk')
  <2>1. pc' = "syncEdits" /\ mem' = disk'
    BY <1>5 DEF Goto
  <2>2. /\ disk'.decision = None /\ disk'.revealed = mem.revealed
        /\ disk'.status = mem.status /\ disk'.linked = mem.linked
        /\ disk'.side = mem.side
    BY <1>4, <1>5 DEF Battle
  <2>3. \A s \in Sides : Wrote(s)
    BY <1>1, <1>4, <2>2 DEF Wrote
  <2>4. Honest(disk)' /\ Clean(disk)'
    BY <1>1, <1>4, <2>2 DEF Honest, Clean, Votes, None
  <2>5. HeadFits(pc, mem)'
    BY <2>1, <2>2, <2>4, CopyFits DEF HeadFits, Reached
  <2> QED
    BY <1>1, <1>2, <1>3, <2>1, <2>2, <2>3, <2>4, <2>5, ComparesNoMore, GoesOnKeeps
    DEF FileStays
<1>6. CASE Goto("syncNoEdits", [mem EXCEPT !.detected = TRUE]) /\ UNCHANGED disk
  <2>1. pc' = "syncNoEdits" /\ mem' = [mem EXCEPT !.detected = TRUE]
    BY <1>6 DEF Goto
  <2>2. /\ mem'.decision = None /\ mem'.revealed = mem.revealed
        /\ mem'.status = mem.status /\ mem'.linked = mem.linked
        /\ mem'.side = mem.side
    BY <1>4, <2>1 DEF Battle
  <2>3. FileStays /\ \A s \in Sides : Wrote(s)
    BY <1>6 DEF FileStays, Wrote
  <2>4. Follows(mem)'
    BY <1>1, <1>4, <1>6, <2>2 DEF Follows
  <2>5. Honest(mem)' /\ Clean(mem)'
    BY <1>1, <1>4, <2>2 DEF Honest, Clean, Votes, None
  <2>6. HeadFits(pc, mem)'
    BY <2>1, <2>2, <2>4, <2>5 DEF HeadFits, Reached
  <2> QED
    BY <1>1, <1>2, <1>3, <2>1, <2>2, <2>3, <2>6, ComparesNoMore, GoesOnKeeps
<1> QED
  BY <1>5, <1>6 DEF Prepare

\* A comparison that fails is saved as such.
LEMMA CompareFailedKeeps ==
  ASSUME IInv, Shape', ProxyMoves,
         pc \in {"syncEdits", "syncNoEdits", "compareEdits", "compareNoEdits"},
         CompareFailed, UNCHANGED <<polls, agent, monitor, space, source, card>>
  PROVE  IInv'
<1>1. queue # <<>> /\ Release /\ disk' = [mem EXCEPT !.comparison = "error"]
  BY DEF CompareFailed, IInv, Shape, OpFits, Steady
<1>2. /\ Follows(mem) /\ Honest(mem) /\ Clean(mem) /\ mem.decision = None
      /\ mem \in Battle
  BY DEF IInv, HeadFits, Reached, Shape, OpFits
<1>3. /\ disk'.decision = None /\ disk'.revealed = mem.revealed
      /\ disk'.status = mem.status /\ disk'.linked = mem.linked
      /\ disk'.side = mem.side
  BY <1>1, <1>2 DEF Battle
<1>4. \A s \in Sides : Wrote(s)
  BY <1>2, <1>3 DEF Wrote
<1>5. FileStays
  <2>1. PICK b : b = mem
    OBVIOUS
  <2>2. Honest(b)'
    BY <1>2, <2>1, HonestStays
  <2>3. Honest(disk)' /\ Clean(disk)'
    BY <1>2, <1>3, <2>1, <2>2 DEF Honest, Clean, Votes, None
  <2> QED
    BY <2>3 DEF FileStays
<1> QED
  BY <1>1, <1>4, <1>5, ReleaseKeeps

\* The proxy is told again which sides have ended.
LEMMA PrepareSyncKeeps ==
  ASSUME IInv, Shape', PrepareSync
  PROVE  IInv'
<1>1. /\ pc \in {"syncEdits", "syncNoEdits"} /\ queue # <<>>
      /\ UNCHANGED <<polls, agent, monitor, space, source, card>>
  BY DEF PrepareSync, worldVars, IInv, Shape, OpFits, Steady
<1>2. PICK lost \in SUBSET CompletedSides(mem) :
        /\ SyncCalls(lost)
        /\ IF lost = {}
             THEN /\ Goto(IF pc = "syncEdits" THEN "compareEdits" ELSE "compareNoEdits", mem)
                  /\ UNCHANGED disk
             ELSE CompareFailed
  BY DEF PrepareSync
<1>3. ProxyMoves
  BY <1>2, SyncMoves DEF IInv, Shape
<1>4. CASE CompareFailed
  BY <1>1, <1>3, <1>4, CompareFailedKeeps
<1>5. CASE lost = {}
  <2>1. /\ queue' = queue /\ pc' \in {"compareEdits", "compareNoEdits"} /\ mem' = mem
        /\ disk' = disk
    BY <1>2, <1>5 DEF Goto
  <2>2. WorldMoves /\ Joined /\ ArchivesUnneeded
    BY <1>1, <2>1, WorldAlone, NobodyJoins DEF IInv, Shape, ArchivesUnneeded, Gone
  <2>3. FileStays /\ \A s \in Sides : Wrote(s)
    BY <2>1 DEF FileStays, Wrote
  <2>4. /\ Follows(mem) /\ Honest(mem) /\ Clean(mem) /\ mem.decision = None
    BY <1>1 DEF IInv, HeadFits, Reached
  <2>5. HeadFits(pc, mem)'
    <3>1. PICK b : b = mem
      OBVIOUS
    <3>2. Honest(b)'
      BY <1>3, <2>4, <3>1, HonestStays
    <3>3. Follows(mem)' /\ Honest(mem)'
      BY <2>1, <2>4, <3>1, <3>2 DEF Follows, Honest
    <3>4. Clean(mem)'
      BY <1>1, <1>3, <2>1, <2>4 DEF Clean, LoserGone, WinnerKept, ProxyMoves
    <3> QED
      BY <2>1, <2>4, <3>3, <3>4 DEF HeadFits, Reached
  <2> QED
    BY <1>1, <1>3, <2>1, <2>2, <2>3, <2>5, ComparesNoMore, GoesOnKeeps
<1> QED
  BY <1>2, <1>4, <1>5

\* The comparison is asked for.
LEMMA CompareKeeps ==
  ASSUME IInv, Shape', Compare
  PROVE  IInv'
<1> DEFINE q == [op |-> "compare", arg |-> IF pc = "compareEdits" THEN "edits" ELSE "noEdits"]
<1>1. /\ pc \in {"compareEdits", "compareNoEdits"} /\ queue # <<>>
      /\ UNCHANGED <<polls, agent, monitor, space, source, card>>
  BY DEF Compare, worldVars, IInv, Shape, OpFits, Steady
<1>2. q \in Requests /\ q.op = "compare"
  BY DEF Requests
<1>3. ProxyMoves
  BY <1>2, CallMoves DEF Compare, IInv, Shape
<1>4. CASE CompareFailed
  BY <1>1, <1>3, <1>4, CompareFailedKeeps
<1>5. CASE /\ Accepts(q)
           /\ Goto(IF pc = "compareEdits" THEN "saveAndPoll" ELSE "save",
                   [mem EXCEPT !.comparison = px'.comparison])
           /\ UNCHANGED disk
  <2>1. /\ queue' = queue /\ pc' \in {"saveAndPoll", "save"} /\ disk' = disk
        /\ mem' = [mem EXCEPT !.comparison = px'.comparison]
    BY <1>5 DEF Goto
  <2>2. AllCompleted(px') /\ ~px'.early
    <3>1. px' = Effect(px, q) /\ Allowed(px, q)
      BY <1>5 DEF Accepts
    <3> HIDE DEF q
    <3>2. AllCompleted(Effect(px, q)) /\ ~Effect(px, q).early
      BY <1>2, <3>1, EffectGains DEF IInv, Shape, ProxyFits
    <3> QED
      BY <3>1, <3>2
  <2>3. WorldMoves /\ Joined /\ ArchivesUnneeded
    BY <1>1, <2>1, WorldAlone, NobodyJoins DEF IInv, Shape, ArchivesUnneeded, Gone
  <2>4. FileStays /\ \A s \in Sides : Wrote(s)
    BY <2>1 DEF FileStays, Wrote
  <2>5. /\ Follows(mem) /\ Honest(mem) /\ Clean(mem) /\ mem.decision = None
        /\ mem \in Battle
    BY <1>1 DEF IInv, HeadFits, Reached, Shape, OpFits
  <2>6. /\ mem'.decision = None /\ mem'.revealed = mem.revealed
        /\ mem'.status = mem.status /\ mem'.linked = mem.linked
        /\ mem'.side = mem.side
    BY <2>1, <2>5 DEF Battle
  <2>7. HeadFits(pc, mem)'
    <3>1. PICK b : b = mem
      OBVIOUS
    <3>2. Honest(b)'
      BY <1>3, <2>5, <3>1, HonestStays
    <3>3. Follows(mem)'
      BY <2>1, <2>5, <2>6 DEF Follows
    <3>4. Honest(mem)' /\ Clean(mem)'
      BY <2>5, <2>6, <3>1, <3>2 DEF Honest, Clean, Votes, None
    <3> QED
      BY <2>1, <2>6, <3>3, <3>4 DEF HeadFits, Reached
  <2> QED
    BY <1>1, <1>3, <2>1, <2>2, <2>3, <2>4, <2>6, <2>7, GoesOnKeeps
<1> QED
  BY <1>4, <1>5 DEF Compare

-----------------------------------------------------------------------------
(* Steps that end the daemon keep the invariant *)

\* Nothing waits after a restart, nothing is monitored, and what was archived stays so.
LEMMA RestartKeeps ==
  ASSUME IInv, Shape', DaemonRestarts, UNCHANGED proxyVars,
         Suffered("archive") => Suffered("archive")'
  PROVE  IInv'
<1>1. /\ queue' = <<>> /\ pc' = "idle" /\ polls' = 0
      /\ monitor' = [s \in Sides |-> FALSE]
      /\ agent' = [s \in Sides |->
                     IF agent[s] \in {"running", "idle"} THEN "unloaded" ELSE agent[s]]
      /\ UNCHANGED <<px, generations, late, disk, space, source, card>>
  BY DEF DaemonRestarts, proxyVars
<1>2. /\ \A s \in Sides : ~monitor'[s]
      /\ \A s \in Sides : (agent[s] # "none" => agent'[s] # "none")
                            /\ (agent[s] = "archived" <=> agent'[s] = "archived")
  BY <1>1
<1>3. Len(queue') = 0
  BY <1>1
<1>4. ProxyMoves /\ WorldMoves
  BY <1>1, <1>2, SameGains DEF ProxyMoves, WorldMoves, IInv
<1>5. FileStays /\ \A s \in Sides : Wrote(s)
  BY <1>1 DEF FileStays, Wrote
<1>6. EndsOnce'
  BY <1>3 DEF EndsOnce
<1>7. Comparing' => Comparing
  BY <1>1, <1>3 DEF Comparing
<1>8. \A s \in Sides : Hopeless(s) => Hopeless(s)'
  BY <1>1, <1>2, <1>3 DEF Hopeless
<1>9. ArchivesUnneeded
  BY <1>1, <1>2 DEF ArchivesUnneeded, Gone
<1> QED
  BY <1>1, <1>4, <1>5, <1>6, <1>7, <1>8, <1>9, StepKeeps

\* A crash.
LEMMA CrashKeeps ==
  ASSUME IInv, Shape', Crash
  PROVE  IInv'
<1>1. Suffered("archive") => Suffered("archive")'
  BY FaultFacts DEF Crash, IInv, Shape, ProxyFits
<1> QED
  BY <1>1, RestartKeeps DEF Crash, DaemonRestarts

\* A comparison that cannot read the worktrees ends getBattle, or the daemon.
LEMMA DiffFailsKeeps ==
  ASSUME IInv, Shape', DiffFails
  PROVE  IInv'
<1>1. pc = "prepare" /\ queue # <<>>
  BY DEF DiffFails, IInv, Shape, OpFits, Steady
<1>2. Suffered("archive") => Suffered("archive")'
  BY FaultFacts DEF DiffFails, IInv, Shape, ProxyFits
<1>3. CASE DaemonRestarts
  BY <1>2, <1>3, RestartKeeps DEF DaemonRestarts
<1>4. CASE Release /\ UNCHANGED <<proxyVars, disk, polls, worldVars>>
  <2>1. /\ Release
        /\ UNCHANGED <<px, generations, late, disk, polls, agent, monitor, space, source, card>>
    BY <1>4 DEF proxyVars, worldVars
  <2>2. ProxyMoves
    BY <1>2, <2>1, SameGains DEF ProxyMoves, IInv
  <2>3. FileStays /\ \A s \in Sides : Wrote(s)
    BY <2>1 DEF FileStays, Wrote
  <2> QED
    BY <1>1, <2>1, <2>2, <2>3, ReleaseKeeps
<1> QED
  BY <1>3, <1>4 DEF DiffFails

-----------------------------------------------------------------------------
(* The theorems of a battle that has been started *)

\* The record saved before the agents are prompted.
LEMMA InitInvariant == Init => IInv
<1> SUFFICES ASSUME Init PROVE IInv
  OBVIOUS
<1>1. /\ px = FreshRecord /\ generations = 0 /\ late = {} /\ disk = Started
      /\ queue = <<>> /\ pc = "idle" /\ mem = Started /\ polls = 0
      /\ agent = [s \in Sides |-> "running"] /\ monitor = [s \in Sides |-> TRUE]
      /\ space = [s \in Sides |-> "internal"] /\ source = "idle" /\ card = FALSE
      /\ faults = <<>>
  BY DEF Init
<1>2. Len(queue) = 0 /\ Len(faults) = 0
  BY <1>1
<1>3. Shape
  <2>1. ProxyFits
    BY <1>1, <1>2, FaultsAssumption
    DEF ProxyFits, FreshRecord, Record, Decisions, Comparisons
  <2>2. OpFits
    BY <1>1, StartedType DEF OpFits, Steady, Steps
  <2>3. FileFits /\ WorldFits
    BY <1>1, StartedType DEF FileFits, WorldFits, Agents, Spaces
  <2> QED
    BY <2>1, <2>2, <2>3 DEF Shape
<1>4. px.vote = None /\ ~px.early
  BY <1>1 DEF FreshRecord
<1>5. /\ disk.decision = None /\ ~disk.revealed /\ disk.status = "running"
      /\ disk.linked = Sides
  BY <1>1 DEF Started
<1>6. Sound(px) /\ Honest(disk) /\ Clean(disk)
  BY <1>4, <1>5 DEF Sound, Honest, Clean, Votes, None
<1>7. VotesOnDone /\ ComparesDone /\ EndsOnce
  BY <1>1, <1>2, <1>4 DEF VotesOnDone, ComparesDone, Comparing, EndsOnce, Votes, None
<1>8. Unneeded /\ MadeAll
  BY <1>1 DEF Unneeded, Gone, MadeAll
<1> QED
  BY <1>1, <1>3, <1>6, <1>7, <1>8 DEF IInv

\* Every step keeps the invariant.
LEMMA NextInvariant == IInv /\ [Next]_vars => IInv'
<1> SUFFICES ASSUME IInv, [Next]_vars PROVE IInv'
  OBVIOUS
<1>1. Shape'
  BY RunningShape, CrashShape, DiffShape, StutterShape DEF IInv, Next
<1>2. CASE \E m \in Mutations : Call(m)
  BY <1>1, <1>2, CallKeeps
<1>3. CASE VoteBegin \/ VoteSync \/ VoteSend \/ VotePromote \/ VoteRetire \/ VoteCard
  BY <1>1, <1>3, VoteBeginKeeps, VoteSyncKeeps, VoteSendKeeps, VotePromoteKeeps,
     VoteRetireKeeps, VoteCardKeeps
<1>4. CASE StopBegin \/ StopSend \/ StopRetire \/ GetBegin \/ GetSend
  BY <1>1, <1>4, ReadKeeps, StopSendKeeps, StopRetireKeeps, GetSendKeeps
<1>5. CASE \/ FinishBegin \/ FinishReport \/ FinishAlone \/ FinishBoth \/ FinishOne
           \/ FinishNone \/ FinishAbandon
  BY <1>1, <1>5, FinishBeginKeeps, FinishReportKeeps, FinishAloneKeeps, FinishBothKeeps,
     FinishOneKeeps, FinishNoneKeeps, FinishAbandonKeeps
<1>6. CASE Prepare \/ PrepareSync \/ Compare \/ SaveAndPoll \/ PollBegin \/ Save
  BY <1>1, <1>6, PrepareKeeps, PrepareSyncKeeps, CompareKeeps, SaveKeeps, PollBeginKeeps
<1>7. CASE PollRead \/ PollGivesUp
  BY <1>1, <1>7, PollKeeps
<1>8. CASE \E s \in Sides, outcome \in Outcomes : TurnEnds(s, outcome)
  BY <1>1, <1>8, TurnKeeps
<1>9. CASE \E s \in Sides : Load(s)
  BY <1>1, <1>9, LoadKeeps
<1>10. CASE \/ \E q \in Requests : Arrive(q)
            \/ \E outcome \in {"completed", "error"} : GenerationEnds(outcome)
            \/ ProxyRestarts
  BY <1>1, <1>10, ProxyKeeps
<1>11. CASE Crash \/ DiffFails
  BY <1>1, <1>11, CrashKeeps, DiffFailsKeeps
<1>12. CASE UNCHANGED vars
  BY <1>1, <1>12
  DEF vars, IInv, Sound, Honest, Clean, LoserGone, WinnerKept, HeadFits, Follows, MaySend,
      Reached, VotesOnDone, Comparing, ComparesDone, EndsOnce, Ends, Gone, Hopeless, Unneeded,
      MadeAll, Suffered, CompletedSides, AllCompleted
<1> QED
  BY <1>2, <1>3, <1>4, <1>5, <1>6, <1>7, <1>8, <1>9, <1>10, <1>11, <1>12
  DEF Next, Running, MutationStep

\* The invariant holds in every reachable state: the file, the running mutation's
\* copy, the proxy's record and what has been archived never contradict each other,
\* whatever is interleaved with the awaits inside a mutation.
THEOREM Invariance == Spec => []IInv
<1> QED
  BY InitInvariant, NextInvariant, PTL DEF Spec

\* Every variable keeps its type.
THEOREM BattleTypes == Spec => []TypeOK
<1>1. IInv => TypeOK
  BY ShapeType DEF IInv
<1> QED
  BY <1>1, Invariance, PTL

\* The daemon never shows what the proxy has not recorded, and a vote it sends is one
\* the proxy accepts unless the battle is already decided there (vote,
\* applyProxyDecision, syncTerminalSides).
THEOREM DaemonAgrees == Spec => []AgreesWithProxy
<1>1. ASSUME IInv PROVE AgreesWithProxy
  <2>1. Honest(disk)
    BY <1>1 DEF IInv
  <2>2. ASSUME pc = "send", Head(queue).op = "vote", px.vote = None
        PROVE  CanVote(px, Head(queue).arg)
    <3>1. MaySend("send")
      BY <1>1, <2>2 DEF IInv, HeadFits, Reached
    <3>2. Head(queue) \in Mutations
      BY <1>1, <2>2, HeadFacts DEF IInv, Shape, OpFits, Steady
    <3>3. Head(queue).arg \in Votes
      BY <2>2, <3>2 DEF Mutations
    <3> QED
      BY <2>2, <3>1, <3>3 DEF MaySend, CanVote, AllCompleted
  <2> QED
    BY <2>1, <2>2 DEF AgreesWithProxy, Honest
<1> QED
  BY <1>1, Invariance, PTL

\* A battle saved as decided or stopped has been cleaned up after, and nothing of the
\* winner is archived, whichever agents end, clients call and steps fail meanwhile.
THEOREM BattleCleanedUp == Spec => []CleanedUp
<1>1. ASSUME IInv PROVE CleanedUp
  <2>1. Honest(disk) /\ Clean(disk) /\ Sound(px) /\ VotesOnDone /\ Unneeded
    BY <1>1 DEF IInv
  <2>2. ASSUME disk.decision \in Votes
        PROVE  /\ disk.side[disk.winner] = "completed"
               /\ agent[disk.winner] # "archived" /\ space[disk.winner] # "archived"
    <3>1. px.vote \in Votes /\ disk.winner = px.winner /\ px.winner = Winner(px.vote)
      BY <2>1, <2>2 DEF Honest, Sound, Votes, None
    <3>2. disk.side[disk.winner] = "completed" /\ disk.winner \in Sides
      BY <2>1, <3>1 DEF VotesOnDone, Votes, Winner, Sides
    <3>3. ~Gone(disk.winner)
      BY <2>1, <3>1, <3>2 DEF Unneeded, Hopeless, Votes
    <3> QED
      BY <3>2, <3>3 DEF Gone
  <2>3. ASSUME disk.status = "decided", ~Suffered("archive")
        PROVE  /\ disk.decision \in Votes
               /\ agent[Other(disk.winner)] = "archived"
               /\ space[Other(disk.winner)] = "archived"
               /\ space[disk.winner] = "visible"
               /\ source = "archived" /\ card
    BY <2>1, <2>3 DEF Honest, Clean, LoserGone, WinnerKept
  <2>4. ASSUME disk.status = "stopped", ~Suffered("archive")
        PROVE  /\ disk.decision = "stopped"
               /\ \A s \in Sides : agent[s] = "archived" /\ space[s] = "archived"
    BY <2>1, <2>4 DEF Honest, Clean
  <2> QED
    BY <2>2, <2>3, <2>4 DEF CleanedUp
<1> QED
  BY <1>1, Invariance, PTL

\* Mutations are serialised on the file (withMutation): when the head writes, the
\* outcomes and the decision it began with are still there.
THEOREM NoMutationLost == Spec => []NoLostUpdate
<1>1. IInv => NoLostUpdate
  BY DEF IInv, HeadFits, Follows, NoLostUpdate
<1> QED
  BY <1>1, Invariance, PTL

\* What is written to the file comes from the running mutation's copy or, in
\* getBattle, from the proxy.
LEMMA Writes ==
  ASSUME IInv, [Next]_vars
  PROVE  \/ disk' = disk
         \/ /\ pc # "idle" /\ disk'.side = mem.side
            /\ \/ disk'.decision = mem.decision /\ disk'.early = mem.early
               \/ disk'.decision = px.vote /\ disk'.early = px.early
<1>1. mem \in Battle /\ px \in Record
  BY DEF IInv, Shape, OpFits, ProxyFits
<1>2. CASE UNCHANGED disk
  BY <1>2
<1>3. CASE Save \/ SaveAndPoll \/ FinishAlone
  BY <1>3 DEF Save, SaveAndPoll, FinishAlone, At
<1>4. CASE FinishBoth
  BY <1>1, <1>4 DEF FinishBoth, SettlesWith, At, Battle
<1>5. CASE Prepare
  BY <1>1, <1>5 DEF Prepare, Battle
<1>6. CASE PrepareSync \/ Compare
  <2>1. disk' = disk \/ (pc # "idle" /\ disk' = [mem EXCEPT !.comparison = "error"])
    BY <1>6 DEF PrepareSync, Compare, CompareFailed
  <2> QED
    BY <1>1, <2>1 DEF Battle
<1>7. CASE GetSend
  <2>1. pc # "idle" /\ (disk' = disk \/ disk' = Applied(mem, px))
    BY <1>7 DEF GetSend, At
  <2> QED
    BY <1>1, <2>1, AppliedFacts
<1>8. CASE \/ VoteBegin \/ VoteSync \/ VoteSend \/ VotePromote \/ VoteRetire \/ VoteCard
           \/ StopBegin \/ StopSend \/ StopRetire \/ GetBegin
           \/ FinishBegin \/ FinishReport \/ FinishOne \/ FinishNone \/ FinishAbandon
           \/ PollBegin
  BY <1>2, <1>8
  DEF VoteBegin, VoteSync, VoteSend, VotePromote, VoteRetire, VoteCard, StopBegin, StopSend,
      StopRetire, GetBegin, FinishBegin, FinishReport, FinishOne, FinishNone, FinishAbandon,
      PollBegin
<1>9. CASE \/ \E m \in Mutations : Call(m)
           \/ PollRead \/ PollGivesUp \/ ProxyRestarts
           \/ \E s \in Sides, outcome \in Outcomes : TurnEnds(s, outcome)
           \/ \E s \in Sides : Load(s)
           \/ \E q \in Requests : Arrive(q)
           \/ \E outcome \in {"completed", "error"} : GenerationEnds(outcome)
           \/ Crash \/ DiffFails
  BY <1>2, <1>9
  DEF Call, PollRead, PollGivesUp, ProxyRestarts, TurnEnds, Load, Arrive, GenerationEnds,
      Crash, DiffFails, DaemonRestarts
<1> QED
  BY <1>2, <1>3, <1>4, <1>5, <1>6, <1>7, <1>8, <1>9 DEF Next, Running, MutationStep, vars

\* A side's outcome and the decision are recorded once, and an early decision keeps
\* its comparison ruled out.
THEOREM RecordedForGood == Spec => RecordedOnce
<1>1. ASSUME IInv, IInv', [Next]_vars
      PROVE  /\ \A s \in Sides : disk.side[s] \in Terminal => disk'.side[s] = disk.side[s]
             /\ disk.decision # None => disk'.decision = disk.decision
             /\ disk.decision \in Votes /\ disk.early => disk'.comparison = "early"
  <2>1. Honest(disk) /\ Honest(disk)'
    BY <1>1 DEF IInv
  <2>2. CASE disk' = disk
    BY <2>1, <2>2 DEF Honest
  <2>3. CASE /\ pc # "idle" /\ disk'.side = mem.side
             /\ \/ disk'.decision = mem.decision /\ disk'.early = mem.early
                \/ disk'.decision = px.vote /\ disk'.early = px.early
    <3>1. Follows(mem) /\ Honest(mem)
      BY <1>1, <2>3 DEF IInv, HeadFits
    <3>2. \A s \in Sides : disk.side[s] \in Terminal => disk'.side[s] = disk.side[s]
      BY <2>3, <3>1 DEF Follows
    <3>3. disk.decision # None => disk'.decision = disk.decision /\ disk'.early = disk.early
      BY <2>1, <2>3, <3>1 DEF Follows, Honest
    <3>4. disk.decision \in Votes /\ disk.early => disk'.comparison = "early"
      BY <2>1, <3>3 DEF Honest, Votes, None
    <3> QED
      BY <3>2, <3>3, <3>4
  <2> QED
    BY <1>1, <2>2, <2>3, Writes
<1> QED
  BY <1>1, Invariance, PTL DEF Spec, RecordedOnce

-----------------------------------------------------------------------------
(* The launch *)

\* The variables of startBattle itself.
LaunchFits ==
  /\ stage \in Stages /\ stored \in Battle
  /\ made \subseteq Sides /\ creating \subseteq Sides
  /\ prompt \in [Sides -> {"none", "unsent", "sent", "done"}]

\* A worktree that can be used is one startBattle knows it has made.
KnowsMade == \A s \in Sides : space[s] \in {"none", "archived"} \/ s \in made

\* Once the catch block has told the proxy to stop, the battle is decided there.
TokenGone ==
  stage \in {"undoRetire", "undoSave", "failed"} => px.vote # None \/ Suffered("proxy")

\* Once it has archived what it made, nothing is left.
NothingLeft ==
  stage \in {"undoSave", "failed"} =>
    Suffered("archive") \/ \A s \in Sides : space[s] \in {"none", "archived"}

LaunchInv == Shape /\ LaunchFits /\ KnowsMade /\ TokenGone /\ NothingLeft

\* What no step takes back: a decision of the proxy, a worktree archived or not yet
\* made, a fault.
Forward ==
  /\ px.vote # None => px'.vote # None
  /\ \A s \in Sides :
       \/ space'[s] \in {space[s], "archived"}
       \/ space[s] = "internal" /\ space'[s] = "visible"
  /\ \A k : Suffered(k) => Suffered(k)'

\* No request takes a decision back.
LEMMA EffectDecides ==
  ASSUME NEW r \in Record, NEW q \in Requests, Allowed(r, q)
  PROVE  /\ r.vote # None => Effect(r, q).vote # None
         /\ q.op = "stop" => Effect(r, q).vote # None
<1>1. CASE q.op = "complete"
  BY <1>1 DEF Effect, Completed, Record
<1>2. CASE q.op = "vote"
  BY <1>2 DEF Allowed, CanVote
<1>3. CASE q.op = "stop"
  BY <1>3 DEF Effect, Stopped, Record, None
<1>4. CASE q.op = "compare"
  BY <1>4 DEF Effect, Compared, Record
<1> QED
  BY <1>1, <1>2, <1>3, <1>4 DEF Requests

\* A call by a mutation or by startBattle.
LEMMA CallForward ==
  ASSUME ProxyFits, NEW q \in Requests, Accepts(q) \/ Refuses(q) \/ TimesOut(q)
  PROVE  /\ px.vote # None => px'.vote # None
         /\ \A k : Suffered(k) => Suffered(k)'
         /\ q.op = "stop" => px'.vote # None \/ Suffered("proxy")'
<1>1. CASE Accepts(q)
  BY <1>1, EffectDecides DEF Accepts, ProxyFits, Suffered
<1>2. CASE Refuses(q)
  BY <1>2 DEF Refuses, Allowed, CanStop, Requests, Suffered
<1>3. CASE TimesOut(q)
  BY <1>3, FaultFacts DEF TimesOut, ProxyFits
<1> QED
  BY <1>1, <1>2, <1>3

\* The calls of syncTerminalSides.
LEMMA SyncForward ==
  ASSUME ProxyFits, NEW lost, SyncCalls(lost)
  PROVE  px'.vote = px.vote /\ \A k : Suffered(k) => Suffered(k)'
<1>1. UNCHANGED faults \/ Fault("proxy")
  BY DEF SyncCalls
<1>2. \A k : Suffered(k) => Suffered(k)'
  BY <1>1, FaultFacts DEF ProxyFits, Suffered
<1>3. px'.vote = px.vote
  <2> DEFINE done == [s \in Sides |-> px.completed[s] \/ s \in CompletedSides(mem) \ lost]
  <2>1. px' = [px EXCEPT !.completed = done]
    BY Zenon DEF SyncCalls
  <2> HIDE DEF done
  <2> QED
    BY <2>1 DEF ProxyFits, Record
<1> QED
  BY <1>2, <1>3

\* Archiving sides.
LEMMA RetireForward ==
  ASSUME Shape, NEW S \in SUBSET Sides, NEW kept, Retire(S, kept), UNCHANGED px
  PROVE  Forward
<1>1. /\ \A k : Suffered(k) => Suffered(k)'
      /\ \A s \in Sides : space'[s] \in {space[s], "archived"}
  BY RetireFacts DEF Shape, ProxyFits, OpFits, WorldFits
<1> QED
  BY <1>1 DEF Forward

\* Only faults, calls, archiving and promotion matter; the other steps leave the
\* proxy, the worktrees and the faults alone.
LEMMA AloneForward ==
  ASSUME UNCHANGED <<px, space, faults>>
  PROVE  Forward
  BY DEF Forward, Suffered

\* The steps of a vote.
LEMMA VoteForward ==
  ASSUME Shape,
         VoteBegin \/ VoteSync \/ VoteSend \/ VotePromote \/ VoteRetire \/ VoteCard
  PROVE  Forward
<1>1. CASE VoteBegin \/ VoteCard
  BY <1>1, AloneForward DEF VoteBegin, VoteCard, proxyVars, worldVars
<1>2. CASE VoteSync
  BY <1>2, SyncForward DEF VoteSync, worldVars, Forward, Shape
<1>3. CASE VoteSend
  <2> DEFINE q == [op |-> "vote", arg |-> Head(queue).arg]
  <2>1. q \in Requests
    BY <1>3, HeadFacts DEF VoteSend, At, Shape, OpFits, Mutations, Requests
  <2>2. (Accepts(q) \/ Refuses(q) \/ TimesOut(q)) /\ UNCHANGED space
    BY <1>3 DEF VoteSend, worldVars
  <2> QED
    BY <2>1, <2>2, CallForward DEF Forward, Shape
<1>4. CASE VotePromote
  <2>1. /\ space' = space
             \/ space' = [space EXCEPT ![mem.winner] =
                            IF @ = "internal" THEN "visible" ELSE @]
        /\ UNCHANGED px
        /\ UNCHANGED faults \/ Fault("promote")
    BY <1>4 DEF VotePromote, proxyVars
  <2>2. \A k : Suffered(k) => Suffered(k)'
    BY <2>1, FaultFacts DEF Shape, ProxyFits, Suffered
  <2>3. \A s \in Sides : space'[s] = space[s]
                           \/ (space[s] = "internal" /\ space'[s] = "visible")
    BY <2>1 DEF Shape, WorldFits
  <2> QED
    BY <2>1, <2>2, <2>3 DEF Forward
<1>5. CASE VoteRetire
  <2> DEFINE S == {Other(mem.winner)} \cap mem.linked
  <2>1. S \in SUBSET Sides
    BY DEF Shape, OpFits, Battle
  <2>2. PICK kept : Retire(S, kept)
    BY <1>5 DEF VoteRetire
  <2>3. UNCHANGED px
    BY <1>5 DEF VoteRetire, proxyVars
  <2> HIDE DEF S
  <2> QED
    BY <2>1, <2>2, <2>3, RetireForward
<1> QED
  BY <1>1, <1>2, <1>3, <1>4, <1>5

\* The steps of the other mutations.
LEMMA MutationForward ==
  ASSUME Shape, MutationStep
  PROVE  Forward
<1>1. CASE VoteBegin \/ VoteSync \/ VoteSend \/ VotePromote \/ VoteRetire \/ VoteCard
  BY <1>1, VoteForward
<1>2. CASE StopBegin \/ GetBegin \/ FinishBegin \/ FinishAlone \/ FinishBoth
             \/ Prepare \/ SaveAndPoll \/ PollBegin \/ Save
  BY <1>2, AloneForward
  DEF StopBegin, GetBegin, FinishBegin, FinishAlone, FinishBoth, Prepare, SaveAndPoll,
      PollBegin, Save, proxyVars, worldVars
<1>3. CASE StopSend \/ FinishNone
  <2> DEFINE q == [op |-> "stop", arg |-> None]
  <2>1. q \in Requests
    BY DEF Requests
  <2>2. (Accepts(q) \/ Refuses(q) \/ TimesOut(q)) /\ UNCHANGED space
    BY <1>3 DEF StopSend, FinishNone, worldVars
  <2> QED
    BY <2>1, <2>2, CallForward DEF Forward, Shape
<1>4. CASE FinishReport
  <2> DEFINE q == [op |-> "complete", arg |-> Head(queue).side]
  <2>1. q \in Requests
    BY <1>4, HeadFacts DEF FinishReport, At, Shape, OpFits, Mutations, Requests
  <2>2. (Accepts(q) \/ TimesOut(q)) /\ UNCHANGED space
    BY <1>4 DEF FinishReport, worldVars
  <2> QED
    BY <2>1, <2>2, CallForward DEF Forward, Shape
<1>5. CASE GetSend
  <2>1. UNCHANGED <<px, space>> /\ (UNCHANGED faults \/ Fault("proxy"))
    BY <1>5 DEF GetSend, proxyVars, worldVars
  <2> QED
    BY <2>1, FaultFacts DEF Forward, Suffered, Shape, ProxyFits
<1>6. CASE PrepareSync
  BY <1>6, SyncForward DEF PrepareSync, worldVars, Forward, Shape
<1>7. CASE Compare
  <2> DEFINE q == [op |-> "compare",
                   arg |-> IF pc = "compareEdits" THEN "edits" ELSE "noEdits"]
  <2>1. q \in Requests
    BY DEF Requests
  <2>2. (Accepts(q) \/ Refuses(q) \/ TimesOut(q)) /\ UNCHANGED space
    BY <1>7 DEF Compare, worldVars
  <2> QED
    BY <2>1, <2>2, CallForward DEF Forward, Shape
<1>8. CASE StopRetire \/ FinishOne \/ FinishAbandon
  <2>1. mem.linked \in SUBSET Sides
    BY DEF Shape, OpFits, Battle
  <2>2. PICK S \in SUBSET Sides : \E kept : Retire(S, kept)
    <3>1. CASE StopRetire \/ FinishAbandon
      BY <2>1, <3>1 DEF StopRetire, FinishAbandon
    <3>2. CASE FinishOne
      BY <2>1, <3>2 DEF FinishOne
    <3> QED
      BY <1>8, <3>1, <3>2
  <2>3. UNCHANGED px
    BY <1>8 DEF StopRetire, FinishOne, FinishAbandon, SettlesWith, proxyVars
  <2> QED
    BY <2>2, <2>3, RetireForward
<1> QED
  BY <1>1, <1>2, <1>3, <1>4, <1>5, <1>6, <1>7, <1>8 DEF MutationStep

\* Every step of the battle but those of the launch.
LEMMA RunningForward ==
  ASSUME Shape, Running \/ Crash
  PROVE  Forward
<1>1. CASE MutationStep
  BY <1>1, MutationForward
<1>2. CASE \/ \E m \in Mutations : Call(m)
           \/ PollRead \/ PollGivesUp
           \/ \E s \in Sides, outcome \in Outcomes : TurnEnds(s, outcome)
           \/ \E s \in Sides : Load(s)
  BY <1>2, AloneForward
  DEF Call, PollRead, PollGivesUp, TurnEnds, Load, proxyVars, worldVars
<1>3. ASSUME NEW q \in Requests, Arrive(q) PROVE Forward
  <2>1. /\ px' = px \/ (Allowed(px, q) /\ px' = Effect(px, q))
        /\ UNCHANGED <<space, faults>>
    BY <1>3 DEF Arrive, worldVars
  <2> QED
    BY <2>1, EffectDecides DEF Forward, Suffered, Shape, ProxyFits
<1>4. ASSUME NEW outcome \in {"completed", "error"}, GenerationEnds(outcome) PROVE Forward
  <2>1. /\ px' = px \/ px' = [px EXCEPT !.comparison = outcome]
        /\ UNCHANGED <<space, faults>>
    BY <1>4 DEF GenerationEnds, Generated, worldVars
  <2> QED
    BY <2>1 DEF Forward, Suffered, Shape, ProxyFits, Record
<1>5. CASE ProxyRestarts \/ Crash
  <2>1. UNCHANGED <<px, space>> /\ (Fault("restart") \/ Fault("crash"))
    BY <1>5 DEF ProxyRestarts, Crash, DaemonRestarts, proxyVars, worldVars
  <2> QED
    BY <2>1, FaultFacts DEF Forward, Suffered, Shape, ProxyFits
<1> QED
  BY <1>1, <1>2, <1>3, <1>4, <1>5 DEF Running

\* What a step of startBattle that stays clear of the queue has to show.
LEMMA LaunchAlone ==
  ASSUME Shape, UNCHANGED <<queue, pc, mem, polls, source, card>>,
         ProxyFits', disk' \in Battle,
         agent' \in [Sides -> Agents], monitor' \in [Sides -> BOOLEAN],
         space' \in [Sides -> Spaces]
  PROVE  Shape'
  BY DEF Shape, OpFits, Steady, FileFits, WorldFits

\* A fault of the launch.
LEMMA LaunchFault ==
  ASSUME Shape, UNCHANGED proxyVars, NEW kind, Fault(kind)
  PROVE  ProxyFits' /\ \A k : Suffered(k) => Suffered(k)'
  BY FaultFacts DEF Shape, ProxyFits, proxyVars

\* The worktrees are made.
LEMMA WorktreeKeeps ==
  ASSUME LaunchInv, MakeWorktree \/ WorktreeFails
  PROVE  LaunchInv'
<1>1. /\ stage = "worktrees"
      /\ UNCHANGED <<px, generations, late, disk, queue, pc, mem, polls, agent, monitor, source,
                     card, stored, prompt>>
      /\ NextSide \in Sides
  BY DEF MakeWorktree, WorktreeFails, proxyVars, opVars, NextSide, Sides
<1>2. \/ UNCHANGED <<made, space>>
      \/ made' = made \cup {NextSide} /\ space' = [space EXCEPT ![NextSide] = "internal"]
  BY DEF MakeWorktree, WorktreeFails
<1>3. /\ stage' \in {"worktrees", "agents", "undo"}
      /\ creating' = creating \/ creating' = Sides
  BY <1>1 DEF MakeWorktree, WorktreeFails
<1>4. UNCHANGED faults \/ Fault("launch")
  BY DEF MakeWorktree, WorktreeFails
<1>5. ProxyFits'
  BY <1>1, <1>4, LaunchFault DEF LaunchInv, Shape, ProxyFits, proxyVars
<1>6. space' \in [Sides -> Spaces]
  BY <1>1, <1>2 DEF LaunchInv, Shape, WorldFits, Spaces
<1>7. Shape'
  BY <1>1, <1>5, <1>6, LaunchAlone DEF LaunchInv, Shape, FileFits, WorldFits
<1>8. LaunchFits'
  BY <1>1, <1>2, <1>3 DEF LaunchInv, LaunchFits, Stages
<1>9. KnowsMade'
  BY <1>1, <1>2 DEF LaunchInv, Shape, WorldFits, KnowsMade
<1> QED
  BY <1>3, <1>7, <1>8, <1>9 DEF LaunchInv, TokenGone, NothingLeft

\* The agents are created and the battle is announced, or one of these fails.
LEMMA AgentsKeep ==
  ASSUME LaunchInv,
         \/ \E s \in Sides : AgentCreated(s) \/ AgentFails(s)
         \/ AnnounceFails
  PROVE  LaunchInv'
<1>1. /\ UNCHANGED <<px, generations, late, disk, queue, pc, mem, polls, monitor, space, source,
                     card, made, prompt>>
      /\ creating' \subseteq creating
      /\ stage' \in {stage, "undo"}
  BY DEF AgentCreated, AgentFails, AnnounceFails, proxyVars, opVars, worldVars
<1>2. UNCHANGED faults \/ Fault("launch")
  BY DEF AgentCreated, AgentFails, AnnounceFails
<1>3. \/ UNCHANGED <<agent, stored>>
      \/ \E s \in Sides : /\ agent' = [agent EXCEPT ![s] = "idle"]
                          /\ stored' = [stored EXCEPT !.linked = stored.linked \cup {s}]
  BY DEF AgentCreated, AgentFails, AnnounceFails, worldVars
<1>4. ProxyFits' /\ \A k : Suffered(k) => Suffered(k)'
  BY <1>1, <1>2, LaunchFault DEF LaunchInv, Shape, ProxyFits, proxyVars, Suffered
<1>5. agent' \in [Sides -> Agents] /\ stored' \in Battle
  BY <1>3 DEF LaunchInv, LaunchFits, Shape, WorldFits, Agents, Battle
<1>6. Shape'
  BY <1>1, <1>4, <1>5, LaunchAlone DEF LaunchInv, Shape, FileFits, WorldFits
<1>7. LaunchFits'
  BY <1>1, <1>5 DEF LaunchInv, LaunchFits, Stages
<1>8. KnowsMade'
  BY <1>1 DEF LaunchInv, KnowsMade
<1>9. TokenGone' /\ NothingLeft'
  BY <1>1, <1>4 DEF LaunchInv, TokenGone, NothingLeft
<1> QED
  BY <1>6, <1>7, <1>8, <1>9 DEF LaunchInv

\* The battle is saved as running, the agents are prompted and run, or fail to.
LEMMA PromptKeeps ==
  ASSUME LaunchInv,
         SaveRunning \/ \E s \in Sides : SendPrompt(s) \/ RunStarts(s) \/ RunFails(s)
  PROVE  LaunchInv'
<1>1. /\ UNCHANGED <<px, generations, late, queue, pc, mem, polls, space, source, card, made,
                     creating>>
      /\ stage' \in {stage, "prompt", "started", "undo"}
  BY DEF SaveRunning, SendPrompt, RunStarts, RunFails, proxyVars, opVars, worldVars
<1>2. UNCHANGED faults \/ Fault("launch")
  BY DEF SaveRunning, SendPrompt, RunStarts, RunFails
<1>3. agent' \in [Sides -> Agents] /\ monitor' \in [Sides -> BOOLEAN]
  BY DEF SaveRunning, SendPrompt, RunStarts, RunFails, worldVars, LaunchInv, Shape, WorldFits,
         Agents
<1>4. disk' \in Battle /\ stored' \in Battle
  <2>1. CASE SaveRunning
    BY <2>1 DEF SaveRunning, LaunchInv, LaunchFits, Battle, SideStatuses
  <2>2. CASE \E s \in Sides : SendPrompt(s) \/ RunStarts(s) \/ RunFails(s)
    BY <2>2 DEF SendPrompt, RunStarts, RunFails, LaunchInv, LaunchFits, Shape, FileFits
  <2> QED
    BY <2>1, <2>2
<1>5. prompt' \in [Sides -> {"none", "unsent", "sent", "done"}]
  BY DEF SaveRunning, SendPrompt, RunStarts, RunFails, LaunchInv, LaunchFits
<1>6. ProxyFits' /\ \A k : Suffered(k) => Suffered(k)'
  BY <1>1, <1>2, LaunchFault DEF LaunchInv, Shape, ProxyFits, proxyVars, Suffered
<1>7. Shape'
  BY <1>1, <1>3, <1>4, <1>6, LaunchAlone DEF LaunchInv, Shape, WorldFits
<1>8. LaunchFits'
  BY <1>1, <1>4, <1>5 DEF LaunchInv, LaunchFits, Stages
<1>9. KnowsMade'
  BY <1>1 DEF LaunchInv, KnowsMade
<1>10. TokenGone' /\ NothingLeft'
  BY <1>1, <1>6 DEF LaunchInv, TokenGone, NothingLeft
<1> QED
  BY <1>7, <1>8, <1>9, <1>10 DEF LaunchInv

\* The catch block tells the proxy to stop.
LEMMA UndoStopKeeps ==
  ASSUME LaunchInv, UndoStop
  PROVE  LaunchInv'
<1> DEFINE q == [op |-> "stop", arg |-> None]
<1>1. /\ UNCHANGED <<disk, queue, pc, mem, polls, agent, monitor, space, source, card, made,
                     creating, prompt>>
      /\ stage' = "undoRetire"
      /\ stored' = [stored EXCEPT !.status = "error", !.side = [s \in Sides |-> "error"]]
  BY DEF UndoStop, opVars, worldVars
<1>2. q \in Requests /\ q.op = "stop" /\ (Accepts(q) \/ Refuses(q) \/ TimesOut(q))
  BY DEF UndoStop, Requests
<1>3. ProxyFits' /\ (px'.vote # None \/ Suffered("proxy")')
  BY <1>2, CallType, CallForward DEF LaunchInv, Shape
<1>4. Shape'
  BY <1>1, <1>3, LaunchAlone DEF LaunchInv, Shape, FileFits, WorldFits
<1>5. stored' \in Battle
  BY <1>1 DEF LaunchInv, LaunchFits, Battle, SideStatuses
<1>6. LaunchFits'
  BY <1>1, <1>5 DEF LaunchInv, LaunchFits, Stages
<1> QED
  BY <1>1, <1>3, <1>4, <1>6 DEF LaunchInv, KnowsMade, TokenGone, NothingLeft

\* It archives the worktrees that were made.
LEMMA UndoRetireKeeps ==
  ASSUME LaunchInv, UndoRetire
  PROVE  LaunchInv'
<1>1. /\ UNCHANGED <<px, generations, late, disk, pc, mem, polls, source, card, stored, made,
                     creating, prompt>>
      /\ stage = "undoRetire" /\ stage' = "undoSave"
  BY DEF UndoRetire, proxyVars
<1>2. made \in SUBSET Sides
  BY DEF LaunchInv, LaunchFits
<1>3. PICK kept \in SUBSET made : Retire(made, kept)
  BY DEF UndoRetire
<1>4. /\ faults' \in Seq(Faults) /\ Len(faults') <= MaxFaults
      /\ \A k : Suffered(k) => Suffered(k)'
      /\ agent' \in [Sides -> Agents] /\ monitor' \in [Sides -> BOOLEAN]
      /\ space' \in [Sides -> Spaces] /\ Kept
      /\ \A s \in Sides : s \notin made => space'[s] = space[s]
      /\ \A s \in Sides : s \in made => Suffered("archive")' \/ space'[s] = "archived"
  BY <1>2, <1>3, RetireFacts DEF LaunchInv, Shape, ProxyFits, OpFits, WorldFits
<1>5. Shape'
  <2>1. ProxyFits' /\ FileFits' /\ WorldFits'
    BY <1>1, <1>4 DEF LaunchInv, Shape, ProxyFits, FileFits, WorldFits
  <2>2. OpFits'
    BY <1>1, <1>4, JoinFits DEF LaunchInv, Shape
  <2> QED
    BY <2>1, <2>2 DEF Shape
<1>6. LaunchFits'
  BY <1>1 DEF LaunchInv, LaunchFits, Stages
<1>7. KnowsMade'
  BY <1>1, <1>4 DEF LaunchInv, KnowsMade
<1>8. TokenGone'
  BY <1>1, <1>4 DEF LaunchInv, TokenGone
<1>9. NothingLeft'
  <2>1. \A s \in Sides : s \notin made => space[s] \in {"none", "archived"}
    BY DEF LaunchInv, KnowsMade
  <2> QED
    BY <1>4, <2>1 DEF NothingLeft
<1> QED
  BY <1>5, <1>6, <1>7, <1>8, <1>9 DEF LaunchInv

\* It saves the battle as failed.
LEMMA UndoSaveKeeps ==
  ASSUME LaunchInv, UndoSave
  PROVE  LaunchInv'
<1>1. /\ UNCHANGED <<px, generations, late, queue, pc, mem, polls, agent, monitor, space,
                     source, card, faults, stored, made, creating, prompt>>
      /\ stage = "undoSave" /\ stage' = "failed" /\ disk' = stored
  BY DEF UndoSave, proxyVars, opVars, worldVars
<1>2. Shape'
  BY <1>1, LaunchAlone DEF LaunchInv, LaunchFits, Shape, ProxyFits, WorldFits
<1>3. LaunchFits'
  BY <1>1 DEF LaunchInv, LaunchFits, Stages
<1> QED
  BY <1>1, <1>2, <1>3 DEF LaunchInv, KnowsMade, TokenGone, NothingLeft, Suffered

\* What happens to the battle besides, and a crash.
LEMMA BesidesKeeps ==
  ASSUME LaunchInv, (Running /\ UNCHANGED launchVars) \/ LaunchLost
  PROVE  LaunchInv'
<1>1. (Running \/ Crash) /\ made' = made /\ stage' \in {stage, "lost"}
  BY DEF launchVars, LaunchLost
<1>2. Shape' /\ Forward
  BY <1>1, RunningShape, CrashShape, RunningForward DEF LaunchInv
<1>3. LaunchFits'
  BY DEF LaunchInv, LaunchFits, launchVars, LaunchLost, Stages
<1>4. KnowsMade'
  BY <1>1, <1>2 DEF LaunchInv, KnowsMade, Forward
<1>5. TokenGone' /\ NothingLeft'
  BY <1>1, <1>2 DEF LaunchInv, TokenGone, NothingLeft, Forward
<1> QED
  BY <1>2, <1>3, <1>4, <1>5 DEF LaunchInv

\* The record and the variables startBattle begins with.
LEMMA LaunchInitInvariant == LaunchInit => LaunchInv
<1> SUFFICES ASSUME LaunchInit PROVE LaunchInv
  OBVIOUS
<1>1. /\ px = FreshRecord /\ generations = 0 /\ late = {} /\ disk = Preparing
      /\ queue = <<>> /\ pc = "idle" /\ mem = Started /\ polls = 0
      /\ agent = [s \in Sides |-> "none"] /\ monitor = [s \in Sides |-> FALSE]
      /\ space = [s \in Sides |-> "none"] /\ source = "idle" /\ card = FALSE
      /\ faults = <<>> /\ stage = "worktrees" /\ stored = Preparing /\ made = {}
      /\ creating = {} /\ prompt = [s \in Sides |-> "none"]
  BY DEF LaunchInit
<1>2. Preparing \in Battle
  BY StartedType DEF Preparing, Battle, SideStatuses
<1>3. Shape
  <2>1. ProxyFits
    BY <1>1, FaultsAssumption DEF ProxyFits, FreshRecord, Record, Decisions, Comparisons
  <2>2. OpFits
    BY <1>1, StartedType DEF OpFits, Steady, Steps
  <2>3. FileFits /\ WorldFits
    BY <1>1, <1>2 DEF FileFits, WorldFits, Agents, Spaces
  <2> QED
    BY <2>1, <2>2, <2>3 DEF Shape
<1>4. LaunchFits /\ KnowsMade
  BY <1>1, <1>2 DEF LaunchFits, Stages, KnowsMade
<1> QED
  BY <1>1, <1>3, <1>4 DEF LaunchInv, TokenGone, NothingLeft

\* Every step of the launch, and of the battle meanwhile, keeps the invariant.
LEMMA LaunchNextInvariant == LaunchInv /\ [LaunchNext]_allVars => LaunchInv'
<1> SUFFICES ASSUME LaunchInv, [LaunchNext]_allVars PROVE LaunchInv'
  OBVIOUS
<1>1. CASE LaunchStep
  BY <1>1, WorktreeKeeps, AgentsKeep, PromptKeeps, UndoStopKeeps, UndoRetireKeeps,
     UndoSaveKeeps DEF LaunchStep
<1>2. CASE (Running /\ UNCHANGED launchVars) \/ LaunchLost
  BY <1>2, BesidesKeeps
<1>3. CASE UNCHANGED allVars
  <2>1. UNCHANGED vars /\ UNCHANGED launchVars
    BY <1>3 DEF allVars
  <2>2. Shape'
    BY <2>1, StutterShape DEF LaunchInv
  <2>3. UNCHANGED <<px, space, faults, stage, stored, made, creating, prompt>>
    BY <2>1 DEF vars, launchVars
  <2> QED
    BY <2>2, <2>3 DEF LaunchInv, LaunchFits, KnowsMade, TokenGone, NothingLeft, Suffered
<1> QED
  BY <1>1, <1>2, <1>3 DEF LaunchNext

\* The launch's invariant holds in every state of the launch.
THEOREM LaunchInvariance == LaunchSpec => []LaunchInv
<1> QED
  BY LaunchInitInvariant, LaunchNextInvariant, PTL DEF LaunchSpec

\* Every variable of the launch and of the battle keeps its type.
THEOREM LaunchTypes == LaunchSpec => []LaunchTypeOK
<1>1. LaunchInv => LaunchTypeOK
  BY ShapeType DEF LaunchInv, LaunchFits, LaunchTypeOK
<1> QED
  BY <1>1, LaunchInvariance, PTL

\* A launch that failed leaves no worktree and no live token behind, whatever clients
\* did meanwhile (the catch block of startBattle).
THEOREM FailedLaunchIsCleanedUp == LaunchSpec => []FailedLaunchCleansUp
<1>1. LaunchInv => FailedLaunchCleansUp
  BY DEF LaunchInv, TokenGone, NothingLeft, FailedLaunchCleansUp, TokenLive
<1> QED
  BY <1>1, LaunchInvariance, PTL
=============================================================================
