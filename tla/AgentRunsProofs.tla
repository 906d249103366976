-------------------------- MODULE AgentRunsProofs --------------------------
(***************************************************************************)
(* Proofs about AgentRuns, for any number of calls and of turns that the   *)
(* provider starts by itself.                                              *)
(***************************************************************************)
EXTENDS AgentRuns, SequenceTheorems, TLAPS

Event == [type : {"started"} \cup Ends, turn : Turns]
Call == [kind : {"none", "run", "prompt", "stop"},
         at : {"unused", "starting", "streaming", "done", "failed"} \cup Cancelling,
         target : Turns \cup {NoTurn}, acked : BOOLEAN, settled : BOOLEAN,
         replaces : BOOLEAN, told : {"none", "settled", "refused"} \cup Ends]
Agent == [lifecycle : {"idle", "running", "error"}, foreground : Calls \cup {NoTurn},
          active : Turns \cup {NoTurn}, replacing : BOOLEAN, failed : BOOLEAN,
          shown : {"live", "closing", "closed", "running", "error"}]
Run == [kind : {"none", "foreground", "autonomous"}, call : Calls \cup {0},
        turn : Turns \cup {NoTurn}, staged : Seq(Event)]
Progress == {"none", "asked", "announced", "refused"} \cup Ends

TypeOK ==
  /\ agent \in Agent
  /\ run \in Run
  /\ finalized \subseteq Calls
  /\ queue \in Seq(Event)
  /\ calls \in [Calls -> Call]
  /\ provider \in [Turns -> Progress]

Open == ~Gone

\* The turn u goes on at the provider, and no other one; or its end is what comes next.
OwnTurnFirst(u) ==
  \/ /\ queue # <<>>
     /\ queue[1].turn = u /\ queue[1].type \in Ends
  \/ /\ queue = <<>>
     /\ provider[u] = "announced"
     /\ \A t \in Turns : t # u => provider[t] \notin {"asked", "announced"}

\* What the agent and the call say of the run, for each kind of run.
NoneFits == run = NoRun /\ agent.foreground = NoTurn /\ agent.active = NoTurn

StartingFits ==
  /\ run.call \in Calls /\ calls[run.call].at = "starting"
  /\ run.turn = NoTurn /\ agent.foreground = NoTurn
  /\ agent.active \in Own \cup {NoTurn}

StreamingFits ==
  /\ run.call \in Calls
  /\ calls[run.call].at = "streaming" /\ calls[run.call].told = "none"
  /\ run.turn = run.call /\ agent.foreground = run.call /\ agent.active = run.call

AutonomousFits ==
  /\ run.call = 0
  /\ agent.foreground = NoTurn /\ agent.active \in Own \cup {NoTurn}
  /\ run.turn \in {NoTurn, agent.active}
  /\ agent.active # NoTurn => OwnTurnFirst(agent.active)

RunFits ==
  /\ ~Open => run = NoRun
  /\ Open /\ run.kind = "none" => NoneFits
  /\ run.kind = "foreground" => StartingFits \/ StreamingFits
  /\ run.kind = "autonomous" => AutonomousFits
  /\ run.staged # <<>> => run.kind = "foreground" /\ run.turn = NoTurn /\ queue = <<>>

Prompting ==
  \A c \in Calls : calls[c].at = "starting" /\ Open => run.kind = "foreground" /\ run.call = c

\* How far a call can be, by what it has asked and was told.
CallFits(c) ==
  /\ calls[c].told # "none" => calls[c].at \in {"streaming", "done", "failed"}
  /\ calls[c].at \in {"unused"} \cup Cancelling => provider[c] = "none"
  /\ calls[c].acked => calls[c].at \notin {"unused", "interrupting"}
  /\ calls[c].at = "unused" => ~calls[c].settled
  /\ calls[c].told \in {"completed", "failed"} => provider[c] = calls[c].told
  /\ provider[c] = "asked" /\ Open /\ c \notin finalized =>
       run.kind = "foreground" /\ run.call = c

CallsFit == \A c \in Calls : CallFits(c)

\* A turn is finalized once, and without its end only for an acknowledged interrupt.
FinalFits(c) ==
  /\ calls[c].at \in {"streaming", "done"}
  /\ agent.foreground # c
  /\ provider[c] \notin Ends => \E d \in Calls : calls[d].acked /\ calls[d].target = c

Finals == \A c \in finalized : FinalFits(c)

\* A cancellation that still waits, waits for the run there is; one that need not wait
\* any longer was for a turn that cannot come back.
Starts(s, t) == \E i \in 1..Len(s) : s[i].type = "started" /\ s[i].turn = t

IsFor(t) ==
  /\ Open /\ run.kind # "none"
  /\ run.kind = "foreground" => t = run.call
  /\ run.kind = "autonomous" => t = run.turn

IsOver(t) ==
  /\ t \in Calls => calls[t].at \in {"streaming", "done", "failed"} /\ run.turn # t
  /\ t \in Own => /\ provider[t] # "none" /\ run.turn # t
                  /\ ~Starts(queue, t) /\ ~Starts(run.staged, t)

Waiting ==
  \A c \in Calls : calls[c].at \in Cancelling =>
    /\ ~calls[c].settled => IsFor(calls[c].target)
    /\ calls[c].settled /\ Open => IsOver(calls[c].target)

\* Events are in the order of the provider p: of one turn the start and then one end,
\* and next to the start of a turn of its own is the end of that.
EventInOrder(s, p, i) ==
  /\ s[i].type = "started" => p[s[i].turn] \in {"announced"} \cup Ends
  /\ s[i].type \in Ends => p[s[i].turn] = s[i].type
  /\ \A j \in 1..Len(s) :
       i < j /\ s[i].turn = s[j].turn => s[i].type = "started" /\ s[j].type \in Ends
  /\ s[i].type = "started" /\ s[i].turn \in Own /\ i < Len(s) => s[i + 1].turn = s[i].turn
  /\ s[i].type = "started" /\ s[i].turn \in Own /\ i = Len(s) =>
       p[s[i].turn] = "announced" /\ \A t \in Turns : t # s[i].turn => p[t] # "announced"

InOrder(s, p) == \A i \in 1..Len(s) : EventInOrder(s, p, i)

\* A turn of the provider's own has started and nothing came after.
EndsInOwn(s) == s # <<>> /\ s[Len(s)].type = "started" /\ s[Len(s)].turn \in Own

StartsOnly(s, T) == \A i \in 1..Len(s) : s[i].type = "started" => s[i].turn \in T

Queued ==
  Open =>
    /\ InOrder(queue, provider) /\ InOrder(run.staged, provider)
    /\ StartsOnly(queue, Own \cup {agent.foreground})
    /\ StartsOnly(run.staged, Own \cup {run.call})
    /\ EndsInOwn(queue) =>
         \A t \in Turns : provider[t] = "asked" =>
           run.kind = "foreground" /\ run.call = t /\ run.turn = NoTurn
    /\ EndsInOwn(run.staged) => \A t \in Turns : provider[t] # "asked"

\* A replacement that is pending, and an agent that shows running without a run, have a
\* prompt that is about to run.
Replaces ==
  \/ \E c \in Calls : calls[c].kind = "prompt" /\ calls[c].at \in Cancelling
  \/ \E c \in Calls : calls[c].at = "starting" /\ calls[c].replaces

Shown ==
  /\ agent.replacing => agent.lifecycle # "idle"
  /\ agent.replacing /\ Open => Replaces
  /\ agent.lifecycle \in {"idle", "error"} =>
       agent.foreground = NoTurn /\ run.turn = NoTurn
  /\ Open /\ agent.lifecycle = "running" /\ run.kind = "none" =>
       \E c \in Calls : calls[c].kind = "prompt" /\ calls[c].at \in Cancelling

IInv ==
  TypeOK /\ RunFits /\ Prompting /\ CallsFit /\ Finals /\ Waiting /\ Queued /\ Shown

----------------------------------------------------------------------------
(***************************************************************************)
(* Sequences of events                                                     *)
(***************************************************************************)

\* The turns of calls and the provider's own are different numbers, and 0 is neither.
LEMMA TurnsApart ==
  /\ Calls \subseteq Turns /\ Own \subseteq Turns
  /\ \A t \in Calls : t \notin Own /\ t # NoTurn
  /\ \A t \in Own : t # NoTurn
  /\ \A t \in Turns : t # NoTurn /\ (t \in Calls \/ t \in Own)
  BY CallsAssumption DEF Calls, Own, Turns, NoTurn

LEMMA EmptyInOrder ==
  ASSUME NEW p
  PROVE  /\ InOrder(<<>>, p) /\ ~EndsInOwn(<<>>)
         /\ \A t : ~Starts(<<>>, t)
         /\ \A T : StartsOnly(<<>>, T)
  BY DEF InOrder, EndsInOwn, Starts, StartsOnly

\* What is left after the first event.
LEMMA TailInOrder ==
  ASSUME NEW s \in Seq(Event), s # <<>>, NEW p, InOrder(s, p)
  PROVE  /\ InOrder(Tail(s), p)
         /\ EndsInOwn(Tail(s)) => EndsInOwn(s)
         /\ \A t : Starts(Tail(s), t) => Starts(s, t)
         /\ \A T : StartsOnly(s, T) => StartsOnly(Tail(s), T)
         /\ s[1].type \in Ends => \A t : t = s[1].turn => ~Starts(Tail(s), t)
<1>1. /\ Tail(s) \in Seq(Event) /\ Len(s) \in Nat \ {0} /\ Len(Tail(s)) = Len(s) - 1
      /\ \A i \in 1..Len(Tail(s)) : Tail(s)[i] = s[i + 1] /\ i + 1 \in 1..Len(s)
  BY HeadTailProperties, EmptySeq
<1>2. ASSUME NEW i \in 1..Len(Tail(s)) PROVE EventInOrder(Tail(s), p, i)
  <2>1. EventInOrder(s, p, i + 1)
    BY <1>1, <1>2 DEF InOrder
  <2>2. \A j \in 1..Len(Tail(s)) : i < j => j + 1 \in 1..Len(s) /\ i + 1 < j + 1
    BY <1>1
  <2>3. i < Len(Tail(s)) => i + 1 < Len(s) /\ i + 1 \in 1..Len(Tail(s))
    BY <1>1
  <2>4. i = Len(Tail(s)) => i + 1 = Len(s)
    BY <1>1
  <2> QED BY <1>1, <2>1, <2>2, <2>3, <2>4 DEF EventInOrder
<1>3. Tail(s) # <<>> => Tail(s)[Len(Tail(s))] = s[Len(s)]
  BY <1>1, EmptySeq
<1>4. ASSUME s[1].type \in Ends PROVE ~Starts(Tail(s), s[1].turn)
  <2>1. EventInOrder(s, p, 1)
    BY <1>1 DEF InOrder
  <2>2. "started" \notin Ends
    BY DEF Ends
  <2> QED BY <1>1, <1>4, <2>1, <2>2 DEF EventInOrder, Starts
<1> QED BY <1>1, <1>2, <1>3, <1>4 DEF InOrder, EndsInOwn, Starts, StartsOnly

\* Only the provider of a turn with no events yet has changed, or of none.
LEMMA SameInOrder ==
  ASSUME NEW s \in Seq(Event), NEW p, NEW q, InOrder(s, p),
         \A t \in Turns : q[t] = p[t] \/ (p[t] \in {"none", "asked"} /\ q[t] # "announced")
  PROVE  InOrder(s, q)
<1> SUFFICES ASSUME NEW i \in 1..Len(s) PROVE EventInOrder(s, q, i)
  BY DEF InOrder
<1>1. EventInOrder(s, p, i) /\ s[i] \in Event
  BY ElementOfSeq DEF InOrder
<1>2. q[s[i].turn] = p[s[i].turn]
  BY <1>1 DEF EventInOrder, Event, Ends
<1> QED BY <1>1, <1>2 DEF EventInOrder

\* The last event of a sequence is in order when it tells how far its turn is.
LEMMA LastInOrder ==
  ASSUME NEW r, NEW n \in Nat, n = Len(r), NEW q,
         r[n].type = "started" => q[r[n].turn] = "announced",
         r[n].type = "started" /\ r[n].turn \in Own =>
           \A u \in Turns : u # r[n].turn => q[u] # "announced",
         r[n].type \in Ends => q[r[n].turn] = r[n].type
  PROVE  EventInOrder(r, q, n)
<1>1. /\ \A j \in 1..Len(r) : ~(n < j)
      /\ ~(n < Len(r))
  OBVIOUS
<1> QED BY <1>1 DEF EventInOrder

\* The sequence r is s with the event e at its end.
Longer(r, s, e) ==
  /\ Len(s) \in Nat /\ Len(r) = Len(s) + 1 /\ r[Len(r)] = e
  /\ \A i \in 1..Len(s) : r[i] = s[i]

LEMMA AppendLonger ==
  ASSUME NEW s \in Seq(Event), NEW e \in Event
  PROVE  Longer(Append(s, e), s, e)
  BY AppendProperties, LenProperties DEF Longer

\* A turn is announced: it has no events yet, and comes after no start of a turn of
\* the provider's own.
LEMMA AnnounceInOrder ==
  ASSUME NEW s \in Seq(Event), NEW p \in [Turns -> Progress], NEW q \in [Turns -> Progress],
         InOrder(s, p), NEW t \in Turns, p[t] \in {"none", "asked"},
         q[t] = "announced", \A u \in Turns : u # t => q[u] = p[u], ~EndsInOwn(s),
         t \in Own => \A u \in Turns : p[u] # "announced",
         NEW e \in Event, e.type = "started", e.turn = t, NEW r, Longer(r, s, e)
  PROVE  InOrder(r, q)
<1>1. "started" \notin Ends /\ q[t] = "announced"
  BY DEF Ends
<1>2. /\ Len(r) = Len(s) + 1 /\ Len(s) \in Nat /\ r[Len(r)] = e
      /\ \A i \in 1..Len(s) : r[i] = s[i]
  BY DEF Longer
<1>3. EventInOrder(r, q, Len(r))
  <2>1. e.type = "started" => q[e.turn] = "announced"
    BY <1>1
  <2>2. e.type = "started" /\ e.turn \in Own =>
          \A u \in Turns : u # e.turn => q[u] # "announced"
    OBVIOUS
  <2>3. e.type \in Ends => q[e.turn] = e.type
    BY <1>1
  <2> QED BY <2>1, <2>2, <2>3, <1>2, LastInOrder
<1>4. ASSUME NEW i \in 1..Len(s) PROVE EventInOrder(r, q, i)
  <2>1. EventInOrder(s, p, i) /\ s[i] \in Event
    BY ElementOfSeq DEF InOrder
  <2>2. s[i].turn # t /\ q[s[i].turn] = p[s[i].turn]
    BY <2>1 DEF EventInOrder, Event, Ends
  <2>3. i = Len(s) => ~(s[i].type = "started" /\ s[i].turn \in Own)
    BY <1>2, EmptySeq DEF EndsInOwn
  <2>4. \A j \in 1..Len(r) :
          i < j /\ s[i].turn = r[j].turn => j \in 1..Len(s)
    BY <1>1, <1>2, <2>2
  <2>5. i < Len(s) => i + 1 \in 1..Len(s)
    BY <1>2
  <2>6. i < Len(r) => i < Len(s) \/ i = Len(s)
    BY <1>2
  <2> QED BY <1>2, <2>1, <2>2, <2>3, <2>4, <2>5, <2>6 DEF EventInOrder
<1> QED BY <1>2, <1>3, <1>4 DEF InOrder

\* A turn ends at the provider.
LEMMA FinishInOrder ==
  ASSUME NEW s \in Seq(Event), NEW p \in [Turns -> Progress], NEW q \in [Turns -> Progress],
         InOrder(s, p), NEW t \in Turns, p[t] = "announced", NEW type \in Ends,
         q[t] = type, \A u \in Turns : u # t => q[u] = p[u],
         NEW e \in Event, e.type = type, e.turn = t, NEW r, Longer(r, s, e)
  PROVE  InOrder(r, q)
<1>1. q[t] = type /\ type # "started"
  BY DEF Ends, Progress
<1>2. /\ Len(r) = Len(s) + 1 /\ Len(s) \in Nat /\ r[Len(r)] = e
      /\ \A i \in 1..Len(s) : r[i] = s[i]
  BY DEF Longer
<1>3. EventInOrder(r, q, Len(r))
  <2>1. ~(e.type = "started") /\ (e.type \in Ends => q[e.turn] = e.type)
    BY <1>1
  <2> QED BY <2>1, <1>2, LastInOrder
<1>4. ASSUME NEW i \in 1..Len(s) PROVE EventInOrder(r, q, i)
  <2>1. EventInOrder(s, p, i) /\ s[i] \in Event
    BY ElementOfSeq DEF InOrder
  <2>2. s[i].turn = t => s[i].type = "started" /\ q[s[i].turn] \in Ends
    BY <2>1 DEF EventInOrder, Event, Ends
  <2>3. s[i].turn # t => q[s[i].turn] = p[s[i].turn]
    BY <2>1 DEF Event
  <2>4. i = Len(s) /\ s[i].type = "started" /\ s[i].turn \in Own => s[i].turn = t
    BY <2>1 DEF EventInOrder
  <2>5. \A j \in 1..Len(r) : j \in 1..Len(s) \/ j = Len(s) + 1
    BY <1>2
  <2>6. i < Len(s) => i + 1 \in 1..Len(s)
    BY <1>2
  <2>7. i < Len(r) => i < Len(s) \/ i = Len(s)
    BY <1>2
  <2>8. i # Len(r)
    BY <1>2
  <2>9. s[i].type = "started" => q[s[i].turn] \in {"announced"} \cup Ends
    BY <2>1, <2>2, <2>3 DEF EventInOrder
  <2>10. s[i].type \in Ends => q[s[i].turn] = s[i].type
    BY <2>1, <2>2, <2>3 DEF EventInOrder, Ends
  <2>11. \A j \in 1..Len(r) :
           i < j /\ s[i].turn = r[j].turn =>
             s[i].type = "started" /\ r[j].type \in Ends
    BY <1>1, <1>2, <2>1, <2>2, <2>5 DEF EventInOrder
  <2>12. s[i].type = "started" /\ s[i].turn \in Own /\ i < Len(r) =>
           r[i + 1].turn = s[i].turn
    BY <1>1, <1>2, <2>1, <2>4, <2>6, <2>7 DEF EventInOrder
  <2> QED BY <1>2, <2>8, <2>9, <2>10, <2>11, <2>12 DEF EventInOrder
<1> QED BY <1>2, <1>3, <1>4 DEF InOrder

LEMMA AppendStarts ==
  ASSUME NEW s \in Seq(Event), NEW e \in Event
  PROVE  /\ Append(s, e) \in Seq(Event) /\ Append(s, e) # <<>>
         /\ \A t : Starts(Append(s, e), t) => Starts(s, t) \/ (e.type = "started" /\ e.turn = t)
         /\ \A T : StartsOnly(s, T) /\ (e.type = "started" => e.turn \in T) =>
              StartsOnly(Append(s, e), T)
         /\ EndsInOwn(Append(s, e)) => e.type = "started" /\ e.turn \in Own
<1>1. /\ Append(s, e) \in Seq(Event) /\ Append(s, e) # <<>>
      /\ Len(Append(s, e)) = Len(s) + 1 /\ Len(s) \in Nat
      /\ \A i \in 1..Len(s) : Append(s, e)[i] = s[i]
      /\ Append(s, e)[Len(s) + 1] = e
  BY AppendProperties, LenProperties
<1>2. \A j \in 1..Len(Append(s, e)) : j \in 1..Len(s) \/ j = Len(s) + 1
  BY <1>1
<1> QED BY <1>1, <1>2 DEF Starts, StartsOnly, EndsInOwn

\* The events that are staged, without the start of the turn that is accepted.
LEMMA WithoutStartInOrder ==
  ASSUME NEW s \in Seq(Event), NEW p, InOrder(s, p), NEW c \in Calls,
         NEW r, r = WithoutStart(s, c)
  PROVE  /\ r \in Seq(Event) /\ InOrder(r, p)
         /\ EndsInOwn(r) => EndsInOwn(s)
         /\ \A t : Starts(r, t) => Starts(s, t)
         /\ StartsOnly(s, Own \cup {c}) => StartsOnly(r, Own)
<1> DEFINE starts == {i \in 1..Len(s) : s[i] = [type |-> "started", turn |-> c]}
           k == CHOOSE i \in starts : TRUE
<1>1. Len(s) \in Nat /\ c \notin Own
  BY LenProperties, TurnsApart
<1>2. CASE starts = {}
  <2>1. r = s
    BY <1>2 DEF WithoutStart
  <2>2. ASSUME StartsOnly(s, Own \cup {c}) PROVE StartsOnly(s, Own)
    <3>1. ASSUME NEW i \in 1..Len(s), s[i].type = "started" PROVE s[i].turn \in Own
      <4>1. s[i] \in Event
        BY ElementOfSeq
      <4>2. s[i] = [type |-> s[i].type, turn |-> s[i].turn]
        BY <4>1 DEF Event
      <4>3. s[i].turn # c
        BY <1>2, <3>1, <4>2
      <4> QED BY <2>2, <3>1, <4>3 DEF StartsOnly
    <3> QED BY <3>1 DEF StartsOnly
  <2> QED BY <2>1, <2>2
<1>3. CASE starts # {}
  <2>1. k \in 1..Len(s) /\ s[k] = [type |-> "started", turn |-> c]
    BY <1>3
  <2>2. r = [i \in 1..(Len(s) - 1) |-> IF i < k THEN s[i] ELSE s[i + 1]]
    BY <1>3 DEF WithoutStart
  <2> DEFINE from(i) == IF i < k THEN i ELSE i + 1
  <2> HIDE DEF k, starts
  <2>3. \A i \in 1..(Len(s) - 1) : from(i) \in 1..Len(s) /\ from(i) # k /\ r[i] = s[from(i)]
    BY <1>1, <2>1, <2>2
  <2>4. r \in Seq(Event) /\ Len(r) = Len(s) - 1
    <3>1. \A i \in 1..(Len(s) - 1) : r[i] \in Event
      BY <2>3, ElementOfSeq
    <3>2. Len(s) - 1 \in Nat
      BY <1>1, <2>1
    <3>3. r \in [1..(Len(s) - 1) -> Event]
      BY <2>2, <3>1
    <3> QED BY <3>2, <3>3
  <2>5. ASSUME NEW i \in 1..Len(s), i # k
        PROVE  ~(s[i].type = "started" /\ s[i].turn = c)
    <3>1. EventInOrder(s, p, i) /\ EventInOrder(s, p, k) /\ "started" \notin Ends
      BY <2>1 DEF InOrder, Ends
    <3> QED BY <1>1, <2>1, <2>5, <3>1 DEF EventInOrder
  <2>6. ASSUME NEW i \in 1..Len(r) PROVE EventInOrder(r, p, i)
    <3>1. EventInOrder(s, p, from(i)) /\ r[i] = s[from(i)] /\ from(i) \in 1..Len(s)
      BY <2>3, <2>4 DEF InOrder
    <3>2. \A j \in 1..Len(r) :
            i < j => from(i) < from(j) /\ r[j] = s[from(j)] /\ from(j) \in 1..Len(s)
      BY <1>1, <2>1, <2>3, <2>4
    <3>3. ASSUME r[i].type = "started", r[i].turn \in Own, i < Len(r)
          PROVE  r[i + 1].turn = r[i].turn
      <4>1. from(i) < Len(s) /\ i + 1 \in 1..Len(r)
        BY <1>1, <2>1, <2>4, <3>3
      <4>2. s[from(i) + 1].turn = s[from(i)].turn
        BY <3>1, <3>3, <4>1 DEF EventInOrder
      <4>3. from(i) + 1 # k
        BY <1>1, <2>1, <3>1, <3>3, <4>2
      <4>4. from(i + 1) = from(i) + 1
        BY <1>1, <2>1, <4>3
      <4> QED BY <2>3, <2>4, <3>1, <4>1, <4>2, <4>4
    <3>4. ASSUME r[i].type = "started", r[i].turn \in Own, i = Len(r)
          PROVE  from(i) = Len(s)
      <4>1. CASE from(i) < Len(s)
        <5>1. s[from(i) + 1].turn = s[from(i)].turn
          BY <3>1, <3>4, <4>1 DEF EventInOrder
        <5>2. from(i) + 1 = k
          BY <1>1, <2>1, <2>4, <3>4, <4>1
        <5> QED BY <1>1, <2>1, <3>1, <3>4, <5>1, <5>2
      <4>2. CASE ~(from(i) < Len(s))
        BY <1>1, <3>1, <4>2
      <4> QED BY <4>1, <4>2
    <3> HIDE DEF from
    <3> QED BY <3>1, <3>2, <3>3, <3>4 DEF EventInOrder
  <2>7. EndsInOwn(r) => EndsInOwn(s)
    <3> SUFFICES ASSUME EndsInOwn(r) PROVE EndsInOwn(s)
      OBVIOUS
    <3>1. Len(r) \in 1..Len(r) /\ s # <<>>
      BY <2>1, <2>4, EmptySeq DEF EndsInOwn
    <3>2. EventInOrder(s, p, from(Len(r))) /\ r[Len(r)] = s[from(Len(r))]
      BY <2>3, <2>4, <3>1 DEF InOrder
    <3>3. CASE from(Len(r)) < Len(s)
      <4>1. s[from(Len(r)) + 1].turn = s[from(Len(r))].turn
        BY <3>2, <3>3 DEF EventInOrder, EndsInOwn
      <4>2. from(Len(r)) + 1 = k
        BY <1>1, <2>1, <2>4, <3>1, <3>3
      <4> QED BY <1>1, <2>1, <3>2, <4>1, <4>2 DEF EndsInOwn
    <3>4. CASE ~(from(Len(r)) < Len(s))
      <4>1. from(Len(r)) = Len(s)
        BY <1>1, <2>3, <2>4, <3>1, <3>4
      <4> QED BY <3>1, <3>2, <4>1 DEF EndsInOwn
    <3> QED BY <3>3, <3>4
  <2>8. \A t : Starts(r, t) => Starts(s, t)
    BY <2>3, <2>4 DEF Starts
  <2>9. StartsOnly(s, Own \cup {c}) => StartsOnly(r, Own)
    BY <2>3, <2>4, <2>5 DEF StartsOnly
  <2> QED BY <2>4, <2>6, <2>7, <2>8, <2>9 DEF InOrder
<1> QED BY <1>2, <1>3

----------------------------------------------------------------------------
(***************************************************************************)
(* The invariant holds at first, and every step keeps it                   *)
(***************************************************************************)

LEMMA InitIInv == Init => IInv
<1> SUFFICES ASSUME Init PROVE IInv
  OBVIOUS
<1>1. TypeOK
  <2>1. NoRun \in Run /\ <<>> \in Seq(Event)
    BY EmptySeq DEF NoRun, Run
  <2>2. Unused \in Call
    BY DEF Unused, Call
  <2> QED BY <2>1, <2>2 DEF Init, TypeOK, Agent, Progress
<1>2. RunFits /\ Prompting
  BY DEF Init, RunFits, NoneFits, NoRun, Open, Gone, Prompting, Unused
<1>3. CallsFit /\ Finals
  BY TurnsApart DEF Init, CallsFit, CallFits, Finals, Unused, Cancelling
<1>4. Waiting
  BY DEF Init, Waiting, Unused, Cancelling
<1>5. Queued
  <2>1. queue = <<>> /\ run.staged = <<>>
    BY DEF Init, NoRun
  <2> QED BY <2>1, EmptyInOrder DEF Queued
<1>6. Shown
  BY DEF Init, Shown, NoRun
<1> QED BY <1>1, <1>2, <1>3, <1>4, <1>5, <1>6 DEF IInv

\* The next event is taken up and changes nothing: the agent is closed, or the event
\* is of a turn that is over, or is the start of the turn in the foreground.
LEMMA DropKeeps ==
  ASSUME IInv, queue # <<>>, queue' = Tail(queue),
         UNCHANGED <<agent, run, finalized, calls, provider>>,
         Open /\ run.kind = "autonomous" => agent.active = NoTurn
  PROVE  IInv'
<1>1. TypeOK' /\ queue \in Seq(Event)
  BY HeadTailProperties DEF IInv, TypeOK
<1>2. RunFits'
  <2>1. (Open' <=> Open) /\ (NoneFits' <=> NoneFits) /\ (StartingFits' <=> StartingFits)
    BY DEF Open, Gone, NoneFits, StartingFits
  <2>2. (StreamingFits' <=> StreamingFits) /\ (queue' = <<>> \/ queue # <<>>)
    BY DEF StreamingFits
  <2>3. run.kind = "autonomous" => AutonomousFits'
    BY DEF IInv, RunFits, AutonomousFits, NoRun, Open
  <2> QED BY <2>1, <2>2, <2>3 DEF IInv, RunFits
<1>3. Prompting' /\ CallsFit' /\ Finals' /\ Shown'
  BY DEF IInv, Prompting, CallsFit, CallFits, Finals, FinalFits, Shown, Replaces, Open, Gone
<1>4. Open => /\ InOrder(queue', provider')
              /\ EndsInOwn(queue') => EndsInOwn(queue)
              /\ \A t : Starts(queue', t) => Starts(queue, t)
              /\ \A T : StartsOnly(queue, T) => StartsOnly(queue', T)
  BY <1>1, TailInOrder DEF IInv, Queued
<1>5. Waiting'
  <2>1. \A t : IsFor(t)' = IsFor(t)
    BY DEF IsFor, Open, Gone
  <2>2. \A t : IsOver(t) /\ Open => IsOver(t)'
    BY <1>4 DEF IsOver
  <2> QED BY <2>1, <2>2 DEF IInv, Waiting, Open, Gone
<1>6. Queued'
  BY <1>4 DEF IInv, Queued, Open, Gone
<1> QED BY <1>1, <1>2, <1>3, <1>5, <1>6 DEF IInv

\* The run ends: with it every wait for it.
LEMMA RunEnds ==
  ASSUME IInv, TypeOK', Open, run.kind = "autonomous" \/ run.turn # NoTurn,
         run' = NoRun, agent'.foreground = NoTurn, agent'.active = NoTurn,
         agent'.replacing = agent.replacing, agent'.shown = agent.shown,
         agent'.lifecycle \in {"idle", "error", "running"},
         agent.replacing => agent'.lifecycle # "idle",
         agent'.lifecycle = "running" => agent.replacing,
         provider' = provider,
         queue' = queue \/ (queue # <<>> /\ queue' = Tail(queue)),
         run.turn # NoTurn => ~Starts(queue', run.turn),
         \A c \in Calls :
           /\ calls'[c].kind = calls[c].kind /\ calls'[c].target = calls[c].target
           /\ calls'[c].replaces = calls[c].replaces /\ calls'[c].acked = calls[c].acked
           /\ \/ calls'[c].at = calls[c].at
              \/ calls[c].at \in Cancelling /\ calls'[c].at \in Cancelling \ {"interrupting"}
           /\ calls[c].at \in Cancelling => calls'[c].settled
           /\ calls[c].at = "unused" /\ calls'[c].settled => calls[c].settled
           /\ \/ calls'[c].told = calls[c].told
              \/ /\ calls[c].at = "streaming"
                 /\ calls'[c].told \in {"completed", "failed"} => provider[c] = calls'[c].told,
         run.kind = "foreground" => run.call \in finalized',
         \A c \in finalized' : \/ c \in finalized
                               \/ /\ run.kind = "foreground" /\ c = run.call
                                  /\ provider[c] \notin Ends =>
                                       \E d \in Calls : calls[d].acked /\ calls[d].target = c,
         finalized \subseteq finalized'
  PROVE  IInv'
<1>1. Open'
  BY DEF Open, Gone
<1>2. run.staged = <<>> /\ run'.staged = <<>> /\ run'.kind = "none" /\ run'.turn = NoTurn
  BY DEF IInv, RunFits, StartingFits, StreamingFits, NoRun
<1>3. \A c \in Calls : calls[c].at # "starting"
  BY DEF IInv, Prompting, RunFits, StartingFits, StreamingFits
<1>4. RunFits' /\ Prompting'
  BY <1>1, <1>2, <1>3 DEF RunFits, NoneFits, Prompting, Cancelling
<1>5. CallsFit'
  <2> SUFFICES ASSUME NEW c \in Calls PROVE CallFits(c)'
    BY DEF CallsFit
  <2>1. CallFits(c)
    BY DEF IInv, CallsFit
  <2>2. provider[c] = "asked" => c \in finalized'
    <3>1. CASE c \in finalized
      BY <3>1
    <3>2. CASE c \notin finalized
      BY <2>1, <3>2 DEF CallFits
    <3> QED BY <3>1, <3>2
  <2>3. calls'[c].told # calls[c].told => calls[c].at = "streaming" /\ calls'[c].at = "streaming"
    BY DEF Cancelling
  <2> QED BY <2>1, <2>2, <2>3 DEF CallFits, Cancelling
<1>6. Finals'
  <2> SUFFICES ASSUME NEW c \in finalized' PROVE FinalFits(c)'
    BY DEF Finals
  <2>1. c \in Calls /\ c # NoTurn
    BY TurnsApart DEF TypeOK
  <2>2. CASE c \in finalized
    BY <2>1, <2>2 DEF IInv, Finals, FinalFits, Cancelling
  <2>3. CASE c \notin finalized
    <3>1. calls[c].at = "streaming"
      BY <2>3 DEF IInv, RunFits, StartingFits, StreamingFits
    <3> QED BY <2>1, <2>3, <3>1 DEF FinalFits, Cancelling
  <2> QED BY <2>2, <2>3
<1>7. Waiting'
  <2> SUFFICES ASSUME NEW c \in Calls, calls'[c].at \in Cancelling, NEW t, t = calls[c].target
               PROVE  calls'[c].settled /\ calls'[c].target = t /\ IsOver(t)'
    BY DEF Waiting
  <2>1. calls[c].at \in Cancelling /\ calls'[c].settled /\ calls'[c].target = t
    BY DEF Cancelling
  <2>2. \A d \in Calls : calls[d].at \in {"streaming", "done", "failed"} =>
                           calls'[d].at \in {"streaming", "done", "failed"}
    BY DEF Cancelling
  <2>3. \A u : Starts(queue', u) => Starts(queue, u)
    <3>1. queue \in Seq(Event) /\ InOrder(queue, provider)
      BY DEF IInv, TypeOK, Queued
    <3>2. CASE queue' = queue
      BY <3>2
    <3>3. CASE queue # <<>> /\ queue' = Tail(queue)
      BY <3>1, <3>3, TailInOrder
    <3> QED BY <3>2, <3>3
  <2>4. CASE calls[c].settled
    <3>1. IsOver(t)
      BY <2>1, <2>4 DEF IInv, Waiting
    <3> QED BY <2>1, <2>2, <2>3, <3>1, <1>2, TurnsApart, EmptyInOrder DEF IsOver
  <2>5. CASE ~calls[c].settled
    <3>1. IsFor(t)
      BY <2>1, <2>5 DEF IInv, Waiting
    <3>2. CASE run.kind = "foreground"
      <4>1. t \in Calls /\ calls[t].at = "streaming"
        BY <3>1, <3>2 DEF IsFor, IInv, RunFits, StartingFits, StreamingFits
      <4> QED BY <2>1, <2>2, <4>1, <1>2, TurnsApart DEF IsOver
    <3>3. CASE run.kind = "autonomous"
      <4>1. t = run.turn /\ t \in Own \cup {NoTurn}
        BY <3>1, <3>3 DEF IsFor, IInv, RunFits, AutonomousFits
      <4>2. t \in Own => provider[t] # "none"
        <5>1. ASSUME t \in Own PROVE OwnTurnFirst(t)
          BY <3>3, <4>1, <5>1, TurnsApart DEF IInv, RunFits, AutonomousFits
        <5>2. queue # <<>> => queue[1] \in Event /\ EventInOrder(queue, provider, 1)
          <6>1. queue \in Seq(Event) /\ InOrder(queue, provider)
            BY DEF IInv, TypeOK, Queued
          <6>2. queue # <<>> => 1 \in 1..Len(queue)
            BY <6>1, EmptySeq
          <6> QED BY <6>1, <6>2, ElementOfSeq DEF InOrder
        <5> QED BY <5>1, <5>2 DEF OwnTurnFirst, EventInOrder, Ends
      <4> QED BY <2>1, <3>3, <4>1, <4>2, <1>2, TurnsApart, EmptyInOrder DEF IsOver
    <3> QED BY <3>1, <3>2, <3>3 DEF IsFor, IInv, TypeOK, Run
  <2> QED BY <2>1, <2>4, <2>5
<1>8. Queued'
  <2>1. /\ queue \in Seq(Event) /\ InOrder(queue, provider)
        /\ StartsOnly(queue, Own \cup {agent.foreground})
        /\ EndsInOwn(queue) =>
             \A t \in Turns : provider[t] = "asked" =>
               run.kind = "foreground" /\ run.call = t /\ run.turn = NoTurn
    BY DEF IInv, TypeOK, Queued
  <2>2. /\ InOrder(queue', provider)
        /\ EndsInOwn(queue') => EndsInOwn(queue)
        /\ StartsOnly(queue', Own \cup {agent.foreground})
    <3>1. CASE queue' = queue
      BY <2>1, <3>1
    <3>2. CASE queue # <<>> /\ queue' = Tail(queue)
      BY <2>1, <3>2, TailInOrder
    <3> QED BY <3>1, <3>2
  <2>3. agent.foreground # NoTurn => agent.foreground = run.turn
    BY DEF IInv, RunFits, NoneFits, StartingFits, StreamingFits, AutonomousFits, TypeOK, Run
  <2>4. StartsOnly(queue', Own \cup {NoTurn})
    BY <2>2, <2>3 DEF StartsOnly, Starts
  <2>5. EndsInOwn(queue') => \A t \in Turns : provider[t] # "asked"
    BY <2>1, <2>2
  <2> QED BY <2>2, <2>4, <2>5, <1>2, EmptyInOrder DEF Queued
<1>9. Shown'
  <2>1. agent.replacing => \E c \in Calls : calls'[c].kind = "prompt" /\ calls'[c].at \in Cancelling
    BY <1>3 DEF IInv, Shown, Replaces
  <2> QED BY <2>1, <1>2 DEF Shown, Replaces
<1> QED BY <1>4, <1>5, <1>6, <1>7, <1>8, <1>9 DEF IInv

----------------------------------------------------------------------------
(***************************************************************************)
(* The end of a turn                                                       *)
(***************************************************************************)

\* What each call is told when turn t ends.
LEMMA ToldFacts ==
  ASSUME NEW base \in [Calls -> Call], NEW settles \in BOOLEAN, NEW type \in {"none"} \cup Ends,
         NEW t, NEW r, r = Told(base, settles, type, t)
  PROVE  /\ r \in [Calls -> Call]
         /\ \A c \in Calls :
              /\ r[c].kind = base[c].kind /\ r[c].at = base[c].at /\ r[c].target = base[c].target
              /\ r[c].acked = base[c].acked /\ r[c].replaces = base[c].replaces
              /\ settles /\ base[c].at \in Cancelling => r[c].settled
              /\ ~settles \/ base[c].at \notin Cancelling => r[c].settled = base[c].settled
              /\ c = t /\ base[c].at = "streaming" => r[c].told = type
              /\ c # t \/ base[c].at # "streaming" => r[c].told = base[c].told
<1>1. ASSUME NEW c \in Calls
      PROVE  /\ r[c] \in Call
             /\ r[c].kind = base[c].kind /\ r[c].at = base[c].at
             /\ r[c].target = base[c].target /\ r[c].acked = base[c].acked
             /\ r[c].replaces = base[c].replaces
             /\ settles /\ base[c].at \in Cancelling => r[c].settled
             /\ ~settles \/ base[c].at \notin Cancelling => r[c].settled = base[c].settled
             /\ c = t /\ base[c].at = "streaming" => r[c].told = type
             /\ c # t \/ base[c].at # "streaming" => r[c].told = base[c].told
  <2> DEFINE settled == base[c].settled \/ (settles /\ base[c].at \in Cancelling)
             told == IF c = t /\ base[c].at = "streaming" THEN type ELSE base[c].told
  <2>1. base[c] \in Call
    OBVIOUS
  <2>2. r[c] = [base[c] EXCEPT !.settled = settled, !.told = told]
    BY Zenon DEF Told
  <2>3. settled \in BOOLEAN /\ told \in {"none", "settled", "refused"} \cup Ends
    BY <2>1 DEF Call
  <2>4. /\ settles /\ base[c].at \in Cancelling => settled
        /\ ~settles \/ base[c].at \notin Cancelling => settled = base[c].settled
        /\ c = t /\ base[c].at = "streaming" => told = type
        /\ c # t \/ base[c].at # "streaming" => told = base[c].told
    BY <2>1 DEF Call
  <2> HIDE DEF settled, told
  <2>5. /\ r[c] \in Call /\ r[c].settled = settled /\ r[c].told = told
        /\ r[c].kind = base[c].kind /\ r[c].at = base[c].at
        /\ r[c].target = base[c].target /\ r[c].acked = base[c].acked
        /\ r[c].replaces = base[c].replaces
    BY <2>1, <2>2, <2>3 DEF Call
  <2> QED BY <2>4, <2>5
<1>2. r \in [Calls -> Call]
  <2>1. \A c \in Calls : r[c] \in Call
    BY <1>1
  <2>2. r = [c \in Calls |-> r[c]]
    BY Zenon DEF Told
  <2> QED BY <2>1, <2>2
<1> QED BY <1>1, <1>2, Zenon

\* The end of the turn in the foreground, or with none there of the active one, leaves
\* neither; any other end leaves the agent.
LEMMA AfterEndFacts ==
  ASSUME TypeOK, NEW type \in Ends, NEW t \in Turns \cup {NoTurn}, NEW a, a = AfterEnd(type, t)
  PROVE  /\ a \in Agent /\ a.replacing = agent.replacing /\ a.shown = agent.shown
         /\ t # NoTurn /\ agent.foreground = t /\ ~Stale(t) =>
              /\ a.foreground = NoTurn /\ a.active = NoTurn
              /\ a.lifecycle \in {"idle", "error", "running"}
              /\ agent.replacing => a.lifecycle # "idle"
              /\ a.lifecycle = "running" => agent.replacing
         /\ agent.foreground = NoTurn /\ ~Stale(t) =>
              /\ a.foreground = NoTurn /\ a.active = NoTurn
              /\ \/ a.lifecycle = "error"
                 \/ agent.replacing /\ a.lifecycle = agent.lifecycle
                 \/ ~agent.replacing /\ a.lifecycle = "idle"
         /\ Stale(t) /\ agent.foreground # t => a = agent
<1>1. agent \in Agent
  BY DEF TypeOK
<1>2. RestOf(TRUE) = "error" /\ RestOf(FALSE) \in {"running", "idle"}
      /\ (agent.replacing <=> RestOf(FALSE) = "running")
  BY <1>1 DEF RestOf, Agent
<1>3. CASE t # NoTurn /\ agent.foreground = t /\ ~Stale(t)
  BY <1>1, <1>2, <1>3, TurnsApart DEF AfterEnd, Agent, Stale, Ends
<1>4. CASE agent.foreground = NoTurn /\ ~Stale(t)
  BY <1>1, <1>4, TurnsApart DEF AfterEnd, Agent, Stale, Ends
<1>5. CASE Stale(t) /\ agent.foreground # t
  BY <1>1, <1>5, TurnsApart DEF AfterEnd, Agent, Stale
<1>6. a \in Agent /\ a.replacing = agent.replacing /\ a.shown = agent.shown
  BY <1>1, <1>2, TurnsApart DEF AfterEnd, Agent, Ends
<1> QED BY <1>3, <1>4, <1>5, <1>6, TurnsApart DEF Agent

\* An end that is taken up keeps the types.
LEMMA EndType ==
  ASSUME TypeOK, NEW base \in [Calls -> Call], NEW e \in [type : Ends,
  turn : Turns \cup {NoTurn}],
         End(e, base)
  PROVE  agent' \in Agent /\ run' \in Run /\ finalized' \subseteq Calls /\ calls' \in [Calls -> Call]
<1>1. Identified(e.turn) \in Turns \cup {NoTurn}
  BY TurnsApart DEF Identified, TypeOK, Agent
<1>2. NoRun \in Run
  BY EmptySeq DEF NoRun, Run
<1>3. Settles(Identified(e.turn)) \in BOOLEAN
  BY DEF Settles
<1>4. CASE Identified(e.turn) \in finalized
  BY <1>4 DEF End, TypeOK
<1>5. CASE Identified(e.turn) \notin finalized
  <2>1. agent' \in Agent
    BY <1>1, <1>5, AfterEndFacts DEF End
  <2>2. calls' \in [Calls -> Call]
    BY <1>3, <1>5, ToldFacts DEF End
  <2>3. finalized' \subseteq Calls
    BY <1>5 DEF End, TypeOK, Agent
  <2> QED BY <1>2, <1>5, <2>1, <2>2, <2>3 DEF End, TypeOK
<1> QED BY <1>4, <1>5

\* The next event is the end of a turn that is not the run's.
LEMMA EndOther ==
  ASSUME IInv, TypeOK', Open, queue # <<>>, queue' = Tail(queue),
         run.kind # "autonomous", run' = run, finalized' = finalized, provider' = provider,
         agent'.foreground = agent.foreground, agent'.replacing = agent.replacing,
         agent'.shown = agent.shown,
         run.turn # NoTurn => agent' = agent,
         agent'.active \in {agent.active, NoTurn},
         agent'.lifecycle \in {agent.lifecycle, "idle", "error"},
         agent.replacing => agent'.lifecycle # "idle",
         \A c \in Calls :
           /\ calls'[c].kind = calls[c].kind /\ calls'[c].at = calls[c].at
           /\ calls'[c].target = calls[c].target /\ calls'[c].acked = calls[c].acked
           /\ calls'[c].replaces = calls[c].replaces /\ calls'[c].settled = calls[c].settled
           /\ \/ calls'[c].told = calls[c].told
              \/ /\ calls[c].at = "streaming" /\ c # run.turn
                 /\ calls'[c].told \in {"completed", "failed"} => provider[c] = calls'[c].told
  PROVE  IInv'
<1>1. Open'
  BY DEF Open, Gone
<1>2. /\ run.kind = "none" => NoneFits
      /\ run.kind = "foreground" => StartingFits \/ StreamingFits
      /\ run.staged # <<>> => queue = <<>>
  BY DEF IInv, RunFits
<1>3. RunFits'
  <2>1. NoneFits => NoneFits'
    BY DEF NoneFits
  <2>2. StartingFits => StartingFits'
    BY DEF StartingFits
  <2>3. StreamingFits => StreamingFits'
    BY TurnsApart DEF StreamingFits
  <2> QED BY <1>1, <1>2, <2>1, <2>2, <2>3 DEF RunFits
<1>4. Prompting'
  BY <1>1 DEF IInv, Prompting
<1>5. CallsFit'
  <2> SUFFICES ASSUME NEW c \in Calls PROVE CallFits(c)'
    BY DEF CallsFit
  <2>1. CallFits(c)
    BY DEF IInv, CallsFit
  <2> QED BY <2>1, <1>1 DEF CallFits
<1>6. Finals'
  <2> SUFFICES ASSUME NEW c \in finalized PROVE FinalFits(c)'
    BY DEF Finals
  <2>1. FinalFits(c) /\ c \in Calls
    BY DEF IInv, Finals, TypeOK
  <2> QED BY <2>1 DEF FinalFits
<1>7. /\ InOrder(queue', provider)
      /\ EndsInOwn(queue') => EndsInOwn(queue)
      /\ \A t : Starts(queue', t) => Starts(queue, t)
      /\ \A T : StartsOnly(queue, T) => StartsOnly(queue', T)
  <2>1. queue \in Seq(Event) /\ InOrder(queue, provider)
    BY DEF IInv, TypeOK, Queued
  <2> QED BY <2>1, TailInOrder
<1>8. Waiting'
  <2>1. \A t : IsFor(t) => IsFor(t)'
    BY <1>1 DEF IsFor
  <2>2. \A t : IsOver(t) => IsOver(t)'
    BY <1>7 DEF IsOver
  <2> QED BY <2>1, <2>2, <1>1 DEF IInv, Waiting
<1>9. Queued'
  BY <1>7 DEF IInv, Queued
<1>10. Shown'
  <2>1. Replaces => Replaces'
    BY DEF Replaces
  <2>2. run.turn # NoTurn => agent'.lifecycle = agent.lifecycle
    OBVIOUS
  <2>3. run.turn = NoTurn => agent.foreground = NoTurn
    BY <1>2, TurnsApart DEF NoneFits, StartingFits, StreamingFits, IInv, TypeOK, Run
  <2>4. Shown
    BY DEF IInv
  <2> QED BY <2>1, <2>2, <2>3, <2>4, <1>1 DEF Shown, Open, Gone
<1> QED BY <1>3, <1>4, <1>5, <1>6, <1>8, <1>9, <1>10 DEF IInv

\* The next event, and the run of the provider's own that it may end.
LEMMA NextFits ==
  ASSUME IInv, Open, queue # <<>>
  PROVE  /\ queue \in Seq(Event) /\ queue[1] \in Event /\ EventInOrder(queue, provider, 1)
         /\ Tail(queue) \in Seq(Event) /\ Head(queue) = queue[1]
         /\ run.kind = "autonomous" =>
              /\ agent.foreground = NoTurn
              /\ agent.active # NoTurn => /\ agent.active = queue[1].turn /\ agent.active \in Own
                                          /\ queue[1].type \in Ends
              /\ run.turn \in {NoTurn, agent.active}
<1>1. queue \in Seq(Event) /\ InOrder(queue, provider)
  BY DEF IInv, TypeOK, Queued
<1>2. 1 \in 1..Len(queue)
  BY <1>1, EmptySeq
<1>3. queue[1] \in Event /\ EventInOrder(queue, provider, 1)
  BY <1>1, <1>2, ElementOfSeq DEF InOrder
<1>4. Tail(queue) \in Seq(Event) /\ Head(queue) = queue[1]
  BY <1>1, HeadTailProperties
<1>5. run.kind = "autonomous" => AutonomousFits
  BY DEF IInv, RunFits
<1> QED BY <1>1, <1>3, <1>4, <1>5 DEF AutonomousFits, OwnTurnFirst

\* The end of a turn is taken up.
LEMMA EndKeeps ==
  ASSUME IInv, Open, queue # <<>>, queue' = Tail(queue), queue[1].type \in Ends,
         End(queue[1], calls), UNCHANGED provider
  PROVE  IInv'
<1> DEFINE e == queue[1]
           t == e.turn
<1>1. /\ queue \in Seq(Event) /\ e \in Event /\ EventInOrder(queue, provider, 1)
      /\ queue' \in Seq(Event)
      /\ run.kind = "autonomous" => /\ agent.foreground = NoTurn
                                    /\ agent.active \in {NoTurn, t} \cap (Own \cup {NoTurn})
                                    /\ run.turn \in {NoTurn, agent.active}
  BY NextFits
<1>2. t \in Turns /\ t # NoTurn /\ e.type \in Ends /\ provider[t] = e.type
  BY <1>1, TurnsApart DEF Event, EventInOrder
<1>3. Identified(e.turn) = t
  BY <1>2 DEF Identified
<1>4. e \in [type : Ends, turn : Turns \cup {NoTurn}]
  BY <1>1, <1>2 DEF Event
<1>5. TypeOK'
  <2>1. TypeOK /\ calls \in [Calls -> Call]
    BY DEF IInv, TypeOK
  <2> QED BY <1>1, <1>4, <2>1, EndType DEF TypeOK
<1>6. CASE t \in finalized
  <2>1. UNCHANGED <<agent, run, finalized, calls, provider>>
    BY <1>3, <1>6 DEF End
  <2>2. run.kind = "autonomous" => agent.active = NoTurn
    BY <1>1, <1>6, TurnsApart DEF IInv, TypeOK
  <2> QED BY <2>1, <2>2, DropKeeps
<1>7. CASE t \notin finalized
  <2>1. /\ agent' = AfterEnd(e.type, t)
        /\ run' = IF Settles(t) THEN NoRun ELSE run
        /\ finalized' = IF agent.foreground = t THEN finalized \cup {t} ELSE finalized
        /\ calls' = Told(calls, Settles(t), e.type, t)
    BY <1>2, <1>3, <1>7 DEF End
  <2>2. TypeOK /\ calls \in [Calls -> Call] /\ Settles(t) \in BOOLEAN /\ agent \in Agent /\ run \in Run
    BY DEF IInv, TypeOK, Settles
  <2>3. \A c \in Calls :
          /\ calls'[c].kind = calls[c].kind /\ calls'[c].at = calls[c].at
          /\ calls'[c].target = calls[c].target /\ calls'[c].acked = calls[c].acked
          /\ calls'[c].replaces = calls[c].replaces
          /\ Settles(t) /\ calls[c].at \in Cancelling => calls'[c].settled
          /\ ~Settles(t) \/ calls[c].at \notin Cancelling => calls'[c].settled = calls[c].settled
          /\ c = t /\ calls[c].at = "streaming" => calls'[c].told = e.type
          /\ c # t \/ calls[c].at # "streaming" => calls'[c].told = calls[c].told
    BY <1>2, <2>1, <2>2, ToldFacts
  <2>4. /\ agent'.replacing = agent.replacing /\ agent'.shown = agent.shown
        /\ agent.foreground = t /\ ~Stale(t) =>
             /\ agent'.foreground = NoTurn /\ agent'.active = NoTurn
             /\ agent'.lifecycle \in {"idle", "error", "running"}
             /\ agent.replacing => agent'.lifecycle # "idle"
             /\ agent'.lifecycle = "running" => agent.replacing
        /\ agent.foreground = NoTurn /\ ~Stale(t) =>
             /\ agent'.foreground = NoTurn /\ agent'.active = NoTurn
             /\ \/ agent'.lifecycle = "error"
                \/ agent.replacing /\ agent'.lifecycle = agent.lifecycle
                \/ ~agent.replacing /\ agent'.lifecycle = "idle"
        /\ Stale(t) /\ agent.foreground # t => agent' = agent
    BY <1>2, <2>1, <2>2, AfterEndFacts
  <2>5. ASSUME Settles(t)
        PROVE  /\ run.kind = "foreground" => StreamingFits /\ run.turn = t
               /\ run.kind = "autonomous" => run.turn \in {NoTurn, t}
               /\ run.kind \in {"foreground", "autonomous"}
    BY <1>1, <2>5 DEF Settles, IInv, RunFits, StartingFits
  <2>6. agent.replacing => agent.lifecycle # "idle"
    BY DEF IInv, Shown
  <2>7. agent.lifecycle \in {"idle", "running", "error"}
    BY <2>2 DEF Agent, Open, Gone
  <2>8. CASE Settles(t)
    <3>1. ~Starts(queue', t)
      BY <1>1, <1>2, TailInOrder DEF IInv, Queued
    <3>2. /\ agent'.foreground = NoTurn /\ agent'.active = NoTurn
          /\ agent'.lifecycle \in {"idle", "error", "running"}
          /\ agent.replacing => agent'.lifecycle # "idle"
          /\ agent'.lifecycle = "running" => agent.replacing
      <4>1. CASE run.kind = "foreground"
        BY <2>4, <2>5, <2>8, <4>1 DEF StreamingFits, Stale
      <4>2. CASE run.kind = "autonomous"
        <5>1. agent.foreground = NoTurn /\ ~Stale(t)
          BY <1>1, <4>2 DEF Stale
        <5> QED BY <5>1, <2>4, <2>6, <2>7
      <4> QED BY <4>1, <4>2, <2>5, <2>8
    <3>3. run.kind = "foreground" => run.call = t /\ t \in finalized'
      BY <2>1, <2>5, <2>8 DEF StreamingFits
    <3>4. \A c \in finalized' : c \in finalized \/ (run.kind = "foreground" /\ c = run.call)
      BY <1>1, <1>2, <2>1, <2>5, <2>8, <3>3
    <3>5. run.kind = "autonomous" \/ run.turn # NoTurn
      BY <1>2, <2>5, <2>8
    <3>6. run' = NoRun /\ provider' = provider /\ finalized \subseteq finalized'
      BY <2>1, <2>8
    <3>7. run.turn # NoTurn => ~Starts(queue', run.turn)
      BY <2>5, <2>8, <3>1
    <3>8. \A c \in Calls :
           /\ calls'[c].kind = calls[c].kind /\ calls'[c].target = calls[c].target
           /\ calls'[c].replaces = calls[c].replaces /\ calls'[c].acked = calls[c].acked
           /\ calls'[c].at = calls[c].at
           /\ calls[c].at \in Cancelling => calls'[c].settled
           /\ calls[c].at = "unused" /\ calls'[c].settled => calls[c].settled
           /\ \/ calls'[c].told = calls[c].told
              \/ /\ calls[c].at = "streaming"
                 /\ calls'[c].told \in {"completed", "failed"} => provider[c] = calls'[c].told
      BY <1>2, <2>3, <2>8 DEF Cancelling
    <3>9. run.kind = "foreground" => run.call \in finalized' /\ provider[run.call] \in Ends
      BY <1>2, <3>3
    <3> HIDE DEF e, t
    <3> QED BY <1>5, <2>4, <3>2, <3>4, <3>5, <3>6, <3>7, <3>8, <3>9, RunEnds
  <2>9. CASE ~Settles(t)
    <3>1. run.kind # "autonomous" /\ (run.kind = "foreground" => run.turn # t)
      BY <1>1, <1>2, <2>9 DEF Settles
    <3>2. /\ run.kind = "none" => NoneFits
          /\ run.kind = "foreground" => StartingFits \/ StreamingFits
          /\ run.kind \in {"none", "foreground"}
      BY <2>2, <3>1 DEF IInv, RunFits, Run
    <3>3. agent.foreground # t
      BY <1>2, <3>1, <3>2 DEF NoneFits, StartingFits, StreamingFits
    <3>4. run.turn # NoTurn => agent' = agent
      <4>1. run.turn # NoTurn => Stale(t)
        BY <1>2, <3>1, <3>2, TurnsApart DEF NoneFits, NoRun, StartingFits, StreamingFits, Stale
      <4> QED BY <2>4, <3>3, <4>1
    <3>5. /\ agent'.foreground = agent.foreground /\ agent'.active \in {agent.active, NoTurn}
          /\ agent'.lifecycle \in {agent.lifecycle, "idle", "error"}
          /\ agent.replacing => agent'.lifecycle # "idle"
      <4>1. CASE Stale(t)
        BY <2>4, <2>6, <3>3, <4>1
      <4>2. CASE ~Stale(t)
        <5>1. agent.foreground = NoTurn
          BY <1>2, <3>1, <3>2, <4>2 DEF NoneFits, StartingFits, StreamingFits, Stale
        <5> QED BY <2>4, <2>6, <4>2, <5>1
      <4> QED BY <4>1, <4>2
    <3>6. run' = run /\ finalized' = finalized /\ provider' = provider
      BY <2>1, <2>9, <3>3
    <3>7. \A c \in Calls :
           /\ calls'[c].kind = calls[c].kind /\ calls'[c].at = calls[c].at
           /\ calls'[c].target = calls[c].target /\ calls'[c].acked = calls[c].acked
           /\ calls'[c].replaces = calls[c].replaces /\ calls'[c].settled = calls[c].settled
           /\ \/ calls'[c].told = calls[c].told
              \/ /\ calls[c].at = "streaming" /\ c # run.turn
                 /\ calls'[c].told \in {"completed", "failed"} => provider[c] = calls'[c].told
      <4> SUFFICES ASSUME NEW c \in Calls
                   PROVE /\ calls'[c].settled = calls[c].settled
                         /\ \/ calls'[c].told = calls[c].told
                            \/ /\ calls[c].at = "streaming" /\ c # run.turn
                               /\ calls'[c].told \in {"completed", "failed"} =>
                                    provider[c] = calls'[c].told
        BY <2>3
      <4>1. calls[c].settled \in BOOLEAN
        BY <2>2 DEF Call
      <4>2. c = t => c # run.turn
        BY <1>2, <3>1, <3>2 DEF NoneFits, NoRun
      <4> QED BY <1>2, <2>3, <2>9, <4>1, <4>2
    <3> HIDE DEF e, t
    <3> QED BY <1>5, <2>4, <3>1, <3>4, <3>5, <3>6, <3>7, EndOther
  <2> QED BY <2>8, <2>9
<1> QED BY <1>6, <1>7

\* The next event is the start of a turn of the provider's own, and no turn is in the
\* foreground.
LEMMA OwnStarts ==
  ASSUME IInv, Open, queue # <<>>, queue' = Tail(queue), queue[1].type = "started",
         agent.foreground = NoTurn, Start(queue[1].turn), UNCHANGED provider
  PROVE  IInv'
<1> SUFFICES ASSUME NEW t, t = queue[1].turn PROVE IInv'
  OBVIOUS
<1>1. /\ queue \in Seq(Event) /\ queue[1] \in Event /\ EventInOrder(queue, provider, 1)
      /\ queue' \in Seq(Event) /\ "started" \notin Ends
      /\ run.kind = "autonomous" => agent.active = NoTurn /\ run.turn = NoTurn
  BY NextFits DEF Ends
<1>2. t \in Own /\ t \in Turns /\ t # NoTurn /\ t \notin Calls
  <2>1. StartsOnly(queue, Own \cup {NoTurn})
    BY DEF IInv, Queued
  <2>2. 1 \in 1..Len(queue)
    BY <1>1, EmptySeq
  <2>3. t \in Own \cup {NoTurn} /\ t \in Turns
    BY <1>1, <2>1, <2>2 DEF StartsOnly, Event
  <2> QED BY <2>3, TurnsApart
<1>3. /\ agent' = [agent EXCEPT !.active = t, !.lifecycle = "running"]
      /\ run.kind = "none" => run' = [NoRun EXCEPT !.kind = "autonomous", !.turn = t]
      /\ run.kind # "none" => run' = run
      /\ finalized' = finalized /\ calls' = calls /\ provider' = provider
  BY DEF Start
<1>4. /\ agent \in Agent /\ run \in Run /\ agent' \in Agent
      /\ agent'.active = t /\ agent'.lifecycle = "running" /\ agent'.foreground = NoTurn
      /\ agent'.replacing = agent.replacing /\ agent'.shown = agent.shown
  BY <1>2, <1>3 DEF IInv, TypeOK, Agent
<1>5. /\ run.kind = "none" => /\ run'.kind = "autonomous" /\ run'.turn = t /\ run'.call = 0
                              /\ run'.staged = <<>> /\ run' \in Run
      /\ run.kind # "none" => run' = run
      /\ run'.kind \in {"foreground", "autonomous"} /\ run' \in Run
  <2>1. CASE run.kind = "none"
    <3>1. run' = [kind |-> "autonomous", call |-> 0, turn |-> t, staged |-> <<>>]
      BY <1>3, <2>1 DEF NoRun
    <3>2. <<>> \in Seq(Event)
      BY EmptySeq
    <3>3. run' \in Run
      BY <1>2, <3>1, <3>2 DEF Run
    <3> QED BY <2>1, <3>1, <3>3
  <2>2. CASE run.kind # "none"
    BY <1>3, <1>4, <2>2 DEF Run
  <2> QED BY <2>1, <2>2
<1>6. TypeOK'
  BY <1>1, <1>3, <1>4, <1>5 DEF IInv, TypeOK
<1>7. Open' /\ run'.staged = <<>>
  BY <1>4, <1>5 DEF Open, Gone, IInv, RunFits
<1>8. /\ InOrder(queue', provider')
      /\ EndsInOwn(queue') => EndsInOwn(queue)
      /\ \A u : Starts(queue', u) => Starts(queue, u)
      /\ StartsOnly(queue', Own \cup {NoTurn})
  BY <1>1, <1>3, TailInOrder DEF IInv, Queued
<1>9. run.kind # "foreground" => OwnTurnFirst(t)'
  <2> SUFFICES ASSUME run.kind # "foreground" PROVE OwnTurnFirst(t)'
    OBVIOUS
  <2>1. /\ Len(queue) \in Nat \ {0} /\ Len(queue') = Len(queue) - 1
        /\ \A i \in 1..Len(queue') : queue'[i] = queue[i + 1]
    BY <1>1, HeadTailProperties, EmptySeq
  <2>2. CASE 1 < Len(queue)
    <3>1. 2 \in 1..Len(queue) /\ 1 \in 1..Len(queue') /\ queue'[1] = queue[2]
      BY <2>1, <2>2
    <3>2. queue[2].turn = t /\ queue[2].type \in Ends
      BY <1>1, <1>2, <2>2, <3>1 DEF EventInOrder
    <3> QED BY <1>1, <3>1, <3>2, EmptySeq DEF OwnTurnFirst
  <2>3. CASE ~(1 < Len(queue))
    <3>1. Len(queue) = 1 /\ queue' = <<>>
      BY <1>1, <2>1, <2>3, EmptySeq
    <3>2. /\ provider[t] = "announced"
          /\ \A u \in Turns : u # t => provider[u] # "announced"
      BY <1>1, <1>2, <3>1 DEF EventInOrder
    <3>3. \A u \in Turns : provider[u] # "asked"
      BY <1>1, <1>2, <3>1 DEF EndsInOwn, IInv, Queued
    <3> QED BY <1>3, <3>1, <3>2, <3>3 DEF OwnTurnFirst
  <2> QED BY <2>2, <2>3
<1>10. RunFits'
  <2>1. run'.kind = "foreground" => StartingFits'
    BY <1>2, <1>3, <1>4, <1>5, TurnsApart
       DEF IInv, RunFits, StartingFits, StreamingFits
  <2>2. run'.kind = "autonomous" => AutonomousFits'
    BY <1>1, <1>2, <1>4, <1>5, <1>9 DEF IInv, RunFits, AutonomousFits
  <2> QED BY <1>5, <1>7, <2>1, <2>2 DEF RunFits
<1>11. Prompting' /\ CallsFit'
  BY <1>3, <1>5, <1>7 DEF IInv, Prompting, CallsFit, CallFits
<1>12. Finals'
  BY <1>3, <1>4 DEF IInv, Finals, FinalFits
<1>13. Waiting'
  <2> SUFFICES ASSUME NEW c \in Calls, calls[c].at \in Cancelling, NEW g, g = calls[c].target
               PROVE  /\ ~calls[c].settled => IsFor(g)'
                      /\ calls[c].settled => IsOver(g)'
    BY <1>3 DEF Waiting
  <2>1. ~calls[c].settled => IsFor(g)'
    BY <1>5, <1>7 DEF IInv, Waiting, IsFor
  <2>2. calls[c].settled => IsOver(g)'
    <3> SUFFICES ASSUME IsOver(g) PROVE IsOver(g)'
      BY DEF IInv, Waiting
    <3>1. Starts(queue, t)
      BY <1>1, EmptySeq DEF Starts
    <3>2. run'.turn = g => run.turn = g \/ g = t
      BY <1>5
    <3>3. ~Starts(run'.staged, g)
      BY <1>7, EmptyInOrder
    <3> QED BY <1>2, <1>3, <1>8, <3>1, <3>2, <3>3 DEF IsOver
  <2> QED BY <2>1, <2>2
<1>14. Queued'
  <2>1. EndsInOwn(queue') => \A u \in Turns : provider[u] = "asked" =>
          run'.kind = "foreground" /\ run'.call = u /\ run'.turn = NoTurn
    BY <1>5, <1>8 DEF IInv, Queued
  <2> QED BY <1>3, <1>4, <1>7, <1>8, <2>1, EmptyInOrder DEF Queued
<1>15. Shown'
  BY <1>3, <1>4, <1>5 DEF IInv, Shown, Replaces
<1> QED BY <1>6, <1>10, <1>11, <1>12, <1>13, <1>14, <1>15 DEF IInv

LEMMA DispatchKeeps ==
  ASSUME IInv, Dispatch
  PROVE  IInv'
<1>1. queue # <<>> /\ queue' = Tail(queue) /\ UNCHANGED provider
  BY DEF Dispatch
<1>2. CASE ~Open
  BY <1>1, <1>2, DropKeeps DEF Dispatch, Open, Gone
<1>3. CASE Open
  <2>1. /\ queue[1] \in Event /\ Head(queue) = queue[1]
        /\ run.kind = "autonomous" => agent.foreground = NoTurn
    BY <1>1, <1>3, NextFits
  <2>2. CASE queue[1].type = "started"
    <3>1. Start(queue[1].turn)
      BY <1>3, <2>1, <2>2 DEF Dispatch, Open, Gone
    <3>2. CASE agent.foreground = NoTurn
      BY <1>1, <1>3, <2>2, <3>1, <3>2, OwnStarts
    <3>3. CASE agent.foreground # NoTurn
      BY <1>1, <2>1, <3>1, <3>3, DropKeeps DEF Start
    <3> QED BY <3>2, <3>3
  <2>3. CASE queue[1].type # "started"
    <3>1. End(queue[1], calls)
      BY <1>3, <2>1, <2>3 DEF Dispatch, Open, Gone
    <3>2. queue[1].type \in Ends
      BY <2>1, <2>3 DEF Event
    <3> QED BY <1>1, <1>3, <3>1, <3>2, EndKeeps
  <2> QED BY <2>2, <2>3
<1> QED BY <1>2, <1>3

----------------------------------------------------------------------------
(***************************************************************************)
(* Prompts and stops                                                       *)
(***************************************************************************)

\* Between two tasks no event is queued, and no call is due to go on.
LEMMA DrainedFacts ==
  ASSUME Drained
  PROVE  /\ queue = <<>>
         /\ \A c \in Calls : calls[c].at = "settling" => ~calls[c].settled
  BY DEF Drained

\* A stream of call c begins when there is no run.
LEMMA StreamAgentKeeps ==
  ASSUME IInv, Open, ~Busy, NEW c \in Calls, NEW kind \in {"run", "prompt"}, StreamAgent(c, kind),
         calls[c].at \in {"unused"} \cup Cancelling, UNCHANGED <<finalized, queue>>
  PROVE  IInv'
<1>1. /\ agent \in Agent /\ run \in Run /\ calls \in [Calls -> Call]
      /\ provider \in [Turns -> Progress] /\ queue \in Seq(Event) /\ c \in Turns
  BY TurnsApart DEF IInv, TypeOK
<1>2. /\ agent' \in Agent /\ agent'.lifecycle = agent.lifecycle
      /\ agent'.foreground = agent.foreground /\ agent'.active = agent.active
      /\ agent'.replacing = agent.replacing /\ agent'.shown = agent.shown
  BY <1>1 DEF StreamAgent, Agent
<1>3. /\ run' \in Run /\ run'.kind = "foreground" /\ run'.call = c
      /\ run'.turn = NoTurn /\ run'.staged = <<>>
  BY EmptySeq DEF StreamAgent, NoRun, Run
<1>4. /\ calls' \in [Calls -> Call]
      /\ calls'[c].at = "starting" /\ calls'[c].replaces = agent.replacing
      /\ \A d \in Calls : /\ calls'[d].told = calls[d].told /\ calls'[d].acked = calls[d].acked
                          /\ calls'[d].target = calls[d].target
                          /\ d # c => calls'[d] = calls[d]
  <2> DEFINE new == [calls[c] EXCEPT !.kind = kind, !.at = "starting", !.settled = FALSE,
                                     !.replaces = agent.replacing]
  <2>1. calls' = [calls EXCEPT ![c] = new]
    BY DEF StreamAgent
  <2>2. calls[c] \in Call /\ agent.replacing \in BOOLEAN
    BY <1>1 DEF Agent
  <2>3. /\ new \in Call /\ new.at = "starting" /\ new.replaces = agent.replacing
        /\ new.told = calls[c].told /\ new.acked = calls[c].acked /\ new.target = calls[c].target
    BY <2>2 DEF Call
  <2> HIDE DEF new
  <2> QED BY <1>1, <2>1, <2>3
<1>5. /\ provider' \in [Turns -> Progress] /\ provider'[c] = "asked"
      /\ \A t \in Turns : t # c => provider'[t] = provider[t]
  BY <1>1 DEF StreamAgent, Progress
<1>6. run.kind = "none" /\ agent.foreground = NoTurn /\ agent.active = NoTurn /\ provider[c] = "none"
  BY DEF Busy, IInv, RunFits, NoneFits, CallsFit, CallFits
<1>7. Open' /\ finalized' = finalized /\ queue' = queue
  BY <1>2 DEF Open, Gone
<1>8. \A d \in Calls : calls[d].at # "starting" /\ (provider[d] = "asked" => d \in finalized)
  BY <1>6 DEF IInv, Prompting, CallsFit, CallFits
<1>9. \A d \in finalized : d # c /\ d \in Calls
  BY DEF IInv, TypeOK, Finals, FinalFits, Cancelling
<1>10. TypeOK'
  BY <1>1, <1>2, <1>3, <1>4, <1>5, <1>7 DEF IInv, TypeOK
<1>11. RunFits'
  BY <1>2, <1>3, <1>4, <1>6, <1>7 DEF RunFits, StartingFits
<1>12. Prompting'
  BY <1>3, <1>4, <1>8 DEF Prompting
<1>13. CallsFit'
  <2> SUFFICES ASSUME NEW d \in Calls PROVE CallFits(d)'
    BY DEF CallsFit
  <2>1. CallFits(d) /\ d \in Turns
    BY TurnsApart DEF IInv, CallsFit
  <2>2. CASE d = c
    BY <1>3, <1>4, <1>5, <2>1, <2>2 DEF CallFits, Cancelling
  <2>3. CASE d # c
    BY <1>4, <1>5, <1>7, <1>8, <2>1, <2>3 DEF CallFits
  <2> QED BY <2>2, <2>3
<1>14. Finals'
  <2> SUFFICES ASSUME NEW d \in finalized PROVE FinalFits(d)'
    BY <1>7 DEF Finals
  <2>1. FinalFits(d) /\ d \in Turns /\ d # c /\ d \in Calls
    BY <1>9, TurnsApart DEF IInv, Finals
  <2> QED BY <1>2, <1>4, <1>5, <2>1 DEF FinalFits
<1>15. Waiting'
  <2> SUFFICES ASSUME NEW d \in Calls, calls'[d].at \in Cancelling, NEW t, t = calls'[d].target
               PROVE  calls'[d].settled /\ IsOver(t)'
    BY DEF Waiting
  <2>1. d # c /\ calls'[d] = calls[d]
    BY <1>4 DEF Cancelling
  <2>2. calls[d].settled /\ IsOver(t)
    BY <1>6, <2>1 DEF IInv, Waiting, IsFor
  <2>3. t \in Calls => t # c
    BY <2>2 DEF IsOver, Cancelling
  <2> QED BY <1>3, <1>4, <1>5, <1>7, <2>1, <2>2, <2>3, EmptyInOrder, TurnsApart DEF IsOver
<1>16. Queued'
  <2>1. InOrder(queue, provider')
    BY <1>1, <1>5, <1>6, SameInOrder DEF IInv, Queued
  <2>2. EndsInOwn(queue) => \A t \in Turns : provider[t] # "asked"
    BY <1>6 DEF IInv, Queued
  <2>3. StartsOnly(queue, Own \cup {agent.foreground})
    BY DEF IInv, Queued
  <2> QED BY <1>2, <1>3, <1>5, <1>7, <2>1, <2>2, <2>3, EmptyInOrder DEF Queued
<1>17. Shown'
  <2>1. Shown
    BY DEF IInv
  <2>2. agent.replacing => Replaces'
    BY <1>4 DEF Replaces
  <2> QED BY <1>2, <1>3, <1>6, <2>1, <2>2 DEF Shown
<1> QED BY <1>10, <1>11, <1>12, <1>13, <1>14, <1>15, <1>16, <1>17 DEF IInv

LEMMA RunAgentKeeps ==
  ASSUME IInv, NEW c \in Calls, RunAgent(c)
  PROVE  IInv'
  BY StreamAgentKeeps DEF RunAgent, New, Open, Gone

\* A cancellation of call c begins: it waits for the run, or for one of its own.
LEMMA CancelKeeps ==
  ASSUME IInv, Open, InFlight, NEW c \in Calls, NEW kind \in {"prompt", "stop"}, Cancel(c, kind),
         queue = <<>>, calls[c].at = "unused", UNCHANGED <<finalized, queue, provider>>,
         agent' \in Agent, agent'.foreground = agent.foreground, agent'.active = agent.active,
         agent'.shown = agent.shown,
         \/ agent' = agent /\ kind = "stop"
         \/ agent'.lifecycle = "running" /\ agent'.replacing /\ kind = "prompt"
  PROVE  IInv'
<1>1. /\ agent \in Agent /\ run \in Run /\ calls \in [Calls -> Call]
  BY DEF IInv, TypeOK
<1>2. /\ run' \in Run /\ run'.kind # "none"
      /\ run.kind # "none" => run' = run
      /\ run.kind = "none" => run'.kind = "autonomous"
      /\ run'.call = run.call /\ run'.turn = run.turn /\ run'.staged = run.staged
  BY <1>1, EmptySeq DEF Cancel, NoRun, Run, IInv, RunFits, NoneFits
<1>3. run'.call \in Calls \/ run'.kind # "foreground"
  BY <1>2 DEF IInv, RunFits, StartingFits, StreamingFits
<1>4. /\ calls' \in [Calls -> Call]
      /\ calls'[c].at = "interrupting" /\ calls'[c].kind = kind
      /\ run'.kind = "foreground" => calls'[c].target = run'.call
      /\ run'.kind # "foreground" => calls'[c].target = run'.turn
      /\ calls'[c].told = calls[c].told /\ calls'[c].acked = calls[c].acked
      /\ calls'[c].settled = calls[c].settled
      /\ \A d \in Calls : d # c => calls'[d] = calls[d]
  <2> DEFINE g == IF run'.kind = "foreground" THEN run'.call ELSE run'.turn
  <2>1. g \in Turns \cup {NoTurn}
    BY <1>2, <1>3, TurnsApart DEF Run
  <2>2. calls' = [calls EXCEPT ![c].kind = kind, ![c].at = "interrupting", ![c].target = g]
    BY DEF Cancel
  <2>3. (run'.kind = "foreground" => g = run'.call) /\ (run'.kind # "foreground" => g = run'.turn)
    OBVIOUS
  <2> HIDE DEF g
  <2> QED BY <1>1, <2>1, <2>2, <2>3 DEF Call, Cancelling
<1>5. Open' /\ finalized' = finalized /\ provider' = provider /\ queue' = <<>>
  BY DEF Open, Gone
<1>6. TypeOK'
  BY <1>1, <1>2, <1>4, <1>5, EmptySeq DEF IInv, TypeOK
<1>7. RunFits'
  <2>1. run'.kind = "foreground" => run' = run /\ c # run.call
    BY <1>2 DEF IInv, RunFits, StartingFits, StreamingFits
  <2>2. run'.kind = "foreground" => StartingFits' \/ StreamingFits'
    BY <1>3, <1>4, <2>1 DEF IInv, RunFits, StartingFits, StreamingFits
  <2>3. run'.kind = "autonomous" => AutonomousFits'
    <3>1. CASE run.kind = "none"
      BY <1>2, <3>1 DEF IInv, RunFits, NoneFits, NoRun, AutonomousFits
    <3>2. CASE run.kind = "autonomous"
      BY <1>2, <1>5, <3>2 DEF IInv, RunFits, AutonomousFits, OwnTurnFirst
    <3> QED BY <1>1, <1>2, <3>1, <3>2 DEF Run
  <2>4. run'.staged # <<>> => run'.kind = "foreground" /\ run'.turn = NoTurn
    BY <1>2 DEF IInv, RunFits
  <2> QED BY <1>2, <1>5, <2>2, <2>3, <2>4 DEF RunFits
<1>8. Prompting'
  BY <1>2, <1>4, <1>5 DEF IInv, Prompting
<1>9. CallsFit'
  <2> SUFFICES ASSUME NEW d \in Calls PROVE CallFits(d)'
    BY DEF CallsFit
  <2>1. CallFits(d)
    BY DEF IInv, CallsFit
  <2>2. CASE d = c
    BY <1>2, <1>4, <1>5, <2>1, <2>2 DEF CallFits, Cancelling
  <2>3. CASE d # c
    BY <1>2, <1>4, <1>5, <2>1, <2>3 DEF CallFits
  <2> QED BY <2>2, <2>3
<1>10. Finals'
  <2> SUFFICES ASSUME NEW d \in finalized PROVE FinalFits(d)'
    BY <1>5 DEF Finals
  <2>1. FinalFits(d) /\ ~calls[c].acked /\ d # c
    BY DEF IInv, Finals, FinalFits, CallsFit, CallFits
  <2>2. d \in Calls
    BY DEF IInv, TypeOK
  <2> QED BY <1>4, <1>5, <2>1, <2>2 DEF FinalFits
<1>11. Waiting'
  <2> SUFFICES ASSUME NEW d \in Calls, calls'[d].at \in Cancelling, NEW t, t = calls'[d].target
               PROVE  /\ ~calls'[d].settled => IsFor(t)'
                      /\ calls'[d].settled => IsOver(t)'
    BY DEF Waiting
  <2>1. CASE d = c
    <3>1. IsFor(t)'
      BY <1>2, <1>4, <1>5, <2>1 DEF IsFor
    <3>2. ~calls[c].settled
      BY DEF IInv, CallsFit, CallFits
    <3> QED BY <1>4, <2>1, <3>1, <3>2
  <2>2. CASE d # c
    <3>1. /\ ~calls[d].settled => IsFor(t)
          /\ calls[d].settled => IsOver(t)
      BY <1>4, <2>2 DEF IInv, Waiting
    <3>2. IsFor(t) => IsFor(t)'
      BY <1>2, <1>5 DEF IsFor
    <3>3. IsOver(t) => IsOver(t)'
      BY <1>2, <1>4, <1>5 DEF IsOver, Cancelling
    <3> QED BY <1>4, <2>2, <3>1, <3>2, <3>3
  <2> QED BY <2>1, <2>2
<1>12. Queued'
  BY <1>2, <1>5, EmptyInOrder DEF IInv, Queued
<1>13. Shown'
  <2>1. Shown
    BY DEF IInv
  <2>2. Replaces => Replaces'
    BY <1>4 DEF Replaces, Cancelling
  <2>3. kind = "prompt" => Replaces'
    BY <1>4 DEF Replaces, Cancelling
  <2> QED BY <1>2, <2>1, <2>2, <2>3 DEF Shown
<1> QED BY <1>6, <1>7, <1>8, <1>9, <1>10, <1>11, <1>12, <1>13 DEF IInv

LEMMA PromptKeeps ==
  ASSUME IInv, NEW c \in Calls, Prompt(c)
  PROVE  IInv'
<1>1. Open /\ queue = <<>> /\ calls[c].at = "unused" /\ UNCHANGED <<finalized, queue>>
  BY DEF Prompt, New, Drained, Open, Gone
<1>2. CASE ~InFlight
  BY <1>1, <1>2, StreamAgentKeeps DEF Prompt, InFlight
<1>3. CASE InFlight
  <2>1. /\ agent' = [agent EXCEPT !.replacing = TRUE, !.lifecycle = "running"]
        /\ Cancel(c, "prompt") /\ UNCHANGED provider
    BY <1>3 DEF Prompt
  <2>2. /\ agent' \in Agent /\ agent'.foreground = agent.foreground
        /\ agent'.active = agent.active /\ agent'.lifecycle = "running" /\ agent'.replacing
    BY <2>1 DEF IInv, TypeOK, Agent
  <2> QED BY <1>1, <1>3, <2>1, <2>2, CancelKeeps
<1> QED BY <1>2, <1>3

LEMMA StopKeeps ==
  ASSUME IInv, NEW c \in Calls, Stop(c)
  PROVE  IInv'
<1>1. Open /\ queue = <<>> /\ calls[c].at = "unused" /\ agent \in Agent
  BY DEF Stop, New, Drained, Open, Gone, IInv, TypeOK
<1> QED BY <1>1, CancelKeeps DEF Stop

\* What the answer to call c does to the agent when the manager has closed it.
Late(c) ==
  /\ agent' \in Agent /\ agent'.shown # "live"
  /\ agent'.replacing => agent'.lifecycle # "idle"
  /\ \/ agent'.foreground = NoTurn
     \/ agent'.foreground = c /\ c \notin finalized /\ agent'.lifecycle = "running"

\* Call c goes on, and nothing else changes but, when the agent is closed, what it shows
\* and that the provider refuses c.
LEMMA CallMoves ==
  ASSUME IInv, NEW c \in Calls, UNCHANGED <<run, finalized, queue>>,
         agent' = agent \/ (~Open /\ Late(c)),
         calls' \in [Calls -> Call], \A d \in Calls : d # c => calls'[d] = calls[d],
         \/ provider' = provider
         \/ ~Open /\ provider[c] = "asked" /\ provider' = [provider EXCEPT ![c] = "refused"],
         CallFits(c)',
         run.kind = "foreground" => run.call # c,
         calls'[c].target = calls[c].target, calls[c].acked => calls'[c].acked,
         calls[c].at \notin {"unused", "failed"}, calls'[c].at # "starting",
         calls'[c].at \in Cancelling =>
           calls[c].at \in Cancelling /\ calls'[c].settled = calls[c].settled,
         calls[c].at \in {"streaming", "done"} => calls'[c].at \in {"streaming", "done"},
         calls[c].at = "starting" => ~Open,
         calls[c].at \in Cancelling /\ calls[c].kind = "prompt" =>
           calls'[c].at \in Cancelling /\ calls'[c].kind = "prompt"
  PROVE  IInv'
<1>1. /\ provider' \in [Turns -> Progress]
      /\ \A t \in Turns : provider'[t] = provider[t] \/ (~Open /\ t = c /\ provider[t] = "asked")
  BY TurnsApart DEF IInv, TypeOK, Progress
<1>2. /\ Open' = Open /\ TypeOK' /\ (Open => agent' = agent)
      /\ ~Open => run = NoRun /\ run.kind = "none" /\ run.turn = NoTurn
  BY <1>1 DEF Open, Gone, Late, IInv, TypeOK, RunFits, NoRun
<1>3. RunFits'
  <2>1. run.kind = "foreground" => StartingFits' \/ StreamingFits'
    BY <1>2 DEF IInv, RunFits, StartingFits, StreamingFits
  <2>2. run.kind = "autonomous" => AutonomousFits'
    <3> SUFFICES ASSUME run.kind = "autonomous" PROVE AutonomousFits'
      OBVIOUS
    <3>1. Open /\ AutonomousFits /\ provider' = provider /\ agent' = agent
      <4>1. Open /\ AutonomousFits
        BY <1>2 DEF IInv, RunFits
      <4> QED BY <1>2, <4>1
    <3> QED BY <3>1 DEF AutonomousFits, OwnTurnFirst
  <2>3. Open /\ run.kind = "none" => NoneFits'
    BY <1>2 DEF IInv, RunFits, NoneFits
  <2> QED BY <1>2, <2>1, <2>2, <2>3 DEF IInv, RunFits
<1>4. Prompting'
  BY <1>2 DEF IInv, Prompting
<1>5. CallsFit'
  <2> SUFFICES ASSUME NEW d \in Calls PROVE CallFits(d)'
    BY DEF CallsFit
  <2>1. CASE d = c
    BY <2>1
  <2>2. CASE d # c
    BY <1>1, <1>2, <2>2, TurnsApart DEF IInv, CallsFit, CallFits
  <2> QED BY <2>1, <2>2
<1>6. Finals'
  <2> SUFFICES ASSUME NEW d \in finalized PROVE FinalFits(d)'
    BY DEF Finals
  <2>1. FinalFits(d) /\ d \in Calls /\ CallFits(d)
    BY DEF IInv, Finals, TypeOK, CallsFit
  <2>2. calls'[d].at \in {"streaming", "done"} /\ agent'.foreground # d
    BY <2>1, TurnsApart DEF FinalFits, Late
  <2>3. provider'[d] \in Ends \/ provider[d] \notin Ends
    BY <1>1, <2>1, TurnsApart DEF Ends
  <2>4. (\E a \in Calls : calls[a].acked /\ calls[a].target = d) =>
          \E a \in Calls : calls'[a].acked /\ calls'[a].target = d
    OBVIOUS
  <2> QED BY <2>1, <2>2, <2>3, <2>4 DEF FinalFits
<1>7. Waiting'
  <2> SUFFICES ASSUME NEW d \in Calls, calls'[d].at \in Cancelling, NEW t, t = calls'[d].target
               PROVE  /\ ~calls'[d].settled => IsFor(t)'
                      /\ calls'[d].settled /\ Open => IsOver(t)'
    BY <1>2 DEF Waiting
  <2>1. /\ ~calls'[d].settled => IsFor(t)
        /\ calls'[d].settled /\ Open => IsOver(t)
    BY DEF IInv, Waiting
  <2>2. IsFor(t) => IsFor(t)'
    BY <1>2 DEF IsFor
  <2>3. IsOver(t) /\ Open => IsOver(t)'
    BY <1>1, TurnsApart DEF IsOver, Cancelling
  <2> QED BY <2>1, <2>2, <2>3
<1>8. Queued'
  <2>1. Open => provider' = provider
    OBVIOUS
  <2> QED BY <1>2, <2>1 DEF IInv, Queued
<1>9. Shown'
  <2>1. Shown
    BY DEF IInv
  <2>2. Replaces /\ Open => Replaces'
    BY DEF Replaces
  <2>3. (\E d \in Calls : calls[d].kind = "prompt" /\ calls[d].at \in Cancelling) =>
          \E d \in Calls : calls'[d].kind = "prompt" /\ calls'[d].at \in Cancelling
    OBVIOUS
  <2>4. CASE agent' = agent
    BY <1>2, <2>1, <2>2, <2>3, <2>4 DEF Shown
  <2>5. CASE ~Open /\ Late(c)
    BY <1>2, <2>5 DEF Shown, Late
  <2> QED BY <2>4, <2>5
<1> QED BY <1>2, <1>3, <1>4, <1>5, <1>6, <1>7, <1>8, <1>9 DEF IInv

\* A stream that ends is not the run's any more.
LEMMA StreamEndsKeeps ==
  ASSUME IInv, NEW c \in Calls, StreamEnds(c)
  PROVE  IInv'
<1>1. calls \in [Calls -> Call] /\ calls[c] \in Call /\ CallFits(c)
  BY DEF IInv, TypeOK, CallsFit
<1>2. ~(run.kind = "foreground" /\ run.call = c)
  BY DEF StreamEnds, IInv, RunFits, StartingFits, StreamingFits
<1>3. /\ UNCHANGED <<agent, run, finalized, queue, provider>>
      /\ calls' = [Told(calls, FALSE, "none", NoTurn) EXCEPT ![c].at = "done"]
      /\ calls[c].at = "streaming"
  BY <1>2 DEF StreamEnds
<1> SUFFICES ASSUME NEW r, r = Told(calls, FALSE, "none", NoTurn)
             PROVE  IInv'
  OBVIOUS
<1>4. \A d \in Calls : r[d] = calls[d]
  <2> SUFFICES ASSUME NEW d \in Calls PROVE r[d] = calls[d]
    OBVIOUS
  <2> DEFINE settled == calls[d].settled \/ (FALSE /\ calls[d].at \in Cancelling)
             told == IF d = NoTurn /\ calls[d].at = "streaming" THEN "none" ELSE calls[d].told
  <2>1. r[d] = [calls[d] EXCEPT !.settled = settled, !.told = told]
    BY Zenon DEF Told
  <2>2. calls[d] \in Call
    BY <1>1
  <2>3. settled = calls[d].settled /\ told = calls[d].told
    BY <2>2, TurnsApart DEF Call
  <2> HIDE DEF settled, told
  <2> QED BY <2>1, <2>2, <2>3 DEF Call
<1>5. r = calls
  <2>1. r = [d \in Calls |-> r[d]]
    BY Zenon DEF Told
  <2> QED BY <1>1, <1>4, <2>1
<1>6. calls' = [calls EXCEPT ![c].at = "done"]
  BY <1>3, <1>5
<1>7. /\ calls' \in [Calls -> Call] /\ calls'[c] = [calls[c] EXCEPT !.at = "done"]
      /\ \A d \in Calls : d # c => calls'[d] = calls[d]
  BY <1>1, <1>6 DEF Call
<1>8. calls'[c].at = "done" /\ calls'[c].target = calls[c].target /\ calls'[c].acked = calls[c].acked
      /\ calls'[c].told = calls[c].told
  BY <1>1, <1>7 DEF Call
<1>9. CallFits(c)'
  BY <1>1, <1>3, <1>8 DEF CallFits, Open, Gone, Cancelling
<1> QED BY <1>2, <1>3, <1>7, <1>8, <1>9, CallMoves DEF Cancelling

LEMMA InterruptedKeeps ==
  ASSUME IInv, NEW c \in Calls, Interrupted(c)
  PROVE  IInv'
<1>1. calls \in [Calls -> Call] /\ calls[c] \in Call /\ CallFits(c)
  BY DEF IInv, TypeOK, CallsFit
<1>2. PICK acked \in BOOLEAN : calls' = [calls EXCEPT ![c].at = "settling", ![c].acked = acked]
  BY DEF Interrupted
<1>3. calls[c].at = "interrupting" /\ UNCHANGED <<agent, run, finalized, queue, provider>>
  BY DEF Interrupted
<1>4. /\ calls' \in [Calls -> Call]
      /\ \A d \in Calls : d # c => calls'[d] = calls[d]
      /\ calls'[c].at = "settling" /\ calls'[c].target = calls[c].target
      /\ calls'[c].settled = calls[c].settled /\ calls'[c].kind = calls[c].kind
      /\ calls'[c].told = calls[c].told
  BY <1>1, <1>2 DEF Call, Cancelling
<1>5. run.kind = "foreground" => run.call # c
  BY <1>3 DEF IInv, RunFits, StartingFits, StreamingFits
<1>6. ~calls[c].acked
  BY <1>1, <1>3 DEF CallFits
<1>7. CallFits(c)'
  BY <1>1, <1>3, <1>4 DEF CallFits, Open, Gone, Cancelling
<1> QED BY <1>3, <1>4, <1>5, <1>6, <1>7, CallMoves DEF Cancelling

\* The provider accepts the turn of call c: it is the run's turn from here.
LEMMA AcceptKeeps ==
  ASSUME IInv, NEW c \in Calls, Accept(c)
  PROVE  IInv'
<1>1. /\ calls \in [Calls -> Call] /\ calls[c] \in Call /\ CallFits(c) /\ agent \in Agent
      /\ run \in Run /\ run.staged \in Seq(Event) /\ queue = <<>> /\ c \in Turns /\ c # NoTurn
  BY TurnsApart DEF IInv, TypeOK, CallsFit, Run, Accept, Drained
<1>2. /\ calls' = [calls EXCEPT ![c].at = "streaming", ![c].replaces = FALSE]
      /\ calls[c].at = "starting" /\ UNCHANGED <<finalized, provider>>
  BY DEF Accept
<1>3. /\ calls' \in [Calls -> Call]
      /\ \A d \in Calls : d # c => calls'[d] = calls[d]
      /\ calls'[c].at = "streaming" /\ calls'[c].target = calls[c].target
      /\ calls'[c].acked = calls[c].acked /\ calls'[c].told = calls[c].told
      /\ calls'[c].settled = calls[c].settled
  BY <1>1, <1>2 DEF Call
<1>4. CASE ~Open
  <2>1. /\ UNCHANGED <<run, queue>>
        /\ agent' = [agent EXCEPT !.foreground = c, !.active = c, !.lifecycle = "running",
                                  !.replacing = agent.replacing /\ ~calls[c].replaces,
                                  !.shown = Over("running")]
    BY <1>4 DEF Accept, Open
  <2>2. CallFits(c)'
    <3>1. ~Open'
      BY <1>1, <1>4, <2>1 DEF Open, Gone, Over, Agent
    <3> QED BY <1>1, <1>2, <1>3, <3>1 DEF CallFits, Cancelling
  <2>3. run.kind # "foreground"
    BY <1>4 DEF IInv, RunFits, NoRun
  <2>4. Late(c)
    <3> DEFINE replacing == agent.replacing /\ ~calls[c].replaces
               shown == Over("running")
    <3>1. replacing \in BOOLEAN
      BY <1>1 DEF Agent
    <3>2. shown \in {"closing", "closed", "running", "error"}
      BY <1>1, <1>4 DEF Agent, Over, Open, Gone
    <3>3. agent' = [agent EXCEPT !.foreground = c, !.active = c, !.lifecycle = "running",
                                 !.replacing = replacing, !.shown = shown]
      BY <2>1
    <3>4. c \notin finalized
      BY <1>2 DEF IInv, Finals, FinalFits
    <3> HIDE DEF replacing, shown
    <3>5. agent' \in Agent /\ agent'.shown = shown /\ agent'.foreground = c
          /\ agent'.lifecycle = "running"
      BY <1>1, <3>1, <3>2, <3>3 DEF Agent
    <3> QED BY <3>2, <3>4, <3>5 DEF Late
  <2> QED BY <1>2, <1>3, <1>4, <2>1, <2>2, <2>3, <2>4, CallMoves DEF Cancelling
<1>5. CASE Open
  <2>1. /\ run.kind = "foreground" /\ run.call = c /\ agent.foreground = NoTurn /\ run.turn = NoTurn
        /\ calls[c].told = "none"
    BY <1>1, <1>2, <1>5
    DEF IInv, Prompting, RunFits, StartingFits, StreamingFits, CallFits, Cancelling
  <2>2. /\ agent' = [agent EXCEPT !.foreground = c, !.active = c, !.lifecycle = "running",
                                  !.replacing = agent.replacing /\ ~calls[c].replaces,
                                  !.shown = "live"]
        /\ run' = [run EXCEPT !.turn = c, !.staged = <<>>]
        /\ queue' = queue \o WithoutStart(run.staged, c)
    BY <1>5 DEF Accept, Open, Gone, Over
  <2>3. /\ agent' \in Agent /\ agent'.lifecycle = "running"
        /\ agent'.foreground = c /\ agent'.active = c
        /\ agent'.replacing => agent.replacing /\ ~calls[c].replaces
        /\ agent'.shown = "live"
    <3> DEFINE replacing == agent.replacing /\ ~calls[c].replaces
    <3>1. replacing \in BOOLEAN /\ (replacing => agent.replacing /\ ~calls[c].replaces)
      BY <1>1 DEF Agent
    <3>2. agent' = [agent EXCEPT !.foreground = c, !.active = c, !.lifecycle = "running",
                                 !.replacing = replacing, !.shown = "live"]
      BY <2>2
    <3> HIDE DEF replacing
    <3>3. agent'.replacing = replacing /\ agent' \in Agent /\ agent'.lifecycle = "running"
          /\ agent'.foreground = c /\ agent'.active = c /\ agent'.shown = "live"
      BY <1>1, <3>1, <3>2 DEF Agent
    <3> QED BY <3>1, <3>3
  <2>4. /\ run' \in Run /\ run'.kind = "foreground" /\ run'.call = c /\ run'.turn = c
        /\ run'.staged = <<>>
    BY <1>1, <2>1, <2>2, EmptySeq DEF Run
  <2>5. /\ queue' \in Seq(Event) /\ InOrder(queue', provider)
        /\ EndsInOwn(queue') => EndsInOwn(run.staged)
        /\ \A t : Starts(queue', t) => Starts(run.staged, t)
        /\ StartsOnly(queue', Own)
    <3> SUFFICES ASSUME NEW r, r = WithoutStart(run.staged, c)
                 PROVE  /\ queue' = r /\ r \in Seq(Event) /\ InOrder(r, provider)
                        /\ EndsInOwn(r) => EndsInOwn(run.staged)
                        /\ \A t : Starts(r, t) => Starts(run.staged, t)
                        /\ StartsOnly(r, Own)
      OBVIOUS
    <3>1. InOrder(run.staged, provider) /\ StartsOnly(run.staged, Own \cup {c})
      BY <1>5, <2>1 DEF IInv, Queued
    <3>2. /\ r \in Seq(Event) /\ InOrder(r, provider)
          /\ EndsInOwn(r) => EndsInOwn(run.staged)
          /\ \A t : Starts(r, t) => Starts(run.staged, t)
          /\ StartsOnly(run.staged, Own \cup {c}) => StartsOnly(r, Own)
      BY <1>1, <3>1, WithoutStartInOrder
    <3>3. queue' = r
      BY <1>1, <2>2, <3>2, ConcatEmptySeq
    <3> QED BY <3>1, <3>2, <3>3
  <2>6. Open' /\ provider' = provider /\ finalized' = finalized
    BY <1>2, <2>3 DEF Open, Gone
  <2>7. TypeOK'
    BY <1>3, <2>3, <2>4, <2>5, <2>6 DEF IInv, TypeOK
  <2>8. RunFits'
    BY <1>3, <2>1, <2>3, <2>4, <2>6 DEF RunFits, StreamingFits
  <2>9. Prompting'
    <3>1. \A d \in Calls : calls[d].at = "starting" => d = c
      BY <1>5, <2>1 DEF IInv, Prompting
    <3> QED BY <1>3, <3>1 DEF Prompting
  <2>10. CallsFit'
    <3> SUFFICES ASSUME NEW d \in Calls PROVE CallFits(d)'
      BY DEF CallsFit
    <3>1. CallFits(d)
      BY DEF IInv, CallsFit
    <3>2. CASE d = c
      BY <1>3, <2>1, <2>4, <2>6, <3>1, <3>2 DEF CallFits, Cancelling
    <3>3. CASE d # c
      BY <1>3, <1>5, <2>1, <2>4, <2>6, <3>1, <3>3 DEF CallFits
    <3> QED BY <3>2, <3>3
  <2>11. Finals'
    <3> SUFFICES ASSUME NEW d \in finalized PROVE FinalFits(d)'
      BY <2>6 DEF Finals
    <3>1. FinalFits(d) /\ d \in Calls
      BY DEF IInv, Finals, TypeOK
    <3>2. d # c
      BY <1>2, <3>1 DEF FinalFits
    <3>3. \A a \in Calls : calls'[a].acked = calls[a].acked /\ calls'[a].target = calls[a].target
      BY <1>3
    <3> QED BY <1>3, <2>3, <2>6, <3>1, <3>2, <3>3 DEF FinalFits
  <2>12. Waiting'
    <3> SUFFICES ASSUME NEW d \in Calls, calls'[d].at \in Cancelling, NEW t, t = calls'[d].target
                 PROVE  /\ ~calls'[d].settled => IsFor(t)'
                        /\ calls'[d].settled => IsOver(t)'
      BY DEF Waiting
    <3>1. d # c /\ calls'[d] = calls[d]
      BY <1>3 DEF Cancelling
    <3>2. /\ ~calls[d].settled => IsFor(t)
          /\ calls[d].settled => IsOver(t)
      BY <1>5, <3>1 DEF IInv, Waiting
    <3>3. IsFor(t) => IsFor(t)'
      BY <2>1, <2>4, <2>6 DEF IsFor
    <3>4. IsOver(t) => IsOver(t)'
      <4> SUFFICES ASSUME IsOver(t) PROVE IsOver(t)'
        OBVIOUS
      <4>1. t # c
        BY <1>2, TurnsApart DEF IsOver
      <4> QED BY <1>3, <2>4, <2>5, <2>6, <4>1, EmptyInOrder DEF IsOver
    <3> QED BY <3>1, <3>2, <3>3, <3>4
  <2>13. Queued'
    <3>1. StartsOnly(queue', Own \cup {agent'.foreground})
      BY <2>5 DEF StartsOnly
    <3>2. EndsInOwn(queue') => \A t \in Turns : provider[t] # "asked"
      BY <1>5, <2>5 DEF IInv, Queued
    <3> QED BY <2>4, <2>5, <2>6, <3>1, <3>2, EmptyInOrder DEF Queued
  <2>14. Shown'
    <3>1. agent'.replacing => Replaces'
      <4> SUFFICES ASSUME agent'.replacing
                   PROVE  \E d \in Calls : calls'[d].kind = "prompt" /\ calls'[d].at \in Cancelling
        BY DEF Replaces
      <4>1. Replaces /\ ~calls[c].replaces
        BY <1>5, <2>3 DEF IInv, Shown
      <4>2. \A d \in Calls : calls[d].at = "starting" => d = c
        BY <1>5, <2>1 DEF IInv, Prompting
      <4>3. PICK d \in Calls : calls[d].kind = "prompt" /\ calls[d].at \in Cancelling
        BY <4>1, <4>2 DEF Replaces
      <4>4. d # c
        BY <1>2, <4>3 DEF Cancelling
      <4> QED BY <1>3, <4>3, <4>4
    <3> QED BY <2>3, <2>4, <3>1 DEF Shown
  <2> QED BY <2>7, <2>8, <2>9, <2>10, <2>11, <2>12, <2>13, <2>14 DEF IInv
<1> QED BY <1>4, <1>5

\* What is left of the calls when the provider refuses the turn of call c.
Refused(q, r, c) == q = [r EXCEPT ![c].at = "failed", ![c].replaces = FALSE]
ToldFailed(r, base) == r = Told(base, TRUE, "failed", NoTurn)

LEMMA RefusedFacts ==
  ASSUME NEW r \in [Calls -> Call], NEW c \in Calls, NEW q, Refused(q, r, c)
  PROVE  /\ q \in [Calls -> Call] /\ q[c].at = "failed"
         /\ q[c].target = r[c].target /\ q[c].acked = r[c].acked
         /\ q[c].told = r[c].told /\ q[c].settled = r[c].settled
         /\ \A d \in Calls : d # c => q[d] = r[d]
<1> DEFINE new == [r[c] EXCEPT !.at = "failed", !.replaces = FALSE]
<1>1. q = [r EXCEPT ![c] = new]
  BY DEF Refused
<1>2. r[c] \in Call
  OBVIOUS
<1>3. /\ new \in Call /\ new.at = "failed" /\ new.target = r[c].target
      /\ new.acked = r[c].acked /\ new.told = r[c].told /\ new.settled = r[c].settled
  BY <1>2 DEF Call
<1> HIDE DEF new
<1> QED BY <1>1, <1>3

LEMMA ToldAll ==
  ASSUME NEW base \in [Calls -> Call], NEW r, ToldFailed(r, base)
  PROVE  /\ r \in [Calls -> Call]
         /\ \A d \in Calls : /\ r[d].at = base[d].at /\ r[d].target = base[d].target
                             /\ r[d].acked = base[d].acked /\ r[d].told = base[d].told
                             /\ base[d].at \in Cancelling => r[d].settled
                             /\ base[d].at \notin Cancelling => r[d].settled = base[d].settled
<1>1. ASSUME NEW d \in Calls
      PROVE  /\ r[d] \in Call
             /\ r[d].at = base[d].at /\ r[d].target = base[d].target
             /\ r[d].acked = base[d].acked /\ r[d].told = base[d].told
             /\ base[d].at \in Cancelling => r[d].settled
             /\ base[d].at \notin Cancelling => r[d].settled = base[d].settled
  <2> DEFINE settled == base[d].settled \/ (TRUE /\ base[d].at \in Cancelling)
             told == IF d = NoTurn /\ base[d].at = "streaming" THEN "failed" ELSE base[d].told
  <2>1. r[d] = [base[d] EXCEPT !.settled = settled, !.told = told]
    BY Zenon DEF Told, ToldFailed
  <2>2. base[d] \in Call
    OBVIOUS
  <2>3. /\ settled \in BOOLEAN /\ told = base[d].told
        /\ base[d].at \in Cancelling => settled
        /\ base[d].at \notin Cancelling => settled = base[d].settled
    BY <2>2, TurnsApart DEF Call
  <2> HIDE DEF settled, told
  <2>4. /\ r[d] \in Call /\ r[d].settled = settled /\ r[d].told = told
        /\ r[d].at = base[d].at /\ r[d].target = base[d].target /\ r[d].acked = base[d].acked
    BY <2>1, <2>2, <2>3 DEF Call
  <2> QED BY <2>3, <2>4
<1>2. r \in [Calls -> Call]
  <2>1. \A d \in Calls : r[d] \in Call
    BY <1>1
  <2>2. r = [d \in Calls |-> r[d]]
    BY Zenon DEF Told, ToldFailed
  <2> QED BY <2>1, <2>2
<1> QED BY <1>1, <1>2, Zenon

\* The provider refuses the turn of call c: the run is over, with no turn.
LEMMA RefuseKeeps ==
  ASSUME IInv, NEW c \in Calls, Refuse(c)
  PROVE  IInv'
<1>1. /\ calls \in [Calls -> Call] /\ calls[c] \in Call /\ CallFits(c)
      /\ provider \in [Turns -> Progress] /\ queue = <<>> /\ c \in Turns /\ c # NoTurn
  BY TurnsApart DEF IInv, TypeOK, CallsFit, Refuse, Drained
<1>2. /\ calls[c].at = "starting" /\ provider[c] = "asked" /\ UNCHANGED <<finalized, queue>>
      /\ provider' = [provider EXCEPT ![c] = "refused"]
  BY DEF Refuse
<1>3. /\ provider' \in [Turns -> Progress] /\ provider'[c] = "refused"
      /\ \A t \in Turns : t # c => provider'[t] = provider[t]
  BY <1>1, <1>2 DEF Progress
<1>4. calls[c].told = "none"
  BY <1>1, <1>2 DEF CallFits, Cancelling
<1>5. CASE ~Open
  <2>1. /\ run' = run /\ run.kind # "foreground"
        /\ agent' = [lifecycle |-> "error", foreground |-> NoTurn, active |-> NoTurn,
                     replacing |-> FALSE, failed |-> TRUE, shown |-> Over("error")]
    BY <1>5 DEF Refuse, Open, IInv, RunFits, NoRun
  <2> DEFINE live == ~Gone
  <2>2. calls' = [Told(calls, live, "failed", NoTurn) EXCEPT ![c].at = "failed",
                                                             ![c].replaces = FALSE]
    BY DEF Refuse
  <2>3. /\ calls' \in [Calls -> Call]
        /\ \A d \in Calls : d # c => calls'[d] = calls[d]
        /\ calls'[c].at = "failed" /\ calls'[c].target = calls[c].target
        /\ calls'[c].acked = calls[c].acked /\ calls'[c].told = calls[c].told
        /\ calls'[c].settled = calls[c].settled
    <3>1. live \in BOOLEAN /\ ~live /\ "failed" \in {"none"} \cup Ends
      BY <1>5 DEF Ends, Open
    <3> HIDE DEF live
    <3> SUFFICES ASSUME NEW r, r = Told(calls, live, "failed", NoTurn), Refused(calls', r, c)
                 PROVE  /\ calls' \in [Calls -> Call]
                        /\ \A d \in Calls : d # c => calls'[d] = calls[d]
                        /\ calls'[c].at = "failed" /\ calls'[c].target = calls[c].target
                        /\ calls'[c].acked = calls[c].acked /\ calls'[c].told = calls[c].told
                        /\ calls'[c].settled = calls[c].settled
      BY <2>2 DEF Refused
    <3>2. /\ r \in [Calls -> Call]
          /\ \A d \in Calls :
               /\ r[d].kind = calls[d].kind /\ r[d].at = calls[d].at
               /\ r[d].target = calls[d].target /\ r[d].acked = calls[d].acked
               /\ r[d].replaces = calls[d].replaces
               /\ r[d].settled = calls[d].settled /\ r[d].told = calls[d].told
      BY <1>1, <3>1, ToldFacts, TurnsApart
    <3>3. \A d \in Calls : r[d] = calls[d]
      <4> SUFFICES ASSUME NEW d \in Calls PROVE r[d] = calls[d]
        OBVIOUS
      <4>1. r[d] \in Call /\ calls[d] \in Call
        BY <1>1, <3>2
      <4> QED BY <3>2, <4>1 DEF Call
    <3> QED BY <3>2, <3>3, RefusedFacts
  <2>4. Late(c)
    <3>1. Over("error") \in {"closing", "closed", "running", "error"}
      BY <1>5 DEF IInv, TypeOK, Agent, Over, Open, Gone
    <3> QED BY <2>1, <3>1 DEF Late, Agent
  <2>5. CallFits(c)'
    BY <1>1, <1>2, <1>3, <1>4, <2>3, <2>4 DEF CallFits, Late, Open, Gone, Cancelling, Ends
  <2> QED BY <1>2, <1>5, <2>1, <2>3, <2>4, <2>5, CallMoves DEF Cancelling
<1>6. CASE Open
  <2>1. /\ agent' = [lifecycle |-> "error", foreground |-> NoTurn, active |-> NoTurn,
                     replacing |-> FALSE, failed |-> TRUE, shown |-> "live"]
        /\ run' = NoRun
        /\ calls' = [Told(calls, TRUE, "failed", NoTurn) EXCEPT ![c].at = "failed",
                                                                ![c].replaces = FALSE]
    BY <1>6 DEF Refuse, Open, Gone, Over
  <2>2. /\ calls' \in [Calls -> Call] /\ calls'[c].at = "failed"
        /\ \A d \in Calls : /\ d # c => calls'[d].at = calls[d].at
                            /\ calls'[d].target = calls[d].target
                            /\ calls'[d].acked = calls[d].acked /\ calls'[d].told = calls[d].told
                            /\ calls[d].at \in Cancelling => calls'[d].settled
                            /\ calls[d].at \notin Cancelling => calls'[d].settled = calls[d].settled
    <3> SUFFICES ASSUME NEW r, ToldFailed(r, calls), Refused(calls', r, c)
                 PROVE  /\ calls' \in [Calls -> Call] /\ calls'[c].at = "failed"
                        /\ \A d \in Calls :
                            /\ d # c => calls'[d].at = calls[d].at
                            /\ calls'[d].target = calls[d].target
                            /\ calls'[d].acked = calls[d].acked /\ calls'[d].told = calls[d].told
                            /\ calls[d].at \in Cancelling => calls'[d].settled
                            /\ calls[d].at \notin Cancelling => calls'[d].settled = calls[d].settled
      BY <2>1 DEF Refused, ToldFailed
    <3>1. /\ r \in [Calls -> Call]
          /\ \A d \in Calls : /\ r[d].at = calls[d].at /\ r[d].target = calls[d].target
                              /\ r[d].acked = calls[d].acked /\ r[d].told = calls[d].told
                              /\ calls[d].at \in Cancelling => r[d].settled
                              /\ calls[d].at \notin Cancelling => r[d].settled = calls[d].settled
      BY <1>1, ToldAll
    <3>2. /\ calls' \in [Calls -> Call] /\ calls'[c].at = "failed"
          /\ calls'[c].target = r[c].target /\ calls'[c].acked = r[c].acked
          /\ calls'[c].told = r[c].told /\ calls'[c].settled = r[c].settled
          /\ \A d \in Calls : d # c => calls'[d] = r[d]
      BY <3>1, RefusedFacts
    <3>3. ASSUME NEW d \in Calls
          PROVE  /\ d # c => calls'[d].at = calls[d].at
                 /\ calls'[d].target = calls[d].target
                 /\ calls'[d].acked = calls[d].acked /\ calls'[d].told = calls[d].told
                 /\ calls[d].at \in Cancelling => calls'[d].settled
                 /\ calls[d].at \notin Cancelling => calls'[d].settled = calls[d].settled
      <4>1. CASE d = c
        BY <1>2, <3>1, <3>2, <4>1 DEF Cancelling
      <4>2. CASE d # c
        BY <3>1, <3>2, <4>2
      <4> QED BY <4>1, <4>2
    <3> QED BY <3>2, <3>3
  <2>3. /\ run.kind = "foreground" /\ run.call = c
        /\ \A d \in Calls : calls[d].at = "starting" => d = c
    BY <1>2, <1>6 DEF IInv, Prompting
  <2>4. /\ agent' \in Agent /\ agent'.lifecycle = "error" /\ agent'.foreground = NoTurn
        /\ agent'.active = NoTurn /\ ~agent'.replacing /\ agent'.shown = "live"
    BY <2>1 DEF Agent
  <2>5. /\ run' = NoRun /\ run' \in Run
        /\ run'.kind = "none" /\ run'.turn = NoTurn /\ run'.staged = <<>>
    BY <2>1, EmptySeq DEF NoRun, Run
  <2>6. Open' /\ queue' = <<>> /\ finalized' = finalized
    BY <1>1, <1>2, <2>4 DEF Open, Gone
  <2>7. TypeOK'
    <3>1. queue' \in Seq(Event) /\ finalized' \subseteq Calls
      BY <1>2 DEF IInv, TypeOK
    <3> QED BY <1>3, <2>2, <2>4, <2>5, <3>1 DEF TypeOK
  <2>8. RunFits' /\ Prompting'
    BY <2>2, <2>3, <2>4, <2>5, <2>6 DEF RunFits, NoneFits, Prompting
  <2>9. CallsFit'
    <3> SUFFICES ASSUME NEW d \in Calls PROVE CallFits(d)'
      BY DEF CallsFit
    <3>1. CallFits(d) /\ d \in Turns
      BY TurnsApart DEF IInv, CallsFit
    <3>2. CASE d = c
      BY <1>2, <1>3, <1>4, <2>2, <3>1, <3>2 DEF CallFits, Cancelling
    <3>3. CASE d # c
      BY <1>2, <1>3, <1>6, <2>2, <2>3, <3>1, <3>3 DEF CallFits, Cancelling
    <3> QED BY <3>2, <3>3
  <2>10. Finals'
    <3> SUFFICES ASSUME NEW d \in finalized PROVE FinalFits(d)'
      BY <2>6 DEF Finals
    <3>1. FinalFits(d) /\ d \in Calls /\ d \in Turns /\ d # NoTurn
      BY TurnsApart DEF IInv, Finals, TypeOK
    <3>2. d # c
      BY <1>2, <3>1 DEF FinalFits
    <3> QED BY <1>3, <2>2, <2>4, <3>1, <3>2 DEF FinalFits
  <2>11. Waiting'
    <3> SUFFICES ASSUME NEW d \in Calls, calls'[d].at \in Cancelling, NEW t, t = calls'[d].target
                 PROVE  calls'[d].settled /\ IsOver(t)'
      BY DEF Waiting
    <3>1. calls[d].at \in Cancelling /\ calls'[d].settled /\ t = calls[d].target
      BY <2>2 DEF Cancelling
    <3>2. CASE ~calls[d].settled
      <4>1. t = c
        BY <2>3, <3>1, <3>2 DEF IInv, Waiting, IsFor
      <4> QED BY <1>1, <2>2, <2>5, <3>1, <4>1, TurnsApart DEF IsOver
    <3>3. CASE calls[d].settled
      <4>1. IsOver(t)
        BY <1>6, <3>1, <3>3 DEF IInv, Waiting
      <4>2. t # c
        BY <1>2, <4>1 DEF IsOver
      <4> QED BY <1>3, <2>2, <2>5, <2>6, <3>1, <4>1, <4>2, EmptyInOrder, TurnsApart DEF IsOver
    <3> QED BY <3>2, <3>3
  <2>12. Queued'
    BY <2>5, <2>6, EmptyInOrder DEF Queued
  <2>13. Shown'
    BY <2>4, <2>5 DEF Shown
  <2> QED BY <2>7, <2>8, <2>9, <2>10, <2>11, <2>12, <2>13 DEF IInv
<1> QED BY <1>5, <1>6

----------------------------------------------------------------------------
(***************************************************************************)
(* The end of a cancellation, and of the agent                             *)
(***************************************************************************)

\* A replacement is given up: nothing is pending any more.
LEMMA GiveUpKeeps ==
  ASSUME IInv, NEW c \in Calls, calls[c].at \in Cancelling, Open => run.kind # "none",
         UNCHANGED <<run, finalized, queue, provider>>,
         agent' = [agent EXCEPT !.replacing = agent.replacing /\ Gone],
         calls' \in [Calls -> Call], \A d \in Calls : d # c => calls'[d] = calls[d],
         calls'[c].at = "failed", calls'[c].told \in {"settled", "refused"},
         calls'[c].target = calls[c].target, calls'[c].acked = calls[c].acked
  PROVE  IInv'
<1>1. /\ agent' \in Agent /\ agent'.lifecycle = agent.lifecycle
      /\ agent'.foreground = agent.foreground /\ agent'.active = agent.active
      /\ agent'.shown = agent.shown /\ agent'.replacing = (agent.replacing /\ Gone)
  <2> DEFINE replacing == agent.replacing /\ Gone
  <2>1. replacing \in BOOLEAN /\ agent \in Agent
    BY DEF IInv, TypeOK, Agent
  <2>2. agent' = [agent EXCEPT !.replacing = replacing]
    OBVIOUS
  <2> HIDE DEF replacing
  <2>3. /\ agent' \in Agent /\ agent'.lifecycle = agent.lifecycle
        /\ agent'.foreground = agent.foreground /\ agent'.active = agent.active
        /\ agent'.shown = agent.shown /\ agent'.replacing = replacing
    BY <2>1, <2>2 DEF Agent
  <2> QED BY <2>3 DEF replacing
<1>2. TypeOK' /\ Open' = Open
  BY <1>1 DEF IInv, TypeOK, Open, Gone
<1>3. RunFits'
  <2>1. run.kind = "foreground" => StartingFits' \/ StreamingFits'
    BY <1>1 DEF IInv, RunFits, StartingFits, StreamingFits, Cancelling
  <2>2. run.kind = "autonomous" => AutonomousFits'
    BY <1>1 DEF IInv, RunFits, AutonomousFits, OwnTurnFirst
  <2> QED BY <1>1, <1>2, <2>1, <2>2 DEF IInv, RunFits, NoneFits
<1>4. Prompting'
  BY <1>2 DEF IInv, Prompting
<1>5. CallsFit'
  <2> SUFFICES ASSUME NEW d \in Calls PROVE CallFits(d)'
    BY DEF CallsFit
  <2>1. CallFits(d)
    BY DEF IInv, CallsFit
  <2>2. CASE d = c
    BY <1>2, <2>1, <2>2 DEF CallFits, Cancelling
  <2>3. CASE d # c
    BY <1>2, <2>1, <2>3 DEF CallFits
  <2> QED BY <2>2, <2>3
<1>6. Finals'
  <2> SUFFICES ASSUME NEW d \in finalized PROVE FinalFits(d)'
    BY DEF Finals
  <2>1. FinalFits(d) /\ d \in Calls
    BY DEF IInv, Finals, TypeOK
  <2>2. d # c
    BY <2>1 DEF FinalFits, Cancelling
  <2>3. \A a \in Calls : calls'[a].acked = calls[a].acked /\ calls'[a].target = calls[a].target
    OBVIOUS
  <2> QED BY <1>1, <2>1, <2>2, <2>3 DEF FinalFits
<1>7. Waiting'
  <2> SUFFICES ASSUME NEW d \in Calls, calls'[d].at \in Cancelling, NEW t, t = calls'[d].target
               PROVE  /\ ~calls'[d].settled => IsFor(t)'
                      /\ calls'[d].settled /\ Open => IsOver(t)'
    BY <1>2 DEF Waiting
  <2>1. d # c
    BY DEF Cancelling
  <2>2. /\ ~calls'[d].settled => IsFor(t)
        /\ calls'[d].settled /\ Open => IsOver(t)
    BY <2>1 DEF IInv, Waiting
  <2>3. IsFor(t) => IsFor(t)'
    BY <1>2 DEF IsFor
  <2>4. IsOver(t) => IsOver(t)'
    <3> SUFFICES ASSUME IsOver(t) PROVE IsOver(t)'
      OBVIOUS
    <3>1. t \in Calls => calls'[t].at \in {"streaming", "done", "failed"}
      BY DEF IsOver
    <3> QED BY <3>1 DEF IsOver
  <2> QED BY <2>2, <2>3, <2>4
<1>8. Queued'
  BY <1>1, <1>2 DEF IInv, Queued
<1>9. Shown'
  BY <1>1 DEF IInv, Shown, RunFits, Open, Gone
<1> QED BY <1>2, <1>3, <1>4, <1>5, <1>6, <1>7, <1>8, <1>9 DEF IInv

\* cancelAgentRun ends for call c; a refusal is of a run that goes on.
LEMMA ReturnKeeps ==
  ASSUME IInv, NEW c \in Calls, calls[c].at \in {"settling", "forced"},
         NEW status \in {"settled", "refused"}, Return(c, status), UNCHANGED <<finalized, queue>>,
         Open /\ status = "refused" => run.kind # "none"
  PROVE  IInv'
<1>1. /\ calls \in [Calls -> Call] /\ calls[c] \in Call /\ CallFits(c) /\ calls[c].at \in Cancelling
      /\ agent \in Agent
  BY DEF IInv, TypeOK, CallsFit, Cancelling
<1>2. ASSUME NEW at \in {"done", "failed"},
             calls' = [calls EXCEPT ![c].at = at, ![c].settled = FALSE, ![c].told = status]
      PROVE  /\ calls' \in [Calls -> Call] /\ calls'[c].at = at /\ calls'[c].told = status
             /\ calls'[c].target = calls[c].target /\ calls'[c].acked = calls[c].acked
             /\ \A d \in Calls : d # c => calls'[d] = calls[d]
  <2> DEFINE new == [calls[c] EXCEPT !.at = at, !.settled = FALSE, !.told = status]
  <2>1. calls' = [calls EXCEPT ![c] = new]
    BY <1>2
  <2>2. /\ new \in Call /\ new.at = at /\ new.told = status
        /\ new.target = calls[c].target /\ new.acked = calls[c].acked
    BY <1>1 DEF Call
  <2> HIDE DEF new
  <2> QED BY <1>1, <2>1, <2>2
<1>3. CASE calls[c].kind = "stop"
  <2>1. /\ calls' = [calls EXCEPT ![c].at = "done", ![c].settled = FALSE, ![c].told = status]
        /\ UNCHANGED <<agent, run, provider>>
    BY <1>3 DEF Return
  <2>2. /\ calls' \in [Calls -> Call] /\ calls'[c].at = "done" /\ calls'[c].told = status
        /\ calls'[c].target = calls[c].target /\ calls'[c].acked = calls[c].acked
        /\ \A d \in Calls : d # c => calls'[d] = calls[d]
    BY <1>2, <2>1
  <2>3. CallFits(c)'
    BY <1>1, <2>1, <2>2 DEF CallFits, Open, Gone, Cancelling
  <2>4. run.kind = "foreground" => run.call # c
    BY <1>1 DEF IInv, RunFits, StartingFits, StreamingFits, Cancelling
  <2> QED BY <1>1, <1>3, <2>1, <2>2, <2>3, <2>4, CallMoves DEF Cancelling
<1>4. CASE calls[c].kind # "stop" /\ Open /\ status = "settled" /\ ~Busy
  <2>1. StreamAgent(c, "prompt")
    BY <1>4 DEF Return, Open, Gone
  <2> QED BY <1>1, <1>4, <2>1, StreamAgentKeeps
<1>5. CASE calls[c].kind # "stop" /\ ~(Open /\ status = "settled" /\ ~Busy)
  <2>1. /\ calls' = [calls EXCEPT ![c].at = "failed", ![c].settled = FALSE, ![c].told = status]
        /\ agent' = [agent EXCEPT !.replacing = agent.replacing /\ Gone]
        /\ UNCHANGED <<run, provider>>
    <3>1. calls[c].kind # "stop" /\ ~(~Gone /\ status = "settled" /\ ~Busy)
      BY <1>5 DEF Open
    <3> QED BY <3>1, Zenon DEF Return
  <2>2. /\ calls' \in [Calls -> Call] /\ calls'[c].at = "failed" /\ calls'[c].told = status
        /\ calls'[c].target = calls[c].target /\ calls'[c].acked = calls[c].acked
        /\ \A d \in Calls : d # c => calls'[d] = calls[d]
    BY <1>2, <2>1
  <2>3. Open => run.kind # "none"
    BY <1>5 DEF Busy, IInv, RunFits, NoneFits
  <2> QED BY <1>1, <2>1, <2>2, <2>3, GiveUpKeeps
<1> QED BY <1>3, <1>4, <1>5

LEMMA SettledKeeps ==
  ASSUME IInv, NEW c \in Calls, Settled(c)
  PROVE  IInv'
  BY ReturnKeeps DEF Settled

\* A call that waits for the run, and is to end it by itself, was for that run.
LEMMA WaitsFor ==
  ASSUME IInv, NEW c \in Calls, Drained, calls[c].at = "settling"
  PROVE  IsFor(calls[c].target)
<1>1. ~calls[c].settled
  BY DEF Drained
<1> QED BY <1>1 DEF IInv, Waiting, Cancelling

\* The call that waits as it ends the run by itself.
Forces(q, c, settled) == q = [calls EXCEPT ![c].at = "forced", ![c].settled = settled]

LEMMA ForcesFacts ==
  ASSUME calls \in [Calls -> Call], NEW c \in Calls, NEW settled \in BOOLEAN,
         NEW q, Forces(q, c, settled)
  PROVE  /\ q \in [Calls -> Call] /\ q[c].at = "forced"
         /\ \A d \in Calls : /\ q[d].kind = calls[d].kind /\ q[d].target = calls[d].target
                             /\ q[d].acked = calls[d].acked /\ q[d].replaces = calls[d].replaces
                             /\ q[d].told = calls[d].told
                             /\ d # c => q[d] = calls[d]
<1> DEFINE new == [calls[c] EXCEPT !.at = "forced", !.settled = settled]
<1>1. q = [calls EXCEPT ![c] = new]
  BY DEF Forces
<1>2. /\ new \in Call /\ new.at = "forced" /\ new.kind = calls[c].kind
      /\ new.target = calls[c].target /\ new.acked = calls[c].acked
      /\ new.replaces = calls[c].replaces /\ new.told = calls[c].told
  <2>1. calls[c] \in Call
    OBVIOUS
  <2> QED BY <2>1 DEF Call, Cancelling
<1> HIDE DEF new
<1> QED BY <1>1, <1>2

\* The manager ends the run by itself, whose interrupt was acknowledged.
LEMMA EndForcedKeeps ==
  ASSUME IInv, NEW c \in Calls, Drained, calls[c].at = "settling", calls[c].acked,
         run.turn # NoTurn \/ run.kind = "autonomous", EndForced(c), UNCHANGED queue
  PROVE  IInv'
<1>1. Open /\ run.kind # "none" /\ queue = <<>> /\ IsFor(calls[c].target)
  BY WaitsFor DEF IsFor, Drained
<1>2. /\ TypeOK /\ calls \in [Calls -> Call] /\ run \in Run /\ agent \in Agent
      /\ run.turn \in Turns \cup {NoTurn}
  BY DEF IInv, TypeOK, Run
<1>3. /\ run.kind = "foreground" => StreamingFits
      /\ run.kind = "autonomous" => AutonomousFits
      /\ run.kind \in {"foreground", "autonomous"}
  BY <1>1, <1>2 DEF IInv, RunFits, StartingFits, Run
<1> DEFINE mine == run.turn = NoTurn
           base == [calls EXCEPT ![c].at = "forced", ![c].settled = mine]
           e == [type |-> "canceled", turn |-> run.turn]
<1>4. End(e, base) /\ UNCHANGED provider
  BY DEF EndForced
<1>5. mine \in BOOLEAN
  OBVIOUS
<1>6. Forces(base, c, mine)
  BY DEF Forces
<1>7. e \in [type : Ends, turn : Turns \cup {NoTurn}] /\ e.type = "canceled" /\ e.turn = run.turn
      /\ e.type \in Ends
  BY <1>2 DEF Ends
<1> HIDE DEF mine, base, e
<1>8. /\ base \in [Calls -> Call] /\ base[c].at = "forced"
      /\ \A d \in Calls : /\ base[d].kind = calls[d].kind /\ base[d].target = calls[d].target
                          /\ base[d].acked = calls[d].acked
                          /\ base[d].replaces = calls[d].replaces /\ base[d].told = calls[d].told
                          /\ d # c => base[d] = calls[d]
  BY <1>2, <1>5, <1>6, ForcesFacts
<1> SUFFICES ASSUME NEW t, t = Identified(run.turn) PROVE IInv'
  OBVIOUS
<1>9. /\ t \in Turns \cup {NoTurn}
      /\ run.kind = "foreground" => t = run.call /\ t \in Calls /\ agent.foreground = t
      /\ run.kind = "autonomous" => t = agent.active /\ t \in Own \cup {NoTurn}
                                    /\ run.turn \in {NoTurn, t}
  BY <1>2, <1>3, TurnsApart DEF Identified, StreamingFits, AutonomousFits, Agent
<1>10. t \notin finalized /\ Settles(t) /\ ~Stale(t)
  <2>1. t \notin finalized
    BY <1>3, <1>9, TurnsApart DEF IInv, TypeOK, Finals, FinalFits
  <2>2. Settles(t) /\ ~Stale(t)
    BY <1>3, <1>9, TurnsApart DEF Settles, Stale, StreamingFits
  <2> QED BY <2>1, <2>2
<1>11. /\ agent' = AfterEnd("canceled", t) /\ run' = NoRun
       /\ finalized' = IF t # NoTurn /\ agent.foreground = t THEN finalized \cup {t} ELSE finalized
       /\ calls' = Told(base, Settles(t), "canceled", run.turn)
  BY <1>4, <1>7, <1>10 DEF End
<1>12. TypeOK'
  <2>1. agent' \in Agent /\ run' \in Run /\ finalized' \subseteq Calls /\ calls' \in [Calls -> Call]
    BY <1>2, <1>4, <1>7, <1>8, EndType
  <2> QED BY <1>2, <1>4, <2>1 DEF TypeOK
<1>13. /\ agent'.foreground = NoTurn /\ agent'.active = NoTurn
       /\ agent'.replacing = agent.replacing /\ agent'.shown = agent.shown
       /\ agent'.lifecycle \in {"idle", "error", "running"}
       /\ agent.replacing => agent'.lifecycle # "idle"
       /\ agent'.lifecycle = "running" => agent.replacing
  <2>1. /\ agent'.replacing = agent.replacing /\ agent'.shown = agent.shown
        /\ t # NoTurn /\ agent.foreground = t /\ ~Stale(t) =>
             /\ agent'.foreground = NoTurn /\ agent'.active = NoTurn
             /\ agent'.lifecycle \in {"idle", "error", "running"}
             /\ agent.replacing => agent'.lifecycle # "idle"
             /\ agent'.lifecycle = "running" => agent.replacing
        /\ agent.foreground = NoTurn /\ ~Stale(t) =>
             /\ agent'.foreground = NoTurn /\ agent'.active = NoTurn
             /\ \/ agent'.lifecycle = "error"
                \/ agent.replacing /\ agent'.lifecycle = agent.lifecycle
                \/ ~agent.replacing /\ agent'.lifecycle = "idle"
    <3>1. "canceled" \in Ends
      BY DEF Ends
    <3> QED BY <1>2, <1>9, <1>11, <3>1, AfterEndFacts
  <2>2. agent.replacing => agent.lifecycle # "idle"
    BY DEF IInv, Shown
  <2>3. agent.lifecycle \in {"idle", "running", "error"}
    BY <1>1, <1>2 DEF Agent, Open, Gone
  <2>4. CASE run.kind = "foreground"
    BY <1>9, <1>10, <2>1, <2>4, TurnsApart
  <2>5. CASE run.kind = "autonomous"
    BY <1>3, <1>10, <2>1, <2>2, <2>3, <2>5 DEF AutonomousFits
  <2> QED BY <1>3, <2>4, <2>5
<1>14. \A d \in Calls :
         /\ calls'[d].kind = base[d].kind /\ calls'[d].at = base[d].at
         /\ calls'[d].target = base[d].target /\ calls'[d].acked = base[d].acked
         /\ calls'[d].replaces = base[d].replaces
         /\ Settles(t) /\ base[d].at \in Cancelling => calls'[d].settled
         /\ ~Settles(t) \/ base[d].at \notin Cancelling => calls'[d].settled = base[d].settled
         /\ d = run.turn /\ base[d].at = "streaming" => calls'[d].told = "canceled"
         /\ d # run.turn \/ base[d].at # "streaming" => calls'[d].told = base[d].told
  <2>1. Settles(t) \in BOOLEAN /\ "canceled" \in {"none"} \cup Ends
    BY DEF Settles, Ends
  <2> QED BY <1>8, <1>11, <2>1, ToldFacts
<1>15. \A d \in Calls :
         /\ calls'[d].kind = calls[d].kind /\ calls'[d].target = calls[d].target
         /\ calls'[d].replaces = calls[d].replaces /\ calls'[d].acked = calls[d].acked
         /\ \/ calls'[d].at = calls[d].at
            \/ calls[d].at \in Cancelling /\ calls'[d].at \in Cancelling \ {"interrupting"}
         /\ calls[d].at \in Cancelling => calls'[d].settled
         /\ calls[d].at = "unused" /\ calls'[d].settled => calls[d].settled
         /\ \/ calls'[d].told = calls[d].told
            \/ /\ calls[d].at = "streaming"
               /\ calls'[d].told \in {"completed", "failed"} => provider[d] = calls'[d].told
  <2> SUFFICES ASSUME NEW d \in Calls
               PROVE  /\ \/ calls'[d].at = calls[d].at
                         \/ /\ calls[d].at \in Cancelling
                            /\ calls'[d].at \in Cancelling \ {"interrupting"}
                      /\ calls[d].at \in Cancelling => calls'[d].settled
                      /\ calls[d].at = "unused" /\ calls'[d].settled => calls[d].settled
                      /\ \/ calls'[d].told = calls[d].told
                         \/ calls[d].at = "streaming" /\ calls'[d].told = "canceled"
    BY <1>8, <1>14
  <2>1. CASE d = c
    BY <1>8, <1>10, <1>14, <2>1 DEF Cancelling
  <2>2. CASE d # c
    BY <1>8, <1>10, <1>14, <2>2 DEF Cancelling
  <2> QED BY <2>1, <2>2
<1>16. /\ run.kind = "foreground" => run.call \in finalized'
       /\ finalized \subseteq finalized'
       /\ \A d \in finalized' : d \in finalized \/ (run.kind = "foreground" /\ d = run.call)
  BY <1>3, <1>9, <1>11, TurnsApart DEF AutonomousFits
<1>17. run.kind = "foreground" => \E d \in Calls : calls[d].acked /\ calls[d].target = run.call
  BY <1>1 DEF IsFor
<1>18. \A d \in finalized' : \/ d \in finalized
                             \/ /\ run.kind = "foreground" /\ d = run.call
                                /\ provider[d] \notin Ends =>
                                     \E a \in Calls : calls[a].acked /\ calls[a].target = d
  BY <1>16, <1>17
<1>19. /\ provider' = provider /\ queue' = queue /\ (run.turn # NoTurn => ~Starts(queue', run.turn))
  BY <1>1, <1>4, EmptyInOrder
<1> QED BY <1>1, <1>11, <1>12, <1>13, <1>15, <1>16, <1>18, <1>19, RunEnds

LEMMA TimesOutKeeps ==
  ASSUME IInv, NEW c \in Calls, TimesOut(c)
  PROVE  IInv'
<1>1. Drained /\ calls[c].at = "settling" /\ UNCHANGED queue
  BY DEF TimesOut
<1>2. run.kind # "none"
  BY <1>1, WaitsFor DEF IsFor
<1>3. CASE ~calls[c].acked
  BY <1>1, <1>2, <1>3, ReturnKeeps DEF TimesOut
<1>4. CASE calls[c].acked /\ (run.turn # NoTurn \/ run.kind = "autonomous")
  BY <1>1, <1>4, EndForcedKeeps DEF TimesOut
<1>5. CASE calls[c].acked /\ ~(run.turn # NoTurn \/ run.kind = "autonomous")
  BY <1>1, <1>5, ReturnKeeps DEF TimesOut
<1> QED BY <1>3, <1>4, <1>5

\* The agent is closed: the run is gone, and every call that waits for it is told.
LEMMA CloseKeeps ==
  ASSUME IInv, Close
  PROVE  IInv'
<1>1. /\ calls \in [Calls -> Call] /\ \A d \in Calls : calls[d] \in Call
      /\ queue = <<>> /\ UNCHANGED <<finalized, queue, provider>>
  BY DEF IInv, TypeOK, Close, Drained
<1>2. /\ agent' \in Agent /\ agent'.lifecycle = agent.lifecycle
      /\ agent'.foreground = agent.foreground /\ agent'.replacing = agent.replacing
      /\ agent'.shown = "closing"
  BY DEF Close, IInv, TypeOK, Agent
<1>3. run' = NoRun /\ run' \in Run /\ run'.turn = NoTurn /\ run'.staged = <<>>
  BY EmptySeq DEF Close, NoRun, Run
<1>4. ASSUME NEW d \in Calls
      PROVE  /\ calls'[d] \in Call
             /\ calls'[d].kind = calls[d].kind /\ calls'[d].at = calls[d].at
             /\ calls'[d].target = calls[d].target /\ calls'[d].acked = calls[d].acked
             /\ calls[d].at \in Cancelling => calls'[d].settled
             /\ calls[d].at = "unused" => calls'[d].settled = calls[d].settled
             /\ \/ calls'[d].told = calls[d].told
                \/ calls[d].at = "streaming" /\ calls'[d].told = "canceled"
  <2> DEFINE settled == calls[d].settled \/ calls[d].at \in Cancelling
             told == IF calls[d].at = "streaming" THEN "canceled" ELSE calls[d].told
  <2>1. calls'[d] = [calls[d] EXCEPT !.settled = settled, !.told = told]
    BY Zenon DEF Close
  <2>2. /\ settled \in BOOLEAN /\ (calls[d].at \in Cancelling => settled)
        /\ calls[d].at = "unused" => settled = calls[d].settled
    BY <1>1 DEF Call, Cancelling
  <2>3. /\ told \in {"none", "settled", "refused"} \cup Ends
        /\ \/ told = calls[d].told
           \/ calls[d].at = "streaming" /\ told = "canceled"
    BY <1>1 DEF Call, Ends
  <2>4. calls[d] \in Call
    BY <1>1
  <2> HIDE DEF settled, told
  <2>5. /\ calls'[d] \in Call /\ calls'[d].settled = settled /\ calls'[d].told = told
        /\ calls'[d].kind = calls[d].kind /\ calls'[d].at = calls[d].at
        /\ calls'[d].target = calls[d].target /\ calls'[d].acked = calls[d].acked
    BY <2>1, <2>2, <2>3, <2>4 DEF Call
  <2> QED BY <2>2, <2>3, <2>5
<1>5. calls' \in [Calls -> Call]
  <2>1. calls' = [d \in Calls |-> calls'[d]]
    BY Zenon DEF Close
  <2> QED BY <1>4, <2>1
<1>6. TypeOK' /\ ~Open'
  BY <1>1, <1>2, <1>3, <1>5 DEF IInv, TypeOK, Open, Gone
<1>7. RunFits' /\ Prompting' /\ Queued'
  BY <1>2, <1>3, <1>6 DEF RunFits, NoneFits, NoRun, Prompting, Queued
<1>8. CallsFit'
  <2> SUFFICES ASSUME NEW d \in Calls PROVE CallFits(d)'
    BY DEF CallsFit
  <2>1. CallFits(d)
    BY DEF IInv, CallsFit
  <2> QED BY <1>1, <1>4, <1>6, <2>1 DEF CallFits
<1>9. Finals'
  <2> SUFFICES ASSUME NEW d \in finalized PROVE FinalFits(d)'
    BY <1>1 DEF Finals
  <2>1. FinalFits(d) /\ d \in Calls /\ d # NoTurn
    BY TurnsApart DEF IInv, Finals, TypeOK
  <2>2. \A a \in Calls : calls'[a].acked = calls[a].acked /\ calls'[a].target = calls[a].target
    BY <1>4
  <2> QED BY <1>1, <1>2, <1>4, <2>1, <2>2 DEF FinalFits
<1>10. Waiting'
  BY <1>4, <1>6 DEF Waiting
<1>11. Shown'
  BY <1>2, <1>3, <1>6 DEF IInv, Shown
<1> QED BY <1>6, <1>7, <1>8, <1>9, <1>10, <1>11 DEF IInv

\* Nothing depends on when the closed copy is shown.
LEMMA ClosedKeeps ==
  ASSUME IInv, Closed
  PROVE  IInv'
<1>1. /\ agent' = [agent EXCEPT !.shown = "closed"] /\ agent.shown = "closing"
      /\ UNCHANGED <<run, finalized, queue, calls, provider>>
  BY DEF Closed
<1>2. /\ agent' \in Agent /\ agent'.lifecycle = agent.lifecycle
      /\ agent'.foreground = agent.foreground /\ agent'.replacing = agent.replacing
      /\ agent'.shown = "closed"
  BY <1>1 DEF IInv, TypeOK, Agent
<1>3. TypeOK' /\ ~Open /\ ~Open' /\ run = NoRun /\ run' = NoRun
  BY <1>1, <1>2 DEF IInv, TypeOK, RunFits, Open, Gone
<1>4. RunFits' /\ Prompting' /\ Queued'
  BY <1>3 DEF RunFits, NoRun, Prompting, Queued
<1>5. CallsFit' /\ Finals'
  BY <1>1, <1>2, <1>3 DEF IInv, CallsFit, CallFits, Finals, FinalFits
<1>6. Waiting'
  BY <1>1, <1>3 DEF IInv, Waiting, IsFor
<1>7. Shown'
  BY <1>1, <1>2, <1>3 DEF IInv, Shown
<1> QED BY <1>3, <1>4, <1>5, <1>6, <1>7 DEF IInv

----------------------------------------------------------------------------
(***************************************************************************)
(* The provider                                                            *)
(***************************************************************************)

\* The provider tells an event of turn t, which is staged or queued.
LEMMA SaysKeeps ==
  ASSUME IInv, NEW e \in Event, NEW t \in Turns, t = e.turn, NEW to \in Progress, Says(e, to),
         to \notin {"none", "asked"}, provider[t] \in {"none", "asked", "announced"},
         t \in Calls => provider[t] # "none",
         to \in Ends \/ t \notin finalized,
         e.type = "started" /\ t \in Own => provider[t] = "none",
         e.type = "started" /\ t \in Calls => run.kind = "foreground" /\ run.call = t,
         e.type = "started" /\ t \in Own => \A u \in Turns : provider[u] # "asked",
         run.kind = "autonomous" /\ agent.active # NoTurn => e.type \in Ends /\ t = agent.active,
         \A r : Longer(r, queue, e) => InOrder(r, provider'),
         \A r : Longer(r, run.staged, e) => InOrder(r, provider')
  PROVE  IInv'
<1>1. /\ queue = <<>> /\ Open /\ UNCHANGED <<agent, finalized, calls>> /\ Enqueue(e)
      /\ provider' = [provider EXCEPT ![t] = to]
  BY DEF Says, Drained, Open, Gone
<1>2. /\ run \in Run /\ run.staged \in Seq(Event) /\ queue \in Seq(Event)
      /\ provider \in [Turns -> Progress]
  BY DEF IInv, TypeOK, Run
<1>3. /\ provider' \in [Turns -> Progress] /\ provider'[t] = to
      /\ \A u \in Turns : u # t => provider'[u] = provider[u]
  BY <1>1, <1>2
<1>4. Open' /\ finalized' = finalized /\ calls' = calls /\ agent' = agent
  BY <1>1 DEF Open, Gone
<1> DEFINE starting == run.kind = "foreground" /\ run.turn = NoTurn
<1>5. /\ starting => /\ run' = [run EXCEPT !.staged = Append(run.staged, e)]
                     /\ queue' = queue
      /\ ~starting => run' = run /\ queue' = Append(queue, e)
  BY <1>1 DEF Enqueue
<1>6. /\ run'.kind = run.kind /\ run'.call = run.call /\ run'.turn = run.turn /\ run' \in Run
      /\ starting => run'.staged = Append(run.staged, e) /\ queue' = <<>>
      /\ ~starting => /\ run' = run /\ run.staged = <<>> /\ run'.staged = <<>>
                      /\ queue' = Append(queue, e)
  <2>1. Append(run.staged, e) \in Seq(Event)
    BY <1>2, AppendStarts
  <2>2. ~starting => run.staged = <<>>
    BY DEF IInv, RunFits
  <2> QED BY <1>1, <1>2, <1>5, <2>1, <2>2 DEF Run
<1>7. ASSUME NEW s \in Seq(Event)
      PROVE  /\ Append(s, e) \in Seq(Event) /\ Append(s, e) # <<>>
             /\ \A u : Starts(Append(s, e), u) => Starts(s, u) \/ (e.type = "started" /\ t = u)
             /\ \A T : StartsOnly(s, T) /\ (e.type = "started" => t \in T) =>
                  StartsOnly(Append(s, e), T)
             /\ EndsInOwn(Append(s, e)) => e.type = "started" /\ t \in Own
             /\ Longer(Append(s, e), s, e)
  BY AppendStarts, AppendLonger
<1> HIDE DEF starting
<1>8. TypeOK'
  <2>1. queue' \in Seq(Event)
    BY <1>2, <1>6, <1>7, EmptySeq
  <2> QED BY <1>3, <1>4, <1>6, <2>1 DEF IInv, TypeOK
<1>9. RunFits'
  <2>1. run'.kind = "none" => NoneFits'
    BY <1>1, <1>4, <1>6 DEF starting, IInv, RunFits, NoneFits
  <2>2. run'.kind = "foreground" => StartingFits' \/ StreamingFits'
    BY <1>4, <1>6 DEF IInv, RunFits, StartingFits, StreamingFits
  <2>3. run'.kind = "autonomous" => AutonomousFits'
    <3> SUFFICES ASSUME run.kind = "autonomous" PROVE AutonomousFits'
      BY <1>6
    <3>1. AutonomousFits /\ ~starting
      BY DEF IInv, RunFits, starting
    <3>2. ASSUME agent.active # NoTurn, NEW a, a = agent.active PROVE OwnTurnFirst(a)'
      <4>1. e.type \in Ends /\ t = a
        BY <3>2
      <4>2. queue' # <<>> /\ queue'[1] = e
        <5>1. Longer(queue', queue, e) /\ queue' # <<>>
          BY <1>2, <1>6, <1>7, <3>1
        <5>2. Len(queue) = 0
          BY <1>1, EmptySeq
        <5> QED BY <5>1, <5>2 DEF Longer
      <4> QED BY <4>1, <4>2 DEF OwnTurnFirst
    <3> QED BY <1>4, <1>6, <3>1, <3>2 DEF AutonomousFits
  <2>4. run'.staged # <<>> => run'.kind = "foreground" /\ run'.turn = NoTurn /\ queue' = <<>>
    BY <1>6 DEF starting
  <2> QED BY <1>4, <1>6, <2>1, <2>2, <2>3, <2>4 DEF RunFits
<1>10. Prompting'
  BY <1>4, <1>6 DEF IInv, Prompting, Open, Gone
<1>11. CallsFit'
  <2> SUFFICES ASSUME NEW d \in Calls PROVE CallFits(d)'
    BY DEF CallsFit
  <2>1. CallFits(d) /\ d \in Turns
    BY TurnsApart DEF IInv, CallsFit
  <2>2. CASE d = t
    BY <1>3, <1>4, <1>6, <2>1, <2>2 DEF CallFits
  <2>3. CASE d # t
    BY <1>1, <1>3, <1>4, <1>6, <2>1, <2>3 DEF CallFits
  <2> QED BY <2>2, <2>3
<1>12. Finals'
  <2> SUFFICES ASSUME NEW d \in finalized PROVE FinalFits(d)'
    BY <1>4 DEF Finals
  <2>1. FinalFits(d) /\ d \in Calls /\ d \in Turns
    BY TurnsApart DEF IInv, Finals, TypeOK
  <2>2. CASE d = t
    BY <1>3, <1>4, <2>1, <2>2 DEF FinalFits
  <2>3. CASE d # t
    BY <1>3, <1>4, <2>1, <2>3 DEF FinalFits
  <2> QED BY <2>2, <2>3
<1>13. Waiting'
  <2> SUFFICES ASSUME NEW d \in Calls, calls[d].at \in Cancelling, NEW g, g = calls[d].target
               PROVE  /\ ~calls[d].settled => IsFor(g)'
                      /\ calls[d].settled => IsOver(g)'
    BY <1>4 DEF Waiting
  <2>1. /\ ~calls[d].settled => IsFor(g)
        /\ calls[d].settled => IsOver(g)
    BY <1>1 DEF IInv, Waiting
  <2>2. IsFor(g) => IsFor(g)'
    BY <1>4, <1>6 DEF IsFor
  <2>3. IsOver(g) => IsOver(g)'
    <3> SUFFICES ASSUME IsOver(g) PROVE IsOver(g)'
      OBVIOUS
    <3>1. g \in Calls => calls'[g].at \in {"streaming", "done", "failed"} /\ run'.turn # g
      BY <1>4, <1>6 DEF IsOver
    <3>2. ASSUME g \in Own
          PROVE  /\ provider'[g] # "none" /\ run'.turn # g
                 /\ ~Starts(queue', g) /\ ~Starts(run'.staged, g)
      <4>1. /\ provider[g] # "none" /\ run.turn # g /\ g \in Turns
            /\ ~Starts(queue, g) /\ ~Starts(run.staged, g)
        BY <3>2, TurnsApart DEF IsOver
      <4>2. ~(e.type = "started" /\ t = g)
        BY <3>2, <4>1
      <4>3. provider'[g] # "none" /\ run'.turn # g
        BY <1>3, <1>6, <4>1
      <4>4. ~Starts(Append(queue, e), g) /\ ~Starts(Append(run.staged, e), g)
        BY <1>2, <1>7, <4>1, <4>2
      <4>5. CASE starting
        BY <1>6, <4>3, <4>4, <4>5, EmptyInOrder
      <4>6. CASE ~starting
        BY <1>6, <4>3, <4>4, <4>6, EmptyInOrder
      <4> QED BY <4>5, <4>6
    <3> QED BY <3>1, <3>2 DEF IsOver
  <2> QED BY <2>1, <2>2, <2>3
<1>14. Queued'
  <2>1. /\ StartsOnly(queue, Own \cup {agent.foreground})
        /\ StartsOnly(run.staged, Own \cup {run.call})
    BY <1>1 DEF IInv, Queued
  <2>2. e.type = "started" /\ t \in Own => \A u \in Turns : provider'[u] # "asked"
    BY <1>3
  <2>3. CASE starting
    <3>1. InOrder(run'.staged, provider')
      BY <1>2, <1>6, <1>7, <2>3
    <3>2. e.type = "started" => t \in Own \cup {run.call}
      BY TurnsApart
    <3>3. StartsOnly(run'.staged, Own \cup {run'.call})
      BY <1>2, <1>6, <1>7, <2>1, <2>3, <3>2
    <3>4. EndsInOwn(run'.staged) => \A u \in Turns : provider'[u] # "asked"
      BY <1>2, <1>6, <1>7, <2>2, <2>3
    <3> QED BY <1>6, <2>3, <3>1, <3>3, <3>4, EmptyInOrder DEF Queued
  <2>4. CASE ~starting
    <3>1. InOrder(queue', provider')
      BY <1>2, <1>6, <1>7, <2>4
    <3>2. e.type = "started" => t \in Own \cup {agent.foreground}
      BY <2>4, TurnsApart DEF starting, IInv, RunFits, StartingFits, StreamingFits
    <3>3. StartsOnly(queue', Own \cup {agent'.foreground})
      BY <1>2, <1>4, <1>6, <1>7, <2>1, <2>4, <3>2
    <3>4. EndsInOwn(queue') => \A u \in Turns : provider'[u] # "asked"
      BY <1>2, <1>6, <1>7, <2>2, <2>4
    <3> QED BY <1>6, <2>4, <3>1, <3>3, <3>4, EmptyInOrder DEF Queued
  <2> QED BY <2>3, <2>4
<1>15. Shown'
  BY <1>1, <1>4, <1>6 DEF IInv, Shown, Replaces
<1> QED BY <1>8, <1>9, <1>10, <1>11, <1>12, <1>13, <1>14, <1>15 DEF IInv

LEMMA AnnounceKeeps ==
  ASSUME IInv, NEW t \in Turns, Announce(t)
  PROVE  IInv'
<1>1. /\ queue = <<>> /\ Open /\ provider' = [provider EXCEPT ![t] = "announced"]
      /\ Says([type |-> "started", turn |-> t], "announced")
  BY DEF Announce, Says, Drained, Open, Gone
<1>2. /\ provider \in [Turns -> Progress] /\ run.staged \in Seq(Event) /\ queue \in Seq(Event)
      /\ InOrder(queue, provider) /\ InOrder(run.staged, provider)
  BY <1>1 DEF IInv, TypeOK, Run, Queued
<1>3. /\ provider' \in [Turns -> Progress] /\ provider'[t] = "announced"
      /\ \A u \in Turns : u # t => provider'[u] = provider[u]
  BY <1>1, <1>2 DEF Progress
<1>4. \/ t \in Calls /\ t \notin Own /\ provider[t] = "asked" /\ t \notin finalized
      \/ /\ t \in Own /\ t \notin Calls /\ provider[t] = "none"
         /\ \A u \in Turns : provider[u] \notin {"asked", "announced"}
  BY TurnsApart DEF Announce
<1>5. t \in Calls => run.kind = "foreground" /\ run.call = t
  BY <1>1, <1>4 DEF IInv, CallsFit, CallFits
<1>6. ~EndsInOwn(queue) /\ ~EndsInOwn(run.staged)
  <2>1. ~EndsInOwn(queue)
    BY <1>1, EmptyInOrder
  <2>2. CASE t \in Calls
    BY <1>1, <1>4, <2>1, <2>2 DEF IInv, Queued
  <2>3. CASE t \in Own
    <3> SUFFICES ASSUME EndsInOwn(run.staged) PROVE FALSE
      BY <2>1
    <3>1. Len(run.staged) \in 1..Len(run.staged)
      BY <1>2, EmptySeq DEF EndsInOwn
    <3>2. EventInOrder(run.staged, provider, Len(run.staged))
      BY <1>2, <3>1 DEF InOrder
    <3>3. run.staged[Len(run.staged)].turn \in Turns
      BY TurnsApart DEF EndsInOwn
    <3> QED BY <1>4, <2>3, <3>2, <3>3 DEF EndsInOwn, EventInOrder
  <2> QED BY <1>4, <2>2, <2>3
<1>7. [type |-> "started", turn |-> t] \in Event
  BY DEF Event
<1> SUFFICES ASSUME NEW e \in Event, e = [type |-> "started", turn |-> t] PROVE IInv'
  BY <1>7, Zenon
<1>8. e.type = "started" /\ e.turn = t /\ Says(e, "announced") /\ "started" \notin Ends
  BY <1>1 DEF Ends
<1>9. t \in Own => \A u \in Turns : provider[u] # "announced"
  BY <1>4
<1>10. provider[t] \in {"none", "asked"}
  BY <1>4
<1>11. ASSUME NEW s \in Seq(Event), InOrder(s, provider), ~EndsInOwn(s), NEW r, Longer(r, s, e)
       PROVE  InOrder(r, provider')
  BY <1>2, <1>3, <1>8, <1>9, <1>10, <1>11, AnnounceInOrder
<1>12. run.kind = "autonomous" => agent.active = NoTurn
  <2> SUFFICES ASSUME run.kind = "autonomous", agent.active # NoTurn PROVE FALSE
    OBVIOUS
  <2>1. agent.active \in Own /\ agent.active \in Turns /\ provider[agent.active] = "announced"
    BY <1>1, TurnsApart DEF IInv, RunFits, AutonomousFits, OwnTurnFirst
  <2> QED BY <1>4, <1>5, <2>1
<1>13. "announced" \in Progress /\ "announced" \notin {"none", "asked"}
  BY DEF Progress
<1>14. /\ \A r : Longer(r, queue, e) => InOrder(r, provider')
       /\ \A r : Longer(r, run.staged, e) => InOrder(r, provider')
  BY <1>2, <1>6, <1>11
<1>15. /\ t \in Calls => provider[t] # "none"
       /\ t \notin finalized
       /\ t \in Own => provider[t] = "none" /\ \A u \in Turns : provider[u] # "asked"
  <2>1. t \in finalized => t \in Calls
    BY DEF IInv, TypeOK
  <2> QED BY <1>4, <2>1
<1>16. t = e.turn /\ provider[t] \in {"none", "asked", "announced"}
  BY <1>8, <1>10
<1> QED BY <1>5, <1>8, <1>12, <1>13, <1>14, <1>15, <1>16, SaysKeeps

LEMMA FinishKeeps ==
  ASSUME IInv, NEW t \in Turns, Finish(t)
  PROVE  IInv'
<1>1. PICK type \in Ends : Says([type |-> type, turn |-> t], type)
  BY DEF Finish
<1>2. /\ queue = <<>> /\ Open /\ provider' = [provider EXCEPT ![t] = type]
      /\ provider[t] = "announced"
  BY <1>1 DEF Finish, Says, Drained, Open, Gone
<1>3. /\ provider \in [Turns -> Progress] /\ run.staged \in Seq(Event) /\ queue \in Seq(Event)
      /\ InOrder(queue, provider) /\ InOrder(run.staged, provider)
  BY <1>2 DEF IInv, TypeOK, Run, Queued
<1>4. /\ provider' \in [Turns -> Progress] /\ provider'[t] = type
      /\ \A u \in Turns : u # t => provider'[u] = provider[u]
  BY <1>2, <1>3 DEF Progress
<1>5. [type |-> type, turn |-> t] \in Event
  BY DEF Event
<1> SUFFICES ASSUME NEW e \in Event, e = [type |-> type, turn |-> t] PROVE IInv'
  BY <1>5, Zenon
<1>6. e.type = type /\ e.turn = t /\ Says(e, type) /\ e.type # "started"
  BY <1>1 DEF Ends
<1>7. ASSUME NEW s \in Seq(Event), InOrder(s, provider), NEW r, Longer(r, s, e)
      PROVE  InOrder(r, provider')
  BY <1>2, <1>3, <1>4, <1>6, <1>7, FinishInOrder
<1>8. run.kind = "autonomous" /\ agent.active # NoTurn => t = agent.active
  BY <1>2, TurnsApart DEF IInv, RunFits, AutonomousFits, OwnTurnFirst
<1>9. /\ \A r : Longer(r, queue, e) => InOrder(r, provider')
      /\ \A r : Longer(r, run.staged, e) => InOrder(r, provider')
  BY <1>3, <1>7
<1>10. type \in Progress /\ type \notin {"none", "asked"} /\ type \in Ends
  BY DEF Progress, Ends
<1>11. /\ t = e.turn /\ provider[t] \in {"none", "asked", "announced"} /\ provider[t] # "none"
       /\ e.type \in Ends
  BY <1>2, <1>6, <1>10
<1> QED BY <1>6, <1>8, <1>9, <1>10, <1>11, SaysKeeps

----------------------------------------------------------------------------
(***************************************************************************)
(* The theorems                                                            *)
(***************************************************************************)

LEMMA NextKeeps ==
  ASSUME IInv, [Next]_vars
  PROVE  IInv'
<1>1. CASE Dispatch
  BY <1>1, DispatchKeeps
<1>2. CASE \E c \in Calls : RunAgent(c) \/ Prompt(c) \/ Stop(c) \/ Manage(c)
  BY <1>2, RunAgentKeeps, PromptKeeps, StopKeeps, AcceptKeeps, RefuseKeeps, StreamEndsKeeps,
     InterruptedKeeps, SettledKeeps, TimesOutKeeps DEF Manage
<1>3. CASE Close \/ Closed
  BY <1>3, CloseKeeps, ClosedKeeps
<1>4. CASE \E t \in Turns : Announce(t) \/ Finish(t)
  BY <1>4, AnnounceKeeps, FinishKeeps
<1>5. CASE UNCHANGED vars
  BY <1>5 DEF vars, IInv, TypeOK, RunFits, NoneFits, StartingFits, StreamingFits, AutonomousFits,
     OwnTurnFirst, Prompting, CallsFit, CallFits, Finals, FinalFits, Waiting, IsFor, IsOver,
     Queued, Shown, Replaces, Open, Gone
<1> QED BY <1>1, <1>2, <1>3, <1>4, <1>5 DEF Next

\* The run, the agent, the calls and the events agree in every state.
THEOREM Invariance == Spec => []IInv
<1>1. IInv /\ [Next]_vars => IInv'
  BY NextKeeps
<1> QED BY InitIInv, <1>1, PTL DEF Spec

\* The agent has one run: the turn in the foreground is the run's, a stream is told of its
\* own turn, and a turn is ended without the provider only by an acknowledged interrupt.
THEOREM RunIsOne == Spec => []OneRun
<1>1. IInv => OneRun
  <2> SUFFICES ASSUME IInv PROVE OneRun
    OBVIOUS
  <2>1. ASSUME Open, NEW c \in Calls, calls[c].at = "starting"
        PROVE  run.call = c /\ run.turn = NoTurn /\ agent.foreground = NoTurn
    BY <2>1 DEF IInv, Prompting, RunFits, StartingFits, StreamingFits
  <2>2. ASSUME Open, agent.foreground # NoTurn
        PROVE  run.turn = agent.foreground /\ agent.active = agent.foreground
    BY <2>2 DEF IInv, TypeOK, Run, RunFits, NoneFits, StartingFits, StreamingFits, AutonomousFits
  <2>3. ASSUME NEW c \in Calls
        PROVE  /\ calls[c].told \in {"completed", "failed"} => provider[c] = calls[c].told
               /\ c \in finalized /\ provider[c] \notin Ends =>
                    \E d \in Calls : calls[d].acked /\ calls[d].target = c
    BY DEF IInv, CallsFit, CallFits, Finals, FinalFits
  <2> QED BY <2>1, <2>2, <2>3 DEF OneRun, Open, Gone
<1> QED BY Invariance, <1>1, PTL

\* What the agent shows is true.
THEOREM ShownIsTrue == Spec => []LifecycleHonest
<1>1. IInv => LifecycleHonest
  BY DEF IInv, Shown, LifecycleHonest, Open, Gone
<1> QED BY Invariance, <1>1, PTL

----------------------------------------------------------------------------
(***************************************************************************)
(* A cancellation that is settled                                          *)
(***************************************************************************)

\* Call d is not told in this step that its cancellation is settled.
Untold(d) == calls'[d].at # "starting" /\ calls'[d].told # "settled"

\* An end tells it to no call.
LEMMA EndTells ==
  ASSUME TypeOK, NEW base \in [Calls -> Call], NEW e \in [type : Ends,
  turn : Turns \cup {NoTurn}],
         End(e, base), NEW d \in Calls, base[d].at \in Cancelling, base[d].told # "settled"
  PROVE  Untold(d)
<1> SUFFICES ASSUME NEW t, t = Identified(e.turn) PROVE Untold(d)
  OBVIOUS
<1>1. CASE t \in finalized
  BY <1>1 DEF End, Untold, Cancelling
<1>2. CASE t \notin finalized
  <2>1. calls' = Told(base, Settles(t), e.type, e.turn)
    BY <1>2 DEF End
  <2>2. Settles(t) \in BOOLEAN /\ e.type \in {"none"} \cup Ends
    BY DEF Settles
  <2>3. /\ calls'[d].at = base[d].at
        /\ d # e.turn \/ base[d].at # "streaming" => calls'[d].told = base[d].told
    BY <2>1, <2>2, ToldFacts
  <2> QED BY <2>3 DEF Untold, Cancelling
<1> QED BY <1>1, <1>2

\* Nor does anything but the end of the wait itself.
LEMMA OthersUntold ==
  ASSUME IInv, NEW d \in Calls, calls[d].at \in Cancelling, Next,
         ~Settled(d), ~TimesOut(d)
  PROVE  Untold(d)
<1>1. /\ TypeOK /\ calls \in [Calls -> Call] /\ calls[d] \in Call /\ calls[d].told = "none"
      /\ calls[d].at \notin {"unused", "starting", "streaming"}
  BY DEF IInv, TypeOK, CallsFit, CallFits, Cancelling
<1>2. calls'[d] = calls[d] => Untold(d)
  BY <1>1 DEF Untold
<1>3. CASE Dispatch
  <2>1. CASE calls' = calls
    BY <1>2, <2>1
  <2>2. CASE Open /\ Head(queue).type # "started"
    <3>1. queue # <<>> /\ End(Head(queue), calls)
      BY <1>3, <2>2 DEF Dispatch, Open, Gone
    <3>2. Head(queue) \in [type : Ends, turn : Turns \cup {NoTurn}]
      BY <2>2, <3>1, NextFits DEF Event
    <3> QED BY <1>1, <3>1, <3>2, EndTells
  <2> QED BY <1>3, <2>1, <2>2 DEF Dispatch, Open, Gone, Start
<1>4. ASSUME NEW c \in Calls, RunAgent(c) \/ Prompt(c) \/ Stop(c) PROVE Untold(d)
  <2>1. d # c
    BY <1>1, <1>4 DEF RunAgent, Prompt, Stop, New
  <2>2. calls'[d] = calls[d]
    BY <1>1, <1>4, <2>1 DEF RunAgent, Prompt, Stop, StreamAgent, Cancel
  <2> QED BY <1>2, <2>2
<1>5. ASSUME NEW c \in Calls, Accept(c) PROVE Untold(d)
  BY <1>1, <1>2, <1>5 DEF Accept
<1>6. ASSUME NEW c \in Calls, Refuse(c) PROVE Untold(d)
  <2>1. d # c
    BY <1>1, <1>6 DEF Refuse
  <2> DEFINE live == ~Gone
  <2>2. calls' = [Told(calls, live, "failed", NoTurn) EXCEPT ![c].at = "failed",
                                                             ![c].replaces = FALSE]
    BY <1>6 DEF Refuse
  <2>3. live \in BOOLEAN /\ "failed" \in {"none"} \cup Ends
    BY DEF Ends
  <2> HIDE DEF live
  <2> SUFFICES ASSUME NEW r, r = Told(calls, live, "failed", NoTurn) PROVE Untold(d)
    OBVIOUS
  <2>4. r \in [Calls -> Call] /\ r[d].at = calls[d].at /\ r[d].told = calls[d].told
    BY <1>1, <2>3, ToldFacts
  <2>5. calls'[d] = r[d]
    BY <2>1, <2>2, <2>4
  <2> QED BY <1>1, <2>4, <2>5 DEF Untold
<1>7. ASSUME NEW c \in Calls, StreamEnds(c) PROVE Untold(d)
  <2> DEFINE mine == run.kind = "foreground" /\ run.call = c
  <2>1. d # c /\ calls' = [Told(calls, mine, "none", NoTurn) EXCEPT ![c].at = "done"]
    BY <1>1, <1>7 DEF StreamEnds
  <2>2. mine \in BOOLEAN /\ "none" \in {"none"} \cup Ends
    OBVIOUS
  <2> HIDE DEF mine
  <2> SUFFICES ASSUME NEW r, r = Told(calls, mine, "none", NoTurn) PROVE Untold(d)
    OBVIOUS
  <2>3. r \in [Calls -> Call] /\ r[d].at = calls[d].at /\ r[d].told = calls[d].told
    BY <1>1, <2>2, ToldFacts
  <2>4. calls'[d] = r[d]
    BY <2>1, <2>3
  <2> QED BY <1>1, <2>3, <2>4 DEF Untold
<1>8. ASSUME NEW c \in Calls, Interrupted(c) PROVE Untold(d)
  <2>1. CASE c = d
    BY <1>1, <1>8, <2>1 DEF Interrupted, Untold, Call
  <2>2. CASE c # d
    BY <1>1, <1>2, <1>8, <2>2 DEF Interrupted
  <2> QED BY <2>1, <2>2
<1>9. ASSUME NEW c \in Calls, c # d, NEW status, Return(c, status) PROVE Untold(d)
  BY <1>1, <1>2, <1>9 DEF Return, StreamAgent
<1>10. ASSUME NEW c \in Calls, c # d, EndForced(c) PROVE Untold(d)
  <2> DEFINE mine == run.turn = NoTurn
             base == [calls EXCEPT ![c].at = "forced", ![c].settled = mine]
             e == [type |-> "canceled", turn |-> run.turn]
  <2>1. End(e, base)
    BY <1>10 DEF EndForced
  <2>2. mine \in BOOLEAN /\ Forces(base, c, mine)
    BY DEF Forces
  <2>3. e \in [type : Ends, turn : Turns \cup {NoTurn}]
    BY <1>1 DEF TypeOK, Run, Ends
  <2> HIDE DEF mine, base, e
  <2>4. base \in [Calls -> Call] /\ base[d] = calls[d]
    BY <1>1, <1>10, <2>2, ForcesFacts
  <2> QED BY <1>1, <2>1, <2>3, <2>4, EndTells
<1>11. ASSUME NEW c \in Calls, Settled(c) \/ TimesOut(c) PROVE Untold(d)
  BY <1>9, <1>10, <1>11 DEF Settled, TimesOut
<1>12. CASE Close
  <2>1. /\ calls'[d] = [calls[d] EXCEPT !.settled = calls[d].settled \/ calls[d].at \in Cancelling,
                                        !.told = IF calls[d].at = "streaming" THEN "canceled"
                                                                              ELSE calls[d].told]
    BY <1>12, Zenon DEF Close
  <2> DEFINE settled == calls[d].settled \/ calls[d].at \in Cancelling
             told == IF calls[d].at = "streaming" THEN "canceled" ELSE calls[d].told
  <2>2. calls'[d] = [calls[d] EXCEPT !.settled = settled, !.told = told] /\ told = calls[d].told
    BY <1>1, <2>1
  <2> HIDE DEF settled, told
  <2>3. calls'[d].at = calls[d].at /\ calls'[d].told = calls[d].told
    BY <1>1, <2>2 DEF Call
  <2> QED BY <1>1, <2>3 DEF Untold
<1>13. CASE \E t \in Turns : Announce(t) \/ Finish(t)
  BY <1>2, <1>13 DEF Announce, Finish, Says
<1>14. CASE Closed
  BY <1>2, <1>14 DEF Closed
<1> QED BY <1>14, <1>3, <1>4, <1>5, <1>6, <1>7, <1>8, <1>11, <1>12, <1>13 DEF Next, Manage

\* A cancellation that is reported as settled has ended the turn it was for, unless the
\* provider had not accepted that turn yet.
THEOREM SettledMeansOver == Spec => SettledIsOver
<1> DEFINE Ended(c) == run.kind = "none" \/ run.turn = NoTurn \/ run.turn # calls[c].target
           Reported(c) == calls'[c].at = "starting" \/ calls'[c].told = "settled"
<1>1. ASSUME IInv, Next, NEW c \in Calls, calls[c].at \in Cancelling, Reported(c) PROVE Ended(c)
  <2>1. CASE Settled(c)
    <3>1. calls[c].settled
      BY <2>1 DEF Settled
    <3>2. CASE ~Open
      BY <1>1, <3>2 DEF IInv, RunFits, NoneFits, NoRun
    <3>3. CASE Open
      <4>1. IsOver(calls[c].target)
        BY <1>1, <3>1, <3>3 DEF IInv, Waiting
      <4>2. calls[c].target \in Calls \cup Own \cup {NoTurn}
        BY <1>1 DEF IInv, TypeOK, Call, Turns
      <4> QED BY <4>1, <4>2 DEF IsOver
    <3> QED BY <3>2, <3>3
  <2>2. CASE TimesOut(c)
    <3>1. calls \in [Calls -> Call] /\ calls[c] \in Call /\ calls[c].told = "none"
          /\ calls[c].at = "settling" /\ TypeOK
      BY <1>1, <2>2 DEF IInv, TypeOK, CallsFit, CallFits, Cancelling, TimesOut
    <3>2. CASE ~calls[c].acked
      <4>1. Return(c, "refused")
        BY <2>2, <3>2 DEF TimesOut
      <4>2. calls'[c].at \in {"done", "failed"} /\ calls'[c].told = "refused"
        BY <3>1, <4>1 DEF Return, Call
      <4> QED BY <1>1, <4>2
    <3>3. CASE calls[c].acked /\ (run.turn # NoTurn \/ run.kind = "autonomous")
      <4>1. EndForced(c)
        BY <2>2, <3>3 DEF TimesOut
      <4> DEFINE mine == run.turn = NoTurn
                 base == [calls EXCEPT ![c].at = "forced", ![c].settled = mine]
                 e == [type |-> "canceled", turn |-> run.turn]
      <4>2. End(e, base)
        BY <4>1 DEF EndForced
      <4>3. mine \in BOOLEAN /\ Forces(base, c, mine)
        BY DEF Forces
      <4>4. e \in [type : Ends, turn : Turns \cup {NoTurn}]
        BY <3>1 DEF TypeOK, Run, Ends
      <4> HIDE DEF mine, base, e
      <4>5. base \in [Calls -> Call] /\ base[c].at = "forced" /\ base[c].told = calls[c].told
        BY <3>1, <4>3, ForcesFacts
      <4>6. Untold(c)
        <5>1. base[c].at \in Cancelling /\ base[c].told # "settled"
          BY <3>1, <4>5 DEF Cancelling
        <5> QED BY <3>1, <4>2, <4>4, <4>5, <5>1, EndTells
      <4> QED BY <1>1, <4>6 DEF Untold
    <3>4. CASE calls[c].acked /\ ~(run.turn # NoTurn \/ run.kind = "autonomous")
      BY <3>4
    <3> QED BY <3>2, <3>3, <3>4
  <2>3. CASE ~Settled(c) /\ ~TimesOut(c)
    <3>1. Untold(c)
      BY <1>1, <2>3, OthersUntold
    <3> QED BY <1>1, <3>1 DEF Untold
  <2> QED BY <2>1, <2>2, <2>3
<1>2. IInv /\ [Next]_vars =>
        [\A c \in Calls : calls[c].at \in Cancelling /\ Reported(c) => Ended(c)]_vars
  BY <1>1
<1> QED BY Invariance, <1>2, PTL DEF Spec, SettledIsOver
=============================================================================
