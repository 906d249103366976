------------------------ MODULE HubExecutionsProofs ------------------------
(***************************************************************************)
(* Proofs about HubExecutions, for any executions and any number of        *)
(* creates: an execution has one agent, however requests, failures,        *)
(* crashes and the end of the authority meet.                              *)
(***************************************************************************)
EXTENDS HubExecutions, FiniteSetTheorems, TLAPS

Stages == {"unused", "done", "failed", "lost"} \cup InFlight
Creation == [at : Stages, exec : Executions \cup {None}, worktree : BOOLEAN,
             knows : BOOLEAN, result : Creates \cup {0}]
ControlStages == {"idle", "waiting", "acting", "refused", "done"}
Steering == [at : ControlStages, behind : SUBSET Actions, awaits : SUBSET Creates,
             before : SUBSET Creates, agent : Creates \cup {0}]
Agent == [record : {None, "kept", "archived"}, live : BOOLEAN, running : BOOLEAN]

TypeOK ==
  /\ authority \in BOOLEAN
  /\ creates \in [Creates -> Creation]
  /\ controls \in [Executions -> [Actions -> Steering]]
  /\ tail \in [Executions -> Actions \cup {None}]
  /\ agents \in [Creates -> Agent]

\* A create has an execution from its start on, and one is in flight for each.
OnePending ==
  /\ \A c \in Creates : creates[c].at = "unused" <=> creates[c].exec = None
  /\ \A c, d \in Creates :
       creates[c].at \in InFlight /\ creates[d].at \in InFlight
         /\ creates[c].exec = creates[d].exec => c = d

\* What a create has made is known from how far it has got.
Made ==
  \A c \in Creates :
    /\ creates[c].at \in {"unused", "find", "launch", "register"} =>
         agents[c] = NoAgent /\ ~creates[c].knows
    /\ creates[c].at \in {"unused", "find", "launch"} => ~creates[c].worktree
    /\ creates[c].at \in {"clean", "remove"} /\ creates[c].knows =>
         ~agents[c].live /\ ~agents[c].running
    /\ creates[c].at = "remove" => ~creates[c].worktree
    /\ creates[c].at = "failed" =>
         ~creates[c].worktree /\ (creates[c].knows => agents[c] = NoAgent)
    /\ agents[c].running => agents[c].live
    /\ agents[c].live => agents[c].record = "kept"

\* One record for an execution, and none while one is about to be made.
OneRecord ==
  /\ \A c, d \in Creates :
       agents[c].record # None /\ agents[d].record # None
         /\ creates[c].exec = creates[d].exec => c = d
  /\ \A c, d \in Creates :
       creates[c].at \in {"launch", "register"} /\ agents[d].record # None =>
         creates[c].exec # creates[d].exec

\* The agent of an answer is its execution's, and nothing rolls it back.
Answered ==
  \A c \in Creates : creates[c].at = "done" =>
    /\ creates[c].result \in Creates
    /\ creates[creates[c].result].exec = creates[c].exec
    /\ agents[creates[c].result].record # None
    /\ creates[creates[c].result].at \notin InFlight

\* The controls of an execution in flight form a line that ends in its tail.
LineOf(e) ==
  /\ tail[e] = None <=> PendingControls(e) = {}
  /\ tail[e] # None => tail[e] \in PendingControls(e)
  /\ \A x \in Actions :
       controls[e][x].behind = IF x = tail[e] THEN PendingControls(e) \ {x} ELSE {}

InLine == \A e \in Executions : LineOf(e)

\* The first of them waits for exactly the creates in flight; when it acts, a create
\* in flight can only be one that is about to find what it acts on.
OrderOf(e, x) ==
  /\ controls[e][x].before \subseteq Started(e)
  /\ controls[e][x].at = "waiting" =>
       controls[e][x].awaits = IF controls[e][x].behind = {} THEN PendingCreates(e) ELSE {}
  /\ controls[e][x].at # "waiting" => controls[e][x].awaits = {}
  /\ controls[e][x].at = "acting" =>
       /\ controls[e][x].behind = {}
       /\ controls[e][x].agent \in Recorded(e)
       /\ \A c \in PendingCreates(e) : creates[c].at = "find"

Ordered == \A e \in Executions, x \in Actions : OrderOf(e, x)

IInv == TypeOK /\ OnePending /\ Made /\ OneRecord /\ Answered /\ InLine /\ Ordered

----------------------------------------------------------------------------
(***************************************************************************)
(* What the steps do to each create, control and agent                     *)
(***************************************************************************)

\* The creates in flight, and the sets read from the state, are creates and controls.
LEMMA Kinds ==
  ASSUME TypeOK
  PROVE  /\ \A e \in Executions : /\ Started(e) \subseteq Creates
                                  /\ PendingCreates(e) \subseteq Creates
                                  /\ Recorded(e) \subseteq Creates
                                  /\ Find(e) \in Creates \cup {0}
                                  /\ Find(e) # 0 => Find(e) \in Recorded(e)
                                  /\ Find(e) = 0 => Recorded(e) = {}
         /\ 0 \notin Creates
<1>1. 0 \notin Creates
  BY CreatesAssumption DEF Creates
<1>2. ASSUME NEW e \in Executions
      PROVE  /\ Started(e) \subseteq Creates
             /\ PendingCreates(e) \subseteq Creates
             /\ Recorded(e) \subseteq Creates
  BY DEF Started, PendingCreates, Recorded
<1>3. ASSUME NEW e \in Executions
      PROVE  /\ Find(e) \in Creates \cup {0}
             /\ Find(e) # 0 => Find(e) \in Recorded(e)
             /\ Find(e) = 0 => Recorded(e) = {}
  <2>1. CASE Recorded(e) = {}
    BY <2>1 DEF Find
  <2>2. CASE Recorded(e) # {}
    <3>1. (CHOOSE c \in Recorded(e) : TRUE) \in Recorded(e)
      BY <2>2
    <3> QED BY <3>1, <2>2, <1>1, <1>2 DEF Find
  <2> QED BY <2>1, <2>2
<1> QED BY <1>1, <1>2, <1>3

\* A create that goes on changes nothing but how far it is.
LEMMA MoveFacts ==
  ASSUME TypeOK, NEW c \in Creates, NEW to \in Stages, Move(c, to)
  PROVE  /\ creates' \in [Creates -> Creation]
         /\ \A d \in Creates :
              /\ creates'[d].at = (IF d = c THEN to ELSE creates[d].at)
              /\ creates'[d].exec = creates[d].exec
              /\ creates'[d].worktree = creates[d].worktree
              /\ creates'[d].knows = creates[d].knows
              /\ creates'[d].result = creates[d].result
  BY DEF TypeOK, Move, Creation

\* A create that is settled leaves every list of what is waited for.
LEMMA SettleFacts ==
  ASSUME TypeOK, NEW c \in Creates, NEW how \in Stages, NEW r \in Creates \cup {0},
         Settle(c, how, r)
  PROVE  /\ creates' \in [Creates -> Creation]
         /\ controls' \in [Executions -> [Actions -> Steering]]
         /\ \A d \in Creates :
              /\ creates'[d].at = (IF d = c THEN how ELSE creates[d].at)
              /\ creates'[d].exec = creates[d].exec
              /\ creates'[d].worktree = creates[d].worktree
              /\ creates'[d].knows = creates[d].knows
              /\ creates'[d].result = (IF d = c THEN r ELSE creates[d].result)
         /\ \A e \in Executions, x \in Actions :
              /\ controls'[e][x].at = controls[e][x].at
              /\ controls'[e][x].behind = controls[e][x].behind
              /\ controls'[e][x].awaits = controls[e][x].awaits \ {c}
              /\ controls'[e][x].before = controls[e][x].before
              /\ controls'[e][x].agent = controls[e][x].agent
<1>1. /\ creates' \in [Creates -> Creation]
      /\ \A d \in Creates :
           /\ creates'[d].at = (IF d = c THEN how ELSE creates[d].at)
           /\ creates'[d].exec = creates[d].exec
           /\ creates'[d].worktree = creates[d].worktree
           /\ creates'[d].knows = creates[d].knows
           /\ creates'[d].result = (IF d = c THEN r ELSE creates[d].result)
  BY DEF TypeOK, Settle, Creation
<1>2. ASSUME NEW e \in Executions, NEW x \in Actions
      PROVE  /\ controls'[e][x] \in Steering
             /\ controls'[e][x].at = controls[e][x].at
             /\ controls'[e][x].behind = controls[e][x].behind
             /\ controls'[e][x].awaits = controls[e][x].awaits \ {c}
             /\ controls'[e][x].before = controls[e][x].before
             /\ controls'[e][x].agent = controls[e][x].agent
  <2>1. controls[e][x] \in Steering
    BY DEF TypeOK
  <2>2. controls'[e][x] = [controls[e][x] EXCEPT !.awaits = @ \ {c}]
    BY DEF Settle
  <2> QED BY <2>1, <2>2 DEF Steering
<1>3. controls' \in [Executions -> [Actions -> Steering]]
  BY <1>2 DEF Settle
<1> QED BY <1>1, <1>2, <1>3

\* A control that ends leaves the line: the one behind it goes on.
Left(e, x, how) ==
  /\ \A f \in Executions : f # e => tail'[f] = tail[f] /\ controls'[f] = controls[f]
  /\ tail'[e] = IF tail[e] = x THEN None ELSE tail[e]
  /\ controls'[e][x].at = how
  /\ \A y \in Actions :
       /\ y # x => controls'[e][y].at = controls[e][y].at
       /\ controls'[e][y].behind = controls[e][y].behind \ {x}
       /\ controls'[e][y].awaits = controls[e][y].awaits
       /\ controls'[e][y].before = controls[e][y].before
       /\ controls'[e][y].agent = controls[e][y].agent

LEMMA FinishFacts ==
  ASSUME TypeOK, NEW e \in Executions, NEW x \in Actions, NEW how \in ControlStages,
         Finish(e, x, how)
  PROVE  /\ controls' \in [Executions -> [Actions -> Steering]]
         /\ tail' \in [Executions -> Actions \cup {None}]
         /\ Left(e, x, how)
<1>1. ASSUME NEW y \in Actions
      PROVE  /\ controls'[e][y] \in Steering
             /\ controls'[e][y].at = (IF y = x THEN how ELSE controls[e][y].at)
             /\ controls'[e][y].behind = controls[e][y].behind \ {x}
             /\ controls'[e][y].awaits = controls[e][y].awaits
             /\ controls'[e][y].before = controls[e][y].before
             /\ controls'[e][y].agent = controls[e][y].agent
  <2>1. controls[e][y] \in Steering
    BY DEF TypeOK
  <2>2. controls'[e][y] = [controls[e][y] EXCEPT !.behind = controls[e][y].behind \ {x},
                                !.at = IF y = x THEN how ELSE controls[e][y].at]
    BY DEF TypeOK, Finish
  <2> QED BY <2>1, <2>2 DEF Steering
<1>2. ASSUME NEW f \in Executions, f # e
      PROVE  controls'[f] = controls[f]
  BY <1>2 DEF TypeOK, Finish
<1>3. controls' \in [Executions -> [Actions -> Steering]]
  BY <1>1 DEF TypeOK, Finish
<1>4. /\ tail' \in [Executions -> Actions \cup {None}]
      /\ \A f \in Executions : f # e => tail'[f] = tail[f]
      /\ tail'[e] = IF tail[e] = x THEN None ELSE tail[e]
  BY DEF TypeOK, Finish
<1> QED BY <1>1, <1>2, <1>3, <1>4 DEF Left

\* A create in flight has an execution, and unless it is about to look for the agent
\* of that execution, no control acts on it.
LEMMA NoneActing ==
  ASSUME IInv, NEW c \in Creates, creates[c].at \in InFlight
  PROVE  /\ creates[c].exec \in Executions
         /\ c \in PendingCreates(creates[c].exec)
         /\ creates[c].at # "find" =>
              \A x \in Actions : controls[creates[c].exec][x].at # "acting"
<1>1. creates[c].exec \in Executions
  BY DEF IInv, TypeOK, OnePending, Creation, InFlight
<1>2. c \in PendingCreates(creates[c].exec)
  BY DEF PendingCreates, Started
<1> QED BY <1>1, <1>2 DEF IInv, Ordered, OrderOf

\* The line of controls does not depend on how creates and agents get on.
LEMMA LineStays ==
  ASSUME IInv, tail' = tail,
         \A e \in Executions, x \in Actions :
           /\ controls'[e][x].at = controls[e][x].at
           /\ controls'[e][x].behind = controls[e][x].behind
  PROVE  InLine'
<1> SUFFICES ASSUME NEW e \in Executions PROVE LineOf(e)'
  BY DEF InLine
<1>1. PendingControls(e)' = PendingControls(e)
  BY DEF PendingControls
<1>2. LineOf(e)
  BY DEF IInv, InLine
<1>3. \A x \in Actions : controls'[e][x].behind = controls[e][x].behind
  OBVIOUS
<1> HIDE DEF PendingControls
<1> QED BY <1>1, <1>2, <1>3 DEF LineOf

\* A step of create c keeps the order: either c stays in flight, or it has left every
\* list of what is waited for.
LEMMA OrderStays ==
  ASSUME IInv, NEW c \in Creates, creates[c].at \in InFlight,
         \A d \in Creates : creates'[d].exec = creates[d].exec,
         \A d \in Creates : d # c => creates'[d].at = creates[d].at,
         \A e \in Executions, x \in Actions :
           /\ controls'[e][x].at = controls[e][x].at
           /\ controls'[e][x].behind = controls[e][x].behind
           /\ controls'[e][x].before = controls[e][x].before
           /\ controls'[e][x].agent = controls[e][x].agent
           /\ controls'[e][x].awaits = IF creates'[c].at \in InFlight THEN controls[e][x].awaits
                                       ELSE controls[e][x].awaits \ {c},
         \A e \in Executions, x \in Actions : controls[e][x].at = "acting" =>
           /\ \A d \in Recorded(e) : agents'[d].record # None
           /\ creates[c].exec = e => creates'[c].at \notin InFlight
  PROVE  Ordered'
<1> SUFFICES ASSUME NEW e \in Executions, NEW x \in Actions PROVE OrderOf(e, x)'
  BY DEF Ordered
<1>1. OrderOf(e, x)
  BY DEF IInv, Ordered
<1>2. Started(e)' = Started(e)
  BY DEF Started
<1>3. PendingCreates(e)' = IF creates'[c].at \in InFlight THEN PendingCreates(e)
                           ELSE PendingCreates(e) \ {c}
  BY <1>2 DEF PendingCreates, Started
<1>4. controls[e][x].at = "acting" => Recorded(e) \subseteq Recorded(e)'
  BY <1>2 DEF Recorded, Started
<1>5. controls[e][x].at = "acting" => c \notin PendingCreates(e)'
  BY <1>3 DEF PendingCreates, Started
<1>6. \A d \in PendingCreates(e)' : d # c => creates'[d].at = creates[d].at
  BY DEF PendingCreates, Started
<1>7. /\ controls'[e][x].at = controls[e][x].at
      /\ controls'[e][x].behind = controls[e][x].behind
      /\ controls'[e][x].before = controls[e][x].before
      /\ controls'[e][x].agent = controls[e][x].agent
      /\ controls'[e][x].awaits = IF creates'[c].at \in InFlight THEN controls[e][x].awaits
                                  ELSE controls[e][x].awaits \ {c}
  OBVIOUS
<1>8. /\ controls'[e][x].before \subseteq Started(e)'
      /\ controls'[e][x].at # "waiting" => controls'[e][x].awaits = {}
  BY <1>1, <1>2, <1>7 DEF OrderOf
<1>9. controls'[e][x].at = "waiting" =>
        controls'[e][x].awaits = IF controls'[e][x].behind = {} THEN PendingCreates(e)' ELSE {}
  BY <1>1, <1>3, <1>7 DEF OrderOf
<1>10. ASSUME controls'[e][x].at = "acting"
       PROVE  /\ controls'[e][x].behind = {}
              /\ controls'[e][x].agent \in Recorded(e)'
              /\ \A d \in PendingCreates(e)' : creates'[d].at = "find"
  <2>1. controls[e][x].at = "acting"
    BY <1>7, <1>10
  <2>2. PendingCreates(e)' \subseteq PendingCreates(e)
    BY <1>3
  <2>3. \A d \in PendingCreates(e)' : creates'[d].at = creates[d].at
    BY <2>1, <1>5, <1>6
  <2> QED BY <2>1, <2>2, <2>3, <1>1, <1>4, <1>7 DEF OrderOf
<1> QED BY <1>8, <1>9, <1>10 DEF OrderOf

\* A create that goes on keeps the line and the order, when no control acts on its
\* execution.
LEMMA MoveKeepsOrder ==
  ASSUME IInv, NEW c \in Creates, NEW to \in InFlight, creates[c].at \in InFlight,
         UNCHANGED <<controls, tail>>,
         \A d \in Creates :
           /\ creates'[d].exec = creates[d].exec
           /\ creates'[d].at = (IF d = c THEN to ELSE creates[d].at),
         \A d \in Creates : d # c => agents'[d] = agents[d],
         \A x \in Actions : controls[creates[c].exec][x].at # "acting"
  PROVE  InLine' /\ Ordered'
<1>1. InLine'
  BY LineStays
<1>2. \A e \in Executions, x \in Actions : controls[e][x].at = "acting" =>
        /\ \A d \in Recorded(e) : agents'[d].record # None
        /\ creates[c].exec = e => creates'[c].at \notin InFlight
  BY DEF Recorded, Started
<1>3. creates'[c].at \in InFlight
  OBVIOUS
<1>4. Ordered'
  BY <1>2, <1>3, OrderStays
<1> QED BY <1>1, <1>4

\* A create that is settled keeps them; the agents of the executions on which a
\* control acts keep their records.
LEMMA SettleKeepsOrder ==
  ASSUME IInv, NEW c \in Creates, creates[c].at \in InFlight,
         NEW how \in Stages \ InFlight, NEW r \in Creates \cup {0}, Settle(c, how, r),
         \A e \in Executions, x \in Actions : controls[e][x].at = "acting" =>
           \A d \in Recorded(e) : agents'[d].record # None
  PROVE  InLine' /\ Ordered'
<1>1. TypeOK /\ how \in Stages
  BY DEF IInv
<1>3. creates'[c].at \notin InFlight
  BY <1>1, SettleFacts
<1>4. \A e \in Executions, x \in Actions :
           /\ controls'[e][x].at = controls[e][x].at
           /\ controls'[e][x].behind = controls[e][x].behind
           /\ controls'[e][x].before = controls[e][x].before
           /\ controls'[e][x].agent = controls[e][x].agent
           /\ controls'[e][x].awaits = IF creates'[c].at \in InFlight THEN controls[e][x].awaits
                                       ELSE controls[e][x].awaits \ {c}
  BY <1>1, <1>3, SettleFacts
<1>5. \A d \in Creates :
        /\ creates'[d].exec = creates[d].exec
        /\ d # c => creates'[d].at = creates[d].at
  BY <1>1, SettleFacts
<1>2. InLine'
  BY <1>4, LineStays DEF Settle
<1>6. Ordered'
  BY <1>3, <1>4, <1>5, OrderStays
<1> QED BY <1>2, <1>6

----------------------------------------------------------------------------
(***************************************************************************)
(* The invariant holds at first, and every step keeps it                   *)
(***************************************************************************)

LEMMA InitIInv == Init => IInv
<1> SUFFICES ASSUME Init PROVE IInv
  OBVIOUS
<1>1. TypeOK
  BY DEF Init, TypeOK, Creation, Stages, Steering, ControlStages, Agent, NoAgent, None
<1>2. OnePending
  BY DEF Init, OnePending, InFlight
<1>3. Made
  BY DEF Init, Made, InFlight, NoAgent
<1>4. OneRecord /\ Answered
  BY DEF Init, OneRecord, Answered, NoAgent
<1>5. InLine
  BY DEF Init, InLine, LineOf, PendingControls, Actions, None
<1>6. Ordered
  BY DEF Init, Ordered, OrderOf, Started
<1> QED BY <1>1, <1>2, <1>3, <1>4, <1>5, <1>6 DEF IInv

LEMMA CreateKeeps ==
  ASSUME IInv, Drained, NEW e \in Executions, NEW c \in Creates, Create(e, c)
  PROVE  IInv'
<1> USE DEF IInv
<1>1. /\ creates' \in [Creates -> Creation]
      /\ \A d \in Creates :
           /\ creates'[d].at = (IF d = c THEN "find" ELSE creates[d].at)
           /\ creates'[d].exec = (IF d = c THEN e ELSE creates[d].exec)
           /\ creates'[d].worktree = creates[d].worktree
           /\ creates'[d].knows = creates[d].knows
           /\ creates'[d].result = creates[d].result
      /\ UNCHANGED <<authority, controls, tail, agents>>
      /\ creates[c].at = "unused"
      /\ PendingCreates(e) = {}
  BY DEF Create, TypeOK, Creation, Stages, InFlight
<1>2. TypeOK'
  BY <1>1 DEF TypeOK
<1>3. OnePending'
  BY <1>1, ExecutionsAssumption DEF OnePending, PendingCreates, Started, InFlight
<1>4. Made'
  BY <1>1 DEF Made
<1>5. OneRecord'
  BY <1>1 DEF OneRecord, Made, NoAgent
<1>6. Answered'
  BY <1>1 DEF Answered, Made, NoAgent
<1>7. InLine'
  BY <1>1, LineStays
<1>8. Ordered'
  <2>1. \A f \in Executions : Started(f) \subseteq Started(f)'
    BY <1>1, ExecutionsAssumption DEF Started, OnePending
  <2>2. \A f \in Executions : f # e => PendingCreates(f)' = PendingCreates(f)
    BY <1>1, ExecutionsAssumption DEF Started, PendingCreates, OnePending, InFlight
  <2>3. PendingCreates(e)' = {c}
    BY <1>1 DEF Started, PendingCreates, InFlight
  <2>4. \A f \in Executions : Recorded(f) \subseteq Recorded(f)'
    BY <1>1, ExecutionsAssumption DEF Started, Recorded, OnePending
  <2>5. \A x \in Actions : controls[e][x].at = "waiting" => controls[e][x].behind # {}
    BY <1>1 DEF Drained, Ordered, OrderOf
  <2>6. ASSUME NEW f \in Executions, NEW x \in Actions
        PROVE  OrderOf(f, x)'
    <3>1. OrderOf(f, x)
      BY DEF Ordered
    <3>2. CASE f = e
      BY <2>1, <2>3, <2>4, <2>5, <1>1, <3>1, <3>2 DEF OrderOf
    <3>3. CASE f # e
      <4>1. \A d \in PendingCreates(f) : d # c
        BY <1>1 DEF PendingCreates, InFlight
      <4> QED BY <2>1, <2>2, <2>4, <1>1, <3>1, <3>3, <4>1, Kinds DEF OrderOf
    <3> QED BY <3>2, <3>3
  <2> QED BY <2>6 DEF Ordered
<1> QED BY <1>2, <1>3, <1>4, <1>5, <1>6, <1>7, <1>8

LEMMA CreateFindsKeeps ==
  ASSUME IInv, NEW c \in Creates, CreateFinds(c)
  PROVE  IInv'
<1> DEFINE e == creates[c].exec
<1>1. TypeOK /\ creates[c].at = "find" /\ UNCHANGED <<authority, agents>>
  BY DEF CreateFinds, IInv
<1>2. e \in Executions /\ c \in PendingCreates(e)
  BY <1>1, NoneActing DEF InFlight
<1>3. CASE Settle(c, "failed", 0)
  <2>1. /\ "failed" \in Stages
        /\ 0 \in Creates \cup {0}
    BY DEF Stages
  <2>2. TypeOK'
    BY <2>1, <1>1, <1>3, SettleFacts DEF TypeOK, Settle
  <2>3. OnePending' /\ Made'
    BY <2>1, <1>1, <1>3, SettleFacts DEF IInv, OnePending, Made, InFlight
  <2>4. OneRecord' /\ Answered'
    BY <2>1, <1>1, <1>3, SettleFacts DEF IInv, OneRecord, Answered, InFlight
  <2>5. InLine' /\ Ordered'
    <3>1. "failed" \in Stages \ InFlight /\ creates[c].at \in InFlight
      BY <1>1 DEF Stages, InFlight
    <3>2. \A f \in Executions : \A d \in Recorded(f) : agents'[d].record # None
      BY <1>1 DEF Recorded
    <3> QED BY <3>1, <3>2, <2>1, <1>3, SettleKeepsOrder
  <2> QED BY <2>2, <2>3, <2>4, <2>5 DEF IInv
<1>4. CASE Find(e) # 0 /\ Settle(c, "done", Find(e))
  <2>1. /\ "done" \in Stages
        /\ Find(e) \in Recorded(e)
        /\ Find(e) \in Creates \cup {0}
        /\ Find(e) \in Creates
    BY <1>1, <1>2, <1>4, Kinds DEF Stages
  <2>2. TypeOK'
    BY <2>1, <1>1, <1>4, SettleFacts DEF TypeOK, Settle
  <2>3. OnePending' /\ Made'
    BY <2>1, <1>1, <1>4, SettleFacts DEF IInv, OnePending, Made, InFlight
  <2>4. OneRecord'
    BY <2>1, <1>1, <1>4, SettleFacts DEF IInv, OneRecord
  <2>5. Answered'
    <3>1. /\ creates[Find(e)].exec = e
          /\ agents[Find(e)].record # None
      BY <2>1 DEF Recorded, Started
    <3>2. Find(e) # c
      BY <3>1, <1>1 DEF IInv, Made, NoAgent
    <3>3. creates[Find(e)].at \notin InFlight
      BY <3>1, <3>2, <2>1, <1>1 DEF IInv, OnePending, InFlight
    <3> QED BY <3>1, <3>2, <3>3, <2>1, <1>1, <1>4, SettleFacts DEF IInv, Answered, InFlight
  <2>6. InLine' /\ Ordered'
    <3>1. "done" \in Stages \ InFlight /\ creates[c].at \in InFlight
      BY <1>1 DEF Stages, InFlight
    <3>2. \A f \in Executions : \A d \in Recorded(f) : agents'[d].record # None
      BY <1>1 DEF Recorded
    <3> QED BY <3>1, <3>2, <2>1, <1>4, SettleKeepsOrder
  <2> QED BY <2>2, <2>3, <2>4, <2>5, <2>6 DEF IInv
<1>5. CASE Find(e) = 0 /\ Move(c, "launch")
  <2>1. "launch" \in Stages
    BY DEF Stages, InFlight
  <2>2. Recorded(e) = {}
    BY <1>1, <1>2, <1>5, Kinds
  <2>3. TypeOK'
    BY <2>1, <1>1, <1>5, MoveFacts DEF TypeOK, Move
  <2>4. OnePending' /\ Made'
    BY <2>1, <1>1, <1>5, MoveFacts DEF IInv, OnePending, Made, InFlight
  <2>5. OneRecord'
    BY <2>1, <2>2, <1>1, <1>5, MoveFacts DEF IInv, OneRecord, Recorded, Started
  <2>6. Answered'
    BY <2>1, <1>1, <1>5, MoveFacts DEF IInv, Answered, InFlight
  <2>7. InLine' /\ Ordered'
    <3>1. \A x \in Actions : controls[e][x].at # "acting"
      BY <2>2, <1>2 DEF IInv, Ordered, OrderOf
    <3>2. /\ creates[c].at \in InFlight
          /\ "launch" \in InFlight
      BY <1>1 DEF InFlight
    <3>3. \A d \in Creates :
            /\ creates'[d].exec = creates[d].exec
            /\ creates'[d].at = (IF d = c THEN "launch" ELSE creates[d].at)
      BY <2>1, <1>1, <1>5, MoveFacts
    <3>4. UNCHANGED <<controls, tail>>
      BY <1>5 DEF Move
    <3> QED BY <3>1, <3>2, <3>3, <3>4, <1>1, MoveKeepsOrder
  <2> QED BY <2>3, <2>4, <2>5, <2>6, <2>7 DEF IInv
<1> QED BY <1>3, <1>4, <1>5 DEF CreateFinds

\* What the steps of a create that stays in flight have in common.
LEMMA StepKeeps ==
  ASSUME IInv, NEW c \in Creates,
         creates[c].at \in InFlight, creates[c].at # "find", creates'[c].at \in InFlight,
         UNCHANGED <<controls, tail>>,
         creates'[c].exec = creates[c].exec,
         \A d \in Creates : d # c => creates'[d] = creates[d] /\ agents'[d] = agents[d]
  PROVE  OnePending' /\ Answered' /\ InLine' /\ Ordered'
<1>1. /\ creates[c].exec \in Executions
      /\ \A x \in Actions : controls[creates[c].exec][x].at # "acting"
  BY NoneActing
<1>2. OnePending'
  BY DEF IInv, OnePending, InFlight
<1>3. Answered'
  <2>1. creates'[c].at # "done"
    BY DEF InFlight
  <2>2. ASSUME NEW d \in Creates, creates'[d].at = "done"
        PROVE  /\ d # c /\ creates'[d] = creates[d]
               /\ creates[d].result \in Creates
               /\ creates[d].result # c
    BY <2>1, <2>2 DEF IInv, Answered
  <2> QED BY <2>2 DEF IInv, Answered
<1>4. \A d \in Creates :
        /\ creates'[d].exec = creates[d].exec
        /\ creates'[d].at = (IF d = c THEN creates'[c].at ELSE creates[d].at)
  OBVIOUS
<1>5. InLine' /\ Ordered'
  BY <1>1, <1>4, MoveKeepsOrder
<1> QED BY <1>2, <1>3, <1>5

LEMMA MakeWorktreeKeeps ==
  ASSUME IInv, NEW c \in Creates, MakeWorktree(c)
  PROVE  IInv'
<1>1. TypeOK /\ creates[c].at = "launch" /\ UNCHANGED <<authority, controls, tail, agents>>
  BY DEF MakeWorktree, IInv
<1>2. PICK to \in {"register", "close"}, made \in BOOLEAN :
        /\ to = "close" => made = creates[c].worktree
        /\ creates' = [creates EXCEPT ![c].at = to, ![c].worktree = made]
  <2>1. CASE \E made \in BOOLEAN :
               creates' = [creates EXCEPT ![c].at = "register", ![c].worktree = made]
    BY <2>1
  <2>2. CASE creates' = [creates EXCEPT ![c].at = "close"]
    <3>1. creates' = [creates EXCEPT ![c].at = "close", ![c].worktree = creates[c].worktree]
      BY <2>2, <1>1 DEF TypeOK, Creation
    <3>2. creates[c].worktree \in BOOLEAN
      BY <1>1 DEF TypeOK, Creation
    <3> QED BY <3>1, <3>2
  <2> QED BY <2>1, <2>2 DEF MakeWorktree
<1>3. /\ creates' \in [Creates -> Creation]
      /\ \A d \in Creates : d # c => creates'[d] = creates[d]
      /\ creates'[c].at = to
      /\ creates'[c].exec = creates[c].exec
      /\ creates'[c].knows = creates[c].knows
  BY <1>1, <1>2 DEF TypeOK, Creation, Stages, InFlight
<1>4. TypeOK'
  BY <1>1, <1>3 DEF TypeOK
<1>5. Made'
  BY <1>1, <1>2, <1>3 DEF IInv, Made
<1>6. OneRecord'
  BY <1>1, <1>2, <1>3 DEF IInv, OneRecord
<1>7. creates[c].at \in InFlight /\ creates[c].at # "find" /\ creates'[c].at \in InFlight
  BY <1>1, <1>2, <1>3 DEF InFlight
<1>8. OnePending' /\ Answered' /\ InLine' /\ Ordered'
  BY <1>1, <1>3, <1>7, StepKeeps
<1> QED BY <1>4, <1>5, <1>6, <1>8 DEF IInv

LEMMA RegisterKeeps ==
  ASSUME IInv, NEW c \in Creates, Register(c)
  PROVE  IInv'
<1>1. TypeOK /\ creates[c].at = "register" /\ UNCHANGED <<authority, controls, tail>>
  BY DEF Register, IInv
<1>2. PICK to \in {"prompt", "close"}, knows \in BOOLEAN :
        creates' = [creates EXCEPT ![c].at = to, ![c].knows = knows]
        /\ (knows => agents'[c].record = "kept")
  <2>1. ~creates[c].knows
    BY <1>1 DEF IInv, Made
  <2>2. CASE creates' = [creates EXCEPT ![c].at = "prompt", ![c].knows = TRUE]
             /\ agents' = [agents EXCEPT ![c].record = "kept", ![c].live = TRUE]
    <3>1. agents'[c].record = "kept"
      BY <2>2, <1>1 DEF TypeOK, Agent
    <3> QED BY <2>2, <3>1
  <2>3. CASE creates' = [creates EXCEPT ![c].at = "close"]
    <3>1. creates' = [creates EXCEPT ![c].at = "close", ![c].knows = creates[c].knows]
      BY <2>3, <1>1 DEF TypeOK, Creation
    <3>2. creates[c].knows \in BOOLEAN
      BY <1>1 DEF TypeOK, Creation
    <3> QED BY <2>1, <3>1, <3>2
  <2> QED BY <2>2, <2>3 DEF Register
<1>3. /\ creates' \in [Creates -> Creation]
      /\ \A d \in Creates : d # c => creates'[d] = creates[d]
      /\ creates'[c].at = to
      /\ creates'[c].exec = creates[c].exec
      /\ creates'[c].knows = knows
  <2>1. creates' = [creates EXCEPT ![c].at = to, ![c].knows = knows]
    BY <1>2
  <2>2. to \in Stages
    BY DEF Stages, InFlight
  <2> QED BY <2>1, <2>2, <1>1 DEF TypeOK, Creation
<1>4. /\ agents' \in [Creates -> Agent]
      /\ \A d \in Creates : d # c => agents'[d] = agents[d]
      /\ ~agents'[c].running
      /\ agents'[c].live => agents'[c].record = "kept"
  <2>1. agents[c] = NoAgent
    BY <1>1 DEF IInv, Made
  <2>2. CASE agents' = [agents EXCEPT ![c].record = "kept", ![c].live = TRUE]
    BY <2>1, <2>2, <1>1 DEF TypeOK, Agent, NoAgent
  <2>3. CASE UNCHANGED agents
    BY <2>1, <2>3, <1>1 DEF TypeOK, NoAgent
  <2> QED BY <2>2, <2>3 DEF Register
<1>5. TypeOK'
  BY <1>1, <1>3, <1>4 DEF TypeOK
<1>6. Made'
  BY <1>1, <1>2, <1>3, <1>4 DEF IInv, Made
<1>7. OneRecord'
  <2>1. \A d \in Creates : agents[d].record # None => creates[d].exec # creates[c].exec
    BY <1>1 DEF IInv, OneRecord
  <2>2. \A d \in Creates :
          d # c /\ creates[d].at \in {"launch", "register"} => creates[d].exec # creates[c].exec
    BY <1>1 DEF IInv, OnePending, InFlight
  <2> QED BY <1>1, <1>2, <1>3, <1>4, <2>1, <2>2 DEF IInv, OneRecord
<1>8. creates[c].at \in InFlight /\ creates[c].at # "find" /\ creates'[c].at \in InFlight
  BY <1>1, <1>2, <1>3 DEF InFlight
<1>9. OnePending' /\ Answered' /\ InLine' /\ Ordered'
  BY <1>1, <1>3, <1>4, <1>8, StepKeeps
<1> QED BY <1>5, <1>6, <1>7, <1>9 DEF IInv

LEMMA PromptKeeps ==
  ASSUME IInv, NEW c \in Creates, Prompt(c)
  PROVE  IInv'
<1>1. TypeOK /\ creates[c].at = "prompt" /\ UNCHANGED authority
  BY DEF Prompt, IInv
<1>2. /\ agents' \in [Creates -> Agent]
      /\ \A d \in Creates : /\ d # c => agents'[d] = agents[d]
                            /\ agents'[d].record = agents[d].record
                            /\ agents'[d].live = agents[d].live
                            /\ agents'[d].running => agents[d].running \/ agents[d].live
  <2>1. CASE agents[c].live /\ agents' = [agents EXCEPT ![c].running = TRUE]
    BY <2>1, <1>1 DEF TypeOK, Agent
  <2>2. CASE UNCHANGED agents
    BY <2>2, <1>1 DEF TypeOK
  <2> QED BY <2>1, <2>2 DEF Prompt
<1>3. CASE Move(c, "close")
  <2>1. "close" \in Stages
    BY DEF Stages, InFlight
  <2>2. TypeOK'
    BY <1>1, <1>2, <1>3, <2>1, MoveFacts DEF TypeOK, Move
  <2>3. Made'
    BY <1>1, <1>2, <1>3, <2>1, MoveFacts DEF IInv, Made
  <2>4. OneRecord'
    BY <1>1, <1>2, <1>3, <2>1, MoveFacts DEF IInv, OneRecord
  <2>5. /\ creates[c].at \in InFlight /\ creates[c].at # "find" /\ creates'[c].at \in InFlight
        /\ creates'[c].exec = creates[c].exec
        /\ \A d \in Creates : d # c => creates'[d] = creates[d]
        /\ UNCHANGED <<controls, tail>>
    BY <1>1, <1>3 DEF InFlight, Move, TypeOK, Creation
  <2>6. OnePending' /\ Answered' /\ InLine' /\ Ordered'
    BY <1>2, <2>5, StepKeeps
  <2> QED BY <2>2, <2>3, <2>4, <2>6 DEF IInv
<1>4. CASE agents[c].live /\ Settle(c, "done", c)
  <2>1. "done" \in Stages \ InFlight /\ c \in Creates \cup {0}
    BY DEF Stages, InFlight
  <2>2. TypeOK'
    BY <1>1, <1>2, <1>4, <2>1, SettleFacts DEF TypeOK, Settle
  <2>3. Made'
    BY <1>1, <1>2, <1>4, <2>1, SettleFacts DEF IInv, Made
  <2>4. OneRecord' /\ OnePending'
    BY <1>1, <1>2, <1>4, <2>1, SettleFacts DEF IInv, OneRecord, OnePending, InFlight
  <2>5. Answered'
    <3>1. agents[c].record # None
      BY <1>4 DEF IInv, Made, None
    <3> QED BY <1>1, <1>2, <1>4, <2>1, <3>1, SettleFacts DEF IInv, Answered, InFlight
  <2>6. InLine' /\ Ordered'
    <3>1. creates[c].at \in InFlight
      BY <1>1 DEF InFlight
    <3>2. \A e \in Executions : \A d \in Recorded(e) : agents'[d].record # None
      BY <1>2 DEF Recorded, Started
    <3> QED BY <3>1, <3>2, <2>1, <1>4, SettleKeepsOrder
  <2> QED BY <2>2, <2>3, <2>4, <2>5, <2>6 DEF IInv
<1> QED BY <1>3, <1>4 DEF Prompt

LEMMA CloseAgentKeeps ==
  ASSUME IInv, NEW c \in Creates, CloseAgent(c)
  PROVE  IInv'
<1>1. TypeOK /\ creates[c].at = "close" /\ Move(c, "clean") /\ UNCHANGED authority
  BY DEF CloseAgent, IInv
<1>2. "clean" \in Stages
  BY DEF Stages, InFlight
<1>3. /\ agents' \in [Creates -> Agent]
      /\ \A d \in Creates : d # c => agents'[d] = agents[d]
      /\ agents'[c].record = agents[c].record
      /\ creates[c].knows => ~agents'[c].live /\ ~agents'[c].running
      /\ agents'[c].live => agents[c].live
      /\ agents'[c].running => agents'[c].live
  <2>1. CASE creates[c].knows
    <3>1. agents' = [agents EXCEPT ![c].live = FALSE, ![c].running = FALSE]
      BY <2>1 DEF CloseAgent
    <3> QED BY <3>1, <1>1 DEF TypeOK, Agent
  <2>2. CASE ~creates[c].knows
    <3>1. agents' = agents
      BY <2>2 DEF CloseAgent
    <3> QED BY <3>1, <2>2, <1>1 DEF TypeOK, IInv, Made
  <2> QED BY <2>1, <2>2
<1>4. TypeOK'
  BY <1>1, <1>2, <1>3, MoveFacts DEF TypeOK, Move
<1>5. Made'
  BY <1>1, <1>2, <1>3, MoveFacts DEF IInv, Made
<1>6. OneRecord'
  <2>1. \A d \in Creates : agents'[d].record = agents[d].record
    BY <1>3
  <2> QED BY <1>1, <1>2, <2>1, MoveFacts DEF IInv, OneRecord
<1>7. /\ creates[c].at \in InFlight /\ creates[c].at # "find" /\ creates'[c].at \in InFlight
      /\ creates'[c].exec = creates[c].exec
      /\ \A d \in Creates : d # c => creates'[d] = creates[d]
      /\ UNCHANGED <<controls, tail>>
  BY <1>1 DEF InFlight, Move, TypeOK, Creation
<1>8. OnePending' /\ Answered' /\ InLine' /\ Ordered'
  BY <1>3, <1>7, StepKeeps
<1> QED BY <1>4, <1>5, <1>6, <1>8 DEF IInv

LEMMA CleanWorktreeKeeps ==
  ASSUME IInv, NEW c \in Creates, CleanWorktree(c)
  PROVE  IInv'
<1>1. TypeOK /\ creates[c].at = "clean" /\ UNCHANGED <<authority, controls, tail, agents>>
  BY DEF CleanWorktree, IInv
<1>2. /\ creates' \in [Creates -> Creation]
      /\ \A d \in Creates : d # c => creates'[d] = creates[d]
      /\ creates'[c].at = "remove"
      /\ creates'[c].exec = creates[c].exec
      /\ creates'[c].knows = creates[c].knows
      /\ ~creates'[c].worktree
  BY <1>1 DEF CleanWorktree, TypeOK, Creation, Stages, InFlight
<1>3. TypeOK'
  BY <1>1, <1>2 DEF TypeOK
<1>4. Made'
  BY <1>1, <1>2 DEF IInv, Made
<1>5. OneRecord'
  BY <1>1, <1>2 DEF IInv, OneRecord
<1>6. creates[c].at \in InFlight /\ creates[c].at # "find" /\ creates'[c].at \in InFlight
  BY <1>1, <1>2 DEF InFlight
<1>7. OnePending' /\ Answered' /\ InLine' /\ Ordered'
  BY <1>1, <1>2, <1>6, StepKeeps
<1> QED BY <1>3, <1>4, <1>5, <1>7 DEF IInv

LEMMA RemoveRecordKeeps ==
  ASSUME IInv, NEW c \in Creates, RemoveRecord(c)
  PROVE  IInv'
<1>1. TypeOK /\ creates[c].at = "remove" /\ Settle(c, "failed", 0) /\ UNCHANGED authority
  BY DEF RemoveRecord, IInv
<1>2. "failed" \in Stages \ InFlight /\ 0 \in Creates \cup {0} /\ creates[c].at \in InFlight
  BY <1>1 DEF Stages, InFlight
<1>3. /\ agents' \in [Creates -> Agent]
      /\ \A d \in Creates : d # c => agents'[d] = agents[d]
      /\ creates[c].knows => agents'[c] = NoAgent
      /\ ~creates[c].knows => agents'[c] = agents[c]
  <2>1. CASE creates[c].knows
    <3>1. agents' = [agents EXCEPT ![c].record = None]
      BY <2>1 DEF RemoveRecord
    <3>2. ~agents[c].live /\ ~agents[c].running
      BY <2>1, <1>1 DEF IInv, Made
    <3>3. agents[c] \in Agent
      BY <1>1 DEF TypeOK
    <3>4. agents'[c] = [record |-> None, live |-> agents[c].live, running |-> agents[c].running]
      BY <3>1, <3>3, <1>1 DEF TypeOK, Agent
    <3>5. agents[c].live = FALSE /\ agents[c].running = FALSE
      BY <3>2, <3>3 DEF Agent
    <3>6. agents'[c] = NoAgent
      BY <3>4, <3>5 DEF NoAgent
    <3> QED BY <3>1, <3>6, <2>1, <1>1 DEF TypeOK, Agent
  <2>2. CASE ~creates[c].knows
    BY <2>2, <1>1 DEF RemoveRecord, TypeOK
  <2> QED BY <2>1, <2>2
<1>4. \A d \in Creates : agents'[d].record # None => agents[d].record # None
  BY <1>3 DEF NoAgent
<1>5. TypeOK'
  BY <1>1, <1>2, <1>3, SettleFacts DEF TypeOK, Settle
<1>6. Made'
  BY <1>1, <1>2, <1>3, SettleFacts DEF IInv, Made, NoAgent
<1>7. OneRecord' /\ OnePending'
  BY <1>1, <1>2, <1>4, SettleFacts DEF IInv, OneRecord, OnePending, InFlight
<1>8. Answered'
  <2>1. \A d \in Creates : creates'[d].at = "done" =>
          /\ d # c /\ creates[d].at = "done" /\ creates'[d].result = creates[d].result
          /\ creates[d].result # c
    BY <1>1, <1>2, SettleFacts DEF IInv, Answered
  <2> QED BY <1>1, <1>2, <1>3, <2>1, SettleFacts DEF IInv, Answered, InFlight
<1>9. InLine' /\ Ordered'
  <2>1. /\ creates[c].exec \in Executions
        /\ \A x \in Actions : controls[creates[c].exec][x].at # "acting"
    BY <1>1, <1>2, NoneActing
  <2>2. \A e \in Executions, x \in Actions : controls[e][x].at = "acting" =>
          \A d \in Recorded(e) : agents'[d].record # None
    BY <2>1, <1>3 DEF Recorded, Started
  <2> QED BY <2>2, <1>1, <1>2, SettleKeepsOrder
<1> QED BY <1>5, <1>6, <1>7, <1>8, <1>9 DEF IInv

LEMMA EndTurnKeeps ==
  ASSUME IInv, NEW c \in Creates, EndTurn(c)
  PROVE  IInv'
<1>1. TypeOK /\ UNCHANGED <<authority, creates, controls, tail>>
  BY DEF EndTurn, IInv
<1>2. /\ agents' \in [Creates -> Agent]
      /\ agents[c] # NoAgent
      /\ \A d \in Creates : /\ d # c => agents'[d] = agents[d]
                            /\ agents'[d].record = agents[d].record
                            /\ agents'[d].live = agents[d].live
                            /\ agents'[d].running => agents[d].running
  <2>1. agents[c].running /\ agents' = [agents EXCEPT ![c].running = FALSE]
    BY DEF EndTurn
  <2>2. agents[c] # NoAgent
    BY <2>1 DEF NoAgent
  <2> QED BY <2>1, <2>2, <1>1 DEF TypeOK, Agent
<1>3. TypeOK'
  BY <1>1, <1>2 DEF TypeOK
<1>4. Made'
  BY <1>1, <1>2 DEF IInv, Made
<1>5. OneRecord' /\ Answered' /\ OnePending'
  BY <1>1, <1>2 DEF IInv, OneRecord, Answered, OnePending
<1>6. InLine'
  BY <1>1, LineStays
<1>7. Ordered'
  <2>1. \A e \in Executions : /\ Started(e)' = Started(e)
                            /\ PendingCreates(e)' = PendingCreates(e)
                            /\ Recorded(e)' = Recorded(e)
    BY <1>1, <1>2 DEF Started, PendingCreates, Recorded
  <2> QED BY <2>1, <1>1 DEF IInv, Ordered, OrderOf
<1> QED BY <1>3, <1>4, <1>5, <1>6, <1>7 DEF IInv

LEMMA ControlKeeps ==
  ASSUME IInv, Drained, NEW e \in Executions, NEW x \in Actions, Control(e, x)
  PROVE  IInv'
<1> DEFINE asked == [at |-> "waiting", behind |-> Behind(e, x), awaits |-> Awaits(e),
                     before |-> Started(e), agent |-> 0]
<1>1. /\ TypeOK /\ LineOf(e)
      /\ x \notin PendingControls(e)
      /\ UNCHANGED <<authority, creates, agents>>
  BY DEF Control, IInv, InLine
<1>2. asked \in Steering
  <2>1. Awaits(e) \subseteq Creates /\ Started(e) \subseteq Creates
    BY <1>1, Kinds DEF Awaits
  <2>2. Behind(e, x) \subseteq Actions
    BY <1>1 DEF Behind, TypeOK
  <2> QED BY <2>1, <2>2 DEF Steering, ControlStages
<1>3. /\ controls' \in [Executions -> [Actions -> Steering]]
      /\ tail' \in [Executions -> Actions \cup {None}]
      /\ \A f \in Executions : f # e => tail'[f] = tail[f] /\ controls'[f] = controls[f]
      /\ tail'[e] = x
      /\ controls'[e][x] = asked
      /\ \A y \in Actions : y # x => controls'[e][y] = controls[e][y]
  <2>1. controls' = [controls EXCEPT ![e][x] = asked] /\ tail' = [tail EXCEPT ![e] = x]
    BY DEF Control
  <2> HIDE DEF asked
  <2> QED BY <2>1, <1>1, <1>2 DEF TypeOK
<1>4. TypeOK'
  BY <1>1, <1>3 DEF TypeOK
<1>5. OnePending' /\ Made' /\ OneRecord' /\ Answered'
  BY <1>1 DEF IInv, OnePending, Made, OneRecord, Answered
<1>6. PendingControls(e)' = PendingControls(e) \cup {x}
  BY <1>3 DEF PendingControls
<1>7. InLine'
  <2>1. ASSUME NEW f \in Executions, f # e PROVE LineOf(f)'
    <3>1. PendingControls(f)' = PendingControls(f)
      BY <1>3, <2>1 DEF PendingControls
    <3>2. tail'[f] = tail[f] /\ controls'[f] = controls[f]
      BY <1>3, <2>1
    <3>3. LineOf(f)
      BY DEF IInv, InLine
    <3> QED BY <3>1, <3>2, <3>3 DEF LineOf
  <2>2. LineOf(e)'
    <3>1. x # None
      BY DEF Actions, None
    <3>2. PendingControls(e) \subseteq {tail[e]}
      <4>1. \A y \in PendingControls(e) : y # x
        BY <1>1
      <4>2. \A y, z \in PendingControls(e) : y = z
        BY <4>1 DEF PendingControls, Actions
      <4> QED BY <1>1, <4>2 DEF LineOf
    <3>3. controls'[e][x].behind = PendingControls(e)
      <4>1. controls'[e][x].behind = {tail[e]} \ {None}
        BY <1>3 DEF Behind
      <4>2. tail[e] = None => PendingControls(e) = {}
        BY <1>1 DEF LineOf
      <4>3. tail[e] # None => tail[e] \in PendingControls(e)
        BY <1>1 DEF LineOf
      <4> QED BY <4>1, <4>2, <4>3, <3>2
    <3>4. \A y \in Actions : y # x => controls'[e][y].behind = {}
      BY <1>1, <1>3, <3>2 DEF LineOf
    <3>5. tail'[e] = x /\ PendingControls(e)' \ {x} = PendingControls(e)
      BY <1>1, <1>3, <1>6
    <3>6. \A y \in Actions : controls'[e][y].behind =
             IF y = tail'[e] THEN PendingControls(e)' \ {y} ELSE {}
      BY <3>3, <3>4, <3>5
    <3> QED BY <3>1, <3>5, <3>6, <1>6 DEF LineOf
  <2> QED BY <2>1, <2>2 DEF InLine
<1>8. Ordered'
  <2>1. ASSUME NEW f \in Executions, NEW y \in Actions, f # e \/ y # x PROVE OrderOf(f, y)'
    <3>1. controls'[f][y] = controls[f][y]
      BY <1>3, <2>1
    <3>2. /\ Started(f)' = Started(f)
          /\ PendingCreates(f)' = PendingCreates(f)
          /\ Recorded(f)' = Recorded(f)
      BY <1>1 DEF Started, PendingCreates, Recorded
    <3> QED BY <3>1, <3>2, <1>1 DEF IInv, Ordered, OrderOf
  <2>2. OrderOf(e, x)'
    <3>1. /\ Started(e)' = Started(e)
          /\ PendingCreates(e)' = PendingCreates(e)
      BY <1>1 DEF Started, PendingCreates
    <3>2. Awaits(e) = IF Behind(e, x) = {} THEN PendingCreates(e) ELSE {}
      BY DEF Awaits, Behind
    <3> QED BY <3>1, <3>2, <1>3 DEF OrderOf
  <2> QED BY <2>1, <2>2 DEF Ordered
<1> QED BY <1>4, <1>5, <1>7, <1>8 DEF IInv

\* A control that ends, when nothing is before it and no create is in flight.
LEMMA FinishKeepsOrder ==
  ASSUME IInv, NEW e \in Executions, NEW x \in Actions, NEW how \in {"done", "refused"},
         Finish(e, x, how), UNCHANGED creates,
         x \in PendingControls(e), controls[e][x].behind = {}, PendingCreates(e) = {},
         \A d \in Creates : agents[d].record # None => agents'[d].record # None
  PROVE  InLine' /\ Ordered'
<1>1. Left(e, x, how)
  <2>1. TypeOK /\ how \in ControlStages
    BY DEF IInv, ControlStages
  <2> QED BY <2>1, FinishFacts
<1>2. PendingControls(e)' = PendingControls(e) \ {x}
  BY <1>1 DEF PendingControls, Left
<1>3. LineOf(e)'
  <2>1. LineOf(e)
    BY DEF IInv, InLine
  <2>2. tail'[e] = IF tail[e] = x THEN None ELSE tail[e]
    BY <1>1 DEF Left
  <2>3. \A y \in Actions : controls'[e][y].behind = controls[e][y].behind \ {x}
    BY <1>1 DEF Left
  <2>4. x \in Actions /\ x # None
    BY DEF Actions, None
  <2>5. CASE tail[e] = x
    <3>1. PendingControls(e) = {x}
      BY <2>1, <2>5 DEF LineOf
    <3> QED BY <3>1, <2>1, <2>2, <2>3, <2>4, <2>5, <1>2 DEF LineOf
  <2>6. CASE tail[e] # x
    BY <2>1, <2>2, <2>3, <2>4, <2>6, <1>2 DEF LineOf
  <2> QED BY <2>5, <2>6
<1>4. ASSUME NEW f \in Executions, f # e PROVE LineOf(f)'
  <2>1. tail'[f] = tail[f] /\ controls'[f] = controls[f]
    BY <1>1, <1>4 DEF Left
  <2>2. PendingControls(f)' = PendingControls(f)
    BY <2>1 DEF PendingControls
  <2>3. LineOf(f)
    BY DEF IInv, InLine
  <2> QED BY <2>1, <2>2, <2>3 DEF LineOf
<1>5. ASSUME NEW f \in Executions, NEW y \in Actions PROVE OrderOf(f, y)'
  <2>1. /\ Started(f)' = Started(f)
        /\ PendingCreates(f)' = PendingCreates(f)
        /\ Recorded(f) \subseteq Recorded(f)'
    BY DEF Started, PendingCreates, Recorded
  <2>2. OrderOf(f, y)
    BY DEF IInv, Ordered
  <2>3. CASE f = e
    <3>1. /\ controls'[e][y].behind = controls[e][y].behind \ {x}
          /\ controls'[e][y].awaits = controls[e][y].awaits
          /\ controls'[e][y].before = controls[e][y].before
          /\ controls'[e][y].agent = controls[e][y].agent
          /\ controls'[e][x].at = how
          /\ y # x => controls'[e][y].at = controls[e][y].at
      BY <1>1 DEF Left
    <3>2. controls[e][y].awaits = {}
      BY <2>2, <2>3 DEF OrderOf
    <3>3. controls'[e][y].at = "acting" => controls[e][y].at = "acting"
      BY <3>1
    <3> QED BY <3>1, <3>2, <3>3, <2>1, <2>2, <2>3 DEF OrderOf
  <2>4. CASE f # e
    <3>1. controls'[f] = controls[f]
      BY <1>1, <2>4 DEF Left
    <3>2. \A d \in PendingCreates(f)' : creates'[d].at = creates[d].at
      OBVIOUS
    <3> QED BY <3>1, <3>2, <2>1, <2>2, <2>4 DEF OrderOf
  <2> QED BY <2>3, <2>4
<1> QED BY <1>3, <1>4, <1>5 DEF InLine, Ordered

LEMMA ControlRunsKeeps ==
  ASSUME IInv, NEW e \in Executions, NEW x \in Actions, ControlRuns(e, x)
  PROVE  IInv'
<1>1. /\ TypeOK /\ UNCHANGED <<authority, creates, agents>>
      /\ controls[e][x].at = "waiting"
      /\ controls[e][x].behind = {} /\ controls[e][x].awaits = {}
      /\ x \in PendingControls(e)
  BY DEF ControlRuns, IInv, PendingControls
<1>2. PendingCreates(e) = {}
  BY <1>1 DEF IInv, Ordered, OrderOf
<1>3. OnePending' /\ Made' /\ OneRecord' /\ Answered'
  BY <1>1 DEF IInv, OnePending, Made, OneRecord, Answered
<1>4. ASSUME NEW how \in {"done", "refused"}, Finish(e, x, how)
      PROVE  IInv'
  <2>1. how \in ControlStages
    BY DEF ControlStages
  <2>2. TypeOK'
    BY <2>1, <1>1, <1>4, FinishFacts DEF TypeOK
  <2>3. InLine' /\ Ordered'
    BY <1>1, <1>2, <1>4, FinishKeepsOrder
  <2> QED BY <2>2, <2>3, <1>3 DEF IInv
<1>5. ASSUME Find(e) # 0, UNCHANGED tail,
             controls' = [controls EXCEPT ![e][x].at = "acting", ![e][x].agent = Find(e)]
      PROVE  IInv'
  <2>1. Find(e) \in Creates /\ Find(e) \in Recorded(e)
    BY <1>1, <1>5, Kinds
  <2>2. /\ controls' \in [Executions -> [Actions -> Steering]]
        /\ \A f \in Executions, y \in Actions :
             /\ f # e \/ y # x => controls'[f][y] = controls[f][y]
             /\ controls'[f][y].behind = controls[f][y].behind
             /\ controls'[f][y].awaits = controls[f][y].awaits
             /\ controls'[f][y].before = controls[f][y].before
        /\ controls'[e][x].at = "acting"
        /\ controls'[e][x].agent = Find(e)
    <3>1. controls[e][x] \in Steering
      BY <1>1 DEF TypeOK
    <3>2. controls'[e][x] = [controls[e][x] EXCEPT !.at = "acting", !.agent = Find(e)]
      BY <1>1, <1>5 DEF TypeOK
    <3>3. \A f \in Executions, y \in Actions : f # e \/ y # x => controls'[f][y] = controls[f][y]
      BY <1>1, <1>5 DEF TypeOK
    <3>4. controls'[e][x] \in Steering
      BY <3>1, <3>2, <2>1 DEF Steering, ControlStages
    <3>5. controls' = [controls EXCEPT ![e][x] = controls'[e][x]]
      BY <1>1, <1>5 DEF TypeOK
    <3>6. controls' \in [Executions -> [Actions -> Steering]]
      BY <3>4, <3>5, <1>1 DEF TypeOK
    <3>7. /\ controls'[e][x].behind = controls[e][x].behind
          /\ controls'[e][x].awaits = controls[e][x].awaits
          /\ controls'[e][x].before = controls[e][x].before
          /\ controls'[e][x].at = "acting"
          /\ controls'[e][x].agent = Find(e)
      BY <3>1, <3>2 DEF Steering
    <3>8. \A f \in Executions, y \in Actions :
            /\ controls'[f][y].behind = controls[f][y].behind
            /\ controls'[f][y].awaits = controls[f][y].awaits
            /\ controls'[f][y].before = controls[f][y].before
      BY <3>3, <3>7
    <3> QED BY <3>3, <3>6, <3>7, <3>8
  <2>3. TypeOK'
    BY <2>2, <1>1, <1>5 DEF TypeOK
  <2>4. ASSUME NEW f \in Executions PROVE LineOf(f)'
    <3>1. PendingControls(f)' = PendingControls(f)
      BY <2>2, <1>1 DEF PendingControls
    <3>2. /\ tail'[f] = tail[f]
          /\ \A y \in Actions : controls'[f][y].behind = controls[f][y].behind
      BY <2>2, <1>5
    <3>3. LineOf(f)
      BY DEF IInv, InLine
    <3> QED BY <3>1, <3>2, <3>3 DEF LineOf
  <2>5. ASSUME NEW f \in Executions, NEW y \in Actions PROVE OrderOf(f, y)'
    <3>1. /\ Started(f)' = Started(f)
          /\ PendingCreates(f)' = PendingCreates(f)
          /\ Recorded(f)' = Recorded(f)
      BY <1>1 DEF Started, PendingCreates, Recorded
    <3>2. OrderOf(f, y)
      BY DEF IInv, Ordered
    <3>3. CASE f = e /\ y = x
      BY <3>1, <3>2, <3>3, <2>1, <2>2, <1>1, <1>2 DEF OrderOf
    <3>4. CASE f # e \/ y # x
      BY <3>1, <3>2, <3>4, <2>2, <1>1 DEF OrderOf
    <3> QED BY <3>3, <3>4
  <2> QED BY <2>3, <2>4, <2>5, <1>3 DEF IInv, InLine, Ordered
<1> QED BY <1>4, <1>5 DEF ControlRuns

LEMMA ControlActsKeeps ==
  ASSUME IInv, Drained, NEW e \in Executions, NEW x \in Actions, ControlActs(e, x)
  PROVE  IInv'
<1> DEFINE a == controls[e][x].agent
<1>1. /\ TypeOK /\ UNCHANGED <<authority, creates>>
      /\ controls[e][x].at = "acting"
      /\ x \in PendingControls(e)
  BY DEF ControlActs, IInv, PendingControls
<1>2. /\ controls[e][x].behind = {}
      /\ a \in Creates
      /\ creates[a].exec = e
      /\ agents[a].record # None
      /\ creates[a].at \notin InFlight
      /\ PendingCreates(e) = {}
  <2>1. /\ controls[e][x].behind = {}
        /\ a \in Recorded(e)
        /\ \A c \in PendingCreates(e) : creates[c].at = "find"
    BY <1>1 DEF IInv, Ordered, OrderOf
  <2>2. PendingCreates(e) = {}
    BY <2>1 DEF Drained, PendingCreates, Started
  <2> QED BY <2>1, <2>2 DEF Recorded, PendingCreates, Started
<1>3. PICK how \in {"done", "refused"} : Finish(e, x, how)
  BY DEF ControlActs
<1>4. how \in ControlStages
  BY DEF ControlStages
<1>5. /\ agents' \in [Creates -> Agent]
      /\ \A d \in Creates : d # a => agents'[d] = agents[d]
      /\ agents'[a].record # None
      /\ agents'[a].running => agents'[a].live
      /\ agents'[a].live => agents'[a].record = "kept"
  <2>1. CASE agents' = [agents EXCEPT ![a].running = FALSE]
    <3>1. agents[a] \in Agent /\ agents'[a] = [agents[a] EXCEPT !.running = FALSE]
      BY <2>1, <1>1, <1>2 DEF TypeOK
    <3>2. agents[a].live => agents[a].record = "kept"
      BY <1>2 DEF IInv, Made
    <3> QED BY <3>1, <3>2, <2>1, <1>1, <1>2 DEF TypeOK, Agent
  <2>2. CASE agents' = [agents EXCEPT ![a] = [record |-> "archived", live |-> FALSE,
                                              running |-> FALSE]]
    BY <2>2, <1>1, <1>2 DEF TypeOK, Agent, None
  <2>3. CASE UNCHANGED agents
    BY <2>3, <1>1, <1>2 DEF TypeOK, IInv, Made
  <2> QED BY <2>1, <2>2, <2>3 DEF ControlActs
<1>6. TypeOK'
  BY <1>1, <1>3, <1>4, <1>5, FinishFacts DEF TypeOK
<1>7. \A d \in Creates : agents'[d].record # None <=> agents[d].record # None
  BY <1>2, <1>5
<1>8. Made'
  <2>1. creates[a].at \notin {"unused", "find", "launch", "register", "clean", "remove"}
    BY <1>2 DEF InFlight, IInv, Made, NoAgent
  <2>2. creates[a].at = "failed" => ~creates[a].knows
    BY <1>2 DEF IInv, Made, NoAgent
  <2> QED BY <1>1, <1>5, <2>1, <2>2 DEF IInv, Made
<1>9. OnePending' /\ OneRecord' /\ Answered'
  BY <1>1, <1>7 DEF IInv, OnePending, OneRecord, Answered
<1>10. InLine' /\ Ordered'
  BY <1>1, <1>2, <1>3, <1>7, FinishKeepsOrder
<1> QED BY <1>6, <1>8, <1>9, <1>10 DEF IInv

LEMMA CrashKeeps ==
  ASSUME IInv, Crash
  PROVE  IInv'
<1>1. TypeOK /\ UNCHANGED authority
  BY DEF Crash, IInv
<1>2. /\ creates' \in [Creates -> Creation]
      /\ \A c \in Creates :
           /\ creates'[c].at = (IF creates[c].at \in InFlight THEN "lost" ELSE creates[c].at)
           /\ creates'[c].exec = creates[c].exec
           /\ creates'[c].worktree = creates[c].worktree
           /\ creates'[c].knows = creates[c].knows
           /\ creates'[c].result = creates[c].result
  <2>1. ASSUME NEW c \in Creates
        PROVE  /\ creates'[c] \in Creation
               /\ creates'[c].at = (IF creates[c].at \in InFlight THEN "lost" ELSE creates[c].at)
               /\ creates'[c].exec = creates[c].exec
               /\ creates'[c].worktree = creates[c].worktree
               /\ creates'[c].knows = creates[c].knows
               /\ creates'[c].result = creates[c].result
    <3>1. creates[c] \in Creation
      BY <1>1 DEF TypeOK
    <3>2. creates'[c] = IF creates[c].at \in InFlight THEN [creates[c] EXCEPT !.at = "lost"]
                        ELSE creates[c]
      BY DEF Crash
    <3> QED BY <3>1, <3>2 DEF Creation, Stages
  <2>2. creates' \in [Creates -> Creation]
    BY <2>1 DEF Crash
  <2> QED BY <2>1, <2>2
<1>3. /\ agents' \in [Creates -> Agent]
      /\ \A c \in Creates : /\ agents'[c].record = agents[c].record
                            /\ agents'[c].live = FALSE
                            /\ agents'[c].running = FALSE
  BY <1>1 DEF Crash, TypeOK, Agent
<1>4. /\ controls' \in [Executions -> [Actions -> Steering]]
      /\ \A e \in Executions, x \in Actions :
           /\ controls'[e][x].at \notin {"waiting", "acting"}
           /\ controls'[e][x].behind = {} /\ controls'[e][x].awaits = {}
           /\ controls'[e][x].before = controls[e][x].before
  <2>1. ASSUME NEW e \in Executions, NEW x \in Actions
        PROVE  /\ controls'[e][x] \in Steering
               /\ controls'[e][x].at \notin {"waiting", "acting"}
               /\ controls'[e][x].behind = {} /\ controls'[e][x].awaits = {}
               /\ controls'[e][x].before = controls[e][x].before
    <3>1. controls[e][x] \in Steering
      BY <1>1 DEF TypeOK
    <3>2. controls'[e][x] =
            IF x \in PendingControls(e)
            THEN [controls[e][x] EXCEPT !.at = "idle", !.behind = {}, !.awaits = {}]
            ELSE controls[e][x]
      BY DEF Crash
    <3>3. CASE x \in PendingControls(e)
      BY <3>1, <3>2, <3>3 DEF Steering, ControlStages
    <3>4. CASE x \notin PendingControls(e)
      <4>1. controls[e][x].behind = {}
        BY <3>4 DEF IInv, InLine, LineOf
      <4>2. controls[e][x].at \notin {"waiting", "acting"}
        BY <3>4 DEF PendingControls
      <4>3. controls[e][x].awaits = {}
        BY <4>2 DEF IInv, Ordered, OrderOf
      <4> QED BY <3>1, <3>2, <3>4, <4>1, <4>2, <4>3
    <3> QED BY <3>3, <3>4
  <2>2. controls' \in [Executions -> [Actions -> Steering]]
    BY <2>1 DEF Crash
  <2> QED BY <2>1, <2>2
<1>5. TypeOK'
  BY <1>1, <1>2, <1>3, <1>4 DEF TypeOK, Crash
<1>6. OnePending'
  BY <1>2 DEF IInv, OnePending, InFlight
<1>7. Made'
  <2>1. ASSUME NEW c \in Creates, agents[c] = NoAgent PROVE agents'[c] = NoAgent
    BY <2>1, <1>3 DEF NoAgent, Agent
  <2> QED BY <2>1, <1>2, <1>3 DEF IInv, Made, InFlight
<1>8. OneRecord' /\ Answered'
  BY <1>2, <1>3 DEF IInv, OneRecord, Answered, InFlight
<1>9. InLine'
  <2>1. \A e \in Executions : PendingControls(e)' = {} /\ tail'[e] = None
    BY <1>4 DEF PendingControls, Crash
  <2> QED BY <2>1, <1>4 DEF InLine, LineOf
<1>10. Ordered'
  <2>1. \A e \in Executions : Started(e)' = Started(e)
    BY <1>2 DEF Started
  <2> QED BY <2>1, <1>4 DEF IInv, Ordered, OrderOf
<1> QED BY <1>5, <1>6, <1>7, <1>8, <1>9, <1>10 DEF IInv

LEMMA InvalidateAuthorityKeeps ==
  ASSUME IInv, InvalidateAuthority
  PROVE  IInv'
<1>1. authority' \in BOOLEAN /\ UNCHANGED <<creates, controls, tail, agents>>
  BY DEF InvalidateAuthority
<1>2. TypeOK'
  BY <1>1 DEF IInv, TypeOK
<1>3. OnePending' /\ Made' /\ OneRecord' /\ Answered'
  BY <1>1 DEF IInv, OnePending, Made, OneRecord, Answered
<1>4. \A e \in Executions : /\ PendingControls(e)' = PendingControls(e)
                          /\ Started(e)' = Started(e)
                          /\ PendingCreates(e)' = PendingCreates(e)
                          /\ Recorded(e)' = Recorded(e)
  BY <1>1 DEF PendingControls, Started, PendingCreates, Recorded
<1>5. InLine'
  BY <1>1, LineStays
<1>6. Ordered'
  BY <1>1, <1>4 DEF IInv, Ordered, OrderOf
<1> QED BY <1>2, <1>3, <1>5, <1>6 DEF IInv

LEMMA NextKeeps == IInv /\ [Next]_vars => IInv'
<1> SUFFICES ASSUME IInv, [Next]_vars PROVE IInv'
  OBVIOUS
<1>1. CASE Request
  BY <1>1, CreateKeeps, ControlKeeps DEF Request
<1>2. CASE Continue
  BY <1>2, CreateFindsKeeps, ControlRunsKeeps DEF Continue
<1>3. CASE Operate
  BY <1>3, MakeWorktreeKeeps, RegisterKeeps, PromptKeeps, CloseAgentKeeps, CleanWorktreeKeeps,
     RemoveRecordKeeps, EndTurnKeeps, ControlActsKeeps DEF Operate, CreateSteps
<1>4. CASE InvalidateAuthority
  BY <1>4, InvalidateAuthorityKeeps
<1>5. CASE Crash
  BY <1>5, CrashKeeps
<1>6. CASE UNCHANGED vars
  <2>1. UNCHANGED <<authority, creates, controls, tail, agents>>
    BY <1>6 DEF vars
  <2>2. TypeOK'
    BY <2>1 DEF IInv, TypeOK
  <2>3. OnePending' /\ Made' /\ OneRecord' /\ Answered'
    BY <2>1 DEF IInv, OnePending, Made, OneRecord, Answered
  <2>4. \A e \in Executions : /\ PendingControls(e)' = PendingControls(e)
                            /\ Started(e)' = Started(e)
                            /\ PendingCreates(e)' = PendingCreates(e)
                            /\ Recorded(e)' = Recorded(e)
    BY <2>1 DEF PendingControls, Started, PendingCreates, Recorded
  <2>5. InLine'
    BY <2>1, LineStays
  <2>6. Ordered'
    BY <2>1, <2>4 DEF IInv, Ordered, OrderOf
  <2> QED BY <2>2, <2>3, <2>5, <2>6 DEF IInv
<1> QED BY <1>1, <1>2, <1>3, <1>4, <1>5, <1>6 DEF Next

----------------------------------------------------------------------------
(***************************************************************************)
(* What follows for the Hub                                                *)
(***************************************************************************)

\* The invariant: one create in flight and one record for an execution, a line of
\* controls, and what the first of them waits for.
THEOREM Invariance == Spec => []IInv
<1> QED BY InitIInv, NextKeeps, PTL DEF Spec

\* Of an invariant state: an execution has one agent, those who were answered were
\* given it, and a failure has left nothing it knew of.
LEMMA AnswersFollow == IInv => AnswersHold
<1> SUFFICES ASSUME IInv PROVE AnswersHold
  OBVIOUS
<1>1. ASSUME NEW e \in Executions PROVE Cardinality(Recorded(e)) <= 1
  <2>1. \A c, d \in Recorded(e) : c = d
    BY DEF IInv, OneRecord, Recorded, Started
  <2>2. CASE Recorded(e) = {}
    BY <2>2, FS_EmptySet
  <2>3. CASE Recorded(e) # {}
    <3>1. PICK c \in Recorded(e) : TRUE
      BY <2>3
    <3>2. Recorded(e) = {c}
      BY <2>1, <3>1
    <3>3. Cardinality({c}) = 1
      BY FS_Singleton
    <3> QED BY <3>2, <3>3
  <2> QED BY <2>2, <2>3
<1>2. ASSUME NEW c \in Creates, NEW d \in Creates,
             creates[c].at = "done", creates[d].at = "done", creates[c].exec = creates[d].exec
      PROVE  /\ creates[c].result = creates[d].result
             /\ agents[creates[c].result].record # None
  BY <1>2 DEF IInv, Answered, OneRecord
<1>3. \A c \in Creates : creates[c].at = "failed" =>
        ~creates[c].worktree /\ (creates[c].knows => agents[c] = NoAgent)
  BY DEF IInv, Made
<1> QED BY <1>1, <1>2, <1>3 DEF AnswersHold

\* An execution has one agent, and the answers given for it hold (docs/hub.md:37).
THEOREM AnswersAlwaysHold == Spec => []AnswersHold
<1> QED BY Invariance, AnswersFollow, PTL

\* A create that an answer makes done was answered under the authority.
LEMMA DoneUnderAuthority ==
  ASSUME IInv, [Next]_vars, NEW c \in Creates,
         creates[c].at # "done", creates'[c].at = "done"
  PROVE  authority
<1>1. TypeOK
  BY DEF IInv
<1>2. ASSUME NEW d \in Creates, CreateFinds(d) PROVE authority
  <2>1. CASE authority
    BY <2>1
  <2>2. CASE Settle(d, "failed", 0)
    BY <2>2, <1>1, SettleFacts DEF Stages
  <2> QED BY <2>1, <2>2, <1>2 DEF CreateFinds
<1>3. ASSUME NEW d \in Creates, Prompt(d) PROVE authority
  <2>1. CASE authority
    BY <2>1
  <2>2. CASE Move(d, "close")
    BY <2>2, <1>1, MoveFacts DEF Stages, InFlight
  <2> QED BY <2>1, <2>2, <1>3 DEF Prompt
<1>4. ASSUME NEW d \in Creates,
             MakeWorktree(d) \/ Register(d) \/ CloseAgent(d) \/ CleanWorktree(d)
             \/ RemoveRecord(d) \/ EndTurn(d)
      PROVE  FALSE
  <2>1. CASE MakeWorktree(d)
    BY <2>1, <1>1 DEF MakeWorktree, TypeOK, Creation
  <2>2. CASE Register(d)
    BY <2>2, <1>1 DEF Register, TypeOK, Creation
  <2>3. CASE CloseAgent(d)
    BY <2>3, <1>1, MoveFacts DEF CloseAgent, Stages, InFlight
  <2>4. CASE CleanWorktree(d)
    BY <2>4, <1>1 DEF CleanWorktree, TypeOK, Creation
  <2>5. CASE RemoveRecord(d)
    BY <2>5, <1>1, SettleFacts DEF RemoveRecord, Stages
  <2>6. CASE EndTurn(d)
    BY <2>6 DEF EndTurn
  <2> QED BY <1>4, <2>1, <2>2, <2>3, <2>4, <2>5, <2>6
<1>5. ASSUME NEW e \in Executions, NEW d \in Creates, Create(e, d) PROVE authority
  BY <1>5 DEF Create
<1>6. ASSUME NEW e \in Executions, NEW x \in Actions,
             Control(e, x) \/ ControlRuns(e, x) \/ ControlActs(e, x)
      PROVE  FALSE
  BY <1>6 DEF Control, ControlRuns, ControlActs
<1>7. CASE InvalidateAuthority \/ UNCHANGED vars
  BY <1>7 DEF InvalidateAuthority, vars
<1>8. CASE Crash
  <2>1. creates'[c] = IF creates[c].at \in InFlight THEN [creates[c] EXCEPT !.at = "lost"]
                      ELSE creates[c]
    BY <1>8 DEF Crash
  <2> QED BY <2>1, <1>1 DEF TypeOK, Creation
<1> QED BY <1>2, <1>3, <1>4, <1>5, <1>6, <1>7, <1>8
        DEF Next, Request, Continue, Operate, CreateSteps

\* No create succeeds once the authority it began under has ended.
THEOREM CreatesEndWithAuthority == Spec => EndsWithAuthority
<1>1. IInv /\ [Next]_vars =>
        [\A c \in Creates : creates[c].at # "done" /\ creates'[c].at = "done" => authority]_vars
  BY DoneUnderAuthority
<1> QED BY <1>1, Invariance, PTL DEF Spec, EndsWithAuthority

\* An agent that runs is recorded, so a control that found no agent, or no live one,
\* found none that runs.
LEMMA RunsHold ==
  ASSUME IInv, NEW e \in Executions, NEW x \in Actions, ControlRuns(e, x),
         controls'[e][x].at = "done", NEW c \in controls[e][x].before
  PROVE  /\ creates[c].at \notin InFlight
         /\ ~agents'[c].running
         /\ x = "archive" => agents'[c].record # "kept"
<1>1. /\ TypeOK /\ UNCHANGED agents
      /\ controls[e][x].at = "waiting"
      /\ controls[e][x].behind = {} /\ controls[e][x].awaits = {}
  BY DEF ControlRuns, IInv
<1>2. c \in Started(e) /\ PendingCreates(e) = {} /\ c \in Creates
  BY <1>1, Kinds DEF IInv, Ordered, OrderOf
<1>3. creates[c].at \notin InFlight
  BY <1>2 DEF PendingCreates
<1>4. \/ Find(e) = 0
      \/ x = "interrupt" /\ ~(agents[Find(e)].record = "kept" /\ agents[Find(e)].live)
  <2>1. CASE Finish(e, x, "refused")
    <3>1. controls'[e][x].at = "refused"
      BY <2>1, <1>1, FinishFacts DEF Left, ControlStages
    <3> QED BY <3>1
  <2>2. CASE controls' = [controls EXCEPT ![e][x].at = "acting", ![e][x].agent = Find(e)]
    <3>1. controls'[e][x].at = "acting"
      BY <2>2, <1>1 DEF TypeOK, Steering
    <3> QED BY <3>1
  <2> QED BY <2>1, <2>2 DEF ControlRuns
<1>5. CASE agents[c].record = None
  BY <1>1, <1>2, <1>3, <1>5 DEF IInv, Made, None
<1>6. CASE agents[c].record # None
  <2>1. c \in Recorded(e)
    BY <1>2, <1>6 DEF Recorded
  <2>2. Find(e) \in Recorded(e) /\ Find(e) # 0
    BY <2>1, <1>1, Kinds
  <2>3. Find(e) = c
    BY <2>1, <2>2 DEF Recorded, Started, IInv, OneRecord
  <2>4. x = "interrupt" /\ ~(agents[c].record = "kept" /\ agents[c].live)
    BY <2>2, <2>3, <1>4
  <2>5. ~agents[c].running
    BY <2>4, <1>2 DEF IInv, Made
  <2> QED BY <2>4, <2>5, <1>1, <1>3
<1> QED BY <1>5, <1>6

\* A control that acted, acted on the one agent there is.
LEMMA ActsHold ==
  ASSUME IInv, Drained, NEW e \in Executions, NEW x \in Actions, ControlActs(e, x),
         controls'[e][x].at = "done", NEW c \in controls[e][x].before
  PROVE  /\ creates[c].at \notin InFlight
         /\ ~agents'[c].running
         /\ x = "archive" => agents'[c].record # "kept"
<1> DEFINE a == controls[e][x].agent
<1>1. TypeOK /\ controls[e][x].at = "acting"
  BY DEF ControlActs, IInv
<1>2. /\ c \in Started(e) /\ c \in Creates
      /\ a \in Recorded(e)
      /\ \A d \in PendingCreates(e) : creates[d].at = "find"
  BY <1>1, Kinds DEF IInv, Ordered, OrderOf
<1>3. creates[c].at \notin InFlight
  BY <1>2 DEF PendingCreates, Drained
<1>4. agents' = IF x = "interrupt" THEN [agents EXCEPT ![a].running = FALSE]
                ELSE [agents EXCEPT ![a] = [record |-> "archived", live |-> FALSE,
                                            running |-> FALSE]]
  <2>1. CASE Finish(e, x, "refused")
    <3>1. controls'[e][x].at = "refused"
      BY <2>1, <1>1, FinishFacts DEF Left, ControlStages
    <3> QED BY <3>1
  <2> QED BY <2>1 DEF ControlActs
<1>5. CASE c = a
  <2>1. CASE x = "interrupt"
    <3>1. agents' = [agents EXCEPT ![c].running = FALSE]
      BY <1>4, <1>5, <2>1
    <3>2. ~agents'[c].running
      BY <3>1, <1>1, <1>2 DEF TypeOK, Agent
    <3> QED BY <3>2, <1>3, <2>1
  <2>2. CASE x # "interrupt"
    <3>1. agents'[c] = [record |-> "archived", live |-> FALSE, running |-> FALSE]
      BY <1>4, <1>5, <2>2, <1>1, <1>2 DEF TypeOK
    <3> QED BY <3>1, <1>3
  <2> QED BY <2>1, <2>2
<1>6. CASE c # a
  <2>1. agents'[c] = agents[c]
    BY <1>4, <1>6, <1>1, <1>2 DEF TypeOK
  <2>2. agents[c].record = None
    BY <1>2, <1>6 DEF Recorded, Started, IInv, OneRecord
  <2>3. ~agents[c].running
    BY <2>2, <1>2 DEF IInv, Made, None
  <2> QED BY <2>1, <2>2, <2>3, <1>3 DEF None
<1> QED BY <1>5, <1>6

\* Only the two steps above make a control done.
LEMMA DoneHolds ==
  ASSUME IInv, [Next]_vars, NEW e \in Executions, NEW x \in Actions,
         controls[e][x].at # "done", controls'[e][x].at = "done"
  PROVE  \/ ControlRuns(e, x)
         \/ Drained /\ ControlActs(e, x)
<1>1. TypeOK
  BY DEF IInv
<1>2. ASSUME NEW d \in Creates, NEW how \in Stages, NEW r \in Creates \cup {0}, Settle(d, how, r)
      PROVE  FALSE
  BY <1>1, <1>2, SettleFacts
<1>3. ASSUME NEW d \in Creates, CreateFinds(d) PROVE FALSE
  <2>1. creates[d].exec \in Executions
    BY <1>3, NoneActing DEF CreateFinds, InFlight
  <2>2. Find(creates[d].exec) \in Creates \cup {0}
    BY <2>1, <1>1, Kinds
  <2>3. {"done", "failed"} \subseteq Stages
    BY DEF Stages
  <2> QED BY <1>2, <1>3, <2>2, <2>3 DEF CreateFinds, Move
<1>4. ASSUME NEW d \in Creates, CreateSteps(d) PROVE FALSE
  <2>1. {"done", "failed"} \subseteq Stages
    BY DEF Stages
  <2> QED BY <1>2, <1>4, <2>1
          DEF CreateSteps, MakeWorktree, Register, Prompt, CloseAgent, CleanWorktree,
              RemoveRecord, Move
<1>5. ASSUME NEW f \in Executions, NEW y \in Actions, f # e \/ y # x,
             Control(f, y) \/ ControlRuns(f, y) \/ ControlActs(f, y)
      PROVE  FALSE
  <2>1. ASSUME NEW how \in ControlStages, Finish(f, y, how) PROVE FALSE
    <3>1. Left(f, y, how)
      BY <1>1, <2>1, FinishFacts
    <3> QED BY <3>1, <1>5 DEF Left
  <2>2. {"done", "refused"} \subseteq ControlStages
    BY DEF ControlStages
  <2>3. CASE Control(f, y)
    BY <2>3, <1>1, <1>5 DEF Control, TypeOK
  <2>4. CASE ControlRuns(f, y)
    <3>1. CASE controls' = [controls EXCEPT ![f][y].at = "acting", ![f][y].agent = Find(f)]
      BY <3>1, <1>1, <1>5 DEF TypeOK
    <3> QED BY <3>1, <2>1, <2>2, <2>4 DEF ControlRuns
  <2>5. CASE ControlActs(f, y)
    BY <2>1, <2>2, <2>5 DEF ControlActs
  <2> QED BY <1>5, <2>3, <2>4, <2>5
<1>6. ASSUME Control(e, x) PROVE FALSE
  <2>1. controls'[e][x].at = "waiting"
    BY <1>6, <1>1 DEF Control, TypeOK
  <2> QED BY <2>1
<1>7. CASE Crash
  <2>1. controls'[e][x] =
          IF x \in PendingControls(e)
          THEN [controls[e][x] EXCEPT !.at = "idle", !.behind = {}, !.awaits = {}]
          ELSE controls[e][x]
    BY <1>7 DEF Crash
  <2> QED BY <2>1, <1>1 DEF TypeOK, Steering
<1>8. CASE \/ InvalidateAuthority \/ UNCHANGED vars
           \/ (\E f \in Executions, d \in Creates : Create(f, d))
           \/ (\E d \in Creates : EndTurn(d))
  BY <1>8 DEF InvalidateAuthority, vars, Create, EndTurn
<1> QED BY <1>3, <1>4, <1>5, <1>6, <1>7, <1>8 DEF Next, Request, Continue, Operate

\* A control that succeeds holds for every create asked for before it.
THEOREM ControlsHold == Spec => ControlHolds
<1>1. IInv /\ [Next]_vars =>
        [\A e \in Executions, x \in Actions :
           controls[e][x].at # "done" /\ controls'[e][x].at = "done"
             => \A c \in controls[e][x].before :
                  /\ creates[c].at \notin InFlight
                  /\ ~agents'[c].running
                  /\ x = "archive" => agents'[c].record # "kept"]_vars
  BY DoneHolds, RunsHold, ActsHold
<1> QED BY <1>1, Invariance, PTL DEF Spec, ControlHolds
=============================================================================
