---------------------------- MODULE RelayLinkProofs ----------------------------
(***************************************************************************)
(* Proofs about RelayLink, for any number of connections, hellos and        *)
(* faults: whatever the relay delivers, in whatever order sockets end, the  *)
(* session is honest about what is attached to it, and a client that thinks *)
(* it is connected is attached or will be told that it is not.              *)
(***************************************************************************)
EXTENDS RelayLink, FiniteSetTheorems, TLAPS

DaemonType ==
  /\ data \in [Conns -> {"none", "dialing", "open"}]
  /\ chan \in [Conns -> {"none", "waiting", "replying", "open"}]
  /\ session \in [alive : BOOLEAN, sockets : SUBSET Conns, grace : BOOLEAN]

\* A handshake runs on an open data socket, and a socket waits for its hello, or
\* is attached, once the handshake is over.
Layered ==
  /\ \A c \in Conns : chan[c] # "none" => data[c] = "open"
  /\ \A c \in Conns : c \in pending \cup session.sockets => chan[c] = "open"
  /\ \A c \in Conns : c \notin pending \cap session.sockets

\* Grace is for a session that is alive, and only such a one has sockets.
Graceful ==
  /\ session.sockets # {} => session.alive
  /\ session.grace <=> session.alive /\ session.sockets = {}

IInv == DaemonType /\ Layered /\ Graceful

----------------------------------------------------------------------------
\* A hello makes the session alive, attached and off the timer.
LEMMA AttachedFacts ==
  ASSUME DaemonType, NEW c \in Conns
  PROVE  /\ Attached(c) \in [alive : BOOLEAN, sockets : SUBSET Conns, grace : BOOLEAN]
         /\ Attached(c).alive /\ ~Attached(c).grace
         /\ c \in Attached(c).sockets
         /\ Attached(c).sockets \subseteq session.sockets \cup {c}
BY DEF Attached, DaemonType

\* The end of a socket detaches it alone, and the last one starts the timer.
LEMMA DetachedFacts ==
  ASSUME DaemonType, NEW c
  PROVE  /\ Detached(c) \in [alive : BOOLEAN, sockets : SUBSET Conns, grace : BOOLEAN]
         /\ Detached(c).sockets = session.sockets \ {c}
         /\ Detached(c).alive = session.alive
         /\ Detached(c).grace = IF c \in session.sockets THEN session.sockets = {c}
                                                         ELSE session.grace
BY DEF Detached, DaemonType

\* The end of any data socket keeps the invariant.
LEMMA DataEndsKeeps ==
  ASSUME IInv, NEW c, DataEnds(c)
  PROVE  IInv'
<1>1. DaemonType'
  BY DetachedFacts DEF IInv, DaemonType, DataEnds
<1>2. session'.sockets = session.sockets \ {c} /\ pending' = pending \ {c}
  BY DetachedFacts DEF IInv, DataEnds
<1>3. \A d \in Conns : d # c => data'[d] = data[d] /\ chan'[d] = chan[d]
  BY DEF IInv, DaemonType, DataEnds
<1>4. c \in Conns => chan'[c] = "none"
  BY DEF IInv, DaemonType, DataEnds
<1>5. Layered'
  BY <1>2, <1>3, <1>4 DEF IInv, Layered
<1>6. Graceful'
  BY DetachedFacts DEF IInv, Graceful, DataEnds
<1> QED BY <1>1, <1>5, <1>6 DEF IInv

\* Attaching an open socket that is not attached keeps it.
LEMMA AttachKeeps ==
  ASSUME IInv, NEW c \in Conns, session' = Attached(c), chan' \in [Conns -> {"none", "waiting", "replying", "open"}],
         chan'[c] = "open", \A d \in Conns \ {c} : chan'[d] = chan[d],
         pending' = pending \ {c}, data' = data, data[c] = "open"
  PROVE  IInv'
<1>1. DaemonType'
  BY AttachedFacts DEF IInv, DaemonType
<1>2. Layered'
  BY AttachedFacts DEF IInv, Layered
<1>3. Graceful'
  BY AttachedFacts DEF IInv, Graceful
<1> QED BY <1>1, <1>2, <1>3 DEF IInv

\* What touches none of the daemon's state keeps it.
LEMMA DaemonIdle ==
  ASSUME IInv, UNCHANGED <<data, chan, pending, session>>
  PROVE  IInv'
BY DEF IInv, DaemonType, Layered, Graceful

LEMMA Initially == Init => IInv
BY DEF Init, IInv, DaemonType, Layered, Graceful

LEMMA ControlKeeps ==
  ASSUME IInv, Control
  PROVE  IInv'
<1>1. CASE ControlOpens \/ ControlStale
  BY <1>1, DaemonIdle DEF ControlOpens, ControlStale, daemon
<1>2. CASE ControlGets
  <2>1. CASE DaemonHearsOf
    <3>1. UNCHANGED <<chan, pending, session>>
      BY <2>1 DEF DaemonHearsOf
    <3>2. data' \in [Conns -> {"none", "dialing", "open"}]
      BY <2>1 DEF DaemonHearsOf, Ensured, IInv, DaemonType
    <3>3. \A c \in Conns : data[c] = "open" => data'[c] = "open"
      BY <2>1 DEF DaemonHearsOf, Ensured
    <3> QED BY <3>1, <3>2, <3>3 DEF IInv, DaemonType, Layered, Graceful
  <2>2. CASE DaemonHearsEnd
    BY <2>2, DataEndsKeeps DEF DaemonHearsEnd
  <2>3. CASE DaemonHearsReset
    BY <2>3, DaemonIdle DEF DaemonHearsReset, daemon
  <2> QED BY <1>2, <2>1, <2>2, <2>3 DEF ControlGets
<1> QED BY <1>1, <1>2 DEF Control

LEMMA DataGetsKeeps ==
  ASSUME IInv, NEW c \in Conns, DataGets(c)
  PROVE  IInv'
<1>0. data[c] = "open"
  BY DEF DataGets
<1>1. CASE HelloArrives(c)
  <2>1. /\ UNCHANGED <<data, pending, session>> /\ chan[c] = "waiting"
        /\ chan' = [chan EXCEPT ![c] = "replying"]
    BY <1>1 DEF HelloArrives
  <2> QED BY <1>0, <2>1 DEF IInv, DaemonType, Layered, Graceful
<1>2. CASE SocketEnds(c)
  BY <1>2, DataEndsKeeps DEF SocketEnds
<1>3. CASE Buffers(c) \/ Rehello(c)
  BY <1>3, DaemonIdle DEF Buffers, Rehello
<1>4. CASE AppArrives(c)
  <2>1. chan[c] = "open" /\ UNCHANGED <<data, chan>> /\ AppHello(c)
    BY <1>4 DEF AppArrives
  <2>2. CASE c \in pending
    <3>1. session' = Attached(c) /\ pending' = pending \ {c}
      BY <2>1, <2>2 DEF AppHello
    <3> QED BY <1>0, <2>1, <3>1, AttachKeeps DEF IInv, DaemonType
  <2>3. CASE c \notin pending
    BY <2>1, <2>3, DaemonIdle DEF AppHello
  <2> QED BY <2>2, <2>3
<1> QED BY <1>1, <1>2, <1>3, <1>4 DEF DataGets

LEMMA DataAdvancesKeeps ==
  ASSUME IInv, NEW c \in Conns, DataAdvances(c)
  PROVE  IInv'
<1>1. CASE DataOpens(c)
  <2>1. /\ data[c] = "dialing" /\ UNCHANGED <<pending, session>>
        /\ data' = [data EXCEPT ![c] = "open"] /\ chan' = [chan EXCEPT ![c] = "waiting"]
    BY <1>1 DEF DataOpens
  <2>2. c \notin pending \cup session.sockets
    BY <2>1 DEF IInv, Layered
  <2> QED BY <2>1, <2>2 DEF IInv, DaemonType, Layered, Graceful
<1>2. CASE ReadySent(c)
  <2>1. /\ chan[c] = "replying" /\ chan' = [chan EXCEPT ![c] = "open"] /\ data' = data
    BY <1>2 DEF ReadySent
  <2>2. data[c] = "open" /\ c \notin pending \cup session.sockets
    BY <2>1 DEF IInv, Layered
  <2>3. CASE Count(buffered[c], "app") > 0
    <3>1. session' = Attached(c) /\ pending' = pending
      BY <1>2, <2>3 DEF ReadySent
    <3> QED BY <2>1, <2>2, <3>1, AttachKeeps DEF IInv, DaemonType
  <2>4. CASE ~(Count(buffered[c], "app") > 0)
    <3>1. session' = session /\ pending' = pending \cup {c}
      BY <1>2, <2>4 DEF ReadySent
    <3> QED BY <2>1, <2>2, <3>1 DEF IInv, DaemonType, Layered, Graceful
  <2> QED BY <2>3, <2>4
<1> QED BY <1>1, <1>2 DEF DataAdvances

LEMMA Steps ==
  ASSUME IInv, [Next]_vars
  PROVE  IInv'
<1>1. CASE Control
  BY <1>1, ControlKeeps
<1>2. CASE ControlDrops \/ Hibernate
  BY <1>2, DaemonIdle DEF ControlDrops, Hibernate, daemon
<1>3. CASE GraceExpires
  <2>1. session.grace /\ session' = [alive |-> FALSE, sockets |-> {}, grace |-> FALSE]
    BY <1>3 DEF GraceExpires
  <2>2. UNCHANGED <<data, chan, pending>>
    BY <1>3 DEF GraceExpires
  <2> QED BY <2>1, <2>2 DEF IInv, DaemonType, Layered, Graceful
<1>4. ASSUME NEW c \in Conns,
             RelaySeesClose(c) \/ Nudge(c) \/ SendHello(c) \/ ClientGets(c) \/ Dial(c) \/ ClientCloses(c)
      PROVE  IInv'
  BY <1>4, DaemonIdle DEF RelaySeesClose, RelaySeesClientClose, RelaySeesServerClose,
     RelaySeesReplacedClose, Nudge, NudgeFirst, NudgeSecond, SendHello, ClientGets, Dial,
     ClientCloses, daemon
<1>5. ASSUME NEW c \in Conns, DataAdvances(c) PROVE IInv'
  BY <1>5, DataAdvancesKeeps
<1>6. ASSUME NEW c \in Conns, DataGets(c) PROVE IInv'
  BY <1>6, DataGetsKeeps
<1>7. ASSUME NEW c \in Conns, DialFails(c) PROVE IInv'
  <2>1. /\ data[c] = "dialing" /\ UNCHANGED <<chan, pending, session>>
        /\ data' = [data EXCEPT ![c] = "none"]
    BY <1>7 DEF DialFails
  <2> QED BY <2>1 DEF IInv, DaemonType, Layered, Graceful
<1>8. ASSUME NEW c \in Conns, DataDrops(c) \/ HelloTimesOut(c) PROVE IInv'
  BY <1>8, DataEndsKeeps DEF DataDrops, HelloTimesOut
<1>9. CASE UNCHANGED vars
  BY <1>9, DaemonIdle DEF vars, daemon
<1> QED BY <1>1, <1>2, <1>3, <1>4, <1>5, <1>6, <1>7, <1>8, <1>9 DEF Next

\* The daemon keeps a client's session on its grace timer exactly while nothing is
\* attached to it, and what is attached has an open channel on an open socket
\* (websocket-server.ts attachSocket and detachSocket over relay-transport.ts), for
\* any number of reconnections and whatever is lost.
THEOREM SessionIsHonest == Spec => []SessionHonest
<1>1. IInv => SessionHonest
  BY DEF IInv, DaemonType, Layered, Graceful, SessionHonest
<1> QED BY <1>1, Initially, Steps, PTL DEF Spec

----------------------------------------------------------------------------
(* Every notice is about connections that were dialed. *)

NoticeType == [type : {"sync", "connected", "disconnected", "close"}, ids : SUBSET Conns]
Notices == Seq(NoticeType)
Stages == {"idle", "handshaking", "open", "connected", "closed"}

Dialed ==
  /\ client \in [Conns -> Stages] /\ notices \in Notices /\ clientAt \subseteq Conns
  /\ \A c \in clientAt : client[c] # "idle"
  /\ \A i \in 1..Len(notices) : \A c \in notices[i].ids : client[c] # "idle"
  /\ \A c \in Conns : client[c] = "idle" => data[c] = "none"

LEMMA NoticeIds ==
  ASSUME NEW ns \in Notices
  PROVE  \A i \in 1..Len(ns) : ns[i].ids \subseteq Conns
<1>1. \A i \in 1..Len(ns) : ns[i] \in NoticeType
  BY DEF Notices
<1> QED BY <1>1 DEF NoticeType

\* A notice about connections that were dialed.
LEMMA NotifyKeeps ==
  ASSUME notices \in Notices, NEW n \in NoticeType, Notify(n),
         \A c \in Conns : client[c] # "idle" => client'[c] # "idle",
         \A c \in n.ids : client'[c] # "idle",
         \A i \in 1..Len(notices) : \A c \in notices[i].ids : client[c] # "idle"
  PROVE  /\ notices' \in Notices
         /\ \A i \in 1..Len(notices') : \A c \in notices'[i].ids : client'[c] # "idle"
<1>0. \A i \in 1..Len(notices) : \A c \in notices[i].ids : client'[c] # "idle"
  BY NoticeIds
<1>1. CASE notices' = notices
  BY <1>0, <1>1
<1>2. CASE notices' = Append(notices, n)
  <2>1. /\ notices' \in Notices /\ Len(notices') = Len(notices) + 1
        /\ notices'[Len(notices) + 1] = n
        /\ \A i \in 1..Len(notices) : notices'[i] = notices[i]
    BY <1>2 DEF Notices
  <2>2. Len(notices) \in Nat
    BY DEF Notices
  <2> QED BY <1>0, <2>1, <2>2
<1> QED BY <1>1, <1>2 DEF Notify

LEMMA ListingTypes ==
  ASSUME clientAt \in SUBSET Conns
  PROVE  /\ Listing(clientAt) \in NoticeType /\ Listing(clientAt).ids = clientAt
         /\ ControlClose \in NoticeType /\ ControlClose.ids = {}
BY DEF Listing, ControlClose, NoticeType

LEMMA NoticeTypes ==
  ASSUME NEW c \in Conns
  PROVE  /\ Notice("connected", c) \in NoticeType /\ Notice("connected", c).ids = {c}
         /\ Notice("disconnected", c) \in NoticeType /\ Notice("disconnected", c).ids = {c}
BY DEF Notice, NoticeType

LEMMA DialedInitially == Init => Dialed
BY DEF Init, Dialed, Stages, Notices

\* A step that says nothing new on the control socket and opens no data socket.
LEMMA DialedIdle ==
  ASSUME Dialed, UNCHANGED notices, clientAt' \subseteq clientAt,
         client' \in [Conns -> Stages],
         \A c \in Conns : client[c] # "idle" => client'[c] # "idle",
         \A c \in Conns : data'[c] # "none" => data[c] # "none"
  PROVE  Dialed'
<1>1. \A i \in 1..Len(notices) : notices[i].ids \subseteq Conns
  BY NoticeIds DEF Dialed
<1> QED BY <1>1 DEF Dialed

LEMMA DataEndsDialed ==
  ASSUME IInv, NEW c, DataEnds(c)
  PROVE  \A d \in Conns : data'[d] # "none" => data[d] # "none"
BY DEF DataEnds, IInv, DaemonType

LEMMA ControlKeepsDialed ==
  ASSUME IInv, Dialed, Control
  PROVE  Dialed'
<1>0. UNCHANGED <<client, clientAt>>
  BY DEF Control, ControlOpens, ControlGets, ControlStale, relay
<1>1. CASE ControlOpens
  <2>1. notices' = <<Listing(clientAt)>> /\ data' = data
    BY <1>1 DEF ControlOpens, daemon
  <2>2. Listing(clientAt) \in NoticeType /\ Listing(clientAt).ids = clientAt
    BY DEF Dialed, Listing, NoticeType
  <2>3. notices' \in Notices /\ Len(notices') = 1 /\ notices'[1].ids = clientAt
    BY <2>1, <2>2 DEF Notices
  <2> QED BY <1>0, <2>1, <2>3 DEF Dialed
<1>2. CASE ControlGets
  <2>1. notices # <<>> /\ notices' = Tail(notices)
    BY <1>2 DEF ControlGets
  <2>2. notices' \in Notices
    BY <2>1 DEF Dialed, Notices
  <2>3. \A i \in 1..Len(notices') : \A c \in notices'[i].ids : client'[c] # "idle"
    BY <1>0, <2>1 DEF Dialed, Notices
  <2>4. ASSUME NEW c \in Conns, client[c] = "idle" PROVE data'[c] = "none"
    <3>1. data[c] = "none"
      BY <2>4 DEF Dialed
    <3>2. CASE DaemonHearsOf
      <4>1. c \notin Head(notices).ids
        BY <2>1, <2>4 DEF Dialed, Notices
      <4> QED BY <3>1, <3>2, <4>1 DEF DaemonHearsOf, Ensured
    <3>3. CASE DaemonHearsEnd
      BY <3>1, <3>3, DataEndsDialed DEF DaemonHearsEnd
    <3>4. CASE DaemonHearsReset
      BY <3>1, <3>4 DEF DaemonHearsReset, daemon
    <3> QED BY <1>2, <3>2, <3>3, <3>4 DEF ControlGets
  <2> QED BY <1>0, <2>2, <2>3, <2>4 DEF Dialed
<1>3. CASE ControlStale
  BY <1>0, <1>3, DialedIdle DEF ControlStale, daemon, Dialed
<1> QED BY <1>1, <1>2, <1>3 DEF Control

LEMMA NoticesKeepDialed ==
  ASSUME Dialed, NEW c \in Conns, Dial(c) \/ RelaySeesClientClose(c) \/ Nudge(c)
  PROVE  Dialed'
<1>1. CASE Dial(c)
  <2>1. /\ client' = [client EXCEPT ![c] = "handshaking"] /\ data' = data
        /\ clientAt' = clientAt \cup {c} /\ Notify(Notice("connected", c))
    BY <1>1 DEF Dial, daemon
  <2>2. /\ client' \in [Conns -> Stages] /\ client'[c] # "idle"
        /\ \A d \in Conns : client[d] # "idle" => client'[d] # "idle"
    BY <2>1 DEF Dialed, Stages
  <2>3. /\ notices' \in Notices
        /\ \A i \in 1..Len(notices') : \A d \in notices'[i].ids : client'[d] # "idle"
    BY <2>1, <2>2, NotifyKeeps, NoticeTypes DEF Dialed
  <2> QED BY <2>1, <2>2, <2>3 DEF Dialed
<1>2. CASE RelaySeesClientClose(c)
  <2>1. /\ UNCHANGED <<client, data>> /\ client[c] = "closed"
        /\ clientAt' = clientAt \ {c} /\ Notify(Notice("disconnected", c))
    BY <1>2 DEF RelaySeesClientClose, daemon
  <2>2. /\ notices' \in Notices
        /\ \A i \in 1..Len(notices') : \A d \in notices'[i].ids : client'[d] # "idle"
    BY <2>1, NotifyKeeps, NoticeTypes DEF Dialed
  <2> QED BY <2>1, <2>2 DEF Dialed
<1>3. CASE Nudge(c)
  <2>1. UNCHANGED <<client, clientAt, data>>
    BY <1>3 DEF Nudge, NudgeFirst, NudgeSecond, daemon
  <2>2. \/ UNCHANGED notices
        \/ Notify(Listing(clientAt)) \/ Notify(ControlClose)
    BY <1>3 DEF Nudge, NudgeFirst, NudgeSecond, ctl
  <2>3. /\ notices' \in Notices
        /\ \A i \in 1..Len(notices') : \A d \in notices'[i].ids : client'[d] # "idle"
    BY <2>1, <2>2, NotifyKeeps, ListingTypes DEF Dialed
  <2> QED BY <2>1, <2>3 DEF Dialed
<1> QED BY <1>1, <1>2, <1>3

LEMMA DialedSteps ==
  ASSUME IInv, Dialed, [Next]_vars
  PROVE  Dialed'
<1>1. CASE Control
  BY <1>1, ControlKeepsDialed
<1>2. CASE ControlDrops
  <2>1. notices' = <<>> /\ UNCHANGED <<client, clientAt, data>>
    BY <1>2 DEF ControlDrops, relay, daemon
  <2> QED BY <2>1 DEF Dialed, Notices
<1>3. CASE GraceExpires \/ Hibernate \/ UNCHANGED vars
  BY <1>3, DialedIdle DEF GraceExpires, Hibernate, vars, relay, ctl, daemon, Dialed
<1>4. ASSUME NEW c \in Conns, Dial(c) \/ RelaySeesClientClose(c) \/ Nudge(c) PROVE Dialed'
  BY <1>4, NoticesKeepDialed
<1>5. ASSUME NEW c \in Conns, RelaySeesServerClose(c) \/ RelaySeesReplacedClose(c) \/ SendHello(c)
      PROVE  Dialed'
  BY <1>5, DialedIdle
     DEF RelaySeesServerClose, RelaySeesReplacedClose, SendHello, ctl, daemon, Dialed
<1>6. ASSUME NEW c \in Conns, ClientGets(c) \/ ClientCloses(c) PROVE Dialed'
  <2>1. UNCHANGED <<clientAt, notices, data>>
    BY <1>6 DEF ClientGets, ClientCloses, relay, ctl, daemon
  <2>2. /\ client' \in [Conns -> Stages]
        /\ \A d \in Conns : client[d] # "idle" => client'[d] # "idle"
    BY <1>6 DEF ClientGets, ClientCloses, ClientOpens, ClientConnects, ClientHearsClose,
                ClientIgnores, Dialed, Stages
  <2> QED BY <2>1, <2>2, DialedIdle
<1>7. ASSUME NEW c \in Conns, DataAdvances(c) \/ DialFails(c) PROVE Dialed'
  <2>1. UNCHANGED <<client, clientAt, notices>>
    BY <1>7 DEF DataAdvances, DataOpens, ReadySent, DialFails, relay, ctl
  <2>2. \A d \in Conns : data'[d] # "none" => data[d] # "none"
    BY <1>7 DEF DataAdvances, DataOpens, ReadySent, DialFails, IInv, DaemonType
  <2> QED BY <2>1, <2>2, DialedIdle DEF Dialed
<1>8. ASSUME NEW c \in Conns, DataGets(c) \/ DataDrops(c) \/ HelloTimesOut(c) PROVE Dialed'
  <2>1. UNCHANGED <<client, clientAt, notices>>
    BY <1>8 DEF DataGets, DataDrops, HelloTimesOut, relay, ctl
  <2>2. UNCHANGED data \/ DataEnds(c)
    BY <1>8 DEF DataGets, DataDrops, HelloTimesOut, HelloArrives, SocketEnds, Buffers, Rehello, AppArrives
  <2> QED BY <2>1, <2>2, DialedIdle, DataEndsDialed DEF Dialed
<1> QED BY <1>1, <1>2, <1>3, <1>4, <1>5, <1>6, <1>7, <1>8 DEF Next, RelaySeesClose

----------------------------------------------------------------------------
(* From the session to the client. *)

Frames == {"hello", "ready", "app", "info", "close"}
Queues == [Conns -> Seq(Frames)]
Has(frames, f) == \E i \in 1..Len(frames) : frames[i] = f

LinkType ==
  /\ down \in Queues
  /\ client \in [Conns -> Stages]

\* Nothing is on its way to a client the relay does not hold, and an open data
\* socket of a client it does hold is at the relay.
RelayFollows ==
  /\ \A c \in Conns : c \notin clientAt => down[c] = <<>>
  /\ \A c \in Conns : data[c] = "open" /\ c \in clientAt => c \in serverAt

\* The part of Doomed that can concern a client which has not closed.
Lost(c) == Has(down[c], "close") \/ c \in replaced \/ (c \in serverAt /\ data[c] # "open")

\* The client was told, or is being told, that it is connected.
Told(c) == c \in clientAt /\ client[c] # "closed" /\ (client[c] = "connected" \/ Has(down[c], "info"))

ToldIsAttached == \A c \in Conns : Told(c) => c \in session.sockets \/ Lost(c)

LInv == IInv /\ Dialed /\ LinkType /\ RelayFollows /\ ToldIsAttached

\* Ended asks for a close anywhere in the queue.
LEMMA EndedFacts ==
  ASSUME NEW frames \in Seq(Frames)
  PROVE  Ended(frames) <=> Has(frames, "close")
<1> DEFINE S == {i \in 1..Len(frames) : frames[i] = "close"}
<1>1. IsFiniteSet(1..Len(frames)) /\ S \subseteq 1..Len(frames)
  BY FS_Interval
<1>2. IsFiniteSet(S) /\ Cardinality(S) \in Nat
  BY <1>1, FS_Subset, FS_CardinalityType
<1>3. Cardinality(S) = 0 <=> S = {}
  BY <1>2, FS_EmptySet
<1> QED BY <1>2, <1>3 DEF Ended, Count, Has

\* A pushed frame is the only news, and a queue that has ended stays so.
LEMMA PushFacts ==
  ASSUME NEW q \in Queues, NEW c \in Conns, NEW f \in Frames
  PROVE  /\ Push(q, c, f) \in Queues
         /\ \A d \in Conns \ {c} : Push(q, c, f)[d] = q[d]
         /\ \A g : Has(Push(q, c, f)[c], g) => Has(q[c], g) \/ g = f
         /\ Has(q[c], "close") \/ f = "close" => Has(Push(q, c, f)[c], "close")
<1>1. q[c] \in Seq(Frames)
  BY DEF Queues
<1>2. CASE Ended(q[c])
  BY <1>1, <1>2, EndedFacts DEF Push
<1>3. CASE ~Ended(q[c])
  <2>1. Push(q, c, f) = [q EXCEPT ![c] = Append(q[c], f)]
    BY <1>3 DEF Push
  <2>2. /\ Append(q[c], f) \in Seq(Frames) /\ Len(Append(q[c], f)) = Len(q[c]) + 1
        /\ Append(q[c], f)[Len(q[c]) + 1] = f
        /\ \A i \in 1..Len(q[c]) : Append(q[c], f)[i] = q[c][i]
    BY <1>1
  <2>3. Push(q, c, f)[c] = Append(q[c], f)
    BY <2>1 DEF Queues
  <2>4. \A g : Has(Append(q[c], f), g) => Has(q[c], g) \/ g = f
    BY <1>1, <2>2 DEF Has
  <2>5. Has(q[c], "close") \/ f = "close" => Has(Append(q[c], f), "close")
    BY <1>1, <2>2 DEF Has
  <2>6. Push(q, c, f) \in Queues /\ \A d \in Conns \ {c} : Push(q, c, f)[d] = q[d]
    BY <2>1, <2>2 DEF Queues
  <2> QED BY <2>3, <2>4, <2>5, <2>6
<1> QED BY <1>2, <1>3

\* What the daemon or the relay sends to the client of c.
Sends(c, f) == down' = IF c \in clientAt THEN Push(down, c, f) ELSE down

LEMMA SendsFacts ==
  ASSUME LInv, NEW c \in Conns, NEW f \in Frames, Sends(c, f), UNCHANGED clientAt
  PROVE  /\ down' \in Queues
         /\ \A d \in Conns : d \notin clientAt => down'[d] = <<>>
         /\ \A d \in Conns \ {c} : down'[d] = down[d]
         /\ \A g : Has(down'[c], g) => Has(down[c], g) \/ g = f
         /\ Has(down[c], "close") => Has(down'[c], "close")
         /\ f = "close" /\ c \in clientAt => Has(down'[c], "close")
<1>1. down \in Queues
  BY DEF LInv, LinkType
<1>2. CASE c \in clientAt
  BY <1>1, <1>2, PushFacts DEF Sends, LInv, RelayFollows
<1>3. CASE c \notin clientAt
  BY <1>1, <1>3 DEF Sends, LInv, RelayFollows
<1> QED BY <1>2, <1>3

\* A step that sends a frame other than info and keeps sockets as they are.
LEMMA SendKeeps ==
  ASSUME LInv, IInv', Dialed', NEW c \in Conns, NEW f \in Frames \ {"info"}, Sends(c, f),
         UNCHANGED <<client, clientAt, serverAt, replaced, data, session>>
  PROVE  LInv'
<1>1. LinkType' /\ RelayFollows'
  BY SendsFacts DEF LInv, LinkType, RelayFollows
<1>2. ToldIsAttached'
  BY SendsFacts DEF LInv, ToldIsAttached, Told, Lost
<1> QED BY <1>1, <1>2 DEF LInv

\* An info is sent by the step that attaches.
LEMMA InfoKeeps ==
  ASSUME LInv, IInv', Dialed', NEW c \in Conns, Sends(c, "info"), session' = Attached(c),
         UNCHANGED <<client, clientAt, serverAt, replaced, data>>
  PROVE  LInv'
<1>1. LinkType' /\ RelayFollows'
  BY SendsFacts DEF LInv, LinkType, RelayFollows, Frames
<1>2. c \in session'.sockets /\ session.sockets \subseteq session'.sockets
  BY DEF Attached, LInv, IInv, DaemonType, Graceful
<1>3. ToldIsAttached'
  BY <1>2, SendsFacts DEF LInv, ToldIsAttached, Told, Lost, Frames
<1> QED BY <1>1, <1>3 DEF LInv

\* When the data socket of c ends, the relay still has its side of it.
LEMMA EndKeeps ==
  ASSUME LInv, IInv', Dialed', NEW c \in Conns, DataEnds(c),
         UNCHANGED <<client, clientAt, serverAt, replaced, down>>
  PROVE  LInv'
<1>1. data'[c] = "none" /\ \A d \in Conns \ {c} : data'[d] = data[d]
  BY DEF DataEnds, LInv, IInv, DaemonType
<1>2. session'.sockets = session.sockets \ {c}
  BY DetachedFacts DEF DataEnds, LInv, IInv
<1>3. LinkType' /\ RelayFollows'
  BY <1>1 DEF LInv, LinkType, RelayFollows
<1>4. c \in session.sockets /\ c \in clientAt => c \in serverAt
  BY DEF LInv, IInv, Layered, RelayFollows
<1>5. ASSUME NEW d \in Conns, Told(d)' PROVE d \in session'.sockets \/ Lost(d)'
  <2>1. Told(d) /\ (d \in session.sockets \/ Lost(d))
    BY <1>5 DEF LInv, ToldIsAttached, Told
  <2>2. CASE d = c
    BY <1>1, <1>4, <2>1, <2>2 DEF Lost, Told
  <2>3. CASE d # c
    BY <1>1, <1>2, <2>1, <2>3 DEF Lost
  <2> QED BY <2>2, <2>3
<1> QED BY <1>3, <1>5 DEF LInv, ToldIsAttached

\* A step that changes nothing of the link.
LEMMA LinkIdle ==
  ASSUME LInv, IInv', Dialed', UNCHANGED <<client, clientAt, serverAt, replaced, data, down>>,
         session'.sockets = session.sockets
  PROVE  LInv'
BY DEF LInv, LinkType, RelayFollows, ToldIsAttached, Told, Lost

LEMMA LinkInitially == Init => LInv
<1> SUFFICES ASSUME Init PROVE LInv
  OBVIOUS
<1>1. IInv /\ Dialed
  BY Initially, DialedInitially
<1>2. LinkType /\ RelayFollows
  BY DEF Init, LinkType, RelayFollows, Queues, Stages
<1>3. ToldIsAttached
  BY DEF Init, ToldIsAttached, Told
<1> QED BY <1>1, <1>2, <1>3 DEF LInv

LEMMA ControlKeepsLink ==
  ASSUME LInv, IInv', Dialed', Control
  PROVE  LInv'
<1>1. CASE ControlOpens \/ ControlStale
  BY <1>1, LinkIdle DEF ControlOpens, ControlStale, daemon, relay
<1>2. CASE ControlGets
  <2>0. UNCHANGED <<client, clientAt, serverAt, replaced, down>>
    BY <1>2 DEF ControlGets, relay
  <2>1. CASE DaemonHearsOf
    <3>1. \A c \in Conns : data'[c] = "open" <=> data[c] = "open"
      BY <2>1 DEF DaemonHearsOf, Ensured
    <3>2. session' = session
      BY <2>1 DEF DaemonHearsOf
    <3> QED BY <2>0, <3>1, <3>2
            DEF LInv, LinkType, RelayFollows, ToldIsAttached, Told, Lost
  <2>2. CASE DaemonHearsEnd
    <3>1. PICK c : DataEnds(c)
      BY <2>2 DEF DaemonHearsEnd
    <3>2. CASE c \in Conns
      BY <2>0, <3>1, <3>2, EndKeeps
    <3>3. CASE c \notin Conns
      <4>1. data' = data
        BY <3>1, <3>3 DEF DataEnds, LInv, IInv, DaemonType
      <4>2. session'.sockets = session.sockets
        BY <3>1, <3>3 DEF DataEnds, Detached, LInv, IInv, DaemonType
      <4> QED BY <2>0, <4>1, <4>2, LinkIdle
    <3> QED BY <3>2, <3>3
  <2>3. CASE DaemonHearsReset
    BY <2>0, <2>3, LinkIdle DEF DaemonHearsReset, daemon
  <2> QED BY <1>2, <2>1, <2>2, <2>3 DEF ControlGets
<1> QED BY <1>1, <1>2 DEF Control

LEMMA DataGetsKeepsLink ==
  ASSUME LInv, IInv', Dialed', NEW c \in Conns, DataGets(c)
  PROVE  LInv'
<1>0. UNCHANGED <<client, clientAt, serverAt, replaced>>
  BY DEF DataGets, relay
<1>1. CASE HelloArrives(c) \/ Rehello(c)
  BY <1>0, <1>1, SendKeeps DEF HelloArrives, Rehello, Sends, Frames
<1>2. CASE SocketEnds(c)
  BY <1>0, <1>2, EndKeeps DEF SocketEnds
<1>3. CASE Buffers(c)
  BY <1>0, <1>3, LinkIdle DEF Buffers
<1>4. CASE AppArrives(c)
  <2>1. data' = data /\ AppHello(c)
    BY <1>4 DEF AppArrives
  <2>2. CASE c \in pending
    BY <1>0, <2>1, <2>2, InfoKeeps DEF AppHello, Sends
  <2>3. CASE c \notin pending
    BY <1>0, <2>1, <2>3, LinkIdle DEF AppHello
  <2> QED BY <2>2, <2>3
<1> QED BY <1>1, <1>2, <1>3, <1>4 DEF DataGets

LEMMA DataAdvancesKeepsLink ==
  ASSUME LInv, IInv', Dialed', NEW c \in Conns, DataAdvances(c)
  PROVE  LInv'
<1>1. CASE DataOpens(c)
  <2>1. /\ data[c] = "dialing" /\ UNCHANGED <<client, clientAt, session, down>>
        /\ data' = [data EXCEPT ![c] = "open"] /\ serverAt' = serverAt \cup {c}
        /\ replaced' = IF c \in serverAt THEN replaced \cup {c} ELSE replaced
    BY <1>1 DEF DataOpens
  <2>2. LinkType' /\ RelayFollows'
    BY <2>1 DEF LInv, LinkType, RelayFollows, IInv, DaemonType
  <2>3. ASSUME NEW d \in Conns, Lost(d) PROVE Lost(d)'
    BY <2>1, <2>3 DEF Lost, LInv, IInv, DaemonType
  <2> QED BY <2>1, <2>2, <2>3 DEF LInv, ToldIsAttached, Told
<1>2. CASE ReadySent(c)
  <2>1. UNCHANGED <<client, clientAt, serverAt, replaced, data>>
    BY <1>2 DEF ReadySent, relay
  <2>2. CASE Count(buffered[c], "app") > 0
    BY <1>2, <2>1, <2>2, InfoKeeps DEF ReadySent, Sends
  <2>3. CASE ~(Count(buffered[c], "app") > 0)
    BY <1>2, <2>1, <2>3, LinkIdle DEF ReadySent
  <2> QED BY <2>2, <2>3
<1> QED BY <1>1, <1>2 DEF DataAdvances

LEMMA RelaySeesCloseKeepsLink ==
  ASSUME LInv, IInv', Dialed', NEW c \in Conns, RelaySeesClose(c)
  PROVE  LInv'
<1>0. UNCHANGED <<client, data, session>>
  BY DEF RelaySeesClose, RelaySeesClientClose, RelaySeesServerClose, RelaySeesReplacedClose, daemon
<1>1. CASE RelaySeesClientClose(c)
  <2>1. /\ clientAt' = clientAt \ {c} /\ serverAt' = serverAt \ {c}
        /\ replaced' = replaced \ {c} /\ down' = [down EXCEPT ![c] = <<>>]
    BY <1>1 DEF RelaySeesClientClose
  <2>2. LinkType' /\ RelayFollows'
    BY <1>0, <2>1 DEF LInv, LinkType, RelayFollows, Queues
  <2>3. \A d \in Conns \ {c} : down'[d] = down[d]
    BY <2>1 DEF LInv, LinkType, Queues
  <2> QED BY <1>0, <2>1, <2>2, <2>3 DEF LInv, ToldIsAttached, Told, Lost
<1>2. CASE RelaySeesServerClose(c) \/ RelaySeesReplacedClose(c)
  <2>1. /\ clientAt' = clientAt /\ Sends(c, "close")
        /\ \A d \in Conns \ {c} : /\ d \in serverAt' <=> d \in serverAt
                                  /\ d \in replaced' <=> d \in replaced
        /\ data[c] = "open" => serverAt' = serverAt
    BY <1>2 DEF RelaySeesServerClose, RelaySeesReplacedClose, ServerGone, Sends
  <2>2. "close" \in Frames
    BY DEF Frames
  <2>3. LinkType' /\ RelayFollows'
    BY <1>0, <2>1, <2>2, SendsFacts DEF LInv, LinkType, RelayFollows
  <2>4. ASSUME NEW d \in Conns, Told(d)' PROVE d \in session'.sockets \/ Lost(d)'
    <3>1. CASE d = c
      BY <2>1, <2>2, <2>4, <3>1, SendsFacts DEF Told, Lost
    <3>2. CASE d # c
      BY <1>0, <2>1, <2>2, <2>4, <3>2, SendsFacts DEF LInv, ToldIsAttached, Told, Lost
    <3> QED BY <3>1, <3>2
  <2> QED BY <2>3, <2>4 DEF LInv, ToldIsAttached
<1> QED BY <1>1, <1>2 DEF RelaySeesClose

LEMMA ClientGetsKeepsLink ==
  ASSUME LInv, IInv', Dialed', NEW c \in Conns, ClientGets(c)
  PROVE  LInv'
<1>1. /\ client[c] # "closed" /\ down[c] # <<>> /\ down' = [down EXCEPT ![c] = Tail(@)]
      /\ UNCHANGED <<clientAt, serverAt, replaced, data, session>>
  BY DEF ClientGets, daemon
<1>2. down[c] \in Seq(Frames) /\ c \in clientAt
  BY <1>1 DEF LInv, LinkType, RelayFollows, Queues
<1>3. /\ Tail(down[c]) \in Seq(Frames)
      /\ \A g : Has(Tail(down[c]), g) => Has(down[c], g)
      /\ Has(down[c], "close") => Has(Tail(down[c]), "close") \/ Head(down[c]) = "close"
      /\ Has(down[c], Head(down[c]))
  BY <1>1, <1>2 DEF Has
<1>4. down'[c] = Tail(down[c]) /\ \A d \in Conns \ {c} : down'[d] = down[d]
  BY <1>1 DEF LInv, LinkType, Queues
<1>5. /\ client' \in [Conns -> Stages]
      /\ \A d \in Conns \ {c} : client'[d] = client[d]
      /\ Head(down[c]) = "close" => client'[c] = "closed"
      /\ client'[c] = "connected" => client[c] = "connected" \/ Head(down[c]) = "info"
  BY DEF ClientGets, ClientOpens, ClientConnects, ClientHearsClose, ClientIgnores, LInv, LinkType, Stages
<1>6. LinkType' /\ RelayFollows'
  BY <1>1, <1>2, <1>3, <1>4, <1>5 DEF LInv, LinkType, RelayFollows, Queues
<1>7. ASSUME NEW d \in Conns, Told(d)' PROVE d \in session'.sockets \/ Lost(d)'
  <2>1. CASE d = c
    BY <1>1, <1>2, <1>3, <1>4, <1>5, <1>7, <2>1 DEF LInv, ToldIsAttached, Told, Lost
  <2>2. CASE d # c
    BY <1>1, <1>4, <1>5, <1>7, <2>2 DEF LInv, ToldIsAttached, Told, Lost
  <2> QED BY <2>1, <2>2
<1> QED BY <1>6, <1>7 DEF LInv, ToldIsAttached

LEMMA ClientActsKeepsLink ==
  ASSUME LInv, IInv', Dialed', NEW c \in Conns, Dial(c) \/ ClientCloses(c)
  PROVE  LInv'
<1>1. UNCHANGED <<serverAt, replaced, data, session, down>>
  BY DEF Dial, ClientCloses, relay, daemon
<1>2. /\ client' \in [Conns -> Stages]
      /\ \A d \in Conns : client'[d] = "connected" => client[d] = "connected"
      /\ \A d \in Conns : client'[d] # "closed" => client[d] # "closed"
  BY DEF Dial, ClientCloses, LInv, LinkType, Stages
<1>3. /\ clientAt \subseteq clientAt'
      /\ \A d \in Conns : d \in clientAt' \ clientAt => client[d] = "idle"
  BY DEF Dial, ClientCloses, relay
<1>4. \A d \in Conns : ~Has(<<>>, "info")
  BY DEF Has
<1>5. \A d \in Conns : data[d] = "open" /\ d \in clientAt' => d \in serverAt
  BY <1>3 DEF LInv, Dialed, RelayFollows
<1>6. LinkType' /\ RelayFollows'
  BY <1>1, <1>2, <1>3, <1>5 DEF LInv, LinkType, RelayFollows
<1>7. ToldIsAttached'
  BY <1>1, <1>2, <1>3, <1>4 DEF LInv, ToldIsAttached, Told, Lost, RelayFollows
<1> QED BY <1>6, <1>7 DEF LInv

LEMMA LinkSteps ==
  ASSUME LInv, IInv', Dialed', [Next]_vars
  PROVE  LInv'
<1>1. CASE Control
  BY <1>1, ControlKeepsLink
<1>2. CASE ControlDrops \/ Hibernate
  BY <1>2, LinkIdle DEF ControlDrops, Hibernate, daemon, relay
<1>3. CASE GraceExpires
  BY <1>3, LinkIdle DEF GraceExpires, relay, LInv, IInv, Graceful
<1>4. ASSUME NEW c \in Conns, RelaySeesClose(c) PROVE LInv'
  BY <1>4, RelaySeesCloseKeepsLink
<1>5. ASSUME NEW c \in Conns, Nudge(c) \/ SendHello(c) PROVE LInv'
  BY <1>5, LinkIdle DEF Nudge, NudgeFirst, NudgeSecond, SendHello, daemon
<1>6. ASSUME NEW c \in Conns, DataAdvances(c) PROVE LInv'
  BY <1>6, DataAdvancesKeepsLink
<1>7. ASSUME NEW c \in Conns, DataGets(c) PROVE LInv'
  BY <1>7, DataGetsKeepsLink
<1>8. ASSUME NEW c \in Conns, ClientGets(c) PROVE LInv'
  BY <1>8, ClientGetsKeepsLink
<1>9. ASSUME NEW c \in Conns, Dial(c) \/ ClientCloses(c) PROVE LInv'
  BY <1>9, ClientActsKeepsLink
<1>10. ASSUME NEW c \in Conns, DialFails(c) PROVE LInv'
  <2>1. /\ data[c] = "dialing" /\ data' = [data EXCEPT ![c] = "none"]
        /\ UNCHANGED <<client, clientAt, serverAt, replaced, session, down>>
    BY <1>10 DEF DialFails, relay
  <2>2. \A d \in Conns : data'[d] = "open" <=> data[d] = "open"
    BY <2>1 DEF LInv, IInv, DaemonType
  <2> QED BY <2>1, <2>2 DEF LInv, LinkType, RelayFollows, ToldIsAttached, Told, Lost
<1>11. ASSUME NEW c \in Conns, DataDrops(c) \/ HelloTimesOut(c) PROVE LInv'
  BY <1>11, EndKeeps DEF DataDrops, HelloTimesOut, relay
<1>12. CASE UNCHANGED vars
  BY <1>12, LinkIdle DEF vars, daemon, relay
<1> QED BY <1>1, <1>2, <1>3, <1>4, <1>5, <1>6, <1>7, <1>8, <1>9, <1>10, <1>11, <1>12 DEF Next

\* A client that was told it is connected (server_info, daemon-client.ts) is attached
\* to the daemon's session, or a close is on its way to it through the relay
\* (cloudflare-adapter.ts webSocketClose), for any number of reconnections.
THEOREM ConnectedClientsAreAttached == Spec => []ConnectedIsAttached
<1>1. ASSUME LInv PROVE ConnectedIsAttached
  <2>1. ASSUME NEW c \in Conns, client[c] = "connected", c \in clientAt
        PROVE  c \in session.sockets \/ Doomed(c)
    <3>1. c \in session.sockets \/ Lost(c)
      BY <1>1, <2>1 DEF LInv, ToldIsAttached, Told
    <3>2. Has(down[c], "close") => Ended(down[c])
      BY <1>1, EndedFacts DEF LInv, LinkType, Queues
    <3> QED BY <3>1, <3>2 DEF Lost, Doomed
  <2> QED BY <2>1 DEF ConnectedIsAttached
<1>2. LInv /\ [Next]_vars => LInv'
  BY Steps, DialedSteps, LinkSteps DEF LInv
<1> QED BY <1>1, <1>2, LinkInitially, PTL DEF Spec

=============================================================================
