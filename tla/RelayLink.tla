------------------------------ MODULE RelayLink ------------------------------
(***************************************************************************)
(* A remote client's link to the daemon.  The client dials the relay, the   *)
(* relay tells the daemon over the control socket, the daemon dials a data  *)
(* socket for that client, both ends run the e2ee handshake over the pair   *)
(* of sockets, and the client's hello attaches the socket to the session    *)
(* the daemon keeps for the client across reconnects.                       *)
(*                                                                          *)
(* A connection c is one socket of the client: the relay gives each a fresh *)
(* id.  Frames on one socket keep their order; the hop from a sender to the *)
(* relay is one step with the sending, the hop from the relay is a queue.   *)
(* A "close" is the last thing a queue delivers.                            *)
(***************************************************************************)
EXTENDS Naturals, Sequences, FiniteSets

CONSTANTS MaxConns,     \* bound: the sockets the client opens
          MaxHellos,    \* bound: hellos or readies under way on one connection
          MaxFaults     \* bound: failed dials, dropped data and control sockets

ASSUME LinkAssumption == MaxConns \in Nat /\ MaxHellos \in Nat /\ MaxFaults \in Nat

Conns == 1..MaxConns

VARIABLES
  client,    \* the client's end: "idle", "handshaking", "open", "connected", "closed"
  clientAt,  \* the connections whose client socket the relay holds
  serverAt,  \* the connections whose server data socket the relay holds
  replaced,  \* replaced server data sockets whose end the relay has not seen
  held,      \* pendingFrames: what the relay keeps for a server that is not there
  nudge,     \* the relay's nudge timer per connection: "none", "first", "second"
  control,   \* the control socket: "down", "up", "lost" (half open)
  notices,   \* relay to daemon, over the control socket
  missed,    \* history: connections whose "disconnected" notice was lost, or
             \* whose dial failed after the relay's last nudge
  data,      \* dataSockets: "none", "dialing", "open"
  chan,      \* the daemon's end of the handshake: "none", "waiting", "replying", "open"
  buffered,  \* frames that arrive while the ready is being sent
  up, down,  \* relay to daemon, and relay to client, over the data sockets
  pending,   \* pendingConnections: attached, no hello yet
  session,   \* the client's session: [alive, sockets, grace]
  faults

relay == <<clientAt, serverAt, replaced, held, nudge>>
ctl == <<control, notices, missed>>
daemon == <<data, chan, buffered, pending, session>>
vars == <<client, relay, ctl, daemon, up, down, faults>>

Listing(ids) == [type |-> "sync", ids |-> ids]
Notice(kind, c) == [type |-> kind, ids |-> {c}]
ControlClose == [type |-> "close", ids |-> {}]

Init ==
  /\ client = [c \in Conns |-> "idle"]
  /\ clientAt = {} /\ serverAt = {} /\ replaced = {} /\ missed = {}
  /\ held = [c \in Conns |-> <<>>]
  /\ nudge = [c \in Conns |-> "none"]
  /\ control = "down" /\ notices = <<>>
  /\ data = [c \in Conns |-> "none"]
  /\ chan = [c \in Conns |-> "none"]
  /\ buffered = [c \in Conns |-> <<>>]
  /\ up = [c \in Conns |-> <<>>] /\ down = [c \in Conns |-> <<>>]
  /\ pending = {}
  /\ session = [alive |-> FALSE, sockets |-> {}, grace |-> FALSE]
  /\ faults = 0

Fault == faults < MaxFaults /\ faults' = faults + 1

Count(frames, f) == Cardinality({i \in 1..Len(frames) : frames[i] = f})
Ended(frames) == Count(frames, "close") > 0
\* What a sender appends after a close is refused by the closing socket.
Push(queue, c, f) == IF Ended(queue[c]) THEN queue ELSE [queue EXCEPT ![c] = Append(@, f)]

-----------------------------------------------------------------------------
(* The relay's fan-out *)

\* A client's frame: to the server socket, or kept until there is one.
FromClient(c, f) ==
  IF c \in serverAt THEN up' = Push(up, c, f) /\ UNCHANGED held
                    ELSE held' = Push(held, c, f) /\ UNCHANGED up

\* A notice on the control socket; none reaches a daemon that does not listen.
Notify(n) ==
  /\ notices' = IF control = "up" /\ ~(\E i \in 1..Len(notices) : notices[i] = ControlClose)
                THEN Append(notices, n) ELSE notices
  /\ missed' = IF notices' = notices /\ n.type = "disconnected" THEN missed \cup n.ids ELSE missed
  /\ UNCHANGED control

\* Mutant: the end of the server socket does not reach the client.
ServerGoneQuietly(c) == down' = down

\* The server data socket of c has ended: its clients are told to reconnect.
ServerGone(c) == down' = IF c \in clientAt THEN Push(down, c, "close") ELSE down

-----------------------------------------------------------------------------
(* The daemon's session for the client *)

\* Mutant: a resuming hello leaves the grace timer running.
AttachedUnderGrace(c) == [alive |-> TRUE,
                          sockets |-> (IF session.alive THEN session.sockets ELSE {}) \cup {c},
                          grace |-> session.alive /\ session.grace]

\* handleHello: resume the client's session, or create it.
Attached(c) == [alive |-> TRUE,
                sockets |-> (IF session.alive THEN session.sockets ELSE {}) \cup {c},
                grace |-> FALSE]

\* detachSocket: the last socket to go starts the grace period.
Detached(c) ==
  IF c \notin session.sockets THEN session
  ELSE [alive |-> session.alive, sockets |-> session.sockets \ {c},
        grace |-> session.sockets = {c}]

\* Hello of the application: only the first one of a socket attaches it.
AppHello(c) ==
  IF c \in pending
  THEN /\ pending' = pending \ {c}
       /\ session' = Attached(c)
       /\ down' = IF c \in clientAt THEN Push(down, c, "info") ELSE down
  ELSE UNCHANGED <<pending, session, down>>

\* Everything the daemon does when its data socket of c has closed.
DataEnds(c) ==
  /\ data' = [data EXCEPT ![c] = "none"]
  /\ chan' = [chan EXCEPT ![c] = "none"]
  /\ buffered' = [buffered EXCEPT ![c] = <<>>]
  /\ up' = [up EXCEPT ![c] = <<>>]
  /\ pending' = pending \ {c}
  /\ session' = Detached(c)

GraceExpires ==
  /\ session.grace
  /\ session' = [alive |-> FALSE, sockets |-> {}, grace |-> FALSE]
  /\ UNCHANGED <<client, relay, ctl, data, chan, buffered, pending, up, down, faults>>

\* A socket that was attached and sends no hello is closed.
HelloTimesOut(c) ==
  /\ c \in pending
  /\ DataEnds(c)
  /\ UNCHANGED <<client, relay, ctl, down, faults>>

-----------------------------------------------------------------------------
(* The client *)

Dial(c) ==
  /\ client[c] = "idle" /\ \A b \in 1..(c - 1) : client[b] = "closed"
  /\ client' = [client EXCEPT ![c] = "handshaking"]
  /\ clientAt' = clientAt \cup {c}
  /\ nudge' = [nudge EXCEPT ![c] = "first"]
  /\ Notify(Notice("connected", c))
  /\ UNCHANGED <<serverAt, replaced, held, daemon, up, down, faults>>

\* The first hello and every retry of it, until the channel is open.
SendHello(c) ==
  /\ client[c] = "handshaking"
  /\ Count(held[c] \o up[c] \o buffered[c], "hello") + Count(down[c], "ready") < MaxHellos
  /\ FromClient(c, "hello")
  /\ UNCHANGED <<client, clientAt, serverAt, replaced, nudge, ctl, daemon, down, faults>>

\* The ready opens the channel and the application says its own hello at once.
ClientOpens(c) ==
  /\ client[c] = "handshaking" /\ Head(down[c]) = "ready"
  /\ client' = [client EXCEPT ![c] = "open"]
  /\ FromClient(c, "app")

\* server_info; before the channel is open it cannot be read, after it it is news.
ClientConnects(c) ==
  /\ client[c] = "open" /\ Head(down[c]) = "info"
  /\ client' = [client EXCEPT ![c] = "connected"]
  /\ UNCHANGED <<up, held>>

ClientHearsClose(c) ==
  /\ Head(down[c]) = "close"
  /\ client' = [client EXCEPT ![c] = "closed"]
  /\ UNCHANGED <<up, held>>

\* Ready traffic on an open channel, and anything else while handshaking.
ClientIgnores(c) ==
  /\ Head(down[c]) # "close"
  /\ (client[c] = "handshaking") # (Head(down[c]) = "ready")
  /\ ~(client[c] = "open" /\ Head(down[c]) = "info")
  /\ UNCHANGED <<client, up, held>>

ClientGets(c) ==
  /\ client[c] \notin {"idle", "closed"} /\ down[c] # <<>>
  /\ ClientOpens(c) \/ ClientConnects(c) \/ ClientHearsClose(c) \/ ClientIgnores(c)
  /\ down' = [down EXCEPT ![c] = Tail(@)]
  /\ UNCHANGED <<clientAt, serverAt, replaced, nudge, ctl, daemon, faults>>

\* The user, the connect timeout or the liveness check drops the socket.
ClientCloses(c) ==
  /\ client[c] \notin {"idle", "closed"}
  /\ client' = [client EXCEPT ![c] = "closed"]
  /\ UNCHANGED <<relay, ctl, daemon, up, down, faults>>

-----------------------------------------------------------------------------
(* The relay *)

\* webSocketClose of the last client socket: the server's end goes with it, and
\* what the relay's timers and late closes of c still do is nothing.
RelaySeesClientClose(c) ==
  /\ c \in clientAt /\ client[c] = "closed"
  /\ clientAt' = clientAt \ {c} /\ serverAt' = serverAt \ {c}
  /\ nudge' = [nudge EXCEPT ![c] = "none"] /\ replaced' = replaced \ {c}
  /\ held' = [held EXCEPT ![c] = <<>>]
  /\ down' = [down EXCEPT ![c] = <<>>]
  /\ up' = IF c \in serverAt THEN Push(up, c, "close") ELSE up
  /\ Notify(Notice("disconnected", c))
  /\ UNCHANGED <<client, daemon, faults>>

\* webSocketClose of a server data socket the daemon has closed.
RelaySeesServerClose(c) ==
  /\ c \in serverAt /\ data[c] # "open"
  /\ serverAt' = serverAt \ {c}
  /\ ServerGone(c)
  /\ UNCHANGED <<client, clientAt, replaced, held, nudge, ctl, daemon, up, faults>>

\* The same for one that a newer data socket of c has replaced.
RelaySeesReplacedClose(c) ==
  /\ c \in replaced
  /\ replaced' = replaced \ {c}
  /\ ServerGone(c)
  /\ UNCHANGED <<client, clientAt, serverAt, held, nudge, ctl, daemon, up, faults>>

\* The relay accepts the daemon's data socket and flushes what it kept.
DataOpens(c) ==
  /\ data[c] = "dialing"
  /\ data' = [data EXCEPT ![c] = "open"]
  /\ chan' = [chan EXCEPT ![c] = "waiting"]
  /\ replaced' = IF c \in serverAt THEN replaced \cup {c} ELSE replaced
  /\ serverAt' = serverAt \cup {c}
  /\ up' = [up EXCEPT ![c] = held[c]]
  /\ held' = [held EXCEPT ![c] = <<>>]
  /\ UNCHANGED <<client, clientAt, nudge, ctl, buffered, pending, session, down, faults>>

\* Ten seconds after a client came without the daemon following: list them again.
Waiting(c) == c \in clientAt /\ c \notin serverAt

NudgeFirst(c) ==
  /\ nudge[c] = "first"
  /\ nudge' = [nudge EXCEPT ![c] = IF Waiting(c) THEN "second" ELSE "none"]
  /\ IF Waiting(c) THEN Notify(Listing(clientAt)) ELSE UNCHANGED ctl
  /\ UNCHANGED <<client, clientAt, serverAt, replaced, held, daemon, up, down, faults>>

\* Five seconds later: close the control socket so that the daemon reconnects.
NudgeSecond(c) ==
  /\ nudge[c] = "second"
  /\ nudge' = [nudge EXCEPT ![c] = "none"]
  /\ IF Waiting(c) THEN Notify(ControlClose) ELSE UNCHANGED ctl
  /\ UNCHANGED <<client, clientAt, serverAt, replaced, held, daemon, up, down, faults>>

\* Hibernation between events and without timers: the memory goes, the sockets stay.
Hibernate ==
  /\ \A c \in Conns : nudge[c] = "none"
  /\ \E c \in Conns : held[c] # <<>>
  /\ held' = [c \in Conns |-> <<>>]
  /\ UNCHANGED <<client, clientAt, serverAt, replaced, nudge, ctl, daemon, up, down, faults>>

-----------------------------------------------------------------------------
(* The daemon's control socket *)

\* The relay answers a new control socket with the list of its clients.
ControlOpens ==
  /\ control = "down"
  /\ control' = "up" /\ notices' = <<Listing(clientAt)>>
  /\ UNCHANGED <<client, relay, missed, daemon, up, down, faults>>

\* ensureClientDataSocket, for every id the daemon does not have yet.
Ensured(ids) == [c \in Conns |-> IF c \in ids /\ data[c] = "none" THEN "dialing" ELSE data[c]]

DaemonHearsOf ==
  /\ Head(notices).type \in {"sync", "connected"}
  /\ data' = Ensured(Head(notices).ids)
  /\ UNCHANGED <<control, chan, buffered, pending, session, up>>

DaemonHearsEnd ==
  /\ Head(notices).type = "disconnected"
  /\ \E c \in Head(notices).ids : DataEnds(c)
  /\ UNCHANGED control

DaemonHearsReset ==
  /\ Head(notices).type = "close"
  /\ control' = "down"
  /\ UNCHANGED <<daemon, up>>

ControlGets ==
  /\ control = "up" /\ notices # <<>>
  /\ DaemonHearsOf \/ DaemonHearsEnd \/ DaemonHearsReset
  /\ notices' = Tail(notices)
  /\ UNCHANGED <<client, relay, missed, down, faults>>

\* The socket goes half open: what is under way is lost.
ControlDrops ==
  /\ control = "up" /\ Fault
  /\ control' = "lost" /\ notices' = <<>>
  /\ missed' = missed \cup UNION {n.ids : n \in {notices[i] : i \in
                 {j \in 1..Len(notices) : notices[j].type = "disconnected"}}}
  /\ UNCHANGED <<client, relay, daemon, up, down>>

\* No pong for thirty seconds: terminate; the close event reconnects.
ControlStale ==
  /\ control = "lost"
  /\ control' = "down"
  /\ UNCHANGED <<client, relay, notices, missed, daemon, up, down, faults>>

-----------------------------------------------------------------------------
(* The daemon's data sockets and its end of the handshake *)

DialFails(c) ==
  /\ data[c] = "dialing" /\ Fault
  /\ data' = [data EXCEPT ![c] = "none"]
  /\ missed' = IF nudge[c] = "none" THEN missed \cup {c} ELSE missed
  /\ UNCHANGED <<client, relay, control, notices, chan, buffered, pending, session, up, down>>

DataDrops(c) ==
  /\ data[c] = "open" /\ Fault
  /\ DataEnds(c)
  /\ UNCHANGED <<client, relay, ctl, down>>

\* handleHello: the ready is on its way, what follows is buffered until it is sent.
HelloArrives(c) ==
  /\ chan[c] = "waiting" /\ Head(up[c]) = "hello"
  /\ chan' = [chan EXCEPT ![c] = "replying"]
  /\ down' = IF c \in clientAt THEN Push(down, c, "ready") ELSE down
  /\ up' = [up EXCEPT ![c] = Tail(@)]
  /\ UNCHANGED <<data, buffered, pending, session>>

\* Any other first frame, or the end of the socket, closes it.
SocketEnds(c) ==
  /\ Head(up[c]) = "close" \/ (chan[c] = "waiting" /\ Head(up[c]) # "hello")
  /\ DataEnds(c)
  /\ UNCHANGED down

Buffers(c) ==
  /\ chan[c] = "replying" /\ Head(up[c]) # "close"
  /\ buffered' = [buffered EXCEPT ![c] = Append(@, Head(up[c]))]
  /\ up' = [up EXCEPT ![c] = Tail(@)]
  /\ UNCHANGED <<data, chan, pending, session, down>>

\* A repeated hello with the same key is answered, the key is kept.
Rehello(c) ==
  /\ chan[c] = "open" /\ Head(up[c]) = "hello"
  /\ down' = IF c \in clientAt THEN Push(down, c, "ready") ELSE down
  /\ up' = [up EXCEPT ![c] = Tail(@)]
  /\ UNCHANGED <<data, chan, buffered, pending, session>>

AppArrives(c) ==
  /\ chan[c] = "open" /\ Head(up[c]) = "app"
  /\ AppHello(c)
  /\ up' = [up EXCEPT ![c] = Tail(@)]
  /\ UNCHANGED <<data, chan, buffered>>

DataGets(c) ==
  /\ data[c] = "open" /\ up[c] # <<>>
  /\ HelloArrives(c) \/ SocketEnds(c) \/ Buffers(c) \/ Rehello(c) \/ AppArrives(c)
  /\ UNCHANGED <<client, relay, ctl, faults>>

\* Mutant: the frames that came in while the ready was being sent are forgotten.
ReadySentForgets(c) ==
  /\ chan[c] = "replying"
  /\ chan' = [chan EXCEPT ![c] = "open"]
  /\ buffered' = [buffered EXCEPT ![c] = <<>>]
  /\ pending' = pending \cup {c}
  /\ UNCHANGED <<client, relay, ctl, data, session, up, down, faults>>

\* The ready has been sent: open, attach the socket, replay all but the hellos.
ReadySent(c) ==
  /\ chan[c] = "replying"
  /\ chan' = [chan EXCEPT ![c] = "open"]
  /\ buffered' = [buffered EXCEPT ![c] = <<>>]
  /\ IF Count(buffered[c], "app") > 0
     THEN /\ session' = Attached(c)
          /\ down' = IF c \in clientAt THEN Push(down, c, "info") ELSE down
          /\ UNCHANGED pending
     ELSE pending' = pending \cup {c} /\ UNCHANGED <<session, down>>
  /\ UNCHANGED <<client, relay, ctl, data, up, faults>>

-----------------------------------------------------------------------------
Control == ControlOpens \/ ControlGets \/ ControlStale

RelaySeesClose(c) ==
  RelaySeesClientClose(c) \/ RelaySeesServerClose(c) \/ RelaySeesReplacedClose(c)

Nudge(c) == NudgeFirst(c) \/ NudgeSecond(c)

DataAdvances(c) == DataOpens(c) \/ ReadySent(c)

Next ==
  \/ Control \/ ControlDrops \/ GraceExpires \/ Hibernate
  \/ \E c \in Conns :
       \/ RelaySeesClose(c) \/ Nudge(c) \/ DataAdvances(c) \/ DataGets(c)
       \/ SendHello(c) \/ ClientGets(c) \/ Dial(c) \/ ClientCloses(c)
       \/ DialFails(c) \/ DataDrops(c) \/ HelloTimesOut(c)

Spec == Init /\ [][Next]_vars

\* Timers fire, sockets deliver and dials end, on one connection or another; no client
\* need dial, and none of the timeouts that give a socket up is counted on.
Fairness ==
  /\ WF_vars(Control)
  /\ WF_vars(\E c \in Conns : SendHello(c)) /\ WF_vars(\E c \in Conns : ClientGets(c))
  /\ WF_vars(\E c \in Conns :
       DataAdvances(c) \/ DataGets(c) \/ RelaySeesClose(c) \/ Nudge(c))

LiveSpec == Spec /\ Fairness

-----------------------------------------------------------------------------
\* The close of connection c is under way: the client will hear of it.
Doomed(c) ==
  \/ Ended(down[c]) \/ c \in replaced
  \/ c \in serverAt /\ (data[c] # "open" \/ Ended(up[c]))

\* A client that believes it is connected is attached to the session, or the
\* end of its connection is on its way to it.
ConnectedIsAttached ==
  \A c \in Conns : client[c] = "connected" /\ c \in clientAt => c \in session.sockets \/ Doomed(c)

\* The session is kept on a timer exactly while nothing is attached to it, and
\* what is attached is the open channel of an open data socket.
SessionHonest ==
  /\ session.grace <=> session.alive /\ session.sockets = {}
  /\ \A c \in session.sockets : chan[c] = "open" /\ data[c] = "open" /\ c \notin pending

\* A client that has dialed and stays is connected in the end, or told to dial
\* again, whatever notice or hello was lost on the way; and once the client has
\* gone, the daemon's data socket for it goes too, for good.  Both but for a
\* connection the relay and the daemon have lost track of.
LinkSettles ==
  <>[](\A c \in Conns \ missed :
         /\ client[c] \in {"idle", "connected", "closed"}
         /\ client[c] = "closed" => data[c] = "none")

=============================================================================
