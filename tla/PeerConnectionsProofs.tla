------------------------ MODULE PeerConnectionsProofs ------------------------
(***************************************************************************)
(* Theorems about PeerConnections, for any parties, any lists of peers and *)
(* any bounds.                                                             *)
(*                                                                         *)
(* The argument: a peer that a node dials is at any time in one phase of   *)
(* connecting only (it waits in the loop of onModuleInit(), it is being    *)
(* dialed, it is connected, or a reconnection is due), and at most once.   *)
(* So a call of connectToPeer() that looked for a connection and found     *)
(* none still finds none when its socket opens, and no socket is replaced  *)
(* while it is open.                                                       *)
(***************************************************************************)
EXTENDS PeerConnections, TLAPS

InTodo(p, q) == \E i \in 1..Len(todo[p]) : todo[p][i] = q
Dialed(p, q) == \E d \in dialing[p] : d.to = q

\* A peer is in one phase at a time, once.
OnePhase ==
  \A p \in Parties :
    /\ \A q \in Parties :
         /\ Connected(p, q) => ~InTodo(p, q) /\ ~Dialed(p, q) /\ q \notin retry[p]
         /\ q \in retry[p] => ~InTodo(p, q) /\ ~Dialed(p, q)
         /\ Dialed(p, q) => ~InTodo(p, q)
    /\ \A d, e \in dialing[p] : d.to = e.to => d = e
    /\ \A i, j \in 1..Len(todo[p]) : todo[p][i] = todo[p][j] => i = j

\* Nobody dials itself.
NotItself ==
  \A p \in Parties :
    ~InTodo(p, p) /\ ~Dialed(p, p) /\ p \notin retry[p] /\ ~Connected(p, p)

\* A process that does not run dials nobody.
DownIsIdle ==
  \A p \in Parties :
    ~up[p] => /\ todo[p] = <<>> /\ dialing[p] = {} /\ retry[p] = {}
              /\ \A q \in Parties : ~Connected(p, q)

\* Sockets on record lie where they belong; DialedOnRecord, socket by socket.
SocketsInPlace ==
  /\ \A p, q \in Parties : Connected(p, q) => conn[p][q] \in clientEnds
  /\ \A p, q \in Parties : Connected(p, q) => conn[p][q].from = p /\ conn[p][q].to = q
  /\ \A k \in clientEnds : conn[k.from][k.to] = k
  /\ \A p \in Parties : client[p] # NoSocket => client[p].to = p

IInv ==
  /\ TypeOK /\ OnePhase /\ NotItself /\ DownIsIdle /\ SocketsInPlace
  /\ HealthFollowsSocket /\ AcceptedIsOpen /\ NeverGivesUp

-----------------------------------------------------------------------------

LEMMA NoSocketIsNone == NoSocket \notin Sockets
  BY PartiesAssumption DEF NoSocket, Sockets

\* What the operations of ConnectionHealth leave behind is well typed.
LEMMA HealthTyped ==
  ASSUME NEW q \in Parties, NEW h \in [Parties -> Healths \cup {Unknown}]
  PROVE  /\ Register(h, q) \in [Parties -> Healths \cup {Unknown}]
         /\ Disconnect(h, q) \in [Parties -> Healths \cup {Unknown}]
         /\ Heard(h, q) \in [Parties -> Healths \cup {Unknown}]
<1>1. Registered \in Healths
  BY BoundsAssumption DEF Registered, Healths
<1>2. h[q] \in Healths => [h[q] EXCEPT !.state = "disconnected"] \in Healths
  BY DEF Healths
<1>. QED
  BY <1>1, <1>2 DEF Register, Disconnect, Heard

\* What Down(p) leaves behind is well typed.
LEMMA DownTyped ==
  ASSUME TypeOK, NEW p \in Parties, Down(p)
  PROVE  TypeOK'
<1>1. /\ beats' \subseteq beats
      /\ clientEnds' \subseteq clientEnds /\ serverEnds' \subseteq serverEnds
  BY DEF Down, Reaching
<1>2. todo' \in [Parties -> Seq(Parties)]
  BY DEF TypeOK, Down
<1>3. up' \in [Parties -> BOOLEAN] /\ boots' = boots /\ opened' = opened
  BY DEF TypeOK, Down
<1>4. dialing' \in [Parties -> SUBSET [to : Parties, startup : BOOLEAN]]
  BY DEF TypeOK, Down
<1>5. conn' \in [Parties -> [Parties -> Sockets \cup {NoSocket}]]
  BY DEF TypeOK, Down
<1>6. client' \in [Parties -> Sockets \cup {NoSocket}]
  BY DEF TypeOK, Down
<1>7. health' \in [Parties -> [Parties -> Healths \cup {Unknown}]]
  BY DEF TypeOK, Down
<1>8. watched' \in [Parties -> SUBSET Parties] /\ retry' \in [Parties -> SUBSET Parties]
  BY DEF TypeOK, Down
<1>. QED
  BY <1>1, <1>2, <1>3, <1>4, <1>5, <1>6, <1>7, <1>8 DEF TypeOK

\* A call of connectToPeer() is one of a party, to a party.
LEMMA DialTyped ==
  ASSUME TypeOK, NEW p \in Parties, NEW q \in Parties, NEW startup \in BOOLEAN,
         Dial(p, q, startup)
  PROVE  dialing' \in [Parties -> SUBSET [to : Parties, startup : BOOLEAN]]
<1>1. [to |-> q, startup |-> startup] \in [to : Parties, startup : BOOLEAN]
  OBVIOUS
<1>2. CASE Connected(p, q)
  BY <1>2 DEF TypeOK, Dial
<1>3. CASE dialing' = [dialing EXCEPT ![p] = @ \cup {[to |-> q, startup |-> startup]}]
  BY <1>1, <1>3 DEF TypeOK
<1>. QED
  BY <1>2, <1>3 DEF Dial

\* The state is well typed; no count passes its bound and no heartbeat is on
\* its way on anything but a socket.
LEMMA TypeStep ==
  ASSUME TypeOK, [Next]_vars
  PROVE  TypeOK'
<1>. USE BoundsAssumption, PeerUrisAssumption
<1>1. ASSUME NEW p \in Parties, Boot(p) PROVE TypeOK'
  <2>1. /\ up' \in [Parties -> BOOLEAN]
        /\ todo' \in [Parties -> Seq(Parties)]
    BY <1>1 DEF TypeOK, Boot
  <2>2. boots' \in [Parties -> 0..MaxBoots]
    <3>1. boots[p] + 1 \in 0..MaxBoots
      BY <1>1 DEF TypeOK, Boot
    <3>2. boots' = [boots EXCEPT ![p] = boots[p] + 1]
      BY <1>1 DEF Boot
    <3>. QED
      BY <3>1, <3>2 DEF TypeOK
  <2>3. UNCHANGED <<dialing, retry, conn, client, opened, clientEnds, serverEnds,
                   health, watched, beats>>
    BY <1>1 DEF Boot, socketVars, healthVars
  <2>. QED
    BY <2>1, <2>2, <2>3 DEF TypeOK
<1>2. ASSUME NEW p \in Parties, Kill(p) \/ Refused(p) PROVE TypeOK'
  BY <1>2, DownTyped DEF Kill, Refused
<1>3. ASSUME NEW p \in Parties, DialNext(p) PROVE TypeOK'
  <2>1. todo[p] \in Seq(Parties) /\ todo[p] # <<>>
    BY <1>3 DEF TypeOK, DialNext
  <2>2. Head(todo[p]) \in Parties /\ Tail(todo[p]) \in Seq(Parties)
    BY <2>1
  <2>3. dialing' \in [Parties -> SUBSET [to : Parties, startup : BOOLEAN]]
    BY <1>3, <2>2, DialTyped DEF DialNext
  <2>4. todo' \in [Parties -> Seq(Parties)]
    BY <1>3, <2>2 DEF TypeOK, DialNext
  <2>. QED
    BY <1>3, <2>3, <2>4 DEF TypeOK, DialNext, socketVars, healthVars
<1>4. ASSUME NEW p \in Parties, Heartbeat(p) PROVE TypeOK'
  <2>1. ASSUME NEW b \in beats'
        PROVE  b \in [socket : Sockets, byte : {Ping, Pong}, toServer : BOOLEAN]
    <3>1. CASE b \in beats
      BY <3>1 DEF TypeOK
    <3>2. CASE \E q \in Parties : Connected(p, q) /\ b = Beat(conn[p][q], Ping, TRUE)
      BY <3>2 DEF TypeOK, Connected, Beat
    <3>3. CASE client[p] # NoSocket /\ b = Beat(client[p], Ping, FALSE)
      BY <3>3 DEF TypeOK, Beat
    <3>. QED
      BY <1>4, <2>1, <3>1, <3>2, <3>3 DEF Heartbeat, Reaching
  <2>. QED
    BY <1>4, <2>1 DEF TypeOK, Heartbeat, processVars, socketVars, healthVars
<1>5. ASSUME NEW p \in Parties, NEW d \in dialing[p], Open(p, d) PROVE TypeOK'
  <2>. DEFINE q == d.to
  <2>. DEFINE k == [from |-> p, to |-> q, n |-> opened[p][q] + 1]
  <2>1. q \in Parties /\ opened[p][q] \in Nat /\ MaxSockets[p] \in Nat
    BY DEF TypeOK
  <2>2. k \in Sockets /\ opened[p][q] + 1 \in Nat /\ opened[p][q] + 1 <= MaxSockets[p]
    BY <1>5, <2>1 DEF Sockets, Open
  <2>3. Register(health[p], q) \in [Parties -> Healths \cup {Unknown}]
        /\ Register(health[q], q) \in [Parties -> Healths \cup {Unknown}]
    BY <2>1, HealthTyped DEF TypeOK
  <2>9. Register(Register(health[p], q), q) \in [Parties -> Healths \cup {Unknown}]
    BY <2>1, <2>3, HealthTyped
  <2>4. health' \in [Parties -> [Parties -> Healths \cup {Unknown}]]
    BY <1>5, <2>1, <2>3, <2>9 DEF TypeOK, Open
  <2>5. /\ opened' \in [Parties -> [Parties -> Nat]]
        /\ \A r, s \in Parties : opened'[r][s] <= MaxSockets[r]
    BY <1>5, <2>1, <2>2 DEF TypeOK, Open
  <2>6. /\ conn' \in [Parties -> [Parties -> Sockets \cup {NoSocket}]]
        /\ client' \in [Parties -> Sockets \cup {NoSocket}]
        /\ clientEnds' \subseteq Sockets /\ serverEnds' \subseteq Sockets
    BY <1>5, <2>1, <2>2 DEF TypeOK, Open
  <2>7. /\ watched' \in [Parties -> SUBSET Parties]
        /\ retry' \in [Parties -> SUBSET Parties]
        /\ dialing' \in [Parties -> SUBSET [to : Parties, startup : BOOLEAN]]
    BY <1>5, <2>1 DEF TypeOK, Open
  <2>. QED
    BY <1>5, <2>4, <2>5, <2>6, <2>7 DEF TypeOK, Open
<1>6. ASSUME NEW p \in Parties, NEW q \in Parties, RetryFires(p, q) PROVE TypeOK'
  <2>1. dialing' \in [Parties -> SUBSET [to : Parties, startup : BOOLEAN]]
    BY <1>6, DialTyped DEF RetryFires
  <2>2. retry' \in [Parties -> SUBSET Parties]
    BY <1>6 DEF TypeOK, RetryFires
  <2>. QED
    BY <1>6, <2>1, <2>2 DEF TypeOK, RetryFires, socketVars, healthVars
<1>7. ASSUME NEW p \in Parties, NEW q \in Parties, Overdue(p, q) PROVE TypeOK'
  <2>1. health[p][q] \in Healths
    BY <1>7 DEF TypeOK, Overdue, Unknown
  <2>2. health' \in [Parties -> [Parties -> Healths \cup {Unknown}]]
    BY <1>7, <2>1 DEF TypeOK, Overdue, Healths
  <2>. QED
    BY <1>7, <2>2 DEF TypeOK, Overdue, processVars, socketVars
<1>8. ASSUME NEW k \in clientEnds, ClientCloses(k) PROVE TypeOK'
  <2>1. k.from \in Parties /\ k.to \in Parties
    BY DEF TypeOK, Sockets
  <2>2. beats' \subseteq beats
    BY <1>8 DEF ClientCloses, Reaching
  <2>3. health' \in [Parties -> [Parties -> Healths \cup {Unknown}]]
    BY <1>8, <2>1, HealthTyped DEF TypeOK, ClientCloses
  <2>4. retry' \in [Parties -> SUBSET Parties]
    <3>1. retry' = retry \/ retry' = [retry EXCEPT ![k.from] = @ \cup {k.to}]
      <4>1. Reconnect(k.from, k.to)
        BY <1>8 DEF ClientCloses
      <4>. QED
        BY <4>1 DEF Reconnect
    <3>2. CASE retry' = retry
      BY <3>2 DEF TypeOK
    <3>3. CASE retry' = [retry EXCEPT ![k.from] = @ \cup {k.to}]
      BY <2>1, <3>3 DEF TypeOK
    <3>. QED
      BY <3>1, <3>2, <3>3
  <2>. QED
    BY <1>8, <2>1, <2>2, <2>3, <2>4 DEF TypeOK, ClientCloses
<1>9. ASSUME NEW k \in serverEnds, ServerCloses(k) PROVE TypeOK'
  <2>1. k.to \in Parties
    BY DEF TypeOK, Sockets
  <2>2. beats' \subseteq beats
    BY <1>9 DEF ServerCloses, Reaching
  <2>3. health' \in [Parties -> [Parties -> Healths \cup {Unknown}]]
    BY <1>9, <2>1, HealthTyped DEF TypeOK, ServerCloses
  <2>. QED
    BY <1>9, <2>1, <2>2, <2>3 DEF TypeOK, ServerCloses, processVars
<1>10. ASSUME NEW b \in beats, PingServed(b) \/ PongHeard(b) PROVE TypeOK'
  <2>1. b.socket \in Sockets /\ b.socket.to \in Parties /\ b.socket.from \in Parties
    BY DEF TypeOK, Sockets
  <2>2. health' \in [Parties -> [Parties -> Healths \cup {Unknown}]]
    <3>1. CASE PingServed(b)
      BY <2>1, <3>1, HealthTyped DEF TypeOK, PingServed
    <3>2. CASE PongHeard(b)
      BY <2>1, <3>2, HealthTyped DEF TypeOK, PongHeard
    <3>. QED
      BY <1>10, <3>1, <3>2
  <2>3. Beat(b.socket, Pong, FALSE) \in [socket : Sockets, byte : {Ping, Pong}, toServer : BOOLEAN]
    BY <2>1 DEF Beat
  <2>4. beats' \subseteq [socket : Sockets, byte : {Ping, Pong}, toServer : BOOLEAN]
    BY <1>10, <2>3 DEF TypeOK, PingServed, PongHeard
  <2>. QED
    BY <1>10, <2>2, <2>4 DEF TypeOK, PingServed, PongHeard, processVars, socketVars
<1>11. ASSUME NEW b \in beats, PingDecoded(b) PROVE TypeOK'
  <2>1. b.socket.from \in Parties
    BY DEF TypeOK, Sockets
  <2>. QED
    BY <1>11, <2>1, DownTyped DEF PingDecoded
<1>12. CASE UNCHANGED vars
  BY <1>12 DEF TypeOK, vars, processVars, socketVars, healthVars
<1>. QED
  BY <1>1, <1>2, <1>3, <1>4, <1>5, <1>6, <1>7, <1>8, <1>9, <1>10, <1>11, <1>12
  DEF Next, Step

LEMMA TypeInit == Init => TypeOK
  BY BoundsAssumption DEF Init, TypeOK

\* The state is well typed: no count passes its bound, and no heartbeat is on
\* its way on anything but a socket.
THEOREM TypeCorrect == Spec => []TypeOK
  BY TypeInit, TypeStep, PTL DEF Spec

-----------------------------------------------------------------------------

\* What the rest of a list of parties holds.
LEMMA TailElements ==
  ASSUME NEW S, NEW s \in Seq(S), s # <<>>
  PROVE  /\ Head(s) = s[1] /\ 1 \in 1..Len(s)
         /\ Tail(s) \in Seq(S) /\ Len(Tail(s)) = Len(s) - 1
         /\ \A i \in 1..Len(Tail(s)) : Tail(s)[i] = s[i + 1] /\ i + 1 \in 2..Len(s)
  OBVIOUS

\* The steps, by what they do to the connections of a node.
LEMMA StepKinds ==
  ASSUME TypeOK, [Next]_vars
  PROVE  \/ \E p \in Parties : Down(p) \/ Boot(p) \/ DialNext(p)
         \/ \E p, q \in Parties : RetryFires(p, q) \/ Overdue(p, q)
         \/ \E p \in Parties : \E d \in dialing[p] : Open(p, d)
         \/ \E k \in clientEnds : ClientCloses(k)
         \/ \E k \in serverEnds : ServerCloses(k)
         \/ \E b \in beats : PingServed(b) \/ PongHeard(b)
         \/ UNCHANGED <<processVars, socketVars, healthVars>>
<1>1. \A b \in beats : b.socket.from \in Parties
  BY DEF TypeOK, Sockets
<1>2. ASSUME NEW b \in beats, PingDecoded(b) PROVE \E p \in Parties : Down(p)
  BY <1>1, <1>2 DEF PingDecoded
<1>3. ASSUME NEW p \in Parties, Kill(p) \/ Refused(p) PROVE Down(p)
  BY <1>3 DEF Kill, Refused
<1>4. ASSUME NEW p \in Parties, Heartbeat(p)
      PROVE  UNCHANGED <<processVars, socketVars, healthVars>>
  BY <1>4 DEF Heartbeat
<1>5. CASE UNCHANGED vars
  BY <1>5 DEF vars
<1>6. CASE Step
  BY <1>2, <1>3, <1>4, <1>6 DEF Step
<1>7. CASE \E p \in Parties : Kill(p)
  BY <1>3, <1>7
<1>. QED
  BY <1>5, <1>6, <1>7 DEF Next

\* A step keeps the sockets where they belong: the one that opens takes the
\* place of none, because its peer was not connected before.
LEMMA SocketsStep ==
  ASSUME TypeOK, OnePhase, SocketsInPlace, [Next]_vars
  PROVE  SocketsInPlace'
<1>1. ASSUME NEW p \in Parties, Down(p) PROVE SocketsInPlace'
  BY <1>1, NoSocketIsNone DEF TypeOK, SocketsInPlace, Down, Connected, Sockets
<1>2. ASSUME NEW p \in Parties, NEW d \in dialing[p], Open(p, d) PROVE SocketsInPlace'
  <2>. DEFINE q == d.to
              k == [from |-> p, to |-> q, n |-> opened[p][q] + 1]
  <2>1. q \in Parties /\ opened[p][q] \in Nat
    BY DEF TypeOK
  <2>2. k \in Sockets /\ k.from = p /\ k.to = q
    BY <2>1 DEF Sockets
  <2>3. ~Connected(p, q)
    BY <2>1 DEF OnePhase, Dialed
  <2>4. /\ clientEnds' = clientEnds \cup {k}
        /\ conn' = [conn EXCEPT ![p][q] = k]
        /\ client' = [client EXCEPT ![q] = k]
    BY <1>2 DEF Open
  <2>5. \A r, s \in Parties : conn'[r][s] = IF r = p /\ s = q THEN k ELSE conn[r][s]
    BY <2>1, <2>4 DEF TypeOK
  <2>6. \A e \in clientEnds : e.from \in Parties /\ e.to \in Parties /\ e # NoSocket
    BY NoSocketIsNone DEF TypeOK, Sockets
  <2>7. \A e \in clientEnds : conn'[e.from][e.to] = e
    BY <2>3, <2>5, <2>6 DEF SocketsInPlace, Connected
  <2>8. \A r \in Parties : client'[r] # NoSocket => client'[r].to = r
    BY <2>1, <2>2, <2>4 DEF TypeOK, SocketsInPlace
  <2>. QED
    BY <2>1, <2>2, <2>4, <2>5, <2>7, <2>8 DEF SocketsInPlace, Connected
<1>3. ASSUME NEW k \in clientEnds, ClientCloses(k) PROVE SocketsInPlace'
  <2>1. k.from \in Parties /\ k.to \in Parties
    BY DEF TypeOK, Sockets
  <2>2. /\ clientEnds' = clientEnds \ {k} /\ client' = client
        /\ conn' = [conn EXCEPT ![k.from][k.to] = NoSocket]
    BY <1>3 DEF ClientCloses
  <2>3. \A r, s \in Parties :
          conn'[r][s] = IF r = k.from /\ s = k.to THEN NoSocket ELSE conn[r][s]
    BY <2>1, <2>2 DEF TypeOK
  <2>4. \A e \in clientEnds : e.from \in Parties /\ e.to \in Parties
    BY DEF TypeOK, Sockets
  <2>. QED
    BY <2>1, <2>2, <2>3, <2>4 DEF SocketsInPlace, Connected
<1>4. ASSUME NEW k \in serverEnds, ServerCloses(k) PROVE SocketsInPlace'
  <2>1. k.to \in Parties
    BY DEF TypeOK, Sockets
  <2>. QED
    BY <1>4, <2>1 DEF TypeOK, SocketsInPlace, ServerCloses, Connected
<1>5. CASE UNCHANGED socketVars
  BY <1>5 DEF SocketsInPlace, Connected, socketVars
<1>6. ASSUME NEW p \in Parties,
             Boot(p) \/ DialNext(p) \/ \E q \in Parties : RetryFires(p, q) \/ Overdue(p, q)
      PROVE  UNCHANGED socketVars
  BY <1>6 DEF Boot, DialNext, RetryFires, Overdue
<1>7. ASSUME NEW b \in beats, PingServed(b) \/ PongHeard(b) PROVE UNCHANGED socketVars
  BY <1>7 DEF PingServed, PongHeard
<1>. QED
  BY <1>1, <1>2, <1>3, <1>4, <1>5, <1>6, <1>7, StepKinds

\* The one inbound socket on record is open: whichever socket closes, the record
\* of its node is emptied.
LEMMA AcceptedStep ==
  ASSUME TypeOK, SocketsInPlace, AcceptedIsOpen, [Next]_vars
  PROVE  AcceptedIsOpen'
<1>1. ASSUME NEW p \in Parties, Down(p) PROVE AcceptedIsOpen'
  BY <1>1 DEF TypeOK, SocketsInPlace, AcceptedIsOpen, Down
<1>2. ASSUME NEW p \in Parties, NEW d \in dialing[p], Open(p, d) PROVE AcceptedIsOpen'
  <2>1. d.to \in Parties
    BY DEF TypeOK
  <2>. QED
    BY <1>2, <2>1 DEF TypeOK, AcceptedIsOpen, Open
<1>3. ASSUME NEW k \in serverEnds, ServerCloses(k) PROVE AcceptedIsOpen'
  <2>1. k.to \in Parties
    BY DEF TypeOK, Sockets
  <2>. QED
    BY <1>3, <2>1 DEF TypeOK, SocketsInPlace, AcceptedIsOpen, ServerCloses
<1>4. ASSUME NEW k \in clientEnds, ClientCloses(k) PROVE UNCHANGED <<client, serverEnds>>
  BY <1>4 DEF ClientCloses
<1>5. ASSUME NEW p \in Parties,
             Boot(p) \/ DialNext(p) \/ \E q \in Parties : RetryFires(p, q) \/ Overdue(p, q)
      PROVE  UNCHANGED <<client, serverEnds>>
  BY <1>5 DEF Boot, DialNext, RetryFires, Overdue, socketVars
<1>6. ASSUME NEW b \in beats, PingServed(b) \/ PongHeard(b)
      PROVE  UNCHANGED <<client, serverEnds>>
  BY <1>6 DEF PingServed, PongHeard, socketVars
<1>7. CASE UNCHANGED <<client, serverEnds>>
  BY <1>7 DEF AcceptedIsOpen
<1>. QED
  BY <1>1, <1>2, <1>3, <1>4, <1>5, <1>6, <1>7, StepKinds DEF socketVars

\* Where a dialed connection leads, and what its socket is.
LEMMA DialsTyped ==
  ASSUME TypeOK, NEW p \in Parties, NEW d \in dialing[p]
  PROVE  d.to \in Parties /\ opened[p][d.to] \in Nat
<1>1. d \in [to : Parties, startup : BOOLEAN]
  BY DEF TypeOK
<1>. QED
  BY <1>1 DEF TypeOK

\* What the operations of ConnectionHealth do to the state of a peer.
LEMMA HealthStates ==
  ASSUME NEW q \in Parties, NEW r \in Parties,
         NEW h \in [Parties -> Healths \cup {Unknown}]
  PROVE  /\ Register(h, q)[q].state = "connected"
         /\ r # q => /\ Register(h, q)[r] = h[r]
                     /\ Disconnect(h, q)[r] = h[r]
                     /\ Heard(h, q)[r] = h[r]
         /\ Disconnect(h, q)[q].state \notin {"connected", "unhealthy"}
         /\ h[q].state \in {"connected", "unhealthy"} => Heard(h, q)[q].state = "connected"
<1>1. h[q].state \in {"connected", "unhealthy"} => h[q] # Unknown
  BY DEF Unknown
<1>2. h[q] \in Healths => [h[q] EXCEPT !.state = "disconnected"].state = "disconnected"
  BY DEF Healths
<1>. QED
  BY <1>1, <1>2 DEF Register, Registered, Disconnect, Heard, Unknown

\* The health of the peers a node dials goes with its connections.
LEMMA HealthStep ==
  ASSUME TypeOK, NotItself, SocketsInPlace, HealthFollowsSocket, [Next]_vars
  PROVE  HealthFollowsSocket'
<1>. DEFINE Good == {"connected", "unhealthy"}
<1>. SUFFICES ASSUME NEW r \in Parties, NEW s \in Parties, s # r
              PROVE  /\ s \in watched'[r] <=> conn'[r][s] # NoSocket
                     /\ health'[r][s].state \in Good <=> conn'[r][s] # NoSocket
  BY DEF HealthFollowsSocket, Connected
<1>0. /\ s \in watched[r] <=> conn[r][s] # NoSocket
      /\ health[r][s].state \in Good <=> conn[r][s] # NoSocket
  BY DEF HealthFollowsSocket, Connected
<1>. DEFINE Same == /\ s \in watched'[r] <=> s \in watched[r]
                    /\ health'[r][s] = health[r][s]
                    /\ conn'[r][s] = conn[r][s]
            Fine == /\ s \in watched'[r] <=> conn'[r][s] # NoSocket
                    /\ health'[r][s].state \in Good <=> conn'[r][s] # NoSocket
<1>a. Same => Fine
  BY <1>0
<1>b. health[r] \in [Parties -> Healths \cup {Unknown}]
  BY DEF TypeOK
<1>1. ASSUME NEW p \in Parties, Down(p) PROVE Fine
  BY <1>0, <1>1 DEF TypeOK, Down, Unknown
<1>2. ASSUME NEW p \in Parties, NEW d \in dialing[p], Open(p, d) PROVE Fine
  <2>. DEFINE q == d.to
              k == [from |-> p, to |-> q, n |-> opened[p][q] + 1]
  <2>1. q \in Parties /\ opened[p][q] \in Nat
    BY DialsTyped
  <2>2. k \in Sockets /\ k # NoSocket
    BY <2>1, NoSocketIsNone DEF Sockets
  <2>3. q # p
    BY <2>1 DEF NotItself, Dialed
  <2>4. /\ conn' = [conn EXCEPT ![p][q] = k]
        /\ health' = [health EXCEPT ![p] = Register(@, q), ![q] = Register(@, q)]
        /\ watched' = [watched EXCEPT ![p] = @ \cup {q}, ![q] = @ \cup {q}]
    BY <1>2 DEF Open
  <2>5. /\ conn'[r][s] = IF r = p /\ s = q THEN k ELSE conn[r][s]
        /\ watched'[r] = IF r \in {p, q} THEN watched[r] \cup {q} ELSE watched[r]
        /\ health'[r] = IF r \in {p, q} THEN Register(health[r], q) ELSE health[r]
    BY <2>1, <2>3, <2>4 DEF TypeOK
  <2>6. CASE r \in {p, q} /\ s = q
    <3>1. health'[r][s].state = "connected"
      BY <1>b, <2>1, <2>5, <2>6, HealthStates
    <3>. QED
      BY <2>2, <2>5, <2>6, <3>1
  <2>7. CASE r \notin {p, q} \/ s # q
    <3>1. health'[r][s] = health[r][s]
      BY <1>b, <2>1, <2>5, <2>7, HealthStates
    <3>. QED
      BY <1>a, <2>5, <2>7, <3>1
  <2>. QED
    BY <2>6, <2>7
<1>3. ASSUME NEW k \in clientEnds, ClientCloses(k) PROVE Fine
  <2>. DEFINE p == k.from
              q == k.to
  <2>1. p \in Parties /\ q \in Parties
    BY DEF TypeOK, Sockets
  <2>2. /\ conn' = [conn EXCEPT ![p][q] = NoSocket]
        /\ health' = [health EXCEPT ![p] = Disconnect(@, q)]
        /\ watched' = [watched EXCEPT ![p] = @ \ {q}]
    BY <1>3 DEF ClientCloses
  <2>3. /\ conn'[r][s] = IF r = p /\ s = q THEN NoSocket ELSE conn[r][s]
        /\ watched'[r] = IF r = p THEN watched[r] \ {q} ELSE watched[r]
        /\ health'[r] = IF r = p THEN Disconnect(health[r], q) ELSE health[r]
    BY <2>1, <2>2 DEF TypeOK
  <2>4. CASE r = p /\ s = q
    <3>1. health'[r][s].state \notin Good
      BY <1>b, <2>1, <2>3, <2>4, HealthStates
    <3>. QED
      BY <2>3, <2>4, <3>1
  <2>5. CASE r # p \/ s # q
    <3>1. health'[r][s] = health[r][s]
      BY <1>b, <2>1, <2>3, <2>5, HealthStates
    <3>. QED
      BY <1>a, <2>3, <2>5, <3>1
  <2>. QED
    BY <2>4, <2>5
<1>4. ASSUME NEW k \in serverEnds, ServerCloses(k) PROVE Fine
  <2>. DEFINE q == k.to
  <2>1. q \in Parties
    BY DEF TypeOK, Sockets
  <2>2. /\ conn' = conn
        /\ health' = [health EXCEPT ![q] = Disconnect(@, q)]
        /\ watched' = [watched EXCEPT ![q] = @ \ {q}]
    BY <1>4 DEF ServerCloses
  <2>3. /\ watched'[r] = IF r = q THEN watched[r] \ {q} ELSE watched[r]
        /\ health'[r] = IF r = q THEN Disconnect(health[r], q) ELSE health[r]
    BY <2>1, <2>2 DEF TypeOK
  <2>4. health'[r][s] = health[r][s]
    BY <1>b, <2>1, <2>3, HealthStates
  <2>. QED
    BY <1>a, <2>2, <2>3, <2>4
<1>5. ASSUME NEW b \in beats, PingServed(b) PROVE Fine
  <2>. DEFINE q == b.socket.to
  <2>1. q \in Parties
    BY DEF TypeOK, Sockets
  <2>2. /\ health' = [health EXCEPT ![q] = Heard(@, q)]
        /\ UNCHANGED <<conn, watched>>
    BY <1>5 DEF PingServed, socketVars
  <2>3. health'[r] = IF r = q THEN Heard(health[r], q) ELSE health[r]
    BY <2>1, <2>2 DEF TypeOK
  <2>4. health'[r][s] = health[r][s]
    BY <1>b, <2>1, <2>3, HealthStates
  <2>. QED
    BY <1>a, <2>2, <2>4
<1>6. ASSUME NEW b \in beats, PongHeard(b) PROVE Fine
  <2>. DEFINE p == b.socket.from
              q == b.socket.to
  <2>1. p \in Parties /\ q \in Parties /\ b.socket # NoSocket
    BY NoSocketIsNone DEF TypeOK, Sockets
  <2>2. conn[p][q] # NoSocket
    BY <1>6, <2>1 DEF PongHeard, SocketsInPlace
  <2>3. health' = [health EXCEPT ![p] = Heard(@, q)] /\ UNCHANGED <<watched, conn>>
    BY <1>6 DEF PongHeard, socketVars
  <2>4. health'[r] = IF r = p THEN Heard(health[r], q) ELSE health[r]
    BY <2>1, <2>3 DEF TypeOK
  <2>5. CASE r = p /\ s = q
    <3>1. health[r][q].state \in Good
      BY <1>0, <2>2, <2>5
    <3>2. health'[r][s].state = "connected"
      BY <1>b, <2>1, <2>4, <2>5, <3>1, HealthStates
    <3>. QED
      BY <1>0, <2>2, <2>3, <2>5, <3>2
  <2>6. CASE r # p \/ s # q
    <3>1. health'[r][s] = health[r][s]
      BY <1>b, <2>1, <2>4, <2>6, HealthStates
    <3>. QED
      BY <1>a, <2>3, <3>1
  <2>. QED
    BY <2>5, <2>6
<1>7. ASSUME NEW p \in Parties, NEW q \in Parties, Overdue(p, q) PROVE Fine
  <2>1. health[p][q] \in Healths /\ health[p][q].state \in Good
    <3>1. health[p][q] \in Healths
      BY <1>7 DEF TypeOK, Overdue, Unknown
    <3>. QED
      BY <1>7, <3>1 DEF Overdue, Healths
  <2>2. PICK m : health' = [health EXCEPT ![p][q] = m] /\ m.state \in Good
    <3>. DEFINE missed == IF health[p][q].missed < MaxMissed
                          THEN health[p][q].missed + 1 ELSE MaxMissed
                n == [state |-> IF missed = MaxMissed THEN "unhealthy" ELSE health[p][q].state,
                      missed |-> missed]
    <3>1. health' = [health EXCEPT ![p][q] = n]
      BY <1>7 DEF Overdue
    <3>2. n.state \in Good
      BY <2>1
    <3>. QED
      BY <3>1, <3>2
  <2>3. UNCHANGED <<conn, watched>>
    BY <1>7 DEF Overdue, socketVars
  <2>4. health'[r][s] = IF r = p /\ s = q THEN m ELSE health[r][s]
    BY <2>2 DEF TypeOK
  <2>. QED
    BY <1>0, <2>1, <2>2, <2>3, <2>4
<1>8. ASSUME NEW p \in Parties, Boot(p) \/ DialNext(p) \/ \E q \in Parties : RetryFires(p, q)
      PROVE  UNCHANGED <<healthVars, socketVars>>
  BY <1>8 DEF Boot, DialNext, RetryFires
<1>9. CASE UNCHANGED <<healthVars, socketVars>>
  BY <1>a, <1>9 DEF healthVars, socketVars
<1>. QED
  BY <1>1, <1>2, <1>3, <1>4, <1>5, <1>6, <1>7, <1>8, <1>9, StepKinds

\* A step keeps every peer of a node in one phase, a process that does not run
\* idle, and a node from dialing itself.
LEMMA PhaseStep ==
  ASSUME TypeOK, OnePhase, NotItself, DownIsIdle, SocketsInPlace, [Next]_vars
  PROVE  OnePhase' /\ NotItself' /\ DownIsIdle'
<1>. DEFINE Phases(t, d, c, w, p) ==
       /\ \A q \in Parties :
            /\ c[q] # NoSocket =>
                 /\ \A i \in 1..Len(t) : t[i] # q
                 /\ \A e \in d : e.to # q
                 /\ q \notin w
            /\ q \in w => /\ \A i \in 1..Len(t) : t[i] # q
                          /\ \A e \in d : e.to # q
            /\ \A i \in 1..Len(t) : \A e \in d : t[i] = q => e.to # q
       /\ \A e, f \in d : e.to = f.to => e = f
       /\ \A i, j \in 1..Len(t) : t[i] = t[j] => i = j
       /\ c[p] = NoSocket /\ p \notin w
       /\ \A i \in 1..Len(t) : t[i] # p
       /\ \A e \in d : e.to # p
<1>. DEFINE Idle(t, d, c, w) ==
       t = <<>> /\ d = {} /\ w = {} /\ \A q \in Parties : c[q] = NoSocket
<1>. SUFFICES ASSUME NEW r \in Parties
              PROVE  /\ Phases(todo'[r], dialing'[r], conn'[r], retry'[r], r)
                     /\ ~up'[r] => Idle(todo'[r], dialing'[r], conn'[r], retry'[r])
  BY DEF OnePhase, NotItself, DownIsIdle, Connected, InTodo, Dialed
<1>. DEFINE Good == /\ Phases(todo'[r], dialing'[r], conn'[r], retry'[r], r)
                    /\ ~up'[r] => Idle(todo'[r], dialing'[r], conn'[r], retry'[r])
            Same == /\ todo'[r] = todo[r] /\ dialing'[r] = dialing[r]
                    /\ conn'[r] = conn[r] /\ retry'[r] = retry[r] /\ up'[r] = up[r]
<1>0. /\ Phases(todo[r], dialing[r], conn[r], retry[r], r)
      /\ ~up[r] => Idle(todo[r], dialing[r], conn[r], retry[r])
  BY DEF OnePhase, NotItself, DownIsIdle, Connected, InTodo, Dialed
<1>a. Same => Good
  <2>. HIDE DEF Phases, Idle
  <2>. QED
    BY <1>0
<1>b. Idle(todo'[r], dialing'[r], conn'[r], retry'[r]) => Good
  OBVIOUS
<1>1. ASSUME NEW p \in Parties, Down(p) PROVE Good
  <2>1. CASE r = p
    <3>1. Idle(todo'[r], dialing'[r], conn'[r], retry'[r])
      BY <1>1, <2>1 DEF TypeOK, Down
    <3>. QED
      BY <1>b, <3>1
  <2>2. CASE r # p
    <3>1. Same
      BY <1>1, <2>2 DEF TypeOK, Down
    <3>. QED
      BY <1>a, <3>1
  <2>. QED
    BY <2>1, <2>2
<1>2. ASSUME NEW p \in Parties, Boot(p) PROVE Good
  <2>1. CASE r = p
    <3>1. Idle(todo[r], dialing[r], conn[r], retry[r])
      BY <1>0, <1>2, <2>1 DEF Boot
    <3>2. /\ todo'[r] = PeerUris[r] /\ dialing'[r] = {} /\ retry'[r] = {}
          /\ conn'[r] = conn[r] /\ up'[r]
      BY <1>2, <2>1, <3>1 DEF TypeOK, Boot, socketVars
    <3>3. PeerUris[r] \in Seq(Parties)
      BY PeerUrisAssumption
    <3>. QED
      BY <3>1, <3>2, <3>3, PeerUrisAssumption
  <2>2. CASE r # p
    <3>1. Same
      BY <1>2, <2>2 DEF TypeOK, Boot, socketVars
    <3>. QED
      BY <1>a, <3>1
  <2>. QED
    BY <2>1, <2>2
<1>3. ASSUME NEW p \in Parties, DialNext(p) PROVE Good
  <2>1. CASE r = p
    <3>. DEFINE t == todo[r]
                q == Head(t)
                d == [to |-> q, startup |-> TRUE]
    <3>1. t \in Seq(Parties) /\ t # <<>> /\ dialing[r] \subseteq [to : Parties, startup : BOOLEAN]
      BY <1>3, <2>1 DEF TypeOK, DialNext
    <3>2. /\ q = t[1] /\ 1 \in 1..Len(t) /\ q \in Parties
          /\ Tail(t) \in Seq(Parties) /\ Len(Tail(t)) = Len(t) - 1
          /\ \A i \in 1..Len(Tail(t)) : Tail(t)[i] = t[i + 1] /\ i + 1 \in 2..Len(t)
      BY <3>1, TailElements
    <3>3. /\ conn[r][q] = NoSocket /\ q \notin retry[r] /\ q # r
          /\ \A e \in dialing[r] : e.to # q
      BY <1>0, <3>2
    <3>4. /\ todo'[r] = Tail(t) /\ conn'[r] = conn[r] /\ retry'[r] = retry[r]
          /\ up'[r] = up[r]
      BY <1>3, <2>1 DEF TypeOK, DialNext, socketVars
    <3>5. dialing'[r] = dialing[r] \cup {d}
      BY <1>3, <2>1, <3>3 DEF TypeOK, DialNext, Dial, Connected
    <3>6. up[r]
      BY <1>0, <3>1
    <3>7. d.to = q
      OBVIOUS
    <3>8. \A i \in 1..Len(Tail(t)) : Tail(t)[i] # q
      BY <1>0, <3>1, <3>2
    <3>9. /\ \A i \in 1..Len(Tail(t)) : Tail(t)[i] = t[i + 1] /\ i + 1 \in 1..Len(t)
          /\ \A i, j \in 1..Len(Tail(t)) : i + 1 = j + 1 => i = j
      BY <3>1, <3>2
    <3>. HIDE DEF t, q, d
    <3>. QED
      BY <1>0, <3>3, <3>4, <3>5, <3>6, <3>7, <3>8, <3>9 DEF t
  <2>2. CASE r # p
    <3>1. Same
      BY <1>3, <2>2 DEF TypeOK, DialNext, Dial, socketVars
    <3>. QED
      BY <1>a, <3>1
  <2>. QED
    BY <2>1, <2>2
<1>4. ASSUME NEW p \in Parties, NEW q \in Parties, RetryFires(p, q) PROVE Good
  <2>1. CASE r = p
    <3>. DEFINE d == [to |-> q, startup |-> FALSE]
    <3>1. q \in retry[r]
      BY <1>4, <2>1 DEF RetryFires
    <3>2. /\ conn[r][q] = NoSocket /\ q # r
          /\ \A e \in dialing[r] : e.to # q
          /\ \A i \in 1..Len(todo[r]) : todo[r][i] # q
      BY <1>0, <3>1
    <3>3. /\ todo'[r] = todo[r] /\ conn'[r] = conn[r] /\ retry'[r] = retry[r] \ {q}
          /\ up'[r] = up[r]
      BY <1>4, <2>1 DEF TypeOK, RetryFires, socketVars
    <3>4. dialing'[r] = dialing[r] \cup {d}
      BY <1>4, <2>1, <3>2 DEF TypeOK, RetryFires, Dial, Connected
    <3>5. up[r]
      BY <1>0, <3>1
    <3>6. d.to = q
      OBVIOUS
    <3>. HIDE DEF d
    <3>. QED
      BY <1>0, <3>2, <3>3, <3>4, <3>5, <3>6
  <2>2. CASE r # p
    <3>1. Same
      BY <1>4, <2>2 DEF TypeOK, RetryFires, Dial, socketVars
    <3>. QED
      BY <1>a, <3>1
  <2>. QED
    BY <2>1, <2>2
<1>5. ASSUME NEW p \in Parties, NEW d \in dialing[p], Open(p, d) PROVE Good
  <2>. DEFINE q == d.to
              k == [from |-> p, to |-> q, n |-> opened[p][q] + 1]
  <2>1. q \in Parties
    BY DialsTyped
  <2>2. CASE r = p
    <3>1. /\ todo'[r] = todo[r] /\ retry'[r] = retry[r] \ {q} /\ up'[r] = up[r]
          /\ dialing'[r] = dialing[r] \ {d} /\ conn'[r] = [conn[r] EXCEPT ![q] = k]
      BY <1>5, <2>1, <2>2 DEF TypeOK, Open
    <3>2. conn[r] \in [Parties -> Sockets \cup {NoSocket}] /\ q # r /\ d \in dialing[r] /\ up[r]
      BY <1>0, <2>2 DEF TypeOK
    <3>3. \A s \in Parties : conn'[r][s] = IF s = q THEN k ELSE conn[r][s]
      BY <2>1, <3>1, <3>2
    <3>4. /\ \A e \in dialing'[r] : e \in dialing[r] /\ e.to # q
          /\ \A i \in 1..Len(todo[r]) : todo[r][i] # q
      BY <1>0, <2>1, <3>1, <3>2
    <3>. HIDE DEF q, k
    <3>. QED
      BY <1>0, <2>1, <3>1, <3>2, <3>3, <3>4
  <2>3. CASE r # p
    <3>1. Same
      BY <1>5, <2>1, <2>3 DEF TypeOK, Open
    <3>. QED
      BY <1>a, <3>1
  <2>. QED
    BY <2>2, <2>3
<1>6. ASSUME NEW k \in clientEnds, ClientCloses(k) PROVE Good
  <2>. DEFINE p == k.from
              q == k.to
  <2>1. p \in Parties /\ q \in Parties /\ k # NoSocket
    BY NoSocketIsNone DEF TypeOK, Sockets
  <2>2. Reconnect(p, q) /\ conn' = [conn EXCEPT ![p][q] = NoSocket]
        /\ UNCHANGED <<up, todo, dialing>>
    BY <1>6 DEF ClientCloses
  <2>3. retry' = retry \/ retry' = [retry EXCEPT ![p] = @ \cup {q}]
    BY <2>2 DEF Reconnect
  <2>4. CASE r = p
    <3>1. conn[r][q] # NoSocket
      BY <2>1, <2>4 DEF SocketsInPlace
    <3>2. retry'[r] \subseteq retry[r] \cup {q}
      BY <2>1, <2>3, <2>4 DEF TypeOK
    <3>3. \A s \in Parties : conn'[r][s] = IF s = q THEN NoSocket ELSE conn[r][s]
      BY <2>1, <2>2, <2>4 DEF TypeOK
    <3>. HIDE DEF p, q
    <3>. QED
      BY <1>0, <2>1, <2>2, <3>1, <3>2, <3>3
  <2>5. CASE r # p
    <3>1. Same
      BY <2>1, <2>2, <2>3, <2>5 DEF TypeOK
    <3>. QED
      BY <1>a, <3>1
  <2>. QED
    BY <2>4, <2>5
<1>7. ASSUME NEW p \in Parties, NEW q \in Parties, Overdue(p, q) PROVE Good
  <2>1. Same
    BY <1>7 DEF Overdue, processVars, socketVars
  <2>. QED
    BY <1>a, <2>1
<1>8. ASSUME NEW k \in serverEnds, ServerCloses(k) PROVE Good
  <2>1. Same
    BY <1>8 DEF ServerCloses, processVars
  <2>. QED
    BY <1>a, <2>1
<1>9. ASSUME NEW b \in beats, PingServed(b) \/ PongHeard(b) PROVE Good
  <2>1. Same
    BY <1>9 DEF PingServed, PongHeard, processVars, socketVars
  <2>. QED
    BY <1>a, <2>1
<1>10. CASE UNCHANGED <<processVars, socketVars>>
  <2>1. Same
    BY <1>10 DEF processVars, socketVars
  <2>. QED
    BY <1>a, <2>1
<1>. QED
  BY <1>1, <1>2, <1>3, <1>4, <1>5, <1>6, <1>7, <1>8, <1>9, <1>10, StepKinds

\* A node that has peers is not left alone and idle: what it takes off one
\* phase it puts on the next.
LEMMA GivesUpStep ==
  ASSUME TypeOK, OnePhase, SocketsInPlace, NeverGivesUp, [Next]_vars
  PROVE  NeverGivesUp'
<1>. DEFINE Busy(r) == \/ todo[r] # <<>>
                       \/ dialing[r] # {}
                       \/ retry[r] # {}
                       \/ \E q \in Parties : conn[r][q] # NoSocket
<1>. SUFFICES ASSUME NEW r \in Parties, up'[r], PeerUris[r] # <<>>
              PROVE  Busy(r)'
  BY DEF NeverGivesUp, Connected
<1>0. up[r] => Busy(r)
  BY DEF NeverGivesUp, Connected
<1>. DEFINE Same == /\ todo'[r] = todo[r] /\ dialing'[r] = dialing[r]
                    /\ conn'[r] = conn[r] /\ retry'[r] = retry[r] /\ up'[r] = up[r]
<1>a. Same => Busy(r)'
  BY <1>0
<1>1. ASSUME NEW p \in Parties, Down(p) PROVE Busy(r)'
  <2>1. r # p
    BY <1>1 DEF TypeOK, Down
  <2>2. Same
    BY <1>1, <2>1 DEF TypeOK, Down
  <2>. QED
    BY <1>a, <2>2
<1>2. ASSUME NEW p \in Parties, Boot(p) PROVE Busy(r)'
  <2>1. CASE r = p
    BY <1>2, <2>1 DEF TypeOK, Boot
  <2>2. CASE r # p
    <3>1. Same
      BY <1>2, <2>2 DEF TypeOK, Boot, socketVars
    <3>. QED
      BY <1>a, <3>1
  <2>. QED
    BY <2>1, <2>2
<1>3. ASSUME NEW p \in Parties, NEW q \in Parties, NEW startup \in BOOLEAN,
             Dial(p, q, startup), UNCHANGED conn
      PROVE  Busy(p)'
  <2>1. CASE Connected(p, q)
    BY <1>3, <2>1 DEF Connected
  <2>2. CASE ~Connected(p, q)
    BY <1>3, <2>2 DEF TypeOK, Dial
  <2>. QED
    BY <2>1, <2>2
<1>4. ASSUME NEW p \in Parties, DialNext(p) PROVE Busy(r)'
  <2>1. CASE r = p
    <3>1. Head(todo[p]) \in Parties
      BY <1>4, TailElements DEF TypeOK, DialNext
    <3>. QED
      BY <1>3, <1>4, <2>1, <3>1 DEF DialNext, socketVars
  <2>2. CASE r # p
    <3>1. Same
      BY <1>4, <2>2 DEF TypeOK, DialNext, Dial, socketVars
    <3>. QED
      BY <1>a, <3>1
  <2>. QED
    BY <2>1, <2>2
<1>5. ASSUME NEW p \in Parties, NEW q \in Parties, RetryFires(p, q) PROVE Busy(r)'
  <2>1. CASE r = p
    BY <1>3, <1>5, <2>1 DEF RetryFires, socketVars
  <2>2. CASE r # p
    <3>1. Same
      BY <1>5, <2>2 DEF TypeOK, RetryFires, Dial, socketVars
    <3>. QED
      BY <1>a, <3>1
  <2>. QED
    BY <2>1, <2>2
<1>6. ASSUME NEW p \in Parties, NEW d \in dialing[p], Open(p, d) PROVE Busy(r)'
  <2>. DEFINE k == [from |-> p, to |-> d.to, n |-> opened[p][d.to] + 1]
  <2>1. d.to \in Parties /\ k \in Sockets /\ k # NoSocket
    BY DialsTyped, NoSocketIsNone DEF Sockets
  <2>2. CASE r = p
    <3>1. conn' = [conn EXCEPT ![p][d.to] = k]
      BY <1>6 DEF Open
    <3>2. conn'[p][d.to] = k
      BY <2>1, <3>1 DEF TypeOK
    <3>. QED
      BY <2>1, <2>2, <3>2
  <2>3. CASE r # p
    <3>1. Same
      BY <1>6, <2>1, <2>3 DEF TypeOK, Open
    <3>. QED
      BY <1>a, <3>1
  <2>. QED
    BY <2>2, <2>3
<1>7. ASSUME NEW k \in clientEnds, ClientCloses(k) PROVE Busy(r)'
  <2>1. k.from \in Parties /\ k.to \in Parties
    BY DEF TypeOK, Sockets
  <2>2. Reconnect(k.from, k.to) /\ conn' = [conn EXCEPT ![k.from][k.to] = NoSocket]
        /\ UNCHANGED <<up, todo, dialing>>
    BY <1>7 DEF ClientCloses
  <2>3. CASE r = k.from
    <3>1. CASE \A q \in Parties : conn'[r][q] = NoSocket
      BY <2>1, <2>2, <2>3, <3>1 DEF TypeOK, Reconnect
    <3>2. CASE \E q \in Parties : conn'[r][q] # NoSocket
      BY <3>2
    <3>. QED
      BY <3>1, <3>2
  <2>4. CASE r # k.from
    <3>1. retry' = retry \/ retry' = [retry EXCEPT ![k.from] = @ \cup {k.to}]
      BY <2>2 DEF Reconnect
    <3>2. Same
      BY <2>1, <2>2, <2>4, <3>1 DEF TypeOK
    <3>. QED
      BY <1>a, <3>2
  <2>. QED
    BY <2>3, <2>4
<1>8. ASSUME NEW p \in Parties, NEW q \in Parties, Overdue(p, q) PROVE Same
  BY <1>8 DEF Overdue, processVars, socketVars
<1>9. ASSUME NEW k \in serverEnds, ServerCloses(k) PROVE Same
  BY <1>9 DEF ServerCloses, processVars
<1>10. ASSUME NEW b \in beats, PingServed(b) \/ PongHeard(b) PROVE Same
  BY <1>10 DEF PingServed, PongHeard, processVars, socketVars
<1>11. CASE UNCHANGED <<processVars, socketVars>>
  <2>1. Same
    BY <1>11 DEF processVars, socketVars
  <2>. QED
    BY <1>a, <2>1
<1>. QED
  BY <1>a, <1>1, <1>2, <1>4, <1>5, <1>6, <1>7, <1>8, <1>9, <1>10, <1>11, StepKinds

-----------------------------------------------------------------------------

LEMMA InvInit == Init => IInv
<1>1. Init => TypeOK
  BY TypeInit
<1>2. Init => OnePhase /\ NotItself /\ DownIsIdle
  BY DEF Init, OnePhase, NotItself, DownIsIdle, Connected, InTodo, Dialed
<1>3. Init => SocketsInPlace /\ AcceptedIsOpen /\ NeverGivesUp
  BY DEF Init, SocketsInPlace, AcceptedIsOpen, NeverGivesUp, Connected
<1>4. Init => HealthFollowsSocket
  BY DEF Init, HealthFollowsSocket, Connected, Unknown
<1>. QED
  BY <1>1, <1>2, <1>3, <1>4 DEF IInv

LEMMA InvStep == IInv /\ [Next]_vars => IInv'
  BY TypeStep, SocketsStep, AcceptedStep, HealthStep, PhaseStep, GivesUpStep DEF IInv

\* The inductive invariant of the connections.
THEOREM Invariance == Spec => []IInv
  BY InvInit, InvStep, PTL DEF Spec

LEMMA InPlaceIsOnRecord == TypeOK /\ SocketsInPlace => DialedOnRecord
<1>. SUFFICES ASSUME TypeOK, SocketsInPlace PROVE DialedOnRecord
  OBVIOUS
<1>1. ASSUME NEW k \in clientEnds
      PROVE  k \in {conn[p][q] : p, q \in Parties} \ {NoSocket}
  <2>1. k.from \in Parties /\ k.to \in Parties /\ k # NoSocket
    BY NoSocketIsNone DEF TypeOK, Sockets
  <2>. QED
    BY <2>1 DEF SocketsInPlace
<1>2. ASSUME NEW p \in Parties, NEW q \in Parties, conn[p][q] # NoSocket
      PROVE  conn[p][q] \in clientEnds
  BY <1>2 DEF SocketsInPlace, Connected
<1>. QED
  BY <1>1, <1>2 DEF DialedOnRecord

\* peerConnections holds exactly the open sockets a node dialed: send() never
\* picks a closed one, and no open one is forgotten.
THEOREM SocketsAreOnRecord == Spec => []DialedOnRecord
  BY Invariance, InPlaceIsOnRecord, PTL DEF IInv

\* The health of the peers a node dials is that of its open sockets.
THEOREM HealthIsOfSockets == Spec => []HealthFollowsSocket
  BY Invariance, PTL DEF IInv

\* The inbound socket a node has on record is open.
THEOREM RecordIsOpen == Spec => []AcceptedIsOpen
  BY Invariance, PTL DEF IInv

\* A node that runs and has peers is connected or on the way to be.
THEOREM KeepsTrying == Spec => []NeverGivesUp
  BY Invariance, PTL DEF IInv
=============================================================================
