--------------------------- MODULE PeerConnections ---------------------------
(***************************************************************************)
(* The processes of the MPC cluster and the WebSockets between them: the   *)
(* WsTransport of every node (apps/mpc/src/transport/ws-transport.ts), its *)
(* ConnectionHealth (health.ts) and ReconnectionManager (reconnect.ts),    *)
(* as TransportModule (transport.module.ts) wires and starts them.         *)
(*                                                                         *)
(* Two things the wiring decides.  Nobody listens to the 'error' event of  *)
(* a WsTransport, so emitting it throws out of the socket's event handler, *)
(* which ends the process.  And the URI a node dials carries the partyId   *)
(* of the node it dials, which is where the accepting side looks for the   *)
(* partyId of its caller: a node keeps whatever is connected to it under   *)
(* its own number.                                                         *)
(*                                                                         *)
(* Accepting a connection at one end and opening it at the other is one    *)
(* step.  A connection may be lost at any time, and its two ends learn it  *)
(* in any order.  The delay before a reconnection is any time; there is no *)
(* limit to the total (maxTotalMs = 0), so the attempts are not counted.   *)
(* Ceremony messages are the subject of Transport.                         *)
(***************************************************************************)
EXTENDS Naturals, Sequences, FiniteSets

CONSTANTS
  Parties,     \* party numbers
  PeerUris,    \* PEER_URIS of a party: the parties it dials, in order
  MaxMissed,   \* heartbeat config: maxMissed
  MaxBoots,    \* bound of the times a process is started
  MaxSockets   \* bound of the sockets a party opens to a peer, by party

ASSUME PartiesAssumption == Parties \subseteq Nat \ {0}
ASSUME PeerUrisAssumption ==
  /\ PeerUris \in [Parties -> Seq(Parties)]
  /\ \A p \in Parties : \A i, j \in 1..Len(PeerUris[p]) :
       /\ PeerUris[p][i] # p
       /\ PeerUris[p][i] = PeerUris[p][j] => i = j
ASSUME BoundsAssumption ==
  MaxMissed \in Nat \ {0} /\ MaxBoots \in Nat /\ MaxSockets \in [Parties -> Nat]

VARIABLES
  up,          \* the process of a party runs
  boots,       \* how often it was started (bound)
  todo,        \* the peers onModuleInit has still to dial
  dialing,     \* [to, startup]: calls of connectToPeer() that await
  conn,        \* peerConnections of a party
  client,      \* the one entry of clients of a party
  health,      \* ConnectionHealth.peers of a party
  watched,     \* ConnectionHealth.timers of a party
  retry,       \* ReconnectionManager.timers of a party
  opened,      \* sockets opened by a party to a peer (bound)
  clientEnds,  \* sockets that are open at the end that dialed
  serverEnds,  \* sockets that are open at the end that accepted
  beats        \* heartbeats on their way: [socket, byte, toServer]

processVars == <<up, boots, todo, dialing, retry>>
socketVars == <<conn, client, opened, clientEnds, serverEnds>>
healthVars == <<health, watched>>
vars == <<processVars, socketVars, healthVars, beats>>

NoSocket == [from |-> 0, to |-> 0, n |-> 0]
Sockets == [from : Parties, to : Parties, n : Nat \ {0}]

Unknown == [state |-> "unknown", missed |-> 0]
Registered == [state |-> "connected", missed |-> 0]
Healths == [state : {"connected", "unhealthy", "disconnected"}, missed : 0..MaxMissed]

Ping == 1   \* 0x01
Pong == 2   \* 0x02

TypeOK ==
  /\ up \in [Parties -> BOOLEAN]
  /\ boots \in [Parties -> 0..MaxBoots]
  /\ todo \in [Parties -> Seq(Parties)]
  /\ dialing \in [Parties -> SUBSET [to : Parties, startup : BOOLEAN]]
  /\ conn \in [Parties -> [Parties -> Sockets \cup {NoSocket}]]
  /\ client \in [Parties -> Sockets \cup {NoSocket}]
  /\ health \in [Parties -> [Parties -> Healths \cup {Unknown}]]
  /\ watched \in [Parties -> SUBSET Parties]
  /\ retry \in [Parties -> SUBSET Parties]
  /\ opened \in [Parties -> [Parties -> Nat]]
  /\ \A p, q \in Parties : opened[p][q] <= MaxSockets[p]
  /\ clientEnds \subseteq Sockets /\ serverEnds \subseteq Sockets
  /\ beats \subseteq [socket : Sockets, byte : {Ping, Pong}, toServer : BOOLEAN]

Init ==
  /\ up = [p \in Parties |-> FALSE]
  /\ boots = [p \in Parties |-> 0]
  /\ todo = [p \in Parties |-> <<>>]
  /\ dialing = [p \in Parties |-> {}]
  /\ conn = [p \in Parties |-> [q \in Parties |-> NoSocket]]
  /\ client = [p \in Parties |-> NoSocket]
  /\ health = [p \in Parties |-> [q \in Parties |-> Unknown]]
  /\ watched = [p \in Parties |-> {}]
  /\ retry = [p \in Parties |-> {}]
  /\ opened = [p \in Parties |-> [q \in Parties |-> 0]]
  /\ clientEnds = {}
  /\ serverEnds = {}
  /\ beats = {}

-----------------------------------------------------------------------------
(* Processes.                                                              *)

\* start() and the first lines of onModuleInit().
Boot(p) ==
  /\ ~up[p]
  /\ boots[p] < MaxBoots
  /\ up' = [up EXCEPT ![p] = TRUE]
  /\ boots' = [boots EXCEPT ![p] = @ + 1]
  /\ todo' = [todo EXCEPT ![p] = PeerUris[p]]
  /\ UNCHANGED <<dialing, retry, socketVars, healthVars, beats>>

\* A heartbeat on its way to an end that is closed is lost.
Reaching(bs) ==
  {b \in bs : b.socket \in IF b.toServer THEN serverEnds' ELSE clientEnds'}

\* The process of p ends: its memory is gone, its ends of sockets are closed.
\* The other ends learn of it as of any lost connection.
Down(p) ==
  /\ up' = [up EXCEPT ![p] = FALSE]
  /\ todo' = [todo EXCEPT ![p] = <<>>]
  /\ dialing' = [dialing EXCEPT ![p] = {}]
  /\ conn' = [conn EXCEPT ![p] = [q \in Parties |-> NoSocket]]
  /\ client' = [client EXCEPT ![p] = NoSocket]
  /\ health' = [health EXCEPT ![p] = [q \in Parties |-> Unknown]]
  /\ watched' = [watched EXCEPT ![p] = {}]
  /\ retry' = [retry EXCEPT ![p] = {}]
  /\ clientEnds' = {k \in clientEnds : k.from # p}
  /\ serverEnds' = {k \in serverEnds : k.to # p}
  /\ beats' = Reaching(beats)
  /\ UNCHANGED <<boots, opened>>

\* A crash, or stop() by onModuleDestroy() and the end of the process.
Kill(p) == up[p] /\ Down(p)

-----------------------------------------------------------------------------
(* Connecting.                                                             *)

Connected(p, q) == conn[p][q] # NoSocket

\* connectToPeer(): it returns at once for a peer that is connected.
Dial(p, q, startup) ==
  dialing' = IF Connected(p, q) THEN dialing
             ELSE [dialing EXCEPT ![p] = @ \cup {[to |-> q, startup |-> startup]}]

\* The loop of onModuleInit(), which awaits one peer before the next.
DialNext(p) ==
  /\ todo[p] # <<>>
  /\ \A d \in dialing[p] : ~d.startup
  /\ todo' = [todo EXCEPT ![p] = Tail(@)]
  /\ Dial(p, Head(todo[p]), TRUE)
  /\ UNCHANGED <<up, boots, retry, socketVars, healthVars, beats>>

\* registerPeer(): the record of the peer is replaced, its timer set anew.
Register(h, q) == [h EXCEPT ![q] = Registered]

\* Mutant: disconnect() stops the timer and leaves the state.
DisconnectQuietly(h, q) == h

\* disconnect()
Disconnect(h, q) ==
  [h EXCEPT ![q] = IF @ = Unknown THEN @ ELSE [@ EXCEPT !.state = "disconnected"]]

\* The 'connection' event at the server and the 'open' event at the client.
Open(p, d) ==
  LET q == d.to
      k == [from |-> p, to |-> q, n |-> opened[p][q] + 1]
  IN  /\ up[q]
      /\ opened[p][q] < MaxSockets[p]
      /\ opened' = [opened EXCEPT ![p][q] = @ + 1]
      /\ dialing' = [dialing EXCEPT ![p] = @ \ {d}]
      /\ conn' = [conn EXCEPT ![p][q] = k]
      /\ client' = [client EXCEPT ![q] = k]
      /\ clientEnds' = clientEnds \cup {k}
      /\ serverEnds' = serverEnds \cup {k}
      /\ health' = [health EXCEPT ![p] = Register(@, q), ![q] = Register(@, q)]
      /\ watched' = [watched EXCEPT ![p] = @ \cup {q}, ![q] = @ \cup {q}]
      /\ retry' = [retry EXCEPT ![p] = @ \ {q}]
      /\ UNCHANGED <<up, boots, todo, beats>>

\* The connection fails: the 'error' event, which the transport emits again,
\* ends the process before the promise is rejected.
Refused(p) ==
  /\ dialing[p] # {}
  /\ Down(p)

\* The timer of schedule().
RetryFires(p, q) ==
  /\ q \in retry[p]
  /\ retry' = [retry EXCEPT ![p] = @ \ {q}]
  /\ Dial(p, q, FALSE)
  /\ UNCHANGED <<up, boots, todo, socketVars, healthVars, beats>>

-----------------------------------------------------------------------------
(* Losing a connection.                                                    *)

\* Mutant: no other connection is left, but before this one is deleted.
ReconnectTooEarly(p, q) ==
  retry' = IF \A r \in Parties : conn[p][r] = NoSocket
           THEN [retry EXCEPT ![p] = @ \cup {q}] ELSE retry

\* A reconnection is scheduled only when no connection is left.
Reconnect(p, q) ==
  retry' = IF \A r \in Parties : conn'[p][r] = NoSocket
           THEN [retry EXCEPT ![p] = @ \cup {q}] ELSE retry

\* Mutant: the entry stays.
ClientClosesKept(k) ==
  LET p == k.from
      q == k.to
  IN  /\ k \in clientEnds
      /\ clientEnds' = clientEnds \ {k}
      /\ health' = [health EXCEPT ![p] = Disconnect(@, q)]
      /\ watched' = [watched EXCEPT ![p] = @ \ {q}]
      /\ UNCHANGED <<processVars, conn, client, opened, serverEnds>>
      /\ beats' = Reaching(beats)

\* The 'close' event at the end that dialed.
ClientCloses(k) ==
  LET p == k.from
      q == k.to
  IN  /\ k \in clientEnds
      /\ clientEnds' = clientEnds \ {k}
      /\ conn' = [conn EXCEPT ![p][q] = NoSocket]
      /\ health' = [health EXCEPT ![p] = Disconnect(@, q)]
      /\ watched' = [watched EXCEPT ![p] = @ \ {q}]
      /\ Reconnect(p, q)
      /\ UNCHANGED <<up, boots, todo, dialing, client, opened, serverEnds>>
      /\ beats' = Reaching(beats)

\* The 'close' event at the end that accepted: the entry goes, whichever
\* socket it holds.
ServerCloses(k) ==
  LET q == k.to
  IN  /\ k \in serverEnds
      /\ serverEnds' = serverEnds \ {k}
      /\ client' = [client EXCEPT ![q] = NoSocket]
      /\ health' = [health EXCEPT ![q] = Disconnect(@, q)]
      /\ watched' = [watched EXCEPT ![q] = @ \ {q}]
      /\ UNCHANGED <<processVars, conn, opened, clientEnds>>
      /\ beats' = Reaching(beats)

-----------------------------------------------------------------------------
(* Heartbeats.                                                             *)

Beat(k, byte, toServer) == [socket |-> k, byte |-> byte, toServer |-> toServer]

\* The interval of startHeartbeat(): a ping on every socket on record.
Heartbeat(p) ==
  LET dialed == {Beat(conn[p][q], Ping, TRUE) : q \in {r \in Parties : Connected(p, r)}}
      accepted == {Beat(k, Ping, FALSE) : k \in {client[p]} \ {NoSocket}}
  IN  /\ up[p]
      /\ UNCHANGED <<processVars, socketVars, healthVars>>
      /\ beats' = Reaching(beats \cup dialed \cup accepted)

\* heartbeatReceived()
Heard(h, q) == [h EXCEPT ![q] = IF @ = Unknown THEN @ ELSE Registered]

\* The accepting end takes the ping as one of its own number and answers.
PingServed(b) ==
  /\ b.toServer /\ b.socket \in serverEnds
  /\ health' = [health EXCEPT ![b.socket.to] = Heard(@, b.socket.to)]
  /\ beats' = (beats \ {b}) \cup {Beat(b.socket, Pong, FALSE)}
  /\ UNCHANGED <<processVars, socketVars, watched>>

PongHeard(b) ==
  /\ ~b.toServer /\ b.byte = Pong /\ b.socket \in clientEnds
  /\ health' = [health EXCEPT ![b.socket.from] = Heard(@, b.socket.to)]
  /\ beats' = beats \ {b}
  /\ UNCHANGED <<processVars, socketVars, watched>>

\* The dialing end knows no ping: it decodes the byte as a message, which is
\* too short, and the 'error' it emits ends the process.
PingDecoded(b) ==
  /\ ~b.toServer /\ b.byte = Ping /\ b.socket \in clientEnds
  /\ Down(b.socket.from)

\* checkPeerHealth() finds that a heartbeat is overdue; the count of missed
\* ones is kept up to the maximum.
Overdue(p, q) ==
  LET h == health[p][q]
      missed == IF h.missed < MaxMissed THEN h.missed + 1 ELSE MaxMissed
  IN  /\ q \in watched[p]
      /\ h.state \notin {"unknown", "disconnected"}
      /\ health' = [health EXCEPT ![p][q] =
           [state |-> IF missed = MaxMissed THEN "unhealthy" ELSE h.state,
            missed |-> missed]]
      /\ UNCHANGED <<processVars, socketVars, watched, beats>>

Step ==
  \/ \E p \in Parties :
       \/ Boot(p) \/ DialNext(p) \/ Refused(p) \/ Heartbeat(p)
       \/ \E d \in dialing[p] : Open(p, d)
       \/ \E q \in Parties : RetryFires(p, q) \/ Overdue(p, q)
  \/ \E k \in clientEnds : ClientCloses(k)
  \/ \E k \in serverEnds : ServerCloses(k)
  \/ \E b \in beats : PingServed(b) \/ PongHeard(b) \/ PingDecoded(b)

Next == Step \/ \E p \in Parties : Kill(p)

Spec == Init /\ [][Next]_vars

\* Nothing kills a process from outside.
SpecUnharmed == Init /\ [][Step]_vars

-----------------------------------------------------------------------------
(* Properties.                                                             *)

\* peerConnections holds exactly the open sockets a node dialed, and so at most
\* one per peer: send() never picks a closed one, and no open one is forgotten,
\* however closes, reconnections and the loop at the start fall together.
DialedOnRecord ==
  clientEnds = {conn[p][q] : p, q \in Parties} \ {NoSocket}

\* The health of a peer that was dialed follows its connection: it is watched,
\* and counts as connected or unhealthy, if and only if the socket is open.
HealthFollowsSocket ==
  \A p \in Parties : \A q \in Parties \ {p} :
    /\ q \in watched[p] <=> Connected(p, q)
    /\ health[p][q].state \in {"connected", "unhealthy"} <=> Connected(p, q)

\* The one inbound socket a node has on record is open at its end, also when
\* another one that shares the record closed before.
AcceptedIsOpen ==
  \A p \in Parties : client[p] # NoSocket => client[p] \in serverEnds

\* A node that has peers never ends up alone and idle: while it is connected to
\* none of them it is about to dial one, or dials one, or a reconnection is due.
NeverGivesUp ==
  \A p \in Parties :
    up[p] /\ PeerUris[p] # <<>> =>
      \/ todo[p] # <<>>
      \/ dialing[p] # {}
      \/ retry[p] # {}
      \/ \E q \in Parties : Connected(p, q)

\* A peer that cannot be reached is a warning in the log ("Failed to connect to
\* peer"), and one that sends heartbeats is healthy: neither ends the process.
KeepsRunning == [][\A p \in Parties : up[p] => up'[p]]_vars
=============================================================================
