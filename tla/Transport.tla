------------------------------ MODULE Transport ------------------------------
(***************************************************************************)
(* The parties of the MPC cluster as they exchange ceremony messages       *)
(* (apps/mpc/src/transport/index.ts): every party has an in-process        *)
(* transport that numbers what it sends, and a router that tracks the      *)
(* session of what it receives, checks the number and calls the handlers.  *)
(*                                                                         *)
(* A message is on its way for a random time, so messages arrive in any    *)
(* order; one that is dropped is dropped before it is numbered, which      *)
(* leaves no trace.  Nobody listens to the router's 'error' event, and     *)
(* emitting that event without a listener throws: route() ends there and   *)
(* the message reaches no handler.                                         *)
(***************************************************************************)
EXTENDS SessionManager

CONSTANTS
  Nodes,      \* the parties, one per node
  SessionIds, \* session identifiers
  Types,      \* the types of message that are sent
  MaxSequence \* bound of the messages a party sends in a session, by party

ASSUME TransportAssumption ==
  /\ Types \subseteq MessageTypes
  /\ MaxSequence \in [Nodes -> Nat]

VARIABLES
  peers,     \* InProcessTransport.peers of a party
  destroyed, \* InProcessTransport.destroyed of a party
  counter,   \* msgCounter of a party, per session
  inFlight,  \* envelopes on their way
  sessions,  \* SessionManager.sessions of a party's router
  handled,   \* the message routed last reached the handlers (history)
  highest    \* the highest number a party has received from another (history)

netVars == <<peers, destroyed, counter, inFlight>>
vars == <<netVars, sessions, handled, highest>>

Init ==
  /\ peers = [p \in Nodes |-> Nodes \ {p}]
  /\ destroyed = [p \in Nodes |-> FALSE]
  /\ counter = [p \in Nodes |-> [s \in SessionIds |-> 0]]
  /\ inFlight = {}
  /\ sessions = [p \in Nodes |-> [s \in SessionIds |-> Absent]]
  /\ handled = TRUE
  /\ highest = [p \in Nodes |-> [s \in SessionIds |-> [q \in Nodes |-> 0]]]

-----------------------------------------------------------------------------
(* The transport.                                                          *)

Send(p, q, t, s) ==
  /\ ~destroyed[p]
  /\ q \in peers[p]
  /\ counter[p][s] < MaxSequence[p]
  /\ counter' = [counter EXCEPT ![p][s] = @ + 1]
  /\ inFlight' = inFlight \cup {[from |-> p, to |-> q, type |-> t, session |-> s,
                                 sequence |-> counter[p][s] + 1]}
  /\ UNCHANGED <<peers, destroyed, sessions, handled, highest>>

Disconnect(p, q) ==
  /\ q \in peers[p]
  /\ peers' = [peers EXCEPT ![p] = @ \ {q}]
  /\ UNCHANGED <<destroyed, counter, inFlight, sessions, handled, highest>>

Connect(p, q) ==
  /\ p # q
  /\ peers' = [peers EXCEPT ![p] = @ \cup {q}, ![q] = @ \cup {p}]
  /\ UNCHANGED <<destroyed, counter, inFlight, sessions, handled, highest>>

Destroy(p) ==
  /\ destroyed' = [destroyed EXCEPT ![p] = TRUE]
  /\ peers' = [peers EXCEPT ![p] = {}]
  /\ UNCHANGED <<counter, inFlight, sessions, handled, highest>>

\* The sender or the receiver was destroyed meanwhile.
Vanish(m) ==
  /\ destroyed[m.from] \/ destroyed[m.to]
  /\ inFlight' = inFlight \ {m}
  /\ UNCHANGED <<peers, destroyed, counter, sessions, handled, highest>>

-----------------------------------------------------------------------------
(* The router.                                                             *)

SetSession(p, s, entry) == sessions' = [sessions EXCEPT ![p][s] = entry]

\* Mutant: the number is compared without room for the message itself.
OutOfOrderStrict(m, entry) == OnRecord(entry) /\ m.sequence <= entry.messageCount

\* The number is compared with the messages of the session so far, of all
\* senders, this one included.
OutOfOrder(m, entry) == OnRecord(entry) /\ m.sequence < entry.messageCount

\* receive() and route().
Receive(m) ==
  LET s == m.session
      entry == Recorded(sessions[m.to][s], m.type)
  IN  /\ ~destroyed[m.from] /\ ~destroyed[m.to]
      /\ inFlight' = inFlight \ {m}
      /\ SetSession(m.to, s, IF m.type = "ABORT" THEN Aborted(entry) ELSE entry)
      /\ handled' = ~OutOfOrder(m, entry)
      /\ highest' = [highest EXCEPT ![m.to][s][m.from] =
                       IF m.sequence > @ THEN m.sequence ELSE @]
      /\ UNCHANGED <<peers, destroyed, counter>>

-----------------------------------------------------------------------------
(* The sessions.                                                           *)

Create(p, s) ==
  /\ ~OnRecord(sessions[p][s])
  /\ SetSession(p, s, Created)
  /\ UNCHANGED <<netVars, handled, highest>>

Abort(p, s) ==
  /\ OnRecord(sessions[p][s])
  /\ SetSession(p, s, Aborted(sessions[p][s]))
  /\ UNCHANGED <<netVars, handled, highest>>

\* The timeout of a session passes without activity.
Idle(p, s) ==
  /\ OnRecord(sessions[p][s])
  /\ SetSession(p, s, [sessions[p][s] EXCEPT !.idle = TRUE])
  /\ UNCHANGED <<netVars, handled, highest>>

TimerFires(p, s) ==
  /\ sessions[p][s].timer /\ sessions[p][s].idle
  /\ SetSession(p, s, TimedOut(sessions[p][s]))
  /\ UNCHANGED <<netVars, handled, highest>>

Cleanup(p) ==
  /\ sessions' = [sessions EXCEPT ![p] =
       [s \in SessionIds |-> IF Removable(@[s]) THEN Absent ELSE @[s]]]
  /\ UNCHANGED <<netVars, handled, highest>>

\* SessionManager.destroy()
DestroySessions(p) ==
  /\ sessions' = [sessions EXCEPT ![p] = [s \in SessionIds |-> Absent]]
  /\ UNCHANGED <<netVars, handled, highest>>

Next ==
  \/ \E p, q \in Nodes :
       \/ \E t \in Types, s \in SessionIds : Send(p, q, t, s)
       \/ Disconnect(p, q)
       \/ Connect(p, q)
  \/ \E m \in inFlight : Receive(m) \/ Vanish(m)
  \/ \E p \in Nodes : Destroy(p) \/ Cleanup(p) \/ DestroySessions(p)
  \/ \E p \in Nodes, s \in SessionIds :
       Create(p, s) \/ Abort(p, s) \/ Idle(p, s) \/ TimerFires(p, s)

Spec == Init /\ [][Next]_vars

\* Time passes and timers fire.
FairSpec ==
  /\ Spec
  /\ \A p \in Nodes, s \in SessionIds :
       WF_vars(Idle(p, s)) /\ WF_vars(TimerFires(p, s))

-----------------------------------------------------------------------------
(* Properties.                                                             *)

\* However late messages, aborts and timeouts fall together, no session stays
\* under way for ever once its messages stop: it ends, or it is removed.
EverySessionEnds ==
  \A p \in Nodes, s \in SessionIds :
    Live(sessions[p][s]) ~> ~Live(sessions[p][s])

\* A message that is routed, rather than lost with its sender or receiver, and
\* that no later one of its sender came before.
InOrder(m) ==
  /\ ~destroyed[m.from] /\ ~destroyed[m.to]
  /\ m.sequence > highest[m.to][m.session][m.from]

\* Nobody but q has sent p a message in the session.
HeardOnly(p, s, q) == \A r \in Nodes \ {q} : highest[p][s][r] = 0

\* "Out-of-order message (TCP/WS already guarantees order, but verify at app
\* layer)": only a message that a later one of its sender came before is kept
\* from the handlers.  It is not so: with a third party in the session its
\* messages count against the numbers of the other sender.
InOrderHandled ==
  [][\A m \in inFlight \ inFlight' : InOrder(m) => handled']_vars

\* In a session of two parties, such as a signing ceremony, it is so: whatever
\* is aborted, times out, is removed and created again or arrives late, and
\* whatever the other nodes do, a message in order from the only party that was
\* heard reaches the handlers.
PairHandled ==
  [][\A m \in inFlight \ inFlight' :
       InOrder(m) /\ HeardOnly(m.to, m.session, m.from) => handled']_vars
=============================================================================
