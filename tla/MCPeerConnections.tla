------------------------- MODULE MCPeerConnections -------------------------
(***************************************************************************)
(* A small instance of PeerConnections: one node dials the two others.  It *)
(* can lose one connection and keep the other, and a node that is dialed   *)
(* can have an old and a new socket of the same caller.                    *)
(***************************************************************************)
EXTENDS PeerConnections

Uris == <<<<2, 3>>, <<>>, <<>>>>

\* The node that dials opens two sockets to each of the others.
TwoEach == <<2, 0, 0>>

\* Heartbeats do not wait for one another: two on their way are enough.
TwoBeats == Cardinality(beats) <= 2
=============================================================================
