------------------------------ MODULE MCNetwork ------------------------------
(***************************************************************************)
(* How the nodes work together, on small instances: the messages of a      *)
(* session (Transport) among the three parties of the deployment, of which *)
(* the first two send; the gossip on the shares of two wallets (ShareSync) *)
(* between two nodes, whose inventories may exceed what a message carries; *)
(* and the selection of the parties of a ceremony with their replacement   *)
(* (SigningCoordinator).  The three have no state in common, so that a     *)
(* behaviour of the instance is a behaviour of one of them.                *)
(***************************************************************************)
EXTENDS Transport, SigningCoordinator

CONSTANTS SyncNodes, SyncedWallets, MaxVersion, MaxEntries, MaxConsistencyFailures,
          MaxRestarts, MaxLosses, MaxInFlight

VARIABLES part, entries, order, failureCount, net, added, restarts, losses

syncVars == <<entries, order, failureCount, net, added, restarts, losses>>

Sync == INSTANCE ShareSync WITH Nodes <- SyncNodes, Wallets <- SyncedWallets

FirstTwoSend == <<2, 1, 0>>

NetworkInit ==
  /\ part \in {"transport", "sync", "coordinator"}
  /\ Init /\ Sync!Init /\ CoordinatorInit

NetworkNext ==
  /\ UNCHANGED part
  /\ IF part = "transport" THEN Next ELSE UNCHANGED vars
  /\ IF part = "sync" THEN Sync!Next ELSE UNCHANGED syncVars
  /\ IF part = "coordinator" THEN CoordinatorNext ELSE UNCHANGED coordinatorVars

\* The fairness of Transport and of ShareSync, where they run.
NetworkFairness ==
  /\ \A p \in Nodes, s \in SessionIds :
       WF_vars(part = "transport" /\ Idle(p, s))
       /\ WF_vars(part = "transport" /\ TimerFires(p, s))
  /\ \A n \in SyncNodes :
       /\ WF_syncVars(part = "sync" /\ Sync!PeriodicSync(n))
       /\ \A m \in Sync!Peers(n) :
            WF_syncVars(part = "sync" /\ Sync!HandleMessage(n, m))

NetworkSpec ==
  /\ NetworkInit
  /\ [][NetworkNext]_<<part, vars, syncVars, coordinatorVars>>
  /\ NetworkFairness

-----------------------------------------------------------------------------
(* Bounds of the instance, as constraints.                                 *)

Links == {l \in Nodes \X Nodes : l[1] # l[2]}

\* The party that sends nothing keeps the session; what the others do with theirs
\* does not touch it.  One node is destroyed at most, or one link is down.
FewFaults ==
  /\ \A p \in Nodes, s \in SessionIds : MaxSequence[p] > 0 => ~OnRecord(sessions[p][s])
  /\ Cardinality({p \in Nodes : destroyed[p]})
       + Cardinality({l \in Links : ~destroyed[l[1]] /\ l[2] \notin peers[l[1]]}) <= 1

\* Three shares are added, new versions included, one message is lost or one node
\* restarts, and two messages are on their way at a time.
SmallGossip ==
  /\ Cardinality(added) <= 3
  /\ restarts + losses <= 1
  /\ FoldSet(LAMBDA l, sum : sum + Len(net[l]), 0, SyncNodes \X SyncNodes) <= 2

\* While a ceremony is on record, which no longer looks at the health entries,
\* these are explored only as long as they are alike and ordered by party.
AlikeInCeremony ==
  ceremonies # <<>> =>
    \A i \in DOMAIN nodes :
      /\ nodes[i].health = [ready |-> TRUE, measured |-> TRUE, score |-> 1]
      /\ \A j \in DOMAIN nodes : i < j => nodes[i].party < nodes[j].party

-----------------------------------------------------------------------------
\* A share that was lost raises the alarm at its node, and agreement ends every
\* alarm, as ShareSync states it.
LostShareReported == Sync!LostShareReported
AgreementEndsAlarms == Sync!AgreementEndsAlarms
=============================================================================
