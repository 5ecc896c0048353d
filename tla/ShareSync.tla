------------------------------ MODULE ShareSync ------------------------------
(* Share synchronisation between the MPC nodes (apps/mpc/src/sync): what each *)
(* node holds itself to know of every party's share, the gossip messages that *)
(* spread it, and the counter of failed consistency checks that raises the    *)
(* alarm.  An inventory entry stands for the map entry `wallet:party`; its    *)
(* hasShare flag is true exactly for the node's own party, so the version is  *)
(* all that is kept.  The inventory lives in memory: a restart empties it.    *)
(* A node that is asked for its inventory sends the entries it made first, as *)
(* many as buildInventory() allows.                                           *)
EXTENDS Integers, FiniteSets, Sequences

CONSTANTS
    Nodes,                    \* the party index of each node
    Wallets,
    MaxVersion,               \* share versions given by key generation, reshare
    MaxEntries,               \* entries an inventory response carries
    MaxConsistencyFailures,   \* config.maxConsistencyFailures
    MaxRestarts, MaxLosses, MaxInFlight   \* bounds of the model

VARIABLES
    entries,    \* node -> (wallet, party) -> version, 0 where no entry exists
    order,      \* node -> the keys of its entries, in the order they were made
    failureCount,
    net,        \* (sender, receiver) -> the messages in flight, in order
    added,      \* history: every <<party, wallet, version>> added by its owner
    restarts, losses

syncVars == <<entries, order, failureCount, net, added, restarts, losses>>

Versions == 1 .. MaxVersion
Peers(n) == Nodes \ {n}

-----------------------------------------------------------------------------
\* What a node tells of its inventory.

\* getOwnWallets with the version of each: what computeInventoryHash digests.
Own(n) == [w \in Wallets |-> entries[n][w, n]]
OwnWallets(n) == {w \in Wallets : entries[n][w, n] # 0}

\* The wallets of an inventory.
Listed(inventory) == {w \in Wallets : \E p \in Nodes : inventory[w, p] # 0}

\* Map.set(): a new key is the last, a known one keeps its place.
MadeEntry(n, e) ==
    order' = IF entries[n][e] = 0 THEN [order EXCEPT ![n] = Append(@, e)] ELSE order

\* buildInventory: entries of its own and those it has heard of, up to the limit.
Inventory(n) ==
    [e \in Wallets \X Nodes |->
        IF \E i \in DOMAIN order[n] : order[n][i] = e /\ i <= MaxEntries
        THEN entries[n][e] ELSE 0]

Announce(w, v) == [type |-> "SHARE_ANNOUNCE", share |-> <<w, v>>]
InventoryRequest == [type |-> "INVENTORY_REQUEST"]
InventoryResponse(n) == [type |-> "INVENTORY_RESPONSE", inventory |-> Inventory(n)]
ConsistencyCheck(n) == [type |-> "CONSISTENCY_CHECK", hash |-> Own(n)]

\* Broadcast of one message: it joins the queue towards every peer.
Broadcast(n, m) ==
    net' = [c \in DOMAIN net |->
                IF c[1] = n /\ c[2] # n THEN Append(net[c], m) ELSE net[c]]

HasRoom(n) == \A p \in Peers(n) : Len(net[n, p]) < MaxInFlight
InFlight(c, type) == \E i \in DOMAIN net[c] : net[c][i].type = type

-----------------------------------------------------------------------------
\* The consistency checker.

LocalOnly(n, inventory) == OwnWallets(n) \ Listed(inventory)
PeerOnly(n, inventory) == Listed(inventory) \ OwnWallets(n)
\* The peer's record of this node's share, not the version of the peer's own.
VersionMismatch(n, inventory) ==
    {w \in OwnWallets(n) : inventory[w, n] \notin {0, entries[n][w, n]}}

\* Mutant of Diverges: what only the peer knows of is not an issue.
DivergesLocally(n, inventory) ==
    LocalOnly(n, inventory) \cup VersionMismatch(n, inventory) # {}

Diverges(n, inventory) ==
    LocalOnly(n, inventory) \cup PeerOnly(n, inventory)
        \cup VersionMismatch(n, inventory) # {}

\* Mutant of Counted: a match no longer resets the count.
CountedUp(n, failed) ==
    failureCount' = [failureCount EXCEPT ![n] =
        IF failed /\ @ < MaxConsistencyFailures THEN @ + 1 ELSE @]

\* failureCount++ or = 0; counted up to the threshold, which is all that is read.
Counted(n, failed) ==
    failureCount' = [failureCount EXCEPT ![n] =
        IF failed THEN IF @ < MaxConsistencyFailures THEN @ + 1 ELSE @ ELSE 0]

IsAboveThreshold(n) == failureCount[n] >= MaxConsistencyFailures

-----------------------------------------------------------------------------
Init ==
    /\ entries = [n \in Nodes |-> [e \in Wallets \X Nodes |-> 0]]
    /\ order = [n \in Nodes |-> << >>]
    /\ failureCount = [n \in Nodes |-> 0]
    /\ net = [c \in Nodes \X Nodes |-> << >>]
    /\ added = {}
    /\ restarts = 0
    /\ losses = 0

\* A key generation or a reshare ends, or a share stored before is loaded: the
\* node adds its share and broadcasts the announcement of its own party.
AddLocalShare(n, w, v) ==
    /\ IF <<n, w, v>> \in added THEN entries[n][w, n] = 0
                               ELSE \A u \in 1 .. v - 1 : <<n, w, u>> \in added
    /\ entries' = [entries EXCEPT ![n][w, n] = v]
    /\ MadeEntry(n, <<w, n>>)
    /\ HasRoom(n) /\ Broadcast(n, Announce(w, v))
    /\ added' = added \cup {<<n, w, v>>}
    /\ UNCHANGED <<failureCount, restarts, losses>>

\* The interval of startPeriodicSync fires.  It is long against the delay of a
\* message: the exchange that the last firing began is over.
PeriodicSync(n) ==
    /\ \A p \in Peers(n) : /\ ~InFlight(<<n, p>>, "CONSISTENCY_CHECK")
                          /\ ~InFlight(<<p, n>>, "INVENTORY_REQUEST")
                          /\ ~InFlight(<<n, p>>, "INVENTORY_RESPONSE")
    /\ Broadcast(n, ConsistencyCheck(n))
    /\ UNCHANGED <<entries, order, failureCount, added, restarts, losses>>

\* The process restarts with an empty inventory and asks every peer for theirs.
Restart(n) ==
    /\ restarts < MaxRestarts
    /\ entries' = [entries EXCEPT ![n] = [e \in Wallets \X Nodes |-> 0]]
    /\ order' = [order EXCEPT ![n] = << >>]
    /\ failureCount' = [failureCount EXCEPT ![n] = 0]
    /\ HasRoom(n) /\ Broadcast(n, InventoryRequest)
    /\ restarts' = restarts + 1
    /\ UNCHANGED <<added, losses>>

\* handleMessage takes the first message of p and may respond to it.
Handled(n, p, answer) ==
    net' = [net EXCEPT ![p, n] = Tail(@), ![n, p] = @ \o answer]

\* recordPeerShare: an entry that exists is left as it is.
OnShareAnnounce(n, p, m) ==
    /\ m.type = "SHARE_ANNOUNCE"
    /\ LET e == <<m.share[1], p>>
       IN  /\ entries' = IF entries[n][e] # 0 THEN entries
                      ELSE [entries EXCEPT ![n][e] = m.share[2]]
           /\ MadeEntry(n, e)
    /\ Handled(n, p, << >>)
    /\ UNCHANGED failureCount

OnInventoryRequest(n, p, m) ==
    /\ m.type = "INVENTORY_REQUEST"
    /\ Handled(n, p, <<InventoryResponse(n)>>)
    /\ UNCHANGED <<entries, order, failureCount>>

\* The comparison is counted; the inventory of the peer updates nothing.
OnInventoryResponse(n, p, m) ==
    /\ m.type = "INVENTORY_RESPONSE"
    /\ Counted(n, Diverges(n, m.inventory))
    /\ Handled(n, p, << >>)
    /\ UNCHANGED <<entries, order>>

OnConsistencyCheck(n, p, m) ==
    /\ m.type = "CONSISTENCY_CHECK"
    /\ Counted(n, m.hash # Own(n))
    /\ Handled(n, p, IF m.hash = Own(n) THEN << >> ELSE <<InventoryRequest>>)
    /\ UNCHANGED <<entries, order>>

HandleMessage(n, p) ==
    /\ net[p, n] # << >>
    /\ LET m == Head(net[p, n])
       IN  \/ OnShareAnnounce(n, p, m)
           \/ OnInventoryRequest(n, p, m)
           \/ OnInventoryResponse(n, p, m)
           \/ OnConsistencyCheck(n, p, m)
    /\ UNCHANGED <<added, restarts, losses>>

\* The transport drops a message.
Lose(n, p) ==
    /\ losses < MaxLosses /\ net[p, n] # << >>
    /\ net' = [net EXCEPT ![p, n] = Tail(@)]
    /\ losses' = losses + 1
    /\ UNCHANGED <<entries, order, failureCount, added, restarts>>

Next ==
    \/ \E n \in Nodes, w \in Wallets, v \in Versions : AddLocalShare(n, w, v)
    \/ \E n \in Nodes : PeriodicSync(n) \/ Restart(n)
    \/ \E n, p \in Nodes : HandleMessage(n, p) \/ Lose(n, p)

\* The interval keeps firing, and what is not lost is delivered.
Fairness ==
    \A n \in Nodes :
        /\ WF_syncVars(PeriodicSync(n))
        /\ \A p \in Peers(n) : WF_syncVars(HandleMessage(n, p))

Spec == Init /\ [][Next]_syncVars /\ Fairness

-----------------------------------------------------------------------------
(* Properties *)

\* A share a node no longer has while every peer has its own is reported, if the
\* peers' inventories name its wallet: the checks with its peers fail one after
\* the other until the alarm, whatever was lost or is still in flight
\* (consistency.ts, needsReshare).  A wallet that is past the limit of an
\* inventory is not compared, and the answer that looks consistent takes back the
\* failure of the hash each time.
Lost(n) == \E w \in Wallets :
    /\ entries[n][w, n] = 0
    /\ \A p \in Peers(n) : entries[p][w, p] # 0 /\ w \in Listed(Inventory(p))
LostShareReported ==
    \A n \in Nodes : <>[]Lost(n) => <>IsAboveThreshold(n)

\* Nodes that agree on their own shares from some time on end every alarm: the
\* answers of an earlier disagreement cannot keep one up.
Agree == \A n, p \in Nodes : Own(n) = Own(p)
AgreementEndsAlarms ==
    \A n \in Nodes : <>[]Agree => <>[]~IsAboveThreshold(n)

=============================================================================
