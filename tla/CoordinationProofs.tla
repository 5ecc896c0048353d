------------------------- MODULE CoordinationProofs -------------------------
(***************************************************************************)
(* Proofs about what coordinates the nodes, in two parts that have nothing *)
(* in common.                                                              *)
(*                                                                         *)
(* SigningCoordinator and its PartySelector, for any parties, scores,      *)
(* wallets, timeouts and numbers of attempts: the selection takes the best *)
(* parties, and a ceremony whose own parties fail keeps a pair with a      *)
(* third party behind it.                                                  *)
(*                                                                         *)
(* Transport, for any nodes, sessions, types and numbers of messages:      *)
(* where a party has heard one other in a session, a message reaches the   *)
(* handlers unless a later one overtook it.                                *)
(***************************************************************************)
EXTENDS SigningCoordinator, Transport, FiniteSetTheorems, SequenceTheorems, TLAPS

-----------------------------------------------------------------------------
(* The health entries: one per party.                                      *)

Entries == [party : Parties, health : Healths]

NodesTyped ==
  /\ nodes \in Seq(Entries)
  /\ \A i, j \in 1..Len(nodes) : nodes[i].party = nodes[j].party => i = j

LEMMA NodeFacts ==
  ASSUME NodesTyped
  PROVE  /\ Len(nodes) \in Nat /\ DOMAIN nodes = 1..Len(nodes)
         /\ \A i \in 1..Len(nodes) :
              /\ nodes[i] \in Entries
              /\ nodes[i].party \in Parties /\ nodes[i].party # NoParty
              /\ nodes[i].health.score \in Nat
<1>1. \A h \in Healths : h.score \in Nat
  BY SelectorAssumption DEF Healths
<1>2. Len(nodes) \in Nat /\ DOMAIN nodes = 1..Len(nodes)
  BY LenProperties DEF NodesTyped
<1>3. \A i \in 1..Len(nodes) : nodes[i] \in Entries
  BY ElementOfSeq DEF NodesTyped
<1> QED
  BY <1>1, <1>2, <1>3, SelectorAssumption DEF Entries, NoParty

LEMMA RemovedAt ==
  ASSUME NodesTyped, NEW i \in 1..Len(nodes)
  PROVE  /\ RemoveAt(nodes, i) \in Seq(Entries)
         /\ Len(RemoveAt(nodes, i)) = Len(nodes) - 1
         /\ \A j \in 1..(Len(nodes) - 1) :
              RemoveAt(nodes, i)[j] = IF j < i THEN nodes[j] ELSE nodes[j + 1]
<1> DEFINE n == Len(nodes)
           l == SubSeq(nodes, 1, i - 1)
           r == SubSeq(nodes, i + 1, n)
           s == l \o r
<1>1. n \in Nat /\ i \in Nat /\ 1 <= i /\ i <= n /\ \A j \in 1..n : nodes[j] \in Entries
  BY NodeFacts
<1> HIDE DEF n
<1>2. /\ l \in Seq(Entries) /\ Len(l) = i - 1
      /\ \A j \in 1..(i - 1) : l[j] = nodes[j]
  <2>1. i - 1 \in Int /\ 1 \in Int /\ \A j \in 1..(i - 1) : nodes[j] \in Entries
    BY <1>1
  <2>2. /\ l \in Seq(Entries)
        /\ Len(l) = IF 1 <= i - 1 THEN (i - 1) - 1 + 1 ELSE 0
        /\ \A j \in 1..((i - 1) - 1 + 1) : l[j] = nodes[1 + j - 1]
    BY <2>1, SubSeqProperties
  <2> QED
    BY <1>1, <2>2
<1>3. /\ r \in Seq(Entries) /\ Len(r) = n - i
      /\ \A j \in 1..(n - i) : r[j] = nodes[i + j]
  <2>1. i + 1 \in Int /\ n \in Int /\ \A j \in (i + 1)..n : nodes[j] \in Entries
    BY <1>1
  <2>2. /\ r \in Seq(Entries)
        /\ Len(r) = IF i + 1 <= n THEN n - (i + 1) + 1 ELSE 0
        /\ \A j \in 1..(n - (i + 1) + 1) : r[j] = nodes[(i + 1) + j - 1]
    BY <2>1, SubSeqProperties
  <2>3. \A j \in 1..(n - i) : (i + 1) + j - 1 = i + j
    BY <1>1
  <2> QED
    BY <1>1, <2>2, <2>3
<1> HIDE DEF l, r
<1>4. /\ s \in Seq(Entries) /\ Len(s) = Len(l) + Len(r)
      /\ \A j \in 1..(Len(l) + Len(r)) : s[j] = IF j <= Len(l) THEN l[j] ELSE r[j - Len(l)]
  BY <1>2, <1>3, ConcatProperties
<1>5. RemoveAt(nodes, i) = s
  BY DEF RemoveAt, s, l, r, n
<1> HIDE DEF s
<1>6. Len(s) = n - 1
  BY <1>1, <1>2, <1>3, <1>4
<1>7. ASSUME NEW j \in 1..(n - 1)
      PROVE  s[j] = IF j < i THEN nodes[j] ELSE nodes[j + 1]
  <2>1. j \in 1..(Len(l) + Len(r))
    BY <1>1, <1>2, <1>3
  <2>2. s[j] = IF j <= i - 1 THEN l[j] ELSE r[j - (i - 1)]
    BY <1>2, <1>4, <2>1
  <2>3. CASE j < i
    BY <1>1, <1>2, <2>2, <2>3
  <2>4. CASE ~ (j < i)
    <3>1. j - (i - 1) \in 1..(n - i) /\ i + (j - (i - 1)) = j + 1 /\ ~ (j <= i - 1)
      BY <1>1, <2>4
    <3> QED
      BY <1>3, <2>2, <2>4, <3>1
  <2> QED
    BY <2>3, <2>4
<1> QED
  BY <1>4, <1>5, <1>6, <1>7 DEF n

LEMMA InitNodes == CoordinatorInit => NodesTyped
<1> SUFFICES ASSUME CoordinatorInit PROVE NodesTyped
  OBVIOUS
<1>1. << >> \in Seq(Entries) /\ Len(<< >>) = 0
  BY EmptySeq
<1> QED
  BY <1>1 DEF CoordinatorInit, NodesTyped

LEMMA RemoveNodeStep ==
  ASSUME NodesTyped, NEW p \in Parties, RemoveNode(p) PROVE NodesTyped'
<1>1. CASE IndexOf(p) = {}
  BY <1>1 DEF RemoveNode, NodesTyped
<1>2. CASE IndexOf(p) # {}
  <2> DEFINE i == CHOOSE i \in IndexOf(p) : TRUE
             n == Len(nodes)
  <2>1. i \in 1..n /\ n \in Nat
    BY <1>2, NodeFacts DEF IndexOf
  <2>2. nodes' = RemoveAt(nodes, i)
    BY <1>2 DEF RemoveNode
  <2> HIDE DEF i
  <2>3. /\ nodes' \in Seq(Entries) /\ Len(nodes') = n - 1
        /\ \A j \in 1..(n - 1) : nodes'[j] = IF j < i THEN nodes[j] ELSE nodes[j + 1]
    BY <2>1, <2>2, RemovedAt
  <2>4. \A j, k \in 1..n : nodes[j].party = nodes[k].party => j = k
    BY DEF NodesTyped
  <2> HIDE DEF n
  <2>5. \A j, k \in 1..(n - 1) : nodes'[j].party = nodes'[k].party => j = k
    <3> SUFFICES ASSUME NEW j \in 1..(n - 1), NEW k \in 1..(n - 1),
                        nodes'[j].party = nodes'[k].party
                 PROVE  j = k
      OBVIOUS
    <3> DEFINE a == IF j < i THEN j ELSE j + 1
               b == IF k < i THEN k ELSE k + 1
    <3>1. a \in 1..n /\ b \in 1..n /\ nodes'[j] = nodes[a] /\ nodes'[k] = nodes[b]
      BY <2>1, <2>3
    <3>2. a = b
      BY <2>4, <3>1
    <3> QED
      BY <2>1, <3>2
  <2> QED
    BY <2>3, <2>5 DEF NodesTyped
<1> QED
  BY <1>1, <1>2

LEMMA UpdateHealthStep ==
  ASSUME NodesTyped, NEW p \in Parties, NEW h \in Healths, UpdateHealth(p, h)
  PROVE  NodesTyped'
<1> DEFINE e == [party |-> p, health |-> h]
           n == Len(nodes)
<1>1. e \in Entries /\ e.party = p
  BY DEF Entries
<1>2. /\ n \in Nat /\ DOMAIN nodes = 1..n /\ \A i \in 1..n : nodes[i] \in Entries
      /\ \A i, j \in 1..n : nodes[i].party = nodes[j].party => i = j
  BY NodeFacts DEF NodesTyped
<1>3. CASE IndexOf(p) = {}
  <2>1. nodes' = Append(nodes, e)
    BY <1>3 DEF UpdateHealth
  <2>2. \A i \in 1..n : nodes[i].party # p
    BY <1>2, <1>3 DEF IndexOf
  <2> HIDE DEF e
  <2>3. /\ nodes' \in Seq(Entries) /\ Len(nodes') = n + 1
        /\ \A i \in 1..n : nodes'[i] = nodes[i]
        /\ nodes'[n + 1] = e
    BY <1>1, <2>1, AppendProperties DEF NodesTyped
  <2> HIDE DEF n
  <2>4. \A i, j \in 1..(n + 1) : nodes'[i].party = nodes'[j].party => i = j
    <3>1. \A i \in 1..(n + 1) : i \in 1..n \/ i = n + 1
      BY <1>2
    <3> QED
      BY <1>1, <1>2, <2>2, <2>3, <3>1
  <2> QED
    BY <2>3, <2>4 DEF NodesTyped
<1>4. CASE IndexOf(p) # {}
  <2>1. nodes' = [i \in 1..n |-> IF i \in IndexOf(p) THEN e ELSE nodes[i]]
    BY <1>2, <1>4 DEF UpdateHealth
  <2>2. \A i \in 1..n : i \in IndexOf(p) <=> nodes[i].party = p
    BY <1>2 DEF IndexOf
  <2> HIDE DEF e, n
  <2>3. nodes' \in [1..n -> Entries]
    BY <1>1, <1>2, <2>1
  <2>4. nodes' \in Seq(Entries) /\ Len(nodes') = n
    BY <1>2, <2>3, SeqDef
  <2>5. \A i \in 1..n : nodes'[i].party = nodes[i].party
    BY <1>1, <2>1, <2>2
  <2> QED
    BY <1>2, <2>4, <2>5 DEF NodesTyped
<1> QED
  BY <1>3, <1>4

\* Only the selector changes its entries.
LEMMA StepNodes == NodesTyped /\ [CoordinatorNext]_coordinatorVars => NodesTyped'
<1> SUFFICES ASSUME NodesTyped, [CoordinatorNext]_coordinatorVars PROVE NodesTyped'
  OBVIOUS
<1>1. CASE UNCHANGED nodes
  BY <1>1 DEF NodesTyped
<1>2. ASSUME NEW p \in Parties, HealthEntryChanges(p) PROVE NodesTyped'
  BY <1>2, RemoveNodeStep, UpdateHealthStep DEF HealthEntryChanges
<1>3. UNCHANGED nodes \/ \E p \in Parties : HealthEntryChanges(p)
  BY DEF CoordinatorNext, coordinatorVars, StartCeremony, StartAsCoordinator,
         CeremonyStep, TouchCeremony, FallbackRefused, FallbackTaken, CompleteCeremony,
         FailCeremony, CleanupTimeouts, CoordinatorCleanup, CoordinatorDestroy,
         PeerChanges, Tick
<1> QED
  BY <1>1, <1>2, <1>3

-----------------------------------------------------------------------------
(* The order of the selection.                                             *)

Less == {ss \in Nat \X Nat : ss[1] < ss[2]}

LEMMA NatOrdered == IsWellFoundedOn({ss \in Nat \X Nat : ss[1] < ss[2]}, Nat)
BY NatLessThanWellFounded DEF OpToRel

\* A set of natural numbers that is not empty has a least one.
LEMMA LeastNumber ==
  ASSUME NEW S, S \subseteq Nat, NEW n \in S
  PROVE  \E m \in S : \A k \in S : m <= k
<1>1. IsWellFoundedOn(Less, Nat)
  BY NatOrdered DEF Less
<1>2. \E x \in S : \A y \in S : ~ (<<y, x>> \in Less)
  BY <1>1, WFMin
<1>3. \A x, y \in Nat : <<y, x>> \in Nat \X Nat /\ y < x => <<y, x>> \in Less
  BY DEF Less
<1>4. \A x, y \in Nat : ~ (<<y, x>> \in Less) => x <= y
  BY <1>3
<1> QED
  BY <1>2, <1>4

LEMMA OrderFacts ==
  ASSUME NodesTyped
  PROVE  /\ Eligible \subseteq 1..Len(nodes) /\ IsFiniteSet(Eligible)
         /\ \A i \in Eligible : i \in Nat /\ nodes[i].health.score \in Nat
         /\ \A i, j \in Eligible :
              /\ ~ (Before(i, j) /\ Before(j, i)) /\ ~ Before(i, i)
              /\ i # j => Before(i, j) \/ Before(j, i)
<1>1. Eligible \subseteq 1..Len(nodes) /\ Len(nodes) \in Nat
  BY NodeFacts DEF Eligible
<1>2. IsFiniteSet(Eligible)
  <2>1. 1 \in Int /\ Len(nodes) \in Int
    BY <1>1
  <2>2. IsFiniteSet(1..Len(nodes))
    BY <2>1, FS_Interval
  <2> QED
    BY <1>1, <2>2, FS_Subset
<1>3. \A i \in Eligible : i \in Nat /\ nodes[i].health.score \in Nat
  BY <1>1, NodeFacts
<1> QED
  BY <1>1, <1>2, <1>3 DEF Before

\* Of several positions one comes before all others.
LEMMA FirstOf ==
  ASSUME NodesTyped, NEW S \in SUBSET Eligible, S # {}
  PROVE  \E i \in S : \A j \in S \ {i} : Before(i, j)
<1> DEFINE scores == {nodes[i].health.score : i \in S}
<1>1. \A i \in S : i \in Nat /\ nodes[i].health.score \in Nat
  BY OrderFacts
<1>2. PICK m \in scores : \A k \in scores : m <= k
  <2>1. PICK i \in S : TRUE
    OBVIOUS
  <2>2. scores \subseteq Nat /\ nodes[i].health.score \in scores
    BY <1>1
  <2> HIDE DEF scores
  <2> QED
    BY <2>2, LeastNumber
<1> DEFINE best == {i \in S : nodes[i].health.score = m}
<1>3. PICK i \in best : \A j \in best : i <= j
  <2>1. PICK i \in S : nodes[i].health.score = m
    BY <1>2
  <2>2. best \subseteq Nat /\ i \in best
    BY <1>1, <2>1
  <2> HIDE DEF best
  <2> QED
    BY <2>2, LeastNumber
<1>4. ASSUME NEW j \in S \ {i} PROVE Before(i, j)
  <2>1. i \in Nat /\ j \in Nat /\ m \in Nat /\ nodes[j].health.score \in Nat
    BY <1>1, <1>3
  <2>2. nodes[i].health.score = m /\ m <= nodes[j].health.score
    BY <1>2, <1>3
  <2>3. nodes[j].health.score = m => i <= j
    BY <1>3
  <2> QED
    BY <2>1, <2>2, <2>3 DEF Before
<1> QED
  BY <1>3, <1>4

At(k) == Nth(Eligible, Before, k)
Preceding(i) == {j \in Eligible : Before(j, i)}

LEMMA AtDef ==
  ASSUME NEW k
  PROVE  At(k) = CHOOSE i \in Eligible : Cardinality(Preceding(i)) = k - 1
BY DEF At, Nth, Preceding

\* After the first k - 1 positions comes the first of those that are left.
LEMMA NextRanked ==
  ASSUME NodesTyped, NEW k \in Nat, NEW T \in SUBSET Eligible, T # Eligible,
         Cardinality(T) = k - 1, \A t \in T, j \in Eligible \ T : Before(t, j)
  PROVE  /\ At(k) \in Eligible \ T
         /\ \A t \in T \cup {At(k)}, j \in Eligible \ (T \cup {At(k)}) : Before(t, j)
         /\ Cardinality(T \cup {At(k)}) = k
<1>1. PICK i \in Eligible \ T : \A j \in (Eligible \ T) \ {i} : Before(i, j)
  BY FirstOf
<1>2. Preceding(i) = T
  BY <1>1, OrderFacts DEF Preceding
<1>3. ASSUME NEW j \in Eligible, Cardinality(Preceding(j)) = k - 1 PROVE j = i
  <2>1. /\ IsFiniteSet(T) /\ IsFiniteSet(Preceding(j))
        /\ Cardinality(T) \in Nat
    BY OrderFacts, FS_Subset, FS_CardinalityType DEF Preceding
  <2>2. CASE j \in T
    <3>1. Preceding(j) \subseteq T /\ j \notin Preceding(j)
      BY <2>2, OrderFacts DEF Preceding
    <3>2. Preceding(j) = T
      BY <1>3, <2>1, <3>1, FS_Subset
    <3> QED
      BY <2>2, <3>1, <3>2
  <2>3. CASE j \notin T /\ j # i
    <3>1. T \subseteq Preceding(j) /\ i \in Preceding(j)
      BY <1>1, <2>3 DEF Preceding
    <3>2. Preceding(j) = T
      BY <1>3, <2>1, <3>1, FS_Subset
    <3> QED
      BY <1>1, <3>1, <3>2
  <2> QED
    BY <2>2, <2>3
<1>4. At(k) = i
  <2>1. Cardinality(Preceding(i)) = k - 1
    BY <1>2
  <2> QED
    BY <1>1, <1>3, <2>1, AtDef
<1>5. Cardinality(T \cup {i}) = k
  <2>1. IsFiniteSet(T)
    BY OrderFacts, FS_Subset
  <2> QED
    BY <1>1, <2>1, FS_AddElement
<1> QED
  BY <1>1, <1>4, <1>5

First == At(1)
Second == At(2)
Third == At(3)

\* The places of the sorted list, as far as there are as many positions.
LEMMA Ranks ==
  ASSUME NodesTyped
  PROVE  /\ Cardinality(Eligible) \in Nat
         /\ Eligible # {} <=> Cardinality(Eligible) >= 1
         /\ Eligible # {} =>
              First \in Eligible /\ \A j \in Eligible \ {First} : Before(First, j)
         /\ Cardinality(Eligible) >= 2 <=> \E i, j \in Eligible : i # j
         /\ Cardinality(Eligible) >= 2 =>
              /\ Second \in Eligible \ {First}
              /\ \A j \in Eligible \ {First, Second} : Before(Second, j)
         /\ Cardinality(Eligible) >= 3 <=>
              Cardinality(Eligible) >= 2 /\ Eligible \ {First, Second} # {}
         /\ Cardinality(Eligible) >= 3 =>
              /\ Third \in Eligible \ {First, Second}
              /\ \A j \in Eligible \ {First, Second, Third} : Before(Third, j)
<1> DEFINE c == Cardinality(Eligible)
<1>1. IsFiniteSet(Eligible) /\ c \in Nat /\ (c = 0 <=> Eligible = {})
  BY OrderFacts, FS_CardinalityType, FS_EmptySet
<1>2. ASSUME Eligible # {}
      PROVE  /\ First \in Eligible /\ \A j \in Eligible \ {First} : Before(First, j)
             /\ Cardinality({First}) = 1
  <2>1. 1 \in Nat /\ {} \in SUBSET Eligible /\ Cardinality({}) = 1 - 1
    BY FS_EmptySet
  <2>2. /\ At(1) \in Eligible \ {}
        /\ \A t \in {} \cup {At(1)}, j \in Eligible \ ({} \cup {At(1)}) : Before(t, j)
    BY <1>2, <2>1, NextRanked
  <2> QED
    BY <2>2, FS_Singleton DEF First
<1>3. c >= 2 <=> \E i, j \in Eligible : i # j
  <2>1. c = 1 <=> \E x : Eligible = {x}
    BY <1>1, FS_Singleton
  <2>2. c >= 2 <=> c # 0 /\ c # 1
    BY <1>1
  <2>3. (\E i, j \in Eligible : i # j) => Eligible # {} /\ ~ \E x : Eligible = {x}
    OBVIOUS
  <2>4. ASSUME Eligible # {}, ~ \E x : Eligible = {x} PROVE \E i, j \in Eligible : i # j
    <3>1. PICK i \in Eligible : TRUE
      BY <2>4
    <3>2. PICK j \in Eligible : j # i
      BY <2>4, <3>1
    <3> QED
      BY <3>2
  <2> QED
    BY <1>1, <2>1, <2>2, <2>3, <2>4
<1>4. ASSUME c >= 2
      PROVE  /\ Second \in Eligible \ {First}
             /\ \A j \in Eligible \ {First, Second} : Before(Second, j)
             /\ {First, Second} \subseteq Eligible /\ Cardinality({First, Second}) = 2
             /\ \A t \in {First, Second}, j \in Eligible \ {First, Second} : Before(t, j)
  <2>1. 2 \in Nat /\ Eligible # {} /\ 1 = 2 - 1
    BY <1>1, <1>4
  <2>2. /\ {First} \in SUBSET Eligible /\ Cardinality({First}) = 1
        /\ \A t \in {First}, j \in Eligible \ {First} : Before(t, j)
    BY <1>2, <2>1
  <2>3. {First} # Eligible
    BY <1>3, <1>4
  <2>4. /\ At(2) \in Eligible \ {First}
        /\ \A t \in {First} \cup {At(2)}, j \in Eligible \ ({First} \cup {At(2)}) : Before(t, j)
        /\ Cardinality({First} \cup {At(2)}) = 2
    BY <2>1, <2>2, <2>3, NextRanked
  <2>5. {First} \cup {At(2)} = {First, Second}
    BY DEF Second
  <2>6. Second = At(2)
    BY DEF Second
  <2> QED
    BY <2>2, <2>4, <2>5, <2>6
<1>5. c >= 3 <=> c >= 2 /\ Eligible \ {First, Second} # {}
  <2>1. CASE c >= 2
    <3>1. Eligible = {First, Second} <=> c = 2
      BY <1>1, <1>4, <2>1, FS_Subset
    <3>2. Eligible \ {First, Second} # {} <=> Eligible # {First, Second}
      BY <1>4, <2>1
    <3> QED
      BY <1>1, <2>1, <3>1, <3>2
  <2>2. CASE ~ (c >= 2)
    BY <1>1, <2>2
  <2> QED
    BY <2>1, <2>2
<1>6. ASSUME c >= 3
      PROVE  /\ Third \in Eligible \ {First, Second}
             /\ \A j \in Eligible \ {First, Second, Third} : Before(Third, j)
  <2>1. c >= 2 /\ Eligible \ {First, Second} # {} /\ 3 \in Nat /\ 2 = 3 - 1
    BY <1>5, <1>6
  <2>2. /\ {First, Second} \in SUBSET Eligible /\ {First, Second} # Eligible
        /\ Cardinality({First, Second}) = 2
        /\ \A t \in {First, Second}, j \in Eligible \ {First, Second} : Before(t, j)
    BY <1>4, <2>1
  <2>3. /\ At(3) \in Eligible \ {First, Second}
        /\ \A t \in {First, Second} \cup {At(3)},
              j \in Eligible \ ({First, Second} \cup {At(3)}) : Before(t, j)
    BY <2>1, <2>2, NextRanked
  <2> QED
    BY <2>3 DEF Third
<1>7. Eligible # {} <=> c >= 1
  BY <1>1
<1> QED
  BY <1>1, <1>2, <1>3, <1>4, <1>5, <1>6, <1>7

-----------------------------------------------------------------------------
(* The selection, as parties and their scores.                             *)

Party(i) == nodes[i].party
Candidates == {Party(i) : i \in Eligible}

LEMMA PartyFacts ==
  ASSUME NodesTyped
  PROVE  /\ \A i \in Eligible : Party(i) \in Parties /\ Party(i) # NoParty
         /\ \A i, j \in Eligible : Party(i) = Party(j) => i = j
         /\ Candidates = {n.party : n \in Usable}
         /\ \A i \in Eligible : Score(Party(i)) = nodes[i].health.score
         /\ \A i, j \in Eligible :
              i = j \/ Before(i, j) => Score(Party(i)) <= Score(Party(j))
<1>1. /\ Len(nodes) \in Nat /\ DOMAIN nodes = 1..Len(nodes)
      /\ Eligible \subseteq 1..Len(nodes)
  BY NodeFacts, OrderFacts
<1>2. ToSet(nodes) = {nodes[i] : i \in 1..Len(nodes)}
  BY <1>1 DEF ToSet
<1>3. Usable = {nodes[i] : i \in Eligible}
  BY <1>1, <1>2 DEF Usable, Eligible
<1>4. \A i \in Eligible : Party(i) \in Parties /\ Party(i) # NoParty
  BY <1>1, NodeFacts DEF Party
<1>5. \A i, j \in 1..Len(nodes) : nodes[i].party = nodes[j].party => i = j
  BY DEF NodesTyped
<1>6. ASSUME NEW i \in Eligible PROVE Score(Party(i)) = nodes[i].health.score
  <2> DEFINE chosen == CHOOSE n \in ToSet(nodes) : n.party = Party(i)
  <2>1. nodes[i] \in ToSet(nodes) /\ nodes[i].party = Party(i)
    BY <1>1, <1>2 DEF Party
  <2>2. chosen \in ToSet(nodes) /\ chosen.party = Party(i)
    BY <2>1
  <2>3. chosen = nodes[i]
    BY <1>1, <1>2, <1>5, <2>1, <2>2
  <2> QED
    BY <2>3 DEF Score
<1>7. \A i \in Eligible : i \in Nat /\ nodes[i].health.score \in Nat
  BY OrderFacts
<1>8. \A i, j \in Eligible : i = j \/ Before(i, j) => Score(Party(i)) <= Score(Party(j))
  BY <1>6, <1>7 DEF Before
<1>9. Candidates = {n.party : n \in Usable}
  BY <1>3 DEF Candidates, Party
<1> QED
  BY <1>1, <1>4, <1>5, <1>6, <1>8, <1>9 DEF Party

\* There are as many usable nodes as positions that hold one.
LEMMA UsableCount ==
  ASSUME NodesTyped PROVE Cardinality(Usable) = Cardinality(Eligible)
<1> DEFINE at == [i \in Eligible |-> nodes[i]]
<1>1. /\ DOMAIN nodes = 1..Len(nodes) /\ Eligible \subseteq 1..Len(nodes)
      /\ IsFiniteSet(Eligible)
  BY NodeFacts, OrderFacts
<1>2. Usable = {nodes[i] : i \in Eligible}
  BY <1>1 DEF Usable, Eligible, ToSet
<1>3. \A i, j \in Eligible : nodes[i] = nodes[j] => i = j
  BY <1>1 DEF NodesTyped
<1>4. at \in Surjection(Eligible, Usable)
  BY <1>2 DEF Surjection
<1>5. at \in Injection(Eligible, Usable)
  BY <1>2, <1>3 DEF Injection, IsInjective
<1> HIDE DEF at
<1> QED
  BY <1>1, <1>4, <1>5, FS_Surjection

\* What select() answers for two parties and for one.
LEMMA SelectTwo ==
  ASSUME NodesTyped
  PROVE  /\ Cardinality(Eligible) < 2 => Select(2) = NoSelection
         /\ Cardinality(Eligible) >= 2 =>
              /\ Select(2).selected = <<Party(First), Party(Second)>>
              /\ Select(2).fallback =
                   IF Cardinality(Eligible) >= 3 THEN Party(Third) ELSE NoParty
<1> DEFINE c == Cardinality(Eligible)
<1>1. c \in Nat
  BY Ranks
<1> HIDE DEF c
<1>2. Nth(Eligible, Before, 1) = First /\ Nth(Eligible, Before, 2) = Second
      /\ Nth(Eligible, Before, 3) = Third
  BY DEF First, Second, Third, At
<1>3. Select(2) = IF c < 2 THEN NoSelection
                  ELSE [selected |-> [k \in 1..2 |-> Party(Nth(Eligible, Before, k))],
                        fallback |-> IF c > 2 THEN Party(Nth(Eligible, Before, 2 + 1))
                                     ELSE NoParty]
  BY Zenon DEF Select, Party, c
<1> DEFINE s == [k \in 1..2 |-> Party(Nth(Eligible, Before, k))]
<1>4. s = <<Party(First), Party(Second)>>
  BY <1>2
<1>5. 2 + 1 = 3
  OBVIOUS
<1> QED
  BY <1>1, <1>2, <1>3, <1>4, <1>5 DEF c

LEMMA SelectOne ==
  ASSUME NodesTyped
  PROVE  /\ Eligible = {} => Select(1) = NoSelection
         /\ Eligible # {} =>
              /\ Select(1).selected = <<Party(First)>>
              /\ Select(1).fallback =
                   IF Cardinality(Eligible) >= 2 THEN Party(Second) ELSE NoParty
<1> DEFINE c == Cardinality(Eligible)
<1>1. c \in Nat /\ (Eligible # {} <=> c >= 1)
  BY Ranks
<1> HIDE DEF c
<1>2. Nth(Eligible, Before, 1) = First /\ Nth(Eligible, Before, 2) = Second
  BY DEF First, Second, At
<1>3. Select(1) = IF c < 1 THEN NoSelection
                  ELSE [selected |-> [k \in 1..1 |-> Party(Nth(Eligible, Before, k))],
                        fallback |-> IF c > 1 THEN Party(Nth(Eligible, Before, 1 + 1))
                                     ELSE NoParty]
  BY Zenon DEF Select, Party, c
<1> DEFINE s == [k \in 1..1 |-> Party(Nth(Eligible, Before, k))]
<1>4. s = <<Party(First)>>
  BY <1>2
<1>5. 1 + 1 = 2
  OBVIOUS
<1> QED
  BY <1>1, <1>2, <1>3, <1>4, <1>5 DEF c

LEMMA BestPair == NodesTyped => SelectionIsBest
<1> SUFFICES ASSUME NodesTyped PROVE SelectionIsBest
  OBVIOUS
<1> DEFINE sel == Select(2)
           taken == ToSet(sel.selected)
           rest == {n.party : n \in Usable} \ taken
           c == Cardinality(Eligible)
<1>1. Cardinality(Usable) = c /\ c \in Nat
  BY Ranks, UsableCount
<1>2. CASE c < 2
  BY <1>1, <1>2, SelectTwo DEF SelectionIsBest
<1>3. CASE c >= 2
  <2>1. /\ sel.selected = <<Party(First), Party(Second)>>
        /\ sel.fallback = IF c >= 3 THEN Party(Third) ELSE NoParty
    BY <1>3, SelectTwo
  <2>2. taken = {Party(First), Party(Second)} /\ Len(sel.selected) = 2
    <3>1. \A a, b : ToSet(<<a, b>>) = {a, b}
      BY DEF ToSet
    <3> QED
      BY <2>1, <3>1
  <2>3. /\ First \in Eligible /\ Second \in Eligible /\ First # Second
        /\ \A j \in Eligible \ {First} : Before(First, j)
        /\ \A j \in Eligible \ {First, Second} : Before(Second, j)
        /\ c >= 3 <=> Eligible \ {First, Second} # {}
        /\ c >= 3 => /\ Third \in Eligible \ {First, Second}
                     /\ \A j \in Eligible \ {First, Second, Third} : Before(Third, j)
    BY <1>1, <1>3, Ranks
  <2>4. rest = {Party(i) : i \in Eligible \ {First, Second}}
    <3>1. rest = Candidates \ {Party(First), Party(Second)}
      BY <2>2, PartyFacts
    <3> QED
      BY <2>3, <3>1, PartyFacts DEF Candidates
  <2>5. Cardinality(taken) = 2
    <3>1. Party(First) # Party(Second)
      BY <2>3, PartyFacts
    <3>2. Cardinality({Party(First)}) = 1 /\ IsFiniteSet({Party(First)})
      BY FS_Singleton
    <3>3. Cardinality({Party(First)} \cup {Party(Second)}) = 1 + 1
      BY <3>1, <3>2, FS_AddElement
    <3>4. taken = {Party(First)} \cup {Party(Second)}
      BY <2>2
    <3> QED
      BY <3>3, <3>4
  <2>6. taken \subseteq {n.party : n \in Usable}
    <3>1. taken \subseteq Candidates
      BY <2>2, <2>3 DEF Candidates
    <3> QED
      BY <3>1, PartyFacts
  <2>7. \A p \in taken, q \in rest : Score(p) <= Score(q)
    <3>1. \A i \in {First, Second}, j \in Eligible \ {First, Second} :
            Score(Party(i)) <= Score(Party(j))
      BY <2>3, PartyFacts
    <3> QED
      BY <2>2, <2>4, <3>1
  <2>8. IF rest = {} THEN sel.fallback = NoParty
        ELSE sel.fallback \in rest /\ \A q \in rest : Score(sel.fallback) <= Score(q)
    <3>1. CASE rest = {}
      BY <2>1, <2>3, <2>4, <3>1
    <3>2. CASE rest # {}
      <4>1. c >= 3 /\ sel.fallback = Party(Third)
        BY <2>1, <2>3, <2>4, <3>2
      <4>2. \A j \in Eligible \ {First, Second} : Score(Party(Third)) <= Score(Party(j))
        BY <2>3, <4>1, PartyFacts
      <4> QED
        BY <2>3, <2>4, <3>2, <4>1, <4>2
    <3> QED
      BY <3>1, <3>2
  <2>9. ~ (Cardinality(Usable) < 2)
    BY <1>1, <1>3
  <2> HIDE DEF sel, taken, rest, c
  <2> QED
    BY <2>2, <2>5, <2>6, <2>7, <2>8, <2>9 DEF SelectionIsBest, sel, taken, rest
<1> QED
  BY <1>1, <1>2, <1>3

\* The partner of a coordinator, and what is left to fall back on.
LEMMA PartnerFacts ==
  ASSUME NodesTyped, NEW c \in Parties
  PROVE  \/ SelectWithCoordinator(c) = NoSelection
         \/ \E i \in Eligible :
              /\ SelectWithCoordinator(c).selected = <<c, Party(i)>>
              /\ SelectWithCoordinator(c).fallback \in Parties \cup {NoParty}
              /\ Party(i) # c
<1> DEFINE sel == SelectWithCoordinator(c)
           best == Select(1)
<1>1. \A p, f : << >> # <<p>> /\ <<p>>[1] = p
  OBVIOUS
<1>2. NoSelection.selected = << >>
  BY DEF NoSelection
<1>3. CASE Eligible = {} \/ ~IsReady(c)
  BY <1>2, <1>3, SelectOne DEF SelectWithCoordinator
<1>4. CASE Eligible # {} /\ IsReady(c)
  <2>1. /\ best.selected = <<Party(First)>> /\ First \in Eligible
        /\ best.fallback = IF Cardinality(Eligible) >= 2 THEN Party(Second) ELSE NoParty
        /\ Cardinality(Eligible) >= 2 => Second \in Eligible \ {First}
    BY <1>4, SelectOne, Ranks
  <2>2. best.fallback \in Parties \cup {NoParty}
    BY <2>1, PartyFacts
  <2>3. CASE Party(First) # c
    <3>1. sel = [selected |-> <<c, Party(First)>>,
                 fallback |-> IF best.fallback = c THEN NoParty ELSE best.fallback]
      BY <1>1, <1>4, <2>1, <2>3 DEF SelectWithCoordinator
    <3> QED
      BY <2>1, <2>2, <2>3, <3>1
  <2>4. CASE Party(First) = c /\ best.fallback # NoParty
    <3>1. sel = [selected |-> <<c, best.fallback>>, fallback |-> c]
      BY <1>1, <1>4, <2>1, <2>4 DEF SelectWithCoordinator
    <3>2. best.fallback = Party(Second) /\ Second \in Eligible \ {First}
      BY <2>1, <2>4
    <3>3. Party(Second) # c
      BY <2>1, <2>4, <3>2, PartyFacts
    <3> QED
      BY <3>1, <3>2, <3>3
  <2>5. CASE Party(First) = c /\ best.fallback = NoParty
    BY <1>1, <1>4, <2>1, <2>5 DEF SelectWithCoordinator
  <2> QED
    BY <2>3, <2>4, <2>5
<1> QED
  BY <1>3, <1>4

LEMMA BestPartner == NodesTyped => PartnerIsBest
<1> SUFFICES ASSUME NodesTyped PROVE PartnerIsBest
  OBVIOUS
<1> SUFFICES ASSUME NEW c \in Parties
             PROVE  LET sel == SelectWithCoordinator(c)
                        others == {n.party : n \in Usable} \ {c}
                    IN  IF ~IsReady(c) \/ others = {} THEN sel = NoSelection
                        ELSE /\ Len(sel.selected) = 2
                             /\ sel.selected[1] = c
                             /\ sel.selected[2] \in others
                             /\ \A q \in others : Score(sel.selected[2]) <= Score(q)
  BY DEF PartnerIsBest
<1> DEFINE sel == SelectWithCoordinator(c)
           others == {n.party : n \in Usable} \ {c}
           best == Select(1)
           e == Cardinality(Eligible)
<1>1. \A p : << >> # <<p>> /\ <<p>>[1] = p
  OBVIOUS
<1>2. others = {Party(i) : i \in {j \in Eligible : Party(j) # c}}
  <2>1. others = Candidates \ {c}
    BY PartyFacts
  <2> QED
    BY <2>1 DEF Candidates
<1>3. CASE ~IsReady(c)
  BY <1>3 DEF SelectWithCoordinator
<1>4. CASE others = {}
  <2>1. CASE sel = NoSelection
    BY <1>4, <2>1
  <2>2. CASE sel # NoSelection
    <3>1. PICK i \in Eligible : Party(i) # c
      BY <2>2, PartnerFacts
    <3> QED
      BY <1>2, <1>4, <3>1
  <2> QED
    BY <2>1, <2>2
<1>5. CASE IsReady(c) /\ others # {}
  <2>1. PICK other \in Eligible : Party(other) # c
    BY <1>2, <1>5
  <2>2. /\ best.selected = <<Party(First)>>
        /\ best.fallback = IF e >= 2 THEN Party(Second) ELSE NoParty
        /\ First \in Eligible
        /\ \A j \in Eligible \ {First} : Before(First, j)
    BY <2>1, SelectOne, Ranks
  <2>3. CASE Party(First) # c
    <3>1. sel.selected = <<c, Party(First)>>
      BY <1>1, <1>5, <2>2, <2>3 DEF SelectWithCoordinator
    <3>2. \A j \in Eligible : Score(Party(First)) <= Score(Party(j))
      BY <2>2, PartyFacts
    <3>3. Len(sel.selected) = 2 /\ sel.selected[1] = c /\ sel.selected[2] = Party(First)
      BY <3>1
    <3> QED
      BY <1>2, <1>5, <2>2, <2>3, <3>2, <3>3
  <2>4. CASE Party(First) = c
    <3>1. e >= 2 /\ Second \in Eligible \ {First}
          /\ \A j \in Eligible \ {First, Second} : Before(Second, j)
      BY <2>1, <2>2, <2>4, Ranks
    <3>2. best.fallback = Party(Second) /\ Party(Second) # NoParty /\ Party(Second) # c
      BY <2>2, <2>4, <3>1, PartyFacts
    <3>3. sel.selected = <<c, Party(Second)>>
      BY <1>1, <1>5, <2>2, <2>4, <3>2 DEF SelectWithCoordinator
    <3>4. \A j \in Eligible : Party(j) # c => Score(Party(Second)) <= Score(Party(j))
      BY <2>4, <3>1, PartyFacts
    <3>5. Len(sel.selected) = 2 /\ sel.selected[1] = c /\ sel.selected[2] = Party(Second)
      BY <3>3
    <3> QED
      BY <1>2, <1>5, <3>1, <3>2, <3>4, <3>5
  <2> QED
    BY <2>3, <2>4
<1> QED
  BY <1>3, <1>4, <1>5

\* select() and selectWithCoordinator() take the best of the nodes that are
\* ready and measured, in whatever order the health entries came and went.
THEOREM BestAreSelected == CoordinatorSpec => []SelectionsAreBest
<1>1. CoordinatorInit => NodesTyped
  BY InitNodes
<1>2. NodesTyped /\ [CoordinatorNext]_coordinatorVars => NodesTyped'
  BY StepNodes
<1>3. NodesTyped => SelectionsAreBest
  BY BestPair, BestPartner DEF SelectionsAreBest
<1> QED
  BY <1>1, <1>2, <1>3, PTL DEF CoordinatorSpec

-----------------------------------------------------------------------------
(* The ceremonies: their parties, and what they fall back on.              *)

Ceremony ==
  [status : {"in_progress", "fallback", "completed", "failed"},
   selectedParties : Seq(Parties), fallbackParty : Parties \cup {NoParty},
   lastActivity : Nat, attempts : Nat \ {0}]

CeremoniesTyped ==
  /\ now \in Nat
  /\ DOMAIN ceremonies \subseteq Wallets \X Nat
  /\ ceremonies \in [DOMAIN ceremonies -> Ceremony]

\* A pair with another party, or none, behind it.
PairBacked(c) ==
  \E a, b \in Parties : /\ a # b
                        /\ c.selectedParties = <<a, b>>
                        /\ c.fallbackParty \notin {a, b}

\* What every ceremony keeps to.
WithinAttempts(c) ==
  /\ Len(c.selectedParties) <= c.attempts + 1
  /\ c.attempts > 1 => c.attempts <= MaxAttempts

EachKept ==
  \A id \in DOMAIN ceremonies :
    /\ WithinAttempts(ceremonies[id])
    /\ id \notin unpaired => PairBacked(ceremonies[id])

CeremoniesInv == CeremoniesTyped /\ EachKept

LEMMA EmptyFunction ==
  ASSUME NEW f \in [1..0 -> {}] PROVE f = << >>
<1>1. f \in Seq({})
  BY SeqDef
<1>2. 1..0 = {}
  OBVIOUS
<1>3. Len(f) = 0
  BY <1>1, <1>2, LenProperties
<1> QED
  BY <1>1, <1>3, EmptySeq

LEMMA AppendedToOne ==
  ASSUME NEW S, NEW x \in S, NEW y \in S PROVE Append(<<y>>, x) = <<y, x>>
<1> DEFINE u == <<y>>
           t == Append(u, x)
           v == <<y, x>>
<1>1. u \in Seq(S) /\ Len(u) = 1 /\ u[1] = y
  OBVIOUS
<1>2. v \in Seq(S) /\ Len(v) = 2 /\ v[1] = y /\ v[2] = x
  OBVIOUS
<1> HIDE DEF u, v
<1>3. /\ t \in Seq(S) /\ Len(t) = Len(u) + 1 /\ t[Len(u) + 1] = x
      /\ \A i \in 1..Len(u) : t[i] = u[i]
  BY <1>1, AppendProperties, Zenon
<1> HIDE DEF t
<1>4. Len(t) = 2 /\ \A i \in 1..Len(t) : t[i] = v[i]
  BY <1>1, <1>2, <1>3
<1>5. t = v
  BY <1>2, <1>3, <1>4, SeqEqual
<1> QED
  BY <1>5 DEF t, u, v

Below(S, i) == {j \in S : j < i}

\* A finite set of numbers has a k-th element for as many k as it has elements.
LEMMA NthExists ==
  ASSUME NEW S, S \subseteq Nat, IsFiniteSet(S), NEW k \in 1..Cardinality(S)
  PROVE  Nth(S, <, k) \in S
<1> DEFINE n == Cardinality(S)
           found(l) == \E i \in S : Cardinality(Below(S, i)) = l - 1
           missing == {l \in 1..n : ~found(l)}
<1>1. n \in Nat
  BY FS_CardinalityType
<1>2. \A i, j \in S : (i <= j <=> ~ (j < i)) /\ (i <= j => i < j \/ i = j)
  OBVIOUS
<1>3. missing = {}
  <2> SUFFICES ASSUME NEW x \in missing PROVE FALSE
    OBVIOUS
  <2>1. missing \subseteq Nat
    BY <1>1
  <2>2. PICK l \in missing : \A y \in missing : l <= y
    <3> HIDE DEF missing
    <3> QED
      BY <2>1, LeastNumber
  <2>3. l \in 1..n /\ ~found(l)
    BY <2>2
  <2>4. CASE l = 1
    <3>1. S # {}
      BY <1>1, <2>3, FS_EmptySet
    <3>2. PICK i \in S : \A j \in S : i <= j
      BY <3>1, LeastNumber
    <3>3. Below(S, i) = {}
      BY <1>2, <3>2 DEF Below
    <3>4. Cardinality(Below(S, i)) = l - 1
      BY <2>4, <3>3, FS_EmptySet
    <3> QED
      BY <2>3, <3>4
  <2>5. CASE l # 1
    <3>1. l - 1 \in 1..n /\ l - 1 \notin missing
      <4> HIDE DEF missing
      <4> QED
        BY <1>1, <2>1, <2>2, <2>3, <2>5
    <3>2. PICK i \in S : Cardinality(Below(S, i)) = (l - 1) - 1
      BY <3>1
    <3> DEFINE P == Below(S, i) \cup {i}
    <3>3. IsFiniteSet(Below(S, i)) /\ i \notin Below(S, i)
      <4>1. Below(S, i) \subseteq S
        BY DEF Below
      <4> QED
        BY <4>1, FS_Subset DEF Below
    <3>4. Cardinality(P) = l - 1 /\ P \subseteq S
      <4>1. Cardinality(P) = Cardinality(Below(S, i)) + 1
        BY <3>3, FS_AddElement
      <4>2. l \in Nat
        BY <1>1, <2>3
      <4> QED
        BY <3>2, <4>1, <4>2 DEF Below
    <3>5. P # S
      <4>1. Cardinality(P) # n
        BY <1>1, <2>3, <3>4
      <4> QED
        BY <4>1
    <3>6. PICK j \in S \ P : \A y \in S \ P : j <= y
      <4>1. S \ P \subseteq Nat /\ S \ P # {}
        BY <3>4, <3>5
      <4> HIDE DEF P
      <4> QED
        BY <4>1, LeastNumber
    <3>7. Below(S, j) = P
      <4>1. P \subseteq S /\ i \in P /\ \A y \in P : y <= i
        BY <1>2, <3>4 DEF Below
      <4>2. ~ (j <= i)
        <5>1. j \in S /\ j # i /\ j \notin Below(S, i)
          BY <3>6
        <5>2. ~ (j < i)
          BY <5>1 DEF Below
        <5> QED
          BY <1>2, <5>1, <5>2
      <4>3. \A y \in P : y < j
        <5>1. i \in Nat /\ j \in Nat /\ \A y \in P : y \in Nat /\ y <= i
          BY <4>1
        <5> HIDE DEF P
        <5> QED
          BY <4>2, <5>1
      <4>4. \A y \in S \ P : ~ (y < j)
        BY <1>2, <3>6
      <4> QED
        BY <4>1, <4>3, <4>4 DEF Below
    <3> QED
      BY <2>3, <3>4, <3>7
  <2> QED
    BY <2>4, <2>5
<1>4. found(k)
  BY <1>3
<1>5. PICK i \in S : Cardinality(Below(S, i)) = k - 1
  BY <1>4
<1> QED
  BY <1>5 DEF Nth, Below

\* What filter() leaves is no longer than what it was given.
LEMMA WithoutIn ==
  ASSUME NEW S, NEW s \in Seq(S), NEW x
  PROVE  /\ Without(s, x) \in Seq(S)
         /\ Len(Without(s, x)) \in Nat /\ Len(Without(s, x)) <= Len(s)
<1> DEFINE kept == {i \in DOMAIN s : s[i] # x}
           c == Cardinality(kept)
           w == [k \in 1..c |-> s[Nth(kept, <, k)]]
<1>1. Len(s) \in Nat /\ DOMAIN s = 1..Len(s) /\ \A i \in 1..Len(s) : s[i] \in S
  BY LenProperties, ElementOfSeq
<1>2. IsFiniteSet(1..Len(s)) /\ Cardinality(1..Len(s)) = Len(s)
  <2>1. 1 \in Int /\ Len(s) \in Int
    BY <1>1
  <2>2. /\ IsFiniteSet(1..Len(s))
        /\ Cardinality(1..Len(s)) = IF 1 > Len(s) THEN 0 ELSE Len(s) - 1 + 1
    BY <2>1, FS_Interval
  <2> QED
    BY <1>1, <2>2
<1>3. kept \subseteq 1..Len(s) /\ kept \subseteq Nat
  BY <1>1
<1>4. IsFiniteSet(kept) /\ c \in Nat /\ c <= Len(s)
  <2> HIDE DEF kept
  <2> QED
    BY <1>2, <1>3, FS_Subset, FS_CardinalityType
<1>5. \A k \in 1..c : Nth(kept, <, k) \in kept
  <2> HIDE DEF kept
  <2> QED
    BY <1>3, <1>4, NthExists
<1>6. Without(s, x) = w
  BY DEF Without
<1>7. \A k \in 1..c : s[Nth(kept, <, k)] \in S
  <2> HIDE DEF kept
  <2> QED
    BY <1>1, <1>3, <1>5
<1> HIDE DEF kept, c
<1>8. w \in [1..c -> S]
  BY <1>7
<1>9. w \in Seq(S) /\ DOMAIN w = 1..c
  BY <1>4, <1>8, SeqDef
<1> HIDE DEF w
<1>10. Len(w) = c
  BY <1>4, <1>9, LenProperties
<1> QED
  BY <1>4, <1>6, <1>9, <1>10

\* What filter() leaves of a pair.
LEMMA WithoutOne ==
  ASSUME NEW a, NEW b, a # b
  PROVE  Without(<<a, b>>, a) = <<b>> /\ Without(<<a, b>>, b) = <<a>>
<1> DEFINE s == <<a, b>>
<1>1. ASSUME NEW x, NEW i \in 1..2, {j \in DOMAIN s : s[j] # x} = {i}
      PROVE  Without(s, x) = <<s[i]>>
  <2> DEFINE kept == {j \in DOMAIN s : s[j] # x}
  <2>1. kept = {i} /\ Cardinality(kept) = 1
    BY <1>1, FS_Singleton
  <2>2. {j \in kept : j < i} = {}
    BY <2>1
  <2>3. Cardinality({j \in kept : j < i}) = 1 - 1
    BY <2>2, FS_EmptySet
  <2>4. Nth(kept, <, 1) = i
    BY <2>1, <2>3 DEF Nth
  <2>5. Without(s, x) = [k \in 1..1 |-> s[Nth(kept, <, k)]]
    BY <2>1 DEF Without
  <2>6. \A k \in 1..1 : k = 1
    OBVIOUS
  <2>7. [k \in 1..1 |-> s[Nth(kept, <, k)]] = [k \in 1..1 |-> s[i]]
    BY <2>4, <2>6
  <2>8. [k \in 1..1 |-> s[i]] = <<s[i]>>
    OBVIOUS
  <2> QED
    BY <2>5, <2>7, <2>8
<1>2. DOMAIN s = 1..2 /\ s[1] = a /\ s[2] = b
  OBVIOUS
<1>3. {j \in DOMAIN s : s[j] # a} = {2} /\ {j \in DOMAIN s : s[j] # b} = {1}
  BY <1>2
<1> QED
  BY <1>1, <1>2, <1>3

LEMMA ReplacedFields ==
  ASSUME NEW A, NEW B, NEW C, NEW D, NEW E, NEW t, NEW x, NEW n, NEW a,
         NEW c \in [status : A, selectedParties : B, fallbackParty : C,
                    lastActivity : D, attempts : E]
  PROVE  [c EXCEPT !.status = "fallback", !.selectedParties = t, !.fallbackParty = x,
                   !.lastActivity = n, !.attempts = a]
           = [status |-> "fallback", selectedParties |-> t, fallbackParty |-> x,
              lastActivity |-> n, attempts |-> a]
<1> DEFINE R == [status : {"fallback"}, selectedParties : {t}, fallbackParty : {x},
                 lastActivity : {n}, attempts : {a}]
<1>1. [c EXCEPT !.status = "fallback", !.selectedParties = t, !.fallbackParty = x,
                !.lastActivity = n, !.attempts = a] \in R
  OBVIOUS
<1>2. \A r \in R : r = [status |-> "fallback", selectedParties |-> t, fallbackParty |-> x,
                        lastActivity |-> n, attempts |-> a]
  OBVIOUS
<1> HIDE DEF R
<1> QED
  BY <1>1, <1>2

\* The ceremony that falls back, whoever was reported: one party more at most.
\* When it was one of a pair, the fallback takes its place and it takes the
\* fallback's.
LEMMA ReplacedFacts ==
  ASSUME NEW c \in Ceremony, NEW x \in Parties, now \in Nat, CanFallBack(c),
         WithinAttempts(c)
  PROVE  /\ Replaced(c, x) \in Ceremony
         /\ WithinAttempts(Replaced(c, x))
         /\ PairBacked(c) /\ x \in ToSet(c.selectedParties) => PairBacked(Replaced(c, x))
<1> DEFINE s == c.selectedParties
           f == c.fallbackParty
           w == Without(s, x)
           t == Append(w, f)
           r == Replaced(c, x)
<1>1. /\ s \in Seq(Parties) /\ f \in Parties
      /\ c.attempts \in Nat /\ c.attempts # 0 /\ c.attempts < MaxAttempts
      /\ MaxAttempts \in Nat
  BY CoordinatorAssumption DEF Ceremony, CanFallBack
<1>2. r = [status |-> "fallback", selectedParties |-> t, fallbackParty |-> x,
           lastActivity |-> now, attempts |-> c.attempts + 1]
  <2> DEFINE a == c.attempts + 1
  <2>1. r = [c EXCEPT !.status = "fallback", !.selectedParties = t, !.fallbackParty = x,
                      !.lastActivity = now, !.attempts = a]
    BY Zenon DEF Replaced
  <2> HIDE DEF r, t, a
  <2>2. PICK m \in Nat : m = now
    OBVIOUS
  <2>3. r = [status |-> "fallback", selectedParties |-> t, fallbackParty |-> x,
             lastActivity |-> m, attempts |-> a]
    BY <2>1, <2>2, ReplacedFields DEF Ceremony
  <2> QED
    BY <2>2, <2>3 DEF a
<1>3. w \in Seq(Parties) /\ Len(w) \in Nat /\ Len(w) <= Len(s) /\ Len(s) \in Nat
  <2> HIDE DEF s
  <2> QED
    BY <1>1, WithoutIn, LenProperties
<1>4. t \in Seq(Parties) /\ Len(t) = Len(w) + 1
  <2> HIDE DEF w, f
  <2> QED
    BY <1>1, <1>3, AppendProperties
<1>5. ASSUME PairBacked(c), x \in ToSet(s) PROVE PairBacked(r)
  <2>1. PICK a, b \in Parties : a # b /\ s = <<a, b>> /\ f \notin {a, b}
    BY <1>5 DEF PairBacked
  <2>2. x = a \/ x = b
    BY <1>5, <2>1 DEF ToSet
  <2>3. ASSUME NEW y \in Parties, w = <<y>> PROVE t = <<y, f>>
    BY <1>1, <2>3, AppendedToOne
  <2>4. CASE x = a
    <3>1. t = <<b, f>>
      BY <2>1, <2>3, <2>4, WithoutOne
    <3> HIDE DEF t, r, f
    <3>2. r.selectedParties = <<b, f>> /\ r.fallbackParty = a
      BY <1>2, <2>4, <3>1
    <3> QED
      BY <1>1, <2>1, <3>2 DEF PairBacked
  <2>5. CASE x = b
    <3>1. t = <<a, f>>
      BY <2>1, <2>3, <2>5, WithoutOne
    <3> HIDE DEF t, r, f
    <3>2. r.selectedParties = <<a, f>> /\ r.fallbackParty = b
      BY <1>2, <2>5, <3>1
    <3> QED
      BY <1>1, <2>1, <3>2 DEF PairBacked
  <2> QED
    BY <2>2, <2>4, <2>5
<1> HIDE DEF t, w
<1>6. r \in Ceremony
  BY <1>1, <1>2, <1>4 DEF Ceremony
<1>7. WithinAttempts(r)
  <2>1. /\ r.selectedParties = t /\ r.attempts = c.attempts + 1
        /\ Len(s) <= c.attempts + 1
    BY <1>2 DEF WithinAttempts
  <2> HIDE DEF r, s
  <2>2. Len(t) <= (c.attempts + 1) + 1
    BY <1>1, <1>3, <1>4, <2>1
  <2> QED
    BY <1>1, <2>1, <2>2 DEF WithinAttempts
<1> QED
  BY <1>5, <1>6, <1>7

-----------------------------------------------------------------------------
(* The steps.                                                              *)

\* The assignment of one ceremony; the others are left as they are.
LEMMA Assigned ==
  ASSUME CeremoniesInv, NEW id \in DOMAIN ceremonies, NEW r \in Ceremony,
         ceremonies' = [ceremonies EXCEPT ![id] = r], UNCHANGED now,
         unpaired \subseteq unpaired', WithinAttempts(r),
         id \notin unpaired' => PairBacked(r)
  PROVE  CeremoniesInv'
<1>1. /\ ceremonies' \in [DOMAIN ceremonies -> Ceremony]
      /\ DOMAIN ceremonies' = DOMAIN ceremonies
      /\ ceremonies'[id] = r
      /\ \A j \in DOMAIN ceremonies \ {id} : ceremonies'[j] = ceremonies[j]
  BY DEF CeremoniesInv, CeremoniesTyped
<1>2. CeremoniesTyped'
  BY <1>1 DEF CeremoniesInv, CeremoniesTyped
<1>3. EachKept'
  <2> SUFFICES ASSUME NEW j \in DOMAIN ceremonies
               PROVE  /\ WithinAttempts(ceremonies'[j])
                      /\ j \notin unpaired' => PairBacked(ceremonies'[j])
    BY <1>1 DEF EachKept, WithinAttempts, PairBacked
  <2>1. CASE j = id
    BY <1>1, <2>1
  <2>2. CASE j # id
    BY <1>1, <2>2 DEF CeremoniesInv, EachKept
  <2> QED
    BY <2>1, <2>2
<1> QED
  BY <1>2, <1>3 DEF CeremoniesInv

\* Ceremonies are forgotten, or nothing happens to them.
LEMMA LeftAlone ==
  ASSUME CeremoniesInv, NEW ids, now' \in Nat, UNCHANGED unpaired,
         ceremonies' = [id \in DOMAIN ceremonies \ ids |-> ceremonies[id]]
  PROVE  CeremoniesInv'
<1>1. /\ DOMAIN ceremonies' = DOMAIN ceremonies \ ids
      /\ \A j \in DOMAIN ceremonies' : ceremonies'[j] = ceremonies[j]
      /\ ceremonies' \in [DOMAIN ceremonies' -> Ceremony]
  BY DEF CeremoniesInv, CeremoniesTyped
<1>2. CeremoniesTyped'
  BY <1>1 DEF CeremoniesInv, CeremoniesTyped
<1>3. EachKept'
  <2> SUFFICES ASSUME NEW j \in DOMAIN ceremonies'
               PROVE  /\ WithinAttempts(ceremonies'[j])
                      /\ j \notin unpaired' => PairBacked(ceremonies'[j])
    BY DEF EachKept, WithinAttempts, PairBacked
  <2> QED
    BY <1>1 DEF CeremoniesInv, EachKept
<1> QED
  BY <1>2, <1>3 DEF CeremoniesInv

LEMMA NotTouched ==
  ASSUME CeremoniesInv, UNCHANGED <<ceremonies, unpaired>>, now' \in Nat
  PROVE  CeremoniesInv'
<1>1. ceremonies' = [id \in DOMAIN ceremonies \ {} |-> ceremonies[id]]
  BY DEF CeremoniesInv, CeremoniesTyped
<1> QED
  BY <1>1, LeftAlone

LEMMA StartStep ==
  ASSUME CeremoniesInv, NEW w \in Wallets, NEW sel, Start(w, sel), UNCHANGED now,
         NEW a \in Parties, NEW b \in Parties, a # b, sel.selected = <<a, b>>,
         sel.fallback \in Parties \cup {NoParty}
  PROVE  CeremoniesInv'
<1> DEFINE id == <<w, now>>
           new == [status |-> "in_progress", selectedParties |-> sel.selected,
                   fallbackParty |-> sel.fallback, lastActivity |-> now, attempts |-> 1]
           ids == DOMAIN ceremonies \cup {id}
<1>1. /\ new \in Ceremony /\ new.attempts = 1 /\ new.selectedParties = <<a, b>>
      /\ new.fallbackParty = sel.fallback /\ Len(<<a, b>>) = 2
  BY DEF Ceremony, CeremoniesInv, CeremoniesTyped
<1>2. /\ ceremonies' = [i \in ids |-> IF i = id THEN new ELSE ceremonies[i]]
      /\ unpaired' = IF sel.fallback \in ToSet(<<a, b>>)
                     THEN unpaired \cup {id} ELSE unpaired \ {id}
  BY DEF Start
<1>3. ToSet(<<a, b>>) = {a, b}
  BY DEF ToSet
<1> HIDE DEF new
<1>4. WithinAttempts(new)
  BY <1>1 DEF WithinAttempts
<1>5. id \notin unpaired' => PairBacked(new)
  BY <1>1, <1>2, <1>3 DEF PairBacked
<1> HIDE DEF id
<1>6. /\ DOMAIN ceremonies' = ids
      /\ ceremonies' \in [ids -> Ceremony]
      /\ ceremonies'[id] = new
      /\ \A j \in DOMAIN ceremonies \ {id} : ceremonies'[j] = ceremonies[j]
  BY <1>1, <1>2 DEF CeremoniesInv, CeremoniesTyped
<1>7. CeremoniesTyped'
  <2>1. ids \subseteq Wallets \X Nat
    BY DEF CeremoniesInv, CeremoniesTyped, id
  <2> QED
    BY <1>6, <2>1 DEF CeremoniesInv, CeremoniesTyped
<1>8. EachKept'
  <2> SUFFICES ASSUME NEW j \in ids
               PROVE  /\ WithinAttempts(ceremonies'[j])
                      /\ j \notin unpaired' => PairBacked(ceremonies'[j])
    BY <1>6 DEF EachKept, WithinAttempts, PairBacked
  <2>1. CASE j = id
    BY <1>4, <1>5, <1>6, <2>1
  <2>2. CASE j # id
    BY <1>2, <1>6, <2>2 DEF CeremoniesInv, EachKept
  <2> QED
    BY <2>1, <2>2
<1> QED
  BY <1>7, <1>8 DEF CeremoniesInv

LEMMA StartCeremonyStep ==
  ASSUME NodesTyped, CeremoniesInv, NEW w \in Wallets, StartCeremony(w)
  PROVE  CeremoniesInv'
<1>1. PICK sel : sel = Select(2)
  OBVIOUS
<1>2. Start(w, sel) /\ UNCHANGED now
  BY <1>1 DEF StartCeremony
<1>3. Cardinality(Eligible) >= 2
  <2>1. Len(sel.selected) = 2
    BY <1>2 DEF Start
  <2>2. NoSelection.selected = << >> /\ Len(<< >>) = 0
    BY EmptySeq DEF NoSelection
  <2> QED
    BY <1>1, <2>1, <2>2, SelectTwo, Ranks
<1>4. /\ sel.selected = <<Party(First), Party(Second)>>
      /\ sel.fallback \in {Party(Third), NoParty}
      /\ sel.fallback = Party(Third) => Cardinality(Eligible) >= 3 \/ sel.fallback = NoParty
  BY <1>1, <1>3, SelectTwo
<1>5. First \in Eligible /\ Second \in Eligible /\ First # Second
  BY <1>3, Ranks
<1>6. /\ Party(First) \in Parties /\ Party(Second) \in Parties
      /\ Party(First) # Party(Second)
      /\ (Cardinality(Eligible) >= 3 => Party(Third) \in Parties)
  BY <1>3, <1>5, Ranks, PartyFacts
<1>7. sel.fallback \in Parties \cup {NoParty}
  BY <1>4, <1>6
<1> QED
  BY <1>2, <1>4, <1>6, <1>7, StartStep

LEMMA StartAsCoordinatorStep ==
  ASSUME NodesTyped, CeremoniesInv, NEW w \in Wallets, NEW c \in Parties,
         StartAsCoordinator(w, c)
  PROVE  CeremoniesInv'
<1>1. PICK sel : sel = SelectWithCoordinator(c)
  OBVIOUS
<1>2. Start(w, sel) /\ UNCHANGED now
  BY <1>1 DEF StartAsCoordinator
<1>3. sel # NoSelection
  <2>1. Len(sel.selected) = 2
    BY <1>2 DEF Start
  <2>2. NoSelection.selected = << >> /\ Len(<< >>) = 0
    BY EmptySeq DEF NoSelection
  <2> QED
    BY <2>1, <2>2
<1>4. PICK i \in Eligible : sel.selected = <<c, Party(i)>>
                            /\ sel.fallback \in Parties \cup {NoParty}
                            /\ Party(i) # c
  BY <1>1, <1>3, PartnerFacts
<1>5. Party(i) \in Parties
  BY PartyFacts
<1> QED
  BY <1>2, <1>4, <1>5, StartStep

\* Neither the status nor the time of the last activity is among what a ceremony
\* keeps.
LEMMA CeremonyFields ==
  ASSUME CeremoniesInv, NEW id \in DOMAIN ceremonies,
         NEW r \in {[ceremonies[id] EXCEPT !.status = s] : s \in {"completed", "failed"}}
                     \cup {[ceremonies[id] EXCEPT !.lastActivity = now]}
  PROVE  /\ r \in Ceremony /\ WithinAttempts(r)
         /\ id \notin unpaired => PairBacked(r)
<1>1. ceremonies[id] \in Ceremony /\ now \in Nat
  BY DEF CeremoniesInv, CeremoniesTyped
<1>2. /\ r \in Ceremony
      /\ r.selectedParties = ceremonies[id].selectedParties
      /\ r.fallbackParty = ceremonies[id].fallbackParty
      /\ r.attempts = ceremonies[id].attempts
  BY <1>1 DEF Ceremony
<1>3. WithinAttempts(ceremonies[id]) /\ (id \notin unpaired => PairBacked(ceremonies[id]))
  BY DEF CeremoniesInv, EachKept
<1> QED
  BY <1>2, <1>3 DEF WithinAttempts, PairBacked

LEMMA CeremonyStepKeeps ==
  ASSUME CeremoniesInv, NEW id \in DOMAIN ceremonies, CeremonyStep(id)
  PROVE  CeremoniesInv'
<1>1. CASE TouchCeremony(id)
  <2>1. PICK r : r = [ceremonies[id] EXCEPT !.lastActivity = now]
    OBVIOUS
  <2>2. ceremonies' = [ceremonies EXCEPT ![id] = r] /\ UNCHANGED <<now, unpaired>>
    BY <1>1, <2>1 DEF TouchCeremony
  <2>3. r \in Ceremony /\ WithinAttempts(r) /\ (id \notin unpaired => PairBacked(r))
    BY <2>1, CeremonyFields
  <2> QED
    BY <2>2, <2>3, Assigned
<1>2. ASSUME NEW p \in Parties, FallbackTaken(id, p) PROVE CeremoniesInv'
  <2>1. PICK c \in Ceremony : c = ceremonies[id]
    BY DEF CeremoniesInv, CeremoniesTyped
  <2>2. PICK r : r = Replaced(c, p)
    OBVIOUS
  <2>3. /\ CanFallBack(c) /\ ceremonies' = [ceremonies EXCEPT ![id] = r]
        /\ UNCHANGED now
        /\ unpaired' = IF p \in ToSet(c.selectedParties) THEN unpaired
                       ELSE unpaired \cup {id}
    BY <1>2, <2>1, <2>2 DEF FallbackTaken, PartiesOf
  <2>4. /\ now \in Nat /\ WithinAttempts(c) /\ (id \notin unpaired => PairBacked(c))
    BY <2>1 DEF CeremoniesInv, CeremoniesTyped, EachKept
  <2>5. /\ r \in Ceremony /\ WithinAttempts(r)
        /\ PairBacked(c) /\ p \in ToSet(c.selectedParties) => PairBacked(r)
    BY <2>2, <2>3, <2>4, ReplacedFacts
  <2>6. unpaired \subseteq unpaired' /\ (id \notin unpaired' => PairBacked(r))
    BY <2>3, <2>4, <2>5
  <2> QED
    BY <2>3, <2>5, <2>6, Assigned
<1>3. ASSUME NEW s \in {"completed", "failed"}, SetStatus(id, s),
             UNCHANGED <<now, unpaired>>
      PROVE  CeremoniesInv'
  <2>1. PICK r : r = [ceremonies[id] EXCEPT !.status = s]
    OBVIOUS
  <2>2. ceremonies' = [ceremonies EXCEPT ![id] = r]
    BY <1>3, <2>1 DEF SetStatus
  <2>3. r \in Ceremony /\ WithinAttempts(r) /\ (id \notin unpaired => PairBacked(r))
    BY <2>1, CeremonyFields
  <2> QED
    BY <1>3, <2>2, <2>3, Assigned
<1>4. CASE FallbackRefused(id) \/ FailCeremony(id) \/ CompleteCeremony(id)
  BY <1>3, <1>4 DEF FallbackRefused, FailCeremony, CompleteCeremony
<1> QED
  BY <1>1, <1>2, <1>4 DEF CeremonyStep

LEMMA ForgetStep ==
  ASSUME CeremoniesInv, CleanupTimeouts \/ CoordinatorCleanup \/ CoordinatorDestroy
  PROVE  CeremoniesInv'
<1>1. now' \in Nat /\ UNCHANGED unpaired
  BY DEF CleanupTimeouts, CoordinatorCleanup, CoordinatorDestroy, CeremoniesInv,
         CeremoniesTyped
<1>2. ASSUME NEW ids, Forget(ids) PROVE CeremoniesInv'
  BY <1>1, <1>2, LeftAlone DEF Forget
<1>3. CASE CleanupTimeouts \/ CoordinatorCleanup
  BY <1>2, <1>3 DEF CleanupTimeouts, CoordinatorCleanup
<1>4. CASE CoordinatorDestroy
  <2>1. [id \in {} |-> ceremonies[id]] = << >>
    <3>1. 1..0 = {}
      OBVIOUS
    <3>2. [id \in {} |-> ceremonies[id]] \in [1..0 -> {}]
      BY <3>1
    <3> QED
      BY <3>2, EmptyFunction
  <2>2. Forget(DOMAIN ceremonies)
    BY <1>4, <2>1 DEF CoordinatorDestroy, Forget
  <2> QED
    BY <1>2, <2>2
<1> QED
  BY <1>3, <1>4

LEMMA StepKeeps ==
  ASSUME NodesTyped, CeremoniesInv, [CoordinatorNext]_coordinatorVars
  PROVE  CeremoniesInv'
<1>1. ASSUME NEW w \in Wallets, StartCeremony(w) PROVE CeremoniesInv'
  BY <1>1, StartCeremonyStep
<1>2. ASSUME NEW w \in Wallets, NEW c \in Parties, StartAsCoordinator(w, c)
      PROVE  CeremoniesInv'
  BY <1>2, StartAsCoordinatorStep
<1>3. ASSUME NEW id \in DOMAIN ceremonies, CeremonyStep(id)
      PROVE  CeremoniesInv'
  BY <1>3, CeremonyStepKeeps
<1>4. CASE CleanupTimeouts \/ CoordinatorCleanup \/ CoordinatorDestroy
  BY <1>4, ForgetStep
<1>5. now \in Nat
  BY DEF CeremoniesInv, CeremoniesTyped
<1>6. ASSUME NEW p \in Parties, HealthEntryChanges(p) \/ PeerChanges(p)
      PROVE  CeremoniesInv'
  BY <1>5, <1>6, NotTouched DEF HealthEntryChanges, PeerChanges
<1>7. CASE Tick
  BY <1>5, <1>7, NotTouched DEF Tick
<1>8. CASE UNCHANGED coordinatorVars
  BY <1>5, <1>8, NotTouched DEF coordinatorVars
<1> QED
  BY <1>1, <1>2, <1>3, <1>4, <1>6, <1>7, <1>8 DEF CoordinatorNext

LEMMA InitCeremonies == CoordinatorInit => CeremoniesInv
<1>1. DOMAIN << >> = {}
  OBVIOUS
<1>2. << >> \in [{} -> Ceremony]
  OBVIOUS
<1> QED
  BY <1>1, <1>2 DEF CoordinatorInit, CeremoniesInv, CeremoniesTyped, EachKept

\* attemptFallback() may be called for any party, of the ceremony or not, again
\* and again and in any state of the ceremony.  While its own parties are reported
\* a ceremony that began with a third party, or none, behind its pair stays such a
\* pair, whichever of the two is reported; and whoever is reported, the
\* parties do not outnumber the attempts by more than one, nor the attempts the
\* configured ones.
THEOREM FallbackIsKept == CoordinatorSpec => []FallbackKept
<1> DEFINE IInv == NodesTyped /\ CeremoniesInv
<1>1. CoordinatorInit => IInv
  BY InitNodes, InitCeremonies
<1>2. IInv /\ [CoordinatorNext]_coordinatorVars => IInv'
  BY StepNodes, StepKeeps
<1>3. ASSUME NEW c, PairBacked(c) PROVE Paired(c)
  <2>1. PICK a, b \in Parties : a # b /\ c.selectedParties = <<a, b>>
                                /\ c.fallbackParty \notin {a, b}
    BY <1>3 DEF PairBacked
  <2>2. ToSet(<<a, b>>) = {a, b} /\ Len(<<a, b>>) = 2
    BY DEF ToSet
  <2>3. Cardinality({a, b}) = 2
    <3>1. Cardinality({a}) = 1 /\ IsFiniteSet({a})
      BY FS_Singleton
    <3>2. Cardinality({a} \cup {b}) = 1 + 1
      BY <2>1, <3>1, FS_AddElement
    <3>3. {a} \cup {b} = {a, b}
      OBVIOUS
    <3> QED
      BY <3>2, <3>3
  <2> QED
    BY <2>1, <2>2, <2>3 DEF Paired
<1>4. IInv => FallbackKept
  BY <1>3 DEF CeremoniesInv, EachKept, WithinAttempts, FallbackKept
<1> QED
  BY <1>1, <1>2, <1>4, PTL DEF CoordinatorSpec

-----------------------------------------------------------------------------
(* The transport.                                                          *)

\* The entry of a session, or none.
Entry ==
  [state : States \cup {"absent", "aborted"}, messageCount : Nat,
   idle : BOOLEAN, timer : BOOLEAN]

Envelopes ==
  [from : Nodes, to : Nodes, type : Types, session : SessionIds, sequence : Nat \ {0}]

\* What is on its way to p although p has received a later message of q.
Late(p, s, q) ==
  {m \in inFlight : m.to = p /\ m.from = q /\ m.session = s
                    /\ m.sequence <= highest[p][s][q]}

NetTyped ==
  /\ peers \in [Nodes -> SUBSET Nodes]
  /\ \A p \in Nodes : p \notin peers[p]
  /\ counter \in [Nodes -> [SessionIds -> Nat]]
  /\ sessions \in [Nodes -> [SessionIds -> Entry]]
  /\ highest \in [Nodes -> [SessionIds -> [Nodes -> Nat]]]
  /\ inFlight \subseteq Envelopes /\ IsFiniteSet(inFlight)
  /\ \A m \in inFlight : m.from # m.to

\* A number is used once.
NumberedOnce ==
  /\ \A m \in inFlight : m.sequence <= counter[m.from][m.session]
  /\ \A m, n \in inFlight :
       m.from = n.from /\ m.session = n.session /\ m.sequence = n.sequence => m = n
  /\ \A p, q \in Nodes, s \in SessionIds : highest[p][s][q] <= counter[q][s]

\* Where one sender was heard: of its numbers up to the highest, those of late
\* messages were not counted.
CountFits ==
  \A p, q \in Nodes, s \in SessionIds :
    p # q /\ HeardOnly(p, s, q)
      => sessions[p][s].messageCount + Cardinality(Late(p, s, q)) <= highest[p][s][q]

NetInv == NetTyped /\ NumberedOnce /\ CountFits

Idled(e) == [e EXCEPT !.idle = TRUE]

LEMMA EntryFacts ==
  ASSUME NEW e \in Entry
  PROVE  /\ \A t : /\ Recorded(e, t) \in Entry
                  /\ Recorded(e, t).messageCount <= e.messageCount + 1
         /\ Aborted(e) \in Entry /\ Aborted(e).messageCount = e.messageCount
         /\ TimedOut(e) \in Entry /\ TimedOut(e).messageCount = e.messageCount
         /\ Idled(e) \in Entry
         /\ Idled(e).messageCount = e.messageCount
         /\ Created \in Entry /\ Created.messageCount = 0
         /\ Absent \in Entry /\ Absent.messageCount = 0
<1>1. /\ e.messageCount \in Nat /\ e.state \in States \cup {"absent", "aborted"}
      /\ e = [state |-> e.state, messageCount |-> e.messageCount, idle |-> e.idle,
              timer |-> e.timer]
  BY DEF Entry
<1>2. "created" \in States /\ "timed_out" \in States
  BY DEF States
<1>3. \A t : t \in DOMAIN StateOf => StateOf[t] \in States
  BY DEF States
<1>4. \A t : /\ Recorded(e, t) \in Entry
            /\ Recorded(e, t).messageCount <= e.messageCount + 1
  <2> TAKE t
  <2> QED
    BY <1>1, <1>3 DEF Entry, Recorded
<1>5. Aborted(e) \in Entry /\ Aborted(e).messageCount = e.messageCount
  BY <1>1 DEF Entry, Aborted
<1>6. TimedOut(e) \in Entry /\ TimedOut(e).messageCount = e.messageCount
  BY <1>1, <1>2 DEF Entry, TimedOut
<1>7. /\ Idled(e) \in Entry
      /\ Idled(e).messageCount = e.messageCount
  BY <1>1 DEF Entry, Idled
<1>8. /\ Created \in Entry /\ Created.messageCount = 0
      /\ Absent \in Entry /\ Absent.messageCount = 0
  BY <1>2 DEF Entry, Created, Absent
<1> QED
  BY <1>4, <1>5, <1>6, <1>7, <1>8

LEMMA LateFinite ==
  ASSUME NetTyped, NEW p \in Nodes, NEW q \in Nodes, NEW s \in SessionIds
  PROVE  IsFiniteSet(Late(p, s, q)) /\ Cardinality(Late(p, s, q)) \in Nat
<1>1. Late(p, s, q) \subseteq inFlight /\ IsFiniteSet(inFlight)
  BY DEF Late, NetTyped
<1> QED
  BY <1>1, FS_Subset, FS_CardinalityType

LEMMA NetInit == Init => NetInv
<1> SUFFICES ASSUME Init PROVE NetInv
  OBVIOUS
<1>1. Absent \in Entry /\ Absent.messageCount = 0
  BY DEF Entry, Absent
<1>2. NetTyped
  BY <1>1, FS_EmptySet DEF Init, NetTyped
<1>3. NumberedOnce
  BY DEF Init, NumberedOnce
<1>4. \A p, q \in Nodes, s \in SessionIds : Late(p, s, q) = {}
  BY DEF Init, Late
<1>5. CountFits
  <2> SUFFICES ASSUME NEW p \in Nodes, NEW q \in Nodes, NEW s \in SessionIds
               PROVE  sessions[p][s].messageCount + Cardinality(Late(p, s, q))
                        <= highest[p][s][q]
    BY DEF CountFits
  <2>1. sessions[p][s].messageCount = 0 /\ highest[p][s][q] = 0
    BY <1>1 DEF Init
  <2> QED
    BY <1>4, <2>1, FS_EmptySet
<1> QED
  BY <1>2, <1>3, <1>5 DEF NetInv

\* The sessions alone: no count grows.
LEMMA SessionsStep ==
  ASSUME NetInv, UNCHANGED <<netVars, highest>>,
         sessions' \in [Nodes -> [SessionIds -> Entry]],
         \A p \in Nodes, s \in SessionIds :
           sessions'[p][s].messageCount <= sessions[p][s].messageCount
  PROVE  NetInv'
<1>1. NetTyped' /\ NumberedOnce'
  BY DEF NetInv, NetTyped, NumberedOnce, netVars
<1>2. ASSUME NEW p \in Nodes, NEW q \in Nodes, NEW s \in SessionIds
      PROVE  Late(p, s, q)' = Late(p, s, q)
  BY DEF Late, netVars
<1>3. CountFits'
  <2> SUFFICES ASSUME NEW p \in Nodes, NEW q \in Nodes, NEW s \in SessionIds, p # q,
                      HeardOnly(p, s, q)'
               PROVE  sessions'[p][s].messageCount + Cardinality(Late(p, s, q)')
                        <= highest'[p][s][q]
    BY DEF CountFits
  <2> DEFINE a == sessions[p][s].messageCount
             b == sessions'[p][s].messageCount
             c == Cardinality(Late(p, s, q))
             h == highest[p][s][q]
  <2>1. a \in Nat /\ b \in Nat /\ c \in Nat /\ h \in Nat /\ b <= a /\ a + c <= h
    BY LateFinite DEF NetInv, NetTyped, CountFits, Entry, HeardOnly
  <2>2. Late(p, s, q)' = Late(p, s, q) /\ highest' = highest
    BY <1>2
  <2>3. b + c <= h
    <3> HIDE DEF a, b, c, h
    <3> QED
      BY <2>1
  <2> QED
    BY <2>2, <2>3
<1> QED
  BY <1>1, <1>3 DEF NetInv

LEMMA SetSessionStep ==
  ASSUME NetInv, UNCHANGED <<netVars, highest>>, NEW p \in Nodes, NEW s \in SessionIds,
         NEW e \in Entry, sessions' = [sessions EXCEPT ![p][s] = e],
         e.messageCount <= sessions[p][s].messageCount
  PROVE  NetInv'
<1>1. sessions \in [Nodes -> [SessionIds -> Entry]]
  BY DEF NetInv, NetTyped
<1>2. /\ sessions' \in [Nodes -> [SessionIds -> Entry]]
      /\ \A r \in Nodes, x \in SessionIds :
           sessions'[r][x] = IF r = p /\ x = s THEN e ELSE sessions[r][x]
  BY <1>1
<1>3. \A r \in Nodes, x \in SessionIds :
        sessions[r][x].messageCount <= sessions[r][x].messageCount
  BY <1>1 DEF Entry
<1> QED
  BY <1>2, <1>3, SessionsStep

LEMMA SessionSteps ==
  ASSUME NetInv, NEW p \in Nodes, NEW s \in SessionIds,
         Create(p, s) \/ Abort(p, s) \/ Idle(p, s) \/ TimerFires(p, s)
  PROVE  NetInv'
<1>1. PICK e \in Entry : e = sessions[p][s]
  BY DEF NetInv, NetTyped
<1>2. e.messageCount \in Nat
  BY DEF Entry
<1>3. PICK f : f = IF Create(p, s) THEN Created
                   ELSE IF Abort(p, s) THEN Aborted(e)
                   ELSE IF Idle(p, s) THEN Idled(e)
                   ELSE TimedOut(e)
  OBVIOUS
<1>4. f \in Entry /\ f.messageCount <= sessions[p][s].messageCount
  <2> DEFINE new == {Created, Aborted(e), Idled(e), TimedOut(e)}
  <2>1. \A x \in new : x \in Entry /\ x.messageCount <= e.messageCount
    BY <1>2, EntryFacts
  <2>2. f \in new
    BY Zenon, <1>3
  <2> HIDE DEF new
  <2> QED
    BY <1>1, <2>1, <2>2
<1>5. sessions' = [sessions EXCEPT ![p][s] = f] /\ UNCHANGED <<netVars, highest>>
  BY <1>1, <1>3 DEF Create, Abort, Idle, TimerFires, SetSession, Idled
<1> QED
  BY <1>4, <1>5, SetSessionStep

LEMMA SessionsEnd ==
  ASSUME NetInv, NEW p \in Nodes, Cleanup(p) \/ DestroySessions(p)
  PROVE  NetInv'
<1>1. UNCHANGED <<netVars, highest>>
  BY DEF Cleanup, DestroySessions
<1>2. sessions \in [Nodes -> [SessionIds -> Entry]]
  BY DEF NetInv, NetTyped
<1>3. Absent \in Entry /\ Absent.messageCount = 0
  BY DEF Entry, Absent
<1>4. /\ sessions' \in [Nodes -> [SessionIds -> Entry]]
      /\ \A r \in Nodes, x \in SessionIds : sessions'[r][x] \in {sessions[r][x], Absent}
  BY <1>2, <1>3 DEF Cleanup, DestroySessions
<1>5. \A r \in Nodes, x \in SessionIds :
        sessions'[r][x].messageCount <= sessions[r][x].messageCount
  <2> SUFFICES ASSUME NEW r \in Nodes, NEW x \in SessionIds
               PROVE  sessions'[r][x].messageCount <= sessions[r][x].messageCount
    OBVIOUS
  <2>1. sessions[r][x].messageCount \in Nat
    BY <1>2 DEF Entry
  <2> QED
    BY <1>3, <1>4, <2>1
<1> QED
  BY <1>1, <1>4, <1>5, SessionsStep

\* The network alone: what is on its way only becomes less.
LEMMA LessOnItsWay ==
  ASSUME NetInv, UNCHANGED <<counter, sessions, highest>>, inFlight' \subseteq inFlight,
         peers' \in [Nodes -> SUBSET Nodes], \A p \in Nodes : p \notin peers'[p]
  PROVE  NetInv'
<1>1. NetTyped'
  BY FS_Subset DEF NetInv, NetTyped
<1>2. NumberedOnce'
  BY DEF NetInv, NumberedOnce
<1>3. ASSUME NEW p \in Nodes, NEW q \in Nodes, NEW s \in SessionIds
      PROVE  /\ Cardinality(Late(p, s, q)') \in Nat
             /\ Cardinality(Late(p, s, q)') <= Cardinality(Late(p, s, q))
  <2>1. Late(p, s, q)' \subseteq Late(p, s, q)
    BY DEF Late
  <2> QED
    BY <2>1, LateFinite, FS_Subset, FS_CardinalityType DEF NetInv
<1>4. CountFits'
  <2> SUFFICES ASSUME NEW p \in Nodes, NEW q \in Nodes, NEW s \in SessionIds, p # q,
                      HeardOnly(p, s, q)'
               PROVE  sessions'[p][s].messageCount + Cardinality(Late(p, s, q)')
                        <= highest'[p][s][q]
    BY DEF CountFits
  <2> DEFINE a == sessions[p][s].messageCount
             b == Cardinality(Late(p, s, q)')
             c == Cardinality(Late(p, s, q))
             h == highest[p][s][q]
  <2>1. a \in Nat /\ b \in Nat /\ c \in Nat /\ h \in Nat /\ a + c <= h /\ b <= c
    BY <1>3, LateFinite DEF NetInv, NetTyped, CountFits, Entry, HeardOnly
  <2>2. a + b <= h
    <3> HIDE DEF a, b, c, h
    <3> QED
      BY <2>1
  <2> QED
    BY <2>2
<1> QED
  BY <1>1, <1>2, <1>4 DEF NetInv

LEMMA NetworkSteps ==
  ASSUME NetInv, NEW p \in Nodes, NEW q \in Nodes,
         Disconnect(p, q) \/ Connect(p, q) \/ Destroy(p)
         \/ \E m \in inFlight : Vanish(m)
  PROVE  NetInv'
<1>1. peers \in [Nodes -> SUBSET Nodes] /\ \A r \in Nodes : r \notin peers[r]
  BY DEF NetInv, NetTyped
<1>2. UNCHANGED <<counter, sessions, highest>> /\ inFlight' \subseteq inFlight
  BY DEF Disconnect, Connect, Destroy, Vanish
<1>3. /\ peers' \in [Nodes -> SUBSET Nodes]
      /\ \A r \in Nodes : r \notin peers'[r]
  <2>1. CASE Disconnect(p, q)
    BY <1>1, <2>1 DEF Disconnect
  <2>2. CASE Connect(p, q)
    <3>1. /\ p # q
          /\ peers' = [peers EXCEPT ![p] = @ \cup {q}, ![q] = @ \cup {p}]
      BY <2>2 DEF Connect
    <3> QED
      BY <1>1, <3>1
  <2>3. CASE Destroy(p)
    BY <1>1, <2>3 DEF Destroy
  <2>4. CASE \E m \in inFlight : Vanish(m)
    BY <1>1, <2>4 DEF Vanish
  <2> QED
    BY <2>1, <2>2, <2>3, <2>4
<1> QED
  BY <1>2, <1>3, LessOnItsWay

LEMMA SendStep ==
  ASSUME NetInv, NEW p \in Nodes, NEW q \in Nodes, NEW t \in Types,
         NEW x \in SessionIds, Send(p, q, t, x)
  PROVE  NetInv'
<1>1. PICK m : m = [from |-> p, to |-> q, type |-> t, session |-> x,
                    sequence |-> counter[p][x] + 1]
  OBVIOUS
<1>2. /\ counter' = [counter EXCEPT ![p][x] = @ + 1]
      /\ inFlight' = inFlight \cup {m}
      /\ UNCHANGED <<peers, sessions, highest>>
  BY <1>1 DEF Send
<1>3. /\ counter \in [Nodes -> [SessionIds -> Nat]]
      /\ \A r \in Nodes : \A y \in SessionIds : counter[r][y] \in Nat
  BY DEF NetInv, NetTyped
<1>4. /\ counter' \in [Nodes -> [SessionIds -> Nat]]
      /\ \A r \in Nodes, y \in SessionIds :
           counter'[r][y] = IF r = p /\ y = x THEN counter[r][y] + 1 ELSE counter[r][y]
  BY <1>2, <1>3
<1>5. /\ m \in Envelopes /\ m.from = p /\ m.to = q /\ m.session = x /\ p # q
      /\ m.sequence = counter[p][x] + 1
  BY <1>1, <1>3 DEF Envelopes, Send, NetInv, NetTyped
<1>6. NetTyped'
  BY <1>2, <1>4, <1>5, FS_AddElement DEF NetInv, NetTyped
<1>7. NumberedOnce'
  <2>1. \A n \in inFlight : /\ n.from \in Nodes /\ n.session \in SessionIds
                            /\ n.sequence \in Nat
                            /\ n.sequence <= counter[n.from][n.session]
    BY DEF NetInv, NetTyped, NumberedOnce, Envelopes
  <2>2. \A n \in inFlight : n.sequence <= counter'[n.from][n.session]
    BY <1>3, <1>4, <2>1
  <2>3. m.sequence <= counter'[m.from][m.session]
    BY <1>3, <1>4, <1>5
  <2>4. \A n \in inFlight :
          ~(m.from = n.from /\ m.session = n.session /\ m.sequence = n.sequence)
    BY <1>3, <1>5, <2>1
  <2>5. \A r, y \in Nodes, z \in SessionIds : highest'[r][z][y] <= counter'[y][z]
    <3>1. \A r, y \in Nodes, z \in SessionIds :
            highest[r][z][y] \in Nat /\ highest[r][z][y] <= counter[y][z]
      BY DEF NetInv, NetTyped, NumberedOnce
    <3>2. \A y \in Nodes, z \in SessionIds : counter[y][z] <= counter'[y][z]
                                             /\ counter'[y][z] \in Nat
      BY <1>3, <1>4
    <3> QED
      BY <1>2, <1>3, <3>1, <3>2
  <2> QED
    BY <1>2, <2>2, <2>3, <2>4, <2>5 DEF NetInv, NumberedOnce
<1>8. ASSUME NEW r \in Nodes, NEW y \in Nodes, NEW z \in SessionIds
      PROVE  Late(r, z, y)' = Late(r, z, y)
  <2>1. highest[q][x][p] \in Nat /\ highest[q][x][p] <= counter[p][x]
    BY DEF NetInv, NetTyped, NumberedOnce
  <2>2. ~(m.sequence <= highest[q][x][p])
    BY <1>3, <1>5, <2>1
  <2> QED
    BY <1>2, <1>5, <2>2 DEF Late
<1>9. CountFits'
  BY <1>2, <1>8 DEF NetInv, CountFits, HeardOnly
<1> QED
  BY <1>6, <1>7, <1>9 DEF NetInv

\* Messages of one sender and session in an open range of numbers are fewer
\* than the range has.
LEMMA FewInRange ==
  ASSUME NetInv, NEW q \in Nodes, NEW s \in SessionIds, NEW G,
         NEW h \in Nat, NEW k \in Nat, h < k, G \subseteq inFlight,
         \A m \in G : m.from = q /\ m.session = s /\ h < m.sequence /\ m.sequence < k
  PROVE  /\ IsFiniteSet(G) /\ Cardinality(G) \in Nat
         /\ Cardinality(G) <= (k - h) - 1
<1> DEFINE T == (h + 1) .. (k - 1)
           f == [m \in G |-> m.sequence]
<1>1. IsFiniteSet(T) /\ Cardinality(T) <= (k - h) - 1
  <2>1. h + 1 \in Int /\ k - 1 \in Int
    OBVIOUS
  <2>2. /\ IsFiniteSet(T)
        /\ Cardinality(T) = IF h + 1 > k - 1 THEN 0 ELSE (k - 1) - (h + 1) + 1
    BY <2>1, FS_Interval
  <2> QED
    BY <2>2
<1>2. \A m \in G : m.sequence \in T
  BY DEF NetInv, NetTyped, Envelopes
<1>3. \A m, n \in G : m.sequence = n.sequence => m = n
  BY DEF NetInv, NumberedOnce
<1> HIDE DEF T
<1>4. f \in Injection(G, T)
  BY <1>2, <1>3 DEF Injection, IsInjective
<1> HIDE DEF f
<1>5. IsFiniteSet(G) /\ Cardinality(G) <= Cardinality(T)
  BY <1>1, <1>4, FS_Injection
<1>6. Cardinality(G) \in Nat /\ Cardinality(T) \in Nat
  BY <1>1, <1>5, FS_CardinalityType
<1> QED
  BY <1>1, <1>5, <1>6

\* The session that receives the message: its count grows by one at most, and
\* so many numbers become late or are received.
LEMMA ReceivedFits ==
  ASSUME NetInv, NEW m \in inFlight, Receive(m), HeardOnly(m.to, m.session, m.from)
  PROVE  sessions'[m.to][m.session].messageCount
           + Cardinality(Late(m.to, m.session, m.from)')
           <= highest'[m.to][m.session][m.from]
<1> DEFINE p == m.to
           q == m.from
           s == m.session
           k == m.sequence
           h == highest[p][s][q]
           a == sessions[p][s].messageCount
           b == sessions'[p][s].messageCount
           L == Late(p, s, q)
           M == Late(p, s, q)'
           c == Cardinality(L)
           d == Cardinality(M)
<1>1. p \in Nodes /\ q \in Nodes /\ p # q /\ s \in SessionIds /\ k \in Nat
  BY DEF NetInv, NetTyped, Envelopes
<1>2. a \in Nat /\ h \in Nat /\ a + c <= h
  BY <1>1 DEF NetInv, NetTyped, CountFits, Entry
<1>3. b \in Nat /\ b <= a + 1
  <2>1. PICK e \in Entry : e = sessions[p][s]
    BY <1>1 DEF NetInv, NetTyped
  <2>2. PICK f : f = Recorded(e, m.type)
    OBVIOUS
  <2>3. f \in Entry /\ f.messageCount <= e.messageCount + 1
    BY <2>2, EntryFacts
  <2>4. Aborted(f) \in Entry /\ Aborted(f).messageCount = f.messageCount
    BY <2>3, EntryFacts
  <2>5. sessions'[p][s] \in {f, Aborted(f)}
    BY <1>1, <2>1, <2>2 DEF Receive, SetSession, NetInv, NetTyped
  <2>6. sessions'[p][s] \in Entry /\ b = f.messageCount
    BY <2>3, <2>4, <2>5
  <2> QED
    BY <2>1, <2>3, <2>6 DEF Entry
<1>4. /\ inFlight' = inFlight \ {m}
      /\ highest'[p][s][q] = IF k > h THEN k ELSE h
  BY <1>1 DEF Receive, NetInv, NetTyped
<1>5. IsFiniteSet(L) /\ c \in Nat
  BY <1>1, LateFinite DEF NetInv
<1>6. CASE k <= h
  <2>1. highest'[p][s][q] = h
    BY <1>1, <1>2, <1>4, <1>6
  <2>2. M = L \ {m} /\ m \in L
    BY <1>4, <1>6, <2>1 DEF Late
  <2>3. d = c - 1
    BY <1>5, <2>2, FS_RemoveElement
  <2>4. b + d <= h
    <3> HIDE DEF a, b, c, d, h
    <3> QED
      BY <1>2, <1>3, <1>5, <2>3
  <2> QED
    BY <2>1, <2>4
<1>7. CASE h < k
  <2> DEFINE G == {n \in inFlight : /\ n.to = p /\ n.from = q /\ n.session = s
                                    /\ h < n.sequence /\ n.sequence < k}
             g == Cardinality(G)
  <2>1. highest'[p][s][q] = k
    BY <1>1, <1>2, <1>4, <1>7
  <2>2. M \subseteq L \cup G
    <3> SUFFICES ASSUME NEW n \in M PROVE n \in L \cup G
      OBVIOUS
    <3>1. /\ n \in inFlight /\ n # m /\ n.to = p /\ n.from = q /\ n.session = s
          /\ n.sequence <= k
      BY <1>4, <2>1 DEF Late
    <3>2. n.sequence \in Nat /\ n.sequence # k
      BY <3>1 DEF NetInv, NetTyped, NumberedOnce, Envelopes
    <3> QED
      BY <1>1, <1>2, <3>1, <3>2 DEF Late
  <2>3. IsFiniteSet(G) /\ g \in Nat /\ g <= (k - h) - 1
    <3>1. /\ G \subseteq inFlight
          /\ \A n \in G : n.from = q /\ n.session = s /\ h < n.sequence /\ n.sequence < k
      OBVIOUS
    <3> HIDE DEF G, h, k, q, s
    <3> QED
      BY <1>1, <1>2, <1>7, <3>1, FewInRange
  <2>4. d \in Nat /\ d <= c + g
    <3> HIDE DEF L, M, G
    <3>1. /\ IsFiniteSet(L \cup G)
          /\ Cardinality(L \cup G) = c + g - Cardinality(L \cap G)
      BY <1>5, <2>3, FS_Union
    <3>2. Cardinality(L \cap G) \in Nat
      <4>1. L \cap G \subseteq L
        OBVIOUS
      <4> QED
        BY <1>5, <4>1, FS_Subset, FS_CardinalityType
    <3>3. IsFiniteSet(M) /\ d <= Cardinality(L \cup G)
      BY <2>2, <3>1, FS_Subset
    <3>4. d \in Nat
      BY <3>3, FS_CardinalityType
    <3> HIDE DEF c, d, g
    <3> QED
      BY <1>5, <2>3, <3>1, <3>2, <3>3, <3>4
  <2>5. b + d <= k
    <3> HIDE DEF a, b, c, d, g, h, k
    <3> QED
      BY <1>1, <1>2, <1>3, <1>5, <1>7, <2>3, <2>4
  <2> QED
    BY <2>1, <2>5
<1> QED
  BY <1>1, <1>2, <1>6, <1>7

LEMMA ReceiveStep ==
  ASSUME NetInv, NEW m \in inFlight, Receive(m)
  PROVE  NetInv'
<1>1. /\ m.to \in Nodes /\ m.from \in Nodes /\ m.to # m.from /\ m.session \in SessionIds
      /\ m.sequence \in Nat \ {0} /\ m.sequence <= counter[m.from][m.session]
  BY DEF NetInv, NetTyped, NumberedOnce, Envelopes
<1>2. PICK k \in Nat \ {0} : k = m.sequence
  BY <1>1
<1>3. /\ inFlight' = inFlight \ {m}
      /\ UNCHANGED <<peers, counter>>
      /\ highest' = [highest EXCEPT ![m.to][m.session][m.from] = IF k > @ THEN k ELSE @]
  BY <1>2 DEF Receive
<1>4. /\ highest \in [Nodes -> [SessionIds -> [Nodes -> Nat]]]
      /\ sessions \in [Nodes -> [SessionIds -> Entry]]
  BY DEF NetInv, NetTyped
<1>5. /\ highest' \in [Nodes -> [SessionIds -> [Nodes -> Nat]]]
      /\ \A r, y \in Nodes, z \in SessionIds :
           highest'[r][z][y] =
             IF r = m.to /\ z = m.session /\ y = m.from /\ k > highest[r][z][y]
             THEN k ELSE highest[r][z][y]
  BY <1>1, <1>3, <1>4
<1>6. PICK f \in Entry : sessions' = [sessions EXCEPT ![m.to][m.session] = f]
  <2>1. PICK e \in Entry : e = sessions[m.to][m.session]
    BY <1>1, <1>4
  <2>2. PICK u \in Entry : u = Recorded(e, m.type)
    BY EntryFacts
  <2>3. PICK v \in Entry : v = Aborted(u)
    BY EntryFacts
  <2>4. \/ sessions' = [sessions EXCEPT ![m.to][m.session] = u]
        \/ sessions' = [sessions EXCEPT ![m.to][m.session] = v]
    BY <2>1, <2>2, <2>3 DEF Receive, SetSession
  <2> QED
    BY <2>4
<1>7. /\ sessions' \in [Nodes -> [SessionIds -> Entry]]
      /\ \A r \in Nodes, z \in SessionIds :
           r # m.to \/ z # m.session => sessions'[r][z] = sessions[r][z]
  BY <1>1, <1>4, <1>6
<1>8. NetTyped'
  <2>1. IsFiniteSet(inFlight')
    BY <1>3, FS_RemoveElement DEF NetInv, NetTyped
  <2> QED
    BY <1>3, <1>5, <1>7, <2>1 DEF NetInv, NetTyped
<1>9. NumberedOnce'
  <2>1. \A r, y \in Nodes, z \in SessionIds : highest'[r][z][y] <= counter'[y][z]
    BY <1>1, <1>2, <1>3, <1>5 DEF NetInv, NumberedOnce
  <2> QED
    BY <1>3, <2>1 DEF NetInv, NumberedOnce
<1>10. CountFits'
  <2> SUFFICES ASSUME NEW p \in Nodes, NEW q \in Nodes, NEW s \in SessionIds, p # q,
                      HeardOnly(p, s, q)'
               PROVE  sessions'[p][s].messageCount + Cardinality(Late(p, s, q)')
                        <= highest'[p][s][q]
    BY DEF CountFits
  <2>1. CASE p = m.to /\ s = m.session
    <3>1. highest'[p][s][m.from] # 0
      <4>1. highest[p][s][m.from] \in Nat
        BY <1>1, <1>4
      <4>2. \A h \in Nat : (IF k > h THEN k ELSE h) # 0
        OBVIOUS
      <4>3. highest'[p][s][m.from] =
              IF k > highest[p][s][m.from] THEN k ELSE highest[p][s][m.from]
        BY <1>1, <1>5, <2>1
      <4> QED
        BY <4>1, <4>2, <4>3
    <3>2. q = m.from
      BY <1>1, <3>1 DEF HeardOnly
    <3>3. HeardOnly(p, s, q)
      BY <1>5, <3>2 DEF HeardOnly
    <3> QED
      BY <2>1, <3>2, <3>3, ReceivedFits
  <2>2. CASE ~(p = m.to /\ s = m.session)
    <3> DEFINE a == sessions[p][s].messageCount
               b == Cardinality(Late(p, s, q)')
               c == Cardinality(Late(p, s, q))
               h == highest[p][s][q]
    <3>1. sessions'[p][s] = sessions[p][s] /\ highest'[p][s][q] = h
      BY <1>5, <1>7, <2>2
    <3>2. Late(p, s, q)' \subseteq Late(p, s, q)
      BY <1>3, <3>1 DEF Late
    <3>3. a \in Nat /\ c \in Nat /\ h \in Nat /\ a + c <= h
      <4>1. HeardOnly(p, s, q)
        BY <1>5, <2>2 DEF HeardOnly
      <4> QED
        BY <4>1, LateFinite DEF NetInv, NetTyped, CountFits, Entry
    <3>4. b \in Nat /\ b <= c
      BY <3>2, LateFinite, FS_Subset, FS_CardinalityType DEF NetInv
    <3>5. a + b <= h
      <4> HIDE DEF a, b, c, h
      <4> QED
        BY <3>3, <3>4
    <3> QED
      BY <3>1, <3>5
  <2> QED
    BY <2>1, <2>2
<1> QED
  BY <1>8, <1>9, <1>10 DEF NetInv

LEMMA NetNext == NetInv /\ [Next]_vars => NetInv'
<1> SUFFICES ASSUME NetInv, [Next]_vars PROVE NetInv'
  OBVIOUS
<1>1. ASSUME NEW p \in Nodes, NEW q \in Nodes, NEW t \in Types, NEW s \in SessionIds,
             Send(p, q, t, s)
      PROVE  NetInv'
  BY <1>1, SendStep
<1>2. ASSUME NEW p \in Nodes, NEW q \in Nodes,
             Disconnect(p, q) \/ Connect(p, q) \/ Destroy(p)
      PROVE  NetInv'
  BY <1>2, NetworkSteps
<1>3. ASSUME NEW m \in inFlight, Receive(m) PROVE NetInv'
  BY <1>3, ReceiveStep
<1>4. ASSUME NEW m \in inFlight, Vanish(m) PROVE NetInv'
  <2>1. m.to \in Nodes
    BY DEF NetInv, NetTyped, Envelopes
  <2> QED
    BY <1>4, <2>1, NetworkSteps
<1>5. ASSUME NEW p \in Nodes, NEW s \in SessionIds,
             Create(p, s) \/ Abort(p, s) \/ Idle(p, s) \/ TimerFires(p, s)
      PROVE  NetInv'
  BY <1>5, SessionSteps
<1>6. ASSUME NEW p \in Nodes, Cleanup(p) \/ DestroySessions(p) PROVE NetInv'
  BY <1>6, SessionsEnd
<1>7. CASE UNCHANGED vars
  <2>1. UNCHANGED <<counter, sessions, highest, peers, inFlight>>
    BY <1>7 DEF vars, netVars
  <2> QED
    BY <2>1, LessOnItsWay DEF NetInv, NetTyped
<1> QED
  BY <1>1, <1>2, <1>3, <1>4, <1>5, <1>6, <1>7 DEF Next

\* "Out-of-order message (... verify at app layer)", where one other party was
\* heard in the session: whatever is aborted, times out, disconnects or is
\* destroyed, there or elsewhere, a message is kept from the handlers only if a
\* later one of its sender came before it.
THEOREM PairMessagesHandled == Spec => PairHandled
<1> DEFINE kept == \A m \in inFlight \ inFlight' :
                     InOrder(m) /\ HeardOnly(m.to, m.session, m.from) => handled'
<1>1. NetInv /\ [Next]_vars => [kept]_vars
  <2> SUFFICES ASSUME NetInv, Next, NEW m \in inFlight \ inFlight', InOrder(m),
                      HeardOnly(m.to, m.session, m.from)
               PROVE  handled'
    OBVIOUS
  <2>1. PICK n \in inFlight : Receive(n) \/ Vanish(n)
    BY DEF Next, Send, Disconnect, Connect, Destroy, Create, Abort, Idle, TimerFires,
           Cleanup, DestroySessions, netVars
  <2>2. inFlight' = inFlight \ {n}
    BY <2>1 DEF Receive, Vanish
  <2>3. n = m
    BY <2>2
  <2>4. Receive(m) /\ m.sequence > highest[m.to][m.session][m.from]
    BY <2>1, <2>3 DEF Vanish, InOrder
  <2>5. /\ m.to \in Nodes /\ m.from \in Nodes /\ m.to # m.from /\ m.session \in SessionIds
        /\ m.sequence \in Nat
    BY DEF NetInv, NetTyped, Envelopes
  <2>6. PICK e \in Entry : e = sessions[m.to][m.session]
    BY <2>5 DEF NetInv, NetTyped
  <2>7. PICK f \in Entry : f = Recorded(e, m.type) /\ f.messageCount <= e.messageCount + 1
    BY EntryFacts
  <2>8. ~(m.sequence < f.messageCount)
    <3>1. /\ e.messageCount \in Nat /\ f.messageCount \in Nat
          /\ highest[m.to][m.session][m.from] \in Nat
      BY <2>5 DEF NetInv, NetTyped, Entry
    <3>2. e.messageCount + Cardinality(Late(m.to, m.session, m.from))
            <= highest[m.to][m.session][m.from]
      BY <2>5, <2>6 DEF NetInv, CountFits
    <3>3. Cardinality(Late(m.to, m.session, m.from)) \in Nat
      BY <2>5, LateFinite DEF NetInv
    <3> QED
      BY <2>4, <2>5, <2>7, <3>1, <3>2, <3>3
  <2> QED
    BY <2>4, <2>6, <2>7, <2>8 DEF Receive, OutOfOrder
<1>2. NetInv /\ [Next]_vars => NetInv'
  BY NetNext
<1>3. Spec => []NetInv
  BY <1>2, NetInit, PTL DEF Spec
<1> QED
  BY <1>1, <1>3, PTL DEF Spec, PairHandled

-----------------------------------------------------------------------------
(* The timers of the sessions, with any number of nodes.                   *)

\* An entry from which only the timer's callback is missing to end it.
TimedEntries == {e \in Entry : Live(e) => e.timer}

TimersRun ==
  /\ sessions \in [Nodes -> [SessionIds -> TimedEntries]]
  /\ \A m \in inFlight : m.to \in Nodes /\ m.session \in SessionIds

LEMMA AlwaysTimed ==
  ASSUME NEW e \in TimedEntries
  PROVE  /\ \A t : Recorded(e, t) \in TimedEntries
         /\ Aborted(e) \in TimedEntries /\ TimedOut(e) \in TimedEntries
         /\ OnRecord(e) => Idled(e) \in TimedEntries
         /\ Created \in TimedEntries /\ Absent \in TimedEntries
<1>1. e \in Entry /\ (Live(e) => e.timer)
  BY DEF TimedEntries
<1>2. \A t : Recorded(e, t) \in TimedEntries
  <2> TAKE t
  <2>1. Recorded(e, t) \in Entry
    BY <1>1, EntryFacts
  <2>2. CASE OnRecord(e)
    <3>1. Recorded(e, t).timer
      BY <2>2 DEF Recorded
    <3> QED
      BY <2>1, <3>1 DEF TimedEntries
  <2>3. CASE ~OnRecord(e)
    BY <2>3 DEF Recorded
  <2> QED
    BY <2>2, <2>3
<1>3. Aborted(e) \in TimedEntries
  <2>1. Aborted(e) \in Entry
    BY <1>1, EntryFacts
  <2>2. CASE OnRecord(e)
    <3>1. Aborted(e).state = "aborted"
      BY <1>1, <2>2 DEF Aborted, Entry
    <3> QED
      BY <2>1, <3>1 DEF TimedEntries, Live, Terminal
  <2>3. CASE ~OnRecord(e)
    BY <2>3 DEF Aborted
  <2> QED
    BY <2>2, <2>3
<1>4. TimedOut(e) \in TimedEntries
  <2>1. TimedOut(e) \in Entry
    BY <1>1, EntryFacts
  <2>2. TimedOut(e).state \in {"dkg_complete", "sign_complete", "aborted", "timed_out"}
    BY <1>1 DEF TimedOut, Entry
  <2>3. TimedOut(e).state \in Terminal
    BY <2>2 DEF Terminal
  <2> QED
    BY <2>1, <2>3 DEF TimedEntries, Live
<1>5. ASSUME OnRecord(e) PROVE Idled(e) \in TimedEntries
  <2>1. Idled(e) \in Entry
    BY <1>1, EntryFacts
  <2>2. Idled(e).state = e.state /\ Idled(e).timer = e.timer
    BY <1>1 DEF Idled, Entry
  <2> QED
    BY <1>1, <1>5, <2>1, <2>2 DEF TimedEntries, Live
<1>6. Created \in TimedEntries /\ Absent \in TimedEntries
  <2>1. Created \in Entry /\ Absent \in Entry
    BY <1>1, EntryFacts
  <2>2. Created.timer /\ ~Live(Absent)
    BY DEF Created, Live, OnRecord
  <2> QED
    BY <2>1, <2>2 DEF TimedEntries
<1> QED
  BY <1>2, <1>3, <1>4, <1>5, <1>6

\* The sessions after a step of one of them.
LEMMA OneSessionTimed ==
  ASSUME TimersRun, NEW p \in Nodes, NEW s \in SessionIds, NEW e \in TimedEntries,
         SetSession(p, s, e), inFlight' \subseteq inFlight
  PROVE  TimersRun'
<1>1. sessions' \in [Nodes -> [SessionIds -> TimedEntries]]
  BY DEF TimersRun, SetSession
<1> QED
  BY <1>1 DEF TimersRun

LEMMA TimersNext == TimersRun /\ [Next]_vars => TimersRun'
<1> SUFFICES ASSUME TimersRun, [Next]_vars PROVE TimersRun'
  OBVIOUS
<1>1. ASSUME NEW p \in Nodes, NEW q \in Nodes, NEW t \in Types, NEW s \in SessionIds,
             Send(p, q, t, s)
      PROVE  TimersRun'
  BY <1>1 DEF TimersRun, Send
<1>2. ASSUME NEW p \in Nodes, NEW q \in Nodes,
             Disconnect(p, q) \/ Connect(p, q) \/ Destroy(p)
      PROVE  TimersRun'
  BY <1>2 DEF TimersRun, Disconnect, Connect, Destroy
<1>3. ASSUME NEW m \in inFlight, Receive(m) PROVE TimersRun'
  <2>1. m.to \in Nodes /\ m.session \in SessionIds
    BY DEF TimersRun
  <2>2. PICK e \in TimedEntries : e = sessions[m.to][m.session]
    BY <2>1 DEF TimersRun
  <2>3. PICK f \in TimedEntries : f = Recorded(e, m.type)
    BY AlwaysTimed
  <2>4. Aborted(f) \in TimedEntries
    BY AlwaysTimed
  <2>5. PICK g \in TimedEntries : g = IF m.type = "ABORT" THEN Aborted(f) ELSE f
    BY <2>4
  <2>6. SetSession(m.to, m.session, g) /\ inFlight' = inFlight \ {m}
    BY <1>3, <2>2, <2>3, <2>5 DEF Receive
  <2> QED
    BY <2>1, <2>6, OneSessionTimed
<1>4. ASSUME NEW m \in inFlight, Vanish(m) PROVE TimersRun'
  BY <1>4 DEF TimersRun, Vanish
<1>5. ASSUME NEW p \in Nodes, NEW s \in SessionIds,
             Create(p, s) \/ Abort(p, s) \/ Idle(p, s) \/ TimerFires(p, s)
      PROVE  TimersRun'
  <2>1. PICK e \in TimedEntries : e = sessions[p][s]
    BY DEF TimersRun
  <2>2. inFlight' \subseteq inFlight
    BY <1>5 DEF Create, Abort, Idle, TimerFires, netVars
  <2>3. \/ SetSession(p, s, Created)
        \/ SetSession(p, s, Aborted(e))
        \/ OnRecord(e) /\ SetSession(p, s, Idled(e))
        \/ SetSession(p, s, TimedOut(e))
    BY <1>5, <2>1 DEF Create, Abort, Idle, TimerFires, Idled
  <2>4. PICK f \in TimedEntries : SetSession(p, s, f)
    BY <2>3, AlwaysTimed
  <2> QED
    BY <2>2, <2>4, OneSessionTimed
<1>6. ASSUME NEW p \in Nodes, Cleanup(p) \/ DestroySessions(p) PROVE TimersRun'
  <2>1. Absent \in TimedEntries
    <3>1. Absent \in Entry /\ ~Live(Absent)
      BY DEF Entry, Absent, Live, OnRecord
    <3> QED
      BY <3>1 DEF TimedEntries
  <2>2. inFlight' = inFlight
    BY <1>6 DEF Cleanup, DestroySessions, netVars
  <2>3. sessions' \in [Nodes -> [SessionIds -> TimedEntries]]
    BY <1>6, <2>1 DEF TimersRun, Cleanup, DestroySessions
  <2> QED
    BY <2>2, <2>3 DEF TimersRun
<1>7. CASE UNCHANGED vars
  BY <1>7 DEF vars, netVars, TimersRun
<1> QED
  BY <1>1, <1>2, <1>3, <1>4, <1>5, <1>6, <1>7 DEF Next

\* No session is under way without a timer, whatever messages revive it after it
\* was over: with the timer's callback that ends every session, what
\* EverySessionEnds rests on, for any nodes, sessions and messages.
THEOREM LiveSessionsAreTimed ==
  Spec => [](\A p \in Nodes, s \in SessionIds :
               Live(sessions[p][s]) => /\ sessions[p][s].timer
                                       /\ ~Live(TimedOut(sessions[p][s])))
<1> DEFINE timed == \A p \in Nodes, s \in SessionIds :
                      Live(sessions[p][s]) => /\ sessions[p][s].timer
                                              /\ ~Live(TimedOut(sessions[p][s]))
<1>1. Init => TimersRun
  <2>1. Absent \in Entry /\ ~Live(Absent)
    BY DEF Entry, Absent, Live, OnRecord
  <2>2. Absent \in TimedEntries
    BY <2>1 DEF TimedEntries
  <2> QED
    BY <2>2 DEF Init, TimersRun
<1>2. TimersRun => timed
  <2> SUFFICES ASSUME TimersRun, NEW p \in Nodes, NEW s \in SessionIds,
                      Live(sessions[p][s])
               PROVE  /\ sessions[p][s].timer
                      /\ ~Live(TimedOut(sessions[p][s]))
    OBVIOUS
  <2>1. PICK e \in TimedEntries : e = sessions[p][s]
    BY DEF TimersRun
  <2>2. e \in Entry /\ e.timer
    BY <2>1 DEF TimedEntries
  <2>3. TimedOut(e).state \in {"dkg_complete", "sign_complete", "aborted", "timed_out"}
    BY <2>2 DEF TimedOut, Entry
  <2>4. ~Live(TimedOut(e))
    BY <2>3 DEF Live, Terminal
  <2> QED
    BY <2>1, <2>2, <2>4
<1> QED
  BY <1>1, <1>2, TimersNext, PTL DEF Spec
=============================================================================
