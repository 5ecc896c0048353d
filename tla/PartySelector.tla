---------------------------- MODULE PartySelector ----------------------------
(***************************************************************************)
(* The PartySelector (apps/mpc/src/topology/selector.ts): which parties    *)
(* take part in a signing ceremony, by the health the node last heard of.  *)
(*                                                                         *)
(* `nodes' is healthMap in insertion order, which is the order the stable  *)
(* sort leaves nodes of equal score in.  A health entry keeps what the     *)
(* selection reads: `ready' (eligible and online), `measured' (latencyMs   *)
(* is not negative) and, when it is both, the score of computeScore().     *)
(***************************************************************************)
EXTENDS Naturals, Sequences, FiniteSets, SequencesExt

CONSTANTS
  Parties,   \* party numbers, from 1
  Scores     \* what computeScore() may return, in order

ASSUME SelectorAssumption == Parties \subseteq Nat \ {0} /\ Scores \subseteq Nat

VARIABLE nodes   \* healthMap: [party, health] in insertion order

NoParty == 0     \* null

\* No score is computed for a node that is not ready, or not measured.
Healths ==
  {[ready |-> TRUE, measured |-> TRUE, score |-> s] : s \in Scores} \cup
  {[ready |-> FALSE, measured |-> TRUE, score |-> 0],
   [ready |-> TRUE, measured |-> FALSE, score |-> 0]}

\* The element of S that k - 1 others precede.
Nth(S, Precedes(_, _), k) ==
  CHOOSE i \in S : Cardinality({j \in S : Precedes(j, i)}) = k - 1

\* filter(): the elements of s other than x, in their order.
Without(s, x) ==
  LET kept == {i \in DOMAIN s : s[i] # x}
  IN  [k \in 1..Cardinality(kept) |-> s[Nth(kept, <, k)]]

IndexOf(p) == {i \in DOMAIN nodes : nodes[i].party = p}

-----------------------------------------------------------------------------

\* Map.set() leaves a known party in its place and appends a new one.
UpdateHealth(p, h) ==
  nodes' = IF IndexOf(p) = {} THEN Append(nodes, [party |-> p, health |-> h])
           ELSE [i \in DOMAIN nodes |->
                   IF i \in IndexOf(p) THEN [party |-> p, health |-> h] ELSE nodes[i]]

\* Map.delete().
RemoveNode(p) ==
  nodes' = IF IndexOf(p) = {} THEN nodes
           ELSE RemoveAt(nodes, CHOOSE i \in IndexOf(p) : TRUE)

\* The positions of the nodes that select() may take.
Eligible == {i \in DOMAIN nodes : nodes[i].health.ready /\ nodes[i].health.measured}

\* Mutant: the nodes are sorted in descending order.
BeforeDescending(i, j) ==
  \/ nodes[i].health.score > nodes[j].health.score
  \/ nodes[i].health.score = nodes[j].health.score /\ i < j

\* Lower score first; the sort is stable.
Before(i, j) ==
  \/ nodes[i].health.score < nodes[j].health.score
  \/ nodes[i].health.score = nodes[j].health.score /\ i < j

NoSelection == [selected |-> <<>>, fallback |-> NoParty]

\* select(required) without criteria: the best, and the next best as fallback.
Select(required) ==
  LET found == Cardinality(Eligible)
      party(k) == nodes[Nth(Eligible, Before, k)].party
  IN  IF found < required THEN NoSelection
      ELSE [selected |-> [k \in 1..required |-> party(k)],
            fallback |-> IF found > required THEN party(required + 1) ELSE NoParty]

IsReady(p) == \E i \in IndexOf(p) : nodes[i].health.ready

\* selectWithCoordinator(c): c and the best node, or c and the next best when c
\* is the best; then c itself is returned as the fallback.
SelectWithCoordinator(c) ==
  LET best == Select(1)
  IN  IF ~IsReady(c) \/ best.selected = <<>> THEN NoSelection
      ELSE IF best.selected[1] # c
      THEN [selected |-> <<c, best.selected[1]>>,
            fallback |-> IF best.fallback = c THEN NoParty ELSE best.fallback]
      ELSE IF best.fallback # NoParty
      THEN [selected |-> <<c, best.fallback>>, fallback |-> c]
      ELSE NoSelection

-----------------------------------------------------------------------------
(* Properties: what the selection should be, stated without sorting.       *)

Usable == {n \in ToSet(nodes) : n.health.ready /\ n.health.measured}
Score(p) == (CHOOSE n \in ToSet(nodes) : n.party = p).health.score

\* select(2) finds two parties whenever two are usable, and then no usable
\* party it passes over has a lower score than one it takes; the fallback is
\* the best of those it passes over, and there is one if anyone is left.
SelectionIsBest ==
  LET sel == Select(2)
      taken == ToSet(sel.selected)
      rest == {n.party : n \in Usable} \ taken
  IN  IF Cardinality(Usable) < 2 THEN sel = NoSelection
      ELSE /\ Len(sel.selected) = 2 /\ Cardinality(taken) = 2
           /\ taken \subseteq {n.party : n \in Usable}
           /\ \A p \in taken, q \in rest : Score(p) <= Score(q)
           /\ IF rest = {} THEN sel.fallback = NoParty
              ELSE /\ sel.fallback \in rest
                   /\ \A q \in rest : Score(sel.fallback) <= Score(q)

\* selectWithCoordinator(c) pairs a ready c with the best usable party other
\* than c, and gives up only when there is none.
PartnerIsBest ==
  \A c \in Parties :
    LET sel == SelectWithCoordinator(c)
        others == {n.party : n \in Usable} \ {c}
    IN  IF ~IsReady(c) \/ others = {} THEN sel = NoSelection
        ELSE /\ Len(sel.selected) = 2
             /\ sel.selected[1] = c
             /\ sel.selected[2] \in others
             /\ \A q \in others : Score(sel.selected[2]) <= Score(q)

\* Selection and the choice of a partner take the best of the parties that
\* qualify, whatever the order of the health entries.
SelectionsAreBest == SelectionIsBest /\ PartnerIsBest
=============================================================================
