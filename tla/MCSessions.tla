----------------------------- MODULE MCSessions -----------------------------
(***************************************************************************)
(* Instance of Sessions: one user who logs in once, by a provider or by a  *)
(* magic link, and two calls at a time that refresh or revoke what the     *)
(* login gave, over three tokens, so that a pair can be exchanged twice;   *)
(* Redis is there or not at the start, and comes or goes once.             *)
(***************************************************************************)
EXTENDS Sessions, TLC

Revoking(c) == call[c].pc \in {"unset", "forget", "list", "revoking"}

\* Bound: three tokens with one revocation at a time or two tokens with two; one
\* less of either while the map is or was in use.
FewTokensAndRevocations ==
  Cardinality({t \in Tokens : issuedTo[t] # None}) + Cardinality({c \in Calls : Revoking(c)})
    <= IF ready /\ switches = 0 THEN 4 ELSE 3

Symmetry ==
  Permutations(Tokens) \cup Permutations(Calls) \cup Permutations(Users) \cup Permutations(Providers)
=============================================================================
