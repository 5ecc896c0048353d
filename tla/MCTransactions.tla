--------------------------- MODULE MCTransactions ---------------------------
(***************************************************************************)
(* Instance of Transactions with the rows of Provisioning: a developer     *)
(* with one active key at most, two addresses for generated keys and one   *)
(* for a registered wallet.                                                *)
(***************************************************************************)
EXTENDS Transactions, TLC

Symmetry == Permutations(Keys) \cup Permutations(Generated) \cup Permutations(Calls)
              \cup Permutations(Txs) \cup Permutations(Delegations)
=============================================================================
