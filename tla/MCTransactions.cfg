CONSTANTS
  Keys = {k1, k2}
  Addresses = {a1, a2, a3}
  Generated = {a1, a2}
  Calls = {c1, c2}
  MaxActiveKeys = 1
  MaxCalls = 3
  Txs = {t1}
  Delegations = {d1}
  Lifetime = 2
  Buffer = 1
  MaxTime = 5
  None = None
SYMMETRY Symmetry
SPECIFICATION Spec
INVARIANTS OneProvisionedWallet DelegationRemembered RecordFromChain
CHECK_DEADLOCK FALSE
