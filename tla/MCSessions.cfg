CONSTANTS
  Users = {u1}
  Tokens = {t1, t2, t3}
  States = {s1}
  Providers = {p1, p2}
  Calls = {c1, c2}
  MaxLogins = 1
  MaxSwitches = 1
  None = None
CONSTRAINT FewTokensAndRevocations
SYMMETRY Symmetry
SPECIFICATION Spec
INVARIANTS ExchangedOnce LiveTokenHasRow LogoutReachesAll
PROPERTIES HandedInNotExchanged
CHECK_DEADLOCK FALSE
