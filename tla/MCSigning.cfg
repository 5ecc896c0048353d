CONSTANTS
  Wallets = {w1, w2}
  Requests = {r1, r2, r3, r4}
  None = None
  MaxQueueDepth = 2
  RateLimitMax = 2
SPECIFICATION SigningSpec
INVARIANTS PendingHeldOnce ActiveCountBounded CallsAccounted ErrorsStayOnWallet ServiceLeavesNoLock
PROPERTIES ImplementsWalletLine ManagerAnswers ServiceIsTold
