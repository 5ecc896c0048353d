CONSTANTS
  Wallets = {w1, w2}
  Requests = {r1, r2, r3, r4}
  None = None
  MaxQueueDepth = 1
  RateLimitMax = 2
SPECIFICATION FairServiceSpec
PROPERTY SignReturns
