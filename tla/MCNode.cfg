CONSTANTS
  \* SigningCeremony
  Prime = 11
  Parties = {1, 2, 3}
  Polynomials <- Lines
  Noise = {0, 4}
  MaxStarts = 2
  None = None
  Garbled = Garbled
  Nonces = {2, 5}
  Hashes = {6}
  XCoord <- XOf
  YOdd <- Parity
  \* SocialRecovery
  Guardians = {g1, g2, g3}
  Threshold = 2
  TimeLock = 1
  Expiry = 2
  MaxTime = 4
  MaxRequests = 2
  Cancelable = TRUE
  \* ShareCustody
  Shares = {s1, s2}
  MaxAuditEntries = 2
  MaxKeys = 3
  MaxEvents = 4
  \* ShareRecovery
  Wallets = {w1, w2}
  Salts = {salt1, salt2}
  Phrases = {zero, p1}
  ZeroPhrase = zero
  MaxBundleAge = 1
  LastDay = 2
  \* SigningRequests
  RetryKeys = {k1}
  MaxCalls = 4
  RateLimitMax = 2
  RateLimitWindow = 1
  IdempotencyWindow = 1
  MaxLogged = 2
  MaxClock = 3
  \* MCEncodings
  Refused = Refused
  FieldPrime = 43
  CurveOrder = 31
  BaseX = 2
  BaseY = 12
  CurveKeys = {1, 2, 7, 15, 22, 30}
  CurveNonces = {1, 3, 4, 11, 16, 25, 29}
  CurveHashes = {1, 2, 14, 30}
  ShareBytes = 2
  ShareOrder = 40009
  PrimeBits = 4
  Plaintexts = {0, 1, 12, 141}
  Randoms = {2, 11, 50, 142}
SPECIFICATION NodeSpec
SYMMETRY GuardianSymmetry
CONSTRAINTS NestedTwice WithWholeShares
INVARIANTS ReceivedVerified SharesReconstruct SignatureVerifies ApprovalsAgree EnvelopeOutlivesRotation FreshBundleServed RetryAnswered ReadersAgree
PROPERTIES LockCoversEveryApproval CancelHolds
CHECK_DEADLOCK FALSE
