CONSTANTS
  Guardians = {g1, g2, g3}
  Threshold = 2
  TimeLock = 1
  Expiry = 2
  MaxTime = 4
  MaxRequests = 2
  Cancelable = TRUE
SPECIFICATION Spec
PROPERTY ExpiredIsRejected
