CONSTANTS
  Parties = {1, 2, 3}
  PeerUris <- Uris
  MaxMissed = 1
  MaxBoots = 2
  MaxSockets <- TwoEach
SPECIFICATION Spec
CONSTRAINT TwoBeats
INVARIANTS DialedOnRecord HealthFollowsSocket NeverGivesUp
\* The bounds let every process be killed as often as it may be started.
CHECK_DEADLOCK FALSE
