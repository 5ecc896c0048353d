CONSTANTS
  Parties = {1, 2, 3}
  PeerUris <- Uris
  MaxMissed = 1
  MaxBoots = 2
  MaxSockets <- TwoEach
SPECIFICATION SpecUnharmed
PROPERTY KeepsRunning
CHECK_DEADLOCK FALSE
