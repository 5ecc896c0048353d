CONSTANTS
  \* Transport
  Nodes = {1, 2, 3}
  SessionIds = {s1}
  Types = {"DKG_ROUND_1", "ABORT"}
  MaxSequence <- FirstTwoSend
  \* ShareSync
  SyncNodes = {1, 2}
  SyncedWallets = {wallet1, wallet2}
  MaxVersion = 2
  MaxEntries = 2
  MaxConsistencyFailures = 2
  MaxRestarts = 1
  MaxLosses = 1
  MaxInFlight = 1
  \* SigningCoordinator
  Parties = {1, 2, 3}
  Scores = {1, 2}
  Wallets = {w1}
  Timeout = 0
  MaxAttempts = 3
  MaxTime = 1
  MaxCeremonies = 1
  MaxDown = 1
SPECIFICATION NetworkSpec
CONSTRAINTS FewFaults SmallGossip AlikeInCeremony
INVARIANTS SelectionsAreBest FallbackKept
PROPERTIES EverySessionEnds PairHandled LostShareReported AgreementEndsAlarms
CHECK_DEADLOCK FALSE
