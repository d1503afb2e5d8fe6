SPECIFICATION FairQuietSpec
CONSTANTS
  Keys = {k1, k2}
  MaxCalls = 3
  MaxFaults = 1
  Kinds = {"user"}
  StaleRestarts = FALSE
INVARIANTS
  IgnoredStayAboveCheckpoint
  NothingMissed
PROPERTY EventuallyInSync
