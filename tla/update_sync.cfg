SPECIFICATION Spec
CONSTANTS
  Keys = {k1}
  MaxCalls = 2
  MaxFaults = 1
  Kinds = {"user", "own", "target", "self"}
  StaleRestarts = TRUE
INVARIANTS
  TypeOK
  ServerNeverAhead
  Redownloadable
PROPERTY CheckpointNeverBackwards
