SPECIFICATION Spec
CONSTANTS
  Keys = {k1}
  MaxCalls = 2
  MaxFaults = 3
  Kinds = {"user"}
  StaleRestarts = TRUE
INVARIANT ContinuedSessionIsComplete
