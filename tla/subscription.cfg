SPECIFICATION Spec
CONSTANTS
  MaxSockets = 6
  MaxLosses = 1
  MaxRequests = 2
  MaxFailures = 1
INVARIANTS
  TypeOK
  OpenIsSubscribed
PROPERTY EventuallyServed
CHECK_DEADLOCK FALSE
