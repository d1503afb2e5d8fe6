SPECIFICATION FairSpec
CONSTANTS
  Threads = {t1, t2}
  Singles = {me}
  MaxWrites = 3
  MaxFaults = 2
INVARIANTS
  TypeOK
  CheckHasNextStep
  OneCheckAtATime
PROPERTIES
  OneCheckRepairsAll
  EventuallyInSync
CHECK_DEADLOCK FALSE
