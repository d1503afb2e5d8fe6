SPECIFICATION Spec
CONSTANTS
  MaxUser = 4
  MaxFaults = 4
INVARIANTS
  TypeOK
  NothingForgotten
PROPERTIES
  ImplementsConnection
  EventuallyConnected
CHECK_DEADLOCK FALSE
