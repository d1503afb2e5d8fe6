SPECIFICATION Spec
CONSTANTS
  Sessions = {s1, s2}
  HasDevice = TRUE
  MaxMessages = 2
  MaxRequests = 2
INVARIANTS
  TypeOK
  NewestIsLast
  UnreadHasCause
CHECK_DEADLOCK FALSE
