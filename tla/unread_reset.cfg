SPECIFICATION Spec
CONSTANTS
  Sessions = {s1}
  HasDevice = TRUE
  MaxMessages = 1
  MaxRequests = 2
INVARIANT ResetIsUnread
CHECK_DEADLOCK FALSE
