SPECIFICATION Spec
CONSTANTS
  Users = {a, b}
  NoUser = NoUser
  Gone = Gone
  Others = {c, d}
  MaxCookies = 6
  MaxCalls = 3
  MaxInvalidations = 1
INVARIANTS
  TypeOK
  OneRecovery
  CookieIsUsers
PROPERTIES
  ValidSessionSurvives
  LogOutStays
  CallsSettle
CHECK_DEADLOCK FALSE
