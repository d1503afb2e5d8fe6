SPECIFICATION Spec
CONSTANTS
  Texts = {t1, t2}
  OtherTexts = {t2, t3}
  Empty = empty
  None = none
  MaxEdits = 2
  MaxFailures = 1
  MaxReconnects = 1
  MaxOthers = 1
  MaxTime = 3
PROPERTY DeferredSaveIsSent
CHECK_DEADLOCK FALSE
