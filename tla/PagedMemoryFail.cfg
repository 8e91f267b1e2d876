SPECIFICATION PagedSpec
CONSTANTS
  NFrames = 2
  NPages = 3
  PageSize = 1
  Value = {0, 1}
  Zero = 0
  MaxAccess = 2
  IOMayFail = TRUE
INVARIANTS
  PagedTypeOK
  Containment
  DestroyFlushes
  AnswersRight
CHECK_DEADLOCK FALSE
