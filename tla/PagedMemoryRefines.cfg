SPECIFICATION PagedSpec
CONSTANTS
  NFrames = 2
  NPages = 3
  PageSize = 1
  Value = {0, 1}
  Zero = 0
  MaxAccess = 3
  IOMayFail = FALSE
PROPERTY
  ImplementsFlat
CHECK_DEADLOCK FALSE
