\* A client closes the Runtime while it is still connecting.
SPECIFICATION Spec
CONSTANTS
  Closers = {c1}
  Flows = {}
  Writers = {}
  Sizes = {small}
  DefaultSize = default
  MaxData = 0
  MaxCalls = 0
  CloseEarly = TRUE
  NONE = NONE
CHECK_DEADLOCK FALSE
PROPERTY EndedStaysEnded
