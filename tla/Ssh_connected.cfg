\* A connect with its questions, then closes, flow changes, resizes, a write and the
\* end of the shell.
SPECIFICATION FairSpec
CONSTANTS
  Closers = {c1, c2}
  Flows = {f1}
  Writers = {w1}
  Sizes = {small}
  DefaultSize = default
  MaxData = 1
  MaxCalls = 2
  CloseEarly = FALSE
  NONE = NONE
CHECK_DEADLOCK FALSE
INVARIANTS ClosedMeansClosed NaturalExitIsComplete SizeReached
PROPERTY EndReported
