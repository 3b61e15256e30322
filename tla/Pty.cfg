\* A write, two resizes, flow control, a close and the exit of a shell, with and
\* without an OS resize that waits, a drain timeout and surviving descendants.
SPECIFICATION FairSpec
CONSTANTS
  Writers = {w1}
  Resizers = {r1, r2}
  Sizes = {small, large}
  StartSize = small
  OutputCap = 1
  InputCap = 1
  Platforms = {"unix", "conpty", "wsl"}
  MaxOut = 3
  MaxCalls = 2
  NONE = NONE
CHECK_DEADLOCK FALSE
INVARIANTS ExitCoversOutput ExitIsLast ScreenMatchesPty
PROPERTY ExitReported
