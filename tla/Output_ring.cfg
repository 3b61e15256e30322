\* Characters of one or two bytes, a ring of three bytes that wraps, a catch-up of
\* two at a time, and a second Runtime once the first has produced up to two bytes.
SPECIFICATION PaneSpec
CONSTANTS
  Readers = {p}
  Pane = p
  Capacity = 3
  MinRead = 2
  CharLen = 2
  MaxPush = 2
  ReadSizes = {1, 4}
  MaxOut = 4
  HighWater = 2
  LowWater = 1
  MaxRuntimes = 2
  MaxBefore = 2
  MaxTransit = 2
CHECK_DEADLOCK FALSE
INVARIANT ReadKeepsPromise
INVARIANT PaneShowsAll
PROPERTY PauseLifted
