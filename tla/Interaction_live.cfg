\* One interaction is waited for again and again while its Runtime produces more output
\* than the budget and the ring hold, in chunks smaller than the budget, and desktop
\* input takes over.
SPECIFICATION FairSpec
CONSTANTS
  c1 = c1  c2 = c2
  Calls = {c1, c2}
  Owners = {agent}
  Runtimes = {r1}
  Keys = {k1}
  Sigs = {s1}
  Kinds <- WaitersAndDesktop
  MaxRecords = 1
  MaxBytes = 3
  MinRead = 2
  Capacity = 3
  MaxOut = 4
  NONE = NONE
CHECK_DEADLOCK FALSE
INVARIANTS WaitContiguous BudgetRespected
PROPERTIES EndedStaysEnded TakeoverServed WaitsEnd
