\* Calls of an agent and of a command line race for a key and for tickets while
\* the user decides, the opt-in changes and tickets expire.
SPECIFICATION Spec
CONSTANTS
  Calls = {c1, c2, c3}
  Callers = {"agent", "cli"}
  Kind <- Kinds
  Operations = {"transfer"}
  Guarded = {"transfer"}
  Payloads = {p1, p2}
  Keys = {k1}
  Tickets = {t1, t2}
  Cap = 1
  TTL = 1
  MaxClock = 2
  NONE = NONE
SYMMETRY Symmetry
CHECK_DEADLOCK FALSE
INVARIANT Consented
PROPERTY KeepsPromise
