\* Two requests of one process and two sessions, output, the exit of the Runtime and its
\* revocation, and a restart.
SPECIFICATION Spec
CONSTANTS
  Runtimes = {r1}
  Agents = {a1, a2}
  Dsh = {a1, a2}
  Procs = {p1}
  Sessions = {s1, s2}
  Hooks = {h1, h2}
  MaxHooks = 2
  MaxRestarts = 1
  NONE = NONE
CHECK_DEADLOCK FALSE
INVARIANTS OneAgentPerRuntime GoneIsSeenGone DeadStaysDead
PROPERTY TitleOfCurrentSession
SYMMETRY Symmetry
