\* Exit requests against Runtimes that start and end on their own: any two of two
\* sessions, a local PTY and two Chromes of one Session, on a retained and on
\* disposable profiles, which an earlier application may have left running.
SPECIFICATION BrowserFairSpec
CONSTANTS
  Ssh = {s1, s2}
  Local = {l1}
  Browsers = {b1, b2}
  MaxRuntimes = 2
  Resources = {keep, temp}
  Retained = {keep}
  NONE = NONE
CHECK_DEADLOCK FALSE
INVARIANTS OneOwner NothingLeftBehind DrivesItsOwn ProfilesRespected
PROPERTY ConfirmedExitHappens
