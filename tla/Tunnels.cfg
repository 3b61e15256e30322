\* Two starts of one profile, local or remote, one stop and the end of the session.
SPECIFICATION TunnelsLiveSpec
CONSTANTS
  Starts = {s1, s2}
  Stoppers = {k1}
  NoTunnel = NoTunnel
CHECK_DEADLOCK FALSE
INVARIANTS RunningConfirmsListener NoLeakedListener
PROPERTY TunnelsFollowSession
