------------------------------ MODULE Tunnels ------------------------------
(***************************************************************************)
(* Port forwarding (tunnels.rs): the tunnels of one profile with a fixed   *)
(* port on one SSH session.  Calls of start and stop, the monitor of each  *)
(* tunnel, the errors of its connections and the end of the session        *)
(* interleave at their awaits; the window follows their events.            *)
(***************************************************************************)
EXTENDS Naturals

CONSTANTS
  Starts,    \* calls of start; each makes at most one tunnel, named after it
  Stoppers,  \* calls of stop: of the window, the control service or stop_session
  NoTunnel

ASSUME TunnelsAssumption ==
  Starts \cap Stoppers = {} /\ NoTunnel \notin Starts \cup Stoppers

\* The monitor of a tunnel stops it like any other caller.
Threads == Stoppers \cup Starts

VARIABLES
  serverListens, \* whether the profile makes the SSH server listen, or this computer
  connected,     \* whether the SSH session is in the table of sessions
  start,         \* for each start: its step, and the tunnel it returns
  tunnels,       \* TunnelManager.tunnels
  failed,        \* the tunnels whose status is Error
  bound,         \* the tunnel whose listener holds the port, or NoTunnel
  route,         \* forwarded_routes of the port: the tunnel that gets its channels
  stop,          \* for each thread: its step, and the tunnel it stops
  failure,       \* for each tunnel: a failed connection on its way to be reported
  window         \* what the window shows of each tunnel

tunnelsVars == <<serverListens, connected, start, tunnels, failed, bound, route, stop, failure, window>>

TunnelsInit ==
  /\ serverListens \in BOOLEAN
  /\ connected = TRUE /\ tunnels = {} /\ failed = {} /\ bound = NoTunnel /\ route = NoTunnel
  /\ start = [s \in Starts |-> [step |-> "idle", result |-> NoTunnel, shown |-> "running"]]
  /\ stop = [k \in Threads |-> [step |-> "idle", tunnel |-> NoTunnel]]
  /\ failure = [s \in Starts |-> FALSE]
  /\ window = [s \in Starts |-> "none"]
-----------------------------------------------------------------------------
(* start.                                                                   *)
StartTo(s, step) == start' = [start EXCEPT ![s].step = step]
StartAt(s, step) == start[s].step = step

\* A tunnel of the profile that is listed is returned instead of a new one.
Check(s) ==
  /\ StartAt(s, "idle")
  /\ IF ~connected THEN StartTo(s, "failed")
     ELSE \/ tunnels = {} /\ StartTo(s, "bind")
          \/ \E t \in tunnels : start' = [start EXCEPT ![s] =
              [step |-> "return", result |-> t, shown |-> IF t \in failed THEN "error" ELSE "running"]]
  /\ UNCHANGED <<serverListens, connected, tunnels, failed, bound, route, stop, failure, window>>

\* Fault: the error of a port that is taken is ignored.
BindAnyway(s) ==
  /\ StartAt(s, "bind")
  /\ bound' = IF bound = NoTunnel /\ (serverListens => connected) THEN s ELSE bound
  /\ StartTo(s, IF serverListens THEN "route" ELSE "insert")
  /\ UNCHANGED <<serverListens, connected, tunnels, failed, route, stop, failure, window>>

\* The port is asked for; a port that is taken is refused.
Bind(s) ==
  /\ StartAt(s, "bind")
  /\ IF bound = NoTunnel /\ (serverListens => connected)
       THEN bound' = s /\ StartTo(s, IF serverListens THEN "route" ELSE "insert")
       ELSE UNCHANGED bound /\ StartTo(s, "failed")
  /\ UNCHANGED <<serverListens, connected, tunnels, failed, route, stop, failure, window>>

Route(s) ==
  /\ StartAt(s, "route")
  /\ route' = s /\ StartTo(s, "insert")
  /\ UNCHANGED <<serverListens, connected, tunnels, failed, bound, stop, failure, window>>

Insert(s) ==
  /\ StartAt(s, "insert")
  /\ tunnels' = tunnels \cup {s}
  /\ start' = [start EXCEPT ![s] = [step |-> "emit", result |-> s, shown |-> "running"]]
  /\ UNCHANGED <<serverListens, connected, failed, bound, route, stop, failure, window>>

EmitStarted(s) ==
  /\ StartAt(s, "emit")
  /\ window' = [window EXCEPT ![s] = "running"]
  /\ StartTo(s, "return")
  /\ UNCHANGED <<serverListens, connected, tunnels, failed, bound, route, stop, failure>>

\* The window takes the answer of its call.
Return(s) ==
  /\ StartAt(s, "return")
  /\ window' = [window EXCEPT ![start[s].result] = start[s].shown]
  /\ StartTo(s, "done")
  /\ UNCHANGED <<serverListens, connected, tunnels, failed, bound, route, stop, failure>>

Start(s) == Check(s) \/ Bind(s) \/ Route(s) \/ Insert(s) \/ EmitStarted(s) \/ Return(s)
-----------------------------------------------------------------------------
(* stop.                                                                    *)
StopTo(k, step) == stop' = [stop EXCEPT ![k].step = step]
StopAt(k, step) == stop[k].step = step

Stop(k, t) ==
  /\ StopAt(k, "idle") /\ t \in tunnels
  /\ stop' = [stop EXCEPT ![k] = [step |-> "remove", tunnel |-> t]]
  /\ UNCHANGED <<serverListens, connected, start, tunnels, failed, bound, route, failure, window>>

\* The tunnel leaves the list and its task is told to end.
Remove(k) ==
  /\ StopAt(k, "remove")
  /\ tunnels' = tunnels \ {stop[k].tunnel}
  /\ StopTo(k, IF serverListens THEN "route" ELSE "emit")
  /\ UNCHANGED <<serverListens, connected, start, failed, bound, route, failure, window>>

RemoveRoute(k) ==
  /\ StopAt(k, "route")
  /\ route' = NoTunnel /\ StopTo(k, "cancel")
  /\ UNCHANGED <<serverListens, connected, start, tunnels, failed, bound, failure, window>>

\* Fault: the server is not told.
CancelNothing(k) ==
  /\ StopAt(k, "cancel")
  /\ StopTo(k, "emit")
  /\ UNCHANGED <<serverListens, connected, start, tunnels, failed, bound, route, failure, window>>

\* The server gives the port up, whoever asked for it.
CancelForward(k) ==
  /\ StopAt(k, "cancel")
  /\ bound' = IF connected THEN NoTunnel ELSE bound
  /\ StopTo(k, "emit")
  /\ UNCHANGED <<serverListens, connected, start, tunnels, failed, route, failure, window>>

EmitRemoved(k) ==
  /\ StopAt(k, "emit")
  /\ window' = [window EXCEPT ![stop[k].tunnel] = "none"]
  /\ StopTo(k, "done")
  /\ UNCHANGED <<serverListens, connected, start, tunnels, failed, bound, route, failure>>

\* Fault: the monitor looks for its tunnel once and never again.
MonitorOnce(t) ==
  /\ start[t].result = t /\ start[t].step \in {"return"}
  /\ ~connected /\ Stop(t, t)

\* The monitor of a tunnel stops it when its session is gone.
Monitor(t) ==
  /\ start[t].result = t /\ start[t].step \in {"return", "done"}
  /\ ~connected /\ Stop(t, t)

StopStep(k) == Remove(k) \/ RemoveRoute(k) \/ CancelForward(k) \/ EmitRemoved(k)

\* The task of a tunnel is started after its first event.
Serving(t) == start[t].result = t /\ start[t].step \in {"return", "done"}

\* The task of a local tunnel drops its listener once it is told to end.
ListenerEnds ==
  /\ ~serverListens /\ bound # NoTunnel /\ Serving(bound) /\ bound \notin tunnels
  /\ bound' = NoTunnel
  /\ UNCHANGED <<serverListens, connected, start, tunnels, failed, route, stop, failure, window>>
-----------------------------------------------------------------------------
\* The error of a tunnel that is listed; the window is told later.
RuntimeError(t) ==
  IF t \in tunnels
    THEN failed' = failed \cup {t} /\ failure' = [failure EXCEPT ![t] = TRUE]
    ELSE UNCHANGED <<failed, failure>>

ConnectionFails(t) ==
  /\ Serving(t) /\ t \in tunnels /\ ~failure[t]
  /\ RuntimeError(t)
  /\ UNCHANGED <<serverListens, connected, start, tunnels, bound, route, stop, window>>

\* Accepting fails: the listener is dropped and the tunnel stays in the list.
AcceptFails ==
  /\ ~serverListens /\ bound # NoTunnel /\ Serving(bound) /\ ~failure[bound]
  /\ RuntimeError(bound) /\ bound' = NoTunnel
  /\ UNCHANGED <<serverListens, connected, start, tunnels, route, stop, window>>

EmitError(t) ==
  /\ failure[t]
  /\ failure' = [failure EXCEPT ![t] = FALSE]
  /\ window' = [window EXCEPT ![t] = "error"]
  /\ UNCHANGED <<serverListens, connected, start, tunnels, failed, bound, route, stop>>

\* The session ends, and with its connection its forwards at the server.  Its
\* routes go when it is disconnected; an end of its shell or a failure leaves them.
SessionEnds ==
  /\ connected /\ connected' = FALSE
  /\ route' \in {route, NoTunnel}
  /\ bound' = IF serverListens THEN NoTunnel ELSE bound
  /\ UNCHANGED <<serverListens, start, tunnels, failed, stop, failure, window>>

TunnelsNext ==
  \/ \E s \in Starts : Start(s) \/ Monitor(s) \/ ConnectionFails(s) \/ EmitError(s)
  \/ \E k \in Stoppers, t \in Starts : Stop(k, t)
  \/ \E k \in Threads : StopStep(k)
  \/ AcceptFails \/ ListenerEnds \/ SessionEnds

TunnelsSpec == TunnelsInit /\ [][TunnelsNext]_tunnelsVars

\* Calls go on, and the monitor of a tunnel looks every second.
TunnelsLiveSpec ==
  /\ TunnelsSpec
  /\ \A s \in Starts : WF_tunnelsVars(start[s].step # "idle" /\ Start(s)) /\ WF_tunnelsVars(Monitor(s))
  /\ \A k \in Threads : WF_tunnelsVars(StopStep(k))
  /\ WF_tunnelsVars(ListenerEnds)
-----------------------------------------------------------------------------
TunnelsTypeOK ==
  /\ {serverListens, connected} \subseteq BOOLEAN
  /\ tunnels \subseteq Starts /\ failed \subseteq Starts
  /\ bound \in Starts \cup {NoTunnel} /\ route \in Starts \cup {NoTunnel}
  /\ start \in [Starts -> [step : {"idle", "bind", "route", "insert", "emit", "return", "done", "failed"},
                           result : Starts \cup {NoTunnel}, shown : {"running", "error"}]]
  /\ stop \in [Threads -> [step : {"idle", "remove", "route", "cancel", "emit", "done"},
                           tunnel : Starts \cup {NoTunnel}]]
  /\ failure \in [Starts -> BOOLEAN]
  /\ window \in [Starts -> {"none", "running", "error"}]

Stopping(t) == \E k \in Threads : stop[k].tunnel = t /\ stop[k].step # "done"

(* What the help says: a running state confirms the listener.  A tunnel that *)
(* is listed as running, and that nobody is stopping, has its port and its  *)
(* channels.                                                                *)
RunningConfirmsListener ==
  \A t \in tunnels \ failed : connected /\ ~Stopping(t) => bound = t /\ (serverListens => route = t)

Quiet == /\ \A s \in Starts : start[s].step \in {"idle", "done", "failed"}
         /\ \A k \in Threads : StopAt(k, "idle") \/ StopAt(k, "done")

(* The port of the server is never kept by a tunnel that is not listed, once *)
(* the calls of start and stop have returned.                               *)
NoLeakedListener == serverListens /\ Quiet /\ bound # NoTunnel => bound \in tunnels

(* A tunnel that is listed, and whose start has returned, is on the screen.  *)
ListedIsShown ==
  \A t \in tunnels : start[t].step = "done" /\ ~Stopping(t) => window[t] # "none"

(* Tunnels follow the session: after its end none stays for good, those      *)
(* included whose start was still under way, and every port and every route  *)
(* is given up, also where the end of the session has left the route.        *)
TunnelsFollowSession == ~connected ~> (tunnels = {} /\ bound = NoTunnel /\ route = NoTunnel)
=============================================================================
