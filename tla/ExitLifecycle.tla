---------------------------- MODULE ExitLifecycle ----------------------------
(***************************************************************************)
(* Quitting the application (exit_lifecycle.rs and its use in lib.rs).     *)
(* Window close, menu quit and the exit the cleanup itself asks for all go *)
(* through one atomic phase; the confirmation dialog and the cleanup task  *)
(* answer later, while Runtimes keep starting and ending on other threads. *)
(* The cleanup works on snapshots and is cut off after five seconds.       *)
(***************************************************************************)
EXTENDS Naturals, FiniteSets

CONSTANTS
  Ssh, Local, Browsers,   \* Runtimes that may ever exist, by backend
  MaxRuntimes             \* bound: Runtimes of one behaviour

Runtimes == Ssh \cup Local \cup Browsers

ASSUME RuntimesDisjoint ==
  /\ Ssh \cap Local = {} /\ Ssh \cap Browsers = {} /\ Local \cap Browsers = {}

VARIABLES
  phase,     \* the AtomicU8: idle, confirming, cleaning or ready
  dialogs,   \* confirmation dialogs on screen
  requests,  \* requests that won the phase and have not counted Runtimes yet
  live,      \* Runtimes that are starting, connecting or running
  ended,     \* Runtimes that ran and are gone
  task,      \* the cleanup task: its two joined branches and what each has left
  exited,    \* the event loop has returned
  late,      \* history: Runtimes started after the first snapshot
  cut        \* history: the five seconds ran out, or Chrome could not be listed

vars == <<phase, dialogs, requests, live, ended, task, exited, late, cut>>

Phases == {"idle", "confirming", "cleaning", "ready"}
NoCleanup == [step |-> "none", todo |-> {}, drained |-> FALSE, browsers |-> {}]
Steps == {"none", "ssh", "sshClose", "local", "localClose", "done"}

Init ==
  /\ phase = "idle" /\ dialogs = 0 /\ requests = 0
  /\ live \in SUBSET Runtimes /\ Cardinality(live) <= MaxRuntimes /\ ended = {}
  /\ task = NoCleanup /\ exited = FALSE
  /\ late = {} /\ cut = FALSE

\* Fault: the phase is read and written without compare_exchange.
TransitionUnchecked(from, to) == phase' = to

\* compare_exchange: only the owner of `from` moves on.
Transition(from, to) == phase = from /\ phase' = to

-----------------------------------------------------------------------------
(* request_exit: a close request, a menu quit or RunEvent::ExitRequested.  *)
Request ==
  /\ ~exited
  /\ Transition("idle", "confirming")
  /\ requests' = requests + 1
  /\ UNCHANGED <<dialogs, live, ended, task, exited, late, cut>>

BeginCleanup ==
  /\ Transition("confirming", "cleaning")
  /\ task' = [step |-> "ssh", todo |-> {}, drained |-> FALSE, browsers |-> {}]

\* With nothing running there is nothing to confirm; of the browsers, what the map
\* holds is counted.
CountWith(registered) ==
  /\ requests > 0
  /\ requests' = requests - 1
  /\ IF live \cap (Ssh \cup Local) = {} /\ registered = {}
       THEN BeginCleanup /\ UNCHANGED dialogs
       ELSE dialogs' = dialogs + 1 /\ UNCHANGED <<phase, task>>
  /\ UNCHANGED <<live, ended, exited, late, cut>>

Count == \E registered \in SUBSET (live \cap Browsers) : CountWith(registered)

Confirm ==
  /\ dialogs > 0
  /\ dialogs' = dialogs - 1
  /\ BeginCleanup
  /\ UNCHANGED <<requests, live, ended, exited, late, cut>>

Dismiss ==
  /\ dialogs > 0
  /\ dialogs' = dialogs - 1
  /\ Transition("confirming", "idle")
  /\ UNCHANGED <<requests, live, ended, task, exited, late, cut>>
-----------------------------------------------------------------------------
(* begin_exit_cleanup's task: browsers.close_all joined with disconnect_all *)
(* of the sessions and close_all of the local PTYs.                         *)
Cleaning == phase = "cleaning"

Close(r) == live' = live \ {r} /\ ended' = ended \cup {r}

\* close_all drains the map of registered browsers; one that is starting or
\* being closed is not in it.
Drain(registered) ==
  /\ Cleaning /\ ~task.drained
  /\ task' = [task EXCEPT !.drained = TRUE, !.browsers = registered]
  /\ UNCHANGED <<phase, dialogs, requests, live, ended, exited, late, cut>>

CloseBrowser(r) ==
  /\ Cleaning /\ r \in task.browsers
  /\ task' = [task EXCEPT !.browsers = @ \ {r}]
  /\ Close(r)
  /\ UNCHANGED <<phase, dialogs, requests, exited, late, cut>>

\* Fault: the local PTYs are closed from the list taken for the sessions.
SnapshotSshOnly ==
  \/ task.step = "ssh"   /\ task' = [task EXCEPT !.step = "sshClose", !.todo = live \cap Ssh]
  \/ task.step = "local" /\ task' = [task EXCEPT !.step = "localClose", !.todo = live \cap Ssh]

\* Each manager lists its own Runtimes when its turn comes.
Snapshot ==
  \/ task.step = "ssh"   /\ task' = [task EXCEPT !.step = "sshClose", !.todo = live \cap Ssh]
  \/ task.step = "local" /\ task' = [task EXCEPT !.step = "localClose", !.todo = live \cap Local]

TakeSnapshot ==
  /\ Cleaning /\ Snapshot
  /\ UNCHANGED <<phase, dialogs, requests, live, ended, exited, late, cut>>

CloseTerminal ==
  /\ Cleaning /\ task.step \in {"sshClose", "localClose"}
  /\ IF task.todo = {}
       THEN /\ task' = [task EXCEPT !.step = IF @ = "sshClose" THEN "local" ELSE "done"]
            /\ UNCHANGED <<live, ended>>
       ELSE \E r \in task.todo : task' = [task EXCEPT !.todo = @ \ {r}] /\ Close(r)
  /\ UNCHANGED <<phase, dialogs, requests, exited, late, cut>>

Finished == task.step = "done" /\ task.drained /\ task.browsers = {}

\* Fault: without the timeout a close that hangs keeps the application open.
CompleteWhenFinished ==
  /\ Finished
  /\ Transition("cleaning", "ready")
  /\ live' = live \ Browsers /\ ended' = ended \cup (live \cap Browsers)
  /\ UNCHANGED <<dialogs, requests, task, exited, late, cut>>

\* The joined future is done or cut off; what the process list shows of managed
\* Chrome is killed, and app.exit(code) raises ExitRequested once more.
Complete ==
  /\ Transition("cleaning", "ready")
  /\ \E listed \in BOOLEAN :
       /\ cut' = (~Finished \/ ~listed)
       /\ IF listed THEN /\ live' = live \ Browsers
                         /\ ended' = ended \cup (live \cap Browsers)
                    ELSE UNCHANGED <<live, ended>>
  /\ UNCHANGED <<dialogs, requests, task, exited, late>>

\* can_exit
Exit ==
  /\ phase = "ready" /\ ~exited
  /\ exited' = TRUE
  /\ UNCHANGED <<phase, dialogs, requests, live, ended, task, late, cut>>
-----------------------------------------------------------------------------
StartRuntime(r) ==
  /\ ~exited /\ r \notin live \cup ended /\ Cardinality(live \cup ended) < MaxRuntimes
  /\ live' = live \cup {r}
  /\ late' = IF phase \in {"cleaning", "ready"} THEN late \cup {r} ELSE late
  /\ UNCHANGED <<phase, dialogs, requests, ended, task, exited, cut>>

EndRuntime(r) ==
  /\ r \in live /\ ~exited
  /\ Close(r)
  /\ UNCHANGED <<phase, dialogs, requests, task, exited, late, cut>>

CloseAll == \E registered \in SUBSET (live \cap Browsers) : Drain(registered)

Cleanup == CloseAll \/ (\E r \in Browsers : CloseBrowser(r)) \/ TakeSnapshot \/ CloseTerminal

Next ==
  \/ Request \/ Count \/ Confirm \/ Dismiss \/ Cleanup \/ Complete \/ Exit
  \/ \E r \in Runtimes : StartRuntime(r) \/ EndRuntime(r)

Spec == Init /\ [][Next]_vars

\* The main thread handles its events and the timer fires: Complete needs no
\* close to return.  Users and Runtimes owe nothing.
FairSpec == Spec /\ WF_vars(Count) /\ WF_vars(Complete) /\ WF_vars(Exit)
-----------------------------------------------------------------------------
TypeOK ==
  /\ phase \in Phases /\ dialogs \in Nat /\ requests \in Nat
  /\ live \subseteq Runtimes /\ ended \subseteq Runtimes
  /\ task \in [step : Steps, todo : SUBSET Runtimes, drained : BOOLEAN, browsers : SUBSET Browsers]
  /\ exited \in BOOLEAN /\ cut \in BOOLEAN
  /\ late \subseteq Runtimes

(* One owner: whoever requested the exit, confirms it or cleans up, there  *)
(* is one of them, so no second dialog opens and cleanup runs once.        *)
OneOwner ==
  /\ phase = "confirming" => requests + dialogs = 1
  /\ phase # "confirming" => requests + dialogs = 0

(* The event loop ends only when the cleanup task has finished or was cut. *)
ExitAfterCleanup == exited => Finished \/ cut

(* A cleanup that ran to its end leaves nothing running but what started   *)
(* while it was running.                                                   *)
NothingLeftBehind == exited /\ ~cut => live \subseteq late

(* What each point of the cleanup has already closed: the inductive reason *)
(* for NothingLeftBehind.                                                  *)
CleanupProgress ==
  LET left == live \ late IN
  /\ phase = "cleaning" =>
       /\ task.step = "sshClose" => left \cap Ssh \subseteq task.todo
       /\ task.step \in {"local", "localClose", "done"} => left \cap Ssh = {}
       /\ task.step = "localClose" => left \cap Local \subseteq task.todo
       /\ task.step = "done" => left \cap Local = {}
       /\ task.step # "none"
  /\ phase = "ready" => Finished \/ cut
  /\ phase = "ready" /\ ~cut => live \subseteq late
  /\ exited => phase = "ready"

(* A confirmed exit happens, even if closing a Runtime never returns.      *)
ConfirmedExitHappens == (phase = "cleaning") ~> exited
=============================================================================
