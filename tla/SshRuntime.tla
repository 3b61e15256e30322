------------------------------- MODULE SshRuntime -------------------------------
(***************************************************************************)
(* One SSH Runtime: its record in ssh_terminal_backend.rs, its session in   *)
(* sessions.rs and the futures that share them: the task that establishes   *)
(* the connection, the task that reads the shell, and the calls of clients  *)
(* (close, flow, resize, write).  A future is cut at every await and at     *)
(* every lock; the shell's writer sits behind one async mutex.              *)
(*                                                                         *)
(* A session connects to its target, perhaps over a jump host, and asks the *)
(* user about each host key it does not know.  Authenticating is one await   *)
(* that succeeds or fails.  The remote end sends units of output, then Eof. *)
(***************************************************************************)
EXTENDS Naturals, Sequences, FiniteSets

CONSTANTS
  Closers,     \* client futures in close
  Flows,       \* client futures in set_output_paused
  Writers,     \* client futures in write or interrupt
  Sizes,       \* terminal sizes; the client resizes one at a time
  DefaultSize, \* DEFAULT_TERMINAL_SIZE
  MaxData,     \* bound: units of output the remote shell ever sends
  MaxCalls,    \* bound: resizes and flow changes the clients ever ask for
  CloseEarly,  \* whether a client may close while the session is connecting
  NONE         \* no holder of the shell mutex

ASSUME SshAssumption ==
  /\ MaxData \in Nat /\ MaxCalls \in Nat /\ CloseEarly \in BOOLEAN
  /\ DefaultSize \notin Sizes
  /\ {NONE, "establish"} \cap Writers = {} /\ NONE # "establish"

VARIABLES
  record,     \* backend: status of the Runtime, close_requested, end of its output
  session,    \* ActiveSession: listed, status, closing, paused, shell, handle, size
  lock,       \* holder of the mutex around ActiveSession.shell
  channel,    \* the remote shell: none, open or closed
  pty,        \* size of the remote PTY
  inbox,      \* messages of the channel the reader has not received
  sent,       \* units of output the remote shell has sent
  establish,  \* the establishing task: its step and size, the host it connects to,
              \* and the question about that host's key, in the window and answered
  reader,     \* the reading task: where it is and what its batch holds
  closer,     \* step of each close
  flow,       \* step of each flow change
  writer,     \* step of each write
  resizer,    \* step and size of the resize in progress
  calls       \* bound: resizes and flow changes asked for so far

tasks == <<establish, reader>>
users == <<closer, flow, writer, resizer, calls>>
remote == <<channel, pty, inbox, sent>>
vars == <<record, session, lock, channel, pty, inbox, sent, establish, reader,
          closer, flow, writer, resizer, calls>>

Ended == {"exited", "error"}

Init ==
  /\ record = [status |-> "none", close_requested |-> FALSE, cursor |-> 0]
  /\ session = [listed |-> FALSE, status |-> "connecting", closing |-> FALSE, paused |-> FALSE,
                shell |-> FALSE, handle |-> FALSE, size |-> DefaultSize]
  /\ lock = NONE
  /\ channel = "none" /\ pty = DefaultSize /\ inbox = <<>> /\ sent = 0
  /\ establish = [step |-> "none", size |-> DefaultSize, hop |-> "target",
                  prompt |-> FALSE, answer |-> "none"]
  /\ reader = [step |-> "none", batch |-> 0, eof |-> FALSE]
  /\ closer = [c \in Closers |-> [step |-> "idle", took |-> FALSE]]
  /\ flow = [f \in Flows |-> "idle"]
  /\ writer = [w \in Writers |-> "idle"]
  /\ resizer = [step |-> "idle", size |-> DefaultSize]
  /\ calls = 0

Mirror == [connecting |-> "connecting", connected |-> "running",
           disconnected |-> "exited", error |-> "error"]

(* emit(AppEvent::Session): observe_status mirrors the summary it is given. *)
Emit(status) == record' = [record EXCEPT !.status = Mirror[status]]

\* create: insert the record, list the session, spawn establish, then resize.
Create(size) ==
  /\ record.status = "none"
  /\ record' = [record EXCEPT !.status = "connecting"]
  /\ session' = [session EXCEPT !.listed = TRUE]
  /\ \E hop \in {"jump", "target"} :
       establish' = [establish EXCEPT !.step = "connect", !.hop = hop]
  /\ resizer' = [step |-> "store", size |-> size]
  /\ UNCHANGED <<lock, remote, reader, closer, flow, writer, calls>>
-----------------------------------------------------------------------------
(* establish.                                                              *)
EstablishTo(step) == establish' = [establish EXCEPT !.step = step]

\* A key that is known goes on; one that is new or has changed is put before the
\* user, with a place for the answer.
CheckServerKey ==
  \/ EstablishTo("authenticate")
  \/ establish' = [establish EXCEPT !.step = "ask", !.prompt = TRUE]

\* The host is reached, directly or over the jump host, and shows its key.
Connect ==
  /\ establish.step = "connect"
  /\ EstablishTo("fail") \/ CheckServerKey
  /\ UNCHANGED <<record, session, lock, remote, reader, users>>

\* The dialog of the window; an answer that nobody waits for is dropped.
Decide(answer) ==
  /\ establish.prompt
  /\ establish' = [establish EXCEPT !.prompt = FALSE,
                     !.answer = IF establish.step = "ask" THEN answer ELSE "none"]
  /\ UNCHANGED <<record, session, lock, remote, reader, users>>

\* An accepted key is stored, which may fail.
Decided ==
  /\ establish.step = "ask" /\ establish.answer # "none"
  /\ \E step \in IF establish.answer = "accept" THEN {"authenticate", "fail"} ELSE {"fail"} :
       establish' = [establish EXCEPT !.step = step, !.answer = "none"]
  /\ UNCHANGED <<record, session, lock, remote, reader, users>>

\* Fault: a question is given up only when it is no longer on the screen.
UndecidedWaits ==
  /\ establish.step = "ask" /\ establish.answer = "none" /\ ~establish.prompt
  /\ EstablishTo("fail")
  /\ UNCHANGED <<record, session, lock, remote, reader, users>>

\* Sixty seconds without an answer are a refusal.
Undecided ==
  /\ establish.step = "ask" /\ establish.answer = "none"
  /\ EstablishTo("fail")
  /\ UNCHANGED <<record, session, lock, remote, reader, users>>

\* From a jump host the task goes on to the target, on a channel of it; there its
\* own channel is opened.
Authenticate ==
  /\ establish.step = "authenticate"
  /\ \/ EstablishTo("fail") /\ UNCHANGED channel
     \/ /\ establish.hop = "jump" /\ UNCHANGED channel
        /\ establish' = [establish EXCEPT !.step = "connect", !.hop = "target"]
     \/ establish.hop = "target" /\ EstablishTo("lockShell") /\ channel' = "open"
  /\ UNCHANGED <<record, session, lock, pty, inbox, sent, reader, users>>

\* Fault: the size is read before the shell is locked.
LockShellStale ==
  \/ /\ establish.step = "lockShell" /\ establish.size # session.size
     /\ establish' = [establish EXCEPT !.size = session.size]
     /\ UNCHANGED <<record, session, lock, remote, reader, users>>
  \/ /\ establish.step = "lockShell" /\ lock = NONE
     /\ lock' = "establish"
     /\ EstablishTo("pty")
     /\ UNCHANGED <<record, session, remote, reader, users>>

\* The shell mutex is taken before the size is read and kept until the writer
\* is stored.
LockShell ==
  /\ establish.step = "lockShell" /\ lock = NONE
  /\ lock' = "establish"
  /\ establish' = [establish EXCEPT !.step = "pty", !.size = session.size]
  /\ UNCHANGED <<record, session, remote, reader, users>>

\* request_pty, set_env and request_shell; an error drops the lock.
RequestShell ==
  /\ establish.step = "pty"
  /\ \/ /\ EstablishTo("store") /\ pty' = establish.size
        /\ UNCHANGED <<lock, channel>>
     \/ /\ EstablishTo("fail") /\ lock' = NONE /\ channel' = "closed"
        /\ UNCHANGED pty
  /\ UNCHANGED <<record, session, inbox, sent, reader, users>>

StoreHandle ==
  /\ establish.step = "store"
  /\ session' = [session EXCEPT !.handle = TRUE]
  /\ EstablishTo("storeShell")
  /\ UNCHANGED <<record, lock, remote, reader, users>>

StoreShell ==
  /\ establish.step = "storeShell"
  /\ session' = [session EXCEPT !.shell = TRUE]
  /\ lock' = NONE
  /\ EstablishTo("connected")
  /\ UNCHANGED <<record, remote, reader, users>>

Connected ==
  /\ establish.step = "connected"
  /\ session' = [session EXCEPT !.status = "connected"]
  /\ EstablishTo("report")
  /\ UNCHANGED <<record, lock, remote, reader, users>>

\* mark_connected may fail; otherwise the summary goes out and the reader starts.
ReportConnected ==
  /\ establish.step = "report"
  /\ \/ EstablishTo("fail") /\ UNCHANGED <<record, reader>>
     \/ /\ Emit(session.status)
        /\ EstablishTo("done")
        /\ reader' = [reader EXCEPT !.step = "receive"]
  /\ UNCHANGED <<session, lock, remote, users>>

\* fail: closing.swap decides whether the error is reported.
Fail ==
  /\ establish.step = "fail"
  /\ session' = [session EXCEPT !.closing = TRUE,
                   !.status = IF session.closing THEN @ ELSE "error"]
  /\ EstablishTo(IF session.closing THEN "failed" ELSE "reportFail")
  /\ UNCHANGED <<record, lock, remote, reader, users>>

\* The last reference to the session drops its handle and closes the channel; the
\* window drops the question of a session that has ended.
ReportFail ==
  /\ establish.step = "reportFail"
  /\ Emit(session.status)
  /\ session' = [session EXCEPT !.listed = FALSE]
  /\ channel' = IF channel = "open" THEN "closed" ELSE channel
  /\ establish' = [establish EXCEPT !.step = "failed", !.prompt = FALSE]
  /\ UNCHANGED <<lock, pty, inbox, sent, reader, users>>

Establish == \/ Connect \/ Decided \/ Undecided \/ Authenticate \/ LockShell \/ RequestShell \/ StoreHandle \/ StoreShell
             \/ Connected \/ ReportConnected \/ Fail \/ ReportFail
-----------------------------------------------------------------------------
(* read_terminal.                                                          *)
ReaderTo(step) == reader' = [reader EXCEPT !.step = step]

\* Fault: a lost connection is not noticed, only an Eof is.
ReceiveUntilEof ==
  /\ reader.step = "receive"
  /\ inbox # <<>> /\ ReaderTo("gate")
  /\ UNCHANGED <<record, session, lock, remote, establish, users>>

\* reader.wait(): the next message, or nothing once the channel is closed.
Receive ==
  /\ reader.step = "receive"
  /\ \/ inbox # <<>> /\ ReaderTo("gate")
     \/ inbox = <<>> /\ channel = "closed" /\ ReaderTo("end")
  /\ UNCHANGED <<record, session, lock, remote, establish, users>>

\* while paused && !closing: the flags are looked at, then the wait begins.
Gate ==
  /\ reader.step = "gate"
  /\ ReaderTo(IF session.paused /\ ~session.closing THEN "register" ELSE "batch")
  /\ UNCHANGED <<record, session, lock, remote, establish, users>>

Register ==
  /\ reader.step = "register"
  /\ ReaderTo("suspended")
  /\ UNCHANGED <<record, session, lock, remote, establish, users>>

\* resume.notify_waiters(): wakes a reader that waits, and nobody later.
Notified == IF reader.step = "suspended" THEN [reader EXCEPT !.step = "gate"] ELSE reader

\* Fault: an Eof ends the loop before its batch is pushed.
BatchEndsEarly ==
  /\ reader.step = "batch"
  /\ \E n \in 1 .. Len(inbox) :
       /\ \A i \in 1 .. n - 1 : inbox[i] = "data"
       /\ reader' = [step |-> "push", eof |-> inbox[n] = "eof",
                     batch |-> IF inbox[n] = "eof" THEN 0 ELSE n]
       /\ inbox' = SubSeq(inbox, n + 1, Len(inbox))
  /\ UNCHANGED <<record, session, lock, channel, pty, sent, establish, users>>

\* What arrives within 16 ms is batched; Eof ends the batch and the loop.
Batch ==
  /\ reader.step = "batch"
  /\ \E n \in 1 .. Len(inbox) :
       /\ \A i \in 1 .. n - 1 : inbox[i] = "data"
       /\ reader' = [step |-> "push", eof |-> inbox[n] = "eof",
                     batch |-> IF inbox[n] = "eof" THEN n - 1 ELSE n]
       /\ inbox' = SubSeq(inbox, n + 1, Len(inbox))
  /\ UNCHANGED <<record, session, lock, channel, pty, sent, establish, users>>

\* The ring of the record takes the batch (TerminalOutput).
PushBatch ==
  /\ reader.step = "push"
  /\ record' = [record EXCEPT !.cursor = @ + reader.batch]
  /\ reader' = [step |-> IF reader.eof THEN "end" ELSE "receive", batch |-> 0, eof |-> FALSE]
  /\ UNCHANGED <<session, lock, remote, establish, users>>

\* The end of the loop: only whoever sets `closing` first reports the end.
EndReader ==
  /\ reader.step = "end"
  /\ session' = [session EXCEPT !.closing = TRUE]
  /\ ReaderTo(IF session.closing THEN "done" ELSE "cleanup")
  /\ UNCHANGED <<record, lock, remote, establish, users>>

\* cleanup_remote_agent_runtime, then the summary.
CleanupReader ==
  /\ reader.step = "cleanup"
  /\ session' = [session EXCEPT !.status = "disconnected"]
  /\ ReaderTo("report")
  /\ UNCHANGED <<record, lock, remote, establish, users>>

ReportEnd ==
  /\ reader.step = "report"
  /\ Emit(session.status)
  /\ session' = [session EXCEPT !.listed = FALSE]
  /\ ReaderTo("done")
  /\ UNCHANGED <<lock, remote, establish, users>>

Reader == \/ Receive \/ Gate \/ Register \/ Batch \/ PushBatch
          \/ EndReader \/ CleanupReader \/ ReportEnd
-----------------------------------------------------------------------------
(* close and disconnect.                                                   *)
CloserTo(c, step) == closer' = [closer EXCEPT ![c].step = step]

Connecting == establish.step \notin {"done", "failed"}

Close(c) ==
  /\ closer[c].step = "idle" /\ record.status # "none"
  /\ Connecting => CloseEarly
  /\ IF record.status \in Ended
       THEN CloserTo(c, "refused") /\ UNCHANGED record
       ELSE /\ record' = [record EXCEPT !.close_requested = TRUE]
            /\ CloserTo(c, "lookup")
  /\ UNCHANGED <<session, lock, remote, tasks, flow, writer, resizer, calls>>

CloseLookup(c) ==
  /\ closer[c].step = "lookup"
  /\ CloserTo(c, IF session.listed THEN "mark" ELSE "refused")
  /\ UNCHANGED <<record, session, lock, remote, tasks, flow, writer, resizer, calls>>

CloseMark(c) ==
  /\ closer[c].step = "mark"
  /\ session' = [session EXCEPT !.closing = TRUE]
  /\ CloserTo(c, "notify")
  /\ UNCHANGED <<record, lock, remote, tasks, flow, writer, resizer, calls>>

\* notify_waiters, then the remote Agent files are removed.
CloseNotify(c) ==
  /\ closer[c].step = "notify"
  /\ reader' = Notified
  /\ CloserTo(c, "takeShell")
  /\ UNCHANGED <<record, session, lock, remote, establish, flow, writer, resizer, calls>>

TakeShell(c) ==
  /\ closer[c].step = "takeShell" /\ lock = NONE
  /\ session' = [session EXCEPT !.shell = FALSE]
  /\ closer' = [closer EXCEPT ![c].took = session.shell, ![c].step = "takeHandle"]
  /\ UNCHANGED <<record, lock, remote, tasks, flow, writer, resizer, calls>>

TakeHandle(c) ==
  /\ closer[c].step = "takeHandle"
  /\ session' = [session EXCEPT !.handle = FALSE]
  /\ closer' = [closer EXCEPT ![c].took = @ \/ session.handle, ![c].step = "shut"]
  /\ UNCHANGED <<record, lock, remote, tasks, flow, writer, resizer, calls>>

\* Fault: the connection is dropped from the session but not closed.
ShutNothing(c) ==
  /\ closer[c].step = "shut"
  /\ CloserTo(c, "summary")
  /\ UNCHANGED <<record, session, lock, remote, tasks, flow, writer, resizer, calls>>

\* shell.close and disconnect of what was taken.
Shut(c) ==
  /\ closer[c].step = "shut"
  /\ channel' = IF closer[c].took THEN "closed" ELSE channel
  /\ CloserTo(c, "summary")
  /\ UNCHANGED <<record, session, lock, pty, inbox, sent, tasks, flow, writer, resizer, calls>>

CloseSummary(c) ==
  /\ closer[c].step = "summary"
  /\ session' = [session EXCEPT !.status = "disconnected"]
  /\ CloserTo(c, "report")
  /\ UNCHANGED <<record, lock, remote, tasks, flow, writer, resizer, calls>>

\* The end is reported, then the session is forgotten.
ReportClose(c) ==
  /\ closer[c].step = "report"
  /\ Emit(session.status)
  /\ session' = [session EXCEPT !.listed = FALSE]
  /\ establish' = [establish EXCEPT !.prompt = FALSE]
  /\ CloserTo(c, "closed")
  /\ UNCHANGED <<lock, remote, reader, flow, writer, resizer, calls>>

CloseStep(c) == \/ CloseLookup(c) \/ CloseMark(c) \/ CloseNotify(c) \/ TakeHandle(c)
                \/ Shut(c) \/ CloseSummary(c) \/ ReportClose(c)
-----------------------------------------------------------------------------
(* flow, resize and write.                                                 *)
SetPaused(f, paused) ==
  /\ flow[f] = "idle" /\ session.listed /\ calls < MaxCalls
  /\ calls' = calls + 1
  /\ session' = [session EXCEPT !.paused = paused]
  /\ flow' = [flow EXCEPT ![f] = IF paused THEN "idle" ELSE "notify"]
  /\ UNCHANGED <<record, lock, remote, tasks, closer, writer, resizer>>

NotifyResume(f) ==
  /\ flow[f] = "notify"
  /\ reader' = Notified
  /\ flow' = [flow EXCEPT ![f] = "idle"]
  /\ UNCHANGED <<record, session, lock, remote, establish, closer, writer, resizer, calls>>

Resize(size) ==
  /\ resizer.step = "idle" /\ session.listed /\ calls < MaxCalls
  /\ calls' = calls + 1
  /\ resizer' = [step |-> "store", size |-> size]
  /\ UNCHANGED <<record, session, lock, remote, tasks, closer, flow, writer>>

StoreSize ==
  /\ resizer.step = "store"
  /\ session' = [session EXCEPT !.size = resizer.size]
  /\ resizer' = [resizer EXCEPT !.step = "send"]
  /\ UNCHANGED <<record, lock, remote, tasks, closer, flow, writer, calls>>

SendSize ==
  /\ resizer.step = "send" /\ lock = NONE
  /\ pty' = IF session.shell THEN resizer.size ELSE pty
  /\ resizer' = [resizer EXCEPT !.step = "idle"]
  /\ UNCHANGED <<record, session, lock, channel, inbox, sent, tasks, closer, flow, writer, calls>>

\* The writer keeps the mutex until the channel has taken the data.
Write(w) ==
  /\ writer[w] = "idle" /\ session.listed /\ session.shell /\ lock = NONE
  /\ lock' = w
  /\ writer' = [writer EXCEPT ![w] = "writing"]
  /\ UNCHANGED <<record, session, remote, tasks, closer, flow, resizer, calls>>

WriteEnd(w) ==
  /\ writer[w] = "writing"
  /\ lock' = NONE
  /\ writer' = [writer EXCEPT ![w] = "idle"]
  /\ UNCHANGED <<record, session, remote, tasks, closer, flow, resizer, calls>>
-----------------------------------------------------------------------------
(* The remote end.                                                         *)
ShellRuns == channel = "open" /\ establish.step \notin {"lockShell", "pty"}

SendData ==
  /\ ShellRuns /\ sent < MaxData
  /\ sent' = sent + 1
  /\ inbox' = Append(inbox, "data")
  /\ UNCHANGED <<record, session, lock, channel, pty, tasks, users>>

\* The shell ends, or the connection is lost.
EndChannel ==
  /\ ShellRuns
  /\ channel' = "closed"
  /\ inbox' \in {inbox, Append(inbox, "eof")}
  /\ UNCHANGED <<record, session, lock, pty, sent, tasks, users>>

Next ==
  \/ \E size \in Sizes : Create(size) \/ Resize(size)
  \/ Establish \/ Reader \/ \E answer \in {"accept", "refuse"} : Decide(answer)
  \/ \E c \in Closers : Close(c) \/ CloseStep(c) \/ TakeShell(c)
  \/ \E f \in Flows : NotifyResume(f) \/ \E paused \in BOOLEAN : SetPaused(f, paused)
  \/ StoreSize \/ SendSize
  \/ \E w \in Writers : Write(w) \/ WriteEnd(w)
  \/ SendData \/ EndChannel

Spec == Init /\ [][Next]_vars

(* Every task and every call that can run is polled, awaits on the network  *)
(* return, and tokio's mutex serves its waiters in order, so that a call    *)
(* that waits for the shell gets it although others keep taking it.         *)
FairSpec ==
  /\ Spec
  /\ SF_vars(Establish) /\ WF_vars(Reader)
  /\ \A c \in Closers : WF_vars(CloseStep(c)) /\ SF_vars(TakeShell(c))
  /\ \A f \in Flows : WF_vars(NotifyResume(f))
  /\ \A w \in Writers : WF_vars(WriteEnd(w))
-----------------------------------------------------------------------------
EstablishSteps == {"none", "connect", "ask", "authenticate", "lockShell", "pty", "store", "storeShell", "connected",
                   "report", "fail", "reportFail", "failed", "done"}
ReaderSteps == {"none", "receive", "gate", "register", "suspended", "batch", "push", "end",
                "cleanup", "report", "done"}
CloseSteps == {"idle", "lookup", "mark", "notify", "takeShell", "takeHandle", "shut", "summary",
               "report", "closed", "refused"}

Records == [status : Ended \cup {"none", "connecting", "running"}, close_requested : BOOLEAN, cursor : Nat]
Sessions == [listed : BOOLEAN, status : {"connecting", "connected", "disconnected", "error"},
             closing : BOOLEAN, paused : BOOLEAN, shell : BOOLEAN, handle : BOOLEAN,
             size : Sizes \cup {DefaultSize}]
Attempts == [step : EstablishSteps, size : Sizes \cup {DefaultSize}, hop : {"jump", "target"},
             prompt : BOOLEAN, answer : {"none", "accept", "refuse"}]
Reads == [step : ReaderSteps, batch : 0 .. MaxData, eof : BOOLEAN]

TypeOK ==
  /\ record \in Records /\ session \in Sessions
  /\ lock \in Writers \cup {"establish", NONE}
  /\ channel \in {"none", "open", "closed"} /\ pty \in Sizes \cup {DefaultSize}
  /\ inbox \in Seq({"data", "eof"}) /\ sent \in 0 .. MaxData
  /\ establish \in Attempts /\ reader \in Reads
  /\ closer \in [Closers -> [step : CloseSteps, took : BOOLEAN]]
  /\ flow \in [Flows -> {"idle", "notify"}] /\ writer \in [Writers -> {"idle", "writing"}]
  /\ resizer \in [step : {"idle", "store", "send"}, size : Sizes \cup {DefaultSize}]
  /\ calls \in 0 .. MaxCalls

(* A Runtime whose end was reported never runs again: what the pane         *)
(* relies on when it drops events older than the end.                       *)
EndedStaysEnded == [][record.status \in Ended => record'.status \in Ended]_vars

(* Closes leave nothing behind: when the last of them has returned, the     *)
(* remote shell is closed, the session is forgotten and the Runtime is      *)
(* reported as ended.  A close that finds another one at work may return    *)
(* first.                                                                   *)
ClosedMeansClosed ==
  (/\ \E c \in Closers : closer[c].step = "closed"
   /\ \A c \in Closers : closer[c].step \in {"idle", "closed", "refused"})
  => /\ channel # "open" /\ ~session.shell /\ ~session.listed
     /\ record.status \in Ended

(* The end of a shell nobody closed is reported after all of its output is  *)
(* in the ring, however the reader was paused and batched it.               *)
NaturalExitIsComplete ==
  record.status = "exited" /\ ~record.close_requested => record.cursor = sent

(* A resize is never lost between a client and a connection that is being   *)
(* established: with no resize under way, the remote PTY has the size the   *)
(* client asked for last.                                                   *)
SizeReached ==
  session.shell /\ channel = "open" /\ resizer.step = "idle" => pty = session.size

Settled ==
  \/ record.status \in Ended \cup {"none"}
  \/ record.status = "running" /\ channel = "open"
  \/ reader.step = "suspended"

(* A Runtime does not stay between its states: a connect succeeds or is     *)
(* reported as failed, though the user may never answer a question about a  *)
(* host key; and the end of the remote shell is reported, by Eof or by a    *)
(* lost connection, unless flow control keeps the reader suspended.         *)
EndReported == []<>Settled
=============================================================================
