-------------------------------- MODULE LocalPty --------------------------------
(***************************************************************************)
(* One local Runtime of local_pty_backend.rs: the thread that reads the PTY, *)
(* the thread that waits for the shell, and the blocking calls of clients   *)
(* that share its flags and its three mutexes (writer, master, output).     *)
(*                                                                         *)
(* The PTY is two bounded buffers.  A write blocks while the input buffer   *)
(* is full, the shell blocks while the output buffer is full, and a resize  *)
(* may wait for the output buffer to drain (ConPTY).  Output is counted in  *)
(* units; a read may leave an incomplete character in the decoder.          *)
(***************************************************************************)
EXTENDS Naturals, FiniteSets

CONSTANTS
  Writers,       \* blocking writes: terminal input and interrupts
  Resizers,      \* blocking resizes
  Sizes,         \* terminal sizes
  StartSize,     \* size the Runtime was created with
  OutputCap,     \* units the PTY buffers for the reader
  InputCap,      \* units the PTY buffers for the shell
  Platforms,     \* where the Runtime may run: "unix", "conpty" or "wsl"
  MaxOut,        \* bound: units of output the shell ever writes
  MaxCalls,      \* bound: writes, resizes and flow changes ever asked for
  NONE           \* no holder of a mutex

ASSUME PtyAssumption ==
  /\ {OutputCap, InputCap} \subseteq Nat \ {0}
  /\ MaxOut \in Nat /\ MaxCalls \in Nat
  /\ Platforms \subseteq {"unix", "conpty", "wsl"}
  /\ NONE \notin Writers \cup Resizers

VARIABLES
  shell,    \* the child: running, held (descendants keep the PTY open) or gone
  pipe,     \* units of output in the PTY
  input,    \* units of input in the PTY
  written,  \* units of output written so far
  flags,    \* paused, close_requested, reader_abandoned, reader_done
  locks,    \* holders of the writer, master and output mutexes
  present,  \* whether the writer and the master have not been taken
  status,   \* status of the Runtime
  cursor,   \* end of the ring of the record
  size,     \* size of the PTY and of the screen
  reader,   \* reader thread: step, units read, units left in the decoder
  waiter,   \* waiter thread: step
  writer,   \* step of each write
  resizer,  \* step and size of each resize
  close,    \* step of the close
  calls,    \* bound: calls asked for so far
  late,     \* history: Output events after the Exit event
  platform  \* where this Runtime runs

pty == <<shell, pipe, input, written>>
vars == <<shell, pipe, input, written, flags, locks, present, status, cursor, size,
          reader, waiter, writer, resizer, close, calls, late, platform>>

Init ==
  /\ shell = "running" /\ pipe = 0 /\ input = 0 /\ written = 0
  /\ flags = [paused |-> FALSE, close_requested |-> FALSE, abandoned |-> FALSE, done |-> FALSE]
  /\ locks = [writer |-> NONE, master |-> NONE, output |-> NONE]
  /\ present = [writer |-> TRUE, master |-> TRUE]
  /\ status = "running" /\ cursor = 0
  /\ size = [pty |-> StartSize, screen |-> StartSize]
  /\ reader = [step |-> "gate", got |-> 0, kept |-> 0]
  /\ waiter = "wait"
  /\ writer = [w \in Writers |-> "idle"]
  /\ resizer = [r \in Resizers |-> [step |-> "idle", size |-> StartSize]]
  /\ close = "idle" /\ calls = 0 /\ late = 0
  /\ platform \in Platforms

Open == shell # "gone"
\* ConPTY, which also runs WSL, lets an OS resize wait until the output drains,
\* and ends the output only once its master is dropped.
Waits == platform # "unix"
\* Descendants of a WSL shell may keep the PTY open after it exits, and there the
\* waiter gives up on the reader after 750 ms.
Survivors == platform = "wsl"
DrainTimeout == platform = "wsl"
-----------------------------------------------------------------------------
(* The shell and its descendants.                                          *)
ShellWrites ==
  /\ Open /\ pipe < OutputCap /\ written < MaxOut
  /\ pipe' = pipe + 1 /\ written' = written + 1
  /\ UNCHANGED <<shell, input, flags, locks, present, status, cursor, size,
                 reader, waiter, writer, resizer, close, calls, late, platform>>

ShellReads ==
  /\ Open /\ input > 0
  /\ input' = input - 1
  /\ UNCHANGED <<shell, pipe, written, flags, locks, present, status, cursor, size,
                 reader, waiter, writer, resizer, close, calls, late, platform>>

Ends == shell' \in IF Survivors THEN {"held", "gone"} ELSE {"gone"}

ShellExits ==
  /\ shell = "running"
  /\ Ends
  /\ UNCHANGED <<pipe, input, written, flags, locks, present, status, cursor, size,
                 reader, waiter, writer, resizer, close, calls, late, platform>>

SurvivorsExit ==
  /\ shell = "held"
  /\ shell' = "gone"
  /\ UNCHANGED <<pipe, input, written, flags, locks, present, status, cursor, size,
                 reader, waiter, writer, resizer, close, calls, late, platform>>
-----------------------------------------------------------------------------
(* The reader thread.                                                      *)
ReaderIdle == UNCHANGED <<shell, input, written, flags, locks, present, status, size,
                          waiter, writer, resizer, close, calls, platform>>

\* while paused: sleep; then leave the loop if the waiter gave up.
Gate ==
  /\ reader.step = "gate" /\ ~flags.paused
  /\ reader' = [reader EXCEPT !.step = IF flags.abandoned THEN "leave" ELSE "read"]
  /\ ReaderIdle /\ UNCHANGED <<pipe, cursor, late>>

\* Data, or the end of a PTY nobody holds open (end of file or a read error).
Read ==
  /\ reader.step = "read"
  /\ \/ \E n \in 1 .. pipe :
          /\ pipe' = pipe - n
          /\ reader' = [reader EXCEPT !.step = "got", !.got = n]
     \/ /\ pipe = 0 /\ ~Open /\ (Waits => ~present.master)
        /\ reader' = [reader EXCEPT !.step = "leave"]
        /\ UNCHANGED pipe
  /\ ReaderIdle /\ UNCHANGED <<cursor, late>>

Got ==
  /\ reader.step = "got"
  /\ reader' = [reader EXCEPT !.step = IF flags.abandoned THEN "leave" ELSE "push"]
  /\ ReaderIdle /\ UNCHANGED <<pipe, cursor, late>>

\* The ring takes n units (TerminalOutput) and the Output event goes out.
Publish(n) ==
  /\ n > 0 => locks.output = NONE
  /\ cursor' = cursor + n
  /\ late' = IF n > 0 /\ status = "exited" THEN late + 1 ELSE late

Push ==
  /\ reader.step = "push"
  /\ \E keep \in 0 .. 1 :
       /\ Publish(reader.kept + reader.got - keep)
       /\ reader' = [step |-> "gate", got |-> 0, kept |-> keep]
  /\ ReaderIdle /\ UNCHANGED pipe

\* An abandoned reader returns without its tail and without reader_done.
Leave ==
  /\ reader.step = "leave"
  /\ reader' = [reader EXCEPT !.step = IF flags.abandoned THEN "over" ELSE "tail"]
  /\ ReaderIdle /\ UNCHANGED <<pipe, cursor, late>>

\* Fault: the incomplete character in the decoder is forgotten.
TailDropped ==
  /\ reader.step = "tail"
  /\ reader' = [reader EXCEPT !.step = "flag", !.kept = 0]
  /\ ReaderIdle /\ UNCHANGED <<pipe, cursor, late>>

Tail ==
  /\ reader.step = "tail"
  /\ Publish(reader.kept)
  /\ reader' = [reader EXCEPT !.step = "flag", !.kept = 0]
  /\ ReaderIdle /\ UNCHANGED pipe

ReaderDone ==
  /\ reader.step = "flag"
  /\ flags' = [flags EXCEPT !.done = TRUE]
  /\ reader' = [reader EXCEPT !.step = "over"]
  /\ UNCHANGED <<pty, locks, present, status, cursor, size, waiter, writer, resizer,
                 close, calls, late, platform>>

Reader == Gate \/ Read \/ Got \/ Push \/ Leave \/ Tail \/ ReaderDone
-----------------------------------------------------------------------------
(* The waiter thread.                                                      *)
WaiterIdle == UNCHANGED <<pty, cursor, size, reader, writer, resizer, close, calls, late, platform>>

ChildWait ==
  /\ waiter = "wait" /\ shell # "running"
  /\ waiter' = "unpause"
  /\ WaiterIdle /\ UNCHANGED <<flags, locks, present, status>>

Unpause ==
  /\ waiter = "unpause"
  /\ flags' = [flags EXCEPT !.paused = FALSE]
  /\ waiter' = "takeWriter"
  /\ WaiterIdle /\ UNCHANGED <<locks, present, status>>

TakeWriter ==
  /\ waiter = "takeWriter" /\ locks.writer = NONE
  /\ present' = [present EXCEPT !.writer = FALSE]
  /\ waiter' = "takeMaster"
  /\ WaiterIdle /\ UNCHANGED <<flags, locks, status>>

TakeMaster ==
  /\ waiter = "takeMaster" /\ locks.master = NONE
  /\ present' = [present EXCEPT !.master = FALSE]
  /\ waiter' = "drain"
  /\ WaiterIdle /\ UNCHANGED <<flags, locks, status>>

\* Fault: the waiter does not wait for the reader.
DrainNot ==
  /\ waiter = "drain"
  /\ waiter' = "abandon"
  /\ WaiterIdle /\ UNCHANGED <<flags, locks, present, status>>

Drain ==
  /\ waiter = "drain"
  /\ flags.done \/ DrainTimeout
  /\ waiter' = "abandon"
  /\ WaiterIdle /\ UNCHANGED <<flags, locks, present, status>>

Abandon ==
  /\ waiter = "abandon"
  /\ flags' = [flags EXCEPT !.abandoned = ~flags.done]
  /\ waiter' = "finish"
  /\ WaiterIdle /\ UNCHANGED <<locks, present, status>>

\* finish_record: the Exit event carries the cursor the ring has reached.
Finish ==
  /\ waiter = "finish" /\ locks.output = NONE
  /\ status' = "exited"
  /\ waiter' = "over"
  /\ WaiterIdle /\ UNCHANGED <<flags, locks, present>>

Waiter == ChildWait \/ Unpause \/ TakeWriter \/ TakeMaster \/ Drain \/ Abandon \/ Finish
-----------------------------------------------------------------------------
(* Calls of clients.                                                       *)
Call == calls < MaxCalls /\ calls' = calls + 1

SetPaused(paused) ==
  /\ Call
  /\ flags' = [flags EXCEPT !.paused = paused]
  /\ UNCHANGED <<pty, locks, present, status, cursor, size, reader, waiter, writer,
                 resizer, close, late, platform>>

\* A pane lifts every pause once its display has caught up or is hidden.
Resume ==
  /\ flags.paused
  /\ flags' = [flags EXCEPT !.paused = FALSE]
  /\ UNCHANGED <<pty, locks, present, status, cursor, size, reader, waiter, writer,
                 resizer, close, calls, late, platform>>

WriteIdle == UNCHANGED <<shell, pipe, written, flags, present, status, cursor, size, reader,
                         waiter, resizer, close, late, platform>>

Write(w) ==
  /\ writer[w] = "idle" /\ Call
  /\ writer' = [writer EXCEPT ![w] = "lock"]
  /\ WriteIdle /\ UNCHANGED <<input, locks>>

LockWriter(w) ==
  /\ writer[w] = "lock" /\ locks.writer = NONE
  /\ IF present.writer
       THEN writer' = [writer EXCEPT ![w] = "write"] /\ locks' = [locks EXCEPT !.writer = w]
       ELSE writer' = [writer EXCEPT ![w] = "idle"] /\ UNCHANGED locks
  /\ WriteIdle /\ UNCHANGED <<input, calls>>

\* write_all and flush: returns when the input fits, or fails on a closed PTY.
WriteAll(w) ==
  /\ writer[w] = "write"
  /\ \/ Open /\ input < InputCap /\ input' = input + 1
     \/ ~Open /\ UNCHANGED input
  /\ writer' = [writer EXCEPT ![w] = "idle"]
  /\ locks' = [locks EXCEPT !.writer = NONE]
  /\ WriteIdle /\ UNCHANGED calls

ResizeIdle == UNCHANGED <<pty, flags, present, status, cursor, reader, waiter, writer, close, late, platform>>
ResizerTo(r, step) == resizer' = [resizer EXCEPT ![r].step = step]

\* The guards of a resize are dropped.
Unlock(r) == locks' = [locks EXCEPT !.master = IF @ = r THEN NONE ELSE @,
                                    !.output = IF @ = r THEN NONE ELSE @]

Resize(r, new) ==
  /\ resizer[r].step = "idle" /\ Call
  /\ resizer' = [resizer EXCEPT ![r] = [step |-> "lock", size |-> new]]
  /\ ResizeIdle /\ UNCHANGED <<locks, size>>

\* Fault: the output lock is held while the OS call waits.
LockMasterAndOutput(r) ==
  /\ resizer[r].step = "lock" /\ locks.master = NONE /\ locks.output = NONE
  /\ IF present.master
       THEN ResizerTo(r, "os") /\ locks' = [locks EXCEPT !.master = r, !.output = r]
       ELSE ResizerTo(r, "idle") /\ UNCHANGED locks
  /\ ResizeIdle /\ UNCHANGED <<size, calls>>

LockMaster(r) ==
  /\ resizer[r].step = "lock" /\ locks.master = NONE
  /\ IF present.master
       THEN ResizerTo(r, "os") /\ locks' = [locks EXCEPT !.master = r]
       ELSE ResizerTo(r, "idle") /\ UNCHANGED locks
  /\ ResizeIdle /\ UNCHANGED <<size, calls>>

\* Fault: the master is released before the screen catches up.
ResizePtyEarly(r) ==
  /\ resizer[r].step = "os"
  /\ Waits => pipe = 0
  /\ size' = [size EXCEPT !.pty = resizer[r].size]
  /\ ResizerTo(r, "screen")
  /\ locks' = [locks EXCEPT !.master = NONE]
  /\ ResizeIdle /\ UNCHANGED calls

\* The OS call; ConPTY may wait until its output pipe has drained.  If it fails the
\* resize returns and leaves the screen alone.
ResizePty(r) ==
  /\ resizer[r].step = "os"
  /\ Waits => pipe = 0
  /\ \/ /\ size' = [size EXCEPT !.pty = resizer[r].size]
        /\ ResizerTo(r, "screen")
        /\ UNCHANGED locks
     \/ ResizerTo(r, "idle") /\ Unlock(r) /\ UNCHANGED size
  /\ ResizeIdle /\ UNCHANGED calls

\* The screen catches up under the output lock, then both locks go.
ResizeScreen(r) ==
  /\ resizer[r].step = "screen"
  /\ size' = [size EXCEPT !.screen = resizer[r].size]
  /\ ResizerTo(r, "idle") /\ Unlock(r)
  /\ ResizeIdle /\ UNCHANGED calls

CloseIdle == UNCHANGED <<pipe, input, written, locks, present, status, cursor, size, reader,
                         waiter, writer, resizer, calls, late, platform>>

Close ==
  /\ close = "idle"
  /\ IF status = "exited" THEN close' = "over" /\ UNCHANGED flags
     ELSE close' = "unpause" /\ flags' = [flags EXCEPT !.close_requested = TRUE]
  /\ CloseIdle /\ UNCHANGED shell

CloseUnpause ==
  /\ close = "unpause"
  /\ flags' = [flags EXCEPT !.paused = FALSE]
  /\ close' = "kill"
  /\ CloseIdle /\ UNCHANGED shell

Kill ==
  /\ close = "kill"
  /\ IF shell = "running" THEN Ends ELSE UNCHANGED shell
  /\ close' = "over"
  /\ CloseIdle /\ UNCHANGED flags

WriteStep(w)  == LockWriter(w) \/ WriteAll(w)
ResizeStep(r) == LockMaster(r) \/ ResizePty(r) \/ ResizeScreen(r)
CloseStep     == CloseUnpause \/ Kill

Next ==
  \/ ShellWrites \/ ShellReads \/ ShellExits \/ SurvivorsExit
  \/ Reader \/ Waiter
  \/ Resume \/ \E paused \in BOOLEAN : SetPaused(paused)
  \/ \E w \in Writers : Write(w) \/ WriteStep(w)
  \/ \E r \in Resizers : ResizeStep(r) \/ \E new \in Sizes : Resize(r, new)
  \/ Close \/ CloseStep

Spec == Init /\ [][Next]_vars

(* The OS runs every thread that can run, a pane lifts every pause, and the *)
(* mutexes are free in the end because the calls of clients are bounded.    *)
(* The shell owes nothing.                                                  *)
FairSpec ==
  /\ Spec
  /\ WF_vars(Reader) /\ WF_vars(Waiter) /\ WF_vars(Resume) /\ WF_vars(CloseStep)
  /\ \A w \in Writers : WF_vars(WriteStep(w))
  /\ \A r \in Resizers : WF_vars(ResizeStep(r))
-----------------------------------------------------------------------------
TypeOK ==
  /\ shell \in {"running", "held", "gone"}
  /\ pipe \in 0 .. OutputCap /\ input \in 0 .. InputCap /\ written \in 0 .. MaxOut
  /\ flags \in [paused : BOOLEAN, close_requested : BOOLEAN, abandoned : BOOLEAN, done : BOOLEAN]
  /\ locks \in [writer : Writers \cup {NONE}, master : Resizers \cup {NONE},
                output : Resizers \cup {NONE}]
  /\ present \in [writer : BOOLEAN, master : BOOLEAN]
  /\ status \in {"running", "exited"} /\ cursor \in Nat /\ late \in Nat
  /\ size \in [pty : Sizes \cup {StartSize}, screen : Sizes \cup {StartSize}]
  /\ reader \in [step : {"gate", "read", "got", "push", "leave", "tail", "flag", "over"},
                 got : 0 .. OutputCap, kept : 0 .. 1]
  /\ waiter \in {"wait", "unpause", "takeWriter", "takeMaster", "drain", "abandon", "finish", "over"}
  /\ writer \in [Writers -> {"idle", "lock", "write"}]
  /\ resizer \in [Resizers -> [step : {"idle", "lock", "os", "screen"}, size : Sizes \cup {StartSize}]]
  /\ close \in {"idle", "unpause", "kill", "over"} /\ calls \in 0 .. MaxCalls

(* A Runtime reported as exited by a reader that finished has all of its    *)
(* output in the ring, the tail of an incomplete character included.        *)
ExitCoversOutput == status = "exited" /\ ~flags.abandoned => cursor = written

(* An abandoned reader publishes at most the chunk it had in hand after the *)
(* Exit event; without the drain timeout nothing follows the Exit event.    *)
ExitIsLast == late <= IF DrainTimeout THEN 1 ELSE 0

(* Concurrent resizes cannot leave the screen at an older size than the PTY. *)
ScreenMatchesPty == locks.master = NONE => size.screen = size.pty

(* The exit of the shell is reported although writes and resizes hold the   *)
(* mutexes the waiter needs and the output was paused.                      *)
ExitReported == shell = "gone" ~> status = "exited"

=============================================================================
