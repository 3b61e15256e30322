---------------------------- MODULE LocalPty_proofs ----------------------------
(***************************************************************************)
(* Theorems about a local Runtime, for any number of writes, resizes, sizes *)
(* and any buffers: its exit follows its output and covers all of it, and   *)
(* the screen never stays at an older size than the PTY.                    *)
(***************************************************************************)
EXTENDS LocalPty, TLAPS

\* The master mutex is held from the OS call of a resize until the screen has
\* followed; in between only the resize that holds it makes the sizes differ.
Sized ==
  /\ \A r \in Resizers : resizer[r].step \in {"os", "screen"} => locks.master = r
  /\ \A r \in Resizers : resizer[r].step = "screen" => size.pty = resizer[r].size
  /\ size.screen # size.pty => \E r \in Resizers : resizer[r].step = "screen"

\* The exit is reported after the reader is done, or after it was abandoned,
\* which makes it leave at its next look at the flag.
Drained ==
  /\ status = "exited" => waiter = "over"
  /\ waiter \in {"finish", "over"} => flags.done \/ flags.abandoned
  /\ waiter \in {"abandon", "finish", "over"} /\ ~DrainTimeout => flags.done
  /\ flags.abandoned => waiter \in {"finish", "over"} /\ DrainTimeout
  /\ flags.done => reader.step = "over"
  /\ late = 0 \/ (late = 1 /\ flags.abandoned /\ reader.step \in {"gate", "leave", "flag", "over"})

\* Every unit the shell wrote is in the PTY, in the hands of the reader or in the
\* ring, and a reader that ends by itself has seen a PTY that stays empty.
AllRead == shell = "gone" /\ pipe = 0 /\ reader.got = 0
Counted ==
  /\ written = cursor + reader.kept + reader.got + pipe
  /\ reader.step \in {"got", "push"} => reader.got >= 1
  /\ reader.step \in {"gate", "read"} => reader.got = 0
  /\ reader.step = "leave" => flags.abandoned \/ AllRead
  /\ reader.step \in {"tail", "flag"} => AllRead
  /\ reader.step = "flag" => reader.kept = 0
  /\ flags.done => AllRead /\ reader.kept = 0
-----------------------------------------------------------------------------
(* The shape of the state, and where the output is.                         *)

\* The records of the state keep their fields under the updates of the actions.
LEMMA FlagsTyped ==
  ASSUME NEW f \in [paused : BOOLEAN, close_requested : BOOLEAN, abandoned : BOOLEAN, done : BOOLEAN],
         NEW g, NEW v \in BOOLEAN,
         \/ g = f
         \/ g = [f EXCEPT !.paused = v]
         \/ g = [f EXCEPT !.close_requested = v]
         \/ g = [f EXCEPT !.abandoned = v]
         \/ g = [f EXCEPT !.done = v]
  PROVE  g \in [paused : BOOLEAN, close_requested : BOOLEAN, abandoned : BOOLEAN, done : BOOLEAN]
<1>1. CASE g = f
  BY <1>1
<1>2. CASE g = [f EXCEPT !.paused = v]
  BY <1>2
<1>3. CASE g = [f EXCEPT !.close_requested = v]
  BY <1>3
<1>4. CASE g = [f EXCEPT !.abandoned = v]
  BY <1>4
<1>5. CASE g = [f EXCEPT !.done = v]
  BY <1>5
<1> QED
  BY <1>1, <1>2, <1>3, <1>4, <1>5

\* A handle that is taken leaves a record of the same kind.
LEMMA PresentTyped ==
  ASSUME NEW p \in [writer : BOOLEAN, master : BOOLEAN], NEW q,
         q = p \/ q = [p EXCEPT !.writer = FALSE] \/ q = [p EXCEPT !.master = FALSE]
  PROVE  q \in [writer : BOOLEAN, master : BOOLEAN]
<1>1. CASE q = p
  BY <1>1
<1>2. CASE q = [p EXCEPT !.writer = FALSE]
  BY <1>2
<1>3. CASE q = [p EXCEPT !.master = FALSE]
  BY <1>3
<1> QED
  BY <1>1, <1>2, <1>3

\* So does the reader that has handed out its tail.
LEMMA TailTyped ==
  ASSUME NEW Steps, NEW Units, NEW q \in [step : Steps, got : Units, kept : 0 .. 1],
         "flag" \in Steps
  PROVE  [q EXCEPT !.step = "flag", !.kept = 0] \in [step : Steps, got : Units, kept : 0 .. 1]
<1>1. PICK p : p = [q EXCEPT !.step = "flag"]
  OBVIOUS
<1>2. p \in [step : Steps, got : Units, kept : 0 .. 1]
  BY <1>1
<1>3. [p EXCEPT !.kept = 0] \in [step : Steps, got : Units, kept : 0 .. 1]
  BY <1>2
<1> QED
  BY <1>1, <1>3

\* What the reader thread changes keeps the state well typed and its output counted.
LEMMA ReaderCounts == ASSUME TypeOK, Counted, Reader PROVE TypeOK' /\ Counted'
<1> USE PtyAssumption DEF TypeOK, ReaderIdle, AllRead, Open
<1>1. /\ reader.step \in {"gate", "read", "got", "push", "leave", "tail", "flag", "over"}
      /\ reader.got \in 0 .. OutputCap /\ reader.kept \in 0 .. 1
      /\ pipe \in 0 .. OutputCap /\ cursor \in Nat /\ late \in Nat /\ written \in Nat
  OBVIOUS
<1>2. CASE Gate
  BY <1>1, <1>2 DEF Gate, Counted
<1>3. CASE Read
  <2>1. ASSUME NEW n \in 1 .. pipe, pipe' = pipe - n, reader.step = "read",
               reader' = [reader EXCEPT !.step = "got", !.got = n],
               UNCHANGED <<cursor, late>>, ReaderIdle
        PROVE  TypeOK' /\ Counted'
    <3>1. reader'.step = "got" /\ reader'.got = n /\ reader'.kept = reader.kept
      BY <2>1
    <3>2. pipe' \in 0 .. OutputCap /\ n \in 0 .. OutputCap
      BY <1>1, <2>1
    <3>3. TypeOK'
      <4>1. reader' \in [step : {"gate", "read", "got", "push", "leave", "tail", "flag", "over"},
                         got : 0 .. OutputCap, kept : 0 .. 1]
        BY <2>1, <3>2
      <4>2. UNCHANGED <<shell, input, written, flags, locks, present, status, size, cursor, late,
                        waiter, writer, resizer, close, calls>>
        BY <2>1
      <4> QED
        BY <3>2, <4>1, <4>2
    <3>4. reader.got = 0 /\ written = cursor + reader.kept + reader.got + pipe
      BY <2>1 DEF Counted
    <3> QED
      BY <1>1, <2>1, <3>1, <3>3, <3>4 DEF Counted
  <2>2. CASE pipe = 0 /\ ~Open /\ reader' = [reader EXCEPT !.step = "leave"] /\ UNCHANGED pipe
    BY <1>1, <1>3, <2>2 DEF Read, Counted
  <2> QED
    BY <1>3, <2>1, <2>2 DEF Read
<1>4. CASE Got
  BY <1>1, <1>4 DEF Got, Counted
<1>5. CASE Push
  <2>1. PICK keep \in 0 .. 1 : /\ Publish(reader.kept + reader.got - keep)
                               /\ reader' = [step |-> "gate", got |-> 0, kept |-> keep]
    BY <1>5 DEF Push
  <2>2. reader.step = "push" /\ reader.got >= 1 /\ ~flags.done
        /\ written = cursor + reader.kept + reader.got + pipe
    BY <1>5 DEF Push, Counted, AllRead
  <2>3. cursor' = cursor + (reader.kept + reader.got - keep) /\ cursor' \in Nat /\ late' \in Nat
    BY <1>1, <2>1, <2>2 DEF Publish
  <2>4. UNCHANGED pipe /\ ReaderIdle
    BY <1>5 DEF Push
  <2>5. TypeOK'
    BY <2>1, <2>3, <2>4
  <2> QED
    BY <1>1, <2>1, <2>2, <2>3, <2>4, <2>5 DEF Counted
<1>6. CASE Leave
  BY <1>1, <1>6 DEF Leave, Counted
<1>7. CASE Tail
  <2>1. cursor' = cursor + reader.kept /\ cursor' \in Nat /\ late' \in Nat
    BY <1>1, <1>7 DEF Tail, Publish
  <2>2. reader'.step = "flag" /\ reader'.kept = 0 /\ reader'.got = reader.got /\ reader.step = "tail"
    BY <1>7 DEF Tail
  <2>3. UNCHANGED pipe /\ ReaderIdle
    BY <1>7 DEF Tail
  <2>4. TypeOK'
    <3>1. reader' \in [step : {"gate", "read", "got", "push", "leave", "tail", "flag", "over"},
                       got : 0 .. OutputCap, kept : 0 .. 1]
      <4>1. reader' = [reader EXCEPT !.step = "flag", !.kept = 0]
        BY <1>7 DEF Tail
      <4> QED
        BY <4>1, TailTyped
    <3>2. UNCHANGED <<shell, input, written, flags, locks, present, status, size, pipe,
                      waiter, writer, resizer, close, calls>>
      BY <2>3
    <3> QED
      BY <2>1, <3>1, <3>2
  <2> QED
    BY <1>1, <2>1, <2>2, <2>3, <2>4 DEF Counted
<1>8. CASE ReaderDone
  <2>1. reader.step = "flag" /\ reader'.step = "over" /\ reader'.kept = reader.kept
        /\ reader'.got = reader.got /\ flags'.done /\ UNCHANGED <<shell, pipe, written, cursor>>
    BY <1>8 DEF ReaderDone, pty
  <2>2. TypeOK'
    <3>1. reader' \in [step : {"gate", "read", "got", "push", "leave", "tail", "flag", "over"},
                       got : 0 .. OutputCap, kept : 0 .. 1]
      BY <1>8 DEF ReaderDone
    <3>2. flags' \in [paused : BOOLEAN, close_requested : BOOLEAN, abandoned : BOOLEAN, done : BOOLEAN]
      BY <1>8 DEF ReaderDone
    <3>3. UNCHANGED <<shell, input, written, locks, present, status, size, pipe, cursor, late,
                      waiter, writer, resizer, close, calls>>
      BY <1>8 DEF ReaderDone, pty
    <3> QED
      BY <3>1, <3>2, <3>3
  <2> QED
    BY <1>1, <2>1, <2>2 DEF Counted
<1> QED
  BY <1>2, <1>3, <1>4, <1>5, <1>6, <1>7, <1>8 DEF Reader

\* What the shell and the other threads do never takes output out of sight.
LEMMA OthersCount ==
  ASSUME Counted, UNCHANGED <<reader, cursor>>, flags'.done = flags.done,
         flags.abandoned => flags'.abandoned, shell = "gone" => shell' = "gone",
         \/ UNCHANGED <<pipe, written>>
         \/ shell # "gone" /\ pipe' = pipe + 1 /\ written' = written + 1,
         {written, cursor, pipe, reader.kept, reader.got} \subseteq Nat
  PROVE  Counted'
BY DEF Counted, AllRead

\* The other threads and the shell keep the state well typed and its output counted.
LEMMA RestCounts ==
  ASSUME TypeOK, Counted, Drained, [Next]_vars, ~Reader
  PROVE  TypeOK' /\ Counted'
<1> USE PtyAssumption DEF TypeOK
<1>1. {written, cursor, pipe, reader.kept, reader.got} \subseteq Nat
  OBVIOUS
<1>2. CASE ShellWrites \/ ShellReads \/ ShellExits \/ SurvivorsExit
  <2>1. TypeOK'
    BY <1>2 DEF ShellWrites, ShellReads, ShellExits, SurvivorsExit, Ends
  <2>2. UNCHANGED <<reader, cursor, flags>>
    BY <1>2 DEF ShellWrites, ShellReads, ShellExits, SurvivorsExit
  <2>3. \/ UNCHANGED <<pipe, written>>
        \/ shell # "gone" /\ pipe' = pipe + 1 /\ written' = written + 1
    BY <1>2 DEF ShellWrites, ShellReads, ShellExits, SurvivorsExit, Open
  <2>4. shell = "gone" => shell' = "gone"
    BY <1>2 DEF ShellWrites, ShellReads, ShellExits, SurvivorsExit
  <2> QED
    BY <1>1, <2>1, <2>2, <2>3, <2>4, OthersCount
<1>3. CASE Waiter
  <2>1. TypeOK'
    <3>1. waiter' \in {"wait", "unpause", "takeWriter", "takeMaster", "drain", "abandon", "finish", "over"}
          /\ status' \in {"running", "exited"}
      BY <1>3 DEF Waiter, ChildWait, Unpause, TakeWriter, TakeMaster, Drain, Abandon, Finish
    <3>2. flags' \in [paused : BOOLEAN, close_requested : BOOLEAN, abandoned : BOOLEAN, done : BOOLEAN]
      <4>1. \/ flags' = flags
            \/ flags' = [flags EXCEPT !.paused = FALSE]
            \/ flags' = [flags EXCEPT !.abandoned = ~flags.done]
        BY <1>3 DEF Waiter, ChildWait, Unpause, TakeWriter, TakeMaster, Drain, Abandon, Finish
      <4>2. (~flags.done) \in BOOLEAN /\ FALSE \in BOOLEAN
        OBVIOUS
      <4>3. flags \in [paused : BOOLEAN, close_requested : BOOLEAN, abandoned : BOOLEAN, done : BOOLEAN]
        OBVIOUS
      <4> HIDE DEF TypeOK
      <4> QED
        BY <4>1, <4>2, <4>3, FlagsTyped
    <3>3. present' \in [writer : BOOLEAN, master : BOOLEAN]
      <4>1. \/ present' = present
            \/ present' = [present EXCEPT !.writer = FALSE]
            \/ present' = [present EXCEPT !.master = FALSE]
        BY <1>3 DEF Waiter, ChildWait, Unpause, TakeWriter, TakeMaster, Drain, Abandon, Finish
      <4> QED
        BY <4>1, PresentTyped
    <3>4. UNCHANGED <<shell, pipe, input, written, locks, cursor, size, reader, writer, resizer, close, calls, late>>
      BY <1>3 DEF Waiter, ChildWait, Unpause, TakeWriter, TakeMaster, Drain, Abandon, Finish, WaiterIdle, pty
    <3> QED
      BY <3>1, <3>2, <3>3, <3>4
  <2>2. UNCHANGED <<reader, cursor, pipe, written, shell>>
    BY <1>3 DEF Waiter, ChildWait, Unpause, TakeWriter, TakeMaster, Drain, Abandon, Finish, WaiterIdle, pty
  <2>3. flags'.done = flags.done /\ (flags.abandoned => flags'.abandoned)
    BY <1>3 DEF Waiter, ChildWait, Unpause, TakeWriter, TakeMaster, Drain, Abandon, Finish, Drained
  <2> QED
    BY <1>1, <2>1, <2>2, <2>3, OthersCount
<1>4. CASE Resume \/ (\E paused \in BOOLEAN : SetPaused(paused)) \/ Close \/ CloseStep
  <2>1. TypeOK'
    <3>1. flags' \in [paused : BOOLEAN, close_requested : BOOLEAN, abandoned : BOOLEAN, done : BOOLEAN]
      <4>1. \/ flags' = flags
            \/ \E paused \in BOOLEAN : flags' = [flags EXCEPT !.paused = paused]
            \/ flags' = [flags EXCEPT !.close_requested = TRUE]
        BY <1>4 DEF Resume, SetPaused, Close, CloseStep, CloseUnpause, Kill
      <4> QED
        BY <4>1, FlagsTyped, TRUE \in BOOLEAN
    <3>2. shell' \in {"running", "held", "gone"} /\ close' \in {"idle", "unpause", "kill", "over"}
      BY <1>4 DEF Resume, SetPaused, Close, CloseStep, CloseUnpause, Kill, Ends, CloseIdle, pty
    <3>3. calls' \in 0 .. MaxCalls
      BY <1>4 DEF Resume, SetPaused, Call, Close, CloseStep, CloseUnpause, Kill, CloseIdle
    <3>4. UNCHANGED <<pipe, input, written, locks, present, status, cursor, size, reader, waiter, writer, resizer, late>>
      BY <1>4 DEF Resume, SetPaused, Close, CloseStep, CloseUnpause, Kill, CloseIdle, pty
    <3> QED
      BY <3>1, <3>2, <3>3, <3>4
  <2>2. UNCHANGED <<reader, cursor, pipe, written>> /\ (shell = "gone" => shell' = "gone")
    BY <1>4 DEF Resume, SetPaused, Close, CloseStep, CloseUnpause, Kill, Ends, CloseIdle, pty
  <2>3. flags'.done = flags.done /\ flags'.abandoned = flags.abandoned
    BY <1>4 DEF Resume, SetPaused, Close, CloseStep, CloseUnpause, Kill
  <2> QED
    BY <1>1, <2>1, <2>2, <2>3, OthersCount
<1>5. ASSUME NEW w \in Writers, Write(w) \/ WriteStep(w) PROVE TypeOK' /\ Counted'
  <2>1. TypeOK'
    BY <1>5 DEF Write, WriteStep, LockWriter, WriteAll, Call, WriteIdle
  <2>2. UNCHANGED <<reader, cursor, pipe, written, shell, flags>>
    BY <1>5 DEF Write, WriteStep, LockWriter, WriteAll, WriteIdle
  <2> QED
    BY <1>1, <2>1, <2>2, OthersCount
<1>6. ASSUME NEW r \in Resizers, ResizeStep(r) \/ \E new \in Sizes : Resize(r, new)
      PROVE  TypeOK' /\ Counted'
  <2>1. TypeOK'
    <3>1. resizer' \in [Resizers -> [step : {"idle", "lock", "os", "screen"}, size : Sizes \cup {StartSize}]]
      BY <1>6 DEF ResizeStep, LockMaster, ResizePty, ResizeScreen, Resize, ResizerTo
    <3>2. locks' \in [writer : Writers \cup {NONE}, master : Resizers \cup {NONE},
                      output : Resizers \cup {NONE}]
      <4>1. CASE locks' = locks
        BY <4>1
      <4>2. CASE LockMaster(r)
        BY <4>2 DEF LockMaster
      <4>3. CASE Unlock(r)
        BY <4>3 DEF Unlock
      <4> QED
        BY <1>6, <4>1, <4>2, <4>3 DEF ResizeStep, ResizePty, ResizeScreen, Resize
    <3>3. size' \in [pty : Sizes \cup {StartSize}, screen : Sizes \cup {StartSize}]
      BY <1>6 DEF ResizeStep, LockMaster, ResizePty, ResizeScreen, Resize
    <3>4. calls' \in 0 .. MaxCalls
      BY <1>6 DEF ResizeStep, LockMaster, ResizePty, ResizeScreen, Resize, Call
    <3>5. UNCHANGED <<shell, pipe, input, written, flags, present, status, cursor, reader, waiter, writer, close, late>>
      BY <1>6 DEF ResizeStep, LockMaster, ResizePty, ResizeScreen, Resize, ResizeIdle, pty
    <3> QED
      BY <3>1, <3>2, <3>3, <3>4, <3>5
  <2>2. UNCHANGED <<reader, cursor, pipe, written, shell, flags>>
    BY <1>6 DEF ResizeStep, LockMaster, ResizePty, ResizeScreen, Resize, ResizeIdle, pty
  <2> QED
    BY <1>1, <2>1, <2>2, OthersCount
<1>7. CASE UNCHANGED vars
  <2>1. TypeOK'
    BY <1>7 DEF vars
  <2> QED
    BY <1>1, <1>7, <2>1, OthersCount DEF vars
<1> QED
  BY <1>2, <1>3, <1>4, <1>5, <1>6, <1>7 DEF Next

\* Every step of the threads and of the shell keeps the exit behind the output.
LEMMA StepDrains == ASSUME TypeOK, Drained, [Next]_vars PROVE Drained'
<1> USE DEF TypeOK, Drained
<1>1. CASE Reader
  <2>1. UNCHANGED <<status, waiter, platform>> /\ flags'.abandoned = flags.abandoned
        /\ (flags.done => flags'.done)
    BY <1>1 DEF Reader, Gate, Read, Got, Push, Leave, Tail, ReaderDone, ReaderIdle
  <2>2. CASE Gate \/ Read \/ Got \/ Leave
    BY <2>1, <2>2 DEF Gate, Read, Got, Leave, ReaderIdle, DrainTimeout
  <2>3. CASE Push
    <3>1. reader.step = "push" /\ reader'.step = "gate" /\ flags' = flags
          /\ (late' = late \/ (late' = late + 1 /\ status = "exited"))
      BY <2>3 DEF Push, Publish, ReaderIdle
    <3> QED
      BY <2>1, <3>1 DEF DrainTimeout
  <2>4. CASE Tail
    <3>1. reader.step = "tail" /\ reader'.step = "flag" /\ flags' = flags
          /\ (late' = late \/ (late' = late + 1 /\ status = "exited"))
      BY <2>4 DEF Tail, Publish, ReaderIdle
    <3> QED
      BY <2>1, <3>1 DEF DrainTimeout
  <2>5. CASE ReaderDone
    BY <2>1, <2>5 DEF ReaderDone, DrainTimeout
  <2> QED
    BY <1>1, <2>2, <2>3, <2>4, <2>5 DEF Reader
<1>2. CASE Waiter
  <2>1. UNCHANGED <<reader, late, platform>>
    BY <1>2 DEF Waiter, ChildWait, Unpause, TakeWriter, TakeMaster, Drain, Abandon, Finish, WaiterIdle
  <2>2. CASE ChildWait \/ Unpause \/ TakeWriter \/ TakeMaster \/ Drain
    BY <2>1, <2>2 DEF ChildWait, Unpause, TakeWriter, TakeMaster, Drain, DrainTimeout
  <2>3. CASE Abandon
    BY <2>1, <2>3 DEF Abandon, DrainTimeout
  <2>4. CASE Finish
    BY <2>1, <2>4 DEF Finish, DrainTimeout
  <2> QED
    BY <1>2, <2>2, <2>3, <2>4 DEF Waiter
<1>3. CASE \/ ShellWrites \/ ShellReads \/ ShellExits \/ SurvivorsExit
           \/ Resume \/ (\E paused \in BOOLEAN : SetPaused(paused)) \/ Close \/ CloseStep
           \/ (\E w \in Writers : Write(w) \/ WriteStep(w))
           \/ (\E r \in Resizers : ResizeStep(r) \/ \E new \in Sizes : Resize(r, new))
           \/ UNCHANGED vars
  <2>1. UNCHANGED <<status, waiter, reader, late, platform>>
    BY <1>3 DEF ShellWrites, ShellReads, ShellExits, SurvivorsExit, Resume, SetPaused, Close,
                CloseStep, CloseUnpause, Kill, CloseIdle, Write, WriteStep, LockWriter, WriteAll,
                WriteIdle, ResizeStep, LockMaster, ResizePty, ResizeScreen, Resize, ResizeIdle, vars
  <2>2. flags'.done = flags.done /\ flags'.abandoned = flags.abandoned
    BY <1>3 DEF ShellWrites, ShellReads, ShellExits, SurvivorsExit, Resume, SetPaused, Close,
                CloseStep, CloseUnpause, Kill, CloseIdle, Write, WriteStep, LockWriter, WriteAll,
                WriteIdle, ResizeStep, LockMaster, ResizePty, ResizeScreen, Resize, ResizeIdle, vars
  <2> QED
    BY <2>1, <2>2 DEF DrainTimeout
<1> QED
  BY <1>1, <1>2, <1>3 DEF Next

(* Every unit of output is accounted for, whichever threads of                *)
(* local_pty_backend.rs interleave and whichever platform the shell runs on.  *)
THEOREM OutputAccounted == Spec => [](TypeOK /\ Counted /\ Drained)
<1>1. Init => TypeOK /\ Counted /\ Drained
  BY PtyAssumption DEF Init, TypeOK, Counted, Drained
<1>2. (TypeOK /\ Counted /\ Drained) /\ [Next]_vars => (TypeOK /\ Counted /\ Drained)'
  BY ReaderCounts, RestCounts, StepDrains
<1> QED
  BY <1>1, <1>2, PTL DEF Spec

(* The threads, locks and buffers of a local Runtime keep their shape.        *)
THEOREM TypeCorrect == Spec => []TypeOK
BY OutputAccounted, PTL

(* A Runtime reported as exited by a reader that finished has all of its      *)
(* output in the ring, for any buffer and any amount of output.               *)
THEOREM ExitIsComplete == Spec => []ExitCoversOutput
<1>1. TypeOK /\ Counted /\ Drained => ExitCoversOutput
  BY DEF TypeOK, Counted, Drained, AllRead, ExitCoversOutput
<1> QED
  BY <1>1, OutputAccounted, PTL

(* Nothing follows the Exit event of a Runtime whose reader is waited for; a  *)
(* reader that was given up publishes at most the chunk it had in hand.       *)
THEOREM ExitComesLast == Spec => []ExitIsLast
<1>1. Drained => ExitIsLast
  BY DEF Drained, ExitIsLast, DrainTimeout
<1> QED
  BY <1>1, OutputAccounted, PTL
-----------------------------------------------------------------------------
(* The sizes of the PTY and of the screen.                                    *)

\* Nothing but the calls of resize touches the master mutex and the sizes.
LEMMA StepSizes == ASSUME TypeOK, Sized, [Next]_vars PROVE Sized'
<1> USE PtyAssumption DEF TypeOK, Sized
<1>1. ASSUME NEW r \in Resizers, NEW new \in Sizes, Resize(r, new) PROVE Sized'
  <2>1. UNCHANGED <<locks, size>> /\ resizer[r].step = "idle" /\ resizer'[r].step = "lock"
        /\ \A q \in Resizers : q # r => resizer'[q] = resizer[q]
    BY <1>1 DEF Resize
  <2> QED
    BY <2>1
<1>2. ASSUME NEW r \in Resizers, LockMaster(r) PROVE Sized'
  <2>1. /\ UNCHANGED size /\ resizer[r].step = "lock" /\ locks.master = NONE
        /\ \/ resizer'[r].step = "os" /\ locks'.master = r
           \/ resizer'[r].step = "idle" /\ locks'.master = NONE
        /\ \A q \in Resizers : q # r => resizer'[q] = resizer[q]
    BY <1>2 DEF LockMaster, ResizerTo
  <2>2. \A q \in Resizers : resizer[q].step \notin {"os", "screen"}
    BY <2>1
  <2> QED
    BY <2>1, <2>2
<1>3. ASSUME NEW r \in Resizers, ResizePty(r) PROVE Sized'
  <2>1. resizer[r].step = "os" /\ \A q \in Resizers : q # r => resizer'[q] = resizer[q]
    BY <1>3 DEF ResizePty, ResizerTo
  <2>2. \A q \in Resizers : q # r => resizer[q].step \notin {"os", "screen"}
    BY <2>1
  <2>3. CASE size' = [size EXCEPT !.pty = resizer[r].size] /\ ResizerTo(r, "screen") /\ UNCHANGED locks
    <3>1. /\ UNCHANGED locks /\ resizer'[r].step = "screen"
          /\ resizer'[r].size = resizer[r].size /\ size'.pty = resizer[r].size
      BY <2>3 DEF ResizerTo
    <3> QED
      BY <2>1, <2>2, <3>1
  <2>4. CASE ResizerTo(r, "idle") /\ Unlock(r) /\ UNCHANGED size
    <3>1. UNCHANGED size /\ resizer'[r].step = "idle" /\ locks.master = r /\ locks'.master = NONE
      BY <2>1, <2>4 DEF ResizerTo, Unlock
    <3> QED
      BY <2>1, <2>2, <3>1
  <2> QED
    BY <1>3, <2>3, <2>4 DEF ResizePty
<1>4. ASSUME NEW r \in Resizers, ResizeScreen(r) PROVE Sized'
  <2>1. /\ resizer[r].step = "screen" /\ resizer'[r].step = "idle"
        /\ size'.screen = resizer[r].size /\ size'.pty = size.pty
        /\ \A q \in Resizers : q # r => resizer'[q] = resizer[q]
    BY <1>4 DEF ResizeScreen, ResizerTo, Unlock
  <2>2. \A q \in Resizers : q # r => resizer[q].step \notin {"os", "screen"}
    BY <2>1
  <2> QED
    BY <2>1, <2>2
<1>5. CASE \/ ShellWrites \/ ShellReads \/ ShellExits \/ SurvivorsExit \/ Reader \/ Waiter
           \/ Resume \/ (\E paused \in BOOLEAN : SetPaused(paused)) \/ Close \/ CloseStep
           \/ (\E w \in Writers : Write(w) \/ WriteStep(w)) \/ UNCHANGED vars
  <2>1. CASE ShellWrites \/ ShellReads \/ ShellExits \/ SurvivorsExit \/ UNCHANGED vars
    BY <2>1 DEF ShellWrites, ShellReads, ShellExits, SurvivorsExit, vars
  <2>2. CASE Reader
    <3>1. UNCHANGED <<resizer, size, locks>>
      BY <2>2 DEF Reader, Gate, Read, Got, Push, Leave, Tail, ReaderDone, ReaderIdle
    <3> QED
      BY <3>1
  <2>3. CASE Waiter
    <3>1. UNCHANGED <<resizer, size, locks>>
      BY <2>3 DEF Waiter, ChildWait, Unpause, TakeWriter, TakeMaster, Drain, Abandon, Finish, WaiterIdle
    <3> QED
      BY <3>1
  <2>4. CASE Resume \/ (\E paused \in BOOLEAN : SetPaused(paused)) \/ Close \/ CloseStep
    <3>1. UNCHANGED <<resizer, size, locks>>
      BY <2>4 DEF Resume, SetPaused, Close, CloseStep, CloseUnpause, Kill, CloseIdle
    <3> QED
      BY <3>1
  <2>5. ASSUME NEW w \in Writers, Write(w) \/ WriteStep(w) PROVE Sized'
    <3>1. UNCHANGED <<resizer, size>>
      BY <2>5 DEF Write, WriteStep, LockWriter, WriteAll, WriteIdle
    <3>2. locks'.master = locks.master
      BY <2>5 DEF Write, WriteStep, LockWriter, WriteAll
    <3> QED
      BY <3>1, <3>2
  <2> QED
    BY <1>5, <2>1, <2>2, <2>3, <2>4, <2>5
<1> QED
  BY <1>1, <1>2, <1>3, <1>4, <1>5 DEF Next, ResizeStep

(* Concurrent resizes cannot leave the screen at an older size than the PTY,  *)
(* because the master mutex is held until the screen has followed.            *)
THEOREM ScreenFollows == Spec => []ScreenMatchesPty
<1>1. Init => Sized
  BY DEF Init, Sized
<1>2. TypeOK /\ Sized /\ [Next]_vars => Sized'
  BY StepSizes
<1>3. TypeOK /\ Sized => ScreenMatchesPty
  BY PtyAssumption DEF TypeOK, Sized, ScreenMatchesPty
<1> QED
  BY <1>1, <1>2, <1>3, TypeCorrect, PTL DEF Spec

=============================================================================
