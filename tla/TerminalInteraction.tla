------------------------- MODULE TerminalInteraction -------------------------
(***************************************************************************)
(* The interaction coordinator of terminal_interaction.rs: every managed   *)
(* write to a terminal Runtime (agent interactions, raw automation writes, *)
(* desktop input, interrupts) goes through one input gate per Runtime, and *)
(* every agent interaction is recorded before its input is sent, so that a *)
(* retry with the same idempotency key never sends it again.               *)
(*                                                                         *)
(* A call is one client future inside the manager.  Its program counter    *)
(* stops at every lock acquisition and every await, because the tokio      *)
(* runtime may run the futures of different clients in parallel.  The      *)
(* detached task a call spawns occupies the task slot of that call: the    *)
(* future may be dropped, the task may not.                                *)
(*                                                                         *)
(* Output is counted in units instead of bytes, what a wait condition      *)
(* matches is nondeterministic, and inputs are not distinguished.          *)
(***************************************************************************)
EXTENDS Naturals, SequencesExt

CONSTANTS
  Calls,       \* client futures that may be inside the manager at once
  Owners,      \* callers (caller_id)
  Runtimes,    \* terminal Runtimes
  Keys,        \* idempotency keys
  Sigs,        \* request signatures: the hash of the interact arguments
  Kinds,       \* the kinds of call each client of this instance issues
  MaxRecords,  \* MAX_RECORDS: interaction records kept per application run
  MaxBytes,    \* max_bytes of a wait, in units of output
  MinRead,     \* MIN_OUTPUT_READ_BYTES: a read never asks for less
  Capacity,    \* units of output the Runtime ring retains
  MaxOut,      \* bound: units of output a Runtime ever produces
  NONE         \* absent owner, Runtime, key, signature or waiter

AllKinds == {"interact", "wait", "auto", "human", "interrupt"}

ASSUME InteractionAssumption ==
  /\ Kinds \in [Calls -> SUBSET AllKinds]
  /\ {MaxRecords, MinRead, Capacity} \subseteq Nat \ {0}
  /\ MaxBytes \in Nat /\ MaxBytes >= MinRead
  /\ MaxOut \in Nat
  /\ NONE \notin Calls \cup Owners \cup Runtimes \cup Keys \cup Sigs

VARIABLES
  running,   \* backend: the Runtimes whose status is starting, connecting or running
  out,       \* backend: end cursor of each Runtime's output
  earliest,  \* backend: earliest retained cursor of each Runtime's output
  locked,    \* the input gate of each Runtime is held
  queue,     \* the futures waiting in lock_owned for each gate, oldest first
  execs,     \* the registry: interaction records in order of insertion
  waiter,    \* for each record, the call that holds its waiter lock
  call,      \* state of each client future
  task,      \* state of the detached task each call spawned
  sends      \* history: backend writes made for each owner and key

backend == <<running, out, earliest>>
gates   == <<locked, queue>>
vars    == <<running, out, earliest, locked, queue, execs, waiter, call, task, sends>>

Ids == 1 .. Len(execs)

InputStates == {"sending", "accepted", "uncertain", "notSent"}
\* Reasons a wait reports without ending the interaction ("error" is an early
\* error return), and reasons that end it.
Resumable == {"timeout", "outputLimit", "outputGap", "error"}
Final     == {"matched", "prompt", "idle", "runtimeExited", "unavailable", "cancelled",
              "inputChanged", "writeUncertain"}

IdleCall == [kind |-> "none", pc |-> "idle", owner |-> NONE, runtime |-> NONE,
             key |-> NONE, sig |-> NONE, exec |-> 0, targets |-> {}, start |-> 0,
             next |-> 0, got |-> 0, len |-> 0, gap |-> FALSE, late |-> FALSE,
             reason |-> "none"]
NoTask == [stage |-> "none", kind |-> "none", runtime |-> NONE, exec |-> 0]

Least(a, b)    == IF a <= b THEN a ELSE b
Greatest(a, b) == IF a >= b THEN a ELSE b

-----------------------------------------------------------------------------
Init ==
  /\ running = [r \in Runtimes |-> TRUE]
  /\ out = [r \in Runtimes |-> 0]
  /\ earliest = [r \in Runtimes |-> 0]
  /\ locked = [r \in Runtimes |-> FALSE]
  /\ queue = [r \in Runtimes |-> <<>>]
  /\ execs = <<>>
  /\ waiter = <<>>
  /\ call = [c \in Calls |-> IdleCall]
  /\ task = [c \in Calls |-> NoTask]
  /\ sends = [p \in Owners \X Keys |-> 0]

Active(r) == {i \in Ids : execs[i].runtime = r /\ execs[i].finish = "none"}
Reserved(o, k) == {i \in Ids : execs[i].owner = o /\ execs[i].key = k}
SameRequest(c, i) == execs[i].sig = call[c].sig /\ execs[i].runtime = call[c].runtime

At(c, pc) == call[c].pc = pc
Goto(c, pc) == call' = [call EXCEPT ![c].pc = pc]
Leave(c) == call' = [call EXCEPT ![c] = IdleCall]

(* Dropping the guard of r's gate: tokio's mutex hands it to the oldest    *)
(* queued future, which takes over when it is next polled.  `rest` is what *)
(* the releasing step does to the other calls.                             *)
Release(r, rest) ==
  IF queue[r] = <<>>
    THEN /\ locked' = [locked EXCEPT ![r] = FALSE]
         /\ call' = rest
         /\ UNCHANGED queue
    ELSE /\ queue' = [queue EXCEPT ![r] = Tail(@)]
         /\ call' = [rest EXCEPT ![Head(queue[r])].pc = "granted"]
         /\ UNCHANGED locked

\* Fault: the early return forgets the guard, and the gate stays locked.
RefuseKeepsGate(c) == Leave(c) /\ UNCHANGED gates

\* An early return of a call that holds the guard of its Runtime's gate.
Refuse(c) == Release(call[c].runtime, [call EXCEPT ![c] = IdleCall])

\* tokio::spawn of the detached task; the guard moves from the call to it.
Spawn(c, kind, exec) ==
  task' = [task EXCEPT ![c] = [stage |-> "spawned", kind |-> kind,
                               runtime |-> call[c].runtime, exec |-> exec]]
-----------------------------------------------------------------------------
(* Clients.  A client may issue any request at any time, and may abandon a *)
(* call wherever the future is suspended.                                  *)

FirstStep(kind) == CASE kind = "interact" -> "lookup"
                     [] kind = "wait"     -> "waitBegin"
                     [] kind = "auto"     -> "tryGate"
                     [] OTHER             -> "lockGate"

Invoke(c, kind, o, r, k, s) ==
  /\ At(c, "idle")
  /\ task[c].stage = "none"
  /\ kind \in Kinds[c]
  /\ call' = [call EXCEPT ![c] = [IdleCall EXCEPT
                !.kind = kind, !.pc = FirstStep(kind), !.owner = o, !.runtime = r,
                !.key = k, !.sig = s]]
  /\ UNCHANGED <<backend, gates, execs, waiter, task, sends>>

InvokeInteract(c) ==
  \E o \in Owners, r \in Runtimes, k \in Keys, s \in Sigs : Invoke(c, "interact", o, r, k, s)

InvokeWrite(c) ==
  \E kind \in {"auto", "human", "interrupt"}, r \in Runtimes : Invoke(c, kind, NONE, r, NONE, NONE)

\* execution.wait: get() finds only records of the same owner and Runtime.
InvokeWait(c) ==
  \E i \in Ids :
    /\ At(c, "idle") /\ task[c].stage = "none" /\ "wait" \in Kinds[c]
    /\ call' = [call EXCEPT ![c] = [IdleCall EXCEPT
                  !.kind = "wait", !.pc = "waitBegin", !.owner = execs[i].owner,
                  !.runtime = execs[i].runtime, !.exec = i]]
    /\ UNCHANGED <<backend, gates, execs, waiter, task, sends>>

\* execution.cancel: get_or_insert(Cancelled), which keeps an earlier reason.
Cancel(i) ==
  /\ execs[i].finish = "none"
  /\ execs' = [execs EXCEPT ![i].finish = "cancelled"]
  /\ UNCHANGED <<backend, gates, waiter, call, task, sends>>

\* The client goes away while its future waits for a gate or sleeps in a wait.
DropQueued(c) ==
  /\ \/ /\ At(c, "queued")
        /\ \E i \in DOMAIN queue[call[c].runtime] :
             /\ queue[call[c].runtime][i] = c
             /\ queue' = [queue EXCEPT ![call[c].runtime] = RemoveAt(@, i)]
        /\ Leave(c)
        /\ UNCHANGED locked
     \/ At(c, "granted") /\ Refuse(c)
  /\ UNCHANGED <<backend, execs, waiter, task, sends>>

DropWaiter(c) ==
  /\ At(c, "sleep")
  /\ waiter' = [waiter EXCEPT ![call[c].exec] = NONE]
  /\ Leave(c)
  /\ UNCHANGED <<backend, gates, execs, task, sends>>
-----------------------------------------------------------------------------
(* start: reserve an interaction record, then send from a detached task.   *)

\* A retry returns the record it matches without waiting for the gate.
StartLookup(c) ==
  /\ At(c, "lookup")
  /\ \/ /\ Reserved(call[c].owner, call[c].key) = {}
        /\ Goto(c, "gate")
     \/ \E i \in Reserved(call[c].owner, call[c].key) :
          IF SameRequest(c, i)
            THEN call' = [call EXCEPT ![c].exec = i, ![c].pc = "waitBegin"]
            ELSE Leave(c)                                 \* Conflict
  /\ UNCHANGED <<backend, gates, execs, waiter, task, sends>>

StartGate(c) ==
  LET r == call[c].runtime IN
  /\ At(c, "gate")
  /\ IF locked[r]
       THEN Leave(c) /\ UNCHANGED locked                  \* Conflict: input is busy
       ELSE Goto(c, "recheck") /\ locked' = [locked EXCEPT ![r] = TRUE]
  /\ UNCHANGED <<backend, queue, execs, waiter, task, sends>>

StartRecheck(c) ==
  /\ At(c, "recheck")
  /\ \/ /\ Reserved(call[c].owner, call[c].key) = {}
        /\ Goto(c, "running")
        /\ UNCHANGED gates
     \/ \E i \in Reserved(call[c].owner, call[c].key) :
          IF SameRequest(c, i)
            THEN Release(call[c].runtime,
                         [call EXCEPT ![c].exec = i, ![c].pc = "waitBegin"])
            ELSE Refuse(c)
  /\ UNCHANGED <<backend, execs, waiter, task, sends>>

StartRunning(c) ==
  /\ At(c, "running")
  /\ IF running[call[c].runtime]
       THEN Goto(c, "active") /\ UNCHANGED gates
       ELSE Refuse(c)                                     \* Unavailable
  /\ UNCHANGED <<backend, execs, waiter, task, sends>>

\* Fault: a second interaction is accepted beside an unfinished one.
StartActiveUnchecked(c) ==
  At(c, "active") /\ Goto(c, "cursor") /\ UNCHANGED <<backend, gates, execs, waiter, task, sends>>

StartActive(c) ==
  /\ At(c, "active")
  /\ IF Active(call[c].runtime) = {}
       THEN Goto(c, "cursor") /\ UNCHANGED gates
       ELSE Refuse(c)                                     \* Conflict: active interaction
  /\ UNCHANGED <<backend, execs, waiter, task, sends>>

\* The screen snapshot or the encoding of the input may fail; otherwise the
\* end cursor of the output becomes the start of the interaction.
StartCursor(c) ==
  /\ At(c, "cursor")
  /\ \/ Refuse(c)
     \/ /\ call' = [call EXCEPT ![c].start = out[call[c].runtime], ![c].pc = "reserve"]
        /\ UNCHANGED gates
  /\ UNCHANGED <<backend, execs, waiter, task, sends>>

NewExecution(c) ==
  [owner |-> call[c].owner, runtime |-> call[c].runtime, key |-> call[c].key,
   sig |-> call[c].sig, start |-> call[c].start, cursor |-> call[c].start,
   input |-> "sending", finish |-> "none"]

\* Fault: the key is not checked again when the record is inserted.
StartReserveUnchecked(c) ==
  /\ At(c, "reserve")
  /\ IF Len(execs) >= MaxRecords
       THEN Refuse(c) /\ UNCHANGED <<execs, waiter, task>>
       ELSE /\ execs' = Append(execs, NewExecution(c))
            /\ waiter' = Append(waiter, NONE)
            /\ Spawn(c, "send", Len(execs) + 1)
            /\ call' = [call EXCEPT ![c].exec = Len(execs) + 1, ![c].pc = "waitBegin"]
            /\ UNCHANGED gates
  /\ UNCHANGED <<backend, sends>>

\* The last global check and the insertion share one critical section, and no
\* await separates them from the spawn of the sending task.
StartReserve(c) ==
  /\ At(c, "reserve")
  /\ IF Reserved(call[c].owner, call[c].key) # {} \/ Len(execs) >= MaxRecords
       THEN Refuse(c) /\ UNCHANGED <<execs, waiter, task>>
       ELSE /\ execs' = Append(execs, NewExecution(c))
            /\ waiter' = Append(waiter, NONE)
            /\ Spawn(c, "send", Len(execs) + 1)
            /\ call' = [call EXCEPT ![c].exec = Len(execs) + 1, ![c].pc = "waitBegin"]
            /\ UNCHANGED gates
  /\ UNCHANGED <<backend, sends>>
-----------------------------------------------------------------------------
(* write and interrupt.                                                    *)

\* Automation: try_lock_owned, then refuse while an interaction is active.
AutoTryGate(c) ==
  LET r == call[c].runtime IN
  /\ At(c, "tryGate")
  /\ IF locked[r]
       THEN Leave(c) /\ UNCHANGED locked
       ELSE Goto(c, "autoActive") /\ locked' = [locked EXCEPT ![r] = TRUE]
  /\ UNCHANGED <<backend, queue, execs, waiter, task, sends>>

\* Fault: the guard is dropped with the future instead of moving to the task.
AutoActiveDropsGuard(c) ==
  /\ At(c, "autoActive")
  /\ IF Active(call[c].runtime) = {} THEN Spawn(c, "auto", 0) ELSE UNCHANGED task
  /\ Refuse(c)
  /\ UNCHANGED <<backend, execs, waiter, sends>>

\* Fault: automation writes into the interaction of somebody else.
AutoActiveUnchecked(c) ==
  At(c, "autoActive") /\ Spawn(c, "auto", 0) /\ Leave(c)
  /\ UNCHANGED <<backend, gates, execs, waiter, sends>>

AutoActive(c) ==
  /\ At(c, "autoActive")
  /\ IF Active(call[c].runtime) = {}
       THEN Spawn(c, "auto", 0) /\ Leave(c) /\ UNCHANGED gates
       ELSE Refuse(c) /\ UNCHANGED task
  /\ UNCHANGED <<backend, execs, waiter, sends>>

\* Human input and interrupts wait for the gate in arrival order.
LockGate(c) ==
  LET r == call[c].runtime IN
  /\ At(c, "lockGate")
  /\ IF locked[r]
       THEN /\ queue' = [queue EXCEPT ![r] = Append(@, c)]
            /\ Goto(c, "queued")
            /\ UNCHANGED locked
       ELSE /\ locked' = [locked EXCEPT ![r] = TRUE]
            /\ Goto(c, "takeover")
            /\ UNCHANGED queue
  /\ UNCHANGED <<backend, execs, waiter, task, sends>>

\* active(): a snapshot of the unfinished records, taken under the registry lock.
Takeover(c) ==
  /\ call[c].pc \in {"takeover", "granted"}
  /\ call' = [call EXCEPT ![c].targets = Active(call[c].runtime), ![c].pc = "mark"]
  /\ UNCHANGED <<backend, gates, execs, waiter, task, sends>>

\* Each record of the snapshot is then overwritten, finished meanwhile or not.
Mark(c) ==
  /\ At(c, "mark")
  /\ \/ \E i \in call[c].targets :
          /\ execs' = [execs EXCEPT ![i].finish = "inputChanged"]
          /\ call' = [call EXCEPT ![c].targets = @ \ {i}]
          /\ UNCHANGED task
     \/ /\ call[c].targets = {}
        /\ Spawn(c, call[c].kind, 0)
        /\ Leave(c)
        /\ UNCHANGED execs
  /\ UNCHANGED <<backend, gates, waiter, sends>>
-----------------------------------------------------------------------------
(* The detached tasks.  They own the guard until the backend write ends.   *)

EndTask(c) == task' = [task EXCEPT ![c] = NoTask]

\* The sending task gives up when the record was finished before it started.
TaskBegin(c) ==
  LET i == task[c].exec IN
  /\ task[c].stage = "spawned"
  /\ IF task[c].kind = "send" /\ execs[i].finish # "none"
       THEN /\ execs' = [execs EXCEPT ![i].input = "notSent"]
            /\ EndTask(c)
            /\ Release(task[c].runtime, call)
            /\ UNCHANGED sends
       ELSE /\ task' = [task EXCEPT ![c].stage = "writing"]
            /\ sends' = IF task[c].kind = "send"
                          THEN [sends EXCEPT ![<<execs[i].owner, execs[i].key>>] = @ + 1]
                          ELSE sends
            /\ UNCHANGED <<execs, gates, call>>
  /\ UNCHANGED <<backend, waiter>>

\* Fault: a failed write is taken for one that did not happen.
TaskEndFailureIsNotSent(c, ok) ==
  LET i == task[c].exec IN
  /\ task[c].stage = "writing"
  /\ ok => running[task[c].runtime]
  /\ execs' = IF task[c].kind # "send" THEN execs
              ELSE [execs EXCEPT
                     ![i].input = IF ok THEN "accepted" ELSE "notSent",
                     ![i].finish = IF ~ok /\ @ = "none" THEN "writeUncertain" ELSE @]
  /\ EndTask(c)
  /\ Release(task[c].runtime, call)
  /\ UNCHANGED <<backend, waiter, sends>>

\* The backend write returns; an exited Runtime always reports an error.
TaskEnd(c, ok) ==
  LET i == task[c].exec IN
  /\ task[c].stage = "writing"
  /\ ok => running[task[c].runtime]
  /\ execs' = IF task[c].kind # "send" THEN execs
              ELSE [execs EXCEPT
                     ![i].input = IF ok THEN "accepted" ELSE "uncertain",
                     ![i].finish = IF ~ok /\ @ = "none" THEN "writeUncertain" ELSE @]
  /\ EndTask(c)
  /\ Release(task[c].runtime, call)
  /\ UNCHANGED <<backend, waiter, sends>>
-----------------------------------------------------------------------------
(* wait: observe the output of an interaction until it ends, its budget or *)
(* its deadline.                                                           *)

\* Fault: two waits observe the same interaction at once.
WaitBeginShared(c) ==
  LET i == call[c].exec IN
  /\ At(c, "waitBegin")
  /\ waiter' = [waiter EXCEPT ![i] = c]
  /\ call' = [call EXCEPT ![c].next = execs[i].cursor, ![c].pc = "check"]
  /\ UNCHANGED <<backend, gates, execs, task, sends>>

WaitBegin(c) ==
  LET i == call[c].exec IN
  /\ At(c, "waitBegin")
  /\ IF waiter[i] # NONE
       THEN Leave(c) /\ UNCHANGED waiter                  \* Conflict: has a waiter
       ELSE /\ waiter' = [waiter EXCEPT ![i] = c]
            /\ call' = [call EXCEPT ![c].next = execs[i].cursor, ![c].pc = "check"]
  /\ UNCHANGED <<backend, gates, execs, task, sends>>

Break(c, reason) ==
  call' = [call EXCEPT ![c].reason = reason, ![c].pc = "settle"]

WaitCheck(c) ==
  LET i == call[c].exec IN
  /\ At(c, "check")
  /\ IF execs[i].finish # "none" THEN Break(c, execs[i].finish)
     ELSE IF execs[i].input # "sending" THEN Goto(c, "read")
     ELSE IF call[c].late THEN Break(c, "timeout")
     ELSE Goto(c, "sleep")
  /\ UNCHANGED <<backend, gates, execs, waiter, task, sends>>

\* read_output(next, max_bytes - got), rounded up to the smallest read.  It may
\* fail: the backend has forgotten an exited Runtime, or cannot be read; and so
\* may the list of Runtimes that tells the two apart.
WaitRead(c) ==
  LET r     == call[c].runtime
      from  == Least(Greatest(call[c].next, earliest[r]), out[r])
      limit == Greatest(MaxBytes - call[c].got, MinRead)
      len   == Least(limit, out[r] - from)
  IN
  /\ At(c, "read")
  /\ \/ Break(c, IF running[r] THEN "unavailable" ELSE "runtimeExited")
     \/ Break(c, "error")
     \/ call' = [call EXCEPT ![c].next = from + len, ![c].len = len, ![c].got = @ + len,
                             ![c].gap = call[c].next < earliest[r], ![c].pc = "observe"]
  /\ UNCHANGED <<backend, gates, execs, waiter, task, sends>>

\* Fault: the budget is only checked once it is used up.
AfterChunkLateBudget(c) ==
  IF call[c].gap THEN Break(c, "outputGap")
  ELSE IF call[c].got >= MaxBytes THEN Break(c, "outputLimit")
  ELSE IF call[c].len > 0 THEN Goto(c, "check")
  ELSE IF call[c].late THEN Break(c, "timeout") ELSE Goto(c, "sleep")

\* Fault: the loop never looks at its deadline.
AfterChunkNoDeadline(c) ==
  IF call[c].gap THEN Break(c, "outputGap")
  ELSE IF MaxBytes - call[c].got < MinRead THEN Break(c, "outputLimit")
  ELSE IF call[c].len > 0 THEN Goto(c, "check")
  ELSE Goto(c, "sleep")

\* What the loop does with a chunk once the record's progress is updated.
AfterChunk(c) ==
  LET i == call[c].exec
      r == call[c].runtime
      fresh == out[r] = call[c].next /\ out[r] > execs[i].start
  IN
  IF call[c].gap THEN Break(c, "outputGap")
  ELSE \/ call[c].len > 0 /\ Break(c, "matched")
       \/ fresh /\ Break(c, "prompt")
       \/ Break(c, "error")                        \* the screen or the list is gone
       \/ IF MaxBytes - call[c].got < MinRead THEN Break(c, "outputLimit")
          ELSE IF call[c].len > 0 THEN Goto(c, "check")
          ELSE IF ~running[r] THEN Break(c, "runtimeExited")
          ELSE \/ Break(c, "idle")
               \/ IF call[c].late THEN Break(c, "timeout") ELSE Goto(c, "sleep")

WaitObserve(c) ==
  LET i == call[c].exec IN
  /\ At(c, "observe")
  /\ IF execs[i].finish # "none"
       THEN Break(c, execs[i].finish) /\ UNCHANGED execs
       ELSE /\ execs' = [execs EXCEPT ![i].cursor = call[c].next]
            /\ AfterChunk(c)
  /\ UNCHANGED <<backend, gates, waiter, task, sends>>

WaitWake(c) ==
  /\ At(c, "sleep")
  /\ Goto(c, "check")
  /\ UNCHANGED <<backend, gates, execs, waiter, task, sends>>

\* Fault: the waiter's reason replaces the one already recorded.
WaitSettleOverwrites(c) ==
  LET i == call[c].exec IN
  /\ At(c, "settle")
  /\ execs' = IF call[c].reason \notin Resumable
                THEN [execs EXCEPT ![i].finish = call[c].reason] ELSE execs
  /\ waiter' = [waiter EXCEPT ![i] = NONE]
  /\ Leave(c)
  /\ UNCHANGED <<backend, gates, task, sends>>

\* A reason that ends the interaction is recorded unless one already was.
WaitSettle(c) ==
  LET i == call[c].exec IN
  /\ At(c, "settle")
  /\ execs' = IF call[c].reason \notin Resumable /\ execs[i].finish = "none"
                THEN [execs EXCEPT ![i].finish = call[c].reason] ELSE execs
  /\ waiter' = [waiter EXCEPT ![i] = NONE]
  /\ Leave(c)
  /\ UNCHANGED <<backend, gates, task, sends>>

DeadlinePasses(c) ==
  /\ call[c].pc \in {"check", "read", "observe", "sleep"}
  /\ ~call[c].late
  /\ call' = [call EXCEPT ![c].late = TRUE]
  /\ UNCHANGED <<backend, gates, execs, waiter, task, sends>>
-----------------------------------------------------------------------------
(* The backend.                                                            *)

Emit(r) ==
  /\ running[r] /\ out[r] < MaxOut
  /\ out' = [out EXCEPT ![r] = @ + 1]
  /\ earliest' = [earliest EXCEPT ![r] = Greatest(@, IF out[r] >= Capacity
                                                       THEN out[r] + 1 - Capacity ELSE 0)]
  /\ UNCHANGED <<running, gates, execs, waiter, call, task, sends>>

Exit(r) ==
  /\ running[r]
  /\ running' = [running EXCEPT ![r] = FALSE]
  /\ UNCHANGED <<out, earliest, gates, execs, waiter, call, task, sends>>
-----------------------------------------------------------------------------
Start(c) == \/ StartLookup(c) \/ StartGate(c) \/ StartRecheck(c) \/ StartRunning(c)
            \/ StartActive(c) \/ StartCursor(c) \/ StartReserve(c)
Write(c) == AutoTryGate(c) \/ AutoActive(c) \/ LockGate(c) \/ Takeover(c) \/ Mark(c)
Task(c)  == TaskBegin(c) \/ \E ok \in BOOLEAN : TaskEnd(c, ok)
Wait(c)  == \/ WaitBegin(c) \/ WaitCheck(c) \/ WaitRead(c) \/ WaitObserve(c)
            \/ WaitWake(c) \/ WaitSettle(c)
Client(c) == \/ InvokeInteract(c) \/ InvokeWrite(c) \/ InvokeWait(c)
             \/ DropQueued(c) \/ DropWaiter(c)

Next ==
  \/ \E c \in Calls : Client(c) \/ Start(c) \/ Write(c) \/ Task(c) \/ Wait(c) \/ DeadlinePasses(c)
  \/ \E i \in Ids : Cancel(i)
  \/ \E r \in Runtimes : Emit(r) \/ Exit(r)

Spec == Init /\ [][Next]_vars

(* The scheduler polls every future and task that can run, timers fire and *)
(* every backend write returns.  Clients and Runtimes owe nothing.         *)
Fairness ==
  \A c \in Calls : /\ WF_vars(Start(c)) /\ WF_vars(Write(c)) /\ WF_vars(Task(c))
                   /\ WF_vars(Wait(c)) /\ WF_vars(DeadlinePasses(c))
FairSpec == Spec /\ Fairness
-----------------------------------------------------------------------------
Execution == [owner : Owners, runtime : Runtimes, key : Keys, sig : Sigs,
              start : Nat, cursor : Nat, input : InputStates, finish : Final \cup {"none"}]

StartSteps == {"lookup", "gate", "recheck", "running", "active", "cursor", "reserve"}
WaitSteps  == {"waitBegin", "check", "read", "observe", "sleep", "settle"}
WriteSteps == {"tryGate", "autoActive", "lockGate", "queued", "granted", "takeover", "mark"}

CallState == [kind : AllKinds \cup {"none"}, pc : StartSteps \cup WaitSteps \cup WriteSteps \cup {"idle"},
              owner : Owners \cup {NONE}, runtime : Runtimes \cup {NONE},
              key : Keys \cup {NONE}, sig : Sigs \cup {NONE}, exec : Nat, targets : SUBSET Nat,
              start : Nat, next : Nat, got : Nat, len : Nat, gap : BOOLEAN, late : BOOLEAN,
              reason : Resumable \cup Final \cup {"none"}]
TaskState == [stage : {"none", "spawned", "writing"},
              kind : {"none", "send", "auto", "human", "interrupt"},
              runtime : Runtimes \cup {NONE}, exec : Nat]

(* The shape of the manager's state: registry, gates, calls and tasks.     *)
TypeOK ==
  /\ running \in [Runtimes -> BOOLEAN]
  /\ out \in [Runtimes -> Nat] /\ earliest \in [Runtimes -> Nat]
  /\ locked \in [Runtimes -> BOOLEAN]
  /\ queue \in [Runtimes -> Seq(Calls)]
  /\ execs \in Seq(Execution)
  /\ waiter \in [Ids -> Calls \cup {NONE}]
  /\ call \in [Calls -> CallState]
  /\ task \in [Calls -> TaskState]
  /\ sends \in [Owners \X Keys -> Nat]

(* Writes never interleave: the guard stays with the detached task, so at  *)
(* most one backend write per Runtime is in flight even when the futures   *)
(* that asked for the writes are gone.                                     *)
OneWriter ==
  \A c, d \in Calls : task[c].stage = "writing" /\ task[d].stage = "writing"
                         /\ task[c].runtime = task[d].runtime => c = d

(* Input is sent at most once per idempotency key: whatever retries,       *)
(* cancellations, dropped calls and races between Runtimes happen.         *)
SendAtMostOnce == \A p \in Owners \X Keys : sends[p] <= 1

(* A record tells the truth about its input: notSent means the backend was *)
(* never asked to write it, accepted and uncertain that it was, once.      *)
RecordTellsWhatWasSent ==
  \A i \in Ids :
    LET n == sends[<<execs[i].owner, execs[i].key>>] IN
    /\ execs[i].input = "notSent" => n = 0
    /\ execs[i].input \in {"accepted", "uncertain"} => n = 1

(* A Runtime has at most one unfinished interaction, although the check    *)
(* for one and the insertion are separate critical sections of start.      *)
SingleActive == \A r \in Runtimes : \A i, j \in Active(r) : i = j

(* Automation fails closed and a human takes over: while a raw automation  *)
(* write, desktop input or an interrupt is on its way to the Runtime, no   *)
(* interaction is being observed there as if the input were its own.       *)
NoForeignInput ==
  \A c \in Calls : task[c].kind \in {"auto", "human", "interrupt"} => Active(task[c].runtime) = {}

(* Successive waits are contiguous: a wait continues exactly where the     *)
(* record's progress stands, so no output is reported twice or skipped     *)
(* between waits.  This rests on the waiter lock.                          *)
WaitContiguous ==
  \A c \in Calls : call[c].pc \in {"check", "read", "sleep"} =>
                      call[c].next = execs[call[c].exec].cursor

(* A wait never returns more than max_bytes, although reads are rounded up *)
(* to MIN_OUTPUT_READ_BYTES; max_bytes - len would otherwise underflow.    *)
BudgetRespected == \A c \in Calls : call[c].got <= MaxBytes

(* An ended interaction stays ended, and only a takeover replaces the      *)
(* reason it ended for.                                                    *)
EndedStaysEnded ==
  [][\A i \in Ids : execs[i].finish # "none" =>
        execs'[i].finish \in {execs[i].finish, "inputChanged"}]_vars

(* Desktop input and interrupts are not starved: a future that waits for   *)
(* the gate gets it (or is dropped), given that backend writes return.     *)
TakeoverServed == \A c \in Calls : At(c, "queued") ~> ~At(c, "queued")

(* Every wait returns: on a reason, its budget or its deadline.            *)
WaitsEnd == \A c \in Calls : At(c, "check") ~> At(c, "idle")
=============================================================================
