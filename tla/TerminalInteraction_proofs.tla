--------------------- MODULE TerminalInteraction_proofs ---------------------
(***************************************************************************)
(* Theorems about the interaction coordinator, for any number of clients,  *)
(* Runtimes, owners and keys: the gate of a Runtime has one holder, the    *)
(* input of an idempotency key is sent at most once, a Runtime has one     *)
(* unfinished interaction and none beside foreign input, and a wait has    *)
(* its record to itself and keeps within its budget.                       *)
(***************************************************************************)
EXTENDS TerminalInteraction, SequenceTheorems, TLAPS

\* What a call at each step has already stored; t is the task of its slot.
CallCoherent(s, t) ==
  /\ s.pc # "idle" => s.runtime \in Runtimes
  /\ s.pc \in StartSteps => s.owner \in Owners /\ s.key \in Keys /\ s.sig \in Sigs
  /\ s.pc \in WriteSteps => s.kind \in {"auto", "human", "interrupt"}
  /\ s.pc \in StartSteps \cup WriteSteps => t.stage = "none"
  /\ s.pc \in WaitSteps => s.exec \in Ids
  /\ s.pc = "mark" => s.targets \subseteq Ids
  /\ s.pc = "settle" => s.reason # "none"
CallsCoherent == \A c \in Calls : CallCoherent(call[c], task[c])

TasksCoherent ==
  \A c \in Calls : task[c].stage # "none" =>
    /\ task[c].runtime \in Runtimes /\ task[c].kind # "none"
    /\ task[c].kind = "send" => task[c].exec \in Ids

\* The futures in the queue of a gate are exactly waiting for it, once each.
QueueCoherent ==
  \A r \in Runtimes : \A i \in DOMAIN queue[r] :
    /\ call[queue[r][i]].pc = "queued" /\ call[queue[r][i]].runtime = r
    /\ \A j \in DOMAIN queue[r] : queue[r][j] = queue[r][i] => j = i

Coherent == TypeOK /\ CallsCoherent /\ TasksCoherent /\ QueueCoherent

\* The calls and tasks that hold the guard of a gate.
GateSteps == {"recheck", "running", "active", "cursor", "reserve", "autoActive",
              "takeover", "granted", "mark"}
Holder(c, r) == \/ call[c].pc \in GateSteps /\ call[c].runtime = r
                \/ task[c].stage # "none" /\ task[c].runtime = r
GateHeld ==
  \A r \in Runtimes : \A c \in Calls : Holder(c, r) =>
    /\ locked[r]
    /\ \A d \in Calls : Holder(d, r) => d = c

\* A key has one record; its input is sent by the task of that record.
Sender(c) == task[c].stage # "none" /\ task[c].kind = "send"
SendersUnique ==
  /\ \A i, j \in Ids : execs[i].owner = execs[j].owner /\ execs[i].key = execs[j].key => i = j
  /\ \A c, d \in Calls : Sender(c) /\ Sender(d) /\ task[c].exec = task[d].exec => c = d
Sent(i) == sends[<<execs[i].owner, execs[i].key>>]
KeysUnsent == \A o \in Owners, k \in Keys : Reserved(o, k) = {} => sends[<<o, k>>] = 0
InputsTold ==
  \A i \in Ids :
    /\ execs[i].input = "sending" => \E c \in Calls : Sender(c) /\ task[c].exec = i
    /\ execs[i].input = "notSent" => Sent(i) = 0
    /\ execs[i].input \in {"accepted", "uncertain"} => Sent(i) = 1
SendersTold ==
  \A c \in Calls : Sender(c) =>
    /\ execs[task[c].exec].input = "sending"
    /\ Sent(task[c].exec) = IF task[c].stage = "spawned" THEN 0 ELSE 1
SendsCounted == SendersUnique /\ KeysUnsent /\ InputsTold /\ SendersTold

\* Input that does not belong to an interaction.
Foreign == {"auto", "human", "interrupt"}
\* From its check on, the gate keeps a Runtime free of unfinished interactions:
\* an interaction is inserted, and foreign input written, where there is none.
Sole ==
  /\ SingleActive
  /\ \A c \in Calls :
       /\ call[c].pc \in {"cursor", "reserve"} => Active(call[c].runtime) = {}
       /\ call[c].pc = "mark" => Active(call[c].runtime) \subseteq call[c].targets
       /\ task[c].kind \in Foreign => task[c].stage # "none" /\ Active(task[c].runtime) = {}

\* A wait holds the waiter lock of its record and has room for another read.
Observing == {"check", "read", "observe", "sleep", "settle"}
Continuing == {"check", "read", "sleep"}
WaitersHold ==
  \A c \in Calls :
    /\ call[c].pc \in Observing => waiter[call[c].exec] = c
    /\ call[c].pc \in Continuing => call[c].next = execs[call[c].exec].cursor
HasRoom ==
  \A c \in Calls :
    /\ call[c].got <= MaxBytes
    /\ call[c].pc \notin Observing => call[c].got = 0
    /\ call[c].pc \in Continuing => call[c].got + MinRead <= MaxBytes
-----------------------------------------------------------------------------
(* A future that leaves a queue leaves the others in it as they were.       *)
LEMMA RemoveAtSkips ==
  ASSUME NEW S, NEW s \in Seq(S), NEW i \in DOMAIN s
  PROVE  /\ RemoveAt(s, i) \in Seq(S) /\ Len(RemoveAt(s, i)) = Len(s) - 1
         /\ \A j \in 1 .. Len(s) - 1 : RemoveAt(s, i)[j] = IF j < i THEN s[j] ELSE s[j + 1]
<1> DEFINE a == SubSeq(s, 1, i - 1)
           b == SubSeq(s, i + 1, Len(s))
<1>1. i \in 1 .. Len(s) /\ Len(s) \in Nat
  OBVIOUS
<1>2. a \in Seq(S) /\ Len(a) = i - 1 /\ \A j \in 1 .. i - 1 : a[j] = s[j]
  BY <1>1, SubSeqProperties
<1>3. b \in Seq(S) /\ Len(b) = Len(s) - i /\ \A j \in 1 .. Len(s) - i : b[j] = s[j + i]
  BY <1>1, SubSeqProperties
<1>4. RemoveAt(s, i) = a \o b
  BY DEF RemoveAt
<1> HIDE DEF a, b
<1>5. a \o b \in Seq(S) /\ Len(a \o b) = Len(s) - 1
  BY <1>1, <1>2, <1>3, ConcatProperties
<1>6. ASSUME NEW j \in 1 .. Len(s) - 1 PROVE (a \o b)[j] = IF j < i THEN s[j] ELSE s[j + 1]
  <2>1. (a \o b)[j] = IF j <= Len(a) THEN a[j] ELSE b[j - Len(a)]
    BY <1>1, <1>2, <1>3, ConcatProperties
  <2>2. CASE j < i
    BY <2>1, <2>2, <1>1, <1>2
  <2>3. CASE ~(j < i)
    <3>1. j - (i - 1) \in 1 .. Len(s) - i /\ (j - (i - 1)) + i = j + 1
      BY <2>3, <1>1
    <3>2. b[j - (i - 1)] = s[j + 1]
      BY <3>1, <1>3
    <3> QED
      BY <2>1, <2>3, <1>1, <1>2, <3>2
  <2> QED
    BY <2>2, <2>3
<1> QED
  BY <1>4, <1>5, <1>6

Steps == StartSteps \cup WaitSteps \cup WriteSteps \cup {"idle"}

(* A call that moves to another step is a call.                             *)
LEMMA StepTyped ==
  ASSUME NEW s \in CallState, NEW p \in Steps
  PROVE  [s EXCEPT !.pc = p] \in CallState
BY DEF CallState, Steps

\* The call d is handed the guard of r's gate.
Passed(d, r) ==
  /\ call[d].pc = "queued" /\ call[d].runtime = r
  /\ call'[d] = [call[d] EXCEPT !.pc = "granted"]

(* Releasing a gate frees it or hands it to one call that waited for it.     *)
LEMMA ReleaseHands ==
  ASSUME TypeOK, QueueCoherent, NEW r \in Runtimes, NEW rest \in [Calls -> CallState],
         \A d \in Calls : call[d].pc = "queued" => rest[d] = call[d],
         Release(r, rest)
  PROVE  /\ locked' \in [Runtimes -> BOOLEAN] /\ queue' \in [Runtimes -> Seq(Calls)]
         /\ call' \in [Calls -> CallState]
         /\ QueueCoherent'
         /\ \A q \in Runtimes : q # r => locked'[q] = locked[q]
         /\ \A d \in Calls : call'[d] = rest[d] \/ Passed(d, r)
         /\ \A d, e \in Calls : call'[d] # rest[d] /\ call'[e] # rest[e] => d = e
         /\ \A d \in Calls : call'[d] # rest[d] => locked'[r] = locked[r]
<1> USE DEF TypeOK
<1>1. CASE queue[r] = <<>>
  <2>1. /\ locked' = [locked EXCEPT ![r] = FALSE] /\ call' = rest /\ queue' = queue
    BY <1>1 DEF Release
  <2>2. QueueCoherent'
    <3> SUFFICES ASSUME NEW q \in Runtimes, NEW i \in DOMAIN queue[q]
                 PROVE  /\ rest[queue[q][i]].pc = "queued" /\ rest[queue[q][i]].runtime = q
                        /\ \A j \in DOMAIN queue[q] : queue[q][j] = queue[q][i] => j = i
      BY <2>1 DEF QueueCoherent
    <3>1. queue[q][i] \in Calls
      OBVIOUS
    <3> QED
      BY <3>1 DEF QueueCoherent
  <2> QED
    BY <2>1, <2>2
<1>2. CASE queue[r] # <<>>
  <2> DEFINE h == Head(queue[r])
  <2>1. /\ queue' = [queue EXCEPT ![r] = Tail(queue[r])] /\ locked' = locked
        /\ call' = [rest EXCEPT ![h].pc = "granted"]
    BY <1>2 DEF Release
  <2>2. h \in Calls /\ queue[r] \in Seq(Calls) /\ 1 \in DOMAIN queue[r] /\ h = queue[r][1]
    BY <1>2
  <2>3. call[h].pc = "queued" /\ call[h].runtime = r /\ rest[h] = call[h]
    BY <2>2 DEF QueueCoherent
  <2> HIDE DEF h
  <2>4. call' \in [Calls -> CallState]
    <3>1. [rest[h] EXCEPT !.pc = "granted"] \in CallState
      BY <2>2, StepTyped DEF WriteSteps, Steps
    <3> QED
      BY <2>1, <2>2, <3>1
  <2>5. \A d \in Calls : d # h => call'[d] = rest[d]
    BY <2>1, <2>2
  <2>6. call'[h] = [call[h] EXCEPT !.pc = "granted"]
    BY <2>1, <2>2, <2>3
  <2>7. Passed(h, r)
    BY <2>3, <2>4, <2>6 DEF Passed
  <2>8. QueueCoherent'
    <3> SUFFICES ASSUME NEW q \in Runtimes, NEW i \in DOMAIN queue'[q]
                 PROVE  /\ call'[queue'[q][i]].pc = "queued" /\ call'[queue'[q][i]].runtime = q
                        /\ \A j \in DOMAIN queue'[q] : queue'[q][j] = queue'[q][i] => j = i
      BY DEF QueueCoherent
    <3>1. CASE q = r
      <4>1. Tail(queue[r]) \in Seq(Calls) /\ queue'[q] = Tail(queue[r])
            /\ \A j \in DOMAIN Tail(queue[r]) : j + 1 \in DOMAIN queue[r]
                                               /\ Tail(queue[r])[j] = queue[r][j + 1]
            /\ DOMAIN Tail(queue[r]) \subseteq Nat \ {0}
        BY <3>1, <2>1, <2>2, <1>2
      <4>2. /\ call[queue'[q][i]].pc = "queued" /\ call[queue'[q][i]].runtime = q
            /\ \A j \in DOMAIN queue'[q] : queue'[q][j] = queue'[q][i] => j = i
        BY <4>1, <3>1 DEF QueueCoherent
      <4>3. queue'[q][i] # h /\ queue'[q][i] \in Calls
        BY <4>1, <3>1, <2>2 DEF QueueCoherent
      <4> QED
        BY <4>2, <4>3, <2>5
    <3>2. CASE q # r
      <4>1. queue'[q] = queue[q] /\ queue[q] \in Seq(Calls)
        BY <3>2, <2>1
      <4>2. /\ call[queue[q][i]].pc = "queued" /\ call[queue[q][i]].runtime = q
            /\ \A j \in DOMAIN queue[q] : queue[q][j] = queue[q][i] => j = i
        BY <4>1 DEF QueueCoherent
      <4>3. queue[q][i] # h /\ queue[q][i] \in Calls
        BY <4>1, <4>2, <2>3, <3>2
      <4> QED
        BY <4>1, <4>2, <4>3, <2>5
    <3> QED
      BY <3>1, <3>2
  <2> QED
    BY <2>1, <2>2, <2>4, <2>5, <2>7, <2>8
<1> QED
  BY <1>1, <1>2
-----------------------------------------------------------------------------
(* The first invariant: types, and what each step has stored.               *)

(* A call that goes on to wait for record i.                                *)
LEMMA WaitsOn ==
  ASSUME NEW s \in CallState, s.runtime \in Runtimes, NEW i \in Ids, Len(execs) \in Nat
  PROVE  /\ [s EXCEPT !.exec = i, !.pc = "waitBegin"] \in CallState
         /\ \A t : CallCoherent([s EXCEPT !.exec = i, !.pc = "waitBegin"], t)
<1>1. i \in Nat
  BY DEF Ids
<1>2. [s EXCEPT !.exec = i, !.pc = "waitBegin"] \in CallState
  BY <1>1 DEF CallState, WaitSteps
<1> QED
  BY <1>2 DEF CallCoherent, CallState, StartSteps, WriteSteps, WaitSteps

(* The queues stay as they are.                                             *)
LEMMA QueueKept ==
  ASSUME TypeOK, QueueCoherent, queue' = queue,
         \A d \in Calls : call[d].pc = "queued" => call'[d] = call[d]
  PROVE  QueueCoherent'
<1> SUFFICES ASSUME NEW r \in Runtimes, NEW i \in DOMAIN queue[r]
             PROVE  /\ call'[queue[r][i]].pc = "queued" /\ call'[queue[r][i]].runtime = r
                    /\ \A j \in DOMAIN queue[r] : queue[r][j] = queue[r][i] => j = i
  BY DEF QueueCoherent
<1>1. queue[r][i] \in Calls
  BY DEF TypeOK
<1> QED
  BY <1>1 DEF QueueCoherent

(* A step of one call that hands no gate on.                                *)
LEMMA CallMoves ==
  ASSUME Coherent, NEW c \in Calls, NEW s \in CallState, call[c].pc # "queued",
         call' = [call EXCEPT ![c] = s], CallCoherent(s, task[c]),
         locked' \in [Runtimes -> BOOLEAN], execs' \in Seq(Execution), Len(execs') = Len(execs),
         waiter' \in [Ids -> Calls \cup {NONE}], UNCHANGED <<backend, queue, task, sends>>
  PROVE  Coherent'
<1> USE DEF Coherent
<1>1. TypeOK'
  BY DEF TypeOK, backend, Ids
<1>2. CallsCoherent'
  BY DEF CallsCoherent, CallCoherent, TypeOK, Ids
<1>3. TasksCoherent'
  BY DEF TasksCoherent, Ids
<1>4. QueueCoherent'
  <2>1. \A d \in Calls : call[d].pc = "queued" => call'[d] = call[d]
    BY DEF TypeOK
  <2> QED
    BY <2>1, QueueKept
<1> QED
  BY <1>1, <1>2, <1>3, <1>4

(* A step of one call that hands the gate of its Runtime on.                *)
LEMMA CallReleases ==
  ASSUME Coherent, NEW c \in Calls, NEW s \in CallState, NEW r \in Runtimes,
         call[c].pc # "queued", Release(r, [call EXCEPT ![c] = s]), CallCoherent(s, task'[c]),
         \A d \in Calls : d # c => task'[d] = task[d],
         task' \in [Calls -> TaskState], TasksCoherent',
         execs' \in Seq(Execution), Len(execs') = Len(execs), UNCHANGED <<backend, waiter, sends>>
  PROVE  Coherent'
<1> USE DEF Coherent
<1> DEFINE rest == [call EXCEPT ![c] = s]
<1>1. rest \in [Calls -> CallState] /\ \A d \in Calls : call[d].pc = "queued" => rest[d] = call[d]
  BY DEF TypeOK
<1>2. \A d \in Calls : rest[d] = IF d = c THEN s ELSE call[d]
  BY DEF TypeOK
<1>3. Release(r, rest)
  OBVIOUS
<1> HIDE DEF rest
<1>4. /\ locked' \in [Runtimes -> BOOLEAN] /\ queue' \in [Runtimes -> Seq(Calls)]
      /\ call' \in [Calls -> CallState] /\ QueueCoherent'
      /\ \A d \in Calls : call'[d] = rest[d] \/ Passed(d, r)
  BY <1>1, <1>3, ReleaseHands
<1>5. TypeOK'
  BY <1>4 DEF TypeOK, backend, Ids
<1>6. CallsCoherent'
  <2> SUFFICES ASSUME NEW d \in Calls PROVE CallCoherent(call[d], task[d])'
    BY DEF CallsCoherent
  <2>1. CASE call'[d] = rest[d]
    BY <2>1, <1>2 DEF CallsCoherent, CallCoherent, Ids
  <2>2. CASE Passed(d, r)
    <3>1. d # c /\ CallCoherent(call[d], task[d]) /\ call[d] \in CallState /\ task'[d] = task[d]
      BY <2>2 DEF CallsCoherent, TypeOK, Passed
    <3>2. call'[d] = [call[d] EXCEPT !.pc = "granted"]
      BY <1>4, <2>2 DEF Passed
    <3> QED
      BY <2>2, <3>1, <3>2 DEF CallCoherent, CallState, Passed, StartSteps, WriteSteps, WaitSteps, Ids
  <2> QED
    BY <1>4, <2>1, <2>2
<1> QED
  BY <1>4, <1>5, <1>6

(* Giving up.                                                               *)
LEMMA IdleTyped == IdleCall \in CallState /\ \A t : CallCoherent(IdleCall, t)
BY DEF IdleCall, CallState, CallCoherent, StartSteps, WriteSteps, WaitSteps

\* A call that gives up and releases its gate leaves the state coherent.
LEMMA RefuseCoherent ==
  ASSUME Coherent, NEW c \in Calls, call[c].pc \in (StartSteps \cup WriteSteps) \ {"queued"},
         Refuse(c), UNCHANGED <<backend, execs, waiter, task, sends>>
  PROVE  Coherent'
<1>1. call[c].runtime \in Runtimes
  BY DEF Coherent, CallsCoherent, CallCoherent, StartSteps, WriteSteps
<1>2. TasksCoherent' /\ task' \in [Calls -> TaskState]
  BY DEF Coherent, TasksCoherent, TypeOK, Ids
<1>3. IdleCall \in CallState /\ CallCoherent(IdleCall, task'[c])
  BY IdleTyped
<1>4. Release(call[c].runtime, [call EXCEPT ![c] = IdleCall]) /\ call[c].pc # "queued"
  BY DEF Refuse, StartSteps, WriteSteps
<1>5. execs' \in Seq(Execution) /\ Len(execs') = Len(execs)
  BY DEF Coherent, TypeOK
<1> QED
  BY <1>1, <1>2, <1>3, <1>4, <1>5, CallReleases

\* A call that gives up without a gate leaves the state coherent.
LEMMA LeaveCoherent ==
  ASSUME Coherent, NEW c \in Calls, call[c].pc # "queued", Leave(c),
         waiter' \in [Ids -> Calls \cup {NONE}],
         locked' \in [Runtimes -> BOOLEAN], execs' \in Seq(Execution), Len(execs') = Len(execs),
         UNCHANGED <<backend, queue, task, sends>>
  PROVE  Coherent'
BY IdleTyped, CallMoves DEF Leave

(* Going on to another step.                                                *)
LEMMA GotoCoherent ==
  ASSUME Coherent, NEW c \in Calls, NEW p \in Steps, call[c].pc # "queued", Goto(c, p),
         CallCoherent([call[c] EXCEPT !.pc = p], task[c]),
         locked' \in [Runtimes -> BOOLEAN], waiter' \in [Ids -> Calls \cup {NONE}],
         execs' \in Seq(Execution), Len(execs') = Len(execs),
         UNCHANGED <<backend, queue, task, sends>>
  PROVE  Coherent'
<1>1. [call[c] EXCEPT !.pc = p] \in CallState
  BY StepTyped DEF Coherent, TypeOK
<1>2. call' = [call EXCEPT ![c] = [call[c] EXCEPT !.pc = p]]
  BY DEF Goto
<1> QED
  BY <1>1, <1>2, CallMoves

(* The record is inserted and its task spawned.                             *)
LEMMA ReserveCoherent ==
  ASSUME Coherent, NEW c \in Calls, At(c, "reserve"),
         execs' = Append(execs, NewExecution(c)), waiter' = Append(waiter, NONE),
         Spawn(c, "send", Len(execs) + 1),
         call' = [call EXCEPT ![c].exec = Len(execs) + 1, ![c].pc = "waitBegin"],
         UNCHANGED gates, UNCHANGED <<backend, sends>>
  PROVE  Coherent'
<1> USE DEF gates, backend, At
<1>1. /\ TypeOK /\ call[c] \in CallState /\ CallCoherent(call[c], task[c])
      /\ Len(execs) \in Nat /\ Ids = 1 .. Len(execs)
  BY LenProperties DEF Coherent, CallsCoherent, TypeOK, Ids
<1>2. NewExecution(c) \in Execution
  BY <1>1 DEF CallCoherent, CallState, NewExecution, Execution, InputStates, StartSteps
<1>3. execs' \in Seq(Execution) /\ Len(execs') = Len(execs) + 1
  BY <1>1, <1>2 DEF TypeOK
<1>4. waiter' \in [Ids' -> Calls \cup {NONE}]
  <2>1. waiter \in [1 .. Len(execs) -> Calls \cup {NONE}]
    BY <1>1 DEF TypeOK
  <2>2. waiter \in Seq(Calls \cup {NONE})
    BY <1>1, <2>1, SeqDef
  <2>3. Len(waiter) = Len(execs)
    BY <1>1, <2>1, <2>2, LenProperties
  <2>4. waiter' \in Seq(Calls \cup {NONE}) /\ Len(waiter') = Len(execs')
    BY <1>3, <2>2, <2>3, AppendProperties
  <2> QED
    BY <2>4, LenProperties DEF Ids
<1>5. task' \in [Calls -> TaskState] /\ TasksCoherent'
  <2> DEFINE t == [stage |-> "spawned", kind |-> "send", runtime |-> call[c].runtime,
                   exec |-> Len(execs) + 1]
  <2>1. t \in TaskState /\ call[c].runtime \in Runtimes
    BY <1>1 DEF TaskState, CallCoherent
  <2>2. task' = [task EXCEPT ![c] = t]
    BY DEF Spawn
  <2>3. task' \in [Calls -> TaskState]
    BY <1>1, <2>1, <2>2 DEF TypeOK
  <2>4. Ids' = 1 .. Len(execs) + 1
    BY <1>3 DEF Ids
  <2>5. ASSUME NEW d \in Calls, task'[d].stage # "none"
        PROVE  /\ task'[d].runtime \in Runtimes /\ task'[d].kind # "none"
               /\ task'[d].kind = "send" => task'[d].exec \in Ids'
    <3>1. CASE d = c
      BY <1>1, <2>1, <2>2, <2>4, <3>1 DEF TypeOK
    <3>2. CASE d # c
      BY <1>1, <2>2, <2>4, <2>5, <3>2 DEF TypeOK, Coherent, TasksCoherent
    <3> QED
      BY <3>1, <3>2
  <2> QED
    BY <2>3, <2>5 DEF TasksCoherent
<1> DEFINE s == [call[c] EXCEPT !.exec = Len(execs) + 1, !.pc = "waitBegin"]
<1>6. s \in CallState
  BY <1>1 DEF CallState, WaitSteps, TypeOK
<1>7. call' = [call EXCEPT ![c] = s]
  OBVIOUS
<1>8. TypeOK'
  BY <1>1, <1>3, <1>4, <1>5, <1>6, <1>7 DEF TypeOK
<1>9. CallsCoherent'
  <2> SUFFICES ASSUME NEW d \in Calls PROVE CallCoherent(call[d], task[d])'
    BY DEF CallsCoherent
  <2>1. CASE d = c
    BY <1>1, <1>3, <1>7, <2>1 DEF CallCoherent, CallState, StartSteps, WriteSteps, WaitSteps, TypeOK, Ids
  <2>2. CASE d # c
    <3>1. call'[d] = call[d] /\ task'[d] = task[d]
      BY <1>1, <1>7, <2>2 DEF TypeOK, Spawn
    <3>2. Ids \subseteq Ids' /\ CallCoherent(call[d], task[d])
      BY <1>1, <1>3 DEF Coherent, CallsCoherent, Ids
    <3> QED
      BY <3>1, <3>2 DEF CallCoherent
  <2> QED
    BY <2>1, <2>2
<1>10. QueueCoherent'
  <2>1. queue' = queue /\ \A d \in Calls : call[d].pc = "queued" => call'[d] = call[d]
    BY <1>1, <1>7 DEF TypeOK
  <2> QED
    BY <1>1, <2>1, QueueKept DEF Coherent
<1> QED
  BY <1>5, <1>8, <1>9, <1>10 DEF Coherent

\* The record is typed and the waiter locks stay as they are.
Kept == /\ execs' \in Seq(Execution) /\ Len(execs') = Len(execs)
        /\ waiter' \in [Ids -> Calls \cup {NONE}] /\ locked' \in [Runtimes -> BOOLEAN]

\* Every step of start keeps the state coherent.
LEMMA StartCoherent == ASSUME Coherent, NEW c \in Calls, Start(c) PROVE Coherent'
<1> USE DEF At, backend, gates
<1>1. /\ TypeOK /\ call[c] \in CallState /\ CallCoherent(call[c], task[c])
      /\ Len(execs) \in Nat /\ Ids = 1 .. Len(execs)
  BY LenProperties DEF Coherent, CallsCoherent, TypeOK, Ids
<1>2. UNCHANGED <<execs, waiter>> /\ (locked' \in [Runtimes -> BOOLEAN]) => Kept
  BY <1>1 DEF Kept, TypeOK
<1>3. CASE StartLookup(c)
  <2>1. CASE Goto(c, "gate")
    <3>1. CallCoherent([call[c] EXCEPT !.pc = "gate"], task[c])
      BY <1>1, <1>3, <2>1 DEF CallCoherent, CallState, StartSteps, WriteSteps, WaitSteps, StartLookup
    <3> QED
      BY <1>1, <1>2, <1>3, <2>1, <3>1, GotoCoherent DEF StartLookup, Kept, Steps, StartSteps, TypeOK
  <2>2. CASE Leave(c)
    BY <1>1, <1>2, <1>3, <2>2, LeaveCoherent DEF StartLookup, Kept, TypeOK
  <2>3. ASSUME NEW i \in Ids, call' = [call EXCEPT ![c].exec = i, ![c].pc = "waitBegin"]
        PROVE  Coherent'
    <3> DEFINE s == [call[c] EXCEPT !.exec = i, !.pc = "waitBegin"]
    <3>1. s \in CallState /\ CallCoherent(s, task[c])
      BY <1>1, <1>3, WaitsOn DEF CallCoherent, StartLookup
    <3>2. call' = [call EXCEPT ![c] = s]
      BY <2>3
    <3> QED
      BY <1>1, <1>2, <1>3, <3>1, <3>2, CallMoves DEF StartLookup, Kept, TypeOK
  <2> QED
    BY <1>3, <2>1, <2>2, <2>3 DEF StartLookup, Reserved
<1>4. CASE StartGate(c)
  <2>1. CASE Leave(c) /\ UNCHANGED locked
    BY <1>1, <1>2, <1>4, <2>1, LeaveCoherent DEF StartGate, Kept, TypeOK
  <2>2. CASE Goto(c, "recheck") /\ locked' = [locked EXCEPT ![call[c].runtime] = TRUE]
    <3>1. CallCoherent([call[c] EXCEPT !.pc = "recheck"], task[c])
      BY <1>1, <1>4 DEF CallCoherent, CallState, StartSteps, WriteSteps, WaitSteps, StartGate
    <3>2. locked' \in [Runtimes -> BOOLEAN]
      BY <1>1, <2>2 DEF TypeOK
    <3> QED
      BY <1>1, <1>2, <1>4, <2>2, <3>1, <3>2, GotoCoherent DEF StartGate, Kept, Steps, StartSteps
  <2> QED
    BY <1>4, <2>1, <2>2 DEF StartGate
<1>5. CASE StartRecheck(c)
  <2>1. CASE Goto(c, "running") /\ UNCHANGED gates
    <3>1. CallCoherent([call[c] EXCEPT !.pc = "running"], task[c])
      BY <1>1, <1>5 DEF CallCoherent, CallState, StartSteps, WriteSteps, WaitSteps, StartRecheck
    <3> QED
      BY <1>1, <1>2, <1>5, <2>1, <3>1, GotoCoherent DEF StartRecheck, Kept, Steps, StartSteps, TypeOK
  <2>2. CASE Refuse(c)
    BY <1>1, <1>5, <2>2, RefuseCoherent DEF StartRecheck, StartSteps
  <2>3. ASSUME NEW i \in Ids, Release(call[c].runtime, [call EXCEPT ![c].exec = i, ![c].pc = "waitBegin"])
        PROVE  Coherent'
    <3> DEFINE s == [call[c] EXCEPT !.exec = i, !.pc = "waitBegin"]
    <3>1. s \in CallState /\ CallCoherent(s, task'[c])
      BY <1>1, <1>5, WaitsOn DEF CallCoherent, StartRecheck
    <3>2. Release(call[c].runtime, [call EXCEPT ![c] = s])
      BY <2>3
    <3>3. TasksCoherent' /\ task' \in [Calls -> TaskState]
      BY <1>5 DEF Coherent, TasksCoherent, TypeOK, Ids, StartRecheck
    <3>4. call[c].runtime \in Runtimes
      BY <1>1, <1>5 DEF CallCoherent, StartRecheck
    <3> HIDE DEF s
    <3> QED
      BY <1>1, <1>5, <3>1, <3>2, <3>3, <3>4, CallReleases DEF StartRecheck, TypeOK
  <2> QED
    BY <1>5, <2>1, <2>2, <2>3 DEF StartRecheck, Reserved
<1>6. CASE StartRunning(c)
  <2>1. CASE Goto(c, "active") /\ UNCHANGED gates
    <3>1. CallCoherent([call[c] EXCEPT !.pc = "active"], task[c])
      BY <1>1, <1>6 DEF CallCoherent, CallState, StartSteps, WriteSteps, WaitSteps, StartRunning
    <3> QED
      BY <1>1, <1>2, <1>6, <2>1, <3>1, GotoCoherent DEF StartRunning, Kept, Steps, StartSteps, TypeOK
  <2>2. CASE Refuse(c)
    BY <1>1, <1>6, <2>2, RefuseCoherent DEF StartRunning, StartSteps
  <2> QED
    BY <1>6, <2>1, <2>2 DEF StartRunning
<1>7. CASE StartActive(c)
  <2>1. CASE Goto(c, "cursor") /\ UNCHANGED gates
    <3>1. CallCoherent([call[c] EXCEPT !.pc = "cursor"], task[c])
      BY <1>1, <1>7 DEF CallCoherent, CallState, StartSteps, WriteSteps, WaitSteps, StartActive
    <3> QED
      BY <1>1, <1>2, <1>7, <2>1, <3>1, GotoCoherent DEF StartActive, Kept, Steps, StartSteps, TypeOK
  <2>2. CASE Refuse(c)
    BY <1>1, <1>7, <2>2, RefuseCoherent DEF StartActive, StartSteps
  <2> QED
    BY <1>7, <2>1, <2>2 DEF StartActive
<1>8. CASE StartCursor(c)
  <2>1. CASE Refuse(c)
    BY <1>1, <1>8, <2>1, RefuseCoherent DEF StartCursor, StartSteps
  <2>2. CASE /\ call' = [call EXCEPT ![c].start = out[call[c].runtime], ![c].pc = "reserve"]
             /\ UNCHANGED gates
    <3> DEFINE s == [call[c] EXCEPT !.start = out[call[c].runtime], !.pc = "reserve"]
    <3>0. call[c].runtime \in Runtimes
      BY <1>1, <1>8 DEF CallCoherent, StartCursor
    <3>1. s \in CallState /\ CallCoherent(s, task[c])
      BY <1>1, <1>8, <3>0 DEF CallCoherent, CallState, StartSteps, WriteSteps, WaitSteps, StartCursor, TypeOK
    <3>2. call' = [call EXCEPT ![c] = s]
      BY <2>2
    <3> HIDE DEF s
    <3> QED
      BY <1>1, <1>2, <1>8, <2>2, <3>1, <3>2, CallMoves DEF StartCursor, Kept, TypeOK
  <2> QED
    BY <1>8, <2>1, <2>2 DEF StartCursor
<1>9. CASE StartReserve(c)
  <2>1. CASE Refuse(c) /\ UNCHANGED <<execs, waiter, task>>
    BY <1>1, <1>9, <2>1, RefuseCoherent DEF StartReserve, StartSteps
  <2>2. CASE /\ execs' = Append(execs, NewExecution(c))
             /\ waiter' = Append(waiter, NONE)
             /\ Spawn(c, "send", Len(execs) + 1)
             /\ call' = [call EXCEPT ![c].exec = Len(execs) + 1, ![c].pc = "waitBegin"]
             /\ UNCHANGED gates
    BY <1>1, <1>9, <2>2, ReserveCoherent DEF StartReserve
  <2> QED
    BY <1>9, <2>1, <2>2 DEF StartReserve
<1> QED
  BY <1>3, <1>4, <1>5, <1>6, <1>7, <1>8, <1>9 DEF Start

(* What is written into a record.                                           *)
LEMMA FinishTyped ==
  ASSUME TypeOK, NEW i \in Ids, NEW f \in Final \cup {"none"}
  PROVE  /\ [execs EXCEPT ![i].finish = f] \in Seq(Execution)
         /\ Len([execs EXCEPT ![i].finish = f]) = Len(execs)
<1>1. execs \in Seq(Execution) /\ i \in 1 .. Len(execs) /\ execs[i] \in Execution
  BY DEF TypeOK, Ids
<1>2. [execs[i] EXCEPT !.finish = f] \in Execution
  BY <1>1 DEF Execution
<1> QED
  BY <1>1, <1>2, ExceptSeq

(* The guard moves from a call to its task, and the call is over.           *)
LEMMA SpawnCoherent ==
  ASSUME Coherent, NEW c \in Calls, call[c].pc \in {"autoActive", "mark"},
         NEW k \in {"auto", "human", "interrupt"}, Spawn(c, k, 0), Leave(c),
         UNCHANGED <<backend, gates, execs, waiter, sends>>
  PROVE  Coherent'
<1> USE DEF gates, backend
<1>1. TypeOK /\ call[c] \in CallState /\ CallCoherent(call[c], task[c])
  BY DEF Coherent, CallsCoherent, TypeOK
<1> DEFINE t == [stage |-> "spawned", kind |-> k, runtime |-> call[c].runtime, exec |-> 0]
<1>2. t \in TaskState /\ call[c].runtime \in Runtimes
  BY <1>1 DEF TaskState, CallCoherent
<1>3. task' = [task EXCEPT ![c] = t] /\ call' = [call EXCEPT ![c] = IdleCall]
  BY DEF Spawn, Leave
<1>4. TypeOK'
  BY <1>1, <1>2, <1>3, IdleTyped DEF TypeOK, Ids
<1>5. CallsCoherent'
  BY <1>1, <1>3, IdleTyped DEF TypeOK, CallsCoherent, CallCoherent, Coherent, Ids
<1>6. TasksCoherent'
  BY <1>1, <1>2, <1>3 DEF TypeOK, TasksCoherent, Coherent, Ids
<1>7. QueueCoherent'
  <2>1. queue' = queue /\ \A d \in Calls : call[d].pc = "queued" => call'[d] = call[d]
    BY <1>1, <1>3 DEF TypeOK
  <2> QED
    BY <1>1, <2>1, QueueKept DEF Coherent
<1> QED
  BY <1>4, <1>5, <1>6, <1>7 DEF Coherent

(* A future joins the queue of a gate.                                      *)
LEMMA EnqueueCoherent ==
  ASSUME Coherent, NEW c \in Calls, At(c, "lockGate"), Goto(c, "queued"),
         queue' = [queue EXCEPT ![call[c].runtime] = Append(@, c)],
         UNCHANGED <<backend, locked, execs, waiter, task, sends>>
  PROVE  Coherent'
<1> USE DEF backend, At
<1> DEFINE r == call[c].runtime
<1>1. TypeOK /\ call[c] \in CallState /\ CallCoherent(call[c], task[c]) /\ r \in Runtimes
  BY DEF Coherent, CallsCoherent, TypeOK, CallCoherent
<1>2. [call[c] EXCEPT !.pc = "queued"] \in CallState
  BY <1>1, StepTyped DEF Steps, WriteSteps
<1>3. call' = [call EXCEPT ![c] = [call[c] EXCEPT !.pc = "queued"]]
  BY DEF Goto
<1>4. TypeOK'
  BY <1>1, <1>2, <1>3 DEF TypeOK, Ids
<1>5. CallsCoherent'
  <2>1. CallCoherent([call[c] EXCEPT !.pc = "queued"], task[c])
    BY <1>1 DEF CallCoherent, CallState, StartSteps, WriteSteps, WaitSteps
  <2> QED
    BY <1>1, <1>3, <2>1 DEF TypeOK, CallsCoherent, CallCoherent, Coherent, Ids
<1>6. TasksCoherent'
  BY DEF TasksCoherent, Coherent, Ids
<1>7. QueueCoherent'
  <2> SUFFICES ASSUME NEW q \in Runtimes, NEW i \in DOMAIN queue'[q]
               PROVE  /\ call'[queue'[q][i]].pc = "queued" /\ call'[queue'[q][i]].runtime = q
                      /\ \A j \in DOMAIN queue'[q] : queue'[q][j] = queue'[q][i] => j = i
    BY DEF QueueCoherent
  <2>1. \A p \in Runtimes : \A j \in DOMAIN queue[p] :
           queue[p][j] \in Calls /\ queue[p][j] # c
    BY <1>1 DEF TypeOK, QueueCoherent, Coherent
  <2>2. \A d \in Calls : d # c => call'[d] = call[d]
    BY <1>1, <1>3 DEF TypeOK
  <2>3. call'[c].pc = "queued" /\ call'[c].runtime = r
    BY <1>1, <1>3 DEF TypeOK, CallState
  <2>4. CASE q # r
    <3>1. queue'[q] = queue[q]
      BY <1>1, <2>4 DEF TypeOK
    <3>2. i \in DOMAIN queue[q] /\ queue[q][i] \in Calls /\ queue[q][i] # c
      BY <3>1, <2>1
    <3>3. call'[queue[q][i]] = call[queue[q][i]]
      BY <3>2, <2>2
    <3> QED
      BY <3>1, <3>2, <3>3 DEF QueueCoherent, Coherent
  <2>5. CASE q = r
    <3>1. queue[r] \in Seq(Calls) /\ queue'[q] = Append(queue[r], c)
      BY <1>1, <2>5 DEF TypeOK
    <3>2. /\ DOMAIN queue'[q] = 1 .. Len(queue[r]) + 1 /\ Len(queue[r]) \in Nat
          /\ DOMAIN queue[r] = 1 .. Len(queue[r])
          /\ \A j \in 1 .. Len(queue[r]) : queue'[q][j] = queue[r][j]
          /\ queue'[q][Len(queue[r]) + 1] = c
      BY <3>1, AppendProperties, LenProperties
    <3>3. CASE i = Len(queue[r]) + 1
      BY <3>2, <3>3, <2>1, <2>3, <2>5, <1>1
    <3>4. CASE i \in 1 .. Len(queue[r])
      BY <3>2, <3>4, <2>1, <2>2, <2>5, <1>1 DEF QueueCoherent, Coherent
    <3>5. i \in 1 .. Len(queue[r]) + 1
      BY <3>2
    <3>6. i = Len(queue[r]) + 1 \/ i \in 1 .. Len(queue[r])
      BY <3>5, <3>2
    <3> QED
      BY <3>6, <3>3, <3>4
  <2> QED
    BY <2>4, <2>5
<1> QED
  BY <1>4, <1>5, <1>6, <1>7 DEF Coherent

\* Every step of write and interrupt keeps the state coherent.
LEMMA WriteCoherent == ASSUME Coherent, NEW c \in Calls, Write(c) PROVE Coherent'
<1> USE DEF At, backend, gates
<1>1. /\ TypeOK /\ call[c] \in CallState /\ CallCoherent(call[c], task[c])
      /\ Len(execs) \in Nat /\ Ids = 1 .. Len(execs)
  BY LenProperties DEF Coherent, CallsCoherent, TypeOK, Ids
<1>2. UNCHANGED <<execs, waiter>> /\ (locked' \in [Runtimes -> BOOLEAN]) => Kept
  BY <1>1 DEF Kept, TypeOK
<1>3. CASE AutoTryGate(c)
  <2>1. CASE Leave(c) /\ UNCHANGED locked
    BY <1>1, <1>2, <1>3, <2>1, LeaveCoherent DEF AutoTryGate, Kept, TypeOK
  <2>2. CASE Goto(c, "autoActive") /\ locked' = [locked EXCEPT ![call[c].runtime] = TRUE]
    <3>1. CallCoherent([call[c] EXCEPT !.pc = "autoActive"], task[c])
      BY <1>1, <1>3 DEF CallCoherent, CallState, StartSteps, WriteSteps, WaitSteps, AutoTryGate
    <3>2. locked' \in [Runtimes -> BOOLEAN]
      BY <1>1, <2>2 DEF TypeOK
    <3> QED
      BY <1>1, <1>2, <1>3, <2>2, <3>1, <3>2, GotoCoherent DEF AutoTryGate, Kept, Steps, WriteSteps
  <2> QED
    BY <1>3, <2>1, <2>2 DEF AutoTryGate
<1>4. CASE AutoActive(c)
  <2>1. CASE Refuse(c) /\ UNCHANGED task
    BY <1>1, <1>4, <2>1, RefuseCoherent DEF AutoActive, WriteSteps
  <2>2. CASE Spawn(c, "auto", 0) /\ Leave(c) /\ UNCHANGED gates
    BY <1>4, <2>2, SpawnCoherent DEF AutoActive
  <2> QED
    BY <1>4, <2>1, <2>2 DEF AutoActive
<1>5. CASE LockGate(c)
  <2>1. CASE /\ queue' = [queue EXCEPT ![call[c].runtime] = Append(@, c)]
             /\ Goto(c, "queued") /\ UNCHANGED locked
    BY <1>5, <2>1, EnqueueCoherent DEF LockGate
  <2>2. CASE /\ locked' = [locked EXCEPT ![call[c].runtime] = TRUE]
             /\ Goto(c, "takeover") /\ UNCHANGED queue
    <3>1. CallCoherent([call[c] EXCEPT !.pc = "takeover"], task[c])
      BY <1>1, <1>5 DEF CallCoherent, CallState, StartSteps, WriteSteps, WaitSteps, LockGate
    <3>2. locked' \in [Runtimes -> BOOLEAN]
      BY <1>1, <2>2 DEF TypeOK
    <3> QED
      BY <1>1, <1>2, <1>5, <2>2, <3>1, <3>2, GotoCoherent DEF LockGate, Kept, Steps, WriteSteps
  <2> QED
    BY <1>5, <2>1, <2>2 DEF LockGate
<1>6. CASE Takeover(c)
  <2> DEFINE s == [call[c] EXCEPT !.targets = Active(call[c].runtime), !.pc = "mark"]
  <2>1. Active(call[c].runtime) \subseteq Ids /\ Ids \subseteq Nat
    BY <1>1 DEF Active
  <2>2. s \in CallState
    BY <1>1, <2>1 DEF CallState, WriteSteps
  <2>3. CallCoherent(s, task[c])
    BY <1>1, <1>6, <2>1 DEF CallCoherent, CallState, StartSteps, WriteSteps, WaitSteps, Takeover
  <2>4. call' = [call EXCEPT ![c] = s]
    BY <1>6 DEF Takeover
  <2> HIDE DEF s
  <2> QED
    BY <1>1, <1>2, <1>6, <2>2, <2>3, <2>4, CallMoves DEF Takeover, Kept, TypeOK
<1>7. CASE Mark(c)
  <2>1. ASSUME NEW i \in call[c].targets,
               execs' = [execs EXCEPT ![i].finish = "inputChanged"],
               call' = [call EXCEPT ![c].targets = @ \ {i}], UNCHANGED task
        PROVE  Coherent'
    <3> DEFINE s == [call[c] EXCEPT !.targets = @ \ {i}]
    <3>1. i \in Ids /\ call[c].targets \subseteq Nat
      BY <1>1, <1>7 DEF CallCoherent, Mark
    <3>2. s \in CallState
      BY <1>1, <3>1 DEF CallState
    <3>3. CallCoherent(s, task[c])
      BY <1>1, <1>7 DEF CallCoherent, CallState, StartSteps, WriteSteps, WaitSteps, Mark
    <3>4. call' = [call EXCEPT ![c] = s]
      BY <2>1
    <3>5. execs' \in Seq(Execution) /\ Len(execs') = Len(execs)
      BY <1>1, <2>1, <3>1, FinishTyped DEF Final
    <3> HIDE DEF s
    <3> QED
      BY <1>1, <1>7, <2>1, <3>2, <3>3, <3>4, <3>5, CallMoves DEF Mark, TypeOK
  <2>2. CASE /\ Spawn(c, call[c].kind, 0) /\ Leave(c) /\ UNCHANGED execs
    BY <1>1, <1>7, <2>2, SpawnCoherent DEF Mark, CallCoherent, WriteSteps
  <2> QED
    BY <1>7, <2>1, <2>2 DEF Mark
<1> QED
  BY <1>3, <1>4, <1>5, <1>6, <1>7 DEF Write

\* Records keep their type whatever a task or a wait writes into them.
LEMMA RecordTyped ==
  ASSUME TypeOK, NEW i \in Ids, NEW x \in Execution
  PROVE  [execs EXCEPT ![i] = x] \in Seq(Execution) /\ Len([execs EXCEPT ![i] = x]) = Len(execs)
BY ExceptSeq DEF TypeOK, Ids

(* The end of a task.                                                       *)
LEMMA EndTaskCoherent ==
  ASSUME Coherent, NEW c \in Calls, task[c].stage # "none", EndTask(c),
         Release(task[c].runtime, call),
         execs' \in Seq(Execution), Len(execs') = Len(execs), UNCHANGED <<backend, waiter>>,
         sends' \in [Owners \X Keys -> Nat]
  PROVE  Coherent'
<1> DEFINE r == task[c].runtime
<1>1. TypeOK /\ r \in Runtimes
  BY DEF Coherent, TasksCoherent
<1>2. task' = [task EXCEPT ![c] = NoTask] /\ NoTask \in TaskState
  BY DEF EndTask, NoTask, TaskState
<1>3. call \in [Calls -> CallState] /\ Release(r, call)
  BY <1>1 DEF TypeOK
<1> HIDE DEF r
<1>4. /\ locked' \in [Runtimes -> BOOLEAN] /\ queue' \in [Runtimes -> Seq(Calls)]
      /\ call' \in [Calls -> CallState] /\ QueueCoherent'
      /\ \A d \in Calls : call'[d] = call[d] \/ Passed(d, r)
  BY <1>1, <1>3, ReleaseHands DEF Coherent
<1>5. TypeOK'
  BY <1>1, <1>2, <1>4 DEF TypeOK, backend, Ids
<1>6. \A d \in Calls : task'[d] = IF d = c THEN NoTask ELSE task[d]
  BY <1>1, <1>2 DEF TypeOK
<1>7. TasksCoherent'
  BY <1>6 DEF TasksCoherent, Coherent, Ids, NoTask
<1>8. CallsCoherent'
  <2> SUFFICES ASSUME NEW d \in Calls PROVE CallCoherent(call[d], task[d])'
    BY DEF CallsCoherent
  <2>1. CallCoherent(call[d], task[d]) /\ (task[d].stage = "none" => task'[d].stage = "none")
    BY <1>6 DEF Coherent, CallsCoherent, NoTask
  <2>2. CASE call'[d] = call[d]
    BY <2>1, <2>2 DEF CallCoherent, Ids
  <2>3. CASE Passed(d, r)
    <3>1. call'[d] = [call[d] EXCEPT !.pc = "granted"] /\ call[d].pc = "queued" /\ call[d] \in CallState
      BY <1>1, <2>3 DEF Passed, TypeOK
    <3> QED
      BY <2>1, <3>1 DEF CallCoherent, CallState, StartSteps, WriteSteps, WaitSteps, Ids
  <2> QED
    BY <1>4, <2>2, <2>3
<1> QED
  BY <1>4, <1>5, <1>7, <1>8 DEF Coherent

\* Every step of a detached task keeps the state coherent.
LEMMA TaskCoherent == ASSUME Coherent, NEW c \in Calls, Task(c) PROVE Coherent'
<1> DEFINE i == task[c].exec
<1>1. TypeOK /\ task[c] \in TaskState /\ execs \in Seq(Execution)
  BY DEF Coherent, TypeOK
<1>2. (task[c].stage # "none" /\ task[c].kind = "send") => i \in Ids /\ execs[i] \in Execution
  BY <1>1 DEF Coherent, TasksCoherent, Ids
<1>3. CASE TaskBegin(c)
  <2>1. CASE task[c].kind = "send" /\ execs[i].finish # "none"
    <3>1. i \in Ids /\ execs[i] \in Execution
      BY <1>2, <1>3, <2>1 DEF TaskBegin
    <3>2. [execs[i] EXCEPT !.input = "notSent"] \in Execution
      BY <3>1 DEF Execution, InputStates
    <3>3. execs' \in Seq(Execution) /\ Len(execs') = Len(execs)
      BY <1>1, <1>3, <2>1, <3>1, <3>2, RecordTyped DEF TaskBegin
    <3> QED
      BY <1>1, <1>3, <2>1, <3>3, EndTaskCoherent DEF TaskBegin, TypeOK
  <2>2. CASE ~(task[c].kind = "send" /\ execs[i].finish # "none")
    <3> USE DEF backend, gates
    <3>1. /\ task' = [task EXCEPT ![c].stage = "writing"]
          /\ UNCHANGED <<running, out, earliest, locked, queue, execs, call, waiter>>
      BY <1>3, <2>2 DEF TaskBegin
    <3>2. sends' \in [Owners \X Keys -> Nat]
      <4>1. CASE task[c].kind = "send"
        <5>1. execs[i].owner \in Owners /\ execs[i].key \in Keys
          BY <1>2, <1>3, <4>1 DEF TaskBegin, Execution
        <5>2. sends' = [sends EXCEPT ![<<execs[i].owner, execs[i].key>>] = @ + 1]
          BY <1>3, <2>2, <4>1 DEF TaskBegin
        <5> QED
          BY <1>1, <5>1, <5>2 DEF TypeOK
      <4>2. CASE task[c].kind # "send"
        BY <1>1, <1>3, <2>2, <4>2 DEF TaskBegin, TypeOK
      <4> QED
        BY <4>1, <4>2
    <3>3. TypeOK'
      <4>1. [task[c] EXCEPT !.stage = "writing"] \in TaskState
        BY <1>1 DEF TaskState
      <4> QED
        BY <1>1, <3>1, <3>2, <4>1 DEF TypeOK, Ids
    <3>4. TasksCoherent' /\ CallsCoherent'
      <4>1. \A d \in Calls : /\ task'[d].stage = "none" <=> task[d].stage = "none"
                             /\ task'[d].runtime = task[d].runtime
                             /\ task'[d].kind = task[d].kind /\ task'[d].exec = task[d].exec
        BY <1>1, <1>3, <3>1 DEF TypeOK, TaskState, TaskBegin
      <4> QED
        BY <3>1, <4>1 DEF Coherent, TasksCoherent, CallsCoherent, CallCoherent, Ids
    <3>5. QueueCoherent'
      BY <3>1 DEF Coherent, QueueCoherent
    <3> QED
      BY <3>3, <3>4, <3>5 DEF Coherent
  <2> QED
    BY <2>1, <2>2
<1>4. ASSUME NEW ok \in BOOLEAN, TaskEnd(c, ok) PROVE Coherent'
  <2>1. execs' \in Seq(Execution) /\ Len(execs') = Len(execs)
    <3>1. CASE task[c].kind = "send"
      <4> DEFINE x == [execs[i] EXCEPT
                         !.input = IF ok THEN "accepted" ELSE "uncertain",
                         !.finish = IF ~ok /\ @ = "none" THEN "writeUncertain" ELSE @]
      <4>1. i \in Ids /\ execs[i] \in Execution
        BY <1>2, <1>4, <3>1 DEF TaskEnd
      <4>2. x \in Execution
        BY <4>1 DEF Execution, InputStates, Final
      <4>3. execs' = [execs EXCEPT ![i] = x]
        BY <1>1, <1>4, <3>1, <4>1 DEF TaskEnd
      <4> HIDE DEF x
      <4> QED
        BY <1>1, <4>1, <4>2, <4>3, RecordTyped
    <3>2. CASE task[c].kind # "send"
      BY <1>1, <1>4, <3>2 DEF TaskEnd
    <3> QED
      BY <3>1, <3>2
  <2> QED
    BY <1>1, <1>4, <2>1, EndTaskCoherent DEF TaskEnd, TypeOK
<1> QED
  BY <1>3, <1>4 DEF Task

(* A wait ends its loop for a reason.                                       *)
LEMMA BreakCoherent ==
  ASSUME Coherent, NEW c \in Calls, NEW why \in Resumable \cup Final, call[c].pc \in WaitSteps,
         Break(c, why), UNCHANGED <<backend, gates, waiter, task, sends>>,
         execs' \in Seq(Execution), Len(execs') = Len(execs)
  PROVE  Coherent'
<1>1. TypeOK /\ call[c] \in CallState /\ CallCoherent(call[c], task[c])
  BY DEF Coherent, CallsCoherent, TypeOK
<1> DEFINE s == [call[c] EXCEPT !.reason = why, !.pc = "settle"]
<1>2. s \in CallState
  BY <1>1 DEF CallState, WaitSteps
<1>3. CallCoherent(s, task[c])
  BY <1>1 DEF CallCoherent, CallState, StartSteps, WriteSteps, WaitSteps, Resumable, Final
<1>4. call' = [call EXCEPT ![c] = s] /\ call[c].pc # "queued"
  BY DEF Break, WaitSteps
<1>5. waiter' \in [Ids -> Calls \cup {NONE}] /\ locked' \in [Runtimes -> BOOLEAN]
  BY <1>1 DEF TypeOK, gates
<1> HIDE DEF s
<1> QED
  BY <1>2, <1>3, <1>4, <1>5, CallMoves DEF gates

(* A wait goes on to another step of its loop.                              *)
LEMMA WaitGoesOn ==
  ASSUME Coherent, NEW c \in Calls, NEW p \in {"check", "read", "observe", "sleep"},
         call[c].pc \in WaitSteps, Goto(c, p), UNCHANGED <<backend, gates, waiter, task, sends>>,
         execs' \in Seq(Execution), Len(execs') = Len(execs)
  PROVE  Coherent'
<1>1. TypeOK /\ call[c] \in CallState /\ CallCoherent(call[c], task[c])
  BY DEF Coherent, CallsCoherent, TypeOK
<1>2. CallCoherent([call[c] EXCEPT !.pc = p], task[c])
  BY <1>1 DEF CallCoherent, CallState, StartSteps, WriteSteps, WaitSteps
<1>3. waiter' \in [Ids -> Calls \cup {NONE}] /\ locked' \in [Runtimes -> BOOLEAN]
  BY <1>1 DEF TypeOK, gates
<1>4. p \in Steps /\ call[c].pc # "queued"
  BY DEF Steps, WaitSteps
<1> QED
  BY <1>2, <1>3, <1>4, GotoCoherent DEF gates

(* What one read returns, and where it is kept.                             *)
LEMMA ReadTyped ==
  ASSUME NEW n \in Nat, NEW e \in Nat, NEW o \in Nat, NEW g \in Nat
  PROVE  LET from == Least(Greatest(n, e), o)
             len  == Least(Greatest(MaxBytes - g, MinRead), o - from)
         IN  from \in Nat /\ len \in Nat /\ len <= Greatest(MaxBytes - g, MinRead)
<1> DEFINE from == Least(Greatest(n, e), o)
           len  == Least(Greatest(MaxBytes - g, MinRead), o - from)
<1>1. MaxBytes \in Nat /\ MinRead \in Nat \ {0}
  BY InteractionAssumption
<1>2. from \in Nat /\ from <= o
  BY DEF Least, Greatest
<1> HIDE DEF from
<1>3. o - from \in Nat
  BY <1>2
<1>4. len \in Nat /\ len <= Greatest(MaxBytes - g, MinRead)
  BY <1>1, <1>3 DEF Least, Greatest
<1> QED
  BY <1>2, <1>4 DEF from

\* A read of output changes nothing a call's step rests on.
LEMMA ReadKept ==
  ASSUME NEW s \in CallState, NEW n \in Nat, NEW l \in Nat, NEW b \in BOOLEAN
  PROVE  [s EXCEPT !.next = n, !.len = l, !.got = @ + l, !.gap = b, !.pc = "observe"] \in CallState
<1>1. s.got + l \in Nat
  BY DEF CallState
<1> QED
  BY <1>1 DEF CallState, WaitSteps

\* Every step of wait keeps the state coherent.
LEMMA WaitCoherent == ASSUME Coherent, NEW c \in Calls, Wait(c) PROVE Coherent'
<1> DEFINE i == call[c].exec
<1> USE DEF At
<1>1. TypeOK /\ call[c] \in CallState /\ CallCoherent(call[c], task[c]) /\ execs \in Seq(Execution)
  BY DEF Coherent, CallsCoherent, TypeOK
<1>2. call[c].pc \in WaitSteps => i \in Ids /\ execs[i] \in Execution
  BY <1>1 DEF CallCoherent, Ids
<1>3. CASE WaitBegin(c)
  <2>0. i \in Ids
    BY <1>2, <1>3 DEF WaitBegin, WaitSteps
  <2>1. CASE Leave(c) /\ UNCHANGED waiter
    BY <1>1, <1>3, <2>1, LeaveCoherent DEF WaitBegin, TypeOK, gates
  <2>2. CASE /\ waiter' = [waiter EXCEPT ![i] = c]
             /\ call' = [call EXCEPT ![c].next = execs[i].cursor, ![c].pc = "check"]
    <3> DEFINE s == [call[c] EXCEPT !.next = execs[i].cursor, !.pc = "check"]
    <3>1. s \in CallState
      <4>1. execs[i].cursor \in Nat
        BY <1>2, <1>3 DEF WaitBegin, WaitSteps, Execution
      <4> QED
        BY <1>1, <4>1 DEF CallState, WaitSteps
    <3>2. CallCoherent(s, task[c])
      BY <1>1, <1>3 DEF CallCoherent, CallState, StartSteps, WriteSteps, WaitSteps, WaitBegin
    <3>3. call' = [call EXCEPT ![c] = s]
      BY <2>2
    <3>4. waiter' \in [Ids -> Calls \cup {NONE}] /\ locked' \in [Runtimes -> BOOLEAN]
      BY <1>1, <1>3, <2>0, <2>2 DEF TypeOK, WaitBegin, gates
    <3> HIDE DEF s
    <3> QED
      BY <1>1, <1>3, <3>1, <3>2, <3>3, <3>4, CallMoves DEF WaitBegin, gates
  <2> QED
    BY <1>3, <2>1, <2>2 DEF WaitBegin
<1>4. CASE WaitCheck(c)
  <2>1. execs[i].finish \in Final \cup {"none"} /\ UNCHANGED execs
    BY <1>2, <1>4 DEF WaitCheck, WaitSteps, Execution
  <2> QED
    BY <1>1, <1>4, <2>1, BreakCoherent, WaitGoesOn DEF WaitCheck, WaitSteps, Resumable
<1>5. CASE WaitRead(c)
  <2> DEFINE r     == call[c].runtime
             from  == Least(Greatest(call[c].next, earliest[r]), out[r])
             len   == Least(Greatest(MaxBytes - call[c].got, MinRead), out[r] - from)
             s     == [call[c] EXCEPT !.next = from + len, !.len = len, !.got = @ + len,
                                      !.gap = call[c].next < earliest[r], !.pc = "observe"]
  <2>1. r \in Runtimes /\ earliest[r] \in Nat /\ out[r] \in Nat
    BY <1>1, <1>5 DEF CallCoherent, WaitRead, TypeOK
  <2>2. CASE \E why \in {"unavailable", "runtimeExited", "error"} : Break(c, why)
    BY <1>1, <1>5, <2>2, BreakCoherent DEF WaitRead, WaitSteps, Final, Resumable
  <2>3. CASE call' = [call EXCEPT ![c].next = from + len, ![c].len = len, ![c].got = @ + len,
                             ![c].gap = call[c].next < earliest[r], ![c].pc = "observe"]
    <3>1. call[c].next \in Nat /\ call[c].got \in Nat
      BY <1>1 DEF CallState
    <3>2. from \in Nat /\ len \in Nat
      BY <2>1, <3>1, ReadTyped
    <3>3. call' = [call EXCEPT ![c] = s]
      BY <2>3
    <3> HIDE DEF from, len
    <3>4. s \in CallState
      <4>1. from + len \in Nat /\ (call[c].next < earliest[r]) \in BOOLEAN
        BY <3>2
      <4> QED
        BY <1>1, <3>2, <4>1, ReadKept
    <3>5. CallCoherent(s, task[c])
      BY <1>1, <1>5 DEF CallCoherent, CallState, StartSteps, WriteSteps, WaitSteps, WaitRead
    <3>6. waiter' \in [Ids -> Calls \cup {NONE}] /\ locked' \in [Runtimes -> BOOLEAN]
      BY <1>1, <1>5 DEF TypeOK, WaitRead, gates
    <3> HIDE DEF s
    <3> QED
      BY <1>1, <1>5, <3>3, <3>4, <3>5, <3>6, CallMoves DEF WaitRead, gates
  <2> QED
    BY <1>5, <2>2, <2>3 DEF WaitRead
<1>6. CASE WaitObserve(c)
  <2>1. i \in Ids /\ execs[i] \in Execution /\ call[c].pc \in WaitSteps
    BY <1>2, <1>6 DEF WaitObserve, WaitSteps
  <2>2. CASE execs[i].finish # "none"
    <3>1. execs[i].finish \in Final /\ UNCHANGED execs
      BY <1>6, <2>1, <2>2 DEF WaitObserve, Execution
    <3> QED
      BY <1>1, <1>6, <2>1, <2>2, <3>1, BreakCoherent DEF WaitObserve
  <2>3. CASE execs[i].finish = "none"
    <3>1. execs' = [execs EXCEPT ![i].cursor = call[c].next] /\ AfterChunk(c)
      BY <1>6, <2>3 DEF WaitObserve
    <3>2. [execs[i] EXCEPT !.cursor = call[c].next] \in Execution
      BY <1>1, <2>1 DEF Execution, CallState
    <3>3. execs' \in Seq(Execution) /\ Len(execs') = Len(execs)
      BY <1>1, <2>1, <3>1, <3>2, RecordTyped
    <3>4. \/ \E why \in {"outputGap", "matched", "prompt", "error", "outputLimit",
                         "runtimeExited", "idle", "timeout"} : Break(c, why)
          \/ Goto(c, "check") \/ Goto(c, "sleep")
      BY <3>1 DEF AfterChunk
    <3>5. UNCHANGED <<backend, gates, waiter, task, sends>>
      BY <1>6 DEF WaitObserve
    <3> QED
      BY <2>1, <3>3, <3>4, <3>5, BreakCoherent, WaitGoesOn DEF Resumable, Final
  <2> QED
    BY <2>2, <2>3
<1>7. CASE WaitWake(c)
  BY <1>1, <1>7, WaitGoesOn DEF WaitWake, WaitSteps
<1>8. CASE WaitSettle(c)
  <2>1. i \in Ids /\ execs[i] \in Execution
    BY <1>2, <1>8 DEF WaitSettle, WaitSteps
  <2>2. call[c].reason \in Resumable \cup Final
    BY <1>1, <1>8 DEF CallCoherent, CallState, WaitSettle
  <2>3. execs' \in Seq(Execution) /\ Len(execs') = Len(execs)
    BY <1>1, <1>8, <2>1, <2>2, FinishTyped DEF WaitSettle
  <2>4. waiter' \in [Ids -> Calls \cup {NONE}] /\ locked' \in [Runtimes -> BOOLEAN]
    BY <1>1, <1>8, <2>1 DEF TypeOK, WaitSettle, gates
  <2> QED
    BY <1>1, <1>8, <2>3, <2>4, LeaveCoherent DEF WaitSettle, gates
<1> QED
  BY <1>3, <1>4, <1>5, <1>6, <1>7, <1>8 DEF Wait

\* A fresh call is a call.
LEMMA NewCallTyped ==
  ASSUME NEW kind \in AllKinds, NEW p \in Steps, NEW o \in Owners \cup {NONE}, NEW r \in Runtimes,
         NEW k \in Keys \cup {NONE}, NEW s \in Sigs \cup {NONE}
  PROVE  [IdleCall EXCEPT !.kind = kind, !.pc = p, !.owner = o,
                          !.runtime = r, !.key = k, !.sig = s] \in CallState
BY DEF IdleCall, CallState, Steps

\* Requests and abandoned futures keep the state coherent.
LEMMA ClientCoherent == ASSUME Coherent, NEW c \in Calls, Client(c) PROVE Coherent'
<1> USE DEF At, gates
<1>1. /\ TypeOK /\ call[c] \in CallState /\ CallCoherent(call[c], task[c])
      /\ execs \in Seq(Execution) /\ Len(execs) \in Nat
  BY LenProperties DEF Coherent, CallsCoherent, TypeOK
<1>2. UNCHANGED <<locked, execs, waiter>> => Kept
  BY <1>1 DEF Kept, TypeOK
<1>3. ASSUME NEW kind \in AllKinds \ {"wait"}, NEW o \in Owners \cup {NONE}, NEW r \in Runtimes,
             NEW k \in Keys \cup {NONE}, NEW s \in Sigs \cup {NONE},
             kind = "interact" => o \in Owners /\ k \in Keys /\ s \in Sigs,
             Invoke(c, kind, o, r, k, s)
      PROVE  Coherent'
  <2> DEFINE new == [IdleCall EXCEPT !.kind = kind, !.pc = FirstStep(kind), !.owner = o,
                                     !.runtime = r, !.key = k, !.sig = s]
  <2>1. /\ FirstStep(kind) \in {"lookup", "tryGate", "lockGate"}
        /\ kind = "interact" <=> FirstStep(kind) = "lookup"
    BY DEF AllKinds, FirstStep
  <2>2. new \in CallState
    BY <2>1, NewCallTyped DEF Steps, StartSteps, WriteSteps
  <2>3. CallCoherent(new, task[c])
    BY <1>3, <2>1, IdleTyped
       DEF Invoke, CallCoherent, StartSteps, WriteSteps, WaitSteps, IdleCall, AllKinds
  <2>4. call' = [call EXCEPT ![c] = new] /\ call[c].pc # "queued"
    BY <1>3 DEF Invoke
  <2> HIDE DEF new
  <2> QED
    BY <1>2, <1>3, <2>2, <2>3, <2>4, CallMoves DEF Invoke, Kept
<1>4. CASE InvokeInteract(c)
  BY <1>3, <1>4 DEF InvokeInteract, AllKinds
<1>5. CASE InvokeWrite(c)
  BY <1>3, <1>5 DEF InvokeWrite, AllKinds
<1>6. CASE InvokeWait(c)
  <2> PICK i \in Ids :
        /\ At(c, "idle")
        /\ call' = [call EXCEPT ![c] = [IdleCall EXCEPT
                      !.kind = "wait", !.pc = "waitBegin", !.owner = execs[i].owner,
                      !.runtime = execs[i].runtime, !.exec = i]]
        /\ UNCHANGED <<backend, gates, execs, waiter, task, sends>>
    BY <1>6 DEF InvokeWait
  <2> DEFINE new == [IdleCall EXCEPT !.kind = "wait", !.pc = "waitBegin", !.owner = execs[i].owner,
                                     !.runtime = execs[i].runtime, !.exec = i]
  <2>1. execs[i] \in Execution /\ i \in Nat
    BY <1>1 DEF Ids
  <2>2. new \in CallState
    BY <2>1, IdleTyped DEF CallState, WaitSteps, AllKinds, Execution
  <2>3. CallCoherent(new, task[c])
    BY <2>1 DEF CallCoherent, StartSteps, WriteSteps, WaitSteps, IdleCall, Execution
  <2> HIDE DEF new
  <2> QED
    BY <1>2, <2>2, <2>3, CallMoves DEF Kept, new
<1>7. CASE DropQueued(c)
  <2>1. CASE At(c, "granted") /\ Refuse(c)
    BY <1>1, <1>7, <2>1, RefuseCoherent DEF DropQueued, WriteSteps
  <2>2. ASSUME At(c, "queued"), NEW i \in DOMAIN queue[call[c].runtime],
               queue[call[c].runtime][i] = c,
               queue' = [queue EXCEPT ![call[c].runtime] = RemoveAt(@, i)],
               Leave(c), UNCHANGED locked
        PROVE  Coherent'
    <3> DEFINE r == call[c].runtime
    <3>1. r \in Runtimes /\ queue[r] \in Seq(Calls) /\ queue'[r] = RemoveAt(queue[r], i)
          /\ \A q \in Runtimes : q # r => queue'[q] = queue[q]
      BY <1>1, <2>2 DEF CallCoherent, TypeOK
    <3>2. /\ queue'[r] \in Seq(Calls) /\ Len(queue[r]) \in Nat /\ i \in 1 .. Len(queue[r])
          /\ DOMAIN queue[r] = 1 .. Len(queue[r]) /\ DOMAIN queue'[r] = 1 .. Len(queue[r]) - 1
          /\ \A j \in 1 .. Len(queue[r]) - 1 : queue'[r][j] = queue[r][IF j < i THEN j ELSE j + 1]
      <4>1. /\ Len(queue[r]) \in Nat /\ DOMAIN queue[r] = 1 .. Len(queue[r])
            /\ i \in DOMAIN queue[r]
        BY <2>2, <3>1, LenProperties
      <4>2. /\ queue'[r] \in Seq(Calls) /\ Len(queue'[r]) = Len(queue[r]) - 1
            /\ \A j \in 1 .. Len(queue[r]) - 1 :
                 queue'[r][j] = IF j < i THEN queue[r][j] ELSE queue[r][j + 1]
        <5> DEFINE q == queue[r]
        <5>1. q \in Seq(Calls) /\ i \in DOMAIN q /\ queue'[r] = RemoveAt(q, i)
          BY <3>1, <4>1
        <5> HIDE DEF q
        <5>2. /\ RemoveAt(q, i) \in Seq(Calls) /\ Len(RemoveAt(q, i)) = Len(q) - 1
              /\ \A j \in 1 .. Len(q) - 1 : RemoveAt(q, i)[j] = IF j < i THEN q[j] ELSE q[j + 1]
          BY <5>1, RemoveAtSkips
        <5> QED
          BY <5>1, <5>2 DEF q
      <4>3. DOMAIN queue'[r] = 1 .. Len(queue[r]) - 1
        BY <4>2, LenProperties
      <4> QED
        BY <4>1, <4>2, <4>3
    <3>3. call' = [call EXCEPT ![c] = IdleCall] /\ UNCHANGED <<backend, execs, waiter, task, sends>>
      BY <1>7, <2>2 DEF Leave, DropQueued
    <3>4. TypeOK'
      <4>1. queue' \in [Runtimes -> Seq(Calls)]
        BY <1>1, <2>2, <3>1, <3>2 DEF TypeOK
      <4> QED
        BY <1>1, <2>2, <3>3, <4>1, IdleTyped DEF TypeOK, backend, Ids
    <3>5. CallsCoherent' /\ TasksCoherent'
      BY <1>1, <3>3, IdleTyped DEF Coherent, CallsCoherent, TasksCoherent, CallCoherent, Ids, TypeOK
    <3>6. QueueCoherent'
      <4> SUFFICES ASSUME NEW q \in Runtimes, NEW j \in DOMAIN queue'[q]
                   PROVE  /\ call'[queue'[q][j]].pc = "queued" /\ call'[queue'[q][j]].runtime = q
                          /\ \A k \in DOMAIN queue'[q] : queue'[q][k] = queue'[q][j] => k = j
        BY DEF QueueCoherent
      <4>1. \A d \in Calls : d # c => call'[d] = call[d]
        BY <1>1, <3>3 DEF TypeOK
      <4>2. CASE q # r
        <5>1. queue'[q] = queue[q] /\ queue[q][j] \in Calls
          BY <1>1, <3>1, <4>2 DEF TypeOK
        <5>2. queue[q][j] # c
          BY <4>2, <5>1 DEF Coherent, QueueCoherent
        <5> QED
          BY <4>1, <5>1, <5>2 DEF Coherent, QueueCoherent
      <4>3. CASE q = r
        <5> DEFINE old(k) == IF k < i THEN k ELSE k + 1
        <5>1. \A k \in DOMAIN queue'[r] : /\ old(k) \in DOMAIN queue[r] /\ old(k) # i
                                          /\ queue'[r][k] = queue[r][old(k)]
          BY <3>2
        <5>2. \A k, l \in DOMAIN queue'[r] : old(k) = old(l) => k = l
          BY <3>2
        <5>3. queue'[r][j] \in Calls /\ queue'[r][j] # c
          <6>1. old(j) \in DOMAIN queue[r] /\ old(j) # i /\ queue'[r][j] = queue[r][old(j)]
            BY <4>3, <5>1
          <6> HIDE DEF old
          <6>2. queue[r][old(j)] \in Calls
            BY <3>1, <6>1
          <6>3. queue[r][old(j)] # queue[r][i]
            BY <2>2, <3>1, <6>1 DEF Coherent, QueueCoherent
          <6> QED
            BY <2>2, <6>1, <6>2, <6>3
        <5> HIDE DEF old
        <5>4. \A k \in DOMAIN queue'[r] : queue'[r][k] = queue'[r][j] => k = j
          BY <3>1, <4>3, <5>1, <5>2 DEF Coherent, QueueCoherent
        <5>5. call[queue'[r][j]].pc = "queued" /\ call[queue'[r][j]].runtime = r
          BY <3>1, <4>3, <5>1 DEF Coherent, QueueCoherent
        <5> QED
          BY <4>1, <4>3, <5>3, <5>4, <5>5
      <4> QED
        BY <4>2, <4>3
    <3> QED
      BY <3>4, <3>5, <3>6 DEF Coherent
  <2> QED
    BY <1>7, <2>1, <2>2 DEF DropQueued
<1>8. CASE DropWaiter(c)
  <2>1. waiter' \in [Ids -> Calls \cup {NONE}] /\ locked' \in [Runtimes -> BOOLEAN]
    BY <1>1, <1>8 DEF TypeOK, DropWaiter, CallCoherent, WaitSteps
  <2> QED
    BY <1>1, <1>8, <2>1, LeaveCoherent DEF DropWaiter
<1> QED
  BY <1>4, <1>5, <1>6, <1>7, <1>8 DEF Client

\* A passing deadline keeps the state coherent.
LEMMA DeadlineCoherent == ASSUME Coherent, NEW c \in Calls, DeadlinePasses(c) PROVE Coherent'
<1>1. TypeOK /\ call[c] \in CallState /\ CallCoherent(call[c], task[c])
  BY DEF Coherent, CallsCoherent, TypeOK
<1> DEFINE s == [call[c] EXCEPT !.late = TRUE]
<1>2. s \in CallState /\ CallCoherent(s, task[c])
  <2>1. \A b \in BOOLEAN : [call[c] EXCEPT !.late = b] \in CallState
    BY <1>1 DEF CallState
  <2> QED
    BY <1>1, <2>1 DEF CallState, CallCoherent
<1>3. call' = [call EXCEPT ![c] = s] /\ call[c].pc # "queued"
  BY DEF DeadlinePasses
<1> HIDE DEF s
<1> QED
  BY <1>1, <1>2, <1>3, CallMoves DEF DeadlinePasses, TypeOK, gates

\* Cancellation, output and exits keep the state coherent.
LEMMA OutsideCoherent ==
  ASSUME Coherent,
         (\E i \in Ids : Cancel(i)) \/ (\E r \in Runtimes : Emit(r) \/ Exit(r)) \/ UNCHANGED vars
  PROVE  Coherent'
<1>1. UNCHANGED <<gates, waiter, call, task, sends>>
  BY DEF Cancel, Emit, Exit, vars, gates
<1>2. execs' \in Seq(Execution) /\ Len(execs') = Len(execs) /\ Ids' = Ids
  <2>1. ASSUME NEW i \in Ids, Cancel(i) PROVE execs' \in Seq(Execution) /\ Len(execs') = Len(execs)
    BY <2>1, FinishTyped DEF Coherent, Cancel, Final
  <2>2. CASE UNCHANGED execs
    BY <2>2 DEF Coherent, TypeOK, Ids
  <2> QED
    BY <2>1, <2>2 DEF Emit, Exit, vars, Ids
<1> DEFINE BackendTyped == /\ running' \in [Runtimes -> BOOLEAN] /\ out' \in [Runtimes -> Nat]
                            /\ earliest' \in [Runtimes -> Nat]
<1>3. BackendTyped
  <2>1. ASSUME NEW r \in Runtimes, Emit(r) PROVE BackendTyped
    <3>1. Capacity \in Nat \ {0} /\ out[r] \in Nat /\ earliest[r] \in Nat
      BY InteractionAssumption DEF Coherent, TypeOK
    <3>2. Greatest(earliest[r], IF out[r] >= Capacity THEN out[r] + 1 - Capacity ELSE 0) \in Nat
      BY <3>1 DEF Greatest
    <3> QED
      BY <2>1, <3>1, <3>2 DEF Emit, Coherent, TypeOK
  <2>2. ASSUME NEW r \in Runtimes, Exit(r) PROVE BackendTyped
    BY <2>2 DEF Exit, Coherent, TypeOK
  <2>3. CASE (\E i \in Ids : Cancel(i)) \/ UNCHANGED vars
    BY <2>3 DEF Cancel, vars, backend, Coherent, TypeOK
  <2> QED
    BY <2>1, <2>2, <2>3
<1>4. TypeOK'
  BY <1>1, <1>2, <1>3 DEF Coherent, TypeOK, gates
<1>5. CallsCoherent' /\ TasksCoherent' /\ QueueCoherent'
  BY <1>1, <1>2 DEF Coherent, CallsCoherent, CallCoherent, TasksCoherent, QueueCoherent, gates
<1> QED
  BY <1>4, <1>5 DEF Coherent

(* The invariant the other proofs rest on.                                  *)
THEOREM CoherentAlways == Spec => []Coherent
<1>1. Init => Coherent
  <2> SUFFICES ASSUME Init PROVE Coherent
    OBVIOUS
  <2>1. TypeOK
    BY IdleTyped DEF Init, TypeOK, Ids, NoTask, TaskState
  <2>2. CallsCoherent /\ TasksCoherent /\ QueueCoherent
    BY IdleTyped DEF Init, CallsCoherent, TasksCoherent, QueueCoherent, NoTask
  <2> QED
    BY <2>1, <2>2 DEF Coherent
<1>2. Coherent /\ [Next]_vars => Coherent'
  BY ClientCoherent, StartCoherent, WriteCoherent, TaskCoherent, WaitCoherent, DeadlineCoherent,
     OutsideCoherent DEF Next
<1> QED
  BY <1>1, <1>2, PTL DEF Spec

(* The manager's state keeps its shape: registry, gates, calls and tasks.   *)
THEOREM TypeCorrect == Spec => []TypeOK
<1>1. Coherent => TypeOK
  BY DEF Coherent
<1> QED
  BY <1>1, CoherentAlways, PTL
-----------------------------------------------------------------------------
(* The second invariant: the guard of a gate has one holder.                *)

(* Nobody new holds a gate.                                                 *)
LEMMA GateKept ==
  ASSUME GateHeld, locked' = locked,
         \A d \in Calls, q \in Runtimes : Holder(d, q)' => Holder(d, q)
  PROVE  GateHeld'
BY DEF GateHeld

(* Everything is as before but the call c, which holds no gate.             *)
LEMMA GateIgnores ==
  ASSUME GateHeld, NEW c \in Calls, UNCHANGED <<locked, task>>,
         \A d \in Calls : d # c => call'[d] = call[d], call'[c].pc \notin GateSteps
  PROVE  GateHeld'
<1>1. \A d \in Calls, q \in Runtimes : Holder(d, q)' => Holder(d, q)
  BY DEF Holder
<1> QED
  BY <1>1, GateKept

(* A call that holds the gate goes on holding it.                           *)
LEMMA GateGoesOn ==
  ASSUME GateHeld, NEW c \in Calls, UNCHANGED <<locked, task>>, call[c].pc \in GateSteps,
         \A d \in Calls : d # c => call'[d] = call[d], call'[c].runtime = call[c].runtime
  PROVE  GateHeld'
<1>1. \A d \in Calls, q \in Runtimes : Holder(d, q)' => Holder(d, q)
  BY DEF Holder
<1> QED
  BY <1>1, GateKept

(* A call takes a free gate.                                                *)
LEMMA GateTaken ==
  ASSUME GateHeld, NEW c \in Calls, NEW r \in Runtimes, ~locked[r], task' = task,
         locked \in [Runtimes -> BOOLEAN], locked' = [locked EXCEPT ![r] = TRUE],
         \A d \in Calls : d # c => call'[d] = call[d], call'[c].runtime = r,
         call[c].runtime = r
  PROVE  GateHeld'
<1>1. \A d \in Calls, q \in Runtimes : Holder(d, q)' => Holder(d, q) \/ (d = c /\ q = r)
  BY DEF Holder
<1>2. \A d \in Calls : ~Holder(d, r)
  BY DEF GateHeld
<1>3. \A d \in Calls : Holder(d, r)' => d = c
  BY <1>1, <1>2
<1> QED
  BY <1>1, <1>3 DEF GateHeld

(* The holder c gives the gate up, and it is handed on.                     *)
LEMMA GateGivenUp ==
  ASSUME Coherent, GateHeld, NEW c \in Calls, NEW r \in Runtimes, Holder(c, r),
         NEW s \in CallState, s.pc \notin GateSteps, call[c].pc # "queued",
         Release(r, [call EXCEPT ![c] = s]),
         \A d \in Calls : d # c => task'[d] = task[d],
         task'[c].stage # "none" => /\ task'[c].runtime # r
                                    /\ Holder(c, task'[c].runtime)
  PROVE  GateHeld'
<1> DEFINE rest == [call EXCEPT ![c] = s]
<1>1. TypeOK /\ QueueCoherent
  BY DEF Coherent
<1>2. /\ rest \in [Calls -> CallState] /\ \A d \in Calls : call[d].pc = "queued" => rest[d] = call[d]
      /\ \A d \in Calls : rest[d] = IF d = c THEN s ELSE call[d]
  BY <1>1 DEF TypeOK
<1>3. Release(r, rest)
  OBVIOUS
<1> HIDE DEF rest
<1>4. /\ \A q \in Runtimes : q # r => locked'[q] = locked[q]
      /\ \A d \in Calls : call'[d] = rest[d] \/ Passed(d, r)
      /\ \A d, e \in Calls : call'[d] # rest[d] /\ call'[e] # rest[e] => d = e
      /\ \A d \in Calls : call'[d] # rest[d] => locked'[r] = locked[r]
  BY <1>1, <1>2, <1>3, ReleaseHands
<1>5. \A d \in Calls : Passed(d, r) => call'[d].runtime = r /\ call[d].pc = "queued"
  BY <1>1 DEF Passed, TypeOK, CallState
<1>6. ASSUME NEW d \in Calls, NEW q \in Runtimes, Holder(d, q)', q # r PROVE Holder(d, q)
  BY <1>2, <1>4, <1>5, <1>6 DEF Holder, GateSteps
<1>7. ASSUME NEW d \in Calls, Holder(d, r)' PROVE call'[d] # rest[d]
  <2> SUFFICES ASSUME call'[d] = rest[d] PROVE FALSE
    OBVIOUS
  <2>1. d # c
    BY <1>2, <1>7 DEF Holder
  <2>2. Holder(d, r)
    BY <1>2, <1>7, <2>1 DEF Holder
  <2> QED
    BY <2>1, <2>2 DEF GateHeld
<1>8. locked[r]
  BY DEF GateHeld
<1> SUFFICES ASSUME NEW q \in Runtimes, NEW d \in Calls, Holder(d, q)'
             PROVE  locked'[q] /\ \A e \in Calls : Holder(e, q)' => e = d
  BY DEF GateHeld
<1>9. CASE q = r
  BY <1>4, <1>7, <1>8, <1>9
<1>10. CASE q # r
  BY <1>4, <1>6, <1>10 DEF GateHeld
<1> QED
  BY <1>9, <1>10

\* Refusing a call passes its gate on.
LEMMA GateRefused ==
  ASSUME Coherent, GateHeld, NEW c \in Calls, call[c].pc \in GateSteps, Refuse(c), task' = task
  PROVE  GateHeld'
<1>1. call[c].runtime \in Runtimes /\ task[c].stage = "none" /\ call[c].pc # "queued"
  BY DEF Coherent, CallsCoherent, CallCoherent, GateSteps, StartSteps, WriteSteps
<1>2. Holder(c, call[c].runtime) /\ IdleCall.pc \notin GateSteps
  BY DEF Holder, IdleCall, GateSteps
<1>3. Release(call[c].runtime, [call EXCEPT ![c] = IdleCall])
  BY DEF Refuse
<1> QED
  BY <1>1, <1>2, <1>3, IdleTyped, GateGivenUp

\* A task that ends passes its gate on.
LEMMA GateTaskEnds ==
  ASSUME Coherent, GateHeld, NEW c \in Calls, task[c].stage # "none", EndTask(c),
         Release(task[c].runtime, call)
  PROVE  GateHeld'
<1>1. /\ TypeOK /\ call[c] \in CallState /\ task[c].runtime \in Runtimes
      /\ call[c].pc \notin GateSteps /\ call[c].pc # "queued"
  BY DEF Coherent, TypeOK, CallsCoherent, CallCoherent, TasksCoherent, GateSteps, StartSteps, WriteSteps
<1>2. call = [call EXCEPT ![c] = call[c]]
  BY <1>1 DEF TypeOK
<1>3. Holder(c, task[c].runtime)
  BY DEF Holder
<1>4. \A d \in Calls : task'[d] = IF d = c THEN NoTask ELSE task[d]
  BY <1>1 DEF EndTask, TypeOK
<1>5. task'[c].stage = "none" /\ Release(task[c].runtime, [call EXCEPT ![c] = call[c]])
  BY <1>2, <1>4 DEF NoTask
<1> QED
  BY <1>1, <1>3, <1>4, <1>5, GateGivenUp

\* A call that spawns its task moves the guard to it.
LEMMA GateSpawned ==
  ASSUME Coherent, GateHeld, NEW c \in Calls, call[c].pc \in GateSteps, NEW k, NEW i, Spawn(c, k, i),
         locked' = locked, \A d \in Calls : d # c => call'[d] = call[d], call'[c].pc \notin GateSteps
  PROVE  GateHeld'
<1>1. \A d \in Calls : task'[d] = IF d = c THEN [stage |-> "spawned", kind |-> k,
                                  runtime |-> call[c].runtime, exec |-> i] ELSE task[d]
  BY DEF Spawn, Coherent, TypeOK
<1>2. \A d \in Calls, q \in Runtimes : Holder(d, q)' => Holder(d, q)
  BY <1>1 DEF Holder
<1> QED
  BY <1>2, GateKept

\* No step of start gives a gate two holders.
LEMMA GateStart == ASSUME Coherent, GateHeld, NEW c \in Calls, Start(c) PROVE GateHeld'
<1> USE DEF At, gates
<1>1. /\ TypeOK /\ call \in [Calls -> CallState] /\ call[c] \in CallState
      /\ locked \in [Runtimes -> BOOLEAN]
  BY DEF Coherent, TypeOK
<1>2. \A p : Goto(c, p) => /\ call'[c].pc = p /\ call'[c].runtime = call[c].runtime
                           /\ \A d \in Calls : d # c => call'[d] = call[d]
  BY <1>1 DEF Goto, CallState
<1>3. Leave(c) => call'[c].pc = "idle" /\ \A d \in Calls : d # c => call'[d] = call[d]
  BY <1>1 DEF Leave, IdleCall
<1>4. CASE StartLookup(c)
  <2>1. \A d \in Calls : d # c => call'[d] = call[d]
    BY <1>1, <1>2, <1>3, <1>4 DEF StartLookup
  <2>2. call'[c].pc \in {"gate", "idle", "waitBegin"}
    <3>1. \A i : call' = [call EXCEPT ![c].exec = i, ![c].pc = "waitBegin"]
                 => call'[c].pc = "waitBegin"
      BY <1>1 DEF CallState
    <3> QED
      BY <1>2, <1>3, <1>4, <3>1 DEF StartLookup
  <2> QED
    BY <1>4, <2>1, <2>2, GateIgnores DEF StartLookup, GateSteps
<1>5. CASE StartGate(c)
  <2>1. CASE locked[call[c].runtime]
    BY <1>3, <1>5, <2>1, GateIgnores DEF StartGate, GateSteps
  <2>2. CASE ~locked[call[c].runtime]
    <3>1. call[c].runtime \in Runtimes
      BY <1>5 DEF Coherent, CallsCoherent, CallCoherent, StartGate
    <3> QED
      BY <1>1, <1>2, <1>5, <2>2, <3>1, GateTaken DEF StartGate
  <2> QED
    BY <2>1, <2>2
<1>6. CASE StartRecheck(c)
  <2>1. CASE Goto(c, "running") /\ UNCHANGED locked
    BY <1>2, <1>6, <2>1, GateGoesOn DEF StartRecheck, GateSteps
  <2>2. CASE Refuse(c)
    BY <1>6, <2>2, GateRefused DEF StartRecheck, GateSteps
  <2>3. ASSUME NEW i \in Ids, Release(call[c].runtime, [call EXCEPT ![c].exec = i, ![c].pc = "waitBegin"])
        PROVE  GateHeld'
    <3> DEFINE s == [call[c] EXCEPT !.exec = i, !.pc = "waitBegin"]
    <3>1. call[c].runtime \in Runtimes /\ Len(execs) \in Nat /\ task[c].stage = "none"
      BY <1>1, <1>6, LenProperties
         DEF Coherent, CallsCoherent, CallCoherent, StartRecheck, TypeOK, StartSteps
    <3>2. s \in CallState /\ s.pc \notin GateSteps
      BY <1>1, <3>1, WaitsOn DEF CallState, GateSteps
    <3>3. Release(call[c].runtime, [call EXCEPT ![c] = s])
      BY <2>3
    <3>4. Holder(c, call[c].runtime) /\ call[c].pc # "queued" /\ task' = task
      BY <1>6 DEF Holder, StartRecheck, GateSteps
    <3> HIDE DEF s
    <3> QED
      BY <3>1, <3>2, <3>3, <3>4, GateGivenUp
  <2> QED
    BY <1>6, <2>1, <2>2, <2>3 DEF StartRecheck, Reserved
<1>7. CASE StartRunning(c)
  BY <1>2, <1>7, GateGoesOn, GateRefused DEF StartRunning, GateSteps
<1>8. CASE StartActive(c)
  BY <1>2, <1>8, GateGoesOn, GateRefused DEF StartActive, GateSteps
<1>9. CASE StartCursor(c)
  <2>1. CASE /\ call' = [call EXCEPT ![c].start = out[call[c].runtime], ![c].pc = "reserve"]
             /\ UNCHANGED gates
    <3>1. call'[c].runtime = call[c].runtime /\ \A d \in Calls : d # c => call'[d] = call[d]
      BY <1>1, <2>1 DEF CallState
    <3> QED
      BY <1>9, <2>1, <3>1, GateGoesOn DEF StartCursor, GateSteps
  <2>2. CASE Refuse(c)
    BY <1>9, <2>2, GateRefused DEF StartCursor, GateSteps
  <2> QED
    BY <1>9, <2>1, <2>2 DEF StartCursor
<1>10. CASE StartReserve(c)
  <2>1. CASE Refuse(c) /\ UNCHANGED task
    BY <1>10, <2>1, GateRefused DEF StartReserve, GateSteps
  <2>2. CASE /\ Spawn(c, "send", Len(execs) + 1)
             /\ call' = [call EXCEPT ![c].exec = Len(execs) + 1, ![c].pc = "waitBegin"]
             /\ UNCHANGED gates
    <3>1. call'[c].pc = "waitBegin" /\ \A d \in Calls : d # c => call'[d] = call[d]
      BY <1>1, <2>2 DEF CallState
    <3> QED
      BY <1>10, <2>2, <3>1, GateSpawned DEF StartReserve, GateSteps
  <2> QED
    BY <1>10, <2>1, <2>2 DEF StartReserve
<1> QED
  BY <1>4, <1>5, <1>6, <1>7, <1>8, <1>9, <1>10 DEF Start

\* No step of write or interrupt gives a gate two holders.
LEMMA GateWrite == ASSUME Coherent, GateHeld, NEW c \in Calls, Write(c) PROVE GateHeld'
<1> USE DEF At, gates
<1>1. /\ TypeOK /\ call \in [Calls -> CallState] /\ call[c] \in CallState
      /\ locked \in [Runtimes -> BOOLEAN]
  BY DEF Coherent, TypeOK
<1>2. \A p : Goto(c, p) => /\ call'[c].pc = p /\ call'[c].runtime = call[c].runtime
                           /\ \A d \in Calls : d # c => call'[d] = call[d]
  BY <1>1 DEF Goto, CallState
<1>3. Leave(c) => call'[c].pc = "idle" /\ \A d \in Calls : d # c => call'[d] = call[d]
  BY <1>1 DEF Leave, IdleCall
<1>4. call[c].pc # "idle" => call[c].runtime \in Runtimes
  BY DEF Coherent, CallsCoherent, CallCoherent
<1>5. CASE AutoTryGate(c)
  <2>1. CASE locked[call[c].runtime]
    BY <1>3, <1>5, <2>1, GateIgnores DEF AutoTryGate, GateSteps
  <2>2. CASE ~locked[call[c].runtime]
    BY <1>1, <1>2, <1>4, <1>5, <2>2, GateTaken DEF AutoTryGate
  <2> QED
    BY <2>1, <2>2
<1>6. CASE AutoActive(c)
  <2>1. CASE Refuse(c) /\ UNCHANGED task
    BY <1>6, <2>1, GateRefused DEF AutoActive, GateSteps
  <2>2. CASE Spawn(c, "auto", 0) /\ Leave(c) /\ UNCHANGED gates
    BY <1>3, <1>6, <2>2, GateSpawned DEF AutoActive, GateSteps
  <2> QED
    BY <1>6, <2>1, <2>2 DEF AutoActive
<1>7. CASE LockGate(c)
  <2>1. CASE locked[call[c].runtime]
    BY <1>2, <1>7, <2>1, GateIgnores DEF LockGate, GateSteps
  <2>2. CASE ~locked[call[c].runtime]
    BY <1>1, <1>2, <1>4, <1>7, <2>2, GateTaken DEF LockGate
  <2> QED
    BY <2>1, <2>2
<1>8. CASE Takeover(c)
  <2>1. call'[c].runtime = call[c].runtime /\ \A d \in Calls : d # c => call'[d] = call[d]
    BY <1>1, <1>8 DEF Takeover, CallState
  <2> QED
    BY <1>8, <2>1, GateGoesOn DEF Takeover, GateSteps
<1>9. CASE Mark(c)
  <2>1. ASSUME NEW i \in call[c].targets, call' = [call EXCEPT ![c].targets = @ \ {i}], UNCHANGED task
        PROVE  GateHeld'
    <3>1. call'[c].runtime = call[c].runtime /\ \A d \in Calls : d # c => call'[d] = call[d]
      BY <1>1, <2>1 DEF CallState
    <3> QED
      BY <1>9, <2>1, <3>1, GateGoesOn DEF Mark, GateSteps
  <2>2. CASE Spawn(c, call[c].kind, 0) /\ Leave(c)
    BY <1>3, <1>9, <2>2, GateSpawned DEF Mark, GateSteps
  <2> QED
    BY <1>9, <2>1, <2>2 DEF Mark
<1> QED
  BY <1>5, <1>6, <1>7, <1>8, <1>9 DEF Write

\* No step of a task gives a gate two holders.
LEMMA GateTask == ASSUME Coherent, GateHeld, NEW c \in Calls, Task(c) PROVE GateHeld'
<1>1. CASE TaskBegin(c)
  <2>1. CASE task[c].kind = "send" /\ execs[task[c].exec].finish # "none"
    BY <1>1, <2>1, GateTaskEnds DEF TaskBegin
  <2>2. CASE ~(task[c].kind = "send" /\ execs[task[c].exec].finish # "none")
    <3>1. task' = [task EXCEPT ![c].stage = "writing"] /\ UNCHANGED <<locked, call>>
      BY <1>1, <2>2 DEF TaskBegin, gates
    <3>2. \A d \in Calls : /\ task'[d].runtime = task[d].runtime
                           /\ task'[d].stage # "none" => task[d].stage # "none"
      BY <1>1, <3>1 DEF Coherent, TypeOK, TaskState, TaskBegin
    <3>3. \A d \in Calls, q \in Runtimes : Holder(d, q)' => Holder(d, q)
      BY <3>1, <3>2 DEF Holder
    <3> QED
      BY <3>1, <3>3, GateKept
  <2> QED
    BY <2>1, <2>2
<1>2. ASSUME NEW ok \in BOOLEAN, TaskEnd(c, ok) PROVE GateHeld'
  BY <1>2, GateTaskEnds DEF TaskEnd
<1> QED
  BY <1>1, <1>2 DEF Task

\* No step of wait gives a gate two holders.
LEMMA GateWait == ASSUME Coherent, GateHeld, NEW c \in Calls, Wait(c) PROVE GateHeld'
<1> USE DEF At, gates
<1>1. call \in [Calls -> CallState]
  BY DEF Coherent, TypeOK
<1>2. \A p : Goto(c, p) => call'[c].pc = p /\ \A d \in Calls : d # c => call'[d] = call[d]
  BY <1>1 DEF Goto, CallState
<1>3. \A p : Break(c, p) => call'[c].pc = "settle" /\ \A d \in Calls : d # c => call'[d] = call[d]
  BY <1>1 DEF Break, CallState
<1>4. Leave(c) => call'[c].pc = "idle" /\ \A d \in Calls : d # c => call'[d] = call[d]
  BY <1>1 DEF Leave, IdleCall
<1>5. UNCHANGED <<locked, task>>
  BY DEF Wait, WaitBegin, WaitCheck, WaitRead, WaitObserve, WaitWake, WaitSettle
<1>6. /\ call'[c].pc \in {"check", "read", "observe", "sleep", "settle", "idle"}
      /\ \A d \in Calls : d # c => call'[d] = call[d]
  <2>1. CASE WaitBegin(c)
    BY <1>1, <1>4, <2>1 DEF WaitBegin, CallState
  <2>2. CASE WaitCheck(c)
    BY <1>2, <1>3, <2>2 DEF WaitCheck
  <2>3. CASE WaitRead(c)
    <3> DEFINE r     == call[c].runtime
               from  == Least(Greatest(call[c].next, earliest[r]), out[r])
               len   == Least(Greatest(MaxBytes - call[c].got, MinRead), out[r] - from)
    <3>1. CASE \E why \in {"unavailable", "runtimeExited", "error"} : Break(c, why)
      BY <1>3, <3>1
    <3>2. CASE call' = [call EXCEPT ![c].next = from + len, ![c].len = len, ![c].got = @ + len,
                               ![c].gap = call[c].next < earliest[r], ![c].pc = "observe"]
      <4> HIDE DEF from, len
      <4> QED
        BY <1>1, <3>2 DEF CallState
    <3> QED
      BY <2>3, <3>1, <3>2 DEF WaitRead
  <2>4. CASE WaitObserve(c)
    BY <1>2, <1>3, <2>4 DEF WaitObserve, AfterChunk
  <2>5. CASE WaitWake(c)
    BY <1>2, <2>5 DEF WaitWake
  <2>6. CASE WaitSettle(c)
    BY <1>4, <2>6 DEF WaitSettle
  <2> QED
    BY <2>1, <2>2, <2>3, <2>4, <2>5, <2>6 DEF Wait
<1> QED
  BY <1>5, <1>6, GateIgnores DEF GateSteps

\* No request and no abandoned future gives a gate two holders.
LEMMA GateClient == ASSUME Coherent, GateHeld, NEW c \in Calls, Client(c) PROVE GateHeld'
<1> USE DEF At, gates
<1>1. call \in [Calls -> CallState]
  BY DEF Coherent, TypeOK
<1>2. Leave(c) => call'[c].pc = "idle" /\ \A d \in Calls : d # c => call'[d] = call[d]
  BY <1>1 DEF Leave, IdleCall
<1>3. ASSUME NEW kind \in AllKinds, NEW o, NEW r, NEW k, NEW s, Invoke(c, kind, o, r, k, s)
      PROVE  GateHeld'
  <2>1. FirstStep(kind) \notin GateSteps
    BY DEF FirstStep, GateSteps, AllKinds
  <2>2. call'[c].pc = FirstStep(kind) /\ \A d \in Calls : d # c => call'[d] = call[d]
    BY <1>1, <1>3 DEF Invoke, IdleCall
  <2> QED
    BY <1>3, <2>1, <2>2, GateIgnores DEF Invoke
<1>4. CASE InvokeInteract(c) \/ InvokeWrite(c)
  BY <1>3, <1>4 DEF InvokeInteract, InvokeWrite, AllKinds
<1>5. CASE InvokeWait(c)
  <2>1. call'[c].pc = "waitBegin" /\ \A d \in Calls : d # c => call'[d] = call[d]
    BY <1>1, <1>5 DEF InvokeWait, IdleCall
  <2> QED
    BY <1>5, <2>1, GateIgnores DEF InvokeWait, GateSteps
<1>6. CASE DropQueued(c)
  BY <1>2, <1>6, GateIgnores, GateRefused DEF DropQueued, GateSteps
<1>7. CASE DropWaiter(c)
  BY <1>2, <1>7, GateIgnores DEF DropWaiter, GateSteps
<1> QED
  BY <1>4, <1>5, <1>6, <1>7 DEF Client

\* Nothing outside the calls touches a gate.
LEMMA GateOutside ==
  ASSUME Coherent, GateHeld, NEW c \in Calls,
         \/ DeadlinePasses(c) \/ UNCHANGED vars
         \/ (\E i \in Ids : Cancel(i)) \/ (\E r \in Runtimes : Emit(r) \/ Exit(r))
  PROVE  GateHeld'
<1>1. UNCHANGED <<locked, task>>
  BY DEF DeadlinePasses, Cancel, Emit, Exit, vars, gates
<1>2. \A d \in Calls : call'[d].pc = call[d].pc /\ call'[d].runtime = call[d].runtime
  <2>1. CASE DeadlinePasses(c)
    <3>1. call \in [Calls -> CallState] /\ call' = [call EXCEPT ![c].late = TRUE]
      BY <2>1 DEF Coherent, TypeOK, DeadlinePasses
    <3> QED
      BY <3>1 DEF CallState
  <2>2. CASE UNCHANGED call
    BY <2>2
  <2> QED
    BY <2>1, <2>2 DEF Cancel, Emit, Exit, vars
<1>3. \A d \in Calls, q \in Runtimes : Holder(d, q)' => Holder(d, q)
  BY <1>1, <1>2 DEF Holder
<1> QED
  BY <1>1, <1>3, GateKept

\* The gate of a Runtime is locked while a call or a task holds its guard, and at
\* most one does: the guard moves from the future to the detached task.
THEOREM GateHeldAlways == Spec => []GateHeld
<1>1. Init => GateHeld
  BY DEF Init, GateHeld, Holder, IdleCall, NoTask, GateSteps
<1>2. Coherent /\ GateHeld /\ [Next]_vars => GateHeld'
  <2> SUFFICES ASSUME Coherent, GateHeld, [Next]_vars PROVE GateHeld'
    OBVIOUS
  <2>1. CASE Calls = {}
    BY <2>1 DEF GateHeld
  <2>2. ASSUME NEW c \in Calls PROVE GateHeld'
    BY <2>2, GateClient, GateStart, GateWrite, GateTask, GateWait, GateOutside DEF Next
  <2> QED
    BY <2>1, <2>2
<1> QED
  BY <1>1, <1>2, CoherentAlways, PTL DEF Spec

(* At most one backend write per Runtime is in flight, whoever asked for the *)
(* writes and whatever became of the calls.                                 *)
THEOREM WritesNeverOverlap == Spec => []OneWriter
<1>1. Coherent /\ GateHeld => OneWriter
  BY DEF Coherent, TasksCoherent, GateHeld, Holder, OneWriter
<1> QED
  BY <1>1, CoherentAlways, GateHeldAlways, PTL
-----------------------------------------------------------------------------
(* The third invariant: the input of a key is sent by one task, once.       *)

(* Steps that touch neither the inputs of the records nor their tasks.      *)
LEMMA SendsUntouched ==
  ASSUME Coherent, SendsCounted, sends' = sends, Ids' = Ids,
         \A i \in Ids : /\ execs'[i].owner = execs[i].owner /\ execs'[i].key = execs[i].key
                        /\ execs'[i].input = execs[i].input,
         \A c \in Calls : /\ Sender(c)' <=> Sender(c)
                          /\ Sender(c) => task'[c] = task[c]
  PROVE  SendsCounted'
<1> USE DEF SendsCounted
<1>1. \A c \in Calls : Sender(c) => task[c].exec \in Ids
  BY DEF Coherent, TasksCoherent, Sender
<1>2. SendersUnique'
  BY DEF SendersUnique
<1>3. KeysUnsent'
  BY DEF KeysUnsent, Reserved
<1>4. InputsTold'
  <2> SUFFICES ASSUME NEW i \in Ids
               PROVE  /\ execs[i].input = "sending" => \E c \in Calls : Sender(c)' /\ task'[c].exec = i
                      /\ execs[i].input = "notSent" => Sent(i) = 0
                      /\ execs[i].input \in {"accepted", "uncertain"} => Sent(i) = 1
    BY DEF InputsTold, Sent
  <2>1. execs[i].input = "sending" => \E c \in Calls : Sender(c) /\ task[c].exec = i
    BY DEF InputsTold
  <2> QED
    BY <2>1 DEF InputsTold
<1>5. SendersTold'
  BY <1>1 DEF SendersTold, Sent
<1> QED
  BY <1>2, <1>3, <1>4, <1>5

(* A record is inserted with its key unused and its task not yet sending.   *)
LEMMA SendsReserved ==
  ASSUME Coherent, SendsCounted, NEW c \in Calls, StartReserve(c),
         ~UNCHANGED <<execs, waiter, task>>
  PROVE  SendsCounted'
<1> USE DEF SendsCounted
<1> DEFINE n == Len(execs) + 1
<1>1. /\ TypeOK /\ execs \in Seq(Execution) /\ Len(execs) \in Nat /\ Ids = 1 .. Len(execs)
      /\ call[c].owner \in Owners /\ call[c].key \in Keys /\ task[c].stage = "none"
  BY LenProperties DEF Coherent, TypeOK, CallsCoherent, CallCoherent, StartReserve, At, StartSteps, Ids
<1>2. /\ Reserved(call[c].owner, call[c].key) = {} /\ execs' = Append(execs, NewExecution(c))
      /\ Spawn(c, "send", n) /\ sends' = sends
  BY DEF StartReserve
<1>3. /\ Ids' = 1 .. n /\ execs'[n] = NewExecution(c)
      /\ \A i \in Ids : execs'[i] = execs[i]
  BY <1>1, <1>2 DEF Ids
<1>4. /\ execs'[n].owner = call[c].owner /\ execs'[n].key = call[c].key
      /\ execs'[n].input = "sending"
  BY <1>3 DEF NewExecution
<1>5. /\ task'[c].exec = n /\ task'[c].stage = "spawned" /\ task'[c].kind = "send"
      /\ \A d \in Calls : d # c => task'[d] = task[d]
  BY <1>1, <1>2 DEF Spawn, TypeOK
<1>6. \A d \in Calls : Sender(d) => task[d].exec \in Ids /\ d # c
  BY <1>1 DEF Coherent, TasksCoherent, Sender
<1>7. \A i \in Ids : ~(execs[i].owner = call[c].owner /\ execs[i].key = call[c].key)
  BY <1>2 DEF Reserved
<1> HIDE DEF n
<1>8. n \notin Ids /\ \A i \in Ids' : i = n \/ i \in Ids
  BY <1>1, <1>3 DEF n
<1>9. \A d \in Calls : Sender(d)' <=> Sender(d) \/ d = c
  BY <1>5 DEF Sender
<1>10. SendersUnique'
  <2>1. \A i, j \in Ids' : execs'[i].owner = execs'[j].owner /\ execs'[i].key = execs'[j].key => i = j
    BY <1>3, <1>4, <1>7, <1>8 DEF SendersUnique
  <2>2. \A d, e \in Calls : Sender(d)' /\ Sender(e)' /\ task'[d].exec = task'[e].exec => d = e
    BY <1>5, <1>6, <1>8, <1>9 DEF SendersUnique
  <2> QED
    BY <2>1, <2>2 DEF SendersUnique
<1>11. KeysUnsent'
  <2>1. \A o \in Owners, k \in Keys : Reserved(o, k)' = {} => Reserved(o, k) = {}
    BY <1>3, <1>1, <1>8 DEF Reserved, n
  <2> QED
    BY <1>2, <2>1 DEF KeysUnsent
<1>12. sends[<<call[c].owner, call[c].key>>] = 0
  BY <1>1, <1>2 DEF KeysUnsent
<1>13. \A i \in Ids : Sent(i)' = Sent(i)
  BY <1>2, <1>3 DEF Sent
<1>14. InputsTold'
  <2> SUFFICES ASSUME NEW i \in Ids'
               PROVE  /\ execs'[i].input = "sending" => \E d \in Calls : Sender(d)' /\ task'[d].exec = i
                      /\ execs'[i].input = "notSent" => Sent(i)' = 0
                      /\ execs'[i].input \in {"accepted", "uncertain"} => Sent(i)' = 1
    BY DEF InputsTold
  <2>1. CASE i = n
    BY <1>4, <1>5, <1>9, <2>1
  <2>2. CASE i \in Ids
    <3>1. execs[i].input = "sending" => \E d \in Calls : Sender(d) /\ task[d].exec = i
      BY <2>2 DEF InputsTold
    <3> QED
      BY <1>3, <1>5, <1>6, <1>9, <1>13, <2>2, <3>1 DEF InputsTold
  <2> QED
    BY <1>8, <2>1, <2>2
<1>15. SendersTold'
  <2> SUFFICES ASSUME NEW d \in Calls, Sender(d)'
               PROVE  /\ execs'[task'[d].exec].input = "sending"
                      /\ sends'[<<execs'[task'[d].exec].owner, execs'[task'[d].exec].key>>]
                           = IF task'[d].stage = "spawned" THEN 0 ELSE 1
    BY DEF SendersTold, Sent
  <2>1. CASE d = c
    BY <1>2, <1>4, <1>5, <1>12, <2>1
  <2>2. CASE d # c
    <3>1. task'[d] = task[d] /\ Sender(d) /\ task[d].exec \in Ids
      BY <1>5, <1>6, <1>9, <2>2
    <3>2. execs'[task[d].exec] = execs[task[d].exec]
      BY <1>3, <3>1
    <3> QED
      BY <1>2, <3>1, <3>2 DEF SendersTold, Sent
  <2> QED
    BY <2>1, <2>2
<1> QED
  BY <1>10, <1>11, <1>14, <1>15

(* A sending task ends: its record says what it did.                        *)
LEMMA SendsSettled ==
  ASSUME Coherent, SendsCounted, NEW c \in Calls, Sender(c), EndTask(c), sends' = sends,
         Ids' = Ids, NEW v \in {"notSent", "accepted", "uncertain"},
         v = "notSent" <=> task[c].stage = "spawned",
         \A i \in Ids : /\ execs'[i].owner = execs[i].owner /\ execs'[i].key = execs[i].key
                        /\ execs'[i].input = IF i = task[c].exec THEN v ELSE execs[i].input
  PROVE  SendsCounted'
<1> USE DEF SendsCounted
<1>1. /\ \A d \in Calls : d # c => task'[d] = task[d]
      /\ task'[c].stage = "none"
  BY DEF EndTask, NoTask, Coherent, TypeOK
<1>2. \A d \in Calls : Sender(d)' <=> Sender(d) /\ d # c
  BY <1>1 DEF Sender
<1>3. \A d \in Calls : Sender(d) => task[d].exec \in Ids
  BY DEF Coherent, TasksCoherent, Sender
<1>4. \A d \in Calls : Sender(d) /\ d # c => task[d].exec # task[c].exec
  BY DEF SendersUnique
<1>5. SendersUnique'
  <2>1. \A i, j \in Ids' : execs'[i].owner = execs'[j].owner /\ execs'[i].key = execs'[j].key => i = j
    BY DEF SendersUnique
  <2>2. \A d, e \in Calls : Sender(d)' /\ Sender(e)' /\ task'[d].exec = task'[e].exec => d = e
    BY <1>1, <1>2 DEF SendersUnique
  <2> QED
    BY <2>1, <2>2 DEF SendersUnique
<1>6. KeysUnsent'
  BY DEF KeysUnsent, Reserved
<1>7. InputsTold'
  <2> SUFFICES ASSUME NEW i \in Ids
               PROVE  /\ execs'[i].input = "sending" => \E d \in Calls : Sender(d)' /\ task'[d].exec = i
                      /\ execs'[i].input = "notSent" => Sent(i) = 0
                      /\ execs'[i].input \in {"accepted", "uncertain"} => Sent(i) = 1
    BY DEF InputsTold, Sent
  <2>1. CASE i = task[c].exec
    <3>1. task[c].stage \in {"spawned", "writing"}
      BY DEF Coherent, TypeOK, TaskState, Sender
    <3> QED
      BY <2>1, <3>1 DEF SendersTold
  <2>2. CASE i # task[c].exec
    <3>1. execs[i].input = "sending" => \E d \in Calls : Sender(d) /\ task[d].exec = i
      BY DEF InputsTold
    <3> QED
      BY <1>1, <1>2, <2>2, <3>1 DEF InputsTold
  <2> QED
    BY <2>1, <2>2
<1>8. SendersTold'
  <2> SUFFICES ASSUME NEW d \in Calls, Sender(d)'
               PROVE  /\ execs'[task'[d].exec].input = "sending"
                      /\ sends'[<<execs'[task'[d].exec].owner, execs'[task'[d].exec].key>>]
                           = IF task'[d].stage = "spawned" THEN 0 ELSE 1
    BY DEF SendersTold, Sent
  <2>1. Sender(d) /\ d # c /\ task'[d] = task[d] /\ task[d].exec \in Ids
        /\ task[d].exec # task[c].exec
    BY <1>1, <1>2, <1>3, <1>4
  <2> QED
    BY <2>1 DEF SendersTold, Sent
<1> QED
  BY <1>5, <1>6, <1>7, <1>8

(* A sending task asks the backend to write.                                *)
LEMMA SendsBegun ==
  ASSUME Coherent, SendsCounted, NEW c \in Calls, Sender(c), task[c].stage = "spawned",
         task' = [task EXCEPT ![c].stage = "writing"], execs' = execs,
         sends' = [sends EXCEPT ![<<execs[task[c].exec].owner, execs[task[c].exec].key>>] = @ + 1]
  PROVE  SendsCounted'
<1> USE DEF SendsCounted
<1> DEFINE i == task[c].exec
           p == <<execs[i].owner, execs[i].key>>
<1>1. /\ TypeOK /\ i \in Ids /\ execs[i].owner \in Owners /\ execs[i].key \in Keys
      /\ sends \in [Owners \X Keys -> Nat]
  <2>1. i \in Ids /\ execs \in Seq(Execution)
    BY DEF Coherent, TypeOK, TasksCoherent, Sender
  <2>2. execs[i] \in Execution
    BY <2>1 DEF Ids
  <2> QED
    BY <2>1, <2>2 DEF Coherent, TypeOK, Execution
<1>2. \A d \in Calls : /\ d # c => task'[d] = task[d]
                       /\ task'[d].kind = task[d].kind /\ task'[d].exec = task[d].exec
                       /\ task'[c].stage = "writing"
  BY <1>1 DEF TypeOK, TaskState
<1>3. \A d \in Calls : Sender(d)' <=> Sender(d)
  BY <1>2 DEF Sender
<1>4. \A d \in Calls : Sender(d) /\ d # c => task[d].exec # i
  BY DEF SendersUnique
<1>5. \A j \in Ids : <<execs[j].owner, execs[j].key>> = p => j = i
  BY <1>1 DEF SendersUnique
<1>6. Ids' = Ids
  BY DEF Ids
<1>7. /\ execs[i].input = "sending" /\ sends[p] = 0
  BY DEF SendersTold, Sent
<1> HIDE DEF i, p
<1>8. sends'[p] = 1 /\ \A q \in Owners \X Keys : q # p => sends'[q] = sends[q]
  BY <1>1, <1>7 DEF p, i
<1>9. \A j \in Ids : execs[j].owner \in Owners /\ execs[j].key \in Keys
  <2>1. execs \in Seq(Execution)
    BY <1>1 DEF TypeOK
  <2>2. \A j \in Ids : execs[j] \in Execution
    BY <2>1 DEF Ids
  <2> QED
    BY <2>2 DEF Execution
<1>10. \A j \in Ids : Sent(j)' = IF j = i THEN 1 ELSE Sent(j)
  BY <1>5, <1>8, <1>9 DEF Sent, p
<1>11. SendersUnique'
  BY <1>2, <1>3, <1>6 DEF SendersUnique
<1>12. KeysUnsent'
  <2> SUFFICES ASSUME NEW o \in Owners, NEW k \in Keys, Reserved(o, k) = {}
               PROVE  sends'[<<o, k>>] = 0
    BY <1>6 DEF KeysUnsent, Reserved
  <2>1. <<o, k>> # p
    BY <1>1 DEF Reserved, p
  <2> QED
    BY <1>8, <2>1 DEF KeysUnsent
<1>13. InputsTold'
  <2> SUFFICES ASSUME NEW j \in Ids
               PROVE  /\ execs[j].input = "sending" => \E d \in Calls : Sender(d)' /\ task'[d].exec = j
                      /\ execs[j].input = "notSent" => Sent(j)' = 0
                      /\ execs[j].input \in {"accepted", "uncertain"} => Sent(j)' = 1
    BY <1>6 DEF InputsTold
  <2>1. execs[j].input = "sending" => \E d \in Calls : Sender(d) /\ task[d].exec = j
    BY DEF InputsTold
  <2> QED
    BY <1>2, <1>3, <1>7, <1>10, <2>1 DEF InputsTold
<1>14. SendersTold'
  <2> SUFFICES ASSUME NEW d \in Calls, Sender(d)
               PROVE  /\ execs[task[d].exec].input = "sending"
                      /\ sends'[<<execs[task[d].exec].owner, execs[task[d].exec].key>>]
                           = IF task'[d].stage = "spawned" THEN 0 ELSE 1
    BY <1>2, <1>3 DEF SendersTold, Sent
  <2>1. CASE d = c
    BY <1>2, <1>7, <1>8, <2>1 DEF i, p
  <2>2. CASE d # c
    <3>1. task[d].exec \in Ids /\ task[d].exec # i
      BY <1>4, <2>2 DEF Coherent, TasksCoherent, Sender
    <3>2. sends'[<<execs[task[d].exec].owner, execs[task[d].exec].key>>] = Sent(task[d].exec)
      BY <1>5, <1>8, <1>9, <3>1 DEF Sent
    <3> QED
      BY <1>2, <2>2, <3>2 DEF SendersTold
  <2> QED
    BY <2>1, <2>2
<1> QED
  BY <1>11, <1>12, <1>13, <1>14

\* A task that begins or ends keeps records and sends in step.
LEMMA SendsTask == ASSUME Coherent, SendsCounted, NEW c \in Calls, Task(c) PROVE SendsCounted'
<1> DEFINE i == task[c].exec
<1>1. /\ execs \in Seq(Execution) /\ Ids = 1 .. Len(execs) /\ task \in [Calls -> TaskState]
      /\ Sender(c) => i \in Ids
  BY DEF Coherent, TypeOK, Ids, TasksCoherent, Sender
<1>2. \A j \in Ids : execs[j] \in Execution
  BY <1>1
<1>3. CASE TaskBegin(c) /\ task[c].kind # "send"
  <2>1. task' = [task EXCEPT ![c].stage = "writing"] /\ UNCHANGED <<execs, sends>>
    BY <1>3 DEF TaskBegin
  <2>2. \A d \in Calls : (Sender(d)' <=> Sender(d)) /\ (Sender(d) => task'[d] = task[d])
    BY <1>1, <1>3, <2>1 DEF Sender, TaskState
  <2> QED
    BY <2>1, <2>2, SendsUntouched DEF Ids
<1>4. CASE TaskBegin(c) /\ task[c].kind = "send"
  <2>1. Sender(c) /\ task[c].stage = "spawned"
    BY <1>4 DEF Sender, TaskBegin
  <2>2. CASE execs[i].finish # "none"
    <3>1. execs' = [execs EXCEPT ![i].input = "notSent"] /\ EndTask(c) /\ sends' = sends
      BY <1>4, <2>2 DEF TaskBegin
    <3>2. \A j \in Ids : /\ execs'[j].owner = execs[j].owner /\ execs'[j].key = execs[j].key
                         /\ execs'[j].input = IF j = i THEN "notSent" ELSE execs[j].input
      BY <1>1, <1>2, <3>1 DEF Execution
    <3>3. Ids' = Ids
      BY <1>1, <3>1 DEF Ids
    <3> QED
      BY <2>1, <3>1, <3>2, <3>3, SendsSettled
  <2>3. CASE execs[i].finish = "none"
    BY <1>4, <2>1, <2>3, SendsBegun DEF TaskBegin
  <2> QED
    BY <2>2, <2>3
<1>5. ASSUME NEW ok \in BOOLEAN, TaskEnd(c, ok) PROVE SendsCounted'
  <2>1. EndTask(c) /\ sends' = sends /\ task[c].stage = "writing"
    BY <1>5 DEF TaskEnd
  <2>2. CASE task[c].kind # "send"
    <3>1. execs' = execs /\ \A d \in Calls : (Sender(d)' <=> Sender(d)) /\ (Sender(d) => task'[d] = task[d])
      BY <1>1, <1>5, <2>1, <2>2 DEF Sender, EndTask, NoTask, TaskEnd
    <3> QED
      BY <2>1, <3>1, SendsUntouched DEF Ids
  <2>3. CASE task[c].kind = "send"
    <3> DEFINE v == IF ok THEN "accepted" ELSE "uncertain"
    <3>1. Sender(c) /\ i \in Ids
      BY <1>1, <2>1, <2>3 DEF Sender
    <3>2. execs' = [execs EXCEPT ![i].input = v,
                                 ![i].finish = IF ~ok /\ @ = "none" THEN "writeUncertain" ELSE @]
      BY <1>5, <2>3 DEF TaskEnd
    <3>3. \A j \in Ids : /\ execs'[j].owner = execs[j].owner /\ execs'[j].key = execs[j].key
                         /\ execs'[j].input = IF j = i THEN v ELSE execs[j].input
      BY <1>1, <1>2, <3>2 DEF Execution
    <3>4. Ids' = Ids
      BY <1>1, <3>2 DEF Ids
    <3> QED
      BY <2>1, <3>1, <3>3, <3>4, SendsSettled
  <2> QED
    BY <2>2, <2>3
<1> QED
  BY <1>3, <1>4, <1>5 DEF Task

\* Of the other steps some write into records, but never their input or key.
RecordsKeep ==
  /\ Ids' = Ids
  /\ \A i \in Ids : /\ execs'[i].owner = execs[i].owner /\ execs'[i].key = execs[i].key
                    /\ execs'[i].input = execs[i].input

\* Writing a reason or a cursor into a record leaves its key and input alone.
LEMMA RecordsKept ==
  ASSUME Coherent,
         \/ UNCHANGED execs
         \/ \E i \in Ids : \E f : execs' = [execs EXCEPT ![i].finish = f]
         \/ \E i \in Ids : \E n : execs' = [execs EXCEPT ![i].cursor = n]
  PROVE  RecordsKeep
<1>1. execs \in Seq(Execution) /\ \A i \in Ids : execs[i] \in Execution
  BY DEF Coherent, TypeOK, Ids
<1>2. ASSUME NEW i \in Ids, NEW f, execs' = [execs EXCEPT ![i].finish = f] PROVE RecordsKeep
  BY <1>1, <1>2 DEF RecordsKeep, Ids, Execution
<1>3. ASSUME NEW i \in Ids, NEW n, execs' = [execs EXCEPT ![i].cursor = n] PROVE RecordsKeep
  BY <1>1, <1>3 DEF RecordsKeep, Ids, Execution
<1>4. CASE UNCHANGED execs
  BY <1>4 DEF RecordsKeep, Ids
<1> QED
  BY <1>2, <1>3, <1>4

\* The remaining steps send nothing and leave every input as it was.
LEMMA SendsElsewhere ==
  ASSUME Coherent, SendsCounted, NEW c \in Calls,
         \/ Start(c) /\ (StartReserve(c) => UNCHANGED <<execs, waiter, task>>)
         \/ Write(c) \/ Wait(c) \/ Client(c) \/ DeadlinePasses(c) \/ UNCHANGED vars
         \/ (\E i \in Ids : Cancel(i)) \/ (\E r \in Runtimes : Emit(r) \/ Exit(r))
  PROVE  SendsCounted'
<1>1. call[c].pc \in WaitSteps => call[c].exec \in Ids
  BY DEF Coherent, CallsCoherent, CallCoherent
<1>2. call[c].pc = "mark" => call[c].targets \subseteq Ids
  BY DEF Coherent, CallsCoherent, CallCoherent
<1>3. CASE Start(c) /\ (StartReserve(c) => UNCHANGED <<execs, waiter, task>>)
  <2>1. UNCHANGED <<execs, task, sends>>
    BY <1>3 DEF Start, StartLookup, StartGate, StartRecheck, StartRunning, StartActive,
                StartCursor, StartReserve
  <2> QED
    BY <2>1, RecordsKept, SendsUntouched DEF RecordsKeep, Sender
<1>4. CASE Write(c)
  <2>1. RecordsKeep /\ sends' = sends
    BY <1>2, <1>4, RecordsKept DEF Write, AutoTryGate, AutoActive, LockGate, Takeover, Mark, At
  <2>2. CASE UNCHANGED task
    BY <2>1, <2>2, SendsUntouched DEF RecordsKeep, Sender
  <2>3. ASSUME NEW k \in {"auto", "human", "interrupt"}, Spawn(c, k, 0),
               call[c].pc \in {"autoActive", "mark"}
        PROVE  SendsCounted'
    <3>1. task[c].stage = "none"
      BY <2>3 DEF Coherent, CallsCoherent, CallCoherent, WriteSteps
    <3>2. \A d \in Calls : (Sender(d)' <=> Sender(d)) /\ (Sender(d) => task'[d] = task[d])
      BY <2>3, <3>1 DEF Sender, Spawn, Coherent, TypeOK
    <3> QED
      BY <2>1, <3>2, SendsUntouched DEF RecordsKeep
  <2>4. call[c].pc = "mark" => call[c].kind \in {"auto", "human", "interrupt"}
    BY DEF Coherent, CallsCoherent, CallCoherent, WriteSteps
  <2> QED
    BY <1>4, <2>2, <2>3, <2>4 DEF Write, AutoTryGate, AutoActive, LockGate, Takeover, Mark, At
<1>5. CASE Wait(c)
  <2>1. UNCHANGED <<task, sends>>
    BY <1>5 DEF Wait, WaitBegin, WaitCheck, WaitRead, WaitObserve, WaitWake, WaitSettle
  <2>2. \/ UNCHANGED execs
        \/ \E i \in Ids : \E f : execs' = [execs EXCEPT ![i].finish = f]
        \/ \E i \in Ids : \E n : execs' = [execs EXCEPT ![i].cursor = n]
    BY <1>1, <1>5
       DEF Wait, WaitBegin, WaitCheck, WaitRead, WaitObserve, WaitWake, WaitSettle, At, WaitSteps
  <2>3. RecordsKeep
    BY <2>2, RecordsKept
  <2> QED
    BY <2>1, <2>3, SendsUntouched DEF RecordsKeep, Sender
<1>6. CASE \E i \in Ids : Cancel(i)
  <2>1. RecordsKeep /\ UNCHANGED <<task, sends>>
    BY <1>6, RecordsKept DEF Cancel
  <2> QED
    BY <2>1, SendsUntouched DEF RecordsKeep, Sender
<1>7. CASE Client(c) \/ DeadlinePasses(c) \/ UNCHANGED vars \/ (\E r \in Runtimes : Emit(r) \/ Exit(r))
  <2>1. UNCHANGED <<execs, task, sends>>
    BY <1>7 DEF Client, InvokeInteract, InvokeWrite, InvokeWait, Invoke, DropQueued, DropWaiter,
                DeadlinePasses, vars, Emit, Exit
  <2> QED
    BY <2>1, RecordsKept, SendsUntouched DEF RecordsKeep, Sender
<1> QED
  BY <1>3, <1>4, <1>5, <1>6, <1>7

\* What a record says of its input agrees with what was sent, and a record that
\* is still sending has exactly one task that will settle it.
THEOREM SendsCountedAlways == Spec => []SendsCounted
<1>1. Init => SendsCounted
  BY DEF Init, SendsCounted, SendersUnique, KeysUnsent, InputsTold, SendersTold, Sender, NoTask, Ids
<1>2. Coherent /\ SendsCounted /\ [Next]_vars => SendsCounted'
  <2> SUFFICES ASSUME Coherent, SendsCounted, [Next]_vars PROVE SendsCounted'
    OBVIOUS
  <2>1. CASE Calls = {}
    <3>1. Ids' = Ids /\ RecordsKeep /\ UNCHANGED <<task, sends>>
      BY <2>1, RecordsKept DEF Next, Cancel, Emit, Exit, vars, RecordsKeep
    <3> QED
      BY <2>1, <3>1, SendsUntouched DEF RecordsKeep
  <2>2. ASSUME NEW c \in Calls PROVE SendsCounted'
    BY <2>2, SendsElsewhere, SendsTask, SendsReserved DEF Next
  <2> QED
    BY <2>1, <2>2
<1> QED
  BY <1>1, <1>2, CoherentAlways, PTL DEF Spec

(* Whatever retries, races between Runtimes, cancellations and dropped calls *)
(* happen, the input of an idempotency key is sent at most once.            *)
THEOREM SendsAtMostOnce == Spec => []SendAtMostOnce
<1>1. Coherent /\ SendsCounted => SendAtMostOnce
  <2> SUFFICES ASSUME Coherent, SendsCounted, NEW o \in Owners, NEW k \in Keys
               PROVE  sends[<<o, k>>] <= 1
    BY DEF SendAtMostOnce
  <2> USE DEF SendsCounted
  <2>1. CASE Reserved(o, k) = {}
    BY <2>1 DEF KeysUnsent
  <2>2. ASSUME NEW i \in Reserved(o, k) PROVE sends[<<o, k>>] <= 1
    <3>1. i \in Ids /\ Sent(i) = sends[<<o, k>>]
      BY DEF Reserved, Sent
    <3>2. execs[i] \in Execution
      BY <3>1 DEF Coherent, TypeOK, Ids
    <3>3. execs[i].input \in InputStates
      BY <3>2 DEF Execution
    <3>4. execs[i].input = "sending" => \E c \in Calls : Sender(c) /\ task[c].exec = i
      BY <3>1 DEF InputsTold
    <3> QED
      BY <3>1, <3>3, <3>4 DEF InputsTold, SendersTold, InputStates
  <2> QED
    BY <2>1, <2>2
<1> QED
  BY <1>1, CoherentAlways, SendsCountedAlways, PTL

(* A record tells the truth about its input, for any number of records.      *)
THEOREM RecordsTellTheTruth == Spec => []RecordTellsWhatWasSent
<1>1. SendsCounted => RecordTellsWhatWasSent
  BY DEF SendsCounted, InputsTold, RecordTellsWhatWasSent, Sent
<1> QED
  BY <1>1, SendsCountedAlways, PTL
-----------------------------------------------------------------------------
(* What a step does to the calls: one call moves, and at most one other is  *)
(* handed the gate it waits for.                                            *)
Unmoved(d) == call'[d] = call[d] \/ \E r \in Runtimes : Passed(d, r)
OthersUnmoved(c) == \A d \in Calls : d # c => Unmoved(d) /\ task'[d] = task[d]

(* Releasing a gate moves the releasing call as it says, and no other.      *)
LEMMA ReleaseMoves ==
  ASSUME Coherent, NEW c \in Calls, NEW s \in CallState, NEW r \in Runtimes, call[c].pc # "queued",
         Release(r, [call EXCEPT ![c] = s])
  PROVE  call'[c] = s /\ \A d \in Calls : d # c => Unmoved(d)
<1> DEFINE rest == [call EXCEPT ![c] = s]
<1>1. TypeOK /\ QueueCoherent
  BY DEF Coherent
<1>2. /\ rest \in [Calls -> CallState] /\ \A d \in Calls : call[d].pc = "queued" => rest[d] = call[d]
      /\ \A d \in Calls : rest[d] = IF d = c THEN s ELSE call[d]
  BY <1>1 DEF TypeOK
<1>3. Release(r, rest)
  OBVIOUS
<1> HIDE DEF rest
<1>4. \A d \in Calls : call'[d] = rest[d] \/ Passed(d, r)
  BY <1>1, <1>2, <1>3, ReleaseHands
<1> QED
  BY <1>2, <1>4 DEF Unmoved, Passed

(* A call that is refused is over.                                          *)
LEMMA RefuseMoves ==
  ASSUME Coherent, NEW c \in Calls, call[c].pc \in (StartSteps \cup WriteSteps) \ {"queued"}, Refuse(c)
  PROVE  call'[c] = IdleCall /\ \A d \in Calls : d # c => Unmoved(d)
<1>1. call[c].runtime \in Runtimes /\ call[c].pc # "queued"
  BY DEF Coherent, CallsCoherent, CallCoherent, StartSteps, WriteSteps
<1>2. Release(call[c].runtime, [call EXCEPT ![c] = IdleCall])
  BY DEF Refuse
<1> QED
  BY <1>1, <1>2, IdleTyped, ReleaseMoves

(* Every other call is left alone when only c is written.                   *)
LEMMA OneMoves ==
  ASSUME Coherent, NEW c \in Calls, NEW s, call' = [call EXCEPT ![c] = s]
  PROVE  call'[c] = s /\ \A d \in Calls : d # c => Unmoved(d)
BY DEF Coherent, TypeOK, Unmoved

\* The call c inserts its record.
Reserves(c) ==
  /\ call[c].pc = "reserve" /\ call[c].runtime \in Runtimes
  /\ execs' = Append(execs, NewExecution(c)) /\ waiter' = Append(waiter, NONE)
  /\ Spawn(c, "send", Len(execs) + 1)
  /\ call'[c].pc = "waitBegin"

(* A step of start goes to the next step, waits for a record, or gives up.   *)
LEMMA StartMoves ==
  ASSUME Coherent, NEW c \in Calls, Start(c)
  PROVE  /\ OthersUnmoved(c)
         /\ Reserves(c) \/ UNCHANGED <<execs, waiter, task>>
         /\ call'[c].pc \in {"idle", "waitBegin", "gate", "recheck", "running", "active", "cursor", "reserve"}
         /\ call'[c].got \in {0, call[c].got}
         /\ call'[c].pc \in {"cursor", "reserve"} =>
              /\ call'[c].runtime = call[c].runtime
              /\ call[c].pc = "cursor" \/ Active(call[c].runtime) = {}
<1> USE DEF At
<1> DEFINE Moved == /\ \A d \in Calls : d # c => Unmoved(d)
                    /\ call'[c].pc \in {"idle", "waitBegin", "gate", "recheck", "running", "active",
                                       "cursor", "reserve"}
                    /\ call'[c].got \in {0, call[c].got}
                    /\ call'[c].pc \in {"cursor", "reserve"} =>
                         /\ call'[c].runtime = call[c].runtime
                         /\ call[c].pc = "cursor" \/ Active(call[c].runtime) = {}
           Idly == UNCHANGED <<execs, waiter, task>>
<1>1. /\ TypeOK /\ call \in [Calls -> CallState] /\ call[c] \in CallState
      /\ CallCoherent(call[c], task[c])
  BY DEF Coherent, CallsCoherent, TypeOK
<1>2. \A p : Goto(c, p) => /\ call'[c].pc = p /\ call'[c].runtime = call[c].runtime
                           /\ call'[c].got = call[c].got
                           /\ \A d \in Calls : d # c => call'[d] = call[d]
  BY <1>1 DEF Goto, CallState
<1>3. ASSUME NEW p \in {"gate", "recheck", "running", "active"}, Goto(c, p) PROVE Moved
  BY <1>2, <1>3 DEF Unmoved
<1>4. ASSUME Goto(c, "cursor"), Active(call[c].runtime) = {} PROVE Moved
  BY <1>2, <1>4 DEF Unmoved
<1>5. IdleCall.pc = "idle" /\ IdleCall.got = 0
  BY DEF IdleCall
<1>6. ASSUME Leave(c) PROVE Moved
  BY <1>5, <1>6, OneMoves DEF Leave
<1>7. ASSUME Refuse(c), call[c].pc \in StartSteps PROVE Moved
  BY <1>5, <1>7, RefuseMoves DEF StartSteps
<1>8. ASSUME NEW i, call' = [call EXCEPT ![c].exec = i, ![c].pc = "waitBegin"]
      PROVE  Moved /\ call'[c].pc = "waitBegin"
  BY <1>1, <1>8 DEF CallState, Unmoved
<1>9. ASSUME NEW i \in Ids, call[c].pc = "recheck",
             Release(call[c].runtime, [call EXCEPT ![c].exec = i, ![c].pc = "waitBegin"])
      PROVE  Moved
  <2> DEFINE s == [call[c] EXCEPT !.exec = i, !.pc = "waitBegin"]
  <2>1. call[c].runtime \in Runtimes /\ call[c].pc # "queued" /\ Len(execs) \in Nat
    BY <1>1, <1>9 DEF CallCoherent, TypeOK
  <2>2. s \in CallState
    BY <1>1, <2>1, WaitsOn
  <2>3. Release(call[c].runtime, [call EXCEPT ![c] = s])
    BY <1>9
  <2>4. s.pc = "waitBegin" /\ s.got = call[c].got
    BY <1>1 DEF CallState
  <2> HIDE DEF s
  <2>5. call'[c] = s /\ \A d \in Calls : d # c => Unmoved(d)
    BY <2>1, <2>2, <2>3, ReleaseMoves
  <2> QED
    BY <2>4, <2>5
<1>10. ASSUME call' = [call EXCEPT ![c].start = out[call[c].runtime], ![c].pc = "reserve"],
              call[c].pc = "cursor"
       PROVE  Moved
  BY <1>1, <1>10 DEF CallState, Unmoved
<1>11. Moved /\ Idly => OthersUnmoved(c)
  BY DEF OthersUnmoved
<1> HIDE DEF Moved
<1>12. CASE StartReserve(c)
  <2>1. CASE Refuse(c) /\ Idly
    BY <1>7, <1>11, <1>12, <2>1 DEF Moved, StartReserve, StartSteps
  <2>2. CASE /\ execs' = Append(execs, NewExecution(c))
             /\ waiter' = Append(waiter, NONE)
             /\ Spawn(c, "send", Len(execs) + 1)
             /\ call' = [call EXCEPT ![c].exec = Len(execs) + 1, ![c].pc = "waitBegin"]
    <3>1. \A d \in Calls : d # c => task'[d] = task[d]
      BY <1>1, <2>2 DEF Spawn, TypeOK
    <3>2. call[c].runtime \in Runtimes /\ call[c].pc = "reserve"
      BY <1>1, <1>12 DEF CallCoherent, StartReserve
    <3>3. Moved /\ call'[c].pc = "waitBegin"
      BY <1>8, <2>2
    <3> QED
      BY <2>2, <3>1, <3>2, <3>3 DEF Moved, OthersUnmoved, Reserves
  <2> QED
    BY <1>12, <2>1, <2>2 DEF StartReserve
<1>13. CASE ~StartReserve(c)
  <2>1. ASSUME StartLookup(c) PROVE Moved
    BY <1>3, <1>6, <1>8, <2>1 DEF StartLookup
  <2>2. ASSUME StartGate(c) PROVE Moved
    BY <1>3, <1>6, <2>2 DEF StartGate
  <2>3. ASSUME StartRecheck(c) PROVE Moved
    BY <1>3, <1>7, <1>9, <2>3 DEF StartRecheck, Reserved, StartSteps
  <2>4. ASSUME StartRunning(c) PROVE Moved
    BY <1>3, <1>7, <2>4 DEF StartRunning, StartSteps
  <2>5. ASSUME StartActive(c) PROVE Moved
    BY <1>4, <1>7, <2>5 DEF StartActive, StartSteps
  <2>6. ASSUME StartCursor(c) PROVE Moved
    BY <1>7, <1>10, <2>6 DEF StartCursor, StartSteps
  <2>7. Moved
    BY <1>13, <2>1, <2>2, <2>3, <2>4, <2>5, <2>6 DEF Start
  <2>8. Idly
    BY <1>13 DEF Start, StartLookup, StartGate, StartRecheck, StartRunning, StartActive, StartCursor
  <2> QED
    BY <1>11, <2>7, <2>8 DEF Moved
<1> QED
  BY <1>12, <1>13

(* A step of write or interrupt takes the gate, looks at the records under   *)
(* it, marks one of them, hands its guard to a task, or gives up.            *)
LEMMA WriteMoves ==
  ASSUME Coherent, NEW c \in Calls, Write(c)
  PROVE  /\ OthersUnmoved(c) /\ UNCHANGED waiter
         /\ call'[c].pc \in WriteSteps \cup {"idle"} /\ call'[c].got \in {0, call[c].got}
         /\ \/ /\ UNCHANGED <<execs, task>>
               /\ call'[c].pc = "mark" => /\ call'[c].runtime = call[c].runtime
                                          /\ call'[c].targets = Active(call[c].runtime)
            \/ /\ call[c].pc = "mark" /\ call'[c].pc = "mark" /\ call'[c].runtime = call[c].runtime
               /\ UNCHANGED task
               /\ \E i \in Ids : /\ execs' = [execs EXCEPT ![i].finish = "inputChanged"]
                                 /\ call'[c].targets = call[c].targets \ {i}
            \/ /\ \E k \in Foreign : Spawn(c, k, 0)
               /\ call'[c].pc = "idle" /\ UNCHANGED execs
               /\ \/ Active(call[c].runtime) = {}
                  \/ call[c].pc = "mark" /\ call[c].targets = {}
<1> USE DEF At
<1>1. /\ TypeOK /\ call \in [Calls -> CallState] /\ call[c] \in CallState
      /\ CallCoherent(call[c], task[c])
  BY DEF Coherent, CallsCoherent, TypeOK
<1>2. ASSUME NEW p \in WriteSteps, Goto(c, p)
      PROVE  call'[c].pc = p /\ call'[c].got = call[c].got /\ \A d \in Calls : d # c => Unmoved(d)
  BY <1>1, <1>2 DEF Goto, CallState, Unmoved
<1>3. "autoActive" \in WriteSteps /\ "queued" \in WriteSteps /\ "takeover" \in WriteSteps
  BY DEF WriteSteps
<1>4. Leave(c) => call'[c] = IdleCall /\ \A d \in Calls : d # c => Unmoved(d)
  BY OneMoves DEF Leave
<1>5. IdleCall.pc = "idle" /\ IdleCall.got = 0
  BY DEF IdleCall
<1>6. \A k : Spawn(c, k, 0) => \A d \in Calls : d # c => task'[d] = task[d]
  BY <1>1 DEF Spawn, TypeOK
<1>7. CASE AutoTryGate(c)
  BY <1>2, <1>3, <1>4, <1>5, <1>7 DEF AutoTryGate, WriteSteps, OthersUnmoved
<1>8. CASE AutoActive(c)
  <2>1. CASE Refuse(c) /\ UNCHANGED task
    BY <1>5, <1>8, <2>1, RefuseMoves DEF AutoActive, WriteSteps, OthersUnmoved
  <2>2. CASE Active(call[c].runtime) = {} /\ Spawn(c, "auto", 0) /\ Leave(c)
    BY <1>4, <1>5, <1>6, <1>8, <2>2 DEF AutoActive, WriteSteps, OthersUnmoved, Foreign
  <2> QED
    BY <1>8, <2>1, <2>2 DEF AutoActive
<1>9. CASE LockGate(c)
  BY <1>2, <1>3, <1>5, <1>9 DEF LockGate, WriteSteps, OthersUnmoved
<1>10. CASE Takeover(c)
  <2> DEFINE s == [call[c] EXCEPT !.targets = Active(call[c].runtime), !.pc = "mark"]
  <2>1. call' = [call EXCEPT ![c] = s]
    BY <1>10 DEF Takeover
  <2>2. s.pc = "mark" /\ s.targets = Active(call[c].runtime) /\ s.runtime = call[c].runtime
        /\ s.got = call[c].got
    BY <1>1 DEF CallState
  <2> HIDE DEF s
  <2>3. call'[c] = s /\ \A d \in Calls : d # c => Unmoved(d)
    BY <2>1, OneMoves
  <2> QED
    BY <1>10, <2>2, <2>3 DEF Takeover, WriteSteps, OthersUnmoved
<1>11. CASE Mark(c)
  <2>1. ASSUME NEW i \in call[c].targets,
               execs' = [execs EXCEPT ![i].finish = "inputChanged"],
               call' = [call EXCEPT ![c].targets = @ \ {i}], UNCHANGED task
        PROVE  /\ OthersUnmoved(c) /\ call'[c].pc = "mark" /\ call'[c].got = call[c].got
               /\ i \in Ids /\ call'[c].runtime = call[c].runtime
               /\ call'[c].targets = call[c].targets \ {i}
    <3> DEFINE s == [call[c] EXCEPT !.targets = @ \ {i}]
    <3>1. call' = [call EXCEPT ![c] = s] /\ i \in Ids /\ call[c].pc = "mark"
      BY <1>1, <1>11, <2>1 DEF CallCoherent, Mark
    <3>2. s.pc = "mark" /\ s.targets = call[c].targets \ {i} /\ s.runtime = call[c].runtime
          /\ s.got = call[c].got
      BY <1>1, <3>1 DEF CallState
    <3> HIDE DEF s
    <3>3. call'[c] = s /\ \A d \in Calls : d # c => Unmoved(d)
      BY <3>1, OneMoves
    <3> QED
      BY <2>1, <3>1, <3>2, <3>3 DEF OthersUnmoved
  <2>2. CASE /\ call[c].targets = {} /\ Spawn(c, call[c].kind, 0) /\ Leave(c) /\ UNCHANGED execs
    <3>1. call[c].kind \in Foreign
      BY <1>1, <1>11 DEF CallCoherent, WriteSteps, Foreign, Mark
    <3> QED
      BY <1>4, <1>5, <1>6, <1>11, <2>2, <3>1 DEF Mark, WriteSteps, OthersUnmoved
  <2>3. CASE \E i \in call[c].targets :
               /\ execs' = [execs EXCEPT ![i].finish = "inputChanged"]
               /\ call' = [call EXCEPT ![c].targets = @ \ {i}] /\ UNCHANGED task
    <3>1. PICK i \in call[c].targets :
            /\ execs' = [execs EXCEPT ![i].finish = "inputChanged"]
            /\ call' = [call EXCEPT ![c].targets = @ \ {i}] /\ UNCHANGED task
      BY <2>3
    <3>2. /\ OthersUnmoved(c) /\ call'[c].pc = "mark" /\ call'[c].got = call[c].got
          /\ i \in Ids /\ call'[c].runtime = call[c].runtime
          /\ call'[c].targets = call[c].targets \ {i}
      BY <2>1, <3>1
    <3> QED
      BY <1>11, <3>1, <3>2 DEF Mark, WriteSteps
  <2> QED
    BY <1>11, <2>2, <2>3 DEF Mark
<1> QED
  BY <1>7, <1>8, <1>9, <1>10, <1>11 DEF Write

(* A task leaves every call alone, but the one it hands its gate to.         *)
LEMMA TaskMoves ==
  ASSUME Coherent, NEW c \in Calls, Task(c)
  PROVE  /\ OthersUnmoved(c) /\ call'[c] = call[c] /\ UNCHANGED waiter
         /\ \/ task'[c] = NoTask
            \/ task[c].stage = "spawned" /\ task' = [task EXCEPT ![c].stage = "writing"]
         /\ \/ UNCHANGED execs
            \/ /\ task[c].exec \in Ids
               /\ \E s \in InputStates, f \in Final \cup {"none"} :
                    /\ execs' = [execs EXCEPT ![task[c].exec].input = s, ![task[c].exec].finish = f]
                    /\ execs[task[c].exec].finish # "none" => f = execs[task[c].exec].finish
<1> DEFINE i == task[c].exec
<1>1. /\ TypeOK /\ call[c] \in CallState /\ CallCoherent(call[c], task[c])
      /\ execs \in Seq(Execution) /\ task[c] \in TaskState
  BY DEF Coherent, CallsCoherent, TypeOK
<1>2. /\ task[c].stage # "none" /\ task[c].runtime \in Runtimes
      /\ task[c].kind = "send" => i \in Ids /\ execs[i] \in Execution
  <2>1. task[c].stage # "none"
    BY DEF Task, TaskBegin, TaskEnd
  <2> QED
    BY <1>1, <2>1 DEF Coherent, TasksCoherent, Ids
<1>3. call[c].pc # "queued"
  BY <1>1, <1>2 DEF CallCoherent, WriteSteps
<1>4. Release(task[c].runtime, call) => call'[c] = call[c] /\ \A d \in Calls : d # c => Unmoved(d)
  <2>1. call = [call EXCEPT ![c] = call[c]]
    BY <1>1 DEF TypeOK
  <2> QED
    BY <1>1, <1>2, <1>3, <2>1, ReleaseMoves
<1>5. EndTask(c) => task'[c] = NoTask /\ \A d \in Calls : d # c => task'[d] = task[d]
  BY <1>1 DEF EndTask, TypeOK
<1>6. CASE TaskBegin(c)
  <2>1. CASE task[c].kind = "send" /\ execs[i].finish # "none"
    <3>1. execs' = [execs EXCEPT ![i].input = "notSent"] /\ EndTask(c) /\ Release(task[c].runtime, call)
      BY <1>6, <2>1 DEF TaskBegin
    <3>2. execs' = [execs EXCEPT ![i].input = "notSent", ![i].finish = execs[i].finish]
      BY <1>1, <1>2, <2>1, <3>1 DEF Execution
    <3>3. execs[i].finish \in Final \cup {"none"}
      BY <1>2, <2>1 DEF Execution
    <3>4. OthersUnmoved(c) /\ call'[c] = call[c] /\ task'[c] = NoTask
      BY <1>4, <1>5, <3>1 DEF OthersUnmoved
    <3>5. i \in Ids /\ UNCHANGED waiter
      BY <1>2, <1>6, <2>1 DEF TaskBegin
    <3>6. \E s \in InputStates, f \in Final \cup {"none"} :
            /\ execs' = [execs EXCEPT ![i].input = s, ![i].finish = f]
            /\ execs[i].finish # "none" => f = execs[i].finish
      <4>1. "notSent" \in InputStates
        BY DEF InputStates
      <4> DEFINE f == execs[i].finish
      <4>2. execs' = [execs EXCEPT ![i].input = "notSent", ![i].finish = f] /\ f \in Final \cup {"none"}
        BY <3>2, <3>3
      <4>3. execs[i].finish # "none" => f = execs[i].finish
        OBVIOUS
      <4> HIDE DEF f
      <4> QED
        BY <4>1, <4>2, <4>3
    <3> QED
      BY <3>4, <3>5, <3>6
  <2>2. CASE ~(task[c].kind = "send" /\ execs[i].finish # "none")
    BY <1>1, <1>6, <2>2 DEF TaskBegin, OthersUnmoved, Unmoved, gates, TypeOK
  <2> QED
    BY <2>1, <2>2
<1>7. ASSUME NEW ok \in BOOLEAN, TaskEnd(c, ok)
      PROVE  \/ UNCHANGED execs
             \/ /\ i \in Ids
                /\ \E s \in InputStates, f \in Final \cup {"none"} :
                     /\ execs' = [execs EXCEPT ![i].input = s, ![i].finish = f]
                     /\ execs[i].finish # "none" => f = execs[i].finish
  <2>1. CASE task[c].kind # "send"
    BY <1>7, <2>1 DEF TaskEnd
  <2>2. CASE task[c].kind = "send"
    <3> DEFINE s == IF ok THEN "accepted" ELSE "uncertain"
               f == IF ~ok /\ execs[i].finish = "none" THEN "writeUncertain" ELSE execs[i].finish
    <3>1. execs' = [execs EXCEPT ![i].input = s, ![i].finish = f]
      BY <1>1, <1>2, <1>7, <2>2 DEF TaskEnd, Execution
    <3>2. s \in InputStates /\ f \in Final \cup {"none"}
      BY <1>2, <2>2 DEF InputStates, Final, Execution
    <3>3. execs[i].finish # "none" => f = execs[i].finish
      OBVIOUS
    <3> HIDE DEF s, f
    <3> QED
      BY <1>2, <2>2, <3>1, <3>2, <3>3
  <2> QED
    BY <2>1, <2>2
<1>8. ASSUME NEW ok \in BOOLEAN, TaskEnd(c, ok)
      PROVE  OthersUnmoved(c) /\ call'[c] = call[c] /\ UNCHANGED waiter /\ task'[c] = NoTask
  BY <1>4, <1>5, <1>8 DEF TaskEnd, OthersUnmoved
<1>9. CASE \E ok \in BOOLEAN : TaskEnd(c, ok)
  <2>1. PICK ok \in BOOLEAN : TaskEnd(c, ok)
    BY <1>9
  <2> QED
    BY <2>1, <1>7, <1>8
<1> QED
  BY <1>6, <1>9 DEF Task

(* A read adds at most what it asked for to what the wait has got.           *)
LEMMA ReadMoves ==
  ASSUME Coherent, NEW c \in Calls, WaitRead(c)
  PROVE  \/ (\E why \in {"unavailable", "runtimeExited", "error"} : Break(c, why))
         \/ /\ call'[c].pc = "observe" /\ call'[c].exec = call[c].exec
            /\ call'[c].got \in Nat
            /\ call'[c].got <= call[c].got + Greatest(MaxBytes - call[c].got, MinRead)
            /\ \A d \in Calls : d # c => call'[d] = call[d]
<1> DEFINE r     == call[c].runtime
           from  == Least(Greatest(call[c].next, earliest[r]), out[r])
           len   == Least(Greatest(MaxBytes - call[c].got, MinRead), out[r] - from)
           s     == [call[c] EXCEPT !.next = from + len, !.len = len, !.got = @ + len,
                                    !.gap = call[c].next < earliest[r], !.pc = "observe"]
<1>1. call \in [Calls -> CallState] /\ call[c] \in CallState /\ CallCoherent(call[c], task[c])
  BY DEF Coherent, CallsCoherent, TypeOK
<1>2. r \in Runtimes /\ earliest[r] \in Nat /\ out[r] \in Nat
  BY <1>1 DEF CallCoherent, WaitRead, Coherent, TypeOK, At
<1>3. call[c].next \in Nat /\ call[c].got \in Nat
  BY <1>1 DEF CallState
<1>4. len \in Nat /\ len <= Greatest(MaxBytes - call[c].got, MinRead)
  BY <1>2, <1>3, ReadTyped
<1>5. Greatest(MaxBytes - call[c].got, MinRead) \in Int
  BY <1>3, InteractionAssumption DEF Greatest
<1>6. (\E why \in {"unavailable", "runtimeExited", "error"} : Break(c, why)) \/ call' = [call EXCEPT ![c] = s]
  BY DEF WaitRead
<1> HIDE DEF from, len
<1>7. s.pc = "observe" /\ s.exec = call[c].exec /\ s.got = call[c].got + len
  BY <1>1 DEF CallState
<1> HIDE DEF s
<1>8. CASE call' = [call EXCEPT ![c] = s]
  <2>1. call'[c] = s /\ \A d \in Calls : d # c => call'[d] = call[d]
    BY <1>1, <1>8
  <2> QED
    BY <1>3, <1>4, <1>5, <1>7, <2>1
<1> QED
  BY <1>6, <1>8

(* What a wait does: it takes the waiter lock, reads, writes its progress or *)
(* its reason into the record, and gives the lock up.                        *)
LEMMA WaitMoves ==
  ASSUME Coherent, NEW c \in Calls, Wait(c)
  PROVE  /\ UNCHANGED task /\ \A d \in Calls : d # c => call'[d] = call[d]
         /\ call[c].exec \in Ids /\ call'[c].pc \in Observing \cup {"idle"}
         /\ \/ UNCHANGED execs
            \/ /\ call[c].pc = "observe"
               /\ execs' = [execs EXCEPT ![call[c].exec].cursor = call[c].next]
            \/ /\ execs[call[c].exec].finish = "none" /\ call[c].reason # "none"
               /\ execs' = [execs EXCEPT ![call[c].exec].finish = call[c].reason]
<1>1. /\ TypeOK /\ call[c] \in CallState /\ CallCoherent(call[c], task[c])
  BY DEF Coherent, CallsCoherent, TypeOK
<1>2. /\ \A p : Goto(c, p) => call'[c].pc = p /\ \A d \in Calls : d # c => call'[d] = call[d]
      /\ \A e : Break(c, e) => call'[c].pc = "settle" /\ \A d \in Calls : d # c => call'[d] = call[d]
      /\ Leave(c) => call'[c].pc = "idle" /\ \A d \in Calls : d # c => call'[d] = call[d]
  BY <1>1 DEF Goto, Break, Leave, IdleCall, TypeOK, CallState
<1>3. call[c].pc \in WaitSteps /\ UNCHANGED task
  BY DEF Wait, WaitBegin, WaitCheck, WaitRead, WaitObserve, WaitWake, WaitSettle, At, WaitSteps
<1>4. call[c].exec \in Ids
  BY <1>1, <1>3 DEF CallCoherent
<1> DEFINE Stays == /\ \A d \in Calls : d # c => call'[d] = call[d]
                    /\ call'[c].pc \in Observing \cup {"idle"}
<1>5. CASE WaitBegin(c)
  <2>1. CASE Leave(c)
    BY <1>2, <1>3, <1>4, <1>5, <2>1 DEF WaitBegin
  <2>2. CASE call' = [call EXCEPT ![c].next = execs[call[c].exec].cursor, ![c].pc = "check"]
    <3>1. Stays
      BY <1>1, <2>2 DEF Observing, TypeOK, CallState
    <3> QED
      BY <1>3, <1>4, <1>5, <3>1 DEF WaitBegin
  <2> QED
    BY <1>5, <2>1, <2>2 DEF WaitBegin
<1>6. CASE WaitCheck(c)
  BY <1>2, <1>3, <1>4, <1>6 DEF WaitCheck, Observing
<1>7. CASE WaitRead(c)
  <2>1. CASE \E why \in {"unavailable", "runtimeExited", "error"} : Break(c, why)
    BY <1>2, <1>3, <1>4, <1>7, <2>1 DEF WaitRead, Observing
  <2>2. CASE call'[c].pc = "observe" /\ \A d \in Calls : d # c => call'[d] = call[d]
    BY <1>3, <1>4, <1>7, <2>2 DEF WaitRead, Observing
  <2> QED
    BY <1>7, <2>1, <2>2, ReadMoves
<1>8. CASE WaitObserve(c)
  <2>1. (\E e : Break(c, e)) \/ (\E p \in {"check", "sleep"} : Goto(c, p))
    BY <1>8 DEF WaitObserve, AfterChunk
  <2>2. Stays
    BY <1>2, <2>1 DEF Observing
  <2> QED
    BY <1>3, <1>4, <1>8, <2>2 DEF WaitObserve, At
<1>9. CASE WaitWake(c)
  BY <1>2, <1>3, <1>4, <1>9 DEF WaitWake, Observing
<1>10. CASE WaitSettle(c)
  BY <1>1, <1>2, <1>3, <1>4, <1>10 DEF WaitSettle, Observing, CallCoherent, At
<1> QED
  BY <1>5, <1>6, <1>7, <1>8, <1>9, <1>10 DEF Wait

(* A client begins a call, or drops one that has read nothing it keeps.      *)
LEMMA ClientMoves ==
  ASSUME Coherent, NEW c \in Calls, Client(c)
  PROVE  /\ OthersUnmoved(c) /\ UNCHANGED <<execs, task>>
         /\ call'[c].pc \in {"idle", "lookup", "waitBegin", "tryGate", "lockGate"} /\ call'[c].got = 0
         /\ \/ UNCHANGED waiter
            \/ /\ call[c].pc = "sleep" /\ call[c].exec \in Ids
               /\ waiter' = [waiter EXCEPT ![call[c].exec] = NONE]
<1>1. /\ TypeOK /\ call[c] \in CallState /\ CallCoherent(call[c], task[c])
  BY DEF Coherent, CallsCoherent, TypeOK
<1>2. Leave(c) => call'[c] = IdleCall /\ \A d \in Calls : d # c => Unmoved(d)
  BY OneMoves DEF Leave
<1>3. IdleCall.pc = "idle" /\ IdleCall.got = 0
  BY DEF IdleCall
<1>4. ASSUME NEW kind, NEW o, NEW r, NEW k, NEW s, Invoke(c, kind, o, r, k, s)
      PROVE  /\ call'[c].got = 0 /\ call'[c].pc = FirstStep(kind)
             /\ \A d \in Calls : d # c => Unmoved(d)
  <2> DEFINE new == [IdleCall EXCEPT !.kind = kind, !.pc = FirstStep(kind), !.owner = o,
                                     !.runtime = r, !.key = k, !.sig = s]
  <2>1. call' = [call EXCEPT ![c] = new]
    BY <1>4 DEF Invoke
  <2>2. new.got = 0 /\ new.pc = FirstStep(kind)
    BY DEF IdleCall
  <2> HIDE DEF new
  <2> QED
    BY <2>1, <2>2, OneMoves
<1>5. CASE InvokeInteract(c)
  <2>1. PICK o \in Owners, r \in Runtimes, k \in Keys, s \in Sigs : Invoke(c, "interact", o, r, k, s)
    BY <1>5 DEF InvokeInteract
  <2>2. call'[c].got = 0 /\ call'[c].pc = "lookup" /\ \A d \in Calls : d # c => Unmoved(d)
    BY <1>4, <2>1 DEF FirstStep
  <2> QED
    BY <2>1, <2>2 DEF Invoke, OthersUnmoved
<1>6. CASE InvokeWrite(c)
  <2>1. PICK kind \in {"auto", "human", "interrupt"}, r \in Runtimes :
          Invoke(c, kind, NONE, r, NONE, NONE)
    BY <1>6 DEF InvokeWrite
  <2>2. FirstStep(kind) \in {"tryGate", "lockGate"}
    BY DEF FirstStep
  <2>3. call'[c].got = 0 /\ call'[c].pc = FirstStep(kind) /\ \A d \in Calls : d # c => Unmoved(d)
    BY <1>4, <2>1
  <2> QED
    BY <2>1, <2>2, <2>3 DEF Invoke, OthersUnmoved
<1>7. CASE InvokeWait(c)
  <2>1. PICK i \in Ids :
          call' = [call EXCEPT ![c] = [IdleCall EXCEPT
                     !.kind = "wait", !.pc = "waitBegin", !.owner = execs[i].owner,
                     !.runtime = execs[i].runtime, !.exec = i]]
    BY <1>7 DEF InvokeWait
  <2> DEFINE new == [IdleCall EXCEPT !.kind = "wait", !.pc = "waitBegin", !.owner = execs[i].owner,
                                     !.runtime = execs[i].runtime, !.exec = i]
  <2>2. call' = [call EXCEPT ![c] = new]
    BY <2>1
  <2>3. new.got = 0 /\ new.pc = "waitBegin"
    BY DEF IdleCall
  <2> HIDE DEF new
  <2>4. call'[c] = new /\ \A d \in Calls : d # c => Unmoved(d)
    BY <2>2, OneMoves
  <2>5. UNCHANGED <<execs, waiter, task>>
    BY <1>7 DEF InvokeWait
  <2> QED
    BY <2>3, <2>4, <2>5 DEF OthersUnmoved
<1>8. CASE DropQueued(c)
  <2>1. UNCHANGED <<execs, waiter, task>>
    BY <1>8 DEF DropQueued
  <2>2. Leave(c) \/ (call[c].pc = "granted" /\ Refuse(c))
    BY <1>8 DEF DropQueued, At
  <2>3. call'[c] = IdleCall /\ \A d \in Calls : d # c => Unmoved(d)
    BY <1>2, <2>2, RefuseMoves DEF WriteSteps
  <2> QED
    BY <1>3, <2>1, <2>3 DEF OthersUnmoved
<1>9. CASE DropWaiter(c)
  BY <1>1, <1>2, <1>3, <1>9 DEF DropWaiter, OthersUnmoved, At, CallCoherent, WaitSteps
<1> QED
  BY <1>5, <1>6, <1>7, <1>8, <1>9 DEF Client
-----------------------------------------------------------------------------
(* The fourth invariant: the gate keeps a Runtime to one interaction.       *)

\* No record is inserted, and one that ended stays ended: only a takeover
\* replaces its reason.
RecordsStay ==
  /\ Ids' = Ids
  /\ \A i \in Ids :
       /\ execs'[i].runtime = execs[i].runtime
       /\ execs[i].finish # "none" => execs'[i].finish \in {execs[i].finish, "inputChanged"}

(* A step that rewrites one record.                                         *)
LEMMA OneRecordMoves ==
  ASSUME Coherent, NEW i \in Ids, NEW x, execs' = [execs EXCEPT ![i] = x],
         x.runtime = execs[i].runtime,
         execs[i].finish # "none" => x.finish \in {execs[i].finish, "inputChanged"}
  PROVE  RecordsStay /\ execs'[i] = x /\ \A j \in Ids : j # i => execs'[j] = execs[j]
<1>1. execs \in Seq(Execution) /\ i \in DOMAIN execs
  BY DEF Coherent, TypeOK, Ids
<1>2. execs'[i] = x /\ \A j \in Ids : j # i => execs'[j] = execs[j]
  BY <1>1 DEF Ids
<1>3. Ids' = Ids
  <2>1. DOMAIN execs' = DOMAIN execs
    OBVIOUS
  <2> QED
    BY <1>1, <2>1 DEF Ids
<1> QED
  BY <1>2, <1>3 DEF RecordsStay

(* The reason, the progress and the input of a record.                      *)
LEMMA RecordRewritten ==
  ASSUME Coherent, NEW i \in Ids, NEW f, NEW n, NEW s,
         \/ /\ execs' = [execs EXCEPT ![i].finish = f]
            /\ f = "inputChanged" \/ execs[i].finish = "none"
         \/ execs' = [execs EXCEPT ![i].cursor = n]
         \/ /\ execs' = [execs EXCEPT ![i].input = s, ![i].finish = f]
            /\ execs[i].finish # "none" => f = execs[i].finish
  PROVE  RecordsStay
<1>1. execs[i] \in Execution /\ execs \in Seq(Execution) /\ i \in DOMAIN execs
  BY DEF Coherent, TypeOK, Ids
<1>2. CASE /\ execs' = [execs EXCEPT ![i].finish = f]
           /\ f = "inputChanged" \/ execs[i].finish = "none"
  <2> DEFINE x == [execs[i] EXCEPT !.finish = f]
  <2>1. execs' = [execs EXCEPT ![i] = x] /\ x.runtime = execs[i].runtime /\ x.finish = f
    BY <1>1, <1>2 DEF Execution
  <2> HIDE DEF x
  <2> QED
    BY <1>2, <2>1, OneRecordMoves
<1>3. CASE execs' = [execs EXCEPT ![i].cursor = n]
  <2> DEFINE x == [execs[i] EXCEPT !.cursor = n]
  <2>1. execs' = [execs EXCEPT ![i] = x] /\ x.runtime = execs[i].runtime /\ x.finish = execs[i].finish
    BY <1>1, <1>3 DEF Execution
  <2> HIDE DEF x
  <2> QED
    BY <2>1, OneRecordMoves
<1>4. CASE /\ execs' = [execs EXCEPT ![i].input = s, ![i].finish = f]
           /\ execs[i].finish # "none" => f = execs[i].finish
  <2> DEFINE x == [execs[i] EXCEPT !.input = s, !.finish = f]
  <2>1. execs' = [execs EXCEPT ![i] = x] /\ x.runtime = execs[i].runtime /\ x.finish = f
    BY <1>1, <1>4 DEF Execution
  <2> HIDE DEF x
  <2> QED
    BY <1>4, <2>1, OneRecordMoves
<1> QED
  BY <1>2, <1>3, <1>4

(* Every step leaves the records in place, or one call inserts its own.     *)
LEMMA StepRecords ==
  ASSUME Coherent, NEW c \in Calls,
         \/ Client(c) \/ Start(c) \/ Write(c) \/ Task(c) \/ Wait(c) \/ DeadlinePasses(c)
         \/ (\E i \in Ids : Cancel(i)) \/ (\E r \in Runtimes : Emit(r) \/ Exit(r)) \/ UNCHANGED vars
  PROVE  RecordsStay \/ Reserves(c)
<1>1. UNCHANGED execs => RecordsStay
  BY DEF RecordsStay, Ids
<1>2. CASE Client(c)
  BY <1>1, <1>2, ClientMoves
<1>3. CASE Start(c)
  BY <1>1, <1>3, StartMoves
<1>4. CASE Write(c)
  BY <1>1, <1>4, WriteMoves, RecordRewritten
<1>5. CASE Task(c)
  <2>1. CASE UNCHANGED execs
    BY <1>1, <2>1
  <2>2. CASE ~UNCHANGED execs
    <3>1. PICK s \in InputStates, f \in Final \cup {"none"} :
            /\ execs' = [execs EXCEPT ![task[c].exec].input = s, ![task[c].exec].finish = f]
            /\ execs[task[c].exec].finish # "none" => f = execs[task[c].exec].finish
      BY <1>5, <2>2, TaskMoves
    <3>2. task[c].exec \in Ids
      BY <1>5, <2>2, TaskMoves
    <3> QED
      BY <3>1, <3>2, RecordRewritten
  <2> QED
    BY <2>1, <2>2
<1>6. CASE Wait(c)
  <2>1. call[c].exec \in Ids
    BY <1>6, WaitMoves
  <2>2. CASE execs' = [execs EXCEPT ![call[c].exec].cursor = call[c].next]
    BY <2>1, <2>2, RecordRewritten
  <2>3. CASE /\ execs[call[c].exec].finish = "none"
             /\ execs' = [execs EXCEPT ![call[c].exec].finish = call[c].reason]
    BY <2>1, <2>3, RecordRewritten
  <2> QED
    BY <1>1, <1>6, <2>2, <2>3, WaitMoves
<1>7. CASE \E i \in Ids : Cancel(i)
  BY <1>7, RecordRewritten DEF Cancel
<1>8. CASE DeadlinePasses(c) \/ (\E r \in Runtimes : Emit(r) \/ Exit(r)) \/ UNCHANGED vars
  BY <1>1, <1>8 DEF DeadlinePasses, Emit, Exit, vars
<1> QED
  BY <1>2, <1>3, <1>4, <1>5, <1>6, <1>7, <1>8

(* Unless one is inserted, there are no more unfinished interactions.       *)
LEMMA ActiveShrinks ==
  ASSUME RecordsStay, NEW r
  PROVE  Active(r)' \subseteq Active(r)
BY DEF RecordsStay, Active

(* A step that inserts no record keeps each Runtime to one interaction.     *)
LEMMA SoleKept ==
  ASSUME Coherent, Sole, RecordsStay, NEW c \in Calls, OthersUnmoved(c),
         call'[c].pc \in {"cursor", "reserve"} => Active(call'[c].runtime) = {},
         call'[c].pc = "mark" =>
           \A i \in Ids : execs'[i].runtime = call'[c].runtime /\ execs'[i].finish = "none"
                            => i \in call'[c].targets,
         task'[c].kind \in Foreign => task'[c].stage # "none" /\ Active(task'[c].runtime) = {}
  PROVE  Sole'
<1>1. SingleActive'
  BY ActiveShrinks DEF Sole, SingleActive
<1>2. ASSUME NEW d \in Calls
      PROVE  /\ call'[d].pc \in {"cursor", "reserve"} => Active(call[d].runtime)' = {}
             /\ call'[d].pc = "mark" => Active(call[d].runtime)' \subseteq call'[d].targets
             /\ task'[d].kind \in Foreign => task'[d].stage # "none" /\ Active(task[d].runtime)' = {}
  <2>1. CASE d = c
    BY <2>1 DEF RecordsStay, Active
  <2>2. CASE d # c
    <3>1. task'[d] = task[d] /\ Unmoved(d) /\ call[d] \in CallState
      BY <2>2 DEF OthersUnmoved, Coherent, TypeOK
    <3>2. call'[d] = call[d] \/ call'[d].pc = "granted"
      BY <3>1 DEF Unmoved, Passed, CallState
    <3>3. /\ call[d].pc \in {"cursor", "reserve"} => Active(call[d].runtime) = {}
          /\ call[d].pc = "mark" => Active(call[d].runtime) \subseteq call[d].targets
          /\ task[d].kind \in Foreign => task[d].stage # "none" /\ Active(task[d].runtime) = {}
      BY DEF Sole
    <3> QED
      BY <3>1, <3>2, <3>3 DEF RecordsStay, Active
  <2> QED
    BY <2>1, <2>2
<1> QED
  BY <1>1, <1>2 DEF Sole

(* The insertion: the inserting call is the only one that could have one,   *)
(* because it holds the gate.                                               *)
LEMMA SoleReserved ==
  ASSUME Coherent, GateHeld, Sole, NEW c \in Calls, Reserves(c), OthersUnmoved(c)
  PROVE  Sole'
<1> PICK r \in Runtimes : r = call[c].runtime
  BY DEF Reserves
<1> DEFINE n == Len(execs) + 1
<1>1. /\ execs \in Seq(Execution) /\ Len(execs) \in Nat /\ task \in [Calls -> TaskState]
      /\ execs' = Append(execs, NewExecution(c)) /\ Active(r) = {}
  BY LenProperties DEF Coherent, TypeOK, Reserves, Sole
<1>2. /\ Ids' = Ids \cup {n} /\ n \notin Ids /\ execs'[n].runtime = r
      /\ \A i \in Ids : execs'[i] = execs[i]
  <2>1. /\ Len(execs') = n /\ execs'[n] = NewExecution(c)
        /\ \A i \in 1 .. Len(execs) : execs'[i] = execs[i]
    BY <1>1
  <2> QED
    BY <1>1, <2>1 DEF Ids, NewExecution
<1> HIDE DEF n
<1>3. ASSUME NEW q, q # r PROVE Active(q)' = Active(q)
  BY <1>2, <1>3 DEF Active
<1>4. Active(r)' \subseteq {n}
  BY <1>1, <1>2 DEF Active
<1>5. SingleActive'
  BY <1>3, <1>4 DEF Sole, SingleActive
<1>6. ASSUME NEW d \in Calls
      PROVE  /\ call'[d].pc \in {"cursor", "reserve"} => Active(call[d].runtime)' = {}
             /\ call'[d].pc = "mark" => Active(call[d].runtime)' \subseteq call'[d].targets
             /\ task'[d].kind \in Foreign => task'[d].stage # "none" /\ Active(task[d].runtime)' = {}
  <2>1. CASE d = c
    <3>1. task'[d].kind = "send" /\ call'[d].pc = "waitBegin"
      BY <1>1, <2>1 DEF Reserves, Spawn
    <3> QED
      BY <3>1 DEF Foreign
  <2>2. CASE d # c
    <3>1. task'[d] = task[d] /\ Unmoved(d) /\ call[d] \in CallState
      BY <2>2 DEF OthersUnmoved, Coherent, TypeOK
    <3>2. call'[d] = call[d] \/ call'[d].pc = "granted"
      BY <3>1 DEF Unmoved, Passed, CallState
    <3>3. /\ call[d].pc \in {"cursor", "reserve"} => Active(call[d].runtime) = {}
          /\ call[d].pc = "mark" => Active(call[d].runtime) \subseteq call[d].targets
          /\ task[d].kind \in Foreign => task[d].stage # "none" /\ Active(task[d].runtime) = {}
      BY DEF Sole
    <3>4. Holder(c, r) /\ ~Holder(d, r)
      BY <1>1, <2>2 DEF Holder, GateHeld, GateSteps, Reserves
    <3>5. call[d].pc \in {"cursor", "reserve", "mark"} => call[d].runtime # r
      BY <3>4 DEF Holder, GateSteps
    <3>6. task[d].stage # "none" => task[d].runtime # r
      BY <3>4 DEF Holder
    <3>7. task[d].kind \in Foreign => task'[d].stage # "none" /\ Active(task[d].runtime)' = {}
      <4>1. ASSUME NEW q, q = task[d].runtime, q # r, Active(q) = {}
            PROVE  Active(task[d].runtime)' = {}
        BY <1>3, <3>1, <4>1 DEF Active
      <4> QED
        BY <3>1, <3>3, <3>6, <4>1
    <3>8. CASE call'[d] = call[d]
      <4>1. ASSUME NEW q, q = call[d].runtime, q # r
            PROVE  Active(call[d].runtime)' = Active(call[d].runtime)
        BY <1>3, <3>8, <4>1 DEF Active
      <4> QED
        BY <3>1, <3>3, <3>5, <3>7, <3>8, <4>1
    <3>9. CASE call'[d].pc = "granted"
      BY <3>1, <3>7, <3>9
    <3> QED
      BY <3>2, <3>8, <3>9
  <2> QED
    BY <2>1, <2>2
<1> QED
  BY <1>5, <1>6 DEF Sole

\* Every step keeps each Runtime to one interaction.
LEMMA SoleStep ==
  ASSUME Coherent, GateHeld, Sole, NEW c \in Calls,
         \/ Client(c) \/ Start(c) \/ Write(c) \/ Task(c) \/ Wait(c) \/ DeadlinePasses(c)
         \/ (\E i \in Ids : Cancel(i)) \/ (\E r \in Runtimes : Emit(r) \/ Exit(r)) \/ UNCHANGED vars
  PROVE  Sole'
<1>1. /\ call \in [Calls -> CallState] /\ call[c] \in CallState /\ CallCoherent(call[c], task[c])
      /\ task \in [Calls -> TaskState] /\ Len(execs) \in Nat
  BY LenProperties DEF Coherent, CallsCoherent, TypeOK
<1>2. /\ call[c].pc \in {"cursor", "reserve"} => Active(call[c].runtime) = {}
      /\ call[c].pc = "mark" => Active(call[c].runtime) \subseteq call[c].targets
      /\ task[c].kind \in Foreign => task[c].stage # "none" /\ Active(task[c].runtime) = {}
  BY DEF Sole
<1>3. CASE Reserves(c)
  <2>1. OthersUnmoved(c)
    <3>1. Ids' # Ids
      BY <1>1, <1>3 DEF Reserves, Ids, Coherent, TypeOK
    <3> QED
      BY <1>3, <3>1, StartMoves, WriteMoves, ClientMoves, TaskMoves
         DEF Reserves, Wait, WaitBegin, WaitCheck, WaitRead, WaitObserve, WaitWake, WaitSettle, At,
             DeadlinePasses, Cancel, Emit, Exit, vars, Ids
  <2> QED
    BY <1>3, <2>1, SoleReserved
<1>4. CASE RecordsStay
  <2>1. CASE Start(c) /\ ~Reserves(c)
    <3>1. OthersUnmoved(c) /\ task' = task /\ call'[c].pc # "mark"
      BY <2>1, StartMoves
    <3>2. call'[c].pc \in {"cursor", "reserve"} => Active(call'[c].runtime) = {}
      BY <1>2, <2>1, StartMoves
    <3> QED
      BY <1>2, <1>4, <3>1, <3>2, SoleKept
  <2>2. CASE Write(c)
    <3>1. OthersUnmoved(c) /\ call'[c].pc \notin {"cursor", "reserve"}
      BY <2>2, WriteMoves DEF WriteSteps
    <3>2. CASE /\ UNCHANGED <<execs, task>>
               /\ call'[c].pc = "mark" => /\ call'[c].runtime = call[c].runtime
                                          /\ call'[c].targets = Active(call[c].runtime)
      <4>1. call'[c].pc = "mark" =>
              \A i \in Ids : execs'[i].runtime = call'[c].runtime /\ execs'[i].finish = "none"
                               => i \in call'[c].targets
        BY <3>2 DEF Active
      <4> QED
        BY <1>2, <1>4, <3>1, <3>2, <4>1, SoleKept
    <3>3. ASSUME NEW i \in Ids, execs' = [execs EXCEPT ![i].finish = "inputChanged"],
                 call'[c].targets = call[c].targets \ {i}, call[c].pc = "mark",
                 call'[c].runtime = call[c].runtime, task' = task
          PROVE  Sole'
      <4>1. execs[i] \in Execution /\ execs \in Seq(Execution)
        BY DEF Coherent, TypeOK, Ids
      <4>2. execs'[i].finish = "inputChanged"
        BY <3>3, <4>1 DEF Execution, Ids
      <4>3. ASSUME NEW j \in Ids, execs'[j].runtime = call'[c].runtime, execs'[j].finish = "none"
            PROVE  j \in call'[c].targets
        <5>1. j # i /\ j \in Active(call[c].runtime)
          BY <1>4, <3>3, <4>2, <4>3 DEF RecordsStay, Active
        <5> QED
          BY <1>2, <3>3, <5>1
      <4> QED
        BY <1>2, <1>4, <3>1, <3>3, <4>3, SoleKept
    <3>4. CASE /\ \E k \in Foreign : Spawn(c, k, 0)
               /\ call'[c].pc = "idle"
               /\ \/ Active(call[c].runtime) = {}
                  \/ call[c].pc = "mark" /\ call[c].targets = {}
      <4>1. task'[c].stage # "none" /\ task'[c].runtime = call[c].runtime
        BY <1>1, <3>4 DEF Spawn
      <4>2. Active(call[c].runtime) = {}
        BY <1>2, <3>4
      <4> QED
        BY <1>4, <3>1, <3>4, <4>1, <4>2, SoleKept
    <3> QED
      BY <2>2, <3>2, <3>3, <3>4, WriteMoves
  <2>3. CASE Task(c)
    <3>1. OthersUnmoved(c) /\ call'[c] = call[c]
      BY <2>3, TaskMoves
    <3>2. call[c].pc \notin {"cursor", "reserve", "mark"}
      BY <1>1, <2>3 DEF Task, TaskBegin, TaskEnd, CallCoherent, StartSteps, WriteSteps
    <3>3. task'[c].kind \in Foreign => task'[c].stage # "none" /\ Active(task'[c].runtime) = {}
      <4>1. CASE task'[c] = NoTask
        BY <4>1 DEF NoTask, Foreign
      <4>2. CASE task' = [task EXCEPT ![c].stage = "writing"]
        <5>1. /\ task'[c].stage = "writing" /\ task'[c].kind = task[c].kind
              /\ task'[c].runtime = task[c].runtime
          BY <1>1, <4>2 DEF TaskState
        <5> QED
          BY <1>2, <5>1
      <4> QED
        BY <2>3, <4>1, <4>2, TaskMoves
    <3> QED
      BY <1>4, <3>1, <3>2, <3>3, SoleKept
  <2>4. CASE Wait(c)
    <3>1. OthersUnmoved(c) /\ task' = task /\ call'[c].pc \notin {"cursor", "reserve", "mark"}
      BY <2>4, WaitMoves DEF OthersUnmoved, Unmoved, Observing
    <3> QED
      BY <1>2, <1>4, <3>1, SoleKept
  <2>5. CASE Client(c)
    <3>1. OthersUnmoved(c) /\ task' = task /\ call'[c].pc \notin {"cursor", "reserve", "mark"}
      BY <2>5, ClientMoves
    <3> QED
      BY <1>2, <1>4, <3>1, SoleKept
  <2>6. CASE DeadlinePasses(c)
    <3>1. OthersUnmoved(c) /\ task' = task /\ call'[c].pc \notin {"cursor", "reserve", "mark"}
      BY <1>1, <2>6 DEF DeadlinePasses, OthersUnmoved, Unmoved, CallState
    <3> QED
      BY <1>2, <1>4, <3>1, SoleKept
  <2>7. CASE (\E i \in Ids : Cancel(i)) \/ (\E r \in Runtimes : Emit(r) \/ Exit(r)) \/ UNCHANGED vars
    <3>1. call' = call /\ task' = task
      BY <2>7 DEF Cancel, Emit, Exit, vars
    <3>2. OthersUnmoved(c)
      BY <3>1 DEF OthersUnmoved, Unmoved
    <3>3. call'[c].pc = "mark" =>
            \A i \in Ids : execs'[i].runtime = call'[c].runtime /\ execs'[i].finish = "none"
                             => i \in call'[c].targets
      BY <1>2, <1>4, <3>1 DEF RecordsStay, Active
    <3> QED
      BY <1>2, <1>4, <3>1, <3>2, <3>3, SoleKept
  <2> QED
    BY <1>3, <2>1, <2>2, <2>3, <2>4, <2>5, <2>6, <2>7
<1> QED
  BY <1>3, <1>4, StepRecords

(* The gate keeps a Runtime to one unfinished interaction, and to none from *)
(* the last check of a write to its end.                                    *)
THEOREM SoleAlways == Spec => []Sole
<1>1. Init => Sole
  BY DEF Init, Sole, SingleActive, Active, Ids, IdleCall, NoTask, Foreign
<1>2. Coherent /\ GateHeld /\ Sole /\ [Next]_vars => Sole'
  <2> SUFFICES ASSUME Coherent, GateHeld, Sole, [Next]_vars PROVE Sole'
    OBVIOUS
  <2>1. CASE Calls = {}
    <3>1. RecordsStay
      BY <2>1, RecordRewritten DEF Next, Cancel, Emit, Exit, vars, RecordsStay, Ids
    <3> QED
      BY <2>1, <3>1, ActiveShrinks DEF Sole, SingleActive
  <2>2. ASSUME NEW c \in Calls PROVE Sole'
    BY <2>2, SoleStep DEF Next
  <2> QED
    BY <2>1, <2>2
<1> QED
  BY <1>1, <1>2, CoherentAlways, GateHeldAlways, PTL DEF Spec

(* A Runtime has at most one unfinished interaction, although start checks  *)
(* for one and inserts its record in separate critical sections.            *)
THEOREM OneInteraction == Spec => []SingleActive
<1>1. Sole => SingleActive
  BY DEF Sole
<1> QED
  BY <1>1, SoleAlways, PTL

(* While a raw automation write, desktop input or an interrupt is on its way *)
(* no interaction is observed on its Runtime as if the input were its own.  *)
THEOREM ForeignInputFenced == Spec => []NoForeignInput
<1>1. Sole => NoForeignInput
  BY DEF Sole, NoForeignInput, Foreign
<1> QED
  BY <1>1, SoleAlways, PTL

(* An ended interaction stays ended, and only a takeover replaces the       *)
(* reason it ended for: for any number of waiters, cancellations and tasks. *)
THEOREM EndedForGood == Spec => EndedStaysEnded
<1>1. Coherent /\ [Next]_vars =>
        [\A i \in Ids : execs[i].finish # "none" =>
            execs'[i].finish \in {execs[i].finish, "inputChanged"}]_vars
  <2> SUFFICES ASSUME Coherent, Next, NEW i \in Ids, execs[i].finish # "none"
               PROVE  execs'[i].finish \in {execs[i].finish, "inputChanged"}
    BY DEF vars
  <2>1. RecordsStay \/ \E c \in Calls : Reserves(c)
    <3>1. CASE Calls = {}
      BY <3>1, RecordRewritten DEF Next, Cancel, Emit, Exit, RecordsStay, Ids
    <3>2. ASSUME NEW c \in Calls PROVE RecordsStay \/ \E d \in Calls : Reserves(d)
      BY <3>2, StepRecords DEF Next
    <3> QED
      BY <3>1, <3>2
  <2>2. CASE RecordsStay
    BY <2>2 DEF RecordsStay
  <2>3. CASE \E c \in Calls : Reserves(c)
    <3>1. execs \in Seq(Execution) /\ \E x : execs' = Append(execs, x)
      BY <2>3 DEF Reserves, Coherent, TypeOK
    <3>2. execs'[i] = execs[i]
      BY <3>1, AppendProperties DEF Ids
    <3> QED
      BY <3>2
  <2> QED
    BY <2>1, <2>2, <2>3
<1> QED
  BY <1>1, CoherentAlways, PTL DEF Spec, EndedStaysEnded
-----------------------------------------------------------------------------
(* The fifth invariant: a wait has its record to itself and keeps within    *)
(* its budget.                                                              *)

(* Only progress written by a wait moves the cursor of a record.            *)
LEMMA CursorKept ==
  ASSUME Coherent, NEW i \in Ids, NEW f, NEW s,
         \/ execs' = [execs EXCEPT ![i].finish = f]
         \/ execs' = [execs EXCEPT ![i].input = s, ![i].finish = f]
  PROVE  \A j \in Ids : execs'[j].cursor = execs[j].cursor
<1>1. execs[i] \in Execution /\ execs \in Seq(Execution) /\ i \in DOMAIN execs
  BY DEF Coherent, TypeOK, Ids
<1>2. CASE execs' = [execs EXCEPT ![i].finish = f]
  BY <1>1, <1>2 DEF Execution, Ids
<1>3. CASE execs' = [execs EXCEPT ![i].input = s, ![i].finish = f]
  <2> DEFINE x == [execs[i] EXCEPT !.input = s, !.finish = f]
  <2>1. execs' = [execs EXCEPT ![i] = x] /\ x.cursor = execs[i].cursor
    BY <1>1, <1>3 DEF Execution
  <2> HIDE DEF x
  <2> QED
    BY <1>1, <2>1 DEF Ids
<1> QED
  BY <1>2, <1>3

(* The other waits keep their record, its cursor and their budget, when a    *)
(* step touches no record that somebody else waits for.                     *)
LEMMA WaitsKept ==
  ASSUME Coherent, WaitersHold, HasRoom, NEW c \in Calls, OthersUnmoved(c),
         \A i \in Ids : /\ waiter'[i] = waiter[i] \/ waiter[i] \in {NONE, c}
                        /\ execs'[i].cursor = execs[i].cursor \/ waiter[i] = c,
         call'[c].pc \in Observing => waiter'[call'[c].exec] = c,
         call'[c].pc \in Continuing => call'[c].next = execs'[call'[c].exec].cursor,
         call'[c].got <= MaxBytes,
         call'[c].pc \notin Observing => call'[c].got = 0,
         call'[c].pc \in Continuing => call'[c].got + MinRead <= MaxBytes
  PROVE  WaitersHold' /\ HasRoom'
<1>1. ASSUME NEW d \in Calls
      PROVE  /\ call'[d].pc \in Observing => waiter'[call'[d].exec] = d
             /\ call'[d].pc \in Continuing => call'[d].next = execs'[call'[d].exec].cursor
             /\ call'[d].got <= MaxBytes
             /\ call'[d].pc \notin Observing => call'[d].got = 0
             /\ call'[d].pc \in Continuing => call'[d].got + MinRead <= MaxBytes
  <2>1. CASE d = c
    BY <2>1
  <2>2. CASE d # c
    <3>1. /\ Unmoved(d) /\ call[d] \in CallState /\ CallCoherent(call[d], task[d])
      BY <2>2 DEF OthersUnmoved, Coherent, TypeOK, CallsCoherent
    <3>2. /\ call[d].pc \in Observing => waiter[call[d].exec] = d
          /\ call[d].pc \in Continuing => call[d].next = execs[call[d].exec].cursor
          /\ call[d].got <= MaxBytes
          /\ call[d].pc \notin Observing => call[d].got = 0
          /\ call[d].pc \in Continuing => call[d].got + MinRead <= MaxBytes
      BY DEF WaitersHold, HasRoom
    <3>3. CASE call'[d] = call[d]
      <4>1. call[d].pc \in Observing => call[d].exec \in Ids
        BY <3>1 DEF CallCoherent, Observing, WaitSteps
      <4>2. Continuing \subseteq Observing /\ d # NONE
        BY InteractionAssumption DEF Continuing, Observing
      <4> QED
        BY <2>2, <3>2, <3>3, <4>1, <4>2
    <3>4. CASE \E r \in Runtimes : Passed(d, r)
      <4>1. call'[d].pc = "granted" /\ call'[d].got = call[d].got /\ call[d].pc = "queued"
        BY <3>1, <3>4 DEF Passed, CallState
      <4> QED
        BY <3>2, <4>1 DEF Observing, Continuing
    <3> QED
      BY <3>1, <3>3, <3>4 DEF Unmoved
  <2> QED
    BY <2>1, <2>2
<1> QED
  BY <1>1 DEF WaitersHold, HasRoom

\* Every step of wait keeps waits apart and within their budget.
LEMMA WaitsWait ==
  ASSUME Coherent, WaitersHold, HasRoom, NEW c \in Calls, Wait(c)
  PROVE  WaitersHold' /\ HasRoom'
<1> DEFINE i == call[c].exec
<1>1. /\ TypeOK /\ call \in [Calls -> CallState] /\ call[c] \in CallState
      /\ CallCoherent(call[c], task[c]) /\ waiter \in [Ids -> Calls \cup {NONE}]
      /\ execs \in Seq(Execution)
  BY DEF Coherent, CallsCoherent, TypeOK
<1>2. i \in Ids /\ OthersUnmoved(c) /\ execs[i] \in Execution
  <2>1. i \in Ids
    BY WaitMoves
  <2>2. OthersUnmoved(c)
    BY WaitMoves DEF OthersUnmoved, Unmoved
  <2> QED
    BY <1>1, <2>1, <2>2 DEF Ids
<1>3. /\ call[c].pc \in Observing => waiter[i] = c
      /\ call[c].pc \in Continuing => call[c].next = execs[i].cursor
      /\ call[c].got <= MaxBytes /\ call[c].got \in Nat
      /\ call[c].pc \notin Observing => call[c].got = 0
      /\ call[c].pc \in Continuing => call[c].got + MinRead <= MaxBytes
  BY <1>1 DEF WaitersHold, HasRoom, CallState
<1>4. MinRead \in Nat /\ MaxBytes \in Nat /\ MinRead <= MaxBytes
  BY InteractionAssumption
<1>5. \A p : Goto(c, p) => /\ call'[c].pc = p /\ call'[c].exec = i
                           /\ call'[c].next = call[c].next /\ call'[c].got = call[c].got
  BY <1>1 DEF Goto, CallState
<1>6. \A e : Break(c, e) => /\ call'[c].pc = "settle" /\ call'[c].exec = i
                            /\ call'[c].got = call[c].got
  BY <1>1 DEF Break, CallState
<1>7. Leave(c) => call'[c].pc = "idle" /\ call'[c].got = 0
  BY <1>1 DEF Leave, IdleCall
<1> HIDE DEF i
<1> USE DEF Observing, Continuing
<1>8. CASE WaitBegin(c)
  <2>1. CASE Leave(c) /\ UNCHANGED waiter
    BY <1>2, <1>4, <1>7, <1>8, <2>1, WaitsKept DEF WaitBegin
  <2>2. CASE /\ waiter[i] = NONE /\ waiter' = [waiter EXCEPT ![i] = c]
             /\ call' = [call EXCEPT ![c].next = execs[i].cursor, ![c].pc = "check"]
    <3>1. call'[c].pc = "check" /\ call'[c].next = execs[i].cursor /\ call'[c].exec = i
          /\ call'[c].got = call[c].got
      BY <1>1, <2>2 DEF CallState, i
    <3>2. call[c].got = 0 /\ UNCHANGED execs
      BY <1>3, <1>8 DEF WaitBegin, At
    <3>3. waiter'[i] = c /\ \A j \in Ids : waiter'[j] = waiter[j] \/ waiter[j] = NONE
      BY <1>1, <1>2, <2>2
    <3> QED
      BY <1>2, <1>4, <3>1, <3>2, <3>3, WaitsKept
  <2> QED
    BY <1>8, <2>1, <2>2 DEF WaitBegin, i
<1>9. CASE WaitCheck(c)
  <2>1. UNCHANGED <<execs, waiter>> /\ call[c].pc = "check"
    BY <1>9 DEF WaitCheck, At
  <2>2. (\E e : Break(c, e)) \/ Goto(c, "read") \/ Goto(c, "sleep")
    BY <1>9 DEF WaitCheck
  <2> QED
    BY <1>2, <1>3, <1>5, <1>6, <2>1, <2>2, WaitsKept
<1>10. CASE WaitRead(c)
  <2>1. UNCHANGED <<execs, waiter>> /\ call[c].pc = "read"
    BY <1>10 DEF WaitRead, At
  <2>2. CASE \E why \in {"unavailable", "runtimeExited", "error"} : Break(c, why)
    BY <1>2, <1>3, <1>6, <2>1, <2>2, WaitsKept
  <2>3. CASE /\ call'[c].pc = "observe" /\ call'[c].exec = i /\ call'[c].got \in Nat
             /\ call'[c].got <= call[c].got + Greatest(MaxBytes - call[c].got, MinRead)
    <3>1. Greatest(MaxBytes - call[c].got, MinRead) = MaxBytes - call[c].got
      BY <1>3, <1>4, <2>1 DEF Greatest
    <3>2. call'[c].got <= MaxBytes
      BY <1>3, <1>4, <2>3, <3>1
    <3> QED
      BY <1>2, <1>3, <2>1, <2>3, <3>2, WaitsKept
  <2> QED
    BY <1>10, <2>2, <2>3, ReadMoves DEF i
<1>11. CASE WaitObserve(c)
  <2>1. UNCHANGED waiter /\ call[c].pc = "observe" /\ waiter[i] = c
    BY <1>3, <1>11 DEF WaitObserve, At
  <2>2. CASE execs[i].finish # "none"
    <3>1. UNCHANGED execs /\ \E e : Break(c, e)
      BY <1>11, <2>2 DEF WaitObserve, i
    <3> QED
      BY <1>2, <1>3, <1>6, <2>1, <3>1, WaitsKept
  <2>3. CASE execs[i].finish = "none"
    <3>1. execs' = [execs EXCEPT ![i].cursor = call[c].next] /\ AfterChunk(c)
      BY <1>11, <2>3 DEF WaitObserve, i
    <3>2. execs'[i].cursor = call[c].next /\ \A j \in Ids : j # i => execs'[j] = execs[j]
      BY <1>1, <1>2, <3>1 DEF Execution, Ids
    <3>3. \A j \in Ids : execs'[j].cursor = execs[j].cursor \/ waiter[j] = c
      BY <2>1, <3>2
    <3>4. CASE \E e : Break(c, e)
      BY <1>2, <1>3, <1>6, <2>1, <3>3, <3>4, WaitsKept
    <3>5. CASE ~\E e : Break(c, e)
      <4>1. Goto(c, "check") \/ Goto(c, "sleep")
        BY <3>1, <3>5 DEF AfterChunk
      <4>2. ~(MaxBytes - call[c].got < MinRead)
        BY <3>1, <3>5 DEF AfterChunk
      <4>3. call[c].got + MinRead <= MaxBytes
        BY <1>3, <1>4, <4>2
      <4> QED
        BY <1>2, <1>3, <1>5, <2>1, <3>2, <3>3, <4>1, <4>3, WaitsKept
    <3> QED
      BY <3>4, <3>5
  <2> QED
    BY <2>2, <2>3
<1>12. CASE WaitWake(c)
  <2>1. UNCHANGED <<execs, waiter>> /\ call[c].pc = "sleep" /\ Goto(c, "check")
    BY <1>12 DEF WaitWake, At
  <2> QED
    BY <1>2, <1>3, <1>5, <2>1, WaitsKept
<1>13. CASE WaitSettle(c)
  <2>1. call[c].pc = "settle" /\ waiter' = [waiter EXCEPT ![i] = NONE] /\ Leave(c)
    BY <1>13 DEF WaitSettle, At, i
  <2>2. \A j \in Ids : waiter'[j] = waiter[j] \/ waiter[j] = c
    BY <1>1, <1>2, <1>3, <2>1
  <2>3. UNCHANGED execs \/ execs' = [execs EXCEPT ![i].finish = call[c].reason]
    BY <1>13 DEF WaitSettle, i
  <2>4. \A j \in Ids : execs'[j].cursor = execs[j].cursor
    BY <1>2, <2>3, CursorKept
  <2> QED
    BY <1>2, <1>4, <1>7, <2>1, <2>2, <2>4, WaitsKept
<1> QED
  BY <1>8, <1>9, <1>10, <1>11, <1>12, <1>13 DEF Wait

\* Every step keeps waits apart and within their budget.
LEMMA WaitsStep ==
  ASSUME Coherent, WaitersHold, HasRoom, NEW c \in Calls,
         \/ Client(c) \/ Start(c) \/ Write(c) \/ Task(c) \/ Wait(c) \/ DeadlinePasses(c)
         \/ (\E i \in Ids : Cancel(i)) \/ (\E r \in Runtimes : Emit(r) \/ Exit(r)) \/ UNCHANGED vars
  PROVE  WaitersHold' /\ HasRoom'
<1>1. /\ call \in [Calls -> CallState] /\ call[c] \in CallState /\ CallCoherent(call[c], task[c])
      /\ waiter \in [Ids -> Calls \cup {NONE}] /\ execs \in Seq(Execution) /\ Len(execs) \in Nat
  BY LenProperties DEF Coherent, CallsCoherent, TypeOK
<1>2. /\ call[c].pc \in Observing => waiter[call[c].exec] = c /\ call[c].exec \in Ids
      /\ call[c].pc \in Continuing => call[c].next = execs[call[c].exec].cursor
      /\ call[c].got <= MaxBytes
      /\ call[c].pc \notin Observing => call[c].got = 0
      /\ call[c].pc \in Continuing => call[c].got + MinRead <= MaxBytes
  BY <1>1 DEF WaitersHold, HasRoom, CallCoherent, Observing, WaitSteps
<1>3. 0 <= MaxBytes /\ Continuing \subseteq Observing
  BY InteractionAssumption DEF Continuing, Observing
\* A call that observes nothing after the step, and changed no waiter lock or cursor.
<1>4. ASSUME OthersUnmoved(c), call'[c].pc \notin Observing, call'[c].got = 0,
             \A i \in Ids : /\ waiter'[i] = waiter[i] \/ waiter[i] \in {NONE, c}
                            /\ execs'[i].cursor = execs[i].cursor
      PROVE  WaitersHold' /\ HasRoom'
  BY <1>3, <1>4, WaitsKept
<1>5. CASE Client(c)
  <2>1. OthersUnmoved(c) /\ UNCHANGED execs /\ call'[c].pc \notin Observing /\ call'[c].got = 0
    BY <1>5, ClientMoves DEF Observing
  <2>2. \A i \in Ids : waiter'[i] = waiter[i] \/ waiter[i] = c
    <3>1. CASE UNCHANGED waiter
      BY <3>1
    <3>2. CASE /\ call[c].pc = "sleep" /\ call[c].exec \in Ids
               /\ waiter' = [waiter EXCEPT ![call[c].exec] = NONE]
      BY <1>1, <1>2, <3>2 DEF Observing
    <3> QED
      BY <1>5, <3>1, <3>2, ClientMoves
  <2> QED
    BY <1>4, <2>1, <2>2
<1>6. CASE Start(c)
  <2>1. OthersUnmoved(c) /\ call'[c].pc \notin Observing
    BY <1>6, StartMoves DEF Observing
  <2>2. call'[c].got = 0
    <3>1. call[c].pc \in StartSteps
      BY <1>6 DEF Start, StartLookup, StartGate, StartRecheck, StartRunning, StartActive, StartCursor,
                  StartReserve, At, StartSteps
    <3> QED
      BY <1>2, <1>6, <3>1, StartMoves DEF StartSteps, Observing
  <2>3. CASE UNCHANGED <<execs, waiter>>
    BY <1>4, <2>1, <2>2, <2>3
  <2>4. CASE Reserves(c)
    <3>1. \A i \in Ids : execs'[i] = execs[i]
      BY <1>1, <2>4, AppendProperties DEF Reserves, Ids
    <3>2. \A i \in Ids : waiter'[i] = waiter[i]
      <4>1. waiter \in [1 .. Len(execs) -> Calls \cup {NONE}]
        BY <1>1 DEF Ids
      <4>2. waiter \in Seq(Calls \cup {NONE})
        BY <1>1, <4>1, SeqDef
      <4>3. Len(waiter) = Len(execs)
        BY <1>1, <4>1, <4>2, LenProperties
      <4> QED
        BY <2>4, <4>2, <4>3, AppendProperties DEF Reserves, Ids
    <3> QED
      BY <1>4, <2>1, <2>2, <3>1, <3>2
  <2> QED
    BY <1>6, <2>3, <2>4, StartMoves
<1>7. CASE Write(c)
  <2>1. OthersUnmoved(c) /\ UNCHANGED waiter /\ call'[c].pc \notin Observing
    BY <1>7, WriteMoves DEF Observing, WriteSteps
  <2>2. call'[c].got = 0
    <3>1. call[c].pc \in WriteSteps
      BY <1>7 DEF Write, AutoTryGate, AutoActive, LockGate, Takeover, Mark, At, WriteSteps
    <3> QED
      BY <1>2, <1>7, <3>1, WriteMoves DEF WriteSteps, Observing
  <2>3. \A i \in Ids : execs'[i].cursor = execs[i].cursor
    <3>1. UNCHANGED execs \/ \E i \in Ids : execs' = [execs EXCEPT ![i].finish = "inputChanged"]
      BY <1>7, WriteMoves
    <3> QED
      BY <3>1, CursorKept
  <2> QED
    BY <1>4, <2>1, <2>2, <2>3
<1>8. CASE Task(c)
  <2>1. OthersUnmoved(c) /\ call'[c] = call[c] /\ UNCHANGED waiter
    BY <1>8, TaskMoves
  <2>2. \A i \in Ids : execs'[i].cursor = execs[i].cursor
    <3>1. CASE UNCHANGED execs
      BY <3>1
    <3>2. CASE ~UNCHANGED execs
      <4>1. task[c].exec \in Ids
        BY <1>8, <3>2, TaskMoves
      <4>2. PICK s \in InputStates, f \in Final \cup {"none"} :
              /\ execs' = [execs EXCEPT ![task[c].exec].input = s, ![task[c].exec].finish = f]
              /\ execs[task[c].exec].finish # "none" => f = execs[task[c].exec].finish
        BY <1>8, <3>2, TaskMoves
      <4> QED
        BY <4>1, <4>2, CursorKept
    <3> QED
      BY <3>1, <3>2
  <2> QED
    BY <1>2, <1>3, <2>1, <2>2, WaitsKept
<1>9. CASE Wait(c)
  BY <1>9, WaitsWait
<1>10. CASE DeadlinePasses(c)
  <2>1. /\ call'[c].pc = call[c].pc /\ call'[c].exec = call[c].exec /\ call'[c].next = call[c].next
        /\ call'[c].got = call[c].got
    BY <1>1, <1>10 DEF DeadlinePasses, CallState
  <2>2. OthersUnmoved(c) /\ UNCHANGED <<execs, waiter>>
    BY <1>1, <1>10 DEF DeadlinePasses, OthersUnmoved, Unmoved
  <2> QED
    BY <1>2, <1>3, <2>1, <2>2, WaitsKept
<1>11. CASE (\E i \in Ids : Cancel(i)) \/ (\E r \in Runtimes : Emit(r) \/ Exit(r)) \/ UNCHANGED vars
  <2>1. UNCHANGED <<call, task, waiter>>
    BY <1>11 DEF Cancel, Emit, Exit, vars
  <2>2. \A i \in Ids : execs'[i].cursor = execs[i].cursor
    BY <1>11, CursorKept DEF Cancel, Emit, Exit, vars
  <2>3. OthersUnmoved(c)
    BY <2>1 DEF OthersUnmoved, Unmoved
  <2> QED
    BY <1>2, <1>3, <2>1, <2>2, <2>3, WaitsKept
<1> QED
  BY <1>5, <1>6, <1>7, <1>8, <1>9, <1>10, <1>11

(* A wait holds the waiter lock of its record as long as it observes it, and *)
(* what it has got leaves room for another read whenever it goes on.         *)
THEOREM WaitsHoldAlways == Spec => [](WaitersHold /\ HasRoom)
<1>1. Init => WaitersHold /\ HasRoom
  BY InteractionAssumption DEF Init, WaitersHold, HasRoom, IdleCall, Observing, Continuing
<1>2. Coherent /\ (WaitersHold /\ HasRoom) /\ [Next]_vars => (WaitersHold /\ HasRoom)'
  <2> SUFFICES ASSUME Coherent, WaitersHold, HasRoom, [Next]_vars PROVE WaitersHold' /\ HasRoom'
    OBVIOUS
  <2>1. CASE Calls = {}
    BY <2>1 DEF WaitersHold, HasRoom
  <2>2. ASSUME NEW c \in Calls PROVE WaitersHold' /\ HasRoom'
    BY <2>2, WaitsStep DEF Next
  <2> QED
    BY <2>1, <2>2
<1> QED
  BY <1>1, <1>2, CoherentAlways, PTL DEF Spec

(* Successive waits are contiguous: each continues exactly where the record's *)
(* progress stands, because only one of them observes the record at a time.  *)
THEOREM WaitsAreContiguous == Spec => []WaitContiguous
<1>1. WaitersHold => WaitContiguous
  BY DEF WaitersHold, WaitContiguous, Continuing
<1> QED
  BY <1>1, WaitsHoldAlways, PTL

(* A wait never returns more than max_bytes, although a read asks for at     *)
(* least MIN_OUTPUT_READ_BYTES: the loop stops before that rounding bites.   *)
THEOREM WaitsKeepTheirBudget == Spec => []BudgetRespected
<1>1. HasRoom => BudgetRespected
  BY DEF HasRoom, BudgetRespected
<1> QED
  BY <1>1, WaitsHoldAlways, PTL

=============================================================================
