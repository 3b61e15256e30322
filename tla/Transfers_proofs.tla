--------------------------- MODULE Transfers_proofs ---------------------------
(***************************************************************************)
(* Theorems about the transfer queue, for any tasks, files and batches: the *)
(* conflicts that wait are being asked about, a file is replaced only with   *)
(* consent, no content is lost, and the records of tasks can be relied on.   *)
(***************************************************************************)
EXTENDS Transfers, SequenceTheorems, WellFoundedInduction, TLAPS

\* The steps of a task that has a file at hand, from the look at the
\* destination to the rename; from "aimed" on its path is chosen.
InFile == {"exists", "ask", "join", "answer", "rename", "create", "copy", "commit", "remove", "place"}
Aimed == {"create", "copy", "commit", "remove", "place"}

\* The files a task is through with are the ones before its entry.
Progress ==
  \A t \in Tasks :
    /\ job[t].placed \cup job[t].skipped = 1 .. job[t].entry - 1
    /\ job[t].step \in InFile => job[t].entry \in EntriesOf(t)
    /\ job[t].step \in {"ok", "completed"} => job[t].entry = Len(FilesOf[t]) + 1

\* Who waits for an answer has none yet, and is asked about or queues.
Asking ==
  /\ \A t \in Tasks : job[t].answer # NONE => job[t].step \in {"answer", "gone"}
  /\ \A t \in waiters : At(t, "answer") /\ job[t].answer = NONE
  /\ \A t \in waiters : t # active => \E i \in 1 .. Len(queue) : queue[i] = t
  /\ active = NONE => queue = <<>>
  /\ active # NONE => active \in waiters /\ batchAnswer[BatchOf[active]] = NONE

\* A task that is to overwrite was told to, for this file or for its batch.
Consented(t) == <<t, Asked(t)>> \in consents \/ <<BatchOf[t], "all">> \in consents
Agreed ==
  /\ \A t \in Tasks :
       /\ At(t, "answer") /\ job[t].answer = "overwrite" => Consented(t)
       /\ job[t].step \in Aimed /\ job[t].over => job[t].path = Asked(t) /\ Consented(t)
       /\ At(t, "remove") => job[t].over
  /\ \A b \in Batches : batchAnswer[b] = "overwrite" => <<b, "all">> \in consents

\* The path of a task is its file or a renaming of it.
Destined ==
  \A t \in Tasks :
    job[t].step \in Aimed \cup {"rename"} =>
      \E k \in 0 .. MaxAttempt : job[t].path = <<FilesOf[t][job[t].entry], k>>

\* What is at a path that was found free, if anything, a task has put there.
Free == \A t \in Tasks : job[t].step \in Aimed /\ ~job[t].over => disk[job[t].path] # "old"

\* A task that copies has its .part file, and a file that is missing has one
\* of a task that is about to put it in place or will never touch it again.
Past == {"fail", "cancelled", "completed", "failed", "finish", "gone"}
Saved ==
  /\ \A t \in Tasks : job[t].step \in {"copy", "commit", "remove", "place"} => Part(t) \in parts
  /\ \A n \in Existing :
       disk[<<n, 0>>] = "none" =>
         \E t \in Tasks :
           /\ job[t].entry \in EntriesOf(t) /\ FilesOf[t][job[t].entry] = n /\ Part(t) \in parts
           /\ job[t].step \in Past \/ (At(t, "place") /\ job[t].path = <<n, 0>>)

\* The record of a task follows it until the task is over.
Ended == Settled \cup {"cleared"}
Recorded ==
  \A t \in Tasks :
    /\ cancelled[t] => canceller[t] # "none"
    /\ job[t].step \in {"none", "never"} => canceller[t] = "none"
    /\ job[t].step \notin {"none", "never"} => stored[t] # "new"
    /\ At(t, "waiting") /\ canceller[t] = "done" => stored[t] \in {"cancelled", "cleared"}
    /\ job[t].step \in {"finish", "gone"} /\ canceller[t] \in {"none", "done"} => stored[t] \in Ended
    /\ stored[t] = "completed" => job[t].entry = Len(FilesOf[t]) + 1
Cleaned == \A b \in Deployed : cleanup[b] = "ran" => \A t \in TasksOf(b) : job[t].entry = Len(FilesOf[t]) + 1
-----------------------------------------------------------------------------
(* The queue of questions.                                                   *)

\* A set of natural numbers that is not empty has a least element.
LEMMA LeastIsMin ==
  ASSUME NEW I \in SUBSET Nat, I # {}
  PROVE  Min(I) \in I /\ \A i \in I : Min(I) <= i
<1> DEFINE R == OpToRel(<, Nat)
<1>1. PICK m \in I : \A i \in I : ~ <<i, m>> \in R
  BY NatLessThanWellFounded, WFMin
<1>2. ASSUME NEW i \in Nat, NEW j \in Nat, i < j PROVE <<i, j>> \in R
  <2>1. <<i, j>> \in Nat \X Nat /\ <<i, j>>[1] < <<i, j>>[2]
    BY <1>2
  <2> QED
    BY <2>1 DEF OpToRel
<1> HIDE DEF R
<1>3. ASSUME NEW i \in I PROVE m <= i
  <2>1. i \in Nat /\ m \in Nat /\ ~ (i < m)
    BY <1>1, <1>2
  <2> QED
    BY <2>1
<1> QED
  BY <1>1, <1>3 DEF Min

\* Where a sequence first holds a member of T, or 0.
First(s, T) == SelectInSeq(s, LAMBDA x : x \in T)

\* At that position is a member of T, and before it there is none.
LEMMA FirstIn ==
  ASSUME NEW S, NEW s \in Seq(S), NEW T, NEW at, at = First(s, T)
  PROVE  /\ at \in 0 .. Len(s)
         /\ at # 0 => s[at] \in T /\ \A i \in 1 .. at - 1 : s[i] \notin T
         /\ at = 0 => \A i \in 1 .. Len(s) : s[i] \notin T
<1> DEFINE I == {i \in 1 .. Len(s) : s[i] \in T}
<1>1. at = IF I # {} THEN Min(I) ELSE 0
  BY DEF First, SelectInSeq
<1>2. I \in SUBSET Nat /\ Len(s) \in Nat
  OBVIOUS
<1>3. I # {} => Min(I) \in I /\ \A i \in I : Min(I) <= i
  BY <1>2, LeastIsMin
<1>4. CASE I = {}
  BY <1>1, <1>2, <1>4
<1>5. CASE I # {}
  <2>1. at \in I /\ \A i \in I : at <= i
    BY <1>1, <1>3, <1>5
  <2>2. at \in 1 .. Len(s) /\ s[at] \in T
    BY <2>1
  <2>3. ASSUME NEW i \in 1 .. at - 1, s[i] \in T PROVE FALSE
    <3>1. i \in I
      BY <1>2, <2>2, <2>3
    <3> QED
      BY <2>1, <2>2, <3>1
  <2> QED
    BY <2>2, <2>3
<1> QED
  BY <1>4, <1>5

\* An answer is given to the waiter that is asked about and to those whose batch
\* has one; the first other waiter is asked about next.
LEMMA SettleMoves ==
  ASSUME TypeOK, Asking, NEW id \in Tasks, NEW resolution \in Answers \cup {"skip"},
         NEW all \in BOOLEAN, all => resolution \in Answers, NEW th \in Threads,
         Settle(id, resolution, all, th)
  PROVE  \E told \in SUBSET waiters :
           /\ id \in told /\ waiters' = waiters \ told
           /\ batchAnswer' = IF all THEN [batchAnswer EXCEPT ![BatchOf[id]] = resolution] ELSE batchAnswer
           /\ \A t \in told \ {id} : batchAnswer'[BatchOf[t]] # NONE
           /\ job' = [t \in Tasks |->
                        IF t \notin told THEN job[t]
                        ELSE [job[t] EXCEPT !.answer = IF t = id THEN resolution
                                                                 ELSE batchAnswer'[BatchOf[t]]]]
           /\ stored' = [t \in Tasks |-> IF t \in told THEN "running" ELSE stored[t]]
           /\ dialog' = Dismiss(told) /\ prompt' = [prompt EXCEPT ![th] = active']
           /\ queue' \in Seq(Tasks)
           /\ active' = NONE => queue' = <<>> /\ waiters' = {}
           /\ active' # NONE => active' \in waiters' /\ batchAnswer'[BatchOf[active']] = NONE
           /\ \A t \in waiters' : t # active' => \E i \in 1 .. Len(queue') : queue'[i] = t
<1> USE TransfersAssumption
<1>1. active = id /\ id \in waiters /\ id # NONE /\ queue \in Seq(Tasks) /\ waiters \subseteq Tasks
  BY DEF Settle, Asking, TypeOK
<1> DEFINE found == id \in waiters
           batches == IF all /\ found THEN [batchAnswer EXCEPT ![BatchOf[id]] = resolution]
                                      ELSE batchAnswer
           rest == waiters \ {id}
           T == {t \in rest : batches[BatchOf[t]] = NONE}
           Asks(t) == t \in rest /\ batches[BatchOf[t]] = NONE
           at == SelectInSeq(queue, Asks)
           passed == IF at = 0 THEN queue ELSE SubSeq(queue, 1, at - 1)
           served == {t \in rest : \E i \in 1 .. Len(passed) : passed[i] = t}
           told == served \cup (IF found THEN {id} ELSE {})
<1>2. /\ batchAnswer' = batches
      /\ active' = IF at = 0 THEN NONE ELSE queue[at]
      /\ queue' = IF at = 0 THEN <<>> ELSE SubSeq(queue, at + 1, Len(queue))
      /\ waiters' = rest \ served
      /\ job' = [t \in Tasks |->
                   IF t \notin told THEN job[t]
                   ELSE [job[t] EXCEPT !.answer = IF t = id THEN resolution
                                                            ELSE batches[BatchOf[t]]]]
      /\ stored' = [t \in Tasks |-> IF t \in told THEN "running" ELSE stored[t]]
      /\ dialog' = Dismiss(told) /\ prompt' = [prompt EXCEPT ![th] = active']
  BY DEF Settle
<1>3. at = First(queue, T)
  BY DEF First, SelectInSeq
<1>4. /\ at \in 0 .. Len(queue) /\ Len(queue) \in Nat
      /\ at # 0 => queue[at] \in T /\ \A i \in 1 .. at - 1 : queue[i] \notin T
      /\ at = 0 => \A i \in 1 .. Len(queue) : queue[i] \notin T
  <2>1. queue \in Seq(Tasks) /\ Len(queue) \in Nat
    BY <1>1
  <2> HIDE DEF at, T
  <2> QED
    BY <1>3, <2>1, FirstIn
<1>5. /\ at # 0 => Len(passed) = at - 1 /\ \A i \in 1 .. at - 1 : passed[i] = queue[i]
      /\ at = 0 => passed = queue
      /\ at # 0 => /\ Len(queue') = Len(queue) - at
                   /\ \A i \in 1 .. Len(queue) - at : queue'[i] = queue[at + i]
      /\ queue' \in Seq(Tasks)
  <2> HIDE DEF at
  <2>1. CASE at = 0
    BY <1>2, <2>1
  <2>2. CASE at # 0
    <3>1. at \in 1 .. Len(queue) /\ passed = SubSeq(queue, 1, at - 1)
          /\ queue' = SubSeq(queue, at + 1, Len(queue))
      <4>1. at \in 1 .. Len(queue)
        BY <1>4, <2>2
      <4>2. passed = SubSeq(queue, 1, at - 1)
        BY <2>2
      <4>3. queue' = SubSeq(queue, at + 1, Len(queue))
        BY <1>2, <2>2
      <4> QED
        BY <4>1, <4>2, <4>3
    <3>2. /\ SubSeq(queue, 1, at - 1) \in Seq(Tasks) /\ Len(SubSeq(queue, 1, at - 1)) = at - 1
          /\ \A i \in 1 .. at - 1 : SubSeq(queue, 1, at - 1)[i] = queue[i]
      BY <1>1, <1>4, <3>1
    <3>3. /\ SubSeq(queue, at + 1, Len(queue)) \in Seq(Tasks)
          /\ Len(SubSeq(queue, at + 1, Len(queue))) = Len(queue) - at
          /\ \A i \in 1 .. Len(queue) - at : SubSeq(queue, at + 1, Len(queue))[i] = queue[at + i]
      BY <1>1, <1>4, <3>1
    <3> HIDE DEF passed
    <3> QED
      BY <2>2, <3>1, <3>2, <3>3
  <2> QED
    BY <2>1, <2>2
<1>10. told = served \cup {id}
       /\ batches = IF all THEN [batchAnswer EXCEPT ![BatchOf[id]] = resolution] ELSE batchAnswer
  BY <1>1
<1> HIDE DEF at, batches, found
<1>6. ASSUME NEW u \in served PROVE batches[BatchOf[u]] # NONE
  <2>1. PICK i \in 1 .. Len(passed) : passed[i] = u
    OBVIOUS
  <2>2. i \in 1 .. Len(queue) /\ queue[i] = u /\ queue[i] \notin T
    <3> HIDE DEF passed
    <3> QED
      BY <1>4, <1>5, <2>1
  <2> QED
    BY <2>2
<1>7. ASSUME NEW u \in rest
      PROVE  u \in served \/ u = active' \/ \E i \in 1 .. Len(queue') : queue'[i] = u
  <2>1. PICK i \in 1 .. Len(queue) : queue[i] = u
    BY <1>1 DEF Asking
  <2>2. CASE at = 0
    BY <1>5, <2>1, <2>2
  <2>3. CASE at # 0 /\ i < at
    <3>1. i \in 1 .. Len(passed) /\ passed[i] = u
      <4> HIDE DEF passed
      <4> QED
        BY <1>4, <1>5, <2>1, <2>3
    <3> QED
      BY <3>1
  <2>4. CASE at # 0 /\ i = at
    BY <1>2, <2>1, <2>4
  <2>5. CASE at # 0 /\ i > at
    <3>1. i - at \in 1 .. Len(queue') /\ queue'[i - at] = u
      <4>1. i - at \in 1 .. Len(queue) - at /\ at + (i - at) = i
        BY <1>4, <2>1, <2>5
      <4> QED
        BY <1>5, <2>1, <2>5, <4>1
    <3> QED
      BY <3>1
  <2> QED
    BY <1>4, <2>1, <2>2, <2>3, <2>4, <2>5
<1> DEFINE NextAsked ==
             /\ active' = NONE => queue' = <<>> /\ waiters' = {}
             /\ active' # NONE => active' \in waiters' /\ batchAnswer'[BatchOf[active']] = NONE
             /\ \A t \in waiters' : t # active' => \E i \in 1 .. Len(queue') : queue'[i] = t
<1>8. ASSUME at = 0 PROVE NextAsked
  <2>1. queue' = <<>> /\ active' = NONE
    BY <1>2, <1>8
  <2>2. waiters' = {}
    <3>1. \A u \in rest : u \in served
      <4>1. \A u \in rest : u # NONE /\ ~ \E i \in 1 .. Len(queue') : queue'[i] = u
        BY <1>1, <2>1
      <4> HIDE DEF served
      <4> QED
        BY <1>7, <2>1, <4>1
    <3> QED
      BY <1>2, <3>1
  <2> QED
    BY <2>1, <2>2
<1>9. ASSUME at # 0 PROVE NextAsked
  <2>1. queue[at] \in T /\ active' = queue[at] /\ at \in 1 .. Len(queue)
    BY <1>2, <1>4, <1>9
  <2>2. queue[at] \in rest /\ batches[BatchOf[queue[at]]] = NONE
    BY <2>1
  <2>3. queue[at] \notin served
    <3> HIDE DEF served
    <3> QED
      BY <1>6, <2>2
  <2>4. active' \in waiters' /\ active' # NONE /\ batchAnswer'[BatchOf[active']] = NONE
    BY <1>1, <1>2, <2>1, <2>2, <2>3
  <2>5. ASSUME NEW u \in waiters', u # active' PROVE \E i \in 1 .. Len(queue') : queue'[i] = u
    <3>1. u \in rest /\ u \notin served
      BY <1>2
    <3> HIDE DEF served, rest
    <3> QED
      BY <1>7, <2>5, <3>1
  <2> QED
    BY <2>4, <2>5
<1>11. NextAsked
  BY <1>8, <1>9
<1>12. told \in SUBSET waiters /\ id \in told /\ waiters' = waiters \ told
  BY <1>1, <1>2, <1>10
<1>13. \A t \in told \ {id} : batchAnswer'[BatchOf[t]] # NONE
  BY <1>2, <1>6, <1>10
<1>14. /\ job' = [t \in Tasks |->
                    IF t \notin told THEN job[t]
                    ELSE [job[t] EXCEPT !.answer = IF t = id THEN resolution
                                                             ELSE batchAnswer'[BatchOf[t]]]]
       /\ stored' = [t \in Tasks |-> IF t \in told THEN "running" ELSE stored[t]]
       /\ dialog' = Dismiss(told) /\ prompt' = [prompt EXCEPT ![th] = active']
       /\ batchAnswer' = IF all THEN [batchAnswer EXCEPT ![BatchOf[id]] = resolution] ELSE batchAnswer
       /\ queue' \in Seq(Tasks)
  <2> HIDE DEF told
  <2> QED
    BY <1>2, <1>5, <1>10
<1> HIDE DEF told
<1> QED
  BY <1>11, <1>12, <1>13, <1>14
-----------------------------------------------------------------------------
(* What each step of a task does, field by field.                            *)
Only(t) == job' \in [Tasks -> Jobs] /\ \A u \in Tasks : u # t => job'[u] = job[u]
SameFile(t) == /\ job'[t].entry = job[t].entry /\ job'[t].placed = job[t].placed
               /\ job'[t].skipped = job[t].skipped
SameAim(t) == job'[t].path = job[t].path /\ job'[t].over = job[t].over
SameAnswer(t) == job'[t].answer = job[t].answer
Goes(t, from, to) == job[t].step \in from /\ job'[t].step \in to
OnlyRecord(t) == stored' \in [Tasks -> Statuses] /\ \A u \in Tasks : u # t => stored'[u] = stored[u]
Idle == UNCHANGED <<cancelled, canceller, cleanup, consents>>

\* The task goes to its next step, and its record may follow.
Walks(t) ==
  /\ Only(t) /\ SameFile(t) /\ SameAim(t) /\ SameAnswer(t) /\ Idle
  /\ UNCHANGED <<conflict, prompt, files>>
  /\ \/ /\ UNCHANGED <<stored, dialog>>
        /\ \/ Goes(t, {"waiting"}, {"scan"})
           \/ Goes(t, {"waiting"}, {"finish"}) /\ cancelled[t]
           \/ Goes(t, {"entry"}, {"ok"}) /\ job[t].entry > Len(FilesOf[t])
           \/ Goes(t, {"entry"}, {"exists"}) /\ job[t].entry <= Len(FilesOf[t])
           \/ Goes(t, {"exists"}, {"ask"})
           \/ Goes(t, {"commit"}, {"place"}) /\ disk[job[t].path] = "none"
           \/ Goes(t, {"commit"}, {"remove"}) /\ job[t].over
           \/ Goes(t, {"measure", "entry", "exists", "rename", "create", "commit", "remove", "place"},
                      {"fail"})
           \/ Goes(t, {"ok"}, {"completed", "cancelled"})
           \/ Goes(t, {"fail"}, {"failed", "cancelled"})
     \/ /\ OnlyRecord(t) /\ dialog' \in Tasks \cup {NONE}
        /\ \/ Goes(t, {"scan"}, {"measure"}) /\ stored'[t] = "scanning"
           \/ Goes(t, {"measure"}, {"entry"}) /\ stored'[t] = "running"
           \/ Goes(t, {"ask"}, {"join"}) /\ stored'[t] = "conflict"
           \/ Goes(t, {"cancelled", "completed", "failed"}, {"finish"}) /\ stored'[t] = job[t].step

\* The task chooses the path of its file.
Aims(t) ==
  /\ Only(t) /\ SameFile(t) /\ Idle /\ UNCHANGED <<stored, dialog, conflict, prompt, files>>
  /\ \/ /\ Goes(t, {"exists"}, {"create"}) /\ SameAnswer(t)
        /\ job'[t].path = Asked(t) /\ ~job'[t].over /\ disk[Asked(t)] = "none"
     \/ /\ Goes(t, {"rename"}, {"create"}) /\ SameAnswer(t)
        /\ job'[t].path = job[t].path /\ ~job'[t].over /\ disk[job[t].path] = "none"
     \/ /\ Goes(t, {"rename"}, {"rename"}) /\ SameAnswer(t) /\ job[t].path[2] < MaxAttempt
        /\ job'[t].path = <<job[t].path[1], job[t].path[2] + 1>>
     \/ /\ Goes(t, {"answer"}, {"create"}) /\ job[t].answer = "overwrite" /\ job'[t].answer = NONE
        /\ job'[t].path = Asked(t) /\ job'[t].over
     \/ /\ Goes(t, {"answer"}, {"rename"}) /\ job[t].answer = "rename" /\ job'[t].answer = NONE
        /\ job'[t].path = <<Asked(t)[1], 1>>

\* The task writes the destination.
Writes(t) ==
  /\ Only(t) /\ SameAim(t) /\ SameAnswer(t) /\ Idle
  /\ UNCHANGED <<stored, dialog, conflict, prompt>>
  /\ \/ /\ Goes(t, {"create"}, {"copy"}) /\ SameFile(t)
        /\ parts' = parts \cup {Part(t)} /\ UNCHANGED <<disk, replaced>>
     \/ Goes(t, {"copy"}, {"commit"}) /\ SameFile(t) /\ UNCHANGED files
     \/ /\ Goes(t, {"copy"}, {"fail"}) /\ SameFile(t)
        /\ parts' = parts \ {Part(t)} /\ UNCHANGED <<disk, replaced>>
     \/ /\ Goes(t, {"remove"}, {"place"}) /\ SameFile(t) /\ UNCHANGED parts
        /\ disk' = [disk EXCEPT ![job[t].path] = "none"]
        /\ replaced' = replaced \cup Lost(t, job[t].path)
     \/ /\ Goes(t, {"place"}, {"entry"})
        /\ job'[t].entry = job[t].entry + 1 /\ job'[t].skipped = job[t].skipped
        /\ job'[t].placed = job[t].placed \cup {job[t].entry}
        /\ disk' = [disk EXCEPT ![job[t].path] = t] /\ parts' = parts \ {Part(t)}
        /\ t \in Uploads => disk[job[t].path] = "none"
        /\ replaced' = replaced \cup Lost(t, job[t].path)

\* The task takes the answer of its batch, or joins the ones that wait.
Joins(t) ==
  /\ Only(t) /\ SameFile(t) /\ SameAim(t) /\ Goes(t, {"join"}, {"answer"}) /\ Idle
  /\ UNCHANGED <<stored, dialog, files, batchAnswer>>
  /\ \/ /\ job'[t].answer = batchAnswer[BatchOf[t]] /\ job'[t].answer # NONE
        /\ UNCHANGED <<waiters, queue, active, prompt>>
     \/ /\ SameAnswer(t) /\ batchAnswer[BatchOf[t]] = NONE
        /\ waiters' = waiters \cup {t}
        /\ \/ active # NONE /\ queue' = Append(queue, t) /\ UNCHANGED <<active, prompt>>
           \/ /\ active = NONE /\ active' = t /\ queue' = <<>>
              /\ prompt' \in [Threads -> Tasks \cup {NONE}]

\* The task leaves a file out.
Skips(t) ==
  /\ Only(t) /\ SameAim(t) /\ Goes(t, {"answer"}, {"entry"}) /\ Idle
  /\ UNCHANGED <<stored, dialog, conflict, prompt, files>>
  /\ job[t].answer = "skip" /\ job'[t].answer = NONE
  /\ job'[t].entry = job[t].entry + 1 /\ job'[t].placed = job[t].placed
  /\ job'[t].skipped = job[t].skipped \cup {job[t].entry}

\* The task is forgotten, and perhaps the answer of its batch.
Leaves(t) ==
  /\ Only(t) /\ SameFile(t) /\ SameAim(t) /\ SameAnswer(t) /\ Goes(t, {"finish"}, {"gone"}) /\ Idle
  /\ UNCHANGED <<stored, dialog, waiters, queue, active, prompt, files>>
  /\ \/ UNCHANGED batchAnswer
     \/ batchAnswer' = [batchAnswer EXCEPT ![BatchOf[t]] = NONE]

\* What the type invariant says of one task.
LEMMA JobTyped ==
  ASSUME TypeOK, NEW t \in Tasks
  PROVE  /\ job[t] \in Jobs /\ job[t].step \in Steps /\ job[t].entry \in Nat \ {0}
         /\ job[t].over \in BOOLEAN /\ job[t].answer \in Answers \cup {"skip", NONE}
         /\ job[t].path \in Paths \cup {NONE}
         /\ job[t].placed \in SUBSET Nat /\ job[t].skipped \in SUBSET Nat
         /\ FilesOf[t] \in Seq(Names) /\ Len(FilesOf[t]) \in Nat /\ BatchOf[t] \in Batches
<1>1. job[t] \in Jobs
  BY DEF TypeOK
<1>2. FilesOf[t] \in Seq(Names) /\ BatchOf[t] \in Batches
  BY TransfersAssumption
<1>3. Len(FilesOf[t]) \in Nat
  BY <1>2
<1> QED
  BY <1>1, <1>2, <1>3 DEF Jobs

\* A task that only goes to another step changes nothing else of its job.
LEMMA ToMoves ==
  ASSUME TypeOK, NEW t \in Tasks, NEW x \in Steps, To(t, x)
  PROVE  Only(t) /\ job'[t].step = x /\ SameFile(t) /\ SameAim(t) /\ SameAnswer(t)
<1>1. job \in [Tasks -> Jobs] /\ job' = [job EXCEPT ![t].step = x]
  BY DEF TypeOK, To
<1>2. job'[t] = [job[t] EXCEPT !.step = x] /\ \A u \in Tasks : u # t => job'[u] = job[u]
  BY <1>1
<1>3. job'[t] \in Jobs
  BY <1>1, <1>2 DEF Jobs
<1>4. job' \in [Tasks -> Jobs]
  BY <1>1, <1>3
<1> QED
  BY <1>1, <1>2, <1>4 DEF Only, SameFile, SameAim, SameAnswer, Jobs

\* A path that is chosen is one of the destination, and so is the file asked for.
LEMMA PathsTyped ==
  ASSUME TypeOK, Progress, Destined, NEW t \in Tasks
  PROVE  /\ job[t].step \in InFile =>
              /\ Asked(t) \in Paths /\ <<Asked(t)[1], 1>> \in Paths
              /\ Asked(t) = <<FilesOf[t][job[t].entry], 0>>
         /\ job[t].step \in Aimed \cup {"rename"} => job[t].path \in Paths
<1>1. ASSUME NEW i \in EntriesOf(t), NEW k \in 0 .. MaxAttempt PROVE <<FilesOf[t][i], k>> \in Paths
  <2>1. FilesOf[t][i] \in Names
    BY TransfersAssumption DEF EntriesOf
  <2> QED
    BY <2>1 DEF Paths
<1>2. 0 \in 0 .. MaxAttempt /\ 1 \in 0 .. MaxAttempt
  BY TransfersAssumption
<1>3. job[t].step \in Aimed \cup {"rename"} => job[t].step \in InFile
  BY DEF Aimed, InFile
<1>4. job[t].step \in InFile => job[t].entry \in EntriesOf(t)
  BY DEF Progress
<1> QED
  BY <1>1, <1>2, <1>3, <1>4 DEF Destined, Asked

\* The record of a task alone changes, and the window may drop its question.
LEMMA MutateMoves ==
  ASSUME TypeOK, NEW t \in Tasks, NEW status \in Statuses, Mutate(t, status)
  PROVE  OnlyRecord(t) /\ stored'[t] = status /\ dialog' \in Tasks \cup {NONE}
<1>1. stored \in [Tasks -> Statuses] /\ stored' = [stored EXCEPT ![t] = status]
  BY DEF TypeOK, Mutate
<1>2. dialog' \in Tasks \cup {NONE}
  BY DEF TypeOK, Mutate, Dismiss
<1> QED
  BY <1>1, <1>2 DEF OnlyRecord

\* The steps that choose no path and write nothing (run_task and its loop over
\* the files) walk.
LEMMA WalkMoves ==
  ASSUME TypeOK, NEW t \in Tasks,
         \/ Acquire(t) \/ Scan(t) \/ Measure(t) \/ Entry(t) \/ AskConflict(t)
         \/ Commit(t) \/ Judge(t) \/ Report(t)
  PROVE  Walks(t)
<1> USE DEF Walks, Goes, Idle, conflict, files, At
<1>0. job[t].step \in Steps /\ job[t].entry \in Nat /\ Len(FilesOf[t]) \in Nat
  BY JobTyped
<1>1. CASE Acquire(t)
  <2>1. CASE cancelled[t]
    BY <1>1, <2>1, ToMoves DEF Acquire, Steps
  <2>2. CASE ~cancelled[t]
    BY <1>1, <2>2, ToMoves DEF Acquire, Steps
  <2> QED
    BY <2>1, <2>2
<1>2. CASE Scan(t)
  <2>1. OnlyRecord(t) /\ stored'[t] = "scanning" /\ dialog' \in Tasks \cup {NONE}
    BY <1>2, MutateMoves DEF Scan, Statuses
  <2> QED
    BY <1>2, <2>1, ToMoves DEF Scan, Steps
<1>3. CASE Measure(t)
  <2>1. CASE To(t, "entry") /\ Mutate(t, "running")
    <3>1. OnlyRecord(t) /\ stored'[t] = "running" /\ dialog' \in Tasks \cup {NONE}
      BY <2>1, MutateMoves DEF Statuses
    <3> QED
      BY <1>3, <2>1, <3>1, ToMoves DEF Measure, Steps
  <2>2. CASE Fail(t) /\ UNCHANGED <<stored, dialog>>
    BY <1>3, <2>2, ToMoves DEF Measure, Fail, Steps
  <2> QED
    BY <1>3, <2>1, <2>2 DEF Measure
<1>4. CASE Entry(t)
  <2>1. CASE job[t].entry > Len(FilesOf[t])
    BY <1>4, <2>1, ToMoves DEF Entry, Steps
  <2>2. CASE ~(job[t].entry > Len(FilesOf[t])) /\ AssertActive(t)
    BY <1>0, <1>4, <2>2, ToMoves DEF Entry, Steps
  <2>3. CASE ~(job[t].entry > Len(FilesOf[t])) /\ ~AssertActive(t)
    BY <1>4, <2>3, ToMoves DEF Entry, Steps
  <2> QED
    BY <2>1, <2>2, <2>3
<1>5. CASE AskConflict(t)
  <2>1. OnlyRecord(t) /\ stored'[t] = "conflict" /\ dialog' \in Tasks \cup {NONE}
    BY <1>5, MutateMoves DEF AskConflict, Statuses
  <2> QED
    BY <1>5, <2>1, ToMoves DEF AskConflict, Steps
<1>6. CASE Commit(t)
  <2>1. CASE disk[job[t].path] = "none" /\ To(t, "place")
    BY <1>6, <2>1, ToMoves DEF Commit, Steps
  <2>2. CASE job[t].over /\ To(t, "remove")
    BY <1>6, <2>2, ToMoves DEF Commit, Steps
  <2>3. CASE To(t, "fail")
    BY <1>6, <2>3, ToMoves DEF Commit, Steps
  <2> QED
    BY <1>6, <2>1, <2>2, <2>3 DEF Commit, Fail
<1>7. CASE Judge(t)
  <2>1. CASE To(t, "cancelled")
    BY <1>7, <2>1, ToMoves DEF Judge, Steps
  <2>2. CASE job[t].step = "ok" /\ To(t, "completed")
    BY <1>7, <2>2, ToMoves DEF Judge, Steps
  <2>3. CASE job[t].step = "fail" /\ To(t, "failed")
    BY <1>7, <2>3, ToMoves DEF Judge, Steps
  <2> QED
    BY <1>0, <1>7, <2>1, <2>2, <2>3 DEF Judge
<1>8. CASE Report(t)
  <2>1. OnlyRecord(t) /\ stored'[t] = job[t].step /\ dialog' \in Tasks \cup {NONE}
    BY <1>8, MutateMoves DEF Report, Statuses, Settled
  <2> QED
    BY <1>8, <2>1, ToMoves DEF Report, Steps
<1> QED
  BY <1>1, <1>2, <1>3, <1>4, <1>5, <1>6, <1>7, <1>8

\* The path and the flags of a task are replaced together.
LEMMA AimMoves ==
  ASSUME TypeOK, NEW t \in Tasks, NEW path \in Paths, NEW over \in BOOLEAN, Aim(t, path, over)
  PROVE  /\ Only(t) /\ job'[t].step = "create" /\ job'[t].path = path /\ job'[t].over = over
         /\ SameFile(t) /\ SameAnswer(t)
<1> DEFINE s == [job[t] EXCEPT !.step = "create", !.path = path, !.over = over]
<1>1. job \in [Tasks -> Jobs] /\ job[t] \in Jobs
  BY DEF TypeOK
<1>2. job' = [job EXCEPT ![t] = s]
  BY <1>1 DEF Aim
<1>3. s \in Jobs /\ s.step = "create" /\ s.path = path /\ s.over = over /\ s.entry = job[t].entry
      /\ s.placed = job[t].placed /\ s.skipped = job[t].skipped /\ s.answer = job[t].answer
  BY <1>1 DEF Jobs, Steps
<1> HIDE DEF s
<1> QED
  BY <1>1, <1>2, <1>3 DEF Only, SameFile, SameAnswer

\* The look at the destination and the search for a free renaming aim or walk.
LEMMA AimsMoves ==
  ASSUME TypeOK, Progress, Destined, NEW t \in Tasks, ResolveDestination(t) \/ Rename(t)
  PROVE  Walks(t) \/ Aims(t)
<1> USE DEF Goes, Idle, conflict, files, At
<1>1. ASSUME To(t, "fail"), job[t].step \in {"exists", "rename"}, Idle,
             UNCHANGED <<stored, dialog, conflict, prompt, files>>
      PROVE  Walks(t)
  BY <1>1, ToMoves DEF Walks, Steps
<1>2. CASE ResolveDestination(t)
  <2>1. CASE disk[Asked(t)] = "none" /\ Aim(t, Asked(t), FALSE)
    <3>1. Asked(t) \in Paths
      BY <1>2, PathsTyped DEF ResolveDestination, InFile
    <3> QED
      BY <1>2, <2>1, <3>1, AimMoves DEF ResolveDestination, Aims
  <2>2. CASE To(t, "ask")
    BY <1>2, <2>2, ToMoves DEF ResolveDestination, Walks, Steps
  <2>3. CASE Fail(t)
    BY <1>1, <1>2, <2>3 DEF ResolveDestination, Fail
  <2> QED
    BY <1>2, <2>1, <2>2, <2>3 DEF ResolveDestination
<1>3. CASE Rename(t)
  <2>0. job[t].path \in Paths /\ job[t].step = "rename"
    BY <1>3, PathsTyped DEF Rename
  <2>1. CASE disk[job[t].path] = "none" /\ Aim(t, job[t].path, FALSE)
    BY <1>3, <2>0, <2>1, AimMoves DEF Rename, Aims
  <2>2. CASE /\ job[t].path[2] < MaxAttempt
             /\ job' = [job EXCEPT ![t].path = <<@[1], @[2] + 1>>]
    <3> DEFINE s == [job[t] EXCEPT !.path = <<@[1], @[2] + 1>>]
    <3>1. job \in [Tasks -> Jobs] /\ job[t] \in Jobs
      BY DEF TypeOK
    <3>2. job' = [job EXCEPT ![t] = s]
      BY <2>2, <3>1
    <3>3. <<job[t].path[1], job[t].path[2] + 1>> \in Paths
      BY <2>0, <2>2, TransfersAssumption DEF Paths
    <3>4. s \in Jobs /\ s.step = job[t].step /\ s.path = <<job[t].path[1], job[t].path[2] + 1>>
          /\ s.over = job[t].over /\ s.entry = job[t].entry
          /\ s.placed = job[t].placed /\ s.skipped = job[t].skipped /\ s.answer = job[t].answer
      BY <3>1, <3>3 DEF Jobs
    <3> HIDE DEF s
    <3>5. /\ Only(t) /\ SameFile(t) /\ SameAnswer(t) /\ job'[t].step = job[t].step
          /\ job'[t].path = <<job[t].path[1], job[t].path[2] + 1>>
      BY <3>1, <3>2, <3>4 DEF Only, SameFile, SameAnswer
    <3> QED
      BY <1>3, <2>0, <2>2, <3>5 DEF Rename, Aims
  <2>3. CASE Fail(t)
    BY <1>1, <1>3, <2>3 DEF Rename, Fail
  <2> QED
    BY <1>3, <2>1, <2>2, <2>3 DEF Rename
<1> QED
  BY <1>2, <1>3

\* A task that has its answer leaves the file out or aims.
LEMMA AnswerMoves ==
  ASSUME TypeOK, Progress, Destined, NEW t \in Tasks, Answered(t)
  PROVE  Aims(t) \/ Skips(t)
<1> USE DEF Goes, Idle, conflict, files, At
<1>1. job \in [Tasks -> Jobs] /\ job[t] \in Jobs /\ job[t].step = "answer" /\ job[t].entry \in Nat \ {0}
  BY JobTyped DEF TypeOK, Answered
<1>2. Asked(t) \in Paths /\ <<Asked(t)[1], 1>> \in Paths
  BY <1>1, PathsTyped DEF InFile
<1>3. Idle /\ UNCHANGED <<stored, dialog, conflict, prompt, files>>
  BY DEF Answered
<1>4. CASE job[t].answer = "skip"
  <2> DEFINE e == job[t].entry + 1
             k == job[t].skipped \cup {job[t].entry}
             s == [job[t] EXCEPT !.step = "entry", !.entry = e, !.answer = NONE, !.skipped = k]
  <2>1. job' = [job EXCEPT ![t] = s]
    <3>1. job' = [job EXCEPT ![t].step = "entry", ![t].entry = @ + 1, ![t].answer = NONE,
                             ![t].skipped = @ \cup {job[t].entry}]
      BY <1>4 DEF Answered
    <3> QED
      BY <1>1, <3>1
  <2>2. e \in Nat \ {0} /\ k \in SUBSET Nat
    BY <1>1, JobTyped
  <2>3. e = job[t].entry + 1 /\ k = job[t].skipped \cup {job[t].entry}
    OBVIOUS
  <2>5. s = [job[t] EXCEPT !.step = "entry", !.entry = e, !.answer = NONE, !.skipped = k]
    OBVIOUS
  <2> HIDE DEF e, k, s
  <2>4. s \in Jobs /\ s.step = "entry" /\ s.path = job[t].path
        /\ s.over = job[t].over /\ s.entry = e
        /\ s.placed = job[t].placed /\ s.skipped = k /\ s.answer = NONE
    <3> DEFINE p == [job[t] EXCEPT !.step = "entry", !.entry = e]
    <3>1. p \in Jobs /\ p.step = "entry" /\ p.path = job[t].path /\ p.over = job[t].over /\ p.entry = e
          /\ p.placed = job[t].placed
      BY <1>1, <2>2 DEF Jobs, Steps
    <3>2. s = [p EXCEPT !.answer = NONE, !.skipped = k]
      BY <2>5
    <3> HIDE DEF p
    <3> QED
      BY <2>2, <3>1, <3>2 DEF Jobs
  <2> QED
    BY <1>1, <1>3, <1>4, <2>1, <2>3, <2>4 DEF Skips, Only, SameAim
<1>5. CASE job[t].answer = "overwrite"
  <2> DEFINE s == [job[t] EXCEPT !.step = "create", !.path = Asked(t), !.over = TRUE, !.answer = NONE]
  <2>1. job' = [job EXCEPT ![t] = s]
    <3>1. job' = [job EXCEPT ![t].step = "create", ![t].path = Asked(t), ![t].over = TRUE,
                             ![t].answer = NONE]
      BY <1>5 DEF Answered
    <3> QED
      BY <1>1, <3>1
  <2>2. s \in Jobs /\ s.step = "create" /\ s.path = Asked(t) /\ s.over /\ s.entry = job[t].entry
        /\ s.placed = job[t].placed /\ s.skipped = job[t].skipped /\ s.answer = NONE
    BY <1>1, <1>2 DEF Jobs, Steps
  <2> HIDE DEF s
  <2> QED
    BY <1>1, <1>3, <1>5, <2>1, <2>2 DEF Aims, Only, SameFile
<1>6. CASE job[t].answer = "rename"
  <2> DEFINE s == [job[t] EXCEPT !.step = "rename", !.path = <<Asked(t)[1], 1>>, !.answer = NONE]
  <2>1. job' = [job EXCEPT ![t] = s]
    <3>1. job' = [job EXCEPT ![t].step = "rename", ![t].path = <<Asked(t)[1], 1>>, ![t].answer = NONE]
      BY <1>6 DEF Answered
    <3> QED
      BY <1>1, <3>1
  <2>2. s \in Jobs /\ s.step = "rename" /\ s.path = <<Asked(t)[1], 1>> /\ s.entry = job[t].entry
        /\ s.placed = job[t].placed /\ s.skipped = job[t].skipped /\ s.answer = NONE
    BY <1>1, <1>2 DEF Jobs, Steps
  <2> HIDE DEF s
  <2> QED
    BY <1>1, <1>3, <1>6, <2>1, <2>2 DEF Aims, Only, SameFile
<1> QED
  BY <1>4, <1>5, <1>6 DEF Answered

\* The steps that touch .part files and the destination write or walk.
LEMMA WriteMoves ==
  ASSUME TypeOK, NEW t \in Tasks, CreatePart(t) \/ Copy(t) \/ RemoveOld(t) \/ Place(t)
  PROVE  Walks(t) \/ Writes(t)
<1> USE DEF Goes, Idle, conflict, files, At
<1>1. ASSUME To(t, "fail"), job[t].step \in {"create", "remove", "place"}, Idle,
             UNCHANGED <<stored, dialog, conflict, prompt, files>>
      PROVE  Walks(t)
  BY <1>1, ToMoves DEF Walks, Steps
<1>2. CASE CreatePart(t)
  <2>1. CASE To(t, "copy") /\ parts' = parts \cup {Part(t)}
    BY <1>2, <2>1, ToMoves DEF CreatePart, Writes, Steps
  <2>2. CASE Fail(t) /\ UNCHANGED parts
    BY <1>1, <1>2, <2>2 DEF CreatePart, Fail
  <2> QED
    BY <1>2, <2>1, <2>2 DEF CreatePart
<1>3. CASE Copy(t)
  <2>1. CASE To(t, "commit") /\ UNCHANGED parts
    BY <1>3, <2>1, ToMoves DEF Copy, Writes, Steps
  <2>2. CASE To(t, "fail") /\ parts' = parts \ {Part(t)}
    BY <1>3, <2>2, ToMoves DEF Copy, Writes, Steps
  <2> QED
    BY <1>3, <2>1, <2>2 DEF Copy
<1>4. CASE RemoveOld(t)
  <2>1. CASE /\ To(t, "place")
             /\ replaced' = replaced \cup Lost(t, job[t].path)
             /\ disk' = [disk EXCEPT ![job[t].path] = "none"]
    BY <1>4, <2>1, ToMoves DEF RemoveOld, Writes, Steps
  <2>2. CASE To(t, "fail") /\ UNCHANGED <<disk, replaced>>
    BY <1>1, <1>4, <2>2 DEF RemoveOld
  <2> QED
    BY <1>4, <2>1, <2>2 DEF RemoveOld
<1>5. CASE Place(t)
  <2>1. CASE To(t, "fail") /\ UNCHANGED files
    BY <1>1, <1>5, <2>1 DEF Place
  <2>2. CASE /\ t \in Uploads => disk[job[t].path] = "none"
             /\ disk' = [disk EXCEPT ![job[t].path] = t] /\ parts' = parts \ {Part(t)}
             /\ replaced' = replaced \cup Lost(t, job[t].path)
             /\ job' = [job EXCEPT ![t].step = "entry", ![t].entry = @ + 1,
                                   ![t].placed = @ \cup {job[t].entry}]
    <3> DEFINE e == job[t].entry + 1
               k == job[t].placed \cup {job[t].entry}
               s == [job[t] EXCEPT !.step = "entry", !.entry = e, !.placed = k]
    <3>1. job \in [Tasks -> Jobs] /\ job[t] \in Jobs
      BY DEF TypeOK
    <3>2. job' = [job EXCEPT ![t] = s]
      BY <2>2, <3>1
    <3>3. e \in Nat \ {0} /\ k \in SUBSET Nat
      BY JobTyped
    <3>4. e = job[t].entry + 1 /\ k = job[t].placed \cup {job[t].entry}
      OBVIOUS
    <3>7. s = [job[t] EXCEPT !.step = "entry", !.entry = e, !.placed = k]
      OBVIOUS
    <3> HIDE DEF e, k, s
    <3>5. s \in Jobs /\ s.step = "entry" /\ s.path = job[t].path
          /\ s.over = job[t].over /\ s.entry = e /\ s.answer = job[t].answer
          /\ s.placed = k /\ s.skipped = job[t].skipped
      <4> DEFINE p == [job[t] EXCEPT !.step = "entry", !.entry = e]
      <4>1. p \in Jobs /\ p.step = "entry" /\ p.path = job[t].path /\ p.over = job[t].over /\ p.entry = e
            /\ p.skipped = job[t].skipped /\ p.answer = job[t].answer
        BY <3>1, <3>3 DEF Jobs, Steps
      <4>2. s = [p EXCEPT !.placed = k]
        BY <3>7
      <4> HIDE DEF p
      <4> QED
        BY <3>3, <4>1, <4>2 DEF Jobs
    <3>6. /\ Only(t) /\ SameAim(t) /\ SameAnswer(t) /\ job'[t].step = "entry"
          /\ job'[t].entry = job[t].entry + 1 /\ job'[t].skipped = job[t].skipped
          /\ job'[t].placed = job[t].placed \cup {job[t].entry}
      BY <3>1, <3>2, <3>4, <3>5 DEF Only, SameAim, SameAnswer
    <3> QED
      BY <1>5, <2>2, <3>6 DEF Place, Writes
  <2> QED
    BY <1>5, <2>1, <2>2 DEF Place
<1> QED
  BY <1>2, <1>3, <1>4, <1>5

\* A task at a conflict takes the answer of its batch or gets in line.
LEMMA JoinMoves ==
  ASSUME TypeOK, Asking, NEW t \in Tasks, JoinConflict(t)
  PROVE  Joins(t)
<1> USE DEF Goes, Idle, conflict, files, At
<1>1. job[t].step = "join" /\ Idle /\ UNCHANGED <<stored, dialog, files>>
  BY DEF JoinConflict
<1>2. CASE batchAnswer[BatchOf[t]] # NONE
  <2> DEFINE s == [job[t] EXCEPT !.step = "answer", !.answer = batchAnswer[BatchOf[t]]]
  <2>1. job \in [Tasks -> Jobs] /\ job[t] \in Jobs /\ batchAnswer[BatchOf[t]] \in Answers
    <3>1. BatchOf[t] \in Batches /\ batchAnswer \in [Batches -> Answers \cup {NONE}]
      BY JobTyped DEF TypeOK
    <3>2. batchAnswer[BatchOf[t]] \in Answers
      BY <1>2, <3>1
    <3> QED
      BY <3>2 DEF TypeOK
  <2>2. job' = [job EXCEPT ![t] = s] /\ UNCHANGED <<conflict, prompt>>
    BY <1>2, <2>1 DEF JoinConflict
  <2>3. s \in Jobs /\ s.step = "answer" /\ s.path = job[t].path /\ s.over = job[t].over
        /\ s.entry = job[t].entry /\ s.placed = job[t].placed /\ s.skipped = job[t].skipped
        /\ s.answer = batchAnswer[BatchOf[t]]
    BY <2>1 DEF Jobs, Steps
  <2> HIDE DEF s
  <2> QED
    BY <1>1, <1>2, <2>1, <2>2, <2>3 DEF Joins, Only, SameFile, SameAim
<1>3. CASE batchAnswer[BatchOf[t]] = NONE
  <2>1. /\ waiters' = waiters \cup {t} /\ To(t, "answer") /\ UNCHANGED batchAnswer
        /\ active # NONE => queue' = Append(queue, t) /\ UNCHANGED <<active, prompt>>
    BY <1>3 DEF JoinConflict
  <2>2. Only(t) /\ SameFile(t) /\ SameAim(t) /\ SameAnswer(t) /\ job'[t].step = "answer"
    BY <2>1, ToMoves DEF Steps
  <2>3. CASE active # NONE
    BY <1>1, <1>3, <2>1, <2>2, <2>3 DEF Joins
  <2>4. CASE active = NONE
    <3> DEFINE line == Append(queue, t)
               T == waiters \cup {t}
               Waits(u) == u \in waiters \cup {t}
               at == SelectInSeq(line, Waits)
    <3>1. /\ active' = line[at] /\ queue' = SubSeq(line, at + 1, Len(line))
          /\ prompt' = [prompt EXCEPT ![<<t, "run">>] = line[at]]
      BY <1>3, <2>4 DEF JoinConflict
    <3>2. line \in Seq(Tasks) /\ Len(line) = 1 /\ line[1] = t
      BY <2>4 DEF Asking
    <3>3. at = First(line, T)
      BY DEF First, SelectInSeq
    <3>4. at \in 0 .. Len(line) /\ (at = 0 => \A i \in 1 .. Len(line) : line[i] \notin T)
      <4>1. \A k : k = First(line, T) =>
              /\ k \in 0 .. Len(line) /\ (k = 0 => \A i \in 1 .. Len(line) : line[i] \notin T)
        BY <3>2, FirstIn
      <4> HIDE DEF at, T, line
      <4> QED
        BY <3>3, <4>1
    <3>5. at = 1
      <4> HIDE DEF at, line
      <4> QED
        BY <3>2, <3>4
    <3>6. active' = t /\ queue' = <<>>
      <4> HIDE DEF at, line
      <4> QED
        BY <3>1, <3>2, <3>5
    <3>7. prompt' \in [Threads -> Tasks \cup {NONE}]
      BY <3>1, <3>6 DEF TypeOK
    <3> QED
      BY <1>1, <1>3, <2>1, <2>2, <2>4, <3>6, <3>7 DEF Joins
  <2> QED
    BY <2>3, <2>4
<1> QED
  BY <1>2, <1>3

\* So every step of a task is one of these.
LEMMA TaskMoves ==
  ASSUME TypeOK, Progress, Asking, Destined, NEW t \in Tasks, Acquire(t) \/ RunTask(t)
  PROVE  Walks(t) \/ Aims(t) \/ Writes(t) \/ Joins(t) \/ Skips(t) \/ Leaves(t)
<1>1. CASE Finish(t)
  <2>1. To(t, "gone") /\ job[t].step = "finish"
    BY <1>1 DEF Finish, At
  <2> QED
    BY <1>1, <2>1, ToMoves DEF Finish, Leaves, Steps, Goes, Idle, files
<1> QED
  BY <1>1, WalkMoves, AimsMoves, AnswerMoves, WriteMoves, JoinMoves DEF RunTask
-----------------------------------------------------------------------------
(* What the other steps do.                                                  *)
\* The tasks that got an answer stop waiting; nothing else of a task changes.
Told == waiters \ waiters'
Settles(id, resolution, all) ==
  /\ job' \in [Tasks -> Jobs] /\ stored' \in [Tasks -> Statuses]
  /\ \A t \in Tasks : job'[t].step = job[t].step /\ SameFile(t) /\ SameAim(t)
  /\ \A t \in Tasks : t \notin Told => stored'[t] = stored[t] /\ SameAnswer(t)
  /\ \A t \in Told : /\ stored'[t] = "running" /\ job'[t].answer # NONE
                     /\ job'[t].answer = IF t = id THEN resolution ELSE batchAnswer'[BatchOf[t]]
  /\ id \in Told /\ waiters' \subseteq waiters
  /\ batchAnswer' = IF all THEN [batchAnswer EXCEPT ![BatchOf[id]] = resolution] ELSE batchAnswer
  /\ batchAnswer' \in [Batches -> Answers \cup {NONE}]
  /\ queue' \in Seq(Tasks) /\ prompt' \in [Threads -> Tasks \cup {NONE}] /\ dialog' \in Tasks \cup {NONE}
  /\ active' = NONE => queue' = <<>> /\ waiters' = {}
  /\ active' # NONE => active' \in waiters' /\ batchAnswer'[BatchOf[active']] = NONE
  /\ \A t \in waiters' : t # active' => \E i \in 1 .. Len(queue') : queue'[i] = t

\* An answer changes the tasks that were told, field by field.
LEMMA SettleFields ==
  ASSUME TypeOK, Asking, NEW id \in Tasks, NEW resolution \in Answers \cup {"skip"},
         NEW all \in BOOLEAN, all => resolution \in Answers, NEW th \in Threads,
         Settle(id, resolution, all, th)
  PROVE  Settles(id, resolution, all)
<1>1. PICK told \in SUBSET waiters :
           /\ id \in told /\ waiters' = waiters \ told
           /\ batchAnswer' = IF all THEN [batchAnswer EXCEPT ![BatchOf[id]] = resolution] ELSE batchAnswer
           /\ \A t \in told \ {id} : batchAnswer'[BatchOf[t]] # NONE
           /\ job' = [t \in Tasks |->
                        IF t \notin told THEN job[t]
                        ELSE [job[t] EXCEPT !.answer = IF t = id THEN resolution
                                                                 ELSE batchAnswer'[BatchOf[t]]]]
           /\ stored' = [t \in Tasks |-> IF t \in told THEN "running" ELSE stored[t]]
           /\ dialog' = Dismiss(told) /\ prompt' = [prompt EXCEPT ![th] = active']
           /\ queue' \in Seq(Tasks)
           /\ active' = NONE => queue' = <<>> /\ waiters' = {}
           /\ active' # NONE => active' \in waiters' /\ batchAnswer'[BatchOf[active']] = NONE
           /\ \A t \in waiters' : t # active' => \E i \in 1 .. Len(queue') : queue'[i] = t
  BY SettleMoves
<1>2. told = Told /\ told \subseteq Tasks
  BY <1>1 DEF Told, TypeOK
<1>3. batchAnswer' \in [Batches -> Answers \cup {NONE}]
  BY <1>1 DEF TypeOK
<1>4. resolution # NONE
  BY TransfersAssumption
<1>5. ASSUME NEW t \in Tasks
      PROVE  /\ job'[t] \in Jobs /\ job'[t].step = job[t].step /\ SameFile(t) /\ SameAim(t)
             /\ t \notin told => SameAnswer(t)
             /\ t \in told => /\ job'[t].answer # NONE
                              /\ job'[t].answer = IF t = id THEN resolution ELSE batchAnswer'[BatchOf[t]]
  <2>1. CASE t \notin told
    <3>1. job'[t] = job[t]
      BY <1>1, <2>1
    <3> QED
      BY <2>1, <3>1, JobTyped DEF SameFile, SameAim, SameAnswer
  <2>2. CASE t \in told
    <3> DEFINE a == IF t = id THEN resolution ELSE batchAnswer'[BatchOf[t]]
    <3>1. job'[t] = [job[t] EXCEPT !.answer = a]
      BY <1>1, <2>2
    <3>2. a \in Answers \cup {"skip"} /\ a # NONE
      <4>1. t # id => batchAnswer'[BatchOf[t]] # NONE /\ BatchOf[t] \in Batches
        BY <1>1, <2>2, JobTyped
      <4> QED
        BY <1>3, <1>4, <4>1
    <3>3. a = IF t = id THEN resolution ELSE batchAnswer'[BatchOf[t]]
      OBVIOUS
    <3> HIDE DEF a
    <3>4. job[t] \in Jobs
      BY JobTyped
    <3>5. /\ job'[t] \in Jobs /\ job'[t].answer = a
          /\ job'[t].step = job[t].step /\ SameFile(t) /\ SameAim(t)
      BY <3>1, <3>2, <3>4 DEF Jobs, SameFile, SameAim
    <3> QED
      BY <2>2, <3>2, <3>3, <3>5
  <2> QED
    BY <2>1, <2>2
<1>6. job' \in [Tasks -> Jobs]
  BY <1>1, <1>5
<1>7. stored' \in [Tasks -> Statuses] /\ \A t \in Tasks : stored'[t] = IF t \in told THEN "running" ELSE stored[t]
  <2>1. stored \in [Tasks -> Statuses] /\ "running" \in Statuses
    BY DEF TypeOK, Statuses
  <2> QED
    BY <1>1, <2>1
<1>8. active' \in Tasks \cup {NONE}
  BY <1>1 DEF TypeOK
<1>9. prompt' \in [Threads -> Tasks \cup {NONE}] /\ dialog' \in Tasks \cup {NONE}
  BY <1>1, <1>8 DEF TypeOK, Dismiss
<1> QED
  BY <1>1, <1>2, <1>3, <1>5, <1>6, <1>7, <1>9 DEF Settles


\* A question is answered by the user, whose consent is remembered, or by a
\* cancellation.
Resolves(id, resolution, all) ==
  /\ Settles(id, resolution, all) /\ UNCHANGED <<cancelled, cleanup, files>>
  /\ consents \subseteq consents'
  /\ resolution = "overwrite" =>
       /\ <<id, Asked(id)>> \in consents'
       /\ all => <<BatchOf[id], "all">> \in consents'
  /\ \/ UNCHANGED canceller
     \/ \E t \in Tasks : canceller[t] = "resolve" /\ canceller' = [canceller EXCEPT ![t] = "mark"]

\* A task is registered.
Enqueues(t) ==
  /\ Only(t) /\ OnlyRecord(t)
  /\ cleanup' \in [Deployed -> {"none", "waiting", "ran", "given up"}]
  /\ SameFile(t) /\ SameAim(t) /\ SameAnswer(t)
  /\ Goes(t, {"none"}, {"waiting"}) /\ stored'[t] = "queued"
  /\ \A d \in Deployed : cleanup'[d] = "ran" => cleanup[d] = "ran"
  /\ UNCHANGED <<cancelled, canceller, conflict, prompt, dialog, files, consents>>

\* After a restart no task runs and nobody is asked.
Reboots ==
  /\ job' \in [Tasks -> Jobs] /\ stored' \in [Tasks -> Statuses]
  /\ cleanup' \in [Deployed -> {"none", "waiting", "ran", "given up"}]
  /\ \A t \in Tasks :
       /\ SameFile(t) /\ SameAim(t) /\ SameAnswer(t)
       /\ job'[t].step = IF job[t].step \notin {"none", "never"} THEN "gone"
                         ELSE IF At(t, "none") /\ ~Begun(BatchOf[t]) THEN "none" ELSE "never"
       /\ stored'[t] = IF stored[t] \in {"queued", "scanning", "running", "conflict"}
                         THEN "interrupted" ELSE stored[t]
       /\ canceller'[t] = IF canceller[t] = "none" THEN "none" ELSE "done"
  /\ canceller' \in [Tasks -> {"none", "resolve", "mark", "done"}]
  /\ \A d \in Deployed : cleanup'[d] = "ran" => cleanup[d] = "ran"
  /\ waiters' = {} /\ queue' = <<>> /\ active' = NONE /\ \A b \in Batches : batchAnswer'[b] = NONE
  /\ batchAnswer' \in [Batches -> Answers \cup {NONE}]
  /\ prompt' \in [Threads -> Tasks \cup {NONE}] /\ dialog' \in Tasks \cup {NONE}
  /\ UNCHANGED <<cancelled, files, consents>>

\* The steps that leave the tasks and their questions alone.
Quiet ==
  /\ UNCHANGED <<job, conflict, files, consents>>
  /\ \/ \E th \in Threads : EmitConflict(th)
     \/ \E t \in Tasks : Cancel(t) \/ CancelMark(t)
     \/ /\ UNCHANGED <<stored, cancelled, prompt, cleanup>> /\ dialog' \in Tasks \cup {NONE}
        /\ \/ UNCHANGED canceller
           \/ \E t \in Tasks : canceller[t] = "resolve" /\ canceller' = [canceller EXCEPT ![t] = "mark"]
     \/ ClearCompleted \/ \E b \in Deployed : WhenSettled(b)
     \/ UNCHANGED vars

\* Enqueue registers a task.
LEMMA EnqueueMoves == ASSUME TypeOK, NEW t \in Tasks, Enqueue(t) PROVE Enqueues(t)
<1>1. Only(t) /\ job'[t].step = "waiting" /\ SameFile(t) /\ SameAim(t) /\ SameAnswer(t)
  BY ToMoves DEF Enqueue, Steps
<1>2. OnlyRecord(t) /\ stored'[t] = "queued"
  BY DEF Enqueue, OnlyRecord, TypeOK, Statuses
<1>3. cleanup' \in [Deployed -> {"none", "waiting", "ran", "given up"}]
      /\ \A d \in Deployed : cleanup'[d] = "ran" => cleanup[d] = "ran"
  BY DEF Enqueue, TypeOK
<1> QED
  BY <1>1, <1>2, <1>3 DEF Enqueue, Enqueues, Goes, At

\* A restart forgets the tasks that were registered, and what their batches had left.
LEMMA RestartMoves == ASSUME TypeOK, Restart PROVE Reboots
<1> DEFINE New(t) == IF job[t].step \notin {"none", "never"} THEN "gone"
                     ELSE IF At(t, "none") /\ ~Begun(BatchOf[t]) THEN "none" ELSE "never"
           Moved(t) == [job[t] EXCEPT !.step = New(t)]
<1>0. job' = [t \in Tasks |-> Moved(t)]
  BY DEF Restart
<1>1. ASSUME NEW t \in Tasks
      PROVE  /\ job'[t] \in Jobs /\ SameFile(t) /\ SameAim(t) /\ SameAnswer(t)
             /\ job'[t].step = New(t)
  <2>1. job[t] \in Jobs
    BY JobTyped
  <2>2. New(t) \in Steps
    BY DEF At, Steps
  <2>3. job'[t] = [job[t] EXCEPT !.step = New(t)]
    BY <1>0
  <2> HIDE DEF New
  <2> QED
    BY <2>1, <2>2, <2>3 DEF Jobs, SameFile, SameAim, SameAnswer
<1>2. job' \in [Tasks -> Jobs]
  <2> HIDE DEF Moved
  <2> QED
    BY <1>0, <1>1
<1>9. \A t \in Tasks : job'[t].step = IF job[t].step \notin {"none", "never"} THEN "gone"
                                      ELSE IF At(t, "none") /\ ~Begun(BatchOf[t]) THEN "none" ELSE "never"
  BY <1>1
<1>3. stored' \in [Tasks -> Statuses]
      /\ \A t \in Tasks : stored'[t] = IF stored[t] \in {"queued", "scanning", "running", "conflict"}
                                         THEN "interrupted" ELSE stored[t]
  BY DEF Restart, TypeOK, Statuses, Settled
<1>4. canceller' \in [Tasks -> {"none", "resolve", "mark", "done"}]
      /\ \A t \in Tasks : canceller'[t] = IF canceller[t] = "none" THEN "none" ELSE "done"
  BY DEF Restart, TypeOK
<1>5. cleanup' \in [Deployed -> {"none", "waiting", "ran", "given up"}]
      /\ \A d \in Deployed : cleanup'[d] = "ran" => cleanup[d] = "ran"
  BY DEF Restart, TypeOK
<1>6. batchAnswer' \in [Batches -> Answers \cup {NONE}] /\ \A b \in Batches : batchAnswer'[b] = NONE
  BY DEF Restart
<1>7. prompt' \in [Threads -> Tasks \cup {NONE}] /\ dialog' \in Tasks \cup {NONE}
  BY DEF Restart
<1>8. waiters' = {} /\ queue' = <<>> /\ active' = NONE /\ UNCHANGED <<cancelled, files, consents>>
  BY DEF Restart
<1> HIDE DEF New, Moved
<1> QED
  BY <1>1, <1>2, <1>3, <1>4, <1>5, <1>6, <1>7, <1>8, <1>9 DEF Reboots

\* Every step is one of these.
LEMMA StepMoves ==
  ASSUME TypeOK, Progress, Asking, Destined, [Next]_vars
  PROVE  \/ \E t \in Tasks : Walks(t) \/ Aims(t) \/ Writes(t) \/ Joins(t) \/ Skips(t) \/ Leaves(t)
         \/ \E id \in Tasks, resolution \in Answers \cup {"skip"}, all \in BOOLEAN :
              Resolves(id, resolution, all)
         \/ \E t \in Tasks : Enqueues(t)
         \/ Reboots \/ Quiet
<1>1. ASSUME NEW resolution \in Answers, NEW all \in BOOLEAN, ResolveConflict(resolution, all)
      PROVE  Resolves(dialog, resolution, all) \/ Quiet
  <2>1. dialog \in Tasks /\ User \in Threads
    BY <1>1 DEF ResolveConflict, TypeOK, Threads
  <2>2. CASE Settle(dialog, resolution, all, User)
    <3>1. active = dialog
      BY <2>2 DEF Settle
    <3>2. Settles(dialog, resolution, all)
      BY <2>1, <2>2, SettleFields
    <3>3. consents' = IF resolution # "overwrite" THEN consents
                      ELSE consents \cup {<<dialog, Asked(dialog)>>}
                             \cup (IF all THEN {<<BatchOf[dialog], "all">>} ELSE {})
      BY <1>1, <3>1 DEF ResolveConflict
    <3> QED
      BY <1>1, <3>2, <3>3 DEF ResolveConflict, Resolves
  <2>3. CASE active # dialog /\ dialog' = NONE /\ UNCHANGED <<job, stored, conflict, prompt>>
    BY <1>1, <2>3 DEF ResolveConflict, Quiet
  <2> QED
    BY <1>1, <2>2, <2>3 DEF ResolveConflict
<1>2. ASSUME NEW t \in Tasks, CancelResolve(t) PROVE Resolves(t, "skip", FALSE) \/ Quiet
  <2>1. <<t, "cancel">> \in Threads
    BY DEF Threads
  <2>2. CASE Settle(t, "skip", FALSE, <<t, "cancel">>)
    <3>1. Settles(t, "skip", FALSE)
      BY <2>1, <2>2, SettleFields
    <3> QED
      BY <1>2, <3>1 DEF CancelResolve, Resolves
  <2>3. CASE UNCHANGED <<job, stored, conflict, prompt, dialog>>
    BY <1>2, <2>3 DEF CancelResolve, Quiet, TypeOK
  <2> QED
    BY <1>2, <2>2, <2>3 DEF CancelResolve
<1>3. ASSUME NEW t \in Tasks, Cancel(t) \/ CancelMark(t) PROVE Quiet
  BY <1>3 DEF Cancel, CancelMark, Quiet
<1>4. CASE \/ \E th \in Threads : EmitConflict(th)
           \/ ClearCompleted \/ \E b \in Deployed : WhenSettled(b)
           \/ UNCHANGED vars
  BY <1>4 DEF EmitConflict, ClearCompleted, WhenSettled, vars, conflict, files, Quiet
<1>5. ASSUME NEW resolution \in Answers, NEW all \in BOOLEAN, ResolveConflict(resolution, all)
      PROVE  Quiet \/ \E id \in Tasks, r \in Answers \cup {"skip"} : Resolves(id, r, all)
  <2>1. dialog \in Tasks
    BY <1>5 DEF ResolveConflict, TypeOK
  <2> QED
    BY <1>1, <1>5, <2>1
<1>6. ASSUME NEW t \in Tasks, Acquire(t) \/ RunTask(t) \/ Cancel(t) \/ RunCancel(t)
      PROVE  \/ Walks(t) \/ Aims(t) \/ Writes(t) \/ Joins(t) \/ Skips(t) \/ Leaves(t)
             \/ Resolves(t, "skip", FALSE) \/ Quiet
  BY <1>2, <1>3, <1>6, TaskMoves DEF RunCancel
<1> QED
  BY <1>4, <1>5, <1>6, EnqueueMoves, RestartMoves DEF Next
-----------------------------------------------------------------------------
(* Each part of the invariant is kept by every step.                         *)

\* The rows of StepMoves, for one task.
Moves(t) == Walks(t) \/ Aims(t) \/ Writes(t) \/ Joins(t) \/ Skips(t) \/ Leaves(t)
Others == \/ \E id \in Tasks, resolution \in Answers \cup {"skip"}, all \in BOOLEAN :
               Resolves(id, resolution, all)
          \/ \E t \in Tasks : Enqueues(t)
          \/ Reboots \/ Quiet

\* What the other steps leave of each task.
LEMMA OthersKeep ==
  ASSUME Others, NEW t \in Tasks
  PROVE  /\ SameFile(t) /\ SameAim(t)
         /\ \/ job'[t].step = job[t].step
            \/ Goes(t, {"none"}, {"waiting", "never"})
            \/ job[t].step \notin {"none", "never"} /\ job'[t].step = "gone"
<1>1. ASSUME NEW id \in Tasks, NEW resolution, NEW all, Resolves(id, resolution, all)
      PROVE  SameFile(t) /\ SameAim(t) /\ job'[t].step = job[t].step
  BY <1>1 DEF Resolves, Settles
<1>2. ASSUME NEW u \in Tasks, Enqueues(u)
      PROVE  /\ SameFile(t) /\ SameAim(t)
             /\ job'[t].step = job[t].step \/ Goes(t, {"none"}, {"waiting"})
  BY <1>2 DEF Enqueues, Only, SameFile, SameAim
<1>3. ASSUME Reboots
      PROVE  /\ SameFile(t) /\ SameAim(t)
             /\ \/ Goes(t, {"none"}, {"never"}) \/ job'[t].step = job[t].step
                \/ job[t].step \notin {"none", "never"} /\ job'[t].step = "gone"
  BY <1>3 DEF Reboots, At, Goes
<1>4. ASSUME Quiet PROVE SameFile(t) /\ SameAim(t) /\ job'[t].step = job[t].step
  BY <1>4 DEF Quiet, SameFile, SameAim
<1>5. ASSUME Goes(t, {"none"}, {"waiting"}) \/ Goes(t, {"none"}, {"never"})
      PROVE  Goes(t, {"none"}, {"waiting", "never"})
  BY <1>5 DEF Goes
<1> QED
  BY <1>1, <1>2, <1>3, <1>4, <1>5 DEF Others

\* What a task is through with grows with its entry.
LEMMA StepProgresses ==
  ASSUME TypeOK, Progress, (\E t \in Tasks : Moves(t)) \/ Others
  PROVE  Progress'
<1>1. ASSUME NEW t \in Tasks, NEW u \in Tasks, Moves(t)
      PROVE  /\ job'[u].placed \cup job'[u].skipped = 1 .. job'[u].entry - 1
             /\ job'[u].step \in InFile => job'[u].entry \in EntriesOf(u)
             /\ job'[u].step \in {"ok", "completed"} => job'[u].entry = Len(FilesOf[u]) + 1
  <2>0. /\ job[u].placed \cup job[u].skipped = 1 .. job[u].entry - 1
        /\ job[u].step \in InFile => job[u].entry \in EntriesOf(u)
        /\ job[u].step \in {"ok", "completed"} => job[u].entry = Len(FilesOf[u]) + 1
        /\ job[u].entry \in Nat \ {0} /\ Len(FilesOf[u]) \in Nat
    BY JobTyped DEF Progress
  <2>1. CASE u # t
    <3>1. job'[u] = job[u]
      BY <1>1, <2>1 DEF Moves, Walks, Aims, Writes, Joins, Skips, Leaves, Only
    <3> QED
      BY <2>0, <3>1
  <2>2. CASE u = t /\ (Walks(t) \/ Aims(t) \/ Joins(t) \/ Leaves(t))
    <3>1. SameFile(t)
      BY <2>2 DEF Walks, Aims, Joins, Leaves
    <3>2. job'[t].step \in InFile => job[t].entry \in EntriesOf(t)
      BY <2>0, <2>2 DEF Walks, Aims, Joins, Leaves, Goes, InFile, EntriesOf
    <3>3. job'[t].step \in {"ok", "completed"} =>
            \/ job[t].step \in {"ok", "completed"}
            \/ job[t].step = "entry" /\ job[t].entry > Len(FilesOf[t])
      BY <2>2 DEF Walks, Aims, Joins, Leaves, Goes
    <3>4. job[t].entry <= Len(FilesOf[t]) + 1
      BY DEF TypeOK
    <3> QED
      BY <2>0, <2>2, <3>1, <3>2, <3>3, <3>4 DEF SameFile
  <2>3. CASE u = t /\ (Writes(t) \/ Skips(t))
    <3>1. CASE SameFile(t) /\ job'[t].step \in {"copy", "commit", "fail", "place"} /\ job[t].step \in InFile
      BY <2>0, <2>3, <3>1 DEF SameFile, InFile
    <3>2. CASE /\ job'[t].step = "entry" /\ job[t].step \in InFile /\ job'[t].entry = job[t].entry + 1
               /\ job'[t].placed \cup job'[t].skipped = job[t].placed \cup job[t].skipped \cup {job[t].entry}
      <4>1. 1 .. (job[t].entry + 1) - 1 = (1 .. job[t].entry - 1) \cup {job[t].entry}
        BY <2>0, <2>3
      <4> QED
        BY <2>0, <2>3, <3>2, <4>1 DEF InFile
    <3> QED
      BY <2>3, <3>1, <3>2 DEF Writes, Skips, Goes, InFile
  <2> QED
    BY <1>1, <2>1, <2>2, <2>3 DEF Moves
<1>2. CASE Others
  BY <1>2, OthersKeep DEF Progress, SameFile, Goes, InFile
<1> QED
  BY <1>1, <1>2 DEF Progress

\* The state keeps its shape.
LEMMA StepTypes ==
  ASSUME TypeOK, Progress, Progress', (\E t \in Tasks : Moves(t)) \/ Others
  PROVE  TypeOK'
<1> USE DEF Moves, Others
<1>1. job' \in [Tasks -> Jobs]
  BY DEF Walks, Aims, Writes, Joins, Skips, Leaves, Only, Resolves, Settles, Enqueues, Reboots, Quiet, TypeOK
<1>2. ASSUME NEW u \in Tasks PROVE job'[u].entry <= Len(FilesOf[u]) + 1
  <2>1. job[u].entry <= Len(FilesOf[u]) + 1 /\ job[u].entry \in Nat /\ Len(FilesOf[u]) \in Nat
        /\ (job[u].step \in InFile => job[u].entry \in EntriesOf(u))
    BY JobTyped DEF TypeOK, Progress
  <2>2. \/ job'[u].entry = job[u].entry
        \/ job[u].step \in {"place", "answer"} /\ job'[u].entry = job[u].entry + 1
    <3>1. ASSUME NEW t \in Tasks, Moves(t)
          PROVE  \/ job'[u].entry = job[u].entry
                 \/ job[u].step \in {"place", "answer"} /\ job'[u].entry = job[u].entry + 1
      BY <3>1 DEF Walks, Aims, Writes, Joins, Skips, Leaves, Only, Goes, SameFile
    <3>2. CASE Others
      BY <3>2, OthersKeep DEF SameFile
    <3> HIDE DEF Moves, Others
    <3> QED
      BY <3>1, <3>2
  <2> QED
    BY <2>1, <2>2 DEF InFile, EntriesOf
<1>3. ASSUME NEW u \in Tasks
      PROVE  job'[u].placed \subseteq EntriesOf(u) /\ job'[u].skipped \subseteq EntriesOf(u)
  <2>1. job'[u] \in Jobs
    BY <1>1
  <2>2. job'[u].entry \in Nat /\ Len(FilesOf[u]) \in Nat
    BY <2>1, JobTyped DEF Jobs
  <2>3. job'[u].placed \cup job'[u].skipped = 1 .. job'[u].entry - 1
    BY DEF Progress
  <2> QED
    BY <1>2, <2>2, <2>3 DEF EntriesOf
<1>4. stored' \in [Tasks -> Statuses]
  <2>1. ASSUME NEW t \in Tasks, Moves(t) PROVE stored' \in [Tasks -> Statuses]
    BY <2>1 DEF Walks, Aims, Writes, Joins, Skips, Leaves, OnlyRecord, TypeOK
  <2>2. CASE Quiet
    BY <2>2 DEF Quiet, EmitConflict, Cancel, CancelMark, ClearCompleted,
                WhenSettled, vars, Mutate, TypeOK, Statuses, Settled
  <2>3. CASE Others /\ ~Quiet
    BY <2>3 DEF Resolves, Settles, Enqueues, OnlyRecord, Reboots
  <2> QED
    BY <2>1, <2>2, <2>3
<1>5. cancelled' \in [Tasks -> BOOLEAN] /\ canceller' \in [Tasks -> {"none", "resolve", "mark", "done"}]
  <2>1. ASSUME NEW t \in Tasks, Moves(t) PROVE UNCHANGED <<cancelled, canceller>>
    BY <2>1 DEF Walks, Aims, Writes, Joins, Skips, Leaves, Idle
  <2>2. CASE Quiet
    BY <2>2 DEF Quiet, EmitConflict, Cancel, CancelMark, ClearCompleted,
                WhenSettled, vars, TypeOK
  <2>3. CASE Others /\ ~Quiet
    BY <2>3 DEF Resolves, Enqueues, Reboots, TypeOK
  <2> QED
    BY <2>1, <2>2, <2>3 DEF TypeOK
<1>6. cleanup' \in [Deployed -> {"none", "waiting", "ran", "given up"}]
  <2>1. ASSUME NEW t \in Tasks, Moves(t) PROVE UNCHANGED cleanup
    BY <2>1 DEF Walks, Aims, Writes, Joins, Skips, Leaves, Idle
  <2>2. CASE Quiet
    BY <2>2 DEF Quiet, EmitConflict, Cancel, CancelMark, ClearCompleted,
                WhenSettled, vars, TypeOK
  <2>3. CASE Others /\ ~Quiet
    BY <2>3 DEF Resolves, Enqueues, Reboots, TypeOK
  <2> QED
    BY <2>1, <2>2, <2>3 DEF TypeOK
<1>7. disk' \in [Paths -> Tasks \cup {"none", "old"}]
  <2>1. ASSUME NEW t \in Tasks, Moves(t) PROVE disk' \in [Paths -> Tasks \cup {"none", "old"}]
    <3>1. \/ disk' = disk \/ disk' = [disk EXCEPT ![job[t].path] = "none"]
          \/ disk' = [disk EXCEPT ![job[t].path] = t]
      BY <2>1 DEF Walks, Aims, Writes, Joins, Skips, Leaves, files
    <3> QED
      BY <3>1 DEF TypeOK
  <2>2. CASE Others
    BY <2>2 DEF Resolves, Enqueues, Reboots, Quiet, files, TypeOK
  <2> QED
    BY <2>1, <2>2
<1>8. /\ waiters' \subseteq Tasks /\ queue' \in Seq(Tasks) /\ active' \in Tasks \cup {NONE}
      /\ batchAnswer' \in [Batches -> Answers \cup {NONE}]
  <2>1. ASSUME NEW t \in Tasks, Moves(t)
        PROVE  /\ waiters' \subseteq Tasks /\ queue' \in Seq(Tasks) /\ active' \in Tasks \cup {NONE}
               /\ batchAnswer' \in [Batches -> Answers \cup {NONE}]
    <3>1. CASE UNCHANGED conflict
      BY <3>1 DEF conflict, TypeOK
    <3>2. CASE Joins(t)
      <4>1. queue \in Seq(Tasks) /\ waiters \subseteq Tasks /\ active \in Tasks \cup {NONE}
        BY DEF TypeOK
      <4>2. Append(queue, t) \in Seq(Tasks) /\ <<>> \in Seq(Tasks)
        BY <4>1
      <4> QED
        BY <3>2, <4>1, <4>2 DEF Joins, TypeOK
    <3>3. CASE Leaves(t)
      BY <3>3 DEF Leaves, TypeOK
    <3> QED
      BY <2>1, <3>1, <3>2, <3>3 DEF Walks, Aims, Writes, Skips
  <2>2. CASE Reboots
    <3>1. <<>> \in Seq(Tasks)
      OBVIOUS
    <3> QED
      BY <2>2, <3>1 DEF Reboots
  <2>3. CASE Others /\ ~Reboots
    BY <2>3 DEF Resolves, Settles, Enqueues, Quiet, conflict, TypeOK
  <2> QED
    BY <2>1, <2>2, <2>3
<1>9. prompt' \in [Threads -> Tasks \cup {NONE}] /\ dialog' \in Tasks \cup {NONE}
  <2>1. ASSUME NEW t \in Tasks, Moves(t)
        PROVE  prompt' \in [Threads -> Tasks \cup {NONE}] /\ dialog' \in Tasks \cup {NONE}
    BY <2>1 DEF Walks, Aims, Writes, Joins, Skips, Leaves, TypeOK
  <2>2. CASE Quiet
    <3>1. CASE \E th \in Threads : EmitConflict(th)
      BY <3>1 DEF EmitConflict, TypeOK
    <3>2. CASE \E t \in Tasks : Cancel(t) \/ CancelMark(t)
      BY <3>2 DEF Cancel, CancelMark, Mutate, Dismiss, TypeOK
    <3>3. CASE UNCHANGED prompt /\ dialog' \in Tasks \cup {NONE}
      BY <3>3 DEF TypeOK
    <3>4. CASE ClearCompleted \/ (\E b \in Deployed : WhenSettled(b)) \/ UNCHANGED vars
      BY <3>4 DEF ClearCompleted, WhenSettled, vars, TypeOK
    <3> QED
      BY <2>2, <3>1, <3>2, <3>3, <3>4 DEF Quiet
  <2>3. CASE Others /\ ~Quiet
    BY <2>3 DEF Resolves, Settles, Enqueues, Reboots, TypeOK
  <2> QED
    BY <2>1, <2>2, <2>3
<1> HIDE DEF Moves, Others
<1> QED
  BY <1>1, <1>2, <1>3, <1>4, <1>5, <1>6, <1>7, <1>8, <1>9 DEF TypeOK

\* The steps that change the questions, and the ones that leave them.
LEMMA QuestionsKept ==
  ASSUME NEW t \in Tasks, Moves(t)
  PROVE  UNCHANGED conflict \/ Joins(t) \/ Leaves(t)
BY DEF Moves, Walks, Aims, Writes, Skips

\* No conflict waits unseen.
LEMMA StepAsks ==
  ASSUME TypeOK, Asking, (\E t \in Tasks : Moves(t)) \/ Others
  PROVE  Asking'
<1>1. ASSUME NEW u \in Tasks, job'[u].answer # NONE PROVE job'[u].step \in {"answer", "gone"}
  <2>0. job[u].answer # NONE => job[u].step \in {"answer", "gone"}
    BY DEF Asking
  <2>1. ASSUME NEW t \in Tasks, Moves(t) PROVE job'[u].step \in {"answer", "gone"}
    <3>1. CASE u # t
      BY <1>1, <2>0, <2>1, <3>1 DEF Moves, Walks, Aims, Writes, Joins, Skips, Leaves, Only
    <3>2. CASE u = t
      BY <1>1, <2>0, <2>1, <3>2 DEF Moves, Walks, Aims, Writes, Joins, Skips, Leaves, Goes, SameAnswer
    <3> QED
      BY <3>1, <3>2
  <2>2. ASSUME NEW id \in Tasks, NEW resolution, NEW all, Resolves(id, resolution, all)
        PROVE  job'[u].step \in {"answer", "gone"}
    <3>1. u \in Told => job[u].step = "answer"
      BY DEF Told, Asking, At
    <3> QED
      BY <1>1, <2>0, <2>2, <3>1 DEF Resolves, Settles, SameAnswer
  <2>3. ASSUME NEW t \in Tasks, Enqueues(t) PROVE job'[u].step \in {"answer", "gone"}
    BY <1>1, <2>0, <2>3 DEF Enqueues, Only, SameAnswer, Goes
  <2>4. CASE Reboots
    BY <1>1, <2>0, <2>4 DEF Reboots, SameAnswer, At
  <2>5. CASE Quiet
    BY <1>1, <2>0, <2>5 DEF Quiet
  <2> QED
    BY <2>1, <2>2, <2>3, <2>4, <2>5 DEF Others
<1>2. ASSUME NEW u \in waiters' PROVE job'[u].step = "answer" /\ job'[u].answer = NONE
  <2>0. /\ u \in waiters => job[u].step = "answer" /\ job[u].answer = NONE
        /\ job[u].answer # NONE => job[u].step \in {"answer", "gone"} \/ u \notin Tasks
        /\ waiters \subseteq Tasks
    BY DEF Asking, At, TypeOK
  <2>1. ASSUME NEW t \in Tasks, Moves(t) PROVE job'[u].step = "answer" /\ job'[u].answer = NONE
    <3>1. CASE Joins(t)
      BY <2>0, <3>1 DEF Joins, Only, Goes, SameAnswer
    <3>2. CASE ~Joins(t)
      <4>1. u \in waiters
        BY <2>1, <3>2, QuestionsKept DEF conflict, Leaves
      <4>2. u # t
        BY <2>0, <2>1, <3>2, <4>1, TransfersAssumption DEF Moves, Walks, Aims, Writes, Skips, Leaves, Goes
      <4> QED
        BY <2>0, <2>1, <3>2, <4>1, <4>2 DEF Moves, Walks, Aims, Writes, Skips, Leaves, Only
    <3> QED
      BY <3>1, <3>2
  <2>2. ASSUME NEW id \in Tasks, NEW resolution, NEW all, Resolves(id, resolution, all)
        PROVE  job'[u].step = "answer" /\ job'[u].answer = NONE
    BY <2>0, <2>2 DEF Resolves, Settles, SameAnswer, Told
  <2>3. ASSUME NEW t \in Tasks, Enqueues(t) PROVE job'[u].step = "answer" /\ job'[u].answer = NONE
    BY <2>0, <2>3 DEF Enqueues, Only, SameAnswer, Goes, conflict
  <2>4. CASE Reboots
    BY <2>4 DEF Reboots
  <2>5. CASE Quiet
    BY <2>0, <2>5 DEF Quiet, conflict
  <2> QED
    BY <2>1, <2>2, <2>3, <2>4, <2>5 DEF Others
<1>3. /\ \A t \in waiters' : t # active' => \E i \in 1 .. Len(queue') : queue'[i] = t
      /\ active' = NONE => queue' = <<>>
      /\ active' # NONE => active' \in waiters' /\ batchAnswer'[BatchOf[active']] = NONE
  <2>0. /\ \A t \in waiters : t # active => \E i \in 1 .. Len(queue) : queue[i] = t
        /\ active = NONE => queue = <<>>
        /\ active # NONE => active \in waiters /\ batchAnswer[BatchOf[active]] = NONE
        /\ waiters \subseteq Tasks /\ queue \in Seq(Tasks) /\ active \in Tasks \cup {NONE}
        /\ batchAnswer \in [Batches -> Answers \cup {NONE}]
    BY DEF Asking, TypeOK
  <2>1. CASE UNCHANGED conflict
    BY <2>0, <2>1 DEF conflict
  <2>2. ASSUME NEW t \in Tasks, Joins(t)
        PROVE  /\ \A u \in waiters' : u # active' => \E i \in 1 .. Len(queue') : queue'[i] = u
               /\ active' = NONE => queue' = <<>>
               /\ active' # NONE => active' \in waiters' /\ batchAnswer'[BatchOf[active']] = NONE
    <3>1. CASE UNCHANGED <<waiters, queue, active>>
      BY <2>0, <2>2, <3>1 DEF Joins
    <3>2. CASE /\ batchAnswer[BatchOf[t]] = NONE /\ waiters' = waiters \cup {t}
               /\ active # NONE /\ queue' = Append(queue, t) /\ UNCHANGED active
      <4>1. /\ Len(queue') = Len(queue) + 1 /\ Len(queue) \in Nat
            /\ queue'[Len(queue) + 1] = t
            /\ \A i \in 1 .. Len(queue) : queue'[i] = queue[i]
        BY <2>0, <3>2
      <4>2. ASSUME NEW u \in waiters', u # active' PROVE \E i \in 1 .. Len(queue') : queue'[i] = u
        <5>1. CASE u = t
          <6>1. Len(queue) + 1 \in 1 .. Len(queue')
            BY <4>1
          <6> QED
            BY <4>1, <5>1, <6>1
        <5>2. CASE u # t
          <6>1. PICK i \in 1 .. Len(queue) : queue[i] = u
            BY <2>0, <3>2, <4>2, <5>2
          <6>2. i \in 1 .. Len(queue') /\ queue'[i] = u
            BY <4>1, <6>1
          <6> QED
            BY <6>2
        <5> QED
          BY <5>1, <5>2
      <4> QED
        BY <2>0, <2>2, <3>2, <4>2 DEF Joins
    <3>3. CASE /\ batchAnswer[BatchOf[t]] = NONE /\ waiters' = waiters \cup {t}
               /\ active = NONE /\ active' = t /\ queue' = <<>>
      <4>1. waiters = {}
        <5>1. ASSUME NEW u \in waiters PROVE FALSE
          <6>1. u # NONE
            BY <2>0, TransfersAssumption
          <6>2. PICK i \in 1 .. Len(queue) : queue[i] = u
            BY <2>0, <3>3, <6>1
          <6>3. Len(queue) = 0
            BY <2>0, <3>3
          <6> QED
            BY <6>2, <6>3
        <5> QED
          BY <5>1
      <4> QED
        BY <2>2, <3>3, <4>1, TransfersAssumption DEF Joins
    <3> QED
      BY <2>2, <3>1, <3>2, <3>3 DEF Joins
  <2>3. ASSUME NEW t \in Tasks, Leaves(t)
        PROVE  /\ \A u \in waiters' : u # active' => \E i \in 1 .. Len(queue') : queue'[i] = u
               /\ active' = NONE => queue' = <<>>
               /\ active' # NONE => active' \in waiters' /\ batchAnswer'[BatchOf[active']] = NONE
    <3>1. UNCHANGED <<waiters, queue, active>>
      BY <2>3 DEF Leaves
    <3>2. active # NONE => batchAnswer'[BatchOf[active]] = NONE
      <4>1. active # NONE => BatchOf[active] \in Batches
        BY <2>0, TransfersAssumption
      <4> QED
        BY <2>0, <2>3, <4>1 DEF Leaves
    <3> QED
      BY <2>0, <3>1, <3>2
  <2>4. ASSUME NEW id \in Tasks, NEW resolution, NEW all, Resolves(id, resolution, all)
        PROVE  /\ \A u \in waiters' : u # active' => \E i \in 1 .. Len(queue') : queue'[i] = u
               /\ active' = NONE => queue' = <<>>
               /\ active' # NONE => active' \in waiters' /\ batchAnswer'[BatchOf[active']] = NONE
    BY <2>4 DEF Resolves, Settles
  <2>5. CASE Reboots
    BY <2>5 DEF Reboots
  <2> QED
    BY <2>1, <2>2, <2>3, <2>4, <2>5, QuestionsKept DEF Others, Enqueues, Quiet
<1> QED
  BY <1>1, <1>2, <1>3 DEF Asking, At
\* A task aims at its file or a renaming of it.
LEMMA StepAims ==
  ASSUME TypeOK, Progress, Destined, (\E t \in Tasks : Moves(t)) \/ Others
  PROVE  Destined'
<1> DEFINE Named(t, k) == <<FilesOf[t][job[t].entry], k>>
<1>0. MaxAttempt \in Nat \ {0} /\ 0 \in 0 .. MaxAttempt /\ 1 \in 0 .. MaxAttempt
  BY TransfersAssumption
<1>1. ASSUME NEW u \in Tasks, job'[u].step \in Aimed \cup {"rename"}
      PROVE  \E k \in 0 .. MaxAttempt : job'[u].path = <<FilesOf[u][job'[u].entry], k>>
  <2>0. job[u].step \in Aimed \cup {"rename"} => \E k \in 0 .. MaxAttempt : job[u].path = Named(u, k)
    BY DEF Destined
  <2>1. ASSUME SameFile(u), SameAim(u), job[u].step \in Aimed \cup {"rename"}
        PROVE  \E k \in 0 .. MaxAttempt : job'[u].path = <<FilesOf[u][job'[u].entry], k>>
    BY <2>0, <2>1 DEF SameFile, SameAim
  <2>2. ASSUME NEW t \in Tasks, Moves(t), t # u
        PROVE  \E k \in 0 .. MaxAttempt : job'[u].path = <<FilesOf[u][job'[u].entry], k>>
    <3>1. job'[u] = job[u]
      BY <2>2 DEF Moves, Walks, Aims, Writes, Joins, Skips, Leaves, Only
    <3> QED
      BY <1>1, <2>0, <3>1
  <2>3. CASE Aims(u)
    <3>0. job'[u].entry = job[u].entry /\ Asked(u) = Named(u, 0)
          /\ <<Asked(u)[1], 1>> = Named(u, 1)
      BY <2>3 DEF Aims, SameFile, Asked
    <3>1. CASE job'[u].path = Asked(u) \/ job'[u].path = <<Asked(u)[1], 1>>
      BY <1>0, <3>0, <3>1
    <3>2. CASE Goes(u, {"rename"}, {"create"}) /\ job'[u].path = job[u].path
      BY <2>0, <3>0, <3>2 DEF Goes
    <3>3. CASE /\ Goes(u, {"rename"}, {"rename"}) /\ job[u].path[2] < MaxAttempt
               /\ job'[u].path = <<job[u].path[1], job[u].path[2] + 1>>
      <4>1. PICK k \in 0 .. MaxAttempt : job[u].path = Named(u, k)
        BY <2>0, <3>3 DEF Goes
      <4>2. job[u].path[1] = FilesOf[u][job[u].entry] /\ job[u].path[2] = k
        BY <4>1
      <4>3. k + 1 \in 0 .. MaxAttempt
        BY <1>0, <3>3, <4>2
      <4> QED
        BY <3>0, <3>3, <4>2, <4>3
    <3> QED
      BY <2>3, <3>1, <3>2, <3>3 DEF Aims
  <2>4. CASE Moves(u) /\ ~Aims(u)
    <3>1. job[u].step \in Aimed
      BY <1>1, <2>4 DEF Moves, Walks, Writes, Joins, Skips, Leaves, Goes, Aimed
    <3>2. SameFile(u) /\ SameAim(u)
      BY <1>1, <2>4 DEF Moves, Walks, Writes, Joins, Skips, Leaves, Goes, Aimed
    <3> QED
      BY <2>1, <3>1, <3>2
  <2>5. CASE Others
    BY <1>1, <2>1, <2>5, OthersKeep DEF Goes, Aimed
  <2> QED
    BY <2>2, <2>3, <2>4, <2>5
<1> QED
  BY <1>1 DEF Destined

\* An answer is passed on only as the user gave it.
LEMMA StepAgrees ==
  ASSUME TypeOK, Asking, Agreed, (\E t \in Tasks : Moves(t)) \/ Others
  PROVE  Agreed'
<1>0. NONE # "overwrite" /\ NONE # "skip"
  BY TransfersAssumption
<1>1. consents \subseteq consents'
  <2>1. ASSUME NEW t \in Tasks, Moves(t) PROVE consents' = consents
    BY <2>1 DEF Moves, Walks, Aims, Writes, Joins, Skips, Leaves, Idle
  <2> QED
    BY <2>1 DEF Others, Resolves, Enqueues, Reboots, Quiet
<1>2. ASSUME NEW b \in Batches, batchAnswer'[b] = "overwrite" PROVE <<b, "all">> \in consents'
  <2>0. batchAnswer[b] = "overwrite" => <<b, "all">> \in consents
    BY DEF Agreed
  <2>1. ASSUME NEW t \in Tasks, Moves(t) PROVE batchAnswer[b] = "overwrite"
    <3>1. CASE UNCHANGED batchAnswer
      BY <1>2, <3>1
    <3>2. CASE Leaves(t)
      BY <1>0, <1>2, <3>2 DEF Leaves, TypeOK
    <3> QED
      BY <2>1, <3>1, <3>2 DEF Moves, Walks, Aims, Writes, Joins, Skips, conflict
  <2>2. ASSUME NEW id \in Tasks, NEW resolution, NEW all, Resolves(id, resolution, all)
        PROVE  batchAnswer[b] = "overwrite" \/ <<b, "all">> \in consents'
    BY <1>2, <2>2 DEF Resolves, Settles, TypeOK
  <2>3. ASSUME Others, \A id \in Tasks, resolution \in Answers \cup {"skip"}, all \in BOOLEAN :
                         ~Resolves(id, resolution, all)
        PROVE  batchAnswer[b] = "overwrite"
    BY <1>0, <1>2, <2>3 DEF Others, Enqueues, Reboots, Quiet, conflict
  <2> QED
    BY <1>1, <2>0, <2>1, <2>2, <2>3 DEF Others
<1>3. ASSUME NEW u \in Tasks
      PROVE  /\ At(u, "answer")' /\ job'[u].answer = "overwrite" => Consented(u)'
             /\ job'[u].step \in Aimed /\ job'[u].over => job'[u].path = Asked(u)' /\ Consented(u)'
             /\ At(u, "remove")' => job'[u].over
  <2> DEFINE Fine(v) == /\ At(v, "answer")' /\ job'[v].answer = "overwrite" => Consented(v)'
                        /\ job'[v].step \in Aimed /\ job'[v].over => job'[v].path = Asked(v)' /\ Consented(v)'
                        /\ At(v, "remove")' => job'[v].over
  <2>0. /\ job[u].step = "answer" /\ job[u].answer = "overwrite" => Consented(u)
        /\ job[u].step \in Aimed /\ job[u].over => job[u].path = Asked(u) /\ Consented(u)
        /\ job[u].step = "remove" => job[u].over
        /\ job[u].answer # NONE => job[u].step \in {"answer", "gone"}
        /\ job[u].over \in BOOLEAN /\ BatchOf[u] \in Batches
    BY JobTyped DEF Agreed, At, Asking
  <2>1. job'[u].entry = job[u].entry => Asked(u)' = Asked(u) /\ (Consented(u) => Consented(u)')
    BY <1>1 DEF Asked, Consented
  <2>2. ASSUME NEW t \in Tasks, Moves(t), t # u PROVE Fine(u)
    <3>1. job'[u] = job[u]
      BY <2>2 DEF Moves, Walks, Aims, Writes, Joins, Skips, Leaves, Only
    <3> QED
      BY <2>0, <2>1, <3>1 DEF At
  <2>3. CASE Walks(u)
    BY <1>0, <2>0, <2>1, <2>3 DEF Walks, SameFile, SameAim, SameAnswer, Goes, At, Aimed
  <2>4. CASE Aims(u)
    BY <1>0, <2>0, <2>1, <2>4 DEF Aims, SameFile, SameAnswer, Goes, At, Aimed
  <2>5. CASE Writes(u)
    BY <1>0, <2>0, <2>1, <2>5 DEF Writes, SameFile, SameAim, SameAnswer, Goes, At, Aimed
  <2>6. CASE Joins(u)
    <3>1. job'[u].answer = "overwrite" => batchAnswer[BatchOf[u]] = "overwrite"
      BY <1>0, <2>0, <2>6 DEF Joins, SameAnswer, Goes
    <3>2. job'[u].answer = "overwrite" => Consented(u)
      BY <2>0, <3>1 DEF Agreed, Consented
    <3> QED
      BY <2>1, <2>6, <3>2 DEF Joins, SameFile, Goes, At, Aimed
  <2>7. CASE Skips(u) \/ Leaves(u)
    BY <1>0, <2>7 DEF Skips, Leaves, Goes, At, Aimed
  <2>8. ASSUME NEW id \in Tasks, NEW resolution, NEW all, Resolves(id, resolution, all) PROVE Fine(u)
    <3>1. job'[u].step = job[u].step /\ SameFile(u) /\ SameAim(u)
      BY <2>8 DEF Resolves, Settles
    <3>2. CASE u \notin Told
      <4>1. SameAnswer(u)
        BY <2>8, <3>2 DEF Resolves, Settles
      <4> QED
        BY <2>0, <2>1, <3>1, <4>1 DEF SameFile, SameAim, SameAnswer, At
    <3>3. CASE u \in Told
      <4>1. job'[u].answer = "overwrite" => Consented(u)'
        <5>1. CASE u = id
          BY <2>8, <3>1, <3>3, <5>1 DEF Resolves, Settles, Consented, Asked, SameFile
        <5>2. CASE u # id
          <6>1. job'[u].answer = batchAnswer'[BatchOf[u]]
            BY <2>8, <3>3, <5>2 DEF Resolves, Settles
          <6> QED
            BY <1>2, <2>0, <6>1 DEF Consented
        <5> QED
          BY <5>1, <5>2
      <4> QED
        BY <2>0, <2>1, <3>1, <4>1 DEF SameFile, SameAim, At
    <3> QED
      BY <3>2, <3>3
  <2>9. ASSUME Others, \A id \in Tasks, resolution \in Answers \cup {"skip"}, all \in BOOLEAN :
                         ~Resolves(id, resolution, all)
        PROVE  Fine(u)
    <3>1. SameAnswer(u)
      BY <2>9 DEF Others, Enqueues, Only, Reboots, Quiet, SameAnswer
    <3> QED
      BY <2>0, <2>1, <2>9, <3>1, OthersKeep DEF SameFile, SameAim, SameAnswer, Goes, At, Aimed
  <2> QED
    <3> HIDE DEF Fine
    <3>1. Fine(u)
      BY <2>2, <2>3, <2>4, <2>5, <2>6, <2>7, <2>8, <2>9 DEF Moves, Others, Fine
    <3> QED
      BY <3>1 DEF Fine
<1> QED
  BY <1>2, <1>3 DEF Agreed

\* Before a file is removed there is the .part file that will take its place,
\* and nobody else touches that.
LEMMA StepSaves ==
  ASSUME TypeOK, Progress, Destined, Agreed, Saved, (\E t \in Tasks : Moves(t)) \/ Others
  PROVE  Saved'
<1> DEFINE Copied == {"copy", "commit", "remove", "place"}
<1>1. ASSUME NEW u \in Tasks, job'[u].step \in Copied PROVE Part(u)' \in parts'
  <2>0. job[u].step \in Copied => Part(u) \in parts
    BY DEF Saved
  <2>1. job'[u].entry = job[u].entry => Part(u)' = Part(u)
    BY DEF Part
  <2>2. ASSUME NEW t \in Tasks, Moves(t), t # u PROVE Part(u)' \in parts'
    <3>1. job'[u] = job[u]
      BY <2>2 DEF Moves, Walks, Aims, Writes, Joins, Skips, Leaves, Only
    <3>2. Part(t) # Part(u)
      BY <2>2 DEF Part
    <3>3. parts \ {Part(t)} \subseteq parts'
      BY <2>2 DEF Moves, Walks, Aims, Writes, Joins, Skips, Leaves, files
    <3> QED
      BY <1>1, <2>0, <2>1, <3>1, <3>2, <3>3
  <2>3. CASE Writes(u)
    BY <1>1, <2>0, <2>1, <2>3 DEF Writes, Goes, SameFile, files
  <2>4. CASE Moves(u) /\ ~Writes(u)
    BY <1>1, <2>0, <2>1, <2>4 DEF Moves, Walks, Aims, Joins, Skips, Leaves, Goes, SameFile, files
  <2>5. CASE Others
    <3>1. parts' = parts
      BY <2>5 DEF Others, Resolves, Enqueues, Reboots, Quiet, files
    <3> QED
      BY <1>1, <2>0, <2>1, <2>5, <3>1, OthersKeep DEF Goes, SameFile
  <2> QED
    BY <2>2, <2>3, <2>4, <2>5
<1>2. ASSUME NEW n \in Existing, disk'[<<n, 0>>] = "none"
      PROVE  \E t \in Tasks :
               /\ job'[t].entry \in EntriesOf(t) /\ FilesOf[t][job'[t].entry] = n /\ Part(t)' \in parts'
               /\ job'[t].step \in Past \/ (job'[t].step = "place" /\ job'[t].path = <<n, 0>>)
  <2> DEFINE Keeps(t) ==
               /\ job'[t].entry \in EntriesOf(t) /\ FilesOf[t][job'[t].entry] = n /\ Part(t)' \in parts'
               /\ job'[t].step \in Past \/ (job'[t].step = "place" /\ job'[t].path = <<n, 0>>)
  <2>0. <<n, 0>> \in Paths
    BY TransfersAssumption DEF Paths
  <2>1. ASSUME disk[<<n, 0>>] # "none" PROVE \E t \in Tasks : Keeps(t)
    <3>1. PICK t \in Tasks : /\ Only(t) /\ Goes(t, {"remove"}, {"place"}) /\ SameFile(t) /\ SameAim(t)
                             /\ UNCHANGED parts
                             /\ disk' = [disk EXCEPT ![job[t].path] = "none"]
      <4>1. ASSUME NEW t \in Tasks, Writes(t)
            PROVE  /\ Only(t) /\ Goes(t, {"remove"}, {"place"}) /\ SameFile(t) /\ SameAim(t)
                   /\ UNCHANGED parts
                   /\ disk' = [disk EXCEPT ![job[t].path] = "none"]
        <5>1. disk' = [disk EXCEPT ![job[t].path] = t] => disk'[<<n, 0>>] # "none"
          BY <2>0, <2>1, TransfersAssumption DEF TypeOK
        <5> QED
          BY <1>2, <2>1, <4>1, <5>1 DEF Writes, files
      <4>2. ASSUME NEW t \in Tasks, Moves(t), ~Writes(t) PROVE FALSE
        BY <1>2, <2>1, <4>2 DEF Moves, Walks, Aims, Joins, Skips, Leaves, files
      <4>3. CASE Others
        BY <1>2, <2>1, <4>3 DEF Others, Resolves, Enqueues, Reboots, Quiet, files
      <4> QED
        BY <4>1, <4>2, <4>3
    <3>2. job[t].path = <<n, 0>>
      BY <1>2, <2>0, <2>1, <3>1 DEF TypeOK
    <3>3. job[t].path = Asked(t) /\ Part(t) \in parts /\ job[t].entry \in EntriesOf(t)
      BY <3>1 DEF Agreed, Saved, Progress, Goes, At, Aimed, InFile
    <3>4. FilesOf[t][job[t].entry] = n
      BY <3>2, <3>3 DEF Asked
    <3>5. Keeps(t)
      BY <3>1, <3>2, <3>3, <3>4 DEF Goes, SameFile, SameAim, Part
    <3> QED
      BY <3>5
  <2>2. ASSUME disk[<<n, 0>>] = "none" PROVE \E t \in Tasks : Keeps(t)
    <3>1. PICK w \in Tasks :
             /\ job[w].entry \in EntriesOf(w) /\ FilesOf[w][job[w].entry] = n /\ Part(w) \in parts
             /\ job[w].step \in Past \/ (job[w].step = "place" /\ job[w].path = <<n, 0>>)
      BY <2>2 DEF Saved, At
    <3>2. ASSUME NEW t \in Tasks, Moves(t), t # w PROVE Keeps(w)
      <4>1. job'[w] = job[w] /\ Part(w)' = Part(w)
        BY <3>2 DEF Moves, Walks, Aims, Writes, Joins, Skips, Leaves, Only, Part
      <4>2. Part(t) # Part(w)
        BY <3>2 DEF Part
      <4>3. parts \ {Part(t)} \subseteq parts'
        BY <3>2 DEF Moves, Walks, Aims, Writes, Joins, Skips, Leaves, files
      <4> QED
        BY <3>1, <4>1, <4>2, <4>3
    <3>3. CASE Writes(w)
      <4>1. disk' = [disk EXCEPT ![job[w].path] = w] /\ job[w].path = <<n, 0>>
        BY <3>1, <3>3 DEF Writes, Goes, Past
      <4> QED
        BY <1>2, <2>0, <4>1, TransfersAssumption DEF TypeOK
    <3>4. CASE Moves(w) /\ ~Writes(w)
      <4>1. /\ job'[w].step \in Past \/ (job'[w].step = "place" /\ job'[w].path = <<n, 0>>)
            /\ job'[w].entry = job[w].entry /\ parts' = parts
        BY <3>1, <3>4 DEF Moves, Walks, Aims, Joins, Skips, Leaves, Goes, SameFile, SameAim, files, Past
      <4> QED
        BY <3>1, <4>1 DEF Part
    <3>5. CASE Others
      <4>1. parts' = parts
        BY <3>5 DEF Others, Resolves, Enqueues, Reboots, Quiet, files
      <4>2. /\ job'[w].step \in Past \/ (job'[w].step = "place" /\ job'[w].path = <<n, 0>>)
            /\ job'[w].entry = job[w].entry
        BY <3>1, <3>5, OthersKeep DEF Goes, SameFile, SameAim, Past
      <4> QED
        BY <3>1, <4>1, <4>2 DEF Part
    <3> HIDE DEF Keeps
    <3> QED
      BY <3>2, <3>3, <3>4, <3>5
  <2> QED
    BY <2>1, <2>2
<1> QED
  BY <1>1, <1>2 DEF Saved, At

\* A task that is through with its files stays so.
LEMMA EntryStays ==
  ASSUME TypeOK, Progress, (\E t \in Tasks : Moves(t)) \/ Others,
         NEW u \in Tasks, job[u].entry = Len(FilesOf[u]) + 1
  PROVE  job'[u].entry = job[u].entry
<1>1. job[u].step \notin InFile
  <2>1. Len(FilesOf[u]) \in Nat /\ (job[u].step \in InFile => job[u].entry \in EntriesOf(u))
    BY JobTyped DEF Progress
  <2> QED
    BY <2>1 DEF EntriesOf
<1>2. ASSUME NEW t \in Tasks, Moves(t) PROVE job'[u].entry = job[u].entry
  BY <1>1, <1>2 DEF Moves, Walks, Aims, Writes, Joins, Skips, Leaves, Only, Goes, SameFile, InFile
<1> QED
  BY <1>2, OthersKeep DEF SameFile

\* The record of a task follows it.
LEMMA StepRecords ==
  ASSUME TypeOK, Progress, Asking, Recorded, (\E t \in Tasks : Moves(t)) \/ Others
  PROVE  Recorded'
<1>1. ASSUME NEW u \in Tasks
      PROVE  /\ cancelled'[u] => canceller'[u] # "none"
             /\ job'[u].step \in {"none", "never"} => canceller'[u] = "none"
             /\ job'[u].step \notin {"none", "never"} => stored'[u] # "new"
             /\ job'[u].step = "waiting" /\ canceller'[u] = "done" => stored'[u] \in {"cancelled", "cleared"}
             /\ job'[u].step \in {"finish", "gone"} /\ canceller'[u] \in {"none", "done"} => stored'[u] \in Ended
             /\ stored'[u] = "completed" => job'[u].entry = Len(FilesOf[u]) + 1
  <2> DEFINE Follows(v) ==
             /\ cancelled'[v] => canceller'[v] # "none"
             /\ job'[v].step \in {"none", "never"} => canceller'[v] = "none"
             /\ job'[v].step \notin {"none", "never"} => stored'[v] # "new"
             /\ job'[v].step = "waiting" /\ canceller'[v] = "done" => stored'[v] \in {"cancelled", "cleared"}
             /\ job'[v].step \in {"finish", "gone"} /\ canceller'[v] \in {"none", "done"} => stored'[v] \in Ended
             /\ stored'[v] = "completed" => job'[v].entry = Len(FilesOf[v]) + 1
  <2>0. /\ cancelled[u] => canceller[u] # "none"
        /\ job[u].step \in {"none", "never"} => canceller[u] = "none"
        /\ job[u].step \notin {"none", "never"} => stored[u] # "new"
        /\ job[u].step = "waiting" /\ canceller[u] = "done" => stored[u] \in {"cancelled", "cleared"}
        /\ job[u].step \in {"finish", "gone"} /\ canceller[u] \in {"none", "done"} => stored[u] \in Ended
        /\ stored[u] = "completed" => job[u].entry = Len(FilesOf[u]) + 1
        /\ job[u].step = "completed" => job[u].entry = Len(FilesOf[u]) + 1
        /\ stored[u] \in Statuses /\ canceller[u] \in {"none", "resolve", "mark", "done"}
        /\ cancelled[u] \in BOOLEAN
    BY DEF Recorded, Progress, TypeOK, At
  <2>1. job[u].entry = Len(FilesOf[u]) + 1 => job'[u].entry = job[u].entry
    BY EntryStays
  <2>2. ASSUME NEW t \in Tasks, Moves(t), t # u PROVE Follows(u)
    <3>1. job'[u] = job[u]
      BY <2>2 DEF Moves, Walks, Aims, Writes, Joins, Skips, Leaves, Only
    <3>2. stored'[u] = stored[u]
      BY <2>2 DEF Moves, Walks, Aims, Writes, Joins, Skips, Leaves, OnlyRecord
    <3>3. UNCHANGED <<cancelled, canceller>>
      BY <2>2 DEF Moves, Walks, Aims, Writes, Joins, Skips, Leaves, Idle
    <3> QED
      BY <2>0, <3>1, <3>2, <3>3
  <2>3. CASE Walks(u)
    BY <2>0, <2>1, <2>3 DEF Walks, Goes, Idle, Ended, Settled
  <2>4. CASE Aims(u) \/ Writes(u) \/ Joins(u) \/ Skips(u) \/ Leaves(u)
    <3>1. UNCHANGED <<stored, cancelled, canceller>>
      BY <2>4 DEF Aims, Writes, Joins, Skips, Leaves, Idle
    <3>2. job[u].step \notin {"none", "never", "waiting"} /\ job'[u].step \notin {"none", "never", "waiting", "finish"}
          /\ (job'[u].step = "gone" => job[u].step = "finish")
      BY <2>4 DEF Aims, Writes, Joins, Skips, Leaves, Goes
    <3> QED
      BY <2>0, <2>1, <3>1, <3>2
  <2>5. ASSUME NEW id \in Tasks, NEW resolution, NEW all, Resolves(id, resolution, all) PROVE Follows(u)
    <3>1. /\ job'[u].step = job[u].step /\ UNCHANGED cancelled
          /\ u \notin Told => stored'[u] = stored[u]
          /\ u \in Told => stored'[u] = "running"
      BY <2>5 DEF Resolves, Settles
    <3>2. u \in Told => job[u].step = "answer"
      BY DEF Told, Asking, At
    <3>3. canceller'[u] = canceller[u] \/ (canceller[u] = "resolve" /\ canceller'[u] = "mark")
      BY <2>5 DEF Resolves, TypeOK
    <3> QED
      BY <2>0, <2>1, <3>1, <3>2, <3>3
  <2>6. ASSUME NEW t \in Tasks, Enqueues(t) PROVE Follows(u)
    <3>1. CASE u = t
      BY <2>0, <2>1, <2>6, <3>1 DEF Enqueues, Goes
    <3>2. CASE u # t
      BY <2>0, <2>1, <2>6, <3>2 DEF Enqueues, Only, OnlyRecord
    <3> QED
      BY <3>1, <3>2
  <2>7. CASE Reboots
    BY <2>0, <2>1, <2>7 DEF Reboots, At, Ended, Settled, Statuses
  <2>8. CASE Quiet
    <3>1. job' = job
      BY <2>8 DEF Quiet
    <3>2. ASSUME NEW t \in Tasks, Cancel(t) PROVE Follows(u)
      <4>1. CASE t = u
        BY <2>0, <3>1, <3>2, <4>1 DEF Cancel, Registered, TypeOK
      <4>2. CASE t # u
        BY <2>0, <3>1, <3>2, <4>2 DEF Cancel, TypeOK
      <4> QED
        BY <4>1, <4>2
    <3>3. ASSUME NEW t \in Tasks, CancelMark(t) PROVE Follows(u)
      <4>1. CASE t = u
        BY <2>0, <3>1, <3>3, <4>1 DEF CancelMark, Mutate, TypeOK, Ended, Settled
      <4>2. CASE t # u
        BY <2>0, <3>1, <3>3, <4>2 DEF CancelMark, Mutate, TypeOK
      <4> QED
        BY <4>1, <4>2
    <3>4. CASE ClearCompleted
      BY <2>0, <3>1, <3>4 DEF ClearCompleted, Ended
    <3>5. CASE (\E th \in Threads : EmitConflict(th)) \/ (\E b \in Deployed : WhenSettled(b)) \/ UNCHANGED vars
      BY <2>0, <3>1, <3>5 DEF EmitConflict, WhenSettled, vars
    <3>6. ASSUME UNCHANGED <<stored, cancelled>>,
                 \/ UNCHANGED canceller
                 \/ \E t \in Tasks : canceller[t] = "resolve" /\ canceller' = [canceller EXCEPT ![t] = "mark"]
          PROVE  Follows(u)
      <4>1. canceller'[u] = canceller[u] \/ (canceller[u] = "resolve" /\ canceller'[u] = "mark")
        BY <3>6 DEF TypeOK
      <4> QED
        BY <2>0, <3>1, <3>6, <4>1
    <3>7. \/ \E th \in Threads : EmitConflict(th)
          \/ \E t \in Tasks : Cancel(t) \/ CancelMark(t)
          \/ /\ UNCHANGED <<stored, cancelled>>
             /\ \/ UNCHANGED canceller
                \/ \E t \in Tasks : canceller[t] = "resolve" /\ canceller' = [canceller EXCEPT ![t] = "mark"]
          \/ ClearCompleted \/ \E b \in Deployed : WhenSettled(b)
          \/ UNCHANGED vars
      BY <2>8 DEF Quiet
    <3> HIDE DEF Follows
    <3>8. Follows(u)
      BY <3>2, <3>3, <3>4, <3>5, <3>6, <3>7 DEF Follows
    <3> QED
      BY <3>8 DEF Follows
  <2> QED
    <3> HIDE DEF Follows
    <3>1. Follows(u)
      BY <2>2, <2>3, <2>4, <2>5, <2>6, <2>7, <2>8 DEF Moves, Others, Follows
    <3> QED
      BY <3>1 DEF Follows
<1> QED
  BY <1>1 DEF Recorded, At

\* A deployment cleans up after all of its uploads went through their files.
LEMMA StepCleans ==
  ASSUME TypeOK, Progress, Recorded, Cleaned, (\E t \in Tasks : Moves(t)) \/ Others
  PROVE  Cleaned'
<1>1. ASSUME NEW b \in Deployed, NEW t \in TasksOf(b), cleanup'[b] = "ran"
      PROVE  job'[t].entry = Len(FilesOf[t]) + 1
  <2>0. t \in Tasks
    BY DEF TasksOf
  <2>1. cleanup[b] = "ran" => job[t].entry = Len(FilesOf[t]) + 1
    BY DEF Cleaned
  <2>2. cleanup[b] = "ran" \/ stored[t] = "completed"
    <3>1. ASSUME NEW u \in Tasks, Moves(u) PROVE cleanup' = cleanup
      BY <3>1 DEF Moves, Walks, Aims, Writes, Joins, Skips, Leaves, Idle
    <3>2. ASSUME NEW d \in Deployed, WhenSettled(d) PROVE cleanup[b] = "ran" \/ stored[t] = "completed"
      BY <1>1, <3>2 DEF WhenSettled, TypeOK
    <3>3. CASE Quiet
      BY <1>1, <3>2, <3>3 DEF Quiet, EmitConflict, Cancel, CancelMark, ClearCompleted, vars
    <3>4. CASE Others /\ ~Quiet
      BY <1>1, <3>4 DEF Others, Resolves, Enqueues, Reboots
    <3> QED
      BY <1>1, <3>1, <3>3, <3>4
  <2>3. job[t].entry = Len(FilesOf[t]) + 1
    BY <2>0, <2>1, <2>2 DEF Recorded
  <2> QED
    BY <2>0, <2>3, EntryStays
<1> QED
  BY <1>1 DEF Cleaned, TasksOf

-----------------------------------------------------------------------------
(* What files are replaced.                                                  *)

\* An old file stands where it stood from the start: no task puts one anywhere.
LEMMA OldStays ==
  ASSUME TypeOK, (\E t \in Tasks : Moves(t)) \/ Others, NEW p \in Paths, disk'[p] = "old"
  PROVE  disk[p] = "old"
<1>1. ASSUME NEW t \in Tasks, Moves(t) PROVE disk[p] = "old"
  <2>1. CASE disk' = disk
    BY <2>1
  <2>2. CASE disk' = [disk EXCEPT ![job[t].path] = "none"] \/ disk' = [disk EXCEPT ![job[t].path] = t]
    <3>1. t # "old"
      BY TransfersAssumption
    <3> QED
      BY <2>2, <3>1 DEF TypeOK
  <2> QED
    BY <1>1, <2>1, <2>2 DEF Moves, Walks, Aims, Writes, Joins, Skips, Leaves, files
<1>2. CASE Others
  BY <1>2 DEF Others, Resolves, Enqueues, Reboots, Quiet, files
<1> QED
  BY <1>1, <1>2

\* A path that was found free never holds an old file again.
LEMMA StepFrees ==
  ASSUME TypeOK, TypeOK', Progress', Destined', Free, (\E t \in Tasks : Moves(t)) \/ Others
  PROVE  Free'
<1>1. ASSUME NEW u \in Tasks, job'[u].step \in Aimed, ~job'[u].over, disk'[job'[u].path] = "old"
      PROVE  FALSE
  <2>1. job'[u].path \in Paths
    <3>1. job'[u].path \in Paths \cup {NONE}
      BY DEF TypeOK, Jobs
    <3>2. PICK k \in 0 .. MaxAttempt : job'[u].path = <<FilesOf[u][job'[u].entry], k>>
      BY <1>1 DEF Destined
    <3>3. job'[u].entry \in EntriesOf(u)
      BY <1>1 DEF Progress, Aimed, InFile
    <3>4. FilesOf[u] \in Seq(Names)
      BY TransfersAssumption
    <3>5. FilesOf[u][job'[u].entry] \in Names
      BY <3>3, <3>4 DEF EntriesOf
    <3> QED
      BY <3>2, <3>5 DEF Paths
  <2>2. disk[job'[u].path] = "old"
    BY <1>1, <2>1, OldStays
  <2>3. job[u].step \in Aimed /\ ~job[u].over => disk[job[u].path] # "old"
    BY DEF Free
  <2>4. ASSUME NEW t \in Tasks, Moves(t), t # u PROVE FALSE
    <3>1. job'[u] = job[u]
      BY <2>4 DEF Moves, Walks, Aims, Writes, Joins, Skips, Leaves, Only
    <3> QED
      BY <1>1, <2>2, <2>3, <3>1
  <2>5. CASE Walks(u) \/ Writes(u)
    <3>1. SameAim(u) /\ job[u].step \in Aimed
      BY <1>1, <2>5 DEF Walks, Writes, Goes, Aimed
    <3> QED
      BY <1>1, <2>2, <2>3, <3>1 DEF SameAim
  <2>6. CASE Aims(u)
    <3>1. disk[job'[u].path] = "none"
      BY <1>1, <2>6 DEF Aims, Goes, Aimed
    <3> QED
      BY <2>2, <3>1
  <2>7. CASE Joins(u) \/ Skips(u) \/ Leaves(u)
    BY <1>1, <2>7 DEF Joins, Skips, Leaves, Goes, Aimed
  <2>8. CASE Others
    BY <1>1, <2>2, <2>3, <2>8, OthersKeep DEF Goes, SameAim, Aimed
  <2> QED
    BY <2>4, <2>5, <2>6, <2>7, <2>8 DEF Moves
<1> QED
  BY <1>1 DEF Free

\* A file is replaced by a task that was told to, or that found none and downloads.
LEMMA StepReplaces ==
  ASSUME TypeOK, Progress, Destined, Agreed, Free, ReplacedByConsent, (\E t \in Tasks : Moves(t)) \/ Others
  PROVE  ReplacedByConsent'
<1>1. consents \subseteq consents'
  <2>1. ASSUME NEW t \in Tasks, Moves(t) PROVE consents' = consents
    BY <2>1 DEF Moves, Walks, Aims, Writes, Joins, Skips, Leaves, Idle
  <2> QED
    BY <2>1 DEF Others, Resolves, Enqueues, Reboots, Quiet
<1>2. ASSUME NEW r \in replaced'
      PROVE  \/ <<r.by, r.path>> \in consents \/ <<BatchOf[r.by], "all">> \in consents
             \/ r.by \notin Uploads /\ ~r.over /\ r.held \in Tasks
  <2>1. CASE r \in replaced
    BY <2>1 DEF ReplacedByConsent
  <2>2. CASE r \notin replaced
    <3>1. PICK t \in Tasks : /\ Goes(t, {"remove", "place"}, {"place", "entry"})
                             /\ r \in Lost(t, job[t].path)
                             /\ At(t, "place") /\ t \in Uploads => disk[job[t].path] = "none"
      <4>1. ASSUME NEW t \in Tasks, Moves(t)
            PROVE  /\ Goes(t, {"remove", "place"}, {"place", "entry"}) /\ r \in Lost(t, job[t].path)
                   /\ At(t, "place") /\ t \in Uploads => disk[job[t].path] = "none"
        BY <2>2, <4>1 DEF Moves, Walks, Aims, Writes, Joins, Skips, Leaves, Goes, At, files
      <4>2. CASE Others
        BY <2>2, <4>2 DEF Others, Resolves, Enqueues, Reboots, Quiet, files
      <4> QED
        BY <4>1, <4>2
    <3>2. /\ disk[job[t].path] # "none" /\ r.by = t /\ r.path = job[t].path
          /\ r.held = disk[job[t].path] /\ r.over = job[t].over
      BY <3>1 DEF Lost
    <3>3. CASE job[t].over
      <4>1. job[t].path = Asked(t) /\ Consented(t)
        BY <3>1, <3>3 DEF Goes, Agreed, Aimed
      <4> QED
        BY <3>2, <4>1 DEF Consented
    <3>4. CASE ~job[t].over
      <4>1. job[t].step = "place" /\ t \notin Uploads
        BY <3>1, <3>2, <3>4 DEF Goes, Agreed, At
      <4>2. job[t].path \in Paths /\ disk[job[t].path] # "old"
        BY <3>4, <4>1, PathsTyped DEF Free, Aimed
      <4>3. disk[job[t].path] \in Tasks
        BY <3>2, <4>2 DEF TypeOK
      <4> QED
        BY <3>2, <3>4, <4>1, <4>3
    <3> QED
      BY <3>3, <3>4
  <2> QED
    BY <2>1, <2>2
<1> QED
  BY <1>1, <1>2 DEF ReplacedByConsent
-----------------------------------------------------------------------------
(* The theorems.                                                             *)
QueueInvariant ==
  TypeOK /\ Progress /\ Asking /\ Destined /\ Agreed /\ Saved /\ Recorded /\ Cleaned

\* Before anything is enqueued.
LEMMA InitHolds == ASSUME Init PROVE QueueInvariant /\ Free /\ ReplacedByConsent
<1>0. NONE # "overwrite"
  BY TransfersAssumption
<1>1. ASSUME NEW t \in Tasks
      PROVE  /\ job[t] = NewJob /\ stored[t] = "new" /\ cancelled[t] = FALSE /\ canceller[t] = "none"
             /\ Len(FilesOf[t]) \in Nat
             /\ job[t].step = "none" /\ job[t].entry = 1 /\ job[t].answer = NONE
             /\ job[t].placed = {} /\ job[t].skipped = {}
  <2>1. FilesOf[t] \in Seq(Names)
    BY TransfersAssumption
  <2>2. job[t] = NewJob
    BY DEF Init
  <2>3. /\ NewJob.step = "none" /\ NewJob.entry = 1 /\ NewJob.answer = NONE
        /\ NewJob.placed = {} /\ NewJob.skipped = {}
    BY DEF NewJob
  <2> QED
    BY <2>1, <2>2, <2>3 DEF Init
<1>2. NewJob \in Jobs
  BY DEF NewJob, Jobs, Steps
<1>3. TypeOK
  <2>1. job \in [Tasks -> Jobs]
    BY <1>2 DEF Init
  <2>2. stored \in [Tasks -> Statuses] /\ cancelled \in [Tasks -> BOOLEAN]
        /\ canceller \in [Tasks -> {"none", "resolve", "mark", "done"}]
    BY DEF Init, Statuses
  <2>3. /\ waiters = {} /\ queue = <<>> /\ active = NONE /\ batchAnswer \in [Batches -> {NONE}]
        /\ prompt \in [Threads -> {NONE}] /\ dialog = NONE
        /\ disk \in [Paths -> {"none", "old"}] /\ cleanup \in [Deployed -> {"none"}]
    BY DEF Init, NoConflict
  <2>4. <<>> \in Seq(Tasks)
    OBVIOUS
  <2>5. ASSUME NEW t \in Tasks
        PROVE  /\ job[t].entry <= Len(FilesOf[t]) + 1
               /\ job[t].placed \subseteq EntriesOf(t) /\ job[t].skipped \subseteq EntriesOf(t)
    <3>1. \A n \in Nat : 1 <= n + 1
      OBVIOUS
    <3>2. Len(FilesOf[t]) \in Nat /\ job[t].entry = 1 /\ job[t].placed = {} /\ job[t].skipped = {}
      BY <1>1
    <3>3. 1 <= Len(FilesOf[t]) + 1
      BY <3>1, <3>2
    <3> QED
      BY <3>2, <3>3, Zenon
  <2> QED
    BY <2>1, <2>2, <2>3, <2>4, <2>5 DEF TypeOK
<1>4. Progress
  <2>1. 1 .. 1 - 1 = {} /\ {} \cup {} = {}
    OBVIOUS
  <2>2. ASSUME NEW t \in Tasks
        PROVE  job[t].placed \cup job[t].skipped = 1 .. job[t].entry - 1 /\ job[t].step = "none"
    BY <1>1, <2>1
  <2> QED
    BY <2>2 DEF Progress, InFile
<1>5. Asking /\ Agreed
  BY <1>0, <1>1 DEF Init, NoConflict, Asking, Agreed, NewJob, At, Aimed
<1>6. Destined /\ Free
  BY <1>1 DEF Destined, Free, At, Aimed
<1>7. Saved
  <2>1. ASSUME NEW n \in Existing PROVE disk[<<n, 0>>] = "old"
    <3>1. <<n, 0>> \in Paths
      BY TransfersAssumption DEF Paths
    <3> QED
      BY <3>1 DEF Init
  <2> QED
    BY <1>1, <2>1 DEF Saved
<1>8. Recorded
  BY <1>1 DEF Recorded, At
<1>9. Cleaned /\ ReplacedByConsent
  BY DEF Init, Cleaned, ReplacedByConsent
<1> QED
  BY <1>3, <1>4, <1>5, <1>6, <1>7, <1>8, <1>9 DEF QueueInvariant

\* Every step keeps the invariant.
LEMMA StepHolds == ASSUME QueueInvariant, [Next]_vars PROVE QueueInvariant'
<1> USE DEF QueueInvariant
<1>1. (\E t \in Tasks : Moves(t)) \/ Others
  BY StepMoves DEF Moves, Others
<1>2. Progress'
  BY <1>1, StepProgresses
<1>3. TypeOK'
  BY <1>1, <1>2, StepTypes
<1>4. Asking' /\ Agreed'
  BY <1>1, StepAsks, StepAgrees
<1>5. Destined' /\ Saved'
  BY <1>1, StepAims, StepSaves
<1>6. Recorded' /\ Cleaned'
  BY <1>1, StepRecords, StepCleans
<1> QED
  BY <1>2, <1>3, <1>4, <1>5, <1>6

\* The state of the transfer queue keeps its shape, the files a task is through
\* with are the ones before its entry, its path is one of its file, and who
\* waits for an answer is in line for it, whatever fails, is cancelled or killed.
THEOREM QueueHolds == Spec => []QueueInvariant
<1>1. Init => QueueInvariant
  BY InitHolds
<1>2. QueueInvariant /\ [Next]_vars => QueueInvariant'
  BY StepHolds
<1> QED
  BY <1>1, <1>2, PTL DEF Spec

\* The variables of the queue keep their types.
THEOREM TypeCorrect == Spec => []TypeOK
<1>1. QueueInvariant => TypeOK
  BY DEF QueueInvariant
<1> QED
  BY <1>1, QueueHolds, PTL

\* No conflict waits unseen (join_conflict, settle): while tasks wait for an
\* answer, one of them is being asked about, and its batch has no answer yet.
THEOREM ConflictsAreAsked == Spec => []OneQuestion
<1>1. QueueInvariant => OneQuestion
  <2> SUFFICES ASSUME QueueInvariant PROVE OneQuestion
    OBVIOUS
  <2>1. Asking /\ waiters \subseteq Tasks
    BY DEF QueueInvariant, TypeOK
  <2>2. ASSUME NEW u \in waiters PROVE active # NONE
    <3>1. u # NONE
      BY <2>1, TransfersAssumption
    <3>2. active = NONE => \E i \in 1 .. Len(queue) : queue[i] = u
      BY <2>1, <3>1 DEF Asking
    <3>3. active = NONE => Len(queue) = 0
      BY <2>1 DEF Asking
    <3> QED
      BY <3>2, <3>3
  <2> QED
    BY <2>1, <2>2 DEF Asking, OneQuestion
<1> QED
  BY <1>1, QueueHolds, PTL

\* Whatever fails, is cancelled or killed between removing the old file and
\* putting the new one in place (commit of a .part file), the content of a file
\* that existed is there: at the destination, or as a .part file nobody removes.
THEOREM ContentIsKept == Spec => []NothingLost
<1>1. QueueInvariant => NothingLost
  BY DEF QueueInvariant, Saved, NothingLost, Part
<1> QED
  BY <1>1, QueueHolds, PTL

\* A record that says completed means that each file was put in place or left
\* out, no task ends without a record of its end, and a deployment removes
\* remote files only after all of its uploads went through (when_settled).
THEOREM RecordsAreTrue == Spec => []RecordsTell
<1>1. QueueInvariant => RecordsTell
  <2> SUFFICES ASSUME QueueInvariant PROVE RecordsTell
    OBVIOUS
  <2>1. ASSUME NEW t \in Tasks, job[t].entry = Len(FilesOf[t]) + 1
        PROVE  job[t].placed \cup job[t].skipped = EntriesOf(t)
    <3>1. job[t].placed \cup job[t].skipped = 1 .. (Len(FilesOf[t]) + 1) - 1
      BY <2>1 DEF QueueInvariant, Progress
    <3>2. Len(FilesOf[t]) \in Nat
      BY JobTyped DEF QueueInvariant
    <3> QED
      BY <3>1, <3>2 DEF EntriesOf
  <2>2. ASSUME NEW t \in Tasks
        PROVE  /\ At(t, "gone") /\ canceller[t] \in {"none", "done"} => stored[t] \in Settled \cup {"cleared"}
               /\ stored[t] = "completed" => job[t].entry = Len(FilesOf[t]) + 1
    BY DEF QueueInvariant, Recorded, Ended, At
  <2>3. \A b \in Deployed : cleanup[b] = "ran" =>
          \A t \in TasksOf(b) : t \in Tasks /\ job[t].entry = Len(FilesOf[t]) + 1
    BY DEF QueueInvariant, Cleaned, TasksOf
  <2> QED
    BY <2>1, <2>2, <2>3 DEF RecordsTell
<1> QED
  BY <1>1, QueueHolds, PTL

\* Whatever tasks aim at one name, a file at the destination is replaced only by a task
\* the user told to overwrite it (settle_conflict), but for the one case that commit_local
\* leaves open: a download that found the name free replaces what another task has put
\* there since.  A file that was there from the start is never replaced unasked.
THEOREM ReplacedWithConsent == Spec => []ReplacedByConsent
<1> DEFINE I == QueueInvariant /\ Free /\ ReplacedByConsent
<1>1. Init => I
  BY InitHolds
<1>2. I /\ [Next]_vars => I'
  <2> SUFFICES ASSUME I, [Next]_vars PROVE I'
    OBVIOUS
  <2>1. (\E t \in Tasks : Moves(t)) \/ Others
    BY StepMoves DEF Moves, Others, QueueInvariant
  <2>2. QueueInvariant'
    BY StepHolds
  <2>3. Free' /\ ReplacedByConsent'
    BY <2>1, <2>2, StepFrees, StepReplaces DEF QueueInvariant
  <2> QED
    BY <2>2, <2>3
<1>3. I => ReplacedByConsent
  OBVIOUS
<1> HIDE DEF I
<1> QED
  BY <1>1, <1>2, <1>3, PTL DEF Spec

=============================================================================
