----------------------------- MODULE Transfers -----------------------------
(***************************************************************************)
(* The transfer queue (transfers.rs).  A task copies its files one after   *)
(* the other under one of a few permits: each file is written to a .part   *)
(* file and then put in place, and a destination that exists is asked      *)
(* about.  One question at a time is shown to the user; the others queue.  *)
(* Tasks, cancellations and the user run on threads of their own.          *)
(***************************************************************************)
EXTENDS Naturals, Sequences, FiniteSets, SequencesExt

CONSTANTS
  Tasks, Batches, NONE,
  BatchOf,     \* the batch of each task
  FilesOf,     \* for each task the names of its files at the destination, in order
  Uploads,     \* the tasks that upload; the others download (one direction per batch)
  Existing,    \* the names there is a file of at the start
  Permits,     \* tasks that run at once (3 in the code)
  Answers,     \* what the user may answer: "skip", "overwrite", "rename"
  Cancellable, \* bound: the tasks that may be cancelled
  Deployed,    \* the batches a deployment waits for before it cleans up
  MaxAttempt,  \* bound: renamings tried
  Faults,      \* whether reads, writes and renames may fail
  Restarts     \* whether the application may be killed

Names == UNION {{FilesOf[t][i] : i \in 1 .. Len(FilesOf[t])} : t \in Tasks}

ASSUME TransfersAssumption ==
  /\ BatchOf \in [Tasks -> Batches] /\ FilesOf \in [Tasks -> Seq(Names)] /\ Existing \subseteq Names
  /\ Tasks \cap {NONE, "none", "old"} = {} /\ NONE \notin {"skip", "overwrite", "rename"}
  /\ {Permits, MaxAttempt} \subseteq Nat \ {0}
  /\ Uploads \subseteq Tasks /\ Cancellable \subseteq Tasks /\ Deployed \subseteq Batches
  /\ Answers \subseteq {"skip", "overwrite", "rename"}
  /\ Faults \in BOOLEAN /\ Restarts \in BOOLEAN
ASSUME DirectionAssumption ==
  \A t, u \in Tasks : BatchOf[t] = BatchOf[u] => (t \in Uploads <=> u \in Uploads)

\* <<n, 0>> is the file asked for, <<n, k>> its k-th renaming.
Paths == Names \X (0 .. MaxAttempt)
\* The threads that show questions: a task's own, its canceller's, the user's.
User == <<NONE, "user">>
Threads == (Tasks \X {"run", "cancel"}) \cup {User}

VARIABLES
  stored,     \* the status of each task, as persisted and reported to the window
  cancelled,  \* InternalTask.cancelled
  job,        \* where each task is and what it has done
  canceller,  \* where the cancellation of each task is
  waiters, queue, active, batchAnswer,  \* ConflictState
  prompt,     \* the question each thread is about to show
  dialog,     \* the task whose question the window shows
  disk, parts,  \* the destination: files, and .part files of tasks
  cleanup,    \* the clean-up after each deployment
  consents,   \* the files and batches the user said to overwrite
  replaced    \* which task replaced which file, what it held, and whether it was to overwrite

vars == <<stored, cancelled, job, canceller, waiters, queue, active, batchAnswer, prompt,
          dialog, disk, parts, cleanup, consents, replaced>>
conflict == <<waiters, queue, active, batchAnswer>>
files == <<disk, parts, replaced>>

TasksOf(b) == {t \in Tasks : BatchOf[t] = b}
NewJob == [step |-> "none", entry |-> 1, path |-> NONE, over |-> FALSE, answer |-> NONE,
           placed |-> {}, skipped |-> {}]

NoConflict == /\ waiters = {} /\ queue = <<>> /\ active = NONE
              /\ batchAnswer = [b \in Batches |-> NONE]
Init ==
  /\ stored = [t \in Tasks |-> "new"] /\ cancelled = [t \in Tasks |-> FALSE]
  /\ job = [t \in Tasks |-> NewJob] /\ canceller = [t \in Tasks |-> "none"]
  /\ NoConflict
  /\ prompt = [th \in Threads |-> NONE] /\ dialog = NONE
  /\ disk = [p \in Paths |-> IF p[2] = 0 /\ p[1] \in Existing THEN "old" ELSE "none"]
  /\ parts = {} /\ replaced = {} /\ consents = {}
  /\ cleanup = [b \in Deployed |-> "none"]
-----------------------------------------------------------------------------
(* Status and questions.  A status other than conflict closes the question *)
(* the window shows about the task.  Progress reports keep the status.     *)
Dismiss(ts) == IF dialog \in ts THEN NONE ELSE dialog
Mutate(t, status) ==
  /\ stored' = [stored EXCEPT ![t] = status]
  /\ dialog' = IF status = "conflict" THEN dialog ELSE Dismiss({t})

To(t, step) == job' = [job EXCEPT ![t].step = step]
At(t, step) == job[t].step = step
Registered(t) == job[t].step \notin {"none", "gone", "never"}
Running(t) == Registered(t) /\ job[t].step \notin {"waiting", "finish"}
AssertActive(t) == ~cancelled[t]

Asked(t) == <<FilesOf[t][job[t].entry], 0>>

\* Fault: the queue is not searched for tasks whose batch is answered.
SettleAskAgain(id, resolution, all, th) ==
  /\ active = id
  /\ LET batches == IF all THEN [batchAnswer EXCEPT ![BatchOf[id]] = resolution] ELSE batchAnswer
         next == IF queue = <<>> THEN NONE ELSE queue[1]
     IN /\ batchAnswer' = batches
        /\ active' = next
        /\ queue' = IF queue = <<>> THEN queue ELSE Tail(queue)
        /\ waiters' = waiters \ {id}
        /\ job' = [job EXCEPT ![id].answer = resolution]
        /\ stored' = [stored EXCEPT ![id] = "running"]
        /\ dialog' = Dismiss({id})
        /\ prompt' = [prompt EXCEPT ![th] = next]

\* Fault: the next question is not put.
SettleAlone(id, resolution, all, th) ==
  /\ active = id
  /\ active' = NONE
  /\ batchAnswer' = IF all THEN [batchAnswer EXCEPT ![BatchOf[id]] = resolution] ELSE batchAnswer
  /\ waiters' = waiters \ {id}
  /\ job' = [job EXCEPT ![id].answer = resolution]
  /\ stored' = [stored EXCEPT ![id] = "running"]
  /\ dialog' = Dismiss({id})
  /\ UNCHANGED <<queue, prompt>>

\* The question about task id is answered: the waiters whose batch has an
\* answer are served with it, and the first other one is asked next.
Settle(id, resolution, all, th) ==
  /\ active = id
  /\ LET found == id \in waiters
         batches == IF all /\ found THEN [batchAnswer EXCEPT ![BatchOf[id]] = resolution]
                                    ELSE batchAnswer
         rest == waiters \ {id}
         Asks(t) == t \in rest /\ batches[BatchOf[t]] = NONE
         at == SelectInSeq(queue, Asks)
         passed == IF at = 0 THEN queue ELSE SubSeq(queue, 1, at - 1)
         served == {t \in rest : \E i \in 1 .. Len(passed) : passed[i] = t}
         told == served \cup (IF found THEN {id} ELSE {})
     IN /\ batchAnswer' = batches
        /\ active' = IF at = 0 THEN NONE ELSE queue[at]
        /\ queue' = IF at = 0 THEN <<>> ELSE SubSeq(queue, at + 1, Len(queue))
        /\ waiters' = rest \ served
        /\ job' = [t \in Tasks |->
                     IF t \notin told THEN job[t]
                     ELSE [job[t] EXCEPT !.answer = IF t = id THEN resolution
                                                              ELSE batches[BatchOf[t]]]]
        /\ stored' = [t \in Tasks |-> IF t \in told THEN "running" ELSE stored[t]]
        /\ dialog' = Dismiss(told)
        /\ prompt' = [prompt EXCEPT ![th] = active']

EmitConflict(th) ==
  /\ prompt[th] # NONE
  /\ dialog' = prompt[th] /\ prompt' = [prompt EXCEPT ![th] = NONE]
  /\ UNCHANGED <<stored, cancelled, job, canceller, conflict, files, cleanup, consents>>

\* Fault: the answer goes to whoever is asked about now.
ResolveActive(resolution, all) ==
  /\ dialog # NONE /\ prompt[User] = NONE /\ active # NONE
  /\ consents' = IF resolution # "overwrite" \/ active # dialog THEN consents
                 ELSE consents \cup {<<dialog, Asked(dialog)>>}
                        \cup (IF all THEN {<<BatchOf[dialog], "all">>} ELSE {})
  /\ Settle(active, resolution, all, User)
  /\ UNCHANGED <<cancelled, canceller, files, cleanup>>

\* The user answers the question the window shows.
ResolveConflict(resolution, all) ==
  /\ dialog # NONE /\ prompt[User] = NONE
  /\ consents' = IF resolution # "overwrite" \/ active # dialog THEN consents
                 ELSE consents \cup {<<dialog, Asked(dialog)>>}
                        \cup (IF all THEN {<<BatchOf[dialog], "all">>} ELSE {})
  /\ \/ Settle(dialog, resolution, all, User)
     \/ /\ active # dialog
        /\ dialog' = NONE /\ UNCHANGED <<job, stored, conflict, prompt>>
  /\ UNCHANGED <<cancelled, canceller, files, cleanup>>
-----------------------------------------------------------------------------
(* The operations of the window.                                            *)
\* A pass of the loop that registers the tasks of a batch and starts each of them:
\* the first may be over before the last is there.  A deployment waits after the last.
Enqueue(t) ==
  /\ At(t, "none")
  /\ To(t, "waiting")
  /\ stored' = [stored EXCEPT ![t] = "queued"]
  /\ cleanup' = [d \in Deployed |->
                   IF d = BatchOf[t] /\ \A u \in TasksOf(d) \ {t} : ~At(u, "none")
                     THEN "waiting" ELSE cleanup[d]]
  /\ UNCHANGED <<cancelled, canceller, conflict, prompt, dialog, files, consents>>

Cancel(t) ==
  /\ t \in Cancellable /\ canceller[t] = "none" /\ Registered(t)
  /\ cancelled' = [cancelled EXCEPT ![t] = TRUE]
  /\ canceller' = [canceller EXCEPT ![t] = "resolve"]
  /\ UNCHANGED <<stored, job, conflict, prompt, dialog, files, cleanup, consents>>

CancelResolve(t) ==
  /\ canceller[t] = "resolve"
  /\ canceller' = [canceller EXCEPT ![t] = "mark"]
  /\ \/ Settle(t, "skip", FALSE, <<t, "cancel">>)
     \/ active # t /\ UNCHANGED <<job, stored, conflict, prompt, dialog>>
  /\ UNCHANGED <<cancelled, files, cleanup, consents>>

CancelMark(t) ==
  /\ canceller[t] = "mark" /\ prompt[<<t, "cancel">>] = NONE
  /\ canceller' = [canceller EXCEPT ![t] = "done"]
  /\ Mutate(t, "cancelled")
  /\ UNCHANGED <<cancelled, job, conflict, prompt, files, cleanup, consents>>

\* ClearCompleted removes the records of tasks that are done.
ClearCompleted ==
  /\ \E t \in Tasks : stored[t] \in {"completed", "cancelled"}
  /\ stored' = [t \in Tasks |-> IF stored[t] \in {"completed", "cancelled"} THEN "cleared" ELSE stored[t]]
  /\ UNCHANGED <<cancelled, job, canceller, conflict, prompt, dialog, files, cleanup, consents>>
-----------------------------------------------------------------------------
(* One task.                                                                *)
Fail(t) == Faults /\ To(t, "fail")

Acquire(t) ==
  /\ At(t, "waiting") /\ Cardinality({u \in Tasks : Running(u)}) < Permits
  /\ To(t, IF cancelled[t] THEN "finish" ELSE "scan")
  /\ UNCHANGED <<stored, cancelled, canceller, conflict, prompt, dialog, files, cleanup, consents>>

Scan(t) ==
  /\ At(t, "scan")
  /\ To(t, "measure") /\ Mutate(t, "scanning")
  /\ UNCHANGED <<cancelled, canceller, conflict, prompt, files, cleanup, consents>>

Measure(t) ==
  /\ At(t, "measure")
  /\ \/ To(t, "entry") /\ Mutate(t, "running")
     \/ Fail(t) /\ UNCHANGED <<stored, dialog>>
  /\ UNCHANGED <<cancelled, canceller, conflict, prompt, files, cleanup, consents>>

\* The next file: a cancelled task stops here, a task without files ends.
Entry(t) ==
  /\ At(t, "entry")
  /\ To(t, IF job[t].entry > Len(FilesOf[t]) THEN "ok"
           ELSE IF AssertActive(t) THEN "exists" ELSE "fail")
  /\ UNCHANGED <<stored, cancelled, canceller, conflict, prompt, dialog, files, cleanup, consents>>

Aim(t, path, over) ==
  job' = [job EXCEPT ![t].step = "create", ![t].path = path, ![t].over = over]

ResolveDestination(t) ==
  /\ At(t, "exists")
  /\ \/ disk[Asked(t)] = "none" /\ Aim(t, Asked(t), FALSE)
     \/ disk[Asked(t)] # "none" /\ To(t, "ask")
     \/ Fail(t)
  /\ UNCHANGED <<stored, cancelled, canceller, conflict, prompt, dialog, files, cleanup, consents>>

AskConflict(t) ==
  /\ At(t, "ask")
  /\ To(t, "join") /\ Mutate(t, "conflict")
  /\ UNCHANGED <<cancelled, canceller, conflict, prompt, files, cleanup, consents>>

\* The task takes the answer of its batch, or waits and asks if nobody does.
JoinConflict(t) ==
  /\ At(t, "join")
  /\ IF batchAnswer[BatchOf[t]] # NONE
       THEN /\ job' = [job EXCEPT ![t].step = "answer", ![t].answer = batchAnswer[BatchOf[t]]]
            /\ UNCHANGED <<conflict, prompt>>
       ELSE LET line == Append(queue, t)
                Waits(u) == u \in waiters \cup {t}
                at == SelectInSeq(line, Waits)
            IN /\ waiters' = waiters \cup {t}
               /\ To(t, "answer")
               /\ IF active # NONE THEN queue' = line /\ UNCHANGED <<active, prompt>>
                  ELSE /\ active' = line[at]
                       /\ queue' = SubSeq(line, at + 1, Len(line))
                       /\ prompt' = [prompt EXCEPT ![<<t, "run">>] = line[at]]
               /\ UNCHANGED batchAnswer
  /\ UNCHANGED <<stored, cancelled, canceller, dialog, files, cleanup, consents>>

Answered(t) ==
  /\ At(t, "answer") /\ prompt[<<t, "run">>] = NONE
  /\ LET path == Asked(t) IN
       CASE job[t].answer = "skip" ->
              job' = [job EXCEPT ![t].step = "entry", ![t].entry = @ + 1, ![t].answer = NONE,
                                 ![t].skipped = @ \cup {job[t].entry}]
         [] job[t].answer = "overwrite" ->
              job' = [job EXCEPT ![t].step = "create", ![t].path = path, ![t].over = TRUE,
                                 ![t].answer = NONE]
         [] job[t].answer = "rename" ->
              job' = [job EXCEPT ![t].step = "rename", ![t].path = <<path[1], 1>>, ![t].answer = NONE]
         [] OTHER -> FALSE
  /\ UNCHANGED <<stored, cancelled, canceller, conflict, prompt, dialog, files, cleanup, consents>>

Rename(t) ==
  /\ At(t, "rename")
  /\ \/ disk[job[t].path] = "none" /\ Aim(t, job[t].path, FALSE)
     \/ /\ disk[job[t].path] # "none" /\ job[t].path[2] < MaxAttempt
        /\ job' = [job EXCEPT ![t].path = <<@[1], @[2] + 1>>]
     \/ Fail(t)
  /\ UNCHANGED <<stored, cancelled, canceller, conflict, prompt, dialog, files, cleanup, consents>>

Part(t) == <<t, job[t].entry>>

CreatePart(t) ==
  /\ At(t, "create")
  /\ \/ To(t, "copy") /\ parts' = parts \cup {Part(t)}
     \/ Fail(t) /\ UNCHANGED parts
  /\ UNCHANGED <<stored, cancelled, canceller, conflict, prompt, dialog, disk, replaced, cleanup, consents>>

\* The loop ends with the last read; the .part file of a failed copy is removed.
Copy(t) ==
  /\ At(t, "copy")
  /\ \/ AssertActive(t) /\ To(t, "commit") /\ UNCHANGED parts
     \/ (~AssertActive(t) \/ Faults) /\ To(t, "fail") /\ parts' = parts \ {Part(t)}
  /\ UNCHANGED <<stored, cancelled, canceller, conflict, prompt, dialog, disk, replaced, cleanup, consents>>

Commit(t) ==
  /\ At(t, "commit")
  /\ \/ To(t, CASE disk[job[t].path] = "none" -> "place"
                [] job[t].over -> "remove"
                [] OTHER -> "fail")
     \/ Fail(t)
  /\ UNCHANGED <<stored, cancelled, canceller, conflict, prompt, dialog, files, cleanup, consents>>

Lost(t, path) ==
  IF disk[path] = "none" THEN {}
  ELSE {[by |-> t, path |-> path, held |-> disk[path], over |-> job[t].over]}

\* A file that somebody else removed meanwhile cannot be removed.
RemoveOld(t) ==
  /\ At(t, "remove")
  /\ \/ /\ disk[job[t].path] # "none" /\ To(t, "place")
        /\ replaced' = replaced \cup Lost(t, job[t].path)
        /\ disk' = [disk EXCEPT ![job[t].path] = "none"]
     \/ /\ Faults \/ disk[job[t].path] = "none"
        /\ To(t, "fail") /\ UNCHANGED <<disk, replaced>>
  /\ UNCHANGED <<stored, cancelled, canceller, conflict, prompt, dialog, parts, cleanup, consents>>

\* Fault: the .part file is removed when it cannot be put in place.
PlaceOrClean(t) ==
  /\ At(t, "place")
  /\ LET path == job[t].path IN
       \/ /\ t \in Uploads => disk[path] = "none"
          /\ disk' = [disk EXCEPT ![path] = t] /\ parts' = parts \ {Part(t)}
          /\ replaced' = replaced \cup Lost(t, path)
          /\ job' = [job EXCEPT ![t].step = "entry", ![t].entry = @ + 1,
                                ![t].placed = @ \cup {job[t].entry}]
       \/ /\ Faults \/ (t \in Uploads /\ disk[path] # "none")
          /\ To(t, "fail") /\ parts' = parts \ {Part(t)} /\ UNCHANGED <<disk, replaced>>
  /\ UNCHANGED <<stored, cancelled, canceller, conflict, prompt, dialog, cleanup, consents>>

\* A remote rename onto a file that exists fails; a local one replaces it.
Place(t) ==
  /\ At(t, "place")
  /\ LET path == job[t].path IN
       \/ /\ t \in Uploads => disk[path] = "none"
          /\ disk' = [disk EXCEPT ![path] = t] /\ parts' = parts \ {Part(t)}
          /\ replaced' = replaced \cup Lost(t, path)
          /\ job' = [job EXCEPT ![t].step = "entry", ![t].entry = @ + 1,
                                ![t].placed = @ \cup {job[t].entry}]
       \/ /\ Faults \/ (t \in Uploads /\ disk[path] # "none")
          /\ To(t, "fail") /\ UNCHANGED files
  /\ UNCHANGED <<stored, cancelled, canceller, conflict, prompt, dialog, cleanup, consents>>

\* The result is chosen by looking at cancelled, then reported.
Judge(t) ==
  /\ job[t].step \in {"ok", "fail"}
  /\ To(t, CASE cancelled[t] -> "cancelled" [] At(t, "ok") -> "completed" [] OTHER -> "failed")
  /\ UNCHANGED <<stored, cancelled, canceller, conflict, prompt, dialog, files, cleanup, consents>>

Report(t) ==
  /\ job[t].step \in {"cancelled", "completed", "failed"}
  /\ Mutate(t, job[t].step)
  /\ To(t, "finish")
  /\ UNCHANGED <<cancelled, canceller, conflict, prompt, files, cleanup, consents>>

\* The permit is released, the task forgotten, and with the last task of a
\* batch the answer for the batch.
Finish(t) ==
  /\ At(t, "finish")
  /\ To(t, "gone")
  /\ batchAnswer' = IF \E u \in TasksOf(BatchOf[t]) \ {t} : Registered(u) THEN batchAnswer
                    ELSE [batchAnswer EXCEPT ![BatchOf[t]] = NONE]
  /\ UNCHANGED <<stored, cancelled, canceller, waiters, queue, active, prompt, dialog, files, cleanup,
                 consents>>
-----------------------------------------------------------------------------
Settled == {"completed", "failed", "cancelled", "interrupted"}

\* Fault: a deployment cleans up when its transfers are over, however they ended.
WhenSettledAny(b) ==
  /\ cleanup[b] = "waiting" /\ \A t \in TasksOf(b) : stored[t] \in Settled
  /\ cleanup' = [cleanup EXCEPT ![b] = "ran"]
  /\ UNCHANGED <<stored, cancelled, job, canceller, conflict, prompt, dialog, files, consents>>

\* The deployment looks at the records of its transfers.
WhenSettled(b) ==
  /\ cleanup[b] = "waiting"
  /\ \/ \E t \in TasksOf(b) : stored[t] = "cleared"
     \/ \A t \in TasksOf(b) : stored[t] \in Settled
  /\ cleanup' = [cleanup EXCEPT ![b] =
                   IF \A t \in TasksOf(b) : stored[t] = "completed" THEN "ran" ELSE "given up"]
  /\ UNCHANGED <<stored, cancelled, job, canceller, conflict, prompt, dialog, files, consents>>

\* The application is killed and started again; what is left of a batch that was
\* being registered never is.
Begun(b) == \E t \in TasksOf(b) : ~At(t, "none")
Restart ==
  /\ Restarts
  /\ \E t \in Tasks : Registered(t)
  /\ job' = [t \in Tasks |->
               [job[t] EXCEPT !.step = IF job[t].step \notin {"none", "never"} THEN "gone"
                                       ELSE IF At(t, "none") /\ ~Begun(BatchOf[t]) THEN "none"
                                       ELSE "never"]]
  /\ stored' = [t \in Tasks |-> IF stored[t] \in {"queued", "scanning", "running", "conflict"}
                                  THEN "interrupted" ELSE stored[t]]
  /\ canceller' = [t \in Tasks |-> IF canceller[t] = "none" THEN "none" ELSE "done"]
  /\ cleanup' = [b \in Deployed |-> IF cleanup[b] = "waiting" THEN "given up" ELSE cleanup[b]]
  /\ waiters' = {} /\ queue' = <<>> /\ active' = NONE /\ batchAnswer' = [b \in Batches |-> NONE]
  /\ prompt' = [th \in Threads |-> NONE] /\ dialog' = NONE
  /\ UNCHANGED <<cancelled, files, consents>>

RunTask(t) ==
  \/ Scan(t) \/ Measure(t) \/ Entry(t) \/ ResolveDestination(t) \/ AskConflict(t)
  \/ JoinConflict(t) \/ Answered(t) \/ Rename(t) \/ CreatePart(t) \/ Copy(t) \/ Commit(t)
  \/ RemoveOld(t) \/ Place(t) \/ Judge(t) \/ Report(t) \/ Finish(t)
RunCancel(t) == CancelResolve(t) \/ CancelMark(t)

Next ==
  \/ \E t \in Tasks : Enqueue(t) \/ Acquire(t) \/ RunTask(t) \/ Cancel(t) \/ RunCancel(t)
  \/ \E th \in Threads : EmitConflict(th)
  \/ \E resolution \in Answers, all \in BOOLEAN : ResolveConflict(resolution, all)
  \/ \E b \in Deployed : WhenSettled(b)
  \/ ClearCompleted \/ Restart

Spec == Init /\ [][Next]_vars

\* Threads go on, a free permit is taken, and the user answers what is shown.
Fairness ==
  /\ \A t \in Tasks : WF_vars(RunTask(t)) /\ SF_vars(Acquire(t)) /\ WF_vars(RunCancel(t))
  /\ \A th \in Threads : WF_vars(EmitConflict(th))
  /\ WF_vars(\E resolution \in Answers, all \in BOOLEAN : ResolveConflict(resolution, all))
LiveSpec == Spec /\ Fairness
-----------------------------------------------------------------------------
Statuses == {"new", "queued", "scanning", "running", "conflict", "cleared"} \cup Settled
Steps == {"none", "never", "waiting", "scan", "measure", "entry", "exists", "ask", "join", "answer",
          "rename", "create", "copy", "commit", "remove", "place", "ok", "fail", "cancelled",
          "completed", "failed", "finish", "gone"}
EntriesOf(t) == 1 .. Len(FilesOf[t])
Jobs == [step : Steps, entry : Nat \ {0}, path : Paths \cup {NONE}, over : BOOLEAN,
         answer : Answers \cup {"skip", NONE}, placed : SUBSET Nat, skipped : SUBSET Nat]

TypeOK ==
  /\ stored \in [Tasks -> Statuses] /\ cancelled \in [Tasks -> BOOLEAN]
  /\ canceller \in [Tasks -> {"none", "resolve", "mark", "done"}] /\ job \in [Tasks -> Jobs]
  /\ \A t \in Tasks :
       /\ job[t].entry <= Len(FilesOf[t]) + 1
       /\ job[t].placed \subseteq EntriesOf(t) /\ job[t].skipped \subseteq EntriesOf(t)
  /\ waiters \subseteq Tasks /\ queue \in Seq(Tasks) /\ active \in Tasks \cup {NONE}
  /\ batchAnswer \in [Batches -> Answers \cup {NONE}]
  /\ prompt \in [Threads -> Tasks \cup {NONE}] /\ dialog \in Tasks \cup {NONE}
  /\ disk \in [Paths -> Tasks \cup {"none", "old"}]
  /\ cleanup \in [Deployed -> {"none", "waiting", "ran", "given up"}]

(* No conflict waits unseen: while tasks wait, one of them is being asked    *)
(* about, and never one whose batch the user has already answered for.      *)
OneQuestion ==
  /\ waiters # {} => active \in waiters
  /\ active # NONE => active \in waiters /\ batchAnswer[BatchOf[active]] = NONE

(* A file at the destination is only replaced by a task the user told to      *)
(* overwrite that file, or whose batch the user told to overwrite.  What the   *)
(* check in commit_local leaves open is all there is: a download that found    *)
(* the name free may replace what another task has put there since.            *)
ReplacedByConsent ==
  \A r \in replaced :
    \/ <<r.by, r.path>> \in consents \/ <<BatchOf[r.by], "all">> \in consents
    \/ r.by \notin Uploads /\ ~r.over /\ r.held \in Tasks

(* Whatever fails, is cancelled or killed: of a file that existed either some *)
(* content is in place or the new content is still there as a .part file.   *)
NothingLost ==
  \A n \in Existing :
    \/ disk[<<n, 0>>] # "none"
    \/ \E t \in Tasks : \E i \in EntriesOf(t) : <<t, i>> \in parts /\ FilesOf[t][i] = n

(* The records can be relied on.  Once a task is over and nobody is           *)
(* cancelling it, its record says so; completed means that each file was put  *)
(* in place or left out by the user, and a deployment removes remote files    *)
(* only after all of its uploads came that far.                               *)
RecordsTell ==
  LET Done(t) == job[t].placed \cup job[t].skipped = EntriesOf(t) IN
  /\ \A t \in Tasks :
       /\ At(t, "gone") /\ canceller[t] \in {"none", "done"} => stored[t] \in Settled \cup {"cleared"}
       /\ stored[t] = "completed" => Done(t)
  /\ \A b \in Deployed : cleanup[b] = "ran" => \A t \in TasksOf(b) : Done(t)

(* A user who answers what is shown and cancels nothing sees the queue drain *)
(* once tasks are in it, whatever fails and however many files conflict.    *)
QueueDrains ==
  (\E t \in Tasks : Registered(t))
    ~> ((\A t \in Tasks : ~Registered(t)) \/ \E t \in Tasks : cancelled[t])

(* What the test of the queue of conflicts asks for: no stale question keeps *)
(* the others from being asked, so every conflict is answered in the end.   *)
ConflictsAnswered == \A t \in Tasks : At(t, "answer") ~> ~At(t, "answer")
=============================================================================
