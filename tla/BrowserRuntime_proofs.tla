------------------------- MODULE BrowserRuntime_proofs -------------------------
(***************************************************************************)
(* Theorems about quitting and about the browsers of a Session beside it,   *)
(* for any Runtimes, resources and Chromes.  The exit: the phase has one    *)
(* owner, the event loop ends only after the cleanup, and a cleanup that    *)
(* was not cut off leaves nothing behind that it could have seen.  The      *)
(* browsers: the composition is still an exit as ExitLifecycle describes    *)
(* it, a Session has one browser, which drives its own Chrome, and profiles  *)
(* are left to those who use them.                                          *)
(***************************************************************************)
EXTENDS BrowserRuntime, FiniteSetTheorems, TLAPS
-----------------------------------------------------------------------------
(* The exit by itself.                                                      *)

(* The initial state has its shape.                                        *)
LEMMA TypeInit == Init => TypeOK
<1> SUFFICES ASSUME Init PROVE TypeOK
  OBVIOUS
<1>1. task \in [step : Steps, todo : SUBSET Runtimes, drained : BOOLEAN, browsers : SUBSET Browsers]
  BY DEF Init, NoCleanup, Steps
<1>2. live \subseteq Runtimes
  BY DEF Init
<1> QED
  BY <1>1, <1>2 DEF Init, TypeOK, Phases

(* No step breaks the shape: no counter underflows, whoever answers.       *)
LEMMA TypeStep == TypeOK /\ [Next]_vars => TypeOK'
<1> SUFFICES ASSUME TypeOK, [Next]_vars PROVE TypeOK'
  OBVIOUS
<1> USE DEF TypeOK, Steps, Phases
<1>1. CASE Request
  BY <1>1 DEF Request, Transition
<1>2. CASE Count
  <2>1. /\ requests > 0 /\ requests' = requests - 1 /\ UNCHANGED <<live, ended, exited, late, cut>>
        /\ \/ BeginCleanup /\ dialogs' = dialogs
           \/ dialogs' = dialogs + 1 /\ UNCHANGED <<phase, task>>
    BY <1>2 DEF Count, CountWith
  <2>2. CASE BeginCleanup /\ dialogs' = dialogs
    <3>1. phase' = "cleaning" /\ task' = [step |-> "ssh", todo |-> {}, drained |-> FALSE, browsers |-> {}]
      BY <2>2 DEF BeginCleanup, Transition
    <3> QED
      BY <2>1, <2>2, <3>1
  <2>3. CASE dialogs' = dialogs + 1 /\ UNCHANGED <<phase, task>>
    BY <2>1, <2>3
  <2> QED
    BY <2>1, <2>2, <2>3
<1>3. CASE Confirm
  BY <1>3 DEF Confirm, BeginCleanup, Transition
<1>4. CASE Dismiss
  BY <1>4 DEF Dismiss, Transition
<1>5. CASE CloseAll
  BY <1>5 DEF CloseAll, Drain, Cleaning
<1>13. ASSUME NEW r \in Browsers, CloseBrowser(r) PROVE TypeOK'
  BY <1>13 DEF CloseBrowser, Close, Cleaning, Runtimes
<1>6. CASE TakeSnapshot
  BY <1>6 DEF TakeSnapshot, Snapshot, Cleaning
<1>7. CASE CloseTerminal
  BY <1>7 DEF CloseTerminal, Close, Cleaning
<1>8. CASE Complete
  BY <1>8 DEF Complete, Transition, Finished
<1>9. CASE Exit
  BY <1>9 DEF Exit
<1>10. ASSUME NEW r \in Runtimes, StartRuntime(r) PROVE TypeOK'
  BY <1>10 DEF StartRuntime
<1>11. ASSUME NEW r \in Runtimes, EndRuntime(r) PROVE TypeOK'
  BY <1>11 DEF EndRuntime, Close
<1>12. CASE UNCHANGED vars
  BY <1>12 DEF vars
<1> QED
  BY <1>1, <1>2, <1>3, <1>4, <1>5, <1>6, <1>7, <1>8, <1>9, <1>10, <1>11, <1>12, <1>13
     DEF Next, Cleanup

(* The state keeps its shape in every behaviour.                           *)
THEOREM TypeCorrect == Spec => []TypeOK
BY TypeInit, TypeStep, PTL DEF Spec

(* One owner of the phase at a time: one dialog, one cleanup.              *)
THEOREM SingleOwner == Spec => []OneOwner
<1>1. Init => OneOwner
  BY DEF Init, OneOwner
<1>2. TypeOK /\ OneOwner /\ [Next]_vars => OneOwner'
  <2> SUFFICES ASSUME TypeOK, OneOwner, [Next]_vars PROVE OneOwner'
    OBVIOUS
  <2> USE DEF TypeOK, OneOwner, Phases
  <2>1. CASE Request
    BY <2>1 DEF Request, Transition
  <2>2. CASE Count
    BY <2>2 DEF Count, CountWith, BeginCleanup, Transition
  <2>3. CASE Confirm
    BY <2>3 DEF Confirm, BeginCleanup, Transition
  <2>4. CASE Dismiss
    BY <2>4 DEF Dismiss, Transition
  <2>5. CASE Cleanup
    BY <2>5 DEF Cleanup, CloseAll, Drain, CloseBrowser, TakeSnapshot, CloseTerminal
  <2>6. CASE Complete
    BY <2>6 DEF Complete, Transition
  <2>7. CASE Exit
    BY <2>7 DEF Exit
  <2>8. ASSUME NEW r \in Runtimes, StartRuntime(r) \/ EndRuntime(r) PROVE OneOwner'
    BY <2>8 DEF StartRuntime, EndRuntime
  <2>9. CASE UNCHANGED vars
    BY <2>9 DEF vars
  <2> QED
    BY <2>1, <2>2, <2>3, <2>4, <2>5, <2>6, <2>7, <2>8, <2>9 DEF Next
<1> QED
  BY <1>1, <1>2, TypeCorrect, PTL DEF Spec

(* The inductive invariant behind the two results on cleanup below.        *)
THEOREM ProgressInvariant == Spec => []CleanupProgress
<1>1. Init => CleanupProgress
  BY DEF Init, CleanupProgress, NoCleanup
<1>2. TypeOK /\ CleanupProgress /\ [Next]_vars => CleanupProgress'
  <2> SUFFICES ASSUME TypeOK, CleanupProgress, [Next]_vars PROVE CleanupProgress'
    OBVIOUS
  <2> USE RuntimesDisjoint DEF TypeOK, CleanupProgress, Steps, Phases, Runtimes, Finished
  <2>1. CASE Request
    BY <2>1 DEF Request, Transition
  <2>2. CASE Count
    BY <2>2 DEF Count, CountWith, BeginCleanup, Transition
  <2>3. CASE Confirm
    BY <2>3 DEF Confirm, BeginCleanup, Transition
  <2>4. CASE Dismiss
    BY <2>4 DEF Dismiss, Transition
  <2>5. CASE CloseAll
    BY <2>5 DEF CloseAll, Drain, Cleaning
  <2>13. ASSUME NEW r \in Browsers, CloseBrowser(r) PROVE CleanupProgress'
    BY <2>13 DEF CloseBrowser, Close, Cleaning
  <2>6. CASE TakeSnapshot
    <3>1. CASE task.step = "ssh"
      <4>1. /\ phase = "cleaning" /\ phase' = phase /\ live' = live /\ late' = late
            /\ exited' = exited
            /\ task'.step = "sshClose" /\ task'.todo = live \cap Ssh
            /\ task'.browsers = task.browsers
        BY <2>6, <3>1 DEF TakeSnapshot, Snapshot, Cleaning
      <4> QED
        BY <4>1
    <3>2. CASE task.step = "local"
      <4>1. /\ phase = "cleaning" /\ phase' = phase /\ live' = live /\ late' = late
            /\ exited' = exited
            /\ task'.step = "localClose" /\ task'.todo = live \cap Local
            /\ task'.browsers = task.browsers
        BY <2>6, <3>2 DEF TakeSnapshot, Snapshot, Cleaning
      <4> QED
        BY <4>1, <3>2
    <3> QED
      BY <2>6, <3>1, <3>2 DEF TakeSnapshot, Snapshot
  <2>7. CASE CloseTerminal
    BY <2>7 DEF CloseTerminal, Close, Cleaning
  <2>8. CASE Complete
    BY <2>8 DEF Complete, Transition
  <2>9. CASE Exit
    BY <2>9 DEF Exit
  <2>10. ASSUME NEW r \in Runtimes, StartRuntime(r) PROVE CleanupProgress'
    BY <2>10 DEF StartRuntime
  <2>11. ASSUME NEW r \in Runtimes, EndRuntime(r) PROVE CleanupProgress'
    BY <2>11 DEF EndRuntime, Close
  <2>12. CASE UNCHANGED vars
    BY <2>12 DEF vars
  <2> QED
    BY <2>1, <2>2, <2>3, <2>4, <2>5, <2>6, <2>7, <2>8, <2>9, <2>10, <2>11, <2>12, <2>13
       DEF Next, Cleanup
<1> QED
  BY <1>1, <1>2, TypeCorrect, PTL DEF Spec

(* The event loop ends only when the cleanup task has finished or was cut. *)
THEOREM CleanupPrecedesExit == Spec => []ExitAfterCleanup
<1>1. CleanupProgress => ExitAfterCleanup
  BY DEF CleanupProgress, ExitAfterCleanup
<1> QED
  BY <1>1, ProgressInvariant, PTL

(* What an uncut cleanup leaves running had started after it began.        *)
THEOREM CleanupIsComplete == Spec => []NothingLeftBehind
<1>1. CleanupProgress => NothingLeftBehind
  BY DEF CleanupProgress, NothingLeftBehind
<1> QED
  BY <1>1, ProgressInvariant, PTL

-----------------------------------------------------------------------------
(* The exit with the browsers of a Session.                                 *)

(* The browsers start with their shape.                                    *)
LEMMA BrowserTypeInit == BrowserInit => TypeOK /\ BrowserTypeOK
<1> SUFFICES ASSUME BrowserInit PROVE TypeOK /\ BrowserTypeOK
  OBVIOUS
<1>1. TypeOK
  BY TypeInit DEF BrowserInit
<1>2. creator \in [pc : {"idle", "check", "starting"}, q : Resources \cup {NONE},
                   c : Browsers \cup {NONE}]
  BY DEF BrowserInit, NoCreate
<1> QED
  BY <1>1, <1>2 DEF BrowserInit, BrowserTypeOK

(* Seen from the exit, a step of the browsers is a Runtime that starts or   *)
(* ends, a step of the cleanup, or none.                                    *)
LEMMA ExitStep == TypeOK /\ BrowserTypeOK /\ [BrowserNext]_allVars => [Next]_vars
<1> SUFFICES ASSUME TypeOK, BrowserTypeOK, [BrowserNext]_allVars PROVE [Next]_vars
  OBVIOUS
<1>1. live \subseteq Runtimes /\ Browsers \subseteq Runtimes /\ runtimes \subseteq Browsers
  BY DEF TypeOK, BrowserTypeOK, Runtimes
<1>2. ASSUME NEW c, Ends(c) PROVE [Next]_vars
  BY <1>1, <1>2 DEF Ends, EndRuntime, Next
<1>3. ASSUME NEW q \in Resources, Begin(q) \/ RemoveData(q) PROVE [Next]_vars
  BY <1>3 DEF Begin, RemoveData
<1>4. CASE Registered \/ CreateDropped
  BY <1>4 DEF Registered, CreateDropped
<1>5. CASE CreateFails
  BY <1>2, <1>5 DEF CreateFails
<1>6. ASSUME NEW c \in Browsers, Spawn(c) PROVE [Next]_vars
  BY <1>1, <1>6 DEF Spawn, Next
<1>7. ASSUME NEW c \in Browsers, Dies(c) PROVE [Next]_vars
  BY <1>1, <1>7 DEF Dies, Next
<1>8. ASSUME NEW c \in Browsers, Rebind(c) \/ Close1(c) \/ Cleaned(c) \/ CloseNext(c)
      PROVE  [Next]_vars
  BY <1>8 DEF Rebind, Close1, Cleaned, CloseNext
<1>9. ASSUME NEW c \in Browsers, Asked(c) PROVE [Next]_vars
  BY <1>2, <1>9 DEF Asked
<1>10. ASSUME NEW c \in Browsers, Killed(c) PROVE [Next]_vars
  BY <1>2, <1>10 DEF Killed, Next, Cleanup
<1>11. CASE DrainMap
  BY <1>1, <1>11 DEF DrainMap, Next, Cleanup, CloseAll
<1>12. CASE CompleteAndSweep
  BY <1>12 DEF CompleteAndSweep, Next
<1>13. CASE Elsewhere
  <2>1. CountWith(runtimes \cap live) => Count
    BY <1>1 DEF Count
  <2> QED
    BY <1>13, <2>1 DEF Elsewhere, Next, Cleanup, Runtimes
<1>14. CASE UNCHANGED allVars
  BY <1>14 DEF allVars
<1> QED
  BY <1>3, <1>4, <1>5, <1>6, <1>7, <1>8, <1>9, <1>10, <1>11, <1>12, <1>13, <1>14 DEF BrowserNext

(* No step of the browsers breaks their shape.                             *)
LEMMA BrowserTypeStep == TypeOK /\ BrowserTypeOK /\ [BrowserNext]_allVars => BrowserTypeOK'
<1> SUFFICES ASSUME TypeOK, BrowserTypeOK, [BrowserNext]_allVars PROVE BrowserTypeOK'
  OBVIOUS
<1> USE DEF BrowserTypeOK
<1>1. NoCreate \in [pc : {"idle", "check", "starting"}, q : Resources \cup {NONE},
                    c : Browsers \cup {NONE}]
  BY DEF NoCreate
<1>2. ASSUME NEW c, Ends(c) PROVE port' \in Browsers \cup {NONE}
  BY <1>2 DEF Ends, Released
<1>3. ASSUME NEW q \in Resources, Begin(q) \/ RemoveData(q) PROVE BrowserTypeOK'
  BY <1>1, <1>3 DEF Begin, RemoveData
<1>4. CASE Registered \/ CreateDropped
  <2>1. NONE \notin live
    BY BrowserAssumption DEF TypeOK
  <2>2. CASE Registered
    <3>1. creator.c \in Browsers /\ port \in Browsers
      BY <2>1, <2>2 DEF Registered
    <3> QED
      BY <1>1, <2>2, <3>1 DEF Registered
  <2>3. CASE CreateDropped
    BY <1>1, <2>3 DEF CreateDropped
  <2> QED
    BY <1>4, <2>2, <2>3
<1>5. CASE CreateFails
  BY <1>1, <1>2, <1>5 DEF CreateFails
<1>6. ASSUME NEW c \in Browsers, Spawn(c) PROVE BrowserTypeOK'
  BY <1>6 DEF Spawn
<1>7. ASSUME NEW c \in Browsers, Dies(c) PROVE BrowserTypeOK'
  BY <1>7 DEF Dies, Released
<1>8. ASSUME NEW c \in Browsers, Rebind(c) \/ Close1(c) \/ Cleaned(c) \/ CloseNext(c)
      PROVE  BrowserTypeOK'
  BY <1>8 DEF Rebind, Close1, Cleaned, CloseNext
<1>9. ASSUME NEW c \in Browsers, Asked(c) PROVE BrowserTypeOK'
  BY <1>2, <1>9 DEF Asked
<1>10. ASSUME NEW c \in Browsers, Killed(c) PROVE BrowserTypeOK'
  BY <1>2, <1>10 DEF Killed, Released
<1>11. CASE DrainMap
  BY <1>11 DEF DrainMap
<1>12. CASE CompleteAndSweep
  BY <1>12 DEF CompleteAndSweep, Released
<1>13. CASE Elsewhere \/ UNCHANGED allVars
  BY <1>13 DEF Elsewhere, browserVars, allVars
<1> QED
  BY <1>3, <1>4, <1>5, <1>6, <1>7, <1>8, <1>9, <1>10, <1>11, <1>12, <1>13 DEF BrowserNext

(* With browsers, ports and profiles the exit is still the exit: every      *)
(* behaviour of the composition is one of ExitLifecycle, and its theorems   *)
(* hold of it.                                                              *)
THEOREM StillAnExit == BrowserSpec => Spec /\ []BrowserTypeOK
<1>1. BrowserInit => Init
  BY DEF BrowserInit
<1> QED
  BY <1>1, BrowserTypeInit, BrowserTypeStep, ExitStep, TypeStep, PTL DEF BrowserSpec, Spec

(* A cleanup that was not cut off leaves no terminal and no browser behind  *)
(* that it could have seen, whatever the browsers do meanwhile.             *)
THEOREM ComposedCleanup == BrowserSpec => []NothingLeftBehind
BY StillAnExit, CleanupIsComplete, PTL
-----------------------------------------------------------------------------
(* What the exit closes by its own lists are terminals.                    *)
Terminals == task.todo \subseteq Ssh \cup Local

\* Whoever listens on the port is alive, and the map holds nothing but Chromes
\* that were started.
Alive == /\ port # NONE => port \in live
         /\ runtimes \subseteq live \cup ended

\* One registered Chrome runs, and none while a start holds the lock.
Alone == /\ \A c, d \in runtimes \cap live : c = d
         /\ creator.pc # "idle" => runtimes \cap live = {}

\* A start that has not ended has a Chrome from its spawn on, which is not
\* registered.
Starting == /\ creator.pc = "idle" => creator = NoCreate
            /\ creator.pc = "check" => creator.c = NONE
            /\ creator.pc = "starting" => creator.c \in (live \cup ended) \ runtimes

BrowserInv == /\ TypeOK /\ BrowserTypeOK /\ Terminals /\ Alive /\ Alone /\ Starting
              /\ DrivesItsOwn /\ ProfilesRespected

(* Chromes only end, but for one that a start has spawned.                 *)
Fewer == /\ live' \cap Browsers \subseteq live
         /\ (live \cup ended) \cap Browsers \subseteq live' \cup ended'

(* A step after which fewer Chromes run and which registers none keeps what *)
(* is said of those that run.                                              *)
LEMMA FewerStep ==
  ASSUME BrowserInv, BrowserTypeOK', Fewer, runtimes' \subseteq runtimes,
         creator' \in {creator, NoCreate}, port' # NONE => port' \in live',
         \A c \in runtimes' \cap live' : endpoint'[c] \in {c, endpoint[c]}
  PROVE  Alive' /\ Alone' /\ Starting' /\ DrivesItsOwn'
<1> USE DEF BrowserInv, Fewer, BrowserTypeOK
<1>1. Alive'
  BY DEF Alive
<1>2. NoCreate.pc = "idle" /\ NoCreate.c = NONE
  BY DEF NoCreate
<1>3. Alone'
  BY <1>2 DEF Alone
<1>4. Starting'
  <2>1. NONE \notin live \cup ended
    BY BrowserAssumption DEF TypeOK
  <2> QED
    BY <1>2, <2>1 DEF Starting
<1>5. DrivesItsOwn'
  BY DEF DrivesItsOwn
<1> QED
  BY <1>1, <1>3, <1>4, <1>5

(* A Chrome that ends leaves the port.                                     *)
LEMMA EndsFewer ==
  ASSUME BrowserInv, NEW c, Ends(c)
  PROVE  Fewer /\ task' = task /\ (port' # NONE => port' \in live')
BY DEF BrowserInv, Alive, Ends, EndRuntime, Close, Released, Fewer, vars

(* What is done to profiles when nobody uses them, or to those of Chromes   *)
(* that are not registered, leaves the registered ones alone.              *)
LEMMA TearSafe ==
  ASSUME ProfilesRespected, NEW cs, NEW by, Tear(cs, by),
         \/ cs = {} \/ by = "predecessor"
         \/ by \in {"dropped", "removed", "swept"} /\ cs \cap runtimes = {}
  PROVE  ProfilesRespected'
<1> SUFFICES ASSUME NEW t \in torn', t \notin torn
             PROVE  t[1] # "prepare" /\ (t[2] = "registered" => t[1] = "predecessor")
  BY DEF ProfilesRespected
<1>1. PICK c \in cs : t = <<by, IF c \in runtimes THEN "registered" ELSE "other">>
  BY DEF Tear
<1>2. t[1] = by /\ (t[2] = "registered" => c \in runtimes)
  BY <1>1
<1> QED
  BY <1>2
(* The exit's own lists are of terminals in every step.                    *)
LEMMA TerminalsStep == TypeOK /\ Terminals /\ [Next]_vars => Terminals'
<1> SUFFICES ASSUME TypeOK, Terminals, [Next]_vars PROVE Terminals'
  OBVIOUS
<1> USE DEF Terminals, TypeOK
<1>1. CASE Count \/ Confirm
  BY <1>1 DEF Count, CountWith, Confirm, BeginCleanup
<1>2. CASE Cleanup
  <2>1. CASE CloseAll \/ \E r \in Browsers : CloseBrowser(r)
    BY <2>1 DEF CloseAll, Drain, CloseBrowser
  <2>2. CASE TakeSnapshot
    <3>1. task'.todo \in {live \cap Ssh, live \cap Local}
      BY <2>2 DEF TakeSnapshot, Snapshot
    <3> QED
      BY <3>1
  <2>3. CASE CloseTerminal
    BY <2>3 DEF CloseTerminal
  <2> QED
    BY <1>2, <2>1, <2>2, <2>3 DEF Cleanup
<1>3. CASE Request \/ Dismiss \/ Complete \/ Exit
  BY <1>3 DEF Request, Dismiss, Complete, Exit
<1>4. ASSUME NEW r \in Runtimes, StartRuntime(r) \/ EndRuntime(r) PROVE Terminals'
  BY <1>4 DEF StartRuntime, EndRuntime
<1> QED
  BY <1>1, <1>2, <1>3, <1>4 DEF Next, vars

\* What is to be shown of a step, beside the types and the lists of the exit.
Kept == Alive' /\ Alone' /\ Starting' /\ DrivesItsOwn' /\ ProfilesRespected'

(* A start: the lock is taken when no other registered Chrome runs ...      *)
LEMMA BeginStep ==
  ASSUME BrowserInv, BrowserTypeOK', NEW q \in Resources, Begin(q)
  PROVE  Kept
<1> USE DEF BrowserInv, BrowserTypeOK, Begin, vars
<1>1. runtimes' \subseteq runtimes /\ live' = live /\ ended' = ended /\ endpoint' = endpoint
      /\ port' = port /\ torn' = torn
  OBVIOUS
<1>2. creator'.pc # "idle" => runtimes' \cap live' = {}
  BY DEF NoCreate, Another
<1>3. Alive' /\ Alone'
  BY <1>1, <1>2 DEF Alive, Alone
<1>4. Starting'
  BY DEF Starting, NoCreate
<1>5. DrivesItsOwn' /\ ProfilesRespected'
  BY <1>1 DEF DrivesItsOwn, ProfilesRespected
<1> QED
  BY <1>3, <1>4, <1>5 DEF Kept

(* ... the Chrome it spawns is a new one ...                                *)
LEMMA SpawnStep ==
  ASSUME BrowserInv, BrowserTypeOK', NEW c \in Browsers, Spawn(c)
  PROVE  Kept
<1> USE DEF BrowserInv, BrowserTypeOK
<1>1. /\ creator.pc = "check" /\ c \notin live \cup ended
      /\ live' = live \cup {c} /\ ended' = ended
      /\ runtimes' = runtimes /\ endpoint' = endpoint
      /\ port' = IF port = NONE THEN c ELSE port
  BY DEF Spawn, StartRuntime
<1>2. creator'.pc = "starting" /\ creator'.c = c
  BY DEF Spawn
<1>3. c \notin runtimes /\ runtimes \cap live' = runtimes \cap live
  BY <1>1 DEF Alive
<1>4. Alive' /\ Alone'
  BY <1>1, <1>3 DEF Alive, Alone
<1>5. Starting'
  BY <1>1, <1>2, <1>3 DEF Starting
<1>6. DrivesItsOwn'
  BY <1>1, <1>3 DEF DrivesItsOwn
<1>7. ProfilesRespected'
  <2>1. (IF creator.q \in Retained THEN Using(creator.q) ELSE {}) = {}
    BY DEF Spawn, Occupied
  <2> QED
    BY <2>1, TearSafe DEF Spawn
<1> QED
  BY <1>4, <1>5, <1>6, <1>7 DEF Kept

(* ... and is the only one that runs when it is registered.                 *)
LEMMA RegisteredStep ==
  ASSUME BrowserInv, BrowserTypeOK', Registered
  PROVE  Kept
<1> USE DEF BrowserInv, BrowserTypeOK
<1>1. /\ creator.pc = "starting" /\ creator.c \in live /\ port # NONE
      /\ live' = live /\ ended' = ended /\ port' = port /\ torn' = torn
      /\ runtimes' = runtimes \cup {creator.c} /\ creator' = NoCreate
      /\ endpoint' = [endpoint EXCEPT ![creator.c] = port]
  BY DEF Registered, vars
<1>2. runtimes \cap live = {} /\ port \in live /\ creator.c \in Browsers
  <2>1. creator.c # NONE
    BY <1>1, BrowserAssumption DEF TypeOK
  <2> QED
    BY <1>1, <2>1 DEF Alone, Alive
<1>3. NoCreate.pc = "idle" /\ NoCreate.c = NONE
  BY DEF NoCreate
<1>4. Alive' /\ Alone' /\ Starting'
  BY <1>1, <1>2, <1>3 DEF Alive, Alone, Starting
<1>5. DrivesItsOwn'
  BY <1>1, <1>2 DEF DrivesItsOwn
<1>6. ProfilesRespected'
  BY <1>1 DEF ProfilesRespected
<1> QED
  BY <1>4, <1>5, <1>6 DEF Kept

(* A connection that was lost finds the Chrome on the port.                *)
LEMMA RebindStep ==
  ASSUME BrowserInv, BrowserTypeOK', NEW c \in Browsers, Rebind(c)
  PROVE  Kept
<1> USE DEF BrowserInv, BrowserTypeOK
<1>1. /\ c \in runtimes /\ port # NONE
      /\ live' = live /\ ended' = ended /\ port' = port /\ torn' = torn
      /\ runtimes' = runtimes /\ creator' = creator
      /\ endpoint' = [endpoint EXCEPT ![c] = port]
  BY DEF Rebind, vars
<1>2. port \in live
  BY <1>1 DEF Alive
<1>3. Alive' /\ Alone' /\ Starting'
  BY <1>1 DEF Alive, Alone, Starting
<1>4. DrivesItsOwn'
  BY <1>1, <1>2 DEF DrivesItsOwn, Alone
<1>5. ProfilesRespected'
  BY <1>1 DEF ProfilesRespected
<1> QED
  BY <1>3, <1>4, <1>5 DEF Kept

(* Everything else only ends Chromes and forgets Runtimes.                 *)
LEMMA OtherStep ==
  ASSUME BrowserInv, BrowserTypeOK', [BrowserNext]_allVars,
         \A q \in Resources : ~Begin(q), ~Registered,
         \A c \in Browsers : ~Spawn(c) /\ ~Rebind(c)
  PROVE  Kept
<1> USE DEF BrowserInv
<1> DEFINE Less == /\ Fewer /\ runtimes' \subseteq runtimes /\ creator' \in {creator, NoCreate}
                   /\ port' # NONE => port' \in live'
                   /\ endpoint' = endpoint
<1>1. Less /\ ProfilesRespected' => Kept
  BY FewerStep DEF Kept
<1>2. UNCHANGED vars => Fewer
  BY DEF Fewer, vars
<1>3. torn' = torn => ProfilesRespected'
  BY DEF ProfilesRespected
<1>4. port # NONE => port \in live
  BY DEF Alive
<1> HIDE DEF Kept
<1>5. ASSUME NEW q \in Resources, RemoveData(q) PROVE Kept
  <2>1. Less
    BY <1>2, <1>4, <1>5 DEF RemoveData, vars
  <2>2. Using(q) \cap runtimes = {}
    BY <1>5 DEF RemoveData, Using
  <2> QED
    BY <1>1, <1>5, <2>1, <2>2, TearSafe DEF RemoveData
<1>6. CASE CreateFails
  <2>1. UNCHANGED <<vars, port>> \/ Ends(creator.c)
    BY <1>6 DEF CreateFails
  <2>2. Fewer /\ (port' # NONE => port' \in live')
    BY <1>2, <1>4, <2>1, EndsFewer DEF vars
  <2> QED
    BY <1>1, <1>3, <1>6, <2>2 DEF CreateFails
<1>7. CASE CreateDropped
  <2>1. Less
    BY <1>2, <1>4, <1>7 DEF CreateDropped, vars
  <2>2. (IF creator.q \in Retained THEN {} ELSE {creator.c} \cap live) \cap runtimes = {}
    <3>1. NONE \notin live
      BY BrowserAssumption DEF TypeOK
    <3>2. creator.pc # "idle"
      BY <1>7 DEF CreateDropped, Starting
    <3> QED
      BY <3>1, <3>2 DEF Starting, BrowserTypeOK
  <2> QED
    BY <1>1, <1>7, <2>1, <2>2, TearSafe DEF CreateDropped
<1>8. ASSUME NEW c \in Browsers, Dies(c) PROVE Kept
  <2>1. Ends(c)
    BY <1>8 DEF Dies, Ends
  <2>2. Less
    BY <1>8, <2>1, EndsFewer DEF Dies
  <2> QED
    BY <1>1, <1>3, <1>8, <2>2 DEF Dies
<1>9. ASSUME NEW c \in Browsers, Close1(c) \/ CloseNext(c) PROVE Kept
  <2>1. Less
    BY <1>2, <1>4, <1>9 DEF Close1, CloseNext, vars
  <2> QED
    BY <1>1, <1>3, <1>9, <2>1 DEF Close1, CloseNext
<1>10. ASSUME NEW c \in Browsers, Asked(c) PROVE Kept
  <2>1. Fewer /\ (port' # NONE => port' \in live')
    BY <1>2, <1>4, <1>10, EndsFewer DEF Asked, vars
  <2> QED
    BY <1>1, <1>3, <1>10, <2>1 DEF Asked
<1>11. ASSUME NEW c \in Browsers, Killed(c) PROVE Kept
  <2>1. CASE c \in task.browsers
    <3>1. /\ live' = live \ {c} /\ ended' = ended \cup {c}
          /\ port' = IF port \in {c} THEN NONE ELSE port
      BY <1>11, <2>1 DEF Killed, CloseBrowser, Close, Released
    <3>2. Less
      BY <1>4, <1>11, <3>1 DEF Killed, Fewer
    <3> QED
      BY <1>1, <1>3, <1>11, <3>2 DEF Killed
  <2>2. CASE c \notin task.browsers
    <3>1. Less
      BY <1>11, <2>2, EndsFewer DEF Killed
    <3> QED
      BY <1>1, <1>3, <1>11, <3>1 DEF Killed
  <2> QED
    BY <2>1, <2>2
<1>12. ASSUME NEW c \in Browsers, Cleaned(c) PROVE Kept
  <2>1. Less
    BY <1>2, <1>4, <1>12 DEF Cleaned, vars
  <2> QED
    BY <1>1, <1>12, <2>1, TearSafe DEF Cleaned
<1>13. CASE DrainMap
  <2>1. live' = live /\ ended' = ended
    BY <1>13 DEF DrainMap, Drain
  <2>2. Less
    BY <1>4, <1>13, <2>1 DEF DrainMap, Fewer
  <2> QED
    BY <1>1, <1>3, <1>13, <2>2 DEF DrainMap
<1>14. CASE CompleteAndSweep
  <2>1. \/ live' = live \ Browsers /\ ended' = ended \cup (live \cap Browsers)
        \/ live' = live /\ ended' = ended
    BY <1>14 DEF CompleteAndSweep, Complete
  <2>2. port' # NONE => port' \in live'
    BY <1>4, <1>14 DEF CompleteAndSweep, Released, BrowserTypeOK
  <2>3. Less
    BY <1>14, <2>1, <2>2 DEF CompleteAndSweep, Fewer
  <2>4. Swept({c \in live' \cap Browsers : res[c] \notin Retained}) \cap runtimes = {}
    BY DEF Swept
  <2> QED
    BY <1>1, <1>14, <2>3, <2>4, TearSafe DEF CompleteAndSweep
<1>15. CASE Elsewhere
  <2>1. live' \cap Browsers = live \cap Browsers /\ ended \subseteq ended'
    <3>1. CASE Request \/ CountWith(runtimes \cap live) \/ Confirm \/ Dismiss \/ TakeSnapshot \/ Exit
      BY <3>1 DEF Request, CountWith, BeginCleanup, Confirm, Dismiss, TakeSnapshot, Exit
    <3>2. CASE CloseTerminal
      BY <3>2, RuntimesDisjoint DEF CloseTerminal, Close, Terminals
    <3>3. ASSUME NEW r \in Ssh \cup Local, StartRuntime(r) \/ EndRuntime(r)
          PROVE  live' \cap Browsers = live \cap Browsers /\ ended \subseteq ended'
      BY <3>3, RuntimesDisjoint DEF StartRuntime, EndRuntime, Close
    <3> QED
      BY <1>15, <3>1, <3>2, <3>3 DEF Elsewhere
  <2>2. port' # NONE => port' \in live'
    BY <1>4, <1>15, <2>1 DEF Elsewhere, browserVars, BrowserTypeOK
  <2>3. Less
    BY <1>15, <2>1, <2>2 DEF Elsewhere, browserVars, Fewer
  <2> QED
    BY <1>1, <1>3, <1>15, <2>3 DEF Elsewhere, browserVars
<1>16. CASE UNCHANGED allVars
  <2>1. Less
    BY <1>2, <1>4, <1>16 DEF allVars, browserVars, vars
  <2> QED
    BY <1>1, <1>3, <1>16, <2>1 DEF allVars, browserVars
<1> QED
  BY <1>5, <1>6, <1>7, <1>8, <1>9, <1>10, <1>11, <1>12, <1>13, <1>14, <1>15, <1>16 DEF BrowserNext

(* The invariant holds in every state of the composition.                  *)
LEMMA BrowserInvariant == BrowserSpec => []BrowserInv
<1>1. BrowserInit => BrowserInv
  <2> SUFFICES ASSUME BrowserInit PROVE BrowserInv
    OBVIOUS
  <2>1. /\ task.todo = {} /\ creator = NoCreate /\ runtimes = {} /\ port = NONE
        /\ torn \subseteq {<<"swept", "other">>}
    BY DEF BrowserInit, Init, NoCleanup
  <2>3. ProfilesRespected
    BY <2>1 DEF ProfilesRespected
  <2>2. NoCreate.pc = "idle"
    BY DEF NoCreate
  <2> QED
    BY <2>1, <2>2, <2>3, BrowserTypeInit
       DEF BrowserInv, Terminals, Alive, Alone, Starting, DrivesItsOwn
<1>2. BrowserInv /\ [BrowserNext]_allVars => BrowserInv'
  <2> SUFFICES ASSUME BrowserInv, [BrowserNext]_allVars PROVE BrowserInv'
    OBVIOUS
  <2>1. [Next]_vars /\ TypeOK' /\ BrowserTypeOK' /\ Terminals'
    BY ExitStep, TypeStep, BrowserTypeStep, TerminalsStep DEF BrowserInv
  <2>2. Kept
    BY <2>1, BeginStep, SpawnStep, RegisteredStep, RebindStep, OtherStep
  <2> QED
    BY <2>1, <2>2 DEF BrowserInv, Kept
<1> QED
  BY <1>1, <1>2, PTL DEF BrowserSpec

(* A Session has one browser, whatever is closed, dies or is dropped.      *)
THEOREM SessionHasOneBrowser == BrowserSpec => []OneBrowser
<1>1. BrowserInv => OneBrowser
  <2> SUFFICES ASSUME BrowserInv PROVE OneBrowser
    OBVIOUS
  <2> DEFINE S == live \cap (runtimes \cup {creator.c})
  <2>1. \A c, d \in S : c = d
    <3>1. NONE \notin live
      BY BrowserAssumption DEF BrowserInv, TypeOK
    <3>2. CASE creator.pc = "starting"
      BY <3>2 DEF BrowserInv, Alone
    <3>3. CASE creator.pc # "starting"
      <4>1. creator.c = NONE
        BY <3>3 DEF BrowserInv, BrowserTypeOK, Starting, NoCreate
      <4> QED
        BY <3>1, <4>1 DEF BrowserInv, Alone
    <3> QED
      BY <3>2, <3>3
  <2>2. Cardinality(S) <= 1
    <3>1. CASE S = {}
      BY <3>1, FS_EmptySet
    <3>2. CASE S # {}
      <4>1. PICK c : S = {c}
        BY <2>1, <3>2
      <4> HIDE DEF S
      <4> QED
        <5>1. Cardinality({c}) = 1
          BY FS_Singleton
        <5> QED
          BY <4>1, <5>1
    <3> QED
      BY <3>1, <3>2
  <2> QED
    BY <2>2 DEF OneBrowser
<1> QED
  BY <1>1, BrowserInvariant, PTL

(* A running Runtime never drives the Chrome of another one.               *)
THEOREM BrowserDrivesItsOwn == BrowserSpec => []DrivesItsOwn
<1>1. BrowserInv => DrivesItsOwn
  BY DEF BrowserInv
<1> QED
  BY <1>1, BrowserInvariant, PTL

(* Profiles are left alone while the Chrome of a registered Runtime, or the *)
(* one before a start, uses them.                                          *)
THEOREM ProfilesLeftAlone == BrowserSpec => []ProfilesRespected
<1>1. BrowserInv => ProfilesRespected
  BY DEF BrowserInv
<1> QED
  BY <1>1, BrowserInvariant, PTL
===============================================================================
