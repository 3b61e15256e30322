---------------------------- MODULE BrowserRuntime ----------------------------
(***************************************************************************)
(* The Browser Runtimes of one Session (browser_runtime.rs), composed with *)
(* the exit of the application.  A start holds the lock of the Session     *)
(* across all its awaits; a close, the page connections, the removal of    *)
(* data and the exit do not.  A Runtime is a Chrome process with a         *)
(* profile: the retained one of its resource, or its own.  All Chromes of  *)
(* the Session are started on the same port, and whoever listens there     *)
(* answers.                                                                *)
(***************************************************************************)
EXTENDS ExitLifecycle

CONSTANTS
  Resources,   \* browser resources of the Session
  Retained,    \* those that keep their profile
  NONE

ASSUME BrowserAssumption ==
  Retained \subseteq Resources /\ NONE \notin Runtimes \cup Resources

VARIABLES
  runtimes,  \* registered Chromes: the map
  res,       \* the resource a Chrome was started for
  endpoint,  \* the Chrome that the page connection of a Runtime reaches
  port,      \* the Chrome that listens on the port of the Session
  creator,   \* the create that holds the start lock
  closer,    \* how far the close of a Chrome is
  torn       \* history: profiles rewritten or deleted under a living Chrome

browserVars == <<runtimes, res, endpoint, port, creator, closer, torn>>
allVars == <<vars, browserVars>>

NoCreate == [pc |-> "idle", q |-> NONE, c |-> NONE]

\* new: Chromes of an application that ended without its cleanup live on where the
\* process list does not show them, or on a platform that has no cleanup; only a
\* platform that has one sweeps the disposable profiles.  They are on other ports.
BrowserInit ==
  /\ Init
  /\ runtimes = {}
  /\ res \in {f \in [Browsers -> Resources \cup {NONE}] :
               \A c \in Browsers : f[c] = NONE <=> c \notin live}
  /\ endpoint = [c \in Browsers |-> NONE]
  /\ port = NONE /\ creator = NoCreate
  /\ closer = [c \in Browsers |-> "no"]
  /\ \E swept \in BOOLEAN :
       torn = {<<"swept", "other">> : c \in {d \in live \cap Browsers : swept /\ res[d] \notin Retained}}

\* Chromes that use the profile: one of the resource, or their own.
Using(q) == {c \in live \cap Browsers : res[c] = q}

\* History: what an action does to the profiles of living Chromes.
Tear(cs, by) ==
  torn' = torn \cup {<<by, IF c \in runtimes THEN "registered" ELSE "other">> : c \in cs}

\* A Chrome that ends leaves the port.
Released(gone) == port' = IF port \in gone THEN NONE ELSE port

\* The end of one Chrome, which may have ended before.
Ends(c) ==
  IF c \in live THEN EndRuntime(c) /\ Released({c})
                ELSE UNCHANGED <<vars, port>>
-----------------------------------------------------------------------------
(* create, under the start lock.                                            *)

\* Fault: another browser of the Session does not stop a start.
AnotherIgnored(q) == {}

\* Registered Chromes of other resources that run.
Another(q) == {c \in runtimes \cap live : res[c] # q}

\* A running browser of the resource is the answer; a dead one is forgotten.
Begin(q) ==
  /\ creator = NoCreate /\ ~exited
  /\ \A c \in runtimes \cap live : res[c] # q
  /\ runtimes' = {c \in runtimes : res[c] # q}
  /\ creator' = IF Another(q) = {} THEN [pc |-> "check", q |-> q, c |-> NONE] ELSE NoCreate
  /\ UNCHANGED <<vars, res, endpoint, port, closer, torn>>

\* Fault: a profile that another Chrome uses is prepared all the same.
OccupiedIgnored(q) == FALSE

\* chrome_profile_owner
Occupied(q) == q \in Retained /\ Using(q) # {}

\* The profile's user is looked for across an await; from there to the spawn the
\* code does not wait.  A retained profile is marked clean, the reservation of the
\* port is dropped, and Chrome gets the port unless another has it.
Spawn(c) ==
  LET q == creator.q IN
  /\ creator.pc = "check" /\ ~Occupied(q) /\ StartRuntime(c)
  /\ Tear(IF q \in Retained THEN Using(q) ELSE {}, "prepare")
  /\ creator' = [creator EXCEPT !.pc = "starting", !.c = c]
  /\ res' = [res EXCEPT ![c] = q]
  /\ port' = IF port = NONE THEN c ELSE port
  /\ UNCHANGED <<runtimes, endpoint, closer>>

\* wait_for_chrome_cdp: the child runs and something answers on the port; its
\* page is connected and the Runtime registered.
Registered ==
  /\ creator.pc = "starting" /\ creator.c \in live /\ port # NONE /\ ~exited
  /\ runtimes' = runtimes \cup {creator.c}
  /\ endpoint' = [endpoint EXCEPT ![creator.c] = port]
  /\ creator' = NoCreate
  /\ UNCHANGED <<vars, res, port, closer, torn>>

\* The profile is in use or Chrome does not start; nothing answers in time or the
\* page cannot be connected: the child is killed.
CreateFails ==
  /\ creator # NoCreate /\ ~exited
  /\ creator' = NoCreate
  /\ IF creator.c = NONE THEN UNCHANGED <<vars, port>> ELSE Ends(creator.c)
  /\ UNCHANGED <<runtimes, res, endpoint, closer, torn>>

\* A hook's twenty seconds end or its forwarder disconnects: the future is
\* dropped where it stands.  The guard deletes a disposable profile; nobody
\* kills the child.
CreateDropped ==
  /\ creator # NoCreate /\ ~exited
  /\ creator' = NoCreate
  /\ Tear(IF creator.q \in Retained THEN {} ELSE {creator.c} \cap live, "dropped")
  /\ UNCHANGED <<vars, runtimes, res, endpoint, port, closer>>
-----------------------------------------------------------------------------
(* What happens to a browser that runs.                                     *)

\* The user closes the window, or Chrome crashes.
Dies(c) ==
  /\ c \in live \cap Browsers /\ EndRuntime(c) /\ Released({c})
  /\ UNCHANGED <<runtimes, res, endpoint, creator, closer, torn>>

\* start_cdp_runtime: the page connection is lost and another is found.
Rebind(c) ==
  /\ c \in runtimes /\ endpoint[c] \notin live /\ port # NONE /\ ~exited
  /\ endpoint' = [endpoint EXCEPT ![c] = port]
  /\ UNCHANGED <<vars, runtimes, res, port, creator, closer, torn>>

\* close, by a command or by start_cdp_runtime when nothing answers any more.
Close1(c) ==
  /\ c \in runtimes /\ ~exited
  /\ runtimes' = runtimes \ {c}
  /\ closer' = [closer EXCEPT ![c] = "ask"]
  /\ UNCHANGED <<vars, res, endpoint, port, creator, torn>>

\* Browser.close goes to the page that the Runtime is connected to.
Asked(c) ==
  /\ closer[c] = "ask" /\ ~exited
  /\ closer' = [closer EXCEPT ![c] = "kill"]
  /\ \/ Ends(endpoint[c])
     \/ UNCHANGED <<vars, port>>
  /\ UNCHANGED <<runtimes, res, endpoint, creator, torn>>

\* After two seconds the child itself is killed.
Killed(c) ==
  /\ closer[c] = "kill" /\ ~exited
  /\ closer' = [closer EXCEPT ![c] = "clean"]
  /\ IF c \in task.browsers THEN CloseBrowser(c) /\ Released({c}) ELSE Ends(c)
  /\ UNCHANGED <<runtimes, res, endpoint, creator, torn>>

\* The profile is marked clean or deleted; a disposable one is nobody else's.
Cleaned(c) ==
  /\ closer[c] = "clean" /\ ~exited
  /\ closer' = [closer EXCEPT ![c] = "no"]
  /\ Tear(IF res[c] \in Retained THEN Using(res[c]) ELSE {}, "predecessor")
  /\ UNCHANGED <<vars, runtimes, res, endpoint, port, creator>>

\* browser_resources_delete, after it has closed what it saw registered.
RemoveData(q) ==
  /\ q \in Retained /\ ~exited /\ \A c \in runtimes : res[c] # q
  /\ Tear(Using(q), "removed")
  /\ UNCHANGED <<vars, runtimes, res, endpoint, port, creator, closer>>
-----------------------------------------------------------------------------
(* The exit.                                                                *)

\* close_all drains the map and closes one after the other.
DrainMap ==
  /\ Drain(runtimes \cap live)
  /\ runtimes' = {}
  /\ UNCHANGED <<res, endpoint, port, creator, closer, torn>>

CloseNext(c) ==
  /\ Cleaning /\ c \in task.browsers /\ \A d \in task.browsers : closer[d] = "no"
  /\ closer' = [closer EXCEPT ![c] = "ask"]
  /\ UNCHANGED <<vars, runtimes, res, endpoint, port, creator, torn>>

\* Fault: the profiles are swept although a browser is registered.
SweptAlways(left) == left

\* The Chromes of `left` whose profiles the sweep deletes.
Swept(left) == IF runtimes = {} THEN left ELSE {}

\* What close_all had not closed is dropped with it; then force_cleanup kills
\* what it finds and, with nothing registered, sweeps the disposable profiles.
CompleteAndSweep ==
  /\ Complete
  /\ Released(Browsers \ live')
  /\ closer' = [c \in Browsers |-> IF c \in task.browsers THEN "no" ELSE closer[c]]
  /\ Tear(Swept({c \in live' \cap Browsers : res[c] \notin Retained}), "swept")
  /\ UNCHANGED <<runtimes, res, endpoint, creator>>

\* The terminals and the dialog go on beside the browsers.
Elsewhere ==
  /\ \/ Request \/ CountWith(runtimes \cap live) \/ Confirm \/ Dismiss \/ TakeSnapshot \/ CloseTerminal \/ Exit
     \/ \E r \in Ssh \cup Local : StartRuntime(r) \/ EndRuntime(r)
  /\ UNCHANGED browserVars
-----------------------------------------------------------------------------
BrowserNext ==
  \/ \E q \in Resources : Begin(q) \/ RemoveData(q)
  \/ Registered \/ CreateFails \/ CreateDropped
  \/ \E c \in Browsers :
       \/ Spawn(c) \/ Dies(c) \/ Rebind(c) \/ Close1(c) \/ Asked(c) \/ Killed(c)
       \/ Cleaned(c) \/ CloseNext(c)
  \/ DrainMap \/ CompleteAndSweep \/ Elsewhere

BrowserSpec == BrowserInit /\ [][BrowserNext]_allVars

\* As in FairSpec: the main thread handles its events and the timer fires.
BrowserFairSpec ==
  /\ BrowserSpec
  /\ WF_allVars(CompleteAndSweep)
  /\ WF_allVars(CountWith(runtimes \cap live) /\ UNCHANGED browserVars) /\ WF_allVars(Exit /\ UNCHANGED browserVars)
-----------------------------------------------------------------------------
BrowserTypeOK ==
  /\ runtimes \subseteq Browsers
  /\ res \in [Browsers -> Resources \cup {NONE}]
  /\ endpoint \in [Browsers -> Browsers \cup {NONE}] /\ port \in Browsers \cup {NONE}
  /\ creator \in [pc : {"idle", "check", "starting"}, q : Resources \cup {NONE},
                  c : Browsers \cup {NONE}]
  /\ closer \in [Browsers -> {"no", "ask", "kill", "clean"}]

(* A Session has one browser (browser_runtime.rs:484): whatever is closed,  *)
(* dies or is dropped meanwhile, no second one is registered or started.    *)
OneBrowser == Cardinality(live \cap (runtimes \cup {creator.c})) <= 1

(* A running Runtime drives its own Chrome or one that belongs to no        *)
(* Runtime any more, never that of another Runtime.                         *)
DrivesItsOwn ==
  \A c \in runtimes \cap live : endpoint[c] = c \/ endpoint[c] \notin runtimes

(* No profile is prepared for a start under the Chrome that uses it         *)
(* (browser_runtime.rs:500), and no profile of a registered Runtime is      *)
(* rewritten or deleted while its Chrome lives but by the end of the close  *)
(* of its predecessor.                                                      *)
ProfilesRespected ==
  \A t \in torn :
    /\ t[1] # "prepare"
    /\ t[2] = "registered" => t[1] = "predecessor"
=============================================================================
