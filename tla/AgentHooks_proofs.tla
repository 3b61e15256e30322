--------------------------- MODULE AgentHooks_proofs ---------------------------
(***************************************************************************)
(* Theorems about the managed agents, for any Runtimes, agents, processes,  *)
(* sessions and requests: a Runtime owns one agent, a revoked one stays      *)
(* revoked, an agent without keys was reported as ended, and titles follow   *)
(* their sessions.  The first three hold together or not at all: whoever     *)
(* has read an agent must find it bound (Held), whoever removes its keys     *)
(* must have told of its end (Telling), and nobody may be left with what was *)
(* read before a revocation (Dead).                                         *)
(***************************************************************************)
EXTENDS AgentHooks, TLAPS

\* What a request holds fits where it is.
Coherent ==
  /\ \A h \in Hooks :
       LET q == hook[h] IN
       /\ q.pc = "idle" => q = Idle
       /\ q.pc # "idle" => q.r \in Runtimes /\ q.e \in EventNames
       /\ q.pc \in {"bind", "unbind", "remove", "record", "removeListed"} => q.a \in Agents
       /\ q.pc = "bind" => q.s \in Sessions
       /\ q.pc = "unbind" => q.e = "sessionEnd"
       /\ q.pc \in {"browser", "admitted", "unbind"} /\ q.a # NONE => q.key \in Keys
       /\ q.pc \in {"remove", "exits", "removeListed"} => q.e = "exit"
  /\ out.pc = "idle" => out = Quiet
  /\ out.pc # "idle" => out.r \in Runtimes

\* An agent belongs to the Runtime it was minted for.
Owned ==
  /\ \A r \in Runtimes : managed[r] # NONE => owner[managed[r]] = r
  /\ \A r \in Runtimes : \A k \in Keys : bind[r][k] # NONE => owner[bind[r][k]] = r
  /\ \A h \in Hooks : hook[h].a # NONE => owner[hook[h].a] = hook[h].r
  /\ \A h \in Hooks : \A a \in hook[h].todo : owner[a] = hook[h].r
  /\ \A r \in Runtimes : \A a \in revoker[r].todo : owner[a] = r
  /\ \A a \in out.agents : owner[a] = out.r

\* A Runtime that was never launched has nothing, one that starts has no requests.
Unborn ==
  \A r \in Runtimes :
    /\ runtime[r] = "none" => Bound(r) = {} /\ r \notin tickets \cup files
    /\ runtime[r] \in {"none", "starting"} => \A h \in Hooks : hook[h].r # r
    /\ revoker[r].pc # "off" => runtime[r] = "exited"

\* Whoever has read an agent finds it bound, as long as nobody removed its keys meanwhile.
Held ==
  /\ \A h \in Hooks :
       LET q == hook[h] IN
       q.pc # "idle" /\ q.r \notin overtaken =>
         /\ q.a # NONE /\ q.pc # "exits" => q.a \in Bound(q.r)
         /\ q.todo \subseteq Bound(q.r)
         /\ q.pc = "removeListed" => q.a \notin q.todo
  /\ out.pc # "idle" /\ out.r \notin overtaken => out.agents \subseteq Bound(out.r)

\* A Runtime that is being revoked or was has neither ticket nor file; its keys are gone for good
\* where no request was at work when they went.  Until then nobody is told of the end.
Dead ==
  \A r \in Runtimes :
    /\ (revoker[r].pc \in {"agents", "record"} \/ runtime[r] = "revoked") => r \notin tickets \cup files
    /\ (revoker[r].pc = "record" \/ runtime[r] = "revoked") /\ r \notin overtaken =>
         (Bound(r) = {} /\ \A h \in Hooks : hook[h].r # r)
    /\ revoker[r].pc # "record" => revoker[r].todo = {}

\* The newest event of an agent is the end that a removal under way goes with.
Telling ==
  \A h \in Hooks :
    LET q == hook[h] IN
    q.pc \in {"unbind", "remove", "removeListed"} /\ q.r \notin overtaken => last[q.a] \in Ended

\* The keys, the requests at work and the events agree.
Agreed == Unborn /\ OneAgentPerRuntime /\ Held /\ Dead /\ Telling /\ GoneIsSeenGone

HooksInv == TypeOK /\ Coherent /\ Owned /\ Agreed
-----------------------------------------------------------------------------

\* A record with a field of its type replaced.
LEMMA Edits ==
  ASSUME NEW q \in Requests
  PROVE  /\ \A x \in Places : [q EXCEPT !.pc = x] \in Requests
         /\ \A x \in EventNames : [q EXCEPT !.e = x] \in Requests
         /\ \A x \in Agents : [q EXCEPT !.a = x] \in Requests
         /\ \A x \in SUBSET Agents : [q EXCEPT !.todo = x] \in Requests
<1>1. \A x \in Places : [q EXCEPT !.pc = x] \in Requests
  BY DEF Requests
<1>2. \A x \in EventNames : [q EXCEPT !.e = x] \in Requests
  BY DEF Requests
<1>3. \A x \in Agents : [q EXCEPT !.a = x] \in Requests
  BY DEF Requests
<1>4. \A x \in SUBSET Agents : [q EXCEPT !.todo = x] \in Requests
  BY DEF Requests
<1> QED
  BY <1>1, <1>2, <1>3, <1>4

\* The same for the revocation of a Runtime.
LEMMA RevokerEdits ==
  ASSUME NEW v \in Revokers
  PROVE  /\ \A x \in {"off", "grace", "agents", "record"} : [v EXCEPT !.pc = x] \in Revokers
         /\ \A x \in SUBSET Agents : [v EXCEPT !.todo = x] \in Revokers
         /\ \A x \in SUBSET Agents : [v EXCEPT !.told = x] \in Revokers
<1>1. \A x \in {"off", "grace", "agents", "record"} : [v EXCEPT !.pc = x] \in Revokers
  BY DEF Revokers
<1>2. \A x \in SUBSET Agents : [v EXCEPT !.todo = x] \in Revokers
  BY DEF Revokers
<1>3. \A x \in SUBSET Agents : [v EXCEPT !.told = x] \in Revokers
  BY DEF Revokers
<1> QED
  BY <1>1, <1>2, <1>3

\* What follows of the types.
LEMMA BoundTyped == TypeOK => \A r \in Runtimes : Bound(r) \subseteq Agents
  BY DEF TypeOK, Bound

\* What an event stores.
LEMMA RecordTyped ==
  ASSUME TypeOK, NEW x, NEW a \in Agents, NEW e \in Events, owner[a] \in Runtimes, Record(x, a, e)
  PROVE  /\ title' \in [Agents -> Sessions \cup {NONE}] /\ last' \in [Agents -> Events]
         /\ structured' \subseteq Agents /\ overtaken' \subseteq Runtimes
  BY DEF TypeOK, Record, Between

\* What the two steps before an event store, and that they leave the rest alone.
LEMMA TitleTyped ==
  ASSUME TypeOK, NEW x, NEW a \in Agents, NEW e, NEW s \in Sessions \cup {NONE}, NoteTitle(x, a, e, s)
  PROVE  /\ OnlyNotes
         /\ title' \in [Agents -> Sessions \cup {NONE}] /\ structured' \subseteq Agents
         /\ noted' \in [Hooks \cup Runtimes -> Notes]
<1>1. Title(a, e, s) \in Sessions \cup {NONE}
  BY DEF TypeOK, Title
<1>2. [stage |-> "title", a |-> a] \in Notes
  BY DEF Notes
<1> QED
  BY <1>1, <1>2 DEF TypeOK, NoteTitle

LEMMA MarkTyped ==
  ASSUME TypeOK, NEW x \in Hooks \cup Runtimes, NoteMark(x)
  PROVE  /\ OnlyNotes
         /\ title' \in [Agents -> Sessions \cup {NONE}] /\ structured' \subseteq Agents
         /\ noted' \in [Hooks \cup Runtimes -> Notes]
<1>1. noted[x] \in [stage : {"title", "mark"}, a : Agents]
  BY DEF TypeOK, NoteMark, Notes, Unnoted
<1>2. [noted[x] EXCEPT !.stage = "mark"] \in Notes
  BY <1>1 DEF Notes
<1> QED
  BY <1>1, <1>2 DEF TypeOK, NoteMark

Noting == (\E h \in Hooks : HookTitle(h)) \/ (\E r \in Runtimes : RevokeTitle(r)) \/ (\E x \in Hooks \cup Runtimes : NoteMark(x))

LEMMA NotingTyped ==
  ASSUME TypeOK, Noting
  PROVE  /\ OnlyNotes
         /\ title' \in [Agents -> Sessions \cup {NONE}] /\ structured' \subseteq Agents
         /\ noted' \in [Hooks \cup Runtimes -> Notes]
<1> DEFINE P == /\ OnlyNotes
                /\ title' \in [Agents -> Sessions \cup {NONE}] /\ structured' \subseteq Agents
                /\ noted' \in [Hooks \cup Runtimes -> Notes]
<1>1. ASSUME NEW h \in Hooks, HookTitle(h) PROVE P
  <2>1. hook[h] \in Requests
    BY DEF TypeOK
  <2>2. \E a \in Agents, s \in Sessions \cup {NONE} : \E e : NoteTitle(h, a, e, s)
    BY <1>1, <2>1 DEF HookTitle, Requests
  <2> QED
    BY <2>2, TitleTyped
<1>2. ASSUME NEW r \in Runtimes, RevokeTitle(r) PROVE P
  <2>1. revoker[r].todo \subseteq Agents
    BY DEF TypeOK, Revokers
  <2> QED
    BY <1>2, <2>1, TitleTyped DEF RevokeTitle
<1>3. ASSUME NEW x \in Hooks \cup Runtimes, NoteMark(x) PROVE P
  BY <1>3, MarkTyped
<1> QED
  BY <1>1, <1>2, <1>3 DEF Noting

\* Every step keeps what is noted of events under way.
LEMMA NotesKept == TypeOK /\ [Next]_vars => noted' \in [Hooks \cup Runtimes -> Notes]
<1> SUFFICES ASSUME TypeOK, [Next]_vars PROVE noted' \in [Hooks \cup Runtimes -> Notes]
  OBVIOUS
<1>1. CASE Noting
  BY <1>1, NotingTyped
<1>2. CASE \E x, a, e : Record(x, a, e)
  BY <1>2 DEF Record, TypeOK, Notes
<1>3. CASE Restart
  BY <1>3 DEF Restart, Notes
<1>4. CASE UNCHANGED noted
  BY <1>4 DEF TypeOK
<1>5. ASSUME NEW r \in Runtimes,
             Launch(r) \/ Created(r) \/ LaunchFailed(r) \/ SetupFailed(r) \/ LaunchAbandoned(r) \/ OutputArrives(r)
               \/ Exit(r) \/ RevokeTickets(r) \/ RevokeAgents(r) \/ RevokeMarkers(r)
      PROVE  UNCHANGED noted
  BY <1>5 DEF Launch, Created, LaunchFailed, SetupFailed, RevokeToken, LaunchAbandoned, OutputArrives, Exit,
     RevokeTickets, RevokeAgents, RevokeMarkers, service
<1>6. ASSUME NEW h \in Hooks, NEW r \in Runtimes, NEW e \in EventNames,
             NEW s \in Sessions \cup {NONE}, NEW p \in Procs \cup {NONE}, Receive(h, r, e, s, p)
      PROVE  UNCHANGED noted
  BY <1>6 DEF Receive, service
<1>7. ASSUME NEW h \in Hooks,
             BrowserEnsured(h) \/ BindSession(h) \/ EndSession(h) \/ ExitAgent(h) \/ Register(h) \/ Refuse(h)
               \/ ExitAll(h) \/ RemoveListed(h) \/ Abandon(h)
      PROVE  UNCHANGED noted
  BY <1>7 DEF BrowserEnsured, BindSession, EndSession, ExitAgent, Register, Refuse, ExitAll, RemoveListed, Abandon,
     service
<1>8. ASSUME OutputHeard \/ OutputReport \/ OutputSignal \/ OutputDone \/ UNCHANGED vars PROVE UNCHANGED noted
  BY <1>8 DEF OutputHeard, OutputReport, OutputSignal, OutputDone, vars, service
<1>9. ASSUME NEW h \in Hooks, AgentHook(h) \/ RecordRegistered(h) \/ ExitEach(h)
      PROVE  UNCHANGED noted \/ \E x, a, e : Record(x, a, e)
  BY <1>9 DEF AgentHook, RecordRegistered, ExitEach, service
<1>10. ASSUME NEW r \in Runtimes, RevokeRecord(r) PROVE \E x, a, e : Record(x, a, e)
  BY <1>10 DEF RevokeRecord
<1> QED
  BY <1>1, <1>2, <1>3, <1>4, <1>5, <1>6, <1>7, <1>8, <1>9, <1>10 DEF Next, HookStep, Revoke, Noting

\* Every step keeps the types: what it stores was read from a table or checked.
LEMMA TypesKept == TypeOK /\ Coherent /\ Owned /\ [Next]_vars => TypeOK'
<1> SUFFICES ASSUME TypeOK, Coherent, Owned, [Next]_vars PROVE TypeOK'
  OBVIOUS
<1>0. noted' \in [Hooks \cup Runtimes -> Notes]
  BY NotesKept
<1>1. ASSUME NEW r \in Runtimes, Launch(r) PROVE TypeOK'
  <2>1. /\ runtime' \in [Runtimes -> Lives]
        /\ managed' \in [Runtimes -> Agents \cup {NONE}]
        /\ bind' \in [Runtimes -> [Keys -> Agents \cup {NONE}]]
    <3>1. CASE bind' = bind /\ managed' = managed
      BY <1>1, <3>1 DEF TypeOK, Launch, Lives
    <3>2. CASE \E a \in Agents : managed' = [managed EXCEPT ![r] = a] /\ bind' = [bind EXCEPT ![r]["bare"] = a]
      <4>1. PICK a \in Agents : managed' = [managed EXCEPT ![r] = a] /\ bind' = [bind EXCEPT ![r]["bare"] = a]
        BY <3>2
      <4>2. bind[r] \in [Keys -> Agents \cup {NONE}]
        BY DEF TypeOK
      <4>3. [bind[r] EXCEPT !["bare"] = a] \in [Keys -> Agents \cup {NONE}]
        BY <4>2
      <4> QED
        BY <1>1, <4>1, <4>3 DEF TypeOK, Launch, Lives
    <3> QED
      BY <1>1, <3>1, <3>2 DEF Launch
  <2>2. /\ tickets' \subseteq Runtimes
        /\ files' \subseteq Runtimes
        /\ overtaken' \subseteq Runtimes
        /\ structured' \subseteq Agents
    BY <1>1, HooksAssumption DEF TypeOK, Launch, Mint, service
  <2>3. /\ owner' \in [Agents -> Runtimes \cup {NONE}]
        /\ title' \in [Agents -> Sessions \cup {NONE}]
        /\ last' \in [Agents -> Events]
    BY <1>1, HooksAssumption DEF TypeOK, Launch, Mint, service, Events, EventNames, Tools
  <2>4. hook' \in [Hooks -> Requests]
    BY <1>1, HooksAssumption DEF TypeOK, Launch, Mint, service, Requests, Places, EventNames, Tools
  <2>5. /\ out' \in Listeners
        /\ revoker' \in [Runtimes -> Revokers]
        /\ count' \in 0 .. MaxHooks
        /\ restarts' \in 0 .. MaxRestarts
    BY <1>1, HooksAssumption DEF TypeOK, Launch, Mint, service, Listeners, Revokers
  <2> QED
    BY <1>0, <2>1, <2>2, <2>3, <2>4, <2>5 DEF TypeOK
<1>2. ASSUME NEW r \in Runtimes, Created(r) PROVE TypeOK'
  <2>1. /\ runtime' \in [Runtimes -> Lives]
        /\ managed' \in [Runtimes -> Agents \cup {NONE}]
        /\ bind' \in [Runtimes -> [Keys -> Agents \cup {NONE}]]
    BY <1>2, HooksAssumption DEF TypeOK, Created, service, Lives, Keys
  <2>2. /\ tickets' \subseteq Runtimes
        /\ files' \subseteq Runtimes
        /\ overtaken' \subseteq Runtimes
        /\ structured' \subseteq Agents
    BY <1>2, HooksAssumption DEF TypeOK, Created, service
  <2>3. /\ owner' \in [Agents -> Runtimes \cup {NONE}]
        /\ title' \in [Agents -> Sessions \cup {NONE}]
        /\ last' \in [Agents -> Events]
    BY <1>2, HooksAssumption DEF TypeOK, Created, service, Events, EventNames, Tools
  <2>4. hook' \in [Hooks -> Requests]
    BY <1>2, HooksAssumption DEF TypeOK, Created, service, Requests, Places, EventNames, Tools
  <2>5. /\ out' \in Listeners
        /\ revoker' \in [Runtimes -> Revokers]
        /\ count' \in 0 .. MaxHooks
        /\ restarts' \in 0 .. MaxRestarts
    BY <1>2, HooksAssumption DEF TypeOK, Created, service, Listeners, Revokers
  <2> QED
    BY <1>0, <2>1, <2>2, <2>3, <2>4, <2>5 DEF TypeOK
<1>3. ASSUME NEW r \in Runtimes, LaunchFailed(r) PROVE TypeOK'
  <2>1. /\ runtime' \in [Runtimes -> Lives]
        /\ managed' \in [Runtimes -> Agents \cup {NONE}]
        /\ bind' \in [Runtimes -> [Keys -> Agents \cup {NONE}]]
    BY <1>3, HooksAssumption DEF TypeOK, LaunchFailed, RevokeToken, Overtake, Unkeyed, service, Lives, Keys
  <2>2. /\ tickets' \subseteq Runtimes
        /\ files' \subseteq Runtimes
        /\ overtaken' \subseteq Runtimes
        /\ structured' \subseteq Agents
    BY <1>3, HooksAssumption DEF TypeOK, LaunchFailed, RevokeToken, Overtake, Unkeyed, service
  <2>3. /\ owner' \in [Agents -> Runtimes \cup {NONE}]
        /\ title' \in [Agents -> Sessions \cup {NONE}]
        /\ last' \in [Agents -> Events]
    BY <1>3, HooksAssumption DEF TypeOK, LaunchFailed, RevokeToken, Overtake, Unkeyed, service, Events, EventNames,
       Tools
  <2>4. hook' \in [Hooks -> Requests]
    BY <1>3, HooksAssumption DEF TypeOK, LaunchFailed, RevokeToken, Overtake, Unkeyed, service, Requests, Places,
       EventNames, Tools
  <2>5. /\ out' \in Listeners
        /\ revoker' \in [Runtimes -> Revokers]
        /\ count' \in 0 .. MaxHooks
        /\ restarts' \in 0 .. MaxRestarts
    BY <1>3, HooksAssumption DEF TypeOK, LaunchFailed, RevokeToken, Overtake, Unkeyed, service, Listeners, Revokers
  <2> QED
    BY <1>0, <2>1, <2>2, <2>3, <2>4, <2>5 DEF TypeOK
<1>4. ASSUME NEW r \in Runtimes, SetupFailed(r) PROVE TypeOK'
  <2>1. /\ runtime' \in [Runtimes -> Lives]
        /\ managed' \in [Runtimes -> Agents \cup {NONE}]
        /\ bind' \in [Runtimes -> [Keys -> Agents \cup {NONE}]]
    BY <1>4, HooksAssumption DEF TypeOK, SetupFailed, RevokeToken, Overtake, Unkeyed, service, Lives, Keys
  <2>2. /\ tickets' \subseteq Runtimes
        /\ files' \subseteq Runtimes
        /\ overtaken' \subseteq Runtimes
        /\ structured' \subseteq Agents
    BY <1>4, HooksAssumption DEF TypeOK, SetupFailed, RevokeToken, Overtake, Unkeyed, service
  <2>3. /\ owner' \in [Agents -> Runtimes \cup {NONE}]
        /\ title' \in [Agents -> Sessions \cup {NONE}]
        /\ last' \in [Agents -> Events]
    BY <1>4, HooksAssumption DEF TypeOK, SetupFailed, RevokeToken, Overtake, Unkeyed, service, Events, EventNames,
       Tools
  <2>4. hook' \in [Hooks -> Requests]
    BY <1>4, HooksAssumption DEF TypeOK, SetupFailed, RevokeToken, Overtake, Unkeyed, service, Requests, Places,
       EventNames, Tools
  <2>5. /\ out' \in Listeners
        /\ revoker' \in [Runtimes -> Revokers]
        /\ count' \in 0 .. MaxHooks
        /\ restarts' \in 0 .. MaxRestarts
    BY <1>4, HooksAssumption DEF TypeOK, SetupFailed, RevokeToken, Overtake, Unkeyed, service, Listeners, Revokers
  <2> QED
    BY <1>0, <2>1, <2>2, <2>3, <2>4, <2>5 DEF TypeOK
<1>5. ASSUME NEW r \in Runtimes, LaunchAbandoned(r) PROVE TypeOK'
  <2>1. /\ runtime' \in [Runtimes -> Lives]
        /\ managed' \in [Runtimes -> Agents \cup {NONE}]
        /\ bind' \in [Runtimes -> [Keys -> Agents \cup {NONE}]]
    BY <1>5, HooksAssumption DEF TypeOK, LaunchAbandoned, service, Lives, Keys
  <2>2. /\ tickets' \subseteq Runtimes
        /\ files' \subseteq Runtimes
        /\ overtaken' \subseteq Runtimes
        /\ structured' \subseteq Agents
    BY <1>5, HooksAssumption DEF TypeOK, LaunchAbandoned, service
  <2>3. /\ owner' \in [Agents -> Runtimes \cup {NONE}]
        /\ title' \in [Agents -> Sessions \cup {NONE}]
        /\ last' \in [Agents -> Events]
    BY <1>5, HooksAssumption DEF TypeOK, LaunchAbandoned, service, Events, EventNames, Tools
  <2>4. hook' \in [Hooks -> Requests]
    BY <1>5, HooksAssumption DEF TypeOK, LaunchAbandoned, service, Requests, Places, EventNames, Tools
  <2>5. /\ out' \in Listeners
        /\ revoker' \in [Runtimes -> Revokers]
        /\ count' \in 0 .. MaxHooks
        /\ restarts' \in 0 .. MaxRestarts
    BY <1>5, HooksAssumption DEF TypeOK, LaunchAbandoned, service, Listeners, Revokers
  <2> QED
    BY <1>0, <2>1, <2>2, <2>3, <2>4, <2>5 DEF TypeOK
<1>6. ASSUME NEW r \in Runtimes, OutputArrives(r) PROVE TypeOK'
  <2>1. /\ runtime' \in [Runtimes -> Lives]
        /\ managed' \in [Runtimes -> Agents \cup {NONE}]
        /\ bind' \in [Runtimes -> [Keys -> Agents \cup {NONE}]]
    BY <1>6, HooksAssumption, BoundTyped DEF TypeOK, OutputArrives, OnlyOut, Quiet, service, Lives, Keys
  <2>2. /\ tickets' \subseteq Runtimes
        /\ files' \subseteq Runtimes
        /\ overtaken' \subseteq Runtimes
        /\ structured' \subseteq Agents
    BY <1>6, HooksAssumption, BoundTyped DEF TypeOK, OutputArrives, OnlyOut, Quiet, service
  <2>3. /\ owner' \in [Agents -> Runtimes \cup {NONE}]
        /\ title' \in [Agents -> Sessions \cup {NONE}]
        /\ last' \in [Agents -> Events]
    BY <1>6, HooksAssumption, BoundTyped DEF TypeOK, OutputArrives, OnlyOut, Quiet, service, Events, EventNames, Tools
  <2>4. hook' \in [Hooks -> Requests]
    BY <1>6, HooksAssumption, BoundTyped DEF TypeOK, OutputArrives, OnlyOut, Quiet, service, Requests, Places,
       EventNames, Tools
  <2>5. /\ out' \in Listeners
        /\ revoker' \in [Runtimes -> Revokers]
        /\ count' \in 0 .. MaxHooks
        /\ restarts' \in 0 .. MaxRestarts
    BY <1>6, HooksAssumption, BoundTyped DEF TypeOK, OutputArrives, OnlyOut, Quiet, service, Listeners, Revokers
  <2> QED
    BY <1>0, <2>1, <2>2, <2>3, <2>4, <2>5 DEF TypeOK
<1>7. ASSUME NEW r \in Runtimes, Exit(r) PROVE TypeOK'
  <2>1. /\ runtime' \in [Runtimes -> Lives]
        /\ managed' \in [Runtimes -> Agents \cup {NONE}]
        /\ bind' \in [Runtimes -> [Keys -> Agents \cup {NONE}]]
    BY <1>7, HooksAssumption DEF TypeOK, Exit, service, Lives, Keys
  <2>2. /\ tickets' \subseteq Runtimes
        /\ files' \subseteq Runtimes
        /\ overtaken' \subseteq Runtimes
        /\ structured' \subseteq Agents
    BY <1>7, HooksAssumption DEF TypeOK, Exit, service
  <2>3. /\ owner' \in [Agents -> Runtimes \cup {NONE}]
        /\ title' \in [Agents -> Sessions \cup {NONE}]
        /\ last' \in [Agents -> Events]
    BY <1>7, HooksAssumption DEF TypeOK, Exit, service, Events, EventNames, Tools
  <2>4. hook' \in [Hooks -> Requests]
    BY <1>7, HooksAssumption DEF TypeOK, Exit, service, Requests, Places, EventNames, Tools
  <2>5. /\ out' \in Listeners
        /\ revoker' \in [Runtimes -> Revokers]
        /\ count' \in 0 .. MaxHooks
        /\ restarts' \in 0 .. MaxRestarts
    <3>1. [revoker[r] EXCEPT !.pc = "grace"] \in Revokers
      BY RevokerEdits DEF TypeOK
    <3>2. revoker' = [revoker EXCEPT ![r] = [revoker[r] EXCEPT !.pc = "grace"]]
      BY <1>7 DEF Exit
    <3> QED
      BY <1>7, <3>1, <3>2 DEF TypeOK, Exit
  <2> QED
    BY <1>0, <2>1, <2>2, <2>3, <2>4, <2>5 DEF TypeOK
<1>8. ASSUME NEW r \in Runtimes, RevokeTickets(r) PROVE TypeOK'
  <2>1. /\ runtime' \in [Runtimes -> Lives]
        /\ managed' \in [Runtimes -> Agents \cup {NONE}]
        /\ bind' \in [Runtimes -> [Keys -> Agents \cup {NONE}]]
    BY <1>8, HooksAssumption DEF TypeOK, RevokeTickets, OnlyRevoker, service, Lives, Keys
  <2>2. /\ tickets' \subseteq Runtimes
        /\ files' \subseteq Runtimes
        /\ overtaken' \subseteq Runtimes
        /\ structured' \subseteq Agents
    BY <1>8, HooksAssumption DEF TypeOK, RevokeTickets, OnlyRevoker, service
  <2>3. /\ owner' \in [Agents -> Runtimes \cup {NONE}]
        /\ title' \in [Agents -> Sessions \cup {NONE}]
        /\ last' \in [Agents -> Events]
    BY <1>8, HooksAssumption DEF TypeOK, RevokeTickets, OnlyRevoker, service, Events, EventNames, Tools
  <2>4. hook' \in [Hooks -> Requests]
    BY <1>8, HooksAssumption DEF TypeOK, RevokeTickets, OnlyRevoker, service, Requests, Places, EventNames, Tools
  <2>5. /\ out' \in Listeners
        /\ revoker' \in [Runtimes -> Revokers]
        /\ count' \in 0 .. MaxHooks
        /\ restarts' \in 0 .. MaxRestarts
    <3>1. revoker[r] \in Revokers
      BY DEF TypeOK
    <3>2. [revoker[r] EXCEPT !.pc = "agents"] \in Revokers
      BY <3>1, RevokerEdits
    <3>3. revoker' = [revoker EXCEPT ![r] = [revoker[r] EXCEPT !.pc = "agents"]]
      BY <1>8 DEF RevokeTickets
    <3> QED
      BY <1>8, <3>2, <3>3 DEF TypeOK, RevokeTickets, OnlyRevoker
  <2> QED
    BY <1>0, <2>1, <2>2, <2>3, <2>4, <2>5 DEF TypeOK
<1>9. ASSUME NEW r \in Runtimes, RevokeAgents(r) PROVE TypeOK'
  <2>1. /\ runtime' \in [Runtimes -> Lives]
        /\ managed' \in [Runtimes -> Agents \cup {NONE}]
        /\ bind' \in [Runtimes -> [Keys -> Agents \cup {NONE}]]
    BY <1>9, HooksAssumption, BoundTyped DEF TypeOK, RevokeAgents, OnlyRevoker, Overtake, Unkeyed, service, Lives,
       Keys
  <2>2. /\ tickets' \subseteq Runtimes
        /\ files' \subseteq Runtimes
        /\ overtaken' \subseteq Runtimes
        /\ structured' \subseteq Agents
    BY <1>9, HooksAssumption, BoundTyped DEF TypeOK, RevokeAgents, OnlyRevoker, Overtake, Unkeyed, service
  <2>3. /\ owner' \in [Agents -> Runtimes \cup {NONE}]
        /\ title' \in [Agents -> Sessions \cup {NONE}]
        /\ last' \in [Agents -> Events]
    BY <1>9, HooksAssumption, BoundTyped DEF TypeOK, RevokeAgents, OnlyRevoker, Overtake, Unkeyed, service, Events,
       EventNames, Tools
  <2>4. hook' \in [Hooks -> Requests]
    BY <1>9, HooksAssumption, BoundTyped DEF TypeOK, RevokeAgents, OnlyRevoker, Overtake, Unkeyed, service,
       Requests, Places, EventNames, Tools
  <2>5. /\ out' \in Listeners
        /\ revoker' \in [Runtimes -> Revokers]
        /\ count' \in 0 .. MaxHooks
        /\ restarts' \in 0 .. MaxRestarts
    <3>1. revoker[r] \in Revokers
      BY DEF TypeOK
    <3>2. [revoker[r] EXCEPT !.pc = "record"] \in Revokers
      BY <3>1, RevokerEdits
    <3>3. [[revoker[r] EXCEPT !.pc = "record"] EXCEPT !.todo = Bound(r)] \in Revokers
      BY <3>2, RevokerEdits, BoundTyped
    <3>4. revoker' = [revoker EXCEPT ![r] = [revoker[r] EXCEPT !.pc = "record", !.todo = Bound(r)]]
      BY <1>9 DEF RevokeAgents
    <3> QED
      BY <1>9, <3>3, <3>4 DEF TypeOK, RevokeAgents, OnlyRevoker
  <2> QED
    BY <1>0, <2>1, <2>2, <2>3, <2>4, <2>5 DEF TypeOK
<1>10. ASSUME NEW r \in Runtimes, RevokeRecord(r) PROVE TypeOK'
  <2>a. PICK a \in revoker[r].todo :
          /\ revoker[r].pc = "record" /\ Record(r, a, "runtimeExit")
          /\ revoker' = [revoker EXCEPT ![r] = [revoker[r] EXCEPT !.todo = revoker[r].todo \ {a}, !.told = revoker[r].told \cup {a}]]
          /\ OnlyRevoker /\ UNCHANGED <<runtime, bind, tickets, files, owner>>
    BY <1>10 DEF RevokeRecord
  <2>b. a \in Agents /\ owner[a] = r /\ revoker[r] \in Revokers
    BY DEF TypeOK, Revokers, Owned
  <2>c. /\ title' \in [Agents -> Sessions \cup {NONE}] /\ last' \in [Agents -> Events]
        /\ structured' \subseteq Agents /\ overtaken' \subseteq Runtimes
    BY <2>a, <2>b, RecordTyped DEF Events
  <2>1. /\ runtime' \in [Runtimes -> Lives]
        /\ managed' \in [Runtimes -> Agents \cup {NONE}]
        /\ bind' \in [Runtimes -> [Keys -> Agents \cup {NONE}]]
    BY <1>10, HooksAssumption, <2>a, <2>b, <2>c DEF TypeOK, OnlyRevoker, service, Lives, Keys
  <2>2. /\ tickets' \subseteq Runtimes
        /\ files' \subseteq Runtimes
        /\ overtaken' \subseteq Runtimes
        /\ structured' \subseteq Agents
    BY <1>10, HooksAssumption, <2>a, <2>b, <2>c DEF TypeOK, OnlyRevoker, service
  <2>3. /\ owner' \in [Agents -> Runtimes \cup {NONE}]
        /\ title' \in [Agents -> Sessions \cup {NONE}]
        /\ last' \in [Agents -> Events]
    BY <1>10, HooksAssumption, <2>a, <2>b, <2>c DEF TypeOK, OnlyRevoker, service, Events, EventNames, Tools
  <2>4. hook' \in [Hooks -> Requests]
    BY <1>10, HooksAssumption, <2>a, <2>b, <2>c DEF TypeOK, OnlyRevoker, service, Requests, Places, EventNames, Tools
  <2>5. /\ out' \in Listeners
        /\ revoker' \in [Runtimes -> Revokers]
        /\ count' \in 0 .. MaxHooks
        /\ restarts' \in 0 .. MaxRestarts
    BY <1>10, HooksAssumption, <2>a, <2>b, <2>c DEF TypeOK, OnlyRevoker, service, Listeners, Revokers
  <2> QED
    BY <1>0, <2>1, <2>2, <2>3, <2>4, <2>5 DEF TypeOK
<1>11. ASSUME NEW r \in Runtimes, RevokeMarkers(r) PROVE TypeOK'
  <2>1. /\ runtime' \in [Runtimes -> Lives]
        /\ managed' \in [Runtimes -> Agents \cup {NONE}]
        /\ bind' \in [Runtimes -> [Keys -> Agents \cup {NONE}]]
    BY <1>11, HooksAssumption DEF TypeOK, RevokeMarkers, OnlyRevoker, Off, service, Lives, Keys
  <2>2. /\ tickets' \subseteq Runtimes
        /\ files' \subseteq Runtimes
        /\ overtaken' \subseteq Runtimes
        /\ structured' \subseteq Agents
    BY <1>11, HooksAssumption DEF TypeOK, RevokeMarkers, OnlyRevoker, Off, service
  <2>3. /\ owner' \in [Agents -> Runtimes \cup {NONE}]
        /\ title' \in [Agents -> Sessions \cup {NONE}]
        /\ last' \in [Agents -> Events]
    BY <1>11, HooksAssumption DEF TypeOK, RevokeMarkers, OnlyRevoker, Off, service, Events, EventNames, Tools
  <2>4. hook' \in [Hooks -> Requests]
    BY <1>11, HooksAssumption DEF TypeOK, RevokeMarkers, OnlyRevoker, Off, service, Requests, Places, EventNames,
       Tools
  <2>5. /\ out' \in Listeners
        /\ revoker' \in [Runtimes -> Revokers]
        /\ count' \in 0 .. MaxHooks
        /\ restarts' \in 0 .. MaxRestarts
    BY <1>11, HooksAssumption DEF TypeOK, RevokeMarkers, OnlyRevoker, Off, service, Listeners, Revokers
  <2> QED
    BY <1>0, <2>1, <2>2, <2>3, <2>4, <2>5 DEF TypeOK
<1>12. ASSUME NEW h \in Hooks, NEW r \in Runtimes, NEW e \in EventNames, NEW s \in Sessions \cup {NONE}, NEW p \in Procs \cup {NONE}, Receive(h, r, e, s, p) PROVE TypeOK'
  <2> DEFINE key == Lookup(r, s, p)
  <2>a. key \in Keys \cup {NONE} /\ (key # NONE => bind[r][key] \in Agents) /\ r \in Runtimes
    BY HooksAssumption DEF TypeOK, Lookup, Keys
  <2> HIDE DEF key
  <2>1. /\ runtime' \in [Runtimes -> Lives]
        /\ managed' \in [Runtimes -> Agents \cup {NONE}]
        /\ bind' \in [Runtimes -> [Keys -> Agents \cup {NONE}]]
    BY <1>12, HooksAssumption, <2>a DEF TypeOK, Receive, Idle, service, Lives, Keys
  <2>2. /\ tickets' \subseteq Runtimes
        /\ files' \subseteq Runtimes
        /\ overtaken' \subseteq Runtimes
        /\ structured' \subseteq Agents
    BY <1>12, HooksAssumption, <2>a DEF TypeOK, Receive, Idle, service
  <2>3. /\ owner' \in [Agents -> Runtimes \cup {NONE}]
        /\ title' \in [Agents -> Sessions \cup {NONE}]
        /\ last' \in [Agents -> Events]
    BY <1>12, HooksAssumption, <2>a DEF TypeOK, Receive, Idle, service, Events, EventNames, Tools
  <2>4. hook' \in [Hooks -> Requests]
    <3>1. PICK q : q = [pc |-> IF e = "browse" THEN "browser" ELSE "admitted", r |-> r, e |-> e, s |-> s,
            p |-> IF key = NONE THEN p ELSE NONE, key |-> key,
            a |-> IF key = NONE THEN NONE ELSE bind[r][key], todo |-> {}]
      OBVIOUS
    <3>2. q \in Requests
      BY <2>a, <3>1 DEF Requests, Places
    <3>3. hook' = [hook EXCEPT ![h] = q]
      BY <1>12, <3>1 DEF Receive, key
    <3> QED
      BY <3>2, <3>3 DEF TypeOK
  <2>5. /\ out' \in Listeners
        /\ revoker' \in [Runtimes -> Revokers]
        /\ count' \in 0 .. MaxHooks
        /\ restarts' \in 0 .. MaxRestarts
    BY <1>12, HooksAssumption, <2>a DEF TypeOK, Receive, Idle, service, Listeners, Revokers
  <2> QED
    BY <1>0, <2>1, <2>2, <2>3, <2>4, <2>5 DEF TypeOK
<1>13. ASSUME NEW h \in Hooks, BrowserEnsured(h) PROVE TypeOK'
  <2>1. /\ runtime' \in [Runtimes -> Lives]
        /\ managed' \in [Runtimes -> Agents \cup {NONE}]
        /\ bind' \in [Runtimes -> [Keys -> Agents \cup {NONE}]]
    BY <1>13, HooksAssumption DEF TypeOK, BrowserEnsured, OnlyHook, service, Lives, Keys
  <2>2. /\ tickets' \subseteq Runtimes
        /\ files' \subseteq Runtimes
        /\ overtaken' \subseteq Runtimes
        /\ structured' \subseteq Agents
    BY <1>13, HooksAssumption DEF TypeOK, BrowserEnsured, OnlyHook, service
  <2>3. /\ owner' \in [Agents -> Runtimes \cup {NONE}]
        /\ title' \in [Agents -> Sessions \cup {NONE}]
        /\ last' \in [Agents -> Events]
    BY <1>13, HooksAssumption DEF TypeOK, BrowserEnsured, OnlyHook, service, Events, EventNames, Tools
  <2>4. hook' \in [Hooks -> Requests]
    <3>1. hook[h] \in Requests
      BY DEF TypeOK
    <3>2. [hook[h] EXCEPT !.pc = "admitted"] \in Requests
      BY <3>1, Edits DEF Places
    <3>3. [[hook[h] EXCEPT !.pc = "admitted"] EXCEPT !.e = "tool"] \in Requests
      BY <3>2, Edits DEF EventNames, Tools
    <3>4. hook' = [hook EXCEPT ![h] = [hook[h] EXCEPT !.pc = "admitted", !.e = "tool"]]
      BY <1>13 DEF BrowserEnsured, Goto
    <3> QED
      BY <3>3, <3>4 DEF TypeOK
  <2>5. /\ out' \in Listeners
        /\ revoker' \in [Runtimes -> Revokers]
        /\ count' \in 0 .. MaxHooks
        /\ restarts' \in 0 .. MaxRestarts
    BY <1>13, HooksAssumption DEF TypeOK, BrowserEnsured, OnlyHook, service, Listeners, Revokers
  <2> QED
    BY <1>0, <2>1, <2>2, <2>3, <2>4, <2>5 DEF TypeOK
<1>14. ASSUME NEW h \in Hooks, AgentHook(h) PROVE TypeOK'
  <2>a. PICK q : q = hook[h]
    OBVIOUS
  <2>b. q \in Requests /\ q.a \in Agents /\ q.e \in Events /\ q.s \in Sessions \cup {NONE} /\ q.r \in Runtimes /\ owner[q.a] \in Runtimes
    <3>1. q \in Requests
      BY <2>a DEF TypeOK
    <3>2. q.pc = "admitted" /\ q.a # NONE
      BY <1>14, <2>a, HooksAssumption DEF AgentHook, Coherent
    <3> QED
      BY <2>a, <3>1, <3>2 DEF Requests, Events, Coherent, Owned, Places
  <2>c. Record(h, q.a, q.e)
    BY <1>14, <2>a DEF AgentHook
  <2>d. /\ title' \in [Agents -> Sessions \cup {NONE}] /\ last' \in [Agents -> Events]
        /\ structured' \subseteq Agents /\ overtaken' \subseteq Runtimes
    BY <2>b, <2>c, RecordTyped
  <2>1. /\ runtime' \in [Runtimes -> Lives]
        /\ managed' \in [Runtimes -> Agents \cup {NONE}]
        /\ bind' \in [Runtimes -> [Keys -> Agents \cup {NONE}]]
    BY <1>14, HooksAssumption, <2>a, <2>b, <2>d DEF TypeOK, AgentHook, OnlyHook, Goto, Answer, Idle, Coherent,
       service, Lives, Keys
  <2>2. /\ tickets' \subseteq Runtimes
        /\ files' \subseteq Runtimes
        /\ overtaken' \subseteq Runtimes
        /\ structured' \subseteq Agents
    BY <1>14, HooksAssumption, <2>a, <2>b, <2>d DEF TypeOK, AgentHook, OnlyHook, Goto, Answer, Idle, Coherent, service
  <2>3. /\ owner' \in [Agents -> Runtimes \cup {NONE}]
        /\ title' \in [Agents -> Sessions \cup {NONE}]
        /\ last' \in [Agents -> Events]
    BY <1>14, HooksAssumption, <2>a, <2>b, <2>d DEF TypeOK, AgentHook, OnlyHook, Goto, Answer, Idle, Coherent,
       service, Events, EventNames, Tools
  <2>4. hook' \in [Hooks -> Requests]
    <3>1. \A x \in Places : [hook[h] EXCEPT !.pc = x] \in Requests
      BY <2>a, <2>b, Edits
    <3>2. Idle \in Requests
      BY DEF Requests, Places, Idle
    <3>3. \E x \in Requests : hook' = [hook EXCEPT ![h] = x]
      BY <1>14, <3>1, <3>2 DEF AgentHook, Goto, Answer, Places
    <3> QED
      BY <3>3 DEF TypeOK
  <2>5. /\ out' \in Listeners
        /\ revoker' \in [Runtimes -> Revokers]
        /\ count' \in 0 .. MaxHooks
        /\ restarts' \in 0 .. MaxRestarts
    BY <1>14, HooksAssumption, <2>a, <2>b, <2>d DEF TypeOK, AgentHook, OnlyHook, Goto, Answer, Idle, Coherent,
       service, Listeners, Revokers
  <2> QED
    BY <1>0, <2>1, <2>2, <2>3, <2>4, <2>5 DEF TypeOK
<1>15. ASSUME NEW h \in Hooks, BindSession(h) PROVE TypeOK'
  BY <1>0, <1>15, HooksAssumption DEF BindSession, OnlyHook, Answer, Idle, TypeOK, Requests, Places, Listeners, Revokers,
     Keys, EventNames, Tools, Lives, Coherent, Unkeyed, service
<1>16. ASSUME NEW h \in Hooks, EndSession(h) PROVE TypeOK'
  <2>1. /\ runtime' \in [Runtimes -> Lives]
        /\ managed' \in [Runtimes -> Agents \cup {NONE}]
        /\ bind' \in [Runtimes -> [Keys -> Agents \cup {NONE}]]
    BY <1>16, HooksAssumption DEF TypeOK, EndSession, OnlyHook, Answer, Idle, Overtake, Coherent, service, Lives, Keys
  <2>2. /\ tickets' \subseteq Runtimes
        /\ files' \subseteq Runtimes
        /\ overtaken' \subseteq Runtimes
        /\ structured' \subseteq Agents
    BY <1>16, HooksAssumption DEF TypeOK, EndSession, OnlyHook, Answer, Idle, Overtake, Coherent, service
  <2>3. /\ owner' \in [Agents -> Runtimes \cup {NONE}]
        /\ title' \in [Agents -> Sessions \cup {NONE}]
        /\ last' \in [Agents -> Events]
    BY <1>16, HooksAssumption DEF TypeOK, EndSession, OnlyHook, Answer, Idle, Overtake, Coherent, service, Events,
       EventNames, Tools
  <2>4. hook' \in [Hooks -> Requests]
    BY <1>16, HooksAssumption DEF TypeOK, EndSession, OnlyHook, Answer, Idle, Overtake, Coherent, service,
       Requests, Places, EventNames, Tools
  <2>5. /\ out' \in Listeners
        /\ revoker' \in [Runtimes -> Revokers]
        /\ count' \in 0 .. MaxHooks
        /\ restarts' \in 0 .. MaxRestarts
    BY <1>16, HooksAssumption DEF TypeOK, EndSession, OnlyHook, Answer, Idle, Overtake, Coherent, service,
       Listeners, Revokers
  <2> QED
    BY <1>0, <2>1, <2>2, <2>3, <2>4, <2>5 DEF TypeOK
<1>17. ASSUME NEW h \in Hooks, ExitAgent(h) PROVE TypeOK'
  BY <1>0, <1>17, HooksAssumption DEF ExitAgent, OnlyHook, Answer, Idle, Overtake, RemoveAgent, Without, TypeOK,
     Requests, Places, Listeners, Revokers, Keys, EventNames, Tools, Lives, Coherent, Unkeyed, service
<1>18. ASSUME NEW h \in Hooks, Register(h) PROVE TypeOK'
  <2>a. PICK a \in Agents :
          /\ Resolve(hook[h].r, Identity(hook[h]), a)
          /\ hook' = [hook EXCEPT ![h] = [hook[h] EXCEPT !.pc = "record", !.a = a]]
    BY <1>18 DEF Register
  <2>b. hook[h].r \in Runtimes /\ Identity(hook[h]) \in Keys
    <3>1. hook[h] \in Requests
      BY DEF TypeOK
    <3>2. hook[h].r \in Runtimes
      BY <1>18, HooksAssumption DEF Coherent, Register
    <3> QED
      BY <1>18, <3>1, <3>2 DEF Requests, Identity, Register, Keys
  <2>1. /\ runtime' \in [Runtimes -> Lives]
        /\ managed' \in [Runtimes -> Agents \cup {NONE}]
        /\ bind' \in [Runtimes -> [Keys -> Agents \cup {NONE}]]
    <3>1. bind' = bind \/ bind' = [bind EXCEPT ![hook[h].r] = [bind[hook[h].r] EXCEPT ![Identity(hook[h])] = a]]
      BY <2>a DEF Resolve
    <3>2. [bind[hook[h].r] EXCEPT ![Identity(hook[h])] = a] \in [Keys -> Agents \cup {NONE}]
      BY <2>b DEF TypeOK
    <3>3. bind' \in [Runtimes -> [Keys -> Agents \cup {NONE}]]
      BY <2>b, <3>1, <3>2 DEF TypeOK
    <3> QED
      BY <1>18, <3>3 DEF TypeOK, Register, OnlyHook
  <2>2. /\ tickets' \subseteq Runtimes
        /\ files' \subseteq Runtimes
        /\ overtaken' \subseteq Runtimes
        /\ structured' \subseteq Agents
    BY <1>18 DEF TypeOK, Register, OnlyHook
  <2>3. /\ owner' \in [Agents -> Runtimes \cup {NONE}]
        /\ title' \in [Agents -> Sessions \cup {NONE}]
        /\ last' \in [Agents -> Events]
    <3>1. owner' = owner \/ owner' = [owner EXCEPT ![a] = hook[h].r]
      BY <2>a DEF Resolve, Mint
    <3> QED
      BY <1>18, <2>b, <3>1 DEF TypeOK, Register, OnlyHook
  <2>4. hook' \in [Hooks -> Requests]
    <3>1. [hook[h] EXCEPT !.pc = "record", !.a = a] \in Requests
      <4>1. hook[h] \in Requests
        BY DEF TypeOK
      <4>2. [hook[h] EXCEPT !.pc = "record"] \in Requests
        BY <4>1, Edits DEF Places
      <4> QED
        BY <4>2, Edits
    <3> QED
      BY <2>a, <3>1 DEF TypeOK
  <2>5. /\ out' \in Listeners
        /\ revoker' \in [Runtimes -> Revokers]
        /\ count' \in 0 .. MaxHooks
        /\ restarts' \in 0 .. MaxRestarts
    BY <1>18 DEF TypeOK, Register, OnlyHook
  <2> QED
    BY <1>0, <2>1, <2>2, <2>3, <2>4, <2>5 DEF TypeOK
<1>19. ASSUME NEW h \in Hooks, RecordRegistered(h) PROVE TypeOK'
  <2>a. PICK q : q = hook[h]
    OBVIOUS
  <2>b. q \in Requests /\ q.a \in Agents /\ q.e \in Events /\ q.s \in Sessions \cup {NONE} /\ q.r \in Runtimes /\ owner[q.a] \in Runtimes
    <3>1. q \in Requests
      BY <2>a DEF TypeOK
    <3>2. q.pc = "record" /\ q.a # NONE
      BY <1>19, <2>a, HooksAssumption DEF RecordRegistered, Coherent
    <3> QED
      BY <2>a, <3>1, <3>2 DEF Requests, Events, Coherent, Owned, Places
  <2>c. Record(h, q.a, q.e)
    BY <1>19, <2>a DEF RecordRegistered
  <2>d. /\ title' \in [Agents -> Sessions \cup {NONE}] /\ last' \in [Agents -> Events]
        /\ structured' \subseteq Agents /\ overtaken' \subseteq Runtimes
    BY <2>b, <2>c, RecordTyped
  <2>1. /\ runtime' \in [Runtimes -> Lives]
        /\ managed' \in [Runtimes -> Agents \cup {NONE}]
        /\ bind' \in [Runtimes -> [Keys -> Agents \cup {NONE}]]
    BY <1>19, HooksAssumption, <2>a, <2>b, <2>d DEF TypeOK, RecordRegistered, OnlyHook, Answer, Idle, Coherent,
       service, Lives, Keys
  <2>2. /\ tickets' \subseteq Runtimes
        /\ files' \subseteq Runtimes
        /\ overtaken' \subseteq Runtimes
        /\ structured' \subseteq Agents
    BY <1>19, HooksAssumption, <2>a, <2>b, <2>d DEF TypeOK, RecordRegistered, OnlyHook, Answer, Idle, Coherent,
       service
  <2>3. /\ owner' \in [Agents -> Runtimes \cup {NONE}]
        /\ title' \in [Agents -> Sessions \cup {NONE}]
        /\ last' \in [Agents -> Events]
    BY <1>19, HooksAssumption, <2>a, <2>b, <2>d DEF TypeOK, RecordRegistered, OnlyHook, Answer, Idle, Coherent,
       service, Events, EventNames, Tools
  <2>4. hook' \in [Hooks -> Requests]
    BY <1>19, HooksAssumption, <2>a, <2>b, <2>d DEF TypeOK, RecordRegistered, OnlyHook, Answer, Idle, Coherent,
       service, Requests, Places, EventNames, Tools
  <2>5. /\ out' \in Listeners
        /\ revoker' \in [Runtimes -> Revokers]
        /\ count' \in 0 .. MaxHooks
        /\ restarts' \in 0 .. MaxRestarts
    BY <1>19, HooksAssumption, <2>a, <2>b, <2>d DEF TypeOK, RecordRegistered, OnlyHook, Answer, Idle, Coherent,
       service, Listeners, Revokers
  <2> QED
    BY <1>0, <2>1, <2>2, <2>3, <2>4, <2>5 DEF TypeOK
<1>20. ASSUME NEW h \in Hooks, Refuse(h) PROVE TypeOK'
  BY <1>0, <1>20, HooksAssumption DEF Refuse, OnlyHook, Answer, Idle, TypeOK, Requests, Places, Listeners, Revokers,
     Keys, EventNames, Tools, Lives, Coherent, Unkeyed, service
<1>21. ASSUME NEW h \in Hooks, ExitAll(h) PROVE TypeOK'
  <2>1. /\ runtime' \in [Runtimes -> Lives]
        /\ managed' \in [Runtimes -> Agents \cup {NONE}]
        /\ bind' \in [Runtimes -> [Keys -> Agents \cup {NONE}]]
    BY <1>21, HooksAssumption, BoundTyped DEF TypeOK, ExitAll, OnlyHook, service, Lives, Keys
  <2>2. /\ tickets' \subseteq Runtimes
        /\ files' \subseteq Runtimes
        /\ overtaken' \subseteq Runtimes
        /\ structured' \subseteq Agents
    BY <1>21, HooksAssumption, BoundTyped DEF TypeOK, ExitAll, OnlyHook, service
  <2>3. /\ owner' \in [Agents -> Runtimes \cup {NONE}]
        /\ title' \in [Agents -> Sessions \cup {NONE}]
        /\ last' \in [Agents -> Events]
    BY <1>21, HooksAssumption, BoundTyped DEF TypeOK, ExitAll, OnlyHook, service, Events, EventNames, Tools
  <2>4. hook' \in [Hooks -> Requests]
    <3>1. hook[h] \in Requests
      BY DEF TypeOK
    <3>2. [hook[h] EXCEPT !.pc = "exits"] \in Requests
      BY <3>1, Edits DEF Places
    <3>3. [[hook[h] EXCEPT !.pc = "exits"] EXCEPT !.todo = Bound(hook[h].r)] \in Requests
      BY <3>2, Edits, BoundTyped, <1>21, HooksAssumption DEF ExitAll, Coherent
    <3>4. hook' = [hook EXCEPT ![h] = [hook[h] EXCEPT !.pc = "exits", !.todo = Bound(hook[h].r)]]
      BY <1>21 DEF ExitAll, Goto
    <3> QED
      BY <3>3, <3>4 DEF TypeOK
  <2>5. /\ out' \in Listeners
        /\ revoker' \in [Runtimes -> Revokers]
        /\ count' \in 0 .. MaxHooks
        /\ restarts' \in 0 .. MaxRestarts
    BY <1>21, HooksAssumption, BoundTyped DEF TypeOK, ExitAll, OnlyHook, service, Listeners, Revokers
  <2> QED
    BY <1>0, <2>1, <2>2, <2>3, <2>4, <2>5 DEF TypeOK
<1>22. ASSUME NEW h \in Hooks, ExitEach(h) PROVE TypeOK'
  <2>0. CASE hook[h].todo = {} /\ Answer(h) /\ UNCHANGED service
    BY <1>0, <1>22, <2>0 DEF TypeOK, Requests, Places, ExitEach, OnlyHook, Answer, Idle, service
  <2>a. CASE \E a \in hook[h].todo :
          /\ Record(h, a, "exit")
          /\ hook' = [hook EXCEPT ![h] = [hook[h] EXCEPT !.pc = "removeListed", !.a = a, !.todo = hook[h].todo \ {a}]]
          /\ UNCHANGED <<bind, tickets, files, owner>>
    <3>1. PICK a \in hook[h].todo :
          /\ Record(h, a, "exit")
          /\ hook' = [hook EXCEPT ![h] = [hook[h] EXCEPT !.pc = "removeListed", !.a = a, !.todo = hook[h].todo \ {a}]]
          /\ UNCHANGED <<bind, tickets, files, owner>>
      BY <2>a
    <3>2. a \in Agents /\ owner[a] \in Runtimes /\ hook[h] \in Requests
      <4>1. hook[h] \in Requests
        BY DEF TypeOK
      <4>2. hook[h].todo \subseteq Agents
        BY <4>1 DEF Requests
      <4>3. owner[a] = hook[h].r /\ hook[h].r \in Runtimes
        BY <1>22 DEF Owned, ExitEach, Coherent
      <4> QED
        BY <4>1, <4>2, <4>3
    <3>3. /\ title' \in [Agents -> Sessions \cup {NONE}] /\ last' \in [Agents -> Events]
          /\ structured' \subseteq Agents /\ overtaken' \subseteq Runtimes
      BY <3>1, <3>2, RecordTyped DEF Events, EventNames
    <3>4. hook' \in [Hooks -> Requests]
      <4>1. [hook[h] EXCEPT !.pc = "removeListed"] \in Requests
        BY <3>2, Edits DEF Places
      <4>2. [hook[h] EXCEPT !.pc = "removeListed", !.a = a] \in Requests
        BY <3>2, <4>1, Edits
      <4>3. hook[h].todo \ {a} \in SUBSET Agents
        BY <3>2 DEF Requests
      <4>4. [hook[h] EXCEPT !.pc = "removeListed", !.a = a, !.todo = hook[h].todo \ {a}] \in Requests
        BY <4>2, <4>3, Edits
      <4> QED
        BY <3>1, <4>4 DEF TypeOK
    <3> QED
      BY <1>0, <1>22, <3>1, <3>2, <3>3, <3>4 DEF TypeOK, ExitEach, OnlyHook
  <2> QED
    BY <1>22, <2>0, <2>a DEF ExitEach
<1>23. ASSUME NEW h \in Hooks, RemoveListed(h) PROVE TypeOK'
  <2>1. /\ runtime' \in [Runtimes -> Lives]
        /\ managed' \in [Runtimes -> Agents \cup {NONE}]
        /\ bind' \in [Runtimes -> [Keys -> Agents \cup {NONE}]]
    BY <1>23, HooksAssumption DEF TypeOK, RemoveListed, OnlyHook, Goto, Overtake, RemoveAgent, Without, Coherent,
       service, Lives, Keys
  <2>2. /\ tickets' \subseteq Runtimes
        /\ files' \subseteq Runtimes
        /\ overtaken' \subseteq Runtimes
        /\ structured' \subseteq Agents
    BY <1>23, HooksAssumption DEF TypeOK, RemoveListed, OnlyHook, Goto, Overtake, RemoveAgent, Without, Coherent,
       service
  <2>3. /\ owner' \in [Agents -> Runtimes \cup {NONE}]
        /\ title' \in [Agents -> Sessions \cup {NONE}]
        /\ last' \in [Agents -> Events]
    BY <1>23, HooksAssumption DEF TypeOK, RemoveListed, OnlyHook, Goto, Overtake, RemoveAgent, Without, Coherent,
       service, Events, EventNames, Tools
  <2>4. hook' \in [Hooks -> Requests]
    <3>1. hook[h] \in Requests
      BY DEF TypeOK
    <3>2. [hook[h] EXCEPT !.pc = "exits"] \in Requests
      BY <3>1, Edits DEF Places
    <3>3. hook' = [hook EXCEPT ![h] = [hook[h] EXCEPT !.pc = "exits"]]
      BY <1>23 DEF RemoveListed, Goto
    <3> QED
      BY <3>2, <3>3 DEF TypeOK
  <2>5. /\ out' \in Listeners
        /\ revoker' \in [Runtimes -> Revokers]
        /\ count' \in 0 .. MaxHooks
        /\ restarts' \in 0 .. MaxRestarts
    BY <1>23, HooksAssumption DEF TypeOK, RemoveListed, OnlyHook, Goto, Overtake, RemoveAgent, Without, Coherent,
       service, Listeners, Revokers
  <2> QED
    BY <1>0, <2>1, <2>2, <2>3, <2>4, <2>5 DEF TypeOK
<1>24. ASSUME NEW h \in Hooks, Abandon(h) PROVE TypeOK'
  BY <1>0, <1>24, HooksAssumption DEF Abandon, OnlyHook, Answer, Idle, TypeOK, Requests, Places, Listeners, Revokers,
     Keys, EventNames, Tools, Lives, Coherent, Unkeyed, service
<1>25. CASE OutputHeard
  BY <1>0, <1>25, HooksAssumption DEF OutputHeard, OnlyOut, TypeOK, Requests, Places, Listeners, Revokers, Keys,
     EventNames, Tools, Lives, Coherent, Unkeyed, service
<1>26. CASE OutputSignal
  <2>1. PICK a \in out.agents \ out.heard :
          /\ last' = [last EXCEPT ![a] = "signal"] /\ Between(a)
          /\ out' = [out EXCEPT !.agents = @ \ {a}]
          /\ OnlyOut
          /\ UNCHANGED <<bind, tickets, files, owner, structured, title, noted>>
    BY <1>26 DEF OutputSignal
  <2>2. a \in Agents /\ owner[a] \in Runtimes /\ out \in Listeners
    BY <1>26 DEF TypeOK, Listeners, Owned, Coherent, OutputSignal
  <2>3. out' \in Listeners /\ last' \in [Agents -> Events] /\ overtaken' \subseteq Runtimes
    BY <2>1, <2>2 DEF TypeOK, Listeners, Events, Between
  <2> QED
    BY <1>0, <2>1, <2>3 DEF TypeOK, OnlyOut
<1>27. CASE OutputDone
  BY <1>0, <1>27, HooksAssumption DEF OutputDone, OnlyOut, Quiet, TypeOK, Requests, Places, Listeners, Revokers, Keys,
     EventNames, Tools, Lives, Coherent, Unkeyed, service
<1>28. CASE Restart
  <2>1. /\ runtime' \in [Runtimes -> Lives]
        /\ managed' \in [Runtimes -> Agents \cup {NONE}]
        /\ bind' \in [Runtimes -> [Keys -> Agents \cup {NONE}]]
    BY <1>28, HooksAssumption DEF TypeOK, Restart, Idle, Quiet, Off, Unkeyed, service, Lives, Keys
  <2>2. /\ tickets' \subseteq Runtimes
        /\ files' \subseteq Runtimes
        /\ overtaken' \subseteq Runtimes
        /\ structured' \subseteq Agents
    BY <1>28, HooksAssumption DEF TypeOK, Restart, Idle, Quiet, Off, Unkeyed, service
  <2>3. /\ owner' \in [Agents -> Runtimes \cup {NONE}]
        /\ title' \in [Agents -> Sessions \cup {NONE}]
        /\ last' \in [Agents -> Events]
    BY <1>28, HooksAssumption DEF TypeOK, Restart, Idle, Quiet, Off, Unkeyed, service, Events, EventNames, Tools
  <2>4. hook' \in [Hooks -> Requests]
    BY <1>28, HooksAssumption DEF TypeOK, Restart, Idle, Quiet, Off, Unkeyed, service, Requests, Places,
       EventNames, Tools
  <2>5. /\ out' \in Listeners
        /\ revoker' \in [Runtimes -> Revokers]
        /\ count' \in 0 .. MaxHooks
        /\ restarts' \in 0 .. MaxRestarts
    BY <1>28, HooksAssumption DEF TypeOK, Restart, Idle, Quiet, Off, Unkeyed, service, Listeners, Revokers
  <2> QED
    BY <1>0, <2>1, <2>2, <2>3, <2>4, <2>5 DEF TypeOK
<1>29. CASE UNCHANGED vars
  BY <1>0, <1>29 DEF vars, service, TypeOK, Requests, Places, Listeners, Revokers, Keys, EventNames, Tools, Lives,
     Coherent, Unkeyed
<1>30. CASE Noting
  BY <1>30, NotingTyped DEF OnlyNotes, TypeOK
<1>31. CASE OutputReport
  <2>1. PICK a \in out.agents : last' = [last EXCEPT ![a] = "signal"] /\ Between(a)
    BY <1>31 DEF OutputReport
  <2>2. a \in Agents /\ owner[a] \in Runtimes
    BY <1>31 DEF TypeOK, Listeners, Owned, Coherent, OutputReport
  <2>3. last' \in [Agents -> Events] /\ overtaken' \subseteq Runtimes
    BY <2>1, <2>2 DEF TypeOK, Events, Between
  <2> QED
    BY <1>0, <1>31, <2>3 DEF TypeOK, OutputReport, OnlyOut
<1> QED
  BY <1>1, <1>2, <1>3, <1>4, <1>5, <1>6, <1>7, <1>8, <1>9, <1>10, <1>11, <1>12, <1>13, <1>14, <1>15, <1>16, <1>17,
     <1>18, <1>19, <1>20, <1>21, <1>22, <1>23, <1>24, <1>25, <1>26, <1>27, <1>28, <1>29, <1>30, <1>31
  DEF Next, Revoke, HookStep, Noting

\* A request gets to a step only with what that step needs.
LEMMA CoherentKept == TypeOK /\ Coherent /\ [Next]_vars => Coherent'
<1> SUFFICES ASSUME TypeOK, Coherent, [Next]_vars PROVE Coherent'
  OBVIOUS
<1>1. ASSUME NEW r \in Runtimes, Launch(r) PROVE Coherent'
  BY <1>1, HooksAssumption DEF Launch, Mint, TypeOK, Requests, Places, Coherent, EventNames, Tools, Keys, service
<1>2. ASSUME NEW r \in Runtimes, Created(r) PROVE Coherent'
  BY <1>2, HooksAssumption DEF Created, TypeOK, Requests, Places, Coherent, EventNames, Tools, Keys, service
<1>3. ASSUME NEW r \in Runtimes, LaunchFailed(r) PROVE Coherent'
  BY <1>3, HooksAssumption DEF LaunchFailed, RevokeToken, Overtake, TypeOK, Requests, Places, Coherent, EventNames,
     Tools, Keys, service
<1>4. ASSUME NEW r \in Runtimes, SetupFailed(r) PROVE Coherent'
  BY <1>4, HooksAssumption DEF SetupFailed, RevokeToken, Overtake, TypeOK, Requests, Places, Coherent, EventNames,
     Tools, Keys, service
<1>5. ASSUME NEW r \in Runtimes, LaunchAbandoned(r) PROVE Coherent'
  BY <1>5, HooksAssumption DEF LaunchAbandoned, TypeOK, Requests, Places, Coherent, EventNames, Tools, Keys, service
<1>6. ASSUME NEW r \in Runtimes, OutputArrives(r) PROVE Coherent'
  BY <1>6, HooksAssumption DEF OutputArrives, OnlyOut, Quiet, TypeOK, Requests, Places, Coherent, EventNames,
     Tools, Keys, service
<1>7. ASSUME NEW r \in Runtimes, Exit(r) PROVE Coherent'
  BY <1>7, HooksAssumption DEF Exit, TypeOK, Requests, Places, Coherent, EventNames, Tools, Keys, service
<1>8. ASSUME NEW r \in Runtimes, RevokeTickets(r) PROVE Coherent'
  BY <1>8, HooksAssumption DEF RevokeTickets, OnlyRevoker, TypeOK, Requests, Places, Coherent, EventNames, Tools,
     Keys, service
<1>9. ASSUME NEW r \in Runtimes, RevokeAgents(r) PROVE Coherent'
  BY <1>9, HooksAssumption DEF RevokeAgents, OnlyRevoker, Overtake, TypeOK, Requests, Places, Coherent, EventNames,
     Tools, Keys, service
<1>10. ASSUME NEW r \in Runtimes, RevokeRecord(r) PROVE Coherent'
  BY <1>10, HooksAssumption DEF RevokeRecord, OnlyRevoker, Record, Between, TypeOK, Requests, Places, Coherent,
     EventNames, Tools, Keys, service
<1>11. ASSUME NEW r \in Runtimes, RevokeMarkers(r) PROVE Coherent'
  BY <1>11, HooksAssumption DEF RevokeMarkers, OnlyRevoker, Off, TypeOK, Requests, Places, Coherent, EventNames,
     Tools, Keys, service
<1>12. ASSUME NEW h \in Hooks, NEW r \in Runtimes, NEW e \in EventNames, NEW s \in Sessions \cup {NONE}, NEW p \in Procs \cup {NONE}, Receive(h, r, e, s, p) PROVE Coherent'
  BY <1>12, HooksAssumption DEF Receive, Lookup, Idle, TypeOK, Requests, Places, Coherent, EventNames, Tools, Keys,
     service
<1>13. ASSUME NEW h \in Hooks, BrowserEnsured(h) PROVE Coherent'
  BY <1>13, HooksAssumption DEF BrowserEnsured, OnlyHook, TypeOK, Requests, Places, Coherent, EventNames, Tools,
     Keys, service
<1>14. ASSUME NEW h \in Hooks, AgentHook(h) PROVE Coherent'
  <2>1. hook[h].pc = "admitted" /\ hook[h].a \in Agents /\ hook[h].r \in Runtimes /\ hook[h].e \in EventNames /\ hook[h] \in Requests
    <3>1. hook[h] \in Requests
      BY DEF TypeOK
    <3>2. hook[h].pc = "admitted" /\ hook[h].a # NONE
      BY <1>14 DEF AgentHook
    <3> QED
      BY <3>1, <3>2 DEF Requests, Coherent
  <2>2. PICK q :
          /\ hook' = [hook EXCEPT ![h] = q]
          /\ \/ q = Idle
             \/ q = [hook[h] EXCEPT !.pc = "bind"] /\ hook[h].s # NONE
             \/ q = [hook[h] EXCEPT !.pc = "unbind"] /\ hook[h].e = "sessionEnd"
             \/ q = [hook[h] EXCEPT !.pc = "remove"] /\ hook[h].e = "exit"
    <3>1. CASE hook[h].e = "session" /\ hook[h].s # NONE
      BY <1>14, <3>1 DEF AgentHook, Goto
    <3>2. CASE hook[h].e = "sessionEnd"
      BY <1>14, <3>2 DEF AgentHook, Goto
    <3>3. CASE hook[h].e = "exit"
      BY <1>14, <3>3 DEF AgentHook, Goto
    <3>4. CASE ~(hook[h].e = "session" /\ hook[h].s # NONE) /\ hook[h].e # "sessionEnd" /\ hook[h].e # "exit"
      BY <1>14, <3>4 DEF AgentHook, Answer
    <3> QED
      BY <3>1, <3>2, <3>3, <3>4
  <2>3. /\ q.pc = "idle" => q = Idle
        /\ q.pc # "idle" => q.r \in Runtimes /\ q.e \in EventNames
        /\ q.pc \in {"bind", "unbind", "remove", "record", "removeListed"} => q.a \in Agents
        /\ q.pc = "bind" => q.s \in Sessions
        /\ q.pc = "unbind" => q.e = "sessionEnd"
        /\ q.pc \in {"browser", "admitted", "unbind"} /\ q.a # NONE => q.key \in Keys
        /\ q.pc \in {"remove", "exits", "removeListed"} => q.e = "exit"
    <3>1. hook[h].a # NONE => hook[h].key \in Keys
      BY <2>1 DEF Coherent
    <3> QED
      BY <2>1, <2>2, <3>1 DEF Requests, Idle
  <2> QED
    BY <1>14, <2>2, <2>3 DEF AgentHook, OnlyHook, Coherent, TypeOK
<1>15. ASSUME NEW h \in Hooks, BindSession(h) PROVE Coherent'
  BY <1>15, HooksAssumption DEF BindSession, OnlyHook, Answer, Idle, TypeOK, Requests, Places, Coherent,
     EventNames, Tools, Keys, service
<1>16. ASSUME NEW h \in Hooks, EndSession(h) PROVE Coherent'
  BY <1>16, HooksAssumption DEF EndSession, OnlyHook, Answer, Idle, Overtake, TypeOK, Requests, Places, Coherent,
     EventNames, Tools, Keys, service
<1>17. ASSUME NEW h \in Hooks, ExitAgent(h) PROVE Coherent'
  BY <1>17, HooksAssumption DEF ExitAgent, OnlyHook, Answer, Idle, Overtake, RemoveAgent, Without, TypeOK,
     Requests, Places, Coherent, EventNames, Tools, Keys, service
<1>18. ASSUME NEW h \in Hooks, Register(h) PROVE Coherent'
  BY <1>18, HooksAssumption DEF Register, OnlyHook, Resolve, Mint, Identity, Tools, TypeOK, Requests, Places,
     Coherent, EventNames, Tools, Keys, service
<1>19. ASSUME NEW h \in Hooks, RecordRegistered(h) PROVE Coherent'
  BY <1>19, HooksAssumption DEF RecordRegistered, OnlyHook, Answer, Idle, Record, Between, TypeOK, Requests,
     Places, Coherent, EventNames, Tools, Keys, service
<1>20. ASSUME NEW h \in Hooks, Refuse(h) PROVE Coherent'
  BY <1>20, HooksAssumption DEF Refuse, OnlyHook, Answer, Idle, TypeOK, Requests, Places, Coherent, EventNames,
     Tools, Keys, service
<1>21. ASSUME NEW h \in Hooks, ExitAll(h) PROVE Coherent'
  BY <1>21, HooksAssumption DEF ExitAll, OnlyHook, TypeOK, Requests, Places, Coherent, EventNames, Tools, Keys,
     service
<1>22. ASSUME NEW h \in Hooks, ExitEach(h) PROVE Coherent'
  <2>1. CASE Answer(h)
    BY <1>22, <2>1 DEF ExitEach, OnlyHook, Answer, Idle, Coherent, TypeOK
  <2>2. CASE \E a \in hook[h].todo : hook' = [hook EXCEPT ![h] = [hook[h] EXCEPT !.pc = "removeListed", !.a = a, !.todo = hook[h].todo \ {a}]]
    <3>1. PICK a \in hook[h].todo : hook' = [hook EXCEPT ![h] = [hook[h] EXCEPT !.pc = "removeListed", !.a = a, !.todo = hook[h].todo \ {a}]]
      BY <2>2
    <3>2. hook[h] \in Requests /\ a \in Agents
      BY DEF TypeOK, Requests
    <3>3. hook[h].r \in Runtimes /\ hook[h].e = "exit"
      BY <1>22 DEF ExitEach, Coherent
    <3>4. PICK q : q = [hook[h] EXCEPT !.pc = "removeListed", !.a = a, !.todo = hook[h].todo \ {a}]
      OBVIOUS
    <3>5. q.pc = "removeListed" /\ q.a = a /\ q.r = hook[h].r /\ q.e = hook[h].e
      BY <3>2, <3>4 DEF Requests
    <3>6. hook' = [hook EXCEPT ![h] = q]
      BY <3>1, <3>4
    <3> QED
      BY <1>22, <3>2, <3>3, <3>5, <3>6 DEF ExitEach, OnlyHook, Coherent, TypeOK, EventNames, Tools
  <2> QED
    BY <1>22, <2>1, <2>2 DEF ExitEach
<1>23. ASSUME NEW h \in Hooks, RemoveListed(h) PROVE Coherent'
  BY <1>23, HooksAssumption DEF RemoveListed, OnlyHook, Goto, Overtake, RemoveAgent, Without, TypeOK, Requests,
     Places, Coherent, EventNames, Tools, Keys, service
<1>24. ASSUME NEW h \in Hooks, Abandon(h) PROVE Coherent'
  BY <1>24, HooksAssumption DEF Abandon, OnlyHook, Answer, Idle, TypeOK, Requests, Places, Coherent, EventNames,
     Tools, Keys, service
<1>25. CASE OutputHeard
  BY <1>25, HooksAssumption DEF OutputHeard, OnlyOut, TypeOK, Requests, Places, Coherent, EventNames, Tools, Keys,
     service
<1>26. CASE OutputSignal
  BY <1>26, HooksAssumption DEF OutputSignal, OnlyOut, Between, TypeOK, Requests, Places, Coherent, EventNames,
     Tools, Keys, service
<1>27. CASE OutputDone
  BY <1>27, HooksAssumption DEF OutputDone, OnlyOut, Quiet, TypeOK, Requests, Places, Coherent, EventNames, Tools,
     Keys, service
<1>28. CASE Restart
  BY <1>28, HooksAssumption DEF Restart, Idle, Quiet, Off, Unkeyed, TypeOK, Requests, Places, Coherent, EventNames,
     Tools, Keys, service
<1>29. CASE UNCHANGED vars
  BY <1>29 DEF vars, service, TypeOK, Requests, Places, Coherent, EventNames, Tools, Keys
<1>30. CASE Noting
  BY <1>30, NotingTyped DEF OnlyNotes, Coherent
<1>31. CASE OutputReport
  BY <1>31 DEF OutputReport, OnlyOut, Coherent
<1> QED
  BY <1>1, <1>2, <1>3, <1>4, <1>5, <1>6, <1>7, <1>8, <1>9, <1>10, <1>11, <1>12, <1>13, <1>14, <1>15, <1>16, <1>17,
     <1>18, <1>19, <1>20, <1>21, <1>22, <1>23, <1>24, <1>25, <1>26, <1>27, <1>28, <1>29, <1>30, <1>31
  DEF Next, Revoke, HookStep, Noting


\* What some steps do to the requests.
LEMMA HookEffect ==
  ASSUME TypeOK, NEW h \in Hooks, AgentHook(h)
  PROVE  /\ \/ hook'[h] = Idle
            \/ /\ hook'[h].r = hook[h].r /\ hook'[h].a = hook[h].a /\ hook'[h].todo = hook[h].todo
               /\ hook'[h].e = hook[h].e /\ hook'[h].pc \in {"bind", "unbind", "remove"}
         /\ \A x \in Hooks \ {h} : hook'[x] = hook[x]
         /\ UNCHANGED <<bind, tickets, files, owner>>
<1>1. hook[h] \in Requests
  BY DEF TypeOK
<1>2. hook' = [hook EXCEPT ![h] = Idle] \/ \E pc \in {"bind", "unbind", "remove"} : hook' = [hook EXCEPT ![h] = [hook[h] EXCEPT !.pc = pc]]
  BY DEF AgentHook, Goto, Answer
<1> QED
  BY <1>1, <1>2 DEF TypeOK, Requests, AgentHook

\* What a round of an exit of all does to its request.
LEMMA ListEffect ==
  ASSUME TypeOK, NEW h \in Hooks, ExitEach(h)
  PROVE  /\ \/ hook'[h] = Idle /\ UNCHANGED service
            \/ \E a \in hook[h].todo : /\ hook'[h].r = hook[h].r /\ hook'[h].a = a /\ hook'[h].todo = hook[h].todo \ {a}
                                       /\ hook'[h].e = hook[h].e /\ hook'[h].pc = "removeListed"
                                       /\ Record(h, a, "exit")
         /\ \A x \in Hooks \ {h} : hook'[x] = hook[x]
         /\ UNCHANGED <<bind, tickets, files, owner>>
<1>1. hook[h] \in Requests
  BY DEF TypeOK
<1>2. CASE Answer(h) /\ UNCHANGED service
  BY <1>2 DEF TypeOK, Answer, service
<1>3. CASE \E a \in hook[h].todo :
             /\ hook' = [hook EXCEPT ![h] = [hook[h] EXCEPT !.pc = "removeListed", !.a = a, !.todo = hook[h].todo \ {a}]]
             /\ Record(h, a, "exit") /\ UNCHANGED <<bind, tickets, files, owner>>
  <2>1. PICK a \in hook[h].todo :
          /\ hook' = [hook EXCEPT ![h] = [hook[h] EXCEPT !.pc = "removeListed", !.a = a, !.todo = hook[h].todo \ {a}]]
          /\ Record(h, a, "exit") /\ UNCHANGED <<bind, tickets, files, owner>>
    BY <1>3
  <2>2. PICK q : q = [hook[h] EXCEPT !.pc = "removeListed", !.a = a, !.todo = hook[h].todo \ {a}]
    OBVIOUS
  <2>3. q.pc = "removeListed" /\ q.a = a /\ q.r = hook[h].r /\ q.e = hook[h].e /\ q.todo = hook[h].todo \ {a}
    BY <1>1, <2>2 DEF Requests
  <2>4. hook'[h] = q /\ \A x \in Hooks \ {h} : hook'[x] = hook[x]
    BY <2>1, <2>2 DEF TypeOK
  <2> QED
    BY <2>1, <2>3, <2>4
<1> QED
  BY <1>2, <1>3 DEF ExitEach

\* A request that registers an agent names a key of its Runtime.
LEMMA IdentityTyped ==
  ASSUME TypeOK, Coherent, NEW h \in Hooks, Register(h)
  PROVE  hook[h].r \in Runtimes /\ Identity(hook[h]) \in Keys
<1>1. hook[h] \in Requests
  BY DEF TypeOK
<1>2. hook[h].r \in Runtimes
  BY HooksAssumption DEF Coherent, Register
<1> QED
  BY <1>1, <1>2 DEF Requests, Identity, Register, Keys

\* An agent keeps the Runtime it was minted for.
LEMMA OwnerKept == TypeOK /\ [Next]_vars => \A a \in Agents : owner[a] # NONE => owner'[a] = owner[a]
<1> SUFFICES ASSUME TypeOK, [Next]_vars PROVE \A a \in Agents : owner[a] # NONE => owner'[a] = owner[a]
  OBVIOUS
<1>1. ASSUME NEW r \in Runtimes, Launch(r) PROVE \A a \in Agents : owner[a] # NONE => owner'[a] = owner[a]
  BY <1>1, HooksAssumption DEF Launch, Mint, TypeOK, service
<1>2. ASSUME NEW r \in Runtimes, Created(r) PROVE \A a \in Agents : owner[a] # NONE => owner'[a] = owner[a]
  BY <1>2, HooksAssumption DEF Created, TypeOK, service
<1>3. ASSUME NEW r \in Runtimes, LaunchFailed(r) PROVE \A a \in Agents : owner[a] # NONE => owner'[a] = owner[a]
  BY <1>3, HooksAssumption DEF LaunchFailed, RevokeToken, Overtake, TypeOK, service
<1>4. ASSUME NEW r \in Runtimes, SetupFailed(r) PROVE \A a \in Agents : owner[a] # NONE => owner'[a] = owner[a]
  BY <1>4, HooksAssumption DEF SetupFailed, RevokeToken, Overtake, TypeOK, service
<1>5. ASSUME NEW r \in Runtimes, LaunchAbandoned(r) PROVE \A a \in Agents : owner[a] # NONE => owner'[a] = owner[a]
  BY <1>5, HooksAssumption DEF LaunchAbandoned, TypeOK, service
<1>6. ASSUME NEW r \in Runtimes, OutputArrives(r) PROVE \A a \in Agents : owner[a] # NONE => owner'[a] = owner[a]
  BY <1>6, HooksAssumption DEF OutputArrives, OnlyOut, Quiet, TypeOK, service
<1>7. ASSUME NEW r \in Runtimes, Exit(r) PROVE \A a \in Agents : owner[a] # NONE => owner'[a] = owner[a]
  BY <1>7, HooksAssumption DEF Exit, TypeOK, service
<1>8. ASSUME NEW r \in Runtimes, RevokeTickets(r) PROVE \A a \in Agents : owner[a] # NONE => owner'[a] = owner[a]
  BY <1>8, HooksAssumption DEF RevokeTickets, OnlyRevoker, TypeOK, service
<1>9. ASSUME NEW r \in Runtimes, RevokeAgents(r) PROVE \A a \in Agents : owner[a] # NONE => owner'[a] = owner[a]
  BY <1>9, HooksAssumption DEF RevokeAgents, OnlyRevoker, Overtake, TypeOK, service
<1>10. ASSUME NEW r \in Runtimes, RevokeRecord(r) PROVE \A a \in Agents : owner[a] # NONE => owner'[a] = owner[a]
  BY <1>10, HooksAssumption DEF RevokeRecord, OnlyRevoker, Record, Between, TypeOK, service
<1>11. ASSUME NEW r \in Runtimes, RevokeMarkers(r) PROVE \A a \in Agents : owner[a] # NONE => owner'[a] = owner[a]
  BY <1>11, HooksAssumption DEF RevokeMarkers, OnlyRevoker, Off, TypeOK, service
<1>12. ASSUME NEW h \in Hooks, NEW r \in Runtimes, NEW e \in EventNames, NEW s \in Sessions \cup {NONE}, NEW p \in Procs \cup {NONE}, Receive(h, r, e, s, p) PROVE \A a \in Agents : owner[a] # NONE => owner'[a] = owner[a]
  BY <1>12, HooksAssumption DEF Receive, Lookup, Idle, TypeOK, service
<1>13. ASSUME NEW h \in Hooks, BrowserEnsured(h) PROVE \A a \in Agents : owner[a] # NONE => owner'[a] = owner[a]
  BY <1>13, HooksAssumption DEF BrowserEnsured, OnlyHook, TypeOK, service
<1>14. ASSUME NEW h \in Hooks, AgentHook(h) PROVE \A a \in Agents : owner[a] # NONE => owner'[a] = owner[a]
  BY <1>14, HooksAssumption DEF AgentHook, OnlyHook, Record, Between, Goto, Answer, Idle, TypeOK, service
<1>15. ASSUME NEW h \in Hooks, BindSession(h) PROVE \A a \in Agents : owner[a] # NONE => owner'[a] = owner[a]
  BY <1>15, HooksAssumption DEF BindSession, OnlyHook, Answer, Idle, TypeOK, service
<1>16. ASSUME NEW h \in Hooks, EndSession(h) PROVE \A a \in Agents : owner[a] # NONE => owner'[a] = owner[a]
  BY <1>16, HooksAssumption DEF EndSession, OnlyHook, Answer, Idle, Overtake, TypeOK, service
<1>17. ASSUME NEW h \in Hooks, ExitAgent(h) PROVE \A a \in Agents : owner[a] # NONE => owner'[a] = owner[a]
  BY <1>17, HooksAssumption DEF ExitAgent, OnlyHook, Answer, Idle, Overtake, RemoveAgent, Without, TypeOK, service
<1>18. ASSUME NEW h \in Hooks, Register(h) PROVE \A a \in Agents : owner[a] # NONE => owner'[a] = owner[a]
  BY <1>18, HooksAssumption DEF Register, OnlyHook, Resolve, Mint, Identity, Tools, TypeOK, service
<1>19. ASSUME NEW h \in Hooks, RecordRegistered(h) PROVE \A a \in Agents : owner[a] # NONE => owner'[a] = owner[a]
  BY <1>19, HooksAssumption DEF RecordRegistered, OnlyHook, Answer, Idle, Record, Between, TypeOK, service
<1>20. ASSUME NEW h \in Hooks, Refuse(h) PROVE \A a \in Agents : owner[a] # NONE => owner'[a] = owner[a]
  BY <1>20, HooksAssumption DEF Refuse, OnlyHook, Answer, Idle, TypeOK, service
<1>21. ASSUME NEW h \in Hooks, ExitAll(h) PROVE \A a \in Agents : owner[a] # NONE => owner'[a] = owner[a]
  BY <1>21, HooksAssumption DEF ExitAll, OnlyHook, TypeOK, service
<1>22. ASSUME NEW h \in Hooks, ExitEach(h) PROVE \A a \in Agents : owner[a] # NONE => owner'[a] = owner[a]
  BY <1>22, HooksAssumption DEF ExitEach, OnlyHook, Answer, Idle, Record, Between, TypeOK, service
<1>23. ASSUME NEW h \in Hooks, RemoveListed(h) PROVE \A a \in Agents : owner[a] # NONE => owner'[a] = owner[a]
  BY <1>23, HooksAssumption DEF RemoveListed, OnlyHook, Goto, Overtake, RemoveAgent, Without, TypeOK, service
<1>24. ASSUME NEW h \in Hooks, Abandon(h) PROVE \A a \in Agents : owner[a] # NONE => owner'[a] = owner[a]
  BY <1>24, HooksAssumption DEF Abandon, OnlyHook, Answer, Idle, TypeOK, service
<1>25. CASE OutputHeard
  BY <1>25, HooksAssumption DEF OutputHeard, OnlyOut, TypeOK, service
<1>26. CASE OutputSignal
  BY <1>26, HooksAssumption DEF OutputSignal, OnlyOut, Between, TypeOK, service
<1>27. CASE OutputDone
  BY <1>27, HooksAssumption DEF OutputDone, OnlyOut, Quiet, TypeOK, service
<1>28. CASE Restart
  BY <1>28, HooksAssumption DEF Restart, Idle, Quiet, Off, Unkeyed, TypeOK, service
<1>29. CASE UNCHANGED vars
  BY <1>29 DEF vars, service, TypeOK
<1>30. CASE Noting
  BY <1>30, NotingTyped DEF OnlyNotes
<1>31. CASE OutputReport
  BY <1>31 DEF OutputReport, OnlyOut
<1> QED
  BY <1>1, <1>2, <1>3, <1>4, <1>5, <1>6, <1>7, <1>8, <1>9, <1>10, <1>11, <1>12, <1>13, <1>14, <1>15, <1>16, <1>17,
     <1>18, <1>19, <1>20, <1>21, <1>22, <1>23, <1>24, <1>25, <1>26, <1>27, <1>28, <1>29, <1>30, <1>31
  DEF Next, Revoke, HookStep, Noting

\* No step gives the agent of one Runtime to another.
LEMMA OwnedKept == TypeOK /\ Coherent /\ Owned /\ [Next]_vars => Owned'
<1> SUFFICES ASSUME TypeOK, Coherent, Owned, [Next]_vars PROVE Owned'
  OBVIOUS
<1>1. ASSUME NEW r \in Runtimes, Launch(r) PROVE Owned'
  <2>1. UNCHANGED <<hook, out, revoker>>
    BY <1>1 DEF Launch
  <2>2. CASE UNCHANGED <<managed, bind, owner>>
    BY <2>1, <2>2 DEF Owned
  <2>3. CASE \E a \in Agents : /\ Mint(a, r)
                               /\ managed' = [managed EXCEPT ![r] = a]
                               /\ bind' = [bind EXCEPT ![r]["bare"] = a]
    <3>1. PICK a \in Agents : /\ Mint(a, r)
                              /\ managed' = [managed EXCEPT ![r] = a]
                              /\ bind' = [bind EXCEPT ![r]["bare"] = a]
      BY <2>3
    <3>2. /\ owner[a] = NONE /\ owner'[a] = r /\ \A b \in Agents : owner[b] # NONE => owner'[b] = owner[b]
      BY <3>1 DEF Mint, TypeOK
    <3>3. \A x \in Runtimes : managed'[x] # NONE => owner'[managed'[x]] = x
      BY <3>1, <3>2, HooksAssumption DEF Owned, TypeOK
    <3>4. \A x \in Runtimes : \A k \in Keys : bind'[x][k] = bind[x][k] \/ (x = r /\ bind'[x][k] = a)
      BY <3>1 DEF TypeOK
    <3>5. \A x \in Runtimes : \A k \in Keys : bind'[x][k] # NONE => owner'[bind'[x][k]] = x
      BY <3>2, <3>4, HooksAssumption DEF Owned, TypeOK
    <3>6. \A h \in Hooks : hook[h].a \in Agents \cup {NONE} /\ hook[h].todo \subseteq Agents
      BY DEF TypeOK, Requests
    <3>7. \A h \in Hooks : hook[h].a # NONE => hook[h].r \in Runtimes
      BY <3>6, HooksAssumption DEF Coherent, Idle
    <3>8. \A h \in Hooks : hook[h].todo # {} => hook[h].r \in Runtimes
      BY <3>6, HooksAssumption DEF Coherent, Idle
    <3>9. \A h \in Hooks : hook[h].a # NONE => owner'[hook[h].a] = hook[h].r
      BY <3>2, <3>6, <3>7, HooksAssumption DEF Owned
    <3>10. \A h \in Hooks : \A b \in hook[h].todo : owner'[b] = hook[h].r
      BY <3>2, <3>6, <3>8, HooksAssumption DEF Owned
    <3>11. \A x \in Runtimes : \A b \in revoker[x].todo : owner'[b] = x
      BY <3>2, HooksAssumption DEF Owned, TypeOK, Revokers
    <3>12. \A b \in out.agents : owner'[b] = out.r
      BY <3>2, HooksAssumption DEF Owned, TypeOK, Listeners, Coherent, Quiet
    <3> QED
      BY <2>1, <3>3, <3>5, <3>9, <3>10, <3>11, <3>12 DEF Owned
  <2> QED
    BY <1>1, <2>2, <2>3 DEF Launch
<1>2. ASSUME NEW r \in Runtimes, Created(r) PROVE Owned'
  BY <1>2, HooksAssumption DEF Created, TypeOK, Requests, Listeners, Revokers, Owned, Coherent, Keys, Bound,
     Unkeyed, Idle, Quiet, Off, service
<1>3. ASSUME NEW r \in Runtimes, LaunchFailed(r) PROVE Owned'
  BY <1>3, HooksAssumption DEF LaunchFailed, RevokeToken, Overtake, TypeOK, Requests, Listeners, Revokers, Owned,
     Coherent, Keys, Bound, Unkeyed, Idle, Quiet, Off, service
<1>4. ASSUME NEW r \in Runtimes, SetupFailed(r) PROVE Owned'
  BY <1>4, HooksAssumption DEF SetupFailed, RevokeToken, Overtake, TypeOK, Requests, Listeners, Revokers, Owned,
     Coherent, Keys, Bound, Unkeyed, Idle, Quiet, Off, service
<1>5. ASSUME NEW r \in Runtimes, LaunchAbandoned(r) PROVE Owned'
  BY <1>5, HooksAssumption DEF LaunchAbandoned, TypeOK, Requests, Listeners, Revokers, Owned, Coherent, Keys,
     Bound, Unkeyed, Idle, Quiet, Off, service
<1>6. ASSUME NEW r \in Runtimes, OutputArrives(r) PROVE Owned'
  BY <1>6, HooksAssumption DEF OutputArrives, OnlyOut, Quiet, TypeOK, Requests, Listeners, Revokers, Owned,
     Coherent, Keys, Bound, Unkeyed, Idle, Quiet, Off, service
<1>7. ASSUME NEW r \in Runtimes, Exit(r) PROVE Owned'
  BY <1>7, HooksAssumption DEF Exit, TypeOK, Requests, Listeners, Revokers, Owned, Coherent, Keys, Bound, Unkeyed,
     Idle, Quiet, Off, service
<1>8. ASSUME NEW r \in Runtimes, RevokeTickets(r) PROVE Owned'
  BY <1>8, HooksAssumption DEF RevokeTickets, OnlyRevoker, TypeOK, Requests, Listeners, Revokers, Owned, Coherent,
     Keys, Bound, Unkeyed, Idle, Quiet, Off, service
<1>9. ASSUME NEW r \in Runtimes, RevokeAgents(r) PROVE Owned'
  BY <1>9, HooksAssumption DEF RevokeAgents, OnlyRevoker, Overtake, TypeOK, Requests, Listeners, Revokers, Owned,
     Coherent, Keys, Bound, Unkeyed, Idle, Quiet, Off, service
<1>10. ASSUME NEW r \in Runtimes, RevokeRecord(r) PROVE Owned'
  BY <1>10, HooksAssumption DEF RevokeRecord, OnlyRevoker, Record, Between, TypeOK, Requests, Listeners, Revokers,
     Owned, Coherent, Keys, Bound, Unkeyed, Idle, Quiet, Off, service
<1>11. ASSUME NEW r \in Runtimes, RevokeMarkers(r) PROVE Owned'
  BY <1>11, HooksAssumption DEF RevokeMarkers, OnlyRevoker, Off, TypeOK, Requests, Listeners, Revokers, Owned,
     Coherent, Keys, Bound, Unkeyed, Idle, Quiet, Off, service
<1>12. ASSUME NEW h \in Hooks, NEW r \in Runtimes, NEW e \in EventNames, NEW s \in Sessions \cup {NONE}, NEW p \in Procs \cup {NONE}, Receive(h, r, e, s, p) PROVE Owned'
  <2> DEFINE key == Lookup(r, s, p)
  <2>1. key \in Keys \cup {NONE} /\ (key # NONE => bind[r][key] # NONE)
    BY HooksAssumption DEF TypeOK, Lookup, Keys
  <2> HIDE DEF key
  <2>2. hook' = [hook EXCEPT ![h] =
       [pc |-> IF e = "browse" THEN "browser" ELSE "admitted", r |-> r, e |-> e, s |-> s,
        p |-> IF key = NONE THEN p ELSE NONE, key |-> key,
        a |-> IF key = NONE THEN NONE ELSE bind[r][key], todo |-> {}]]
    BY <1>12 DEF Receive, key
  <2>3. hook'[h].r = r /\ (hook'[h].a # NONE => owner[hook'[h].a] = r) /\ hook'[h].todo = {}
    BY <2>1, <2>2 DEF Owned, TypeOK
  <2>4. \A x \in Hooks \ {h} : hook'[x] = hook[x]
    BY <2>2 DEF TypeOK
  <2>5. UNCHANGED <<managed, bind, owner, out, revoker>>
    BY <1>12 DEF Receive, service
  <2> QED
    BY <2>3, <2>4, <2>5 DEF Owned
<1>13. ASSUME NEW h \in Hooks, BrowserEnsured(h) PROVE Owned'
  BY <1>13, HooksAssumption DEF BrowserEnsured, OnlyHook, TypeOK, Requests, Listeners, Revokers, Owned, Coherent,
     Keys, Bound, Unkeyed, Idle, Quiet, Off, service
<1>14. ASSUME NEW h \in Hooks, AgentHook(h) PROVE Owned'
  <2>1. hook'[h] = Idle \/ (hook'[h].r = hook[h].r /\ hook'[h].a = hook[h].a /\ hook'[h].todo = hook[h].todo)
    BY <1>14, HookEffect
  <2>2. (\A x \in Hooks \ {h} : hook'[x] = hook[x]) /\ UNCHANGED <<managed, bind, owner, out, revoker>>
    BY <1>14, HookEffect DEF AgentHook, OnlyHook
  <2> QED
    BY <2>1, <2>2 DEF Owned, Idle
<1>15. ASSUME NEW h \in Hooks, BindSession(h) PROVE Owned'
  BY <1>15, HooksAssumption DEF BindSession, OnlyHook, Answer, Idle, TypeOK, Requests, Listeners, Revokers, Owned,
     Coherent, Keys, Bound, Unkeyed, Idle, Quiet, Off, service
<1>16. ASSUME NEW h \in Hooks, EndSession(h) PROVE Owned'
  BY <1>16, HooksAssumption DEF EndSession, OnlyHook, Answer, Idle, Overtake, TypeOK, Requests, Listeners,
     Revokers, Owned, Coherent, Keys, Bound, Unkeyed, Idle, Quiet, Off, service
<1>17. ASSUME NEW h \in Hooks, ExitAgent(h) PROVE Owned'
  BY <1>17, HooksAssumption DEF ExitAgent, OnlyHook, Answer, Idle, Overtake, RemoveAgent, Without, TypeOK,
     Requests, Listeners, Revokers, Owned, Coherent, Keys, Bound, Unkeyed, Idle, Quiet, Off, service
<1>18. ASSUME NEW h \in Hooks, Register(h) PROVE Owned'
  <2>1. PICK a \in Agents :
          /\ Resolve(hook[h].r, Identity(hook[h]), a)
          /\ hook' = [hook EXCEPT ![h] = [hook[h] EXCEPT !.pc = "record", !.a = a]]
    BY <1>18 DEF Register
  <2>2. hook[h].r \in Runtimes /\ Identity(hook[h]) \in Keys
    BY <1>18, IdentityTyped
  <2>3. owner'[a] = hook[h].r
    <3>1. CASE bind[hook[h].r][Identity(hook[h])] # NONE
      BY <2>1, <2>2, <3>1 DEF Resolve, Owned
    <3>2. CASE bind[hook[h].r][Identity(hook[h])] = NONE /\ Bound(hook[h].r) # {}
      BY <2>1, <2>2, <3>2 DEF Resolve, Owned, Bound
    <3>3. CASE bind[hook[h].r][Identity(hook[h])] = NONE /\ Bound(hook[h].r) = {}
      BY <2>1, <2>2, <3>3 DEF Resolve, Mint, TypeOK
    <3> QED
      BY <3>1, <3>2, <3>3
  <2>4. \A x \in Runtimes : \A k \in Keys : bind'[x][k] = bind[x][k] \/ (x = hook[h].r /\ bind'[x][k] = a)
    BY <2>1, <2>2 DEF Resolve, TypeOK
  <2>5. \A b \in Agents : owner[b] # NONE => owner'[b] = owner[b]
    BY OwnerKept
  <2>6. \A x \in Runtimes : \A k \in Keys : bind'[x][k] # NONE => owner'[bind'[x][k]] = x
    BY <2>3, <2>4, <2>5, HooksAssumption DEF Owned, TypeOK
  <2>7. hook'[h].r = hook[h].r /\ hook'[h].a = a /\ hook'[h].todo = hook[h].todo
    BY <2>1 DEF TypeOK, Requests
  <2>8. \A x \in Hooks \ {h} : hook'[x] = hook[x]
    BY <2>1 DEF TypeOK
  <2>9. \A x \in Hooks : hook[x].a \in Agents \cup {NONE} /\ hook[x].todo \subseteq Agents
    BY DEF TypeOK, Requests
  <2>10. \A x \in Hooks : hook[x].a # NONE \/ hook[x].todo # {} => hook[x].r \in Runtimes
    BY DEF Coherent, Idle
  <2>11. \A x \in Hooks \ {h} : hook[x].a # NONE => owner'[hook[x].a] = hook[x].r
    BY <2>5, <2>9, <2>10, HooksAssumption DEF Owned
  <2>12. \A x \in Hooks : \A b \in hook[x].todo : owner'[b] = hook[x].r
    BY <2>5, <2>9, <2>10, HooksAssumption DEF Owned
  <2>13. \A x \in Runtimes : \A b \in revoker[x].todo : owner'[b] = x
    BY <2>5, HooksAssumption DEF Owned, TypeOK, Revokers
  <2>14. \A b \in out.agents : owner'[b] = out.r
    BY <2>5, HooksAssumption DEF Owned, TypeOK, Listeners, Coherent, Quiet
  <2>15. \A x \in Runtimes : managed[x] # NONE => owner'[managed[x]] = x
    BY <2>5, HooksAssumption DEF Owned, TypeOK
  <2>16. UNCHANGED <<managed, out, revoker>>
    BY <1>18 DEF Register, OnlyHook
  <2> QED
    BY <2>2, <2>3, <2>6, <2>7, <2>8, <2>11, <2>12, <2>13, <2>14, <2>15, <2>16 DEF Owned
<1>19. ASSUME NEW h \in Hooks, RecordRegistered(h) PROVE Owned'
  BY <1>19, HooksAssumption DEF RecordRegistered, OnlyHook, Answer, Idle, Record, Between, TypeOK, Requests,
     Listeners, Revokers, Owned, Coherent, Keys, Bound, Unkeyed, Idle, Quiet, Off, service
<1>20. ASSUME NEW h \in Hooks, Refuse(h) PROVE Owned'
  BY <1>20, HooksAssumption DEF Refuse, OnlyHook, Answer, Idle, TypeOK, Requests, Listeners, Revokers, Owned,
     Coherent, Keys, Bound, Unkeyed, Idle, Quiet, Off, service
<1>21. ASSUME NEW h \in Hooks, ExitAll(h) PROVE Owned'
  BY <1>21, HooksAssumption DEF ExitAll, OnlyHook, TypeOK, Requests, Listeners, Revokers, Owned, Coherent, Keys,
     Bound, Unkeyed, Idle, Quiet, Off, service
<1>22. ASSUME NEW h \in Hooks, ExitEach(h) PROVE Owned'
  <2>1. \/ hook'[h] = Idle
        \/ \E a \in hook[h].todo : hook'[h].r = hook[h].r /\ hook'[h].a = a /\ hook'[h].todo = hook[h].todo \ {a}
    BY <1>22, ListEffect
  <2>2. (\A x \in Hooks \ {h} : hook'[x] = hook[x]) /\ UNCHANGED <<managed, bind, owner, out, revoker>>
    BY <1>22, ListEffect DEF ExitEach, OnlyHook, service
  <2> QED
    BY <2>1, <2>2 DEF Owned, Idle
<1>23. ASSUME NEW h \in Hooks, RemoveListed(h) PROVE Owned'
  BY <1>23, HooksAssumption DEF RemoveListed, OnlyHook, Goto, Overtake, RemoveAgent, Without, TypeOK, Requests,
     Listeners, Revokers, Owned, Coherent, Keys, Bound, Unkeyed, Idle, Quiet, Off, service
<1>24. ASSUME NEW h \in Hooks, Abandon(h) PROVE Owned'
  BY <1>24, HooksAssumption DEF Abandon, OnlyHook, Answer, Idle, TypeOK, Requests, Listeners, Revokers, Owned,
     Coherent, Keys, Bound, Unkeyed, Idle, Quiet, Off, service
<1>25. CASE OutputHeard
  BY <1>25, HooksAssumption DEF OutputHeard, OnlyOut, TypeOK, Requests, Listeners, Revokers, Owned, Coherent, Keys,
     Bound, Unkeyed, Idle, Quiet, Off, service
<1>26. CASE OutputSignal
  BY <1>26, HooksAssumption DEF OutputSignal, OnlyOut, Between, TypeOK, Requests, Listeners, Revokers, Owned,
     Coherent, Keys, Bound, Unkeyed, Idle, Quiet, Off, service
<1>27. CASE OutputDone
  BY <1>27, HooksAssumption DEF OutputDone, OnlyOut, Quiet, TypeOK, Requests, Listeners, Revokers, Owned, Coherent,
     Keys, Bound, Unkeyed, Idle, Quiet, Off, service
<1>28. CASE Restart
  BY <1>28, HooksAssumption DEF Restart, Idle, Quiet, Off, Unkeyed, TypeOK, Requests, Listeners, Revokers, Owned,
     Coherent, Keys, Bound, Unkeyed, Idle, Quiet, Off, service
<1>29. CASE UNCHANGED vars
  BY <1>29 DEF vars, service, TypeOK, Requests, Listeners, Revokers, Owned, Coherent, Keys, Bound, Unkeyed, Idle,
     Quiet, Off
<1>30. CASE Noting
  BY <1>30, NotingTyped DEF OnlyNotes, Owned
<1>31. CASE OutputReport
  BY <1>31 DEF OutputReport, OnlyOut, Owned
<1> QED
  BY <1>1, <1>2, <1>3, <1>4, <1>5, <1>6, <1>7, <1>8, <1>9, <1>10, <1>11, <1>12, <1>13, <1>14, <1>15, <1>16, <1>17,
     <1>18, <1>19, <1>20, <1>21, <1>22, <1>23, <1>24, <1>25, <1>26, <1>27, <1>28, <1>29, <1>30, <1>31
  DEF Next, Revoke, HookStep, Noting


\* What the changes of the keys do to the agents of each Runtime.
LEMMA SameKeys == ASSUME UNCHANGED bind PROVE \A x \in Runtimes : Bound(x)' = Bound(x)
  BY DEF Bound

\* A token that is revoked has no agents left.
LEMMA NoKeys ==
  ASSUME TypeOK, NEW r \in Runtimes, bind' = [bind EXCEPT ![r] = Unkeyed]
  PROVE  Bound(r)' = {} /\ \A x \in Runtimes \ {r} : Bound(x)' = Bound(x)
<1>1. bind'[r] = Unkeyed /\ \A x \in Runtimes \ {r} : bind'[x] = bind[x]
  BY DEF TypeOK
<1> QED
  BY <1>1 DEF Bound, Unkeyed

\* One key is set or removed.
LEMMA OneKey ==
  ASSUME TypeOK, NEW r \in Runtimes, NEW k \in Keys, NEW v \in Agents \cup {NONE}, bind' = [bind EXCEPT ![r][k] = v]
  PROVE  /\ v # NONE => v \in Bound(r)'
         /\ Bound(r)' \subseteq Bound(r) \cup ({v} \ {NONE})
         /\ bind[r][k] = NONE => Bound(r) \subseteq Bound(r)'
         /\ \A x \in Runtimes \ {r} : Bound(x)' = Bound(x)
<1>1. /\ bind'[r][k] = v /\ \A j \in Keys \ {k} : bind'[r][j] = bind[r][j]
      /\ \A x \in Runtimes \ {r} : bind'[x] = bind[x]
  BY DEF TypeOK
<1>2. v # NONE => v \in Bound(r)'
  BY <1>1 DEF Bound
<1>3. Bound(r)' \subseteq Bound(r) \cup ({v} \ {NONE})
  BY <1>1 DEF Bound
<1>4. bind[r][k] = NONE => Bound(r) \subseteq Bound(r)'
  BY <1>1 DEF Bound
<1>5. \A x \in Runtimes \ {r} : Bound(x)' = Bound(x)
  BY <1>1 DEF Bound
<1> QED
  BY <1>2, <1>3, <1>4, <1>5

\* An agent is removed from every key.
LEMMA KeysWithout ==
  ASSUME TypeOK, NEW a \in Agents, bind' = Without(a)
  PROVE  \A x \in Runtimes : Bound(x)' = Bound(x) \ {a}
<1>1. \A x \in Runtimes : \A k \in Keys : bind'[x][k] = IF bind[x][k] = a THEN NONE ELSE bind[x][k]
  BY DEF Without
<1> QED
  BY <1>1, HooksAssumption DEF Bound

\* After a restart only managed agents are bound, whose file is there.
LEMMA KeysOnDisk ==
  ASSUME TypeOK, Restart
  PROVE  \A x \in Runtimes : Bound(x)' \subseteq {managed[x]} /\ (x \notin files => Bound(x)' = {})
<1>1. \A x \in Runtimes : \A k \in Keys : bind'[x][k] = IF k = "bare" /\ x \in files THEN managed[x] ELSE NONE
  BY DEF Restart, Unkeyed, Keys
<1> QED
  BY <1>1 DEF Bound

\* Requests at work, the output thread and agents in use are of Runtimes there are.
Placed ==
  /\ \A x \in Hooks :
       /\ hook[x].pc # "idle" => hook[x].r \in Runtimes
       /\ hook[x].r # NONE => hook[x].r \in Runtimes
       /\ hook[x].a \in Agents \cup {NONE} /\ hook[x].todo \subseteq Agents
       /\ hook[x].a # NONE => owner[hook[x].a] = hook[x].r
       /\ hook[x].pc \in {"unbind", "remove", "removeListed"} => hook[x].a # NONE
  /\ out.pc # "idle" => out.r \in Runtimes
  /\ \A a \in Agents : owner[a] # NONE => owner[a] \in Runtimes

LEMMA OfRuntimes == TypeOK /\ Coherent /\ Owned => Placed
  BY HooksAssumption DEF TypeOK, Coherent, Owned, Requests, Idle, Placed

\* From here on, one lemma per action: it keeps the keys, requests and events in agreement.
LEMMA CreatedKeeps ==
  ASSUME HooksInv, NEW r \in Runtimes, Created(r)
  PROVE  Agreed'
<1>1. TypeOK /\ Coherent /\ Owned /\ Agreed
  BY DEF HooksInv
<1>2. Placed
  BY <1>1, OfRuntimes
<1>3. UNCHANGED <<bind, tickets, files, owner, last, overtaken>> /\ \A x \in Runtimes : Bound(x)' = Bound(x)
  BY SameKeys DEF Created, service
<1>4. UNCHANGED <<hook, out, revoker>>
  BY DEF Created
<1>5. runtime[r] = "starting" /\ \A x \in Runtimes : runtime'[x] = IF x = r THEN "alive" ELSE runtime[x]
  BY <1>1 DEF Created, TypeOK
<1>6. Unborn'
  BY <1>1, <1>2, <1>3, <1>4, <1>5, HooksAssumption DEF Agreed, Placed, Unborn, Dead
<1>7. OneAgentPerRuntime'
  BY <1>1, <1>2, <1>3, <1>4, <1>5, HooksAssumption DEF Agreed, Placed, OneAgentPerRuntime, Held
<1>8. Held'
  BY <1>1, <1>2, <1>3, <1>4, <1>5, HooksAssumption DEF Agreed, Placed, Held, OneAgentPerRuntime
<1>9. Dead'
  BY <1>1, <1>2, <1>3, <1>4, <1>5, HooksAssumption DEF Agreed, Placed, Dead, Unborn
<1>10. Telling'
  BY <1>1, <1>2, <1>3, <1>4, <1>5, HooksAssumption DEF Agreed, Placed, Telling, Held
<1>11. GoneIsSeenGone'
  BY <1>1, <1>2, <1>3, <1>4, <1>5, HooksAssumption DEF Agreed, Placed, GoneIsSeenGone, Held, Telling, Owned,
     OneAgentPerRuntime, Unborn, Dead
<1> QED
  BY <1>6, <1>7, <1>8, <1>9, <1>10, <1>11 DEF Agreed

LEMMA LaunchAbandonedKeeps ==
  ASSUME HooksInv, NEW r \in Runtimes, LaunchAbandoned(r)
  PROVE  Agreed'
<1>1. TypeOK /\ Coherent /\ Owned /\ Agreed
  BY DEF HooksInv
<1>2. Placed
  BY <1>1, OfRuntimes
<1>3. UNCHANGED <<bind, tickets, files, owner, last, overtaken>> /\ \A x \in Runtimes : Bound(x)' = Bound(x)
  BY SameKeys DEF LaunchAbandoned, service
<1>4. UNCHANGED <<hook, out, revoker>>
  BY DEF LaunchAbandoned
<1>5. runtime[r] = "starting" /\ \A x \in Runtimes : runtime'[x] = IF x = r THEN "abandoned" ELSE runtime[x]
  BY <1>1 DEF LaunchAbandoned, TypeOK
<1>6. Unborn'
  BY <1>1, <1>2, <1>3, <1>4, <1>5, HooksAssumption DEF Agreed, Placed, Unborn, Dead
<1>7. OneAgentPerRuntime'
  BY <1>1, <1>2, <1>3, <1>4, <1>5, HooksAssumption DEF Agreed, Placed, OneAgentPerRuntime, Held
<1>8. Held'
  BY <1>1, <1>2, <1>3, <1>4, <1>5, HooksAssumption DEF Agreed, Placed, Held, OneAgentPerRuntime
<1>9. Dead'
  BY <1>1, <1>2, <1>3, <1>4, <1>5, HooksAssumption DEF Agreed, Placed, Dead, Unborn
<1>10. Telling'
  BY <1>1, <1>2, <1>3, <1>4, <1>5, HooksAssumption DEF Agreed, Placed, Telling, Held
<1>11. GoneIsSeenGone'
  BY <1>1, <1>2, <1>3, <1>4, <1>5, HooksAssumption DEF Agreed, Placed, GoneIsSeenGone, Held, Telling, Owned,
     OneAgentPerRuntime, Unborn, Dead
<1> QED
  BY <1>6, <1>7, <1>8, <1>9, <1>10, <1>11 DEF Agreed

LEMMA ExitKeeps ==
  ASSUME HooksInv, NEW r \in Runtimes, Exit(r)
  PROVE  Agreed'
<1>1. TypeOK /\ Coherent /\ Owned /\ Agreed
  BY DEF HooksInv
<1>2. Placed
  BY <1>1, OfRuntimes
<1>3. UNCHANGED <<bind, tickets, files, owner, last, overtaken>> /\ \A x \in Runtimes : Bound(x)' = Bound(x)
  BY SameKeys DEF Exit, service
<1>4. UNCHANGED <<hook, out>>
  BY DEF Exit
<1>5. runtime[r] = "alive" /\ \A x \in Runtimes : runtime'[x] = IF x = r THEN "exited" ELSE runtime[x]
  BY <1>1 DEF Exit, TypeOK
<1>6. \A x \in Runtimes : revoker'[x].todo = revoker[x].todo /\ revoker'[x].pc = IF x = r THEN "grace" ELSE revoker[x].pc
  BY <1>1 DEF Exit, TypeOK, Revokers
<1>7. Unborn'
  BY <1>1, <1>2, <1>3, <1>4, <1>5, <1>6, HooksAssumption DEF Agreed, Placed, Unborn, Dead
<1>8. OneAgentPerRuntime'
  BY <1>1, <1>2, <1>3, <1>4, <1>5, <1>6, HooksAssumption DEF Agreed, Placed, OneAgentPerRuntime, Held
<1>9. Held'
  BY <1>1, <1>2, <1>3, <1>4, <1>5, <1>6, HooksAssumption DEF Agreed, Placed, Held, OneAgentPerRuntime
<1>10. Dead'
  BY <1>1, <1>2, <1>3, <1>4, <1>5, <1>6, HooksAssumption DEF Agreed, Placed, Dead, Unborn
<1>11. Telling'
  BY <1>1, <1>2, <1>3, <1>4, <1>5, <1>6, HooksAssumption DEF Agreed, Placed, Telling, Held
<1>12. GoneIsSeenGone'
  BY <1>1, <1>2, <1>3, <1>4, <1>5, <1>6, HooksAssumption DEF Agreed, Placed, GoneIsSeenGone, Held, Telling, Owned,
     OneAgentPerRuntime, Unborn, Dead
<1> QED
  BY <1>7, <1>8, <1>9, <1>10, <1>11, <1>12 DEF Agreed

LEMMA LaunchFailedKeeps ==
  ASSUME HooksInv, NEW r \in Runtimes, LaunchFailed(r)
  PROVE  Agreed'
<1>1. TypeOK /\ Coherent /\ Owned /\ Agreed
  BY DEF HooksInv
<1>2. Placed
  BY <1>1, OfRuntimes
<1>3. Bound(r)' = {} /\ \A x \in Runtimes \ {r} : Bound(x)' = Bound(x)
  BY <1>1, NoKeys DEF LaunchFailed, RevokeToken
<1>4. UNCHANGED <<owner, last, hook, out, revoker>> /\ tickets' = tickets \ {r} /\ files' = files \ {r}
  BY DEF LaunchFailed, RevokeToken
<1>5. /\ overtaken \subseteq overtaken' /\ overtaken' \subseteq overtaken \cup {r}
      /\ r \notin overtaken' => (\A x \in Hooks : hook[x].r # r) /\ out.r # r
  BY HooksAssumption DEF LaunchFailed, RevokeToken, Overtake
<1>6. runtime[r] = "starting" /\ \A x \in Runtimes : runtime'[x] = IF x = r THEN "failed" ELSE runtime[x]
  BY <1>1 DEF LaunchFailed, TypeOK
<1>7. Unborn'
  BY <1>1, <1>2, <1>3, <1>4, <1>5, <1>6, HooksAssumption DEF Agreed, Placed, Unborn, Dead
<1>8. OneAgentPerRuntime'
  BY <1>1, <1>2, <1>3, <1>4, <1>5, <1>6, HooksAssumption DEF Agreed, Placed, OneAgentPerRuntime, Held
<1>9. Held'
  BY <1>1, <1>2, <1>3, <1>4, <1>5, <1>6, HooksAssumption DEF Agreed, Placed, Held, OneAgentPerRuntime
<1>10. Dead'
  BY <1>1, <1>2, <1>3, <1>4, <1>5, <1>6, HooksAssumption DEF Agreed, Placed, Dead, Unborn
<1>11. Telling'
  BY <1>1, <1>2, <1>3, <1>4, <1>5, <1>6, HooksAssumption DEF Agreed, Placed, Telling, Held
<1>12. GoneIsSeenGone'
  BY <1>1, <1>2, <1>3, <1>4, <1>5, <1>6, HooksAssumption DEF Agreed, Placed, GoneIsSeenGone, Held, Telling, Owned,
     OneAgentPerRuntime, Unborn, Dead
<1> QED
  BY <1>7, <1>8, <1>9, <1>10, <1>11, <1>12 DEF Agreed

LEMMA SetupFailedKeeps ==
  ASSUME HooksInv, NEW r \in Runtimes, SetupFailed(r)
  PROVE  Agreed'
<1>1. TypeOK /\ Coherent /\ Owned /\ Agreed
  BY DEF HooksInv
<1>2. Placed
  BY <1>1, OfRuntimes
<1>3. Bound(r)' = {} /\ \A x \in Runtimes \ {r} : Bound(x)' = Bound(x)
  BY <1>1, NoKeys DEF SetupFailed, RevokeToken
<1>4. UNCHANGED <<owner, last, hook, out, revoker>> /\ tickets' = tickets \ {r} /\ files' = files \ {r}
  BY DEF SetupFailed, RevokeToken
<1>5. /\ overtaken \subseteq overtaken' /\ overtaken' \subseteq overtaken \cup {r}
      /\ r \notin overtaken' => (\A x \in Hooks : hook[x].r # r) /\ out.r # r
  BY HooksAssumption DEF SetupFailed, RevokeToken, Overtake
<1>6. /\ runtime[r] = "alive"
      /\ \/ Bound(r) = {} /\ runtime' = runtime
         \/ \A x \in Runtimes : runtime'[x] = IF x = r THEN "failed" ELSE runtime[x]
  BY <1>1 DEF SetupFailed, TypeOK
<1>7. Unborn'
  BY <1>1, <1>2, <1>3, <1>4, <1>5, <1>6, HooksAssumption DEF Agreed, Placed, Unborn, Dead
<1>8. OneAgentPerRuntime'
  BY <1>1, <1>2, <1>3, <1>4, <1>5, <1>6, HooksAssumption DEF Agreed, Placed, OneAgentPerRuntime, Held
<1>9. Held'
  BY <1>1, <1>2, <1>3, <1>4, <1>5, <1>6, HooksAssumption DEF Agreed, Placed, Held, OneAgentPerRuntime
<1>10. Dead'
  BY <1>1, <1>2, <1>3, <1>4, <1>5, <1>6, HooksAssumption DEF Agreed, Placed, Dead, Unborn
<1>11. Telling'
  BY <1>1, <1>2, <1>3, <1>4, <1>5, <1>6, HooksAssumption DEF Agreed, Placed, Telling, Held
<1>12. GoneIsSeenGone'
  BY <1>1, <1>2, <1>3, <1>4, <1>5, <1>6, HooksAssumption DEF Agreed, Placed, GoneIsSeenGone, Held, Telling, Owned,
     OneAgentPerRuntime, Unborn, Dead
<1> QED
  BY <1>7, <1>8, <1>9, <1>10, <1>11, <1>12 DEF Agreed

LEMMA OutputArrivesKeeps ==
  ASSUME HooksInv, NEW r \in Runtimes, OutputArrives(r)
  PROVE  Agreed'
<1>1. TypeOK /\ Coherent /\ Owned /\ Agreed
  BY DEF HooksInv
<1>2. Placed
  BY <1>1, OfRuntimes
<1>3. UNCHANGED <<bind, tickets, files, owner, last, overtaken>> /\ \A x \in Runtimes : Bound(x)' = Bound(x)
  BY SameKeys DEF OutputArrives, service, OnlyOut
<1>4. UNCHANGED <<hook, runtime, revoker>>
  BY DEF OutputArrives, OnlyOut
<1>5. runtime[r] = "alive" /\ out'.pc = "contexts" /\ out'.r = r /\ out'.agents = Bound(r)
  BY DEF OutputArrives, Quiet
<1>6. Unborn'
  BY <1>1, <1>2, <1>3, <1>4, <1>5, HooksAssumption DEF Agreed, Placed, Unborn, Dead
<1>7. OneAgentPerRuntime'
  BY <1>1, <1>2, <1>3, <1>4, <1>5, HooksAssumption DEF Agreed, Placed, OneAgentPerRuntime, Held
<1>8. Held'
  BY <1>1, <1>2, <1>3, <1>4, <1>5, HooksAssumption DEF Agreed, Placed, Held, OneAgentPerRuntime
<1>9. Dead'
  BY <1>1, <1>2, <1>3, <1>4, <1>5, HooksAssumption DEF Agreed, Placed, Dead, Unborn
<1>10. Telling'
  BY <1>1, <1>2, <1>3, <1>4, <1>5, HooksAssumption DEF Agreed, Placed, Telling, Held
<1>11. GoneIsSeenGone'
  BY <1>1, <1>2, <1>3, <1>4, <1>5, HooksAssumption DEF Agreed, Placed, GoneIsSeenGone, Held, Telling, Owned,
     OneAgentPerRuntime, Unborn, Dead
<1> QED
  BY <1>6, <1>7, <1>8, <1>9, <1>10, <1>11 DEF Agreed

LEMMA RevokeTicketsKeeps ==
  ASSUME HooksInv, NEW r \in Runtimes, RevokeTickets(r)
  PROVE  Agreed'
<1>1. TypeOK /\ Coherent /\ Owned /\ Agreed
  BY DEF HooksInv
<1>2. Placed
  BY <1>1, OfRuntimes
<1>3. UNCHANGED <<bind, owner, last, overtaken>> /\ \A x \in Runtimes : Bound(x)' = Bound(x)
  BY SameKeys DEF RevokeTickets
<1>4. UNCHANGED <<hook, out, runtime>> /\ tickets' = tickets \ {r} /\ files' = files \ {r}
  BY DEF RevokeTickets, OnlyRevoker
<1>5. /\ revoker[r].pc = "grace"
      /\ \A x \in Runtimes : revoker'[x].todo = revoker[x].todo /\ revoker'[x].pc = IF x = r THEN "agents" ELSE revoker[x].pc
  BY <1>1 DEF RevokeTickets, TypeOK, Revokers
<1>6. Unborn'
  BY <1>1, <1>2, <1>3, <1>4, <1>5, HooksAssumption DEF Agreed, Placed, Unborn, Dead
<1>7. OneAgentPerRuntime'
  BY <1>1, <1>2, <1>3, <1>4, <1>5, HooksAssumption DEF Agreed, Placed, OneAgentPerRuntime, Held
<1>8. Held'
  BY <1>1, <1>2, <1>3, <1>4, <1>5, HooksAssumption DEF Agreed, Placed, Held, OneAgentPerRuntime
<1>9. Dead'
  BY <1>1, <1>2, <1>3, <1>4, <1>5, HooksAssumption DEF Agreed, Placed, Dead, Unborn
<1>10. Telling'
  BY <1>1, <1>2, <1>3, <1>4, <1>5, HooksAssumption DEF Agreed, Placed, Telling, Held
<1>11. GoneIsSeenGone'
  BY <1>1, <1>2, <1>3, <1>4, <1>5, HooksAssumption DEF Agreed, Placed, GoneIsSeenGone, Held, Telling, Owned,
     OneAgentPerRuntime, Unborn, Dead
<1> QED
  BY <1>6, <1>7, <1>8, <1>9, <1>10, <1>11 DEF Agreed

\* Whoever still holds an agent of the Runtime is overtaken by the revocation.
LEMMA RevokeAgentsKeeps ==
  ASSUME HooksInv, NEW r \in Runtimes, RevokeAgents(r)
  PROVE  Agreed'
<1>1. TypeOK /\ Coherent /\ Owned /\ Agreed
  BY DEF HooksInv
<1>2. Placed
  BY <1>1, OfRuntimes
<1>3. Bound(r)' = {} /\ \A x \in Runtimes \ {r} : Bound(x)' = Bound(x)
  BY <1>1, NoKeys DEF RevokeAgents
<1>4. UNCHANGED <<tickets, files, owner, last, hook, out, runtime>>
  BY DEF RevokeAgents, OnlyRevoker
<1>5. /\ overtaken \subseteq overtaken' /\ overtaken' \subseteq overtaken \cup {r}
      /\ r \notin overtaken' => (\A x \in Hooks : hook[x].r # r) /\ out.r # r
  BY HooksAssumption DEF RevokeAgents, Overtake
<1>6. /\ revoker[r].pc = "agents" /\ revoker'[r].pc = "record" /\ revoker'[r].todo = Bound(r)
      /\ \A x \in Runtimes \ {r} : revoker'[x] = revoker[x]
  BY <1>1 DEF RevokeAgents, TypeOK, Revokers
<1>7. Unborn'
  BY <1>1, <1>2, <1>3, <1>4, <1>5, <1>6, HooksAssumption DEF Agreed, Placed, Unborn, Dead
<1>8. OneAgentPerRuntime'
  BY <1>1, <1>2, <1>3, <1>4, <1>5, <1>6, HooksAssumption DEF Agreed, Placed, OneAgentPerRuntime, Held
<1>9. Held'
  BY <1>1, <1>2, <1>3, <1>4, <1>5, <1>6, HooksAssumption DEF Agreed, Placed, Held, OneAgentPerRuntime
<1>10. Dead'
  BY <1>1, <1>2, <1>3, <1>4, <1>5, <1>6, HooksAssumption DEF Agreed, Placed, Dead, Unborn
<1>11. Telling'
  BY <1>1, <1>2, <1>3, <1>4, <1>5, <1>6, HooksAssumption DEF Agreed, Placed, Telling, Held
<1>12. GoneIsSeenGone'
  BY <1>1, <1>2, <1>3, <1>4, <1>5, <1>6, HooksAssumption DEF Agreed, Placed, GoneIsSeenGone, Held, Telling, Owned,
     OneAgentPerRuntime, Unborn, Dead
<1> QED
  BY <1>7, <1>8, <1>9, <1>10, <1>11, <1>12 DEF Agreed

LEMMA RevokeMarkersKeeps ==
  ASSUME HooksInv, NEW r \in Runtimes, RevokeMarkers(r)
  PROVE  Agreed'
<1>1. TypeOK /\ Coherent /\ Owned /\ Agreed
  BY DEF HooksInv
<1>2. Placed
  BY <1>1, OfRuntimes
<1>3. UNCHANGED <<bind, tickets, files, owner, last, overtaken>> /\ \A x \in Runtimes : Bound(x)' = Bound(x)
  BY SameKeys DEF RevokeMarkers, service
<1>4. UNCHANGED <<hook, out>>
  BY DEF RevokeMarkers, OnlyRevoker
<1>5. \A x \in Runtimes : runtime'[x] = IF x = r THEN "revoked" ELSE runtime[x]
  BY <1>1 DEF RevokeMarkers, TypeOK
<1>6. /\ revoker[r].pc = "record" /\ revoker[r].todo = {}
      /\ revoker'[r].pc = "off" /\ revoker'[r].todo = {}
      /\ \A x \in Runtimes \ {r} : revoker'[x] = revoker[x]
  BY <1>1 DEF RevokeMarkers, TypeOK, Revokers, Off
<1>7. Unborn'
  BY <1>1, <1>2, <1>3, <1>4, <1>5, <1>6, HooksAssumption DEF Agreed, Placed, Unborn, Dead
<1>8. OneAgentPerRuntime'
  BY <1>1, <1>2, <1>3, <1>4, <1>5, <1>6, HooksAssumption DEF Agreed, Placed, OneAgentPerRuntime, Held
<1>9. Held'
  BY <1>1, <1>2, <1>3, <1>4, <1>5, <1>6, HooksAssumption DEF Agreed, Placed, Held, OneAgentPerRuntime
<1>10. Dead'
  BY <1>1, <1>2, <1>3, <1>4, <1>5, <1>6, HooksAssumption DEF Agreed, Placed, Dead, Unborn
<1>11. Telling'
  BY <1>1, <1>2, <1>3, <1>4, <1>5, <1>6, HooksAssumption DEF Agreed, Placed, Telling, Held
<1>12. GoneIsSeenGone'
  BY <1>1, <1>2, <1>3, <1>4, <1>5, <1>6, HooksAssumption DEF Agreed, Placed, GoneIsSeenGone, Held, Telling, Owned,
     OneAgentPerRuntime, Unborn, Dead
<1> QED
  BY <1>7, <1>8, <1>9, <1>10, <1>11, <1>12 DEF Agreed


\* What an event changes: the newest event of its agent, and whom it comes in between of.
LEMMA RecordEffect ==
  ASSUME TypeOK, NEW x, NEW a \in Agents, NEW e \in Events, Record(x, a, e)
  PROVE  /\ \A b \in Agents : last'[b] = IF b = a THEN e ELSE last[b]
         /\ overtaken \subseteq overtaken' /\ overtaken' \subseteq overtaken \cup {owner[a]}
         /\ owner[a] \notin overtaken' =>
              \A g \in Hooks : hook[g].a = a => hook[g].pc \notin {"unbind", "remove", "removeListed"}
  BY DEF TypeOK, Record, Between

\* The launch and the end of a Runtime: keys come before there are requests.
LEMMA LaunchKeeps ==
  ASSUME HooksInv, NEW r \in Runtimes, Launch(r)
  PROVE  Agreed'
<1>1. TypeOK /\ Coherent /\ Owned /\ Agreed
  BY DEF HooksInv
<1>2. Placed
  BY <1>1, OfRuntimes
<1>3. UNCHANGED <<last, overtaken, hook, out, revoker>> /\ files' \subseteq files \cup {r} /\ tickets' \subseteq tickets \cup {r}
  BY DEF Launch
<1>4. runtime[r] = "none" /\ \A x \in Runtimes : runtime'[x] = IF x = r THEN "starting" ELSE runtime[x]
  BY <1>1 DEF Launch, TypeOK
<1>5. \/ UNCHANGED owner /\ \A x \in Runtimes : Bound(x)' = Bound(x)
      \/ \E a \in Agents : /\ \A b \in Agents : owner'[b] = IF b = a THEN r ELSE owner[b]
                          /\ Bound(r)' = {a} /\ \A x \in Runtimes \ {r} : Bound(x)' = Bound(x)
  <2>1. CASE UNCHANGED <<managed, bind, owner>>
    BY <2>1, SameKeys
  <2>2. CASE \E a \in Agents : Mint(a, r) /\ bind' = [bind EXCEPT ![r]["bare"] = a]
    <3>1. PICK a \in Agents : Mint(a, r) /\ bind' = [bind EXCEPT ![r]["bare"] = a]
      BY <2>2
    <3>2. Bound(r) = {} /\ "bare" \in Keys /\ a # NONE
      BY <1>1, <1>4, HooksAssumption DEF Agreed, Unborn, Keys
    <3>3. /\ a \in Bound(r)' /\ Bound(r)' \subseteq Bound(r) \cup ({a} \ {NONE})
          /\ \A x \in Runtimes \ {r} : Bound(x)' = Bound(x)
      BY <1>1, <3>1, <3>2, OneKey
    <3>4. \A b \in Agents : owner'[b] = IF b = a THEN r ELSE owner[b]
      BY <1>1, <3>1 DEF Mint, TypeOK
    <3>5. Bound(r)' = {a}
      BY <3>2, <3>3
    <3> QED
      BY <3>3, <3>4, <3>5
  <2> QED
    BY <2>1, <2>2 DEF Launch
<1>6. Bound(r) = {} /\ \A x \in Runtimes : Bound(x) \subseteq Bound(x)'
  BY <1>1, <1>4, <1>5 DEF Agreed, Unborn
<1>7. Unborn'
  BY <1>1, <1>2, <1>3, <1>4, <1>5, <1>6, HooksAssumption DEF Agreed, Placed, Unborn, Dead
<1>8. OneAgentPerRuntime'
  BY <1>1, <1>2, <1>3, <1>4, <1>5, <1>6, HooksAssumption DEF Agreed, Placed, OneAgentPerRuntime, Held
<1>9. Held'
  BY <1>1, <1>2, <1>3, <1>4, <1>5, <1>6, HooksAssumption DEF Agreed, Placed, Held, OneAgentPerRuntime
<1>10. Dead'
  BY <1>1, <1>2, <1>3, <1>4, <1>5, <1>6, HooksAssumption DEF Agreed, Placed, Dead, Unborn
<1>11. Telling'
  BY <1>1, <1>2, <1>3, <1>4, <1>5, <1>6, HooksAssumption DEF Agreed, Placed, Telling, Held, Ended
<1>12. GoneIsSeenGone'
  BY <1>1, <1>2, <1>3, <1>4, <1>5, <1>6, HooksAssumption DEF Agreed, Placed, GoneIsSeenGone, Held, Telling, Owned,
     OneAgentPerRuntime, Unborn, Dead, Ended
<1> QED
  BY <1>7, <1>8, <1>9, <1>10, <1>11, <1>12 DEF Agreed

LEMMA RevokeRecordKeeps ==
  ASSUME HooksInv, NEW r \in Runtimes, RevokeRecord(r)
  PROVE  Agreed'
<1>1. TypeOK /\ Coherent /\ Owned /\ Agreed
  BY DEF HooksInv
<1>2. Placed
  BY <1>1, OfRuntimes
<1>3. UNCHANGED <<bind, tickets, files, owner>> /\ \A x \in Runtimes : Bound(x)' = Bound(x)
  BY SameKeys DEF RevokeRecord, service
<1>4. UNCHANGED <<hook, out, runtime>>
  BY DEF RevokeRecord, OnlyRevoker
<1>5. revoker[r].pc = "record"
  BY DEF RevokeRecord
<1>6. PICK a \in revoker[r].todo :
         /\ Record(r, a, "runtimeExit")
         /\ revoker' = [revoker EXCEPT ![r] = [revoker[r] EXCEPT !.todo = revoker[r].todo \ {a}, !.told = revoker[r].told \cup {a}]]
  BY DEF RevokeRecord
<1>7. a \in Agents /\ owner[a] = r
  BY <1>1, <1>6 DEF TypeOK, Revokers, Owned
<1>8. /\ revoker'[r].pc = revoker[r].pc /\ revoker'[r].todo = revoker[r].todo \ {a}
      /\ \A x \in Runtimes \ {r} : revoker'[x] = revoker[x]
  <2>1. PICK v : v = [revoker[r] EXCEPT !.todo = revoker[r].todo \ {a}, !.told = revoker[r].told \cup {a}]
    OBVIOUS
  <2>2. v.pc = revoker[r].pc /\ v.todo = revoker[r].todo \ {a}
    BY <1>1, <2>1 DEF TypeOK, Revokers
  <2>3. revoker'[r] = v /\ \A x \in Runtimes \ {r} : revoker'[x] = revoker[x]
    BY <1>1, <1>6, <2>1 DEF TypeOK
  <2> QED
    BY <2>2, <2>3
<1>9. /\ \A b \in Agents : last'[b] = IF b = a THEN "runtimeExit" ELSE last[b]
      /\ overtaken \subseteq overtaken' /\ overtaken' \subseteq overtaken \cup {owner[a]}
      /\ owner[a] \notin overtaken' =>
           \A x \in Hooks : hook[x].a = a => hook[x].pc \notin {"unbind", "remove", "removeListed"}
  BY <1>1, <1>6, <1>7, RecordEffect DEF Events
<1>10. Unborn'
  BY <1>1, <1>2, <1>3, <1>4, <1>5, <1>6, <1>7, <1>8, <1>9, HooksAssumption DEF Agreed, Placed, Unborn, Dead
<1>11. OneAgentPerRuntime'
  BY <1>1, <1>2, <1>3, <1>4, <1>5, <1>6, <1>7, <1>8, <1>9, HooksAssumption DEF Agreed, Placed, OneAgentPerRuntime,
     Held
<1>12. Held'
  BY <1>1, <1>2, <1>3, <1>4, <1>5, <1>6, <1>7, <1>8, <1>9, HooksAssumption DEF Agreed, Placed, Held,
     OneAgentPerRuntime
<1>13. Dead'
  BY <1>1, <1>2, <1>3, <1>4, <1>5, <1>6, <1>7, <1>8, <1>9, HooksAssumption DEF Agreed, Placed, Dead, Unborn
<1>14. Telling'
  BY <1>1, <1>2, <1>3, <1>4, <1>5, <1>6, <1>7, <1>8, <1>9, HooksAssumption DEF Agreed, Placed, Telling, Held, Ended
<1>15. GoneIsSeenGone'
  BY <1>1, <1>2, <1>3, <1>4, <1>5, <1>6, <1>7, <1>8, <1>9, HooksAssumption DEF Agreed, Placed, GoneIsSeenGone,
     Held, Telling, Owned, OneAgentPerRuntime, Unborn, Dead, Ended
<1> QED
  BY <1>10, <1>11, <1>12, <1>13, <1>14, <1>15 DEF Agreed

LEMMA ReceiveKeeps ==
  ASSUME HooksInv, NEW h \in Hooks, NEW r \in Runtimes, NEW e \in EventNames, NEW s \in Sessions \cup {NONE}, NEW p \in Procs \cup {NONE}, Receive(h, r, e, s, p)
  PROVE  Agreed'
<1>1. TypeOK /\ Coherent /\ Owned /\ Agreed
  BY DEF HooksInv
<1>2. Placed
  BY <1>1, OfRuntimes
<1>3. UNCHANGED <<bind, tickets, files, owner, last, overtaken>> /\ \A x \in Runtimes : Bound(x)' = Bound(x)
  BY SameKeys DEF Receive, service
<1>4. UNCHANGED <<out, runtime, revoker>>
  BY DEF Receive
<1>5. /\ hook'[h].pc \in {"browser", "admitted"} /\ hook'[h].r = r /\ hook'[h].todo = {}
      /\ hook'[h].a = NONE \/ hook'[h].a \in Bound(r)
      /\ r \in tickets \/ Bound(r) # {}
      /\ runtime[r] \in {"alive", "exited", "revoked", "lost"}
      /\ \A x \in Hooks \ {h} : hook'[x] = hook[x]
  <2> DEFINE key == Lookup(r, s, p)
  <2>1. key \in Keys \cup {NONE} /\ (key # NONE => bind[r][key] # NONE)
    BY <1>1, HooksAssumption DEF TypeOK, Lookup, Keys
  <2>2. key # NONE => bind[r][key] \in Bound(r)
    BY <2>1 DEF Bound
  <2>3. key # NONE \/ r \in tickets
    BY DEF Receive
  <2> HIDE DEF key
  <2>4. hook' = [hook EXCEPT ![h] =
         [pc |-> IF e = "browse" THEN "browser" ELSE "admitted", r |-> r, e |-> e, s |-> s,
          p |-> IF key = NONE THEN p ELSE NONE, key |-> key,
          a |-> IF key = NONE THEN NONE ELSE bind[r][key], todo |-> {}]]
    BY DEF Receive, key
  <2>5. /\ hook'[h].pc \in {"browser", "admitted"} /\ hook'[h].r = r /\ hook'[h].todo = {}
        /\ hook'[h].a = IF key = NONE THEN NONE ELSE bind[r][key]
        /\ \A x \in Hooks \ {h} : hook'[x] = hook[x]
    BY <1>1, <2>4 DEF TypeOK
  <2>6. runtime[r] \in {"alive", "exited", "revoked", "lost"}
    BY DEF Receive
  <2> QED
    BY <2>2, <2>3, <2>5, <2>6
<1>6. Unborn'
  BY <1>1, <1>2, <1>3, <1>4, <1>5, HooksAssumption DEF Agreed, Placed, Unborn, Dead
<1>7. OneAgentPerRuntime'
  BY <1>1, <1>2, <1>3, <1>4, <1>5, HooksAssumption DEF Agreed, Placed, OneAgentPerRuntime, Held
<1>8. Held'
  BY <1>1, <1>2, <1>3, <1>4, <1>5, HooksAssumption DEF Agreed, Placed, Held, OneAgentPerRuntime
<1>9. Dead'
  BY <1>1, <1>2, <1>3, <1>4, <1>5, HooksAssumption DEF Agreed, Placed, Dead, Unborn
<1>10. Telling'
  BY <1>1, <1>2, <1>3, <1>4, <1>5, HooksAssumption DEF Agreed, Placed, Telling, Held, Ended
<1>11. GoneIsSeenGone'
  BY <1>1, <1>2, <1>3, <1>4, <1>5, HooksAssumption DEF Agreed, Placed, GoneIsSeenGone, Held, Telling, Owned,
     OneAgentPerRuntime, Unborn, Dead, Ended
<1> QED
  BY <1>6, <1>7, <1>8, <1>9, <1>10, <1>11 DEF Agreed

LEMMA BrowserEnsuredKeeps ==
  ASSUME HooksInv, NEW h \in Hooks, BrowserEnsured(h)
  PROVE  Agreed'
<1>1. TypeOK /\ Coherent /\ Owned /\ Agreed
  BY DEF HooksInv
<1>2. Placed
  BY <1>1, OfRuntimes
<1>3. UNCHANGED <<bind, tickets, files, owner, last, overtaken>> /\ \A x \in Runtimes : Bound(x)' = Bound(x)
  BY SameKeys DEF BrowserEnsured, service
<1>4. UNCHANGED <<out, runtime, revoker>>
  BY DEF BrowserEnsured, OnlyHook
<1>5. /\ hook[h].pc = "browser" /\ hook'[h].pc = "admitted" /\ hook'[h].r = hook[h].r /\ hook'[h].a = hook[h].a /\ hook'[h].todo = hook[h].todo
      /\ \A x \in Hooks \ {h} : hook'[x] = hook[x]
  BY <1>1 DEF BrowserEnsured, TypeOK, Requests
<1>6. Unborn'
  BY <1>1, <1>2, <1>3, <1>4, <1>5, HooksAssumption DEF Agreed, Placed, Unborn, Dead
<1>7. OneAgentPerRuntime'
  BY <1>1, <1>2, <1>3, <1>4, <1>5, HooksAssumption DEF Agreed, Placed, OneAgentPerRuntime, Held
<1>8. Held'
  BY <1>1, <1>2, <1>3, <1>4, <1>5, HooksAssumption DEF Agreed, Placed, Held, OneAgentPerRuntime
<1>9. Dead'
  BY <1>1, <1>2, <1>3, <1>4, <1>5, HooksAssumption DEF Agreed, Placed, Dead, Unborn
<1>10. Telling'
  BY <1>1, <1>2, <1>3, <1>4, <1>5, HooksAssumption DEF Agreed, Placed, Telling, Held, Ended
<1>11. GoneIsSeenGone'
  BY <1>1, <1>2, <1>3, <1>4, <1>5, HooksAssumption DEF Agreed, Placed, GoneIsSeenGone, Held, Telling, Owned,
     OneAgentPerRuntime, Unborn, Dead, Ended
<1> QED
  BY <1>6, <1>7, <1>8, <1>9, <1>10, <1>11 DEF Agreed

LEMMA AbandonKeeps ==
  ASSUME HooksInv, NEW h \in Hooks, Abandon(h)
  PROVE  Agreed'
<1>1. TypeOK /\ Coherent /\ Owned /\ Agreed
  BY DEF HooksInv
<1>2. Placed
  BY <1>1, OfRuntimes
<1>3. UNCHANGED <<bind, tickets, files, owner, last, overtaken>> /\ \A x \in Runtimes : Bound(x)' = Bound(x)
  BY SameKeys DEF Abandon, service
<1>4. UNCHANGED <<out, runtime, revoker>>
  BY DEF Abandon, OnlyHook
<1>5. hook'[h] = Idle /\ \A x \in Hooks \ {h} : hook'[x] = hook[x]
  BY <1>1 DEF Abandon, Answer, TypeOK
<1>6. Unborn'
  BY <1>1, <1>2, <1>3, <1>4, <1>5, HooksAssumption DEF Agreed, Placed, Unborn, Dead, Idle
<1>7. OneAgentPerRuntime'
  BY <1>1, <1>2, <1>3, <1>4, <1>5, HooksAssumption DEF Agreed, Placed, OneAgentPerRuntime, Held, Idle
<1>8. Held'
  BY <1>1, <1>2, <1>3, <1>4, <1>5, HooksAssumption DEF Agreed, Placed, Held, OneAgentPerRuntime, Idle
<1>9. Dead'
  BY <1>1, <1>2, <1>3, <1>4, <1>5, HooksAssumption DEF Agreed, Placed, Dead, Unborn, Idle
<1>10. Telling'
  BY <1>1, <1>2, <1>3, <1>4, <1>5, HooksAssumption DEF Agreed, Placed, Telling, Held, Ended, Idle
<1>11. GoneIsSeenGone'
  BY <1>1, <1>2, <1>3, <1>4, <1>5, HooksAssumption DEF Agreed, Placed, GoneIsSeenGone, Held, Telling, Owned,
     OneAgentPerRuntime, Unborn, Dead, Ended, Idle
<1> QED
  BY <1>6, <1>7, <1>8, <1>9, <1>10, <1>11 DEF Agreed

LEMMA RefuseKeeps ==
  ASSUME HooksInv, NEW h \in Hooks, Refuse(h)
  PROVE  Agreed'
<1>1. TypeOK /\ Coherent /\ Owned /\ Agreed
  BY DEF HooksInv
<1>2. Placed
  BY <1>1, OfRuntimes
<1>3. UNCHANGED <<bind, tickets, files, owner, last, overtaken>> /\ \A x \in Runtimes : Bound(x)' = Bound(x)
  BY SameKeys DEF Refuse, service
<1>4. UNCHANGED <<out, runtime, revoker>>
  BY DEF Refuse, OnlyHook
<1>5. hook'[h] = Idle /\ \A x \in Hooks \ {h} : hook'[x] = hook[x]
  BY <1>1 DEF Refuse, Answer, TypeOK
<1>6. Unborn'
  BY <1>1, <1>2, <1>3, <1>4, <1>5, HooksAssumption DEF Agreed, Placed, Unborn, Dead, Idle
<1>7. OneAgentPerRuntime'
  BY <1>1, <1>2, <1>3, <1>4, <1>5, HooksAssumption DEF Agreed, Placed, OneAgentPerRuntime, Held, Idle
<1>8. Held'
  BY <1>1, <1>2, <1>3, <1>4, <1>5, HooksAssumption DEF Agreed, Placed, Held, OneAgentPerRuntime, Idle
<1>9. Dead'
  BY <1>1, <1>2, <1>3, <1>4, <1>5, HooksAssumption DEF Agreed, Placed, Dead, Unborn, Idle
<1>10. Telling'
  BY <1>1, <1>2, <1>3, <1>4, <1>5, HooksAssumption DEF Agreed, Placed, Telling, Held, Ended, Idle
<1>11. GoneIsSeenGone'
  BY <1>1, <1>2, <1>3, <1>4, <1>5, HooksAssumption DEF Agreed, Placed, GoneIsSeenGone, Held, Telling, Owned,
     OneAgentPerRuntime, Unborn, Dead, Ended, Idle
<1> QED
  BY <1>6, <1>7, <1>8, <1>9, <1>10, <1>11 DEF Agreed


LEMMA AgentHookKeeps ==
  ASSUME HooksInv, NEW h \in Hooks, AgentHook(h)
  PROVE  Agreed'
<1>1. TypeOK /\ Coherent /\ Owned /\ Agreed
  BY DEF HooksInv
<1>2. Placed
  BY <1>1, OfRuntimes
<1>3. UNCHANGED <<bind, tickets, files, owner>> /\ \A x \in Runtimes : Bound(x)' = Bound(x)
  BY SameKeys DEF AgentHook, service
<1>4. UNCHANGED <<out, runtime, revoker>>
  BY DEF AgentHook, OnlyHook
<1>5. hook[h].pc = "admitted" /\ hook[h].a \in Agents /\ hook[h].e \in Events /\ hook[h].s \in Sessions \cup {NONE}
  BY <1>1 DEF AgentHook, TypeOK, Requests, Coherent, Events
<1>6. /\ \A b \in Agents : last'[b] = IF b = hook[h].a THEN hook[h].e ELSE last[b]
      /\ overtaken \subseteq overtaken' /\ overtaken' \subseteq overtaken \cup {owner[hook[h].a]}
      /\ owner[hook[h].a] \notin overtaken' =>
           \A x \in Hooks : hook[x].a = hook[h].a => hook[x].pc \notin {"unbind", "remove", "removeListed"}
  BY <1>1, <1>5, RecordEffect DEF AgentHook
<1>7. /\ \/ hook'[h] = Idle
         \/ /\ hook'[h].r = hook[h].r /\ hook'[h].a = hook[h].a /\ hook'[h].todo = hook[h].todo
            /\ hook'[h].e = hook[h].e /\ hook'[h].pc \in {"bind", "unbind", "remove"}
      /\ \A x \in Hooks \ {h} : hook'[x] = hook[x]
  BY <1>1, HookEffect
<1>8. hook'[h].pc \in {"unbind", "remove"} => hook'[h].e \in Ended
  BY <1>1, CoherentKept DEF Next, HookStep, Coherent, Ended
<1>9. Unborn'
  BY <1>1, <1>2, <1>3, <1>4, <1>5, <1>6, <1>7, <1>8, HooksAssumption DEF Agreed, Placed, Unborn, Dead, Idle
<1>10. OneAgentPerRuntime'
  BY <1>1, <1>2, <1>3, <1>4, <1>5, <1>6, <1>7, <1>8, HooksAssumption DEF Agreed, Placed, OneAgentPerRuntime, Held,
     Idle
<1>11. Held'
  BY <1>1, <1>2, <1>3, <1>4, <1>5, <1>6, <1>7, <1>8, HooksAssumption DEF Agreed, Placed, Held, OneAgentPerRuntime,
     Idle
<1>12. Dead'
  BY <1>1, <1>2, <1>3, <1>4, <1>5, <1>6, <1>7, <1>8, HooksAssumption DEF Agreed, Placed, Dead, Unborn, Idle
<1>13. Telling'
  BY <1>1, <1>2, <1>3, <1>4, <1>5, <1>6, <1>7, <1>8, HooksAssumption DEF Agreed, Placed, Telling, Held, Ended, Idle
<1>14. GoneIsSeenGone'
  BY <1>1, <1>2, <1>3, <1>4, <1>5, <1>6, <1>7, <1>8, HooksAssumption DEF Agreed, Placed, GoneIsSeenGone, Held,
     Telling, Owned, OneAgentPerRuntime, Unborn, Dead, Ended, Idle
<1> QED
  BY <1>9, <1>10, <1>11, <1>12, <1>13, <1>14 DEF Agreed

\* The key leads to the agent that Held says is bound already.
LEMMA BindSessionKeeps ==
  ASSUME HooksInv, NEW h \in Hooks, BindSession(h)
  PROVE  Agreed'
<1>1. TypeOK /\ Coherent /\ Owned /\ Agreed
  BY DEF HooksInv
<1>2. Placed
  BY <1>1, OfRuntimes
<1>3. UNCHANGED <<tickets, files, owner, last, overtaken>>
  BY DEF BindSession
<1>4. UNCHANGED <<out, runtime, revoker>>
  BY DEF BindSession, OnlyHook
<1>5. hook'[h] = Idle /\ \A x \in Hooks \ {h} : hook'[x] = hook[x]
  BY <1>1 DEF BindSession, Answer, TypeOK
<1>6. hook[h].pc = "bind" /\ hook[h].r \in Runtimes /\ hook[h].a \in Agents /\ hook[h].s \in Keys
  BY <1>1 DEF BindSession, Coherent, Keys
<1>7. PICK r \in Runtimes, a \in Agents, k \in Keys : r = hook[h].r /\ a = hook[h].a /\ k = hook[h].s
  BY <1>6
<1>8. /\ a \in Bound(r)' /\ Bound(r)' \subseteq Bound(r) \cup ({a} \ {NONE})
      /\ \A x \in Runtimes \ {r} : Bound(x)' = Bound(x)
  <2>1. bind' = [bind EXCEPT ![r][k] = a]
    BY <1>7 DEF BindSession
  <2> QED
    BY <1>1, <2>1, OneKey, HooksAssumption
<1>9. r \notin overtaken => Bound(r)' = Bound(r)
  BY <1>1, <1>6, <1>7, <1>8 DEF Agreed, Held, OneAgentPerRuntime
<1>10. \A x \in Runtimes \ overtaken : Bound(x)' = Bound(x)
  BY <1>8, <1>9
<1>11. Unborn'
  BY <1>1, <1>2, <1>3, <1>4, <1>5, <1>6, <1>7, <1>8, <1>9, <1>10, HooksAssumption DEF Agreed, Placed, Unborn, Dead,
     Idle
<1>12. OneAgentPerRuntime'
  BY <1>1, <1>2, <1>3, <1>4, <1>5, <1>6, <1>7, <1>8, <1>9, <1>10, HooksAssumption DEF Agreed, Placed,
     OneAgentPerRuntime, Held, Idle
<1>13. Held'
  BY <1>1, <1>2, <1>3, <1>4, <1>5, <1>6, <1>7, <1>8, <1>9, <1>10, HooksAssumption DEF Agreed, Placed, Held,
     OneAgentPerRuntime, Idle
<1>14. Dead'
  BY <1>1, <1>2, <1>3, <1>4, <1>5, <1>6, <1>7, <1>8, <1>9, <1>10, HooksAssumption DEF Agreed, Placed, Dead, Unborn,
     Idle
<1>15. Telling'
  BY <1>1, <1>2, <1>3, <1>4, <1>5, <1>6, <1>7, <1>8, <1>9, <1>10, HooksAssumption DEF Agreed, Placed, Telling,
     Held, Ended, Idle
<1>16. GoneIsSeenGone'
  BY <1>1, <1>2, <1>3, <1>4, <1>5, <1>6, <1>7, <1>8, <1>9, <1>10, HooksAssumption DEF Agreed, Placed,
     GoneIsSeenGone, Held, Telling, Owned, OneAgentPerRuntime, Unborn, Dead, Ended, Idle
<1> QED
  BY <1>11, <1>12, <1>13, <1>14, <1>15, <1>16 DEF Agreed

\* Only the agent that Telling says was reported can lose its last key.
LEMMA EndSessionKeeps ==
  ASSUME HooksInv, NEW h \in Hooks, EndSession(h)
  PROVE  Agreed'
<1>1. TypeOK /\ Coherent /\ Owned /\ Agreed
  BY DEF HooksInv
<1>2. Placed
  BY <1>1, OfRuntimes
<1>3. UNCHANGED <<tickets, files, owner, last>>
  BY DEF EndSession
<1>4. UNCHANGED <<out, runtime, revoker>>
  BY DEF EndSession, OnlyHook
<1>5. hook'[h] = Idle /\ \A x \in Hooks \ {h} : hook'[x] = hook[x]
  BY <1>1 DEF EndSession, Answer, TypeOK
<1>6. hook[h].pc = "unbind" /\ hook[h].r \in Runtimes /\ hook[h].a \in Agents /\ hook[h].key \in Keys
  BY <1>1, HooksAssumption DEF EndSession, Coherent
<1>7. PICK r \in Runtimes, k \in Keys : r = hook[h].r /\ k = hook[h].key
  BY <1>6
<1>8. /\ Bound(r)' \subseteq Bound(r)
      /\ \A x \in Runtimes \ {r} : Bound(x)' = Bound(x)
  <2>1. bind' = [bind EXCEPT ![r][k] = NONE]
    BY <1>7 DEF EndSession
  <2>2. /\ Bound(r)' \subseteq Bound(r) \cup ({NONE} \ {NONE})
        /\ \A x \in Runtimes \ {r} : Bound(x)' = Bound(x)
    BY <1>1, <2>1, OneKey
  <2> QED
    BY <2>2
<1>9. /\ overtaken \subseteq overtaken' /\ overtaken' \subseteq overtaken \cup {hook[h].r}
      /\ hook[h].r \notin overtaken' => (\A x \in Hooks \ {h} : hook[x].r # hook[h].r) /\ out.r # hook[h].r
  BY DEF EndSession, Overtake
<1>10. Unborn'
  BY <1>1, <1>2, <1>3, <1>4, <1>5, <1>6, <1>7, <1>8, <1>9, HooksAssumption DEF Agreed, Placed, Unborn, Dead, Idle
<1>11. OneAgentPerRuntime'
  BY <1>1, <1>2, <1>3, <1>4, <1>5, <1>6, <1>7, <1>8, <1>9, HooksAssumption DEF Agreed, Placed, OneAgentPerRuntime,
     Held, Idle
<1>12. Held'
  BY <1>1, <1>2, <1>3, <1>4, <1>5, <1>6, <1>7, <1>8, <1>9, HooksAssumption DEF Agreed, Placed, Held,
     OneAgentPerRuntime, Idle
<1>13. Dead'
  BY <1>1, <1>2, <1>3, <1>4, <1>5, <1>6, <1>7, <1>8, <1>9, HooksAssumption DEF Agreed, Placed, Dead, Unborn, Idle
<1>14. Telling'
  BY <1>1, <1>2, <1>3, <1>4, <1>5, <1>6, <1>7, <1>8, <1>9, HooksAssumption DEF Agreed, Placed, Telling, Held,
     Ended, Idle
<1>15. GoneIsSeenGone'
  BY <1>1, <1>2, <1>3, <1>4, <1>5, <1>6, <1>7, <1>8, <1>9, HooksAssumption DEF Agreed, Placed, GoneIsSeenGone,
     Held, Telling, Owned, OneAgentPerRuntime, Unborn, Dead, Ended, Idle
<1> QED
  BY <1>10, <1>11, <1>12, <1>13, <1>14, <1>15 DEF Agreed

LEMMA ExitAgentKeeps ==
  ASSUME HooksInv, NEW h \in Hooks, ExitAgent(h)
  PROVE  Agreed'
<1>1. TypeOK /\ Coherent /\ Owned /\ Agreed
  BY DEF HooksInv
<1>2. Placed
  BY <1>1, OfRuntimes
<1>3. UNCHANGED <<tickets, owner, last>> /\ files' \subseteq files
  BY DEF ExitAgent
<1>4. UNCHANGED <<out, runtime, revoker>>
  BY DEF ExitAgent, OnlyHook
<1>5. hook'[h] = Idle /\ \A x \in Hooks \ {h} : hook'[x] = hook[x]
  BY <1>1 DEF ExitAgent, Answer, TypeOK
<1>6. hook[h].pc = "remove" /\ hook[h].r \in Runtimes /\ hook[h].a \in Agents
  BY <1>1 DEF ExitAgent, Coherent
<1>7. \A x \in Runtimes : Bound(x)' = IF x = hook[h].r THEN Bound(x) \ {hook[h].a} ELSE Bound(x)
  <2>1. PICK a \in Agents : a = hook[h].a
    BY <1>6
  <2>2. \A x \in Runtimes : Bound(x)' = Bound(x) \ {a}
    BY <1>1, <2>1, KeysWithout DEF ExitAgent, RemoveAgent
  <2>3. \A x \in Runtimes : a \in Bound(x) => x = hook[h].r
    BY <1>1, <2>1, <1>6, HooksAssumption DEF Owned, Bound
  <2> QED
    BY <2>1, <2>2, <2>3
<1>8. /\ overtaken \subseteq overtaken' /\ overtaken' \subseteq overtaken \cup {hook[h].r}
      /\ hook[h].r \notin overtaken' => (\A x \in Hooks \ {h} : hook[x].r # hook[h].r) /\ out.r # hook[h].r
  BY DEF ExitAgent, Overtake
<1>9. Unborn'
  BY <1>1, <1>2, <1>3, <1>4, <1>5, <1>6, <1>7, <1>8, HooksAssumption DEF Agreed, Placed, Unborn, Dead, Idle
<1>10. OneAgentPerRuntime'
  BY <1>1, <1>2, <1>3, <1>4, <1>5, <1>6, <1>7, <1>8, HooksAssumption DEF Agreed, Placed, OneAgentPerRuntime, Held,
     Idle
<1>11. Held'
  BY <1>1, <1>2, <1>3, <1>4, <1>5, <1>6, <1>7, <1>8, HooksAssumption DEF Agreed, Placed, Held, OneAgentPerRuntime,
     Idle
<1>12. Dead'
  BY <1>1, <1>2, <1>3, <1>4, <1>5, <1>6, <1>7, <1>8, HooksAssumption DEF Agreed, Placed, Dead, Unborn, Idle
<1>13. Telling'
  BY <1>1, <1>2, <1>3, <1>4, <1>5, <1>6, <1>7, <1>8, HooksAssumption DEF Agreed, Placed, Telling, Held, Ended, Idle
<1>14. GoneIsSeenGone'
  BY <1>1, <1>2, <1>3, <1>4, <1>5, <1>6, <1>7, <1>8, HooksAssumption DEF Agreed, Placed, GoneIsSeenGone, Held,
     Telling, Owned, OneAgentPerRuntime, Unborn, Dead, Ended, Idle
<1> QED
  BY <1>9, <1>10, <1>11, <1>12, <1>13, <1>14 DEF Agreed

LEMMA RemoveListedKeeps ==
  ASSUME HooksInv, NEW h \in Hooks, RemoveListed(h)
  PROVE  Agreed'
<1>1. TypeOK /\ Coherent /\ Owned /\ Agreed
  BY DEF HooksInv
<1>2. Placed
  BY <1>1, OfRuntimes
<1>3. UNCHANGED <<tickets, files, owner, last>>
  BY DEF RemoveListed
<1>4. UNCHANGED <<out, runtime, revoker>>
  BY DEF RemoveListed, OnlyHook
<1>5. /\ hook'[h].pc = "exits" /\ hook'[h].r = hook[h].r /\ hook'[h].a = hook[h].a /\ hook'[h].todo = hook[h].todo
      /\ \A x \in Hooks \ {h} : hook'[x] = hook[x]
  BY <1>1 DEF RemoveListed, Goto, TypeOK, Requests
<1>6. hook[h].pc = "removeListed" /\ hook[h].r \in Runtimes /\ hook[h].a \in Agents
  BY <1>1 DEF RemoveListed, Coherent
<1>7. \A x \in Runtimes : Bound(x)' = IF x = hook[h].r THEN Bound(x) \ {hook[h].a} ELSE Bound(x)
  <2>1. PICK a \in Agents : a = hook[h].a
    BY <1>6
  <2>2. \A x \in Runtimes : Bound(x)' = Bound(x) \ {a}
    BY <1>1, <2>1, KeysWithout DEF RemoveListed, RemoveAgent
  <2>3. \A x \in Runtimes : a \in Bound(x) => x = hook[h].r
    BY <1>1, <2>1, <1>6, HooksAssumption DEF Owned, Bound
  <2> QED
    BY <2>1, <2>2, <2>3
<1>8. /\ overtaken \subseteq overtaken' /\ overtaken' \subseteq overtaken \cup {hook[h].r}
      /\ hook[h].r \notin overtaken' => (\A x \in Hooks \ {h} : hook[x].r # hook[h].r) /\ out.r # hook[h].r
  BY DEF RemoveListed, Overtake
<1>9. Unborn'
  BY <1>1, <1>2, <1>3, <1>4, <1>5, <1>6, <1>7, <1>8, HooksAssumption DEF Agreed, Placed, Unborn, Dead, Idle
<1>10. OneAgentPerRuntime'
  BY <1>1, <1>2, <1>3, <1>4, <1>5, <1>6, <1>7, <1>8, HooksAssumption DEF Agreed, Placed, OneAgentPerRuntime, Held,
     Idle
<1>11. Held'
  BY <1>1, <1>2, <1>3, <1>4, <1>5, <1>6, <1>7, <1>8, HooksAssumption DEF Agreed, Placed, Held, OneAgentPerRuntime,
     Idle
<1>12. Dead'
  BY <1>1, <1>2, <1>3, <1>4, <1>5, <1>6, <1>7, <1>8, HooksAssumption DEF Agreed, Placed, Dead, Unborn, Idle
<1>13. Telling'
  BY <1>1, <1>2, <1>3, <1>4, <1>5, <1>6, <1>7, <1>8, HooksAssumption DEF Agreed, Placed, Telling, Held, Ended, Idle
<1>14. GoneIsSeenGone'
  BY <1>1, <1>2, <1>3, <1>4, <1>5, <1>6, <1>7, <1>8, HooksAssumption DEF Agreed, Placed, GoneIsSeenGone, Held,
     Telling, Owned, OneAgentPerRuntime, Unborn, Dead, Ended, Idle
<1> QED
  BY <1>9, <1>10, <1>11, <1>12, <1>13, <1>14 DEF Agreed


\* A Runtime that has an agent gives it to the new key; a fresh one is minted for no other.
LEMMA RegisterKeeps ==
  ASSUME HooksInv, NEW h \in Hooks, Register(h)
  PROVE  Agreed'
<1>1. TypeOK /\ Coherent /\ Owned /\ Agreed
  BY DEF HooksInv
<1>2. Placed
  BY <1>1, OfRuntimes
<1>3. UNCHANGED <<tickets, files, last, overtaken>>
  BY DEF Register
<1>4. UNCHANGED <<out, runtime, revoker>>
  BY DEF Register, OnlyHook
<1>5. PICK b \in Agents : Resolve(hook[h].r, Identity(hook[h]), b) /\ hook' = [hook EXCEPT ![h] = [hook[h] EXCEPT !.pc = "record", !.a = b]]
  BY DEF Register
<1>6. /\ hook'[h].pc = "record" /\ hook'[h].r = hook[h].r /\ hook'[h].a = b /\ hook'[h].todo = hook[h].todo
      /\ \A x \in Hooks \ {h} : hook'[x] = hook[x]
  BY <1>1, <1>5 DEF TypeOK, Requests
<1>7. hook[h].pc = "admitted" /\ hook[h].r \in Runtimes /\ Identity(hook[h]) \in Keys
  BY <1>1, IdentityTyped DEF Register
<1>8. PICK r \in Runtimes, k \in Keys : r = hook[h].r /\ k = Identity(hook[h])
  BY <1>7
<1>9. /\ Bound(r)' = Bound(r) \cup {b} /\ (b \in Bound(r) \/ Bound(r) = {})
      /\ \A x \in Runtimes \ {r} : Bound(x)' = Bound(x)
      /\ \A x \in Agents : owner'[x] = owner[x] \/ (x = b /\ owner'[x] = r)
  <2>1. CASE bind[r][k] # NONE
    <3>1. b \in Bound(r) /\ UNCHANGED <<bind, owner>>
      BY <1>5, <1>8, <2>1 DEF Resolve, Bound
    <3> QED
      BY <3>1, SameKeys
  <2>2. CASE bind[r][k] = NONE
    <3>1. bind' = [bind EXCEPT ![r][k] = b] /\ b # NONE
      BY <1>5, <1>8, <2>2, HooksAssumption DEF Resolve
    <3>2. (Bound(r) # {} => b \in Bound(r) /\ UNCHANGED owner) /\ (Bound(r) = {} => owner' = [owner EXCEPT ![b] = r])
      BY <1>5, <1>8, <2>2 DEF Resolve, Mint
    <3>3. /\ b \in Bound(r)' /\ Bound(r)' \subseteq Bound(r) \cup ({b} \ {NONE}) /\ Bound(r) \subseteq Bound(r)'
          /\ \A x \in Runtimes \ {r} : Bound(x)' = Bound(x)
      BY <1>1, <2>2, <3>1, OneKey
    <3>4. Bound(r)' = Bound(r) \cup {b}
      BY <3>3
    <3>5. \A x \in Agents : owner'[x] = owner[x] \/ (x = b /\ owner'[x] = r)
      BY <1>1, <3>2 DEF TypeOK
    <3> QED
      BY <3>2, <3>3, <3>4, <3>5
  <2> QED
    BY <2>1, <2>2
<1>10. Unborn'
  BY <1>1, <1>2, <1>3, <1>4, <1>5, <1>6, <1>7, <1>8, <1>9, HooksAssumption DEF Agreed, Placed, Unborn, Dead
<1>11. OneAgentPerRuntime'
  BY <1>1, <1>2, <1>3, <1>4, <1>5, <1>6, <1>7, <1>8, <1>9, HooksAssumption DEF Agreed, Placed, OneAgentPerRuntime,
     Held
<1>12. Held'
  BY <1>1, <1>2, <1>3, <1>4, <1>5, <1>6, <1>7, <1>8, <1>9, HooksAssumption DEF Agreed, Placed, Held,
     OneAgentPerRuntime, Idle
<1>13. Dead'
  BY <1>1, <1>2, <1>3, <1>4, <1>5, <1>6, <1>7, <1>8, <1>9, HooksAssumption DEF Agreed, Placed, Dead, Unborn
<1>14. Telling'
  BY <1>1, <1>2, <1>3, <1>4, <1>5, <1>6, <1>7, <1>8, <1>9, HooksAssumption DEF Agreed, Placed, Telling, Held, Ended
<1>15. GoneIsSeenGone'
  BY <1>1, <1>2, <1>3, <1>4, <1>5, <1>6, <1>7, <1>8, <1>9, HooksAssumption DEF Agreed, Placed, GoneIsSeenGone,
     Held, Telling, Owned, OneAgentPerRuntime, Unborn, Dead, Ended
<1> QED
  BY <1>10, <1>11, <1>12, <1>13, <1>14, <1>15 DEF Agreed

LEMMA RecordRegisteredKeeps ==
  ASSUME HooksInv, NEW h \in Hooks, RecordRegistered(h)
  PROVE  Agreed'
<1>1. TypeOK /\ Coherent /\ Owned /\ Agreed
  BY DEF HooksInv
<1>2. Placed
  BY <1>1, OfRuntimes
<1>3. UNCHANGED <<bind, tickets, files, owner>> /\ \A x \in Runtimes : Bound(x)' = Bound(x)
  BY SameKeys DEF RecordRegistered, service
<1>4. UNCHANGED <<out, runtime, revoker>>
  BY DEF RecordRegistered, OnlyHook
<1>5. hook'[h] = Idle /\ \A x \in Hooks \ {h} : hook'[x] = hook[x]
  BY <1>1 DEF RecordRegistered, Answer, TypeOK
<1>6. hook[h].pc = "record" /\ hook[h].a \in Agents /\ hook[h].e \in Events /\ hook[h].s \in Sessions \cup {NONE}
  BY <1>1, HooksAssumption DEF RecordRegistered, TypeOK, Requests, Coherent, Events
<1>7. /\ \A b \in Agents : last'[b] = IF b = hook[h].a THEN hook[h].e ELSE last[b]
      /\ overtaken \subseteq overtaken' /\ overtaken' \subseteq overtaken \cup {owner[hook[h].a]}
      /\ owner[hook[h].a] \notin overtaken' =>
           \A x \in Hooks : hook[x].a = hook[h].a => hook[x].pc \notin {"unbind", "remove", "removeListed"}
  BY <1>1, <1>6, RecordEffect DEF RecordRegistered
<1>8. Unborn'
  BY <1>1, <1>2, <1>3, <1>4, <1>5, <1>6, <1>7, HooksAssumption DEF Agreed, Placed, Unborn, Dead, Idle
<1>9. OneAgentPerRuntime'
  BY <1>1, <1>2, <1>3, <1>4, <1>5, <1>6, <1>7, HooksAssumption DEF Agreed, Placed, OneAgentPerRuntime, Held, Idle
<1>10. Held'
  BY <1>1, <1>2, <1>3, <1>4, <1>5, <1>6, <1>7, HooksAssumption DEF Agreed, Placed, Held, OneAgentPerRuntime, Idle
<1>11. Dead'
  BY <1>1, <1>2, <1>3, <1>4, <1>5, <1>6, <1>7, HooksAssumption DEF Agreed, Placed, Dead, Unborn, Idle
<1>12. Telling'
  BY <1>1, <1>2, <1>3, <1>4, <1>5, <1>6, <1>7, HooksAssumption DEF Agreed, Placed, Telling, Held, Ended, Idle
<1>13. GoneIsSeenGone'
  BY <1>1, <1>2, <1>3, <1>4, <1>5, <1>6, <1>7, HooksAssumption DEF Agreed, Placed, GoneIsSeenGone, Held, Telling,
     Owned, OneAgentPerRuntime, Unborn, Dead, Ended, Idle
<1> QED
  BY <1>8, <1>9, <1>10, <1>11, <1>12, <1>13 DEF Agreed

LEMMA ExitAllKeeps ==
  ASSUME HooksInv, NEW h \in Hooks, ExitAll(h)
  PROVE  Agreed'
<1>1. TypeOK /\ Coherent /\ Owned /\ Agreed
  BY DEF HooksInv
<1>2. Placed
  BY <1>1, OfRuntimes
<1>3. UNCHANGED <<bind, tickets, files, owner, last, overtaken>> /\ \A x \in Runtimes : Bound(x)' = Bound(x)
  BY SameKeys DEF ExitAll, service
<1>4. UNCHANGED <<out, runtime, revoker>>
  BY DEF ExitAll, OnlyHook
<1>5. /\ hook[h].pc = "admitted" /\ hook'[h].pc = "exits" /\ hook'[h].r = hook[h].r /\ hook'[h].a = hook[h].a /\ hook'[h].todo = Bound(hook[h].r)
      /\ \A x \in Hooks \ {h} : hook'[x] = hook[x]
  BY <1>1 DEF ExitAll, TypeOK, Requests
<1>6. Unborn'
  BY <1>1, <1>2, <1>3, <1>4, <1>5, HooksAssumption DEF Agreed, Placed, Unborn, Dead, Idle
<1>7. OneAgentPerRuntime'
  BY <1>1, <1>2, <1>3, <1>4, <1>5, HooksAssumption DEF Agreed, Placed, OneAgentPerRuntime, Held, Idle
<1>8. Held'
  BY <1>1, <1>2, <1>3, <1>4, <1>5, HooksAssumption DEF Agreed, Placed, Held, OneAgentPerRuntime, Idle
<1>9. Dead'
  BY <1>1, <1>2, <1>3, <1>4, <1>5, HooksAssumption DEF Agreed, Placed, Dead, Unborn, Idle
<1>10. Telling'
  BY <1>1, <1>2, <1>3, <1>4, <1>5, HooksAssumption DEF Agreed, Placed, Telling, Held, Ended, Idle
<1>11. GoneIsSeenGone'
  BY <1>1, <1>2, <1>3, <1>4, <1>5, HooksAssumption DEF Agreed, Placed, GoneIsSeenGone, Held, Telling, Owned,
     OneAgentPerRuntime, Unborn, Dead, Ended, Idle
<1> QED
  BY <1>6, <1>7, <1>8, <1>9, <1>10, <1>11 DEF Agreed

LEMMA ExitEachKeeps ==
  ASSUME HooksInv, NEW h \in Hooks, ExitEach(h)
  PROVE  Agreed'
<1>1. TypeOK /\ Coherent /\ Owned /\ Agreed
  BY DEF HooksInv
<1>2. Placed
  BY <1>1, OfRuntimes
<1>3. UNCHANGED <<bind, tickets, files, owner>>
  BY <1>1, ListEffect
<1>4. \A x \in Runtimes : Bound(x)' = Bound(x)
  BY <1>3, SameKeys
<1>5. UNCHANGED <<out, runtime, revoker>>
  BY DEF ExitEach, OnlyHook
<1>6. hook[h].pc = "exits"
  BY DEF ExitEach
<1>7. /\ \A x \in Hooks \ {h} : hook'[x] = hook[x]
      /\ \/ hook'[h] = Idle /\ UNCHANGED service
         \/ \E a \in hook[h].todo :
              /\ hook'[h].r = hook[h].r /\ hook'[h].a = a /\ hook'[h].todo = hook[h].todo \ {a}
              /\ hook'[h].pc = "removeListed" /\ Record(h, a, "exit")
  BY <1>1, ListEffect
<1>8. \/ hook'[h] = Idle /\ UNCHANGED <<last, overtaken>>
      \/ \E a \in Agents :
           /\ hook'[h].r = hook[h].r /\ hook'[h].a = a /\ hook'[h].todo = hook[h].todo \ {a}
           /\ a \in hook[h].todo /\ hook'[h].pc = "removeListed" /\ last'[a] = "exit"
           /\ \A b \in Agents \ {a} : last'[b] = last[b]
           /\ overtaken \subseteq overtaken' /\ overtaken' \subseteq overtaken \cup {owner[a]}
           /\ owner[a] \notin overtaken' =>
                \A x \in Hooks : hook[x].a = a => hook[x].pc \notin {"unbind", "remove", "removeListed"}
  <2>1. CASE hook'[h] = Idle /\ UNCHANGED service
    BY <2>1 DEF service
  <2>2. CASE \E a \in hook[h].todo :
                /\ hook'[h].r = hook[h].r /\ hook'[h].a = a /\ hook'[h].todo = hook[h].todo \ {a}
                /\ hook'[h].pc = "removeListed" /\ Record(h, a, "exit")
    <3>1. PICK a \in hook[h].todo :
                /\ hook'[h].r = hook[h].r /\ hook'[h].a = a /\ hook'[h].todo = hook[h].todo \ {a}
                /\ hook'[h].pc = "removeListed" /\ Record(h, a, "exit")
      BY <2>2
    <3>2. a \in Agents
      BY <1>2 DEF Placed
    <3>3. /\ \A b \in Agents : last'[b] = IF b = a THEN "exit" ELSE last[b]
          /\ overtaken \subseteq overtaken' /\ overtaken' \subseteq overtaken \cup {owner[a]}
          /\ owner[a] \notin overtaken' =>
               \A x \in Hooks : hook[x].a = a => hook[x].pc \notin {"unbind", "remove", "removeListed"}
      BY <1>1, <3>1, <3>2, RecordEffect DEF Events, EventNames
    <3> QED
      BY <3>1, <3>2, <3>3
  <2> QED
    BY <1>7, <2>1, <2>2
<1>9. Unborn'
  BY <1>1, <1>2, <1>3, <1>4, <1>5, <1>6, <1>7, <1>8, HooksAssumption DEF Agreed, Placed, Unborn, Dead, Idle
<1>10. OneAgentPerRuntime'
  BY <1>1, <1>2, <1>3, <1>4, <1>5, <1>6, <1>7, <1>8, HooksAssumption DEF Agreed, Placed, OneAgentPerRuntime, Held,
     Idle
<1>11. Held'
  BY <1>1, <1>2, <1>3, <1>4, <1>5, <1>6, <1>7, <1>8, HooksAssumption DEF Agreed, Placed, Held, OneAgentPerRuntime,
     Idle
<1>12. Dead'
  BY <1>1, <1>2, <1>3, <1>4, <1>5, <1>6, <1>7, <1>8, HooksAssumption DEF Agreed, Placed, Dead, Unborn, Idle
<1>13. Telling'
  BY <1>1, <1>2, <1>3, <1>4, <1>5, <1>6, <1>7, <1>8, HooksAssumption DEF Agreed, Placed, Telling, Held, Ended, Idle
<1>14. GoneIsSeenGone'
  BY <1>1, <1>2, <1>3, <1>4, <1>5, <1>6, <1>7, <1>8, HooksAssumption DEF Agreed, Placed, GoneIsSeenGone, Held,
     Telling, Owned, OneAgentPerRuntime, Unborn, Dead, Ended, Idle
<1> QED
  BY <1>9, <1>10, <1>11, <1>12, <1>13, <1>14 DEF Agreed

LEMMA OutputHeardKeeps ==
  ASSUME HooksInv, OutputHeard
  PROVE  Agreed'
<1>1. TypeOK /\ Coherent /\ Owned /\ Agreed
  BY DEF HooksInv
<1>2. Placed
  BY <1>1, OfRuntimes
<1>3. UNCHANGED <<bind, tickets, files, owner, last, overtaken>> /\ \A x \in Runtimes : Bound(x)' = Bound(x)
  BY SameKeys DEF OutputHeard, service, OnlyOut
<1>4. UNCHANGED <<hook, runtime, revoker>>
  BY DEF OutputHeard, OnlyOut
<1>5. out.pc = "contexts" /\ out'.pc = "signal" /\ out'.r = out.r /\ out'.agents = out.agents
  BY <1>1 DEF OutputHeard, TypeOK, Listeners
<1>6. Unborn'
  BY <1>1, <1>2, <1>3, <1>4, <1>5, HooksAssumption DEF Agreed, Placed, Unborn, Dead
<1>7. OneAgentPerRuntime'
  BY <1>1, <1>2, <1>3, <1>4, <1>5, HooksAssumption DEF Agreed, Placed, OneAgentPerRuntime, Held
<1>8. Held'
  BY <1>1, <1>2, <1>3, <1>4, <1>5, HooksAssumption DEF Agreed, Placed, Held, OneAgentPerRuntime
<1>9. Dead'
  BY <1>1, <1>2, <1>3, <1>4, <1>5, HooksAssumption DEF Agreed, Placed, Dead, Unborn
<1>10. Telling'
  BY <1>1, <1>2, <1>3, <1>4, <1>5, HooksAssumption DEF Agreed, Placed, Telling, Held, Ended
<1>11. GoneIsSeenGone'
  BY <1>1, <1>2, <1>3, <1>4, <1>5, HooksAssumption DEF Agreed, Placed, GoneIsSeenGone, Held, Telling, Owned,
     OneAgentPerRuntime, Unborn, Dead, Ended
<1> QED
  BY <1>6, <1>7, <1>8, <1>9, <1>10, <1>11 DEF Agreed

LEMMA OutputDoneKeeps ==
  ASSUME HooksInv, OutputDone
  PROVE  Agreed'
<1>1. TypeOK /\ Coherent /\ Owned /\ Agreed
  BY DEF HooksInv
<1>2. Placed
  BY <1>1, OfRuntimes
<1>3. UNCHANGED <<bind, tickets, files, owner, last, overtaken>> /\ \A x \in Runtimes : Bound(x)' = Bound(x)
  BY SameKeys DEF OutputDone, service, OnlyOut
<1>4. UNCHANGED <<hook, runtime, revoker>>
  BY DEF OutputDone, OnlyOut
<1>5. out' = Quiet
  BY DEF OutputDone
<1>6. Unborn'
  BY <1>1, <1>2, <1>3, <1>4, <1>5, HooksAssumption DEF Agreed, Placed, Unborn, Dead, Quiet
<1>7. OneAgentPerRuntime'
  BY <1>1, <1>2, <1>3, <1>4, <1>5, HooksAssumption DEF Agreed, Placed, OneAgentPerRuntime, Held, Quiet
<1>8. Held'
  BY <1>1, <1>2, <1>3, <1>4, <1>5, HooksAssumption DEF Agreed, Placed, Held, OneAgentPerRuntime, Quiet
<1>9. Dead'
  BY <1>1, <1>2, <1>3, <1>4, <1>5, HooksAssumption DEF Agreed, Placed, Dead, Unborn, Quiet
<1>10. Telling'
  BY <1>1, <1>2, <1>3, <1>4, <1>5, HooksAssumption DEF Agreed, Placed, Telling, Held, Ended, Quiet
<1>11. GoneIsSeenGone'
  BY <1>1, <1>2, <1>3, <1>4, <1>5, HooksAssumption DEF Agreed, Placed, GoneIsSeenGone, Held, Telling, Owned,
     OneAgentPerRuntime, Unborn, Dead, Ended, Quiet
<1> QED
  BY <1>6, <1>7, <1>8, <1>9, <1>10, <1>11 DEF Agreed

\* An agent that was removed since its output arrived is of a Runtime that is overtaken.
LEMMA OutputSignalKeeps ==
  ASSUME HooksInv, OutputSignal
  PROVE  Agreed'
<1>1. TypeOK /\ Coherent /\ Owned /\ Agreed
  BY DEF HooksInv
<1>2. Placed
  BY <1>1, OfRuntimes
<1>3. UNCHANGED <<bind, tickets, files, owner>> /\ \A x \in Runtimes : Bound(x)' = Bound(x)
  BY SameKeys DEF OutputSignal, service, OnlyOut
<1>4. UNCHANGED <<hook, runtime, revoker>>
  BY DEF OutputSignal, OnlyOut
<1>5. out.pc = "signal"
  BY DEF OutputSignal
<1>6. PICK a \in out.agents : last' = [last EXCEPT ![a] = "signal"] /\ Between(a) /\ out' = [out EXCEPT !.agents = @ \ {a}]
  BY DEF OutputSignal
<1>7. a \in Agents /\ owner[a] = out.r /\ out'.pc = out.pc /\ out'.r = out.r /\ out'.agents \subseteq out.agents
  BY <1>1, <1>6 DEF TypeOK, Listeners, Owned
<1>8. /\ \A b \in Agents : last'[b] = IF b = a THEN "signal" ELSE last[b]
      /\ overtaken \subseteq overtaken' /\ overtaken' \subseteq overtaken \cup {owner[a]}
      /\ owner[a] \notin overtaken' =>
           \A x \in Hooks : hook[x].a = a => hook[x].pc \notin {"unbind", "remove", "removeListed"}
  BY <1>1, <1>6, <1>7 DEF TypeOK, Between
<1>9. Unborn'
  BY <1>1, <1>2, <1>3, <1>4, <1>5, <1>6, <1>7, <1>8, HooksAssumption DEF Agreed, Placed, Unborn, Dead
<1>10. OneAgentPerRuntime'
  BY <1>1, <1>2, <1>3, <1>4, <1>5, <1>6, <1>7, <1>8, HooksAssumption DEF Agreed, Placed, OneAgentPerRuntime, Held
<1>11. Held'
  BY <1>1, <1>2, <1>3, <1>4, <1>5, <1>6, <1>7, <1>8, HooksAssumption DEF Agreed, Placed, Held, OneAgentPerRuntime
<1>12. Dead'
  BY <1>1, <1>2, <1>3, <1>4, <1>5, <1>6, <1>7, <1>8, HooksAssumption DEF Agreed, Placed, Dead, Unborn
<1>13. Telling'
  BY <1>1, <1>2, <1>3, <1>4, <1>5, <1>6, <1>7, <1>8, HooksAssumption DEF Agreed, Placed, Telling, Held, Ended
<1>14. GoneIsSeenGone'
  BY <1>1, <1>2, <1>3, <1>4, <1>5, <1>6, <1>7, <1>8, HooksAssumption DEF Agreed, Placed, GoneIsSeenGone, Held,
     Telling, Owned, OneAgentPerRuntime, Unborn, Dead, Ended
<1> QED
  BY <1>9, <1>10, <1>11, <1>12, <1>13, <1>14 DEF Agreed

\* The same for a status report.
LEMMA OutputReportKeeps ==
  ASSUME HooksInv, OutputReport
  PROVE  Agreed'
<1>1. TypeOK /\ Coherent /\ Owned /\ Agreed
  BY DEF HooksInv
<1>2. Placed
  BY <1>1, OfRuntimes
<1>3. UNCHANGED <<bind, tickets, files, owner>> /\ \A x \in Runtimes : Bound(x)' = Bound(x)
  BY SameKeys DEF OutputReport, service, OnlyOut
<1>4. UNCHANGED <<hook, out, runtime, revoker>>
  BY DEF OutputReport, OnlyOut
<1>5. out.pc = "contexts"
  BY DEF OutputReport
<1>6. PICK a \in out.agents : last' = [last EXCEPT ![a] = "signal"] /\ Between(a)
  BY DEF OutputReport
<1>7. a \in Agents /\ owner[a] = out.r 
  BY <1>1, <1>6 DEF TypeOK, Listeners, Owned
<1>8. /\ \A b \in Agents : last'[b] = IF b = a THEN "signal" ELSE last[b]
      /\ overtaken \subseteq overtaken' /\ overtaken' \subseteq overtaken \cup {owner[a]}
      /\ owner[a] \notin overtaken' =>
           \A x \in Hooks : hook[x].a = a => hook[x].pc \notin {"unbind", "remove", "removeListed"}
  BY <1>1, <1>6, <1>7 DEF TypeOK, Between
<1>9. Unborn'
  BY <1>1, <1>2, <1>3, <1>4, <1>5, <1>6, <1>7, <1>8, HooksAssumption DEF Agreed, Placed, Unborn, Dead
<1>10. OneAgentPerRuntime'
  BY <1>1, <1>2, <1>3, <1>4, <1>5, <1>6, <1>7, <1>8, HooksAssumption DEF Agreed, Placed, OneAgentPerRuntime, Held
<1>11. Held'
  BY <1>1, <1>2, <1>3, <1>4, <1>5, <1>6, <1>7, <1>8, HooksAssumption DEF Agreed, Placed, Held, OneAgentPerRuntime
<1>12. Dead'
  BY <1>1, <1>2, <1>3, <1>4, <1>5, <1>6, <1>7, <1>8, HooksAssumption DEF Agreed, Placed, Dead, Unborn
<1>13. Telling'
  BY <1>1, <1>2, <1>3, <1>4, <1>5, <1>6, <1>7, <1>8, HooksAssumption DEF Agreed, Placed, Telling, Held, Ended
<1>14. GoneIsSeenGone'
  BY <1>1, <1>2, <1>3, <1>4, <1>5, <1>6, <1>7, <1>8, HooksAssumption DEF Agreed, Placed, GoneIsSeenGone, Held,
     Telling, Owned, OneAgentPerRuntime, Unborn, Dead, Ended
<1> QED
  BY <1>9, <1>10, <1>11, <1>12, <1>13, <1>14 DEF Agreed

\* Nothing read before the restart is left.
LEMMA RestartKeeps ==
  ASSUME HooksInv, Restart
  PROVE  Agreed'
<1>1. TypeOK /\ Coherent /\ Owned /\ Agreed
  BY DEF HooksInv
<1>2. Placed
  BY <1>1, OfRuntimes
<1>3. /\ hook' = [h \in Hooks |-> Idle] /\ out' = Quiet /\ revoker' = [r \in Runtimes |-> Off]
      /\ last' = [a \in Agents |-> "unseen"] /\ overtaken' = {} /\ UNCHANGED <<files, owner>> /\ tickets' \subseteq files
  BY DEF Restart
<1>4. \A x \in Runtimes : Bound(x)' \subseteq {managed[x]} /\ (x \notin files => Bound(x)' = {})
  BY <1>1, KeysOnDisk
<1>5. \A x \in Runtimes : runtime'[x] = IF runtime[x] \in {"starting", "alive", "exited"} THEN "lost" ELSE runtime[x]
  BY DEF Restart
<1>6. Unborn'
  BY <1>1, <1>2, <1>3, <1>4, <1>5, HooksAssumption DEF Agreed, Placed, Unborn, Dead, Idle, Quiet, Off
<1>7. OneAgentPerRuntime'
  BY <1>1, <1>2, <1>3, <1>4, <1>5, HooksAssumption DEF Agreed, Placed, OneAgentPerRuntime, Held, Idle, Quiet, Off
<1>8. Held'
  BY <1>1, <1>2, <1>3, <1>4, <1>5, HooksAssumption DEF Agreed, Placed, Held, OneAgentPerRuntime, Idle, Quiet, Off
<1>9. Dead'
  BY <1>1, <1>2, <1>3, <1>4, <1>5, HooksAssumption DEF Agreed, Placed, Dead, Unborn, Idle, Quiet, Off
<1>10. Telling'
  BY <1>1, <1>2, <1>3, <1>4, <1>5, HooksAssumption DEF Agreed, Placed, Telling, Held, Ended, Idle, Quiet, Off
<1>11. GoneIsSeenGone'
  BY <1>1, <1>2, <1>3, <1>4, <1>5, HooksAssumption DEF Agreed, Placed, GoneIsSeenGone, Held, Telling, Owned,
     OneAgentPerRuntime, Unborn, Dead, Ended, Idle, Quiet, Off
<1> QED
  BY <1>6, <1>7, <1>8, <1>9, <1>10, <1>11 DEF Agreed


\* No step makes the keys, the requests at work and the events disagree.
LEMMA AgreedKept == HooksInv /\ [Next]_vars => Agreed'
<1> SUFFICES ASSUME HooksInv, [Next]_vars PROVE Agreed'
  OBVIOUS
<1>1. ASSUME NEW r \in Runtimes,
             Launch(r) \/ Created(r) \/ LaunchFailed(r) \/ SetupFailed(r) \/ LaunchAbandoned(r) \/ Exit(r)
      PROVE  Agreed'
  BY <1>1, LaunchKeeps, CreatedKeeps, LaunchFailedKeeps, SetupFailedKeeps, LaunchAbandonedKeeps, ExitKeeps
<1>2. ASSUME NEW r \in Runtimes, Revoke(r), ~Noting PROVE Agreed'
  BY <1>2, RevokeTicketsKeeps, RevokeAgentsKeeps, RevokeRecordKeeps, RevokeMarkersKeeps DEF Revoke, Noting
<1>3. ASSUME NEW h \in Hooks, NEW r \in Runtimes, NEW e \in EventNames,
             NEW s \in Sessions \cup {NONE}, NEW p \in Procs \cup {NONE}, Receive(h, r, e, s, p)
      PROVE  Agreed'
  BY <1>3, ReceiveKeeps
<1>4. ASSUME NEW h \in Hooks, HookStep(h) \/ Abandon(h), ~Noting PROVE Agreed'
  BY <1>4, BrowserEnsuredKeeps, AgentHookKeeps, BindSessionKeeps, EndSessionKeeps, ExitAgentKeeps, RegisterKeeps,
     RecordRegisteredKeeps, RefuseKeeps, ExitAllKeeps, ExitEachKeeps, RemoveListedKeeps, AbandonKeeps
  DEF HookStep, Noting
<1>5. ASSUME NEW r \in Runtimes, OutputArrives(r) PROVE Agreed'
  BY <1>5, OutputArrivesKeeps
<1>6. CASE OutputHeard \/ OutputReport \/ OutputSignal \/ OutputDone
  BY <1>6, OutputHeardKeeps, OutputReportKeeps, OutputSignalKeeps, OutputDoneKeeps
<1>7. CASE Restart
  BY <1>7, RestartKeeps
<1>8. CASE UNCHANGED vars
  BY <1>8 DEF vars, service, HooksInv, Agreed, Unborn, OneAgentPerRuntime, Held, Dead, Telling, GoneIsSeenGone, Bound
<1>9. CASE Noting
  <2>1. OnlyNotes
    BY <1>9, NotingTyped DEF HooksInv
  <2> QED
    BY <2>1 DEF OnlyNotes, HooksInv, Agreed, Unborn, OneAgentPerRuntime, Held, Dead, Telling, GoneIsSeenGone, Bound
<1> QED
  BY <1>1, <1>2, <1>3, <1>4, <1>5, <1>6, <1>7, <1>8, <1>9 DEF Next, Noting

\* Nothing has been launched at first.
LEMMA InitHolds == Init => HooksInv
<1> SUFFICES ASSUME Init PROVE HooksInv
  OBVIOUS
<1>1. TypeOK
  <2>1. Idle \in Requests /\ Quiet \in Listeners /\ Off \in Revokers /\ Unnoted \in Notes
    BY DEF Idle, Quiet, Off, Requests, Listeners, Revokers, Places, Notes
  <2>2. Unkeyed \in [Keys -> Agents \cup {NONE}]
    BY DEF Unkeyed
  <2>3. "none" \in Lives /\ "unseen" \in Events /\ 0 \in 0 .. MaxHooks /\ 0 \in 0 .. MaxRestarts
    BY HooksAssumption DEF Lives, Events
  <2> QED
    BY <2>1, <2>2, <2>3 DEF Init, TypeOK
<1>2. Coherent
  BY HooksAssumption DEF Init, Coherent, Idle, Quiet
<1>3. Owned
  BY HooksAssumption DEF Init, Owned, Idle, Quiet, Off, Unkeyed
<1>4. \A r \in Runtimes : Bound(r) = {}
  BY DEF Init, Bound, Unkeyed
<1>5. Unborn /\ OneAgentPerRuntime
  BY <1>4, HooksAssumption DEF Init, Unborn, OneAgentPerRuntime, Idle, Off
<1>6. Held /\ Dead
  BY <1>4, HooksAssumption DEF Init, Held, Dead, Idle, Quiet, Off
<1>7. Telling /\ GoneIsSeenGone
  BY HooksAssumption DEF Init, Telling, GoneIsSeenGone, Idle
<1> QED
  BY <1>1, <1>2, <1>3, <1>5, <1>6, <1>7 DEF HooksInv, Agreed

\* The invariant the theorems follow from.
LEMMA Invariance == Spec => []HooksInv
<1>1. HooksInv /\ [Next]_vars => HooksInv'
  BY TypesKept, CoherentKept, OwnedKept, AgreedKept DEF HooksInv
<1> QED
  BY <1>1, InitHolds, PTL DEF Spec

\* The state of the agents is well typed.
THEOREM TypeCorrect == Spec => []TypeOK
<1>1. HooksInv => TypeOK
  BY DEF HooksInv
<1> QED
  BY <1>1, Invariance, PTL

\* A terminal Runtime never owns two agents, however many requests register, bind and end
\* sessions at once, as long as no key was removed under an actor that had read it.
THEOREM OneAgentHolds == Spec => []OneAgentPerRuntime
<1>1. HooksInv => OneAgentPerRuntime
  BY DEF HooksInv, Agreed
<1> QED
  BY <1>1, Invariance, PTL

\* A Runtime that was revoked has no ticket, no file and, unless a request was at work, no key:
\* neither a late hook nor a restart brings its agents back.
THEOREM DeadStaysDeadHolds == Spec => []DeadStaysDead
<1>1. HooksInv => DeadStaysDead
  BY DEF HooksInv, Agreed, Dead, DeadStaysDead
<1> QED
  BY <1>1, Invariance, PTL

\* An agent that lost its keys was reported as ended, by its own hook or by the revocation.
THEOREM GoneIsSeenGoneHolds == Spec => []GoneIsSeenGone
<1>1. HooksInv => GoneIsSeenGone
  BY DEF HooksInv, Agreed
<1> QED
  BY <1>1, Invariance, PTL
-----------------------------------------------------------------------------

\* What a step may do to the title of an agent.
TitleStep ==
  \A a \in Agents : title[a] # NONE /\ title'[a] # title[a] =>
       \/ \E h \in Hooks :
            /\ <<hook[h], noted[h]>> # <<hook'[h], noted'[h]>>
            /\ \/ hook[h].e \in {"session", "exit"}
               \/ hook[h].a = a /\ hook[h].s \in {title[a], NONE}
       \/ revoker[owner[a]].pc # "off" \/ restarts' # restarts

\* An event that is no new session leaves the title of another session alone.
LEMMA NoteTitleEffect ==
  ASSUME TypeOK, NEW x \in Hooks \cup Runtimes, NEW a \in Agents, NEW e, NEW s \in Sessions \cup {NONE},
         NoteTitle(x, a, e, s)
  PROVE  /\ noted'[x] # noted[x]
         /\ \A b \in Agents : title[b] # NONE /\ title'[b] # title[b] =>
              b = a /\ (e = "session" \/ s \in {title[b], NONE})
<1>1. \A b \in Agents \ {a} : title'[b] = title[b]
  BY DEF TypeOK, NoteTitle
<1>2. title'[a] = Title(a, e, s)
  BY DEF TypeOK, NoteTitle
<1>3. title[a] # NONE /\ e # "session" /\ s \notin {title[a], NONE} => Title(a, e, s) = title[a]
  BY DEF Title
<1>4. noted'[x].stage = "title" /\ noted[x].stage = "none"
  BY DEF TypeOK, NoteTitle, Unnoted
<1> QED
  BY <1>1, <1>2, <1>3, <1>4

\* Whoever changes a title is an event of its own session or of an end.
LEMMA TitleSteps == HooksInv /\ [Next]_vars => TitleStep
<1> SUFFICES ASSUME HooksInv, [Next]_vars PROVE TitleStep
  OBVIOUS
<1>0. TypeOK /\ Coherent /\ Owned /\ Unborn
  BY DEF HooksInv, Agreed
<1>1. ASSUME NEW r \in Runtimes, RevokeTickets(r) PROVE TitleStep
  BY <1>0, <1>1 DEF RevokeTickets, TypeOK, TitleStep
<1>2. ASSUME NEW r \in Runtimes, RevokeTitle(r) PROVE TitleStep
  <2>1. PICK a \in revoker[r].todo : NoteTitle(r, a, "runtimeExit", NONE) /\ revoker[r].pc = "record"
    BY <1>2 DEF RevokeTitle
  <2>2. a \in Agents /\ owner[a] = r
    BY <1>0, <2>1 DEF TypeOK, Revokers, Owned
  <2>3. \A b \in Agents : title[b] # NONE /\ title'[b] # title[b] => b = a
    BY <1>0, <2>1, <2>2, NoteTitleEffect
  <2> QED
    BY <2>1, <2>2, <2>3 DEF TitleStep
<1>3. ASSUME NEW h \in Hooks, HookTitle(h) PROVE TitleStep
  <2>0. hook[h] \in Requests
    BY <1>0 DEF TypeOK
  <2>1. CASE hook[h].a # NONE /\ NoteTitle(h, hook[h].a, hook[h].e, hook[h].s)
    <3>1. hook[h].a \in Agents /\ hook[h].s \in Sessions \cup {NONE}
      BY <2>0, <2>1 DEF Requests
    <3>2. noted'[h] # noted[h] /\ \A b \in Agents : title[b] # NONE /\ title'[b] # title[b] =>
             b = hook[h].a /\ (hook[h].e = "session" \/ hook[h].s \in {title[b], NONE})
      BY <1>0, <2>1, <3>1, NoteTitleEffect
    <3> QED
      BY <3>2 DEF TitleStep
  <2>2. CASE hook[h].pc = "exits" /\ \E a \in hook[h].todo : NoteTitle(h, a, "exit", NONE)
    <3>1. PICK a \in hook[h].todo : NoteTitle(h, a, "exit", NONE)
      BY <2>2
    <3>2. a \in Agents /\ hook[h].e = "exit"
      BY <1>0, <2>0, <2>2 DEF Requests, Coherent
    <3>3. noted'[h] # noted[h]
      BY <1>0, <3>1, <3>2, NoteTitleEffect
    <3> QED
      BY <3>2, <3>3 DEF TitleStep
  <2> QED
    BY <1>3, <2>1, <2>2 DEF HookTitle
<1>4. ASSUME NEW h \in Hooks, ExitAgent(h) PROVE TitleStep
  <2>1. hook[h].e = "exit" /\ hook[h].pc = "remove" /\ hook'[h].pc = "idle"
    BY <1>0, <1>4 DEF ExitAgent, Coherent, Answer, TypeOK, Idle
  <2> QED
    BY <2>1 DEF TitleStep
<1>5. ASSUME NEW h \in Hooks, RemoveListed(h) PROVE TitleStep
  <2>1. hook[h].e = "exit" /\ hook[h].pc = "removeListed" /\ hook'[h].pc = "exits"
    BY <1>0, <1>5 DEF RemoveListed, Coherent, Goto, TypeOK, Requests
  <2> QED
    BY <2>1 DEF TitleStep
<1>6. CASE Restart
  BY <1>0, <1>6 DEF Restart, TitleStep, TypeOK
<1>7. CASE UNCHANGED title
  BY <1>7 DEF TitleStep
<1>8. ASSUME NEW r \in Runtimes,
             Launch(r) \/ Created(r) \/ LaunchFailed(r) \/ SetupFailed(r) \/ LaunchAbandoned(r) \/ Exit(r)
      PROVE  UNCHANGED title
  BY <1>8 DEF Launch, Created, LaunchFailed, SetupFailed, RevokeToken, LaunchAbandoned, Exit, service
<1>9. ASSUME NEW r \in Runtimes, OutputArrives(r) \/ RevokeAgents(r) \/ RevokeRecord(r) \/ RevokeMarkers(r)
      PROVE  UNCHANGED title
  BY <1>9 DEF OutputArrives, RevokeAgents, RevokeRecord, Record, RevokeMarkers, service
<1>10. ASSUME NEW h \in Hooks, NEW r \in Runtimes, NEW e \in EventNames,
             NEW s \in Sessions \cup {NONE}, NEW p \in Procs \cup {NONE}, Receive(h, r, e, s, p)
       PROVE  UNCHANGED title
  BY <1>10 DEF Receive, service
<1>11. ASSUME NEW h \in Hooks,
              BrowserEnsured(h) \/ AgentHook(h) \/ BindSession(h) \/ EndSession(h) \/ Register(h)
                \/ RecordRegistered(h) \/ Refuse(h) \/ ExitAll(h) \/ ExitEach(h) \/ Abandon(h)
       PROVE  UNCHANGED title
  BY <1>11 DEF BrowserEnsured, AgentHook, BindSession, EndSession, Register, RecordRegistered, Refuse, ExitAll,
     ExitEach, Abandon, Record, service
<1>12. ASSUME NEW x \in Hooks \cup Runtimes, NoteMark(x) PROVE UNCHANGED title
  BY <1>12 DEF NoteMark
<1>13. ASSUME OutputHeard \/ OutputReport \/ OutputSignal \/ OutputDone \/ UNCHANGED vars PROVE UNCHANGED title
  BY <1>13 DEF OutputHeard, OutputReport, OutputSignal, OutputDone, vars, service
<1> QED
  BY <1>1, <1>2, <1>3, <1>4, <1>5, <1>6, <1>7, <1>8, <1>9, <1>10, <1>11, <1>12, <1>13 DEF Next, HookStep, Revoke

\* The title of an agent changes only with its own session, a new session, an exit, the
\* revocation of its Runtime or a restart.
THEOREM TitleOfCurrentSessionHolds == Spec => TitleOfCurrentSession
<1>1. HooksInv /\ [Next]_vars => [TitleStep]_vars
  BY TitleSteps
<1> QED
  BY <1>1, Invariance, PTL DEF Spec, TitleOfCurrentSession, TitleStep
=============================================================================
