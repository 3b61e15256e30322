------------------------------ MODULE AgentHooks ------------------------------
(***************************************************************************)
(* The managed agents of terminal Runtimes (agent_hooks.rs, the launch in  *)
(* commands.rs and the event sink in lib.rs).  A Runtime is launched with a *)
(* token; the hooks of the agents inside it present the token, and bind     *)
(* the agent to keys: the bare token, a session or a process.  Requests,    *)
(* the output thread and the revocation after an exit take the locks of     *)
(* the service one after the other, so each may work on what another has    *)
(* removed since.                                                           *)
(***************************************************************************)
EXTENDS Naturals, FiniteSets

CONSTANTS
  Runtimes, Agents,  \* ids that may ever be issued or minted
  Procs, Sessions,   \* process and session ids the hooks report
  Dsh,               \* agents of dsh-tui, which report their status in the output
  Hooks,             \* slots for requests in flight
  MaxHooks,          \* bound: requests that pass authentication
  MaxRestarts,       \* bound: restarts of the application
  NONE

Keys == {"bare"} \cup Procs \cup Sessions

ASSUME HooksAssumption ==
  /\ NONE \notin Runtimes \cup Agents \cup Keys \cup Hooks
  /\ Dsh \subseteq Agents /\ {MaxHooks, MaxRestarts} \subseteq Nat

Tools == {"tool", "browse"}   \* events that may register a process again
EventNames == Tools \cup {"start", "session", "sessionEnd", "stop", "exit"}
Ended == {"sessionEnd", "exit", "runtimeExit"}   \* what the window takes for an end

VARIABLES
  runtime,     \* life of each Runtime as the service sees it
  managed,     \* the agent a Runtime was launched for, NONE for a shell
  bind,        \* agents: the agent each key of a Runtime's token leads to
  tickets,     \* bootstrap_tokens: Runtimes whose shells may start agents
  files,       \* Runtimes whose authorization is on disk
  owner,       \* the Runtime an agent id was minted for, NONE while it is unused
  structured,  \* agents that have sent hooks
  title,       \* title_sources: the session an agent's title comes from
  last,        \* the newest event of each agent
  hook,        \* requests
  noted,       \* how far each request, and each Runtime's revocation, is with an event
  out,         \* the output thread of a Runtime
  revoker,     \* the revocation of each Runtime
  count,       \* requests admitted, for MaxHooks
  restarts,
  overtaken    \* history: Runtimes where a removal met another request or output

service == <<bind, tickets, files, owner, structured, title, last, noted, overtaken>>
vars == <<runtime, managed, service, hook, out, revoker, count, restarts>>

Unkeyed == [k \in Keys |-> NONE]
Idle == [pc |-> "idle", r |-> NONE, e |-> NONE, p |-> NONE, s |-> NONE,
         a |-> NONE, key |-> NONE, todo |-> {}]
Quiet == [pc |-> "idle", r |-> NONE, agents |-> {}, heard |-> {}]
Off == [pc |-> "off", todo |-> {}, told |-> {}]
Unnoted == [stage |-> "none", a |-> NONE]

Places == {"idle", "browser", "admitted", "bind", "unbind", "remove", "record", "exits", "removeListed"}
Requests ==
  [pc : Places,
   r : Runtimes \cup {NONE}, e : EventNames \cup {NONE}, p : Procs \cup {NONE},
   s : Sessions \cup {NONE}, a : Agents \cup {NONE}, key : Keys \cup {NONE}, todo : SUBSET Agents]
Listeners ==
  [pc : {"idle", "contexts", "signal"}, r : Runtimes \cup {NONE}, agents : SUBSET Agents, heard : SUBSET Agents]
Notes == {Unnoted} \cup [stage : {"title", "mark"}, a : Agents]
Revokers == [pc : {"off", "grace", "agents", "record"}, todo : SUBSET Agents, told : SUBSET Agents]

Lives == {"none", "starting", "alive", "failed", "abandoned", "exited", "revoked", "lost"}
Events == EventNames \cup {"unseen", "signal", "runtimeExit"}

Init ==
  /\ runtime = [r \in Runtimes |-> "none"] /\ managed = [r \in Runtimes |-> NONE]
  /\ bind = [r \in Runtimes |-> Unkeyed] /\ tickets = {} /\ files = {}
  /\ owner = [a \in Agents |-> NONE] /\ structured = {}
  /\ title = [a \in Agents |-> NONE] /\ last = [a \in Agents |-> "unseen"]
  /\ hook = [h \in Hooks |-> Idle] /\ out = Quiet
  /\ noted = [x \in Hooks \cup Runtimes |-> Unnoted]
  /\ revoker = [r \in Runtimes |-> Off]
  /\ count = 0 /\ restarts = 0 /\ overtaken = {}

Bound(r) == {bind[r][k] : k \in Keys} \ {NONE}

\* History: actors other than `self` hold what they read of r before its keys
\* are removed.
Overtake(self, r) ==
  overtaken' = IF \/ \E h \in Hooks \ {self} : hook[h].r = r
                  \/ out.r = r
               THEN overtaken \cup {r} ELSE overtaken

\* History: the event of `a` comes between the end another request has recorded
\* and the removal that goes with it.
Between(a) ==
  overtaken' = IF \E h \in Hooks : hook[h].a = a /\ hook[h].pc \in {"unbind", "remove", "removeListed"}
               THEN overtaken \cup {owner[a]} ELSE overtaken
-----------------------------------------------------------------------------
(* record takes three locks one after the other: for the title, for the     *)
(* structured marker and for the numbered event.  The caller `x` is a       *)
(* request, or a Runtime for its revocation.                                *)

\* Fault: the end of an older session clears the title of the current one.
TitleAlways(a, e, s) ==
  IF e \in {"sessionEnd", "start", "exit", "runtimeExit"} THEN NONE
  ELSE IF s # NONE /\ (e = "session" \/ title[a] # NONE) THEN s
  ELSE title[a]

\* Events of a session that is no longer current leave the title alone.
Title(a, e, s) ==
  LET stale == e # "session" /\ s # NONE /\ title[a] \notin {NONE, s} IN
  IF stale THEN title[a]
  ELSE IF e \in {"sessionEnd", "start", "exit", "runtimeExit"} THEN NONE
  ELSE IF s # NONE /\ (e = "session" \/ title[a] # NONE) THEN s
  ELSE title[a]

OnlyNotes ==
  UNCHANGED <<runtime, managed, bind, tickets, files, owner, last, hook, out, revoker,
              count, restarts, overtaken>>

NoteTitle(x, a, e, s) ==
  /\ noted[x] = Unnoted
  /\ title' = [title EXCEPT ![a] = Title(a, e, s)]
  /\ noted' = [noted EXCEPT ![x] = [stage |-> "title", a |-> a]]
  /\ OnlyNotes /\ UNCHANGED structured

NoteMark(x) ==
  /\ noted[x].stage = "title"
  /\ structured' = structured \cup {noted[x].a}
  /\ noted' = [noted EXCEPT ![x] = [@ EXCEPT !.stage = "mark"]]
  /\ OnlyNotes /\ UNCHANGED title

Record(x, a, e) ==
  /\ noted[x] = [stage |-> "mark", a |-> a]
  /\ noted' = [noted EXCEPT ![x] = Unnoted]
  /\ last' = [last EXCEPT ![a] = e] /\ Between(a)
  /\ UNCHANGED <<title, structured>>

HookTitle(h) ==
  LET q == hook[h] IN
  \/ q.pc \in {"admitted", "record"} /\ q.a # NONE /\ NoteTitle(h, q.a, q.e, q.s)
  \/ q.pc = "exits" /\ \E a \in q.todo : NoteTitle(h, a, "exit", NONE)

RevokeTitle(r) ==
  revoker[r].pc = "record" /\ \E a \in revoker[r].todo : NoteTitle(r, a, "runtimeExit", NONE)
-----------------------------------------------------------------------------
(* terminal_runtime_create.                                                 *)

\* A fresh agent id.
Mint(a, r) == owner[a] = NONE /\ owner' = [owner EXCEPT ![a] = r]

\* The token is issued and written to disk before there is a Runtime.
Launch(r) ==
  /\ runtime[r] = "none"
  /\ runtime' = [runtime EXCEPT ![r] = "starting"]
  /\ files' = files \cup {r}
  /\ \/ /\ tickets' = tickets \cup {r}
        /\ UNCHANGED <<managed, bind, owner>>
     \/ \E a \in Agents :
          /\ Mint(a, r)
          /\ managed' = [managed EXCEPT ![r] = a]
          /\ bind' = [bind EXCEPT ![r]["bare"] = a]
          /\ UNCHANGED tickets
  /\ UNCHANGED <<structured, title, last, noted, overtaken, hook, out, revoker, count, restarts>>

Created(r) ==
  /\ runtime[r] = "starting"
  /\ runtime' = [runtime EXCEPT ![r] = "alive"]
  /\ UNCHANGED <<managed, service, hook, out, revoker, count, restarts>>

\* revoke_token: the token's keys, its ticket and its file.
RevokeToken(r) ==
  /\ bind' = [bind EXCEPT ![r] = Unkeyed]
  /\ tickets' = tickets \ {r} /\ files' = files \ {r}
  /\ Overtake(NONE, r)
  /\ UNCHANGED <<managed, owner, structured, title, last, noted, hook, out, revoker, count, restarts>>

\* The backend could not create the Runtime.
LaunchFailed(r) ==
  /\ runtime[r] = "starting"
  /\ runtime' = [runtime EXCEPT ![r] = "failed"]
  /\ RevokeToken(r)

\* A remote host could not be set up, before its agents have the token: a shell
\* goes on without them, the Runtime of a managed agent is closed.
SetupFailed(r) ==
  /\ runtime[r] = "alive" /\ \A h \in Hooks : hook[h].r # r
  /\ \/ r \in tickets /\ Bound(r) = {} /\ UNCHANGED runtime
     \/ managed[r] # NONE /\ managed[r] \notin structured
        /\ runtime' = [runtime EXCEPT ![r] = "failed"]
  /\ RevokeToken(r)

\* An error between issuing the token and using it returns without revoking it.
LaunchAbandoned(r) ==
  /\ runtime[r] = "starting"
  /\ runtime' = [runtime EXCEPT ![r] = "abandoned"]
  /\ UNCHANGED <<managed, service, hook, out, revoker, count, restarts>>
-----------------------------------------------------------------------------
(* receive_hook.                                                            *)

\* authenticate_token: the session, then the process, then the token itself.
Lookup(r, s, p) ==
  IF s # NONE /\ bind[r][s] # NONE THEN s
  ELSE IF p # NONE /\ bind[r][p] # NONE THEN p
  ELSE IF bind[r]["bare"] # NONE THEN "bare" ELSE NONE

\* The agents of a Runtime have the token from its start, and may outlive it
\* and the application.  A request nobody vouches for is refused.
Receive(h, r, e, s, p) ==
  LET key == Lookup(r, s, p) IN
  /\ hook[h] = Idle /\ count < MaxHooks
  /\ runtime[r] \in {"alive", "exited", "revoked", "lost"}
  /\ key # NONE \/ r \in tickets
  /\ hook' = [hook EXCEPT ![h] =
       [pc |-> IF e = "browse" THEN "browser" ELSE "admitted", r |-> r, e |-> e, s |-> s,
        p |-> IF key = NONE THEN p ELSE NONE, key |-> key,
        a |-> IF key = NONE THEN NONE ELSE bind[r][key], todo |-> {}]]
  /\ count' = count + 1
  /\ UNCHANGED <<runtime, managed, service, out, revoker, restarts>>

Goto(h, pc) == hook' = [hook EXCEPT ![h] = [@ EXCEPT !.pc = pc]]
Answer(h) == hook' = [hook EXCEPT ![h] = Idle]
OnlyHook == UNCHANGED <<runtime, managed, out, revoker, count, restarts>>

\* ensure_browser returns, fails or runs into its twenty seconds.
BrowserEnsured(h) ==
  /\ hook[h].pc = "browser"
  /\ hook' = [hook EXCEPT ![h] = [@ EXCEPT !.pc = "admitted", !.e = "tool"]]
  /\ OnlyHook /\ UNCHANGED service

\* The forwarder disconnects: the request ends at its only await.
Abandon(h) ==
  /\ hook[h].pc = "browser" /\ Answer(h)
  /\ OnlyHook /\ UNCHANGED service

\* HookAuthorization::Agent: the event first, then what it means for the keys.
AgentHook(h) ==
  LET q == hook[h] IN
  /\ q.pc = "admitted" /\ q.a # NONE
  /\ Record(h, q.a, q.e)
  /\ CASE q.e = "session" /\ q.s # NONE -> Goto(h, "bind")
       [] q.e = "sessionEnd" -> Goto(h, "unbind")
       [] q.e = "exit" -> Goto(h, "remove")
       [] OTHER -> Answer(h)
  /\ OnlyHook /\ UNCHANGED <<bind, tickets, files, owner>>

BindSession(h) ==
  LET q == hook[h] IN
  /\ q.pc = "bind" /\ Answer(h)
  /\ bind' = [bind EXCEPT ![q.r][q.s] = q.a]
  /\ OnlyHook /\ UNCHANGED <<tickets, files, owner, structured, title, last, noted, overtaken>>

\* SessionEnd removes the key the request was authenticated with.
EndSession(h) ==
  LET q == hook[h] IN
  /\ q.pc = "unbind" /\ Answer(h)
  /\ bind' = [bind EXCEPT ![q.r][q.key] = NONE]
  /\ Overtake(h, q.r)
  /\ OnlyHook /\ UNCHANGED <<tickets, files, owner, structured, title, last, noted>>

Without(a) == [r \in Runtimes |-> [k \in Keys |-> IF bind[r][k] = a THEN NONE ELSE bind[r][k]]]

RemoveAgent(a) ==
  /\ bind' = Without(a)
  /\ title' = [title EXCEPT ![a] = NONE]
  /\ structured' = structured \ {a}

\* AgentProcessExit; the file of a managed agent goes with it.
ExitAgent(h) ==
  LET q == hook[h] IN
  /\ q.pc = "remove" /\ Answer(h)
  /\ RemoveAgent(q.a) /\ Overtake(h, q.r)
  /\ files' = IF q.r \in tickets THEN files ELSE files \ {q.r}
  /\ OnlyHook /\ UNCHANGED <<tickets, owner, last, noted>>
-----------------------------------------------------------------------------
(* HookAuthorization::Bootstrap: a token of a shell without a known agent.  *)

\* Fault: every identity gets an agent of its own.
ResolveByKey(r, k, a) ==
  IF bind[r][k] # NONE
    THEN a = bind[r][k] /\ UNCHANGED <<bind, owner>>
    ELSE Mint(a, r) /\ bind' = [bind EXCEPT ![r][k] = a]

\* resolve_bootstrap_agent, under one write lock: an agent the Runtime has
\* already is reused for the new key.
Resolve(r, k, a) ==
  IF bind[r][k] # NONE
    THEN a = bind[r][k] /\ UNCHANGED <<bind, owner>>
    ELSE /\ IF Bound(r) # {} THEN a \in Bound(r) /\ UNCHANGED owner ELSE Mint(a, r)
         /\ bind' = [bind EXCEPT ![r][k] = a]

Identity(q) == IF q.e = "session" THEN q.s
               ELSE IF q.e \in Tools \cup {"start"} THEN q.p ELSE NONE

Register(h) ==
  LET q == hook[h] IN
  /\ q.pc = "admitted" /\ q.a = NONE /\ Identity(q) # NONE
  /\ \E a \in Agents :
       /\ Resolve(q.r, Identity(q), a)
       /\ hook' = [hook EXCEPT ![h] = [q EXCEPT !.pc = "record", !.a = a]]
  /\ OnlyHook /\ UNCHANGED <<tickets, files, structured, title, last, noted, overtaken>>

RecordRegistered(h) ==
  LET q == hook[h] IN
  /\ q.pc = "record" /\ Record(h, q.a, q.e) /\ Answer(h)
  /\ OnlyHook /\ UNCHANGED <<bind, tickets, files, owner>>

\* Nothing but a start, a session or a tool call makes an agent known.
Refuse(h) ==
  LET q == hook[h] IN
  /\ q.pc = "admitted" /\ q.a = NONE /\ q.e # "exit" /\ Identity(q) = NONE
  /\ Answer(h) /\ OnlyHook /\ UNCHANGED service

\* An exit whose process is unknown ends every agent of the token, once for
\* each of its keys; the repetitions say the same.
ExitAll(h) ==
  LET q == hook[h] IN
  /\ q.pc = "admitted" /\ q.a = NONE /\ q.e = "exit"
  /\ hook' = [hook EXCEPT ![h] = [q EXCEPT !.pc = "exits", !.todo = Bound(q.r)]]
  /\ OnlyHook /\ UNCHANGED service

ExitEach(h) ==
  LET q == hook[h] IN
  /\ q.pc = "exits" /\ OnlyHook
  /\ \/ /\ q.todo = {} /\ Answer(h) /\ UNCHANGED service
     \/ \E a \in q.todo :
          /\ Record(h, a, "exit")
          /\ hook' = [hook EXCEPT ![h] = [q EXCEPT !.pc = "removeListed", !.a = a, !.todo = q.todo \ {a}]]
          /\ UNCHANGED <<bind, tickets, files, owner>>

RemoveListed(h) ==
  LET q == hook[h] IN
  /\ q.pc = "removeListed" /\ Goto(h, "exits")
  /\ RemoveAgent(q.a) /\ Overtake(h, q.r)
  /\ OnlyHook /\ UNCHANGED <<tickets, files, owner, last, noted>>

HookStep(h) ==
  \/ BrowserEnsured(h) \/ HookTitle(h) \/ AgentHook(h) \/ BindSession(h) \/ EndSession(h) \/ ExitAgent(h)
  \/ Register(h) \/ RecordRegistered(h) \/ Refuse(h) \/ ExitAll(h) \/ ExitEach(h)
  \/ RemoveListed(h)
-----------------------------------------------------------------------------
(* record_terminal_output, on the thread that emits the output.             *)

OnlyOut == UNCHANGED <<runtime, managed, hook, revoker, count, restarts>>

OutputArrives(r) ==
  /\ out = Quiet /\ runtime[r] = "alive" /\ Bound(r) # {}
  /\ out' = [Quiet EXCEPT !.pc = "contexts", !.r = r, !.agents = Bound(r)]
  /\ OnlyOut /\ UNCHANGED service

OutputHeard ==
  /\ out.pc = "contexts"
  /\ out' = [out EXCEPT !.pc = "signal", !.heard = structured]
  /\ OnlyOut /\ UNCHANGED service

\* The status reports of the only dsh-tui agent, whether it has sent hooks or not.
OutputReport ==
  /\ out.pc = "contexts"
  /\ \E a \in out.agents :
       /\ out.agents \cap Dsh = {a}
       /\ last' = [last EXCEPT ![a] = "signal"] /\ Between(a)
  /\ OnlyOut /\ UNCHANGED <<out, bind, tickets, files, owner, structured, title, noted>>

\* Only agents that never sent a hook are judged by their output.
OutputSignal ==
  /\ out.pc = "signal"
  /\ \E a \in out.agents \ out.heard :
    /\ last' = [last EXCEPT ![a] = "signal"] /\ Between(a)
    /\ out' = [out EXCEPT !.agents = @ \ {a}]
    /\ OnlyOut
    /\ UNCHANGED <<bind, tickets, files, owner, structured, title, noted>>

\* Nothing is left to record, or the last signal is too recent.
OutputDone ==
  /\ out.pc = "signal" /\ out' = Quiet
  /\ OnlyOut /\ UNCHANGED service
-----------------------------------------------------------------------------
(* revoke_runtime_after_exit: two seconds after the exit, in this order.    *)

Exit(r) ==
  /\ runtime[r] = "alive"
  /\ runtime' = [runtime EXCEPT ![r] = "exited"]
  /\ revoker' = [revoker EXCEPT ![r] = [@ EXCEPT !.pc = "grace"]]
  /\ UNCHANGED <<managed, service, hook, out, count, restarts>>

OnlyRevoker == UNCHANGED <<managed, hook, out, count, restarts>>

\* Fault: what is on disk stays.
RevokeTicketsInMemory(r) ==
  /\ revoker[r].pc = "grace"
  /\ revoker' = [revoker EXCEPT ![r] = [@ EXCEPT !.pc = "agents"]]
  /\ title' = [a \in Agents |-> IF owner[a] = r THEN NONE ELSE title[a]]
  /\ tickets' = tickets \ {r}
  /\ OnlyRevoker /\ UNCHANGED <<runtime, bind, files, owner, structured, last, noted, overtaken>>

RevokeTickets(r) ==
  /\ revoker[r].pc = "grace"
  /\ revoker' = [revoker EXCEPT ![r] = [@ EXCEPT !.pc = "agents"]]
  /\ title' = [a \in Agents |-> IF owner[a] = r THEN NONE ELSE title[a]]
  /\ files' = files \ {r} /\ tickets' = tickets \ {r}
  /\ OnlyRevoker /\ UNCHANGED <<runtime, bind, owner, structured, last, noted, overtaken>>

RevokeAgents(r) ==
  /\ revoker[r].pc = "agents"
  /\ revoker' = [revoker EXCEPT ![r] = [@ EXCEPT !.pc = "record", !.todo = Bound(r)]]
  /\ bind' = [bind EXCEPT ![r] = Unkeyed]
  /\ Overtake(NONE, r)
  /\ OnlyRevoker /\ UNCHANGED <<runtime, tickets, files, owner, structured, title, last, noted>>

\* Fault: only agents that sent hooks are reported gone.
RevokeRecordHeard(r) ==
  \E a \in revoker[r].todo :
    /\ revoker[r].pc = "record"
    /\ IF a \in structured THEN Record(r, a, "runtimeExit")
       ELSE UNCHANGED <<title, structured, last, noted, overtaken>>
    /\ revoker' = [revoker EXCEPT ![r] = [@ EXCEPT !.todo = revoker[r].todo \ {a}, !.told = revoker[r].told \cup {a}]]
    /\ OnlyRevoker /\ UNCHANGED <<runtime, bind, tickets, files, owner>>

RevokeRecord(r) ==
  \E a \in revoker[r].todo :
    /\ revoker[r].pc = "record"
    /\ Record(r, a, "runtimeExit")
    /\ revoker' = [revoker EXCEPT ![r] = [@ EXCEPT !.todo = revoker[r].todo \ {a}, !.told = revoker[r].told \cup {a}]]
    /\ OnlyRevoker /\ UNCHANGED <<runtime, bind, tickets, files, owner>>

RevokeMarkers(r) ==
  /\ revoker[r].pc = "record" /\ revoker[r].todo = {}
  /\ structured' = structured \ revoker[r].told
  /\ revoker' = [revoker EXCEPT ![r] = Off]
  /\ runtime' = [runtime EXCEPT ![r] = "revoked"]
  /\ OnlyRevoker /\ UNCHANGED <<bind, tickets, files, owner, title, last, noted, overtaken>>

Revoke(r) ==
  RevokeTickets(r) \/ RevokeAgents(r) \/ RevokeTitle(r) \/ RevokeRecord(r) \/ RevokeMarkers(r)

\* The application dies or is quit, and starts again: what was on disk is
\* authorized again, the bindings to sessions and processes are not.
Restart ==
  /\ restarts < MaxRestarts /\ restarts' = restarts + 1
  /\ runtime' = [r \in Runtimes |-> IF runtime[r] \in {"starting", "alive", "exited"}
                                    THEN "lost" ELSE runtime[r]]
  /\ bind' = [r \in Runtimes |->
                [Unkeyed EXCEPT !["bare"] = IF r \in files THEN managed[r] ELSE NONE]]
  /\ tickets' = {r \in files : managed[r] = NONE}
  /\ structured' = {} /\ overtaken' = {}
  /\ title' = [a \in Agents |-> NONE] /\ last' = [a \in Agents |-> "unseen"]
  /\ hook' = [h \in Hooks |-> Idle] /\ out' = Quiet
  /\ noted' = [x \in Hooks \cup Runtimes |-> Unnoted]
  /\ revoker' = [r \in Runtimes |-> Off]
  /\ UNCHANGED <<managed, files, owner, count>>
-----------------------------------------------------------------------------
Next ==
  \/ \E r \in Runtimes :
       \/ Launch(r) \/ Created(r) \/ LaunchFailed(r) \/ SetupFailed(r) \/ LaunchAbandoned(r)
       \/ OutputArrives(r) \/ Exit(r) \/ Revoke(r)
       \/ \E h \in Hooks, e \in EventNames, s \in Sessions \cup {NONE}, p \in Procs \cup {NONE} :
            Receive(h, r, e, s, p)
  \/ \E h \in Hooks : HookStep(h) \/ Abandon(h)
  \/ \E x \in Hooks \cup Runtimes : NoteMark(x)
  \/ OutputHeard \/ OutputReport \/ OutputSignal \/ OutputDone
  \/ Restart

Spec == Init /\ [][Next]_vars

-----------------------------------------------------------------------------
(* The keys lead to agents, titles are sessions, and requests, output and   *)
(* revocations hold agents and Runtimes.                                    *)
TypeOK ==
  /\ runtime \in [Runtimes -> Lives]
  /\ managed \in [Runtimes -> Agents \cup {NONE}]
  /\ bind \in [Runtimes -> [Keys -> Agents \cup {NONE}]]
  /\ tickets \subseteq Runtimes /\ files \subseteq Runtimes /\ overtaken \subseteq Runtimes
  /\ owner \in [Agents -> Runtimes \cup {NONE}] /\ structured \subseteq Agents
  /\ title \in [Agents -> Sessions \cup {NONE}]
  /\ last \in [Agents -> Events]
  /\ noted \in [Hooks \cup Runtimes -> Notes]
  /\ hook \in [Hooks -> Requests] /\ out \in Listeners /\ revoker \in [Runtimes -> Revokers]
  /\ count \in 0 .. MaxHooks /\ restarts \in 0 .. MaxRestarts

(* A terminal Runtime owns at most one agent (agent_hooks.rs:459), however  *)
(* starts, sessions and exits of its processes interleave, unless a key was *)
(* removed under a request or output that still held it.                    *)
OneAgentPerRuntime ==
  \A r \in Runtimes \ overtaken : \A a, b \in Bound(r) : a = b

(* After the grace period nothing vouches for a Runtime: no ticket, no file *)
(* and no key, unless a request admitted before was still at work.          *)
DeadStaysDead ==
  \A r \in Runtimes :
    runtime[r] = "revoked" =>
      /\ r \notin tickets \cup files
      /\ Bound(r) # {} => r \in overtaken

(* An agent without a key is one the window shows as ended, so that no      *)
(* agent lingers on a pane (App.tsx:1977), unless it was removed under an   *)
(* actor that held it, its end is being recorded, or its launch failed and  *)
(* there is no pane.                                                        *)
GoneIsSeenGone ==
  \A a \in Agents :
    LET r == owner[a] IN
    /\ r # NONE /\ r \notin overtaken /\ runtime[r] # "failed"
    /\ a \notin Bound(r) /\ a \notin revoker[r].todo
    => last[a] \in Ended \cup {"unseen"}

(* The title of an agent changes only with the session it comes from, when  *)
(* a session starts and when an agent exits: a late event of another        *)
(* session neither takes nor clears it.                                     *)
TitleOfCurrentSession ==
  [][\A a \in Agents : title[a] # NONE /\ title'[a] # title[a] =>
       \/ \E h \in Hooks :
            /\ <<hook[h], noted[h]>> # <<hook'[h], noted'[h]>>
            /\ \/ hook[h].e \in {"session", "exit"}
               \/ hook[h].a = a /\ hook[h].s \in {title[a], NONE}
       \/ revoker[owner[a]].pc # "off" \/ restarts' # restarts]_vars

=============================================================================
