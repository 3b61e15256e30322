------------------------------ MODULE ControlInvoke ------------------------------
(***************************************************************************)
(* The path of a control request through control_service.rs: the opt-in for  *)
(* SFTP, the idempotency cache, the single-use approvals of                *)
(* control_approval.rs, the operation itself and the result.               *)
(*                                                                         *)
(* Each step is one critical section: calls, the user who decides on        *)
(* approvals and the clock interleave between them.  An approval id is a    *)
(* fresh UUID: a ticket, used once.  Requests that fail validation or       *)
(* authorization change nothing and are left out.                          *)
(***************************************************************************)
EXTENDS Naturals, FiniteSets

CONSTANTS
  Calls,       \* invocations of the service
  Callers,     \* identities with access to the resources
  Kind,        \* kind of each caller: ui, agent or cli
  Operations,  \* operations asked for, transfer.enqueue written transfer
  Guarded,     \* operations whose descriptor requires approval of the user
  Payloads,    \* resource and arguments of a request
  Keys,        \* idempotency keys
  Tickets,     \* bound: approvals ever created
  Cap,         \* approvals kept at a time (1024)
  TTL,         \* lifetime of an approval (5 minutes)
  MaxClock,    \* bound: the clock
  NONE         \* no key, no ticket, no call

ASSUME InvokeAssumption ==
  /\ Kind \in [Callers -> {"ui", "agent", "cli"}]
  /\ Guarded \subseteq Operations
  /\ NONE \notin Calls \cup Keys \cup Tickets \cup (Callers \X Operations \X Keys)
  /\ Cap \in Nat /\ TTL \in Nat /\ MaxClock \in Nat

VARIABLES
  opted,    \* setting agentSftpEnabled
  entries,  \* idempotency cache: state, payload and the call that owns it
  tickets,  \* approvals: status, request and expiry
  call,     \* each call: step, request and the call that produced its answer
  clock,
  ran,      \* history: calls whose operation was carried out
  admitted, \* history: tickets consumed, by which call and when
  consents  \* history: tickets the user approved

vars == <<opted, entries, tickets, call, clock, ran, admitted, consents>>

CacheKeys == Callers \X Operations \X Keys
KeyOf(c) == <<call[c].caller, call[c].op, call[c].key>>
Keyed(c) == call[c].key # NONE

Request == [caller : Callers, op : Operations, payload : Payloads, key : Keys \cup {NONE},
            ticket : Tickets \cup {NONE}]

Absent == [state |-> "absent", payload |-> NONE, by |-> NONE]

Init ==
  /\ opted = FALSE /\ clock = 0
  /\ entries = [k \in CacheKeys |-> Absent]
  /\ tickets = [t \in Tickets |-> [status |-> "unused", caller |-> NONE, op |-> NONE,
                                  payload |-> NONE, expires |-> 0]]
  /\ call = [c \in Calls |-> [step |-> "idle", caller |-> NONE, op |-> NONE, payload |-> NONE,
                             key |-> NONE, ticket |-> NONE, by |-> NONE]]
  /\ ran = {} /\ admitted = {} /\ consents = {}

To(c, step) == call' = [call EXCEPT ![c].step = step]
Answer(c, by) == call' = [call EXCEPT ![c].step = "ok", ![c].by = by]

AgentSftp(c) == Kind[call[c].caller] = "agent" /\ call[c].op = "transfer"

NeedsApproval(c) == call[c].op \in Guarded /\ ~AgentSftp(c) /\ Kind[call[c].caller] # "ui"
-----------------------------------------------------------------------------
(* A client sends a request; it may know any ticket handed out so far.     *)
Invoke(c, r) ==
  /\ call[c].step = "idle"
  /\ r.ticket # NONE => tickets[r.ticket].status # "unused"
  /\ call' = [call EXCEPT ![c] = [step |-> "check", caller |-> r.caller, op |-> r.op,
                                  payload |-> r.payload, key |-> r.key, ticket |-> r.ticket,
                                  by |-> NONE]]
  /\ UNCHANGED <<opted, entries, tickets, clock, ran, admitted, consents>>

\* An agent's transfer needs the setting; it is read on every request.
Check(c) ==
  /\ call[c].step = "check"
  /\ To(c, IF AgentSftp(c) /\ ~opted THEN "refused"
           ELSE IF Keyed(c) THEN "lookup" ELSE "approve")
  /\ UNCHANGED <<opted, entries, tickets, clock, ran, admitted, consents>>

\* Fault: a completed key answers whatever the resource and arguments.
LookupAnyPayload(c) ==
  /\ call[c].step = "lookup"
  /\ LET e == entries[KeyOf(c)] IN
       CASE e.state = "absent"   -> To(c, "approve")
         [] e.state = "complete" -> Answer(c, e.by)
         [] OTHER                -> To(c, "conflict")
  /\ UNCHANGED <<opted, entries, tickets, clock, ran, admitted, consents>>

Lookup(c) ==
  /\ call[c].step = "lookup"
  /\ LET e == entries[KeyOf(c)] IN
       CASE e.state = "absent" -> To(c, "approve")
         [] e.state = "complete" /\ e.payload = call[c].payload -> Answer(c, e.by)
         [] OTHER -> To(c, "conflict")
  /\ UNCHANGED <<opted, entries, tickets, clock, ran, admitted, consents>>
-----------------------------------------------------------------------------
(* Approvals.                                                              *)
Live(ticket) == ticket.status \notin {"unused", "gone"}

\* Fault: an approval given in time does not expire.
ExpiredPendingOnly(ticket) ==
  IF ticket.status = "pending" /\ clock > ticket.expires
    THEN [ticket EXCEPT !.status = "expired"] ELSE ticket

\* expire: a pending or approved ticket past its time.
Expired(ticket) ==
  IF ticket.status \in {"pending", "approved"} /\ clock > ticket.expires
    THEN [ticket EXCEPT !.status = "expired"] ELSE ticket

\* Tickets past their time are forgotten when a new one is asked for.
Retained == [t \in Tickets |->
  LET ticket == Expired(tickets[t]) IN
    IF Live(ticket) /\ ticket.expires <= clock THEN [ticket EXCEPT !.status = "gone"] ELSE ticket]

NewTicket(c) == [status |-> "pending", caller |-> call[c].caller, op |-> call[c].op,
                 payload |-> call[c].payload, expires |-> clock + TTL]

Ask(c) ==
  /\ call[c].step = "approve" /\ NeedsApproval(c) /\ call[c].ticket = NONE
  /\ IF Cardinality({t \in Tickets : Live(Retained[t])}) >= Cap
       THEN tickets' = Retained /\ To(c, "unavailable")
       ELSE \E t \in Tickets :
              /\ tickets[t].status = "unused"
              /\ tickets' = [Retained EXCEPT ![t] = NewTicket(c)]
              /\ To(c, "required")
  /\ UNCHANGED <<opted, entries, clock, ran, admitted, consents>>

\* Fault: the arguments approved are not compared with those of the call.
MatchesOperation(ticket, c) == ticket.caller = call[c].caller /\ ticket.op = call[c].op

Matches(ticket, c) ==
  /\ ticket.caller = call[c].caller /\ ticket.op = call[c].op
  /\ ticket.payload = call[c].payload

\* Fault: an approval can be used again.
ConsumeAgain(c) ==
  /\ call[c].step = "approve" /\ NeedsApproval(c) /\ call[c].ticket # NONE
  /\ LET t == call[c].ticket
         ticket == Expired(tickets[t])
         pass == Live(ticket) /\ Matches(ticket, c) /\ ticket.status \in {"approved", "consumed"}
     IN /\ tickets' = [tickets EXCEPT ![t] = IF pass THEN [ticket EXCEPT !.status = "consumed"]
                                                      ELSE ticket]
        /\ admitted' = IF pass THEN admitted \cup {[call |-> c, ticket |-> t, at |-> clock]}
                               ELSE admitted
        /\ To(c, IF pass THEN "reserve" ELSE "denied")
  /\ UNCHANGED <<opted, entries, clock, ran, consents>>

Consume(c) ==
  /\ call[c].step = "approve" /\ NeedsApproval(c) /\ call[c].ticket # NONE
  /\ LET t == call[c].ticket
         ticket == Expired(tickets[t])
         pass == Live(ticket) /\ Matches(ticket, c) /\ ticket.status = "approved"
     IN /\ tickets' = [tickets EXCEPT ![t] = IF pass THEN [ticket EXCEPT !.status = "consumed"]
                                                      ELSE ticket]
        /\ admitted' = IF pass THEN admitted \cup {[call |-> c, ticket |-> t, at |-> clock]}
                               ELSE admitted
        /\ To(c, IF pass THEN "reserve" ELSE "denied")
  /\ UNCHANGED <<opted, entries, clock, ran, consents>>

NoApproval(c) ==
  /\ call[c].step = "approve" /\ ~NeedsApproval(c)
  /\ To(c, "reserve")
  /\ UNCHANGED <<opted, entries, tickets, clock, ran, admitted, consents>>

Approve(c) == Ask(c) \/ Consume(c) \/ NoApproval(c)

\* The user answers the desktop dialog of a ticket.
Resolve(t, approved) ==
  /\ Live(tickets[t])
  /\ LET ticket == Expired(tickets[t])
         decided == IF approved THEN "approved" ELSE "denied"
     IN IF ticket.status = "pending"
          THEN /\ tickets' = [tickets EXCEPT ![t] = [ticket EXCEPT !.status = decided]]
               /\ consents' = IF approved THEN consents \cup {t} ELSE consents
          ELSE /\ tickets' = [tickets EXCEPT ![t] = ticket]
               /\ UNCHANGED consents
  /\ UNCHANGED <<opted, entries, call, clock, ran, admitted>>
-----------------------------------------------------------------------------
(* The operation and its place in the cache.                               *)
InFlight(c) == [state |-> "inflight", payload |-> call[c].payload, by |-> c]

\* Fault: the key is taken without a second look.
ReserveBlindly(c) ==
  /\ call[c].step = "reserve"
  /\ To(c, "execute")
  /\ entries' = IF Keyed(c) THEN [entries EXCEPT ![KeyOf(c)] = InFlight(c)] ELSE entries
  /\ UNCHANGED <<opted, tickets, clock, ran, admitted, consents>>

Reserve(c) ==
  /\ call[c].step = "reserve"
  /\ IF ~Keyed(c) THEN To(c, "execute") /\ UNCHANGED entries
     ELSE LET e == entries[KeyOf(c)] IN
       CASE e.state = "absent" ->
              To(c, "execute") /\ entries' = [entries EXCEPT ![KeyOf(c)] = InFlight(c)]
         [] e.state = "complete" /\ e.payload = call[c].payload ->
              Answer(c, e.by) /\ UNCHANGED entries
         [] OTHER -> To(c, "conflict") /\ UNCHANGED entries
  /\ UNCHANGED <<opted, tickets, clock, ran, admitted, consents>>

Execute(c) ==
  /\ call[c].step = "execute"
  /\ \/ ran' = ran \cup {c} /\ To(c, "complete")
     \/ UNCHANGED ran /\ To(c, "forget")
  /\ UNCHANGED <<opted, entries, tickets, clock, admitted, consents>>

Complete(c) ==
  /\ call[c].step = "complete"
  /\ entries' = IF Keyed(c) THEN [entries EXCEPT ![KeyOf(c)] = [InFlight(c) EXCEPT !.state = "complete"]]
                            ELSE entries
  /\ Answer(c, c)
  /\ UNCHANGED <<opted, tickets, clock, ran, admitted, consents>>

\* A failed operation frees its key.
Forget(c) ==
  /\ call[c].step = "forget"
  /\ entries' = IF Keyed(c) THEN [entries EXCEPT ![KeyOf(c)] = Absent] ELSE entries
  /\ To(c, "failed")
  /\ UNCHANGED <<opted, tickets, clock, ran, admitted, consents>>

Step(c) == \/ Check(c) \/ Lookup(c) \/ Approve(c) \/ Reserve(c)
           \/ Execute(c) \/ Complete(c) \/ Forget(c)

OptIn ==
  /\ opted' = ~opted
  /\ UNCHANGED <<entries, tickets, call, clock, ran, admitted, consents>>

Tick ==
  /\ clock < MaxClock
  /\ clock' = clock + 1
  /\ UNCHANGED <<opted, entries, tickets, call, ran, admitted, consents>>

Next ==
  \/ \E c \in Calls : Step(c) \/ \E r \in Request : Invoke(c, r)
  \/ \E t \in Tickets, approved \in BOOLEAN : Resolve(t, approved)
  \/ OptIn \/ Tick

Spec == Init /\ [][Next]_vars
-----------------------------------------------------------------------------
Steps == {"idle", "check", "lookup", "approve", "reserve", "execute", "complete", "forget",
          "refused", "conflict", "required", "unavailable", "denied", "failed", "ok"}

TypeOK ==
  /\ opted \in BOOLEAN /\ clock \in 0 .. MaxClock
  /\ entries \in [CacheKeys -> [state : {"absent", "inflight", "complete"},
                               payload : Payloads \cup {NONE}, by : Calls \cup {NONE}]]
  /\ tickets \in [Tickets -> [status : {"unused", "pending", "approved", "denied", "expired",
                                       "consumed", "gone"},
                              caller : Callers \cup {NONE}, op : Operations \cup {NONE},
                              payload : Payloads \cup {NONE}, expires : 0 .. MaxClock + TTL]]
  /\ call \in [Calls -> [step : Steps, caller : Callers \cup {NONE}, op : Operations \cup {NONE},
                         payload : Payloads \cup {NONE}, key : Keys \cup {NONE},
                         ticket : Tickets \cup {NONE}, by : Calls \cup {NONE}]]
  /\ ran \subseteq Calls /\ consents \subseteq Tickets
  /\ admitted \subseteq [call : Calls, ticket : Tickets, at : 0 .. MaxClock]

Holding == {"execute", "complete", "forget"}

(* An operation with an idempotency key succeeds at most once, however many *)
(* calls race between the look at the cache and the reservation of the key. *)
KeyedOnce ==
  \A c, d \in ran : c # d /\ Keyed(c) /\ Keyed(d) => KeyOf(c) # KeyOf(d)

(* A key in flight belongs to a call that is still carrying it out: a key    *)
(* is never left taken by a call that has answered.                         *)
ReservationsHeld ==
  \A k \in CacheKeys : entries[k].state = "inflight" =>
    call[entries[k].by].step \in Holding /\ KeyOf(entries[k].by) = k

(* Every success answers with the result of an operation carried out for    *)
(* the same caller, operation, key, resource and arguments.                 *)
SameAnswer ==
  \A c \in Calls : call[c].step = "ok" =>
    LET by == call[c].by IN
      /\ by \in ran
      /\ KeyOf(by) = KeyOf(c) /\ call[by].payload = call[c].payload

(* An operation that requires approval is carried out only by a call that   *)
(* consumed, before it expired, a ticket the user approved for this caller, *)
(* operation, resource and arguments, and that no other call consumed.      *)
Consented ==
  \A c \in Calls : call[c].step \in Holding /\ NeedsApproval(c) =>
    \E x \in admitted :
      /\ x.call = c /\ x.ticket \in consents
      /\ tickets[x.ticket].caller = call[c].caller /\ tickets[x.ticket].op = call[c].op
      /\ tickets[x.ticket].payload = call[c].payload
      /\ x.at <= tickets[x.ticket].expires
      /\ \A y \in admitted : y.ticket = x.ticket => y = x
-----------------------------------------------------------------------------
(* What the client sees of a call: the key counts per caller and operation. *)
Asking(c) == [key |-> IF Keyed(c) THEN KeyOf(c) ELSE NONE, payload |-> call[c].payload]
ResultOf(c) == IF call[c].step = "ok" THEN call[c].by ELSE NONE

Once == INSTANCE AtMostOnce WITH
  Requests <- [key : CacheKeys \cup {NONE}, payload : Payloads],
  asked <- {c \in Calls : call[c].step # "idle"},
  request <- [c \in Calls |-> Asking(c)],
  done <- ran,
  answered <- {c \in Calls : call[c].step = "ok"},
  answer <- [c \in Calls |-> ResultOf(c)]

(* The cache keeps its promise to clients that repeat a call: whatever races, *)
(* fails or is refused in between, an operation is carried out once per key,  *)
(* and each answer is that of the call itself or of an equal one.            *)
KeepsPromise == Once!Spec

=============================================================================
