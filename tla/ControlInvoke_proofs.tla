-------------------------- MODULE ControlInvoke_proofs --------------------------
(***************************************************************************)
(* Theorems about control requests, for any callers, operations, keys and   *)
(* tickets and any number of racing calls: a key succeeds at most once and   *)
(* is never left taken, a success answers the request it was asked for, and *)
(* a guarded operation has a consent of its own.                            *)
(***************************************************************************)
EXTENDS ControlInvoke, TLAPS

Finished == {"complete", "ok"}

TicketType ==
  [status : {"unused", "pending", "approved", "denied", "expired", "consumed", "gone"},
   caller : Callers \cup {NONE}, op : Operations \cup {NONE},
   payload : Payloads \cup {NONE}, expires : 0 .. MaxClock + TTL]

CallType ==
  [step : Steps, caller : Callers \cup {NONE}, op : Operations \cup {NONE},
   payload : Payloads \cup {NONE}, key : Keys \cup {NONE},
   ticket : Tickets \cup {NONE}, by : Calls \cup {NONE}]

\* A call that has been asked has a caller, an operation and a payload, and
\* one that looks into the cache has a key.
Asked == \A c \in Calls :
  /\ call[c].step # "idle" =>
       call[c].caller \in Callers /\ call[c].op \in Operations /\ call[c].payload \in Payloads
  /\ call[c].step = "lookup" => Keyed(c)

\* A call that carries its operation out holds its key.
Reserved == \A c \in Calls : call[c].step \in Holding /\ Keyed(c) =>
  entries[KeyOf(c)] = InFlight(c)

\* A key in flight is held by the call that reserved it.
Held == \A k \in CacheKeys : entries[k].state = "inflight" =>
  \E c \in Calls : entries[k].by = c /\ call[c].step \in Holding /\ KeyOf(c) = k

\* A completed key holds the answer of a call that was carried out for it.
Completed == \A k \in CacheKeys : entries[k].state = "complete" =>
  \E c \in ran : entries[k].by = c /\ KeyOf(c) = k /\ call[c].payload = entries[k].payload

\* An operation carried out is about to complete its key, or has.
Carried == \A c \in ran :
  /\ call[c].step \in Finished
  /\ Keyed(c) /\ call[c].step = "ok" =>
       entries[KeyOf(c)].state = "complete" /\ entries[KeyOf(c)].by = c

\* A call about to complete has been carried out.
Completing == \A c \in Calls : call[c].step = "complete" => c \in ran

CacheInv == /\ TypeOK /\ Asked /\ Reserved /\ Held /\ Completed
            /\ Carried /\ Completing /\ SameAnswer

\* The requests of the calls stay, and every call but c stays as it is.
Kept(c) == \A d \in Calls :
  /\ KeyOf(d)' = KeyOf(d) /\ Keyed(d)' = Keyed(d) /\ InFlight(d)' = InFlight(d)
  /\ call'[d].caller = call[d].caller /\ call'[d].op = call[d].op
  /\ call'[d].payload = call[d].payload /\ call'[d].ticket = call[d].ticket
  /\ d # c => call'[d] = call[d]

(* The request of a call does not change while the call advances.          *)
LEMMA AdvanceStep ==
  ASSUME TypeOK, NEW c \in Calls, NEW step, To(c, step)
  PROVE  Kept(c) /\ call'[c].step = step /\ call'[c].by = call[c].by
<1>1. ASSUME NEW d \in Calls
      PROVE  /\ KeyOf(d)' = KeyOf(d) /\ Keyed(d)' = Keyed(d) /\ InFlight(d)' = InFlight(d)
             /\ call'[d].caller = call[d].caller /\ call'[d].op = call[d].op
             /\ call'[d].payload = call[d].payload /\ call'[d].ticket = call[d].ticket
             /\ d # c => call'[d] = call[d]
  BY DEF TypeOK, To, KeyOf, Keyed, InFlight
<1>2. call'[c].step = step /\ call'[c].by = call[c].by
  BY DEF TypeOK, To
<1> QED
  BY <1>1, <1>2 DEF Kept

(* The answer of a call is the only part of it an answer sets.              *)
LEMMA AdvanceAnswer ==
  ASSUME TypeOK, NEW c \in Calls, NEW by, Answer(c, by)
  PROVE  Kept(c) /\ call'[c].step = "ok" /\ call'[c].by = by
<1>1. ASSUME NEW d \in Calls
      PROVE  /\ KeyOf(d)' = KeyOf(d) /\ Keyed(d)' = Keyed(d) /\ InFlight(d)' = InFlight(d)
             /\ call'[d].caller = call[d].caller /\ call'[d].op = call[d].op
             /\ call'[d].payload = call[d].payload /\ call'[d].ticket = call[d].ticket
             /\ d # c => call'[d] = call[d]
  BY DEF TypeOK, Answer, KeyOf, Keyed, InFlight
<1>2. call'[c].step = "ok" /\ call'[c].by = by
  BY DEF TypeOK, Answer
<1> QED
  BY <1>1, <1>2 DEF Kept

(* The key of a call that was asked with one is a key of the cache.        *)
LEMMA KeyOfCall ==
  ASSUME TypeOK, Asked, NEW c \in Calls, call[c].step # "idle", Keyed(c)
  PROVE  KeyOf(c) \in CacheKeys
BY DEF TypeOK, Asked, Keyed, KeyOf, CacheKeys

(* The types of a ticket survive its expiry.                               *)
LEMMA ExpiredType ==
  ASSUME TypeOK, NEW t \in Tickets
  PROVE  /\ Expired(tickets[t]) \in TicketType
         /\ Expired(tickets[t]).caller = tickets[t].caller
         /\ Expired(tickets[t]).op = tickets[t].op
         /\ Expired(tickets[t]).payload = tickets[t].payload
         /\ Expired(tickets[t]).expires = tickets[t].expires
         /\ Expired(tickets[t]).status \in {tickets[t].status, "expired"}
         /\ tickets[t].status \notin {"pending", "approved"} =>
              Expired(tickets[t]) = tickets[t]
         /\ Expired(tickets[t]).status = "approved" => clock <= tickets[t].expires
BY DEF TypeOK, Expired, TicketType

(* What remains of the tickets when a new one is asked for.                *)
LEMMA RetainedType ==
  ASSUME TypeOK
  PROVE  /\ Retained \in [Tickets -> TicketType]
         /\ \A t \in Tickets :
              /\ Retained[t].caller = tickets[t].caller /\ Retained[t].op = tickets[t].op
              /\ Retained[t].payload = tickets[t].payload
              /\ Retained[t].expires = tickets[t].expires
              /\ Retained[t].status \in {tickets[t].status, "expired", "gone"}
              /\ tickets[t].status = "unused" => Retained[t] = tickets[t]
              /\ Retained[t].status = "expired" =>
                   tickets[t].status \in {"expired", "pending", "approved"}
<1> DEFINE R(t) == LET ticket == Expired(tickets[t]) IN
                     IF Live(ticket) /\ ticket.expires <= clock
                       THEN [ticket EXCEPT !.status = "gone"] ELSE ticket
<1>1. Retained = [t \in Tickets |-> R(t)]
  BY DEF Retained
<1>2. ASSUME NEW t \in Tickets
      PROVE  /\ R(t) \in TicketType
             /\ R(t).caller = tickets[t].caller /\ R(t).op = tickets[t].op
             /\ R(t).payload = tickets[t].payload
             /\ R(t).expires = tickets[t].expires
             /\ R(t).status \in {tickets[t].status, "expired", "gone"}
             /\ tickets[t].status = "unused" => R(t) = tickets[t]
             /\ R(t).status = "expired" =>
                  tickets[t].status \in {"expired", "pending", "approved"}
  BY DEF Expired, Live, TypeOK, TicketType
<1> HIDE DEF R
<1> QED
  BY <1>1, <1>2

(* What the answer of the user does to a ticket.                           *)
LEMMA ResolveCases ==
  ASSUME NEW t \in Tickets, NEW approved \in BOOLEAN, Resolve(t, approved)
  PROVE  \/ /\ Expired(tickets[t]).status = "pending" /\ approved = TRUE
            /\ tickets' = [tickets EXCEPT ![t] = [Expired(tickets[t]) EXCEPT !.status = "approved"]]
            /\ consents' = consents \cup {t}
         \/ /\ Expired(tickets[t]).status = "pending" /\ approved = FALSE
            /\ tickets' = [tickets EXCEPT ![t] = [Expired(tickets[t]) EXCEPT !.status = "denied"]]
            /\ consents' = consents
         \/ /\ tickets' = [tickets EXCEPT ![t] = Expired(tickets[t])]
            /\ consents' = consents
<1>1. CASE approved = TRUE
  BY <1>1 DEF Resolve
<1>2. CASE approved = FALSE
  BY <1>2 DEF Resolve
<1> QED
  BY <1>1, <1>2

(* The state keeps its shape.                                              *)
LEMMA TypeStep == TypeOK /\ Asked /\ [Next]_vars => TypeOK'
<1> SUFFICES ASSUME TypeOK, Asked, [Next]_vars PROVE TypeOK'
  OBVIOUS
<1> USE InvokeAssumption DEF CallType
<1>1. ASSUME NEW c \in Calls, NEW r \in Request, Invoke(c, r) PROVE TypeOK'
  BY <1>1 DEF Invoke, TypeOK, Request, Steps
<1>2. ASSUME NEW c \in Calls, Step(c) PROVE TypeOK'
  <2> call[c] \in CallType
    BY DEF TypeOK, CallType
  <2>1. CASE Check(c)
    BY <2>1 DEF Check, To, TypeOK, Steps
  <2>2. CASE Lookup(c)
    <3>1. \/ To(c, "approve") \/ To(c, "conflict")
          \/ entries[KeyOf(c)].state = "complete" /\ Answer(c, entries[KeyOf(c)].by)
      BY <2>2 DEF Lookup
    <3>2. ASSUME NEW step \in {"approve", "conflict"}, To(c, step)
          PROVE  call' \in [Calls -> CallType]
      BY <3>2 DEF To, TypeOK, Steps, CallType
    <3>3. ASSUME entries[KeyOf(c)].state = "complete", Answer(c, entries[KeyOf(c)].by)
          PROVE  call' \in [Calls -> CallType]
      <4>1. entries[KeyOf(c)].by \in Calls \cup {NONE}
        <5>1. KeyOf(c) \in CacheKeys
          BY <2>2, KeyOfCall DEF Lookup, Asked
        <5> QED
          BY <5>1 DEF TypeOK
      <4>2. PICK by \in Calls \cup {NONE} : Answer(c, by)
        BY <3>3, <4>1
      <4>3. call' = [call EXCEPT ![c] = [call[c] EXCEPT !.step = "ok", !.by = by]]
        BY <4>2 DEF Answer, TypeOK
      <4>4. [call[c] EXCEPT !.step = "ok", !.by = by] \in CallType
        BY DEF Steps
      <4> QED
        BY <4>3, <4>4 DEF TypeOK
    <3>4. UNCHANGED <<opted, entries, tickets, clock, ran, admitted, consents>>
      BY <2>2 DEF Lookup
    <3> QED
      BY <3>1, <3>2, <3>3, <3>4 DEF TypeOK, CallType
  <2>3. CASE Ask(c)
    <3>1. Retained \in [Tickets -> TicketType]
      BY RetainedType
    <3>2. CASE tickets' = Retained /\ To(c, "unavailable")
      BY <2>3, <3>1, <3>2 DEF Ask, To, TypeOK, Steps, TicketType
    <3>3. CASE \E t \in Tickets : tickets' = [Retained EXCEPT ![t] = NewTicket(c)] /\ To(c, "required")
      <4>1. NewTicket(c) \in TicketType
        BY DEF NewTicket, TicketType, TypeOK
      <4>2. tickets' \in [Tickets -> TicketType]
        BY <3>1, <3>3, <4>1
      <4>0. To(c, "required")
        BY <3>3
      <4>3. call' \in [Calls -> CallType]
        BY <4>0 DEF To, TypeOK, Steps, CallType
      <4>4. UNCHANGED <<opted, entries, clock, ran, admitted, consents>>
        BY <2>3 DEF Ask
      <4> QED
        BY <4>2, <4>3, <4>4 DEF TypeOK, CallType, TicketType
    <3> QED
      BY <2>3, <3>2, <3>3 DEF Ask
  <2>4. CASE Consume(c)
    <3> DEFINE t == call[c].ticket
    <3>1. t \in Tickets /\ Expired(tickets[t]) \in TicketType
      BY <2>4, ExpiredType DEF Consume, TypeOK, TicketType
    <3>2. \A x \in TicketType : [x EXCEPT !.status = "consumed"] \in TicketType
      BY DEF TicketType
    <3>3. tickets' \in [Tickets -> TicketType]
      BY <2>4, <3>1, <3>2 DEF Consume, TypeOK, TicketType
    <3>4. admitted' \subseteq [call : Calls, ticket : Tickets, at : 0 .. MaxClock]
      BY <2>4, <3>1 DEF Consume, TypeOK
    <3>5. call' \in [Calls -> CallType]
      BY <2>4 DEF Consume, To, TypeOK, Steps, CallType
    <3>6. UNCHANGED <<opted, entries, clock, ran, consents>>
      BY <2>4 DEF Consume
    <3> QED
      BY <3>3, <3>4, <3>5, <3>6 DEF TypeOK, TicketType, CallType
  <2>5. CASE NoApproval(c)
    BY <2>5 DEF NoApproval, To, TypeOK, Steps
  <2>6. CASE Reserve(c)
    <3>1. CASE ~Keyed(c)
      BY <2>6, <3>1 DEF Reserve, To, TypeOK, Steps
    <3>2. CASE Keyed(c) /\ entries[KeyOf(c)].state = "absent"
      <4>0. To(c, "execute")
        BY <2>6, <3>2 DEF Reserve
      <4>1. call' \in [Calls -> CallType]
        BY <4>0 DEF To, TypeOK, Steps
      <4>2. entries' = [entries EXCEPT ![KeyOf(c)] = InFlight(c)]
        BY <2>6, <3>2 DEF Reserve
      <4>3. InFlight(c) \in [state : {"absent", "inflight", "complete"},
                            payload : Payloads \cup {NONE}, by : Calls \cup {NONE}]
        BY DEF InFlight, TypeOK
      <4>4. UNCHANGED <<opted, tickets, clock, ran, admitted, consents>>
        BY <2>6 DEF Reserve
      <4> QED
        BY <4>1, <4>2, <4>3, <4>4 DEF TypeOK, CallType
    <3>3. CASE Keyed(c) /\ entries[KeyOf(c)].state = "complete"
      <4>1. KeyOf(c) \in CacheKeys
        BY <2>6, <3>3, KeyOfCall DEF Reserve
      <4>2. entries[KeyOf(c)].by \in Calls \cup {NONE}
        BY <4>1 DEF TypeOK
      <4>3. Answer(c, entries[KeyOf(c)].by) \/ To(c, "conflict")
        BY <2>6, <3>3 DEF Reserve
      <4>4. call' \in [Calls -> CallType]
        BY <4>2, <4>3, SMTT(20) DEF Answer, To, TypeOK, Steps
      <4>5. UNCHANGED <<opted, entries, tickets, clock, ran, admitted, consents>>
        BY <2>6, <3>3 DEF Reserve
      <4> QED
        BY <4>4, <4>5 DEF TypeOK, CallType
    <3>4. CASE Keyed(c) /\ entries[KeyOf(c)].state \notin {"absent", "complete"}
      BY <2>6, <3>4 DEF Reserve, To, TypeOK, Steps
    <3> QED
      BY <3>1, <3>2, <3>3, <3>4
  <2>7. CASE Execute(c)
    BY <2>7 DEF Execute, To, TypeOK, Steps
  <2>8. CASE Complete(c)
    BY <2>8 DEF Complete, InFlight, Answer, TypeOK, Steps
  <2>9. CASE Forget(c)
    BY <2>9 DEF Forget, Absent, To, TypeOK, Steps
  <2> QED
    BY <1>2, <2>1, <2>2, <2>3, <2>4, <2>5, <2>6, <2>7, <2>8, <2>9 DEF Step, Approve
<1>3. ASSUME NEW t \in Tickets, NEW approved \in BOOLEAN, Resolve(t, approved) PROVE TypeOK'
  <2>1. Expired(tickets[t]) \in TicketType
    BY ExpiredType DEF TicketType
  <2>2. \A x \in TicketType : /\ [x EXCEPT !.status = "approved"] \in TicketType
                             /\ [x EXCEPT !.status = "denied"] \in TicketType
    BY DEF TicketType
  <2>3. PICK x \in TicketType : tickets' = [tickets EXCEPT ![t] = x]
    BY <1>3, <2>1, <2>2, ResolveCases
  <2>4. consents' \subseteq Tickets
    BY <1>3 DEF Resolve, TypeOK
  <2>5. UNCHANGED <<opted, entries, call, clock, ran, admitted>>
    BY <1>3 DEF Resolve
  <2> QED
    BY <2>3, <2>4, <2>5 DEF TypeOK, TicketType
<1>4. CASE OptIn
  BY <1>4 DEF OptIn, TypeOK
<1>5. CASE Tick
  BY <1>5 DEF Tick, TypeOK
<1>6. CASE UNCHANGED vars
  BY <1>6 DEF vars, TypeOK
<1> QED
  BY <1>1, <1>2, <1>3, <1>4, <1>5, <1>6 DEF Next

(* A step outside the operation itself leaves the cache as it is.          *)
LEMMA Quiet ==
  ASSUME CacheInv, TypeOK', NEW c \in Calls, NEW step \in Steps \ (Holding \cup {"ok", "idle"}),
         call[c].step \notin Holding \cup {"ok", "idle"}, To(c, step),
         step = "lookup" => Keyed(c), UNCHANGED <<entries, ran>>
  PROVE  CacheInv'
<1>1. TypeOK /\ ran \subseteq Calls
  BY DEF CacheInv, TypeOK
<1>2. Kept(c) /\ call'[c].step = step /\ call'[c].by = call[c].by
  BY <1>1, AdvanceStep
<1>3. Asked'
  BY <1>2 DEF CacheInv, Asked, Kept
<1>4. Reserved'
  BY <1>2 DEF CacheInv, Reserved, Kept
<1>5. Held'
  BY <1>2 DEF CacheInv, Held, Kept
<1>6. Completed'
  BY <1>1, <1>2 DEF CacheInv, Completed, Kept
<1>7. Carried'
  BY <1>1, <1>2 DEF CacheInv, Carried, Kept, Finished, Holding
<1>8. Completing'
  BY <1>2 DEF CacheInv, Completing, Kept, Holding
<1>9. SameAnswer'
  BY <1>1, <1>2 DEF CacheInv, SameAnswer, Kept
<1> QED
  BY <1>3, <1>4, <1>5, <1>6, <1>7, <1>8, <1>9 DEF CacheInv

(* A call that finds its key completed answers with the cached response.   *)
LEMMA Answered ==
  ASSUME CacheInv, TypeOK', NEW c \in Calls, call[c].step \in {"lookup", "reserve"}, Keyed(c),
         entries[KeyOf(c)].state = "complete", entries[KeyOf(c)].payload = call[c].payload,
         Answer(c, entries[KeyOf(c)].by), UNCHANGED <<entries, ran>>
  PROVE  CacheInv'
<1> DEFINE by == entries[KeyOf(c)].by
<1>1. TypeOK /\ ran \subseteq Calls /\ c \notin ran
  BY DEF CacheInv, TypeOK, Carried, Finished
<1>2. Kept(c) /\ call'[c].step = "ok" /\ call'[c].by = by
  BY <1>1, AdvanceAnswer
<1>3. by \in ran /\ KeyOf(by) = KeyOf(c) /\ call[by].payload = call[c].payload
  BY <1>1, KeyOfCall DEF CacheInv, Completed
<1> HIDE DEF by
<1>4. Asked'
  BY <1>2 DEF CacheInv, Asked, Kept
<1>5. Reserved'
  BY <1>2 DEF CacheInv, Reserved, Kept, Holding
<1>6. Held'
  BY <1>2 DEF CacheInv, Held, Kept, Holding
<1>7. Completed'
  BY <1>1, <1>2 DEF CacheInv, Completed, Kept
<1>8. Carried'
  BY <1>1, <1>2 DEF CacheInv, Carried, Kept
<1>9. Completing'
  BY <1>2 DEF CacheInv, Completing, Kept
<1>10. SameAnswer'
  BY <1>1, <1>2, <1>3 DEF CacheInv, SameAnswer, Kept
<1> QED
  BY <1>4, <1>5, <1>6, <1>7, <1>8, <1>9, <1>10 DEF CacheInv

(* A key that is free is taken for the operation.                          *)
LEMMA Taken ==
  ASSUME CacheInv, TypeOK', NEW c \in Calls, call[c].step = "reserve", To(c, "execute"),
         Keyed(c) => entries[KeyOf(c)].state = "absent",
         entries' = IF Keyed(c) THEN [entries EXCEPT ![KeyOf(c)] = InFlight(c)] ELSE entries,
         UNCHANGED ran
  PROVE  CacheInv'
<1>1. TypeOK /\ ran \subseteq Calls /\ c \notin ran /\ DOMAIN entries = CacheKeys
  BY DEF CacheInv, TypeOK, Carried, Finished
<1>2. Kept(c) /\ call'[c].step = "execute" /\ call'[c].by = call[c].by
  BY <1>1, AdvanceStep
<1>3. Keyed(c) => /\ KeyOf(c) \in CacheKeys /\ entries'[KeyOf(c)] = InFlight(c)
                  /\ \A d \in Calls : call[d].step \in Holding /\ Keyed(d) => KeyOf(d) # KeyOf(c)
  <2> SUFFICES ASSUME Keyed(c)
               PROVE  /\ KeyOf(c) \in CacheKeys /\ entries'[KeyOf(c)] = InFlight(c)
                      /\ \A d \in Calls : call[d].step \in Holding /\ Keyed(d) => KeyOf(d) # KeyOf(c)
    OBVIOUS
  <2>1. KeyOf(c) \in CacheKeys
    BY <1>1, KeyOfCall DEF CacheInv
  <2>2. entries'[KeyOf(c)] = InFlight(c)
    BY <1>1, <2>1
  <2>3. \A d \in Calls : InFlight(d).state = "inflight"
    BY DEF InFlight
  <2> QED
    BY <2>1, <2>2, <2>3 DEF CacheInv, Reserved
<1>4. ASSUME NEW k \in CacheKeys PROVE entries'[k] = entries[k] \/ (Keyed(c) /\ k = KeyOf(c))
  <2>1. CASE Keyed(c)
    BY <1>1, <2>1
  <2>2. CASE ~Keyed(c)
    BY <2>2
  <2> QED
    BY <2>1, <2>2
<1>5. InFlight(c).state = "inflight" /\ InFlight(c).by = c
  BY DEF InFlight
<1>6. \A d \in Calls : call[d].step # "idle" /\ Keyed(d) => KeyOf(d) \in CacheKeys
  BY <1>1, KeyOfCall DEF CacheInv
<1>7. Asked'
  BY <1>2 DEF CacheInv, Asked, Kept
<1>8. Reserved'
  <2> SUFFICES ASSUME NEW d \in Calls, call'[d].step \in Holding, Keyed(d)'
               PROVE  entries'[KeyOf(d)'] = InFlight(d)'
    BY DEF Reserved
  <2>1. CASE d = c
    BY <1>2, <1>3, <2>1 DEF Kept
  <2>2. CASE d # c
    <3>1. call[d].step \in Holding /\ Keyed(d) /\ KeyOf(d)' = KeyOf(d) /\ InFlight(d)' = InFlight(d)
      BY <1>2, <2>2 DEF Kept
    <3>2. entries'[KeyOf(d)] = entries[KeyOf(d)]
      BY <1>3, <1>4, <1>6, <3>1 DEF Holding
    <3> QED
      BY <3>1, <3>2 DEF CacheInv, Reserved
  <2> QED
    BY <2>1, <2>2
<1>9. Held'
  <2> SUFFICES ASSUME NEW k \in CacheKeys, entries'[k].state = "inflight"
               PROVE  \E d \in Calls : /\ entries'[k].by = d /\ call'[d].step \in Holding
                                       /\ KeyOf(d)' = k
    BY DEF Held
  <2>1. CASE Keyed(c) /\ k = KeyOf(c)
    BY <1>2, <1>3, <1>5, <2>1 DEF Kept, Holding
  <2>2. CASE entries'[k] = entries[k]
    BY <1>2, <2>2 DEF CacheInv, Held, Kept, Holding
  <2> QED
    BY <1>4, <2>1, <2>2
<1>10. Completed'
  BY <1>1, <1>2, <1>3, <1>4, <1>5 DEF CacheInv, Completed, Kept
<1>11. Carried'
  <2> SUFFICES ASSUME NEW d \in ran
               PROVE  /\ call'[d].step \in Finished
                      /\ Keyed(d)' /\ call'[d].step = "ok" =>
                           /\ entries'[KeyOf(d)'].state = "complete"
                           /\ entries'[KeyOf(d)'].by = d
    BY DEF Carried
  <2>1. d \in Calls /\ d # c /\ call'[d] = call[d] /\ KeyOf(d)' = KeyOf(d) /\ Keyed(d)' = Keyed(d)
    BY <1>1, <1>2 DEF Kept
  <2>2. Keyed(d) => KeyOf(d) \in CacheKeys
    BY <1>6, <2>1 DEF CacheInv, Carried, Finished
  <2> QED
    BY <1>3, <1>4, <2>1, <2>2 DEF CacheInv, Carried
<1>12. Completing'
  BY <1>2 DEF CacheInv, Completing, Kept
<1>13. SameAnswer'
  BY <1>1, <1>2 DEF CacheInv, SameAnswer, Kept
<1> QED
  BY <1>7, <1>8, <1>9, <1>10, <1>11, <1>12, <1>13 DEF CacheInv

(* The operation succeeds or fails while its key is held.                  *)
LEMMA Executed ==
  ASSUME CacheInv, TypeOK', NEW c \in Calls, Execute(c)
  PROVE  CacheInv'
<1>1. TypeOK /\ ran \subseteq Calls /\ c \notin ran /\ entries' = entries
  BY DEF CacheInv, TypeOK, Carried, Finished, Execute
<1>2. PICK step \in {"complete", "forget"} :
        To(c, step) /\ ran' = IF step = "complete" THEN ran \cup {c} ELSE ran
  BY DEF Execute
<1>3. Kept(c) /\ call'[c].step = step /\ call'[c].by = call[c].by
  BY <1>1, <1>2, AdvanceStep
<1>4. call[c].step = "execute"
  BY DEF Execute
<1>5. ran \subseteq ran'
  BY <1>2
<1>6. Asked'
  BY <1>3, <1>4 DEF CacheInv, Asked, Kept
<1>7. Reserved'
  BY <1>1, <1>3, <1>4 DEF CacheInv, Reserved, Kept, Holding
<1>8. Held'
  BY <1>1, <1>3 DEF CacheInv, Held, Kept, Holding
<1>9. Completed'
  BY <1>1, <1>3, <1>5 DEF CacheInv, Completed, Kept
<1>10. Carried'
  BY <1>1, <1>2, <1>3 DEF CacheInv, Carried, Kept, Finished
<1>11. Completing'
  BY <1>1, <1>2, <1>3 DEF CacheInv, Completing, Kept
<1>12. SameAnswer'
  BY <1>1, <1>3, <1>5 DEF CacheInv, SameAnswer, Kept
<1> QED
  BY <1>6, <1>7, <1>8, <1>9, <1>10, <1>11, <1>12 DEF CacheInv

(* Only the holder of a key can be past its reservation with that key.     *)
LEMMA OneHolder ==
  ASSUME CacheInv, NEW c \in Calls, call[c].step \in Holding, Keyed(c)
  PROVE  /\ KeyOf(c) \in CacheKeys
         /\ entries[KeyOf(c)] = InFlight(c) /\ InFlight(c).state = "inflight"
         /\ \A d \in Calls : call[d].step \in Holding /\ Keyed(d) /\ KeyOf(d) = KeyOf(c) => d = c
         /\ \A d \in ran : Keyed(d) /\ KeyOf(d) = KeyOf(c) => d = c
<1>1. KeyOf(c) \in CacheKeys
  BY KeyOfCall DEF CacheInv, Holding
<1>2. \A d \in Calls : InFlight(d).state = "inflight" /\ InFlight(d).by = d
  BY DEF InFlight
<1>3. entries[KeyOf(c)] = InFlight(c)
  BY DEF CacheInv, Reserved
<1>4. ASSUME NEW d \in Calls, call[d].step \in Holding, Keyed(d), KeyOf(d) = KeyOf(c)
      PROVE  d = c
  BY <1>2, <1>3, <1>4 DEF CacheInv, Reserved
<1>5. ASSUME NEW d \in ran, Keyed(d), KeyOf(d) = KeyOf(c)
      PROVE  d = c
  <2>1. d \in Calls
    BY DEF CacheInv, TypeOK
  <2>2. call[d].step = "ok" => entries[KeyOf(d)].state = "complete"
    BY <1>5 DEF CacheInv, Carried
  <2>3. call[d].step = "complete"
    BY <1>2, <1>3, <1>5, <2>2 DEF CacheInv, Carried, Finished
  <2> QED
    BY <1>4, <1>5, <2>1, <2>3 DEF Holding
<1> QED
  BY <1>1, <1>2, <1>3, <1>4, <1>5

(* The key is released: completed by a success, freed by a failure.        *)
LEMMA Released ==
  ASSUME CacheInv, TypeOK', NEW c \in Calls, Complete(c) \/ Forget(c)
  PROVE  CacheInv'
<1> DEFINE done == call[c].step = "complete"
           e == IF done THEN [InFlight(c) EXCEPT !.state = "complete"] ELSE Absent
<1>1. TypeOK /\ ran \subseteq Calls /\ ran' = ran /\ DOMAIN entries = CacheKeys
  BY DEF CacheInv, TypeOK, Complete, Forget
<1>2. call[c].step \in {"complete", "forget"} /\ call[c].step \in Holding
  BY DEF Complete, Forget, Holding
<1>3. /\ Kept(c) /\ call'[c].step = IF done THEN "ok" ELSE "failed"
      /\ done => call'[c].by = c
  BY <1>1, AdvanceStep, AdvanceAnswer DEF Complete, Forget
<1>4. entries' = IF Keyed(c) THEN [entries EXCEPT ![KeyOf(c)] = e] ELSE entries
  BY DEF Complete, Forget
<1>5. /\ e.state = IF done THEN "complete" ELSE "absent"
      /\ done => e.by = c /\ e.payload = call[c].payload
  BY DEF InFlight, Absent
<1>6. done <=> c \in ran
  BY <1>2 DEF CacheInv, Carried, Completing, Finished
<1> HIDE DEF done, e
<1>7. ASSUME NEW k \in CacheKeys
      PROVE  IF Keyed(c) /\ k = KeyOf(c) THEN entries'[k] = e ELSE entries'[k] = entries[k]
  <2>1. CASE Keyed(c)
    BY <1>1, <1>4, <2>1
  <2>2. CASE ~Keyed(c)
    BY <1>4, <2>2
  <2> QED
    BY <2>1, <2>2
<1>8. ASSUME NEW d \in Calls, d # c, call[d].step \in Holding \/ d \in ran, Keyed(d)
      PROVE  KeyOf(d) \in CacheKeys /\ entries'[KeyOf(d)] = entries[KeyOf(d)]
  <2>1. KeyOf(d) \in CacheKeys
    BY <1>8, KeyOfCall DEF CacheInv, Holding, Carried, Finished
  <2>2. Keyed(c) => KeyOf(d) # KeyOf(c)
    BY <1>2, <1>8, OneHolder
  <2> QED
    BY <1>7, <2>1, <2>2
<1>9. Asked'
  BY <1>2, <1>3 DEF CacheInv, Asked, Kept, Holding
<1>10. Reserved'
  <2> SUFFICES ASSUME NEW d \in Calls, call'[d].step \in Holding, Keyed(d)'
               PROVE  entries'[KeyOf(d)'] = InFlight(d)'
    BY DEF Reserved
  <2>1. d # c /\ call[d].step \in Holding /\ Keyed(d) /\ KeyOf(d)' = KeyOf(d) /\ InFlight(d)' = InFlight(d)
    BY <1>3 DEF Kept, Holding
  <2> QED
    BY <1>8, <2>1 DEF CacheInv, Reserved
<1>11. Held'
  <2> SUFFICES ASSUME NEW k \in CacheKeys, entries'[k].state = "inflight"
               PROVE  \E d \in Calls : /\ entries'[k].by = d /\ call'[d].step \in Holding
                                       /\ KeyOf(d)' = k
    BY DEF Held
  <2>1. entries'[k] = entries[k] /\ ~(Keyed(c) /\ k = KeyOf(c))
    BY <1>5, <1>7
  <2>2. PICK d \in Calls : entries[k].by = d /\ call[d].step \in Holding /\ KeyOf(d) = k
    BY <2>1 DEF CacheInv, Held
  <2>3. Keyed(d)
    BY <2>2, InvokeAssumption DEF KeyOf, Keyed, CacheKeys
  <2>4. d # c
    BY <2>1, <2>2, <2>3
  <2> QED
    BY <1>3, <2>1, <2>2, <2>4 DEF Kept
<1>12. Completed'
  <2> SUFFICES ASSUME NEW k \in CacheKeys, entries'[k].state = "complete"
               PROVE  \E d \in ran : /\ entries'[k].by = d /\ KeyOf(d)' = k
                                     /\ call'[d].payload = entries'[k].payload
    BY <1>1 DEF Completed
  <2>1. CASE Keyed(c) /\ k = KeyOf(c)
    BY <1>3, <1>5, <1>6, <1>7, <2>1 DEF Kept
  <2>2. CASE entries'[k] = entries[k]
    BY <1>1, <1>3, <2>2 DEF CacheInv, Completed, Kept
  <2> QED
    BY <1>7, <2>1, <2>2
<1>13. Carried'
  <2> SUFFICES ASSUME NEW d \in ran
               PROVE  /\ call'[d].step \in Finished
                      /\ Keyed(d)' /\ call'[d].step = "ok" =>
                           /\ entries'[KeyOf(d)'].state = "complete"
                           /\ entries'[KeyOf(d)'].by = d
    BY <1>1 DEF Carried
  <2>1. CASE d = c
    <3>1. Keyed(c) => KeyOf(c) \in CacheKeys
      BY <1>2, OneHolder
    <3> QED
      BY <1>3, <1>5, <1>6, <1>7, <2>1, <3>1 DEF Kept, Finished
  <2>2. CASE d # c
    <3>1. call'[d] = call[d] /\ KeyOf(d)' = KeyOf(d) /\ Keyed(d)' = Keyed(d) /\ d \in Calls
      BY <1>1, <1>3, <2>2 DEF Kept
    <3> QED
      BY <1>8, <2>2, <3>1 DEF CacheInv, Carried
  <2> QED
    BY <2>1, <2>2
<1>14. Completing'
  BY <1>1, <1>3 DEF CacheInv, Completing, Kept
<1>15. SameAnswer'
  <2>1. ASSUME NEW d \in Calls, call'[d].step = "ok"
        PROVE  \E b \in ran : /\ call'[d].by = b /\ KeyOf(b)' = KeyOf(d)'
                              /\ call'[b].payload = call'[d].payload
    <3>1. CASE d = c
      BY <1>3, <1>6, <2>1, <3>1
    <3>2. CASE d # c
      BY <1>1, <1>3, <2>1, <3>2 DEF CacheInv, SameAnswer, Kept
    <3> QED
      BY <3>1, <3>2
  <2> QED
    BY <1>1, <2>1 DEF SameAnswer
<1> QED
  BY <1>9, <1>10, <1>11, <1>12, <1>13, <1>14, <1>15 DEF CacheInv

(* A new request has no part in what is in the cache.                      *)
LEMMA Invoked ==
  ASSUME CacheInv, TypeOK', NEW c \in Calls, NEW r \in Request, Invoke(c, r)
  PROVE  CacheInv'
<1>1. TypeOK /\ ran \subseteq Calls /\ c \notin ran /\ ran' = ran /\ entries' = entries
  BY DEF CacheInv, TypeOK, Carried, Finished, Invoke
<1>2. /\ call[c].step = "idle" /\ call'[c].step = "check"
      /\ call'[c].caller \in Callers /\ call'[c].op \in Operations
      /\ call'[c].payload \in Payloads
  BY <1>1 DEF Invoke, TypeOK, Request
<1>3. ASSUME NEW d \in Calls, d # c
      PROVE  /\ call'[d] = call[d] /\ KeyOf(d)' = KeyOf(d) /\ Keyed(d)' = Keyed(d)
             /\ InFlight(d)' = InFlight(d)
  <2>1. call'[d] = call[d]
    BY <1>1, <1>3 DEF Invoke, TypeOK
  <2> QED
    BY <2>1 DEF KeyOf, Keyed, InFlight
<1>4. Asked'
  BY <1>2, <1>3 DEF CacheInv, Asked
<1>5. Reserved'
  BY <1>1, <1>2, <1>3 DEF CacheInv, Reserved, Holding
<1>6. Held'
  BY <1>1, <1>2, <1>3 DEF CacheInv, Held, Holding
<1>7. Completed'
  BY <1>1, <1>3 DEF CacheInv, Completed
<1>8. Carried'
  BY <1>1, <1>3 DEF CacheInv, Carried
<1>9. Completing'
  BY <1>1, <1>2, <1>3 DEF CacheInv, Completing
<1>10. SameAnswer'
  BY <1>1, <1>2, <1>3 DEF CacheInv, SameAnswer
<1> QED
  BY <1>4, <1>5, <1>6, <1>7, <1>8, <1>9, <1>10 DEF CacheInv

(* The cache and the calls agree in every state.                           *)
LEMMA CacheStep == CacheInv /\ [Next]_vars => CacheInv'
<1> SUFFICES ASSUME CacheInv, [Next]_vars PROVE CacheInv'
  OBVIOUS
<1>1. TypeOK /\ TypeOK'
  BY TypeStep DEF CacheInv
<1>2. ASSUME NEW c \in Calls, NEW r \in Request, Invoke(c, r) PROVE CacheInv'
  BY <1>1, <1>2, Invoked
<1>3. ASSUME NEW c \in Calls, Step(c) PROVE CacheInv'
  <2> DEFINE Still(step) == /\ call[c].step \notin Holding \cup {"ok", "idle"}
                            /\ To(c, step) /\ UNCHANGED <<entries, ran>>
                            /\ step = "lookup" => Keyed(c)
  <2>1. ASSUME NEW step \in Steps \ (Holding \cup {"ok", "idle"}), Still(step) PROVE CacheInv'
    BY <1>1, <2>1, Quiet
  <2>2. CASE Check(c)
    <3>1. \E step \in {"refused", "lookup", "approve"} : Still(step)
      BY <2>2 DEF Check, Holding
    <3> QED
      BY <2>1, <3>1 DEF Steps, Holding
  <2>3. CASE Lookup(c)
    <3>1. CASE entries[KeyOf(c)].state = "complete" /\ entries[KeyOf(c)].payload = call[c].payload
      <4>1. Keyed(c)
        BY <2>3 DEF CacheInv, Asked, Lookup
      <4> QED
        BY <1>1, <2>3, <3>1, <4>1, Answered DEF Lookup
    <3>2. CASE ~(entries[KeyOf(c)].state = "complete" /\ entries[KeyOf(c)].payload = call[c].payload)
      <4>1. \E step \in {"approve", "conflict"} : Still(step)
        BY <2>3, <3>2 DEF Lookup, Holding
      <4> QED
        BY <2>1, <4>1 DEF Steps, Holding
    <3> QED
      BY <3>1, <3>2
  <2>4. CASE Approve(c)
    <3>1. \E step \in {"unavailable", "required", "reserve", "denied"} : Still(step)
      BY <2>4 DEF Approve, Ask, Consume, NoApproval, Holding
    <3> QED
      BY <2>1, <3>1 DEF Steps, Holding
  <2>5. CASE Reserve(c)
    <3>1. CASE Keyed(c) => entries[KeyOf(c)].state = "absent"
      <4>1. /\ To(c, "execute") /\ call[c].step = "reserve" /\ ran' = ran
            /\ entries' = IF Keyed(c) THEN [entries EXCEPT ![KeyOf(c)] = InFlight(c)] ELSE entries
        BY <2>5, <3>1 DEF Reserve
      <4> QED
        BY <1>1, <3>1, <4>1, Taken
    <3>2. CASE /\ Keyed(c) /\ entries[KeyOf(c)].state = "complete"
               /\ entries[KeyOf(c)].payload = call[c].payload
      BY <1>1, <2>5, <3>2, Answered DEF Reserve
    <3>3. CASE /\ Keyed(c) /\ entries[KeyOf(c)].state # "absent"
               /\ ~(entries[KeyOf(c)].state = "complete" /\ entries[KeyOf(c)].payload = call[c].payload)
      <4>1. Still("conflict")
        BY <2>5, <3>3 DEF Reserve, Holding
      <4> QED
        BY <2>1, <4>1 DEF Steps, Holding
    <3> QED
      BY <3>1, <3>2, <3>3
  <2>6. CASE Execute(c)
    BY <1>1, <2>6, Executed
  <2>7. CASE Complete(c) \/ Forget(c)
    BY <1>1, <2>7, Released
  <2> QED
    BY <1>3, <2>2, <2>3, <2>4, <2>5, <2>6, <2>7 DEF Step
<1>4. CASE UNCHANGED <<call, entries, ran>>
  BY <1>1, <1>4 DEF CacheInv, Asked, Reserved, Held, Completed, Carried, Completing, SameAnswer,
                    KeyOf, Keyed, InFlight
<1>5. ASSUME NEW t \in Tickets, NEW approved \in BOOLEAN, Resolve(t, approved) PROVE CacheInv'
  BY <1>4, <1>5 DEF Resolve
<1> QED
  BY <1>2, <1>3, <1>4, <1>5 DEF Next, OptIn, Tick, vars

(* The cache starts empty.                                                *)
LEMMA CacheInit == Init => CacheInv
<1> SUFFICES ASSUME Init PROVE CacheInv
  OBVIOUS
<1>1. TypeOK
  <2>1. entries \in [CacheKeys -> [state : {"absent", "inflight", "complete"},
                                  payload : Payloads \cup {NONE}, by : Calls \cup {NONE}]]
    BY DEF Init, Absent
  <2>2. tickets \in [Tickets -> TicketType]
    BY InvokeAssumption DEF Init, TicketType
  <2>3. call \in [Calls -> CallType]
    BY DEF Init, CallType, Steps
  <2>4. opted \in BOOLEAN /\ clock \in 0 .. MaxClock
    <3>1. opted = FALSE /\ clock = 0
      BY DEF Init
    <3>2. MaxClock \in Nat
      BY InvokeAssumption
    <3>3. clock \in 0 .. MaxClock
      BY <3>1, <3>2
    <3>4. opted \in BOOLEAN
      BY <3>1
    <3> QED
      BY <3>3, <3>4
  <2>5. ran = {} /\ consents = {} /\ admitted = {}
    BY DEF Init
  <2> QED
    BY <2>1, <2>2, <2>3, <2>4, <2>5 DEF TypeOK, TicketType, CallType
<1>2. \A c \in Calls : call[c].step = "idle"
  BY DEF Init
<1>3. ran = {} /\ \A k \in CacheKeys : entries[k].state = "absent"
  BY DEF Init, Absent
<1> QED
  BY <1>1, <1>2, <1>3 DEF CacheInv, Asked, Reserved, Held, Completed, Carried, Completing,
                          SameAnswer, Holding

(* The invariant of the cache holds in every state.                        *)
LEMMA CacheAlways == Spec => []CacheInv
BY CacheInit, CacheStep, PTL DEF Spec

(* The state keeps its shape.                                              *)
THEOREM TypeCorrect == Spec => []TypeOK
<1>1. CacheInv => TypeOK
  BY DEF CacheInv
<1> QED
  BY <1>1, CacheAlways, PTL

(* However many calls race for a key, one of them at most succeeds with it. *)
THEOREM KeySucceedsOnce == Spec => []KeyedOnce
<1>1. CacheInv => KeyedOnce
  <2> SUFFICES ASSUME CacheInv, NEW c \in ran, NEW d \in ran, Keyed(c), Keyed(d), KeyOf(c) = KeyOf(d)
               PROVE  c = d
    BY DEF KeyedOnce
  <2>1. c \in Calls /\ d \in Calls
    BY DEF CacheInv, TypeOK
  <2>2. CASE call[c].step = "complete" \/ call[d].step = "complete"
    BY <2>1, <2>2, OneHolder DEF Holding
  <2>3. CASE call[c].step = "ok" /\ call[d].step = "ok"
    BY <2>3 DEF CacheInv, Carried
  <2> QED
    BY <2>2, <2>3 DEF CacheInv, Carried, Finished
<1> QED
  BY <1>1, CacheAlways, PTL

(* A key in flight is never left behind by a call that has answered.       *)
THEOREM KeysAreHeld == Spec => []ReservationsHeld
<1>1. CacheInv => ReservationsHeld
  BY DEF CacheInv, Held, ReservationsHeld
<1> QED
  BY <1>1, CacheAlways, PTL

(* Every success answers the request it was asked for.                     *)
THEOREM AnswersMatch == Spec => []SameAnswer
<1>1. CacheInv => SameAnswer
  BY DEF CacheInv
<1> QED
  BY <1>1, CacheAlways, PTL
-----------------------------------------------------------------------------
(* The requests the clients see stay while a call advances.                *)
LEMMA RequestsStay ==
  ASSUME NEW c \in Calls, Kept(c), call[c].step # "idle", call'[c].step # "idle"
  PROVE  /\ {d \in Calls : call'[d].step # "idle"} = {d \in Calls : call[d].step # "idle"}
         /\ [d \in Calls |-> Asking(d)]' = [d \in Calls |-> Asking(d)]
<1>1. \A d \in Calls : Asking(d)' = Asking(d)
  BY DEF Kept, Asking
<1>2. \A d \in Calls : call'[d].step # "idle" <=> call[d].step # "idle"
  BY DEF Kept
<1> QED
  BY <1>1, <1>2

(* A step that carries nothing out and answers nothing is not seen.        *)
LEMMA Unseen ==
  ASSUME CacheInv, NEW c \in Calls, NEW step \in Steps \ {"ok", "idle"},
         call[c].step \notin {"ok", "idle"}, To(c, step), ran' = ran
  PROVE  UNCHANGED Once!vars
<1>1. TypeOK
  BY DEF CacheInv
<1>2. Kept(c) /\ call'[c].step = step /\ call'[c].by = call[c].by
  BY <1>1, AdvanceStep
<1>3. \A d \in Calls : (call'[d].step = "ok" <=> call[d].step = "ok") /\ call'[d].by = call[d].by
  BY <1>2 DEF Kept
<1>4. {d \in Calls : call'[d].step = "ok"} = {d \in Calls : call[d].step = "ok"}
  BY <1>3
<1>5. [d \in Calls |-> ResultOf(d)]' = [d \in Calls |-> ResultOf(d)]
  BY <1>3 DEF ResultOf
<1> QED
  BY <1>2, <1>4, <1>5, RequestsStay DEF Once!vars

(* A call that is given the result of d is answered in the abstract too.   *)
LEMMA AnswerSeen ==
  ASSUME CacheInv, NEW c \in Calls, NEW d \in ran, call[c].step \notin {"ok", "idle"},
         Answer(c, d), ran' = ran,
         c = d \/ (c \notin ran /\ Keyed(c) /\ KeyOf(d) = KeyOf(c) /\ call[d].payload = call[c].payload)
  PROVE  Once!Answer(c, d)
<1>1. TypeOK /\ ran \subseteq Calls /\ d \in Calls
  BY DEF CacheInv, TypeOK
<1>2. Kept(c) /\ call'[c].step = "ok" /\ call'[c].by = d
  BY <1>1, AdvanceAnswer
<1>3. {e \in Calls : call'[e].step = "ok"} = {e \in Calls : call[e].step = "ok"} \cup {c}
  BY <1>2 DEF Kept
<1>4. [e \in Calls |-> ResultOf(e)]' = [[e \in Calls |-> ResultOf(e)] EXCEPT ![c] = d]
  BY <1>2 DEF Kept, ResultOf
<1>5. \/ c = d
      \/ c \notin ran /\ Asking(c).key # NONE /\ Asking(c).key = Asking(d).key
         /\ Asking(c).payload = Asking(d).payload
  <2> SUFFICES ASSUME c # d
               PROVE  c \notin ran /\ Asking(c).key # NONE /\ Asking(c).key = Asking(d).key
                      /\ Asking(c).payload = Asking(d).payload
    OBVIOUS
  <2>1. KeyOf(c) \in CacheKeys /\ KeyOf(c) # NONE
    BY <1>1, KeyOfCall, InvokeAssumption DEF CacheInv, CacheKeys
  <2>2. Keyed(d)
    <3>1. KeyOf(c)[3] = call[c].key /\ KeyOf(d)[3] = call[d].key
      BY DEF KeyOf
    <3> QED
      BY <3>1 DEF Keyed
  <2> QED
    BY <2>1, <2>2 DEF Asking
<1> QED
  BY <1>1, <1>2, <1>3, <1>4, <1>5, RequestsStay DEF Once!Answer, Once!SameKey

(* An operation that succeeds is the first one carried out with its key.   *)
LEMMA CarryOutSeen ==
  ASSUME CacheInv, NEW c \in Calls, call[c].step = "execute", To(c, "complete"),
         ran' = ran \cup {c}
  PROVE  Once!CarryOut(c)
<1>1. TypeOK /\ ran \subseteq Calls /\ c \notin ran
  BY DEF CacheInv, TypeOK, Carried, Finished
<1>2. Kept(c) /\ call'[c].step = "complete" /\ call'[c].by = call[c].by
  BY <1>1, AdvanceStep
<1>3. {e \in Calls : call'[e].step = "ok"} = {e \in Calls : call[e].step = "ok"}
  BY <1>2 DEF Kept
<1>4. [e \in Calls |-> ResultOf(e)]' = [e \in Calls |-> ResultOf(e)]
  BY <1>2 DEF Kept, ResultOf
<1>5. ASSUME NEW d \in ran, Asking(c).key # NONE, Asking(c).key = Asking(d).key PROVE FALSE
  <2>1. Keyed(c) /\ Keyed(d) /\ KeyOf(c) = KeyOf(d)
    BY <1>5 DEF Asking
  <2> QED
    BY <1>1, <2>1, OneHolder DEF Holding
<1> QED
  BY <1>1, <1>2, <1>3, <1>4, <1>5, RequestsStay DEF Once!CarryOut, Once!SameKey

(* A new request is a new question.                                        *)
LEMMA AskSeen ==
  ASSUME CacheInv, NEW c \in Calls, NEW r \in Request, Invoke(c, r)
  PROVE  Once!Ask(c)
<1>1. TypeOK /\ ran' = ran /\ call[c].step = "idle"
  BY DEF CacheInv, Invoke
<1>2. /\ call'[c].step = "check" /\ call'[c].by = NONE
      /\ call'[c].caller = r.caller /\ call'[c].op = r.op
      /\ call'[c].payload = r.payload /\ call'[c].key = r.key
  BY <1>1 DEF Invoke, TypeOK
<1>3. \A d \in Calls : d # c => call'[d] = call[d]
  BY <1>1 DEF Invoke, TypeOK
<1>4. /\ r.caller \in Callers /\ r.op \in Operations
      /\ r.payload \in Payloads /\ r.key \in Keys \cup {NONE}
  BY DEF Request
<1>5. Asking(c)' \in [key : CacheKeys \cup {NONE}, payload : Payloads]
  BY <1>2, <1>4 DEF Asking, Keyed, KeyOf, CacheKeys
<1>6. \A d \in Calls : d # c => Asking(d)' = Asking(d)
  BY <1>3 DEF Asking, Keyed, KeyOf
<1>7. [d \in Calls |-> Asking(d)]' = [[d \in Calls |-> Asking(d)] EXCEPT ![c] = Asking(c)']
  BY <1>6
<1>8. {d \in Calls : call'[d].step # "idle"} = {d \in Calls : call[d].step # "idle"} \cup {c}
  BY <1>2, <1>3
<1>9. {d \in Calls : call'[d].step = "ok"} = {d \in Calls : call[d].step = "ok"}
  BY <1>1, <1>2, <1>3
<1>10. [d \in Calls |-> ResultOf(d)]' = [d \in Calls |-> ResultOf(d)]
  BY <1>1, <1>2, <1>3 DEF ResultOf
<1> QED
  BY <1>1, <1>5, <1>7, <1>8, <1>9, <1>10 DEF Once!Ask

(* However calls race, fail and are refused, the cache keeps its promise to *)
(* clients that repeat a call: every behaviour of the service is one of the *)
(* abstract specification.                                                  *)
THEOREM PromiseKept == Spec => KeepsPromise
<1>1. Init => Once!Init
  BY DEF Init, Once!Init, Asking, ResultOf, Keyed
<1>2. CacheInv /\ [Next]_vars => [Once!Next]_(Once!vars)
  <2> SUFFICES ASSUME CacheInv, [Next]_vars PROVE [Once!Next]_(Once!vars)
    OBVIOUS
  <2>1. ASSUME NEW c \in Calls, NEW r \in Request, Invoke(c, r) PROVE Once!Next
    BY <2>1, AskSeen DEF Once!Next
  <2>2. ASSUME NEW c \in Calls, Step(c) PROVE Once!Next \/ UNCHANGED Once!vars
    <3>1. CASE Execute(c)
      BY <2>2, <3>1, CarryOutSeen, Unseen DEF Execute, Once!Next, Steps
    <3>2. CASE Complete(c)
      <4>1. c \in ran /\ ran' = ran /\ call[c].step \notin {"ok", "idle"} /\ Answer(c, c)
        BY <3>2 DEF CacheInv, Completing, Complete
      <4> QED
        BY <4>1, AnswerSeen DEF Once!Next
    <3>3. CASE Forget(c)
      BY <3>3, Unseen DEF Forget, Steps
    <3>4. CASE Check(c)
      BY <3>4, Unseen DEF Check, Steps
    <3>5. CASE Approve(c)
      BY <3>5, Unseen DEF Approve, Ask, Consume, NoApproval, Steps
    <3>6. CASE Lookup(c) \/ Reserve(c)
      <4>1. /\ call[c].step \in {"lookup", "reserve"} /\ ran' = ran
            /\ \/ \E step \in {"approve", "conflict", "execute"} : To(c, step)
               \/ /\ Keyed(c) /\ Answer(c, entries[KeyOf(c)].by)
                  /\ entries[KeyOf(c)].state = "complete"
                  /\ entries[KeyOf(c)].payload = call[c].payload
        BY <3>6 DEF Lookup, Reserve, CacheInv, Asked
      <4>2. ASSUME NEW step \in {"approve", "conflict", "execute"}, To(c, step)
            PROVE  UNCHANGED Once!vars
        BY <4>1, <4>2, Unseen DEF Steps
      <4>3. ASSUME Keyed(c), Answer(c, entries[KeyOf(c)].by), entries[KeyOf(c)].state = "complete",
                   entries[KeyOf(c)].payload = call[c].payload
            PROVE  Once!Next
        <5>1. KeyOf(c) \in CacheKeys
          BY <4>1, <4>3, KeyOfCall DEF CacheInv
        <5>2. PICK d \in ran : /\ entries[KeyOf(c)].by = d /\ KeyOf(d) = KeyOf(c)
                               /\ call[d].payload = call[c].payload
          BY <4>3, <5>1 DEF CacheInv, Completed
        <5>3. d \in Calls /\ c \notin ran
          BY <4>1 DEF CacheInv, TypeOK, Carried, Finished
        <5>4. Once!Answer(c, d)
          BY <4>1, <4>3, <5>2, <5>3, AnswerSeen
        <5> QED
          BY <5>3, <5>4 DEF Once!Next
      <4> QED
        BY <4>1, <4>2, <4>3
    <3> QED
      BY <2>2, <3>1, <3>2, <3>3, <3>4, <3>5, <3>6 DEF Step
  <2>3. CASE UNCHANGED <<call, ran>>
    BY <2>3 DEF Once!vars, Asking, ResultOf, Keyed, KeyOf
  <2>4. ASSUME NEW t \in Tickets, NEW approved \in BOOLEAN, Resolve(t, approved)
        PROVE  UNCHANGED <<call, ran>>
    BY <2>4 DEF Resolve
  <2> QED
    BY <2>1, <2>2, <2>3, <2>4 DEF Next, OptIn, Tick, vars
<1> QED
  BY <1>1, <1>2, CacheAlways, PTL DEF Spec, KeepsPromise, Once!Spec
-----------------------------------------------------------------------------
Before == {"idle", "check", "lookup", "approve"}

\* A ticket that was consumed had a consent for the request that consumed it.
Earned == \A x \in admitted :
  LET ticket == tickets[x.ticket] IN
    /\ ticket.status \in {"consumed", "gone"} /\ x.ticket \in consents
    /\ ticket.caller = call[x.call].caller /\ ticket.op = call[x.call].op
    /\ ticket.payload = call[x.call].payload /\ x.at <= ticket.expires
    /\ call[x.call].step \notin Before

\* No two calls consumed the same ticket.
SingleUse == \A x, y \in admitted : x.ticket = y.ticket => x = y

\* A ticket is approved by the user alone.
ByTheUser == \A t \in Tickets : tickets[t].status = "approved" => t \in consents

\* A guarded call past its approval consumed a ticket.
Admitted == \A c \in Calls :
  call[c].step \in Holding \cup {"reserve"} /\ NeedsApproval(c) => \E x \in admitted : x.call = c

ConsentInv == TypeOK /\ Earned /\ SingleUse /\ ByTheUser /\ Admitted

(* A step that leaves the tickets alone and admits nobody.                 *)
LEMMA Unticketed ==
  ASSUME ConsentInv, TypeOK', NEW c \in Calls, Kept(c),
         UNCHANGED <<tickets, admitted, consents>>,
         call[c].step \in Before \/ call'[c].step \notin Before,
         call'[c].step \in Holding \cup {"reserve"} =>
           call[c].step \in Holding \cup {"reserve"} \/ ~NeedsApproval(c)
  PROVE  ConsentInv'
<1>1. admitted \subseteq [call : Calls, ticket : Tickets, at : 0 .. MaxClock]
  BY DEF ConsentInv, TypeOK
<1>2. \A d \in Calls : NeedsApproval(d)' <=> NeedsApproval(d)
  BY DEF Kept, NeedsApproval, AgentSftp
<1>3. Earned'
  BY <1>1 DEF ConsentInv, Earned, Kept
<1>4. SingleUse' /\ ByTheUser'
  BY DEF ConsentInv, SingleUse, ByTheUser
<1>5. Admitted'
  BY <1>2 DEF ConsentInv, Admitted, Kept
<1> QED
  BY <1>3, <1>4, <1>5 DEF ConsentInv

(* A step on the tickets alone: none is approved without the user, and the  *)
(* consumed ones keep what they were consumed for.                         *)
LEMMA Ticketed ==
  ASSUME ConsentInv, TypeOK', NEW c \in Calls, Kept(c),
         call[c].step \in Before, call'[c].step \notin Holding \cup {"reserve"},
         UNCHANGED admitted, consents \subseteq consents',
         \A t \in Tickets : tickets[t].status \in {"consumed", "gone"} =>
            /\ tickets'[t].status \in {"consumed", "gone"}
            /\ tickets'[t].caller = tickets[t].caller /\ tickets'[t].op = tickets[t].op
            /\ tickets'[t].payload = tickets[t].payload
            /\ tickets'[t].expires = tickets[t].expires,
         \A t \in Tickets : tickets'[t].status = "approved" =>
            tickets[t].status = "approved" \/ t \in consents'
  PROVE  ConsentInv'
<1>1. admitted \subseteq [call : Calls, ticket : Tickets, at : 0 .. MaxClock]
  BY DEF ConsentInv, TypeOK
<1>2. \A d \in Calls : NeedsApproval(d)' <=> NeedsApproval(d)
  BY DEF Kept, NeedsApproval, AgentSftp
<1>3. Earned'
  BY <1>1 DEF ConsentInv, Earned, Kept
<1>4. SingleUse' /\ ByTheUser'
  BY DEF ConsentInv, SingleUse, ByTheUser
<1>5. Admitted'
  BY <1>2 DEF ConsentInv, Admitted, Kept
<1> QED
  BY <1>3, <1>4, <1>5 DEF ConsentInv

(* A ticket is consumed.                                                   *)
LEMMA Consumed ==
  ASSUME ConsentInv, TypeOK', NEW c \in Calls, Consume(c),
         Live(Expired(tickets[call[c].ticket])), Matches(Expired(tickets[call[c].ticket]), c),
         Expired(tickets[call[c].ticket]).status = "approved"
  PROVE  ConsentInv'
<1> DEFINE t == call[c].ticket
           ticket == Expired(tickets[t])
           x == [call |-> c, ticket |-> t, at |-> clock]
<1>1. TypeOK /\ admitted \subseteq [call : Calls, ticket : Tickets, at : 0 .. MaxClock]
  BY DEF ConsentInv, TypeOK
<1>2. t \in Tickets /\ call[c].step = "approve"
  BY <1>1 DEF Consume, TypeOK
<1>3. /\ To(c, "reserve") /\ admitted' = admitted \cup {x} /\ consents' = consents
      /\ tickets' = [tickets EXCEPT ![t] = [ticket EXCEPT !.status = "consumed"]]
  BY DEF Consume
<1>4. /\ Kept(c) /\ call'[c].step = "reserve"
  BY <1>1, <1>3, AdvanceStep
<1>5. /\ ticket \in TicketType /\ ticket.caller = tickets[t].caller /\ ticket.op = tickets[t].op
      /\ ticket.payload = tickets[t].payload /\ ticket.expires = tickets[t].expires
      /\ tickets[t].status = "approved" /\ clock <= ticket.expires
  BY <1>1, <1>2, ExpiredType
<1>6. /\ tickets'[t].status = "consumed" /\ tickets'[t].caller = ticket.caller
      /\ tickets'[t].op = ticket.op /\ tickets'[t].payload = ticket.payload
      /\ tickets'[t].expires = ticket.expires
      /\ \A u \in Tickets : u # t => tickets'[u] = tickets[u]
  BY <1>1, <1>2, <1>3, <1>5 DEF TypeOK, TicketType
<1>7. x.call = c /\ x.ticket = t /\ x.at = clock
  OBVIOUS
<1>8. /\ ticket.caller = call[c].caller /\ ticket.op = call[c].op
      /\ ticket.payload = call[c].payload
  BY DEF Matches
<1> HIDE DEF x, ticket, t
<1>9. \A y \in admitted : y.ticket # t /\ y.call \in Calls /\ y.call # c /\ y.ticket \in Tickets
  BY <1>1, <1>2, <1>5 DEF ConsentInv, Earned, Before
<1>10. Earned'
  <2> SUFFICES ASSUME NEW y \in admitted'
               PROVE  /\ tickets'[y.ticket].status \in {"consumed", "gone"} /\ y.ticket \in consents'
                      /\ tickets'[y.ticket].caller = call'[y.call].caller
                      /\ tickets'[y.ticket].op = call'[y.call].op
                      /\ tickets'[y.ticket].payload = call'[y.call].payload
                      /\ y.at <= tickets'[y.ticket].expires
                      /\ call'[y.call].step \notin Before
    BY DEF Earned
  <2>1. CASE y \in admitted
    BY <1>3, <1>4, <1>6, <1>9, <2>1 DEF ConsentInv, Earned, Kept
  <2>2. CASE y = x
    <3>1. t \in consents
      BY <1>2, <1>5 DEF ConsentInv, ByTheUser
    <3> QED
      BY <1>3, <1>4, <1>5, <1>6, <1>7, <1>8, <2>2, <3>1 DEF Kept, Before
  <2> QED
    BY <1>3, <2>1, <2>2
<1>11. SingleUse'
  BY <1>3, <1>7, <1>9 DEF ConsentInv, SingleUse
<1>12. ByTheUser'
  BY <1>3, <1>6 DEF ConsentInv, ByTheUser
<1>13. Admitted'
  <2>1. \A d \in Calls : NeedsApproval(d)' <=> NeedsApproval(d)
    BY <1>4 DEF Kept, NeedsApproval, AgentSftp
  <2> QED
    BY <1>3, <1>4, <1>7, <2>1 DEF ConsentInv, Admitted, Kept
<1> QED
  BY <1>10, <1>11, <1>12, <1>13 DEF ConsentInv

(* Consents and consumed tickets agree in every state.                     *)
LEMMA ConsentStep == ConsentInv /\ TypeOK' /\ [Next]_vars => ConsentInv'
<1> SUFFICES ASSUME ConsentInv, TypeOK', [Next]_vars PROVE ConsentInv'
  OBVIOUS
<1>1. TypeOK /\ TypeOK' /\ admitted \subseteq [call : Calls, ticket : Tickets, at : 0 .. MaxClock]
  BY DEF ConsentInv, TypeOK
<1>2. ASSUME NEW c \in Calls, NEW r \in Request, Invoke(c, r) PROVE ConsentInv'
  <2>1. /\ call[c].step = "idle" /\ call'[c].step = "check"
        /\ UNCHANGED <<tickets, admitted, consents>>
    BY <1>1, <1>2 DEF Invoke, TypeOK
  <2>2. ASSUME NEW d \in Calls, d # c PROVE call'[d] = call[d]
    BY <1>1, <1>2, <2>2 DEF Invoke, TypeOK
  <2>3. \A x \in admitted : x.call \in Calls /\ x.call # c
    BY <1>1, <2>1 DEF ConsentInv, Earned, Before
  <2>4. Earned'
    BY <2>1, <2>2, <2>3 DEF ConsentInv, Earned
  <2>5. SingleUse' /\ ByTheUser'
    BY <2>1 DEF ConsentInv, SingleUse, ByTheUser
  <2>6. Admitted'
    BY <2>1, <2>2 DEF ConsentInv, Admitted, NeedsApproval, AgentSftp, Holding
  <2> QED
    BY <1>1, <2>4, <2>5, <2>6 DEF ConsentInv
<1>3. ASSUME NEW c \in Calls, Step(c) PROVE ConsentInv'
  <2> DEFINE Moves(step) == To(c, step) /\ UNCHANGED <<tickets, admitted, consents>>
  <2>1. CASE Check(c)
    <3>1. /\ \E step \in {"refused", "lookup", "approve"} : Moves(step)
          /\ call[c].step = "check"
      BY <2>1 DEF Check
    <3> QED
      BY <1>1, <3>1, AdvanceStep, Unticketed DEF Before, Holding
  <2>2. CASE Lookup(c) \/ Reserve(c)
    <3>1. /\ call[c].step \in {"lookup", "reserve"} /\ UNCHANGED <<tickets, admitted, consents>>
          /\ \/ Answer(c, entries[KeyOf(c)].by)
             \/ To(c, "conflict")
             \/ call[c].step = "lookup" /\ To(c, "approve")
             \/ call[c].step = "reserve" /\ To(c, "execute")
      BY <2>2 DEF Lookup, Reserve
    <3> QED
      BY <1>1, <3>1, AdvanceStep, AdvanceAnswer, Unticketed DEF Before, Holding
  <2>3. CASE NoApproval(c)
    <3>1. Moves("reserve") /\ call[c].step = "approve" /\ ~NeedsApproval(c)
      BY <2>3 DEF NoApproval
    <3> QED
      BY <1>1, <3>1, AdvanceStep, Unticketed DEF Before, Holding
  <2>4. CASE Execute(c) \/ Complete(c) \/ Forget(c)
    <3>1. /\ call[c].step \in Holding /\ UNCHANGED <<tickets, admitted, consents>>
          /\ \/ Answer(c, c) \/ \E step \in {"complete", "forget", "failed"} : To(c, step)
      BY <2>4 DEF Execute, Complete, Forget, Holding
    <3> QED
      BY <1>1, <3>1, AdvanceStep, AdvanceAnswer, Unticketed DEF Before, Holding
  <2>5. CASE Ask(c)
    <3>1. /\ call[c].step = "approve" /\ UNCHANGED <<admitted, consents>>
          /\ \E step \in {"unavailable", "required"} : To(c, step)
      BY <2>5 DEF Ask
    <3>2. NewTicket(c).status = "pending" /\ Retained \in [Tickets -> TicketType]
      BY <1>1, RetainedType DEF NewTicket
    <3>3. ASSUME NEW t \in Tickets
          PROVE  \/ tickets'[t] = Retained[t]
                 \/ tickets[t].status = "unused" /\ tickets'[t] = NewTicket(c)
      <4>1. CASE tickets' = Retained
        BY <4>1
      <4>2. CASE \E u \in Tickets : /\ tickets[u].status = "unused"
                                    /\ tickets' = [Retained EXCEPT ![u] = NewTicket(c)]
        <5>1. PICK u \in Tickets : /\ tickets[u].status = "unused"
                                  /\ tickets' = [Retained EXCEPT ![u] = NewTicket(c)]
          BY <4>2
        <5> HIDE DEF Retained
        <5> QED
          BY <3>2, <5>1
      <4> QED
        BY <2>5, <4>1, <4>2 DEF Ask
    <3>4. ASSUME NEW t \in Tickets
          PROVE  /\ tickets[t].status \in {"consumed", "gone"} =>
                      /\ tickets'[t].status \in {"consumed", "gone"}
                      /\ tickets'[t].caller = tickets[t].caller /\ tickets'[t].op = tickets[t].op
                      /\ tickets'[t].payload = tickets[t].payload
                      /\ tickets'[t].expires = tickets[t].expires
                 /\ tickets'[t].status = "approved" => tickets[t].status = "approved"
      BY <1>1, <3>2, <3>3, RetainedType
    <3> QED
      BY <1>1, <3>1, <3>4, AdvanceStep, Ticketed DEF Before, Holding
  <2>6. CASE Consume(c)
    <3> DEFINE t == call[c].ticket
               pass == /\ Live(Expired(tickets[t])) /\ Matches(Expired(tickets[t]), c)
                       /\ Expired(tickets[t]).status = "approved"
    <3>1. CASE pass
      BY <1>1, <2>6, <3>1, Consumed
    <3>2. CASE ~pass
      <4>1. /\ call[c].step = "approve" /\ To(c, "denied") /\ UNCHANGED <<admitted, consents>>
            /\ tickets' = [tickets EXCEPT ![t] = Expired(tickets[t])] /\ t \in Tickets
        <5>1. call[c].step = "approve" /\ t # NONE /\ consents' = consents
          BY <2>6 DEF Consume
        <5>2. To(c, "denied") /\ admitted' = admitted
          BY <2>6, <3>2 DEF Consume
        <5>3. tickets' = [tickets EXCEPT ![t] = Expired(tickets[t])]
          BY <2>6, <3>2 DEF Consume
        <5>4. t \in Tickets
          BY <1>1, <5>1 DEF TypeOK
        <5> QED
          BY <5>1, <5>2, <5>3, <5>4
      <4>2. \A u \in Tickets : tickets'[u] = tickets[u] \/ (u = t /\ tickets'[u] = Expired(tickets[u]))
        <5>1. t \in Tickets /\ tickets' = [tickets EXCEPT ![t] = Expired(tickets[t])]
          BY <4>1
        <5> HIDE DEF t
        <5> QED
          BY <1>1, <5>1 DEF TypeOK
      <4>3. ASSUME NEW u \in Tickets
            PROVE  /\ tickets[u].status \in {"consumed", "gone"} =>
                        /\ tickets'[u].status \in {"consumed", "gone"}
                        /\ tickets'[u].caller = tickets[u].caller /\ tickets'[u].op = tickets[u].op
                        /\ tickets'[u].payload = tickets[u].payload
                        /\ tickets'[u].expires = tickets[u].expires
                   /\ tickets'[u].status = "approved" => tickets[u].status = "approved"
        BY <1>1, <4>2, ExpiredType
      <4> QED
        BY <1>1, <4>1, <4>3, AdvanceStep, Ticketed DEF Before, Holding
    <3> QED
      BY <3>1, <3>2
  <2> QED
    BY <1>3, <2>1, <2>2, <2>3, <2>4, <2>5, <2>6 DEF Step, Approve
<1>4. ASSUME NEW t \in Tickets, NEW approved \in BOOLEAN, Resolve(t, approved) PROVE ConsentInv'
  <2>1. PICK x : /\ tickets' = [tickets EXCEPT ![t] = x]
                 /\ \/ x = Expired(tickets[t]) /\ consents' = consents
                    \/ /\ Expired(tickets[t]).status = "pending" /\ x.status \in {"approved", "denied"}
                       /\ consents' = IF x.status = "approved" THEN consents \cup {t} ELSE consents
    <3>1. Expired(tickets[t]) \in TicketType
      BY <1>1, ExpiredType
    <3>2. /\ [Expired(tickets[t]) EXCEPT !.status = "approved"].status = "approved"
          /\ [Expired(tickets[t]) EXCEPT !.status = "denied"].status = "denied"
      BY <3>1 DEF TicketType
    <3> QED
      BY <1>4, <3>2, ResolveCases
  <2>2. UNCHANGED <<call, admitted>> /\ consents \subseteq consents'
    BY <1>4, <2>1 DEF Resolve
  <2>3. ASSUME NEW u \in Tickets
        PROVE  /\ tickets[u].status \in {"consumed", "gone"} => tickets'[u] = tickets[u]
               /\ tickets'[u].status = "approved" => tickets[u].status = "approved" \/ u \in consents'
    <3>1. CASE u # t
      BY <1>1, <2>1, <3>1 DEF TypeOK
    <3>2. CASE u = t
      BY <1>1, <2>1, <3>2, ExpiredType DEF TypeOK
    <3> QED
      BY <3>1, <3>2
  <2>4. Earned'
    BY <1>1, <2>2, <2>3 DEF ConsentInv, Earned
  <2>5. SingleUse' /\ ByTheUser'
    BY <2>2, <2>3 DEF ConsentInv, SingleUse, ByTheUser
  <2>6. Admitted'
    BY <2>2 DEF ConsentInv, Admitted, NeedsApproval, AgentSftp
  <2> QED
    BY <1>1, <2>4, <2>5, <2>6 DEF ConsentInv
<1>5. CASE UNCHANGED <<tickets, call, admitted, consents>>
  BY <1>1, <1>5 DEF ConsentInv, Earned, SingleUse, ByTheUser, Admitted, NeedsApproval, AgentSftp
<1> QED
  BY <1>2, <1>3, <1>4, <1>5 DEF Next, OptIn, Tick, vars

(* A guarded operation is carried out only with a consent of its own: for   *)
(* the same request, given by the user, in time, and used by no other call. *)
THEOREM ConsentOfItsOwn == Spec => []Consented
<1>1. Init => ConsentInv
  BY CacheInit DEF CacheInv, Init, ConsentInv, Earned, SingleUse, ByTheUser, Admitted, Holding
<1>2. ConsentInv => Consented
  BY DEF ConsentInv, Admitted, Earned, SingleUse, Consented
<1> QED
  BY <1>1, <1>2, ConsentStep, TypeCorrect, PTL DEF Spec
=============================================================================
