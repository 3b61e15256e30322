------------------------------- MODULE AtMostOnce -------------------------------
(***************************************************************************)
(* What a client of the control service may rely on when it repeats a call  *)
(* with an idempotency key, without a cache, a lock or an approval: an      *)
(* operation is carried out at most once per key, and a call is answered     *)
(* with the result of its own operation or with that of an equal request     *)
(* that was carried out under the same key.  A call may also never be        *)
(* answered, or be refused.                                                 *)
(***************************************************************************)
CONSTANTS
  Calls,     \* invocations of the service
  Requests,  \* what they may ask: an idempotency key, or NONE, and a payload
  NONE

VARIABLES
  asked,     \* calls that have been made
  request,   \* what each of them asked
  done,      \* calls whose operation was carried out
  answered,  \* calls that were given a result
  answer     \* whose result that is

vars == <<asked, request, done, answered, answer>>

Init ==
  /\ asked = {} /\ done = {} /\ answered = {}
  /\ request = [c \in Calls |-> [key |-> NONE, payload |-> NONE]]
  /\ answer = [c \in Calls |-> NONE]

SameKey(c, d) == request[c].key # NONE /\ request[c].key = request[d].key

Ask(c) ==
  /\ c \notin asked
  /\ asked' = asked \cup {c}
  /\ \E r \in Requests : request' = [request EXCEPT ![c] = r]
  /\ UNCHANGED <<done, answered, answer>>

CarryOut(c) ==
  /\ c \in asked /\ c \notin done \cup answered
  /\ \A d \in done : ~SameKey(c, d)
  /\ done' = done \cup {c}
  /\ UNCHANGED <<asked, request, answered, answer>>

Answer(c, d) ==
  /\ c \in asked /\ c \notin answered
  /\ d \in done
  /\ c = d \/ (c \notin done /\ SameKey(c, d) /\ request[c].payload = request[d].payload)
  /\ answered' = answered \cup {c}
  /\ answer' = [answer EXCEPT ![c] = d]
  /\ UNCHANGED <<asked, request, done>>

Next == \E c \in Calls : Ask(c) \/ CarryOut(c) \/ \E d \in Calls : Answer(c, d)

Spec == Init /\ [][Next]_vars
=============================================================================
