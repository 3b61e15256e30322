--------------------------- MODULE SshRuntime_proofs ---------------------------
(***************************************************************************)
(* Theorems about an SSH Runtime, for any number of closes, writes, flow     *)
(* changes, sizes and units of output: the remote PTY has the size asked for *)
(* last, an exit nobody asked for covers all output, and, where no client     *)
(* closes a Runtime that connects, a closed Runtime leaves nothing open and   *)
(* an ended one stays ended.  The second part is about its port forwarding:   *)
(* what is shown is listed, no port of the server is left without an owner,   *)
(* and a tunnel that is not stopped twice at once runs on its listener.       *)
(***************************************************************************)
EXTENDS SshRuntime, Tunnels, TLAPS

\* The shell mutex is held from the reading of the size to the storing of the
\* shell; a size that the remote PTY has not is still to be sent.
Sending == resizer.step = "send"
Stored == {"connected", "report", "fail", "reportFail", "failed", "done"}
Fitted ==
  /\ lock = "establish" <=> establish.step \in {"pty", "store", "storeShell"}
  /\ \A w \in Writers : writer[w] = "writing" => lock = w
  /\ Sending => resizer.size = session.size
  /\ establish.step = "pty" => establish.size = session.size \/ Sending
  /\ establish.step \in {"store", "storeShell"} => pty = session.size \/ Sending
  /\ session.shell => establish.step \in Stored /\ (pty = session.size \/ Sending)

\* Until its channel is opened a session has nothing of the remote end, and the
\* shell is read only when it is established.
Early == {"none", "connect", "ask", "authenticate"}
Opened ==
  /\ establish.step = "none" <=> record.status = "none"
  /\ record.status = "none" => \A c \in Closers : closer[c].step = "idle"
  /\ establish.step \in Early =>
       /\ channel = "none" /\ inbox = <<>> /\ ~session.shell /\ ~session.handle
       /\ \A c \in Closers : ~closer[c].took
  /\ reader.step # "none" => establish.step = "done"

\* Each unit the shell sent is on its way, in the reader's batch or in the ring;
\* an Eof comes last.
Over == {"end", "cleanup", "report", "done"}
Units == IF inbox # <<>> /\ inbox[Len(inbox)] = "eof" THEN Len(inbox) - 1 ELSE Len(inbox)
Counted ==
  /\ \A i \in 1 .. Len(inbox) : inbox[i] = "eof" => i = Len(inbox) /\ channel = "closed"
  /\ record.cursor + reader.batch + Units = sent
  /\ reader.eof => inbox = <<>> /\ channel = "closed"
  /\ reader.step # "push" => reader.batch = 0 /\ ~reader.eof
  /\ reader.step \in Over => inbox = <<>> /\ channel = "closed"

\* Where nobody has asked for a close, the session ends with its reader.
Unasked ==
  ~record.close_requested =>
    /\ \A c \in Closers : closer[c].step \in {"idle", "refused"}
    /\ session.status = "disconnected" => reader.step \in {"report", "done"}
    /\ record.status = "exited" => reader.step = "done"

\* Where no Runtime is closed while it connects: nobody disturbs the connection,
\* and a session that is taken apart has its end recorded first.
Shutting == {"shut", "summary", "report", "closed"}
Undisturbed ==
  /\ \A c \in Closers : closer[c].step = "idle"
  /\ record.status \in {"none", "connecting"}
  /\ session.closing => establish.step = "reportFail"
  /\ session.status \in (IF establish.step = "reportFail" THEN {"error"} ELSE {"connecting", "connected"})
  /\ establish.step \in {"storeShell", "connected", "report"} => session.handle
Failed == record.status \in Ended /\ \A c \in Closers : closer[c].step \in {"idle", "refused"}
Lasting ==
  /\ \/ session.handle \/ channel # "open"
     \/ \E c \in Closers : closer[c].took /\ closer[c].step = "shut"
  /\ record.status \in Ended => session.status = "disconnected"
ClosesFrom(c) ==
  /\ closer[c].step \in Shutting \cup {"takeHandle"} => ~session.shell
  /\ closer[c].step \in Shutting => ~session.handle
  /\ closer[c].step \in {"report", "closed"} => session.status = "disconnected"
  /\ closer[c].step = "closed" => ~session.listed /\ record.status \in Ended
Established ==
  /\ Connecting => Undisturbed
  /\ establish.step = "failed" => Failed
  /\ establish.step = "done" => Lasting
  /\ reader.step = "report" => session.status = "disconnected"
  /\ \A c \in Closers : ClosesFrom(c)
-----------------------------------------------------------------------------
(* The shape of the state.                                                   *)

\* What the summary of a session makes of its Runtime.
LEMMA Mirrored ==
  /\ DOMAIN Mirror = {"connecting", "connected", "disconnected", "error"}
  /\ Mirror["connecting"] = "connecting" /\ Mirror["connected"] = "running"
  /\ Mirror["disconnected"] = "exited" /\ Mirror["error"] = "error"
BY DEF Mirror

\* A message appended comes last, and what precedes it stays.
LEMMA Appended ==
  ASSUME NEW S, NEW s \in Seq(S), NEW x \in S
  PROVE  /\ Append(s, x) \in Seq(S) /\ Len(Append(s, x)) = Len(s) + 1 /\ Len(s) \in Nat
         /\ Append(s, x)[Len(s) + 1] = x
         /\ \A i \in 1 .. Len(s) : Append(s, x)[i] = s[i]
OBVIOUS

\* What is left of a sequence after its first n elements.
LEMMA Rest ==
  ASSUME NEW S, NEW s \in Seq(S), NEW n \in 1 .. Len(s)
  PROVE  /\ SubSeq(s, n + 1, Len(s)) \in Seq(S) /\ Len(SubSeq(s, n + 1, Len(s))) = Len(s) - n
         /\ Len(s) \in Nat
         /\ \A i \in 1 .. Len(s) - n : SubSeq(s, n + 1, Len(s))[i] = s[n + i]
OBVIOUS
\* The establishing task goes to its next step, and perhaps something else.
LEMMA AttemptTyped ==
  ASSUME NEW a \in Attempts, NEW x \in EstablishSteps
  PROVE  /\ [a EXCEPT !.step = x] \in Attempts
         /\ \A b \in BOOLEAN : [a EXCEPT !.step = x, !.prompt = b] \in Attempts
         /\ \A w \in {"none", "accept", "refuse"} : [a EXCEPT !.step = x, !.answer = w] \in Attempts
         /\ \A h \in {"jump", "target"} : [a EXCEPT !.step = x, !.hop = h] \in Attempts
         /\ \A z \in Sizes \cup {DefaultSize} : [a EXCEPT !.step = x, !.size = z] \in Attempts
<1> DEFINE p == [a EXCEPT !.step = x]
<1>1. p \in Attempts
  BY DEF Attempts
<1> HIDE DEF p
<1>2. ASSUME NEW b \in BOOLEAN PROVE [p EXCEPT !.prompt = b] \in Attempts
  BY <1>1 DEF Attempts
<1>3. ASSUME NEW w \in {"none", "accept", "refuse"} PROVE [p EXCEPT !.answer = w] \in Attempts
  BY <1>1 DEF Attempts
<1>4. ASSUME NEW h \in {"jump", "target"} PROVE [p EXCEPT !.hop = h] \in Attempts
  BY <1>1 DEF Attempts
<1>5. ASSUME NEW z \in Sizes \cup {DefaultSize} PROVE [p EXCEPT !.size = z] \in Attempts
  BY <1>1 DEF Attempts
<1> USE DEF p
<1> QED
  BY <1>1, <1>2, <1>3, <1>4, <1>5, Zenon

\* Whatever else it does, the establishing task stays well typed.
LEMMA AttemptStays == ASSUME TypeOK, Establish PROVE establish' \in Attempts
<1>0. /\ establish \in Attempts /\ session.size \in Sizes \cup {DefaultSize}
      /\ establish.answer \in {"none", "accept", "refuse"} /\ {"none"} \subseteq {"none", "accept", "refuse"}
      /\ TRUE \in BOOLEAN /\ FALSE \in BOOLEAN /\ "target" \in {"jump", "target"}
  BY DEF TypeOK, Attempts, Sessions
<1>1. {"connect", "ask", "authenticate", "lockShell", "pty", "store", "storeShell", "connected",
       "report", "fail", "reportFail", "failed", "done"} \subseteq EstablishSteps
  BY DEF EstablishSteps
<1>2. ASSUME NEW x \in EstablishSteps, EstablishTo(x) PROVE establish' \in Attempts
  BY <1>0, <1>2, AttemptTyped DEF EstablishTo
<1>3. [establish EXCEPT !.step = "ask", !.prompt = TRUE] \in Attempts
  BY <1>0, <1>1, AttemptTyped, Zenon
<1>4. [establish EXCEPT !.step = "failed", !.prompt = FALSE] \in Attempts
  BY <1>0, <1>1, AttemptTyped, Zenon
<1>5. ASSUME NEW x \in {"authenticate", "fail"} PROVE [establish EXCEPT !.step = x, !.answer = "none"] \in Attempts
  <2>1. x \in EstablishSteps /\ "none" \in {"none", "accept", "refuse"}
    BY <1>1
  <2> QED
    BY <1>0, <2>1, AttemptTyped, Zenon
<1>6. [establish EXCEPT !.step = "connect", !.hop = "target"] \in Attempts
  BY <1>0, <1>1, AttemptTyped, Zenon
<1>7. [establish EXCEPT !.step = "pty", !.size = session.size] \in Attempts
  BY <1>0, <1>1, AttemptTyped, Zenon
<1>8. ASSUME \E x \in EstablishSteps : EstablishTo(x) PROVE establish' \in Attempts
  BY <1>2, <1>8
<1>9. CASE Connect
  BY <1>1, <1>2, <1>3, <1>9 DEF Connect, CheckServerKey
<1>10. CASE Decided
  <2>1. PICK x \in {"authenticate", "fail"} : establish' = [establish EXCEPT !.step = x, !.answer = "none"]
    <3>1. PICK x \in IF establish.answer = "accept" THEN {"authenticate", "fail"} ELSE {"fail"} :
            establish' = [establish EXCEPT !.step = x, !.answer = "none"]
      BY <1>10 DEF Decided
    <3>2. x \in {"authenticate", "fail"}
      BY <3>1
    <3> QED
      BY <3>1, <3>2, Zenon
  <2> QED
    BY <1>5, <2>1, Zenon
<1>11. CASE Authenticate
  BY <1>1, <1>2, <1>6, <1>11 DEF Authenticate
<1>12. CASE LockShell
  BY <1>7, <1>12 DEF LockShell
<1>13. CASE ReportFail
  BY <1>4, <1>13 DEF ReportFail
<1>14. CASE Undecided \/ RequestShell \/ StoreHandle \/ StoreShell \/ Connected \/ ReportConnected
  BY <1>1, <1>2, <1>14 DEF Undecided, RequestShell, StoreHandle, StoreShell, Connected, ReportConnected
<1>15. CASE Fail
  BY <1>1, <1>2, <1>15 DEF Fail
<1> QED
  BY <1>9, <1>10, <1>11, <1>12, <1>13, <1>14, <1>15 DEF Establish

\* The summary of the session sets the status of the Runtime.
LEMMA EmitTyped ==
  ASSUME TypeOK, Emit(session.status)
  PROVE  record' \in Records /\ record'.status # "none" /\ record'.close_requested = record.close_requested
         /\ record'.cursor = record.cursor
         /\ (record'.status \in Ended <=> session.status \in {"disconnected", "error"})
         /\ (record'.status = "exited" <=> session.status = "disconnected")
<1>1. record \in Records /\ session.status \in {"connecting", "connected", "disconnected", "error"}
  BY DEF TypeOK, Sessions
<1>2. record' = [record EXCEPT !.status = Mirror[session.status]]
  BY DEF Emit
<1>3. Mirror[session.status] \in Ended \cup {"connecting", "running"}
      /\ (Mirror[session.status] \in Ended <=> session.status \in {"disconnected", "error"})
      /\ (Mirror[session.status] = "exited" <=> session.status = "disconnected")
  BY <1>1, Mirrored DEF Ended
<1>4. PICK m : m = Mirror[session.status]
  OBVIOUS
<1>5. record' = [record EXCEPT !.status = m] /\ m \in Ended \cup {"connecting", "running"} /\ m # "none"
  BY <1>2, <1>3, <1>4 DEF Ended
<1>6. record' \in Records /\ record'.status = m /\ record'.close_requested = record.close_requested
      /\ record'.cursor = record.cursor
  BY <1>1, <1>5 DEF Records
<1> QED
  BY <1>3, <1>4, <1>5, <1>6

\* The steps of the establishing task keep the state well typed.
LEMMA EstablishTypes == ASSUME TypeOK, Establish PROVE TypeOK'
<1>1. establish' \in Attempts
  BY AttemptStays
<1> USE DEF TypeOK, users, remote
<1>0. CASE Connect
  <2> QED
    BY <1>0, <1>1 DEF Connect
<1>2. CASE Decided \/ Undecided
  <2> QED
    BY <1>2, <1>1 DEF Decided, Undecided
<1>3. CASE Authenticate
  <2> QED
    BY <1>3, <1>1 DEF Authenticate
<1>4. CASE LockShell \/ RequestShell
  <2>2. establish.size \in Sizes \cup {DefaultSize}
    BY DEF Attempts
  <2> QED
    BY <1>4, <1>1, <2>2 DEF LockShell, RequestShell
<1>5. CASE StoreHandle \/ StoreShell \/ Connected
  <2>2. session' \in Sessions
    BY <1>5 DEF StoreHandle, StoreShell, Connected, Sessions
  <2> QED
    BY <1>5, <1>1, <2>2 DEF StoreHandle, StoreShell, Connected
<1>6. CASE ReportConnected
  <2>2. record' \in Records
    BY <1>6, EmitTyped DEF ReportConnected
  <2>3. reader' \in Reads
    BY <1>6 DEF ReportConnected, Reads, ReaderSteps
  <2> QED
    BY <1>6, <1>1, <2>2, <2>3 DEF ReportConnected
<1>7. CASE Fail
  <2>2. session' \in Sessions
    <3>1. CASE session.closing
      <4>1. session' = [[session EXCEPT !.closing = TRUE] EXCEPT !.status = session.status]
        BY <1>7, <3>1 DEF Fail
      <4>2. PICK s : s = [session EXCEPT !.closing = TRUE]
        OBVIOUS
      <4>3. s \in Sessions /\ session.status \in {"connecting", "connected", "disconnected", "error"}
        BY <4>2 DEF Sessions
      <4>4. [s EXCEPT !.status = session.status] \in Sessions
        BY <4>3 DEF Sessions
      <4> QED
        BY <4>1, <4>2, <4>4
    <3>2. CASE ~session.closing
      <4>1. session' = [[session EXCEPT !.closing = TRUE] EXCEPT !.status = "error"]
        BY <1>7, <3>2 DEF Fail
      <4>2. PICK s : s = [session EXCEPT !.closing = TRUE]
        OBVIOUS
      <4>3. s \in Sessions
        BY <4>2 DEF Sessions
      <4>4. [s EXCEPT !.status = "error"] \in Sessions
        BY <4>3 DEF Sessions
      <4> QED
        BY <4>1, <4>2, <4>4
    <3> QED
      BY <3>1, <3>2
  <2> QED
    BY <1>7, <1>1, <2>2 DEF Fail
<1>8. CASE ReportFail
  <2>2. record' \in Records
    BY <1>8, EmitTyped DEF ReportFail
  <2>3. session' \in Sessions
    BY <1>8 DEF ReportFail, Sessions
  <2> QED
    BY <1>8, <1>1, <2>2, <2>3 DEF ReportFail
<1> QED
  BY <1>0, <1>2, <1>3, <1>4, <1>5, <1>6, <1>7, <1>8 DEF Establish

\* A call of close goes to its next step; whether it took something is kept.
Closes == [step : CloseSteps, took : BOOLEAN]
CloserGoes(c, x) ==
  /\ closer' \in [Closers -> Closes] /\ closer'[c].step = x /\ \A d \in Closers : d # c => closer'[d] = closer[d]

LEMMA CloserMoves ==
  ASSUME TypeOK, NEW c \in Closers, NEW x \in CloseSteps, CloserTo(c, x)
  PROVE  CloserGoes(c, x) /\ closer'[c].took = closer[c].took
<1>1. closer \in [Closers -> Closes] /\ closer[c] \in Closes
  BY DEF TypeOK, Closes
<1>2. closer' = [closer EXCEPT ![c] = [closer[c] EXCEPT !.step = x]]
  BY <1>1 DEF CloserTo
<1>3. [closer[c] EXCEPT !.step = x] \in Closes /\ [closer[c] EXCEPT !.step = x].step = x
      /\ [closer[c] EXCEPT !.step = x].took = closer[c].took
  BY <1>1 DEF Closes
<1>4. PICK y : y = [closer[c] EXCEPT !.step = x]
  OBVIOUS
<1> QED
  BY <1>1, <1>2, <1>3, <1>4 DEF CloserGoes

\* Also where it takes the shell or the handle.
LEMMA CloserTakes ==
  ASSUME TypeOK, NEW c \in Closers, NEW x \in CloseSteps, NEW b \in BOOLEAN,
         closer' = [closer EXCEPT ![c].took = b, ![c].step = x]
  PROVE  CloserGoes(c, x) /\ closer'[c].took = b
<1>1. closer \in [Closers -> Closes] /\ closer[c] \in Closes
  BY DEF TypeOK, Closes
<1>2. PICK y : y = [closer[c] EXCEPT !.took = b]
  OBVIOUS
<1>3. y \in Closes /\ y.took = b
  BY <1>1, <1>2 DEF Closes
<1>4. PICK z : z = [y EXCEPT !.step = x]
  OBVIOUS
<1>5. z \in Closes /\ z.took = b /\ z.step = x
  BY <1>3, <1>4 DEF Closes
<1>6. closer' = [closer EXCEPT ![c] = z]
  BY <1>1, <1>2, <1>4
<1> QED
  BY <1>1, <1>5, <1>6 DEF CloserGoes

\* What each step of a close does: the steps it goes from and to, and what else.
CloserRow(c) ==
  \/ /\ closer[c].step = "idle" /\ record.status # "none" /\ (Connecting => CloseEarly)
     /\ \/ record.status \in Ended /\ CloserGoes(c, "refused") /\ record' = record
        \/ /\ record.status \notin Ended /\ CloserGoes(c, "lookup")
           /\ record' = [record EXCEPT !.close_requested = TRUE]
     /\ closer'[c].took = closer[c].took /\ UNCHANGED <<session, lock, remote, tasks>>
  \/ /\ closer[c].step = "lookup" /\ closer'[c].took = closer[c].took
     /\ CloserGoes(c, "mark") \/ CloserGoes(c, "refused")
     /\ UNCHANGED <<record, session, lock, remote, tasks>>
  \/ /\ closer[c].step = "mark" /\ CloserGoes(c, "notify") /\ closer'[c].took = closer[c].took
     /\ session' = [session EXCEPT !.closing = TRUE] /\ UNCHANGED <<record, lock, remote, tasks>>
  \/ /\ closer[c].step = "notify" /\ CloserGoes(c, "takeShell") /\ closer'[c].took = closer[c].took
     /\ reader' = Notified /\ UNCHANGED <<record, session, lock, remote, establish>>
  \/ /\ closer[c].step = "takeShell" /\ CloserGoes(c, "takeHandle") /\ closer'[c].took = session.shell
     /\ lock = NONE
     /\ session' = [session EXCEPT !.shell = FALSE] /\ UNCHANGED <<record, lock, remote, tasks>>
  \/ /\ closer[c].step = "takeHandle" /\ CloserGoes(c, "shut")
     /\ closer'[c].took = (closer[c].took \/ session.handle)
     /\ session' = [session EXCEPT !.handle = FALSE] /\ UNCHANGED <<record, lock, remote, tasks>>
  \/ /\ closer[c].step = "shut" /\ CloserGoes(c, "summary") /\ closer'[c].took = closer[c].took
     /\ channel' = IF closer[c].took THEN "closed" ELSE channel
     /\ UNCHANGED <<record, session, lock, pty, inbox, sent, tasks>>
  \/ /\ closer[c].step = "summary" /\ CloserGoes(c, "report") /\ closer'[c].took = closer[c].took
     /\ session' = [session EXCEPT !.status = "disconnected"] /\ UNCHANGED <<record, lock, remote, tasks>>
  \/ /\ closer[c].step = "report" /\ CloserGoes(c, "closed") /\ closer'[c].took = closer[c].took
     /\ Emit(session.status) /\ session' = [session EXCEPT !.listed = FALSE]
     /\ establish' = [establish EXCEPT !.prompt = FALSE] /\ UNCHANGED <<lock, remote, reader>>

LEMMA CloseMoves ==
  ASSUME TypeOK, NEW c \in Closers, Close(c) \/ CloseStep(c) \/ TakeShell(c)
  PROVE  CloserRow(c) /\ UNCHANGED <<flow, writer, resizer, calls>>
<1>0. {"refused", "lookup", "mark", "notify", "takeShell", "takeHandle", "shut", "summary", "report",
       "closed"} \subseteq CloseSteps
  BY DEF CloseSteps
<1>00. closer[c].took \in BOOLEAN /\ session.shell \in BOOLEAN /\ session.handle \in BOOLEAN
       /\ (closer[c].took \/ session.handle) \in BOOLEAN
  BY DEF TypeOK, Sessions
<1>1. CASE Close(c)
  BY <1>0, <1>1, CloserMoves DEF Close, CloserRow
<1>2. CASE CloseLookup(c)
  BY <1>0, <1>2, CloserMoves DEF CloseLookup, CloserRow
<1>3. CASE CloseMark(c)
  BY <1>0, <1>3, CloserMoves DEF CloseMark, CloserRow
<1>4. CASE CloseNotify(c)
  BY <1>0, <1>4, CloserMoves DEF CloseNotify, CloserRow
<1>5. CASE TakeShell(c)
  BY <1>0, <1>00, <1>5, CloserTakes DEF TakeShell, CloserRow
<1>6. CASE TakeHandle(c)
  <2>1. closer' = [closer EXCEPT ![c].took = (closer[c].took \/ session.handle), ![c].step = "shut"]
    BY <1>6 DEF TakeHandle, TypeOK
  <2> QED
    BY <1>0, <1>00, <1>6, <2>1, CloserTakes DEF TakeHandle, CloserRow
<1>7. CASE Shut(c)
  BY <1>0, <1>7, CloserMoves DEF Shut, CloserRow, remote, tasks
<1>8. CASE CloseSummary(c)
  BY <1>0, <1>8, CloserMoves DEF CloseSummary, CloserRow
<1>9. CASE ReportClose(c)
  BY <1>0, <1>9, CloserMoves DEF ReportClose, CloserRow
<1> QED
  BY <1>1, <1>2, <1>3, <1>4, <1>5, <1>6, <1>7, <1>8, <1>9 DEF CloseStep

\* A close keeps the state well typed.
LEMMA CloseTypes ==
  ASSUME TypeOK, NEW c \in Closers, Close(c) \/ CloseStep(c) \/ TakeShell(c)
  PROVE  TypeOK'
<1> USE DEF remote, tasks, CloserGoes
<1>1. CloserRow(c) /\ UNCHANGED <<flow, writer, resizer, calls>>
  BY CloseMoves
<1>2. closer' \in [Closers -> Closes] /\ lock' = lock /\ pty' = pty /\ inbox' = inbox /\ sent' = sent
  BY <1>1 DEF CloserRow
<1>3. record' \in Records
  <2>1. CASE record' = record \/ record' = [record EXCEPT !.close_requested = TRUE]
    BY <2>1 DEF TypeOK, Records
  <2> QED
    BY <1>1, <2>1, EmitTyped DEF CloserRow
<1>4. session' \in Sessions
  <2>1. session \in Sessions
    BY DEF TypeOK
  <2>2. \/ session' = session \/ session' = [session EXCEPT !.closing = TRUE]
        \/ session' = [session EXCEPT !.shell = FALSE] \/ session' = [session EXCEPT !.handle = FALSE]
        \/ session' = [session EXCEPT !.status = "disconnected"]
        \/ session' = [session EXCEPT !.listed = FALSE]
    BY <1>1 DEF CloserRow
  <2> QED
    BY <2>1, <2>2 DEF Sessions
<1>5. establish' \in Attempts
  BY <1>1 DEF CloserRow, TypeOK, Attempts
<1>6. reader' \in Reads
  BY <1>1 DEF CloserRow, Notified, TypeOK, Reads, ReaderSteps
<1>7. channel' \in {"none", "open", "closed"}
  BY <1>1 DEF CloserRow, TypeOK
<1> QED
  BY <1>1, <1>2, <1>3, <1>4, <1>5, <1>6, <1>7 DEF TypeOK, Closes

-----------------------------------------------------------------------------
(* The reader and the other calls keep the shape of the state.               *)

\* What is on its way is never more than what was sent.
LEMMA UnitsCount == ASSUME TypeOK, Counted PROVE Units \in 0 .. MaxData
<1>1. Len(inbox) \in Nat /\ (inbox # <<>> => Len(inbox) > 0)
  BY DEF TypeOK
<1>2. Units \in Nat
  BY <1>1 DEF Units
<1>3. record.cursor \in Nat /\ reader.batch \in Nat /\ sent \in 0 .. MaxData /\ MaxData \in Nat
  BY SshAssumption DEF TypeOK, Records, Reads
<1> QED
  BY <1>2, <1>3 DEF Counted

\* A batch takes the first units from the inbox; an Eof is the last of it.
LEMMA BatchTakes ==
  ASSUME TypeOK, Counted, Batch
  PROVE  /\ reader' \in Reads /\ inbox' \in Seq({"data", "eof"}) /\ reader'.step = "push"
         /\ reader'.batch + Units' = Units
         /\ \A i \in 1 .. Len(inbox') : inbox'[i] = "eof" => i = Len(inbox') /\ channel = "closed"
         /\ reader'.eof => inbox' = <<>> /\ channel = "closed"
<1>1. PICK n \in 1 .. Len(inbox) :
        /\ reader' = [step |-> "push", eof |-> inbox[n] = "eof", batch |-> IF inbox[n] = "eof" THEN n - 1 ELSE n]
        /\ inbox' = SubSeq(inbox, n + 1, Len(inbox))
  BY DEF Batch
<1>2. inbox \in Seq({"data", "eof"})
  BY DEF TypeOK
<1>3. /\ inbox' \in Seq({"data", "eof"}) /\ Len(inbox') = Len(inbox) - n /\ Len(inbox) \in Nat
      /\ \A i \in 1 .. Len(inbox) - n : inbox'[i] = inbox[n + i]
  BY <1>1, <1>2, Rest
<1>4. inbox[n] = "eof" => n = Len(inbox) /\ channel = "closed"
  BY <1>1 DEF Counted
<1>5. (inbox' = <<>> <=> n = Len(inbox)) /\ inbox # <<>>
  BY <1>2, <1>3
<1>50. (reader'.eof <=> inbox[n] = "eof") /\ reader'.step = "push"
  BY <1>1
<1>51. inbox[n] # "eof" => reader' = [step |-> "push", eof |-> FALSE, batch |-> n]
  <2> HAVE inbox[n] # "eof"
  <2>1. (inbox[n] = "eof") = FALSE
    OBVIOUS
  <2> QED
    BY <1>1, <2>1
<1>6. CASE n = Len(inbox)
  <2>1. inbox' = <<>> /\ Units' = 0
    BY <1>3, <1>5, <1>6 DEF Units
  <2>2. Units = reader'.batch
    BY <1>1, <1>3, <1>5, <1>6 DEF Units
  <2>3. reader' \in Reads
    BY <1>1, <2>2, UnitsCount DEF Reads, ReaderSteps
  <2>4. \A i \in 1 .. Len(inbox') : inbox'[i] = "eof" => i = Len(inbox') /\ channel = "closed"
    BY <1>3, <1>6
  <2>5. reader'.batch \in Nat
    BY <2>2, UnitsCount
  <2> QED
    BY <1>3, <1>4, <1>50, <2>1, <2>2, <2>3, <2>4, <2>5
<1>7. CASE n # Len(inbox)
  <2>1. n < Len(inbox) /\ inbox[n] # "eof" /\ reader' = [step |-> "push", eof |-> FALSE, batch |-> n]
    BY <1>3, <1>4, <1>51, <1>7
  <2>2. inbox'[Len(inbox')] = inbox[Len(inbox)] /\ Len(inbox') > 0
    <3>1. Len(inbox') \in 1 .. Len(inbox) - n /\ n + Len(inbox') = Len(inbox)
      BY <1>3, <2>1
    <3> QED
      BY <1>3, <3>1
  <2>3. n + Units' = Units
    BY <1>3, <1>5, <1>7, <2>2 DEF Units
  <2>4. n \in 0 .. MaxData
    <3>1. Units' \in Nat
      BY <1>3, <2>2 DEF Units
    <3> QED
      BY <2>1, <2>3, <3>1, UnitsCount, SshAssumption
  <2>5. ASSUME NEW i \in 1 .. Len(inbox'), inbox'[i] = "eof" PROVE i = Len(inbox') /\ channel = "closed"
    <3>1. n + i \in 1 .. Len(inbox) /\ inbox[n + i] = "eof"
      BY <1>3, <2>1, <2>5
    <3> QED
      BY <1>3, <3>1 DEF Counted
  <2> QED
    BY <1>3, <2>1, <2>3, <2>4, <2>5 DEF Reads, ReaderSteps
<1> QED
  BY <1>6, <1>7

\* The steps of the reader keep the state well typed.
LEMMA ReaderTypes == ASSUME TypeOK, Counted, Reader PROVE TypeOK'
<1> USE DEF users, remote
<1>1. session \in Sessions /\ record \in Records /\ reader \in Reads
  BY DEF TypeOK
<1>2. CASE Receive \/ Gate \/ Register
  <2>1. PICK x \in ReaderSteps : reader' = [reader EXCEPT !.step = x]
    BY <1>2 DEF Receive, Gate, Register, ReaderTo, ReaderSteps
  <2>2. reader' \in Reads
    BY <1>1, <2>1 DEF Reads
  <2> QED
    BY <1>2, <2>2 DEF Receive, Gate, Register, TypeOK
<1>3. CASE Batch
  BY <1>3, BatchTakes DEF Batch, TypeOK
<1>4. CASE PushBatch
  <2>1. reader' \in Reads
    BY <1>4, SshAssumption DEF PushBatch, Reads, ReaderSteps
  <2>2. record' \in Records
    BY <1>1, <1>4 DEF PushBatch, Records, Reads
  <2> QED
    BY <1>4, <2>1, <2>2 DEF PushBatch, TypeOK
<1>5. CASE EndReader
  <2>1. reader' \in Reads /\ session' \in Sessions
    BY <1>1, <1>5 DEF EndReader, ReaderTo, Reads, ReaderSteps, Sessions
  <2> QED
    BY <1>5, <2>1 DEF EndReader, TypeOK
<1>6. CASE CleanupReader
  <2>1. reader' \in Reads /\ session' \in Sessions
    BY <1>1, <1>6 DEF CleanupReader, ReaderTo, Reads, ReaderSteps, Sessions
  <2> QED
    BY <1>6, <2>1 DEF CleanupReader, TypeOK
<1>7. CASE ReportEnd
  <2>1. reader' \in Reads /\ session' \in Sessions
    BY <1>1, <1>7 DEF ReportEnd, ReaderTo, Reads, ReaderSteps, Sessions
  <2>2. record' \in Records
    BY <1>7, EmitTyped DEF ReportEnd
  <2> QED
    BY <1>7, <2>1, <2>2 DEF ReportEnd, TypeOK
<1> QED
  BY <1>2, <1>3, <1>4, <1>5, <1>6, <1>7 DEF Reader

\* The other calls and the remote end.
Others ==
  \/ \E size \in Sizes : Create(size) \/ Resize(size)
  \/ \E answer \in {"accept", "refuse"} : Decide(answer)
  \/ \E f \in Flows : NotifyResume(f) \/ \E paused \in BOOLEAN : SetPaused(f, paused)
  \/ StoreSize \/ SendSize
  \/ \E w \in Writers : Write(w) \/ WriteEnd(w)
  \/ SendData \/ EndChannel

LEMMA Steps ==
  Next <=> \/ Establish \/ Reader \/ Others
           \/ \E c \in Closers : Close(c) \/ CloseStep(c) \/ TakeShell(c)
BY DEF Next, Others

\* They too keep the state well typed.
LEMMA OthersType == ASSUME TypeOK, Others PROVE TypeOK'
<1> USE DEF users, remote, tasks
<1>0. session \in Sessions /\ record \in Records /\ reader \in Reads /\ establish \in Attempts
      /\ inbox \in Seq({"data", "eof"}) /\ calls \in 0 .. MaxCalls /\ sent \in 0 .. MaxData
  BY DEF TypeOK
<1>00. MaxCalls \in Nat /\ MaxData \in Nat
  BY SshAssumption
<1>1. ASSUME NEW size \in Sizes, Create(size) PROVE TypeOK'
  <2>1. record' \in Records
    BY <1>0, <1>1 DEF Create, Records
  <2>2. session' \in Sessions
    BY <1>0, <1>1 DEF Create, Sessions
  <2>3. establish' \in Attempts
    <3>1. PICK hop \in {"jump", "target"} : establish' = [establish EXCEPT !.step = "connect", !.hop = hop]
      BY <1>1 DEF Create
    <3>2. "connect" \in EstablishSteps
      BY DEF EstablishSteps
    <3> QED
      BY <1>0, <3>1, <3>2, AttemptTyped, Zenon
  <2> QED
    BY <1>1, <2>1, <2>2, <2>3 DEF Create, TypeOK
<1>2. ASSUME NEW size \in Sizes, Resize(size) PROVE TypeOK'
  <2>1. calls' \in 0 .. MaxCalls
    BY <1>0, <1>00, <1>2 DEF Resize
  <2> QED
    BY <1>2, <2>1 DEF Resize, TypeOK
<1>3. ASSUME NEW answer \in {"accept", "refuse"}, Decide(answer) PROVE TypeOK'
  <2>1. establish' \in Attempts
    <3>1. PICK a \in {"none", "accept", "refuse"} : establish' = [establish EXCEPT !.prompt = FALSE, !.answer = a]
      BY <1>3 DEF Decide
    <3>2. PICK e : e = [establish EXCEPT !.prompt = FALSE]
      OBVIOUS
    <3>3. e \in Attempts
      BY <1>0, <3>2 DEF Attempts
    <3>4. establish' = [e EXCEPT !.answer = a]
      BY <3>1, <3>2
    <3> QED
      BY <3>3, <3>4 DEF Attempts
  <2> QED
    BY <1>3, <2>1 DEF Decide, TypeOK
<1>4. ASSUME NEW f \in Flows, NotifyResume(f) PROVE TypeOK'
  <2>1. reader' \in Reads
    BY <1>0, <1>4 DEF NotifyResume, Notified, Reads, ReaderSteps
  <2> QED
    BY <1>4, <2>1 DEF NotifyResume, TypeOK
<1>5. ASSUME NEW f \in Flows, NEW paused \in BOOLEAN, SetPaused(f, paused) PROVE TypeOK'
  <2>1. session' \in Sessions
    BY <1>0, <1>5 DEF SetPaused, Sessions
  <2>2. calls' \in 0 .. MaxCalls
    BY <1>0, <1>00, <1>5 DEF SetPaused
  <2> QED
    BY <1>5, <2>1, <2>2 DEF SetPaused, TypeOK
<1>6. CASE StoreSize
  <2>1. session' \in Sessions
    BY <1>0, <1>6 DEF StoreSize, Sessions, TypeOK
  <2> QED
    BY <1>6, <2>1 DEF StoreSize, TypeOK
<1>7. CASE SendSize
  BY <1>7 DEF SendSize, TypeOK
<1>8. ASSUME NEW w \in Writers, Write(w) \/ WriteEnd(w) PROVE TypeOK'
  BY <1>8 DEF Write, WriteEnd, TypeOK
<1>9. CASE SendData \/ EndChannel
  <2>1. inbox' \in Seq({"data", "eof"})
    BY <1>0, <1>9 DEF SendData, EndChannel
  <2>2. sent' \in 0 .. MaxData
    BY <1>0, <1>00, <1>9 DEF SendData, EndChannel
  <2> QED
    BY <1>9, <2>1, <2>2 DEF SendData, EndChannel, TypeOK
<1> QED
  BY <1>1, <1>2, <1>3, <1>4, <1>5, <1>6, <1>7, <1>8, <1>9 DEF Others
-----------------------------------------------------------------------------
(* What each step does to what the invariant speaks of.                      *)

\* The steps of the establishing task: from which to which, and what else.
EstablishRow ==
  \/ /\ establish.step \in {"connect", "ask"} /\ establish'.step \in {"ask", "authenticate", "fail"}
     /\ UNCHANGED <<record, session, lock, remote, reader>>
  \/ /\ establish.step = "authenticate" /\ establish'.step \in {"fail", "connect"}
     /\ UNCHANGED <<record, session, lock, remote, reader>>
  \/ /\ establish.step = "authenticate" /\ establish'.step = "lockShell" /\ channel' = "open"
     /\ UNCHANGED <<record, session, lock, pty, inbox, sent, reader>>
  \/ /\ establish.step = "lockShell" /\ establish'.step = "pty" /\ establish'.size = session.size
     /\ lock = NONE /\ lock' = "establish" /\ UNCHANGED <<record, session, remote, reader>>
  \/ /\ establish.step = "pty" /\ establish'.step = "store" /\ pty' = establish.size
     /\ UNCHANGED <<record, session, lock, channel, inbox, sent, reader>>
  \/ /\ establish.step = "pty" /\ establish'.step = "fail" /\ lock' = NONE /\ channel' = "closed"
     /\ UNCHANGED <<record, session, pty, inbox, sent, reader>>
  \/ /\ establish.step = "store" /\ establish'.step = "storeShell"
     /\ session' = [session EXCEPT !.handle = TRUE] /\ UNCHANGED <<record, lock, remote, reader>>
  \/ /\ establish.step = "storeShell" /\ establish'.step = "connected" /\ lock' = NONE
     /\ session' = [session EXCEPT !.shell = TRUE] /\ UNCHANGED <<record, remote, reader>>
  \/ /\ establish.step = "connected" /\ establish'.step = "report"
     /\ session' = [session EXCEPT !.status = "connected"] /\ UNCHANGED <<record, lock, remote, reader>>
  \/ /\ establish.step = "report" /\ establish'.step = "fail"
     /\ UNCHANGED <<record, session, lock, remote, reader>>
  \/ /\ establish.step = "report" /\ establish'.step = "done" /\ Emit(session.status)
     /\ reader' = [reader EXCEPT !.step = "receive"] /\ UNCHANGED <<session, lock, remote>>
  \/ /\ establish.step = "fail" /\ session.closing /\ establish'.step = "failed"
     /\ session' = session /\ UNCHANGED <<record, lock, remote, reader>>
  \/ /\ establish.step = "fail" /\ ~session.closing /\ establish'.step = "reportFail"
     /\ session' = [session EXCEPT !.closing = TRUE, !.status = "error"]
     /\ UNCHANGED <<record, lock, remote, reader>>
  \/ /\ establish.step = "reportFail" /\ establish'.step = "failed" /\ Emit(session.status)
     /\ session' = [session EXCEPT !.listed = FALSE]
     /\ channel' = IF channel = "open" THEN "closed" ELSE channel
     /\ UNCHANGED <<lock, pty, inbox, sent, reader>>

LEMMA EstablishMoves == ASSUME TypeOK, Establish PROVE EstablishRow /\ UNCHANGED users
<1> USE DEF users, remote
<1>0. establish \in Attempts /\ session \in Sessions
  BY DEF TypeOK
<1>1. \A x : EstablishTo(x) => establish'.step = x
  BY <1>0 DEF EstablishTo, Attempts
<1>2. CASE Connect
  <2>1. establish'.step \in {"fail", "authenticate", "ask"}
    BY <1>0, <1>1, <1>2 DEF Connect, CheckServerKey, Attempts
  <2> QED
    BY <1>2, <2>1 DEF Connect, EstablishRow
<1>3. CASE Decided
  <2>1. PICK x \in IF establish.answer = "accept" THEN {"authenticate", "fail"} ELSE {"fail"} :
          establish' = [establish EXCEPT !.step = x, !.answer = "none"]
    BY <1>3 DEF Decided
  <2>2. establish'.step = x
    BY <1>0, <2>1 DEF Attempts
  <2>3. establish'.step \in {"authenticate", "fail"}
    BY <2>1, <2>2
  <2> QED
    BY <1>3, <2>3 DEF Decided, EstablishRow
<1>4. CASE Undecided
  BY <1>1, <1>4 DEF Undecided, EstablishRow
<1>5. CASE Authenticate
  <2>1. CASE EstablishTo("fail") /\ UNCHANGED channel
    BY <1>1, <1>5, <2>1 DEF Authenticate, EstablishRow
  <2>2. CASE UNCHANGED channel /\ establish' = [establish EXCEPT !.step = "connect", !.hop = "target"]
    <3>1. establish'.step = "connect"
      BY <1>0, <2>2 DEF Attempts
    <3> QED
      BY <1>5, <2>2, <3>1 DEF Authenticate, EstablishRow
  <2>3. CASE EstablishTo("lockShell") /\ channel' = "open"
    BY <1>1, <1>5, <2>3 DEF Authenticate, EstablishRow
  <2> QED
    BY <1>5, <2>1, <2>2, <2>3 DEF Authenticate
<1>6. CASE LockShell
  <2>1. establish'.step = "pty" /\ establish'.size = session.size
    BY <1>0, <1>6 DEF LockShell, Attempts
  <2> QED
    BY <1>6, <2>1 DEF LockShell, EstablishRow
<1>7. CASE RequestShell
  BY <1>1, <1>7 DEF RequestShell, EstablishRow
<1>8. CASE StoreHandle
  BY <1>1, <1>8 DEF StoreHandle, EstablishRow
<1>9. CASE StoreShell
  BY <1>1, <1>9 DEF StoreShell, EstablishRow
<1>10. CASE Connected
  BY <1>1, <1>10 DEF Connected, EstablishRow
<1>11. CASE ReportConnected
  BY <1>1, <1>11 DEF ReportConnected, EstablishRow
<1>12. CASE Fail
  <2>1. CASE session.closing
    <3>1. session' = [session EXCEPT !.closing = TRUE, !.status = session.status]
      BY <1>12, <2>1 DEF Fail
    <3>2. session' = session
      BY <1>0, <2>1, <3>1 DEF Sessions
    <3> QED
      BY <1>1, <1>12, <2>1, <3>2 DEF Fail, EstablishRow
  <2>2. CASE ~session.closing
    BY <1>1, <1>12, <2>2 DEF Fail, EstablishRow
  <2> QED
    BY <2>1, <2>2
<1>13. CASE ReportFail
  <2>1. establish'.step = "failed"
    BY <1>0, <1>13 DEF ReportFail, Attempts
  <2> QED
    BY <1>13, <2>1 DEF ReportFail, EstablishRow
<1> QED
  BY <1>2, <1>3, <1>4, <1>5, <1>6, <1>7, <1>8, <1>9, <1>10, <1>11, <1>12, <1>13 DEF Establish

\* The steps of the reader.
ReaderGoes(x) == reader'.step = x /\ reader'.batch = reader.batch /\ reader'.eof = reader.eof
ReaderRow ==
  \/ /\ reader.step = "receive" /\ inbox # <<>> /\ ReaderGoes("gate")
     /\ UNCHANGED <<record, session, lock, remote, establish>>
  \/ /\ reader.step = "receive" /\ inbox = <<>> /\ channel = "closed" /\ ReaderGoes("end")
     /\ UNCHANGED <<record, session, lock, remote, establish>>
  \/ /\ reader.step = "gate" /\ (ReaderGoes("register") \/ ReaderGoes("batch"))
     /\ UNCHANGED <<record, session, lock, remote, establish>>
  \/ /\ reader.step = "register" /\ ReaderGoes("suspended")
     /\ UNCHANGED <<record, session, lock, remote, establish>>
  \/ reader.step = "batch" /\ Batch
  \/ /\ reader.step = "push" /\ reader'.batch = 0 /\ ~reader'.eof
     /\ reader'.step = IF reader.eof THEN "end" ELSE "receive"
     /\ record' = [record EXCEPT !.cursor = @ + reader.batch]
     /\ UNCHANGED <<session, lock, remote, establish>>
  \/ /\ reader.step = "end" /\ session' = [session EXCEPT !.closing = TRUE]
     /\ \/ session.closing /\ ReaderGoes("done")
        \/ ~session.closing /\ ReaderGoes("cleanup")
     /\ UNCHANGED <<record, lock, remote, establish>>
  \/ /\ reader.step = "cleanup" /\ ReaderGoes("report")
     /\ session' = [session EXCEPT !.status = "disconnected"] /\ UNCHANGED <<record, lock, remote, establish>>
  \/ /\ reader.step = "report" /\ ReaderGoes("done") /\ Emit(session.status)
     /\ session' = [session EXCEPT !.listed = FALSE] /\ UNCHANGED <<lock, remote, establish>>

LEMMA ReaderMoves == ASSUME TypeOK, Reader PROVE ReaderRow /\ UNCHANGED users
<1> USE DEF users, remote
<1>0. reader \in Reads
  BY DEF TypeOK
<1>1. \A x : ReaderTo(x) => ReaderGoes(x)
  BY <1>0 DEF ReaderTo, ReaderGoes, Reads
<1>2. CASE Receive
  BY <1>1, <1>2 DEF Receive, ReaderRow
<1>3. CASE Gate
  BY <1>1, <1>3 DEF Gate, ReaderRow
<1>4. CASE Register
  BY <1>1, <1>4 DEF Register, ReaderRow
<1>5. CASE Batch
  <2>1. reader.step = "batch" /\ UNCHANGED users
    BY <1>5 DEF Batch
  <2> QED
    BY <1>5, <2>1 DEF ReaderRow
<1>6. CASE PushBatch
  <2>1. reader'.batch = 0 /\ ~reader'.eof /\ reader'.step = IF reader.eof THEN "end" ELSE "receive"
    BY <1>6 DEF PushBatch
  <2> QED
    BY <1>6, <2>1 DEF PushBatch, ReaderRow
<1>7. CASE EndReader
  BY <1>1, <1>7 DEF EndReader, ReaderRow
<1>8. CASE CleanupReader
  BY <1>1, <1>8 DEF CleanupReader, ReaderRow
<1>9. CASE ReportEnd
  BY <1>1, <1>9 DEF ReportEnd, ReaderRow
<1> QED
  BY <1>2, <1>3, <1>4, <1>5, <1>6, <1>7, <1>8, <1>9 DEF Reader

\* A resume wakes a reader that waits, and changes nothing else of it.
LEMMA Notification ==
  ASSUME TypeOK, reader' = Notified
  PROVE  /\ reader'.batch = reader.batch /\ reader'.eof = reader.eof
         /\ reader'.step = reader.step \/ (reader.step = "suspended" /\ reader'.step = "gate")
<1>1. CASE reader.step # "suspended"
  <2>1. reader' = reader
    BY <1>1 DEF Notified
  <2> QED
    BY <2>1, Zenon
<1>2. CASE reader.step = "suspended"
  <2>1. reader' = [reader EXCEPT !.step = "gate"] /\ reader \in Reads
    BY <1>2 DEF Notified, TypeOK
  <2> QED
    BY <1>2, <2>1 DEF Reads
<1> QED
  BY <1>1, <1>2
-----------------------------------------------------------------------------
(* The size of the remote PTY.                                               *)

\* No step disturbs the rule for the size and the mutex.
LEMMA FittedKept == ASSUME TypeOK, Fitted, Opened, Next PROVE Fitted'
<1> USE DEF users, remote, tasks, Sending
<1>0. session \in Sessions /\ {NONE, "establish"} \cap Writers = {} /\ NONE # "establish"
  BY SshAssumption DEF TypeOK
<1>1. CASE Establish
  <2>1. EstablishRow /\ UNCHANGED users
    BY <1>1, EstablishMoves
  <2>2. resizer' = resizer /\ writer' = writer /\ session'.size = session.size
    BY <1>0, <2>1 DEF EstablishRow, Sessions
  <2>3. session'.shell => session.shell \/ establish.step = "storeShell"
    BY <1>0, <2>1 DEF EstablishRow, Sessions
  <2>4. lock' = "establish" <=> establish'.step \in {"pty", "store", "storeShell"}
    BY <1>0, <2>1 DEF EstablishRow, Fitted
  <2>5. \A w \in Writers : writer'[w] = "writing" => lock' = w
    BY <1>0, <2>1, <2>2 DEF EstablishRow, Fitted
  <2>6. establish'.step = "pty" => establish'.size = session'.size
    BY <2>1, <2>2 DEF EstablishRow
  <2>7. establish'.step \in {"store", "storeShell"} => pty' = session'.size \/ Sending'
    BY <2>1, <2>2 DEF EstablishRow, Fitted
  <2>8. session'.shell => establish'.step \in Stored /\ (pty' = session'.size \/ Sending')
    BY <2>1, <2>2, <2>3 DEF EstablishRow, Fitted, Stored
  <2> QED
    BY <2>2, <2>4, <2>5, <2>6, <2>7, <2>8 DEF Fitted
<1>2. CASE Reader
  <2>1. ReaderRow /\ UNCHANGED users
    BY <1>2, ReaderMoves
  <2>2. UNCHANGED <<lock, pty, establish, resizer, writer>>
    BY <2>1 DEF ReaderRow, Batch
  <2>3. session'.size = session.size /\ (session'.shell <=> session.shell)
    BY <1>0, <2>1 DEF ReaderRow, Batch, Sessions
  <2> QED
    BY <2>2, <2>3 DEF Fitted
<1>3. ASSUME NEW c \in Closers, Close(c) \/ CloseStep(c) \/ TakeShell(c) PROVE Fitted'
  <2>1. CloserRow(c) /\ UNCHANGED <<flow, writer, resizer, calls>>
    BY <1>3, CloseMoves
  <2>2. UNCHANGED <<lock, pty, resizer, writer>>
    BY <2>1 DEF CloserRow
  <2>3. session'.size = session.size /\ (session'.shell => session.shell)
    BY <1>0, <2>1 DEF CloserRow, Sessions
  <2>4. establish'.step = establish.step /\ establish'.size = establish.size
    BY <2>1 DEF CloserRow, TypeOK, Attempts
  <2> QED
    BY <2>2, <2>3, <2>4 DEF Fitted
<1>4. ASSUME NEW size \in Sizes, Create(size) PROVE Fitted'
  <2>1. establish.step = "none" /\ ~session.shell
    BY <1>4 DEF Create, Opened, Fitted, Stored
  <2>2. establish'.step = "connect"
    BY <1>4 DEF Create, TypeOK, Attempts
  <2>3. ~session'.shell
    BY <1>0, <1>4, <2>1 DEF Create, Sessions
  <2>4. UNCHANGED <<lock, writer>> /\ resizer'.step = "store"
    BY <1>4 DEF Create
  <2> QED
    BY <2>1, <2>2, <2>3, <2>4 DEF Fitted
<1>5. ASSUME NEW size \in Sizes, Resize(size) PROVE Fitted'
  BY <1>5 DEF Resize, Fitted
<1>6. ASSUME NEW answer, Decide(answer) PROVE Fitted'
  <2>1. establish'.step = establish.step /\ establish'.size = establish.size
    BY <1>6 DEF Decide, TypeOK, Attempts
  <2> QED
    BY <1>6, <2>1 DEF Decide, Fitted
<1>7. ASSUME NEW f \in Flows, NotifyResume(f) PROVE Fitted'
  BY <1>7 DEF NotifyResume, Fitted
<1>8. ASSUME NEW f \in Flows, NEW paused, SetPaused(f, paused) PROVE Fitted'
  <2>1. session'.size = session.size /\ session'.shell = session.shell
    BY <1>0, <1>8 DEF SetPaused, Sessions
  <2> QED
    BY <1>8, <2>1 DEF SetPaused, Fitted
<1>9. CASE StoreSize
  <2>1. session'.size = resizer.size /\ session'.shell = session.shell /\ resizer'.size = resizer.size
        /\ resizer'.step = "send"
    BY <1>0, <1>9 DEF StoreSize, Sessions, TypeOK
  <2> QED
    BY <1>9, <2>1 DEF StoreSize, Fitted
<1>10. CASE SendSize
  <2>1. resizer'.step = "idle" /\ lock = NONE /\ resizer.size = session.size
    BY <1>10 DEF SendSize, TypeOK, Fitted
  <2> QED
    BY <1>0, <1>10, <2>1 DEF SendSize, Fitted
<1>11. ASSUME NEW w \in Writers, Write(w) PROVE Fitted'
  <2>1. lock = NONE /\ lock' = w /\ w # "establish"
    BY <1>0, <1>11 DEF Write
  <2>2. \A v \in Writers : writer'[v] = "writing" => v = w
    BY <1>0, <1>11, <2>1 DEF Write, Fitted, TypeOK
  <2>3. UNCHANGED <<establish, resizer, session, pty>>
    BY <1>11 DEF Write
  <2> QED
    BY <1>0, <2>1, <2>2, <2>3 DEF Fitted
<1>12. ASSUME NEW w \in Writers, WriteEnd(w) PROVE Fitted'
  <2>1. lock = w /\ lock' = NONE /\ w # "establish"
    BY <1>0, <1>12 DEF WriteEnd, Fitted
  <2>2. \A v \in Writers : writer'[v] # "writing"
    BY <1>0, <1>12, <2>1 DEF WriteEnd, Fitted, TypeOK
  <2>3. UNCHANGED <<establish, resizer, session, pty>>
    BY <1>12 DEF WriteEnd
  <2> QED
    BY <1>0, <2>1, <2>2, <2>3 DEF Fitted
<1>13. CASE SendData \/ EndChannel
  BY <1>13 DEF SendData, EndChannel, Fitted
<1> QED
  BY <1>1, <1>2, <1>3, <1>4, <1>5, <1>6, <1>7, <1>8, <1>9, <1>10, <1>11, <1>12, <1>13, Steps DEF Others

\* Until the channel is opened there is nothing of the remote end.
LEMMA OpenedKept == ASSUME TypeOK, Counted, Fitted, Opened, Next PROVE Opened'
<1> USE DEF users, remote, tasks
<1>0. session \in Sessions /\ record \in Records /\ reader \in Reads /\ establish \in Attempts
  BY DEF TypeOK
<1>1. CASE Establish
  <2>1. EstablishRow /\ UNCHANGED users
    BY <1>1, EstablishMoves
  <2>2. establish.step # "none" /\ establish'.step # "none" /\ record.status # "none"
    BY <2>1 DEF EstablishRow, Opened
  <2>3. record'.status # "none"
    BY <2>1, <2>2, EmitTyped DEF EstablishRow
  <2>4. establish'.step \in Early => establish.step \in Early /\ UNCHANGED <<session, channel, inbox>>
    BY <2>1 DEF EstablishRow, Early
  <2>5. reader'.step # "none" => establish'.step = "done"
    BY <2>1 DEF EstablishRow, Opened
  <2> QED
    BY <2>1, <2>2, <2>3, <2>4, <2>5 DEF Opened
<1>2. CASE Reader
  <2>1. ReaderRow /\ UNCHANGED users /\ establish' = establish
    BY <1>2, ReaderMoves DEF ReaderRow, Batch
  <2>2. reader.step # "none" /\ establish.step = "done" /\ record.status # "none"
    BY <2>1 DEF ReaderRow, Opened
  <2>3. record'.status # "none"
    BY <1>0, <2>1, <2>2, EmitTyped DEF ReaderRow, Batch, Records
  <2> QED
    BY <2>1, <2>2, <2>3 DEF Opened, Early
<1>3. ASSUME NEW c \in Closers, Close(c) \/ CloseStep(c) \/ TakeShell(c) PROVE Opened'
  <2>1. CloserRow(c)
    BY <1>3, CloseMoves
  <2>2. establish'.step = establish.step /\ inbox' = inbox
    BY <1>0, <2>1 DEF CloserRow, Attempts
  <2>3. record.status # "none"
    BY <2>1 DEF CloserRow, Opened
  <2>4. record'.status # "none"
    BY <1>0, <2>1, <2>3, EmitTyped DEF CloserRow, Records
  <2>5. establish.step \in Early =>
          /\ channel' = "none" /\ ~session'.shell /\ ~session'.handle /\ \A d \in Closers : ~closer'[d].took
    <3> HAVE establish.step \in Early
    <3>1. channel = "none" /\ ~session.shell /\ ~session.handle /\ \A d \in Closers : ~closer[d].took
      BY DEF Opened
    <3>2. ~closer'[c].took /\ \A d \in Closers : d # c => closer'[d] = closer[d]
      BY <2>1, <3>1 DEF CloserRow, CloserGoes
    <3>3. channel' = "none" /\ ~session'.shell /\ ~session'.handle
      BY <1>0, <2>1, <3>1 DEF CloserRow, Sessions
    <3> QED
      BY <3>1, <3>2, <3>3
  <2>6. reader'.step # "none" => reader.step # "none"
    BY <2>1, Notification DEF CloserRow
  <2> QED
    BY <2>2, <2>3, <2>4, <2>5, <2>6 DEF Opened
<1>4. ASSUME NEW size \in Sizes, Create(size) PROVE Opened'
  <2>1. establish.step = "none" /\ record.status = "none" /\ reader.step = "none"
    BY <1>4 DEF Create, Opened
  <2>2. establish'.step = "connect" /\ record'.status = "connecting"
    BY <1>0, <1>4 DEF Create, Attempts, Records
  <2>3. session'.shell = session.shell /\ session'.handle = session.handle
    BY <1>0, <1>4 DEF Create, Sessions
  <2> QED
    BY <1>4, <2>1, <2>2, <2>3 DEF Create, Opened, Early
<1>5. ASSUME NEW answer, Decide(answer) PROVE Opened'
  <2>1. establish'.step = establish.step
    BY <1>0, <1>5 DEF Decide, Attempts
  <2> QED
    BY <1>5, <2>1 DEF Decide, Opened
<1>6. ASSUME NEW f \in Flows, NotifyResume(f) PROVE Opened'
  BY <1>6, Notification DEF NotifyResume, Opened
<1>7. ASSUME NEW f \in Flows, NEW paused, SetPaused(f, paused) PROVE Opened'
  <2>1. session'.shell = session.shell /\ session'.handle = session.handle
    BY <1>0, <1>7 DEF SetPaused, Sessions
  <2> QED
    BY <1>7, <2>1 DEF SetPaused, Opened
<1>8. CASE StoreSize
  <2>1. session'.shell = session.shell /\ session'.handle = session.handle
    BY <1>0, <1>8 DEF StoreSize, Sessions
  <2> QED
    BY <1>8, <2>1 DEF StoreSize, Opened
<1>9. ASSUME NEW size, Resize(size) PROVE Opened'
  BY <1>9 DEF Resize, Opened
<1>10. CASE SendSize
  BY <1>10 DEF SendSize, Opened
<1>11. ASSUME NEW w \in Writers, Write(w) \/ WriteEnd(w) PROVE Opened'
  BY <1>11 DEF Write, WriteEnd, Opened
<1>12. CASE SendData \/ EndChannel
  <2>1. channel = "open" /\ UNCHANGED <<record, session, establish, reader, closer>>
    BY <1>12 DEF SendData, EndChannel, ShellRuns
  <2> QED
    BY <2>1 DEF Opened
<1> QED
  BY <1>1, <1>2, <1>3, <1>4, <1>5, <1>6, <1>7, <1>8, <1>9, <1>10, <1>11, <1>12, Steps DEF Others
-----------------------------------------------------------------------------
(* The units of output.                                                      *)

\* Every unit stays accounted for.
LEMMA CountedKept == ASSUME TypeOK, Opened, Counted, Next PROVE Counted'
<1> USE DEF users, remote, tasks
<1>0. /\ session \in Sessions /\ record \in Records /\ reader \in Reads /\ inbox \in Seq({"data", "eof"})
      /\ sent \in Nat
  BY DEF TypeOK
<1>00. record.cursor \in Nat /\ reader.batch \in Nat /\ reader.eof \in BOOLEAN
  BY <1>0, SshAssumption DEF Records, Reads
\* What leaves the inbox, the count and the reader alone, or ends the channel only.
<1>1. ASSUME UNCHANGED <<inbox, sent>>, record'.cursor = record.cursor, reader'.batch = reader.batch,
             reader'.eof = reader.eof, channel' = channel \/ channel' = "closed",
             reader'.step # "push" => reader.step # "push",
             reader'.step \in Over => reader.step \in Over \/ (inbox = <<>> /\ channel = "closed")
      PROVE  Counted'
  <2>1. Units' = Units
    BY <1>1 DEF Units
  <2>2. \A i \in 1 .. Len(inbox') : inbox'[i] = "eof" => i = Len(inbox') /\ channel' = "closed"
    BY <1>1 DEF Counted
  <2>3. reader'.eof => inbox' = <<>> /\ channel' = "closed"
    BY <1>1 DEF Counted
  <2>4. reader'.step # "push" => reader'.batch = 0 /\ ~reader'.eof
    BY <1>1 DEF Counted
  <2>5. reader'.step \in Over => inbox' = <<>> /\ channel' = "closed"
    BY <1>1 DEF Counted
  <2> QED
    BY <1>1, <2>1, <2>2, <2>3, <2>4, <2>5 DEF Counted
<1>2. CASE Establish
  <2>1. EstablishRow
    BY <1>2, EstablishMoves
  <2>2. UNCHANGED <<inbox, sent>> /\ record'.cursor = record.cursor
    BY <2>1, EmitTyped DEF EstablishRow
  <2>3. CASE establish.step = "authenticate"
    <3>1. inbox = <<>> /\ reader.step = "none"
      BY <2>3 DEF Opened, Early
    <3>2. reader' = reader
      BY <2>1, <2>3 DEF EstablishRow
    <3>3. Units' = Units
      BY <2>2 DEF Units
    <3> QED
      BY <2>2, <3>1, <3>2, <3>3 DEF Counted, Over
  <2>4. CASE establish.step # "authenticate"
    <3>1. channel' = channel \/ channel' = "closed"
      BY <2>1, <2>4 DEF EstablishRow
    <3>2. reader.step = "none"
      BY <2>1 DEF EstablishRow, Opened
    <3>3. reader' = reader \/ reader' = [reader EXCEPT !.step = "receive"]
      BY <2>1 DEF EstablishRow
    <3>4. reader'.batch = reader.batch /\ reader'.eof = reader.eof /\ reader'.step \in {"none", "receive"}
      BY <1>0, <1>00, <3>2, <3>3 DEF Reads
    <3> QED
      BY <1>1, <2>2, <3>1, <3>2, <3>4 DEF Over
  <2> QED
    BY <2>3, <2>4
<1>3. CASE Reader
  <2>1. ReaderRow
    BY <1>3, ReaderMoves
  <2>2. CASE Batch
    <3>1. record' = record /\ sent' = sent /\ channel' = channel /\ reader.step = "batch"
      BY <2>2 DEF Batch
    <3>2. reader.batch = 0 /\ record.cursor + Units = sent /\ Units \in Nat
      BY <1>00, <3>1, UnitsCount DEF Counted
    <3>3. /\ reader'.step = "push" /\ reader'.batch + Units' = Units
          /\ \A i \in 1 .. Len(inbox') : inbox'[i] = "eof" => i = Len(inbox') /\ channel = "closed"
          /\ reader'.eof => inbox' = <<>> /\ channel = "closed"
          /\ reader' \in Reads /\ inbox' \in Seq({"data", "eof"})
      BY <2>2, BatchTakes
    <3>4. reader'.batch \in Nat /\ Units' \in Nat
      BY <3>3, SshAssumption DEF Reads, Units
    <3> QED
      BY <1>00, <3>1, <3>2, <3>3, <3>4 DEF Counted, Over
  <2>3. CASE reader.step = "push"
    <3>1. UNCHANGED <<inbox, sent, channel>> /\ record'.cursor = record.cursor + reader.batch
          /\ reader'.batch = 0 /\ ~reader'.eof /\ reader'.step = IF reader.eof THEN "end" ELSE "receive"
      BY <1>0, <2>1, <2>3 DEF ReaderRow, Batch, Records
    <3>2. Units' = Units /\ Units \in Nat
      BY <3>1, UnitsCount DEF Units
    <3> QED
      BY <1>00, <3>1, <3>2 DEF Counted, Over
  <2>4. CASE ~Batch /\ reader.step # "push"
    <3>1. UNCHANGED <<inbox, sent, channel>> /\ record'.cursor = record.cursor
      BY <2>1, <2>4, EmitTyped DEF ReaderRow
    <3>2. reader'.batch = reader.batch /\ reader'.eof = reader.eof
          /\ (reader'.step \in Over => reader.step \in Over \/ (inbox = <<>> /\ channel = "closed"))
      BY <2>1, <2>4 DEF ReaderRow, ReaderGoes, Over
    <3> QED
      BY <1>1, <2>4, <3>1, <3>2
  <2> QED
    BY <2>2, <2>3, <2>4
<1>4. ASSUME NEW c \in Closers, Close(c) \/ CloseStep(c) \/ TakeShell(c) PROVE Counted'
  <2>1. CloserRow(c)
    BY <1>4, CloseMoves
  <2>2. UNCHANGED <<inbox, sent>> /\ (channel' = channel \/ channel' = "closed")
    BY <2>1 DEF CloserRow
  <2>3. record'.cursor = record.cursor
    BY <1>0, <2>1, EmitTyped DEF CloserRow, Records
  <2>4. reader' = reader \/ reader' = Notified
    BY <2>1 DEF CloserRow
  <2>5. CASE reader' = reader
    BY <1>1, <2>2, <2>3, <2>5
  <2>6. CASE reader' = Notified
    BY <1>1, <2>2, <2>3, <2>6, Notification DEF Over
  <2> QED
    BY <2>4, <2>5, <2>6
<1>5. CASE Others
  <2>1. CASE SendData
    <3>1. inbox' = Append(inbox, "data") /\ sent' = sent + 1 /\ channel = "open"
          /\ UNCHANGED <<record, reader, channel>>
      BY <2>1 DEF SendData, ShellRuns
    <3>2. /\ Len(inbox') = Len(inbox) + 1 /\ Len(inbox) \in Nat /\ inbox'[Len(inbox) + 1] = "data"
          /\ \A i \in 1 .. Len(inbox) : inbox'[i] = inbox[i]
      BY <1>0, <3>1, Appended
    <3>3. \A i \in 1 .. Len(inbox) : inbox[i] # "eof"
      BY <3>1 DEF Counted
    <3>4. Units = Len(inbox) /\ Units' = Len(inbox) + 1
      BY <1>0, <3>2, <3>3 DEF Units
    <3>5. \A i \in 1 .. Len(inbox') : inbox'[i] # "eof"
      BY <3>2, <3>3
    <3> QED
      BY <1>0, <1>00, <3>1, <3>2, <3>4, <3>5 DEF Counted
  <2>2. CASE EndChannel
    <3>1. channel = "open" /\ channel' = "closed" /\ UNCHANGED <<record, reader, sent>>
          /\ inbox' \in {inbox, Append(inbox, "eof")}
      BY <2>2 DEF EndChannel, ShellRuns
    <3>2. CASE inbox' = inbox
      BY <1>1, <3>1, <3>2
    <3>3. CASE inbox' = Append(inbox, "eof")
      <4>1. /\ Len(inbox') = Len(inbox) + 1 /\ Len(inbox) \in Nat /\ inbox'[Len(inbox) + 1] = "eof"
            /\ \A i \in 1 .. Len(inbox) : inbox'[i] = inbox[i]
        BY <1>0, <3>3, Appended
      <4>2. \A i \in 1 .. Len(inbox) : inbox[i] # "eof"
        BY <3>1 DEF Counted
      <4>3. Units = Len(inbox) /\ Units' = Len(inbox)
        BY <1>0, <3>3, <4>1, <4>2 DEF Units
      <4>4. \A i \in 1 .. Len(inbox') : inbox'[i] = "eof" => i = Len(inbox')
        BY <4>1, <4>2
      <4> QED
        BY <1>0, <1>00, <3>1, <4>3, <4>4 DEF Counted
    <3> QED
      BY <3>1, <3>2, <3>3
  <2>3. ASSUME NEW f \in Flows, NotifyResume(f) PROVE Counted'
    BY <1>1, <2>3, Notification DEF NotifyResume, Over
  <2>4. ASSUME NEW size, Create(size) PROVE Counted'
    <3>1. record'.cursor = record.cursor
      BY <1>0, <2>4 DEF Create, Records
    <3> QED
      BY <1>1, <2>4, <3>1 DEF Create
  <2>5. ASSUME \/ \E size \in Sizes : Resize(size)
               \/ \E answer \in {"accept", "refuse"} : Decide(answer)
               \/ \E f \in Flows : \E paused \in BOOLEAN : SetPaused(f, paused)
               \/ StoreSize \/ SendSize
               \/ \E w \in Writers : Write(w) \/ WriteEnd(w)
        PROVE  Counted'
    <3>1. UNCHANGED <<inbox, sent, channel, record, reader>>
      BY <2>5 DEF Resize, Decide, SetPaused, StoreSize, SendSize, Write, WriteEnd
    <3> QED
      BY <1>1, <3>1
  <2> QED
    BY <1>5, <2>1, <2>2, <2>3, <2>4, <2>5 DEF Others
<1> QED
  BY <1>2, <1>3, <1>4, <1>5, Steps
-----------------------------------------------------------------------------
(* The end of a session.                                                     *)

\* A session that nobody asked to close ends with its reader.
LEMMA UnaskedKept == ASSUME TypeOK, Opened, Unasked, Next PROVE Unasked'
<1> USE DEF users, remote, tasks
<1>0. session \in Sessions /\ record \in Records /\ reader \in Reads /\ establish \in Attempts
  BY DEF TypeOK
<1>1. CASE Establish
  <2>1. EstablishRow /\ closer' = closer
    BY <1>1, EstablishMoves
  <2>2. record'.close_requested = record.close_requested
    BY <2>1, EmitTyped DEF EstablishRow
  <2>3. reader.step = "none"
    BY <2>1 DEF EstablishRow, Opened
  <2> SUFFICES ASSUME ~record.close_requested
               PROVE  session'.status # "disconnected" /\ record'.status # "exited"
    BY <2>1, <2>2 DEF Unasked
  <2>4. session.status # "disconnected" /\ record.status # "exited"
    BY <2>3 DEF Unasked
  <2>5. session'.status # "disconnected"
    BY <1>0, <2>1, <2>4 DEF EstablishRow, Sessions
  <2>6. record'.status # "exited"
    BY <2>1, <2>4, EmitTyped DEF EstablishRow
  <2> QED
    BY <2>5, <2>6
<1>2. CASE Reader
  <2>1. ReaderRow /\ closer' = closer
    BY <1>2, ReaderMoves
  <2>2. record'.close_requested = record.close_requested
    BY <1>0, <2>1, EmitTyped DEF ReaderRow, Batch, Records
  <2> SUFFICES ASSUME ~record.close_requested
               PROVE  /\ session'.status = "disconnected" => reader'.step \in {"report", "done"}
                      /\ record'.status = "exited" => reader'.step = "done"
    BY <2>1, <2>2 DEF Unasked
  <2>3. CASE Batch
    BY <2>3 DEF Batch, Unasked
  <2>4. CASE ~Batch
    <3>1. record'.status = "exited" => record.status = "exited" \/ reader'.step = "done"
      BY <1>0, <2>1, <2>4 DEF ReaderRow, ReaderGoes, Records
    <3>2. session'.status = "disconnected" => session.status = "disconnected" \/ reader'.step = "report"
      BY <1>0, <2>1, <2>4 DEF ReaderRow, ReaderGoes, Sessions
    <3>3. reader.step = "report" => reader'.step = "done"
      BY <2>1, <2>4 DEF ReaderRow, ReaderGoes
    <3>4. reader.step # "done"
      BY <2>1, <2>4 DEF ReaderRow
    <3> QED
      BY <3>1, <3>2, <3>3, <3>4 DEF Unasked
  <2> QED
    BY <2>3, <2>4
<1>3. ASSUME NEW c \in Closers, Close(c) \/ CloseStep(c) \/ TakeShell(c) PROVE Unasked'
  <2>1. CloserRow(c)
    BY <1>3, CloseMoves
  <2> SUFFICES ASSUME ~record'.close_requested PROVE Unasked'
    BY DEF Unasked
  <2>2. record'.close_requested = record.close_requested \/ record'.close_requested = TRUE
    BY <1>0, <2>1, EmitTyped DEF CloserRow, Records
  <2>3. \A d \in Closers : closer[d].step \in {"idle", "refused"}
    BY <2>2 DEF Unasked
  <2>4. closer[c].step = "idle"
    BY <2>1, <2>3 DEF CloserRow
  <2>5. record' # [record EXCEPT !.close_requested = TRUE]
    BY <1>0 DEF Records
  <2>6. CloserGoes(c, "refused") /\ record' = record /\ UNCHANGED <<session, reader>>
    BY <2>1, <2>4, <2>5 DEF CloserRow
  <2> QED
    BY <2>3, <2>6 DEF Unasked, CloserGoes
<1>4. ASSUME NEW size, Create(size) PROVE Unasked'
  <2>1. /\ record'.status # "exited" /\ record'.close_requested = record.close_requested
        /\ session'.status = session.status /\ UNCHANGED <<reader, closer>>
    BY <1>0, <1>4 DEF Create, Records, Sessions
  <2> QED
    BY <2>1 DEF Unasked
<1>5. ASSUME NEW f \in Flows, NotifyResume(f) PROVE Unasked'
  BY <1>5, Notification DEF NotifyResume, Unasked
<1>6. ASSUME \/ \E size \in Sizes : Resize(size)
             \/ \E answer \in {"accept", "refuse"} : Decide(answer)
             \/ \E f \in Flows : \E paused \in BOOLEAN : SetPaused(f, paused)
             \/ StoreSize \/ SendSize
             \/ \E w \in Writers : Write(w) \/ WriteEnd(w)
             \/ SendData \/ EndChannel
      PROVE  Unasked'
  <2>1. UNCHANGED <<record, reader, closer>>
    BY <1>6 DEF Resize, Decide, SetPaused, StoreSize, SendSize, Write, WriteEnd, SendData, EndChannel
  <2>2. session'.status = session.status
    BY <1>0, <1>6 DEF Resize, Decide, SetPaused, StoreSize, SendSize, Write, WriteEnd, SendData, EndChannel, Sessions
  <2> QED
    BY <2>1, <2>2 DEF Unasked
<1> QED
  BY <1>1, <1>2, <1>3, <1>4, <1>5, <1>6, Steps DEF Others
-----------------------------------------------------------------------------
(* What holds whether or not clients close a Runtime that connects.          *)

Sound == TypeOK /\ Fitted /\ Opened /\ Counted /\ Unasked

\* Every behaviour keeps the invariant.
THEOREM Soundness == Spec => []Sound
<1>1. Init => Sound
  <2> SUFFICES ASSUME Init PROVE Sound
    OBVIOUS
  <2>1. TypeOK
    BY SshAssumption DEF Init, TypeOK, Records, Sessions, Attempts, Reads, EstablishSteps, ReaderSteps, CloseSteps
  <2>2. Fitted /\ Opened /\ Unasked
    BY SshAssumption DEF Init, Fitted, Sending, Opened, Unasked
  <2>3. Counted
    BY SshAssumption DEF Init, Counted, Units, Over
  <2> QED
    BY <2>1, <2>2, <2>3 DEF Sound
<1>2. Sound /\ [Next]_vars => Sound'
  <2> SUFFICES ASSUME Sound, [Next]_vars PROVE Sound'
    OBVIOUS
  <2> USE DEF Sound
  <2>1. CASE Next
    <3>1. TypeOK'
      BY <2>1, Steps, EstablishTypes, ReaderTypes, CloseTypes, OthersType
    <3> QED
      BY <2>1, <3>1, FittedKept, OpenedKept, CountedKept, UnaskedKept
  <2>2. CASE UNCHANGED vars
    BY <2>2 DEF vars, TypeOK, Fitted, Sending, Opened, Counted, Units, Unasked
  <2> QED
    BY <2>1, <2>2
<1> QED
  BY <1>1, <1>2, PTL DEF Spec

\* The record, the session, the futures and the channel keep their shape.
THEOREM TypeCorrect == Spec => []TypeOK
<1>1. Sound => TypeOK
  BY DEF Sound
<1> QED
  BY <1>1, Soundness, PTL

\* A resize meets a connection that is being established or one that is: the size
\* is stored before the shell is locked, and the shell is locked before the size is
\* read, so one of the two sees the other.
THEOREM SizeIsReached == Spec => []SizeReached
<1>1. Sound => SizeReached
  BY DEF Sound, Fitted, Sending, SizeReached
<1> QED
  BY <1>1, Soundness, PTL

\* Where nobody asked for a close, the end is recorded by the reader alone, behind
\* the last unit of output.
THEOREM ExitIsComplete == Spec => []NaturalExitIsComplete
<1>1. Sound => NaturalExitIsComplete
  <2> SUFFICES ASSUME Sound, record.status = "exited", ~record.close_requested
               PROVE  record.cursor = sent
    BY DEF NaturalExitIsComplete
  <2>1. reader.step = "done"
    BY DEF Sound, Unasked
  <2>2. inbox = <<>> /\ reader.batch = 0 /\ record.cursor + reader.batch + Units = sent
    BY <2>1 DEF Sound, Counted, Over
  <2>3. Units = 0 /\ record.cursor \in Nat
    BY <2>2 DEF Sound, Units, TypeOK, Records
  <2> QED
    BY <2>2, <2>3
<1> QED
  BY <1>1, Soundness, PTL
-----------------------------------------------------------------------------
(* What a Runtime that no client closes while it connects promises.          *)

\* A connection that nobody disturbs ends established, or failed and reported.
LEMMA EstablishedByEstablish == ASSUME TypeOK, Opened, Established, Establish PROVE Established'
<1> USE DEF users, remote, Connecting
<1>0. session \in Sessions
  BY DEF TypeOK
<1>1. EstablishRow /\ closer' = closer
  BY EstablishMoves
<1>2. Connecting /\ reader.step = "none"
  BY <1>1 DEF EstablishRow, Opened
<1>3. Undisturbed
  BY <1>2 DEF Established
<1>4. reader'.step # "report"
  BY <1>1, <1>2 DEF EstablishRow, TypeOK, Reads
<1>5. \A c \in Closers : closer'[c].step = "idle"
  BY <1>1, <1>3 DEF Undisturbed
<1>6. \A c \in Closers : ClosesFrom(c)'
  BY <1>5 DEF ClosesFrom, Shutting
<1>7. Connecting' => Undisturbed'
  <2> HAVE Connecting'
  <2>1. record' = record
    BY <1>1 DEF EstablishRow
  <2>2. session'.closing => establish'.step = "reportFail"
    BY <1>0, <1>1, <1>3 DEF EstablishRow, Undisturbed, Sessions
  <2>3. session'.status \in (IF establish'.step = "reportFail" THEN {"error"} ELSE {"connecting", "connected"})
    BY <1>0, <1>1, <1>3 DEF EstablishRow, Undisturbed, Sessions
  <2>4. establish'.step \in {"storeShell", "connected", "report"} => session'.handle
    BY <1>0, <1>1, <1>3 DEF EstablishRow, Undisturbed, Sessions
  <2> QED
    BY <1>3, <1>5, <2>1, <2>2, <2>3, <2>4 DEF Undisturbed
<1>8. establish'.step = "failed" => Failed'
  <2> HAVE establish'.step = "failed"
  <2>1. Emit(session.status) /\ session.status = "error"
    BY <1>1, <1>3 DEF EstablishRow, Undisturbed
  <2> QED
    BY <1>5, <2>1, EmitTyped DEF Failed
<1>9. establish'.step = "done" => Lasting'
  <2> HAVE establish'.step = "done"
  <2>1. Emit(session.status) /\ session' = session /\ session.handle /\ session.status \in {"connecting", "connected"}
    BY <1>1, <1>3 DEF EstablishRow, Undisturbed
  <2> QED
    BY <2>1, EmitTyped DEF Lasting
<1> QED
  BY <1>4, <1>6, <1>7, <1>8, <1>9 DEF Established

\* The reader ends a session only behind its disconnection.
LEMMA EstablishedByReader == ASSUME TypeOK, Opened, Established, Reader PROVE Established'
<1> USE DEF users, remote, Connecting
<1>0. session \in Sessions /\ record \in Records
  BY DEF TypeOK
<1>1. ReaderRow /\ closer' = closer /\ establish' = establish /\ channel' = channel
  BY ReaderMoves DEF ReaderRow, Batch
<1>2. establish.step = "done" /\ Lasting
  BY <1>1 DEF Established, ReaderRow, Opened
<1>3. session'.handle = session.handle /\ session'.shell = session.shell
      /\ (session.status = "disconnected" => session'.status = "disconnected")
      /\ (~session.listed => ~session'.listed)
  BY <1>0, <1>1 DEF ReaderRow, Batch, Sessions
<1>4. /\ record'.status \in Ended => record.status \in Ended \/ session'.status = "disconnected"
      /\ record.status \in Ended => record'.status \in Ended
  <2>1. CASE reader.step = "report" /\ Emit(session.status) /\ session' = [session EXCEPT !.listed = FALSE]
    <3>1. session.status = "disconnected"
      BY <2>1 DEF Established
    <3> QED
      BY <1>3, <2>1, <3>1, EmitTyped
  <2>2. CASE record'.status = record.status
    BY <2>2
  <2> QED
    BY <1>0, <1>1, <2>1, <2>2 DEF ReaderRow, Batch, Records
<1>5. reader'.step = "report" => session'.status = "disconnected"
  <2> HAVE reader'.step = "report"
  <2>1. session' = [session EXCEPT !.status = "disconnected"]
    BY <1>1 DEF ReaderRow, ReaderGoes, Batch
  <2> QED
    BY <1>0, <2>1 DEF Sessions
<1>6. Lasting'
  BY <1>1, <1>2, <1>3, <1>4 DEF Lasting
<1>7. ASSUME NEW c \in Closers PROVE ClosesFrom(c)'
  <2>1. ClosesFrom(c)
    BY DEF Established
  <2> QED
    BY <1>1, <1>3, <1>4, <2>1 DEF ClosesFrom
<1> QED
  BY <1>1, <1>2, <1>5, <1>6, <1>7 DEF Established

\* A close takes the session apart in order: the shell, the handle, the end.
LEMMA EstablishedByClose ==
  ASSUME ~CloseEarly, TypeOK, Opened, Established,
         NEW c \in Closers, Close(c) \/ CloseStep(c) \/ TakeShell(c)
  PROVE  Established'
<1> USE DEF remote, tasks, Connecting
<1>0. session \in Sessions /\ record \in Records /\ establish \in Attempts
  BY DEF TypeOK
<1>1. CloserRow(c)
  BY CloseMoves
<1>2. ~Connecting
  <2> SUFFICES ASSUME Connecting PROVE FALSE
    OBVIOUS
  <2>1. closer[c].step = "idle"
    BY DEF Established, Undisturbed
  <2> QED
    BY <1>1, <2>1 DEF CloserRow
<1>3. establish'.step = establish.step
  BY <1>0, <1>1 DEF CloserRow, Attempts
<1>4. CASE establish.step = "failed"
  <2>1. Failed
    BY <1>4 DEF Established
  <2>2. closer[c].step = "idle" /\ record.status \in Ended
    BY <1>1, <2>1 DEF CloserRow, Failed
  <2>3. CloserGoes(c, "refused") /\ record' = record /\ session' = session /\ reader' = reader
    BY <1>1, <2>2 DEF CloserRow
  <2>4. Failed' /\ \A d \in Closers : closer'[d].step \in {"idle", "refused"}
    BY <2>1, <2>3 DEF Failed, CloserGoes
  <2>5. \A d \in Closers : ClosesFrom(d)'
    BY <2>4 DEF ClosesFrom, Shutting
  <2>6. reader'.step = "report" => session'.status = "disconnected"
    BY <2>3 DEF Established
  <2> QED
    BY <1>3, <1>4, <2>4, <2>5, <2>6 DEF Established
<1>5. CASE establish.step = "done"
  <2>1. Lasting /\ (reader.step = "report" => session.status = "disconnected")
        /\ \A d \in Closers : ClosesFrom(d)
    BY <1>5 DEF Established
  <2>2. \A d \in Closers : d # c => closer'[d] = closer[d]
    BY <1>1 DEF CloserRow, CloserGoes
  <2>3. /\ session'.shell => session.shell
        /\ session'.handle => session.handle
        /\ session.status = "disconnected" => session'.status = "disconnected"
        /\ session'.listed => session.listed
    BY <1>0, <1>1 DEF CloserRow, Sessions
  <2>4. /\ record'.status \in Ended => record.status \in Ended \/ session'.status = "disconnected"
        /\ record.status \in Ended => record'.status \in Ended
    <3>1. CASE closer[c].step = "report"
      <4>1. Emit(session.status) /\ session.status = "disconnected"
        BY <1>1, <2>1, <3>1 DEF CloserRow, ClosesFrom
      <4> QED
        BY <2>3, <4>1, EmitTyped
    <3>2. CASE closer[c].step # "report"
      BY <1>0, <1>1, <3>2 DEF CloserRow, Records
    <3> QED
      BY <3>1, <3>2
  <2>5. reader'.step = "report" => session'.status = "disconnected"
    <3>1. reader'.step = "report" => reader.step = "report"
      BY <1>1, Notification DEF CloserRow
    <3> QED
      BY <2>1, <2>3, <3>1
  <2>6. ASSUME NEW d \in Closers, d # c PROVE ClosesFrom(d)'
    <3>1. closer'[d] = closer[d] /\ ClosesFrom(d)
      BY <2>1, <2>2, <2>6
    <3> QED
      BY <2>3, <2>4, <3>1 DEF ClosesFrom
  <2>7. ClosesFrom(c)'
    <3>1. closer'[c].step \in Shutting \cup {"takeHandle"} => ~session'.shell
      BY <1>0, <1>1, <2>1, <2>3 DEF CloserRow, CloserGoes, ClosesFrom, Sessions, Shutting
    <3>2. closer'[c].step \in Shutting => ~session'.handle
      BY <1>0, <1>1, <2>1, <2>3 DEF CloserRow, CloserGoes, ClosesFrom, Sessions, Shutting
    <3>3. closer'[c].step \in {"report", "closed"} => session'.status = "disconnected"
      BY <1>0, <1>1, <2>1, <2>3 DEF CloserRow, CloserGoes, ClosesFrom, Sessions, Shutting
    <3>4. ASSUME closer'[c].step = "closed" PROVE ~session'.listed /\ record'.status \in Ended
      <4>1. closer[c].step = "report" /\ Emit(session.status) /\ session' = [session EXCEPT !.listed = FALSE]
        BY <1>1, <3>4 DEF CloserRow, CloserGoes
      <4>2. session.status = "disconnected"
        BY <2>1, <4>1 DEF ClosesFrom
      <4> QED
        BY <1>0, <4>1, <4>2, EmitTyped DEF Sessions
    <3> QED
      BY <3>1, <3>2, <3>3, <3>4 DEF ClosesFrom
  <2>8. \/ session'.handle \/ channel' # "open"
        \/ \E d \in Closers : closer'[d].took /\ closer'[d].step = "shut"
    <3>1. CASE closer[c].step = "takeHandle"
      <4>1. channel' = channel /\ closer'[c].step = "shut" /\ (session.handle => closer'[c].took)
        BY <1>1, <3>1 DEF CloserRow, CloserGoes
      <4> QED
        BY <2>1, <2>2, <3>1, <4>1 DEF Lasting
    <3>2. CASE closer[c].step = "shut"
      <4>1. session' = session /\ channel' = IF closer[c].took THEN "closed" ELSE channel
        BY <1>1, <3>2 DEF CloserRow
      <4> QED
        BY <2>1, <2>2, <4>1 DEF Lasting
    <3>3. CASE closer[c].step \notin {"takeHandle", "shut"}
      <4>1. session'.handle = session.handle /\ channel' = channel
        BY <1>0, <1>1, <3>3 DEF CloserRow, Sessions
      <4> QED
        BY <2>1, <2>2, <3>3, <4>1 DEF Lasting
    <3> QED
      BY <3>1, <3>2, <3>3
  <2>9. Lasting'
    BY <2>1, <2>3, <2>4, <2>8 DEF Lasting
  <2> QED
    BY <1>3, <1>5, <2>5, <2>6, <2>7, <2>9 DEF Established
<1> QED
  BY <1>2, <1>4, <1>5

\* The other calls and the remote end disturb nothing of it.
LEMMA EstablishedByOthers == ASSUME TypeOK, Opened, Established, Others PROVE Established'
<1> USE DEF users, remote, tasks, Connecting
<1>0. session \in Sessions /\ record \in Records /\ establish \in Attempts
  BY DEF TypeOK
<1>1. ASSUME UNCHANGED <<record, closer>>, establish'.step = establish.step,
             session'.status = session.status, session'.closing = session.closing,
             session'.shell = session.shell, session'.handle = session.handle,
             session'.listed = session.listed, channel' = channel \/ channel' = "closed",
             reader'.step = "report" => reader.step = "report"
      PROVE  Established'
  <2>1. /\ Undisturbed => Undisturbed'
        /\ Failed => Failed'
        /\ Lasting => Lasting'
        /\ \A c \in Closers : ClosesFrom(c) => ClosesFrom(c)'
    BY <1>1 DEF Undisturbed, Failed, Lasting, ClosesFrom
  <2> QED
    BY <1>1, <2>1 DEF Established
<1>2. ASSUME NEW size, Create(size) PROVE Established'
  <2>1. establish.step = "none" /\ record.status = "none" /\ reader.step = "none"
    BY <1>2 DEF Create, Opened
  <2>2. Undisturbed
    BY <2>1 DEF Established
  <2>3. establish'.step = "connect" /\ record'.status = "connecting"
    BY <1>0, <1>2 DEF Create, Attempts, Records
  <2>4. /\ session'.status = session.status /\ session'.closing = session.closing
        /\ session'.handle = session.handle /\ closer' = closer /\ reader' = reader
    BY <1>0, <1>2 DEF Create, Sessions
  <2>5. Undisturbed'
    BY <2>1, <2>2, <2>3, <2>4 DEF Undisturbed
  <2>6. \A c \in Closers : ClosesFrom(c)'
    BY <2>5 DEF Undisturbed, ClosesFrom, Shutting
  <2> QED
    BY <2>1, <2>3, <2>4, <2>5, <2>6 DEF Established
<1>3. ASSUME NEW f \in Flows, NotifyResume(f) PROVE Established'
  BY <1>1, <1>3, Notification DEF NotifyResume
<1>4. ASSUME \/ \E f \in Flows : \E paused \in BOOLEAN : SetPaused(f, paused)
             \/ StoreSize
      PROVE  Established'
  <2>1. session'.status = session.status /\ session'.closing = session.closing
        /\ session'.shell = session.shell /\ session'.handle = session.handle
        /\ session'.listed = session.listed
    BY <1>0, <1>4 DEF SetPaused, StoreSize, Sessions
  <2>2. UNCHANGED <<record, closer, establish, channel, reader>>
    BY <1>4 DEF SetPaused, StoreSize
  <2> QED
    BY <1>1, <2>1, <2>2
<1>5. ASSUME NEW answer, Decide(answer) PROVE Established'
  <2>1. establish'.step = establish.step /\ UNCHANGED <<record, session, closer, channel, reader>>
    BY <1>0, <1>5 DEF Decide, Attempts
  <2> QED
    BY <1>1, <2>1
<1>6. ASSUME \/ \E size \in Sizes : Resize(size)
             \/ SendSize
             \/ \E w \in Writers : Write(w) \/ WriteEnd(w)
             \/ SendData \/ EndChannel
      PROVE  Established'
  <2>1. UNCHANGED <<record, session, closer, establish, reader>> /\ (channel' = channel \/ channel' = "closed")
    BY <1>6 DEF Resize, SendSize, Write, WriteEnd, SendData, EndChannel
  <2> QED
    BY <1>1, <2>1
<1> QED
  BY <1>2, <1>3, <1>4, <1>5, <1>6 DEF Others

\* Every behaviour in which no client closes a connecting Runtime keeps the rule.
THEOREM Establishment == ASSUME ~CloseEarly PROVE Spec => []Established
<1>1. Init => Established
  BY DEF Init, Established, Connecting, Undisturbed, Failed, Lasting, ClosesFrom, Shutting
<1>2. Sound /\ Established /\ [Next]_vars => Established'
  <2> SUFFICES ASSUME Sound, Established, [Next]_vars PROVE Established'
    OBVIOUS
  <2> USE DEF Sound
  <2>1. CASE Next
    BY <2>1, Steps, EstablishedByEstablish, EstablishedByReader, EstablishedByClose, EstablishedByOthers
  <2>2. CASE UNCHANGED vars
    BY <2>2 DEF vars, Established, Connecting, Undisturbed, Failed, Lasting, ClosesFrom
  <2> QED
    BY <2>1, <2>2
<1> QED
  BY <1>1, <1>2, Soundness, PTL DEF Spec

\* Closes leave nothing behind: the one that took the connection out of the session
\* closed it, and each has the end recorded before the session is forgotten.
THEOREM ClosesLeaveNothing == ASSUME ~CloseEarly PROVE Spec => []ClosedMeansClosed
<1>1. Sound /\ Established => ClosedMeansClosed
  <2> SUFFICES ASSUME Established, NEW c \in Closers, closer[c].step = "closed",
                      \A d \in Closers : closer[d].step \in {"idle", "closed", "refused"}
               PROVE  channel # "open" /\ ~session.shell /\ ~session.listed /\ record.status \in Ended
    BY DEF ClosedMeansClosed
  <2>1. ~session.shell /\ ~session.handle /\ ~session.listed /\ record.status \in Ended
    BY DEF Established, ClosesFrom, Shutting
  <2>2. establish.step = "done"
    BY DEF Established, Connecting, Undisturbed, Failed
  <2> QED
    BY <2>1, <2>2 DEF Established, Lasting
<1> QED
  BY <1>1, Soundness, Establishment, PTL

\* An ended Runtime never runs again: the end is recorded behind the end of the
\* session, which nothing revives.
THEOREM EndIsFinal == ASSUME ~CloseEarly PROVE Spec => EndedStaysEnded
<1>1. Sound /\ Established /\ [Next]_vars => [record.status \in Ended => record'.status \in Ended]_vars
  <2> SUFFICES ASSUME Sound, Established, Next, record.status \in Ended PROVE record'.status \in Ended
    OBVIOUS
  <2> USE DEF Sound, users, remote, tasks
  <2>0. record \in Records /\ record.status \notin {"none", "connecting"}
    BY DEF TypeOK, Ended
  <2>1. CASE Establish
    <3>1. EstablishRow
      BY <2>1, EstablishMoves
    <3>2. Undisturbed
      BY <3>1 DEF Established, EstablishRow, Connecting
    <3> QED
      BY <2>0, <3>2 DEF Undisturbed
  <2>2. CASE Reader
    <3>1. ReaderRow
      BY <2>2, ReaderMoves
    <3>2. CASE reader.step = "report"
      <4>1. Emit(session.status) /\ session.status = "disconnected"
        BY <3>1, <3>2 DEF ReaderRow, Batch, Established
      <4> QED
        BY <4>1, EmitTyped
    <3>3. CASE reader.step # "report"
      BY <2>0, <3>1, <3>3 DEF ReaderRow, Batch, Records
    <3> QED
      BY <3>2, <3>3
  <2>3. ASSUME NEW c \in Closers, Close(c) \/ CloseStep(c) \/ TakeShell(c) PROVE record'.status \in Ended
    <3>1. CloserRow(c)
      BY <2>3, CloseMoves
    <3>2. CASE closer[c].step = "report"
      <4>1. Emit(session.status) /\ session.status = "disconnected"
        BY <3>1, <3>2 DEF CloserRow, Established, ClosesFrom
      <4> QED
        BY <4>1, EmitTyped
    <3>3. CASE closer[c].step # "report"
      BY <2>0, <3>1, <3>3 DEF CloserRow, Records
    <3> QED
      BY <3>2, <3>3
  <2>4. CASE Others
    <3>1. record' = record
      BY <2>0, <2>4 DEF Others, Create, Resize, Decide, NotifyResume, SetPaused, StoreSize, SendSize, Write,
                        WriteEnd, SendData, EndChannel
    <3> QED
      BY <3>1
  <2> QED
    BY <2>1, <2>2, <2>3, <2>4, Steps
<1> QED
  BY <1>1, Soundness, Establishment, PTL DEF Spec, EndedStaysEnded
-----------------------------------------------------------------------------
(* Port forwarding on the session.                                          *)


(* An error marks a listed tunnel as failed, and no other.                  *)
LEMMA ErrorTyped ==
  ASSUME TunnelsTypeOK, NEW t \in Starts, RuntimeError(t)
  PROVE  failed' \subseteq Starts /\ failure' \in [Starts -> BOOLEAN]
<1>1. CASE t \in tunnels
  <2>1. failed' = failed \cup {t} /\ failure' = [failure EXCEPT ![t] = TRUE]
    BY <1>1 DEF RuntimeError
  <2>2. failed' \subseteq Starts
    BY <2>1 DEF TunnelsTypeOK
  <2>3. failure' \in [Starts -> BOOLEAN]
    BY <2>1 DEF TunnelsTypeOK
  <2> QED
    BY <2>2, <2>3
<1>2. CASE t \notin tunnels
  BY <1>2 DEF RuntimeError, TunnelsTypeOK
<1> QED
  BY <1>1, <1>2

(* Every call, tunnel and event keeps its shape, whichever calls of         *)
(* tunnels.rs interleave.                                                   *)
THEOREM TunnelsTypeCorrect == TunnelsSpec => []TunnelsTypeOK
<1>1. TunnelsInit => TunnelsTypeOK
  <2> SUFFICES ASSUME TunnelsInit PROVE TunnelsTypeOK
    OBVIOUS
  <2>1. {serverListens, connected} \subseteq BOOLEAN
    BY DEF TunnelsInit
  <2> QED
    BY <2>1 DEF TunnelsInit, TunnelsTypeOK, Threads
<1>2. TunnelsTypeOK /\ [TunnelsNext]_tunnelsVars => TunnelsTypeOK'
  <2> SUFFICES ASSUME TunnelsTypeOK, [TunnelsNext]_tunnelsVars PROVE TunnelsTypeOK'
    OBVIOUS
  <2> USE TunnelsAssumption DEF TunnelsTypeOK, StartTo, StartAt, StopTo, StopAt, Threads
  <2>1. ASSUME NEW s \in Starts, Check(s) PROVE TunnelsTypeOK'
    <3>1. UNCHANGED <<serverListens, connected, tunnels, failed, bound, route, stop, failure, window>>
      BY <2>1 DEF Check
    <3>2. ASSUME NEW t \in tunnels,
                 start' = [start EXCEPT ![s] = [step |-> "return", result |-> t,
                             shown |-> IF t \in failed THEN "error" ELSE "running"]]
          PROVE  TunnelsTypeOK'
      <4>1. start' \in [Starts -> [step : {"idle", "bind", "route", "insert", "emit", "return",
                                          "done", "failed"},
                                  result : Starts \cup {NoTunnel}, shown : {"running", "error"}]]
        <5>1. [step |-> "return", result |-> t,
               shown |-> IF t \in failed THEN "error" ELSE "running"]
              \in [step : {"idle", "bind", "route", "insert", "emit", "return", "done", "failed"},
                   result : Starts \cup {NoTunnel}, shown : {"running", "error"}]
          OBVIOUS
        <5> QED
          BY <3>2, <5>1
      <4> QED
        BY <3>1, <4>1
    <3>3. CASE StartTo(s, "failed")
      BY <3>1, <3>3
    <3>4. CASE StartTo(s, "bind")
      BY <3>1, <3>4
    <3> QED
      BY <2>1, <3>2, <3>3, <3>4 DEF Check
  <2>2. ASSUME NEW s \in Starts, Bind(s) PROVE TunnelsTypeOK'
    BY <2>2 DEF Bind
  <2>3. ASSUME NEW s \in Starts, Route(s) PROVE TunnelsTypeOK'
    BY <2>3 DEF Route
  <2>4. ASSUME NEW s \in Starts, Insert(s) PROVE TunnelsTypeOK'
    BY <2>4 DEF Insert
  <2>5. ASSUME NEW s \in Starts, EmitStarted(s) PROVE TunnelsTypeOK'
    BY <2>5 DEF EmitStarted
  <2>6. ASSUME NEW s \in Starts, Return(s) PROVE TunnelsTypeOK'
    <3>1. start[s].shown \in {"running", "error"}
      OBVIOUS
    <3>2. window' \in [Starts -> {"none", "running", "error"}]
      BY <2>6, <3>1 DEF Return
    <3> QED
      BY <2>6, <3>2 DEF Return
  <2>7. ASSUME NEW k \in Threads, NEW t \in Starts, Stop(k, t) PROVE TunnelsTypeOK'
    BY <2>7 DEF Stop
  <2>8. ASSUME NEW k \in Threads, Remove(k) PROVE TunnelsTypeOK'
    BY <2>8 DEF Remove
  <2>9. ASSUME NEW k \in Threads, RemoveRoute(k) PROVE TunnelsTypeOK'
    BY <2>9 DEF RemoveRoute
  <2>10. ASSUME NEW k \in Threads, CancelForward(k) PROVE TunnelsTypeOK'
    BY <2>10 DEF CancelForward
  <2>11. ASSUME NEW k \in Threads, EmitRemoved(k) PROVE TunnelsTypeOK'
    BY <2>11 DEF EmitRemoved
  <2>12. ASSUME NEW t \in Starts, ConnectionFails(t) PROVE TunnelsTypeOK'
    <3>1. failed' \subseteq Starts /\ failure' \in [Starts -> BOOLEAN]
      BY <2>12, ErrorTyped DEF ConnectionFails
    <3> QED
      BY <2>12, <3>1 DEF ConnectionFails
  <2>13. CASE AcceptFails
    <3>1. failed' \subseteq Starts /\ failure' \in [Starts -> BOOLEAN]
      BY <2>13, ErrorTyped DEF AcceptFails
    <3> QED
      BY <2>13, <3>1 DEF AcceptFails
  <2>14. ASSUME NEW t \in Starts, EmitError(t) PROVE TunnelsTypeOK'
    BY <2>14 DEF EmitError
  <2>15. CASE ListenerEnds
    BY <2>15 DEF ListenerEnds
  <2>16. CASE SessionEnds
    BY <2>16 DEF SessionEnds
  <2>17. CASE UNCHANGED tunnelsVars
    BY <2>17 DEF tunnelsVars
  <2>18. ASSUME NEW t \in Starts, Monitor(t) PROVE TunnelsTypeOK'
    BY <2>7, <2>18 DEF Monitor
  <2> QED
    BY <2>1, <2>2, <2>3, <2>4, <2>5, <2>6, <2>7, <2>8, <2>9, <2>10, <2>11, <2>12, <2>13,
       <2>14, <2>15, <2>16, <2>17, <2>18 DEF TunnelsNext, Start, StopStep
<1> QED
  BY <1>1, <1>2, PTL DEF TunnelsSpec

-----------------------------------------------------------------------------
(* A listed tunnel comes from a start that inserted it, and is on the screen *)
(* once that start has emitted it; a stop that has removed its tunnel, and   *)
(* will tell the window so, never sees it listed again.                     *)
Shown ==
  /\ \A t \in tunnels :
       /\ start[t].result = t /\ start[t].step \in {"emit", "return", "done"}
       /\ start[t].step # "emit" => window[t] # "none"
  /\ \A k \in Threads : stop[k].step # "idle" =>
       /\ stop[k].tunnel \in Starts
       /\ start[stop[k].tunnel].result = stop[k].tunnel
       /\ start[stop[k].tunnel].step \in {"emit", "return", "done"}
       /\ stop[k].step \in {"route", "cancel", "emit"} => stop[k].tunnel \notin tunnels

\* What is listed is shown, and what is being stopped is not listed again.
THEOREM ShownInvariant == TunnelsSpec => []Shown
<1>1. TunnelsInit => Shown
  BY DEF TunnelsInit, Shown, Threads
<1>2. TunnelsTypeOK /\ Shown /\ [TunnelsNext]_tunnelsVars => Shown'
  <2> SUFFICES ASSUME TunnelsTypeOK, Shown, [TunnelsNext]_tunnelsVars PROVE Shown'
    OBVIOUS
  <2> USE TunnelsAssumption DEF TunnelsTypeOK, Shown, StartTo, StartAt, StopTo, StopAt
  <2>1. ASSUME NEW s \in Starts, Check(s) PROVE Shown'
    BY <2>1 DEF Check
  <2>2. ASSUME NEW s \in Starts, Bind(s) PROVE Shown'
    BY <2>2 DEF Bind
  <2>3. ASSUME NEW s \in Starts, Route(s) PROVE Shown'
    BY <2>3 DEF Route
  <2>4. ASSUME NEW s \in Starts, Insert(s) PROVE Shown'
    BY <2>4 DEF Insert
  <2>5. ASSUME NEW s \in Starts, EmitStarted(s) PROVE Shown'
    BY <2>5 DEF EmitStarted
  <2>6. ASSUME NEW s \in Starts, Return(s) PROVE Shown'
    BY <2>6 DEF Return
  <2>7. ASSUME NEW k \in Threads, NEW t \in Starts, Stop(k, t) PROVE Shown'
    BY <2>7 DEF Stop
  <2>8. ASSUME NEW k \in Threads, Remove(k) PROVE Shown'
    BY <2>8 DEF Remove
  <2>9. ASSUME NEW k \in Threads, RemoveRoute(k) PROVE Shown'
    BY <2>9 DEF RemoveRoute
  <2>10. ASSUME NEW k \in Threads, CancelForward(k) PROVE Shown'
    BY <2>10 DEF CancelForward
  <2>11. ASSUME NEW k \in Threads, EmitRemoved(k) PROVE Shown'
    BY <2>11 DEF EmitRemoved
  <2>12. ASSUME NEW t \in Starts, ConnectionFails(t) PROVE Shown'
    BY <2>12 DEF ConnectionFails
  <2>13. CASE AcceptFails
    BY <2>13 DEF AcceptFails
  <2>14. ASSUME NEW t \in Starts, EmitError(t) PROVE Shown'
    BY <2>14 DEF EmitError
  <2>15. CASE ListenerEnds
    BY <2>15 DEF ListenerEnds
  <2>16. CASE SessionEnds
    BY <2>16 DEF SessionEnds
  <2>17. CASE UNCHANGED tunnelsVars
    BY <2>17 DEF tunnelsVars
  <2>18. ASSUME NEW t \in Starts, Monitor(t) PROVE Shown'
    BY <2>7, <2>18 DEF Monitor, Threads
  <2>19. Stoppers \subseteq Threads /\ Starts \subseteq Threads
    BY DEF Threads
  <2> QED
    BY <2>1, <2>2, <2>3, <2>4, <2>5, <2>6, <2>7, <2>8, <2>9, <2>10, <2>11, <2>12, <2>13,
       <2>14, <2>15, <2>16, <2>17, <2>18, <2>19 DEF TunnelsNext, Start, StopStep
<1> QED
  BY <1>1, <1>2, TunnelsTypeCorrect, PTL DEF TunnelsSpec

(* Whatever stops, failures and repeated starts do, a tunnel that is in the  *)
(* list of tunnels.rs and whose start has returned is shown by the window.  *)
THEOREM ShownAlways == TunnelsSpec => []ListedIsShown
<1>1. Shown => ListedIsShown
  BY DEF Shown, ListedIsShown
<1> QED
  BY <1>1, ShownInvariant, PTL-----------------------------------------------------------------------------
(* Who holds the port of the server: a start on its way to the list, a listed *)
(* tunnel, or a stop that will tell the server to give the port up.          *)
Owed(t) ==
  \/ start[t].step \in {"route", "insert"}
  \/ t \in tunnels
  \/ \E k \in Threads : stop[k].tunnel = t /\ stop[k].step \in {"route", "cancel"}
PortOwed == serverListens /\ bound # NoTunnel => connected /\ Owed(bound)

\* A step that neither takes nor frees the port keeps somebody who owes it.
LEMMA OwedKept ==
  ASSUME PortOwed, UNCHANGED <<serverListens, connected, bound>>, bound # NoTunnel => (Owed(bound) => Owed(bound)')
  PROVE  PortOwed'
BY DEF PortOwed

(* Once no call of start or stop is under way, the port the server listens  *)
(* on belongs to a listed tunnel, whichever calls and failures interleaved. *)
THEOREM NoPortLeaked == TunnelsSpec => []NoLeakedListener
<1>1. TunnelsInit => PortOwed
  BY DEF TunnelsInit, PortOwed
<1>2. TunnelsTypeOK /\ Shown /\ PortOwed /\ [TunnelsNext]_tunnelsVars => PortOwed'
  <2> SUFFICES ASSUME TunnelsTypeOK, Shown, PortOwed, [TunnelsNext]_tunnelsVars PROVE PortOwed'
    OBVIOUS
  <2> USE TunnelsAssumption DEF TunnelsTypeOK, StartTo, StartAt, StopTo, StopAt
  <2>1. ASSUME NEW s \in Starts, Check(s) PROVE PortOwed'
    BY <2>1 DEF Check, PortOwed, Owed
  <2>2. ASSUME NEW s \in Starts, Bind(s) PROVE PortOwed'
    BY <2>2 DEF Bind, PortOwed, Owed
  <2>3. ASSUME NEW s \in Starts, Route(s) PROVE PortOwed'
    BY <2>3 DEF Route, PortOwed, Owed
  <2>4. ASSUME NEW s \in Starts, Insert(s) PROVE PortOwed'
    BY <2>4 DEF Insert, PortOwed, Owed
  <2>5. ASSUME NEW s \in Starts, EmitStarted(s) \/ Return(s) PROVE PortOwed'
    <3>1. UNCHANGED <<serverListens, connected, tunnels, bound, stop>>
      BY <2>5 DEF EmitStarted, Return
    <3>2. \A t \in Starts : start'[t].step = start[t].step \/ start[t].step \in {"emit", "return"}
      BY <2>5 DEF EmitStarted, Return
    <3> QED
      BY <3>1, <3>2 DEF PortOwed, Owed
  <2>6. ASSUME NEW k \in Threads, NEW t \in Starts, Stop(k, t) PROVE PortOwed'
    BY <2>6 DEF Stop, PortOwed, Owed
  <2>7. ASSUME NEW k \in Threads, Remove(k) PROVE PortOwed'
    <3>1. stop[k].step = "remove" /\ tunnels' = tunnels \ {stop[k].tunnel}
          /\ UNCHANGED <<serverListens, connected, start, bound>>
      BY <2>7 DEF Remove
    <3>2. serverListens => stop'[k].tunnel = stop[k].tunnel /\ stop'[k].step = "route"
      BY <2>7 DEF Remove
    <3>3. \A j \in Threads : j # k => stop'[j] = stop[j]
      BY <2>7 DEF Remove
    <3> QED
      BY <3>1, <3>2, <3>3 DEF PortOwed, Owed
  <2>8. ASSUME NEW k \in Threads, RemoveRoute(k) PROVE PortOwed'
    <3>1. UNCHANGED <<serverListens, connected, start, bound, tunnels>>
      BY <2>8 DEF RemoveRoute
    <3>2. stop'[k].tunnel = stop[k].tunnel /\ stop'[k].step = "cancel"
      BY <2>8 DEF RemoveRoute
    <3>3. \A j \in Threads : j # k => stop'[j] = stop[j]
      BY <2>8 DEF RemoveRoute
    <3> QED
      BY <3>1, <3>2, <3>3 DEF PortOwed, Owed
  <2>9. ASSUME NEW k \in Threads, CancelForward(k) PROVE PortOwed'
    BY <2>9 DEF CancelForward, PortOwed
  <2>10. ASSUME NEW k \in Threads, EmitRemoved(k) PROVE PortOwed'
    <3>1. UNCHANGED <<serverListens, connected, start, bound, tunnels>> /\ stop[k].step = "emit"
      BY <2>10 DEF EmitRemoved
    <3>2. \A j \in Threads : j # k => stop'[j] = stop[j]
      BY <2>10 DEF EmitRemoved
    <3> QED
      BY <3>1, <3>2 DEF PortOwed, Owed
  <2>11. ASSUME NEW t \in Starts, ConnectionFails(t) \/ EmitError(t) PROVE PortOwed'
    <3>1. UNCHANGED <<serverListens, connected, start, tunnels, bound, stop>>
      BY <2>11 DEF ConnectionFails, EmitError
    <3> QED
      BY <3>1 DEF PortOwed, Owed
  <2>12. CASE AcceptFails \/ ListenerEnds
    BY <2>12 DEF AcceptFails, ListenerEnds, PortOwed
  <2>13. CASE SessionEnds
    BY <2>13 DEF SessionEnds, PortOwed
  <2>14. CASE UNCHANGED tunnelsVars
    BY <2>14 DEF tunnelsVars, PortOwed, Owed
  <2>15. ASSUME NEW t \in Starts, Monitor(t) PROVE PortOwed'
    BY <2>6, <2>15 DEF Monitor, Threads
  <2>16. Stoppers \subseteq Threads /\ Starts \subseteq Threads
    BY DEF Threads
  <2> QED
    BY <2>1, <2>2, <2>3, <2>4, <2>5, <2>6, <2>7, <2>8, <2>9, <2>10, <2>11, <2>12, <2>13,
       <2>14, <2>15, <2>16 DEF TunnelsNext, Start, StopStep
<1>3. TunnelsTypeOK /\ PortOwed => NoLeakedListener
  BY DEF PortOwed, Owed, NoLeakedListener, Quiet, TunnelsTypeOK, StopAt
<1> QED
  BY <1>1, <1>2, <1>3, TunnelsTypeCorrect, ShownInvariant, PTL DEF TunnelsSpec

-----------------------------------------------------------------------------
(* Two stops of one tunnel at once are not told apart by the server: the     *)
(* slower one takes the port of whoever came next.  This says that no tunnel *)
(* of a server is being stopped twice.                                       *)
Underway(k) == stop[k].step \notin {"idle", "done"}
OneStopEach ==
  connected /\ serverListens =>
    \A j, k \in Threads : Underway(j) /\ Underway(k) /\ stop[j].tunnel = stop[k].tunnel => j = k

\* A remote tunnel has the port from its start to its stop, and the route of
\* its channels from before it is listed; a local one has its listener from its
\* start until it is stopped or fails.
RemoteHeld ==
  /\ \A t \in Starts : start[t].step \in {"route", "insert"} => bound = t
  /\ \A t \in Starts : start[t].step = "insert" => route = t
  /\ \A t \in tunnels : bound = t /\ route = t
  /\ \A k \in Threads :
       /\ stop[k].step = "remove" => stop[k].tunnel \in tunnels
       /\ stop[k].step = "route" => bound = stop[k].tunnel /\ route = stop[k].tunnel
       /\ stop[k].step = "cancel" => bound = stop[k].tunnel
LocalHeld ==
  /\ \A t \in Starts : start[t].step = "insert" => bound = t
  /\ \A t \in tunnels \ failed : bound = t
  /\ \A t \in Starts : start[t].step # "route"
  /\ \A k \in Threads : stop[k].step \notin {"route", "cancel"}
PortHeld == (serverListens /\ connected => RemoteHeld) /\ (~serverListens => LocalHeld)

(* What the help says of the green state: a tunnel that is listed as running *)
(* and that nobody is stopping has its port and its channels.  Local tunnels *)
(* have it always, those of a server if none is stopped twice at once.       *)
THEOREM RunningIsConfirmed == TunnelsSpec /\ []OneStopEach => []RunningConfirmsListener
<1>1. TunnelsInit => PortHeld
  BY DEF TunnelsInit, PortHeld, RemoteHeld, LocalHeld
<1>2. TunnelsTypeOK /\ Shown /\ OneStopEach /\ PortHeld /\ [TunnelsNext]_tunnelsVars => PortHeld'
  <2> SUFFICES ASSUME TunnelsTypeOK, Shown, OneStopEach, PortHeld, [TunnelsNext]_tunnelsVars PROVE PortHeld'
    OBVIOUS
  <2> USE TunnelsAssumption DEF TunnelsTypeOK, StartTo, StartAt, StopTo, StopAt
  <2>1. ASSUME NEW s \in Starts, Check(s) PROVE PortHeld'
    <3>1. UNCHANGED <<serverListens, connected, tunnels, failed, bound, route, stop>>
      BY <2>1 DEF Check
    <3>2. \A t \in Starts : start'[t] = start[t] \/ start'[t].step \in {"failed", "bind", "return"}
      BY <2>1 DEF Check
    <3> QED
      BY <3>1, <3>2 DEF PortHeld, RemoteHeld, LocalHeld
  <2>2. ASSUME NEW s \in Starts, Bind(s) PROVE PortHeld'
    <3>1. CASE bound = NoTunnel /\ (serverListens => connected)
      <4>1. bound' = s /\ UNCHANGED <<serverListens, connected, tunnels, failed, route, stop>>
        BY <2>2, <3>1 DEF Bind
      <4>2. start'[s].step = (IF serverListens THEN "route" ELSE "insert")
            /\ \A t \in Starts : t # s => start'[t] = start[t]
        BY <2>2, <3>1 DEF Bind
      <4>3. CASE serverListens
        <5>1. /\ \A t \in Starts : start[t].step \notin {"route", "insert"}
              /\ tunnels = {} /\ \A k \in Threads : stop[k].step \notin {"remove", "route", "cancel"}
          BY <3>1, <4>3 DEF PortHeld, RemoteHeld, Shown
        <5> QED
          BY <4>1, <4>2, <4>3, <5>1 DEF PortHeld, RemoteHeld
      <4>4. CASE ~serverListens
        <5>1. /\ \A t \in Starts : start[t].step \notin {"route", "insert"}
              /\ tunnels \ failed = {} /\ \A k \in Threads : stop[k].step \notin {"route", "cancel"}
          BY <3>1, <4>4 DEF PortHeld, LocalHeld
        <5> QED
          BY <4>1, <4>2, <4>4, <5>1 DEF PortHeld, LocalHeld
      <4> QED
        BY <4>3, <4>4
    <3>2. CASE ~(bound = NoTunnel /\ (serverListens => connected))
      <4>1. UNCHANGED <<serverListens, connected, tunnels, failed, bound, route, stop>>
        BY <2>2, <3>2 DEF Bind
      <4>2. \A t \in Starts : start'[t] = start[t] \/ start'[t].step = "failed"
        BY <2>2, <3>2 DEF Bind
      <4> QED
        BY <4>1, <4>2 DEF PortHeld, RemoteHeld, LocalHeld
    <3> QED
      BY <3>1, <3>2
  <2>3. ASSUME NEW s \in Starts, Route(s) PROVE PortHeld'
    BY <2>3 DEF Route, PortHeld, RemoteHeld, LocalHeld, Shown
  <2>4. ASSUME NEW s \in Starts, Insert(s) PROVE PortHeld'
    BY <2>4 DEF Insert, PortHeld, RemoteHeld, LocalHeld
  <2>5. ASSUME NEW s \in Starts, EmitStarted(s) \/ Return(s) PROVE PortHeld'
    <3>1. UNCHANGED <<serverListens, connected, tunnels, failed, bound, route, stop>>
      BY <2>5 DEF EmitStarted, Return
    <3>2. \A t \in Starts : start'[t] = start[t] \/ start'[t].step \in {"return", "done"}
      BY <2>5 DEF EmitStarted, Return
    <3> QED
      BY <3>1, <3>2 DEF PortHeld, RemoteHeld, LocalHeld
  <2>6. ASSUME NEW k \in Threads, NEW t \in Starts, Stop(k, t) PROVE PortHeld'
    BY <2>6 DEF Stop, PortHeld, RemoteHeld, LocalHeld
  <2>7. ASSUME NEW k \in Threads, Remove(k) PROVE PortHeld'
    <3>1. CASE serverListens /\ connected
      <4>1. stop[k].step = "remove" /\ tunnels' = tunnels \ {stop[k].tunnel}
            /\ UNCHANGED <<serverListens, connected, start, bound, route>>
        BY <2>7 DEF Remove
      <4>2. stop'[k].tunnel = stop[k].tunnel /\ stop'[k].step = "route"
        BY <2>7, <3>1 DEF Remove
      <4>3. \A j \in Threads : j # k => stop'[j] = stop[j]
        BY <2>7 DEF Remove
      <4>4. \A j \in Threads : j # k /\ stop[j].step = "remove" => stop[j].tunnel # stop[k].tunnel
        BY <3>1, <4>1 DEF OneStopEach, Underway
      <4> QED
        BY <3>1, <4>1, <4>2, <4>3, <4>4 DEF PortHeld, RemoteHeld
    <3>2. CASE ~(serverListens /\ connected)
      BY <2>7, <3>2 DEF Remove, PortHeld, LocalHeld
    <3> QED
      BY <3>1, <3>2
  <2>8. ASSUME NEW k \in Threads, RemoveRoute(k) PROVE PortHeld'
    <3>1. CASE serverListens /\ connected
      <4>1. stop[k].step = "route" /\ UNCHANGED <<serverListens, connected, start, bound, tunnels>>
        BY <2>8 DEF RemoveRoute
      <4>2. stop'[k].tunnel = stop[k].tunnel /\ stop'[k].step = "cancel"
        BY <2>8 DEF RemoveRoute
      <4>3. \A j \in Threads : j # k => stop'[j] = stop[j]
        BY <2>8 DEF RemoveRoute
      <4>4. bound = stop[k].tunnel /\ bound \notin tunnels /\ bound \in Starts
            /\ start[bound].step \notin {"route", "insert"}
        BY <3>1, <4>1 DEF PortHeld, RemoteHeld, Shown
      <4>5. \A j \in Threads : j # k /\ Underway(j) => stop[j].tunnel # stop[k].tunnel
        BY <3>1, <4>1 DEF OneStopEach, Underway
      <4>6. tunnels = {} /\ \A t \in Starts : start[t].step \notin {"route", "insert"}
        BY <3>1, <4>4 DEF PortHeld, RemoteHeld
      <4>7. \A j \in Threads : j # k => stop[j].step \notin {"remove", "route"}
        BY <3>1, <4>1, <4>4, <4>5, <4>6 DEF PortHeld, RemoteHeld, Underway
      <4> QED
        BY <3>1, <4>1, <4>2, <4>3, <4>4, <4>6, <4>7 DEF PortHeld, RemoteHeld
    <3>2. CASE ~(serverListens /\ connected)
      BY <2>8, <3>2 DEF RemoveRoute, PortHeld, LocalHeld
    <3> QED
      BY <3>1, <3>2
  <2>9. ASSUME NEW k \in Threads, CancelForward(k) PROVE PortHeld'
    <3>1. CASE serverListens /\ connected
      <4>1. stop[k].step = "cancel" /\ UNCHANGED <<serverListens, connected, start, tunnels, route>>
        BY <2>9 DEF CancelForward
      <4>2. stop'[k].tunnel = stop[k].tunnel /\ stop'[k].step = "emit"
        BY <2>9 DEF CancelForward
      <4>3. \A j \in Threads : j # k => stop'[j] = stop[j]
        BY <2>9 DEF CancelForward
      <4>4. bound = stop[k].tunnel /\ bound \notin tunnels /\ bound \in Starts
            /\ start[bound].step \notin {"route", "insert"}
        BY <3>1, <4>1 DEF PortHeld, RemoteHeld, Shown
      <4>5. \A j \in Threads : j # k /\ Underway(j) => stop[j].tunnel # stop[k].tunnel
        BY <3>1, <4>1 DEF OneStopEach, Underway
      <4>6. tunnels = {} /\ \A t \in Starts : start[t].step \notin {"route", "insert"}
        BY <3>1, <4>4 DEF PortHeld, RemoteHeld
      <4>7. \A j \in Threads : j # k => stop[j].step \notin {"remove", "route", "cancel"}
        BY <3>1, <4>1, <4>4, <4>5, <4>6 DEF PortHeld, RemoteHeld, Underway
      <4> QED
        BY <3>1, <4>1, <4>2, <4>3, <4>6, <4>7 DEF PortHeld, RemoteHeld
    <3>2. CASE serverListens /\ ~connected
      BY <2>9, <3>2 DEF CancelForward, PortHeld
    <3>3. CASE ~serverListens
      <4>1. stop[k].step # "cancel"
        BY <3>3 DEF PortHeld, LocalHeld
      <4> QED
        BY <2>9, <4>1 DEF CancelForward
    <3> QED
      BY <3>1, <3>2, <3>3
  <2>10. ASSUME NEW k \in Threads, EmitRemoved(k) PROVE PortHeld'
    BY <2>10 DEF EmitRemoved, PortHeld, RemoteHeld, LocalHeld
  <2>11. ASSUME NEW t \in Starts, ConnectionFails(t) PROVE PortHeld'
    BY <2>11 DEF ConnectionFails, RuntimeError, PortHeld, RemoteHeld, LocalHeld
  <2>12. CASE AcceptFails
    BY <2>12 DEF AcceptFails, RuntimeError, Serving, PortHeld, LocalHeld
  <2>13. CASE ListenerEnds
    BY <2>13 DEF ListenerEnds, Serving, PortHeld, LocalHeld
  <2>14. ASSUME NEW t \in Starts, EmitError(t) PROVE PortHeld'
    BY <2>14 DEF EmitError, PortHeld, RemoteHeld, LocalHeld
  <2>15. CASE SessionEnds
    BY <2>15 DEF SessionEnds, PortHeld, LocalHeld
  <2>16. CASE UNCHANGED tunnelsVars
    BY <2>16 DEF tunnelsVars, PortHeld, RemoteHeld, LocalHeld
  <2>17. ASSUME NEW t \in Starts, Monitor(t) PROVE PortHeld'
    BY <2>6, <2>17 DEF Monitor, Threads
  <2>18. Stoppers \subseteq Threads /\ Starts \subseteq Threads
    BY DEF Threads
  <2> QED
    BY <2>1, <2>2, <2>3, <2>4, <2>5, <2>6, <2>7, <2>8, <2>9, <2>10, <2>11, <2>12, <2>13,
       <2>14, <2>15, <2>16, <2>17, <2>18 DEF TunnelsNext, Start, StopStep
<1>3. TunnelsTypeOK /\ PortHeld => RunningConfirmsListener
  BY DEF PortHeld, RemoteHeld, LocalHeld, RunningConfirmsListener, TunnelsTypeOK
<1> QED
  BY <1>1, <1>2, <1>3, TunnelsTypeCorrect, ShownInvariant, PTL DEF TunnelsSpec
=============================================================================
