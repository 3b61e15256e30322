----------------------------- MODULE TerminalOutput -----------------------------
(***************************************************************************)
(* The output ring of a terminal Runtime (terminal_output.rs).  Output is   *)
(* a stream of bytes whose characters are one to four bytes long; cursors   *)
(* count its bytes.  A chunk stands for the bytes from its start up to its  *)
(* end, so that data is an interval of the stream and never spelled out.    *)
(*                                                                         *)
(* Both backends push what one read of the pipe or one batch of the SSH     *)
(* channel returned, far less than the ring holds: the trimming of a chunk  *)
(* longer than the ring never runs and is not modelled.                     *)
(***************************************************************************)
EXTENDS Integers, Sequences

CONSTANTS
  Readers,    \* clients that read on from where their last read ended
  Capacity,   \* OUTPUT_CAPACITY_BYTES
  MinRead,    \* MIN_OUTPUT_READ_BYTES
  CharLen,    \* bytes of the longest UTF-8 character
  MaxPush,    \* bytes of the longest chunk a backend pushes
  ReadSizes,  \* values of max_bytes the clients ask for
  MaxOut      \* bound: bytes a Runtime ever produces

ASSUME OutputAssumption ==
  /\ {Capacity, MinRead, CharLen, MaxPush} \subseteq Nat \ {0}
  /\ CharLen <= MinRead
  /\ MaxPush <= Capacity
  /\ ReadSizes \subseteq Nat
  /\ MaxOut \in Nat

VARIABLES
  chunks,       \* retained chunks, oldest first
  next_cursor,  \* end of the stream
  bounds,       \* the cursors at which a character begins or the stream ends
  reader        \* result of the last read of each reader

vars == <<chunks, next_cursor, bounds, reader>>

Greatest(a, b) == IF a >= b THEN a ELSE b
Least(a, b)    == IF a <= b THEN a ELSE b

Chunk == [start : Nat, end : Nat]
Result == [requested : Nat, earliest : Nat, next : Nat, len : Nat, truncated : BOOLEAN]

NoResult == [requested |-> 0, earliest |-> 0, next |-> 0, len |-> 0, truncated |-> FALSE]

Init ==
  /\ chunks = <<>> /\ next_cursor = 0 /\ bounds = {0}
  /\ reader = [r \in Readers |-> NoResult]

Earliest == IF chunks = <<>> THEN next_cursor ELSE chunks[1].start
-----------------------------------------------------------------------------
\* The bytes between two cursors can be cut into characters at the cursors B.
Characters(B, from, to) ==
  /\ to \in B
  /\ \A p \in from .. to - 1 : \E b \in B : p < b /\ b <= p + CharLen

(* The ring pops whole chunks from the front while it holds too much; the   *)
(* chunks adjoin, so the size of a suffix is the distance it spans.         *)
Evict(all) ==
  LET Fits(k) == all[Len(all)].end - all[k].start <= Capacity IN
  \E k \in 1 .. Len(all) :
    /\ Fits(k)
    /\ \A j \in 1 .. k - 1 : ~Fits(j)
    /\ chunks' = SubSeq(all, k, Len(all))

Push ==
  /\ \E end \in next_cursor + 1 .. Least(next_cursor + MaxPush, MaxOut) :
       \E B \in SUBSET (next_cursor + 1 .. end) :
         /\ Characters(B, next_cursor, end)
         /\ next_cursor' = end
         /\ bounds' = bounds \cup B
         /\ Evict(Append(chunks, [start |-> next_cursor, end |-> end]))
  /\ UNCHANGED reader
-----------------------------------------------------------------------------
(* read: the loop over the chunks.  Its state is what it has taken, where   *)
(* it stands, and whether it has been left.                                 *)
Round(B, n, up) == CHOOSE b \in B : IF up THEN b >= n /\ \A x \in B : x >= n => b <= x
                                          ELSE b <= n /\ \A x \in B : x <= n => x <= b

\* Fault: what earlier chunks gave is not counted against the size.
TakeUncounted(acc, chunk, max) ==
  IF acc.done \/ chunk.end <= acc.next \/ chunk.start > acc.next THEN acc ELSE
  LET from == Round(bounds, acc.next, TRUE)
      to   == Round(bounds, Least(from + max, chunk.end), FALSE)
  IN
  IF acc.len >= max \/ to = from
    THEN [acc EXCEPT !.next = from, !.done = TRUE]
    ELSE [len |-> acc.len + to - from, next |-> to, done |-> acc.len + to - from = max]

Take(acc, chunk, max) ==
  IF acc.done \/ chunk.end <= acc.next \/ chunk.start > acc.next THEN acc ELSE
  LET from == Round(bounds, acc.next, TRUE)
      to   == Round(bounds, Least(from + max - acc.len, chunk.end), FALSE)
  IN
  IF acc.len >= max \/ to = from
    THEN [acc EXCEPT !.next = from, !.done = TRUE]
    ELSE [len |-> acc.len + to - from, next |-> to, done |-> acc.len + to - from = max]

\* The state of the loop after k chunks.
Passes(from, limit) ==
  LET acc[k \in 0 .. Len(chunks)] ==
        IF k = 0 THEN [len |-> 0, next |-> from, done |-> FALSE]
                 ELSE Take(acc[k - 1], chunks[k], limit)
  IN acc

Read(requested, max) ==
  LET from == Least(Greatest(requested, Earliest), next_cursor)
      end  == Passes(from, Greatest(max, MinRead))[Len(chunks)]
  IN [requested |-> requested, earliest |-> Earliest, next |-> end.next, len |-> end.len,
      truncated |-> requested < Earliest]

ReadFrom(r, requested, max) ==
  /\ reader' = [reader EXCEPT ![r] = Read(requested, max)]
  /\ UNCHANGED <<chunks, next_cursor, bounds>>

ReadOn(r) == \E max \in ReadSizes : ReadFrom(r, reader[r].next, max)

Next == Push \/ \E r \in Readers : ReadOn(r)

Spec == Init /\ [][Next]_vars
-----------------------------------------------------------------------------
(* What the loop of read relies on: the chunks adjoin, they end where the   *)
(* stream does, none is empty, each begins and ends between characters, and *)
(* every character of the stream is at most CharLen long.                   *)
Adjoining ==
  /\ \A k \in 1 .. Len(chunks) :
       /\ chunks[k].start < chunks[k].end
       /\ chunks[k].start \in bounds /\ chunks[k].end \in bounds
       /\ chunks[k].end = IF k = Len(chunks) THEN next_cursor ELSE chunks[k + 1].start
  /\ Characters(bounds, 0, next_cursor)

(* The ring stays within its capacity and never forgets the newest chunk.   *)
Bounded ==
  /\ next_cursor - Earliest <= Capacity
  /\ next_cursor > 0 => Earliest < next_cursor

(* What a read promises, without the loop: the longest run of whole         *)
(* characters of the stream that starts at the first character at or after  *)
(* the requested cursor (or after what the ring has lost) and fits; a       *)
(* cursor inside the last character of a chunk yields no data but moves on. *)
Promised(requested, max, res) ==
  LET from  == Least(Greatest(requested, Earliest), next_cursor)
      limit == Greatest(max, MinRead)
      first == res.next - res.len
  IN
  /\ res.earliest = Earliest
  /\ res.truncated <=> requested < Earliest
  /\ first \in bounds /\ res.next \in bounds /\ res.len <= limit
  /\ from <= first /\ \A b \in bounds : b >= from => b >= first
  /\ \A b \in bounds : res.next < b /\ b <= first + limit =>
                         res.len = 0 /\ from < first

(* The loop of read keeps that promise for every cursor a client may send   *)
(* and every size, whatever chunk borders and characters lie in between.    *)
ReadKeepsPromise ==
  \A requested \in 0 .. MaxOut + 1, max \in ReadSizes :
    Promised(requested, max, Read(requested, max))

=============================================================================
