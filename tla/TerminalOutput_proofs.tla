------------------------- MODULE TerminalOutput_proofs -------------------------
(***************************************************************************)
(* What holds of the output ring, and of a pane that follows it, for every  *)
(* capacity, chunk size, character length, mark and number of Runtimes: the *)
(* shape of the ring, by induction over the steps, that the loop of read    *)
(* keeps its promise, by induction over the chunks, the progress of every   *)
(* client that reads on, and that a pane shows all of its Runtime's output  *)
(* once and in order.                                                       *)
(***************************************************************************)
EXTENDS PaneOutput, SequenceTheorems, WellFoundedInduction, TLAPS

Ring ==
  /\ chunks \in Seq(Chunk)
  /\ next_cursor \in Nat
  /\ bounds \in SUBSET (0 .. next_cursor)
  /\ Adjoining
  /\ Bounded

\* What a chunk appended by Push turns the ring into, before eviction.
Longer(all, end) ==
  /\ all \in Seq(Chunk) /\ Len(all) > 0
  /\ \A k \in 1 .. Len(all) :
       /\ all[k].start < all[k].end
       /\ all[k].end = IF k = Len(all) THEN end ELSE all[k + 1].start

(* Appending a non-empty chunk that starts at the end of the stream keeps   *)
(* the chunks adjoining (push_back in push).                                *)
LEMMA AppendAdjoins ==
  ASSUME Ring, NEW end \in Nat, next_cursor < end
  PROVE  Longer(Append(chunks, [start |-> next_cursor, end |-> end]), end)
<1> DEFINE new == [start |-> next_cursor, end |-> end]
           all == Append(chunks, new)
<1>1. new \in Chunk  BY DEF Ring, Chunk
<1>2. chunks \in Seq(Chunk)  BY DEF Ring
<1>3. all \in Seq(Chunk) /\ Len(all) = Len(chunks) + 1 /\ Len(chunks) \in Nat
  BY <1>1, <1>2
<1>4. \A k \in 1 .. Len(chunks) : all[k] = chunks[k]
  BY <1>1, <1>2, <1>3
<1>5. all[Len(chunks) + 1] = new
  BY <1>1, <1>2, <1>3
<1>6. ASSUME NEW k \in 1 .. Len(all)
      PROVE  /\ all[k].start < all[k].end
             /\ all[k].end = IF k = Len(all) THEN end ELSE all[k + 1].start
  <2>1. CASE k = Len(chunks) + 1
    BY <2>1, <1>3, <1>5, SMT DEF Ring
  <2>2. CASE k \in 1 .. Len(chunks)
    <3>1. /\ chunks[k].start < chunks[k].end
          /\ chunks[k].end = IF k = Len(chunks) THEN next_cursor ELSE chunks[k + 1].start
      BY <2>2 DEF Ring, Adjoining
    <3>2. CASE k = Len(chunks)
      BY <3>1, <3>2, <1>3, <1>4, <1>5, <2>2
    <3>3. CASE k # Len(chunks)
      <4>1. k + 1 \in 1 .. Len(chunks)  BY <3>3, <2>2, <1>3
      <4>2. all[k + 1] = chunks[k + 1] /\ all[k] = chunks[k]  BY <4>1, <2>2, <1>4
      <4> QED  BY <4>1, <4>2, <3>1, <3>3, <1>3, <2>2
    <3> QED  BY <3>2, <3>3
  <2> QED  BY <2>1, <2>2, <1>3
<1>7. Len(all) > 0  BY <1>3
<1> HIDE DEF all
<1>8. Longer(all, end)  BY <1>3, <1>6, <1>7 DEF Longer
<1> QED  BY <1>8 DEF all

(* Evicting whole chunks from the front keeps what is left adjoining, within *)
(* the capacity and ending at the end of the stream.                        *)
LEMMA EvictKeepsTail ==
  ASSUME NEW end \in Nat, NEW all, Longer(all, end), Evict(all)
  PROVE  /\ Longer(chunks', end)
         /\ end - chunks'[1].start <= Capacity
         /\ \A k \in 1 .. Len(chunks') : \E j \in 1 .. Len(all) : chunks'[k] = all[j]
<1>1. PICK k \in 1 .. Len(all) : /\ all[Len(all)].end - all[k].start <= Capacity
                                 /\ chunks' = SubSeq(all, k, Len(all))
  BY DEF Evict
<1>2. all \in Seq(Chunk) /\ Len(all) \in Nat
  BY DEF Longer
<1>3. /\ chunks' \in Seq(Chunk)
      /\ Len(chunks') = Len(all) - k + 1
      /\ \A i \in 1 .. Len(chunks') : chunks'[i] = all[k + i - 1]
  BY <1>1, <1>2
<1>4. all[Len(all)].end = end
  BY <1>1, <1>2 DEF Longer
<1>5. chunks'[1] = all[k]
  BY <1>1, <1>2, <1>3
<1>6. ASSUME NEW i \in 1 .. Len(chunks')
      PROVE  /\ chunks'[i].start < chunks'[i].end
             /\ chunks'[i].end = IF i = Len(chunks') THEN end ELSE chunks'[i + 1].start
             /\ \E j \in 1 .. Len(all) : chunks'[i] = all[j]
  <2> DEFINE j == k + i - 1
  <2>1. j \in 1 .. Len(all) /\ chunks'[i] = all[j]  BY <1>1, <1>2, <1>3
  <2>2. /\ all[j].start < all[j].end
        /\ all[j].end = IF j = Len(all) THEN end ELSE all[j + 1].start
    BY <2>1 DEF Longer
  <2>3. CASE i = Len(chunks')
    BY <2>1, <2>2, <2>3, <1>1, <1>2, <1>3
  <2>4. CASE i # Len(chunks')
    <3>1. i + 1 \in 1 .. Len(chunks')  BY <2>4, <1>1, <1>2, <1>3
    <3>2. chunks'[i + 1] = all[j + 1] /\ j # Len(all)
      BY <3>1, <2>4, <1>1, <1>2, <1>3
    <3> QED  BY <3>2, <2>1, <2>2, <2>4
  <2> QED  BY <2>3, <2>4
<1>7. Len(chunks') > 0  BY <1>1, <1>2, <1>3
<1> QED  BY <1>1, <1>3, <1>4, <1>5, <1>6, <1>7 DEF Longer

(* The shape of the ring is an invariant of push and of every read.         *)
LEMMA RingInit == Init => Ring
  BY OutputAssumption DEF Init, Ring, Adjoining, Bounded, Characters, Earliest

\* Every step keeps the ring well formed.
LEMMA RingNext == Ring /\ [Next]_vars => Ring'
<1> SUFFICES ASSUME Ring, [Next]_vars PROVE Ring'
  OBVIOUS
<1>1. CASE Push
  <2>1. PICK end \in next_cursor + 1 .. Least(next_cursor + MaxPush, MaxOut) :
          \E B \in SUBSET (next_cursor + 1 .. end) :
            /\ Characters(B, next_cursor, end)
            /\ next_cursor' = end
            /\ bounds' = bounds \cup B
            /\ Evict(Append(chunks, [start |-> next_cursor, end |-> end]))
    BY <1>1 DEF Push
  <2>2. PICK B \in SUBSET (next_cursor + 1 .. end) :
            /\ Characters(B, next_cursor, end)
            /\ next_cursor' = end
            /\ bounds' = bounds \cup B
            /\ Evict(Append(chunks, [start |-> next_cursor, end |-> end]))
    BY <2>1
  <2>3. next_cursor \in Nat /\ end \in Nat /\ next_cursor < end /\ MaxOut \in Nat /\ MaxPush \in Nat
    <3>1. next_cursor \in Nat /\ MaxOut \in Nat /\ MaxPush \in Nat
      BY OutputAssumption DEF Ring
    <3>2. Least(next_cursor + MaxPush, MaxOut) \in Nat  BY <3>1 DEF Least
    <3> QED  BY <3>1, <3>2, <2>1
  <2> DEFINE all == Append(chunks, [start |-> next_cursor, end |-> end])
  <2>4. Longer(all, end)  BY <2>3, AppendAdjoins
  <2>5. /\ Longer(chunks', end)
        /\ end - chunks'[1].start <= Capacity
        /\ \A k \in 1 .. Len(chunks') : \E j \in 1 .. Len(all) : chunks'[k] = all[j]
    <3> HIDE DEF all
    <3>1. Evict(all)  BY <2>2 DEF all
    <3> QED  BY <3>1, <2>3, <2>4, EvictKeepsTail
  <2>6. next_cursor \in bounds /\ \A k \in 1 .. Len(chunks) : chunks[k].start \in bounds /\ chunks[k].end \in bounds
    BY DEF Ring, Adjoining, Characters
  <2>7. \A j \in 1 .. Len(all) : all[j].start \in bounds' /\ all[j].end \in bounds'
    <3>1. end \in bounds'  BY <2>2 DEF Characters
    <3>2. chunks \in Seq(Chunk)  BY DEF Ring
    <3>3. Len(all) = Len(chunks) + 1 /\ Len(chunks) \in Nat
      BY <3>2
    <3>4. ASSUME NEW j \in 1 .. Len(chunks) PROVE all[j] = chunks[j]
      BY <3>2
    <3>5. all[Len(chunks) + 1] = [start |-> next_cursor, end |-> end]
      BY <3>2
    <3> QED  BY <3>1, <3>3, <3>4, <3>5, <2>2, <2>6
  <2>8. \A k \in 1 .. Len(chunks') : chunks'[k].start \in bounds' /\ chunks'[k].end \in bounds'
    <3> HIDE DEF all
    <3> QED  BY <2>5, <2>7
  <2>9. bounds' \in SUBSET (0 .. next_cursor')
    BY <2>2, <2>3 DEF Ring
  <2>10. Characters(bounds', 0, next_cursor')
    <3>1. next_cursor' \in bounds'  BY <2>2 DEF Characters
    <3>2. ASSUME NEW p \in 0 .. next_cursor' - 1
          PROVE  \E b \in bounds' : p < b /\ b <= p + CharLen
      <4>1. CASE p < next_cursor
        <5>1. \E b \in bounds : p < b /\ b <= p + CharLen
          BY <4>1, <2>3 DEF Ring, Adjoining, Characters
        <5> QED  BY <5>1, <2>2
      <4>2. CASE p >= next_cursor
        <5>1. \E b \in B : p < b /\ b <= p + CharLen
          BY <4>2, <2>2, <2>3 DEF Characters
        <5> QED  BY <5>1, <2>2
      <4> QED  BY <4>1, <4>2, <2>3
    <3> QED  BY <3>1, <3>2 DEF Characters
  <2>11. Adjoining'
    BY <2>2, <2>5, <2>8, <2>10 DEF Adjoining, Longer
  <2>12. chunks' # <<>> /\ 1 \in 1 .. Len(chunks') /\ chunks' \in Seq(Chunk)
    BY <2>5 DEF Longer
  <2>13. Earliest' = chunks'[1].start /\ chunks'[1].start \in Nat
    <3>1. chunks'[1] \in Chunk  BY <2>12, ElementOfSeq
    <3> QED  BY <3>1, <2>12 DEF Earliest, Chunk
  <2>14. chunks'[1].start < next_cursor'
    <3>1. chunks'[1].end \in 0 .. next_cursor'
      BY <2>8, <2>9, <2>12
    <3>2. chunks'[1].start < chunks'[1].end
      BY <2>5, <2>12 DEF Longer
    <3> QED  BY <3>1, <3>2, <2>2, <2>3, <2>13
  <2>15. Bounded'
    BY <2>2, <2>5, <2>13, <2>14 DEF Bounded
  <2> QED  BY <2>2, <2>3, <2>9, <2>11, <2>12, <2>15 DEF Ring
<1>2. ASSUME NEW r \in Readers, ReadOn(r) PROVE Ring'
  BY <1>2 DEF ReadOn, ReadFrom, Ring, Adjoining, Bounded, Earliest
<1>3. CASE UNCHANGED vars
  BY <1>3 DEF vars, Ring, Adjoining, Bounded, Earliest
<1> QED  BY <1>1, <1>2, <1>3 DEF Next

(* The ring always holds an unbroken tail of the stream that begins and     *)
(* ends between characters: what the loop of read relies on.                *)
THEOREM RingAdjoins == Spec => []Adjoining
<1>1. Ring => Adjoining  BY DEF Ring
<1> QED  BY RingInit, RingNext, <1>1, PTL DEF Spec

(* The ring never exceeds its capacity and always keeps the newest chunk.   *)
THEOREM RingBounded == Spec => []Bounded
<1>1. Ring => Bounded  BY DEF Ring
<1> QED  BY RingInit, RingNext, <1>1, PTL DEF Spec
-----------------------------------------------------------------------------
(* Induction over the natural numbers, of sets: a number that is not in a    *)
(* set is never the least one.                                               *)

\* A set of natural numbers has a least element.
LEMMA Minimum ==
  ASSUME NEW S, S \subseteq Nat, S # {}
  PROVE  \E m \in S : \A x \in S : m <= x
<1> DEFINE R == OpToRel(<, Nat)
<1>1. \A m, n \in Nat : m < n => <<m, n>> \in R
  BY DEF OpToRel
<1>2. IsWellFoundedOn(R, Nat)
  BY NatLessThanWellFounded
<1> HIDE DEF R
<1>3. PICK m \in S : \A x \in S : <<x, m>> \notin R
  BY <1>2, WFMin
<1>4. ASSUME NEW x \in S PROVE m <= x
  <2>1. x \in Nat /\ m \in Nat
    OBVIOUS
  <2>2. ~(x < m)
    BY <1>1, <1>3, <2>1
  <2> QED
    BY <2>1, <2>2
<1> QED
  BY <1>4

\* One that is bounded has a greatest.
LEMMA Maximum ==
  ASSUME NEW S, S \subseteq Nat, S # {}, NEW n \in Nat, \A x \in S : x <= n
  PROVE  \E m \in S : \A x \in S : x <= m
<1> DEFINE D == {n - x : x \in S}
<1>1. D \subseteq Nat /\ D # {}
  <2>1. ASSUME NEW x \in S PROVE n - x \in Nat
    <3>1. x \in Nat /\ x <= n
      OBVIOUS
    <3> QED
      BY <3>1
  <2> QED
    BY <2>1
<1>2. PICK d \in D : \A y \in D : d <= y
  <2> HIDE DEF D
  <2> QED
    BY <1>1, Minimum
<1>3. PICK m \in S : d = n - m
  BY <1>2
<1>4. \A x \in S : x <= m
  BY <1>2, <1>3
<1> QED
  BY <1>4

\* What holds of 0, and of n + 1 where it holds of n, holds of every number.
LEMMA Induction ==
  ASSUME NEW T, 0 \in T, \A n \in Nat : n \in T => n + 1 \in T
  PROVE  Nat \subseteq T
<1> DEFINE Bad == {n \in Nat : n \notin T}
<1>1. SUFFICES ASSUME Bad # {} PROVE FALSE
  OBVIOUS
<1>2. PICK m \in Bad : \A x \in Bad : m <= x
  <2>1. Bad \subseteq Nat
    OBVIOUS
  <2> HIDE DEF Bad
  <2> QED
    BY <1>1, <2>1, Minimum
<1>3. m \in Nat /\ m # 0 /\ m - 1 \in Nat /\ m - 1 < m
  BY <1>2
<1>4. m - 1 \in T
  BY <1>2, <1>3
<1> QED
  BY <1>2, <1>3, <1>4
-----------------------------------------------------------------------------
(* The loop of read.                                                         *)

\* The first character that begins at a cursor or after it.
LEMMA RoundUp ==
  ASSUME NEW B, B \subseteq Nat, NEW n \in Nat, NEW c \in B, n <= c
  PROVE  LET b == Round(B, n, TRUE) IN b \in B /\ n <= b /\ \A x \in B : x >= n => b <= x
<1> DEFINE S == {b \in B : b >= n}
<1>1. PICK m \in S : \A x \in S : m <= x
  <2>1. S \subseteq Nat /\ S # {}
    OBVIOUS
  <2> HIDE DEF S
  <2> QED
    BY <2>1, Minimum
<1>2. \E b \in B : b >= n /\ \A x \in B : x >= n => b <= x
  BY <1>1
<1>3. Round(B, n, TRUE) = CHOOSE b \in B : b >= n /\ \A x \in B : x >= n => b <= x
  BY DEF Round
<1> QED
  BY <1>2, <1>3

\* The last one that begins at it or before.
LEMMA RoundDown ==
  ASSUME NEW B, B \subseteq Nat, NEW n \in Nat, NEW c \in B, c <= n
  PROVE  LET b == Round(B, n, FALSE) IN b \in B /\ b <= n /\ \A x \in B : x <= n => x <= b
<1> DEFINE S == {b \in B : b <= n}
<1>1. PICK m \in S : \A x \in S : x <= m
  <2>1. S \subseteq Nat /\ S # {} /\ \A x \in S : x <= n
    OBVIOUS
  <2> HIDE DEF S
  <2> QED
    BY <2>1, Maximum
<1>2. \E b \in B : b <= n /\ \A x \in B : x <= n => x <= b
  BY <1>1
<1>3. Round(B, n, FALSE) = CHOOSE b \in B : b <= n /\ \A x \in B : x <= n => x <= b
  BY DEF Round
<1> QED
  BY <1>2, <1>3

\* The passes over the first n chunks, one after the other.
Start(from) == [len |-> 0, next |-> from, done |-> FALSE]
Pass(f, n, from, limit) ==
  f = [k \in 0 .. n |-> IF k = 0 THEN Start(from) ELSE Take(f[k - 1], chunks[k], limit)]

\* They exist, so that Passes is what its definition says.
LEMMA PassesPass ==
  ASSUME Ring, NEW from, NEW limit
  PROVE  Pass(Passes(from, limit), Len(chunks), from, limit)
<1> DEFINE T == {n \in Nat : \E f : Pass(f, n, from, limit)}
<1>1. 0 \in T
  <2>1. Pass([k \in 0 .. 0 |-> Start(from)], 0, from, limit)
    BY DEF Pass
  <2> QED
    BY <2>1
<1>2. ASSUME NEW n \in Nat, n \in T PROVE n + 1 \in T
  <2>1. PICK f : Pass(f, n, from, limit)
    BY <1>2
  <2> DEFINE g == [k \in 0 .. n + 1 |-> IF k = n + 1 THEN Take(f[n], chunks[n + 1], limit) ELSE f[k]]
  <2>2. \A k \in 0 .. n : g[k] = f[k]
    OBVIOUS
  <2>3. \A k \in 0 .. n : f[k] = IF k = 0 THEN Start(from) ELSE Take(f[k - 1], chunks[k], limit)
    BY <2>1 DEF Pass
  <2>4. ASSUME NEW k \in 0 .. n + 1
        PROVE  g[k] = IF k = 0 THEN Start(from) ELSE Take(g[k - 1], chunks[k], limit)
    <3>1. CASE k = n + 1
      <4>1. g[k] = Take(f[n], chunks[n + 1], limit) /\ k - 1 = n /\ n \in 0 .. n
        BY <3>1
      <4> HIDE DEF g
      <4> QED
        BY <3>1, <4>1, <2>2
    <3>2. CASE k # n + 1
      <4>1. k \in 0 .. n /\ (k # 0 => k - 1 \in 0 .. n)
        BY <3>2
      <4> HIDE DEF g
      <4> QED
        BY <4>1, <2>2, <2>3
    <3> QED
      BY <3>1, <3>2
  <2>5. Pass(g, n + 1, from, limit)
    <3>1. g = [k \in 0 .. n + 1 |-> g[k]]
      OBVIOUS
    <3> HIDE DEF g
    <3> QED
      BY <2>4, <3>1 DEF Pass
  <2> QED
    BY <2>5
<1>3. Len(chunks) \in T
  <2>1. Len(chunks) \in Nat
    BY DEF Ring
  <2> HIDE DEF T
  <2>2. Nat \subseteq T
    BY <1>1, <1>2, Induction
  <2> QED
    BY <2>1, <2>2
<1>4. PICK f : Pass(f, Len(chunks), from, limit)
  BY <1>3
<1>5. Passes(from, limit) = CHOOSE g : Pass(g, Len(chunks), from, limit)
  BY DEF Passes, Pass, Start
<1> QED
  BY <1>4, <1>5

\* Where the loop stands after k chunks: it has not come to its cursor; it has taken
\* all up to the end of a chunk; or it has taken what there is to take.
Before(acc, k, from) ==
  /\ acc.len = 0 /\ acc.next = from /\ acc.done = FALSE
  /\ \A i \in 1 .. k : chunks[i].end <= from
Through(acc, k, first, limit) ==
  /\ k > 0 /\ acc.done = FALSE /\ acc.next = chunks[k].end
  /\ acc.next = first + acc.len /\ acc.len < limit
Over(acc, k, from, first, limit) ==
  /\ acc.next = first + acc.len /\ acc.len <= limit /\ acc.next \in bounds
  /\ acc.done = TRUE \/ (acc.done = FALSE /\ k > 0 /\ acc.next < chunks[k].end)
  /\ \A b \in bounds : acc.next < b /\ b <= first + limit => acc.len = 0 /\ from < first
Reached(acc, k, from, limit) ==
  /\ acc \in [len : Nat, next : Nat, done : BOOLEAN]
  /\ \/ Before(acc, k, from)
     \/ Through(acc, k, Round(bounds, from, TRUE), limit)
     \/ Over(acc, k, from, Round(bounds, from, TRUE), limit)

\* The shape of the chunks.
LEMMA Chunks ==
  ASSUME Ring
  PROVE  /\ Len(chunks) \in Nat /\ next_cursor \in Nat /\ next_cursor \in bounds /\ bounds \subseteq 0 .. next_cursor
         /\ \A k \in 1 .. Len(chunks) :
              /\ chunks[k].start \in Nat /\ chunks[k].end \in Nat /\ chunks[k].start < chunks[k].end
              /\ chunks[k].start \in bounds /\ chunks[k].end \in bounds
              /\ chunks[k].end = IF k = Len(chunks) THEN next_cursor ELSE chunks[k + 1].start
         /\ Earliest \in 0 .. next_cursor
         /\ Earliest = IF Len(chunks) = 0 THEN next_cursor ELSE chunks[1].start
<1>1. Len(chunks) \in Nat /\ next_cursor \in Nat /\ bounds \subseteq 0 .. next_cursor /\ next_cursor \in bounds
  BY DEF Ring, Adjoining, Characters
<1>2. \A k \in 1 .. Len(chunks) :
        /\ chunks[k].start < chunks[k].end /\ chunks[k].start \in bounds /\ chunks[k].end \in bounds
        /\ chunks[k].end = IF k = Len(chunks) THEN next_cursor ELSE chunks[k + 1].start
  BY DEF Ring, Adjoining
<1>3. chunks = <<>> <=> Len(chunks) = 0
  BY DEF Ring
<1>4. Earliest = IF Len(chunks) = 0 THEN next_cursor ELSE chunks[1].start
  BY <1>3 DEF Earliest
<1>5. Earliest \in 0 .. next_cursor
  BY <1>1, <1>2, <1>4
<1>6. \A k \in 1 .. Len(chunks) : chunks[k].start \in Nat /\ chunks[k].end \in Nat
  <2>1. bounds \subseteq Nat
    BY <1>1
  <2> QED
    BY <1>2, <2>1
<1> QED
  BY <1>1, <1>2, <1>4, <1>5, <1>6

\* A chunk that holds the cursor is taken to its end, or as far as the read allows.
LEMMA Taking ==
  ASSUME Ring, NEW from \in Nat, NEW limit \in Nat, NEW k \in 0 .. Len(chunks) - 1,
         NEW acc \in [len : Nat, next : Nat, done : BOOLEAN], NEW first \in Nat,
         acc.done = FALSE, chunks[k + 1].start <= acc.next, acc.next < chunks[k + 1].end,
         acc.len < limit, Round(bounds, acc.next, TRUE) = first + acc.len,
         first + acc.len = chunks[k + 1].end => acc.len = 0 /\ from < first
  PROVE  LET res == Take(acc, chunks[k + 1], limit)
         IN  /\ res \in [len : Nat, next : Nat, done : BOOLEAN]
             /\ Through(res, k + 1, first, limit) \/ Over(res, k + 1, from, first, limit)
<1> DEFINE chunk == chunks[k + 1]
           res   == Take(acc, chunk, limit)
           p     == first + acc.len
           r     == Least(p + limit - acc.len, chunk.end)
           to    == Round(bounds, r, FALSE)
<1>1. /\ chunk.start \in Nat /\ chunk.end \in Nat /\ chunk.end \in bounds /\ bounds \subseteq Nat
      /\ acc.next \in Nat /\ acc.len \in Nat /\ k + 1 > 0 /\ k \in Nat
  <2>1. Len(chunks) \in Nat /\ bounds \subseteq Nat
    BY Chunks
  <2>2. k \in Nat /\ k + 1 > 0 /\ k + 1 \in 1 .. Len(chunks)
    BY <2>1
  <2>3. chunk.start \in Nat /\ chunk.end \in Nat /\ chunk.end \in bounds
    BY <2>2, Chunks
  <2>4. acc.next \in Nat /\ acc.len \in Nat
    OBVIOUS
  <2> QED
    BY <2>1, <2>2, <2>3, <2>4
<1>2. p \in bounds /\ acc.next <= p /\ p <= chunk.end
  <2>1. PICK c \in bounds : c = chunk.end
    BY <1>1
  <2>2. acc.next <= c
    BY <1>1, <2>1
  <2> HIDE DEF chunk
  <2>3. PICK v \in Nat : v = acc.next
    BY <1>1
  <2>4. PICK b : b = Round(bounds, v, TRUE)
    OBVIOUS
  <2>5. b \in bounds /\ v <= b /\ \A x \in bounds : x >= v => b <= x
    BY <1>1, <2>2, <2>3, <2>4, RoundUp, Zenon
  <2>6. p = b
    BY <2>3, <2>4
  <2> QED
    BY <1>1, <2>1, <2>2, <2>3, <2>5, <2>6
<1>3. r \in Nat /\ p <= r /\ r <= chunk.end /\ r <= first + limit /\ (r = chunk.end \/ r = first + limit)
  BY <1>1, <1>2 DEF Least
<1> HIDE DEF r
<1>4. to \in bounds /\ to <= r /\ p <= to /\ \A x \in bounds : x <= r => x <= to
  BY <1>1, <1>2, <1>3, RoundDown
<1>40. to \in Nat /\ p \in Nat
  BY <1>1, <1>2, <1>4
<1>5. res = IF to = p THEN [acc EXCEPT !.next = p, !.done = TRUE]
            ELSE [len |-> acc.len + to - p, next |-> to, done |-> acc.len + to - p = limit]
  <2>1. ~(acc.done \/ chunk.end <= acc.next \/ chunk.start > acc.next) /\ ~(acc.len >= limit)
    BY <1>1
  <2> QED
    BY <2>1 DEF Take, r
<1> HIDE DEF res, to, chunk, p
<1>6. CASE to = p
  <2>1. res = [len |-> acc.len, next |-> p, done |-> TRUE]
    BY <1>5, <1>6
  <2>2. \A b \in bounds : p < b /\ b <= first + limit => acc.len = 0 /\ from < first
    <3>1. CASE p = chunk.end
      BY <3>1 DEF p, chunk
    <3>2. CASE p # chunk.end
      <4>1. r = first + limit
        BY <1>1, <1>2, <1>3, <1>4, <1>6, <3>2
      <4> QED
        BY <1>1, <1>2, <1>4, <1>6, <4>1
    <3> QED
      BY <3>1, <3>2
  <2>3. res \in [len : Nat, next : Nat, done : BOOLEAN] /\ Over(res, k + 1, from, first, limit)
    BY <1>1, <1>2, <2>1, <2>2 DEF Over, p
  <2> QED
    BY <2>3 DEF res, chunk
<1>7. CASE to # p
  <2>1. PICK l \in Nat, q \in Nat, e \in Nat, t \in Nat, s \in Nat :
          l = acc.len /\ q = p /\ e = chunk.end /\ t = to /\ s = r
    BY <1>1, <1>3, <1>40
  <2>2. q = first + l
    BY <2>1 DEF p
  <2>3. q < t /\ t <= s /\ s <= e /\ s <= first + limit /\ (s = e \/ s = first + limit)
    <3>1. q # t /\ q <= t
      BY <1>4, <1>7, <2>1
    <3>2. t <= s
      BY <1>4, <2>1
    <3>3. s <= e /\ s <= first + limit /\ (s = e \/ s = first + limit)
      BY <1>3, <2>1
    <3> QED
      BY <3>1, <3>2, <3>3
  <2>4. PICK n \in Nat : n = l + t - q /\ t = first + n /\ n <= limit
    BY <2>2, <2>3
  <2>5. res = [len |-> n, next |-> t, done |-> n = limit]
    BY <1>5, <1>7, <2>1, <2>4
  <2>6. res.len = n /\ res.next = t /\ res.done = (n = limit) /\ res \in [len : Nat, next : Nat, done : BOOLEAN]
    BY <2>5
  <2>7. t \in bounds /\ k + 1 > 0
    BY <1>1, <1>4, <2>1
  <2>8. CASE t = e /\ n # limit
    <3>1. n < limit /\ res.done = FALSE
      BY <2>4, <2>6, <2>8
    <3>2. res.next = chunks[k + 1].end
      BY <2>1, <2>6, <2>8 DEF chunk
    <3>3. Through(res, k + 1, first, limit)
      BY <2>4, <2>6, <2>7, <3>1, <3>2 DEF Through
    <3> QED
      BY <2>6, <3>3 DEF res, chunk
  <2>9. CASE n = limit
    <3>1. \A b \in bounds : ~(t < b /\ b <= first + limit)
      BY <1>1, <2>4, <2>9
    <3>2. Over(res, k + 1, from, first, limit)
      BY <2>4, <2>6, <2>7, <2>9, <3>1 DEF Over
    <3> QED
      BY <2>6, <3>2 DEF res, chunk
  <2>10. CASE t # e /\ n # limit
    <3>1. \A x \in bounds : x <= s => x <= t
      BY <1>4, <2>1
    <3>2. t < e /\ e \in bounds
      BY <1>1, <2>1, <2>3, <2>10
    <3>3. s = first + limit
      BY <2>3, <3>1, <3>2
    <3>4. \A b \in bounds : ~(t < b /\ b <= first + limit)
      BY <1>1, <3>1, <3>3
    <3>5. res.done = FALSE /\ res.next < chunks[k + 1].end
      BY <2>1, <2>6, <2>10, <3>2 DEF chunk
    <3>6. Over(res, k + 1, from, first, limit)
      BY <2>4, <2>6, <2>7, <3>4, <3>5 DEF Over
    <3> QED
      BY <2>6, <3>6 DEF res, chunk
  <2> QED
    BY <2>8, <2>9, <2>10
<1> QED
  BY <1>6, <1>7

\* One pass of the loop.
LEMMA ReachedStep ==
  ASSUME Ring, NEW from \in Earliest .. next_cursor, NEW limit \in Nat \ {0}, NEW k \in 0 .. Len(chunks) - 1,
         NEW acc, Reached(acc, k, from, limit)
  PROVE  Reached(Take(acc, chunks[k + 1], limit), k + 1, from, limit)
<1> DEFINE chunk == chunks[k + 1]
           first == Round(bounds, from, TRUE)
<1>1. /\ chunk.start \in Nat /\ chunk.end \in Nat /\ chunk.start < chunk.end /\ chunk.start \in bounds
      /\ k \in Nat /\ k + 1 > 0 /\ bounds \subseteq Nat /\ next_cursor \in bounds /\ next_cursor \in Nat
      /\ Earliest \in Nat
  BY Chunks
<1>2. k > 0 => chunks[k].end = chunk.start
  BY Chunks
<1>3. k = 0 => chunk.start = Earliest
  BY Chunks
<1>4. from \in Nat /\ from <= next_cursor /\ Earliest <= from
  BY <1>1
<1>5. first \in bounds /\ first \in Nat /\ first >= from
  BY <1>1, <1>4, RoundUp
<1> HIDE DEF first, chunk
<1>6. acc \in [len : Nat, next : Nat, done : BOOLEAN]
  BY DEF Reached
<1>7. CASE Before(acc, k, from)
  <2>1. acc.len = 0 /\ acc.next = from /\ acc.done = FALSE /\ \A i \in 1 .. k : chunks[i].end <= from
    BY <1>7 DEF Before
  <2>2. CASE chunk.end <= from
    <3>1. Take(acc, chunk, limit) = acc
      BY <2>1, <2>2 DEF Take
    <3>2. \A i \in 1 .. k + 1 : chunks[i].end <= from
      <4>1. ASSUME NEW i \in 1 .. k + 1 PROVE i \in 1 .. k \/ i = k + 1
        BY <1>1
      <4> QED
        BY <2>1, <2>2, <4>1 DEF chunk
    <3> QED
      BY <1>6, <2>1, <3>1, <3>2 DEF Reached, Before, chunk
  <2>3. CASE chunk.end > from
    <3>1. chunk.start <= from
      <4>1. CASE k = 0
        BY <1>3, <1>4, <4>1
      <4>2. CASE k > 0
        BY <1>1, <1>2, <2>1, <4>2
      <4> QED
        BY <1>1, <4>1, <4>2
    <3>2. chunk.start <= acc.next /\ acc.next < chunk.end /\ acc.len < limit
      BY <1>1, <1>4, <2>1, <2>3, <3>1
    <3>3. Round(bounds, acc.next, TRUE) = first + acc.len
      <4>1. Round(bounds, acc.next, TRUE) = first
        BY <2>1 DEF first
      <4>2. first + acc.len = first
        BY <1>5, <2>1
      <4> QED
        BY <4>1, <4>2, Zenon
    <3>4. first + acc.len = chunk.end => acc.len = 0 /\ from < first
      <4>1. first + acc.len = first
        BY <1>5, <2>1
      <4> QED
        BY <1>1, <1>4, <1>5, <2>1, <2>3, <4>1
    <3>5. limit \in Nat /\ acc.done = FALSE
      BY <2>1
    <3>6. /\ Take(acc, chunk, limit) \in [len : Nat, next : Nat, done : BOOLEAN]
          /\ \/ Through(Take(acc, chunk, limit), k + 1, first, limit)
             \/ Over(Take(acc, chunk, limit), k + 1, from, first, limit)
      BY <1>4, <1>5, <1>6, <3>2, <3>3, <3>4, <3>5, Taking DEF chunk
    <3> QED
      BY <3>6 DEF Reached, first, chunk
  <2> QED
    BY <1>1, <1>4, <2>2, <2>3
<1>8. CASE Through(acc, k, first, limit)
  <2>1. k > 0 /\ acc.done = FALSE /\ acc.next = chunk.start /\ acc.next = first + acc.len /\ acc.len < limit
    BY <1>2, <1>8 DEF Through, chunk
  <2>2. Round(bounds, acc.next, TRUE) = acc.next
    <3>1. PICK v \in Nat : v = acc.next
      BY <1>6
    <3>2. v \in bounds
      BY <1>1, <2>1, <3>1
    <3>3. PICK b : b = Round(bounds, v, TRUE)
      OBVIOUS
    <3>4. b \in bounds /\ v <= b /\ \A x \in bounds : x >= v => b <= x
      <4>1. v <= v /\ bounds \subseteq Nat
        BY <1>1
      <4> QED
        BY <3>2, <3>3, <4>1, RoundUp, Zenon
    <3>5. b = v
      BY <1>1, <3>2, <3>4
    <3> QED
      BY <3>1, <3>3, <3>5
  <2>3. /\ chunk.start <= acc.next /\ acc.next < chunk.end
        /\ first + acc.len # chunk.end
    BY <1>1, <2>1
  <2> QED
    BY <1>4, <1>5, <1>6, <2>1, <2>2, <2>3, Taking DEF Reached, first, chunk
<1>9. CASE Over(acc, k, from, first, limit)
  <2>1. acc.done = TRUE \/ (acc.done = FALSE /\ k > 0 /\ acc.next < chunk.start)
    BY <1>2, <1>9 DEF Over, chunk
  <2>2. Take(acc, chunk, limit) = acc
    BY <1>1, <1>6, <2>1 DEF Take
  <2>3. acc.done = TRUE \/ (acc.done = FALSE /\ k + 1 > 0 /\ acc.next < chunk.end)
    BY <1>1, <1>6, <2>1
  <2>4. Over(acc, k + 1, from, first, limit)
    BY <1>9, <2>3 DEF Over, chunk
  <2> QED
    BY <1>6, <2>2, <2>4 DEF Reached, chunk, first
<1> QED
  BY <1>7, <1>8, <1>9 DEF Reached, first

\* All passes together.
LEMMA ReachedAll ==
  ASSUME Ring, NEW from \in Earliest .. next_cursor, NEW limit \in Nat \ {0}
  PROVE  Reached(Passes(from, limit)[Len(chunks)], Len(chunks), from, limit)
<1>1. PICK f : f = Passes(from, limit)
  OBVIOUS
<1>2. Len(chunks) \in Nat /\ from \in Nat
  BY Chunks
<1>3. \A k \in 0 .. Len(chunks) : f[k] = IF k = 0 THEN Start(from) ELSE Take(f[k - 1], chunks[k], limit)
  <2>1. Pass(f, Len(chunks), from, limit)
    BY <1>1, PassesPass
  <2> QED
    BY <2>1 DEF Pass
<1> DEFINE T == {n \in Nat : n <= Len(chunks) => Reached(f[n], n, from, limit)}
<1>4. 0 \in T
  <2>1. f[0] = Start(from)
    BY <1>2, <1>3
  <2>2. Reached(Start(from), 0, from, limit)
    BY <1>2 DEF Reached, Before, Start
  <2> QED
    BY <2>1, <2>2
<1>5. ASSUME NEW n \in Nat, n \in T PROVE n + 1 \in T
  <2>1. SUFFICES ASSUME n + 1 <= Len(chunks) PROVE Reached(f[n + 1], n + 1, from, limit)
    OBVIOUS
  <2>2. n \in 0 .. Len(chunks) - 1 /\ n + 1 \in 0 .. Len(chunks) /\ n + 1 # 0 /\ (n + 1) - 1 = n
    BY <1>2, <2>1
  <2>3. Reached(f[n], n, from, limit)
    BY <1>2, <1>5, <2>1
  <2>4. f[n + 1] = Take(f[n], chunks[n + 1], limit)
    BY <1>3, <2>2
  <2> HIDE DEF T
  <2> QED
    BY <2>2, <2>3, <2>4, ReachedStep
<1>6. Nat \subseteq T
  <2> HIDE DEF T
  <2> QED
    BY <1>4, <1>5, Induction
<1> QED
  BY <1>1, <1>2, <1>6

\* What the whole loop returns.
LEMMA ReadPromised ==
  ASSUME Ring, NEW requested \in Nat, NEW max \in Nat
  PROVE  Promised(requested, max, Read(requested, max))
<1> DEFINE from  == Least(Greatest(requested, Earliest), next_cursor)
           limit == Greatest(max, MinRead)
           end   == Passes(from, limit)[Len(chunks)]
           first == Round(bounds, from, TRUE)
           res   == Read(requested, max)
<1>1. /\ Len(chunks) \in Nat /\ next_cursor \in Nat /\ next_cursor \in bounds /\ bounds \subseteq Nat
      /\ \A b \in bounds : b <= next_cursor
      /\ Earliest \in Nat /\ Earliest <= next_cursor
  BY Chunks
<1>2. from \in Earliest .. next_cursor /\ from \in Nat
  BY <1>1 DEF Least, Greatest
<1>3. limit \in Nat \ {0}
  BY OutputAssumption DEF Greatest
<1>4. res = [requested |-> requested, earliest |-> Earliest, next |-> end.next, len |-> end.len,
             truncated |-> (requested < Earliest)]
  BY DEF Read
<1> HIDE DEF from, limit
<1>5. first \in bounds /\ first \in Nat /\ first >= from /\ \A x \in bounds : x >= from => first <= x
  <2>1. from <= next_cursor
    BY <1>1, <1>2
  <2> QED
    BY <1>1, <1>2, <2>1, RoundUp
<1>6. Reached(end, Len(chunks), from, limit)
  BY <1>2, <1>3, ReachedAll
<1> HIDE DEF end, first
<1>7. PICK l \in Nat, n \in Nat : l = end.len /\ n = end.next
  BY <1>6 DEF Reached
<1>8. /\ n = first + l /\ l <= limit /\ n \in bounds
      /\ \A b \in bounds : n < b /\ b <= first + limit => l = 0 /\ from < first
  <2>1. CASE Before(end, Len(chunks), from)
    <3>1. l = 0 /\ n = from /\ \A i \in 1 .. Len(chunks) : chunks[i].end <= from
      BY <1>7, <2>1 DEF Before
    <3>2. from = next_cursor
      <4>1. CASE Len(chunks) = 0
        <5>1. Earliest = next_cursor
          BY <4>1, Chunks
        <5> QED
          BY <1>1, <1>2, <5>1
      <4>2. CASE Len(chunks) # 0
        <5>1. Len(chunks) \in 1 .. Len(chunks)
          BY <1>1, <4>2
        <5>2. chunks[Len(chunks)].end = next_cursor
          BY <5>1, Chunks
        <5>3. next_cursor <= from
          BY <3>1, <5>1, <5>2
        <5> QED
          BY <1>1, <1>2, <5>3
      <4> QED
        BY <4>1, <4>2
    <3>3. first = next_cursor
      BY <1>1, <1>5, <3>2
    <3> QED
      BY <1>1, <1>3, <3>1, <3>2, <3>3
  <2>2. CASE Through(end, Len(chunks), first, limit)
    <3>1. Len(chunks) > 0 /\ n = chunks[Len(chunks)].end /\ n = first + l /\ l < limit
      BY <1>7, <2>2 DEF Through
    <3>2. n = next_cursor
      <4>1. Len(chunks) \in 1 .. Len(chunks)
        BY <1>1, <3>1
      <4> QED
        BY <3>1, <4>1, Chunks
    <3> QED
      BY <1>1, <1>3, <3>1, <3>2
  <2>3. CASE Over(end, Len(chunks), from, first, limit)
    BY <1>7, <2>3 DEF Over
  <2> QED
    BY <1>6, <2>1, <2>2, <2>3 DEF Reached, first
<1>9. res.next = n /\ res.len = l /\ res.earliest = Earliest /\ res.truncated = (requested < Earliest)
  BY <1>4, <1>7
<1>10. n - l = first
  BY <1>5, <1>7, <1>8
<1> HIDE DEF res
<1> QED
  BY <1>5, <1>8, <1>9, <1>10 DEF Promised, from, limit, res

(* Whatever the ring has lost and wherever a client's cursor stands, a read *)
(* of any size returns the longest run of whole characters that starts at   *)
(* the first one at or after the cursor and fits: what the loop over the    *)
(* chunks computes, by induction over the passes.                           *)
THEOREM ReadsKeepPromise == Spec => []ReadKeepsPromise
<1>1. Init => Ring
  BY RingInit
<1>2. Ring /\ [Next]_vars => Ring'
  BY RingNext
<1>3. Ring => ReadKeepsPromise
  <2>1. 0 .. MaxOut + 1 \subseteq Nat /\ ReadSizes \subseteq Nat
    BY OutputAssumption
  <2> SUFFICES ASSUME Ring, NEW requested \in 0 .. MaxOut + 1, NEW max \in ReadSizes
               PROVE  Promised(requested, max, Read(requested, max))
    BY DEF ReadKeepsPromise
  <2>2. requested \in Nat /\ max \in Nat
    BY <2>1
  <2> QED
    BY <2>2, ReadPromised
<1> QED
  BY <1>1, <1>2, <1>3, PTL DEF Spec

(* A read that keeps its promise moves any client that is behind forward,   *)
(* whatever its cursor and however few bytes it asked for: the smallest     *)
(* read holds the longest character.                                        *)
THEOREM PromiseProgresses ==
  ASSUME Ring, NEW requested \in Nat, NEW max \in Nat, NEW res \in Result,
         requested < next_cursor, Promised(requested, max, res)
  PROVE  res.next > requested
<1> DEFINE from  == Least(Greatest(requested, Earliest), next_cursor)
           limit == Greatest(max, MinRead)
           first == res.next - res.len
<1>1. next_cursor \in Nat /\ MinRead \in Nat /\ CharLen \in Nat /\ CharLen <= MinRead
  BY OutputAssumption DEF Ring
<1>2. res.next \in Nat /\ res.len \in Nat
  BY DEF Result
<1>3. /\ from <= first
      /\ \A b \in bounds : res.next < b /\ b <= first + limit => res.len = 0 /\ from < first
  BY DEF Promised
<1>4. Earliest \in Nat /\ bounds \subseteq Nat
  <2>1. bounds \subseteq Nat  BY <1>1 DEF Ring
  <2>2. CASE chunks = <<>>  BY <2>1, <2>2, <1>1 DEF Earliest
  <2>3. CASE chunks # <<>>
    <3>1. chunks \in Seq(Chunk) /\ 1 \in 1 .. Len(chunks)  BY <2>3 DEF Ring
    <3>2. chunks[1].start \in bounds  BY <3>1 DEF Ring, Adjoining
    <3> QED  BY <2>1, <2>3, <3>2 DEF Earliest
  <2> QED  BY <2>1, <2>2, <2>3
<1>5. from \in Nat /\ requested <= from /\ from <= next_cursor
  BY <1>1, <1>4 DEF Least, Greatest
<1>6. limit \in Nat /\ CharLen <= limit
  BY <1>1 DEF Greatest
<1> HIDE DEF from, limit
<1>7. CASE first > requested
  BY <1>7, <1>2
<1>8. CASE first = requested
  <2>1. from = requested  BY <1>8, <1>3, <1>5, <1>2
  <2>2. PICK b \in bounds : requested < b /\ b <= requested + CharLen
    <3>1. requested \in 0 .. next_cursor - 1  BY <1>1
    <3>2. Characters(bounds, 0, next_cursor)  BY DEF Ring, Adjoining
    <3> QED  BY <3>1, <3>2 DEF Characters
  <2>3. b <= first + limit  BY <2>2, <1>8, <1>6, <1>1, <1>4
  <2>4. ~(res.next < b)  BY <2>1, <2>3, <1>3, <1>8, <1>5
  <2> QED  BY <2>2, <2>4, <1>2, <1>4
<1> QED  BY <1>3, <1>5, <1>7, <1>8, <1>2
-----------------------------------------------------------------------------
(* How a pane keeps up.  Output of Runtime id in a sequence: what there      *)
(* still is of earlier Runtimes comes first, and the bytes of the rest       *)
(* follow one another up to a cursor.                                        *)
Event == [runtime : Nat, start : Nat, end : Nat]
Piece == [runtime : Nat, start : Nat, end : Nat, event : BOOLEAN]
PaneSet ==
  [mounted : BOOLEAN, visible : BOOLEAN, cursor : Nat, rendered : Nat, catching : Nat,
   needs : BOOLEAN, queue : Seq(Event), pending : Seq(Piece), paused : BOOLEAN,
   shown : Seq(Chunk), restore : Seq(Chunk)]

Ordered(seq, id) ==
  /\ \A k \in 1 .. Len(seq) : seq[k].runtime <= id
  /\ \A j, k \in 1 .. Len(seq) : j <= k /\ seq[j].runtime = id => seq[k].runtime = id
Streaming(seq, upto, id, B) ==
  /\ Ordered(seq, id)
  /\ \A k \in 1 .. Len(seq) : seq[k].runtime = id =>
       /\ seq[k].start < seq[k].end /\ seq[k].start \in B /\ seq[k].end \in B
       /\ seq[k].end = IF k = Len(seq) THEN upto ELSE seq[k + 1].start

\* Where that output begins.
Leads(seq, k, id) == seq[k].runtime = id /\ (k = 1 \/ seq[k - 1].runtime # id)
Begin(seq, upto, id) ==
  IF \E k \in 1 .. Len(seq) : Leads(seq, k, id) THEN seq[CHOOSE k \in 1 .. Len(seq) : Leads(seq, k, id)].start
                                       ELSE upto

\* What a pane was given of the stream so far.
Chain(seq, gone) ==
  \A k \in 1 .. Len(seq) : Follows(seq[k].start, IF k = 1 THEN 0 ELSE seq[k - 1].end, gone)
Rendering(seq, cursor, B, gone) ==
  /\ Chain(seq, gone) /\ Reach(seq) <= cursor /\ cursor \in B
  /\ cursor = Reach(seq) \/ cursor <= gone
Parsing(p, id, B, gone) ==
  \A k \in 1 .. Len(p.pending) : p.pending[k].runtime = id =>
    /\ Follows(p.pending[k].start, Upto(p, k, id), gone)
    /\ p.pending[k].start < p.pending[k].end /\ p.pending[k].end \in B
Writing(p, id, B, gone) ==
  /\ Rendering(Drawn(p), p.rendered, B, gone)
  /\ p.restore # <<>> => p.shown = <<>>
  /\ Ordered(p.pending, id) /\ Parsing(p, id, B, gone)
  /\ p.cursor \in B /\ Upto(p, Len(p.pending) + 1, id) <= p.cursor
  /\ p.cursor = Upto(p, Len(p.pending) + 1, id) \/ p.cursor <= gone

\* What the reply to a catch-up read from a cursor has in it.
Replied(res, cursor, B, earliest) ==
  /\ res.next \in B /\ res.len \in Nat
  /\ \E first \in B : res.next = first + res.len /\ (first = cursor \/ (cursor < first /\ first <= earliest))

Due == Begin(transit, next_cursor, runtime)
PaneType ==
  /\ runtime \in Nat \ {0} /\ bare \in Nat
  /\ transit \in Seq(Event)
  /\ pane \in PaneSet /\ pane.catching <= runtime
  /\ served \in {"no", "yes", "failed"}
  /\ snapshot \in [runtime : {0, runtime}, cursor : Nat, shown : Seq(Chunk)]
  /\ DOMAIN reader = Readers

\* A pane that does not catch up has no gap before what is on its way to it; one that
\* does has queued all that came since, or means to start again.
CaughtUp(p, due) == p.mounted /\ ~p.needs /\ p.catching = 0 => due <= p.cursor
Queued(p, reply, due, id, B) ==
  /\ p.catching = 0 => p.queue = <<>> /\ reply = "no"
  /\ ~p.needs /\ p.catching = id =>
       Streaming(p.queue, due, id, B) /\ \A k \in 1 .. Len(p.queue) : p.queue[k].runtime = id
Answered(p, reply, res, due, id, B, earliest) ==
  reply = "yes" /\ p.catching = id =>
    /\ Replied(res, p.cursor, B, earliest)
    /\ ~p.needs /\ res.len = 0 => Begin(p.queue, due, id) <= p.cursor

(* The inductive invariant of a pane over its ring.                          *)
PaneInv ==
  /\ Ring /\ 0 \in bounds
  /\ PaneType
  /\ Streaming(transit, next_cursor, runtime, bounds)
  /\ pane.mounted => Writing(pane, runtime, bounds, Gone)
  /\ CaughtUp(pane, Due)
  /\ Queued(pane, served, Due, runtime, bounds)
  /\ Answered(pane, served, reader[Pane], Due, runtime, bounds, Earliest)
  /\ ~pane.mounted => pane = Fresh
  /\ snapshot.runtime = runtime => Rendering(snapshot.shown, snapshot.cursor, bounds, Gone)

\* A sequence in which a Runtime occurs has a first place where it does.
LEMMA LeadExists ==
  ASSUME NEW S, NEW seq \in Seq(S), NEW id, NEW j \in 1 .. Len(seq), seq[j].runtime = id
  PROVE  \E k \in 1 .. Len(seq) : Leads(seq, k, id)
<1> DEFINE T == {k \in 1 .. Len(seq) : seq[k].runtime = id}
<1>1. Len(seq) \in Nat
  OBVIOUS
<1>2. PICK m \in T : \A x \in T : m <= x
  <2>1. T \subseteq Nat /\ T # {}
    BY <1>1
  <2> HIDE DEF T
  <2> QED
    BY <2>1, Minimum
<1>3. m = 1 \/ m - 1 \notin T
  BY <1>2
<1>4. m \in 1 .. Len(seq) /\ seq[m].runtime = id /\ (m = 1 \/ seq[m - 1].runtime # id)
  BY <1>1, <1>2, <1>3
<1> QED
  BY <1>4 DEF Leads

\* There is one such place.
LEMMA BeginLeads ==
  ASSUME NEW S, NEW seq \in Seq(S), NEW id, NEW upto, Ordered(seq, id),
         NEW k \in 1 .. Len(seq), Leads(seq, k, id)
  PROVE  Begin(seq, upto, id) = seq[k].start
<1>1. PICK m : m = CHOOSE n \in 1 .. Len(seq) : Leads(seq, n, id)
  OBVIOUS
<1>2. m \in 1 .. Len(seq) /\ Leads(seq, m, id)
  BY <1>1
<1>3. \A i, j \in 1 .. Len(seq) : i <= j /\ seq[i].runtime = id => seq[j].runtime = id
  BY DEF Ordered
<1>4. Len(seq) \in Nat
  OBVIOUS
<1>5. \A i, j \in 1 .. Len(seq) : Leads(seq, i, id) /\ Leads(seq, j, id) => ~(i < j)
  <2> SUFFICES ASSUME NEW i \in 1 .. Len(seq), NEW j \in 1 .. Len(seq), Leads(seq, i, id), Leads(seq, j, id), i < j
               PROVE  FALSE
    OBVIOUS
  <2>1. j - 1 \in 1 .. Len(seq) /\ i <= j - 1 /\ j # 1
    BY <1>4
  <2> QED
    BY <1>3, <2>1 DEF Leads
<1>6. m = k
  BY <1>2, <1>4, <1>5
<1> QED
  BY <1>1, <1>6 DEF Begin

LEMMA BeginNone ==
  ASSUME NEW seq, NEW id, NEW upto, \A k \in 1 .. Len(seq) : seq[k].runtime # id
  PROVE  Begin(seq, upto, id) = upto
  BY DEF Begin, Leads

\* Output begins where the bytes of a sequence do, or where it ends.
LEMMA BeginBounds ==
  ASSUME NEW S, NEW seq \in Seq(S), NEW id, NEW B, NEW upto \in B, Streaming(seq, upto, id, B)
  PROVE  Begin(seq, upto, id) \in B
<1>1. CASE \A k \in 1 .. Len(seq) : seq[k].runtime # id
  BY <1>1, BeginNone
<1>2. CASE \E k \in 1 .. Len(seq) : seq[k].runtime = id
  <2>1. PICK k \in 1 .. Len(seq) : Leads(seq, k, id)
    BY <1>2, LeadExists
  <2>2. Begin(seq, upto, id) = seq[k].start
    BY <2>1, BeginLeads DEF Streaming
  <2> QED
    BY <2>1, <2>2 DEF Streaming, Leads
<1> QED
  BY <1>1, <1>2

LEMMA OrderedAppend ==
  ASSUME NEW S, NEW seq \in Seq(S), NEW e \in S, NEW id \in Nat, e.runtime = id, Ordered(seq, id)
  PROVE  Ordered(Append(seq, e), id)
<1> DEFINE all == Append(seq, e)
<1>1. Len(all) = Len(seq) + 1 /\ Len(seq) \in Nat
  OBVIOUS
<1>2. \A k \in 1 .. Len(seq) : all[k] = seq[k]
  OBVIOUS
<1>3. all[Len(seq) + 1] = e
  OBVIOUS
<1>4. \A k \in 1 .. Len(all) : k \in 1 .. Len(seq) \/ k = Len(seq) + 1
  BY <1>1
<1> HIDE DEF all
<1>5. \A k \in 1 .. Len(all) : all[k].runtime <= id
  BY <1>2, <1>3, <1>4 DEF Ordered
<1>6. ASSUME NEW j \in 1 .. Len(all), NEW k \in 1 .. Len(all), j <= k, all[j].runtime = id
      PROVE  all[k].runtime = id
  <2>1. CASE k = Len(seq) + 1
    BY <1>3, <2>1
  <2>2. CASE k # Len(seq) + 1
    <3>1. k \in 1 .. Len(seq) /\ j \in 1 .. Len(seq)
      BY <1>1, <1>4, <1>6, <2>2
    <3> QED
      BY <1>2, <1>6, <3>1 DEF Ordered
  <2> QED
    BY <2>1, <2>2
<1>7. Ordered(all, id)
  BY <1>5, <1>6 DEF Ordered
<1> QED
  BY <1>7 DEF all

LEMMA OrderedTail ==
  ASSUME NEW S, NEW seq \in Seq(S), seq # <<>>, NEW id, Ordered(seq, id)
  PROVE  Ordered(Tail(seq), id)
<1> DEFINE rest == Tail(seq)
<1>1. Len(rest) = Len(seq) - 1 /\ Len(seq) \in Nat /\ Len(seq) > 0
  OBVIOUS
<1>2. \A k \in 1 .. Len(rest) : rest[k] = seq[k + 1] /\ k + 1 \in 1 .. Len(seq)
  BY <1>1
<1> HIDE DEF rest
<1>3. \A k \in 1 .. Len(rest) : rest[k].runtime <= id
  BY <1>2 DEF Ordered
<1>4. ASSUME NEW j \in 1 .. Len(rest), NEW k \in 1 .. Len(rest), j <= k, rest[j].runtime = id
      PROVE  rest[k].runtime = id
  <2>1. j + 1 <= k + 1
    BY <1>1, <1>4
  <2> QED
    BY <1>2, <1>4, <2>1 DEF Ordered
<1>5. Ordered(rest, id)
  BY <1>3, <1>4 DEF Ordered
<1> QED
  BY <1>5 DEF rest

\* What comes next is appended; what comes first is taken.
LEMMA StreamAppend ==
  ASSUME NEW S, NEW seq \in Seq(S), NEW e \in S, NEW id \in Nat, NEW B, e.runtime = id,
         e.start \in B, e.end \in B, e.start < e.end, Streaming(seq, e.start, id, B)
  PROVE  /\ Streaming(Append(seq, e), e.end, id, B)
         /\ Begin(Append(seq, e), e.end, id) = Begin(seq, e.start, id)
<1> DEFINE all == Append(seq, e)
<1>1. Len(all) = Len(seq) + 1 /\ Len(seq) \in Nat /\ all \in Seq(S)
  OBVIOUS
<1>2. \A k \in 1 .. Len(seq) : all[k] = seq[k]
  OBVIOUS
<1>3. all[Len(seq) + 1] = e
  OBVIOUS
<1>4. \A k \in 1 .. Len(all) : k \in 1 .. Len(seq) \/ k = Len(seq) + 1
  BY <1>1
<1>5. Ordered(seq, id)
  BY DEF Streaming
<1>6. Ordered(all, id)
  BY <1>5, OrderedAppend
<1> HIDE DEF all
<1>7. ASSUME NEW k \in 1 .. Len(all), all[k].runtime = id
      PROVE  /\ all[k].start < all[k].end /\ all[k].start \in B /\ all[k].end \in B
             /\ all[k].end = IF k = Len(all) THEN e.end ELSE all[k + 1].start
  <2>1. CASE k = Len(seq) + 1
    BY <1>1, <1>3, <2>1
  <2>2. CASE k # Len(seq) + 1
    <3>1. k \in 1 .. Len(seq) /\ all[k] = seq[k] /\ seq[k].runtime = id
      BY <1>2, <1>4, <1>7, <2>2
    <3>2. /\ seq[k].start < seq[k].end /\ seq[k].start \in B /\ seq[k].end \in B
          /\ seq[k].end = IF k = Len(seq) THEN e.start ELSE seq[k + 1].start
      BY <3>1 DEF Streaming
    <3>3. CASE k = Len(seq)
      BY <1>1, <1>3, <3>1, <3>2, <3>3
    <3>4. CASE k # Len(seq)
      <4>1. k + 1 \in 1 .. Len(seq) /\ k # Len(all)
        BY <1>1, <3>1, <3>4
      <4> QED
        BY <1>2, <3>1, <3>2, <3>4, <4>1
    <3> QED
      BY <3>3, <3>4
  <2> QED
    BY <2>1, <2>2
<1>8. Streaming(all, e.end, id, B)
  BY <1>6, <1>7 DEF Streaming
<1>9. Begin(all, e.end, id) = Begin(seq, e.start, id)
  <2>1. CASE \A k \in 1 .. Len(seq) : seq[k].runtime # id
    <3>1. Begin(seq, e.start, id) = e.start
      BY <2>1, BeginNone
    <3>2. Len(seq) + 1 \in 1 .. Len(all) /\ (Len(seq) + 1 = 1 \/ Len(seq) \in 1 .. Len(seq)) /\ (Len(seq) + 1) - 1 = Len(seq)
      BY <1>1
    <3>3. Leads(all, Len(seq) + 1, id)
      BY <1>2, <1>3, <2>1, <3>2 DEF Leads
    <3> QED
      BY <1>1, <1>3, <1>6, <3>1, <3>2, <3>3, BeginLeads
  <2>2. CASE \E k \in 1 .. Len(seq) : seq[k].runtime = id
    <3>1. PICK k \in 1 .. Len(seq) : Leads(seq, k, id)
      BY <2>2, LeadExists
    <3>2. Begin(seq, e.start, id) = seq[k].start
      BY <1>5, <3>1, BeginLeads
    <3>3. k \in 1 .. Len(all) /\ all[k] = seq[k] /\ (k # 1 => k - 1 \in 1 .. Len(seq))
      BY <1>1, <1>2, <3>1
    <3>4. Leads(all, k, id)
      BY <1>2, <3>1, <3>3 DEF Leads
    <3> QED
      BY <1>1, <1>6, <3>2, <3>3, <3>4, BeginLeads
  <2> QED
    BY <2>1, <2>2
<1> QED
  BY <1>8, <1>9 DEF all

LEMMA StreamTail ==
  ASSUME NEW S, NEW seq \in Seq(S), seq # <<>>, NEW id, NEW B, NEW upto, Streaming(seq, upto, id, B)
  PROVE  /\ Streaming(Tail(seq), upto, id, B)
         /\ Head(seq).runtime # id => Begin(Tail(seq), upto, id) = Begin(seq, upto, id)
         /\ Head(seq).runtime = id => /\ Begin(seq, upto, id) = Head(seq).start
                                      /\ Begin(Tail(seq), upto, id) = Head(seq).end
                                      /\ Head(seq).start < Head(seq).end
                                      /\ Head(seq).start \in B /\ Head(seq).end \in B
<1> DEFINE rest == Tail(seq)
<1>1. /\ Len(rest) = Len(seq) - 1 /\ Len(seq) \in Nat /\ Len(seq) > 0 /\ rest \in Seq(S) /\ Head(seq) = seq[1]
      /\ 1 \in 1 .. Len(seq)
  OBVIOUS
<1>2. \A k \in 1 .. Len(rest) : rest[k] = seq[k + 1] /\ k + 1 \in 1 .. Len(seq)
  BY <1>1
<1>3. Ordered(seq, id)
  BY DEF Streaming
<1>4. Ordered(rest, id)
  BY <1>3, OrderedTail
<1>5. \A k \in 1 .. Len(seq) : seq[k].runtime = id =>
        /\ seq[k].start < seq[k].end /\ seq[k].start \in B /\ seq[k].end \in B
        /\ seq[k].end = IF k = Len(seq) THEN upto ELSE seq[k + 1].start
  BY DEF Streaming
<1>50. \A i, j \in 1 .. Len(seq) : i <= j /\ seq[i].runtime = id => seq[j].runtime = id
  BY <1>3 DEF Ordered
<1> HIDE DEF rest
<1>6. ASSUME NEW k \in 1 .. Len(rest), rest[k].runtime = id
      PROVE  /\ rest[k].start < rest[k].end /\ rest[k].start \in B /\ rest[k].end \in B
             /\ rest[k].end = IF k = Len(rest) THEN upto ELSE rest[k + 1].start
  <2>1. /\ seq[k + 1].start < seq[k + 1].end /\ seq[k + 1].start \in B /\ seq[k + 1].end \in B
        /\ seq[k + 1].end = IF k + 1 = Len(seq) THEN upto ELSE seq[(k + 1) + 1].start
    BY <1>2, <1>5, <1>6
  <2>2. CASE k = Len(rest)
    BY <1>1, <1>2, <2>1, <2>2
  <2>3. CASE k # Len(rest)
    <3>1. k + 1 \in 1 .. Len(rest) /\ k + 1 # Len(seq)
      BY <1>1, <2>3
    <3> QED
      BY <1>2, <2>1, <2>3, <3>1
  <2> QED
    BY <2>2, <2>3
<1>7. Streaming(rest, upto, id, B)
  BY <1>4, <1>6 DEF Streaming
<1>8. ASSUME Head(seq).runtime # id PROVE Begin(rest, upto, id) = Begin(seq, upto, id)
  <2>1. CASE \A k \in 1 .. Len(rest) : rest[k].runtime # id
    <3>1. ASSUME NEW k \in 1 .. Len(seq) PROVE seq[k].runtime # id
      <4>1. CASE k = 1
        BY <1>1, <1>8, <4>1
      <4>2. CASE k # 1
        <5>1. k - 1 \in 1 .. Len(rest) /\ (k - 1) + 1 = k
          BY <1>1, <4>2
        <5> QED
          BY <1>2, <2>1, <5>1
      <4> QED
        BY <4>1, <4>2
    <3> QED
      BY <2>1, <3>1, BeginNone
  <2>2. CASE \E k \in 1 .. Len(rest) : rest[k].runtime = id
    <3>1. PICK k \in 1 .. Len(rest) : Leads(rest, k, id)
      BY <1>1, <2>2, LeadExists
    <3>2. Begin(rest, upto, id) = rest[k].start
      BY <1>1, <1>4, <3>1, BeginLeads
    <3>3. rest[k] = seq[k + 1] /\ k + 1 \in 1 .. Len(seq) /\ (k + 1) - 1 = k
      BY <1>2
    <3>4. seq[k].runtime # id
      <4>1. CASE k = 1
        BY <1>1, <1>8, <4>1
      <4>2. CASE k # 1
        <5>1. k - 1 \in 1 .. Len(rest) /\ (k - 1) + 1 = k
          BY <1>1, <4>2
        <5> QED
          BY <1>2, <3>1, <4>2, <5>1 DEF Leads
      <4> QED
        BY <4>1, <4>2
    <3>5. Leads(seq, k + 1, id)
      BY <3>1, <3>3, <3>4 DEF Leads
    <3> QED
      BY <1>3, <3>2, <3>3, <3>5, BeginLeads
  <2> QED
    BY <2>1, <2>2
<1>9. ASSUME Head(seq).runtime = id
      PROVE  /\ Begin(seq, upto, id) = Head(seq).start
             /\ Begin(rest, upto, id) = Head(seq).end
             /\ Head(seq).start < Head(seq).end
             /\ Head(seq).start \in B /\ Head(seq).end \in B
  <2>1. Leads(seq, 1, id)
    BY <1>1, <1>9 DEF Leads
  <2>2. Begin(seq, upto, id) = Head(seq).start
    BY <1>1, <1>3, <2>1, BeginLeads
  <2>3. /\ Head(seq).start < Head(seq).end /\ Head(seq).start \in B /\ Head(seq).end \in B
        /\ Head(seq).end = IF 1 = Len(seq) THEN upto ELSE seq[2].start
    BY <1>1, <1>5, <1>9
  <2>4. CASE Len(seq) = 1
    <3>1. Begin(rest, upto, id) = upto
      BY <1>1, <2>4, BeginNone
    <3> QED
      BY <2>2, <2>3, <2>4, <3>1
  <2>5. CASE Len(seq) # 1
    <3>1. 1 \in 1 .. Len(rest) /\ rest[1] = seq[2] /\ 2 \in 1 .. Len(seq) /\ 1 <= 2
      BY <1>1, <1>2, <2>5
    <3>2. seq[2].runtime = id
      BY <1>1, <1>9, <1>50, <3>1
    <3>3. Leads(rest, 1, id)
      BY <3>1, <3>2 DEF Leads
    <3>4. Begin(rest, upto, id) = rest[1].start
      BY <1>1, <1>4, <3>1, <3>3, BeginLeads
    <3> QED
      BY <2>2, <2>3, <2>5, <3>1, <3>4
  <2> QED
    BY <2>4, <2>5
<1> QED
  BY <1>7, <1>8, <1>9 DEF rest

\* More characters of the stream, or another Runtime.
LEMMA StreamWider ==
  ASSUME NEW seq, NEW id, NEW B, NEW C, B \subseteq C, NEW upto, Streaming(seq, upto, id, B)
  PROVE  Streaming(seq, upto, id, C)
  BY DEF Streaming

LEMMA StreamOthers ==
  ASSUME NEW S, NEW seq \in Seq(S), NEW id \in Nat, NEW B, NEW upto,
         \A k \in 1 .. Len(seq) : seq[k].runtime \in Nat /\ seq[k].runtime < id
  PROVE  Streaming(seq, upto, id, B) /\ Begin(seq, upto, id) = upto
<1>1. \A k \in 1 .. Len(seq) : seq[k].runtime # id /\ seq[k].runtime <= id
  OBVIOUS
<1> QED
  BY <1>1, BeginNone DEF Streaming, Ordered

-----------------------------------------------------------------------------
\* What is lost stays lost.
LEMMA RenderingWider ==
  ASSUME NEW seq \in Seq(Chunk), NEW cursor \in Nat, NEW B, NEW C, B \subseteq C,
         NEW g \in Nat, NEW h \in Nat, g <= h, Rendering(seq, cursor, B, g)
  PROVE  Rendering(seq, cursor, C, h)
<1>1. \A k \in 1 .. Len(seq) : seq[k].start \in Nat
  <2>1. \A k \in 1 .. Len(seq) : seq[k] \in Chunk
    OBVIOUS
  <2> QED
    BY <2>1 DEF Chunk
<1>2. Chain(seq, h)
  BY <1>1 DEF Rendering, Chain, Follows
<1> QED
  BY <1>2 DEF Rendering

LEMMA WritingWider ==
  ASSUME NEW p \in PaneSet, NEW id, NEW B, NEW C, B \subseteq C,
         NEW g \in Nat, NEW h \in Nat, g <= h, Writing(p, id, B, g)
  PROVE  Writing(p, id, C, h)
<1>1. p.shown \in Seq(Chunk) /\ p.restore \in Seq(Chunk) /\ p.rendered \in Nat /\ p.cursor \in Nat /\ p.pending \in Seq(Piece)
  BY DEF PaneSet
<1>2. Drawn(p) \in Seq(Chunk)
  BY <1>1 DEF Drawn
<1>3. Rendering(Drawn(p), p.rendered, C, h)
  BY <1>1, <1>2, RenderingWider DEF Writing
<1>4. \A k \in 1 .. Len(p.pending) : p.pending[k].start \in Nat
  <2>1. \A k \in 1 .. Len(p.pending) : p.pending[k] \in Piece
    BY <1>1
  <2> QED
    BY <2>1 DEF Piece
<1>5. Parsing(p, id, C, h)
  BY <1>4 DEF Writing, Parsing, Follows
<1> QED
  BY <1>1, <1>3, <1>5 DEF Writing

\* It depends on what was written and parsed, and on the cursors.
LEMMA WritingSame ==
  ASSUME NEW p, NEW q, NEW id, NEW B, NEW g, Writing(p, id, B, g),
         q.cursor = p.cursor, q.rendered = p.rendered, q.pending = p.pending,
         q.shown = p.shown, q.restore = p.restore
  PROVE  Writing(q, id, B, g)
<1>1. Drawn(q) = Drawn(p)
  BY DEF Drawn
<1>2. \A k : Upto(q, k, id) = Upto(p, k, id)
  BY <1>1 DEF Upto
<1> QED
  BY <1>1, <1>2 DEF Writing, Parsing

LEMMA ReachNat ==
  ASSUME NEW seq \in Seq(Chunk)
  PROVE  Reach(seq) \in Nat
<1>1. seq # <<>> => Len(seq) \in 1 .. Len(seq)
  OBVIOUS
<1>2. seq # <<>> => seq[Len(seq)] \in Chunk
  BY <1>1
<1> QED
  BY <1>2 DEF Reach, Last, Chunk

LEMMA UptoNat ==
  ASSUME NEW p \in PaneSet, NEW id, NEW k \in 1 .. Len(p.pending) + 1
  PROVE  Upto(p, k, id) \in Nat
<1>1. p.shown \in Seq(Chunk) /\ p.restore \in Seq(Chunk) /\ p.pending \in Seq(Piece)
  BY DEF PaneSet
<1>2. Reach(Drawn(p)) \in Nat
  BY <1>1, ReachNat DEF Drawn
<1>3. Len(p.pending) \in Nat
  BY <1>1
<1>4. k # 1 => k - 1 \in 1 .. Len(p.pending)
  BY <1>3
<1>5. k # 1 => p.pending[k - 1] \in Piece
  BY <1>1, <1>4
<1> QED
  BY <1>2, <1>5 DEF Upto, Piece

\* A piece that starts where the pane is, or after what is lost, is written.
LEMMA WritingAppend ==
  ASSUME NEW p \in PaneSet, NEW q \in PaneSet, NEW id \in Nat, NEW B, NEW g \in Nat, Writing(p, id, B, g),
         NEW w \in Piece, w.runtime = id, w.start < w.end, w.end \in B,
         w.start = p.cursor \/ (p.cursor < w.start /\ w.start <= g),
         q.pending = Append(p.pending, w), q.cursor = w.end,
         q.shown = p.shown, q.restore = p.restore, q.rendered = p.rendered
  PROVE  Writing(q, id, B, g)
<1> DEFINE n == Len(p.pending)
<1>1. p.pending \in Seq(Piece) /\ n \in Nat /\ p.cursor \in Nat
  BY DEF PaneSet
<1>2. Len(q.pending) = n + 1 /\ q.pending \in Seq(Piece)
  BY <1>1
<1>3. \A k \in 1 .. n : q.pending[k] = p.pending[k]
  BY <1>1
<1>4. q.pending[n + 1] = w
  BY <1>1
<1> HIDE DEF n
<1>5. Drawn(q) = Drawn(p)
  BY DEF Drawn
<1>6. \A k \in 1 .. n + 1 : Upto(q, k, id) = Upto(p, k, id)
  <2> SUFFICES ASSUME NEW k \in 1 .. n + 1 PROVE Upto(q, k, id) = Upto(p, k, id)
    OBVIOUS
  <2>1. k # 1 => k - 1 \in 1 .. n
    BY <1>1
  <2> QED
    BY <1>3, <1>5, <2>1 DEF Upto
<1>7. Upto(q, (n + 1) + 1, id) = w.end
  <2>1. (n + 1) + 1 # 1 /\ ((n + 1) + 1) - 1 = n + 1
    BY <1>1
  <2> QED
    BY <1>4, <2>1 DEF Upto
<1>8. Ordered(p.pending, id) /\ Parsing(p, id, B, g)
  BY DEF Writing
<1>9. Ordered(q.pending, id)
  BY <1>1, <1>8, OrderedAppend
<1>10. PICK u \in Nat : u = Upto(p, n + 1, id)
  <2>1. n + 1 \in 1 .. Len(p.pending) + 1
    BY <1>1 DEF n
  <2> QED
    BY <2>1, UptoNat
<1>11. u <= p.cursor /\ (p.cursor = u \/ p.cursor <= g)
  BY <1>10 DEF Writing, n
<1>12. w.start \in Nat /\ w.end \in Nat
  BY DEF Piece
<1>13. Follows(w.start, u, g)
  BY <1>1, <1>11, <1>12 DEF Follows
<1>14. ASSUME NEW k \in 1 .. n + 1, q.pending[k].runtime = id
       PROVE  /\ Follows(q.pending[k].start, Upto(q, k, id), g)
              /\ q.pending[k].start < q.pending[k].end /\ q.pending[k].end \in B
  <2>1. CASE k = n + 1
    BY <1>4, <1>6, <1>10, <1>13, <2>1
  <2>2. CASE k # n + 1
    <3>1. k \in 1 .. n
      BY <1>1, <2>2
    <3> QED
      BY <1>3, <1>6, <1>8, <1>14, <3>1 DEF Parsing, n
  <2> QED
    BY <2>1, <2>2
<1>15. Parsing(q, id, B, g)
  BY <1>2, <1>14 DEF Parsing
<1>16. q.cursor <= w.end /\ Upto(q, Len(q.pending) + 1, id) = w.end
  BY <1>2, <1>7, <1>12
<1> QED
  BY <1>5, <1>9, <1>12, <1>15, <1>16 DEF Writing

\* A pane that is mounted from a snapshot, or from none.
LEMMA WritingMounted ==
  ASSUME NEW p \in PaneSet, NEW id, NEW B, NEW g, p.pending = <<>>, p.shown = <<>>,
         p.rendered = p.cursor, Rendering(p.restore, p.cursor, B, g)
  PROVE  Writing(p, id, B, g)
<1>1. Drawn(p) = p.restore
  BY DEF Drawn
<1>2. Len(p.pending) = 0
  OBVIOUS
<1>3. Upto(p, Len(p.pending) + 1, id) = Reach(p.restore)
  BY <1>1, <1>2 DEF Upto
<1>4. Ordered(p.pending, id) /\ Parsing(p, id, B, g)
  BY <1>2 DEF Ordered, Parsing
<1> QED
  BY <1>1, <1>3, <1>4 DEF Writing, Rendering

\* One that gets a new Runtime.
LEMMA WritingRestarted ==
  ASSUME NEW p \in PaneSet, NEW id \in Nat, NEW B, 0 \in B, NEW g, p.shown = <<>>, p.restore = <<>>,
         p.rendered = 0, p.cursor = 0, \A k \in 1 .. Len(p.pending) : p.pending[k].runtime < id
  PROVE  Writing(p, id, B, g)
<1>1. Drawn(p) = <<>> /\ Reach(<<>>) = 0
  BY DEF Drawn, Reach
<1>2. p.pending \in Seq(Piece) /\ Len(p.pending) \in Nat
  BY DEF PaneSet
<1>3. \A k \in 1 .. Len(p.pending) : p.pending[k].runtime # id /\ p.pending[k].runtime <= id
  <2> SUFFICES ASSUME NEW k \in 1 .. Len(p.pending) PROVE p.pending[k].runtime # id /\ p.pending[k].runtime <= id
    OBVIOUS
  <2>1. p.pending[k] \in Piece
    BY <1>2
  <2>2. p.pending[k].runtime \in Nat
    BY <2>1 DEF Piece
  <2> QED
    BY <2>2
<1>4. Ordered(p.pending, id) /\ Parsing(p, id, B, g)
  BY <1>3 DEF Ordered, Parsing
<1>5. Upto(p, Len(p.pending) + 1, id) = 0
  <2>1. Len(p.pending) + 1 # 1 => Len(p.pending) \in 1 .. Len(p.pending)
    BY <1>2
  <2>2. (Len(p.pending) + 1) - 1 = Len(p.pending)
    BY <1>2
  <2> QED
    BY <1>1, <1>3, <2>1, <2>2 DEF Upto
<1>6. Rendering(<<>>, 0, B, g)
  BY <1>1 DEF Rendering, Chain
<1> QED
  BY <1>1, <1>4, <1>5, <1>6 DEF Writing

\* The terminal has parsed its snapshot.
LEMMA WritingSnapshotParsed ==
  ASSUME NEW p, NEW q, NEW id, NEW B, NEW g, Writing(p, id, B, g), p.restore # <<>>,
         q.shown = p.restore, q.restore = <<>>,
         q.cursor = p.cursor, q.rendered = p.rendered, q.pending = p.pending
  PROVE  Writing(q, id, B, g)
<1>1. Drawn(q) = Drawn(p)
  BY DEF Drawn
<1>2. \A k : Upto(q, k, id) = Upto(p, k, id)
  BY <1>1 DEF Upto
<1> QED
  BY <1>1, <1>2 DEF Writing, Parsing

\* A piece joins the screen.
LEMMA JoinChain ==
  ASSUME NEW seq \in Seq(Chunk), NEW g \in Nat, Chain(seq, g), NEW w \in Piece,
         Follows(w.start, Reach(seq), g)
  PROVE  /\ Join(seq, w) \in Seq(Chunk)
         /\ Chain(Join(seq, w), g)
         /\ Reach(Join(seq, w)) = w.end
<1> DEFINE n == Len(seq)
           new == [start |-> w.start, end |-> w.end]
<1>1. n \in Nat /\ w.start \in Nat /\ w.end \in Nat /\ new \in Chunk
  BY DEF Piece, Chunk
<1>2. CASE seq # <<>> /\ seq[n].end = w.start
  <2> DEFINE c == [seq[n] EXCEPT !.end = w.end]
             all == [seq EXCEPT ![n] = c]
  <2>1. n \in 1 .. n /\ seq[n] \in Chunk
    BY <1>1, <1>2
  <2>2. c \in Chunk /\ c.start = seq[n].start /\ c.end = w.end
    BY <1>1, <2>1 DEF Chunk
  <2>3. Join(seq, w) = all
    BY <1>2, <2>1 DEF Join, Last
  <2> HIDE DEF c
  <2>4. all \in Seq(Chunk) /\ Len(all) = n /\ all[n] = c /\ \A k \in 1 .. n : k # n => all[k] = seq[k]
    BY <2>1, <2>2
  <2> HIDE DEF all
  <2>5. Chain(all, g)
    <3> SUFFICES ASSUME NEW k \in 1 .. n
                 PROVE  Follows(all[k].start, IF k = 1 THEN 0 ELSE all[k - 1].end, g)
      BY <2>4 DEF Chain
    <3>1. Follows(seq[k].start, IF k = 1 THEN 0 ELSE seq[k - 1].end, g)
      BY DEF Chain
    <3>2. all[k].start = seq[k].start
      BY <2>2, <2>4
    <3>3. k # 1 => all[k - 1] = seq[k - 1]
      <4>1. k # 1 => k - 1 \in 1 .. n /\ k - 1 # n
        BY <1>1
      <4> QED
        BY <2>4, <4>1
    <3> QED
      BY <3>1, <3>2, <3>3
  <2>6. all # <<>>
    BY <2>1, <2>4
  <2> QED
    BY <2>2, <2>3, <2>4, <2>5, <2>6 DEF Reach, Last
<1>3. CASE ~(seq # <<>> /\ seq[n].end = w.start)
  <2> DEFINE all == Append(seq, new)
  <2>1. Join(seq, w) = all
    BY <1>3 DEF Join, Last
  <2>2. all \in Seq(Chunk) /\ Len(all) = n + 1
    BY <1>1
  <2>3. \A k \in 1 .. n : all[k] = seq[k]
    OBVIOUS
  <2>4. all[n + 1] = new
    OBVIOUS
  <2> HIDE DEF all
  <2>5. Reach(seq) = IF n = 0 THEN 0 ELSE seq[n].end
    BY DEF Reach, Last
  <2>6. ASSUME NEW k \in 1 .. n + 1
        PROVE  Follows(all[k].start, IF k = 1 THEN 0 ELSE all[k - 1].end, g)
    <3>1. CASE k = n + 1
      <4>1. all[k].start = w.start
        BY <2>4, <3>1
      <4>2. Reach(seq) = IF k = 1 THEN 0 ELSE all[k - 1].end
        <5>1. CASE n = 0
          BY <2>5, <3>1, <5>1
        <5>2. CASE n # 0
          <6>1. k # 1 /\ k - 1 = n /\ n \in 1 .. n
            BY <1>1, <3>1, <5>2
          <6> QED
            BY <2>3, <2>5, <5>2, <6>1
        <5> QED
          BY <5>1, <5>2
      <4> QED
        BY <4>1, <4>2
    <3>2. CASE k # n + 1
      <4>1. k \in 1 .. n /\ (k # 1 => k - 1 \in 1 .. n)
        BY <1>1, <3>2
      <4>2. Follows(seq[k].start, IF k = 1 THEN 0 ELSE seq[k - 1].end, g)
        BY <4>1 DEF Chain
      <4> QED
        BY <2>3, <4>1, <4>2
    <3> QED
      BY <3>1, <3>2
  <2>7. Chain(all, g)
    BY <2>2, <2>6 DEF Chain
  <2>8. all # <<>>
    BY <1>1, <2>2
  <2>9. Reach(all) = w.end
    BY <2>2, <2>4, <2>8 DEF Reach, Last
  <2> QED
    BY <2>1, <2>2, <2>7, <2>9
<1> QED
  BY <1>2, <1>3

\* The terminal parses the next piece.
LEMMA WritingParsed ==
  ASSUME NEW p \in PaneSet, NEW q, NEW id \in Nat, NEW B, B \subseteq Nat, NEW g \in Nat,
         Writing(p, id, B, g), p.restore = <<>>, p.pending # <<>>,
         q.pending = Tail(p.pending), q.cursor = p.cursor, q.restore = p.restore,
         q.shown = IF Head(p.pending).runtime = id THEN Join(p.shown, Head(p.pending)) ELSE p.shown,
         q.rendered = IF Head(p.pending).runtime = id THEN Greatest(p.rendered, Head(p.pending).end)
                                                      ELSE p.rendered
  PROVE  /\ Writing(q, id, B, g)
         /\ q.shown \in Seq(Chunk) /\ q.rendered \in Nat /\ q.pending \in Seq(Piece)
<1> DEFINE n == Len(p.pending)
           w == Head(p.pending)
<1>1. p.pending \in Seq(Piece) /\ n \in Nat /\ n > 0 /\ 1 \in 1 .. n /\ p.shown \in Seq(Chunk) /\ p.rendered \in Nat
  BY DEF PaneSet
<1>2. w \in Piece /\ w = p.pending[1] /\ w.start \in Nat /\ w.end \in Nat
  <2>1. w \in Piece /\ w = p.pending[1]
    BY <1>1
  <2> QED
    BY <2>1 DEF Piece
<1>3. Len(q.pending) = n - 1 /\ q.pending \in Seq(Piece)
  BY <1>1
<1>4. \A k \in 1 .. n - 1 : q.pending[k] = p.pending[k + 1] /\ k + 1 \in 1 .. n
  BY <1>1
<1> HIDE DEF n, w
<1>5. Drawn(p) = p.shown /\ Drawn(q) = q.shown
  BY DEF Drawn
<1>6. /\ Rendering(p.shown, p.rendered, B, g) /\ Ordered(p.pending, id) /\ Parsing(p, id, B, g)
      /\ p.cursor \in B /\ Upto(p, n + 1, id) <= p.cursor
      /\ p.cursor = Upto(p, n + 1, id) \/ p.cursor <= g
  BY <1>5 DEF Writing, n
<1>7. /\ q.shown \in Seq(Chunk) /\ q.rendered \in Nat /\ Rendering(q.shown, q.rendered, B, g)
      /\ Reach(q.shown) = Upto(p, 2, id)
  <2>1. CASE w.runtime = id
    <3>1. q.shown = Join(p.shown, w) /\ q.rendered = Greatest(p.rendered, w.end)
      BY <2>1 DEF w
    <3>2. Upto(p, 1, id) = Reach(p.shown)
      BY <1>5 DEF Upto
    <3>3. Follows(w.start, Reach(p.shown), g) /\ w.start < w.end /\ w.end \in B
      BY <1>1, <1>2, <1>6, <2>1, <3>2 DEF Parsing, n
    <3>4. Chain(p.shown, g) /\ Reach(p.shown) <= p.rendered /\ p.rendered \in B
          /\ (p.rendered = Reach(p.shown) \/ p.rendered <= g)
      BY <1>6 DEF Rendering
    <3>5. q.shown \in Seq(Chunk) /\ Chain(q.shown, g) /\ Reach(q.shown) = w.end
      BY <1>1, <1>2, <3>1, <3>3, <3>4, JoinChain
    <3>6. PICK r \in Nat : r = Reach(p.shown)
      BY <1>1, ReachNat
    <3>7. q.rendered \in B /\ q.rendered \in Nat /\ w.end <= q.rendered /\ (q.rendered = w.end \/ q.rendered <= g)
      <4>1. w.end > r
        BY <1>2, <3>3, <3>6 DEF Follows
      <4> QED
        BY <1>1, <1>2, <3>1, <3>3, <3>4, <3>6, <4>1 DEF Greatest
    <3>8. Upto(p, 2, id) = w.end
      BY <1>2, <2>1 DEF Upto
    <3> QED
      BY <3>5, <3>7, <3>8 DEF Rendering
  <2>2. CASE w.runtime # id
    <3>1. q.shown = p.shown /\ q.rendered = p.rendered
      BY <2>2 DEF w
    <3>2. Upto(p, 2, id) = Reach(p.shown)
      BY <1>2, <1>5, <2>2 DEF Upto
    <3> QED
      BY <1>1, <1>6, <3>1, <3>2
  <2> QED
    BY <2>1, <2>2
<1>8. \A k \in 1 .. n : Upto(q, k, id) = Upto(p, k + 1, id)
  <2> SUFFICES ASSUME NEW k \in 1 .. n PROVE Upto(q, k, id) = Upto(p, k + 1, id)
    OBVIOUS
  <2>1. CASE k = 1
    BY <1>5, <1>7, <2>1 DEF Upto
  <2>2. CASE k # 1
    <3>1. k - 1 \in 1 .. n - 1 /\ (k - 1) + 1 = k /\ (k + 1) - 1 = k /\ k + 1 # 1
      BY <1>1, <2>2
    <3>2. q.pending[k - 1] = p.pending[k]
      BY <1>4, <3>1
    <3>3. Upto(q, k, id) = IF p.pending[k].runtime # id THEN Reach(q.shown) ELSE p.pending[k].end
      BY <1>5, <2>2, <3>2 DEF Upto
    <3>4. Upto(p, k + 1, id) = IF p.pending[k].runtime # id THEN Reach(p.shown) ELSE p.pending[k].end
      BY <1>5, <3>1 DEF Upto
    <3>5. CASE p.pending[k].runtime = id
      BY <3>3, <3>4, <3>5
    <3>6. CASE p.pending[k].runtime # id
      <4>1. w.runtime # id
        <5>1. 1 <= k /\ k \in 1 .. Len(p.pending) /\ 1 \in 1 .. Len(p.pending)
          BY <1>1 DEF n
        <5> QED
          BY <1>2, <1>6, <3>6, <5>1 DEF Ordered
      <4>2. q.shown = p.shown
        BY <4>1 DEF w
      <4> QED
        BY <3>3, <3>4, <3>6, <4>2
    <3> QED
      BY <3>5, <3>6
  <2> QED
    BY <2>1, <2>2
<1>9. Ordered(q.pending, id)
  BY <1>1, <1>6, OrderedTail
<1>10. Parsing(q, id, B, g)
  <2> SUFFICES ASSUME NEW k \in 1 .. Len(q.pending), q.pending[k].runtime = id
               PROVE  /\ Follows(q.pending[k].start, Upto(q, k, id), g)
                      /\ q.pending[k].start < q.pending[k].end /\ q.pending[k].end \in B
    BY DEF Parsing
  <2>1. q.pending[k] = p.pending[k + 1] /\ k + 1 \in 1 .. n /\ k \in 1 .. n
    BY <1>1, <1>3, <1>4
  <2>2. Upto(q, k, id) = Upto(p, k + 1, id)
    BY <1>8, <2>1
  <2> QED
    BY <1>6, <2>1, <2>2 DEF Parsing, n
<1>11. Upto(q, Len(q.pending) + 1, id) = Upto(p, n + 1, id)
  <2>1. Len(q.pending) + 1 = n /\ n \in 1 .. n
    BY <1>1, <1>3
  <2> QED
    BY <1>8, <2>1
<1>12. q.restore # <<>> => q.shown = <<>>
  OBVIOUS
<1>13. Writing(q, id, B, g)
  BY <1>5, <1>6, <1>7, <1>9, <1>10, <1>11, <1>12 DEF Writing
<1> QED
  BY <1>3, <1>7, <1>13

-----------------------------------------------------------------------------
\* What writing leaves alone.
Alike(p, q) ==
  /\ q.mounted = p.mounted /\ q.visible = p.visible /\ q.catching = p.catching
  /\ q.needs = p.needs /\ q.queue = p.queue

\* An event is written from where the pane is.
LEMMA WriteOutputWrites ==
  ASSUME bounds \subseteq Nat, runtime \in Nat, NEW p \in PaneSet, NEW g \in Nat,
         Writing(p, runtime, bounds, g), NEW e \in Event, e.runtime = runtime,
         e.start < e.end, e.end \in bounds, e.start <= p.cursor
  PROVE  LET q == WriteOutput(p, e)
         IN  q \in PaneSet /\ Writing(q, runtime, bounds, g) /\ Alike(p, q) /\ e.end <= q.cursor
<1> DEFINE q == WriteOutput(p, e)
<1>1. p.cursor \in Nat /\ p.pending \in Seq(Piece) /\ p.paused \in BOOLEAN /\ e.start \in Nat /\ e.end \in Nat
  BY DEF PaneSet, Event
<1>2. CASE e.end <= p.cursor
  <2>1. q = p
    BY <1>2 DEF WriteOutput
  <2> QED
    BY <1>2, <2>1 DEF Alike
<1>3. CASE ~(e.end <= p.cursor)
  <2>1. (IF e.start >= p.cursor THEN e.start ELSE Round(bounds, p.cursor, FALSE)) = p.cursor
    <3>1. CASE e.start >= p.cursor
      BY <1>1, <3>1
    <3>2. CASE ~(e.start >= p.cursor)
      <4>1. p.cursor \in bounds
        BY DEF Writing
      <4>2. PICK c \in Nat : c = p.cursor
        BY <1>1
      <4>20. PICK b : b = Round(bounds, c, FALSE)
        OBVIOUS
      <4>3. b \in bounds /\ b <= c /\ \A x \in bounds : x <= c => x <= b
        <5>1. c \in bounds /\ c <= c
          BY <4>1, <4>2
        <5> QED
          BY <4>20, <5>1, RoundDown, Zenon
      <4>4. b = c
        <5>1. c \in bounds /\ c <= c /\ c \in Nat /\ b \in Nat
          BY <4>1, <4>2, <4>3
        <5>2. c <= b /\ b <= c
          BY <4>3, <5>1
        <5> QED
          BY <5>1, <5>2
      <4> QED
        BY <3>2, <4>2, <4>20, <4>4
    <3> QED
      BY <3>1, <3>2
  <2> DEFINE w  == [runtime |-> e.runtime, start |-> p.cursor, end |-> e.end, event |-> TRUE]
             q1 == [p EXCEPT !.cursor = e.end, !.pending = Append(@, w)]
             stop == p.paused \/ (p.visible /\ Backlog(q1) >= HighWater)
  <2>2. q = [q1 EXCEPT !.paused = @ \/ (p.visible /\ Backlog(q1) >= HighWater)]
    BY <1>3, <2>1 DEF WriteOutput
  <2>3. w \in Piece /\ w.runtime = runtime /\ w.start = p.cursor /\ w.end = e.end
    BY <1>1 DEF Piece
  <2> HIDE DEF w
  <2>4. q1 \in PaneSet /\ q1.paused = p.paused
    <3>1. Append(p.pending, w) \in Seq(Piece)
      BY <1>1, <2>3
    <3> QED
      BY <1>1, <3>1 DEF PaneSet
  <2>5. /\ q1.pending = Append(p.pending, w) /\ q1.cursor = e.end /\ q1.shown = p.shown
        /\ q1.restore = p.restore /\ q1.rendered = p.rendered /\ Alike(p, q1)
    BY DEF PaneSet, Alike
  <2> HIDE DEF q1
  <2>6. q = [q1 EXCEPT !.paused = stop] /\ stop \in BOOLEAN
    BY <2>2, <2>4
  <2> HIDE DEF stop, q
  <2>7. q \in PaneSet
    BY <2>4, <2>6 DEF PaneSet
  <2>8. /\ q.pending = q1.pending /\ q.cursor = q1.cursor /\ q.shown = q1.shown
        /\ q.restore = q1.restore /\ q.rendered = q1.rendered /\ Alike(q1, q)
    BY <2>4, <2>6 DEF PaneSet, Alike
  <2>9. Writing(q, runtime, bounds, g)
    <3>1. w.start < w.end /\ w.end \in bounds
      BY <1>1, <1>3, <2>3
    <3> QED
      BY <2>3, <2>5, <2>7, <2>8, <3>1, WritingAppend
  <2>10. Alike(p, q)
    BY <2>5, <2>8 DEF Alike
  <2>11. e.end <= q.cursor
    BY <1>1, <2>5, <2>8
  <2> QED
    BY <2>7, <2>9, <2>10, <2>11 DEF q
<1> QED
  BY <1>2, <1>3

\* The writes of the events of a queue, one after the other.
Writes(f, n, p, queue) ==
  f = [k \in 0 .. n |-> IF k = 0 THEN p ELSE WriteOutput(f[k - 1], queue[k])]

LEMMA WritesExist ==
  ASSUME NEW p, NEW queue, Len(queue) \in Nat
  PROVE  \E f : Writes(f, Len(queue), p, queue) /\ WriteQueue(p, queue) = f[Len(queue)]
<1> DEFINE T == {n \in Nat : \E f : Writes(f, n, p, queue)}
<1>1. 0 \in T
  <2>1. Writes([k \in 0 .. 0 |-> p], 0, p, queue)
    BY DEF Writes
  <2> QED
    BY <2>1
<1>2. ASSUME NEW n \in Nat, n \in T PROVE n + 1 \in T
  <2>1. PICK f : Writes(f, n, p, queue)
    BY <1>2
  <2> DEFINE h == [k \in 0 .. n + 1 |-> IF k = n + 1 THEN WriteOutput(f[n], queue[n + 1]) ELSE f[k]]
  <2>2. \A k \in 0 .. n : h[k] = f[k]
    OBVIOUS
  <2>3. \A k \in 0 .. n : f[k] = IF k = 0 THEN p ELSE WriteOutput(f[k - 1], queue[k])
    BY <2>1 DEF Writes
  <2>4. ASSUME NEW k \in 0 .. n + 1
        PROVE  h[k] = IF k = 0 THEN p ELSE WriteOutput(h[k - 1], queue[k])
    <3>1. CASE k = n + 1
      <4>1. h[k] = WriteOutput(f[n], queue[n + 1]) /\ k - 1 = n /\ n \in 0 .. n
        BY <3>1
      <4> HIDE DEF h
      <4> QED
        BY <3>1, <4>1, <2>2
    <3>2. CASE k # n + 1
      <4>1. k \in 0 .. n /\ (k # 0 => k - 1 \in 0 .. n)
        BY <3>2
      <4> HIDE DEF h
      <4> QED
        BY <4>1, <2>2, <2>3
    <3> QED
      BY <3>1, <3>2
  <2>5. Writes(h, n + 1, p, queue)
    <3>1. h = [k \in 0 .. n + 1 |-> h[k]]
      OBVIOUS
    <3> HIDE DEF h
    <3> QED
      BY <2>4, <3>1 DEF Writes
  <2> QED
    BY <2>5
<1>3. Len(queue) \in T
  <2> HIDE DEF T
  <2>1. Nat \subseteq T
    BY <1>1, <1>2, Induction
  <2> QED
    BY <2>1
<1>4. PICK f : Writes(f, Len(queue), p, queue)
  BY <1>3
<1> DEFINE c == CHOOSE f1 : Writes(f1, Len(queue), p, queue)
<1>5. Writes(c, Len(queue), p, queue)
  BY <1>4
<1>6. WriteQueue(p, queue) = c[Len(queue)]
  BY DEF WriteQueue, Writes
<1> HIDE DEF c
<1> QED
  BY <1>5, <1>6

\* A queue that begins no later than where the pane is, is written to its end.
LEMMA WriteQueueWrites ==
  ASSUME bounds \subseteq Nat, runtime \in Nat, NEW p \in PaneSet, NEW g \in Nat,
         Writing(p, runtime, bounds, g), NEW queue \in Seq(Event), NEW upto \in Nat,
         Streaming(queue, upto, runtime, bounds), \A k \in 1 .. Len(queue) : queue[k].runtime = runtime,
         Begin(queue, upto, runtime) <= p.cursor
  PROVE  LET q == WriteQueue(p, queue)
         IN  q \in PaneSet /\ Writing(q, runtime, bounds, g) /\ Alike(p, q) /\ upto <= q.cursor
<1> DEFINE n == Len(queue)
<1>1. n \in Nat
  OBVIOUS
<1>2. PICK f : Writes(f, n, p, queue) /\ WriteQueue(p, queue) = f[n]
  BY <1>1, WritesExist
<1>3. \A k \in 0 .. n : f[k] = IF k = 0 THEN p ELSE WriteOutput(f[k - 1], queue[k])
  BY <1>2 DEF Writes
<1>4. \A k \in 1 .. n :
        /\ queue[k] \in Event /\ queue[k].runtime = runtime /\ queue[k].start < queue[k].end
        /\ queue[k].end \in bounds
        /\ queue[k].end = IF k = n THEN upto ELSE queue[k + 1].start
  BY DEF Streaming
<1>5. n > 0 => Begin(queue, upto, runtime) = queue[1].start
  <2> SUFFICES ASSUME n > 0 PROVE Begin(queue, upto, runtime) = queue[1].start
    OBVIOUS
  <2>1. 1 \in 1 .. Len(queue)
    BY <1>1
  <2>2. Leads(queue, 1, runtime) /\ Ordered(queue, runtime)
    BY <2>1 DEF Leads, Streaming
  <2> QED
    BY <2>1, <2>2, BeginLeads
<1>6. n = 0 => Begin(queue, upto, runtime) = upto
  <2> SUFFICES ASSUME n = 0 PROVE Begin(queue, upto, runtime) = upto
    OBVIOUS
  <2>1. \A k \in 1 .. Len(queue) : queue[k].runtime # runtime
    OBVIOUS
  <2> QED
    BY <2>1, BeginNone
<1> HIDE DEF n
<1> DEFINE Done(k) == /\ f[k] \in PaneSet /\ Writing(f[k], runtime, bounds, g) /\ Alike(p, f[k])
                      /\ k = 0 => f[k] = p
                      /\ k > 0 => queue[k].end <= f[k].cursor
           T == {k \in Nat : k <= n => Done(k)}
<1>7. Done(0)
  <2>1. f[0] = p
    BY <1>1, <1>3
  <2> QED
    BY <2>1 DEF Alike
<1>8. ASSUME NEW k \in Nat, k + 1 <= n, Done(k) PROVE Done(k + 1)
  <2>1. k \in 0 .. n /\ k + 1 \in 1 .. n /\ k + 1 \in 0 .. n /\ k + 1 # 0 /\ (k + 1) - 1 = k
    BY <1>1, <1>8
  <2>2. f[k + 1] = WriteOutput(f[k], queue[k + 1])
    BY <1>3, <2>1
  <2>3. queue[k + 1].start <= f[k].cursor
    <3>1. CASE k = 0
      BY <1>1, <1>5, <1>8, <3>1
    <3>2. CASE k # 0
      <4>1. k \in 1 .. n /\ k # n
        BY <2>1, <1>8, <3>2, <1>1
      <4> QED
        BY <1>4, <1>8, <4>1
    <3> QED
      BY <3>1, <3>2
  <2>4. f[k] \in PaneSet /\ Writing(f[k], runtime, bounds, g) /\ Alike(p, f[k])
    BY <1>8
  <2>5. PICK r \in PaneSet, e \in Event : r = f[k] /\ e = queue[k + 1]
    BY <1>4, <2>1, <2>4
  <2>6. /\ WriteOutput(r, e) \in PaneSet /\ Writing(WriteOutput(r, e), runtime, bounds, g)
        /\ Alike(r, WriteOutput(r, e)) /\ e.end <= WriteOutput(r, e).cursor
    BY <1>4, <2>1, <2>3, <2>4, <2>5, WriteOutputWrites
  <2>7. f[k + 1] = WriteOutput(r, e)
    BY <2>2, <2>5
  <2>8. Alike(p, f[k + 1])
    BY <2>4, <2>5, <2>6, <2>7 DEF Alike
  <2> QED
    BY <2>1, <2>5, <2>6, <2>7, <2>8
<1>9. n \in T
  <2>1. 0 \in T
    BY <1>7
  <2>2. ASSUME NEW k \in Nat, k \in T PROVE k + 1 \in T
    BY <1>1, <1>8, <2>2
  <2> HIDE DEF T
  <2>3. Nat \subseteq T
    BY <2>1, <2>2, Induction
  <2> QED
    BY <1>1, <2>3
<1>10. Done(n)
  BY <1>1, <1>9
<1>11. upto <= f[n].cursor
  <2>1. CASE n = 0
    BY <1>6, <1>10, <2>1
  <2>2. CASE n # 0
    <3>1. n \in 1 .. n /\ n > 0
      BY <1>1, <2>2
    <3> QED
      BY <1>4, <1>10, <3>1
  <2> QED
    BY <2>1, <2>2
<1> QED
  BY <1>2, <1>10, <1>11

\* A catch-up starts, or it does not.
LEMMA CatchUpStarts ==
  ASSUME NEW p \in PaneSet, runtime' \in Nat
  PROVE  LET q == CatchUp(p)
         IN  /\ q \in PaneSet
             /\ q.mounted = p.mounted /\ q.visible = p.visible /\ q.queue = p.queue
             /\ q.cursor = p.cursor /\ q.rendered = p.rendered /\ q.pending = p.pending
             /\ q.shown = p.shown /\ q.restore = p.restore
             /\ \/ q = p /\ ~(p.mounted /\ p.catching = 0 /\ p.needs /\ p.visible)
                \/ p.mounted /\ p.catching = 0 /\ q.catching = runtime' /\ q.needs = FALSE
<1> DEFINE q == CatchUp(p)
<1>1. CASE p.mounted /\ p.catching = 0 /\ p.needs /\ p.visible
  <2>1. q = [p EXCEPT !.catching = runtime', !.needs = FALSE]
    BY <1>1 DEF CatchUp
  <2> QED
    BY <1>1, <2>1 DEF PaneSet
<1>2. CASE ~(p.mounted /\ p.catching = 0 /\ p.needs /\ p.visible)
  <2>1. q = p
    BY <1>2 DEF CatchUp
  <2> QED
    BY <1>2, <2>1
<1> QED
  BY <1>1, <1>2

\* A catch-up read brings what follows the cursor, or what is left of it; nothing
\* only where there is nothing.
LEMMA ReadReplies ==
  ASSUME Ring, NEW c \in bounds
  PROVE  LET res == Read(c, HighWater)
         IN  Replied(res, c, bounds, Earliest) /\ (res.len = 0 => c = next_cursor)
<1> DEFINE from  == Least(Greatest(c, Earliest), next_cursor)
           limit == Greatest(HighWater, MinRead)
           end   == Passes(from, limit)[Len(chunks)]
           res   == Read(c, HighWater)
           first == res.next - res.len
<1>1. /\ Len(chunks) \in Nat /\ next_cursor \in Nat /\ next_cursor \in bounds /\ bounds \subseteq Nat
      /\ \A b \in bounds : b <= next_cursor
      /\ Earliest \in Nat /\ Earliest <= next_cursor
      /\ Earliest = IF Len(chunks) = 0 THEN next_cursor ELSE chunks[1].start
      /\ Len(chunks) # 0 => chunks[1].start \in bounds
  BY Chunks
<1>2. Earliest \in bounds
  BY <1>1
<1>3. HighWater \in Nat /\ MinRead \in Nat /\ CharLen \in Nat /\ CharLen <= MinRead /\ MinRead # 0
  BY OutputAssumption, PaneAssumption
<1>4. c \in Nat /\ c <= next_cursor
  BY <1>1
<1>5. from \in Earliest .. next_cursor /\ from \in bounds /\ from \in Nat /\ limit \in Nat \ {0} /\ CharLen <= limit
      /\ (from = c \/ (c < from /\ from <= Earliest))
      /\ Least(Greatest(c, Earliest), next_cursor) = from /\ Greatest(HighWater, MinRead) = limit
  BY <1>1, <1>2, <1>3, <1>4 DEF Least, Greatest
<1>6. Promised(c, HighWater, res)
  BY <1>3, <1>4, ReadPromised
<1>7. res.len = end.len /\ res.next = end.next
  BY DEF Read
<1> HIDE DEF from, limit
<1>8. end.len \in Nat /\ end.next \in Nat
  <2>1. Reached(end, Len(chunks), from, limit)
    BY <1>5, ReachedAll
  <2> HIDE DEF end
  <2> QED
    BY <2>1 DEF Reached
<1> HIDE DEF end, res
<1>9. /\ first \in bounds /\ res.next \in bounds
      /\ from <= first /\ \A b \in bounds : b >= from => b >= first
      /\ \A b \in bounds : res.next < b /\ b <= first + limit => res.len = 0 /\ from < first
  BY <1>5, <1>6 DEF Promised
<1>10. first \in Nat /\ res.next = first + res.len
  BY <1>1, <1>7, <1>8, <1>9
<1> HIDE DEF first
<1>11. first = from
  BY <1>1, <1>5, <1>9, <1>10
<1>12. Replied(res, c, bounds, Earliest)
  BY <1>5, <1>7, <1>8, <1>9, <1>10, <1>11 DEF Replied
<1>13. ASSUME res.len = 0 PROVE c = next_cursor
  <2>1. res.next = from
    BY <1>5, <1>10, <1>11, <1>13
  <2>2. from = next_cursor
    <3>1. SUFFICES ASSUME from < next_cursor PROVE FALSE
      BY <1>1, <1>5
    <3>2. from \in 0 .. next_cursor - 1
      BY <1>1, <1>5, <3>1
    <3>3. PICK b \in bounds : from < b /\ b <= from + CharLen
      BY <3>2 DEF Ring, Adjoining, Characters
    <3>4. b <= first + limit
      BY <1>1, <1>3, <1>5, <1>11, <3>3
    <3> QED
      BY <1>5, <1>9, <1>11, <2>1, <3>3, <3>4
  <2>3. CASE from = c
    BY <2>2, <2>3
  <2>4. CASE from <= Earliest
    <3>1. Earliest = next_cursor
      BY <1>1, <2>2, <2>4
    <3>2. next_cursor = 0
      BY <1>1, <3>1 DEF Ring, Bounded
    <3> QED
      BY <1>4, <3>2
  <2> QED
    BY <1>5, <2>3, <2>4
<1> QED
  BY <1>12, <1>13 DEF res

\* The stream grows at its end, and the ring forgets at its front.
LEMMA PushGrows ==
  ASSUME Ring, Push
  PROVE  /\ Ring' /\ bounds \subseteq bounds' /\ next_cursor' \in bounds' /\ next_cursor' \in Nat
         /\ next_cursor < next_cursor' /\ next_cursor \in bounds' /\ Earliest <= Earliest'
         /\ Earliest' \in Nat /\ reader' = reader
<1>1. Ring'
  BY RingNext DEF Next
<1>2. PICK end \in next_cursor + 1 .. Least(next_cursor + MaxPush, MaxOut) :
          \E B \in SUBSET (next_cursor + 1 .. end) :
            /\ Characters(B, next_cursor, end)
            /\ next_cursor' = end
            /\ bounds' = bounds \cup B
            /\ Evict(Append(chunks, [start |-> next_cursor, end |-> end]))
  BY DEF Push
<1>3. /\ Len(chunks) \in Nat /\ next_cursor \in Nat /\ next_cursor \in bounds /\ bounds \subseteq Nat
      /\ \A k \in 1 .. Len(chunks) : chunks[k].start \in Nat /\ chunks[k].end \in Nat
      /\ Earliest \in Nat
      /\ Earliest = IF Len(chunks) = 0 THEN next_cursor ELSE chunks[1].start
  BY Chunks
<1>30. MaxOut \in Nat /\ MaxPush \in Nat /\ Capacity \in Nat
  BY OutputAssumption
<1>4. next_cursor' \in Nat /\ next_cursor < next_cursor' /\ bounds \subseteq bounds' /\ next_cursor' = end /\ end \in Nat
  BY <1>2, <1>3, <1>30 DEF Least
<1>5. next_cursor' \in bounds'
  BY <1>1, Chunks DEF Ring, Adjoining, Characters
<1> DEFINE all == Append(chunks, [start |-> next_cursor, end |-> end])
<1>6. Longer(all, end)
  BY <1>4, AppendAdjoins
<1>7. all[1].start = Earliest
  <2>1. chunks \in Seq(Chunk)
    BY DEF Ring
  <2>2. CASE Len(chunks) = 0
    BY <1>3, <2>1, <2>2
  <2>3. CASE Len(chunks) # 0
    <3>1. 1 \in 1 .. Len(chunks)
      BY <1>3, <2>3
    <3>2. all[1] = chunks[1]
      BY <2>1, <3>1
    <3> QED
      BY <1>3, <2>3, <3>2
  <2> QED
    BY <2>2, <2>3
<1>8. Evict(all)
  BY <1>2
<1> HIDE DEF all
<1>9. all \in Seq(Chunk) /\ Len(all) \in Nat /\ Len(all) > 0
  BY <1>6 DEF Longer
<1>10. PICK k \in 1 .. Len(all) :
         /\ all[Len(all)].end - all[k].start <= Capacity
         /\ \A j \in 1 .. k - 1 : ~(all[Len(all)].end - all[j].start <= Capacity)
         /\ chunks' = SubSeq(all, k, Len(all))
  BY <1>8 DEF Evict
<1>11. \A j \in 1 .. Len(all) : all[j].start \in Nat /\ all[j].end \in Nat
  <2>1. \A j \in 1 .. Len(all) : all[j] \in Chunk
    BY <1>9
  <2> QED
    BY <2>1 DEF Chunk
<1>12. chunks' # <<>> /\ chunks'[1] = all[k]
  <2>1. chunks' = SubSeq(all, k, Len(all)) /\ k \in 1 .. Len(all)
    BY <1>10
  <2>2. Len(chunks') = Len(all) - k + 1 /\ \A i \in 1 .. Len(chunks') : chunks'[i] = all[k + i - 1]
    BY <1>9, <2>1
  <2>3. 1 \in 1 .. Len(chunks') /\ k + 1 - 1 = k
    BY <1>9, <2>1, <2>2
  <2> QED
    BY <2>2, <2>3
<1>13. Earliest' = all[k].start
  BY <1>12 DEF Earliest
<1>14. all[1].start <= all[k].start
  <2>1. 1 \in 1 .. Len(all) /\ Len(all) \in 1 .. Len(all) /\ k \in 1 .. Len(all)
    BY <1>9
  <2>2. PICK m \in Nat, a \in Nat, b \in Nat : m = all[Len(all)].end /\ a = all[1].start /\ b = all[k].start
    BY <1>11, <2>1
  <2>3. CASE k = 1
    BY <2>2, <2>3
  <2>4. CASE k # 1
    <3>1. 1 \in 1 .. k - 1
      BY <1>9, <2>4
    <3>2. m - b <= Capacity
      BY <1>10, <2>2
    <3>3. ~(m - a <= Capacity)
      BY <1>10, <2>2, <3>1
    <3>4. a <= b
      BY <1>30, <3>2, <3>3
    <3> QED
      BY <2>2, <3>4
  <2> QED
    BY <2>3, <2>4
<1>15. reader' = reader
  BY DEF Push
<1>16. Earliest' \in Nat
  BY <1>11, <1>13
<1> QED
  BY <1>1, <1>3, <1>4, <1>5, <1>7, <1>13, <1>14, <1>15, <1>16

-----------------------------------------------------------------------------
\* What the invariant says of the numbers.
LEMMA Known ==
  ASSUME PaneInv
  PROVE  /\ runtime \in Nat /\ runtime # 0 /\ bare \in Nat /\ bounds \subseteq Nat
         /\ next_cursor \in Nat /\ next_cursor \in bounds /\ \A b \in bounds : b <= next_cursor
         /\ Earliest \in Nat /\ Gone \in Nat
         /\ Due \in bounds /\ Due \in Nat
         /\ pane.catching # 0 => pane.mounted
<1>1. /\ next_cursor \in Nat /\ next_cursor \in bounds /\ bounds \subseteq 0 .. next_cursor
      /\ Earliest \in 0 .. next_cursor
  BY Chunks DEF PaneInv
<1>2. runtime \in Nat /\ runtime # 0 /\ bare \in Nat /\ transit \in Seq(Event)
  BY DEF PaneInv, PaneType
<1>3. Gone \in Nat
  BY <1>1, <1>2 DEF Gone, Greatest
<1>4. Due \in bounds
  BY <1>1, <1>2, BeginBounds DEF PaneInv, Due
<1>5. pane.catching # 0 => pane.mounted
  <2>1. Fresh.catching = 0
    BY DEF Fresh
  <2> QED
    BY <2>1 DEF PaneInv
<1>6. bounds \subseteq Nat /\ \A b \in bounds : b <= next_cursor
  BY <1>1
<1>7. Earliest \in Nat /\ Due \in Nat
  BY <1>1, <1>4, <1>6
<1> QED
  BY <1>1, <1>2, <1>3, <1>4, <1>5, <1>6, <1>7

\* A step that leaves the stream, the Runtime and what is on its way alone.
LEMMA Still ==
  ASSUME PaneInv, UNCHANGED <<chunks, next_cursor, bounds, runtime, bare, transit>>,
         pane' \in PaneSet, pane'.catching <= runtime,
         served' \in {"no", "yes", "failed"}, DOMAIN reader' = Readers,
         snapshot' \in [runtime : {0, runtime}, cursor : Nat, shown : Seq(Chunk)],
         pane'.mounted => Writing(pane', runtime, bounds, Gone),
         CaughtUp(pane', Due),
         Queued(pane', served', Due, runtime, bounds),
         Answered(pane', served', reader'[Pane], Due, runtime, bounds, Earliest),
         ~pane'.mounted => pane' = Fresh,
         snapshot'.runtime = runtime => Rendering(snapshot'.shown, snapshot'.cursor, bounds, Gone)
  PROVE  PaneInv'
<1>1. Earliest' = Earliest
  BY DEF Earliest
<1>2. Gone' = Gone
  BY <1>1 DEF Gone
<1>3. Due' = Due
  BY DEF Due
<1>4. Ring' /\ 0 \in bounds'
  BY <1>1 DEF PaneInv, Ring, Adjoining, Bounded
<1>5. PaneType'
  BY DEF PaneInv, PaneType
<1>6. Streaming(transit', next_cursor', runtime', bounds')
  BY DEF PaneInv
<1> QED
  BY <1>1, <1>2, <1>3, <1>4, <1>5, <1>6 DEF PaneInv

\* The first pane, and the first Runtime.
LEMMA PaneInvInit == PaneInit => PaneInv
<1> SUFFICES ASSUME PaneInit PROVE PaneInv
  OBVIOUS
<1>1. Ring /\ 0 \in bounds
  BY RingInit DEF PaneInit, Init
<1>2. Fresh \in PaneSet /\ Fresh.catching = 0 /\ Fresh.mounted = FALSE /\ Fresh.queue = <<>> /\ Fresh.needs = TRUE
  BY DEF Fresh, PaneSet
<1>3. NoSnapshot \in [runtime : {0, 1}, cursor : Nat, shown : Seq(Chunk)] /\ NoSnapshot.runtime = 0
  BY DEF NoSnapshot
<1>4. Earliest = 0
  BY DEF PaneInit, Init, Earliest
<1>5. PaneType
  BY <1>2, <1>3, <1>4 DEF PaneInit, Init, PaneType
<1>6. Streaming(<<>>, next_cursor, runtime, bounds)
  BY DEF Streaming, Ordered
<1>7. /\ CaughtUp(pane, Due) /\ Queued(pane, served, Due, runtime, bounds)
      /\ Answered(pane, served, reader[Pane], Due, runtime, bounds, Earliest)
  BY <1>2 DEF PaneInit, CaughtUp, Queued, Answered
<1> QED
  BY <1>1, <1>2, <1>3, <1>5, <1>6, <1>7 DEF PaneInv, PaneInit

\* The Runtime goes on.
LEMMA EmitKeeps ==
  ASSUME PaneInv, Emit
  PROVE  PaneInv'
<1>1. /\ Ring /\ Push /\ 0 \in bounds /\ UNCHANGED <<runtime, pane, served, snapshot, bare>>
      /\ transit \in Seq(Event) /\ runtime \in Nat /\ Streaming(transit, next_cursor, runtime, bounds)
  BY DEF PaneInv, PaneType, Emit
<1>2. /\ Ring' /\ bounds \subseteq bounds' /\ next_cursor' \in bounds' /\ next_cursor' \in Nat
      /\ next_cursor < next_cursor' /\ next_cursor \in bounds' /\ Earliest <= Earliest'
      /\ Earliest' \in Nat /\ reader' = reader
  BY <1>1, PushGrows
<1>3. Gone \in Nat /\ Gone' \in Nat /\ Gone <= Gone'
  <2>1. Earliest \in Nat /\ bare \in Nat /\ bare' = bare
    BY <1>1, Known
  <2> QED
    BY <1>2, <2>1 DEF Gone, Greatest
<1> DEFINE e == [runtime |-> runtime, start |-> next_cursor, end |-> next_cursor']
<1>4. e \in Event /\ e.runtime = runtime /\ e.start = next_cursor /\ e.end = next_cursor'
  BY <1>1, <1>2, Known DEF Event
<1>5. transit' = Append(transit, e)
  BY DEF Emit
<1> HIDE DEF e
<1>6. Streaming(transit, e.start, runtime, bounds')
  BY <1>1, <1>2, <1>4, StreamWider
<1>7. Streaming(transit', next_cursor', runtime, bounds') /\ Begin(transit', next_cursor', runtime) = Due
  BY <1>1, <1>2, <1>4, <1>5, <1>6, StreamAppend DEF Due
<1>8. Due' = Due
  BY <1>1, <1>7 DEF Due
<1>9. PaneType'
  <2>1. transit' \in Seq(Event)
    BY <1>1, <1>4, <1>5
  <2> QED
    BY <1>1, <1>2, <2>1 DEF PaneInv, PaneType
<1>10. pane'.mounted => Writing(pane', runtime', bounds', Gone')
  BY <1>1, <1>2, <1>3, WritingWider DEF PaneInv, PaneType
<1>11. Queued(pane', served', Due', runtime', bounds')
  BY <1>1, <1>2, <1>8, StreamWider DEF PaneInv, Queued
<1>12. Answered(pane', served', reader'[Pane], Due', runtime', bounds', Earliest')
  <2>1. \A f \in bounds : f <= Earliest => f <= Earliest'
    BY <1>2, Known
  <2> QED
    BY <1>1, <1>2, <1>8, <2>1 DEF PaneInv, Answered, Replied
<1>13. snapshot'.runtime = runtime' => Rendering(snapshot'.shown, snapshot'.cursor, bounds', Gone')
  <2>1. snapshot.shown \in Seq(Chunk) /\ snapshot.cursor \in Nat
    BY DEF PaneInv, PaneType
  <2> QED
    BY <1>1, <1>2, <1>3, <2>1, RenderingWider DEF PaneInv
<1>14. CaughtUp(pane', Due') /\ (~pane'.mounted => pane' = Fresh)
  BY <1>1, <1>8 DEF PaneInv
<1>15. Streaming(transit', next_cursor', runtime', bounds') /\ 0 \in bounds'
  BY <1>1, <1>2, <1>7
<1> QED
  BY <1>2, <1>9, <1>10, <1>11, <1>12, <1>13, <1>14, <1>15 DEF PaneInv

\* A read is served from the ring, or fails.
LEMMA ServeKeeps ==
  ASSUME PaneInv, Serve
  PROVE  PaneInv'
<1>1. /\ pane.catching # 0 /\ served = "no" /\ served' = "yes"
      /\ UNCHANGED <<runtime, transit, pane, snapshot, bare>>
  BY DEF Serve
<1>2. UNCHANGED <<chunks, next_cursor, bounds>> /\ DOMAIN reader' = Readers
  BY DEF Serve, ReadFrom, vars, PaneInv, PaneType
<1>3. Answered(pane', served', reader'[Pane], Due, runtime, bounds, Earliest)
  <2> SUFFICES ASSUME pane.catching = runtime
               PROVE  /\ Replied(reader'[Pane], pane.cursor, bounds, Earliest)
                      /\ ~pane.needs /\ reader'[Pane].len = 0 => Begin(pane.queue, Due, runtime) <= pane.cursor
    BY <1>1 DEF Answered
  <2>1. reader'[Pane] = Read(pane.cursor, HighWater)
    BY PaneAssumption DEF Serve, ReadFrom, PaneInv, PaneType
  <2>2. pane.cursor \in bounds
    BY <1>1, Known DEF PaneInv, Writing
  <2>3. PICK c \in bounds : c = pane.cursor
    BY <2>2
  <2>4. /\ Replied(Read(c, HighWater), c, bounds, Earliest)
        /\ Read(c, HighWater).len = 0 => c = next_cursor
    BY ReadReplies DEF PaneInv
  <2>5. ASSUME ~pane.needs, reader'[Pane].len = 0 PROVE Begin(pane.queue, Due, runtime) <= pane.cursor
    <3>1. Streaming(pane.queue, Due, runtime, bounds)
      BY <2>5 DEF PaneInv, Queued
    <3>2. pane.queue \in Seq(Event)
      BY DEF PaneInv, PaneType, PaneSet
    <3>3. Begin(pane.queue, Due, runtime) \in bounds
      BY <3>1, <3>2, Known, BeginBounds
    <3> QED
      BY <2>1, <2>3, <2>4, <2>5, <3>3, Known
  <2> QED
    BY <2>1, <2>3, <2>4, <2>5
<1>4. Queued(pane', served', Due, runtime, bounds)
  BY <1>1 DEF PaneInv, Queued
<1> QED
  BY <1>1, <1>2, <1>3, <1>4, Still DEF PaneInv, PaneType

LEMMA ServeFailsKeeps ==
  ASSUME PaneInv, ServeFails
  PROVE  PaneInv'
<1>1. /\ pane.catching # 0 /\ served' = "failed"
      /\ UNCHANGED <<chunks, next_cursor, bounds, reader, runtime, transit, pane, snapshot, bare>>
  BY DEF ServeFails, vars
<1>2. Queued(pane', served', Due, runtime, bounds) /\ Answered(pane', served', reader'[Pane], Due, runtime, bounds, Earliest)
  BY <1>1 DEF PaneInv, Queued, Answered
<1> QED
  BY <1>1, <1>2, Still DEF PaneInv, PaneType

\* The reply to a catch-up read is written.
LEMMA AcceptWrites ==
  ASSUME PaneInv, Progress
  PROVE  /\ Accept(pane) \in PaneSet /\ Alike(pane, Accept(pane))
         /\ Writing(Accept(pane), runtime, bounds, Gone) /\ pane.mounted
<1> DEFINE q == Accept(pane)
           res == reader[Pane]
<1>1. served = "yes" /\ pane.catching = runtime /\ res.len > 0 /\ pane \in PaneSet
  BY DEF Progress, PaneInv, PaneType
<1>2. pane.mounted
  BY <1>1, Known
<1>3. res.next \in bounds /\ res.len \in Nat
  BY <1>1 DEF PaneInv, Answered, Replied
<1>4. PICK first \in bounds : res.next = first + res.len /\ (first = pane.cursor \/ (pane.cursor < first /\ first <= Earliest))
  BY <1>1 DEF PaneInv, Answered, Replied
<1>5. first \in Nat /\ res.next \in Nat /\ runtime \in Nat /\ bounds \subseteq Nat
  BY <1>3, <1>4, Known
<1>6. res.next - res.len = first /\ first < res.next
  BY <1>1, <1>3, <1>4, <1>5
<1> DEFINE w == [runtime |-> runtime, start |-> first, end |-> res.next, event |-> FALSE]
<1>7. w \in Piece /\ w.runtime = runtime /\ w.start = first /\ w.end = res.next
  BY <1>5 DEF Piece
<1>8. q = [pane EXCEPT !.cursor = res.next, !.pending = Append(@, w)]
  BY <1>6 DEF Accept
<1> HIDE DEF w, q, res
<1>9. pane.pending \in Seq(Piece) /\ Append(pane.pending, w) \in Seq(Piece)
  BY <1>1, <1>7 DEF PaneSet
<1>10. /\ q \in PaneSet /\ q.pending = Append(pane.pending, w) /\ q.cursor = w.end
       /\ q.shown = pane.shown /\ q.restore = pane.restore /\ q.rendered = pane.rendered
       /\ Alike(pane, q)
  BY <1>1, <1>5, <1>7, <1>8, <1>9 DEF PaneSet, Alike
<1>11. w.start = pane.cursor \/ (pane.cursor < w.start /\ w.start <= Gone)
  <2>1. Earliest <= Gone /\ Gone \in Nat /\ Earliest \in Nat
    BY Known DEF Gone, Greatest
  <2> QED
    BY <1>4, <1>5, <1>7, <2>1
<1>12. Writing(pane, runtime, bounds, Gone) /\ Gone \in Nat
  BY <1>2, Known DEF PaneInv
<1>13. Writing(q, runtime, bounds, Gone)
  BY <1>1, <1>3, <1>5, <1>6, <1>7, <1>10, <1>11, <1>12, WritingAppend
<1> QED
  BY <1>2, <1>10, <1>13 DEF q

LEMMA TakenTakes ==
  ASSUME PaneInv, Taken
  PROVE  served' = "no" /\ DOMAIN reader' = Readers /\ UNCHANGED <<chunks, next_cursor, bounds>>
  BY DEF Taken, PaneInv, PaneType

LEMMA ReadMoreKeeps ==
  ASSUME PaneInv, ReadMore
  PROVE  PaneInv'
<1>1. /\ Progress /\ pane' = Accept(pane)
      /\ UNCHANGED <<runtime, transit, snapshot, bare>> /\ pane.catching = runtime
  BY DEF ReadMore, Progress
<1>2. served' = "no" /\ DOMAIN reader' = Readers /\ UNCHANGED <<chunks, next_cursor, bounds>>
  BY TakenTakes DEF ReadMore
<1>3. pane' \in PaneSet /\ Alike(pane, pane') /\ Writing(pane', runtime, bounds, Gone) /\ pane.mounted
  BY <1>1, AcceptWrites
<1>4. pane'.mounted /\ pane'.catching = runtime
  BY <1>1, <1>3 DEF Alike
<1>5. CaughtUp(pane', Due)
  BY <1>4, Known DEF CaughtUp
<1>6. Queued(pane', served', Due, runtime, bounds)
  BY <1>1, <1>3, <1>4, Known DEF PaneInv, Queued, Alike
<1>7. Answered(pane', served', reader'[Pane], Due, runtime, bounds, Earliest)
  BY <1>2 DEF Answered
<1>8. pane'.catching <= runtime
  BY <1>4, Known
<1> QED
  BY <1>1, <1>2, <1>3, <1>4, <1>5, <1>6, <1>7, <1>8, Still DEF PaneInv, PaneType

\* A catch-up that ends with a reply that brings nothing has nothing to wait for.
LEMMA AnswerEnds ==
  ASSUME PaneInv, served = "yes", pane.catching = runtime, ~pane.needs, ~Progress
  PROVE  Begin(pane.queue, Due, runtime) <= pane.cursor
<1> DEFINE res == reader[Pane]
<1>1. Replied(res, pane.cursor, bounds, Earliest) /\ (res.len = 0 => Begin(pane.queue, Due, runtime) <= pane.cursor)
  BY DEF PaneInv, Answered
<1>2. ~(res.len > 0 /\ res.next > pane.cursor)
  BY DEF Progress
<1>3. pane.cursor \in Nat /\ bounds \subseteq Nat
  BY Known DEF PaneInv, PaneType, PaneSet
<1> HIDE DEF res
<1>4. res.len = 0
  BY <1>1, <1>2, <1>3 DEF Replied
<1> QED
  BY <1>1, <1>4

LEMMA CatchUpEndsKeeps ==
  ASSUME PaneInv, CatchUpEnds
  PROVE  PaneInv'
<1> DEFINE needs == pane.needs \/ ~pane.visible \/ pane.catching # runtime \/ served = "failed"
           p0    == IF Progress THEN Accept(pane) ELSE pane
           done  == [p0 EXCEPT !.catching = 0, !.needs = needs, !.queue = <<>>]
<1>1. /\ served # "no" /\ ~(Progress /\ pane.visible)
      /\ UNCHANGED <<runtime, transit, snapshot, bare>>
      /\ pane' = IF ~needs THEN WriteQueue(done, pane.queue)
                 ELSE IF served # "failed" THEN CatchUp(done)
                 ELSE done
  BY DEF CatchUpEnds
<1>2. served' = "no" /\ DOMAIN reader' = Readers /\ UNCHANGED <<chunks, next_cursor, bounds>>
  BY TakenTakes DEF CatchUpEnds
<1>3. pane.catching # 0 /\ pane.mounted
  BY <1>1, Known DEF PaneInv, Queued
<1>4. pane \in PaneSet /\ served \in {"no", "yes", "failed"} /\ Writing(pane, runtime, bounds, Gone)
  BY <1>3 DEF PaneInv, PaneType
<1>5. p0 \in PaneSet /\ Alike(pane, p0) /\ Writing(p0, runtime, bounds, Gone)
  BY <1>4, AcceptWrites DEF Alike
<1>6. needs \in BOOLEAN
  BY <1>4 DEF PaneSet
<1> HIDE DEF p0, needs
<1>7. done \in PaneSet
  <2>1. <<>> \in Seq(Event) /\ 0 \in Nat
    OBVIOUS
  <2> QED
    BY <1>5, <1>6, <2>1 DEF PaneSet
<1>8. /\ done.mounted = p0.mounted /\ done.visible = p0.visible /\ done.catching = 0 /\ done.needs = needs
      /\ done.queue = <<>> /\ done.cursor = p0.cursor /\ done.rendered = p0.rendered
      /\ done.pending = p0.pending /\ done.shown = p0.shown /\ done.restore = p0.restore
  BY <1>5 DEF PaneSet
<1> HIDE DEF done
<1>9. Writing(done, runtime, bounds, Gone)
  BY <1>5, <1>8, WritingSame
<1>10. done.mounted
  BY <1>3, <1>5, <1>8 DEF Alike
<1>11. /\ pane' \in PaneSet /\ Writing(pane', runtime, bounds, Gone) /\ pane'.mounted /\ pane'.queue = <<>>
       /\ pane'.catching \in {0, runtime}
       /\ pane'.catching = 0 => pane'.needs \/ Due <= pane'.cursor
  <2>1. CASE ~needs
    <3>1. /\ ~pane.needs /\ pane.visible /\ pane.catching = runtime /\ served = "yes" /\ ~Progress
      BY <1>1, <1>4, <2>1 DEF needs
    <3>2. Begin(pane.queue, Due, runtime) <= done.cursor
      BY <1>8, <3>1, AnswerEnds DEF p0
    <3>3. pane.queue \in Seq(Event) /\ Streaming(pane.queue, Due, runtime, bounds)
          /\ \A k \in 1 .. Len(pane.queue) : pane.queue[k].runtime = runtime
      BY <1>4, <3>1 DEF PaneInv, Queued, PaneSet
    <3>4. PICK d \in PaneSet, queue \in Seq(Event) : d = done /\ queue = pane.queue
      BY <1>7, <3>3
    <3>5. /\ WriteQueue(d, queue) \in PaneSet /\ Writing(WriteQueue(d, queue), runtime, bounds, Gone)
          /\ Alike(d, WriteQueue(d, queue)) /\ Due <= WriteQueue(d, queue).cursor
      BY <1>9, <3>2, <3>3, <3>4, Known, WriteQueueWrites
    <3>6. pane' = WriteQueue(d, queue)
      BY <1>1, <2>1, <3>4
    <3> QED
      BY <1>8, <1>10, <3>4, <3>5, <3>6 DEF Alike
  <2>2. CASE needs /\ served # "failed"
    <3>1. pane' = CatchUp(done)
      BY <1>1, <2>2
    <3>2. runtime' \in Nat /\ runtime' = runtime
      BY <1>1, Known
    <3>3. PICK d \in PaneSet : d = done
      BY <1>7
    <3>4. /\ CatchUp(d) \in PaneSet
          /\ CatchUp(d).mounted = d.mounted /\ CatchUp(d).queue = d.queue
          /\ CatchUp(d).cursor = d.cursor /\ CatchUp(d).rendered = d.rendered /\ CatchUp(d).pending = d.pending
          /\ CatchUp(d).shown = d.shown /\ CatchUp(d).restore = d.restore
          /\ CatchUp(d) = d \/ (CatchUp(d).catching = runtime' /\ CatchUp(d).needs = FALSE)
      BY <3>2, CatchUpStarts
    <3>5. Writing(pane', runtime, bounds, Gone)
      BY <1>9, <3>1, <3>3, <3>4, WritingSame
    <3> QED
      BY <1>8, <1>10, <2>2, <3>1, <3>2, <3>3, <3>4, <3>5, Known
  <2>3. CASE needs /\ served = "failed"
    BY <1>1, <1>7, <1>8, <1>9, <1>10, <2>3
  <2> QED
    BY <2>1, <2>2, <2>3, <1>6
<1>12. CaughtUp(pane', Due) /\ Answered(pane', served', reader'[Pane], Due, runtime, bounds, Earliest)
  BY <1>2, <1>11 DEF CaughtUp, Answered
<1>13. Queued(pane', served', Due, runtime, bounds)
  BY <1>2, <1>11 DEF Queued, Streaming, Ordered
<1>14. pane'.catching <= runtime
  BY <1>11, Known
<1> QED
  BY <1>1, <1>2, <1>11, <1>12, <1>13, <1>14, Still DEF PaneInv, PaneType

\* An event arrives.
LEMMA DeliverKeeps ==
  ASSUME PaneInv, Deliver
  PROVE  PaneInv'
<1> DEFINE e == Head(transit)
           d == Begin(Tail(transit), next_cursor, runtime)
<1>1. /\ transit # <<>> /\ transit' = Tail(transit) /\ pane' = Heard(pane, e)
      /\ UNCHANGED <<chunks, next_cursor, bounds, reader, runtime, served, snapshot, bare>>
  BY DEF Deliver, vars
<1>2. transit \in Seq(Event) /\ pane \in PaneSet /\ pane.catching <= runtime /\ runtime \in Nat /\ runtime # 0
      /\ Streaming(transit, next_cursor, runtime, bounds) /\ bounds \subseteq Nat /\ Gone \in Nat
  BY Known DEF PaneInv, PaneType
<1>3. /\ Streaming(Tail(transit), next_cursor, runtime, bounds)
      /\ e.runtime # runtime => d = Due
      /\ e.runtime = runtime => Due = e.start /\ d = e.end /\ e.start < e.end /\ e.start \in bounds /\ e.end \in bounds
  BY <1>1, <1>2, StreamTail DEF Due
<1>4. e \in Event /\ Tail(transit) \in Seq(Event)
  BY <1>1, <1>2
<1>5. Due' = d
  BY <1>1 DEF Due
<1> HIDE DEF e, d
<1> DEFINE Good(p) ==
      /\ p \in PaneSet /\ p.catching <= runtime
      /\ p.mounted => Writing(p, runtime, bounds, Gone)
      /\ CaughtUp(p, d) /\ Queued(p, served, d, runtime, bounds)
      /\ Answered(p, served, reader[Pane], d, runtime, bounds, Earliest)
      /\ ~p.mounted => p = Fresh
<1>6. ASSUME ~pane.mounted \/ e.runtime # runtime
      PROVE  Good(pane')
  <2>1. pane' = pane
    BY <1>1, <1>6 DEF Heard
  <2>2. CASE e.runtime # runtime
    BY <1>2, <1>3, <2>1, <2>2 DEF PaneInv
  <2>3. CASE ~pane.mounted
    <3>1. pane = Fresh /\ pane.catching = 0
      BY <2>3, Known DEF PaneInv
    <3>2. CaughtUp(pane, d) /\ Queued(pane, served, d, runtime, bounds)
          /\ Answered(pane, served, reader[Pane], d, runtime, bounds, Earliest)
      BY <1>2, <2>3, <3>1 DEF PaneInv, CaughtUp, Queued, Answered
    <3> QED
      BY <1>2, <2>1, <2>3, <3>1, <3>2
  <2> QED
    BY <1>6, <2>2, <2>3
<1>7. ASSUME pane.mounted /\ e.runtime = runtime /\ ~pane.visible
      PROVE  Good(pane')
  <2>1. pane' = [pane EXCEPT !.needs = TRUE]
    BY <1>1, <1>7 DEF Heard
  <2>2. /\ pane' \in PaneSet /\ pane'.mounted /\ pane'.catching = pane.catching /\ pane'.needs = TRUE
        /\ pane'.queue = pane.queue /\ pane'.cursor = pane.cursor /\ pane'.rendered = pane.rendered
        /\ pane'.pending = pane.pending /\ pane'.shown = pane.shown /\ pane'.restore = pane.restore
    BY <1>2, <1>7, <2>1 DEF PaneSet
  <2>3. Writing(pane', runtime, bounds, Gone)
    BY <1>7, <2>2, WritingSame DEF PaneInv
  <2>4. CaughtUp(pane', d) /\ Queued(pane', served, d, runtime, bounds)
        /\ Answered(pane', served, reader[Pane], d, runtime, bounds, Earliest)
    BY <2>2 DEF PaneInv, CaughtUp, Queued, Answered
  <2> QED
    BY <1>2, <2>2, <2>3, <2>4
<1>8. ASSUME pane.mounted /\ e.runtime = runtime /\ pane.visible /\ (pane.catching # 0 \/ pane.needs)
      PROVE  Good(pane')
  <2> DEFINE r == Enqueue(pane, e)
             full == Sizes(pane.queue) + Size(e) > HighWater
  <2>1. pane' = CatchUp(r)
    BY <1>1, <1>8 DEF Heard
  <2>2. pane.queue \in Seq(Event) /\ Append(pane.queue, e) \in Seq(Event) /\ <<>> \in Seq(Event)
    BY <1>2, <1>4 DEF PaneSet
  <2>3. /\ r \in PaneSet /\ r.mounted /\ r.visible /\ r.catching = pane.catching
        /\ r.cursor = pane.cursor /\ r.rendered = pane.rendered
        /\ r.pending = pane.pending /\ r.shown = pane.shown /\ r.restore = pane.restore
        /\ \/ r.queue = <<>> /\ r.needs = TRUE
           \/ r.queue = Append(pane.queue, e) /\ r.needs = pane.needs
    <3>1. CASE full
      <4>1. r = [pane EXCEPT !.queue = <<>>, !.needs = TRUE]
        BY <3>1 DEF Enqueue
      <4> QED
        BY <1>2, <1>8, <2>2, <4>1 DEF PaneSet
    <3>2. CASE ~full
      <4>1. r = [pane EXCEPT !.queue = Append(@, e)]
        BY <3>2 DEF Enqueue
      <4> QED
        BY <1>2, <1>8, <2>2, <4>1 DEF PaneSet
    <3> QED
      BY <3>1, <3>2
  <2> HIDE DEF r
  <2>4. PICK p \in PaneSet : p = r
    BY <2>3
  <2>5. runtime' = runtime
    BY <1>1
  <2>6. /\ CatchUp(p) \in PaneSet
        /\ CatchUp(p).mounted = p.mounted /\ CatchUp(p).visible = p.visible /\ CatchUp(p).queue = p.queue
        /\ CatchUp(p).cursor = p.cursor /\ CatchUp(p).rendered = p.rendered /\ CatchUp(p).pending = p.pending
        /\ CatchUp(p).shown = p.shown /\ CatchUp(p).restore = p.restore
        /\ \/ CatchUp(p) = p /\ ~(p.mounted /\ p.catching = 0 /\ p.needs /\ p.visible)
           \/ p.mounted /\ p.catching = 0 /\ CatchUp(p).catching = runtime' /\ CatchUp(p).needs = FALSE
    BY <1>2, <2>5, CatchUpStarts
  <2>7. pane' \in PaneSet /\ pane'.mounted /\ pane'.queue = r.queue /\ pane'.cursor = pane.cursor
    BY <2>1, <2>3, <2>4, <2>6
  <2>8. Writing(pane', runtime, bounds, Gone)
    <3>1. Writing(p, runtime, bounds, Gone)
      BY <1>8, <2>3, <2>4, WritingSame DEF PaneInv
    <3> QED
      BY <2>1, <2>4, <2>6, <3>1, WritingSame
  <2>9. ASSUME Streaming(pane.queue, e.start, runtime, bounds)
        PROVE  /\ Streaming(Append(pane.queue, e), d, runtime, bounds)
               /\ Begin(Append(pane.queue, e), d, runtime) = Begin(pane.queue, Due, runtime)
    BY <1>2, <1>3, <1>4, <1>8, <2>2, <2>9, StreamAppend
  <2>10. ASSUME \A k \in 1 .. Len(pane.queue) : pane.queue[k].runtime = runtime
         PROVE  \A k \in 1 .. Len(Append(pane.queue, e)) : Append(pane.queue, e)[k].runtime = runtime
    <3>1. Len(Append(pane.queue, e)) = Len(pane.queue) + 1 /\ Len(pane.queue) \in Nat
      BY <2>2
    <3>2. ASSUME NEW k \in 1 .. Len(pane.queue) + 1
          PROVE  Append(pane.queue, e)[k].runtime = runtime
      <4>1. CASE k = Len(pane.queue) + 1
        BY <1>8, <2>2, <4>1
      <4>2. CASE k # Len(pane.queue) + 1
        <5>1. k \in 1 .. Len(pane.queue)
          BY <3>1, <4>2
        <5>2. Append(pane.queue, e)[k] = pane.queue[k]
          BY <2>2, <5>1
        <5> QED
          BY <2>10, <5>1, <5>2
      <4> QED
        BY <4>1, <4>2
    <3> QED
      BY <3>1, <3>2
  <2>11. CASE pane' = r /\ pane.catching # 0
    <3>1. pane'.catching = pane.catching /\ pane'.catching <= runtime
      BY <1>2, <2>3, <2>11
    <3>2. CaughtUp(pane', d)
      BY <2>11, <3>1 DEF CaughtUp
    <3>3. Queued(pane', served, d, runtime, bounds)
      <4> SUFFICES ASSUME ~pane'.needs, pane.catching = runtime
                   PROVE  Streaming(pane'.queue, d, runtime, bounds)
                          /\ \A k \in 1 .. Len(pane'.queue) : pane'.queue[k].runtime = runtime
        BY <2>11, <3>1 DEF Queued
      <4>1. ~pane.needs /\ r.queue = Append(pane.queue, e)
        BY <2>3, <2>11
      <4>2. Streaming(pane.queue, e.start, runtime, bounds)
            /\ \A k \in 1 .. Len(pane.queue) : pane.queue[k].runtime = runtime
        BY <1>3, <1>8, <4>1 DEF PaneInv, Queued
      <4> QED
        BY <2>7, <2>9, <2>10, <4>1, <4>2
    <3>4. Answered(pane', served, reader[Pane], d, runtime, bounds, Earliest)
      <4> SUFFICES ASSUME served = "yes", pane.catching = runtime
                   PROVE  /\ Replied(reader[Pane], pane.cursor, bounds, Earliest)
                          /\ ~pane'.needs /\ reader[Pane].len = 0 => Begin(pane'.queue, d, runtime) <= pane.cursor
        BY <2>7, <3>1 DEF Answered
      <4>1. /\ Replied(reader[Pane], pane.cursor, bounds, Earliest)
            /\ ~pane.needs /\ reader[Pane].len = 0 => Begin(pane.queue, Due, runtime) <= pane.cursor
        BY DEF PaneInv, Answered
      <4>2. ASSUME ~pane'.needs PROVE ~pane.needs /\ Begin(pane'.queue, d, runtime) = Begin(pane.queue, Due, runtime)
        <5>1. ~pane.needs /\ r.queue = Append(pane.queue, e)
          BY <2>3, <2>11, <4>2
        <5>2. Streaming(pane.queue, e.start, runtime, bounds)
          BY <1>3, <1>8, <5>1 DEF PaneInv, Queued
        <5> QED
          BY <2>7, <2>9, <5>1, <5>2
      <4> QED
        BY <4>1, <4>2
    <3> QED
      BY <2>7, <2>8, <3>1, <3>2, <3>3, <3>4
  <2>12. CASE pane.catching = 0 /\ pane'.catching = runtime /\ pane'.needs = FALSE
    <3>1. pane.queue = <<>> /\ served = "no"
      BY <2>12 DEF PaneInv, Queued
    <3>2. CaughtUp(pane', d) /\ Answered(pane', served, reader[Pane], d, runtime, bounds, Earliest)
      BY <1>2, <2>12, <3>1 DEF CaughtUp, Answered
    <3>3. Streaming(pane.queue, e.start, runtime, bounds) /\ \A k \in 1 .. Len(pane.queue) : pane.queue[k].runtime = runtime
      BY <3>1 DEF Streaming, Ordered
    <3>4. Queued(pane', served, d, runtime, bounds)
      <4>1. CASE r.queue = <<>>
        BY <1>2, <2>7, <2>12, <4>1 DEF Queued, Streaming, Ordered
      <4>2. CASE r.queue = Append(pane.queue, e)
        BY <1>2, <2>7, <2>9, <2>10, <2>12, <3>3, <4>2 DEF Queued
      <4> QED
        BY <2>3, <4>1, <4>2
    <3> QED
      BY <1>2, <2>7, <2>8, <2>12, <3>2, <3>4
  <2>13. (pane' = r /\ pane.catching # 0) \/ (pane.catching = 0 /\ pane'.catching = runtime /\ pane'.needs = FALSE)
    <3>1. CASE CatchUp(p) = p /\ ~(p.mounted /\ p.catching = 0 /\ p.needs /\ p.visible)
      <4>1. ~(pane.catching = 0 /\ r.needs)
        BY <2>3, <2>4, <3>1
      <4>2. pane.needs => r.needs
        BY <2>3
      <4> QED
        BY <1>8, <2>1, <2>4, <3>1, <4>1, <4>2
    <3>2. CASE p.mounted /\ p.catching = 0 /\ CatchUp(p).catching = runtime' /\ CatchUp(p).needs = FALSE
      BY <2>1, <2>3, <2>4, <2>5, <3>2
    <3> QED
      BY <2>6, <3>1, <3>2
  <2> QED
    BY <2>11, <2>12, <2>13
<1>9. ASSUME pane.mounted /\ e.runtime = runtime /\ pane.visible /\ pane.catching = 0 /\ ~pane.needs
      PROVE  Good(pane')
  <2>1. pane' = WriteOutput(pane, e)
    BY <1>1, <1>9 DEF Heard
  <2>2. e.start <= pane.cursor /\ Writing(pane, runtime, bounds, Gone) /\ served = "no" /\ pane.queue = <<>>
    BY <1>3, <1>9 DEF PaneInv, CaughtUp, Queued
  <2>3. PICK p \in PaneSet, x \in Event : p = pane /\ x = e
    BY <1>2, <1>4
  <2>4. /\ WriteOutput(p, x) \in PaneSet /\ Writing(WriteOutput(p, x), runtime, bounds, Gone)
        /\ Alike(p, WriteOutput(p, x)) /\ x.end <= WriteOutput(p, x).cursor
    BY <1>2, <1>3, <1>9, <2>2, <2>3, WriteOutputWrites
  <2>5. pane' = WriteOutput(p, x)
    BY <2>1, <2>3
  <2>6. pane'.mounted /\ pane'.catching = 0 /\ pane'.queue = <<>> /\ d <= pane'.cursor
    BY <1>3, <1>9, <2>2, <2>3, <2>4, <2>5 DEF Alike
  <2>7. CaughtUp(pane', d) /\ Queued(pane', served, d, runtime, bounds)
        /\ Answered(pane', served, reader[Pane], d, runtime, bounds, Earliest)
    BY <1>2, <2>2, <2>6 DEF CaughtUp, Queued, Answered
  <2> QED
    BY <1>2, <2>4, <2>5, <2>6, <2>7
<1>10. Good(pane')
  <2>1. pane.needs \in BOOLEAN /\ pane.visible \in BOOLEAN /\ pane.mounted \in BOOLEAN
    BY <1>2 DEF PaneSet
  <2> HIDE DEF Good
  <2> QED
    BY <2>1, <1>6, <1>7, <1>8, <1>9
<1>11. Earliest' = Earliest
  BY <1>1 DEF Earliest
<1>12. Gone' = Gone
  BY <1>1, <1>11 DEF Gone
<1>13. Ring' /\ 0 \in bounds'
  BY <1>1, <1>11 DEF PaneInv, Ring, Adjoining, Bounded
<1>14. PaneType'
  BY <1>1, <1>4, <1>10 DEF PaneInv, PaneType
<1>15. Streaming(transit', next_cursor', runtime', bounds')
  BY <1>1, <1>3
<1>16. snapshot'.runtime = runtime' => Rendering(snapshot'.shown, snapshot'.cursor, bounds', Gone')
  BY <1>1, <1>12 DEF PaneInv
<1> QED
  BY <1>1, <1>5, <1>10, <1>11, <1>12, <1>13, <1>14, <1>15, <1>16 DEF PaneInv

\* The terminal parses.
LEMMA ParseSnapshotKeeps ==
  ASSUME PaneInv, ParseSnapshot
  PROVE  PaneInv'
<1>1. /\ pane.mounted /\ pane.restore # <<>> /\ pane' = [pane EXCEPT !.shown = pane.restore, !.restore = <<>>]
      /\ UNCHANGED <<chunks, next_cursor, bounds, reader, runtime, transit, served, snapshot, bare>>
      /\ pane \in PaneSet /\ pane.catching <= runtime
  BY DEF ParseSnapshot, vars, PaneInv, PaneType
<1>2. pane.restore \in Seq(Chunk) /\ <<>> \in Seq(Chunk)
  BY <1>1 DEF PaneSet
<1>3. /\ pane' \in PaneSet /\ Alike(pane, pane') /\ pane'.cursor = pane.cursor /\ pane'.rendered = pane.rendered
      /\ pane'.pending = pane.pending /\ pane'.shown = pane.restore /\ pane'.restore = <<>>
  BY <1>1, <1>2 DEF PaneSet, Alike
<1>4. Writing(pane', runtime, bounds, Gone)
  BY <1>1, <1>3, WritingSnapshotParsed DEF PaneInv
<1>5. /\ CaughtUp(pane', Due) /\ Queued(pane', served', Due, runtime, bounds)
      /\ Answered(pane', served', reader'[Pane], Due, runtime, bounds, Earliest)
  BY <1>1, <1>3 DEF PaneInv, CaughtUp, Queued, Answered, Alike
<1>6. pane'.mounted /\ pane'.catching <= runtime
  BY <1>1, <1>3 DEF Alike
<1> QED
  BY <1>1, <1>3, <1>4, <1>5, <1>6, Still DEF PaneInv, PaneType

LEMMA ParseKeeps ==
  ASSUME PaneInv, Parse
  PROVE  PaneInv'
<1> DEFINE w    == Head(pane.pending)
           p    == [pane EXCEPT !.pending = Tail(@)]
           mine == w.runtime = runtime
           shown    == IF mine THEN Join(pane.shown, w) ELSE pane.shown
           rendered == IF mine THEN Greatest(pane.rendered, w.end) ELSE pane.rendered
           paused   == pane.paused /\ ~(w.event /\ Backlog(p) <= LowWater)
<1>1. /\ pane.mounted /\ pane.restore = <<>> /\ pane.pending # <<>>
      /\ UNCHANGED <<chunks, next_cursor, bounds, reader, runtime, transit, served, snapshot, bare>>
      /\ pane \in PaneSet /\ pane.catching <= runtime
      /\ runtime \in Nat /\ bounds \subseteq Nat /\ Gone \in Nat
  BY Known DEF Parse, vars, PaneInv, PaneType
<1>2. pane' = [p EXCEPT !.shown = IF mine THEN Join(@, w) ELSE @,
                        !.rendered = IF mine THEN Greatest(@, w.end) ELSE @,
                        !.paused = @ /\ ~(w.event /\ Backlog(p) <= LowWater)]
  BY DEF Parse
<1>3. p.shown = pane.shown /\ p.rendered = pane.rendered /\ p.paused = pane.paused
  BY <1>1 DEF PaneSet
<1>4. pane' = [p EXCEPT !.shown = shown, !.rendered = rendered, !.paused = paused]
  BY <1>2, <1>3
<1>5. paused \in BOOLEAN /\ Tail(pane.pending) \in Seq(Piece)
  BY <1>1 DEF PaneSet
<1> HIDE DEF paused, shown, rendered
<1>6. /\ Alike(pane, pane') /\ pane'.cursor = pane.cursor /\ pane'.pending = Tail(pane.pending)
      /\ pane'.shown = shown /\ pane'.rendered = rendered /\ pane'.restore = pane.restore /\ pane'.paused = paused
  BY <1>1, <1>4 DEF PaneSet, Alike
<1>7. Writing(pane', runtime, bounds, Gone) /\ shown \in Seq(Chunk) /\ rendered \in Nat
  <2>1. Writing(pane, runtime, bounds, Gone)
    BY <1>1 DEF PaneInv
  <2>2. pane'.shown = (IF Head(pane.pending).runtime = runtime THEN Join(pane.shown, Head(pane.pending)) ELSE pane.shown)
    BY <1>6 DEF shown
  <2>3. pane'.rendered = (IF Head(pane.pending).runtime = runtime THEN Greatest(pane.rendered, Head(pane.pending).end)
                                                                  ELSE pane.rendered)
    BY <1>6 DEF rendered
  <2>4. Writing(pane', runtime, bounds, Gone) /\ pane'.shown \in Seq(Chunk) /\ pane'.rendered \in Nat
    BY <1>1, <1>6, <2>1, <2>2, <2>3, WritingParsed
  <2> QED
    BY <1>6, <2>4
<1>8. pane' \in PaneSet
  BY <1>1, <1>4, <1>5, <1>7 DEF PaneSet
<1>9. /\ CaughtUp(pane', Due) /\ Queued(pane', served', Due, runtime, bounds)
      /\ Answered(pane', served', reader'[Pane], Due, runtime, bounds, Earliest)
  BY <1>1, <1>6 DEF PaneInv, CaughtUp, Queued, Answered, Alike
<1>10. pane'.mounted /\ pane'.catching <= runtime
  BY <1>1, <1>6 DEF Alike
<1> QED
  BY <1>1, <1>7, <1>8, <1>9, <1>10, Still DEF PaneInv, PaneType

\* A pane that starts a catch-up, or need not.
LEMMA CatchUpKeeps ==
  ASSUME PaneInv, NEW p \in PaneSet, runtime' = runtime, p.mounted, p.catching <= runtime,
         Writing(p, runtime, bounds, Gone),
         CaughtUp(p, Due), Queued(p, served, Due, runtime, bounds),
         Answered(p, served, reader[Pane], Due, runtime, bounds, Earliest)
  PROVE  LET q == CatchUp(p)
         IN  /\ q \in PaneSet /\ q.mounted /\ q.catching <= runtime /\ Writing(q, runtime, bounds, Gone)
             /\ CaughtUp(q, Due) /\ Queued(q, served, Due, runtime, bounds)
             /\ Answered(q, served, reader[Pane], Due, runtime, bounds, Earliest)
<1> DEFINE q == CatchUp(p)
<1>1. runtime \in Nat /\ runtime # 0 /\ runtime' \in Nat
  BY Known
<1>2. /\ q \in PaneSet
      /\ q.mounted = p.mounted /\ q.visible = p.visible /\ q.queue = p.queue
      /\ q.cursor = p.cursor /\ q.rendered = p.rendered /\ q.pending = p.pending
      /\ q.shown = p.shown /\ q.restore = p.restore
      /\ q = p \/ (p.catching = 0 /\ q.catching = runtime /\ q.needs = FALSE)
  BY <1>1, CatchUpStarts
<1> HIDE DEF q
<1>3. Writing(q, runtime, bounds, Gone)
  BY <1>2, WritingSame
<1>4. CASE q = p
  BY <1>2, <1>3, <1>4 DEF q
<1>5. CASE p.catching = 0 /\ q.catching = runtime /\ q.needs = FALSE
  <2>1. p.queue = <<>> /\ served = "no"
    BY <1>5 DEF Queued
  <2>2. CaughtUp(q, Due) /\ Answered(q, served, reader[Pane], Due, runtime, bounds, Earliest)
    BY <1>1, <1>5, <2>1 DEF CaughtUp, Answered
  <2>3. Queued(q, served, Due, runtime, bounds)
    BY <1>1, <1>2, <1>5, <2>1 DEF Queued, Streaming, Ordered
  <2> QED
    BY <1>1, <1>2, <1>3, <1>5, <2>2, <2>3 DEF q
<1> QED
  BY <1>2, <1>4, <1>5

LEMMA ShowKeeps ==
  ASSUME PaneInv, Show
  PROVE  PaneInv'
<1> DEFINE r == [pane EXCEPT !.visible = TRUE]
<1>1. /\ pane.mounted /\ pane' = CatchUp(r)
      /\ UNCHANGED <<chunks, next_cursor, bounds, reader, runtime, transit, served, snapshot, bare>>
      /\ pane \in PaneSet /\ pane.catching <= runtime
  BY DEF Show, vars, PaneInv, PaneType
<1>2. /\ r \in PaneSet /\ r.mounted /\ r.catching = pane.catching /\ r.needs = pane.needs /\ r.queue = pane.queue
      /\ r.cursor = pane.cursor /\ r.rendered = pane.rendered
      /\ r.pending = pane.pending /\ r.shown = pane.shown /\ r.restore = pane.restore
  BY <1>1 DEF PaneSet
<1> HIDE DEF r
<1>3. PICK p \in PaneSet : p = r
  BY <1>2
<1>4. Writing(p, runtime, bounds, Gone)
  BY <1>1, <1>2, <1>3, WritingSame DEF PaneInv
<1>5. /\ CaughtUp(p, Due) /\ Queued(p, served, Due, runtime, bounds)
      /\ Answered(p, served, reader[Pane], Due, runtime, bounds, Earliest)
  <2>1. /\ p.mounted /\ p.catching = pane.catching /\ p.needs = pane.needs /\ p.queue = pane.queue
        /\ p.cursor = pane.cursor
    BY <1>2, <1>3
  <2>2. CaughtUp(p, Due)
    BY <1>1, <2>1 DEF PaneInv, CaughtUp
  <2>3. Queued(p, served, Due, runtime, bounds)
    BY <2>1 DEF PaneInv, Queued
  <2>4. Answered(p, served, reader[Pane], Due, runtime, bounds, Earliest)
    BY <2>1 DEF PaneInv, Answered
  <2> QED
    BY <2>2, <2>3, <2>4
<1>6. /\ pane' \in PaneSet /\ pane'.mounted /\ pane'.catching <= runtime /\ Writing(pane', runtime, bounds, Gone)
      /\ CaughtUp(pane', Due) /\ Queued(pane', served, Due, runtime, bounds)
      /\ Answered(pane', served, reader[Pane], Due, runtime, bounds, Earliest)
  BY <1>1, <1>2, <1>3, <1>4, <1>5, CatchUpKeeps
<1> QED
  BY <1>1, <1>6, Still DEF PaneInv, PaneType

LEMMA HideKeeps ==
  ASSUME PaneInv, Hide
  PROVE  PaneInv'
<1>1. /\ pane.mounted /\ pane' = [pane EXCEPT !.visible = FALSE]
      /\ UNCHANGED <<chunks, next_cursor, bounds, reader, runtime, transit, served, snapshot, bare>>
      /\ pane \in PaneSet /\ pane.catching <= runtime
  BY DEF Hide, vars, PaneInv, PaneType
<1>2. /\ pane' \in PaneSet /\ pane'.mounted /\ pane'.catching = pane.catching /\ pane'.needs = pane.needs
      /\ pane'.queue = pane.queue /\ pane'.cursor = pane.cursor /\ pane'.rendered = pane.rendered
      /\ pane'.pending = pane.pending /\ pane'.shown = pane.shown /\ pane'.restore = pane.restore
  BY <1>1 DEF PaneSet
<1>3. Writing(pane', runtime, bounds, Gone)
  BY <1>1, <1>2, WritingSame DEF PaneInv
<1>4. /\ CaughtUp(pane', Due) /\ Queued(pane', served', Due, runtime, bounds)
      /\ Answered(pane', served', reader'[Pane], Due, runtime, bounds, Earliest)
  BY <1>1, <1>2 DEF PaneInv, CaughtUp, Queued, Answered
<1> QED
  BY <1>1, <1>2, <1>3, <1>4, Still DEF PaneInv, PaneType

\* The pane comes back, with its snapshot or without.
LEMMA MountKeeps ==
  ASSUME PaneInv, Mount
  PROVE  PaneInv'
<1>1. /\ ~pane.mounted /\ pane = Fresh /\ served = "no"
      /\ UNCHANGED <<chunks, next_cursor, bounds, reader, runtime, transit, served, bare>>
      /\ runtime \in Nat /\ runtime # 0
  <2>1. ~pane.mounted /\ pane = Fresh /\ UNCHANGED <<chunks, next_cursor, bounds, reader, runtime, transit, served, bare>>
    BY DEF Mount, vars, PaneInv
  <2>2. pane.catching = 0
    BY <2>1 DEF Fresh
  <2> QED
    BY <2>1, <2>2, Known DEF PaneInv, Queued
<1>2. PICK visible \in BOOLEAN :
        LET p == [Fresh EXCEPT !.mounted = TRUE, !.visible = visible]
        IN IF snapshot.runtime = runtime
             THEN /\ pane' = CatchUp([p EXCEPT !.cursor = snapshot.cursor, !.rendered = snapshot.cursor,
                                               !.restore = snapshot.shown])
                  /\ snapshot' = NoSnapshot
             ELSE pane' = CatchUp(p) /\ UNCHANGED snapshot
  BY DEF Mount
<1> DEFINE old == snapshot.runtime = runtime
           b == [Fresh EXCEPT !.mounted = TRUE, !.visible = visible]
           r == IF old THEN [b EXCEPT !.cursor = snapshot.cursor, !.rendered = snapshot.cursor,
                                      !.restore = snapshot.shown]
                       ELSE b
<1>3. pane' = CatchUp(r) /\ snapshot' \in {snapshot, NoSnapshot}
  BY <1>2
<1>4. snapshot \in [runtime : {0, runtime}, cursor : Nat, shown : Seq(Chunk)]
  BY DEF PaneInv, PaneType
<1>5. snapshot.cursor \in Nat /\ snapshot.shown \in Seq(Chunk)
  BY <1>4
<1>6. /\ r \in PaneSet /\ r.mounted /\ r.catching = 0 /\ r.needs = TRUE /\ r.queue = <<>> /\ r.pending = <<>>
      /\ r.shown = <<>> /\ r.rendered = r.cursor
      /\ r.cursor = IF old THEN snapshot.cursor ELSE 0
      /\ r.restore = IF old THEN snapshot.shown ELSE <<>>
  <2>1. /\ b \in PaneSet /\ b.mounted /\ b.catching = 0 /\ b.needs = TRUE /\ b.queue = <<>> /\ b.pending = <<>>
        /\ b.shown = <<>> /\ b.rendered = 0 /\ b.cursor = 0 /\ b.restore = <<>>
    <3>1. Fresh \in PaneSet
      BY DEF Fresh, PaneSet
    <3>2. /\ Fresh.catching = 0 /\ Fresh.needs = TRUE /\ Fresh.queue = <<>> /\ Fresh.pending = <<>>
          /\ Fresh.shown = <<>> /\ Fresh.rendered = 0 /\ Fresh.cursor = 0 /\ Fresh.restore = <<>>
      BY DEF Fresh
    <3> QED
      BY <3>1, <3>2 DEF PaneSet
  <2> HIDE DEF b
  <2>2. CASE old
    <3>1. r = [b EXCEPT !.cursor = snapshot.cursor, !.rendered = snapshot.cursor, !.restore = snapshot.shown]
      BY <2>2
    <3> QED
      BY <1>5, <2>1, <2>2, <3>1 DEF PaneSet
  <2>3. CASE ~old
    BY <2>1, <2>3
  <2> QED
    BY <2>2, <2>3
<1> HIDE DEF r
<1>7. Rendering(r.restore, r.cursor, bounds, Gone)
  <2>1. CASE old
    BY <1>6, <2>1 DEF PaneInv
  <2>2. CASE ~old
    <3>1. r.restore = <<>> /\ r.cursor = 0
      BY <1>6, <2>2
    <3>2. 0 \in bounds /\ Reach(<<>>) = 0
      BY DEF PaneInv, Reach
    <3> QED
      BY <3>1, <3>2 DEF Rendering, Chain
  <2> QED
    BY <2>1, <2>2
<1>8. PICK p \in PaneSet : p = r
  BY <1>6
<1>9. Writing(p, runtime, bounds, Gone)
  BY <1>6, <1>7, <1>8, WritingMounted
<1>10. /\ CaughtUp(p, Due) /\ Queued(p, served, Due, runtime, bounds)
       /\ Answered(p, served, reader[Pane], Due, runtime, bounds, Earliest)
  BY <1>1, <1>6, <1>8 DEF CaughtUp, Queued, Answered
<1>11. p.mounted /\ p.catching <= runtime
  BY <1>1, <1>6, <1>8
<1>12. /\ pane' \in PaneSet /\ pane'.mounted /\ pane'.catching <= runtime /\ Writing(pane', runtime, bounds, Gone)
       /\ CaughtUp(pane', Due) /\ Queued(pane', served, Due, runtime, bounds)
       /\ Answered(pane', served, reader[Pane], Due, runtime, bounds, Earliest)
  BY <1>1, <1>3, <1>8, <1>9, <1>10, <1>11, CatchUpKeeps
<1>13. /\ snapshot' \in [runtime : {0, runtime}, cursor : Nat, shown : Seq(Chunk)]
       /\ snapshot'.runtime = runtime => Rendering(snapshot'.shown, snapshot'.cursor, bounds, Gone)
  <2>1. CASE snapshot' = snapshot
    BY <1>4, <2>1 DEF PaneInv
  <2>2. CASE snapshot' = NoSnapshot
    BY <1>1, <2>2 DEF NoSnapshot
  <2> QED
    BY <1>3, <2>1, <2>2
<1> QED
  BY <1>1, <1>12, <1>13, Still DEF PaneInv, PaneType

\* It goes away, with a snapshot or without.
LEMMA UnmountKeeps ==
  ASSUME PaneInv, Unmount
  PROVE  PaneInv'
<1>1. /\ pane.mounted /\ snapshot' \in {SnapshotOf(pane), NoSnapshot}
      /\ bare' = (IF pane.restore # <<>> THEN pane.rendered ELSE bare)
      /\ pane' = Fresh /\ UNCHANGED <<runtime, transit>>
      /\ pane \in PaneSet /\ Writing(pane, runtime, bounds, Gone)
      /\ runtime \in Nat /\ runtime # 0 /\ bare \in Nat /\ Earliest \in Nat
  BY Known DEF Unmount, PaneInv, PaneType
<1>2. served' = "no" /\ DOMAIN reader' = Readers /\ UNCHANGED <<chunks, next_cursor, bounds>>
  BY TakenTakes DEF Unmount
<1>3. pane.rendered \in Nat /\ pane.shown \in Seq(Chunk)
  BY <1>1 DEF PaneSet
<1>4. Earliest' = Earliest
  BY <1>2 DEF Earliest
<1>5. bare' \in Nat /\ Gone' = Greatest(Earliest, bare')
  BY <1>1, <1>3, <1>4 DEF Gone
<1>6. Fresh \in PaneSet /\ Fresh.catching = 0 /\ Fresh.mounted = FALSE /\ Fresh.queue = <<>> /\ Fresh.needs = TRUE
  BY DEF Fresh, PaneSet
<1>7. Due' = Due
  BY <1>1, <1>2 DEF Due
<1>8. Rendering(pane.shown, pane.rendered, bounds, Gone')
  <2>1. CASE pane.restore = <<>>
    <3>1. Drawn(pane) = pane.shown
      BY <2>1 DEF Drawn
    <3>2. Gone' = Gone
      BY <1>1, <1>5, <2>1 DEF Gone
    <3> QED
      BY <1>1, <3>1, <3>2 DEF Writing
  <2>2. CASE pane.restore # <<>>
    <3>1. pane.shown = <<>> /\ pane.rendered \in bounds
      BY <1>1, <2>2 DEF Writing, Rendering
    <3>2. pane.rendered <= Gone'
      BY <1>1, <1>3, <1>5, <2>2 DEF Greatest
    <3>3. Reach(<<>>) = 0
      BY DEF Reach
    <3> QED
      BY <1>3, <3>1, <3>2, <3>3 DEF Rendering, Chain
  <2> QED
    BY <2>1, <2>2
<1>9. /\ snapshot' \in [runtime : {0, runtime}, cursor : Nat, shown : Seq(Chunk)]
      /\ snapshot'.runtime = runtime => Rendering(snapshot'.shown, snapshot'.cursor, bounds, Gone')
  <2>1. CASE snapshot' = SnapshotOf(pane)
    BY <1>3, <1>8, <2>1 DEF SnapshotOf
  <2>2. CASE snapshot' = NoSnapshot
    BY <1>1, <2>2 DEF NoSnapshot
  <2> QED
    BY <1>1, <2>1, <2>2
<1>10. Ring' /\ 0 \in bounds'
  BY <1>2, <1>4 DEF PaneInv, Ring, Adjoining, Bounded
<1>11. PaneType'
  BY <1>1, <1>2, <1>5, <1>6, <1>9 DEF PaneInv, PaneType
<1>12. /\ CaughtUp(pane', Due') /\ Queued(pane', served', Due', runtime', bounds')
       /\ Answered(pane', served', reader'[Pane], Due', runtime', bounds', Earliest')
  BY <1>1, <1>2, <1>6 DEF CaughtUp, Queued, Answered
<1>13. Streaming(transit', next_cursor', runtime', bounds')
  BY <1>1, <1>2 DEF PaneInv
<1>14. snapshot'.runtime = runtime' => Rendering(snapshot'.shown, snapshot'.cursor, bounds', Gone')
  BY <1>1, <1>2, <1>9
<1> QED
  BY <1>1, <1>6, <1>10, <1>11, <1>12, <1>13, <1>14 DEF PaneInv

\* It gets a new Runtime.
LEMMA RestartKeeps ==
  ASSUME PaneInv, Restart
  PROVE  PaneInv'
<1> DEFINE r == [pane EXCEPT !.cursor = 0, !.rendered = 0, !.shown = <<>>, !.restore = <<>>]
<1>1. /\ runtime' = runtime + 1 /\ chunks' = <<>> /\ next_cursor' = 0 /\ bounds' = {0} /\ bare' = 0
      /\ pane' = (IF ~pane.mounted THEN pane ELSE CatchUp(r))
      /\ snapshot' = NoSnapshot /\ UNCHANGED <<reader, transit, served>>
  BY DEF Restart
<1>2. /\ pane \in PaneSet /\ pane.catching <= runtime /\ runtime \in Nat /\ runtime # 0 /\ transit \in Seq(Event)
      /\ pane.catching \in Nat
  BY Known DEF PaneInv, PaneType, PaneSet
<1>3. runtime' \in Nat /\ runtime < runtime' /\ runtime' # 0
  BY <1>1, <1>2
<1>4. Earliest' = 0 /\ Gone' = 0
  BY <1>1 DEF Gone, Earliest, Greatest
<1>5. Ring' /\ 0 \in bounds'
  BY <1>1, <1>4, OutputAssumption DEF Ring, Adjoining, Bounded, Characters
<1>6. \A k \in 1 .. Len(transit) : transit[k].runtime \in Nat /\ transit[k].runtime < runtime'
  <2> SUFFICES ASSUME NEW k \in 1 .. Len(transit) PROVE transit[k].runtime \in Nat /\ transit[k].runtime < runtime'
    OBVIOUS
  <2>1. transit[k] \in Event
    BY <1>2
  <2>2. transit[k].runtime \in Nat /\ transit[k].runtime <= runtime
    BY <2>1 DEF Event, PaneInv, Streaming, Ordered
  <2> QED
    BY <1>2, <1>3, <2>2
<1>7. Streaming(transit, 0, runtime', bounds') /\ Begin(transit, 0, runtime') = 0
  BY <1>2, <1>3, <1>6, StreamOthers
<1>8. Due' = 0
  BY <1>1, <1>7 DEF Due
<1>9. Streaming(transit', next_cursor', runtime', bounds')
  BY <1>1, <1>7
<1>10. /\ pane' \in PaneSet /\ pane'.catching <= runtime'
       /\ pane'.mounted => Writing(pane', runtime', bounds', Gone')
       /\ Queued(pane', served', Due', runtime', bounds')
       /\ Answered(pane', served', reader'[Pane], Due', runtime', bounds', Earliest')
       /\ ~pane'.mounted => pane' = Fresh
  <2>1. CASE ~pane.mounted
    <3>1. pane' = pane /\ pane = Fresh /\ pane.catching = 0 /\ pane.mounted = FALSE
      BY <1>1, <2>1 DEF PaneInv, Fresh
    <3>2. pane.queue = <<>> /\ served = "no"
      BY <3>1 DEF PaneInv, Queued
    <3>3. Queued(pane', served', Due', runtime', bounds')
          /\ Answered(pane', served', reader'[Pane], Due', runtime', bounds', Earliest')
      BY <1>1, <1>3, <3>1, <3>2 DEF Queued, Answered
    <3> QED
      BY <1>2, <1>3, <3>1, <3>3
  <2>2. CASE pane.mounted
    <3>0. <<>> \in Seq(Chunk) /\ 0 \in Nat
      OBVIOUS
    <3>1. /\ r \in PaneSet /\ r.mounted /\ r.catching = pane.catching /\ r.needs = pane.needs /\ r.queue = pane.queue
          /\ r.cursor = 0 /\ r.rendered = 0 /\ r.pending = pane.pending /\ r.shown = <<>> /\ r.restore = <<>>
      BY <1>2, <2>2, <3>0 DEF PaneSet
    <3> HIDE DEF r
    <3>2. PICK p \in PaneSet : p = r
      BY <3>1
    <3>3. \A k \in 1 .. Len(p.pending) : p.pending[k].runtime < runtime'
      <4> SUFFICES ASSUME NEW k \in 1 .. Len(p.pending) PROVE p.pending[k].runtime < runtime'
        OBVIOUS
      <4>1. p.pending \in Seq(Piece) /\ p.pending = pane.pending
        BY <3>1, <3>2 DEF PaneSet
      <4>2. p.pending[k] \in Piece
        BY <4>1
      <4>3. p.pending[k].runtime \in Nat /\ p.pending[k].runtime <= runtime
        BY <2>2, <4>1, <4>2 DEF Piece, PaneInv, Writing, Ordered
      <4> QED
        BY <1>2, <1>3, <4>3
    <3>4. Writing(p, runtime', bounds', Gone')
      BY <1>1, <1>3, <3>1, <3>2, <3>3, WritingRestarted
    <3>5. /\ CatchUp(p) \in PaneSet
          /\ CatchUp(p).mounted = p.mounted /\ CatchUp(p).queue = p.queue
          /\ CatchUp(p).cursor = p.cursor /\ CatchUp(p).rendered = p.rendered /\ CatchUp(p).pending = p.pending
          /\ CatchUp(p).shown = p.shown /\ CatchUp(p).restore = p.restore
          /\ CatchUp(p) = p \/ (p.catching = 0 /\ CatchUp(p).catching = runtime' /\ CatchUp(p).needs = FALSE)
      BY <1>3, CatchUpStarts
    <3>6. pane' = CatchUp(p)
      BY <1>1, <2>2, <3>2
    <3>7. Writing(pane', runtime', bounds', Gone')
      BY <3>4, <3>5, <3>6, WritingSame
    <3>8. pane.catching = 0 => pane.queue = <<>> /\ served = "no"
      BY DEF PaneInv, Queued
    <3>9. CASE pane' = p
      <4>1. pane'.catching # runtime' /\ pane'.catching <= runtime' /\ pane'.catching = pane.catching /\ pane'.queue = pane.queue
        BY <1>2, <1>3, <3>1, <3>2, <3>9
      <4>2. Queued(pane', served', Due', runtime', bounds')
            /\ Answered(pane', served', reader'[Pane], Due', runtime', bounds', Earliest')
        BY <1>1, <3>8, <4>1 DEF Queued, Answered
      <4> QED
        BY <3>1, <3>2, <3>5, <3>6, <3>7, <4>1, <4>2
    <3>10. CASE p.catching = 0 /\ CatchUp(p).catching = runtime' /\ CatchUp(p).needs = FALSE
      <4>1. pane'.catching = runtime' /\ pane'.queue = <<>> /\ served' = "no"
        BY <1>1, <3>1, <3>2, <3>5, <3>6, <3>8, <3>10
      <4>2. Queued(pane', served', Due', runtime', bounds')
            /\ Answered(pane', served', reader'[Pane], Due', runtime', bounds', Earliest')
        BY <1>3, <4>1 DEF Queued, Answered, Streaming, Ordered
      <4> QED
        BY <1>3, <3>1, <3>2, <3>5, <3>6, <3>7, <4>1, <4>2
    <3> QED
      BY <3>5, <3>6, <3>9, <3>10
  <2> QED
    BY <2>1, <2>2
<1>11. CaughtUp(pane', Due')
  <2>1. pane'.cursor \in Nat
    BY <1>10 DEF PaneSet
  <2> QED
    BY <1>8, <2>1 DEF CaughtUp
<1>12. /\ snapshot' \in [runtime : {0, runtime'}, cursor : Nat, shown : Seq(Chunk)]
       /\ snapshot'.runtime # runtime'
  BY <1>1, <1>3 DEF NoSnapshot
<1>13. PaneType'
  BY <1>1, <1>2, <1>3, <1>10, <1>12 DEF PaneInv, PaneType
<1> QED
  BY <1>5, <1>9, <1>10, <1>11, <1>12, <1>13 DEF PaneInv

LEMMA PaneInvNext ==
  ASSUME PaneInv, [PaneNext]_<<vars, paneVars>>
  PROVE  PaneInv'
<1>1. CASE PaneNext
  BY <1>1, EmitKeeps, ServeKeeps, ServeFailsKeeps, DeliverKeeps, ReadMoreKeeps, CatchUpEndsKeeps,
     ParseSnapshotKeeps, ParseKeeps, ShowKeeps, HideKeeps, MountKeeps, UnmountKeeps, RestartKeeps DEF PaneNext
<1>2. CASE UNCHANGED <<vars, paneVars>>
  <2>1. UNCHANGED <<chunks, next_cursor, bounds, reader, runtime, transit, pane, served, snapshot, bare>>
    BY <1>2 DEF vars, paneVars
  <2> QED
    BY <2>1, Still DEF PaneInv, PaneType
<1> QED
  BY <1>1, <1>2

-----------------------------------------------------------------------------
(* Every reply to a catch-up read, and every read a client makes of the ring *)
(* a pane follows, keeps the promise of read, whatever Runtime it is of.     *)
THEOREM PaneReadsKeepPromise == PaneSpec => []ReadKeepsPromise
<1>1. PaneInit => PaneInv
  BY PaneInvInit
<1>2. PaneInv /\ [PaneNext]_<<vars, paneVars>> => PaneInv'
  BY PaneInvNext
<1>3. PaneInv => ReadKeepsPromise
  <2> SUFFICES ASSUME PaneInv, NEW requested \in 0 .. MaxOut + 1, NEW max \in ReadSizes
               PROVE  Promised(requested, max, Read(requested, max))
    BY DEF ReadKeepsPromise
  <2>1. requested \in Nat /\ max \in Nat
    BY OutputAssumption
  <2> QED
    BY <2>1, ReadPromised DEF PaneInv
<1> QED
  BY <1>1, <1>2, <1>3, PTL DEF PaneSpec

(* For any ring, marks, and number of Runtimes, a pane shows each byte of    *)
(* its Runtime once and in order, skips only what the ring or an early       *)
(* snapshot has lost, and has written all there is when it is visible,       *)
(* neither reads nor means to, and no event is on its way.                   *)
THEOREM PaneShowsAllHolds == PaneSpec => []PaneShowsAll
<1>1. PaneInit => PaneInv
  BY PaneInvInit
<1>2. PaneInv /\ [PaneNext]_<<vars, paneVars>> => PaneInv'
  BY PaneInvNext
<1>3. PaneInv => PaneShowsAll
  <2> SUFFICES ASSUME PaneInv, pane.mounted PROVE PaneShowsAll
    BY DEF PaneShowsAll
  <2>1. Writing(pane, runtime, bounds, Gone)
    BY DEF PaneInv
  <2>2. \A k \in 1 .. Len(Drawn(pane)) :
          Follows(Drawn(pane)[k].start, IF k = 1 THEN 0 ELSE Drawn(pane)[k - 1].end, Gone)
    BY <2>1 DEF Writing, Rendering, Chain
  <2>3. /\ \A j, k \in 1 .. Len(pane.pending) :
             j <= k /\ pane.pending[j].runtime = runtime => pane.pending[k].runtime = runtime
        /\ \A k \in 1 .. Len(pane.pending) :
             pane.pending[k].runtime = runtime => Follows(pane.pending[k].start, Upto(pane, k, runtime), Gone)
        /\ pane.cursor = Upto(pane, Len(pane.pending) + 1, runtime) \/ pane.cursor <= Gone
    BY <2>1 DEF Writing, Ordered, Parsing
  <2>4. ASSUME pane.visible, pane.catching = 0, ~pane.needs,
               \A k \in 1 .. Len(transit) : transit[k].runtime # runtime
        PROVE  pane.cursor = next_cursor
    <3>1. Due = next_cursor
      BY <2>4, BeginNone DEF Due
    <3>2. Due <= pane.cursor
      BY <2>4 DEF PaneInv, CaughtUp
    <3>3. pane.cursor \in bounds
      BY <2>1 DEF Writing
    <3>4. pane.cursor \in Nat /\ next_cursor \in Nat /\ pane.cursor <= next_cursor
      BY <3>3, Known
    <3> QED
      BY <3>1, <3>2, <3>4
  <2> QED
    BY <2>2, <2>3, <2>4 DEF PaneShowsAll
<1> QED
  BY <1>1, <1>2, <1>3, PTL DEF PaneSpec
=============================================================================
