------------------------------- MODULE PaneOutput -------------------------------
(***************************************************************************)
(* How a pane of the window keeps up with the output ring of its Runtime    *)
(* (TerminalPane.tsx), composed with that ring (TerminalOutput).  Output    *)
(* reaches the pane twice: as events, which it may have to drop or queue,   *)
(* and as replies to its catch-up reads; its terminal parses what was       *)
(* written to it later.  JavaScript runs one task at a time, so that a step *)
(* of the pane is the code between two awaits or one callback.              *)
(*                                                                         *)
(* Sizes are counted in bytes of the stream, where the window counts UTF-16 *)
(* units; both ends agree on cursors, which are bytes.                      *)
(***************************************************************************)
EXTENDS TerminalOutput, SequencesExt

CONSTANTS
  Pane,        \* the pane, one of the Readers of the ring
  HighWater,   \* terminalHighWaterMark: size of a catch-up read, of the queue, of the backlog
  LowWater,    \* terminalLowWaterMark
  MaxRuntimes, \* bound: Runtimes the pane has one after the other
  MaxBefore,   \* bound: bytes a Runtime has produced when the pane gets the next
  MaxTransit   \* bound: events on their way to the window

ASSUME PaneAssumption ==
  /\ Pane \in Readers
  /\ HighWater \in Nat /\ LowWater \in 0 .. HighWater - 1 /\ MaxPush <= HighWater
  /\ {MaxRuntimes, MaxTransit} \subseteq Nat \ {0} /\ MaxBefore \in Nat

VARIABLES
  runtime,   \* runtimeIdRef: the Runtime of the pane, counted
  stopped,   \* the Runtimes that were told to pause their output
  transit,   \* output events emitted and not delivered yet
  pane,      \* the mounted component and its terminal
  served,    \* the reply to the catch-up read: "no" | "yes" | "failed"
  snapshot,  \* terminalSnapshots of the pane; runtime 0 for none
  bare       \* cursor up to which a snapshot was taken of a terminal that had not
             \* parsed the snapshot it was itself restored from

paneVars == <<runtime, stopped, transit, pane, served, snapshot, bare>>

\* shown is what the terminal has parsed of this Runtime, restore what it was
\* given of a snapshot and has not parsed yet, pending what was written after that.
Fresh == [mounted |-> FALSE, visible |-> TRUE, cursor |-> 0, rendered |-> 0, catching |-> 0,
          needs |-> TRUE, queue |-> <<>>, pending |-> <<>>, paused |-> FALSE,
          shown |-> <<>>, restore |-> <<>>]

NoSnapshot == [runtime |-> 0, cursor |-> 0, shown |-> <<>>]

PaneInit ==
  /\ Init
  /\ runtime = 1 /\ stopped = {} /\ transit = <<>> /\ pane = Fresh /\ served = "no"
  /\ snapshot = NoSnapshot /\ bare = 0

Size(chunk) == chunk.end - chunk.start
Sizes(seq) == FoldLeft(LAMBDA n, chunk : n + Size(chunk), 0, seq)

\* pendingOutput: what events have written and the terminal has not parsed.
Backlog(p) == Sizes(SelectSeq(p.pending, LAMBDA w : w.event))

\* What was written joins what is shown before it.
Join(shown, w) ==
  IF shown # <<>> /\ Last(shown).end = w.start
    THEN [shown EXCEPT ![Len(shown)].end = w.end]
    ELSE Append(shown, [start |-> w.start, end |-> w.end])

\* flow: the pane stops its Runtime when it falls behind and lets it go when it has caught up.
Flow ==
  stopped' = IF pane'.paused = pane.paused THEN stopped
             ELSE IF pane'.paused THEN stopped \cup {runtime} ELSE stopped \ {runtime}
-----------------------------------------------------------------------------
\* Fault: an event is written whatever the catch-up has shown of it.
WriteAgain(p, event) ==
  [p EXCEPT !.cursor = event.end,
            !.pending = Append(@, [runtime |-> event.runtime, start |-> event.start,
                                   end |-> event.end, event |-> TRUE])]

\* writeOutput: the part of an event after the cursor.
WriteOutput(p, event) ==
  IF event.end <= p.cursor THEN p ELSE
  LET from == IF event.start >= p.cursor THEN event.start ELSE Round(bounds, p.cursor, FALSE)
      q    == [p EXCEPT !.cursor = event.end,
                        !.pending = Append(@, [runtime |-> event.runtime, start |-> from,
                                               end |-> event.end, event |-> TRUE])]
  IN [q EXCEPT !.paused = @ \/ (p.visible /\ Backlog(q) >= HighWater)]

\* The events of a queue, one after the other.
WriteQueue(p, queue) ==
  LET q[k \in 0 .. Len(queue)] == IF k = 0 THEN p ELSE WriteOutput(q[k - 1], queue[k])
  IN q[Len(queue)]

\* catchUpOutput: its first read is on its way as soon as catching is set.
CatchUp(p) ==
  IF p.mounted /\ p.catching = 0 /\ p.needs /\ p.visible
    THEN [p EXCEPT !.catching = runtime', !.needs = FALSE]
    ELSE p

\* Fault: a queue that is full is emptied, and the catch-up under way is trusted.
EnqueueFull(p, event) ==
  [p EXCEPT !.queue = IF Sizes(@) + Size(event) > HighWater THEN <<>> ELSE Append(@, event)]

Enqueue(p, event) ==
  IF Sizes(p.queue) + Size(event) > HighWater
    THEN [p EXCEPT !.queue = <<>>, !.needs = TRUE]
    ELSE [p EXCEPT !.queue = Append(@, event)]

\* Fault: what a hidden pane did not show is not asked for again.
HeardForgets(p, event) ==
  IF ~p.mounted \/ event.runtime # runtime \/ ~p.visible THEN p
  ELSE IF p.catching # 0 \/ p.needs THEN CatchUp(Enqueue(p, event))
  ELSE WriteOutput(p, event)

\* The listener of output events.
Heard(p, event) ==
  IF ~p.mounted \/ event.runtime # runtime THEN p
  ELSE IF ~p.visible THEN [p EXCEPT !.needs = TRUE]
  ELSE IF p.catching # 0 \/ p.needs THEN CatchUp(Enqueue(p, event))
  ELSE WriteOutput(p, event)
-----------------------------------------------------------------------------
(* The Runtime: it goes on while it is not paused, and reads are served     *)
(* when its turn comes.                                                     *)
Emit ==
  /\ runtime \notin stopped /\ Len(transit) < MaxTransit
  /\ Push
  /\ transit' = Append(transit, [runtime |-> runtime, start |-> next_cursor, end |-> next_cursor'])
  /\ UNCHANGED <<runtime, stopped, pane, served, snapshot, bare>>

\* A read of a Runtime that was replaced is answered with its output or refused.
Serve ==
  /\ pane.catching # 0 /\ served = "no"
  /\ IF pane.catching = runtime
       THEN ReadFrom(Pane, pane.cursor, HighWater)
       ELSE UNCHANGED vars
  /\ served' = "yes"
  /\ UNCHANGED <<runtime, stopped, transit, pane, snapshot, bare>>

ServeFails ==
  /\ pane.catching # 0 /\ served = "no" /\ served' = "failed"
  /\ UNCHANGED <<vars, runtime, stopped, transit, pane, snapshot, bare>>

Deliver ==
  /\ transit # <<>>
  /\ transit' = Tail(transit)
  /\ UNCHANGED <<vars, runtime, served, snapshot, bare>>
  /\ pane' = Heard(pane, Head(transit))
  /\ Flow

\* The reply is used up.
Taken ==
  /\ served' = "no" /\ reader' = [reader EXCEPT ![Pane] = NoResult]
  /\ UNCHANGED <<chunks, next_cursor, bounds>>

\* The reply brings new output of the Runtime the pane still has.
Progress ==
  /\ served = "yes" /\ pane.catching = runtime
  /\ reader[Pane].len > 0 /\ reader[Pane].next > pane.cursor

Accept(p) ==
  [p EXCEPT !.cursor = reader[Pane].next,
            !.pending = Append(@, [runtime |-> runtime, start |-> reader[Pane].next - reader[Pane].len,
                                   end |-> reader[Pane].next, event |-> FALSE])]

\* It is written, and the next read follows while the pane is visible.
ReadMore ==
  /\ Progress /\ pane.visible
  /\ pane' = Accept(pane)
  /\ Taken
  /\ UNCHANGED <<runtime, stopped, transit, snapshot, bare>>

\* The loop ends: the queue is written, or a new catch-up makes it unnecessary.
CatchUpEnds ==
  /\ served # "no" /\ ~(Progress /\ pane.visible)
  /\ Taken
  /\ UNCHANGED <<runtime, transit, snapshot, bare>>
  /\ LET needs == pane.needs \/ ~pane.visible \/ pane.catching # runtime \/ served = "failed"
         done  == [(IF Progress THEN Accept(pane) ELSE pane) EXCEPT
                    !.catching = 0, !.needs = needs, !.queue = <<>>]
     IN pane' = IF ~needs THEN WriteQueue(done, pane.queue)
                ELSE IF served # "failed" THEN CatchUp(done)
                ELSE done
  /\ Flow
-----------------------------------------------------------------------------
(* The terminal parses what it was given, in order, first the snapshot it   *)
(* was restored from.                                                       *)
ParseSnapshot ==
  /\ pane.mounted /\ pane.restore # <<>>
  /\ pane' = [pane EXCEPT !.shown = pane.restore, !.restore = <<>>]
  /\ UNCHANGED <<vars, runtime, stopped, transit, served, snapshot, bare>>

Parse ==
  /\ pane.mounted /\ pane.restore = <<>> /\ pane.pending # <<>>
  /\ LET w    == Head(pane.pending)
         p    == [pane EXCEPT !.pending = Tail(@)]
         mine == w.runtime = runtime
     IN pane' = [p EXCEPT
          !.shown    = IF mine THEN Join(@, w) ELSE @,
          !.rendered = IF mine THEN Greatest(@, w.end) ELSE @,
          !.paused   = @ /\ ~(w.event /\ Backlog(p) <= LowWater)]
  /\ Flow
  /\ UNCHANGED <<vars, runtime, transit, served, snapshot, bare>>
-----------------------------------------------------------------------------
(* The window: a pane is laid out or not, unmounted when the layout moves   *)
(* or it is minimised, mounted again, and started on a new Runtime.         *)
Show ==
  /\ pane.mounted /\ ~pane.visible
  /\ UNCHANGED <<vars, runtime, stopped, transit, snapshot, bare, served>>
  /\ pane' = CatchUp([pane EXCEPT !.visible = TRUE])

Hide ==
  /\ pane.mounted /\ pane.visible
  /\ pane' = [pane EXCEPT !.visible = FALSE]
  /\ stopped' = stopped \ {runtime}
  /\ UNCHANGED <<vars, runtime, transit, served, snapshot, bare>>

\* The terminal of the snapshot: it starts where the snapshot's rendering ended.
Mount ==
  /\ ~pane.mounted
  /\ UNCHANGED <<vars, runtime, stopped, transit, served, bare>>
  /\ \E visible \in BOOLEAN :
       LET p == [Fresh EXCEPT !.mounted = TRUE, !.visible = visible]
       IN IF snapshot.runtime = runtime
            THEN /\ pane' = CatchUp([p EXCEPT !.cursor = snapshot.cursor, !.rendered = snapshot.cursor,
                                              !.restore = snapshot.shown])
                 /\ snapshot' = NoSnapshot
            ELSE pane' = CatchUp(p) /\ UNCHANGED snapshot

\* Fault: the snapshot claims what was written, not what was parsed.
SnapshotWritten(p) == [runtime |-> runtime, cursor |-> p.cursor, shown |-> p.shown]

SnapshotOf(p) == [runtime |-> runtime, cursor |-> p.rendered, shown |-> p.shown]

\* Fault: a pane that goes away leaves its Runtime paused.
UnmountPaused ==
  /\ pane.mounted
  /\ snapshot' \in {SnapshotOf(pane), NoSnapshot}
  /\ bare' = IF pane.restore # <<>> THEN pane.rendered ELSE bare
  /\ pane' = Fresh /\ Taken
  /\ UNCHANGED <<runtime, stopped, transit>>

(* The component goes away.  The snapshot is kept unless it was discarded   *)
(* or could not be taken; flow control is undone.                           *)
Unmount ==
  /\ pane.mounted
  /\ snapshot' \in {SnapshotOf(pane), NoSnapshot}
  /\ bare' = IF pane.restore # <<>> THEN pane.rendered ELSE bare
  /\ pane' = Fresh /\ Taken
  /\ stopped' = IF pane.paused THEN stopped \ {runtime} ELSE stopped
  /\ UNCHANGED <<runtime, transit>>

\* The pane gets a new Runtime, whose id the window sets before it creates it.
\* The old one has ended or was closed; if it was paused, nobody resumes it.
\* The snapshot of the old one stays where it is, and no mount will use it.
Restart ==
  /\ runtime < MaxRuntimes /\ next_cursor <= MaxBefore
  /\ runtime' = runtime + 1
  /\ chunks' = <<>> /\ next_cursor' = 0 /\ bounds' = {0} /\ bare' = 0
  /\ pane' = IF ~pane.mounted THEN pane
             ELSE CatchUp([pane EXCEPT !.cursor = 0, !.rendered = 0, !.shown = <<>>, !.restore = <<>>])
  /\ snapshot' = NoSnapshot
  /\ UNCHANGED <<reader, stopped, transit, served>>

PaneNext ==
  \/ Emit \/ Serve \/ ServeFails \/ Deliver \/ ReadMore \/ CatchUpEnds
  \/ ParseSnapshot \/ Parse \/ Show \/ Hide \/ Mount \/ Unmount \/ Restart

\* Terminals parse what they are given.
PaneSpec == PaneInit /\ [][PaneNext]_<<vars, paneVars>> /\ WF_<<vars, paneVars>>(Parse)
                     /\ WF_<<vars, paneVars>>(ParseSnapshot)
-----------------------------------------------------------------------------
\* What the terminal shows, or will when it has parsed its snapshot.
Drawn(p) == IF p.restore # <<>> THEN p.restore ELSE p.shown

\* Where the output of a Runtime ends before piece k of what is still to parse.
Reach(seq) == IF seq = <<>> THEN 0 ELSE Last(seq).end
Upto(p, k, id) == IF k = 1 \/ p.pending[k - 1].runtime # id THEN Reach(Drawn(p)) ELSE p.pending[k - 1].end

\* Output before this cursor may be lost.
Gone == Greatest(Earliest, bare)

Follows(start, end, gone) == start = end \/ (end < start /\ start <= gone)

(* A pane shows each byte of its Runtime once and in order, after what it   *)
(* still has to parse of an earlier one, and skips only what the ring had   *)
(* lost when the pane came to it, or what a snapshot taken too early had    *)
(* not in it; and a visible pane that neither reads nor means to, and to    *)
(* which no event is on its way, has written all there is.  Hiding,         *)
(* remounting, a queue that overflows and replies that overtake events must *)
(* not change that.                                                         *)
PaneShowsAll ==
  pane.mounted =>
    LET drawn  == Drawn(pane)
        last   == Len(pane.pending)
        Mine(k) == pane.pending[k].runtime = runtime
    IN
    /\ \A k \in 1 .. Len(drawn) : Follows(drawn[k].start, IF k = 1 THEN 0 ELSE drawn[k - 1].end, Gone)
    /\ \A j, k \in 1 .. last : j <= k /\ Mine(j) => Mine(k)
    /\ \A k \in 1 .. last : Mine(k) => Follows(pane.pending[k].start, Upto(pane, k, runtime), Gone)
    /\ pane.cursor = Upto(pane, last + 1, runtime) \/ pane.cursor <= Gone
    /\ pane.visible /\ pane.catching = 0 /\ ~pane.needs
         /\ (\A k \in 1 .. Len(transit) : transit[k].runtime # runtime)
       => pane.cursor = next_cursor

(* A Runtime that its pane has paused is let go again while the pane has it, *)
(* however the pane is hidden, moved or closed meanwhile: no other part of   *)
(* the window would resume it.                                               *)
PauseLifted == runtime \in stopped ~> runtime \notin stopped
=============================================================================
