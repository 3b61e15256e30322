# Verification of luna-mux

luna-mux is a desktop terminal multiplexer: a Tauri application whose Rust core
(`src/app/native/src/`) runs local shells, SSH sessions, port forwards, file
transfers, database connections and controlled browsers, and lets coding agents
use all of them through one control service. This directory holds TLA+ models of
its core, the TLC instances that check them, and theorems about them that TLAPS
checks. Paths below are relative to `src/app/native/src/` unless they start with
`src/`; `PROJECT.json` maps every definition to the lines it models.

    tlc -workers 2 -config Exit.cfg MCBrowserRuntime     # one run
    tlapm BrowserRuntime_proofs.tla                      # one set of proofs

## 1. The system

A **Runtime** is something the user has open: a local shell, an SSH terminal, a
database connection or a browser. Panes of the window and agents both act on
Runtimes; the two must not corrupt each other's work, and that is where most of
the concurrency is. The core runs on tokio (client futures on several threads),
on blocking threads (PTY reader, PTY waiter, blocking writes) and on the main
thread of the window; components share state through `std::sync` and async
mutexes and talk through events to the window.

| component | state it keeps | operations | interacts with | what makes it correct |
|---|---|---|---|---|
| Interaction coordinator, `terminal_interaction.rs` | an input gate per Runtime, the registry of interaction records, a waiter lock per record | `start`, `write`, `interrupt`, `wait`, `cancel` | backends (write, read output, status), control service, window input | input of a key is sent at most once; one writer; nobody else's input in an interaction; waits are contiguous, bounded and return |
| Output ring, `terminal_output.rs` | retained chunks, end cursor | `push`, `read`, eviction | filled by both backends, read by panes and waits | a read returns whole characters from where it was asked, loss is always reported |
| Local PTY, `local_pty_backend.rs` | flags, writer / master / output mutexes, status, ring, screen | reader and waiter threads, `write`, `resize`, `set_output_paused`, `close` | the OS's PTY, coordinator, events | the exit is reported, covers all output and comes last; the screen has the PTY's size; no deadlock with ConPTY |
| SSH Runtime, `ssh_terminal_backend.rs` + `sessions.rs` | Runtime record, session record, the shell behind an async mutex | `create`/`establish`, reader task, `close`, `resize`, flow, `write` | russh, coordinator, transfers, tunnels | an ended Runtime stays ended; nothing remote is left open; the end follows all output |
| Port forwarding, `tunnels.rs` | active tunnels, routes of remote ports | `start`, `stop`, monitor, failing connections, `stop_session` | SSH session, window | a running tunnel has its listener; no port leaks; tunnels follow the session |
| Transfers, `transfers.rs` | queue, conflicts and answers of batches, permits, records in SQLite | `enqueue`, `cancel`, `resolve_conflict`, run, clear, restart | SFTP of a session, window dialog | one question at a time; files replaced only by consent and never lost; records tell the truth; the queue drains |
| Control service, `control_service.rs` + `control_approval.rs` | idempotency cache, approval tickets, opt-in for SFTP, event buffer | `invoke` and its operations, `resolve`, events | all of the above, MCP, CLI, window | a key succeeds once; an answer belongs to its request; guarded operations have a consent of their own |
| Exit lifecycle, `exit_lifecycle.rs` + `lib.rs` | atomic phase, cleanup task | request, confirm, dismiss, cleanup, exit | every Runtime manager | one dialog and one cleanup; nothing left running; a confirmed exit happens |
| Browser Runtime, `browser_runtime.rs` | map of browsers, start lock per session, CDP ports, registry file | create, close, page connections, removal of data, `close_all` and the forced cleanup | Chrome processes, exit | a Runtime drives its own Chrome; one Chrome per profile, no profile changed under it; no orphan |
| Managed agent hooks, `agent_hooks.rs` | tokens and their files, keys of agents, titles, event numbers | launch, hook requests, terminal output, revocation after a grace period, restart | Runtimes, shells, window | a key leads to one agent; what has ended stays ended, and the window hears of it; a title belongs to the current session |
| Panes, `TerminalPane.tsx` | cursor, queue and backlog of a pane, snapshots of unmounted panes | output events, catch-up reads, `mount`/`unmount`, flow control | output ring, backends | a pane shows each byte once and in order, or says what is lost; a paused Runtime is resumed |
| Database Runtime / Pane bridge, `database_runtime.rs`, `database_pane_ui.rs` | connection; pending request per pane | connect, execute; mount, request, respond | control service, window | one pending request, answered or timed out once |
| Settings and records, `database.rs` | SQLite | repositories, one transaction each | everybody | interrupted work is marked at start |
| MCP server and proxy, adapters, shims, CLI | little or none | translate requests and agent settings | control service | translation |
| Window, `src/app/frontend/src/` | layout, dialogs | renders events, issues commands | all | stale events are dropped |

Behaviours that are hard here: a client's future may be dropped at any await while
a detached task goes on; a check under one lock is used after another was taken;
an answer of the user, a cancellation and the end of a session meet a task between
two of its awaits; a blocking OS call holds a mutex that somebody else needs; exit
cuts off whatever does not return. `PROJECT.json` lists them as hazards, each at
its line, with the property that covers it or the reason none does yet.

## 2. The modules

Each component has a module with its state, one action per step, its properties,
and operators headed *Fault*: plausible bugs of a definition, never part of
`Next`, which `PROJECT.json` pairs with the property that must notice them. An
`MC…` module gives the instances of TLC, a `…_proofs` module the theorems (those of
Tunnels are in `SshRuntime_proofs`, of ExitLifecycle in `BrowserRuntime_proofs`, of
PaneOutput in `TerminalOutput_proofs`).
A step of a model is the code between two points at which another thread can be
seen: a lock is taken, a lock is released or an await.

**TerminalInteraction** (`terminal_interaction.rs`). A *call* is one client future
with a program counter; a *task* is the detached task it spawns, which takes over
the guard of the gate, so that dropping the future (`DropQueued`, `DropWaiter`)
does not drop the guard. `start` is `StartLookup` … `StartReserve`: look the key up
(544), `try_lock` the gate, look again under the gate, check the status, check for
an unfinished interaction, take the cursor, and insert the record while checking
the key once more. `write`/`interrupt` are `AutoTryGate`, `LockGate`, `Takeover`,
`Mark`; the detached write is `TaskBegin` and `TaskEnd`, which records `accepted`
or `uncertain`. `wait` is `WaitBegin` … `WaitSettle`; a read that fails ends it as
`unavailable`, as `runtimeExited` or with an error. The gate is tokio's fair mutex: a
flag and a FIFO queue. `sends` is a history variable. What a condition matches is
text and left open; output is counted.

**TerminalOutput** (`terminal_output.rs`). Chunks are intervals of a byte stream
whose characters have one to `CharLen` bytes; `Read` is the loop of the code, a
recursive function of the number of chunks passed (`Passes`), and `Promised` says without a
loop what it must return.

**LocalPty** (`local_pty_backend.rs`). The shell, the two bounded buffers of the PTY,
the reader and waiter threads and the blocking calls of clients. Platform
differences are chosen in `Init`: on Windows a resize may wait for output to drain,
ConPTY ends the output only once its master is dropped,
and descendants of a WSL shell may hold the output open, so that the waiter gives
up on the reader. A resize the OS refuses gives the mutex back and leaves the screen
alone.

**SshRuntime** (`sessions.rs`, `ssh_terminal_backend.rs`). `Establish` (over a jump host
or not, with the questions about host keys: `Connect`, `Decide`, `Decided`, `Undecided`), `Reader`,
`CloseStep`/`TakeShell`, `SetPaused`/`NotifyResume`, `StoreSize`/`SendSize`, `Write` are cut
at each await. A status event updates the session and the Runtime record at once,
as `observe_status` does.

**Transfers** (`transfers.rs`, the dialog of `src/app/frontend/src/App.tsx`). A task walks
its files: check the destination, perhaps ask, copy into `.part`, put in place.
Cancelling and reporting are threads of their own, because they are.

**Tunnels** (`tunnels.rs`, the forwards of `sessions.rs`). Starts, stops and monitors
of one profile on one session, and the window that follows their events. Either end of
the session is `SessionEnds`: a disconnection drops the routes of remote ports, an end of
the shell or a failure leaves them to the stops that follow. Its names
(`TunnelsInit`, `TunnelsNext`, …) differ from those of SshRuntime, so that one module of
proofs extends both.

**ControlInvoke** (`control_service.rs`, `control_approval.rs`). The path of a request
through opt-in, cache, approval, reservation, execution and completion.

**AtMostOnce** is what a client of the control service may rely on, without cache,
lock or ticket: an operation is carried out at most once per key, and an answer is
the result of the call's own operation, or of an equal request under the same key.
ControlInvoke implements it (`Once == INSTANCE AtMostOnce WITH ...`, property
`KeepsPromise`): asked are the calls that have left the window, done those whose
operation was executed, answered those that returned a result.

**ExitLifecycle** (`exit_lifecycle.rs`, `lib.rs`). The phase, the dialog and the cleanup
task on its snapshots.

**BrowserRuntime** (`browser_runtime.rs`) EXTENDS ExitLifecycle: it says what the
Browser Runtimes of the exit do, by joining the exit's actions with what happens to
the map, the port and the profiles (`StillAnExit` proves that it is the same exit). It
models one Session: `create` (`Begin`, `Spawn`, `Registered`, `CreateFails`,
`CreateDropped`) holds the Session's start lock over all its awaits, and its client may
drop it; `close` (`Close1`, `Asked`, `Killed`, `Cleaned`), the page connection that is
lost and found again (`Rebind`), `RemoveData`, the exit's drain of the map and the forced
cleanup with its sweep of disposable profiles take no such lock. All Chromes of a Session
are given one port, and whoever listens there answers. `torn` is a history
variable: the profiles rewritten or deleted under a living Chrome.

**AgentHooks** (`agent_hooks.rs`, the launch in `commands.rs`, the sink in `lib.rs`).
`Launch` gives a Runtime its token; a hook is authorized by `Receive`, and `HookStep`
binds, registers, records and removes, each under a lock of its own. Recording takes
three: the title (`NoteTitle`), the structured marker (`NoteMark`) and the numbered event
(`Record`); `noted` is how far a request or revocation has got. The output
thread (`OutputReport` for the status of a dsh-tui agent, `OutputHeard`, `OutputSignal`)
and the revocation after an exit (`Revoke`) take
the same locks in between, and `Restart` keeps only what is on disk.
`overtaken` is a history variable: the Runtimes where one actor removed keys while
another still held what it had read of them.

**PaneOutput** (`src/app/frontend/src/components/TerminalPane.tsx`) EXTENDS
TerminalOutput: a pane receives output as events, which may be late, queued or
dropped, and catches up by reads of the ring; xterm parses what it was given later;
a pane that is unmounted leaves a snapshot, and is mounted again from it, perhaps
when its Runtime was replaced. Sizes count bytes, where the window counts UTF-16
units; cursors are bytes on both sides. `bare` is a history variable (section 5).

Two pairs are composed, because they share state whose interleavings matter:
BrowserRuntime with ExitLifecycle (a browser that starts while the map is
drained, or that a killed application has left to this one) and PaneOutput with TerminalOutput (eviction between an event and a read).
The others take what they need of their neighbours as an environment
(TerminalInteraction has a backend that emits, exits and fails writes; LocalPty
counts what the ring is given, and assumes a pane lifts every pause, which
`PauseLifted` of PaneOutput shows).

## 3. What is checked

Every run uses 2 workers and ends within five minutes. A property that holds by
the shape of a model was left out; each one has a mutant of a mapped definition
that TLC must refute under the same cfg. There are ten passing runs and two
that show a disagreement (section 5).

| run | instance | shows |
|---|---|---|
| `interaction_safety` | 2 calls, 2 Runtimes, 2 keys, 3 records; interactions, automation, desktop input, interrupts; no output | `SendAtMostOnce`, `RecordTellsWhatWasSent`, `OneWriter`, `SingleActive`, `NoForeignInput` |
| `interaction_live` | 2 calls (one interacts and waits, one waits and writes from the desktop), 1 Runtime, 1 key, 1 record, a budget of 3, a smallest read of 2, 4 units of output through a ring of 3 | `WaitContiguous`, `BudgetRespected`, `EndedStaysEnded`, `TakeoverServed`, `WaitsEnd` |
| `output_ring` | a pane over a ring of 3 bytes, characters of 1–2, chunks of 1–2, 4 bytes per Runtime, marks 2 and 1, 2 Runtimes, 2 events on their way | `ReadKeepsPromise`, `PaneShowsAll`, `PauseLifted` |
| `exit` | 2 SSH, 1 local, 2 Chromes of one Session on a retained or a disposable profile, any 2 of them; Chromes may be left from an earlier application | `OneOwner`, `NothingLeftBehind`, `DrivesItsOwn`, `ProfilesRespected`, `ConfirmedExitHappens` |
| `ssh_connected` | a connect with or without a jump host and its questions; 2 closes, 1 writer, 1 flow control, resizes, 1 unit of output | `ClosedMeansClosed`, `NaturalExitIsComplete`, `SizeReached`, `EndReported` |
| `transfers` | upload of two directories of one name in one batch, of 2 and 1 files, onto one existing and one new file, a clean-up that waits, faults, cancellation, kill | `OneQuestion`, `ReplacedByConsent`, `NothingLost`, `RecordsTell`, `QueueDrains` |
| `tunnels` | 2 starts, 1 stop, 2 monitors, local and remote, end of the session | `RunningConfirmsListener`, `NoLeakedListener`, `TunnelsFollowSession` |
| `pty` | 1 write, 2 resizes, 3 units of output, all platforms | `ExitCoversOutput`, `ExitIsLast`, `ScreenMatchesPty`, `ExitReported` |
| `invoke` | 3 calls of two callers, 1 key, 2 tickets, 2 payloads, clock to 2 | `Consented`, and that ControlInvoke implements AtMostOnce: `KeepsPromise` |
| `agents` | 1 Runtime, 2 agents, 1 process, 2 sessions, 2 hooks, output, exit, 1 restart | `OneAgentPerRuntime`, `GoneIsSeenGone`, `DeadStaysDead`, `TitleOfCurrentSession` |

Why the bounds are enough. The hazards of `terminal_interaction.rs` are races of two
futures and the task one of them left behind; with two slots that are used again
and again (a slot is free once its call has returned and its task ended), a third
actor is always the detached task or the client's `Cancel`. Two Runtimes are what
it takes to race for a key under two gates, three records let an earlier one be
looked up while two are in flight. In `interaction_live` one unit is less than the
budget and leaves room for a smallest read, so a wait that finds output goes round again
without its deadline (881–883), and the Runtime has more to say than budget and ring hold. In the ring, capacity, read size and character
length keep the order they have in the code (a read holds a character, a chunk
fits), and the ring wraps while a pane is behind; the high-water mark of a pane is
smaller than the ring's capacity as in the code, so that its queue overflows and
a catch-up takes several reads. Two Runtimes, the second after at most `MaxBefore`
bytes of the first, are what it takes for a late event or reply to meet the wrong
one. In `exit`, a Session with two Chromes is the least in which one can answer for the
other, and `MaxRuntimes` lets any two of five Runtimes take part. In `agents`, one Runtime
with two agents to mint is the least in which a key is taken over; two requests, a launch
and the output thread meet at every lock, and two sessions come in either order. Longer
chains of requests are left to the theorems, which hold for any number. `pty` lets the buffer of one unit fill again behind a chunk in
the reader's hand, which is what a resize can wait for, and has two resizes for their
order; each may be refused by the OS. `transfers` has one permit per
task, so the order of conflicts, and not the wait for a permit, is explored:
`Acquire` still takes one and gives it back; both tasks go for one file, at any step of
each other, and the clean-up reads only their records, so it waits for this batch as it
does for the single files a deployment uploads. In `invoke`, three calls are one to
reserve, one to race it, and one to retry after it; `Cap` and `TTL` of 1 make a ticket
be evicted and expire.

Deadlock is not checked: the calls of clients, starts, tasks and output are
bounded, users owe nothing, and each of these systems really comes to rest (a
session that ended, an application that exited). That nothing rests too early is
what the liveness properties say.

### Fairness

Fairness is assumed of what the code or its scheduler does, and weakly unless a
lock forces more. Clients, shells, servers and Runtimes owe nothing.

- TerminalInteraction: futures and tasks that can run are polled, timers fire,
  backend writes return. The queue of the gate is modelled, so that tokio's fair
  mutex is not an assumption.
- SshRuntime: awaits on the network return; the user need not answer a question, but its
  sixty seconds end. Taking the shell's lock is strongly
  fair for `Establish` and `TakeShell`: the queue of tokio's mutex is not modelled
  there, and it serves its waiters in order.
- LocalPty: the OS runs its threads, and a pane lifts every pause (the writer of a
  pane resumes a Runtime once it has caught up).
- Transfers: threads go on, a semaphore serves its waiters (`SF` of `Acquire`), and
  the user answers the question that is on the screen. `QueueDrains` says what
  this buys, and excludes cancellation because of section 5.
- Tunnels: calls go on and the monitor looks every second.
- ExitLifecycle and BrowserRuntime: the main thread handles its events and the
  five-second timer fires; closing a Runtime need not return, nor need a `create`.
- PaneOutput: terminals parse what they are given. Nothing else is needed for
  `PauseLifted`, which speaks of the Runtime the pane has (one that was replaced is nobody's
  to resume, and stays paused): events need not arrive, reads need not be answered, and a pane need not
  stay visible or mounted.

## 4. What is proved

TLAPS proves the following for every value of the constants that satisfies the
named assumption of the module (non-empty bounds, disjoint kinds of Runtime, a
smallest read that holds the longest character, a `NONE` that is no task, call, client,
agent, Runtime, key or request, no writer that is mistaken for the connecting task, files of a transfer that have
names).

**Interaction coordinator** (`TerminalInteraction_proofs`). All the safety properties of
the runs (`SendAtMostOnce`, `RecordTellsWhatWasSent`, `OneWriter`, `SingleActive`,
`NoForeignInput`, `EndedStaysEnded`, `WaitContiguous`, `BudgetRespected`) and the type
invariant, for any clients, Runtimes, owners and keys. None of them is inductive. The
argument is a tower:

1. `Coherent`: a call at a step of `start` has an owner, a key and no task; a call
   that waits names an existing record; the queue of a gate holds exactly queued
   calls, each once. This is what makes handing a gate over well defined.
2. `GateHeld`: whoever is between taking a gate and giving it back, call or task,
   holds a locked gate and is the only one. It gives `OneWriter`.
3. `SendsCounted`: a key has one record and a record one sending task; a record in
   the state `sending` has a task on its way, which has counted its send exactly if
   it is writing; a key without a record was never sent. It gives the other two.
   Only the check in the critical section of the insertion (`StartReserve`) is used;
   the two earlier ones save work and are not needed for safety.
4. `Sole`: from its check to its insertion the holder of the gate keeps its Runtime
   free of unfinished interactions, and what a takeover is about to mark is all there
   is. An insertion needs the gate (2), so it meets no other: `SingleActive`. Foreign
   input is written by whoever found none or ended them: `NoForeignInput`.
5. `WaitersHold` and `HasRoom`: a wait that observes holds the waiter lock of its record,
   so nobody else moves the record's cursor, and it goes on only with room for the
   smallest read. They give `WaitContiguous` and `BudgetRespected`.

`EndedStaysEnded`, an action property, needs `Coherent` only: a wait settles a record
in one critical section, which looks at the state again.

**Exit lifecycle** (the first part of `BrowserRuntime_proofs`). `OneOwner` is inductive with the types.
`NothingLeftBehind` needs `CleanupProgress`, which says of each point of the cleanup
what it has closed already: what still runs and is not late is in the list the
cleanup works on. `CleanupPrecedesExit` follows from it too.

**Control service** (`ControlInvoke_proofs`). `CacheInv`: a key in flight is held by
the one call that reserved it, which is still at work; a completed key holds the
answer of a call that was carried out for it. It gives `KeyedOnce`, `SameAnswer` and
`ReservationsHeld` (no key stays taken by a call that has answered). `ConsentInv`
adds that a ticket consumed was approved by the user for that very request and is
consumed once: `Consented`.

`PromiseKept` is the refinement, for any calls, keys and tickets: the initial states
map to initial states of AtMostOnce, and each step to a step of it or a stutter, from
`CacheInv` and what `AnswersMatch` says of the cached answer.

**Browser Runtime** (the second part of `BrowserRuntime_proofs`). `StillAnExit`: every behaviour of the
composition is one of ExitLifecycle, so that its theorems hold (`ComposedCleanup` is
`NothingLeftBehind`). `BrowserInv` then says that who listens on the port is alive
(`Alive`), that one registered Chrome runs, and none while a start holds the lock
(`Alone`), and that a start has a Chrome from its spawn on, which is not registered yet
(`Starting`). Every other step only ends Chromes, which keeps all three. It gives
`SessionHasOneBrowser`, `BrowserDrivesItsOwn` and `ProfilesLeftAlone`.

**Output ring** (the first part of `TerminalOutput_proofs`). The retained chunks are an unbroken tail of
the stream cut between characters (`RingAdjoins`), within the capacity and never
without the newest chunk (`RingBounded`); and `PromiseProgresses`: a read that keeps
its promise moves every client that is behind forward. `ReadsKeepPromise` says that the
loop does keep it, for every cursor, size and ring: after each chunk the loop stands where
`Reached` says (`Before` its cursor; `Through` a chunk, having taken all from the first
character on; `Over`, with all there is to take), by induction over the passes. That
induction is over a set of numbers, from the well-foundedness of `<` (`Minimum`,
`Induction`).

**Panes** (the second part of `TerminalOutput_proofs`). `PaneShowsAll`, and `ReadKeepsPromise`
where the pane is a client of the ring, for any ring, chunks, marks and Runtimes. What a
pane shows says nothing of what is about to reach it, so `PaneInv` follows the
stream from the ring to the screen:

1. `Streaming`: the events on their way are those of earlier Runtimes, then the current one's,
   which adjoin and end where the ring does. `Due` is where they begin.
2. `CaughtUp`: a pane that is not catching up has all before `Due`. `Queued`: one
   that is has queued what came since, up to `Due`, or means to start again.
3. `Answered`: a reply begins at the pane's cursor or at the oldest byte the ring had then;
   an empty one means that the queue begins no later than the cursor, so it may be written.
   That is where the ring's promise is used (`ReadPromised`).
4. `Writing`: what is on the screen, what the terminal was given and what it is yet to parse
   follow one another, or skip only what the ring has lost; the cursor is their end. `Rendering`
   says the same of a snapshot, which outlives the pane.

The steps of the ring extend the stream and lose only old bytes, which keeps all four;
each handler of the pane moves output from one of them to the next. The queue is written
in a loop, whose outcome is found by induction over its length (`WriteQueueWrites`).

**Port forwarding** (the second part of `SshRuntime_proofs`). The type invariant, and `ListedIsShown` from
the invariant `Shown`: an event that shows a tunnel follows its insertion in the
same call, and only a stop, which removes it first, takes it off the screen.
`NoLeakedListener` follows from `PortOwed`: a port of the server is listed, or somebody
who is between two awaits of a start or stop still owes its entry or its removal.
`RunningConfirmsListener` is false when two stops meet on one tunnel (section 5), so it
is proved under the hypothesis that none is stopped twice at once (`OneStopEach`, with the
invariant `PortHeld`).

**Local PTY** (`LocalPty_proofs`). `ExitCoversOutput`, `ExitIsLast`, `ScreenMatchesPty` and
the types, for any writers, resizes, buffers and output. `Counted` accounts for every
unit the shell wrote (in the PTY, in the reader's hands or in the ring) and says that
a reader that ends by itself has seen a PTY that stays empty; `Drained` that the exit
follows the end of the reader or its abandonment; `Sized` that the sizes differ
only while the resize that set one of them holds the master mutex.

**SSH Runtime** (the first part of `SshRuntime_proofs`). `SizeReached`, `NaturalExitIsComplete` and the types,
for any closes, writers, flow changes, sizes and output. `Fitted`: the shell mutex is
held from the reading of the size to the storing of the shell, and a size the PTY has
not is still to be sent, by a resize that waits for that mutex. `Opened`: before its
channel is opened a session has nothing of the remote end. `Counted`: every unit the
shell sent is on its way, in the reader's batch or in the ring, and an Eof comes last.
`Unasked`: without a close, only the reader ends the session. `ClosedMeansClosed` and
`EndedStaysEnded` are false when a client closes a Runtime that connects (section 5);
under the hypothesis that none does (`~CloseEarly`) they follow from `Established`: nobody
disturbs a connection that is being made, a session without a handle has a closed channel
or a close that is about to close it, and an end is recorded behind the disconnection. So
that early close is the only way in which an ended Runtime is reported as running.

**Transfers** (`Transfers_proofs`). `OneQuestion`, `NothingLost`, `RecordsTell` and the types,
for any tasks, batches, files, permits, faults and kills. `QueueInvariant` has one part
for each question: `Progress` (the files a task is through with are those before its
entry), `Asking` (who waits is in line, and a line has somebody being asked), `Destined`
(the path is the file or a renaming of it), `Agreed` (whoever is to overwrite was told
to, for the file or the batch), `Saved` (who copies has its `.part`, and a file that is
missing has one that is about to take its place or will never be touched), `Recorded` and
`Cleaned`. The steps are first put into a few rows (`StepMoves`) that say what each changes,
field by field; each part is then kept by each row. `ReplacedByConsent` holds of any
tasks, those with files of one name included: it says who may replace what, and leaves
exactly the race of section 5 open (a download that found a path free replaces what another
*task* has put there since). It needs `Free`: at a path that a task found free there is
nothing older than the tasks, whatever they rename, remove and put in place meanwhile
(`OldStays`).

**Managed agents** (`AgentHooks_proofs`). `OneAgentPerRuntime`, `DeadStaysDead`,
`GoneIsSeenGone`, `TitleOfCurrentSession` and the types, for any Runtimes, agents, keys
and requests in flight. The three invariants are not inductive by themselves, and hold
together with five parts of `HooksInv`: `Owned`, an agent belongs to the Runtime it was
minted for, wherever it is named; `Unborn`, keys come before a Runtime's requests and
its revocation after its exit; `Held`, whoever has read an agent finds it bound, unless
the Runtime is `overtaken`; `Telling`, a removal under way follows the event that told
of the end; `Dead`, from the revocation on a Runtime has nothing a request could be
admitted with. So `BindSession` binds an agent that is bound already, and a removal takes the keys of
an agent the window was told about. What a step does to the agents of each Runtime is
first put into four lemmas (`NoKeys`, `OneKey`, `KeysWithout`, `KeysOnDisk`); after
that the keys stay unexpanded, and there is one lemma per action. The title
follows from `Coherent` and `Owned` alone. What is noted of an event under way
matters to none of them: `Noting` steps change titles and markers only.

Only model-checked: every liveness property (no fairness in the prover's reach). Every
invariant of a passing run is stated by a theorem, a few under a hypothesis named above
(`OneStopEach`, `~CloseEarly`) that excludes a race of section 5. Only proved, in no run: the
type invariants of the modules with proofs, `KeyedOnce` and `SameAnswer` (which `KeepsPromise` subsumes), `OneBrowser`,
`ListedIsShown`.

## 5. Where the code disagrees with what is said of it

Two runs show it; each quotes in `PROJECT.json` the line it contradicts.

- `ssh_revived` (`sessions.rs:576`): closing a Runtime while it connects finds
  nothing to close; `establish` goes on, and reports the ended Runtime as connected.
  `EndIsFinal` proves that nothing else revives a Runtime.
- `transfers_cancel` (`transfers.rs:133`): a cancellation that overtakes its task on
  the way into a conflict closes the question in the window and leaves it active in
  the manager; every later conflict waits behind it.

Seen while modelling, and modelled as the code is, without a run of their own:

- `sessions.rs:776`: the reader reads the pause flag before its `Notified` future
  exists, so a resume in between wakes nobody (`EndReported` allows it).
- `transfers.rs:647`: two downloads onto one new name both find it absent, and the
  second replaces the first unasked. `ReplacedByConsent` excepts exactly this race and
  says, for uploads in `transfers` and for every transfer by its theorem, that nothing
  else is replaced without consent.
- `transfers.rs:211`: a deployment cleans up after an upload whose file the user
  skipped, where `src/app/frontend/src/locales/help-content.tsx:632` speaks of uploads that succeeded.
- `tunnels.rs:176`: a stop that falls between the insertion of a tunnel and its event
  leaves it on the screen as running (`ListedIsShown` is one direction only).
- `control_service.rs:1480`: with the opt-in, an agent's `transfer.enqueue` needs no
  approval, where `src/README.en.md:64` speaks of a confirmation.
- `tunnels.rs:200`: two calls of `stop` find one tunnel; the slower one cancels the
  forward of the tunnel that was started on the port since, while
  `src/app/frontend/src/locales/help-content.tsx:660` says that the green state confirms the listener
  (`RunningConfirmsListener` is checked with one stop, and proved where none meets another;
  the window stops a tunnel by itself on an error, App.tsx:563, so two may well meet).
- `agent_hooks.rs:1092`: the end of a session removes the process key too, unlike what
  the comment at 1087 says; a hook admitted before an exit binds a key that nothing
  removes (442–444); output that races an agent's exit mints an agent that has
  no process; tokens of launches that were given up (`commands.rs:1010`) and of Runtimes
  lost at a restart are never revoked, and a set-up that fails leaves an agent
  without an end.
- `agent_hooks.rs:1054`: a hook gives a browser 20 s to start; a `create` dropped then leaves a
  Chrome without a Runtime and deletes its disposable profile under it, and the
  next start on the port may drive that one. A Runtime whose Chrome died may rebind to
  the Chrome of another resource, and its close then closes that one; the close of a
  retained profile may rewrite its preferences under the successor. At exit the map is
  drained before its browsers are closed, so that after a cut the sweep
  (`browser_runtime.rs:738`), which the comment at 741–748 lets rest on an empty map, may
  delete the profiles of Chromes that still run where the process list does not show them; so
  may the sweep at start, of which the comment at 303–304 says that no profile can belong to
  a live browser, when a killed application has left some. `torn` records these and `ProfilesRespected` says what remains true.
- `TerminalPane.tsx:402`: a snapshot taken before xterm has parsed the snapshot it was
  restored from keeps the cursor and loses the screen (`bare`; `PaneShowsAll` allows it);
  a catch-up read that fails is repeated only when the next event arrives or the pane is
  shown again (784).

## 6. What is not modelled

Text: what a terminal screen shows, what a condition matches, quoting, prompts,
agent command lines and settings files. Bytes and rates. Single remote calls without
shared state (SFTP operations, database statements, HTTP). SQLite, whose operations
are single transactions behind one mutex. Windows, icons, notifications, packaging.
Inside the modelled components: authentication (one await that succeeds or
fails), remote exec, retry of a transfer (a new task when the record
says the old one did not complete), directories and links of a transfer (sequences of
files), the SOCKS handshake, ports chosen by a server, refusals that change
nothing. `PROJECT.json` has the note of each component.

## 7. Plan

Done: the twelve modules above, and proofs about every one of them. What is left, the most important
first; a new instance takes the place of one that asks less:

1. **ControlEvents**: the event buffer with its cursors and waiters
   (`control_service.rs:42`), composed with ControlInvoke.
2. **DatabasePane** (one
   pending request per pane), **MuxLayout** (the layout tree as a function).
3. Retry in Transfers; the registry file and reconciliation at start in
   BrowserRuntime; instances with three tasks or two stops where five minutes allow.
4. **AtMostOnce** for TerminalInteraction, whose answer may also be `uncertain`.

Theorems: those of the planned modules, above all the types and cursors of ControlEvents;
the hypotheses `OneStopEach` and `~CloseEarly` go once the code excludes the races.
