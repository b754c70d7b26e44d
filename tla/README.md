# Verification of kunobi-daemon

TLA+ models of the kunobi-daemon crate, TLC runs over small instances, and
TLAPS proofs for every value of the constants. Every definition is translated
from the Rust source; `PROJECT.json` maps each one to the lines it stands for.

## The system

kunobi-daemon is a library for daemons that are upgraded while clients use
them. It has no main program: an application embeds its parts, and the parts
meet through a few shared objects.

An updater (`upgrade.rs`, `ownership.rs`) takes a lock file, runs the
replacement machine (`replacement.rs`) over the application's driver, starts a
candidate (`launch.rs`, `candidate.rs`, `local/*`) it may still kill, waits for
it to say that it is ready (`readiness.rs`, `readiness/channel.rs`), and
publishes the selection (`publication.rs`). Generations (`generation.rs`) read
that record, admit sessions while they are not retired, and retire once they
are superseded and idle or their drain limit has passed. Inside a generation
the accept loop (`serve.rs`, `admission.rs`, `peer.rs`) asks the lifecycle
(`lifecycle.rs`) before it admits, and draining ends the loop. Other processes
watch the record with the selection observer (`selection.rs`), or the daemon
with the control protocol (`wire.rs`, `control.rs`, `control/watch.rs`,
`client.rs`). A relay (`transport.rs`, `observation.rs`) keeps its client's
session across the change: it swaps the writer and uses the outstanding
requests to know when the session may end.

What makes it hard: wakeups sent after a lock is released, counters that decide
whether somebody is told, deadlines that race late answers, a selection that
changes in another process while this one acts on an older reading, processes
that die between allocating, launching, publishing and marking, replies from
connections that were given up, handles and descriptors that leak into a child
started at the wrong moment, PIDs that are used again, a file or a socket that
is not the one that was looked at, and sets at their capacity. `PROJECT.json`
lists each such place under "hazards" with the properties that cover it.

## Modules

| Module | Models | State it follows |
| --- | --- | --- |
| `DrainGate` | what an admission gate promises (abstract) | open, closed, who is in |
| `Lifecycle` | `lifecycle.rs` | draining flag, count, channel version, one program counter per waiting future |
| `ReplacementMachine`, `Replacement` | `replacement.rs` | mode, step, committed; position in the loop, deadline, history of calls |
| `Generation` | `generation.rs`, one generation | observed selection, leases, drain clock, position in `run_until_retired` |
| `Selection` | `selection.rs` | first commit read, budgets, position in a round |
| `Handoff` | composition: updaters, lock, candidates, generations | lock holder, one machine per updater, record, processes |
| `Serve` | `serve.rs`, `admission.rs` | permits, fate of each connection, drain |
| `Outstanding` | `Outstanding` of `transport.rs` | set, epoch, waiters; the requests really owed |
| `WriterSlot` | `WriterSlot` of `transport.rs` | slot, windows, coordinator; what each connection received |
| `Pump` | the copy loops of `transport.rs` | bytes given, held, flushed |
| `Observations` | `observation.rs` | counters, event buffer, what really happened |
| `UnixSocket` | `local/unix_socket.rs` | the file and its inode, bind lock, listeners |
| `PipeListener` | `local/windows_socket.rs` | who owns the pipe, denials so far |
| `RecordSlot` | `publication.rs` | record in memory and on disk, slot lock, reader |
| `ProcessLock` | `ownership.rs`, `backoff.rs` | holder, copies of the descriptor, time left, next pause |
| `EnsureCurrent`, `Retry` | `upgrade.rs`, `retry.rs` | callers and daemon; persisted and remembered attempts |
| `Naming` | `identity.rs`, `socket_path.rs`, `local/pipe_name.rs` | accepted identities and directories |
| `Peer` | `peer.rs`, `local/peer.rs` | who connected, who runs under a PID, the thread's identity |
| `Token` | `local/security.rs` | two tokens, the class compared, the buffer read |
| `Session` | `wire.rs`, `wire/asynchronous.rs` | both ends of a handshake and their frames |
| `Codec` | `wire/generated.rs` | fields, encoded message, reader of another version |
| `Watch`, `Request` | `control.rs`, `control/watch.rs`, `client.rs` | subscription and its view; one request and who answered it |
| `SetupIo` | `local/unix.rs`, `local/windows.rs` | mode of the socket against what each half believes; the kernel's hold on a buffer |
| `Readiness`, `ReadyPipe` | `readiness/channel.rs`, `local/windows.rs` | pipe, decoder, shared news, launcher; the named pipe and its reader |
| `Launch`, `Warmup` | `launch.rs`, `warmup.rs` | the wait for a daemon to serve; a child run once |
| `SpawnUnix`, `Descriptors` | `local/unix.rs`, `spawn_lock.rs` | SIGCHLD, children and their handles; the descriptor tables |
| `WindowsSpawn`, `CommandLine` | `local/windows_spawn.rs`, `local/command_line.rs`, `launch.rs` | inherit flags and copies of handles; one command line and environment |
| `ProcessExit` | `local/process.rs` and its platforms | process, exit source, waiting call, callback |
| `MC*` | constants and compositions for TLC | |
| `DaemonProofs`, `GenerationProofs`, `HandoffProofs`, `ServeProofs`, `RelayProofs`, `EndpointProofs`, `SessionProofs`, `ControlProofs` | theorems | |

Conventions. A mutex section is one action; what the code does after releasing
it is another. An `Option` is a set of at most one element. A deadline is the
time that remains, or the time since its origin, stopped at the largest value
the code can tell apart, so the clock needs no bound. What the OS, Tokio or the
application does is modelled from how the code uses it and is marked external
in the map. A definition introduced by "Fault:" is a plausible mistake in the
definition that follows it. It is used only to show that a property notices the
mistake.

### Notes on single modules

**Lifecycle.** `begin`, the guard's drop and `start_drain` are actions; each
waiting future (`draining`, `unless_draining`, `drain`, `drain_until`) is a
process with a program counter and the channel version it has seen.

**Replacement.** `begun`, `done`, `selected` and `spent` are history. The
adapter may answer anything, late or never, and the caller may drop the future.

**Generation.** `select` is its locked part (`Observe`) and a later `Notify`.
The loop is one action per await or lock section. The application's refresh is
external: it reads the record, passes it to `select` and takes at most
`RefreshLimit`. The application may also call `retire_if_idle` at any time. A
commit leaves time for one refresh within the staging lifetime (`CommitBy`); a
commit later than that can be missed, because the code decides by the last
selection it observed.

**Selection.** A round is read, note, probe, answer, decide, wait. Once a commit
was noted, a later read may return an older record, as the source says.

**Handoff.** Overlap mode. Each updater carries a `ReplacementMachine`; each
step of the application's driver is an action written from what the code calls
at that step, and is external. Deadlines are abstracted to failures that may
happen before any step. When a transaction ends, the lock and the candidate are
dropped in either order. Commit is two steps, the published record and the mark
on the candidate (`Candidate::selected`), and may be given up between them. A
candidate admits sessions as soon as it serves, as `Generation::admit` does, and
its staging lifetime may pass at any moment. Nothing in the code rules out either
of two bad ends, so both are recorded: `early` holds the candidates whose staging
lifetime passed before they had observed their selection, `unmarked` those whose
Commit was given up before the mark. `NobodyIsCutOff` names both as exceptions.

**Outstanding, WriterSlot, Pump, Observations.** Each carries beside the code's
state what really happened (requests owed, bytes received, operations done), so
the properties compare the two.

**Serve.** One action per branch the loop polls and per shared value it reads,
so a drain can start between any two of them. Evidence, policy and handlers are
external and may do anything; a handler may also end in the poll in which it is
aborted.

**UnixSocket, PipeListener.** A binder that finds the bind lock taken stands down
whoever holds it, also an owner that cleans up or a binder that fails later.
`StandDownIsJustified` says that somebody else then held the endpoint or was at
it, and that not everybody stands down. On Windows the one connect that asks for a
live peer may fail although the peer lives, so a denial after the last retry may
hide a live owner.

**RecordSlot.** A crash of the machine falls back to what was synced. Readers on
Windows meet the moment in which a renamed file is absent or denied. A reader
takes the temporary file of a publication for a sign that a record is coming only
while it is fresh (ten seconds by the reader's clock); one that is older, or from
a clock that was set back, misleads it, and `misled` remembers that it was met.

**EnsureCurrent.** A probe or the upgrade lock may fail at each place where the
code calls them, and a failed probe after a replacement gives the lock up, so that
the next caller may replace again. `upsets` counts what can undo a replacement: a
daemon that crashes, and a caller that does not see its own replacement through.
As long as there is none, the daemon is replaced once.

**ProcessLock.** A process looks, and if the lock is taken sleeps for a growing
pause that never passes its deadline. A child forked while the lock is held
keeps a copy of the descriptor, and the explicit unlock must release all of
them.

**Naming.** A text is a sequence of characters. Paths are compared as a file
system opens them, with case folded and trailing dots left out.

**Peer, Token.** PIDs end and are given out again between any two calls; the
thread that impersonates a client fails to come back. A pipe under dynamic
context tracking carries the user of the message read last, which another holder
of the client's end may have written, and on macOS the PID is that of the socket's
latest owner. Each policy reads what it expects when it is asked. Token fields are
compared by class; a read reports the size it needs, which may have grown since.

**Session, Codec.** Offers are eight records that agree or differ in each way
`Terms::agree` tells apart. A message is a set of field numbers with values; its
size is computed first, and the writer and a reader of an older or newer version
use it. The byte encoding of a field is the library's and external.

**SetupIo.** One thread per half. The mode of the socket is shared
by both, so each half's belief about it is compared with what it is when the
operation is made. A pipe's operation waits in whole milliseconds, rounded down,
and does not look at the clock again, so it may give up with less than a tick
left; one on a socket may not. The overlapped transfer under a pipe's bounded
operation is a machine of its own: it may complete while it is cancelled.

**Readiness, ReadyPipe, Launch, ProcessExit.** Lines come in any pieces, the
daemon may exit before, between or after them, and a launcher that waits in a
thread or a task may be told, time out or be dropped. A daemon may report progress
any number of times: the counters are kept as differences (`said` is what was sent
and not yet counted, `news` whether the version is another), and only the messages
on their way at once are bounded. A daemon that never stops reporting progress
keeps `Channel::wait` waiting, as its documentation says, so `EveryWaitEnds`
promises that call an answer only if the reports end; a launcher with a budget
gets one in any case.

**SpawnUnix, WindowsSpawn, Descriptors, CommandLine, Warmup.** Two threads of one
process spawn at once. On systems where a pipe is made in two steps a fork may
fall between them. Failing steps (spawn, duplicate, restore) leave by the path
the code takes. `windows_spawn::spawn` takes no lock, so a plain child started
meanwhile may inherit the inheritable copies that are open for a daemon; it never
inherits the caller's standard handles. `TerminateProcess` does not wait: a child
whose kill succeeded has ended or is about to.

## Runs

| Run | Bounds | Properties and what they show |
| --- | --- | --- |
| `lifecycle` | 2 requests, one future of each of the 4 kinds | `ResultsStayTrue`: no later step invalidates a returned result. `ImplementsGate`: `Lifecycle` implements `DrainGate`. `WaitsEnd`: closing reaches every waiter, an empty drain returns |
| `replacement` | setup budgets 0, 1, 3; drain none, 0, 2; both runners and modes | `ReportsAreTrue` (the selection; a missed deadline), `OrderIsKept` (order of the dangerous steps), `AsksAreBounded` (only polls are repeated; nothing is begun late), `Returns` |
| `generation` | epochs 0 to 4 around 2, 2 sessions, drain limit none, 0 or 2 | `RetirementIsTrue` (reports; no oversleeping), `ForwardOnly`, `RetirementComes` (idle and drain limit end it) |
| `selection_late` | commit budget 3; proof 0, 1, 4 | **violated**, see below |
| `handoff` | 2 updaters, epochs 1 to 3, 1 session each, 2 crashes | `EpochsAreUnique`, `NobodyIsCutOff`, `OnlyNeededReplacements`, `LeftoversEnd` |
| `serve` | 3 connections, pools of 2 and 1 shared with others, one pool disabled | `AdmitsRightly` (pools; nobody let in after the drain began), `ReportIsTrue`, `DrainEnds` |
| `relay` | 2 keys, 2 places, 3 requests; 3 windows, 2 replacements; 3 bytes; 1 event kept of 4 | `OutstandingIsExact`, `BytesArriveOnce`, `CountersAddUp`, `WaitersAreReleased` |
| `endpoint` | 3 binders; 2 publishers, a reader, 3 operations, a power loss; 3 callers, 2 crashes; 2 lockers, 3 calls; launch deadlines 1 and 4 | `EndpointStays`, `RecordsAreTrue`, `ReplacesOnce`, `LockIsTrue` (one holder, waits that keep their deadline), `ExitsAreTrue`, `StartsAreTrue`, `StandDownIsJustified`, `EveryCallReturns` |
| `socket_reuse` | 2 binders, inode numbers given again | **violated**, see below |
| `session` | 8 offers, 2 frames each way; 3 generations; 3 PIDs; commit budget 3, proof 0, 1, 4 | `SessionIsAgreed`, `AnswersAreTrue`, `IoIsSafe`, `EvidenceIsReal`, `GivesUpRightly`, `NobodyWaitsForever` |
| `boundary` | 2 messages on their way at once, 2 threads, 2 standard handles, arguments of up to 4 characters, tables of 6 descriptors; 2 users, 2 PIDs; 4 message types, at most 2 fields set | `ChannelTellsAll`, `SpawnsAreClean`, `PeersAreKnown`, `MessagesSurvive`, `EveryWaitEnds` |

The runs `relay`, `endpoint`, `session` and `boundary` each check several modules
that share no state. Their MC module holds the variables of all of them and a
variable `part` that is chosen in the initial state: a behaviour follows that
part and leaves the others in one fixed initial state. So the state space is the
sum of the parts' state spaces and not their product, and a property of such a
run is the conjunction of one property of each part. These runs compose no
interaction; the interactions between components are in `Handoff` and `Serve`,
and in each module's own environment. `MCRelay`, `MCEndpoint` and `MCSession`
instantiate their parts except for one that they extend (`Outstanding`,
`ProcessLock` and `Session`). The properties of that part are then the run's own,
and its theorems are proved in a module that knows no other part.

A named property often joins a few facts about one question: `AdmitsRightly` is
`CapacityIsKept` with `DrainStopsAccepting`, `RetirementComes` is `IdleRetires`
with `DrainLimitRetires`, and so on. The definition of each conjunct stands in
the component's module with the code it is about.

Why the bounds are enough to be interesting: every budget can be zero, exactly
reached and passed; every set can be exceeded (requests over capacity, epochs
exhausted, events lost, names too long); every pair of actors can race, an
updater can follow one that failed or died, and a superseded generation can be
superseded again; a PID or an inode can be used again. They are not a proof; the
theorems below do not depend on them. Deadlock is not checked where the system
may stop: drained daemons, returned calls, ended updaters and finished sessions.

### Disagreements with the documentation

- `selection_late`. `selection.rs:42` says of `NotCommitted` that the budget
  "passed without the selection naming the candidate", and `selection.rs:20`
  that "the candidate may be discarded". A commit that lands within the budget
  while the last probe runs is not looked for again, and is reported as
  `NotCommitted`.
- `socket_reuse`. `local/unix_socket.rs:114` says "An exiting generation cannot
  unlink an endpoint created by its successor". The guard recognises its socket
  by device and inode. On a file system that gives the number of a removed file
  again, a successor's socket can have that number, and is unlinked. With numbers
  that are not reused (the `endpoint` run) the sentence is true.

Two more were met while modelling and have no run of their own.
`generation.rs:207` speaks of an "expired unselected candidate", and a candidate
committed after its last refresh can expire while it is selected: the
`generation` run assumes the refresh, and in `handoff` it is an exception that the
property names. `spawn_lock.rs:6` says "Every spawn in this
crate holds [`spawning`]", and `windows_spawn::spawn` does not take it.

## Fairness

- `lifecycle`: an executor polls every future that can progress. Handlers may
  keep their guards for ever.
- `replacement`: the runner's own code runs, timeouts fire, and a blocking
  adapter or a Commit returns. An asynchronous adapter may hang in any other
  step.
- `generation`: the loop is polled, a `select` call that released the lock goes
  on to its wakeup, time passes. Sessions may stay for ever; the refresh returns,
  as its documentation requires.
- `handoff`: deadlines end transactions, dropped values are dropped, generations
  refresh and retire. Nobody need answer, become ready or release a lease.
- `serve`: the loop is polled, time passes, and an aborted handler reaches an
  await. A handler that is not aborted may run for ever.
- `relay`: a woken thread gets the mutex; a write that was begun ends, because
  the connection takes it or fails it; the coordinator of a replacement goes on.
  Nobody need send, reply or replace.
- `endpoint`: a deadline passes and time does; a process that waits for a lock
  and may go on does; a wait for an exit and the system's callback run, and so do
  the wait for a daemon to serve and the warm-up's thread. A holder may keep the
  lock for ever, and a daemon need not serve or exit.
- `session`: both ends of a handshake take their steps (a lost peer is an error
  and a step); the task of a subscription, the calls it reports and its reader
  run; the threads of a connection run and the setup deadline passes; the
  selection observer runs and time passes. A blocking probe returns because it
  bounds its I/O; an asynchronous one may hang. A peer need not send or read.
- `boundary`: the reader thread of a readiness channel, the launcher and its
  timers run. The daemon need not say anything or exit.

All of it is weak fairness of threads, tasks and timers. None is assumed of a
peer, a handler, a child or an application, apart from the calls named above
whose documentation requires them to return.

## Proofs

`DaemonProofs` is about `Lifecycle` and `Replacement`, which share no state. Of
`Lifecycle` it proves, for any finite set of requests and any waiting calls,
type correctness, `ActiveCountsGuards`, `DrainRecordedOnce`, `ResultsStayTrue`,
`NoLostWakeup` and the refinement of `DrainGate`. The inductive invariant joins
these with `Progress`, which says what each position of a waiting call implies
about what it has seen; without it a lost wakeup cannot be excluded, because
the position before the wait is where it would happen. The assumptions are that
the set of requests is finite and that the kinds of waiting call are disjoint.

Of `Replacement` it proves, for any budgets and poll interval, type correctness,
`ReportsAreTrue`, `OrderIsKept` and `AsksAreBounded`. The invariant has three
parts: `Ordered` (the steps done are those before the machine's step), `Looping`
(what each position of the loop implies) and `Timed` (the time spent and the
time that remains make up the phase's budget).

`HandoffProofs` proves, for any number of updaters, epochs, sessions and
crashes, `EpochsAreUnique`, `NobodyIsCutOff` and `OnlyNeededReplacements`. The
exceptions of `NobodyIsCutOff` are part of its statement and no hypothesis: the
process died, its staging lifetime passed early, or its Commit was given up
before the mark. None of the three is inductive by itself. The invariant adds:
who runs a transaction holds the upgrade lock (`LockIsHeld`), so one updater
runs at a time; epochs are given upwards and each to one updater, and an epoch
never launched has no trace in any process or record (`EpochsAreGiven`); a
candidate that may still be dropped was never selected (`Disposable`), and one
that is published but not marked loses its mark only with its Commit
(`Published`), which is why the drop of a failed or late updater cannot end a
selected generation that was marked; and what a running updater knows at each
step (`Knows`), in particular that the selection it found wanting is still the
selection at its commit. The assumptions are those of `HandoffConstants`: the
bounds are natural numbers, and updaters, epochs and `Nobody` are told apart.

`HandoffProofs` also holds the proof for the lock file of `ProcessLock`, which
`Handoff` takes for granted: `LockIsTrue` for any number of processes, pauses and
allowances. Its invariant says that whoever has a guard or probes is the only
holder, except that the child of a crashed holder keeps a copy
(`LockHasOneHolder`), and what a call knows at each place: that it found the lock
held before it paused, that it sleeps no longer than it has left, and that a
private lock was opened on a file of this user (`LockKnows`). The assumptions are
those of `LockConstants`: times are natural numbers and the name of a copy is not
that of a process.

`GenerationProofs` proves, for any sessions, epochs, intervals and drain limits,
`RetirementIsTrue` and `ForwardOnly`. The invariant adds that the counts are
those of the leases (`Counted`); that nothing read or observed is ahead of the
record, and that the drain clock runs exactly while a later selection is known
(`Behind`); that a refresh which read the candidate as unselected is at most one
refresh old (`Timely`); that once the loop returned, the record is past this
generation or can no longer come to name it (`Passed`); and that a loop that
goes to sleep has a reason (`Awake`). `RetirementIsTrue` has the hypothesis
`CommitBy + RefreshLimit <= StagingLifetime`: the latest commit leaves time for
one refresh within the staging lifetime. It is about the application, the code
does not enforce it, and without it a candidate can expire while it is selected
(see above). `ReasonCorrect` states the part that needs no such hypothesis.

`ServeProofs` proves, for any number of connections, any limits (zero disables a
pool) and any drain budget, `AdmitsRightly` and `ReportIsTrue`. Both are about
the end of a long run, so the invariant says at every position of the loop which
connection is in hand (`InHand`), that the permits in use are those of the
connections that hold one and of others (`Permits`), that the counts are those
of the fates so far (`Counts`), and what has become of the handlers (`Joined`,
`Aborts`) and of a connection that came after the drain began (`LetGo`, `Late`).

`RelayProofs` proves, for any keys, waiters, streams, capacities, windows,
replacements and bytes, `OutstandingIsExact`, `BytesArriveOnce` and
`CountersAddUp`. The parts share no state, and each has its own invariant:

- Outstanding: the client is owed what the connection of this epoch has still to
  answer, and no connection is ahead of the epoch (`Owing`). A reply on a
  connection that was given up therefore settles nothing.
- WriterSlot: what can already be on a wire (`Sequence`); that a write excludes a
  pause, a replacement and a close (`Writing`); that the byte count and the record
  boundary are right until a write fails (`Offsets`); and what a pause has
  settled (`Paused`, `Cleared`).
- Pump: what was flushed, what is held and what is left add up to what was given.
- Observations: every counter is the size of a set of streams (`Counted`), and
  an event is in the queue, taken or lost (`Events`).

Their assumptions are that the sets which are counted are finite and that the
bounds are natural numbers. `MaxOffset` stands for the largest offset the
counter can hold, and a bootstrap is at most that long.

`EndpointProofs` is about the parts of `MCEndpoint` other than the lock file, for
any number of binders, publishers, readers and callers and any limits. Each part
has an invariant of its own, and a step of the whole is a step of one part.

- UnixSocket and PipeListener: `EndpointStays` and `StandDownIsJustified`. The
  bind lock is held exactly by who binds, probes, reclaims or cleans up
  (`BindLockIsHeld`), a socket is reclaimed only while nobody listens on it
  (`ReclaimsTheDead`), and the inode that a guard recorded is in a name only while
  that name is the guard's own (`GuardsKnow`). The last part fails where numbers
  are given again: both theorems have the hypothesis `~ReuseInodes`, and run
  `socket_reuse` shows that it cannot be dropped.
- RecordSlot: `RecordsAreTrue`. An operation holds the slot's lock from its
  comparison to its end (`OperationsAreLocked`), and a reader that finds no name
  has met a rename or a moment without a record, a second look another one, unless
  it overlooked a publication in progress (`ReadersKnow`).
- EnsureCurrent and Retry: `ReplacesOnce`. Only the holder of the upgrade lock
  replaces, and as long as nothing undoes it a replacement that has begun is
  still being made or has been (`UpgradeInv`); memory and disk agree unless an
  attempt is reserved, and a candidate is spawned only for a persisted attempt
  (`BudgetInv`).
- ProcessExit: `ExitsAreTrue`. An exit that is remembered, queued or called back
  has happened, and a callback that may still run has a notification to use
  (`ExitInv`).
- Launch and Warmup: `StartsAreTrue`, from what each place of the launcher and of
  the warm-up's thread implies about the child (`StartInv`, `WarmInv`).

The assumptions are `NamesAreDistinguished` (the marks for nobody and for a torn
record are not names of processes) and `NumbersAreNatural` (limits and deadlines
are natural numbers, and a policy's limit fits its integer).

`SessionProofs` proves `SessionIsAgreed` for any offers, any messages that have a
size (`MessagesHaveSizes`) and any number of them. What makes it inductive is what
each end can still have to read at every place of the handshake (`ServerHears`,
`ClientHears`), that what is on its way is true (`ItemsAreTrue`) and that ends
which agreed know the same terms (`TermsAreShared`). For operations interrupted
anywhere the invariant adds that a frame left half sent or half read was left by
an end that has marked itself failed (`Remnants`, `Marked`), so the rest of it is
never read as a message.

`ControlProofs` is about the other parts of `MCSession`, for any generations,
builds, PIDs and budgets.

- Watch and Request: `AnswersAreTrue`. What the task of a subscription has read is
  an earlier state of the service, and retirement is in it only with the closed
  admission (`ViewIsTrue`); the events taken, on the connection and about to be
  sent are one sequence without a gap (`EventsInOrder`). A request that some
  service may have executed is past the attempts that are repeated (`AskInv`).
- SetupIo: `IoIsSafe`. A thread that has the lock is inside a bounded write or ends
  the setup, so whoever finds the setup active finds the socket nonblocking
  (`SetupInv`); a transfer that returned is not pending (`TransferInv`).
- Selection: `EvidenceIsReal` and `GivesUpRightly`. A noted commit is one that the
  record named by then, and a commit that a round has not seen came after its
  reading (`ChoiceInv`).

The assumptions are `BudgetsAreTimes` and `GenerationsAreNumbers`.

Only model-checked:

- all liveness: fairness and ENABLED are out of the prover's reach;
- `PeersAreKnown` and `MessagesSurvive`: what `Naming`, `Token`, `Codec` and
  `CommandLine` compute are folds and searches over sequences, and the prover has
  no induction over data;
- `ChannelTellsAll` and `SpawnsAreClean`: the first is about what a decoder makes
  of lines that arrive in any pieces, the second about `CommandLine`, both again
  over sequences of any length.

Type correctness of Lifecycle and Replacement is proved and needs no run.

## Not modelled

The map covers about a third of the implementation's lines. What it leaves out:

- Shutdown requests (`shutdown_signal`, `session_end_requested`,
  `terminate_legacy_peer`): each is one call of Tokio or of the OS.
- Security descriptors and the bindings to Windows (`local/security*`,
  `local/windows.rs`) beyond the comparison of tokens, the pipe, the spawn and
  the overlapped operations: construction of OS structures without state to
  interleave.
- The privacy of directories and files (modes, owners, ACLs), which is a check
  of one value against another at one moment.
- Default, Debug, reflection and view code of the generated messages; builders,
  accessors, error types and their texts; metrics of elapsed time.
- The composition of `WriterSlot`, `Outstanding` and `Pump` into one relay
  session: the relay is the application's, the crate holds the parts.
- Exclusive mode and drain limits in `Handoff`; both are in `Replacement` and
  `Generation`.
- The unit tests inside the source files, which are a large share of its lines.
