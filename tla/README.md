# Retrofit: models, checks and proofs

Retrofit is a C++ game engine with one game (`apps/cc3o3`) on top of it.  This
directory holds TLA+ models of the parts of the engine whose correctness depends
on the order in which things happen, TLC configurations that check them on small
instances, and TLAPS proofs for every value of their parameters.  Paths below are
relative to the repository's root; `Scheduling/X.cpp` stands for
`libs/Scheduling/X.cpp` and so on.

    tlc -workers 4 -config MCTaskScheduler.cfg MCTaskScheduler.tla
    tlc -workers 4 -config MCWorkPump.cfg WorkPump.tla
    tlapm TaskSchedulerProofs.tla

`PROJECT.json` lists the module and the configuration of every run.

## 1. The system

| Part | State it keeps | Operations | Interacts with |
| --- | --- | --- | --- |
| Task scheduler (`Scheduling`) | registered workers with an active flag, a leaving flag and an assignment; pools per priority block; records of tasks with a block and an abort mark | register/unregister worker and pool, add and abort tasks, dispatch, completion, start/stop, "all completed?" | worker threads, threads that add tasks, all through atomics and three reader/writer locks |
| Input streams (`Rollback`) | per player a committed and an uncommitted stream of (time, input), each with a write head | push, move heads, rewind, commit, trim | local controllers, packs from other peers, the frame loop |
| Rollback state (`core_state`, `Rollback/Domain`) | per variable the last ten changes; automatic and manual snapshots | write, read, rewind, take and load a snapshot | the game's logic, the frame loop |
| Input exchange (`GameSync/Rollback*`) | which streams are local, queued packs | prepare a pack, merge a pack | sessions, input streams |
| Frame loop (`apps/cc3o3/cc3o3.cpp`) | frame clock, head clock, simulation mode | simulate, roll back, stall, replay | all of the above |
| Session (`GameSync/Session*`) | connections, members, who plays which player | handshake, claim, relinquish, chat, input packs, hosting and leaving | listener and validator threads, the frame loop, peers over TCP |
| Communication (`Communication`) | endpoints, their channels, the streams behind them | add, choose and remove streams | sessions |
| Threads (`core_thread`) | a signal, a termination flag, a work queue | start, stop, wake, pump | sessions, logging |
| Byte streams (`core_platform`, `PlatformNetwork_win32`) | received buffers, terminated flags | peek, stitch, fetch, store | a reader thread, sessions |
| Pointers (`core/ptr`) | a strong and a weak count for every object, shared by all pointers to it | copy, move, weaken, lock, destroy | everything; sessions share streams and endpoints between threads with them |

Everything else - graphics, user interface, resources, dialogue, files,
serialization, text, base libraries - is single-threaded, converts data or does
plain I/O.  `PROJECT.json` lists those parts as well, with the reason why each is
left out.

What is hard, and what makes each part correct:

* **Task scheduler.**  Any number of threads dispatch at once and meet the workers'
  completions, aborts, unregistration and stops.  The code relies on two atomic
  flags: `mFlaggedAsActive` of a worker and `mBlocked` of a record.  Correct means
  that each has one owner at a time, that what is freed is nobody's any more, and
  that no task waits for ever beside an idle worker.
* **Input streams and frame loop.**  All peers have to commit the same inputs for
  the same frames although packs arrive late; a stream may never be written behind
  its head, and peers that wait for each other's inputs may not wait for ever.
* **Rollback state.**  A rewind must restore what the variable was; ten changes must
  be enough for how far the frame loop rolls back.
* **Session.**  Claims for one player arrive from several clients, leave and come
  back in lists that may be stale; a player has at most one owner, and all clients
  end up with the host's view.
* **Communication, threads.**  Streams are removed by one thread while another adds
  channels for them; a signal may come before the wait.
* **Pointers.**  A weak pointer is locked by one thread while the last owner leaves in
  another; the object must be deleted once, the counts after it, and nobody may be
  given an object that is going.

## 2. Modules

| Module | What it is |
| --- | --- |
| `TaskScheduler` | the scheduler with its FIFO pools and workers, one step per atomic access |
| `TaskSchedulerProofs` | its invariants for any number of workers, threads, pools and tasks; that a prepared scheduler forgets no task; that priorities are kept |
| `InputStream` | streams of commands, and the merge of a received pack |
| `RollbackPeers` | peers with frame loops, streams, packs, rollback and stall; composes `InputStream` |
| `Lockstep` | what the rollback machinery promises; `RollbackPeers` implements it |
| `RollbackPeersProofs` | its safety and the refinement, for any number of peers, players and commands, and any window |
| `StateStream` | one variable's bounded history of changes: write, read, discard |
| `RollbackDomain` | all variables of a rollback domain, their rewinds and snapshots; composes `StateStream` |
| `RollbackDomainProofs` | that windows and snapshots tell the truth, for any window and any number of variables |
| `WorkPump` | `SequentialWorkPump` on `AsyncThread` and `ThreadSignal`: users, threads, a queue |
| `WorkQueue` | what a work pump promises; `WorkPump` implements it |
| `WorkPumpProofs` | its invariants and the refinement, for any number of users, threads and items |
| `SessionMembership` | host and clients: who plays which player, requests and lists that cross |
| `SessionMembershipProofs` | its safety, for any number of clients, connections and players |
| `HostConnections` | the host's listener, validator and frame threads on connections, endpoints and streams |
| `HostConnectionsProofs` | its safety, for any number of connections |
| `Transmissions` | batches cut into transmissions, stitched together again behind a socket |
| `BatchChannel` | what a direction of a connection promises; `Transmissions` implements it |
| `TransmissionsProofs` | that a fetch never blocks and that batches come out whole, for any batches and sizes |
| `SharedPointers` | all unique, shared and weak pointers to one object, one step per access to a count |
| `Ownership` | what they promise; `SharedPointers` implements it |
| `SharedPointersProofs` | their safety and the refinement, for any finite number of pointers |
| `MCTaskScheduler`, `MCRollbackPeers`, `MCRollbackDomain`, `MCSessionMembership`, `MCTransmissions`, `MCSharedPointers` | instances for TLC |

`HostConnections` is about connections until they are trusted and how they go, and
`SessionMembership` about what trusted ones say; `Transmissions` is one direction of
one of them, byte by byte.  `RollbackPeers` composes the frame loops of several peers
with their streams and packs.

### Plan

The order was: the scheduler; the lockstep of peers; the history of variables; the
work pump; sessions; connections; byte streams; pointers.  All of these are written and
proved about.  What is left:

1. Players that join or leave in the middle of a game: streams that are created while
   others have been committed, and that turn from local to remote when a claim changes
   an owner.  It would compose `SessionMembership` with `RollbackPeers`.
2. The shutdown of the scheduler: `UnregisterPool`, pool listeners, and readers that
   queue behind a waiting writer.
3. The client's side of a connection: the thread that connects, its handshake, and the
   frame that disconnects meanwhile.
4. Allocators: `LinearAllocator` counts with atomics that several threads change.

## 3. How the models correspond to the code

`PROJECT.json` maps every definition to the lines it stands for.

### TaskScheduler

One step of a thread is what it does between two points where another thread could
interfere: an exchange, load or store of an atomic, or a critical section of a
writer lock.  `pc[t]` says where thread t is; the dispatch loop
(`TaskScheduler::AttemptDispatch` and
`FIFOTaskPool::FetchAndBlockNextUnblockedTask`) is the labels
`check -> flag -> nextPool -> visit -> take -> give` and `undo`, a worker's thread
is `step -> clear -> settle -> release` and a dispatch, an abort `abort -> pend` or
`erase`, the question whether all is complete `poll -> ask -> unpeek`.
Reader locks are not variables: who reads follows from the program counters, and an
action that takes a lock as a writer is enabled when nobody reads.  Tasks that add
or abort tasks from inside `Step()` hold no lock then, so their calls are those of a
client.  Left out: `UnregisterPool`, pool listeners, readers that wait behind a
queued writer, and teardown.

`Work(w)` is a worker's thread as `StandardTaskScheduler` runs it, which loops over
`ExecuteUntilStarved`.

The section "Usages" restricts the steps to those of a scheduler that is used as the
scheduler's tests use it: `PreparedNext` (everything is registered and added while
dispatching is off and all workers rest; nothing is aborted, and no worker is told to leave
while dispatching is on) and `DispatchingNext` (dispatching is then left on).

### InputStream, RollbackPeers

Time is counted in frames.  One call of `ProcessFrame` (`apps/cc3o3/cc3o3.cpp`) is
one action of one peer, in the code's order: choose the simulation mode; commit
what is ready; move the heads of the local players' streams; roll back and simulate
again if something was committed; read the local controllers; simulate the current
frame; send a pack; commit again; merge the packs that have arrived; if stalled,
take the frame back.  Only the queue of received packs is shared with other
threads, and a frame empties it at one place (`ConsumeRollbackInputPacks`), so the
frame is one step and chooses how many packs of each peer have arrived by then.

| Model | Code |
| --- | --- |
| `com`, `unc` | `RollbackManager::mCommittedStreams`, `mUncommittedStreams` |
| `frame`, `mode` | `time::FrameClock`, `sDebugPreviousFrameSimulationMode` |
| `sim[p][f]` | (history) the commands `GetGameCommandStream` gave the frame when it was last simulated |
| `window` | the times kept by the `StateStream` of one variable |
| `packs[p][d]` | packs on their way from p to d, directly or through the host, in the order of the TCP connections |
| `failed` | a `RFLOG_TEST_AND_FATAL` or an `RF_ASSERT` did not hold |

`failed` makes every test the code performs part of the model; a peer that failed
stops.  Abstractions:

* Markers, the invalid events with which the code denotes a head, are left out:
  every reader skips them.
* A pack equal to the last one still on its way is not queued twice; merging it
  twice changes nothing, and without this a stalled peer would queue packs without
  end.
* The host relays packs (`SessionHostManager.cpp:637-665`, `:794-847`); the delay of
  the relay is part of the delay of the pack.
* The watched variable changes in every frame, the worst case for a window that
  drops its oldest changes.  Variables that change now and then, with other times
  in a re-simulation, belong to `StateStream`.
* Behaviours begin after the time reset of a new session, with all streams there.
  Streams that appear or change their owner later, instant replay, debug snapshots
  and rewinds, and the artificial delay of inputs (zero unless a debug setting
  changes it) are not modelled.
* `PressAgain` says whether a command may be added to a frame repeated in a stall
  for which the player has already given some.  The code allows it, and fails (see
  `stalled_frame`); with `FALSE` the rest is checked in spite of that.

`Lockstep` has two variables: the log of every player, and for every peer the frames
it has confirmed.  Logs and histories only grow, and a history is made of exactly
what the logs say.  `RollbackPeers` maps to it with `LockstepLog` (a frame enters the
log when its player can no longer change it) and `LockstepHistory` (what the
committed frames were last simulated with).

### StateStream, RollbackDomain

The two vectors of a `StateStream`, times and values, are sorted by time and free of
repetitions, so that a function from times to values says the same.  `Write` is the
whole of `StateStream::Write`: it discards what is later, leaves out a value that
repeats the one before (unless the build is one without
`kRollbackPerfOptimizations` and the change comes at the end), and drops the oldest
change of a full stream.

`RollbackDomain` is what the frame loop and the game do to a domain: bind and unbind
variables (`AutoVar`, `Var`), assign, step, rewind, take, load and clear snapshots.  A
rewind goes back `MaxRollback` frames at most and never behind the last load; that is
the loop's contract with the domain, and `RollbackPeers` checks that the loop keeps it
(`EnoughHistory`).  History variables hold what each variable should read at each
frame (`hist`), which variables the window can answer for (`promised`: a variable that
a load brought back before anyone bound it is not among them until it is written), and
which have a value from the floor onwards (`settled`).

### WorkPump

`at[t]` says where a created thread is in `AsyncThread::WorkThread` with the callbacks
of `SequentialWorkPump`; `pc[u]` where a user is in a call that gives up a lock in the
middle.  `owner` is the writer of `mThreadMutex` during a stop, which signals, waits
and joins under it.  `Signal` wakes only who waits already: the signal a user gives
between the thread's look at the queue and its wait is lost, and the wait ends by
`mSafetyWakeupInterval` (`SafetyWakeup`).  Thread identifiers are used again after a
join.

The pump's `Init` is four steps.  It first moves the new callback into `mWork`, under no
lock, whether the pump runs or not (`TakeWork`, `AssignWork`); only then does the
`AsyncThread` look whether it is started (`LookAtThread`) and exchange its own callbacks
under `mCallbacksMutex` (`SetCallbacks`), which the thread holds as a reader all its life.
A thread that calls `mWork` in the middle of the assignment, and an assignment in the
middle of a call or of another assignment, may do the old work, the new work, or end the
process (`Crash`).  `mTerminateCondition` is left out: the pump gives none.

### SessionMembership

A pass of the host is several steps because clients and sockets go on meanwhile:
`BeginPass` settles which connections are valid and takes what they have sent,
`HandleMessage` works off one `MsgClaimPlayer`, and `DoMessageWork` compares the
members, takes back the players of those that left, sends the list if something
changed, and ends the pass.  A client's pass is one step, as nothing else of it can be
seen from outside.  The host's own claims (`AttemptPlayerChange`) come between two
passes.  Users ask for what the lobby offers: players that are free, or their own, by
what their process believes.  The throttle of repeated requests is a choice: a request
already sent is sent again or not (`again`).

A client's process ends (`Leave`), or its socket fails while the process goes on
(`Disconnect`): then it has no host, keeps its members and requests, and sends nothing any
more (`SessionClientManager.cpp:506-510`).  The host learns of either later (`Break`).  A
failed assertion ends the process, which is a `Leave`, or it is passed over, as in a build
without assertions (`core/rf_assert.h:98-120`): then the client asks again to give up a
player that is another's by its own list, as the code does, for as long as that list says
so.

### HostConnections

Each step is a critical section of `mConnectionsMutex` or of the endpoint manager's
`mCommonMutex`.  The listener accepts a connection, enters it, and gives it streams, an
endpoint and channels in five locked steps; the validator lists the untrusted
connections, checks them one by one, and updates entries and endpoints; it and the
frame thread then sweep orphaned streams, incoming before outgoing ones, give up
`mCommonMutex`, and terminate what they have extracted (`TerminateSwept`).
`StopHostingASession` shuts the listener's socket, joins both threads and destroys
all.  Clients send a hello or something else, or nothing; sockets fail at any time;
time passes for every connection.

### Transmissions

A unit stands for the bytes of one header or for a part of the messages, and the
network may cut between any two.  `Decode` is one turn of the loop of
`ProcessPendingConnectionOperations`, or of the handshake as long as the greeting has
not been read: peek, clone, decode, fetch what was consumed.  The greeting is in the
clear and what follows is not; both sides change behind the same byte.  The loop goes on
after bytes it can not decode, as the code's does (section 6).

### SharedPointers

A handle is a variable that may hold a pointer to the one object: `kind` is its type,
`target` says whether its `mTarget` is set, and `step` where its construction or
destruction has got to.  A load, an exchange or a subtraction of a count is a step, and
what a thread does with its own pointer between two of these belongs to the one before
it.  `IncreaseStrongCount` is `Load` and `CompareExchange`, which may fail for no reason;
`Lock` goes on with `SanitizeTarget`; a destruction is `DecreaseStrongCount`, and for the
last owner `Delete`, `DecreaseWeakCount` and perhaps `DeleteSelf`.  Assignment is a
construction, a swap and a destruction, and so is no action of its own.

The pointers are not thread-safe as variables, only what they share is: a variable is
not changed while another thread reads it (`Readable`, `Changeable`), and `Lock` counts as
a change, because it may clear the pointer it is called on.  What a late `Lock` returns - no
target, but a reference to the counts - is copied, weakened and destroyed like any other
pointer.  A count that is found at zero then is one that nobody kept for it; `spoiled` says
that this has happened, and reading counts that have been freed gives anything (`Found`).
What the pointers promise, they promise until then; what follows is in section 6.

## 4. Runs

All bounds are constants of the modules.

| Run | Instance | Shows |
| --- | --- | --- |
| `scheduler` | 2 workers, one may be unregistered; 1 client that makes every call; 1 pool; 2 tasks | exclusive execution, live tasks, no failed assertion, no block left behind, nothing for a worker that leaves |
| `prepared` | 2 workers, everything registered before dispatching starts | no task is left waiting, tasks drain, a blocking stop returns |
| `priorities` | 1 worker, 3 pools in 2 blocks, dispatching left on | earlier blocks first; pools of a block take turns |
| `rollback` | 2 peers with a player each, 4 frames, window of 4, up to 2 commands of one player, both in one frame or not, and 1 of the other, with fairness | no failed test, nothing lost by the merge, every misprediction undone, enough history, lockstep implemented, which includes that peers agree; nobody runs further ahead than allowed, and stalls end |
| `domain` | 1 variable with 2 values, window of 2, rewinds of 1 frame, frames 0 to 3, 2 automatic and 1 manual snapshot | the window agrees with an unbounded history, rewinds are safe, snapshots give back what was, the previous automatic snapshot is kept |
| `work_pump` | 2 users, 2 threads, 3 items, 2 sets of callbacks, with fairness | an `AsyncThread`'s callbacks stay while they are used, `WorkQueue` implemented, so that nothing is popped from an empty queue, items get done in spite of a lost signal, a stop returns |
| `membership` | a host and 2 clients on 2 connections, one of which may be cut while its client goes on, 1 player, 1 request and 2 lists on their way, with fairness | lists name members only, the last list is current or another is due, nobody is robbed of a player, a request to give one up takes effect |
| `connections` | 2 connections, places for 2, with fairness | nothing left behind, open means whole, trusted means welcomed, a stop clears all, places come back |
| `transmissions` | a greeting and batches of 5, 2, 3 and 6 units, transmissions of 2, up to 7 units at once, with fairness | fetches never block, `BatchChannel` implemented, everything sent whole arrives and nothing is refused |
| `shared_pointers` | 6 handles, counts of 8 values, until a count at zero is touched | a weak pointer resolves to a living object only, the counts live as long as they are used, `Ownership` implemented |
| `stalled_frame` | the instance of `rollback` with 2 commands each and commands added to a stalled frame | a violation, section 6 |
| `late_lock` | 4 handles | a violation, section 6 |

Why the bounds are enough. *Scheduler*: the state that is contended is one flag or one
block; two workers and a client are three parties that dispatch, complete and abort at once,
and two tasks are enough for one to be fetched while the other is added, aborted or removed.
A third pool is what turns and priorities need. *Rollback*: with a window of four changes a
peer may predict one frame and stalls on the second (`kMaxRollbackFrames` is window - 3), so
that four frames contain a stall, the recovery from it, a rollback of more than one frame
and a full window; the code's window is ten. Two commands are the fewest for which a pack
can repeat one and bring another, and two equal commands in one frame are the case in which
the merge could take one for the other; the second player's one command meets them in every
order. The run has a liveness property and no symmetry; `stalled_frame` has one, sound
because peers are interchangeable there: the owner of a player is the peer of the same name.
*Domain*: the smallest window that a rewind needs; it is full after two changes, and four
frames let it drop some, rewind, load an older state and do so again. `FewSnapshots` keeps
two snapshots of the three at a time; the proof has no such bound. *Work pump*: two users
are one who stops and one who starts or adds; a third item stays in the queue over a stop.
*Membership*: two clients compete for a player with each other and with the host, and a
process that leaves comes back on the other connection. A request beside another on its way
waits for `MaxUp`, a host for `MaxDown`; `Cut` is the client whose socket may fail while it
goes on, and connections are used in the order the host generates them. *Connections*: while
the listener sets up one, the other is destroyed. As many identifiers as places means that
no client is turned away for want of a place; the proofs have any number of either.
*Transmissions*: batches of one transmission and of more, of a size that the last
transmission fills or does not; up to seven units at once hold the end of one batch, another
and the start of the next. *Pointers*: an owner that leaves, a lock in progress and the
pointer it locks, a copy in progress and its source, and one more; counts have more values
than there are pointers, as the code's 2^32 are. A state in which a count at zero has been
touched is checked and not followed (`Unspoiled`). Handles are interchangeable but for the
first, and the symmetry exchanges the others. The proofs of section 5 do not depend on these
bounds.

Deadlock is checked except in four runs: in `priorities` all tasks may end while nobody adds
new ones or stops dispatching, in `transmissions` the connection may end, and in
`shared_pointers` and `late_lock` the last pointer may go, behind which there is nothing. In
the rollback runs `Finished` is the rest state, all peers being past the last frame.

### Fairness

*Scheduler.*  The operating system runs every thread: weak fairness for a thread in a
call, and for a worker's thread, since `StandardTaskScheduler` loops over
`ExecuteUntilStarved` for as long as the program runs.  Tasks are assumed to
terminate when stepped again and again (strong fairness of `Step` returning
`Terminate`); `priorities` does not assume it.

*Rollback.*  Every process runs frame after frame, and TCP delivers what was sent, so
that a frame that finds everything that was sent happens again and again.  That is
weak fairness of `FrameCaughtUp`; `Fairness` writes it out with the states in which
a frame changes nothing named (`Waits`: a stalled peer that only repeats itself),
because `ENABLED` of a frame is costly for TLC.

*Work pump.*  Threads run, a call that can go on does, and a timed wait ends
(`wait_for` with `mSafetyWakeupInterval`).  Nobody is obliged to start, stop or add, and
nothing is owed by a process that has ended.

*Membership.* The host's frames go on (`BeginPass`, `HandleMessage`, `DoMessageWork`), a
connection whose client's end is shut is found broken in the end (`Break`), and each client
that has a connection goes on reading all that has arrived (`ClientCatchesUp`). Nobody is
obliged to ask for anything, and repeating a request is never relied on.
This too is weak fairness of the three, written out with the states in which they are
enabled named (`HostCanGoOn`, `ClientCanCatchUp`).

*Connections.*  The three threads go on - the validator by its safety wake-up at the
latest - and so does a stop once begun; time passes for every connection
(`TimePasses`).  Clients and sockets owe nothing: `PlacesComeBack` has to hold for
silent ones.

*Transmissions.*  Validator, handshaker and frames come back to a connection that is
valid (`Read`).  The sender is not obliged to finish a batch.

## 5. Proofs

Each module of proofs rests on the named assumption of the constants of the module it
extends alone; TLC evaluates the assumption in the module's runs.  The way is the same
everywhere: an invariant that is inductive, a lemma per action, one theorem
`Spec => []Inv`, and the properties as its consequences.

**`TaskSchedulerProofs`** (`Invariance`, `TypeCorrect`, `Exclusion`, `FlightedTasksLive`,
`BlocksAreAnswered`, `IdleMeansIdle`, `NoAssertionFails`, `LeavingWorkers`).  None of
the properties is inductive: that a worker gets its task while its registration is
empty depends on who else may have flagged it.  `IInv` therefore says who owns what.

* `ThreadShape`: what a thread has in hand at each label.
* `OneOwnerPerWorker`: an active flag belongs to one party, which is a dispatching
  thread, the pending work it handed over, or the worker's own thread.
* `OneOwnerPerBlock`: a block belongs to one party, which is a thread that fetched,
  peeked or aborts, or the worker whose pending work it is.
* `OneRecordPerTask`: a task has a record in one pool at most, and only a task that
  was added is blocked.  Without it a removal from one pool could leave a blocked
  record in another.
* `BlocksAnswered`: a block on a record has an owner at all.

Each of the parts has one step per action, resting on lemmas for the steps that leave
the part alone (`WorkersFrame`, `BlocksFrame`, `RecordsFrame`, `AnswersFrame`) and for
the one that takes a block (`BlockTaken`).

`PreparedInvariance` and `NothingIsForgotten` (`NoTaskLeftWaiting`) are about a prepared
scheduler, under the hypothesis `OnePoolPerBlock`, without which section 6 shows the
property to fail.  A search passes the records that are blocked, and one of them may be
given back behind it: then a task waits and a worker, finding nothing, becomes idle.  What
saves it is that whoever gives a task back has a worker to serve afterwards, and that
worker will come to the task.  Tasks and workers cannot be paired off for this, because
which worker will take which task is decided only when they meet; but they can be
counted.  `Missed(v)` is the set of tasks that wait and that worker v will not be offered
any more (`Behind`), and `Reserve(v)` the set of workers that will be offered one of these
(`Ahead`); `MissedAreReserved` says that there are never fewer of the second than of the
first.  When all calls have come back nobody is in reserve, so an idle worker has missed
nothing, and what it has not missed does not wait.  `PreparedInv` adds to this and `IInv`
what threads have in hand of their search and that nothing is aborted (`PreparedShape`).
There is one lemma per step that changes the counts - a worker is flagged (`FlagCounts`),
a search fails (`UndoCounts`), a worker finishes and looks for more (`ReleaseCounts`), a
search moves past a task or takes it (`TakeCounts`), a task is given back
(`ReturnCounts`), dispatching starts (`StartCounts`) - and `SearchFrame` for all others.
With one pool in a block all searches visit the records in one order (`BehindInOrder`,
`AheadInOrder`): what one has passed is passed for all that are further, which is what
lets a task that is taken be struck from the count of every other worker.

`PrioritiesAreKept` (`HigherPriorityFirst`) is about one worker (`OnlyOneWorker`) and any
pools.  While the one worker is flagged for a search no task runs, so none is given back
(`StaysOn`: and dispatching stays on, so that none is added).  What the search has passed
is therefore still blocked when it hands over what it took (`PassedAreBlocked`): all pools
of earlier blocks, those of its block that are no longer to be visited - `ToVisit` counts
places from `mLastDispatchIndex` on around the block -, and the records before its cursor.

**`RollbackDomainProofs`** (`DomainInvariant`, `DomainTypes`, `WindowIsTrue`,
`RewindsStaySafe`, `SnapshotsAreTrue`, `AutoSnapshotsTakeTurns`).  A property of
`Write` is at the bottom: a full stream that drops its oldest change still has one at
`f` or before, if fewer than `max` frames lie between `f` and the new change (`Room`,
by counting).  Lemmas say what `Read` returns after a write and a discard.  `DInv` adds
to the properties how the clocks lie to each other (`Clocks`), what is bound, promised
and settled (`Bindings`, `Absent`), and that a settled variable has a change at the
floor or earlier (`Early`), without which `Room` could not be used a second time.

**`WorkPumpProofs`** (`PumpInvariant`, `PumpTypes`, `PopsSomething`, `CallbacksAreSafe`,
`PumpIsQueue`). `PumpInv` says that there is one thread at most (`OneThread`), that it holds
an item exactly while it executes one, and that who stops the pump holds `mThreadMutex`.
`CallbacksAreSafe` is about the callbacks of the `AsyncThread`; the pump's own is not safe
(section 6), and the refinement holds although a process may end of it. The refinement maps
a pop to `Take`, the end of the execution to `Finish` and the join to `Close`.

**`SessionMembershipProofs`** (`MembershipInvariant`, `MembershipTypes`, `OwnersBelong`,
`NoListIsBad`, `ClientsAreTold`, `NobodyLosesAPlayer`).  What makes the properties
inductive is what a pass knows: a connection of the session that it does not count as
valid has failed (`Known`), a player's owner is in the session or valid in this pass
(`Owned`), the messages it has taken are there (`Queued`), and a client's connection is
its own (`Linked`).  No bound on queues is used.

**`HostConnectionsProofs`** (`ConnectionsInvariant`, `ConnectionsTypes`,
`RemovalIsComplete`, `OpenConnectionsAreWhole`, `TrustMeansWelcome`,
`StoppingClearsAll`).  `ConnInv` says who holds which lock (`Turns`), what the listener
has already given to the connection it sets up (`Setup`), what endpoints and streams
belong to (`Held`, `Whole`), that a connection removed while its socket is open is on its
way to be terminated (`Removed`), and what validator and frame thread have noted of
connections that may be gone by now (`Noted`).

**`RollbackPeersProofs`** (`PeersInvariant`, `PeersTypes`, `NothingFails`,
`CommittedIsSimulated`, `NothingIsLost`, `HistoryIsEnough`, `PeersKeepTogether`,
`PeersKeepLockstep`): every property of the run `rollback` but
`FramesGoOn`.  The theorems have two hypotheses, and each leaves out what section 6 shows
to fail: `EveryPeerPlays`, every peer has a player of its own, and `NoSecondThoughts`
(`~PressAgain`), a frame that is repeated in a stall gets no second helping of commands.
Nothing is assumed about how many peers and players there are, which commands they give,
how long the window is (more than three changes, below which `kMaxRollbackFrames` is not
positive) or how packs are delayed.

None of the properties is inductive, since what a merge does depends on packs that were
sent long ago.  `IInv` has a part for each thing that has to fit:

* `StreamsOK`: all committed streams of a peer end at one head; commands at or before it
  are committed and all others come later, in order, up to the stream's own head.
* `ClockOK`, `WindowOK`: a clock is after the commit head and not too far after it, and
  the window holds the changes of the last `MaxChanges` - 1 frames.
* `SimOK`: what the frames up to the commit head were last simulated with.
* `OwnOK`: the head of a peer's own player is the frame before the current one, or the
  current one when it is repeated.
* `RemoteOK`: a peer knows a beginning of what a remote player gave, and everything up to
  the stream's head (`KnowsAllUpTo`); and the packs on their way hold the rest
  (`Carries`).  Each pack begins with a command that the receiver knows by then or lacks
  next, ends no earlier than what it knows, and has no part of a frame without the rest
  of it (`PackOK`, `IsCompleteAt`); frames and ends never go back along the queue.

TLC finds `Rest` invariant in the instance of `rollback`, and in one with a peer that has two
players.

The argument follows `ProcessFrame`.  `StartOfFrame` draws from the invariant what the
frame's first tests need.  The commit (`CommitKeeps`) moves commands across the head and
loses none; the frame adds what is pressed at the end of its own players' streams.
`MergeOne` is the heart: under `Carries` the overlap that `CanOverlapOrSuffix` finds is
exactly what the pack repeats (`OverlapIs`) - with equal commands in one frame, too, for a
pack never ends within a frame - and no test fails; `MergeQueue` repeats it for all packs
that have arrived, and `ReceiveKeeps` for all peers.  `FrameDoes` sums up a frame, and one
lemma for every part of the invariant carries that part over it (`ClockKept`,
`WindowKept`, `SimKept`, `OwnKept`, `RemoteKept`, `TypesKept`).

The refinement maps a frame to one `Lockstep` step: logs grow because what was known stays a
beginning (`LogGrows`), histories because a commit head never goes back and the frames
behind it are not simulated again (`HistoryGrows`), and a committed frame is in every log
(`CommittedIsClosed`).  The places `lower_bound` finds, the merge of a queue and the
overlap need inductions over data; they are made with the least counterexample
(`Least`, `SetInduction`), which uses no operator as a parameter.

**`TransmissionsProofs`** (`TransmissionsTypes`, `FetchesDoNotBlock`, `BatchesComeOutWhole`,
`NothingIsInvalid`).  Every unit that is sent has a place: `Offset` counts the units before
a batch, `Start` those before a transmission of it, and no two units share a place
(`OnePlace`).  `SInv` says that what the receiver holds and what is on its way are the units
at the places behind the batches it has received (`Coming`), as far as the sender has stored
if the connection is valid; that what the sender has still to store is the end of a batch
(`Unsent`); and that what has been received is what was sent first (`Received`).  How the
network cuts the units and how they are stitched together does not change them
(`HeldKept`).

A decoding begins where the next batch begins (`DecodedIs`) and has, after each
transmission, the messages of the batch up to there and the place behind them
(`DecodesNext`, `Going`).  It comes to the whole batch or to a wait for more, never to bytes
it refuses (`DecodesBatch`, `DecodesGreeting`): both sides encrypt from the second batch on,
and the receiver has its greeting exactly if it has a batch.  A batch of which all units are
held has been sent whole (`WholeIsSent`).  The refinement maps the storing of a last
transmission to `Send`, a successful decoding to `Receive`, and every other step to a
stutter.  TLC finds `SInv` invariant in the instance of `transmissions`.

**`SharedPointersProofs`** (`PointersInvariant`, `WeakIsTrue`, `CountsAreThere`,
`UniqueStaysSole`, `PointersKeepPromise`).  The theorems are about all behaviours, those in
which a late `Lock` returns a pointer and everything is done with it included.  `PInv` says
what a handle may be at each step (`Shape`), that the counts are the cardinalities of the
sets of handles they count, of which all strong ones together are one in the weak count
(`Counted`), what has been deleted (`Deleted`), which targets are set (`Targets`), and that a
unique pointer is alone (`UniqueAlone`) - all of it until `spoiled`.  As long as there is an
owner nothing can be spoiled, and as the handles are finitely many and fewer than the counts'
values, no count wraps before that.  `Ownership` has the same: its promise is `kept` until the
last owner has left and somebody uses what a late `Lock` gave.
The refinement has a lemma per step of `Ownership`; that the exchange of a `Lock` compares
with a value that was not zero is what lets it map to `Join`.

Only model-checked: all liveness, which is beyond TLAPS. Every safety and action property
and every refinement that a passing run checks is stated by a theorem. `NeverPopsNothing` is
proved and has no run of its own, because `WorkQueue` contains it; `UniqueIsSole` is only
proved.

## 6. Where the code and what it says disagree

Two runs show a disagreement:

* `stalled_frame`: two commands given for one stalled frame end the game of the other
  peers, if they commit the frame between the packs that bring them.
* `late_lock`: `IncreaseStrongCount` does nothing at a count of zero, and
  `WeakSharedPtr::Lock` (`core/ptr/weak_shared_ptr.h:82-87`) then returns a pointer without
  target that keeps `mRef`.  Its destructor (`core/ptr/shared_ptr.h:121-124`) takes the strong
  count from zero to 2^32 - 1, after which weak pointers resolve to the deleted object,
  although "any attempt to resolve a weak reference should result in a null reference"
  (`core/ptr/ptr_ref.h:113-114`).  If the last weak pointer has gone first, the destruction
  reads counts that were freed.  A test makes and destroys such a pointer and looks no further
  (`apps/core_test/ptr_weaksharedptr.cpp:49`).  Sessions lock weak pointers to streams that
  other threads drop (`GameSync/SessionManager.cpp:395-409`).

The others were met while modelling.  TLC finds those with a property named here
violated when it is given the property, and no run is kept for them:

* `TaskScheduler.StoppedMeansIdle`: a dispatch that passed the check of the switch
  before it was turned off gives a worker a task after the blocking `StopDispatching`
  has returned.  `AllTasksAreCurrentlyCompleted` can be overtaken in the same way.
* `TaskScheduler.AbortLocatesTask`: `AttemptAbortAllTasks` looks for tasks by ids it
  collected earlier and runs into `RF_DBGFAIL_MSG` when one has ended meanwhile.
* `TaskScheduler.AbortedTaskLeaves`: a flighted task that is aborted and then returned
  is never removed.
* `TaskScheduler.NoTaskLeftWaiting`, when tasks are added while dispatching is on, as
  `StandardTaskScheduler` leaves it from its constructor on: one added while another
  thread still has the only worker flagged, but has passed the pool, waits until some
  other call dispatches.
* `TaskScheduler.NoTaskLeftWaiting`, also in a prepared scheduler, when a block has two
  pools: two searches may begin at different pools of it, as `mLastDispatchIndex` changed
  in between ("Race condition with other dispatching threads, but don't really care",
  `Scheduling/TaskScheduler.cpp:450-451`).  Each passes the task the other's worker has in
  hand, and one that is given back then waits beside an idle worker until some call
  dispatches again.  TLC finds it with two workers, two pools of one block and two tasks.
  `StandardTaskScheduler.cpp:108-125` (of `apps/AppCommon_GraphicalClient`) registers one
  pool in each block, but `FrameBuilder.cpp:42` adds one of normal priority, as
  `apps/retrofit/Tests.cpp:835` does to the program's own scheduler.  It also happens, with
  one pool, when a worker is told to leave while dispatching is on.
* `TaskScheduler.HigherPriorityFirst` with several workers: a task that returns to an
  earlier block after a search has passed it waits, and the search gives out one of a later
  block.  "Pools with higher priority will have their tasks dispatched first"
  (`Scheduling/TaskScheduler.h:102`) is what the code does for one worker.
* `RollbackPeers.NoFailure` with a peer that plays nobody: it meets an assertion as soon
  as the others are ahead of it.  The lobby
  (`apps/cc3o3/appstates/devtest/DevTestLobby.cpp`) sets up two players, so a third
  member of a session is in this position.
* `HostConnections.EveryoneIsSettled`: a connection whose streams are swept away while
  the listener sets it up (`GameSync/SessionHostManager.cpp:347-353`) is passed by by the
  validator for ever, which takes it for "recently terminated or still being setup"
  (`:410-411`).  It keeps its place among the host's connections although it can never be
  talked to.
* `HostConnections.ClocksAgree`: the validator takes its "now" before it lists the
  connections, so one accepted in between is younger than "now" and the assertion that
  no negative time has passed (`GameSync/SessionHostManager.cpp:426`) fails.
* `SessionMembership.RelinquishOnlyOwn`: a client may ask to give up a player that was
  taken from it and claimed by another meanwhile; the next list it reads makes
  `RF_ASSERT( local.count( id ) != 0 )` (`GameSync/SessionClientManager.cpp:575`) fail.  Where
  that does not end the process, the request is sent again and again for as long as the other
  keeps the player.  The host ignores it (`NobodyIsRobbed`), and the client has lost the player
  as it asked to (`RelinquishTakesEffect`), but the request is not settled by its own test
  (`:547-559`).
* `WorkPump.WorkStays`: "Callback changes are locked for the entire lifetime of the thread"
  (`core_thread/AsyncThread.cpp:129`) and "Cannot init while already active" (`:28`) are true
  of the `AsyncThread`'s own callbacks alone.  `SequentialWorkPump::Init` has assigned `mWork`
  before that (`core_thread/SequentialWorkPump.inl:27`), under no lock, and `DoWork` calls it
  (`:104`): an `Init` of a running pump exchanges or destroys the function that is being called.
* `core_allocate/LinearAllocator.inl`, which is not modelled: an allocation that does not
  fit takes its size back from the counter after others may have seen it lower or higher.
  When two fail at once and a third fits between their subtractions, the second subtraction
  moves the counter behind the start of the third, and a later allocation overlaps it.
* After bytes that can not be decoded, the loop at `GameSync/SessionManager.cpp:227-233`
  has no `break`: it terminates the stream and decodes the same buffer again.
  `Transmissions.EverythingArrives` says that two programs of the same version do not come
  to this.
* A client's connecting thread uses `mConnections.at(...)`
  (`GameSync/SessionClientManager.cpp:368`), while the frame thread may have erased that
  entry (`GameSync/SessionManager.cpp:372`).  The thread that connects is not modelled.
* `RequestPlayerChange` (`GameSync/SessionClientManager.cpp:196`) changes the requests
  under a reader lock.

## 7. Not modelled

Of the parts that are modelled:

* scheduler: `UnregisterPool`, listeners, readers that queue behind a writer, teardown;
* streams and frame loop: streams created or changing their owner during a game,
  artificial delay, instant replay, debug rewinds, pass-through input;
* sessions: chat (the host copies it to all), the client's connecting thread, and so a client
  that connects again after its connection has failed;
* threads: `mTerminateCondition`, which the pump does not use;
* communication: removing single streams, which nobody does, and the choice among
  several channels of an endpoint, which has one each way;
* sockets: the calls of Windows themselves;
* pointers: the unchecked transformation from `SharedPtr` to `UniquePtr`, which only tests
  use, and conversions of the target's type, which leave the counts alone.

The rest of the repository is most of it by size - rendering (`PPU`, `SimpleGL`), user
interface, content formats and their loaders, files, serialization and reflection, text,
executable formats, crash reports, tools, and the rules of one game.  It converts data or
draws it in one thread, its state is shared by no two parties, and its unit tests reach
what it does; a model of it would repeat the program.  This is why the models cover a
small part of the lines and, of what depends on the order in which things happen, most.
The reason for each part stands in `PROJECT.json`.
