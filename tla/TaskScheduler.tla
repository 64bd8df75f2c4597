---------------------------- MODULE TaskScheduler ----------------------------
(***************************************************************************)
(* The multithreaded task scheduler of src/libs/Scheduling: TaskScheduler, *)
(* the FIFOTaskPools it draws tasks from and the ThreadableTaskWorkers it   *)
(* hands them to.                                                          *)
(*                                                                         *)
(* Every thread has a program counter.  One step of a thread is what the   *)
(* code does between two points at which another thread could interfere:   *)
(* one exchange, load or store of an atomic, or one critical section of a  *)
(* writer lock.  The three reader/writer locks are not variables: who      *)
(* holds a lock as a reader can be read off the program counters, and an   *)
(* action that needs the writer lock is enabled when nobody does.          *)
(*                                                                         *)
(* A task stepped by a worker may itself add or abort tasks; no lock is    *)
(* held meanwhile, so such calls are those of one of the Clients here.     *)
(***************************************************************************)
EXTENDS Integers, Sequences, FiniteSets

CONSTANTS
  Workers,        \* the workers, numbered in the order they are registered
  Clients,        \* the threads that use the scheduler and run no worker
  Control,        \* the client that starts, stops and questions dispatching
  Pools,          \* the task pools
  NoPool,         \* no task pool: a null pointer
  NumPriorities,  \* the number of priority blocks (4 in the code)
  PriorityOf,     \* the priority block each pool is registered in
  Unregistrable,  \* the workers that may be unregistered
  MaxTasks        \* how many tasks are ever added: the bound of the model

Priorities == 1 .. NumPriorities

ASSUME ConstantsAssumption ==
  /\ MaxTasks \in Nat
  /\ NumPriorities \in Nat \ {0}
  /\ IsFiniteSet(Workers) /\ Workers \subseteq Nat \ {0}
  /\ Clients \cap Workers = {}
  /\ Control \in Clients
  /\ NoPool \notin Pools
  /\ PriorityOf \in [Pools -> Priorities]
  /\ Unregistrable \subseteq Workers

Threads == Workers \cup Clients

(***************************************************************************)
(* FIFOTaskPool takes a task's id from a generator of its own just before  *)
(* it appends the record.  Ids are only ever compared for equality within  *)
(* one pool, so here one generator serves all pools, at the append: a      *)
(* pool's records are then the set of their ids, and their order in the    *)
(* deque is the order of the ids.                                          *)
(***************************************************************************)
TaskIDs == 1 .. MaxTasks
kInvalidTaskID == 0
TaskStates == {"Ready", "Terminate"}
NoWorker == 0

VARIABLES
  mDispatchingPermitted,      \* the scheduler's switch
  mWorkers,                   \* the registered workers
  mFlaggedAsActive,           \* per worker
  mFlaggedForUnregistration,  \* per worker; stays set once it is removed
  mActiveTaskID,              \* per worker
  mActivePool,                \* per worker
  mPendingWork,               \* per worker: the stack of ThreadableTaskWorker
  mPools,                     \* per priority block: its pools in order
  mLastDispatchIndex,         \* per priority block
  mTaskRecords,               \* per pool: the ids of its records
  mBlocked,                   \* per task
  mAbortPending,              \* per task
  nextID,                     \* the id generator
  pc,                         \* per thread: where it is
  worker,                     \* per thread: the worker it dispatches to or polls
  prio,                       \* per thread: the priority block it is in
  index,                      \* per thread: the pool of the block it is at
  left,                       \* per thread: how many pools of the block to go
  pool,                       \* per thread: the pool it operates on
  cursor,                     \* per thread: the record it visited last
  held,                       \* per thread: the task it holds blocked
  aborting,                   \* per thread: the tasks it has yet to abort
  newState,                   \* per thread: what the last Step() returned
  answer                      \* what the last question to the scheduler found

flagVars   == <<mFlaggedAsActive, mFlaggedForUnregistration>>
assignVars == <<mActiveTaskID, mActivePool, mPendingWork>>
listVars   == <<mDispatchingPermitted, mWorkers, mPools>>
recordVars == <<mTaskRecords, mBlocked, mAbortPending, nextID>>
scanVars   == <<worker, prio, index, left, pool, cursor>>
handVars   == <<held, aborting, newState>>
vars == <<flagVars, assignVars, listVars, mLastDispatchIndex, recordVars,
          pc, scanVars, handVars, answer>>

-----------------------------------------------------------------------------
(* Helpers.                                                                *)

Goto(t, label) == pc' = [pc EXCEPT ![t] = label]

\* What a loop over the workers, or over the records of a pool, has yet to visit.
LaterWorkers(t) == {w \in mWorkers : w > worker[t]}
LaterRecords(t) == {i \in mTaskRecords[pool[t]] : i > cursor[t]}

IsFirst(i, S) == i \in S /\ \A j \in S : i <= j

IsRegistered(p) == \E k \in DOMAIN mPools[PriorityOf[p]] :
                      mPools[PriorityOf[p]][k] = p

\* Who holds which lock as a reader.
ReadsWorkers(t) ==
  \/ pc[t] \in {"settle", "release"}
  \/ /\ pc[t] \in {"flag", "nextPool", "visit", "take", "give", "undo",
                  "poll", "ask"}
     /\ worker[t] # NoWorker

ReadsPools(t) ==
  \/ pc[t] \in {"visit", "take", "give", "unpeek"}
  \/ pc[t] = "nextPool" /\ left[t] > 0

ReadsRecords(t, p) == pc[t] \in {"visit", "take", "pend"} /\ pool[t] = p

\* A mutant of CanWriteWorkers: the lock is not taken.
Unlocked == TRUE

CanWriteWorkers == \A t \in Threads : ~ReadsWorkers(t)
CanWritePools == \A t \in Threads : ~ReadsPools(t)
CanWriteRecords(p) == \A t \in Threads : ~ReadsRecords(t, p)

Init ==
  /\ mDispatchingPermitted = FALSE
  /\ mWorkers = {}
  /\ mFlaggedAsActive = [w \in Workers |-> FALSE]
  /\ mFlaggedForUnregistration = [w \in Workers |-> FALSE]
  /\ mActiveTaskID = [w \in Workers |-> kInvalidTaskID]
  /\ mActivePool = [w \in Workers |-> NoPool]
  /\ mPendingWork = [w \in Workers |-> << >>]
  /\ mPools = [b \in Priorities |-> << >>]
  /\ mLastDispatchIndex = [b \in Priorities |-> 0]
  /\ mTaskRecords = [p \in Pools |-> {}]
  /\ mBlocked = [i \in TaskIDs |-> FALSE]
  /\ mAbortPending = [i \in TaskIDs |-> FALSE]
  /\ nextID = 1
  /\ pc = [t \in Threads |-> "idle"]
  /\ worker = [t \in Threads |-> NoWorker]
  /\ prio = [t \in Threads |-> 0]
  /\ index = [t \in Threads |-> 0]
  /\ left = [t \in Threads |-> 0]
  /\ pool = [t \in Threads |-> NoPool]
  /\ cursor = [t \in Threads |-> 0]
  /\ held = [t \in Threads |-> kInvalidTaskID]
  /\ aborting = [t \in Threads |-> {}]
  /\ newState = [t \in Threads |-> "Ready"]
  /\ answer = "none"

-----------------------------------------------------------------------------
(* Registration.                                                           *)

\* A worker enters mWorkers once; its registration starts with both flags down.
RegisterWorker(t, w) ==
  /\ pc[t] = "idle"
  /\ w \notin mWorkers /\ ~mFlaggedForUnregistration[w]
  /\ \A v \in Workers : v < w => v \in mWorkers \/ mFlaggedForUnregistration[v]
  /\ CanWriteWorkers
  /\ mWorkers' = mWorkers \cup {w}
  /\ Goto(t, "check")
  /\ UNCHANGED <<flagVars, assignVars, mDispatchingPermitted, mPools,
                 mLastDispatchIndex, recordVars, scanVars, handVars, answer>>

\* An idle worker is erased; a busy one keeps its registration, with both flags
\* up: nothing will be dispatched to it, and it is still in the list.
UnregisterWorker(t, w) ==
  /\ pc[t] = "idle"
  /\ w \in mWorkers \cap Unregistrable /\ ~mFlaggedForUnregistration[w]
  /\ CanWriteWorkers
  /\ mFlaggedForUnregistration' = [mFlaggedForUnregistration EXCEPT ![w] = TRUE]
  /\ mFlaggedAsActive' = [mFlaggedAsActive EXCEPT ![w] = TRUE]
  /\ mWorkers' = IF mFlaggedAsActive[w] THEN mWorkers ELSE mWorkers \ {w}
  /\ UNCHANGED <<assignVars, mDispatchingPermitted, mPools, mLastDispatchIndex,
                 recordVars, pc, scanVars, handVars, answer>>

RegisterPool(t, p) ==
  /\ pc[t] = "idle"
  /\ ~IsRegistered(p)
  /\ CanWritePools
  /\ mPools' = [mPools EXCEPT ![PriorityOf[p]] = Append(@, p)]
  /\ Goto(t, "check")
  /\ UNCHANGED <<flagVars, assignVars, mDispatchingPermitted, mWorkers,
                 mLastDispatchIndex, recordVars, scanVars, handVars, answer>>

-----------------------------------------------------------------------------
(* Adding tasks to a pool, and aborting them.                              *)

\* The scheduler is told of the new task only if the pool was empty.
AddTask(t, p) ==
  /\ pc[t] = "idle"
  /\ nextID <= MaxTasks
  /\ CanWriteRecords(p)
  /\ nextID' = nextID + 1
  /\ mTaskRecords' = [mTaskRecords EXCEPT ![p] = @ \cup {nextID}]
  /\ IF mTaskRecords[p] = {}
     THEN Goto(t, "notify") /\ pool' = [pool EXCEPT ![t] = p]
     ELSE UNCHANGED <<pc, pool>>
  /\ UNCHANGED <<flagVars, assignVars, listVars, mLastDispatchIndex, mBlocked,
                 mAbortPending, worker, prio, index, left, cursor, handVars, answer>>

\* TaskPool::OnTasksNewlyAvailable: a pool without a scheduler tells nobody.
OnTasksNewlyAvailable(t) ==
  /\ pc[t] = "notify"
  /\ Goto(t, IF IsRegistered(pool[t]) THEN "check" ELSE "idle")
  /\ pool' = [pool EXCEPT ![t] = NoPool]
  /\ UNCHANGED <<flagVars, assignVars, listVars, mLastDispatchIndex, recordVars,
                 worker, prio, index, left, cursor, handVars, answer>>

\* A caller aborts a task it was given the id of, running or finished as it may be.
AttemptAbortTask(t, p, i) ==
  /\ pc[t] = "idle"
  /\ i < nextID
  /\ \A q \in Pools \ {p} : i \notin mTaskRecords[q]
  /\ aborting' = [aborting EXCEPT ![t] = {i}]
  /\ pool' = [pool EXCEPT ![t] = p]
  /\ Goto(t, "abort")
  /\ UNCHANGED <<flagVars, assignVars, listVars, mLastDispatchIndex, recordVars,
                 worker, prio, index, left, cursor, held, newState, answer>>

\* The ids are collected first and aborted one by one afterwards.
AttemptAbortAllTasks(t, p) ==
  /\ pc[t] = "idle"
  /\ mTaskRecords[p] # {}
  /\ aborting' = [aborting EXCEPT ![t] = mTaskRecords[p]]
  /\ pool' = [pool EXCEPT ![t] = p]
  /\ Goto(t, "abort")
  /\ UNCHANGED <<flagVars, assignVars, listVars, mLastDispatchIndex, recordVars,
                 worker, prio, index, left, cursor, held, newState, answer>>

\* A mutant of BlockToAbort that takes a block somebody else holds for its own.
AbortBlocked(t, i) ==
  /\ pc[t] = "abort"
  /\ IsFirst(i, aborting[t])
  /\ held' = [held EXCEPT ![t] = i]
  /\ aborting' = [aborting EXCEPT ![t] = @ \ {i}]
  /\ mBlocked' = [mBlocked EXCEPT ![i] = i \in mTaskRecords[pool[t]] \/ @]
  /\ Goto(t, IF i \in mTaskRecords[pool[t]] THEN "erase" ELSE "missing")
  /\ UNCHANGED <<flagVars, assignVars, listVars, mLastDispatchIndex, mTaskRecords,
                 mAbortPending, nextID, scanVars, newState, answer>>

\* Find the record and try to block it.  A task that is not there any more is
\* looked for once more by RemoveBlockedTask, as one that was blocked just now.
BlockToAbort(t, i) ==
  /\ pc[t] = "abort"
  /\ IsFirst(i, aborting[t])
  /\ held' = [held EXCEPT ![t] = i]
  /\ aborting' = [aborting EXCEPT ![t] = @ \ {i}]
  /\ IF i \in mTaskRecords[pool[t]]
     THEN /\ Goto(t, IF mBlocked[i] THEN "pend" ELSE "erase")
          /\ mBlocked' = [mBlocked EXCEPT ![i] = TRUE]
     ELSE Goto(t, "missing") /\ UNCHANGED mBlocked
  /\ UNCHANGED <<flagVars, assignVars, listVars, mLastDispatchIndex, mTaskRecords,
                 mAbortPending, nextID, scanVars, newState, answer>>

\* The record was blocked already: it is only marked.
MarkAbortPending(t) ==
  /\ pc[t] = "pend"
  /\ mAbortPending' = [mAbortPending EXCEPT ![held[t]] = TRUE]
  /\ held' = [held EXCEPT ![t] = kInvalidTaskID]
  /\ Goto(t, "abort")
  /\ UNCHANGED <<flagVars, assignVars, listVars, mLastDispatchIndex, mTaskRecords,
                 mBlocked, nextID, scanVars, aborting, newState, answer>>

\* RemoveBlockedTask on behalf of an abort.
RemoveAborted(t) ==
  /\ pc[t] = "erase"
  /\ CanWriteRecords(pool[t])
  /\ mTaskRecords' = [mTaskRecords EXCEPT ![pool[t]] = @ \ {held[t]}]
  /\ held' = [held EXCEPT ![t] = kInvalidTaskID]
  /\ Goto(t, "abort")
  /\ UNCHANGED <<flagVars, assignVars, listVars, mLastDispatchIndex, mBlocked,
                 mAbortPending, nextID, scanVars, aborting, newState, answer>>

\* RemoveBlockedTask that finds no record: "Failed to locate task".
FailToLocate(t) ==
  /\ pc[t] = "missing"
  /\ held' = [held EXCEPT ![t] = kInvalidTaskID]
  /\ Goto(t, "abort")
  /\ UNCHANGED <<flagVars, assignVars, listVars, mLastDispatchIndex, recordVars,
                 scanVars, aborting, newState, answer>>

AbortDone(t) ==
  /\ pc[t] = "abort"
  /\ aborting[t] = {}
  /\ pool' = [pool EXCEPT ![t] = NoPool]
  /\ Goto(t, "idle")
  /\ UNCHANGED <<flagVars, assignVars, listVars, mLastDispatchIndex, recordVars,
                 worker, prio, index, left, cursor, handVars, answer>>

-----------------------------------------------------------------------------
(* Dispatching.  A loop over the records of a pool serves two callers: a    *)
(* dispatch, for the worker it flagged, and AllTasksAreCurrentlyCompleted,  *)
(* which peeks into the pools for no worker.                                *)

CheckPermitted(t) ==
  /\ pc[t] = "check"
  /\ Goto(t, IF mDispatchingPermitted THEN "flag" ELSE "idle")
  /\ UNCHANGED <<flagVars, assignVars, listVars, mLastDispatchIndex, recordVars,
                 scanVars, handVars, answer>>

\* The next worker of the list: taken unless it is leaving or was active.
FlagNextWorker(t, w) ==
  /\ pc[t] = "flag"
  /\ IsFirst(w, LaterWorkers(t))
  /\ worker' = [worker EXCEPT ![t] = w]
  /\ IF mFlaggedForUnregistration[w] \/ mFlaggedAsActive[w]
     THEN UNCHANGED <<pc, mFlaggedAsActive>>
     ELSE /\ mFlaggedAsActive' = [mFlaggedAsActive EXCEPT ![w] = TRUE]
          /\ Goto(t, "nextPool")
  /\ UNCHANGED <<mFlaggedForUnregistration, assignVars, listVars, mLastDispatchIndex,
                 recordVars, prio, index, left, pool, cursor, handVars, answer>>

NoFurtherWorker(t) ==
  /\ pc[t] = "flag"
  /\ LaterWorkers(t) = {}
  /\ worker' = [worker EXCEPT ![t] = NoWorker]
  /\ Goto(t, "idle")
  /\ UNCHANGED <<flagVars, assignVars, listVars, mLastDispatchIndex, recordVars,
                 prio, index, left, pool, cursor, handVars, answer>>

\* A mutant of EnterBlock that starts with the pool that last gave a task.
EnterBlockAtLast(t) ==
  LET b == prio[t] + 1
      numPools == Len(mPools[b])
  IN
  /\ pc[t] = "nextPool"
  /\ left[t] = 0 /\ prio[t] < NumPriorities
  /\ prio' = [prio EXCEPT ![t] = b]
  /\ left' = [left EXCEPT ![t] = numPools]
  /\ index' = [index EXCEPT ![t] =
        IF numPools = 0 \/ worker[t] = NoWorker THEN 0
        ELSE mLastDispatchIndex[b] % numPools]
  /\ UNCHANGED <<flagVars, assignVars, listVars, mLastDispatchIndex, recordVars,
                 pc, worker, pool, cursor, handVars, answer>>

\* Enter the next priority block.  A dispatch starts with the pool after the one
\* that last gave a task, a peek with the first.
EnterBlock(t) ==
  LET b == prio[t] + 1
      numPools == Len(mPools[b])
  IN
  /\ pc[t] = "nextPool"
  /\ left[t] = 0 /\ prio[t] < NumPriorities
  /\ prio' = [prio EXCEPT ![t] = b]
  /\ left' = [left EXCEPT ![t] = numPools]
  /\ index' = [index EXCEPT ![t] =
        IF numPools = 0 \/ worker[t] = NoWorker THEN 0
        ELSE (mLastDispatchIndex[b] + 1) % numPools]
  /\ UNCHANGED <<flagVars, assignVars, listVars, mLastDispatchIndex, recordVars,
                 pc, worker, pool, cursor, handVars, answer>>

EnterPool(t) ==
  /\ pc[t] = "nextPool"
  /\ left[t] > 0
  /\ pool' = [pool EXCEPT ![t] = mPools[prio[t]][index[t] + 1]]
  /\ Goto(t, "visit")
  /\ UNCHANGED <<flagVars, assignVars, listVars, mLastDispatchIndex, recordVars,
                 worker, prio, index, left, cursor, handVars, answer>>

\* All blocks tried.  A peek that found nothing answers that all is complete.
LeaveBlocks(t) ==
  /\ pc[t] = "nextPool"
  /\ left[t] = 0 /\ prio[t] = NumPriorities
  /\ prio' = [prio EXCEPT ![t] = 0]
  /\ index' = [index EXCEPT ![t] = 0]
  /\ Goto(t, IF worker[t] = NoWorker THEN "idle" ELSE "undo")
  /\ answer' = IF worker[t] = NoWorker THEN "complete" ELSE answer
  /\ UNCHANGED <<flagVars, assignVars, listVars, mLastDispatchIndex, recordVars,
                 worker, left, pool, cursor, handVars>>

\* FetchAndBlockNextUnblockedTask, record by record: a relaxed load of the
\* abort mark ...
VisitRecord(t, i) ==
  /\ pc[t] = "visit"
  /\ IsFirst(i, LaterRecords(t))
  /\ cursor' = [cursor EXCEPT ![t] = i]
  /\ Goto(t, IF mAbortPending[i] THEN "visit" ELSE "take")
  /\ UNCHANGED <<flagVars, assignVars, listVars, mLastDispatchIndex, recordVars,
                 worker, prio, index, left, pool, handVars, answer>>

\* A mutant of NoFurtherRecord that gives up on the block.
LeaveBlockEarly(t) ==
  /\ pc[t] = "visit"
  /\ LaterRecords(t) = {}
  /\ cursor' = [cursor EXCEPT ![t] = 0]
  /\ pool' = [pool EXCEPT ![t] = NoPool]
  /\ left' = [left EXCEPT ![t] = 0]
  /\ Goto(t, "nextPool")
  /\ UNCHANGED <<flagVars, assignVars, listVars, mLastDispatchIndex, recordVars,
                 worker, prio, index, handVars, answer>>

\* No record left: on to the next pool of the block.
NoFurtherRecord(t) ==
  /\ pc[t] = "visit"
  /\ LaterRecords(t) = {}
  /\ cursor' = [cursor EXCEPT ![t] = 0]
  /\ pool' = [pool EXCEPT ![t] = NoPool]
  /\ left' = [left EXCEPT ![t] = @ - 1]
  /\ index' = [index EXCEPT ![t] = (@ + 1) % Len(mPools[prio[t]])]
  /\ Goto(t, "nextPool")
  /\ UNCHANGED <<flagVars, assignVars, listVars, mLastDispatchIndex, recordVars,
                 worker, prio, handVars, answer>>

\* A mutant of TakeRecord that takes a record blocked or not.
TakeAnyRecord(t) ==
  /\ pc[t] = "take"
  /\ mBlocked' = [mBlocked EXCEPT ![cursor[t]] = TRUE]
  /\ held' = [held EXCEPT ![t] = cursor[t]]
  /\ cursor' = [cursor EXCEPT ![t] = 0]
  /\ Goto(t, IF worker[t] = NoWorker THEN "unpeek" ELSE "give")
  /\ UNCHANGED <<flagVars, assignVars, listVars, mLastDispatchIndex, mTaskRecords,
                 mAbortPending, nextID, worker, prio, index, left, pool,
                 aborting, newState, answer>>

\* ... and then an exchange of the block.
TakeRecord(t) ==
  /\ pc[t] = "take"
  /\ mBlocked' = [mBlocked EXCEPT ![cursor[t]] = TRUE]
  /\ IF mBlocked[cursor[t]]
     THEN Goto(t, "visit") /\ UNCHANGED <<cursor, held>>
     ELSE /\ held' = [held EXCEPT ![t] = cursor[t]]
          /\ cursor' = [cursor EXCEPT ![t] = 0]
          /\ Goto(t, IF worker[t] = NoWorker THEN "unpeek" ELSE "give")
  /\ UNCHANGED <<flagVars, assignVars, listVars, mLastDispatchIndex, mTaskRecords,
                 mAbortPending, nextID, worker, prio, index, left, pool,
                 aborting, newState, answer>>

\* A mutant of GiveTask that does not register the task.
GiveUnregistered(t) ==
  /\ pc[t] = "give"
  /\ mLastDispatchIndex' = [mLastDispatchIndex EXCEPT ![prio[t]] = index[t]]
  /\ mPendingWork' = [mPendingWork EXCEPT ![worker[t]] = Append(@, held[t])]
  /\ held' = [held EXCEPT ![t] = kInvalidTaskID]
  /\ pool' = [pool EXCEPT ![t] = NoPool]
  /\ prio' = [prio EXCEPT ![t] = 0]
  /\ index' = [index EXCEPT ![t] = 0]
  /\ left' = [left EXCEPT ![t] = 0]
  /\ Goto(t, "flag")
  /\ UNCHANGED <<flagVars, mActiveTaskID, mActivePool, listVars, recordVars, worker,
                 cursor, aborting, newState, answer>>

\* Mark the dispatch and push the task to the worker; then on to the next worker.
GiveTask(t) ==
  LET w == worker[t] IN
  /\ pc[t] = "give"
  /\ mLastDispatchIndex' = [mLastDispatchIndex EXCEPT ![prio[t]] = index[t]]
  /\ mActivePool' = [mActivePool EXCEPT ![w] = pool[t]]
  /\ mActiveTaskID' = [mActiveTaskID EXCEPT ![w] = held[t]]
  /\ mPendingWork' = [mPendingWork EXCEPT ![w] = Append(@, held[t])]
  /\ held' = [held EXCEPT ![t] = kInvalidTaskID]
  /\ pool' = [pool EXCEPT ![t] = NoPool]
  /\ prio' = [prio EXCEPT ![t] = 0]
  /\ index' = [index EXCEPT ![t] = 0]
  /\ left' = [left EXCEPT ![t] = 0]
  /\ Goto(t, "flag")
  /\ UNCHANGED <<flagVars, listVars, recordVars, worker, cursor, aborting,
                 newState, answer>>

\* A mutant of UndoFlag that forgets the flag.
LeaveFlagged(t) ==
  /\ pc[t] = "undo"
  /\ Goto(t, "flag")
  /\ UNCHANGED <<flagVars, assignVars, listVars, mLastDispatchIndex, recordVars,
                 scanVars, handVars, answer>>

\* Nothing was dispatched: undo the flag.
UndoFlag(t) ==
  /\ pc[t] = "undo"
  /\ mFlaggedAsActive' = [mFlaggedAsActive EXCEPT ![worker[t]] = FALSE]
  /\ Goto(t, "flag")
  /\ UNCHANGED <<mFlaggedForUnregistration, assignVars, listVars,
                 mLastDispatchIndex, recordVars, scanVars, handVars, answer>>

-----------------------------------------------------------------------------
(* The workers.                                                            *)

\* ThreadableTaskWorker pulls the last item of its pending work.
PullWork(w) ==
  /\ pc[w] = "idle"
  /\ mPendingWork[w] # << >>
  /\ held' = [held EXCEPT ![w] = mPendingWork[w][Len(mPendingWork[w])]]
  /\ mPendingWork' = [mPendingWork EXCEPT ![w] = SubSeq(@, 1, Len(@) - 1)]
  /\ Goto(w, "step")
  /\ UNCHANGED <<flagVars, mActiveTaskID, mActivePool, listVars,
                 mLastDispatchIndex, recordVars, scanVars, aborting, newState,
                 answer>>

\* Task::Step() comes back with one of the two states.
StepReturns(w, state) ==
  /\ pc[w] = "step"
  /\ newState' = [newState EXCEPT ![w] = state]
  /\ Goto(w, "clear")
  /\ UNCHANGED <<flagVars, assignVars, listVars, mLastDispatchIndex, recordVars,
                 scanVars, held, aborting, answer>>

\* OnWorkComplete clears what the registration says of the task ...
ClearAssignment(w) ==
  /\ pc[w] = "clear"
  /\ held' = [held EXCEPT ![w] = mActiveTaskID[w]]
  /\ pool' = [pool EXCEPT ![w] = mActivePool[w]]
  /\ mActiveTaskID' = [mActiveTaskID EXCEPT ![w] = kInvalidTaskID]
  /\ mActivePool' = [mActivePool EXCEPT ![w] = NoPool]
  /\ Goto(w, "settle")
  /\ UNCHANGED <<flagVars, mPendingWork, listVars, mLastDispatchIndex, recordVars,
                 worker, prio, index, left, cursor, aborting, newState, answer>>

\* A mutant of ReturnAndUnblockTask that does not unblock.
ReturnBlocked(w) ==
  /\ pc[w] = "settle" /\ newState[w] = "Ready"
  /\ held' = [held EXCEPT ![w] = kInvalidTaskID]
  /\ pool' = [pool EXCEPT ![w] = NoPool]
  /\ Goto(w, "release")
  /\ UNCHANGED <<flagVars, assignVars, listVars, mLastDispatchIndex, recordVars,
                 worker, prio, index, left, cursor, aborting, newState, answer>>

\* ... then gives a task that is to go on back to its pool (ReturnAndUnblockTask) ...
ReturnAndUnblockTask(w) ==
  /\ pc[w] = "settle" /\ newState[w] = "Ready"
  /\ mBlocked' = [mBlocked EXCEPT ![held[w]] = FALSE]
  /\ held' = [held EXCEPT ![w] = kInvalidTaskID]
  /\ pool' = [pool EXCEPT ![w] = NoPool]
  /\ Goto(w, "release")
  /\ UNCHANGED <<flagVars, assignVars, listVars, mLastDispatchIndex, mTaskRecords,
                 mAbortPending, nextID, worker, prio, index, left, cursor, aborting,
                 newState, answer>>

\* ... or has the pool remove one that is finished ...
RemoveBlockedTask(w) ==
  /\ pc[w] = "settle" /\ newState[w] = "Terminate"
  /\ CanWriteRecords(pool[w])
  /\ mTaskRecords' = [mTaskRecords EXCEPT ![pool[w]] = @ \ {held[w]}]
  /\ held' = [held EXCEPT ![w] = kInvalidTaskID]
  /\ pool' = [pool EXCEPT ![w] = NoPool]
  /\ Goto(w, "release")
  /\ UNCHANGED <<flagVars, assignVars, listVars, mLastDispatchIndex, mBlocked,
                 mAbortPending, nextID, worker, prio, index, left, cursor, aborting,
                 newState, answer>>

\* A mutant of ReleaseWorker that does not dispatch.
ReleaseQuietly(w) ==
  /\ pc[w] = "release"
  /\ mFlaggedAsActive' = [mFlaggedAsActive EXCEPT
                            ![w] = mFlaggedForUnregistration[w]]
  /\ newState' = [newState EXCEPT ![w] = "Ready"]
  /\ Goto(w, "idle")
  /\ UNCHANGED <<mFlaggedForUnregistration, assignVars, listVars,
                 mLastDispatchIndex, recordVars, scanVars, held, aborting, answer>>

\* ... and frees the worker for more, unless it is to leave (to be removed here:
\* not implemented).  Either way it dispatches.
ReleaseWorker(w) ==
  /\ pc[w] = "release"
  /\ mFlaggedAsActive' = [mFlaggedAsActive EXCEPT
                            ![w] = mFlaggedForUnregistration[w]]
  /\ newState' = [newState EXCEPT ![w] = "Ready"]
  /\ Goto(w, "check")
  /\ UNCHANGED <<mFlaggedForUnregistration, assignVars, listVars,
                 mLastDispatchIndex, recordVars, scanVars, held, aborting, answer>>

-----------------------------------------------------------------------------
(* Starting, stopping and questioning.  The code asserts that dispatching   *)
(* is off, on and off, respectively, so one client does all three.          *)

StartDispatching ==
  /\ pc[Control] = "idle"
  /\ ~mDispatchingPermitted
  /\ mDispatchingPermitted' = TRUE
  /\ answer' = "none"
  /\ Goto(Control, "check")
  /\ UNCHANGED <<flagVars, assignVars, mWorkers, mPools, mLastDispatchIndex,
                 recordVars, scanVars, handVars>>

StopDispatching(blockUntilWorkersIdle) ==
  /\ pc[Control] = "idle"
  /\ mDispatchingPermitted
  /\ mDispatchingPermitted' = FALSE
  /\ IF blockUntilWorkersIdle THEN Goto(Control, "poll") ELSE UNCHANGED pc
  /\ UNCHANGED <<flagVars, assignVars, mWorkers, mPools, mLastDispatchIndex,
                 recordVars, scanVars, handVars, answer>>

AllTasksAreCurrentlyCompleted ==
  /\ pc[Control] = "idle"
  /\ ~mDispatchingPermitted
  /\ Goto(Control, "ask")
  /\ answer' = "none"
  /\ UNCHANGED <<flagVars, assignVars, listVars, mLastDispatchIndex, recordVars,
                 scanVars, handVars>>

\* AreAllWorkersIdle looks at one worker after the other.  It may find all of
\* them idle: a blocking stop returns, a question goes on to the pools ...
SeeIdleWorker(w) ==
  /\ pc[Control] \in {"poll", "ask"}
  /\ IsFirst(w, LaterWorkers(Control)) /\ ~mFlaggedAsActive[w]
  /\ worker' = [worker EXCEPT ![Control] = w]
  /\ UNCHANGED <<flagVars, assignVars, listVars, mLastDispatchIndex, recordVars,
                 pc, prio, index, left, pool, cursor, handVars, answer>>

SeeAllIdle ==
  /\ pc[Control] \in {"poll", "ask"}
  /\ LaterWorkers(Control) = {}
  /\ worker' = [worker EXCEPT ![Control] = NoWorker]
  /\ Goto(Control, IF pc[Control] = "poll" THEN "idle" ELSE "nextPool")
  /\ answer' = IF pc[Control] = "poll" THEN "stopped" ELSE answer
  /\ UNCHANGED <<flagVars, assignVars, listVars, mLastDispatchIndex, recordVars,
                 prio, index, left, pool, cursor, handVars>>

\* ... or one that is active: a blocking stop starts over, a question is answered.
SeeActiveWorker(w) ==
  /\ pc[Control] \in {"poll", "ask"}
  /\ IsFirst(w, LaterWorkers(Control)) /\ mFlaggedAsActive[w]
  /\ worker' = [worker EXCEPT ![Control] = NoWorker]
  /\ Goto(Control, IF pc[Control] = "poll" THEN "poll" ELSE "idle")
  /\ answer' = IF pc[Control] = "poll" THEN answer ELSE "incomplete"
  /\ UNCHANGED <<flagVars, assignVars, listVars, mLastDispatchIndex, recordVars,
                 prio, index, left, pool, cursor, handVars>>

AreAllWorkersIdle ==
  SeeAllIdle \/ \E w \in Workers : SeeIdleWorker(w) \/ SeeActiveWorker(w)

\* A peek gives the task back at once, and answers that not all is complete.
ReturnPeeked(t) ==
  /\ pc[t] = "unpeek"
  /\ mBlocked' = [mBlocked EXCEPT ![held[t]] = FALSE]
  /\ held' = [held EXCEPT ![t] = kInvalidTaskID]
  /\ pool' = [pool EXCEPT ![t] = NoPool]
  /\ prio' = [prio EXCEPT ![t] = 0]
  /\ index' = [index EXCEPT ![t] = 0]
  /\ left' = [left EXCEPT ![t] = 0]
  /\ answer' = "incomplete"
  /\ Goto(t, "idle")
  /\ UNCHANGED <<flagVars, assignVars, listVars, mLastDispatchIndex, mTaskRecords,
                 mAbortPending, nextID, worker, cursor, aborting, newState>>

-----------------------------------------------------------------------------

\* What a client calls when it is free to.
Call(t) ==
  \/ \E w \in Workers : RegisterWorker(t, w) \/ UnregisterWorker(t, w)
  \/ \E p \in Pools : \/ RegisterPool(t, p)
                      \/ AddTask(t, p)
                      \/ AttemptAbortAllTasks(t, p)
                      \/ \E i \in TaskIDs : AttemptAbortTask(t, p, i)

Direct == \/ StartDispatching
          \/ \E block \in BOOLEAN : StopDispatching(block)
          \/ AllTasksAreCurrentlyCompleted

\* A thread going on with a call it is in.
Proceed(t) ==
  \/ OnTasksNewlyAvailable(t)
  \/ \E i \in TaskIDs : BlockToAbort(t, i) \/ VisitRecord(t, i)
  \/ MarkAbortPending(t) \/ RemoveAborted(t) \/ FailToLocate(t) \/ AbortDone(t)
  \/ CheckPermitted(t) \/ NoFurtherWorker(t)
  \/ \E w \in Workers : FlagNextWorker(t, w)
  \/ EnterBlock(t) \/ EnterPool(t) \/ LeaveBlocks(t)
  \/ NoFurtherRecord(t) \/ TakeRecord(t)
  \/ GiveTask(t) \/ UndoFlag(t)
  \/ ReturnPeeked(t)

Work(w) ==
  \/ PullWork(w)
  \/ \E state \in TaskStates : StepReturns(w, state)
  \/ ClearAssignment(w) \/ ReturnAndUnblockTask(w) \/ RemoveBlockedTask(w)
  \/ ReleaseWorker(w)

Next ==
  \/ \E t \in Clients : Call(t)
  \/ Direct
  \/ \E t \in Threads : Proceed(t)
  \/ AreAllWorkersIdle
  \/ \E w \in Workers : Work(w)

Spec == Init /\ [][Next]_vars

\* The operating system runs every thread: a thread in a call goes on, a worker's
\* thread (StandardTaskScheduler loops over ExecuteUntilStarved) pulls its work,
\* and a task that is stepped again and again terminates in the end.
Fairness ==
  /\ \A t \in Threads : WF_vars(Proceed(t))
  /\ \A w \in Workers : WF_vars(Work(w)) /\ SF_vars(StepReturns(w, "Terminate"))
  /\ WF_vars(AreAllWorkersIdle)

FairSpec == Spec /\ Fairness

-----------------------------------------------------------------------------
(* Properties.                                                             *)

\* The tasks in the hands of worker w: pushed to it, being stepped, or stepped
\* and not yet given back.
Flighted(w) ==
  {mPendingWork[w][k] : k \in DOMAIN mPendingWork[w]} \cup
  (IF pc[w] \in {"step", "clear", "settle"} THEN {held[w]} ELSE {})

\* The threads dispatching to worker w, between flagging it and giving it a task
\* or undoing the flag.
Dispatchers(w) == {t \in Threads : /\ worker[t] = w
                                   /\ pc[t] \in {"nextPool", "visit", "take",
                                                 "give", "undo"}}

\* The threads that answer for the block on their task: they will hand the task
\* over, unblock it or remove it.
Holding(t) == pc[t] \in {"give", "step", "clear", "settle", "erase", "unpeek"}

Labels == {"idle", "notify", "abort", "pend", "erase", "missing", "check", "flag",
           "nextPool", "visit", "take", "give", "undo", "step", "clear", "settle",
           "release", "poll", "ask", "unpeek"}

SchedulerTypeOK ==
  /\ mDispatchingPermitted \in BOOLEAN
  /\ mWorkers \subseteq Workers
  /\ mFlaggedAsActive \in [Workers -> BOOLEAN]
  /\ mFlaggedForUnregistration \in [Workers -> BOOLEAN]
  /\ mActiveTaskID \in [Workers -> TaskIDs \cup {kInvalidTaskID}]
  /\ mActivePool \in [Workers -> Pools \cup {NoPool}]
  /\ mPendingWork \in [Workers -> Seq(TaskIDs)]
  /\ mPools \in [Priorities -> Seq(Pools)]
  /\ mLastDispatchIndex \in [Priorities -> Nat]

PoolTypeOK ==
  /\ mTaskRecords \in [Pools -> SUBSET TaskIDs]
  /\ mBlocked \in [TaskIDs -> BOOLEAN]
  /\ mAbortPending \in [TaskIDs -> BOOLEAN]
  /\ nextID \in 1 .. MaxTasks + 1

ThreadTypeOK ==
  /\ pc \in [Threads -> Labels]
  /\ worker \in [Threads -> Workers \cup {NoWorker}]
  /\ prio \in [Threads -> Priorities \cup {0}]
  /\ index \in [Threads -> Nat]
  /\ left \in [Threads -> Nat]
  /\ pool \in [Threads -> Pools \cup {NoPool}]
  /\ cursor \in [Threads -> TaskIDs \cup {0}]
  /\ held \in [Threads -> TaskIDs \cup {kInvalidTaskID}]
  /\ aborting \in [Threads -> SUBSET TaskIDs]
  /\ newState \in [Threads -> TaskStates]
  /\ answer \in {"none", "stopped", "incomplete", "complete"}

\* Every variable has its type.
TypeOK == SchedulerTypeOK /\ PoolTypeOK /\ ThreadTypeOK

\* A task is in the hands of one worker at a time, and a worker has one task at a
\* time: Task::Step() is never entered by two threads, although any number of
\* threads dispatch at once.
ExclusiveExecution ==
  /\ \A v, w \in Workers : v # w => Flighted(v) \cap Flighted(w) = {}
  /\ \A w \in Workers : /\ Len(mPendingWork[w]) <= 1
                        /\ pc[w] \in {"step", "clear", "settle"} =>
                             mPendingWork[w] = << >>

\* The memory of a task in a worker's hands is alive: its record is still in the
\* pool, blocked, whatever is aborted meanwhile (TaskPool.h: a flighted task must
\* not be removed, "since the memory is potentially in use and being run").
FlightedTaskLives ==
  \A w \in Workers : \A i \in Flighted(w) :
    mBlocked[i] /\ \E p \in Pools : i \in mTaskRecords[p]

\* What AreAllWorkersIdle reads off the active flag is true: a worker whose flag
\* is down has no task, nor is any thread about to give it one.
IdleWorkerHasNoWork ==
  \A w \in Workers : ~mFlaggedAsActive[w] =>
    Flighted(w) = {} /\ Dispatchers(w) = {}

\* The assertions of OnWorkComplete, AttemptDispatch, ReturnAndUnblockTask and
\* RemoveBlockedTask: a registration has no task while one is looked for, names
\* the task its worker is stepping, and a task that is given back or removed is
\* blocked and in the pool.
AssertionsHold ==
  /\ \A w \in Workers :
       /\ Dispatchers(w) # {} => /\ mFlaggedAsActive[w]
                                 /\ mActiveTaskID[w] = kInvalidTaskID
                                 /\ mActivePool[w] = NoPool
       /\ pc[w] \in {"step", "clear"} => /\ mFlaggedAsActive[w]
                                         /\ w \in mWorkers
                                         /\ mActiveTaskID[w] = held[w]
  /\ \A t \in Threads : pc[t] \in {"settle", "erase", "unpeek"} =>
       mBlocked[held[t]] /\ held[t] \in mTaskRecords[pool[t]]

\* A block is never left behind: as long as a record is blocked, some thread or
\* some worker's pending work answers for it.  (A block nobody answers for would
\* keep the task from ever being fetched or removed.)
NoBlockLeftBehind ==
  \A p \in Pools : \A i \in mTaskRecords[p] : mBlocked[i] =>
    \/ \E t \in Threads : Holding(t) /\ held[t] = i
    \/ \E w \in Workers : i \in Flighted(w)

\* Once UnregisterWorker has returned, the worker is given no further task.
LeavingWorkerGetsNothing ==
  [][\A w \in Workers : mFlaggedForUnregistration[w] =>
       Len(mPendingWork'[w]) <= Len(mPendingWork[w])]_vars

-----------------------------------------------------------------------------
(* The inductive invariant behind the properties above.                    *)

\* Which labels a thread can be at, and what a thread at a label has in hand.
HandsFit(t) ==
  /\ pc[t] \in {"notify", "abort", "pend", "erase", "missing", "visit", "take",
                "give", "unpeek"} => pool[t] \in Pools
  /\ pc[t] \in {"pend", "erase", "missing", "give"} => held[t] \in TaskIDs
  /\ pc[t] \in {"give", "undo"} => worker[t] # NoWorker
  /\ pc[t] \in {"nextPool", "visit", "take"} /\ t \in Workers => worker[t] # NoWorker
  /\ pc[t] = "take" => cursor[t] \in mTaskRecords[pool[t]]
  /\ pc[t] \in {"visit", "take", "give", "unpeek"} => left[t] > 0
  /\ pc[t] = "unpeek" => worker[t] = NoWorker
  /\ left[t] > 0 => prio[t] \in Priorities /\ index[t] < Len(mPools[prio[t]])

ThreadShape ==
  /\ \A t \in Clients : pc[t] \notin {"step", "clear", "settle", "release"}
  /\ \A w \in Workers : pc[w] \notin {"poll", "ask", "unpeek"}
  /\ \A t \in Threads : HandsFit(t)

\* The active flag is owned by one party: a thread that dispatches to the worker,
\* the pending work it was given, the worker's own thread - or nobody again, once
\* the worker was to leave.
Dispatching(t) == /\ pc[t] \in {"nextPool", "visit", "take", "give", "undo"}
                  /\ worker[t] # NoWorker

Running(w) == pc[w] \in {"step", "clear", "settle", "release"}

Unassigned(w) == /\ mActiveTaskID[w] = kInvalidTaskID
                 /\ mActivePool[w] = NoPool
                 /\ mPendingWork[w] = << >>

DispatcherOwns(t) == Dispatching(t) =>
  /\ worker[t] \in mWorkers
  /\ mFlaggedAsActive[worker[t]]
  /\ ~mFlaggedForUnregistration[worker[t]]
  /\ Unassigned(worker[t])
  /\ ~Running(worker[t])

AssignmentFits(w) ==
  /\ Running(w) \/ mPendingWork[w] # << >> => mFlaggedAsActive[w] /\ w \in mWorkers
  /\ mPendingWork[w] # << >> => ~Running(w) /\ mPendingWork[w] = <<mActiveTaskID[w]>>
  /\ pc[w] \in {"step", "clear"} => mPendingWork[w] = << >> /\ mActiveTaskID[w] = held[w]
  /\ pc[w] \in {"settle", "release"} => Unassigned(w)
  /\ ~mFlaggedAsActive[w] => Unassigned(w)

OneOwnerPerWorker ==
  /\ \A t \in Threads : DispatcherOwns(t)
  /\ \A s, t \in Threads :
       s # t /\ Dispatching(s) /\ Dispatching(t) => worker[s] # worker[t]
  /\ \A w \in Workers : AssignmentFits(w)

\* A block is answered for by one party: a thread, or the worker whose pending
\* work the task is.
PoolOfHeld(t) == IF pc[t] \in {"step", "clear"} THEN mActivePool[t] ELSE pool[t]

HoldFits(t) == Holding(t) =>
  /\ held[t] \in TaskIDs
  /\ PoolOfHeld(t) \in Pools
  /\ held[t] \in mTaskRecords[PoolOfHeld(t)]
  /\ mBlocked[held[t]]

PendingFits(w) == mPendingWork[w] # << >> =>
  /\ mActiveTaskID[w] \in TaskIDs
  /\ mActivePool[w] \in Pools
  /\ mActiveTaskID[w] \in mTaskRecords[mActivePool[w]]
  /\ mBlocked[mActiveTaskID[w]]
  /\ \A t \in Threads : Holding(t) => held[t] # mActiveTaskID[w]
  /\ \A v \in Workers :
       v # w /\ mPendingWork[v] # << >> => mActiveTaskID[v] # mActiveTaskID[w]

OneOwnerPerBlock ==
  /\ \A t \in Threads : HoldFits(t)
  /\ \A s, t \in Threads :
       s # t /\ Holding(s) /\ Holding(t) => held[s] # held[t]
  /\ \A w \in Workers : PendingFits(w)

\* A task has one record, and its id was generated; only such a task is blocked.
OneRecordPerTask ==
  /\ \A p \in Pools : \A i \in mTaskRecords[p] :
       i < nextID /\ \A q \in Pools \ {p} : i \notin mTaskRecords[q]
  /\ \A i \in TaskIDs : mBlocked[i] => i < nextID

\* Somebody answers for the block on task i.
Answered(i) ==
  \/ \E t \in Threads : Holding(t) /\ held[t] = i
  \/ \E w \in Workers : mPendingWork[w] # << >> /\ mActiveTaskID[w] = i

BlocksAnswered ==
  \A p \in Pools : \A i \in mTaskRecords[p] : mBlocked[i] => Answered(i)

IInv == /\ TypeOK /\ ThreadShape /\ OneOwnerPerWorker /\ OneOwnerPerBlock
        /\ OneRecordPerTask /\ BlocksAnswered

-----------------------------------------------------------------------------
(* Usages of the scheduler.                                                *)

\* Nothing is aborted.
NoAbortNext == Next /\ (\A t \in Threads : pc'[t] # "abort")

\* As the tests do: workers, pools and tasks are all in place before dispatching
\* starts, no worker is told to leave while it goes on, and nothing is aborted.
Resting == \A w \in Workers : pc[w] = "idle" /\ ~mFlaggedAsActive[w]

PreparedNext ==
  /\ NoAbortNext
  /\ mDispatchingPermitted =>
       /\ nextID' = nextID /\ mWorkers' = mWorkers /\ mPools' = mPools
       /\ mFlaggedForUnregistration' = mFlaggedForUnregistration
  /\ ~mDispatchingPermitted /\ ~Resting =>
       nextID' = nextID /\ ~mDispatchingPermitted'

Prepared == Init /\ [][PreparedNext]_vars
PreparedSpec == Prepared /\ Fairness

\* The same, with dispatching left on, and with tasks that may go on forever.
DispatchingNext == PreparedNext /\ (mDispatchingPermitted => mDispatchingPermitted')

Dispatched == Init /\ [][DispatchingNext]_vars

\* StandardTaskScheduler registers one pool of its own in each priority block.
OnePoolPerBlock == \A p, q \in Pools : PriorityOf[p] = PriorityOf[q] => p = q

-----------------------------------------------------------------------------
(* Why no task is left waiting when the scheduler is prepared so.  A thread  *)
(* that looks for a task passes those that are blocked, and one of them may  *)
(* be given back behind it: its worker is then idle although there is a     *)
(* task.  But whoever gives a task back has a worker to serve, which no      *)
(* search has passed by yet; there are always as many of these as tasks     *)
(* that were missed.                                                        *)

\* Thread t will come to worker v in its loop over the workers.
ComesTo(t, v) ==
  \/ pc[t] \in {"release", "check"}
  \/ /\ pc[t] = "flag" \/ Dispatching(t)
     /\ worker[t] < v

SweepAhead(v) == \E t \in Threads : ComesTo(t, v)

\* Thread t looks for a task for worker[t], and is past record i of pool p.
Scanning(t) == Dispatching(t) /\ pc[t] # "give"

Passed(t, p, i) ==
  \/ pc[t] = "undo"
  \/ PriorityOf[p] < prio[t]
  \/ /\ PriorityOf[p] = prio[t]
     /\ \/ pc[t] = "nextPool" /\ left[t] = 0
        \/ pc[t] = "visit" /\ i <= cursor[t]
        \/ pc[t] = "take" /\ i < cursor[t]

\* Worker v is without a task, and will not be offered this one ...
Behind(v, p, i) ==
  \/ ~mFlaggedAsActive[v] /\ ~SweepAhead(v)
  \/ \E t \in Threads : Scanning(t) /\ worker[t] = v /\ Passed(t, p, i)

\* ... or will be offered it.
Ahead(v, p, i) ==
  \/ pc[v] = "release"
  \/ ~mFlaggedAsActive[v] /\ SweepAhead(v)
  \/ \E t \in Threads : Scanning(t) /\ worker[t] = v /\ ~Passed(t, p, i)

Waiting(p, i) == IsRegistered(p) /\ i \in mTaskRecords[p] /\ ~mBlocked[i]

Missed(v) == {i \in TaskIDs : \E p \in Pools : Waiting(p, i) /\ Behind(v, p, i)}

Reserve(v) == {w \in mWorkers : \E p \in Pools : \E i \in TaskIDs :
                 Waiting(p, i) /\ Behind(v, p, i) /\ Ahead(w, p, i)}

MissedAreReserved ==
  mDispatchingPermitted =>
    \A v \in mWorkers : Cardinality(Missed(v)) <= Cardinality(Reserve(v))

\* Nothing was aborted.
NothingAborted ==
  /\ \A i \in TaskIDs : ~mAbortPending[i]
  /\ \A t \in Threads : pc[t] \notin {"abort", "pend", "erase", "missing"}

\* What a thread has in hand of its search, at the labels where it matters.
ScanFits(t) ==
  /\ pc[t] \in {"idle", "notify", "check", "step", "clear", "settle", "release"} =>
       worker[t] = NoWorker
  /\ pc[t] \notin {"nextPool", "visit", "take", "give", "unpeek"} =>
       prio[t] = 0 /\ left[t] = 0
  /\ pc[t] \notin {"visit", "take"} => cursor[t] = 0
  /\ left[t] > 0 => left[t] <= Len(mPools[prio[t]])
  /\ pc[t] \in {"visit", "take"} => pool[t] = mPools[prio[t]][index[t] + 1]

\* A question to the scheduler, and a blocking stop, find dispatching off.
Asking(t) == \/ pc[t] \in {"poll", "ask"}
             \/ /\ pc[t] \in {"nextPool", "visit", "take", "unpeek"}
                /\ worker[t] = NoWorker

AsksWhileStopped ==
  \A t \in Threads : Asking(t) => t = Control /\ ~mDispatchingPermitted

\* A worker that is to leave stays active, and none is while dispatching is on.
LeavingFits ==
  \A w \in mWorkers : mFlaggedForUnregistration[w] =>
    mFlaggedAsActive[w] /\ ~mDispatchingPermitted

BlocksFit == \A b \in Priorities :
  /\ Len(mPools[b]) <= 1
  /\ \A k \in DOMAIN mPools[b] : PriorityOf[mPools[b][k]] = b

PreparedShape == /\ NothingAborted /\ (\A t \in Threads : ScanFits(t))
                 /\ AsksWhileStopped /\ LeavingFits /\ BlocksFit

PreparedInv == IInv /\ PreparedShape /\ MissedAreReserved

-----------------------------------------------------------------------------
(* Why priorities are kept when there is one worker and dispatching is left *)
(* on: while the worker is being served no task can be given back, so what  *)
(* the search has passed is still blocked when it hands over what it took.  *)

OnlyOneWorker == \A v, w \in Workers : v = w

\* Pool k of the block is one the search has yet to come to, or the one it is in.
ToVisit(t, k) ==
  /\ left[t] > 0
  /\ \/ index[t] < k /\ k <= index[t] + left[t]
     \/ k + Len(mPools[prio[t]]) <= index[t] + left[t]

AllBlocked(p) == \A i \in mTaskRecords[p] : mBlocked[i]

PassedAreBlocked(t) == Dispatching(t) /\ pc[t] # "undo" =>
  /\ \A b \in Priorities : b < prio[t] =>
       \A k \in DOMAIN mPools[b] : AllBlocked(mPools[b][k])
  /\ prio[t] # 0 /\ pc[t] # "give" =>
       \A k \in DOMAIN mPools[prio[t]] :
         ToVisit(t, k) \/ AllBlocked(mPools[prio[t]][k])
  /\ pc[t] \in {"visit", "take"} =>
       \A i \in mTaskRecords[pool[t]] :
         i < cursor[t] \/ (i = cursor[t] /\ pc[t] = "visit") => mBlocked[i]

StaysOn == \A t \in Threads : pc[t] = "flag" \/ Dispatching(t) => mDispatchingPermitted

OrderInv == /\ IInv /\ NothingAborted /\ (\A t \in Threads : ScanFits(t))
            /\ AsksWhileStopped /\ StaysOn
            /\ \A t \in Threads : PassedAreBlocked(t)

-----------------------------------------------------------------------------
(* Promises of the scheduler's documentation, and its progress.            *)

\* No thread is in a call of the scheduler; some may be inside a task's Step().
Quiescent == \A t \in Threads : pc[t] \in {"idle", "step"}

Available(i) == ~mBlocked[i] /\ ~mAbortPending[i]
              /\ \E p \in Pools : IsRegistered(p) /\ i \in mTaskRecords[p]

\* Nothing is forgotten: when all calls have come back and dispatching is on, a
\* task that could be fetched does not wait beside a worker that is idle.
NoTaskLeftWaiting ==
  Quiescent /\ mDispatchingPermitted =>
    \/ \A i \in TaskIDs : ~Available(i)
    \/ \A w \in mWorkers : mFlaggedAsActive[w]

\* Every task in a registered pool is stepped to its end and removed, as long as
\* dispatching stays on.
TasksDrain ==
  \A p \in Pools : \A i \in TaskIDs :
    i \in mTaskRecords[p] /\ IsRegistered(p) /\ mWorkers # {} /\ mDispatchingPermitted
      ~> i \notin mTaskRecords[p] \/ ~mDispatchingPermitted

\* "Pools with higher priority will have their tasks dispatched first": a task is
\* given only when no pool of an earlier block has one that could be fetched.
HigherPriorityFirst ==
  [][\A t \in Threads : pc[t] = "give" /\ pc'[t] = "flag" =>
       \A p \in Pools : IsRegistered(p) /\ PriorityOf[p] < prio[t] =>
         \A i \in mTaskRecords[p] : mBlocked[i]]_vars

\* "Pools with the same priority will have more balanced dispatching": a pool with
\* a task gets its turn, however long the tasks of the other pools of its block go
\* on, unless the earlier blocks have tasks.
PoolsTakeTurns ==
  \A p \in Pools :
    /\ mDispatchingPermitted /\ mWorkers # {}
    /\ IsRegistered(p) /\ mTaskRecords[p] # {}
    ~> \/ ~mDispatchingPermitted \/ mTaskRecords[p] = {}
       \/ \E w \in Workers : mActivePool[w] = p
       \/ \E q \in Pools : PriorityOf[q] < PriorityOf[p] /\ mTaskRecords[q] # {}

\* A blocking StopDispatching returns.
StopReturns == pc[Control] = "poll" ~> pc[Control] = "idle"

-----------------------------------------------------------------------------
(* What comments and assertions of the code say and the code does not keep. *)
(* No run checks these; section 6 of the README tells what happens.         *)

\* A blocking StopDispatching has returned and dispatching was not started again:
\* no worker is active.
StoppedMeansIdle ==
  answer = "stopped" => \A w \in mWorkers : ~mFlaggedAsActive[w]

\* No abort looks for a task that is not there (RF_DBGFAIL in RemoveBlockedTask).
AbortLocatesTask == \A t \in Threads : pc[t] # "missing"

\* A task marked for abortion while it was flighted leaves the pool in the end.
AbortedTaskLeaves ==
  \A i \in TaskIDs : mAbortPending[i] ~> \A p \in Pools : i \notin mTaskRecords[p]

=============================================================================
