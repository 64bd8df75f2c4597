-------------------------------- MODULE WorkPump --------------------------------
(***************************************************************************)
(* A thread that works through a queue: thread::SequentialWorkPump on top   *)
(* of thread::AsyncThread and thread::ThreadSignal.  Users on any thread    *)
(* start and stop it, add items and initialise it again.  A user's call is  *)
(* cut where it holds no lock or waits; a worker's loop at every look at    *)
(* state that others change.  The pump's Init exchanges the work callback   *)
(* under no lock: that races with a thread that calls it, and may end the   *)
(* process.                                                                *)
(***************************************************************************)
EXTENDS Naturals, Sequences

CONSTANTS
    Users,              \* threads that call the pump
    Threads,            \* threads a start may create; a joined one is used again
    Items,              \* work items, each added at most once
    Works,              \* what Init may be given: a prep and a work callback
    NoUser, NoThread, NoItem,
    NoWork              \* a work callback that is being assigned

ASSUME PumpAssumption ==
    /\ NoUser \notin Users
    /\ NoThread \notin Threads
    /\ NoItem \notin Items
    /\ Works # {} /\ NoWork \notin Works

VARIABLES
    work,               \* the pump's mWork
    callbacks,          \* the AsyncThread's mPrep, mWork and mWorkCondition
    owner,              \* who holds mThreadMutex as a writer over several steps
    thread,             \* mThread: the thread it can join
    runFlag,            \* mRunFlag
    at,                 \* where each created thread is in WorkThread
    held,               \* the item each thread has popped and works on
    items,              \* mWorkItems
    pc,                 \* where each user is
    done                \* (history) the items worked on, in order

vars == <<work, callbacks, owner, thread, runFlag, at, held, items, pc, done>>
controls == <<work, callbacks, owner, thread, runFlag>>

Started == thread # NoThread

\* The reader lock on mCallbacksMutex is held for a thread's entire life
ReadsCallbacks == {t \in Threads : at[t] \notin {"none", "created", "ended", "gone"}}

\* A thread is inside the pump's mWork, or about to call it
CallsWork == {t \in Threads : at[t] = "execute"}

InQueue(i) == \E k \in DOMAIN items : items[k] = i

Finished(i) == \E k \in DOMAIN done : done[k] = i

Added(i) == InQueue(i) \/ Finished(i) \/ \E t \in Threads : held[t] = i

Init ==
    /\ work \in Works
    /\ callbacks \in Works
    /\ owner = NoUser
    /\ thread = NoThread
    /\ runFlag = FALSE
    /\ at = [t \in Threads |-> "none"]
    /\ held = [t \in Threads |-> NoItem]
    /\ items = <<>>
    /\ pc = [u \in Users |-> "out"]
    /\ done = <<>>

\* notify_all: nobody hears of it who does not wait yet
Signal == at' = [t \in Threads |-> IF at[t] = "wait" THEN "check" ELSE at[t]]

\* The process is gone, with every thread in it
Crash ==
    /\ at' = [t \in Threads |-> IF at[t] = "none" THEN "none" ELSE "gone"]
    /\ pc' = [u \in Users |-> "gone"]
    /\ UNCHANGED <<controls, held, items, done>>

Crashed == (\E t \in Threads : at[t] = "gone") \/ (\E u \in Users : pc[u] = "gone")

------------------------------------------------------------------------------
(* Users *)

\* SequentialWorkPump::Init takes the old callback out of mWork, whoever calls or assigns
\* it just then
TakeWork(u) ==
    /\ pc[u] = "out"
    /\ \/ /\ work' = NoWork
          /\ pc' = [pc EXCEPT ![u] = "assign"]
          /\ UNCHANGED <<callbacks, owner, thread, runFlag, at, held, items, done>>
       \/ /\ CallsWork # {} \/ \E v \in Users : pc[v] = "assign"
          /\ Crash

AssignWork(u) ==
    /\ pc[u] = "assign"
    /\ work' \in Works
    /\ pc' = [pc EXCEPT ![u] = "look"]
    /\ UNCHANGED <<callbacks, owner, thread, runFlag, at, held, items, done>>

\* AsyncThread::Init looks whether it is started, and forgets what it saw
LookAtThread(u) ==
    /\ pc[u] = "look"
    /\ owner = NoUser
    /\ pc' = [pc EXCEPT ![u] = IF Started THEN "out" ELSE "init"]
    /\ UNCHANGED <<controls, at, held, items, done>>

\* A mutant of SetCallbacks that does not take the lock.
SetCallbacksUnlocked(u) ==
    /\ pc[u] = "init"
    /\ callbacks' \in Works
    /\ pc' = [pc EXCEPT ![u] = "out"]
    /\ UNCHANGED <<work, owner, thread, runFlag, at, held, items, done>>

SetCallbacks(u) ==
    /\ pc[u] = "init"
    /\ ReadsCallbacks = {}
    /\ callbacks' \in Works
    /\ pc' = [pc EXCEPT ![u] = "out"]
    /\ UNCHANGED <<work, owner, thread, runFlag, at, held, items, done>>

Start(u) ==
    /\ pc[u] = "out"
    /\ owner = NoUser /\ ~Started
    /\ runFlag' = TRUE
    /\ \E t \in Threads : /\ at[t] = "none"
                          /\ thread' = t
                          /\ at' = [at EXCEPT ![t] = "created"]
    /\ UNCHANGED <<work, callbacks, owner, held, items, pc, done>>

\* A mutant of Stop that leaves the flag up.
StopWithoutFlag(u) ==
    /\ pc[u] = "out"
    /\ owner = NoUser /\ Started
    /\ owner' = u
    /\ pc' = [pc EXCEPT ![u] = "stopWake"]
    /\ UNCHANGED <<work, callbacks, thread, runFlag, at, held, items, done>>

Stop(u) ==
    /\ pc[u] = "out"
    /\ owner = NoUser /\ Started
    /\ owner' = u
    /\ runFlag' = FALSE
    /\ pc' = [pc EXCEPT ![u] = "stopWake"]
    /\ UNCHANGED <<work, callbacks, thread, at, held, items, done>>

StopWake(u) ==
    /\ pc[u] = "stopWake"
    /\ Signal
    /\ pc' = [pc EXCEPT ![u] = "join"]
    /\ UNCHANGED <<controls, held, items, done>>

\* A mutant of Join that detaches the thread.
Detach(u) ==
    /\ pc[u] = "join"
    /\ thread' = NoThread
    /\ owner' = NoUser
    /\ pc' = [pc EXCEPT ![u] = "out"]
    /\ UNCHANGED <<work, callbacks, runFlag, at, held, items, done>>

Join(u) ==
    /\ pc[u] = "join"
    /\ at[thread] = "ended"
    /\ at' = [at EXCEPT ![thread] = "none"]
    /\ thread' = NoThread
    /\ owner' = NoUser
    /\ pc' = [pc EXCEPT ![u] = "out"]
    /\ UNCHANGED <<work, callbacks, runFlag, held, items, done>>

AddWorkItem(u, i) ==
    /\ pc[u] = "out"
    /\ ~Added(i)
    /\ items' = Append(items, i)
    /\ pc' = [pc EXCEPT ![u] = "wake"]
    /\ UNCHANGED <<controls, at, held, done>>

Wake(u) ==
    /\ pc[u] = "wake"
    /\ Signal
    /\ pc' = [pc EXCEPT ![u] = "out"]
    /\ UNCHANGED <<controls, held, items, done>>

------------------------------------------------------------------------------
(* The thread *)

Goto(t, label) == at' = [at EXCEPT ![t] = label]

LockCallbacks(t) ==
    /\ at[t] = "created"
    /\ Goto(t, "check")
    /\ UNCHANGED <<controls, held, items, pc, done>>

ShouldForceTerminate(t) ==
    /\ at[t] = "check"
    /\ Goto(t, IF runFlag THEN "condition" ELSE "ended")
    /\ UNCHANGED <<controls, held, items, pc, done>>

HasWork(t) ==
    /\ at[t] = "condition"
    /\ Goto(t, IF items = <<>> THEN "batchDone" ELSE "pop")
    /\ UNCHANGED <<controls, held, items, pc, done>>

\* front() and pop_front(), without another look whether there is an item
Pop(t) ==
    /\ at[t] = "pop"
    /\ items # <<>>
    /\ held' = [held EXCEPT ![t] = Head(items)]
    /\ items' = Tail(items)
    /\ Goto(t, "execute")
    /\ UNCHANGED <<controls, pc, done>>

\* A callback that is being assigned does the old work, the new, or crashes
Execute(t) ==
    /\ at[t] = "execute"
    /\ \/ /\ done' = Append(done, held[t])
          /\ held' = [held EXCEPT ![t] = NoItem]
          /\ Goto(t, "check")
          /\ UNCHANGED <<controls, items, pc>>
       \/ work = NoWork /\ Crash

WaitForWake(t) ==
    /\ at[t] = "batchDone"
    /\ Goto(t, "wait")
    /\ UNCHANGED <<controls, held, items, pc, done>>

\* A mutant of SafetyWakeup that waits again without looking for work.
WaitAgain(t) == at[t] = "wait" /\ UNCHANGED vars

\* mSafetyWakeupInterval is over, or the wait ends for no reason
SafetyWakeup(t) ==
    /\ at[t] = "wait"
    /\ Goto(t, "check")
    /\ UNCHANGED <<controls, held, items, pc, done>>

WorkThread(t) ==
    \/ LockCallbacks(t)
    \/ ShouldForceTerminate(t)
    \/ HasWork(t)
    \/ Pop(t)
    \/ Execute(t)
    \/ WaitForWake(t)

------------------------------------------------------------------------------
Next ==
    \/ \E u \in Users :
        \/ TakeWork(u)
        \/ AssignWork(u)
        \/ LookAtThread(u)
        \/ SetCallbacks(u)
        \/ Start(u)
        \/ Stop(u)
        \/ StopWake(u)
        \/ Join(u)
        \/ \E i \in Items : AddWorkItem(u, i)
        \/ Wake(u)
    \/ \E t \in Threads : WorkThread(t) \/ SafetyWakeup(t)
    \/ Crashed /\ UNCHANGED vars

\* Threads run, a call that can go on does so, and a timed wait ends
Fairness ==
    /\ \A t \in Threads : WF_vars(WorkThread(t)) /\ WF_vars(SafetyWakeup(t))
    /\ \A u \in Users : WF_vars(StopWake(u)) /\ WF_vars(Join(u)) /\ WF_vars(Wake(u))

Spec == Init /\ [][Next]_vars

FairSpec == Spec /\ Fairness

------------------------------------------------------------------------------
(* Properties *)

Places == {"none", "created", "check", "condition", "pop", "execute", "batchDone", "wait", "ended",
           "gone"}

TypeOK ==
    /\ work \in Works \cup {NoWork}
    /\ callbacks \in Works
    /\ owner \in Users \cup {NoUser}
    /\ thread \in Threads \cup {NoThread}
    /\ runFlag \in BOOLEAN
    /\ at \in [Threads -> Places]
    /\ held \in [Threads -> Items \cup {NoItem}]
    /\ items \in Seq(Items)
    /\ pc \in [Users -> {"out", "assign", "look", "init", "stopWake", "join", "wake", "gone"}]
    /\ done \in Seq(Items)

(* DoWork pops without a second look at the queue (SequentialWorkPump.inl:99): *)
(* between HasWork and the pop nobody takes the item away, over any number of  *)
(* stops and starts by any threads.  ImplementsQueue says so too, so that no    *)
(* run checks this by itself; it is proved in WorkPumpProofs.                   *)
NeverPopsNothing == \A t \in Threads : at[t] = "pop" => items # <<>>

(* An AsyncThread's own callbacks are not exchanged under its thread, although  *)
(* its Init checks that it is stopped and only then takes the lock, and another  *)
(* thread may start it in between: "Callback changes are locked for the entire   *)
(* lifetime of the thread" (AsyncThread.cpp:26-44, 129).                         *)
CallbacksStay == [][ReadsCallbacks # {} => callbacks' = callbacks]_vars

(* The pump's callback has no such lock: this one does not hold.  Init assigns   *)
(* mWork before AsyncThread::Init says "Cannot init while already active"        *)
(* (SequentialWorkPump.inl:26-27, AsyncThread.cpp:26-30), so that an Init of a   *)
(* started pump changes or destroys what the thread is calling.  No run checks   *)
(* this.                                                                         *)
WorkStays == [][CallsWork # {} => work' = work]_vars

Queue ==
    INSTANCE WorkQueue WITH
        pending <- items,
        busy <- IF Started THEN held[thread] ELSE NoItem,
        open <- Started

(* Every item is worked on once and in order, only while the pump is started,  *)
(* and a stop returns only when the last one is done (SequentialWorkPump.h:50-52), *)
(* also under the callbacks of one Init after another.                          *)
ImplementsQueue == Queue!Spec

(* An item queued in a started pump is worked on unless the pump is stopped,   *)
(* although the signal that announces it may come before the thread waits      *)
(* (ThreadSignal.h:32-48), or an Init has ended the process.                    *)
ItemsGetDone ==
    \A i \in Items : (InQueue(i) /\ runFlag) ~> (Finished(i) \/ ~runFlag \/ Crashed)

(* A stop returns, and with it everyone who waits for mThreadMutex goes on, in  *)
(* a process that lives.                                                        *)
StopReturns == owner # NoUser ~> (owner = NoUser \/ Crashed)

================================================================================
