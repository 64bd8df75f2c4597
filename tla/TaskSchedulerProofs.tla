------------------------- MODULE TaskSchedulerProofs -------------------------
(***************************************************************************)
(* Theorems about TaskScheduler, for any number of workers, clients, pools, *)
(* priority blocks and tasks.                                              *)
(*                                                                         *)
(* The inductive invariant IInv has six parts, and a lemma each that says  *)
(* that every step keeps the part; the proof of each lemma has one step    *)
(* per action.  TypeOK needs ThreadShape (what a thread looks up is there  *)
(* to be found); OneOwnerPerWorker is the argument about the active flags, *)
(* OneOwnerPerBlock the one about the blocks of the records, which needs   *)
(* the former to know who a pushed task belongs to.  BlocksAnswered, that  *)
(* a block has an owner at all, needs all of them, and OneRecordPerTask:   *)
(* what is removed from one pool is in no other.                           *)
(*                                                                         *)
(* The last two parts are about a scheduler that is prepared before it     *)
(* dispatches.  NothingIsForgotten rests on PreparedInv, whose heart is a  *)
(* count (MissedAreReserved), with a lemma for each step that changes it;  *)
(* PrioritiesAreKept, about one worker, on what is blocked behind a search. *)
(***************************************************************************)
EXTENDS TaskScheduler, FiniteSetTheorems, TLAPS

USE DEF flagVars, assignVars, listVars, recordVars, scanVars, handVars, Goto,
        Threads, Priorities, TaskIDs, kInvalidTaskID, NoWorker, TaskStates

-----------------------------------------------------------------------------

\* What a dispatching thread finds at a place of a priority block is a pool.
LEMMA PoolsOfBlock ==
  ASSUME TypeOK, NEW b \in Priorities
  PROVE  /\ Len(mPools[b]) \in Nat
         /\ \A i \in Nat : i < Len(mPools[b]) => mPools[b][i + 1] \in Pools
<1>1. mPools[b] \in Seq(Pools)
  BY DEF TypeOK, SchedulerTypeOK
<1>2. Len(mPools[b]) \in Nat
  BY <1>1
<1>3. \A i \in Nat : i < Len(mPools[b]) => mPools[b][i + 1] \in Pools
  BY <1>1, <1>2
<1> QED
  BY <1>2, <1>3

\* Every step keeps the types.
LEMMA TypeOKStep ==
  ASSUME TypeOK, ThreadShape, [Next]_vars
  PROVE  TypeOK'
<1> USE ConstantsAssumption DEF TypeOK
<1>1. ASSUME NEW t \in Clients, NEW w \in Workers, RegisterWorker(t, w)
      PROVE  TypeOK'
  BY <1>1 DEF RegisterWorker, SchedulerTypeOK, PoolTypeOK, ThreadTypeOK, Labels
<1>2. ASSUME NEW t \in Clients, NEW w \in Workers, UnregisterWorker(t, w)
      PROVE  TypeOK'
  BY <1>2 DEF UnregisterWorker, SchedulerTypeOK, PoolTypeOK, ThreadTypeOK, Labels
<1>3. ASSUME NEW t \in Clients, NEW p \in Pools, RegisterPool(t, p)
      PROVE  TypeOK'
  <2>1. mPools' \in [Priorities -> Seq(Pools)]
    BY <1>3 DEF RegisterPool, SchedulerTypeOK, ThreadTypeOK
  <2>2. pc' \in [Threads -> Labels]
    BY <1>3 DEF RegisterPool, SchedulerTypeOK, ThreadTypeOK, Labels
  <2> QED
    BY <1>3, <2>1, <2>2 DEF RegisterPool, TypeOK, SchedulerTypeOK, PoolTypeOK,
       ThreadTypeOK
<1>4. ASSUME NEW t \in Clients, NEW p \in Pools, AddTask(t, p)
      PROVE  TypeOK'
  <2>1. mTaskRecords' \in [Pools -> SUBSET TaskIDs]
    BY <1>4 DEF AddTask, PoolTypeOK
  <2>2. nextID' \in 1 .. MaxTasks + 1
    BY <1>4 DEF AddTask, PoolTypeOK
  <2>3. pc' \in [Threads -> Labels] /\ pool' \in [Threads -> Pools \cup {NoPool}]
    <3>1. CASE mTaskRecords[p] = {}
      <4>1. pc' = [pc EXCEPT ![t] = "notify"] /\ pool' = [pool EXCEPT ![t] = p]
        BY <1>4, <3>1 DEF AddTask
      <4> QED
        BY <4>1 DEF ThreadTypeOK, Labels
    <3>2. CASE mTaskRecords[p] # {}
      BY <1>4, <3>2 DEF AddTask, ThreadTypeOK
    <3> QED
      BY <3>1, <3>2
  <2> QED
    BY <1>4, <2>1, <2>2, <2>3 DEF AddTask, SchedulerTypeOK, PoolTypeOK, ThreadTypeOK
<1>5. ASSUME NEW t \in Clients, NEW p \in Pools, AttemptAbortAllTasks(t, p)
      PROVE  TypeOK'
  BY <1>5 DEF AttemptAbortAllTasks, SchedulerTypeOK, PoolTypeOK, ThreadTypeOK, Labels
<1>6. ASSUME NEW t \in Clients, NEW p \in Pools, NEW i \in TaskIDs,
             AttemptAbortTask(t, p, i)
      PROVE  TypeOK'
  <2>1. pc' \in [Threads -> Labels]
    BY <1>6 DEF AttemptAbortTask, PoolTypeOK, ThreadTypeOK, Labels
  <2>2. pool' \in [Threads -> Pools \cup {NoPool}]
    BY <1>6 DEF AttemptAbortTask, PoolTypeOK, ThreadTypeOK
  <2>3. aborting' \in [Threads -> SUBSET TaskIDs]
    BY <1>6 DEF AttemptAbortTask, PoolTypeOK, ThreadTypeOK
  <2> QED
    BY <1>6, <2>1, <2>2, <2>3 DEF AttemptAbortTask, TypeOK, SchedulerTypeOK,
       PoolTypeOK, ThreadTypeOK
<1>7. CASE StartDispatching
  BY <1>7 DEF StartDispatching, SchedulerTypeOK, PoolTypeOK, ThreadTypeOK, Labels
<1>8. ASSUME NEW block \in BOOLEAN, StopDispatching(block)
      PROVE  TypeOK'
  BY ZenonT(60), <1>8 DEF StopDispatching, SchedulerTypeOK, PoolTypeOK, ThreadTypeOK, Labels
<1>9. CASE AllTasksAreCurrentlyCompleted
  BY <1>9 DEF AllTasksAreCurrentlyCompleted, SchedulerTypeOK, PoolTypeOK, ThreadTypeOK,
     Labels
<1>10. ASSUME NEW t \in Threads, OnTasksNewlyAvailable(t)
      PROVE  TypeOK'
  BY <1>10 DEF OnTasksNewlyAvailable, SchedulerTypeOK, PoolTypeOK, ThreadTypeOK, Labels
<1>11. ASSUME NEW t \in Threads, NEW i \in TaskIDs, BlockToAbort(t, i)
      PROVE  TypeOK'
  <2>1. held' \in [Threads -> TaskIDs \cup {kInvalidTaskID}]
    BY <1>11 DEF BlockToAbort, ThreadTypeOK
  <2>2. aborting' \in [Threads -> SUBSET TaskIDs]
    BY <1>11 DEF BlockToAbort, ThreadTypeOK
  <2>3. mBlocked' \in [TaskIDs -> BOOLEAN]
    BY <1>11 DEF BlockToAbort, PoolTypeOK
  <2>4. pc' \in [Threads -> Labels]
    <3>1. PICK l \in {"missing", "pend", "erase"} : pc' = [pc EXCEPT ![t] = l]
      BY <1>11 DEF BlockToAbort
    <3> QED
      BY <3>1 DEF ThreadTypeOK, Labels
  <2> QED
    BY <1>11, <2>1, <2>2, <2>3, <2>4
    DEF BlockToAbort, SchedulerTypeOK, PoolTypeOK, ThreadTypeOK
<1>12. ASSUME NEW t \in Threads, MarkAbortPending(t)
      PROVE  TypeOK'
  BY <1>12 DEF MarkAbortPending, SchedulerTypeOK, PoolTypeOK, ThreadTypeOK, Labels
<1>13. ASSUME NEW t \in Threads, RemoveAborted(t)
      PROVE  TypeOK'
  BY <1>13 DEF RemoveAborted, SchedulerTypeOK, PoolTypeOK, ThreadTypeOK, Labels
<1>14. ASSUME NEW t \in Threads, FailToLocate(t)
      PROVE  TypeOK'
  BY <1>14 DEF FailToLocate, SchedulerTypeOK, PoolTypeOK, ThreadTypeOK, Labels
<1>15. ASSUME NEW t \in Threads, AbortDone(t)
      PROVE  TypeOK'
  BY <1>15 DEF AbortDone, SchedulerTypeOK, PoolTypeOK, ThreadTypeOK, Labels
<1>16. ASSUME NEW t \in Threads, CheckPermitted(t)
      PROVE  TypeOK'
  BY <1>16 DEF CheckPermitted, SchedulerTypeOK, PoolTypeOK, ThreadTypeOK, Labels
<1>17. ASSUME NEW t \in Threads, NEW w \in Workers, FlagNextWorker(t, w)
      PROVE  TypeOK'
  <2>1. mFlaggedAsActive' \in [Workers -> BOOLEAN]
    BY <1>17 DEF FlagNextWorker, SchedulerTypeOK
  <2>2. worker' \in [Threads -> Workers \cup {NoWorker}]
    BY <1>17 DEF FlagNextWorker, ThreadTypeOK
  <2>3. pc' \in [Threads -> Labels]
    <3>1. pc' = pc \/ pc' = [pc EXCEPT ![t] = "nextPool"]
      BY <1>17 DEF FlagNextWorker
    <3> QED
      BY <3>1 DEF ThreadTypeOK, Labels
  <2> QED
    BY <1>17, <2>1, <2>2, <2>3
    DEF FlagNextWorker, SchedulerTypeOK, PoolTypeOK, ThreadTypeOK
<1>18. ASSUME NEW t \in Threads, NoFurtherWorker(t)
      PROVE  TypeOK'
  BY <1>18 DEF NoFurtherWorker, SchedulerTypeOK, PoolTypeOK, ThreadTypeOK, Labels
<1>19. ASSUME NEW t \in Threads, EnterBlock(t)
      PROVE  TypeOK'
  <2> DEFINE b == prio[t] + 1
             numPools == Len(mPools[b])
  <2>1. b \in Priorities
    BY SMTT(60), <1>19 DEF EnterBlock, ThreadTypeOK
  <2>2. numPools \in Nat
    BY <2>1, PoolsOfBlock
  <2>3. mLastDispatchIndex[b] \in Nat
    BY <2>1 DEF SchedulerTypeOK
  <2>4. prio' = [prio EXCEPT ![t] = b] /\ left' = [left EXCEPT ![t] = numPools]
    BY <1>19 DEF EnterBlock
  <2>5. PICK k \in Nat : index' = [index EXCEPT ![t] = k]
    <3>1. CASE numPools = 0 \/ worker[t] = NoWorker
      <4>1. index' = [index EXCEPT ![t] = 0]
        BY <1>19, <3>1 DEF EnterBlock
      <4> QED
        BY <4>1
    <3>2. CASE numPools # 0 /\ worker[t] # NoWorker
      <4>1. index' = [index EXCEPT ![t] = (mLastDispatchIndex[b] + 1) % numPools]
        BY <1>19, <3>2 DEF EnterBlock
      <4>2. (mLastDispatchIndex[b] + 1) % numPools \in Nat
        BY <2>2, <2>3, <3>2
      <4> QED
        BY <4>1, <4>2
    <3> QED
      BY <3>1, <3>2
  <2> HIDE DEF b, numPools
  <2>6. /\ prio' \in [Threads -> Priorities \cup {0}]
        /\ left' \in [Threads -> Nat]
        /\ index' \in [Threads -> Nat]
    BY <2>1, <2>2, <2>4, <2>5 DEF ThreadTypeOK
  <2> QED
    BY <1>19, <2>6 DEF EnterBlock, SchedulerTypeOK, PoolTypeOK, ThreadTypeOK
<1>20. ASSUME NEW t \in Threads, EnterPool(t)
      PROVE  TypeOK'
  <2>1. prio[t] \in Priorities /\ index[t] \in Nat /\ index[t] < Len(mPools[prio[t]])
    BY <1>20 DEF EnterPool, ThreadTypeOK, ThreadShape, HandsFit
  <2>2. mPools[prio[t]][index[t] + 1] \in Pools
    BY <2>1, PoolsOfBlock
  <2>3. pool' \in [Threads -> Pools \cup {NoPool}]
    BY <1>20, <2>2 DEF EnterPool, ThreadTypeOK
  <2>4. pc' \in [Threads -> Labels]
    BY <1>20 DEF EnterPool, ThreadTypeOK, Labels
  <2> QED
    BY <1>20, <2>3, <2>4 DEF EnterPool, SchedulerTypeOK, PoolTypeOK, ThreadTypeOK
<1>21. ASSUME NEW t \in Threads, LeaveBlocks(t)
      PROVE  TypeOK'
  <2>1. pc' \in [Threads -> Labels]
    BY <1>21 DEF LeaveBlocks, ThreadTypeOK, Labels
  <2>2. prio' \in [Threads -> Priorities \cup {0}]
    BY <1>21 DEF LeaveBlocks, ThreadTypeOK
  <2>3. index' \in [Threads -> Nat]
    BY <1>21 DEF LeaveBlocks, ThreadTypeOK
  <2>4. answer' \in {"none", "stopped", "incomplete", "complete"}
    BY <1>21 DEF LeaveBlocks, ThreadTypeOK
  <2> QED
    BY <1>21, <2>1, <2>2, <2>3, <2>4 DEF LeaveBlocks, TypeOK, SchedulerTypeOK,
       PoolTypeOK, ThreadTypeOK
<1>22. ASSUME NEW t \in Threads, NEW i \in TaskIDs, VisitRecord(t, i)
      PROVE  TypeOK'
  <2>1. pc' \in [Threads -> Labels]
    BY <1>22 DEF VisitRecord, PoolTypeOK, ThreadTypeOK, Labels
  <2>2. cursor' \in [Threads -> TaskIDs \cup {0}]
    BY <1>22 DEF VisitRecord, PoolTypeOK, ThreadTypeOK
  <2> QED
    BY <1>22, <2>1, <2>2 DEF VisitRecord, TypeOK, SchedulerTypeOK, PoolTypeOK,
       ThreadTypeOK
<1>23. ASSUME NEW t \in Threads, NoFurtherRecord(t)
      PROVE  TypeOK'
  <2> DEFINE numPools == Len(mPools[prio[t]])
  <2>1. /\ left[t] \in Nat /\ left[t] > 0
        /\ prio[t] \in Priorities
        /\ index[t] \in Nat /\ index[t] < numPools
    BY <1>23 DEF NoFurtherRecord, ThreadTypeOK, ThreadShape, HandsFit
  <2>2. numPools \in Nat \ {0}
    BY <2>1, PoolsOfBlock
  <2>3. (index[t] + 1) % numPools \in Nat
    BY <2>1, <2>2
  <2>4. /\ index' = [index EXCEPT ![t] = (index[t] + 1) % numPools]
        /\ left' = [left EXCEPT ![t] = left[t] - 1]
    BY <1>23 DEF NoFurtherRecord
  <2> HIDE DEF numPools
  <2>5. index' \in [Threads -> Nat] /\ left' \in [Threads -> Nat]
    BY <2>1, <2>3, <2>4 DEF ThreadTypeOK
  <2>6. pool' \in [Threads -> Pools \cup {NoPool}] /\ cursor' \in [Threads -> TaskIDs \cup {0}]
    BY <1>23 DEF NoFurtherRecord, ThreadTypeOK
  <2>7. pc' \in [Threads -> Labels]
    BY <1>23 DEF NoFurtherRecord, ThreadTypeOK, Labels
  <2> QED
    BY <1>23, <2>5, <2>6, <2>7
    DEF NoFurtherRecord, SchedulerTypeOK, PoolTypeOK, ThreadTypeOK
<1>24. ASSUME NEW t \in Threads, TakeRecord(t)
      PROVE  TypeOK'
  <2>1. mBlocked' \in [TaskIDs -> BOOLEAN]
    BY <1>24 DEF TakeRecord, PoolTypeOK
  <2>2. PICK l \in {"visit", "unpeek", "give"} : pc' = [pc EXCEPT ![t] = l]
    BY <1>24 DEF TakeRecord
  <2>3. pc' \in [Threads -> Labels]
    BY <2>2 DEF ThreadTypeOK, Labels
  <2>4. /\ held' \in [Threads -> TaskIDs \cup {kInvalidTaskID}]
        /\ cursor' \in [Threads -> TaskIDs \cup {0}]
    BY ZenonT(60), <1>24 DEF TakeRecord, ThreadTypeOK
  <2> QED
    BY <1>24, <2>1, <2>3, <2>4
    DEF TakeRecord, SchedulerTypeOK, PoolTypeOK, ThreadTypeOK
<1>25. ASSUME NEW t \in Threads, GiveTask(t)
      PROVE  TypeOK'
  <2> DEFINE w == worker[t]
  <2>1. w \in Workers /\ held[t] \in TaskIDs
    BY <1>25 DEF GiveTask, ThreadTypeOK, ThreadShape, HandsFit
  <2>2. /\ mActiveTaskID' \in [Workers -> TaskIDs \cup {kInvalidTaskID}]
        /\ mActivePool' \in [Workers -> Pools \cup {NoPool}]
        /\ mLastDispatchIndex' \in [Priorities -> Nat]
    BY <1>25, <2>1 DEF GiveTask, SchedulerTypeOK, ThreadTypeOK
  <2>3. mPendingWork' \in [Workers -> Seq(TaskIDs)]
    <3>1. Append(mPendingWork[w], held[t]) \in Seq(TaskIDs)
      <4> HIDE DEF TaskIDs, w
      <4>1. mPendingWork[w] \in Seq(TaskIDs)
        BY <2>1 DEF SchedulerTypeOK
      <4> QED
        BY <2>1, <4>1
    <3>2. mPendingWork' = [mPendingWork EXCEPT ![w] = Append(mPendingWork[w], held[t])]
      BY <1>25 DEF GiveTask
    <3> QED
      BY <3>1, <3>2 DEF SchedulerTypeOK
  <2>4. /\ held' \in [Threads -> TaskIDs \cup {kInvalidTaskID}]
        /\ pool' \in [Threads -> Pools \cup {NoPool}]
        /\ prio' \in [Threads -> Priorities \cup {0}]
        /\ index' \in [Threads -> Nat]
        /\ left' \in [Threads -> Nat]
    BY <1>25 DEF GiveTask, ThreadTypeOK
  <2>5. pc' \in [Threads -> Labels]
    BY <1>25 DEF GiveTask, ThreadTypeOK, Labels
  <2> QED
    BY <1>25, <2>2, <2>3, <2>4, <2>5
    DEF GiveTask, SchedulerTypeOK, PoolTypeOK, ThreadTypeOK
<1>26. ASSUME NEW t \in Threads, UndoFlag(t)
      PROVE  TypeOK'
  BY <1>26 DEF UndoFlag, SchedulerTypeOK, PoolTypeOK, ThreadTypeOK, Labels,
     ThreadShape, HandsFit
<1>27. ASSUME NEW t \in Threads, ReturnPeeked(t)
      PROVE  TypeOK'
  BY <1>27 DEF ReturnPeeked, SchedulerTypeOK, PoolTypeOK, ThreadTypeOK, Labels
<1>28. ASSUME NEW w \in Workers, SeeIdleWorker(w)
      PROVE  TypeOK'
  <2>1. worker' \in [Threads -> Workers \cup {NoWorker}]
    BY <1>28 DEF SeeIdleWorker, SchedulerTypeOK, ThreadTypeOK
  <2> QED
    BY <1>28, <2>1 DEF SeeIdleWorker, TypeOK, SchedulerTypeOK, PoolTypeOK, ThreadTypeOK
<1>29. CASE SeeAllIdle
  <2>1. pc' \in [Threads -> Labels]
    BY <1>29 DEF SeeAllIdle, ThreadTypeOK, Labels
  <2>2. worker' \in [Threads -> Workers \cup {NoWorker}]
    BY <1>29 DEF SeeAllIdle, ThreadTypeOK
  <2>3. answer' \in {"none", "stopped", "incomplete", "complete"}
    BY <1>29 DEF SeeAllIdle, ThreadTypeOK
  <2> QED
    BY <1>29, <2>1, <2>2, <2>3 DEF SeeAllIdle, TypeOK, SchedulerTypeOK, PoolTypeOK,
       ThreadTypeOK
<1>30. ASSUME NEW w \in Workers, SeeActiveWorker(w)
      PROVE  TypeOK'
  <2>1. pc' \in [Threads -> Labels]
    BY <1>30 DEF SeeActiveWorker, SchedulerTypeOK, ThreadTypeOK, Labels
  <2>2. worker' \in [Threads -> Workers \cup {NoWorker}]
    BY <1>30 DEF SeeActiveWorker, SchedulerTypeOK, ThreadTypeOK
  <2>3. answer' \in {"none", "stopped", "incomplete", "complete"}
    BY <1>30 DEF SeeActiveWorker, SchedulerTypeOK, ThreadTypeOK
  <2> QED
    BY <1>30, <2>1, <2>2, <2>3 DEF SeeActiveWorker, TypeOK, SchedulerTypeOK,
       PoolTypeOK, ThreadTypeOK
<1>31. ASSUME NEW w \in Workers, PullWork(w)
      PROVE  TypeOK'
  <2> DEFINE work == mPendingWork[w]
  <2>1. work \in Seq(TaskIDs) /\ work # << >>
    BY <1>31 DEF PullWork, SchedulerTypeOK
  <2>2. work[Len(work)] \in TaskIDs /\ SubSeq(work, 1, Len(work) - 1) \in Seq(TaskIDs)
    BY <2>1
  <2>3. /\ held' = [held EXCEPT ![w] = work[Len(work)]]
        /\ mPendingWork' = [mPendingWork EXCEPT ![w] = SubSeq(work, 1, Len(work) - 1)]
    BY <1>31 DEF PullWork
  <2> HIDE DEF work
  <2>4. /\ held' \in [Threads -> TaskIDs \cup {kInvalidTaskID}]
        /\ mPendingWork' \in [Workers -> Seq(TaskIDs)]
    BY <2>2, <2>3 DEF SchedulerTypeOK, ThreadTypeOK
  <2>5. pc' \in [Threads -> Labels]
    BY <1>31 DEF PullWork, ThreadTypeOK, Labels
  <2> QED
    BY <1>31, <2>4, <2>5 DEF PullWork, SchedulerTypeOK, PoolTypeOK, ThreadTypeOK
<1>32. ASSUME NEW w \in Workers, NEW state \in TaskStates, StepReturns(w, state)
      PROVE  TypeOK'
  BY <1>32 DEF StepReturns, SchedulerTypeOK, PoolTypeOK, ThreadTypeOK, Labels
<1>33. ASSUME NEW w \in Workers, ClearAssignment(w)
      PROVE  TypeOK'
  BY <1>33 DEF ClearAssignment, SchedulerTypeOK, PoolTypeOK, ThreadTypeOK, Labels
<1>34. ASSUME NEW w \in Workers, ReturnAndUnblockTask(w)
      PROVE  TypeOK'
  BY <1>34 DEF ReturnAndUnblockTask, SchedulerTypeOK, PoolTypeOK, ThreadTypeOK, Labels
<1>35. ASSUME NEW w \in Workers, RemoveBlockedTask(w)
      PROVE  TypeOK'
  BY <1>35 DEF RemoveBlockedTask, SchedulerTypeOK, PoolTypeOK, ThreadTypeOK, Labels
<1>36. ASSUME NEW w \in Workers, ReleaseWorker(w)
      PROVE  TypeOK'
  BY <1>36 DEF ReleaseWorker, SchedulerTypeOK, PoolTypeOK, ThreadTypeOK, Labels
<1>37. CASE UNCHANGED vars
  BY <1>37 DEF vars, SchedulerTypeOK, PoolTypeOK, ThreadTypeOK
<1> HIDE DEF TypeOK
<1> QED
  BY <1>1, <1>2, <1>3, <1>4, <1>5, <1>6, <1>7, <1>8, <1>9, <1>10, <1>11,
     <1>12, <1>13, <1>14, <1>15, <1>16, <1>17, <1>18, <1>19, <1>20,
     <1>21, <1>22, <1>23, <1>24, <1>25, <1>26, <1>27, <1>28, <1>29,
     <1>30, <1>31, <1>32, <1>33, <1>34, <1>35, <1>36, <1>37
  DEF Next, Call, Direct, Proceed, Work, AreAllWorkersIdle

\* Every step keeps what threads have in hand in line with where they are.
LEMMA ThreadShapeStep ==
  ASSUME TypeOK, ThreadShape, [Next]_vars
  PROVE  ThreadShape'
<1> USE ConstantsAssumption DEF TypeOK
<1>1. ASSUME NEW t \in Clients, NEW w \in Workers, RegisterWorker(t, w)
      PROVE  ThreadShape'
  BY <1>1 DEF RegisterWorker, ThreadShape, HandsFit, ThreadTypeOK, PoolTypeOK
<1>2. ASSUME NEW t \in Clients, NEW w \in Workers, UnregisterWorker(t, w)
      PROVE  ThreadShape'
  BY <1>2 DEF UnregisterWorker, ThreadShape, HandsFit, ThreadTypeOK, PoolTypeOK
<1>3. ASSUME NEW t \in Clients, NEW p \in Pools, RegisterPool(t, p)
      PROVE  ThreadShape'
  <2>1. ASSUME NEW b \in Priorities
        PROVE  /\ Len(mPools[b]) \in Nat /\ Len(mPools'[b]) \in Nat
               /\ Len(mPools[b]) <= Len(mPools'[b])
    <3>1. mPools[b] \in Seq(Pools)
      BY <2>1 DEF SchedulerTypeOK
    <3>2. mPools'[b] = mPools[b] \/ mPools'[b] = Append(mPools[b], p)
      BY <1>3, <2>1 DEF RegisterPool, SchedulerTypeOK
    <3> QED
      BY <3>1, <3>2
  <2>2. ASSUME NEW u \in Threads
        PROVE  HandsFit(u)'
    <3>1. /\ left'[u] = left[u] /\ prio'[u] = prio[u] /\ index'[u] = index[u]
          /\ index[u] \in Nat
      BY <1>3 DEF RegisterPool, ThreadTypeOK
    <3>2. left'[u] > 0 => prio'[u] \in Priorities /\ index'[u] < Len(mPools'[prio'[u]])
      BY <2>1, <3>1 DEF ThreadShape, HandsFit
    <3>3. pc'[u] = pc[u] \/ pc'[u] = "check"
      BY <1>3 DEF RegisterPool, ThreadTypeOK
    <3> QED
      BY <1>3, <3>2, <3>3 DEF RegisterPool, ThreadShape, HandsFit
  <2>3. /\ \A c \in Clients : pc'[c] \notin {"step", "clear", "settle", "release"}
        /\ \A v \in Workers : pc'[v] \notin {"poll", "ask", "unpeek"}
    BY <1>3 DEF RegisterPool, ThreadShape, ThreadTypeOK
  <2> QED
    BY <2>2, <2>3 DEF ThreadShape
<1>4. ASSUME NEW t \in Clients, NEW p \in Pools, AddTask(t, p)
      PROVE  ThreadShape'
  <2>1. \/ UNCHANGED <<pc, pool>>
        \/ pc' = [pc EXCEPT ![t] = "notify"] /\ pool' = [pool EXCEPT ![t] = p]
    BY <1>4 DEF AddTask
  <2>2. \A q \in Pools : mTaskRecords[q] \subseteq mTaskRecords'[q]
    BY <1>4 DEF AddTask, PoolTypeOK
  <2>3. ASSUME NEW u \in Threads
        PROVE  HandsFit(u)'
    <3>1. \/ pc'[u] = pc[u] /\ pool'[u] = pool[u]
          \/ pc'[u] = "notify" /\ pool'[u] \in Pools
      BY <2>1 DEF ThreadTypeOK
    <3> QED
      BY <1>4, <2>2, <3>1 DEF AddTask, ThreadShape, HandsFit
  <2>4. /\ \A c \in Clients : pc'[c] \notin {"step", "clear", "settle", "release"}
        /\ \A v \in Workers : pc'[v] \notin {"poll", "ask", "unpeek"}
    BY <2>1 DEF ThreadShape, ThreadTypeOK
  <2> QED
    BY <2>3, <2>4 DEF ThreadShape
<1>5. ASSUME NEW t \in Clients, NEW p \in Pools, AttemptAbortAllTasks(t, p)
      PROVE  ThreadShape'
  BY <1>5 DEF AttemptAbortAllTasks, ThreadShape, HandsFit, ThreadTypeOK, PoolTypeOK
<1>6. ASSUME NEW t \in Clients, NEW p \in Pools, NEW i \in TaskIDs,
             AttemptAbortTask(t, p, i)
      PROVE  ThreadShape'
  BY <1>6 DEF AttemptAbortTask, ThreadShape, HandsFit, ThreadTypeOK, PoolTypeOK
<1>7. CASE StartDispatching
  BY <1>7 DEF StartDispatching, ThreadShape, HandsFit, ThreadTypeOK, PoolTypeOK
<1>8. ASSUME NEW block \in BOOLEAN, StopDispatching(block)
      PROVE  ThreadShape'
  <2>1. pc' = pc \/ pc' = [pc EXCEPT ![Control] = "poll"]
    BY <1>8 DEF StopDispatching
  <2>2. ASSUME NEW u \in Threads
        PROVE  HandsFit(u)'
    <3>1. pc'[u] = pc[u] \/ pc'[u] = "poll"
      BY <2>1 DEF ThreadTypeOK
    <3> QED
      BY <1>8, <3>1 DEF StopDispatching, ThreadShape, HandsFit
  <2>3. /\ \A c \in Clients : pc'[c] \notin {"step", "clear", "settle", "release"}
        /\ \A v \in Workers : pc'[v] \notin {"poll", "ask", "unpeek"}
    BY ZenonT(60), <2>1 DEF ThreadShape, ThreadTypeOK
  <2> QED
    BY <2>2, <2>3 DEF ThreadShape
<1>9. CASE AllTasksAreCurrentlyCompleted
  BY <1>9 DEF AllTasksAreCurrentlyCompleted, ThreadShape, HandsFit, ThreadTypeOK,
     PoolTypeOK
<1>10. ASSUME NEW t \in Threads, OnTasksNewlyAvailable(t)
      PROVE  ThreadShape'
  BY <1>10 DEF OnTasksNewlyAvailable, ThreadShape, HandsFit, ThreadTypeOK, PoolTypeOK
<1>11. ASSUME NEW t \in Threads, NEW i \in TaskIDs, BlockToAbort(t, i)
      PROVE  ThreadShape'
  <2>1. ASSUME NEW u \in Threads, u # t
        PROVE  HandsFit(u)'
    BY SMTT(60), <1>11, <2>1 DEF BlockToAbort, ThreadShape, HandsFit, ThreadTypeOK
  <2>2. HandsFit(t)'
    BY <1>11 DEF BlockToAbort, ThreadShape, HandsFit, ThreadTypeOK, IsFirst
  <2>3. /\ \A c \in Clients : pc'[c] \notin {"step", "clear", "settle", "release"}
        /\ \A v \in Workers : pc'[v] \notin {"poll", "ask", "unpeek"}
    <3>1. PICK l \in {"missing", "pend", "erase"} : pc' = [pc EXCEPT ![t] = l]
      BY <1>11 DEF BlockToAbort
    <3> QED
      BY <3>1 DEF ThreadShape, ThreadTypeOK
  <2> QED
    BY <2>1, <2>2, <2>3 DEF ThreadShape
<1>12. ASSUME NEW t \in Threads, MarkAbortPending(t)
      PROVE  ThreadShape'
  BY <1>12 DEF MarkAbortPending, ThreadShape, HandsFit, ThreadTypeOK, PoolTypeOK
<1>13. ASSUME NEW t \in Threads, RemoveAborted(t)
      PROVE  ThreadShape'
  BY <1>13 DEF RemoveAborted, CanWriteRecords, ReadsRecords, ThreadShape, HandsFit,
     ThreadTypeOK, PoolTypeOK
<1>14. ASSUME NEW t \in Threads, FailToLocate(t)
      PROVE  ThreadShape'
  BY <1>14 DEF FailToLocate, ThreadShape, HandsFit, ThreadTypeOK, PoolTypeOK
<1>15. ASSUME NEW t \in Threads, AbortDone(t)
      PROVE  ThreadShape'
  BY <1>15 DEF AbortDone, ThreadShape, HandsFit, ThreadTypeOK, PoolTypeOK
<1>16. ASSUME NEW t \in Threads, CheckPermitted(t)
      PROVE  ThreadShape'
  BY <1>16 DEF CheckPermitted, ThreadShape, HandsFit, ThreadTypeOK, PoolTypeOK
<1>17. ASSUME NEW t \in Threads, NEW w \in Workers, FlagNextWorker(t, w)
      PROVE  ThreadShape'
  <2>1. ASSUME NEW u \in Threads, u # t
        PROVE  HandsFit(u)'
    BY <1>17, <2>1 DEF FlagNextWorker, ThreadShape, HandsFit, ThreadTypeOK
  <2>2. HandsFit(t)'
    BY <1>17 DEF FlagNextWorker, ThreadShape, HandsFit, ThreadTypeOK
  <2>3. /\ \A c \in Clients : pc'[c] \notin {"step", "clear", "settle", "release"}
        /\ \A v \in Workers : pc'[v] \notin {"poll", "ask", "unpeek"}
    BY ZenonT(60), <1>17 DEF FlagNextWorker, ThreadShape, ThreadTypeOK
  <2> QED
    BY <2>1, <2>2, <2>3 DEF ThreadShape
<1>18. ASSUME NEW t \in Threads, NoFurtherWorker(t)
      PROVE  ThreadShape'
  BY <1>18 DEF NoFurtherWorker, LaterWorkers, IsFirst, ThreadShape, HandsFit,
     ThreadTypeOK, PoolTypeOK
<1>19. ASSUME NEW t \in Threads, EnterBlock(t)
      PROVE  ThreadShape'
  <2>1. ASSUME NEW u \in Threads, u # t
        PROVE  HandsFit(u)'
    BY <1>19, <2>1 DEF EnterBlock, ThreadShape, HandsFit, ThreadTypeOK
  <2>2. HandsFit(t)'
    <3> DEFINE b == prio[t] + 1
               numPools == Len(mPools[b])
    <3>1. b \in Priorities
      BY SMTT(60), <1>19 DEF EnterBlock, ThreadTypeOK
    <3>2. numPools \in Nat /\ mLastDispatchIndex[b] \in Nat
      <4>1. numPools \in Nat
        BY <3>1, PoolsOfBlock
      <4> QED
        BY <3>1, <4>1 DEF SchedulerTypeOK
    <3>3. prio'[t] = b /\ left'[t] = numPools
      BY <1>19 DEF EnterBlock, ThreadTypeOK
    <3>4. numPools > 0 => index'[t] < numPools
      <4>1. CASE worker[t] = NoWorker /\ numPools > 0
        BY <1>19, <4>1, <3>2 DEF EnterBlock, ThreadTypeOK
      <4>2. CASE worker[t] # NoWorker /\ numPools > 0
        <5>1. index'[t] = (mLastDispatchIndex[b] + 1) % numPools
          BY <1>19, <4>2 DEF EnterBlock, ThreadTypeOK
        <5>2. (mLastDispatchIndex[b] + 1) % numPools < numPools
          BY <3>2, <4>2
        <5> QED
          BY <5>1, <5>2
      <4> QED
        BY <3>2, <4>1, <4>2
    <3>5. left'[t] > 0 => prio'[t] \in Priorities /\ index'[t] < Len(mPools[prio'[t]])
      BY <3>1, <3>3, <3>4
    <3> HIDE DEF b, numPools
    <3> QED
      BY <1>19, <3>5 DEF EnterBlock, ThreadShape, HandsFit
  <2>3. /\ \A c \in Clients : pc'[c] \notin {"step", "clear", "settle", "release"}
        /\ \A v \in Workers : pc'[v] \notin {"poll", "ask", "unpeek"}
    BY <1>19 DEF EnterBlock, ThreadShape, ThreadTypeOK
  <2> QED
    BY <2>1, <2>2, <2>3 DEF ThreadShape
<1>20. ASSUME NEW t \in Threads, EnterPool(t)
      PROVE  ThreadShape'
  <2>1. ASSUME NEW u \in Threads, u # t
        PROVE  HandsFit(u)'
    BY <1>20, <2>1 DEF EnterPool, ThreadShape, HandsFit, ThreadTypeOK
  <2>2. HandsFit(t)'
    <3>1. prio[t] \in Priorities /\ index[t] \in Nat /\ index[t] < Len(mPools[prio[t]])
      BY <1>20 DEF EnterPool, ThreadTypeOK, ThreadShape, HandsFit
    <3>2. mPools[prio[t]][index[t] + 1] \in Pools
      BY <3>1, PoolsOfBlock
    <3>3. pool'[t] \in Pools /\ pc'[t] = "visit"
      BY <1>20, <3>2 DEF EnterPool, ThreadTypeOK
    <3> QED
      BY <1>20, <3>3 DEF EnterPool, ThreadShape, HandsFit
  <2>3. /\ \A c \in Clients : pc'[c] \notin {"step", "clear", "settle", "release"}
        /\ \A v \in Workers : pc'[v] \notin {"poll", "ask", "unpeek"}
    BY <1>20 DEF EnterPool, ThreadShape, ThreadTypeOK
  <2> QED
    BY <2>1, <2>2, <2>3 DEF ThreadShape
<1>21. ASSUME NEW t \in Threads, LeaveBlocks(t)
      PROVE  ThreadShape'
  BY <1>21 DEF LeaveBlocks, ThreadShape, HandsFit, ThreadTypeOK, PoolTypeOK
<1>22. ASSUME NEW t \in Threads, NEW i \in TaskIDs, VisitRecord(t, i)
      PROVE  ThreadShape'
  BY <1>22 DEF VisitRecord, LaterRecords, IsFirst, ThreadShape, HandsFit, ThreadTypeOK,
     PoolTypeOK
<1>23. ASSUME NEW t \in Threads, NoFurtherRecord(t)
      PROVE  ThreadShape'
  <2>1. ASSUME NEW u \in Threads, u # t
        PROVE  HandsFit(u)'
    BY <1>23, <2>1 DEF NoFurtherRecord, ThreadShape, HandsFit, ThreadTypeOK
  <2>2. HandsFit(t)'
    BY SMTT(60), <1>23 DEF NoFurtherRecord, ThreadShape, HandsFit, ThreadTypeOK
  <2>3. /\ \A c \in Clients : pc'[c] \notin {"step", "clear", "settle", "release"}
        /\ \A v \in Workers : pc'[v] \notin {"poll", "ask", "unpeek"}
    BY <1>23 DEF NoFurtherRecord, ThreadShape, ThreadTypeOK
  <2> QED
    BY <2>1, <2>2, <2>3 DEF ThreadShape
<1>24. ASSUME NEW t \in Threads, TakeRecord(t)
      PROVE  ThreadShape'
  <2>1. ASSUME NEW u \in Threads, u # t
        PROVE  HandsFit(u)'
    BY SMTT(60), <1>24, <2>1 DEF TakeRecord, ThreadShape, HandsFit, ThreadTypeOK
  <2>2. HandsFit(t)'
    <3>1. pool[t] \in Pools /\ cursor[t] \in TaskIDs
      BY <1>24 DEF TakeRecord, ThreadShape, HandsFit, PoolTypeOK
    <3>2. \/ pc'[t] = "visit"
          \/ pc'[t] = "give" /\ worker[t] # NoWorker /\ held'[t] = cursor[t]
          \/ pc'[t] = "unpeek" /\ worker[t] = NoWorker
      BY <1>24 DEF TakeRecord, ThreadTypeOK
    <3> QED
      BY <1>24, <3>1, <3>2 DEF TakeRecord, ThreadShape, HandsFit
  <2>3. /\ \A c \in Clients : pc'[c] \notin {"step", "clear", "settle", "release"}
        /\ \A v \in Workers : pc'[v] \notin {"poll", "ask", "unpeek"}
    <3>1. \/ pc' = [pc EXCEPT ![t] = "visit"]
          \/ pc' = [pc EXCEPT ![t] = "give"]
          \/ pc' = [pc EXCEPT ![t] = "unpeek"] /\ t \notin Workers
      BY <1>24 DEF TakeRecord, ThreadShape, HandsFit
    <3> QED
      BY ZenonT(60), <3>1 DEF ThreadShape, ThreadTypeOK
  <2> QED
    BY <2>1, <2>2, <2>3 DEF ThreadShape
<1>25. ASSUME NEW t \in Threads, GiveTask(t)
      PROVE  ThreadShape'
  <2>1. ASSUME NEW u \in Threads, u # t
        PROVE  HandsFit(u)'
    BY <1>25, <2>1 DEF GiveTask, ThreadShape, HandsFit, ThreadTypeOK
  <2>2. HandsFit(t)'
    BY <1>25 DEF GiveTask, ThreadShape, HandsFit, ThreadTypeOK
  <2>3. /\ \A c \in Clients : pc'[c] \notin {"step", "clear", "settle", "release"}
        /\ \A v \in Workers : pc'[v] \notin {"poll", "ask", "unpeek"}
    BY <1>25 DEF GiveTask, ThreadShape, ThreadTypeOK
  <2> QED
    BY <2>1, <2>2, <2>3 DEF ThreadShape
<1>26. ASSUME NEW t \in Threads, UndoFlag(t)
      PROVE  ThreadShape'
  BY <1>26 DEF UndoFlag, ThreadShape, HandsFit, ThreadTypeOK, PoolTypeOK
<1>27. ASSUME NEW t \in Threads, ReturnPeeked(t)
      PROVE  ThreadShape'
  <2>1. ASSUME NEW u \in Threads, u # t
        PROVE  HandsFit(u)'
    BY <1>27, <2>1 DEF ReturnPeeked, ThreadShape, HandsFit, ThreadTypeOK
  <2>2. HandsFit(t)'
    BY <1>27 DEF ReturnPeeked, ThreadShape, HandsFit, ThreadTypeOK
  <2>3. /\ \A c \in Clients : pc'[c] \notin {"step", "clear", "settle", "release"}
        /\ \A v \in Workers : pc'[v] \notin {"poll", "ask", "unpeek"}
    BY <1>27 DEF ReturnPeeked, ThreadShape, ThreadTypeOK
  <2> QED
    BY <2>1, <2>2, <2>3 DEF ThreadShape
<1>28. ASSUME NEW w \in Workers, SeeIdleWorker(w)
      PROVE  ThreadShape'
  BY <1>28 DEF SeeIdleWorker, LaterWorkers, IsFirst, ThreadShape, HandsFit,
     ThreadTypeOK, PoolTypeOK
<1>29. CASE SeeAllIdle
  BY <1>29 DEF SeeAllIdle, ThreadShape, HandsFit, ThreadTypeOK, PoolTypeOK
<1>30. ASSUME NEW w \in Workers, SeeActiveWorker(w)
      PROVE  ThreadShape'
  BY <1>30 DEF SeeActiveWorker, ThreadShape, HandsFit, ThreadTypeOK, PoolTypeOK
<1>31. ASSUME NEW w \in Workers, PullWork(w)
      PROVE  ThreadShape'
  <2>1. ASSUME NEW u \in Threads, u # w
        PROVE  HandsFit(u)'
    BY <1>31, <2>1 DEF PullWork, ThreadShape, HandsFit, ThreadTypeOK
  <2>2. HandsFit(w)'
    BY <1>31 DEF PullWork, ThreadShape, HandsFit, ThreadTypeOK
  <2>3. /\ \A c \in Clients : pc'[c] \notin {"step", "clear", "settle", "release"}
        /\ \A v \in Workers : pc'[v] \notin {"poll", "ask", "unpeek"}
    BY <1>31 DEF PullWork, ThreadShape, ThreadTypeOK
  <2> QED
    BY <2>1, <2>2, <2>3 DEF ThreadShape
<1>32. ASSUME NEW w \in Workers, NEW state \in TaskStates, StepReturns(w, state)
      PROVE  ThreadShape'
  BY <1>32 DEF StepReturns, ThreadShape, HandsFit, ThreadTypeOK, PoolTypeOK
<1>33. ASSUME NEW w \in Workers, ClearAssignment(w)
      PROVE  ThreadShape'
  <2>1. ASSUME NEW u \in Threads, u # w
        PROVE  HandsFit(u)'
    BY <1>33, <2>1 DEF ClearAssignment, ThreadShape, HandsFit, ThreadTypeOK
  <2>2. HandsFit(w)'
    BY <1>33 DEF ClearAssignment, ThreadShape, HandsFit, ThreadTypeOK
  <2>3. /\ \A c \in Clients : pc'[c] \notin {"step", "clear", "settle", "release"}
        /\ \A v \in Workers : pc'[v] \notin {"poll", "ask", "unpeek"}
    BY <1>33 DEF ClearAssignment, ThreadShape, ThreadTypeOK
  <2> QED
    BY <2>1, <2>2, <2>3 DEF ThreadShape
<1>34. ASSUME NEW w \in Workers, ReturnAndUnblockTask(w)
      PROVE  ThreadShape'
  BY <1>34 DEF ReturnAndUnblockTask, ThreadShape, HandsFit, ThreadTypeOK, PoolTypeOK
<1>35. ASSUME NEW w \in Workers, RemoveBlockedTask(w)
      PROVE  ThreadShape'
  BY <1>35 DEF RemoveBlockedTask, CanWriteRecords, ReadsRecords, ThreadShape, HandsFit,
     ThreadTypeOK, PoolTypeOK
<1>36. ASSUME NEW w \in Workers, ReleaseWorker(w)
      PROVE  ThreadShape'
  BY <1>36 DEF ReleaseWorker, ThreadShape, HandsFit, ThreadTypeOK, PoolTypeOK
<1>37. CASE UNCHANGED vars
  BY <1>37 DEF vars, ThreadShape, HandsFit
<1> HIDE DEF TypeOK
<1> QED
  BY <1>1, <1>2, <1>3, <1>4, <1>5, <1>6, <1>7, <1>8, <1>9, <1>10, <1>11,
     <1>12, <1>13, <1>14, <1>15, <1>16, <1>17, <1>18, <1>19, <1>20,
     <1>21, <1>22, <1>23, <1>24, <1>25, <1>26, <1>27, <1>28, <1>29,
     <1>30, <1>31, <1>32, <1>33, <1>34, <1>35, <1>36, <1>37
  DEF Next, Call, Direct, Proceed, Work, AreAllWorkersIdle

-----------------------------------------------------------------------------

\* A step that leaves the flags and the assignments of the workers alone keeps
\* OneOwnerPerWorker if nobody starts to dispatch and no worker's thread jumps.
KeepsDispatch(t) == Dispatching(t)' => Dispatching(t) /\ worker'[t] = worker[t]

KeepsWork(w) ==
  \/ pc'[w] = pc[w] /\ held'[w] = held[w]
  \/ ~Running(w) /\ ~Running(w)'
  \/ pc[w] = "step" /\ pc'[w] = "clear" /\ held'[w] = held[w]
  \/ pc[w] = "settle" /\ pc'[w] = "release"

LEMMA WorkersFrame ==
  ASSUME TypeOK, OneOwnerPerWorker,
         UNCHANGED <<mWorkers, mFlaggedAsActive, mFlaggedForUnregistration,
                     mActiveTaskID, mActivePool, mPendingWork>>,
         \A t \in Threads : KeepsDispatch(t),
         \A w \in Workers : KeepsWork(w)
  PROVE  OneOwnerPerWorker'
<1>1. ASSUME NEW t \in Threads
      PROVE  DispatcherOwns(t)'
  <2>1. CASE ~Dispatching(t)'
    BY <2>1 DEF DispatcherOwns
  <2>2. CASE Dispatching(t)'
    <3>1. Dispatching(t) /\ worker'[t] = worker[t]
      BY <2>2 DEF KeepsDispatch
    <3>2. Running(worker[t])' => Running(worker[t])
      BY <3>1, TypeOK DEF KeepsWork, Running, Dispatching, TypeOK, ThreadTypeOK
    <3> QED
      BY <3>1, <3>2 DEF OneOwnerPerWorker, DispatcherOwns, Unassigned, Running
  <2> QED
    BY <2>1, <2>2
<1>2. ASSUME NEW w \in Workers
      PROVE  AssignmentFits(w)'
  <2>1. KeepsWork(w) /\ AssignmentFits(w)
    BY DEF OneOwnerPerWorker
  <2> QED
    BY <2>1 DEF KeepsWork, AssignmentFits, Running, Unassigned
<1>3. ASSUME NEW s \in Threads, NEW t \in Threads,
             s # t, Dispatching(s)', Dispatching(t)'
      PROVE  worker'[s] # worker'[t]
  BY <1>3 DEF KeepsDispatch, OneOwnerPerWorker
<1> QED
  BY <1>1, <1>2, <1>3 DEF OneOwnerPerWorker

\* Every step keeps the ownership of the workers.
LEMMA OneOwnerPerWorkerStep ==
  ASSUME TypeOK, ThreadShape, OneOwnerPerWorker, [Next]_vars
  PROVE  OneOwnerPerWorker'
<1> USE ConstantsAssumption DEF TypeOK
<1>1. ASSUME NEW t \in Clients, NEW w \in Workers, RegisterWorker(t, w)
      PROVE  OneOwnerPerWorker'
  BY <1>1 DEF RegisterWorker, OneOwnerPerWorker, DispatcherOwns, AssignmentFits,
     Dispatching,
     Running, Unassigned, ThreadTypeOK, ThreadShape
<1>2. ASSUME NEW t \in Clients, NEW w \in Workers, UnregisterWorker(t, w)
      PROVE  OneOwnerPerWorker'
  <2>1. ASSUME NEW u \in Threads
        PROVE  DispatcherOwns(u)'
    BY <1>2 DEF UnregisterWorker, CanWriteWorkers, ReadsWorkers, OneOwnerPerWorker,
       DispatcherOwns, AssignmentFits,
       Dispatching, Running, Unassigned, SchedulerTypeOK, ThreadTypeOK, ThreadShape
  <2>2. ASSUME NEW r \in Threads, NEW u \in Threads,
               r # u, Dispatching(r)', Dispatching(u)'
        PROVE  worker'[r] # worker'[u]
    BY <1>2, <2>2 DEF UnregisterWorker, OneOwnerPerWorker, Dispatching,
       ThreadTypeOK
  <2>3. ASSUME NEW v \in Workers
        PROVE  AssignmentFits(v)'
    <3>1. AssignmentFits(v)
      BY DEF OneOwnerPerWorker
    <3>2. /\ mFlaggedAsActive'[v] = (v = w \/ mFlaggedAsActive[v])
          /\ v \in mWorkers /\ (v # w \/ mFlaggedAsActive[v]) => v \in mWorkers'
          /\ pc'[v] = pc[v] /\ held'[v] = held[v]
          /\ mPendingWork'[v] = mPendingWork[v] /\ mActiveTaskID'[v] = mActiveTaskID[v]
          /\ mActivePool'[v] = mActivePool[v]
      BY <1>2 DEF UnregisterWorker, SchedulerTypeOK
    <3> QED
      BY <3>1, <3>2 DEF AssignmentFits, Running, Unassigned
  <2> QED
    BY <2>1, <2>2, <2>3 DEF OneOwnerPerWorker
<1>3. ASSUME NEW t \in Clients, NEW p \in Pools, RegisterPool(t, p)
      PROVE  OneOwnerPerWorker'
  BY <1>3, WorkersFrame
  DEF RegisterPool, KeepsDispatch, Dispatching, KeepsWork, Running, ThreadTypeOK,
     ThreadShape,
      HandsFit
<1>4. ASSUME NEW t \in Clients, NEW p \in Pools, AddTask(t, p)
      PROVE  OneOwnerPerWorker'
  BY SMTT(60), <1>4, WorkersFrame
  DEF AddTask, KeepsDispatch, Dispatching, KeepsWork, Running, ThreadTypeOK,
     ThreadShape,
      HandsFit
<1>5. ASSUME NEW t \in Clients, NEW p \in Pools, AttemptAbortAllTasks(t, p)
      PROVE  OneOwnerPerWorker'
  BY <1>5, WorkersFrame
  DEF AttemptAbortAllTasks, KeepsDispatch, Dispatching, KeepsWork, Running,
     ThreadTypeOK, ThreadShape,
      HandsFit
<1>6. ASSUME NEW t \in Clients, NEW p \in Pools, NEW i \in TaskIDs,
             AttemptAbortTask(t, p, i)
      PROVE  OneOwnerPerWorker'
  BY <1>6, WorkersFrame
  DEF AttemptAbortTask, KeepsDispatch, Dispatching, KeepsWork, Running, ThreadTypeOK,
     ThreadShape,
      HandsFit
<1>7. CASE StartDispatching
  BY <1>7, WorkersFrame
  DEF StartDispatching, KeepsDispatch, Dispatching, KeepsWork, Running, ThreadTypeOK,
     ThreadShape,
      HandsFit
<1>8. ASSUME NEW block \in BOOLEAN, StopDispatching(block)
      PROVE  OneOwnerPerWorker'
  BY <1>8, WorkersFrame
  DEF StopDispatching, KeepsDispatch, Dispatching, KeepsWork, Running, ThreadTypeOK,
     ThreadShape,
      HandsFit
<1>9. CASE AllTasksAreCurrentlyCompleted
  BY <1>9, WorkersFrame
  DEF AllTasksAreCurrentlyCompleted, KeepsDispatch, Dispatching, KeepsWork, Running,
     ThreadTypeOK, ThreadShape,
      HandsFit
<1>10. ASSUME NEW t \in Threads, OnTasksNewlyAvailable(t)
      PROVE  OneOwnerPerWorker'
  BY <1>10, WorkersFrame
  DEF OnTasksNewlyAvailable, KeepsDispatch, Dispatching, KeepsWork, Running,
     ThreadTypeOK, ThreadShape,
      HandsFit
<1>11. ASSUME NEW t \in Threads, NEW i \in TaskIDs, BlockToAbort(t, i)
      PROVE  OneOwnerPerWorker'
  <2>1. \A s \in Threads : KeepsDispatch(s)
    BY <1>11 DEF BlockToAbort, KeepsDispatch, Dispatching, ThreadTypeOK, ThreadShape,
       HandsFit
  <2>2. \A v \in Workers : KeepsWork(v)
    BY <1>11 DEF BlockToAbort, KeepsWork, Running, ThreadTypeOK, ThreadShape
  <2> QED
    BY <1>11, <2>1, <2>2, WorkersFrame DEF BlockToAbort
<1>12. ASSUME NEW t \in Threads, MarkAbortPending(t)
      PROVE  OneOwnerPerWorker'
  BY <1>12, WorkersFrame
  DEF MarkAbortPending, KeepsDispatch, Dispatching, KeepsWork, Running, ThreadTypeOK,
     ThreadShape,
      HandsFit
<1>13. ASSUME NEW t \in Threads, RemoveAborted(t)
      PROVE  OneOwnerPerWorker'
  BY <1>13, WorkersFrame
  DEF RemoveAborted, KeepsDispatch, Dispatching, KeepsWork, Running, ThreadTypeOK,
     ThreadShape,
      HandsFit
<1>14. ASSUME NEW t \in Threads, FailToLocate(t)
      PROVE  OneOwnerPerWorker'
  BY <1>14, WorkersFrame
  DEF FailToLocate, KeepsDispatch, Dispatching, KeepsWork, Running, ThreadTypeOK,
     ThreadShape,
      HandsFit
<1>15. ASSUME NEW t \in Threads, AbortDone(t)
      PROVE  OneOwnerPerWorker'
  BY <1>15, WorkersFrame
  DEF AbortDone, KeepsDispatch, Dispatching, KeepsWork, Running, ThreadTypeOK,
     ThreadShape,
      HandsFit
<1>16. ASSUME NEW t \in Threads, CheckPermitted(t)
      PROVE  OneOwnerPerWorker'
  BY <1>16, WorkersFrame
  DEF CheckPermitted, KeepsDispatch, Dispatching, KeepsWork, Running, ThreadTypeOK,
     ThreadShape,
      HandsFit
<1>17. ASSUME NEW t \in Threads, NEW w \in Workers, FlagNextWorker(t, w)
      PROVE  OneOwnerPerWorker'
  <2>1. CASE mFlaggedForUnregistration[w] \/ mFlaggedAsActive[w]
    <3>1. \A s \in Threads : KeepsDispatch(s)
      BY <1>17, <2>1 DEF FlagNextWorker, KeepsDispatch, Dispatching, ThreadTypeOK
    <3>2. \A v \in Workers : KeepsWork(v)
      BY <1>17, <2>1 DEF FlagNextWorker, KeepsWork
    <3> QED
      BY <1>17, <2>1, <3>1, <3>2, WorkersFrame DEF FlagNextWorker
  <2>2. CASE ~mFlaggedForUnregistration[w] /\ ~mFlaggedAsActive[w]
    <3>1. /\ pc[t] = "flag" /\ pc' = [pc EXCEPT ![t] = "nextPool"]
          /\ worker' = [worker EXCEPT ![t] = w]
          /\ mFlaggedAsActive' = [mFlaggedAsActive EXCEPT ![w] = TRUE]
          /\ UNCHANGED <<mFlaggedForUnregistration, assignVars, mWorkers, held>>
      BY <1>17, <2>2 DEF FlagNextWorker
    <3>2. w \in mWorkers /\ w # NoWorker
      BY <1>17 DEF FlagNextWorker, LaterWorkers, IsFirst
    <3>3. Unassigned(w) /\ ~Running(w) /\ ~Running(w)'
      BY <2>2, <3>1 DEF OneOwnerPerWorker, AssignmentFits, Running, ThreadTypeOK
    <3>4. ASSUME NEW u \in Threads, u # t
          PROVE  /\ Dispatching(u)' <=> Dispatching(u)
                 /\ worker'[u] = worker[u]
                 /\ Dispatching(u) => worker[u] # w
      BY <2>2, <3>1, <3>4 DEF OneOwnerPerWorker, DispatcherOwns, Dispatching,
         ThreadTypeOK
    <3>5. worker'[t] = w
      BY <3>1 DEF ThreadTypeOK
    <3>6. ASSUME NEW v \in Workers
          PROVE  /\ Running(v)' <=> Running(v)
                 /\ Running(v) => pc'[v] = pc[v]
                 /\ mFlaggedAsActive'[v] = (v = w \/ mFlaggedAsActive[v])
      BY ZenonT(60), <3>1 DEF Running, ThreadTypeOK, SchedulerTypeOK
    <3>7. ASSUME NEW u \in Threads, Dispatching(u)'
          PROVE  DispatcherOwns(u)'
      <4>1. CASE u = t
        <5>1. /\ w \in mWorkers' /\ mFlaggedAsActive'[w] /\ ~mFlaggedForUnregistration'[w]
              /\ mActiveTaskID'[w] = kInvalidTaskID /\ mActivePool'[w] = NoPool
              /\ mPendingWork'[w] = << >>
              /\ pc'[w] \notin {"step", "clear", "settle", "release"}
          BY <2>2, <3>1, <3>2, <3>3, <3>6 DEF Unassigned, Running
        <5> QED
          BY <3>5, <4>1, <5>1 DEF DispatcherOwns, Unassigned, Running
      <4>2. CASE u # t
        <5>1. Dispatching(u) /\ worker'[u] = worker[u] /\ DispatcherOwns(u)
          BY <3>4, <3>7, <4>2 DEF OneOwnerPerWorker
        <5>2. worker[u] \in Workers
          BY <5>1 DEF DispatcherOwns, SchedulerTypeOK
        <5> QED
          BY <3>1, <3>6, <5>1, <5>2 DEF DispatcherOwns, Unassigned, Running
      <4> QED
        BY <4>1, <4>2
    <3>8. ASSUME NEW r \in Threads, NEW u \in Threads,
                 r # u, Dispatching(r)', Dispatching(u)'
          PROVE  worker'[r] # worker'[u]
      BY <3>4, <3>5, <3>8 DEF OneOwnerPerWorker
    <3>9. ASSUME NEW v \in Workers
          PROVE  AssignmentFits(v)'
      <4>1. AssignmentFits(v)
        BY DEF OneOwnerPerWorker
      <4>2. Running(v) => pc'[v] = pc[v] /\ Running(v)'
        BY <3>6
      <4> QED
        BY <3>1, <3>2, <3>6, <4>1 DEF AssignmentFits, Running, Unassigned
    <3> QED
      BY <3>7, <3>8, <3>9 DEF OneOwnerPerWorker, DispatcherOwns
  <2> QED
    BY <2>1, <2>2
<1>18. ASSUME NEW t \in Threads, NoFurtherWorker(t)
      PROVE  OneOwnerPerWorker'
  BY <1>18, WorkersFrame
  DEF NoFurtherWorker, KeepsDispatch, Dispatching, KeepsWork, Running, ThreadTypeOK,
     ThreadShape,
      HandsFit
<1>19. ASSUME NEW t \in Threads, EnterBlock(t)
      PROVE  OneOwnerPerWorker'
  BY <1>19, WorkersFrame
  DEF EnterBlock, KeepsDispatch, Dispatching, KeepsWork, Running, ThreadTypeOK,
     ThreadShape,
      HandsFit
<1>20. ASSUME NEW t \in Threads, EnterPool(t)
      PROVE  OneOwnerPerWorker'
  BY <1>20, WorkersFrame
  DEF EnterPool, KeepsDispatch, Dispatching, KeepsWork, Running, ThreadTypeOK,
     ThreadShape,
      HandsFit
<1>21. ASSUME NEW t \in Threads, LeaveBlocks(t)
      PROVE  OneOwnerPerWorker'
  BY <1>21, WorkersFrame
  DEF LeaveBlocks, KeepsDispatch, Dispatching, KeepsWork, Running, ThreadTypeOK,
     ThreadShape,
      HandsFit
<1>22. ASSUME NEW t \in Threads, NEW i \in TaskIDs, VisitRecord(t, i)
      PROVE  OneOwnerPerWorker'
  BY <1>22, WorkersFrame
  DEF VisitRecord, KeepsDispatch, Dispatching, KeepsWork, Running, ThreadTypeOK,
     ThreadShape,
      HandsFit
<1>23. ASSUME NEW t \in Threads, NoFurtherRecord(t)
      PROVE  OneOwnerPerWorker'
  BY <1>23, WorkersFrame
  DEF NoFurtherRecord, KeepsDispatch, Dispatching, KeepsWork, Running, ThreadTypeOK,
     ThreadShape,
      HandsFit
<1>24. ASSUME NEW t \in Threads, TakeRecord(t)
      PROVE  OneOwnerPerWorker'
  <2>1. \A s \in Threads : KeepsDispatch(s)
    BY <1>24 DEF TakeRecord, KeepsDispatch, Dispatching, ThreadTypeOK, ThreadShape,
       HandsFit
  <2>2. \A v \in Workers : KeepsWork(v)
    BY <1>24 DEF TakeRecord, KeepsWork, Running, ThreadTypeOK, ThreadShape
  <2> QED
    BY <1>24, <2>1, <2>2, WorkersFrame DEF TakeRecord
<1>25. ASSUME NEW t \in Threads, GiveTask(t)
      PROVE  OneOwnerPerWorker'
  <2>1. ASSUME NEW u \in Threads
        PROVE  DispatcherOwns(u)'
    BY SMTT(60), <1>25 DEF GiveTask, OneOwnerPerWorker, DispatcherOwns, AssignmentFits,
       Dispatching, Running, Unassigned, SchedulerTypeOK, ThreadTypeOK, ThreadShape
  <2>2. ASSUME NEW r \in Threads, NEW u \in Threads,
               r # u, Dispatching(r)', Dispatching(u)'
        PROVE  worker'[r] # worker'[u]
    BY <1>25, <2>2 DEF GiveTask, OneOwnerPerWorker, Dispatching,
       ThreadTypeOK
  <2>3. ASSUME NEW v \in Workers
        PROVE  AssignmentFits(v)'
    <3>1. AssignmentFits(v) /\ AssignmentFits(worker[t])
      BY <1>25 DEF GiveTask, OneOwnerPerWorker, ThreadShape, HandsFit, ThreadTypeOK
    <3>2. Dispatching(t) /\ DispatcherOwns(t)
      BY <1>25 DEF GiveTask, OneOwnerPerWorker, Dispatching, ThreadShape, HandsFit
    <3>3. (Running(v)' <=> Running(v)) /\ (Running(v) => pc'[v] = pc[v] /\ held'[v] = held[v])
      BY <1>25 DEF GiveTask, Running, ThreadTypeOK
    <3>4. CASE v = worker[t]
      <4>1. /\ mPendingWork'[v] = Append(mPendingWork[v], held[t])
            /\ mActiveTaskID'[v] = held[t]
            /\ mFlaggedAsActive'[v] = mFlaggedAsActive[v] /\ mWorkers' = mWorkers
        BY <1>25, <3>4 DEF GiveTask, SchedulerTypeOK
      <4>2. mPendingWork[v] = << >> /\ ~Running(v) /\ mFlaggedAsActive[v] /\ v \in mWorkers
        BY <3>2, <3>4 DEF DispatcherOwns, Unassigned
      <4>3. mPendingWork'[v] = <<held[t]>>
        BY <4>1, <4>2
      <4> QED
        BY <3>3, <4>1, <4>2, <4>3 DEF AssignmentFits, Running
    <3>5. CASE v # worker[t]
      <4>1. /\ mPendingWork'[v] = mPendingWork[v] /\ mActiveTaskID'[v] = mActiveTaskID[v]
            /\ mActivePool'[v] = mActivePool[v]
            /\ mFlaggedAsActive'[v] = mFlaggedAsActive[v] /\ mWorkers' = mWorkers
        BY <1>25, <3>5 DEF GiveTask, SchedulerTypeOK
      <4> QED
        BY <3>1, <3>3, <4>1 DEF AssignmentFits, Running, Unassigned
    <3> QED
      BY <3>4, <3>5
  <2> QED
    BY <2>1, <2>2, <2>3 DEF OneOwnerPerWorker
<1>26. ASSUME NEW t \in Threads, UndoFlag(t)
      PROVE  OneOwnerPerWorker'
  <2>1. ASSUME NEW u \in Threads
        PROVE  DispatcherOwns(u)'
    BY <1>26 DEF UndoFlag, OneOwnerPerWorker, DispatcherOwns, AssignmentFits,
       Dispatching, Running, Unassigned, SchedulerTypeOK, ThreadTypeOK, ThreadShape
  <2>2. ASSUME NEW r \in Threads, NEW u \in Threads,
               r # u, Dispatching(r)', Dispatching(u)'
        PROVE  worker'[r] # worker'[u]
    BY <1>26, <2>2 DEF UndoFlag, OneOwnerPerWorker, Dispatching,
       ThreadTypeOK
  <2>3. ASSUME NEW v \in Workers
        PROVE  AssignmentFits(v)'
    <3>1. AssignmentFits(v)
      BY DEF OneOwnerPerWorker
    <3>2. Dispatching(t) /\ DispatcherOwns(t)
      BY <1>26 DEF UndoFlag, OneOwnerPerWorker, Dispatching, ThreadShape, HandsFit
    <3>3. (Running(v)' <=> Running(v)) /\ (Running(v) => pc'[v] = pc[v] /\ held'[v] = held[v])
      BY <1>26 DEF UndoFlag, Running, ThreadTypeOK
    <3>4. mFlaggedAsActive'[v] = (v # worker[t] /\ mFlaggedAsActive[v])
      BY <1>26 DEF UndoFlag, SchedulerTypeOK
    <3>5. UNCHANGED <<mWorkers, assignVars>>
      BY <1>26 DEF UndoFlag
    <3> QED
      BY <3>1, <3>2, <3>3, <3>4, <3>5 DEF AssignmentFits, DispatcherOwns, Running,
         Unassigned
  <2> QED
    BY <2>1, <2>2, <2>3 DEF OneOwnerPerWorker
<1>27. ASSUME NEW t \in Threads, ReturnPeeked(t)
      PROVE  OneOwnerPerWorker'
  BY <1>27, WorkersFrame
  DEF ReturnPeeked, KeepsDispatch, Dispatching, KeepsWork, Running, ThreadTypeOK,
     ThreadShape,
      HandsFit
<1>28. ASSUME NEW w \in Workers, SeeIdleWorker(w)
      PROVE  OneOwnerPerWorker'
  BY <1>28, WorkersFrame
  DEF SeeIdleWorker, KeepsDispatch, Dispatching, KeepsWork, Running, ThreadTypeOK,
     ThreadShape,
      HandsFit
<1>29. CASE SeeAllIdle
  BY <1>29, WorkersFrame
  DEF SeeAllIdle, KeepsDispatch, Dispatching, KeepsWork, Running, ThreadTypeOK,
     ThreadShape,
      HandsFit
<1>30. ASSUME NEW w \in Workers, SeeActiveWorker(w)
      PROVE  OneOwnerPerWorker'
  BY <1>30, WorkersFrame
  DEF SeeActiveWorker, KeepsDispatch, Dispatching, KeepsWork, Running, ThreadTypeOK,
     ThreadShape,
      HandsFit
<1>31. ASSUME NEW w \in Workers, PullWork(w)
      PROVE  OneOwnerPerWorker'
  <2>1. ASSUME NEW u \in Threads
        PROVE  DispatcherOwns(u)'
    <3>1. Dispatching(u)' => u # w /\ Dispatching(u) /\ worker'[u] = worker[u]
      BY <1>31 DEF PullWork, Dispatching, ThreadTypeOK
    <3>2. Dispatching(u) => worker[u] # w /\ worker[u] \in Workers
      BY <1>31 DEF PullWork, OneOwnerPerWorker, DispatcherOwns, Unassigned,
         SchedulerTypeOK
    <3>3. \A v \in Workers \ {w} : pc'[v] = pc[v] /\ mPendingWork'[v] = mPendingWork[v]
      BY <1>31 DEF PullWork, ThreadTypeOK, SchedulerTypeOK
    <3> QED
      BY <1>31, <3>1, <3>2, <3>3
      DEF PullWork, OneOwnerPerWorker, DispatcherOwns, Unassigned, Running
  <2>2. ASSUME NEW r \in Threads, NEW u \in Threads,
               r # u, Dispatching(r)', Dispatching(u)'
        PROVE  worker'[r] # worker'[u]
    BY <1>31, <2>2 DEF PullWork, OneOwnerPerWorker, Dispatching,
       ThreadTypeOK
  <2>3. ASSUME NEW v \in Workers
        PROVE  AssignmentFits(v)'
    <3>1. AssignmentFits(v)
      BY DEF OneOwnerPerWorker
    <3>2. CASE v = w
      <4> DEFINE work == mPendingWork[w]
      <4>1. work = <<mActiveTaskID[w]>> /\ mFlaggedAsActive[w] /\ w \in mWorkers
        BY <1>31, <3>1, <3>2 DEF PullWork, AssignmentFits
      <4>2. work[Len(work)] = mActiveTaskID[w] /\ SubSeq(work, 1, Len(work) - 1) = << >>
        BY <4>1
      <4>3. /\ pc'[w] = "step" /\ held'[w] = work[Len(work)]
            /\ mPendingWork'[w] = SubSeq(work, 1, Len(work) - 1)
        BY <1>31 DEF PullWork, ThreadTypeOK, SchedulerTypeOK
      <4>4. UNCHANGED <<mFlaggedAsActive, mWorkers, mActiveTaskID>>
        BY <1>31 DEF PullWork
      <4> QED
        BY <3>2, <4>1, <4>2, <4>3, <4>4 DEF AssignmentFits, Running
    <3>3. CASE v # w
      <4>1. pc'[v] = pc[v] /\ held'[v] = held[v] /\ mPendingWork'[v] = mPendingWork[v]
        BY <1>31, <3>3 DEF PullWork, ThreadTypeOK, SchedulerTypeOK
      <4>2. UNCHANGED <<mFlaggedAsActive, mWorkers, mActiveTaskID, mActivePool>>
        BY <1>31 DEF PullWork
      <4> QED
        BY <3>1, <4>1, <4>2 DEF AssignmentFits, Running, Unassigned
    <3> QED
      BY <3>2, <3>3
  <2> QED
    BY <2>1, <2>2, <2>3 DEF OneOwnerPerWorker
<1>32. ASSUME NEW w \in Workers, NEW state \in TaskStates, StepReturns(w, state)
      PROVE  OneOwnerPerWorker'
  BY <1>32, WorkersFrame
  DEF StepReturns, KeepsDispatch, Dispatching, KeepsWork, Running, ThreadTypeOK,
     ThreadShape,
      HandsFit
<1>33. ASSUME NEW w \in Workers, ClearAssignment(w)
      PROVE  OneOwnerPerWorker'
  <2>1. ASSUME NEW u \in Threads
        PROVE  DispatcherOwns(u)'
    <3>1. Dispatching(u)' => u # w /\ Dispatching(u) /\ worker'[u] = worker[u]
      BY <1>33 DEF ClearAssignment, Dispatching, ThreadTypeOK
    <3>2. Dispatching(u) => worker[u] # w /\ worker[u] \in Workers
      BY <1>33 DEF ClearAssignment, OneOwnerPerWorker, DispatcherOwns, Running,
         SchedulerTypeOK
    <3>3. \A v \in Workers \ {w} : /\ pc'[v] = pc[v]
                                    /\ mActiveTaskID'[v] = mActiveTaskID[v]
                                    /\ mActivePool'[v] = mActivePool[v]
      BY <1>33 DEF ClearAssignment, ThreadTypeOK, SchedulerTypeOK
    <3> QED
      BY <1>33, <3>1, <3>2, <3>3
      DEF ClearAssignment, OneOwnerPerWorker, DispatcherOwns, Unassigned, Running
  <2>2. ASSUME NEW r \in Threads, NEW u \in Threads,
               r # u, Dispatching(r)', Dispatching(u)'
        PROVE  worker'[r] # worker'[u]
    BY <1>33, <2>2 DEF ClearAssignment, OneOwnerPerWorker, Dispatching,
       ThreadTypeOK
  <2>3. ASSUME NEW v \in Workers
        PROVE  AssignmentFits(v)'
    <3>1. AssignmentFits(v)
      BY DEF OneOwnerPerWorker
    <3>2. CASE v = w
      <4>1. /\ pc[w] = "clear" /\ pc'[w] = "settle"
            /\ mActiveTaskID'[w] = kInvalidTaskID /\ mActivePool'[w] = NoPool
        BY <1>33 DEF ClearAssignment, ThreadTypeOK, SchedulerTypeOK
      <4>2. UNCHANGED <<mFlaggedAsActive, mWorkers, mPendingWork>>
        BY <1>33 DEF ClearAssignment
      <4> QED
        BY <3>1, <3>2, <4>1, <4>2 DEF AssignmentFits, Running, Unassigned
    <3>3. CASE v # w
      <4>1. /\ pc'[v] = pc[v] /\ held'[v] = held[v]
            /\ mActiveTaskID'[v] = mActiveTaskID[v] /\ mActivePool'[v] = mActivePool[v]
        BY <1>33, <3>3 DEF ClearAssignment, ThreadTypeOK, SchedulerTypeOK
      <4>2. UNCHANGED <<mFlaggedAsActive, mWorkers, mPendingWork>>
        BY <1>33 DEF ClearAssignment
      <4> QED
        BY <3>1, <4>1, <4>2 DEF AssignmentFits, Running, Unassigned
    <3> QED
      BY <3>2, <3>3
  <2> QED
    BY <2>1, <2>2, <2>3 DEF OneOwnerPerWorker
<1>34. ASSUME NEW w \in Workers, ReturnAndUnblockTask(w)
      PROVE  OneOwnerPerWorker'
  BY <1>34, WorkersFrame
  DEF ReturnAndUnblockTask, KeepsDispatch, Dispatching, KeepsWork, Running,
     ThreadTypeOK, ThreadShape,
      HandsFit
<1>35. ASSUME NEW w \in Workers, RemoveBlockedTask(w)
      PROVE  OneOwnerPerWorker'
  BY <1>35, WorkersFrame
  DEF RemoveBlockedTask, KeepsDispatch, Dispatching, KeepsWork, Running, ThreadTypeOK,
     ThreadShape,
      HandsFit
<1>36. ASSUME NEW w \in Workers, ReleaseWorker(w)
      PROVE  OneOwnerPerWorker'
  <2>1. ASSUME NEW u \in Threads
        PROVE  DispatcherOwns(u)'
    BY SMTT(60), <1>36 DEF ReleaseWorker, OneOwnerPerWorker, DispatcherOwns, AssignmentFits,
       Dispatching, Running, Unassigned, SchedulerTypeOK, ThreadTypeOK, ThreadShape
  <2>2. ASSUME NEW r \in Threads, NEW u \in Threads,
               r # u, Dispatching(r)', Dispatching(u)'
        PROVE  worker'[r] # worker'[u]
    BY <1>36, <2>2 DEF ReleaseWorker, OneOwnerPerWorker, Dispatching,
       ThreadTypeOK
  <2>3. ASSUME NEW v \in Workers
        PROVE  AssignmentFits(v)'
    <3>1. AssignmentFits(v)
      BY DEF OneOwnerPerWorker
    <3>2. UNCHANGED <<mWorkers, assignVars, held>>
      BY <1>36 DEF ReleaseWorker
    <3>3. CASE v = w
      <4>1. pc[w] = "release" /\ pc'[w] = "check"
        BY <1>36 DEF ReleaseWorker, ThreadTypeOK
      <4> QED
        BY <3>1, <3>2, <3>3, <4>1 DEF AssignmentFits, Running, Unassigned
    <3>4. CASE v # w
      <4>1. pc'[v] = pc[v] /\ mFlaggedAsActive'[v] = mFlaggedAsActive[v]
        BY <1>36, <3>4 DEF ReleaseWorker, ThreadTypeOK, SchedulerTypeOK
      <4> QED
        BY <3>1, <3>2, <4>1 DEF AssignmentFits, Running, Unassigned
    <3> QED
      BY <3>3, <3>4
  <2> QED
    BY <2>1, <2>2, <2>3 DEF OneOwnerPerWorker
<1>37. CASE UNCHANGED vars
  BY <1>37 DEF vars, OneOwnerPerWorker, DispatcherOwns, AssignmentFits, Dispatching,
     Running, Unassigned
<1> HIDE DEF TypeOK
<1> QED
  BY <1>1, <1>2, <1>3, <1>4, <1>5, <1>6, <1>7, <1>8, <1>9, <1>10, <1>11,
     <1>12, <1>13, <1>14, <1>15, <1>16, <1>17, <1>18, <1>19, <1>20,
     <1>21, <1>22, <1>23, <1>24, <1>25, <1>26, <1>27, <1>28, <1>29,
     <1>30, <1>31, <1>32, <1>33, <1>34, <1>35, <1>36, <1>37
  DEF Next, Call, Direct, Proceed, Work, AreAllWorkersIdle

-----------------------------------------------------------------------------

\* A step keeps OneOwnerPerBlock if nobody takes hold of a task or is given one,
\* and only a thread that held a task unblocks or removes it.
KeepsHold(t) == Holding(t)' => /\ Holding(t)
                               /\ held'[t] = held[t]
                               /\ PoolOfHeld(t)' = PoolOfHeld(t)

KeepsPending(w) == mPendingWork'[w] # << >> => /\ mPendingWork[w] # << >>
                                               /\ mActiveTaskID'[w] = mActiveTaskID[w]
                                               /\ mActivePool'[w] = mActivePool[w]

Released(i) == \E t \in Threads : Holding(t) /\ held[t] = i /\ ~Holding(t)'

KeepsBlock(p, i) ==
  i \in mTaskRecords[p] /\ mBlocked[i] =>
    (i \in mTaskRecords'[p] /\ mBlocked'[i]) \/ Released(i)

LEMMA BlocksFrame ==
  ASSUME TypeOK, OneOwnerPerBlock,
         \A t \in Threads : KeepsHold(t),
         \A w \in Workers : KeepsPending(w),
         \A p \in Pools, i \in TaskIDs : KeepsBlock(p, i)
  PROVE  OneOwnerPerBlock'
<1>1. ASSUME NEW t \in Threads, Holding(t)'
      PROVE  HoldFits(t)'
  <2>1. Holding(t) /\ held'[t] = held[t] /\ PoolOfHeld(t)' = PoolOfHeld(t)
    BY <1>1 DEF KeepsHold
  <2>2. HoldFits(t)
    BY DEF OneOwnerPerBlock
  <2>3. ~Released(held[t])
    BY <1>1, <2>1 DEF Released, OneOwnerPerBlock
  <2> QED
    BY <2>1, <2>2, <2>3 DEF HoldFits, KeepsBlock
<1>2. ASSUME NEW s \in Threads, NEW t \in Threads,
             s # t, Holding(s)', Holding(t)'
      PROVE  held'[s] # held'[t]
  BY <1>2 DEF KeepsHold, OneOwnerPerBlock
<1>3. ASSUME NEW w \in Workers, mPendingWork'[w] # << >>
      PROVE  PendingFits(w)'
  <2>1. /\ mPendingWork[w] # << >> /\ PendingFits(w)
        /\ mActiveTaskID'[w] = mActiveTaskID[w] /\ mActivePool'[w] = mActivePool[w]
    BY <1>3 DEF KeepsPending, OneOwnerPerBlock
  <2>2. ~Released(mActiveTaskID[w])
    BY <2>1 DEF Released, PendingFits
  <2>3. mActiveTaskID[w] \in mTaskRecords'[mActivePool[w]] /\ mBlocked'[mActiveTaskID[w]]
    BY <2>1, <2>2 DEF PendingFits, KeepsBlock
  <2>4. \A t \in Threads : Holding(t)' => held'[t] # mActiveTaskID[w]
    BY <2>1 DEF PendingFits, KeepsHold
  <2>5. \A v \in Workers : v # w /\ mPendingWork'[v] # << >>
                             => mActiveTaskID'[v] # mActiveTaskID[w]
    BY <2>1 DEF PendingFits, KeepsPending
  <2> QED
    BY <2>1, <2>3, <2>4, <2>5 DEF PendingFits
<1>4. /\ \A t \in Threads : HoldFits(t)'
      /\ \A w \in Workers : PendingFits(w)'
  BY <1>1, <1>3 DEF HoldFits, PendingFits
<1> QED
  BY <1>2, <1>4 DEF OneOwnerPerBlock

\* A step keeps OneOwnerPerBlock if it blocks a free task for a thread to hold.
LEMMA BlockTaken ==
  ASSUME TypeOK, OneOwnerPerBlock,
         NEW t \in Threads, NEW i \in TaskIDs, NEW p \in Pools,
         ~mBlocked[i], mBlocked' = [mBlocked EXCEPT ![i] = TRUE],
         held'[t] = i, PoolOfHeld(t)' = p, i \in mTaskRecords[p],
         UNCHANGED <<mTaskRecords, mActiveTaskID, mActivePool, mPendingWork>>,
         \A s \in Threads \ {t} : KeepsHold(s)
  PROVE  OneOwnerPerBlock'
<1>1. mBlocked'[i] /\ \A j \in TaskIDs : mBlocked[j] => mBlocked'[j] /\ j # i
  BY DEF TypeOK, PoolTypeOK
<1>2. ASSUME NEW s \in Threads \ {t}, Holding(s)'
      PROVE  HoldFits(s)' /\ held'[s] # i
  <2>1. Holding(s) /\ held'[s] = held[s] /\ PoolOfHeld(s)' = PoolOfHeld(s)
    BY <1>2 DEF KeepsHold
  <2>2. HoldFits(s)
    BY DEF OneOwnerPerBlock
  <2> QED
    BY <1>1, <2>1, <2>2 DEF HoldFits
<1>3. HoldFits(t)'
  BY <1>1 DEF HoldFits
<1>4. ASSUME NEW w \in Workers, mPendingWork'[w] # << >>
      PROVE  PendingFits(w)'
  <2>1. PendingFits(w) /\ mPendingWork[w] # << >>
    BY <1>4 DEF OneOwnerPerBlock
  <2>2. ASSUME NEW s \in Threads, Holding(s)'
        PROVE  held'[s] # mActiveTaskID[w]
    BY <1>1, <2>1, <2>2 DEF PendingFits, KeepsHold
  <2> QED
    BY <1>1, <2>1, <2>2 DEF PendingFits
<1>5. /\ \A s \in Threads : HoldFits(s)'
      /\ \A w \in Workers : PendingFits(w)'
  BY <1>2, <1>3, <1>4 DEF HoldFits, PendingFits
<1>6. ASSUME NEW r \in Threads, NEW s \in Threads,
             r # s, Holding(r)', Holding(s)'
      PROVE  held'[r] # held'[s]
  BY <1>2, <1>6 DEF KeepsHold, OneOwnerPerBlock
<1> QED
  BY <1>5, <1>6 DEF OneOwnerPerBlock

\* Every step keeps the ownership of the blocks.
LEMMA OneOwnerPerBlockStep ==
  ASSUME TypeOK, ThreadShape, OneOwnerPerWorker,
         OneOwnerPerBlock, [Next]_vars
  PROVE  OneOwnerPerBlock'
<1> USE ConstantsAssumption DEF TypeOK
<1>1. ASSUME NEW t \in Clients, NEW w \in Workers, RegisterWorker(t, w)
      PROVE  OneOwnerPerBlock'
  BY <1>1, BlocksFrame
  DEF RegisterWorker, KeepsHold, Holding, PoolOfHeld, KeepsPending, KeepsBlock,
     ThreadTypeOK,
      PoolTypeOK, ThreadShape
<1>2. ASSUME NEW t \in Clients, NEW w \in Workers, UnregisterWorker(t, w)
      PROVE  OneOwnerPerBlock'
  BY <1>2, BlocksFrame
  DEF UnregisterWorker, KeepsHold, Holding, PoolOfHeld, KeepsPending, KeepsBlock,
     ThreadTypeOK,
      PoolTypeOK, ThreadShape
<1>3. ASSUME NEW t \in Clients, NEW p \in Pools, RegisterPool(t, p)
      PROVE  OneOwnerPerBlock'
  BY <1>3, BlocksFrame
  DEF RegisterPool, KeepsHold, Holding, PoolOfHeld, KeepsPending, KeepsBlock,
     ThreadTypeOK,
      PoolTypeOK, ThreadShape
<1>4. ASSUME NEW t \in Clients, NEW p \in Pools, AddTask(t, p)
      PROVE  OneOwnerPerBlock'
  BY SMTT(60), <1>4, BlocksFrame
  DEF AddTask, KeepsHold, Holding, PoolOfHeld, KeepsPending, KeepsBlock, ThreadTypeOK,
      PoolTypeOK, ThreadShape
<1>5. ASSUME NEW t \in Clients, NEW p \in Pools, AttemptAbortAllTasks(t, p)
      PROVE  OneOwnerPerBlock'
  BY <1>5, BlocksFrame
  DEF AttemptAbortAllTasks, KeepsHold, Holding, PoolOfHeld, KeepsPending, KeepsBlock,
     ThreadTypeOK,
      PoolTypeOK, ThreadShape
<1>6. ASSUME NEW t \in Clients, NEW p \in Pools, NEW i \in TaskIDs,
             AttemptAbortTask(t, p, i)
      PROVE  OneOwnerPerBlock'
  BY <1>6, BlocksFrame
  DEF AttemptAbortTask, KeepsHold, Holding, PoolOfHeld, KeepsPending, KeepsBlock,
     ThreadTypeOK,
      PoolTypeOK, ThreadShape
<1>7. CASE StartDispatching
  BY <1>7, BlocksFrame
  DEF StartDispatching, KeepsHold, Holding, PoolOfHeld, KeepsPending, KeepsBlock,
     ThreadTypeOK,
      PoolTypeOK, ThreadShape
<1>8. ASSUME NEW block \in BOOLEAN, StopDispatching(block)
      PROVE  OneOwnerPerBlock'
  BY <1>8, BlocksFrame
  DEF StopDispatching, KeepsHold, Holding, PoolOfHeld, KeepsPending, KeepsBlock,
     ThreadTypeOK,
      PoolTypeOK, ThreadShape
<1>9. CASE AllTasksAreCurrentlyCompleted
  BY <1>9, BlocksFrame
  DEF AllTasksAreCurrentlyCompleted, KeepsHold, Holding, PoolOfHeld, KeepsPending,
     KeepsBlock, ThreadTypeOK,
      PoolTypeOK, ThreadShape
<1>10. ASSUME NEW t \in Threads, OnTasksNewlyAvailable(t)
      PROVE  OneOwnerPerBlock'
  BY <1>10, BlocksFrame
  DEF OnTasksNewlyAvailable, KeepsHold, Holding, PoolOfHeld, KeepsPending, KeepsBlock,
     ThreadTypeOK,
      PoolTypeOK, ThreadShape
<1>11. ASSUME NEW t \in Threads, NEW i \in TaskIDs, BlockToAbort(t, i)
      PROVE  OneOwnerPerBlock'
  <2>1. CASE i \in mTaskRecords[pool[t]] /\ ~mBlocked[i]
    <3>1. /\ pc[t] = "abort" /\ pc' = [pc EXCEPT ![t] = "erase"]
          /\ held' = [held EXCEPT ![t] = i]
          /\ mBlocked' = [mBlocked EXCEPT ![i] = TRUE]
      BY <1>11, <2>1 DEF BlockToAbort
    <3>2. held'[t] = i /\ PoolOfHeld(t)' = pool[t] /\ pool[t] \in Pools
      BY <1>11, <3>1 DEF BlockToAbort, PoolOfHeld, ThreadTypeOK, ThreadShape, HandsFit
    <3>3. \A s \in Threads \ {t} : KeepsHold(s)
      BY <1>11, <3>1 DEF BlockToAbort, KeepsHold, Holding, PoolOfHeld, ThreadTypeOK
    <3> QED
      BY <1>11, <2>1, <3>1, <3>2, <3>3, BlockTaken DEF BlockToAbort
  <2>2. CASE i \notin mTaskRecords[pool[t]] \/ mBlocked[i]
    <3>1. /\ pc[t] = "abort"
          /\ \/ pc' = [pc EXCEPT ![t] = "missing"]
             \/ pc' = [pc EXCEPT ![t] = "pend"]
      BY <1>11, <2>2 DEF BlockToAbort
    <3>2. \A u \in Threads : KeepsHold(u)
      BY <1>11, <3>1 DEF BlockToAbort, KeepsHold, Holding, PoolOfHeld, ThreadTypeOK
    <3>3. \A v \in Workers : KeepsPending(v)
      BY <1>11 DEF BlockToAbort, KeepsPending
    <3>4. \A q \in Pools, j \in TaskIDs : KeepsBlock(q, j)
      BY <1>11 DEF BlockToAbort, KeepsBlock, PoolTypeOK
    <3> QED
      BY <3>2, <3>3, <3>4, BlocksFrame
  <2> QED
    BY <2>1, <2>2
<1>12. ASSUME NEW t \in Threads, MarkAbortPending(t)
      PROVE  OneOwnerPerBlock'
  BY <1>12, BlocksFrame
  DEF MarkAbortPending, KeepsHold, Holding, PoolOfHeld, KeepsPending, KeepsBlock,
     ThreadTypeOK,
      PoolTypeOK, ThreadShape
<1>13. ASSUME NEW t \in Threads, RemoveAborted(t)
      PROVE  OneOwnerPerBlock'
  <2>1. \A u \in Threads : KeepsHold(u)
    BY <1>13 DEF RemoveAborted, KeepsHold, Holding, PoolOfHeld, ThreadTypeOK,
       ThreadShape, HandsFit
  <2>2. \A v \in Workers : KeepsPending(v)
    BY <1>13 DEF RemoveAborted, KeepsPending
  <2>3. \A q \in Pools, j \in TaskIDs : KeepsBlock(q, j)
    <3>1. Holding(t) /\ ~Holding(t)'
      BY <1>13 DEF RemoveAborted, Holding, ThreadTypeOK
    <3> QED
      BY <1>13, <3>1 DEF RemoveAborted, KeepsBlock, Released, PoolTypeOK
  <2> QED
    BY <2>1, <2>2, <2>3, BlocksFrame
<1>14. ASSUME NEW t \in Threads, FailToLocate(t)
      PROVE  OneOwnerPerBlock'
  BY <1>14, BlocksFrame
  DEF FailToLocate, KeepsHold, Holding, PoolOfHeld, KeepsPending, KeepsBlock,
     ThreadTypeOK,
      PoolTypeOK, ThreadShape
<1>15. ASSUME NEW t \in Threads, AbortDone(t)
      PROVE  OneOwnerPerBlock'
  BY <1>15, BlocksFrame
  DEF AbortDone, KeepsHold, Holding, PoolOfHeld, KeepsPending, KeepsBlock, ThreadTypeOK,
      PoolTypeOK, ThreadShape
<1>16. ASSUME NEW t \in Threads, CheckPermitted(t)
      PROVE  OneOwnerPerBlock'
  BY <1>16, BlocksFrame
  DEF CheckPermitted, KeepsHold, Holding, PoolOfHeld, KeepsPending, KeepsBlock,
     ThreadTypeOK,
      PoolTypeOK, ThreadShape
<1>17. ASSUME NEW t \in Threads, NEW w \in Workers, FlagNextWorker(t, w)
      PROVE  OneOwnerPerBlock'
  BY <1>17, BlocksFrame
  DEF FlagNextWorker, KeepsHold, Holding, PoolOfHeld, KeepsPending, KeepsBlock,
     ThreadTypeOK,
      PoolTypeOK, ThreadShape
<1>18. ASSUME NEW t \in Threads, NoFurtherWorker(t)
      PROVE  OneOwnerPerBlock'
  BY <1>18, BlocksFrame
  DEF NoFurtherWorker, KeepsHold, Holding, PoolOfHeld, KeepsPending, KeepsBlock,
     ThreadTypeOK,
      PoolTypeOK, ThreadShape
<1>19. ASSUME NEW t \in Threads, EnterBlock(t)
      PROVE  OneOwnerPerBlock'
  BY <1>19, BlocksFrame
  DEF EnterBlock, KeepsHold, Holding, PoolOfHeld, KeepsPending, KeepsBlock,
     ThreadTypeOK,
      PoolTypeOK, ThreadShape
<1>20. ASSUME NEW t \in Threads, EnterPool(t)
      PROVE  OneOwnerPerBlock'
  BY <1>20, BlocksFrame
  DEF EnterPool, KeepsHold, Holding, PoolOfHeld, KeepsPending, KeepsBlock, ThreadTypeOK,
      PoolTypeOK, ThreadShape
<1>21. ASSUME NEW t \in Threads, LeaveBlocks(t)
      PROVE  OneOwnerPerBlock'
  BY <1>21, BlocksFrame
  DEF LeaveBlocks, KeepsHold, Holding, PoolOfHeld, KeepsPending, KeepsBlock,
     ThreadTypeOK,
      PoolTypeOK, ThreadShape
<1>22. ASSUME NEW t \in Threads, NEW i \in TaskIDs, VisitRecord(t, i)
      PROVE  OneOwnerPerBlock'
  BY <1>22, BlocksFrame
  DEF VisitRecord, KeepsHold, Holding, PoolOfHeld, KeepsPending, KeepsBlock,
     ThreadTypeOK,
      PoolTypeOK, ThreadShape
<1>23. ASSUME NEW t \in Threads, NoFurtherRecord(t)
      PROVE  OneOwnerPerBlock'
  BY <1>23, BlocksFrame
  DEF NoFurtherRecord, KeepsHold, Holding, PoolOfHeld, KeepsPending, KeepsBlock,
     ThreadTypeOK,
      PoolTypeOK, ThreadShape
<1>24. ASSUME NEW t \in Threads, TakeRecord(t)
      PROVE  OneOwnerPerBlock'
  <2>1. CASE ~mBlocked[cursor[t]]
    <3>1. /\ pc[t] = "take"
          /\ pc' = [pc EXCEPT ![t] = IF worker[t] = NoWorker THEN "unpeek" ELSE "give"]
          /\ held' = [held EXCEPT ![t] = cursor[t]]
          /\ mBlocked' = [mBlocked EXCEPT ![cursor[t]] = TRUE]
      BY <1>24, <2>1 DEF TakeRecord
    <3>2. pool[t] \in Pools /\ cursor[t] \in mTaskRecords[pool[t]]
      BY <3>1 DEF ThreadShape, HandsFit
    <3>3. cursor[t] \in TaskIDs
      BY <3>2 DEF PoolTypeOK
    <3>4. pc'[t] \in {"unpeek", "give"}
      BY <3>1 DEF ThreadTypeOK
    <3>5. held'[t] = cursor[t] /\ PoolOfHeld(t)' = pool[t]
      BY <1>24, <3>1, <3>4 DEF TakeRecord, PoolOfHeld, ThreadTypeOK
    <3>6. \A s \in Threads \ {t} : KeepsHold(s)
      BY <1>24, <3>1 DEF TakeRecord, KeepsHold, Holding, PoolOfHeld, ThreadTypeOK
    <3> QED
      BY <1>24, <2>1, <3>1, <3>2, <3>3, <3>5, <3>6, BlockTaken DEF TakeRecord
  <2>2. CASE mBlocked[cursor[t]]
    <3>1. pc[t] = "take" /\ pc' = [pc EXCEPT ![t] = "visit"]
      BY <1>24, <2>2 DEF TakeRecord
    <3>2. \A u \in Threads : KeepsHold(u)
      BY <1>24, <2>2, <3>1 DEF TakeRecord, KeepsHold, Holding, PoolOfHeld, ThreadTypeOK
    <3>3. \A v \in Workers : KeepsPending(v)
      BY <1>24 DEF TakeRecord, KeepsPending
    <3>4. \A q \in Pools, j \in TaskIDs : KeepsBlock(q, j)
      BY <1>24 DEF TakeRecord, KeepsBlock, PoolTypeOK
    <3> QED
      BY <3>2, <3>3, <3>4, BlocksFrame
  <2> QED
    BY <2>1, <2>2
<1>25. ASSUME NEW t \in Threads, GiveTask(t)
      PROVE  OneOwnerPerBlock'
  <2>0. PICK w \in Workers : w = worker[t]
    BY <1>25 DEF GiveTask, ThreadTypeOK, ThreadShape, HandsFit
  <2>1. /\ pc[t] = "give" /\ Holding(t) /\ PoolOfHeld(t) = pool[t]
        /\ HoldFits(t)
    BY <1>25 DEF GiveTask, Holding, PoolOfHeld, OneOwnerPerBlock, ThreadTypeOK,
       ThreadShape, HandsFit
  <2>2. ~Running(w)
    BY <2>0, <2>1 DEF OneOwnerPerWorker, DispatcherOwns, Dispatching, ThreadShape,
       HandsFit
  <2>3. /\ mActiveTaskID' = [mActiveTaskID EXCEPT ![w] = held[t]]
        /\ mActivePool' = [mActivePool EXCEPT ![w] = pool[t]]
        /\ mPendingWork' = [mPendingWork EXCEPT ![w] = Append(@, held[t])]
        /\ UNCHANGED <<mTaskRecords, mBlocked>>
    BY <1>25, <2>0 DEF GiveTask
  <2>4. ~Holding(t)' /\ \A u \in Threads \ {t} : /\ pc'[u] = pc[u] /\ held'[u] = held[u]
                                                 /\ pool'[u] = pool[u]
    BY <1>25 DEF GiveTask, Holding, ThreadTypeOK
  <2>5. ASSUME NEW u \in Threads
        PROVE  KeepsHold(u)
    <3>1. CASE u = t
      BY <2>4, <3>1 DEF KeepsHold
    <3>2. CASE u # t /\ pc[u] \in {"step", "clear"}
      BY <2>2, <2>3, <2>4, <3>2 DEF KeepsHold, Holding, PoolOfHeld, Running,
         SchedulerTypeOK, ThreadShape
    <3>3. CASE u # t /\ pc[u] \notin {"step", "clear"}
      BY <2>4, <3>3 DEF KeepsHold, Holding, PoolOfHeld
    <3> QED
      BY <3>1, <3>2, <3>3
  <2>6. ASSUME NEW u \in Threads, Holding(u)'
        PROVE  HoldFits(u)' /\ Holding(u) /\ u # t /\ held'[u] = held[u]
    BY <2>3, <2>4, <2>5, <2>6 DEF KeepsHold, HoldFits, OneOwnerPerBlock
  <2>7. ASSUME NEW v \in Workers \ {w}, mPendingWork'[v] # << >>
        PROVE  /\ mPendingWork[v] # << >> /\ PendingFits(v)
               /\ mActiveTaskID'[v] = mActiveTaskID[v] /\ mActivePool'[v] = mActivePool[v]
               /\ mActiveTaskID[v] # held[t]
    BY <2>1, <2>3, <2>7 DEF OneOwnerPerBlock, PendingFits, SchedulerTypeOK
  <2>8. mActiveTaskID'[w] = held[t] /\ mActivePool'[w] = pool[t]
    BY <2>1, <2>3 DEF SchedulerTypeOK
  <2>9. PendingFits(w)'
    <3>1. /\ held[t] \in TaskIDs /\ pool[t] \in Pools
          /\ held[t] \in mTaskRecords[pool[t]] /\ mBlocked[held[t]]
      BY <2>1 DEF HoldFits
    <3>2. \A u \in Threads : Holding(u)' => held'[u] # held[t]
      BY <2>1, <2>6 DEF OneOwnerPerBlock
    <3>3. \A v \in Workers : v # w /\ mPendingWork'[v] # << >>
                             => mActiveTaskID'[v] # held[t]
      BY <2>7
    <3>4. mTaskRecords' = mTaskRecords /\ mBlocked' = mBlocked
      BY <2>3
    <3> QED
      BY <2>8, <3>1, <3>2, <3>3, <3>4 DEF PendingFits
  <2>10. ASSUME NEW v \in Workers \ {w}, mPendingWork'[v] # << >>
         PROVE  PendingFits(v)'
    BY <2>3, <2>6, <2>7, <2>8, <2>10 DEF PendingFits
  <2>11. /\ \A u \in Threads : HoldFits(u)'
         /\ \A v \in Workers : PendingFits(v)'
    <3>1. \A u \in Threads : HoldFits(u)'
      BY <2>6 DEF HoldFits
    <3>2. \A v \in Workers \ {w} : PendingFits(v)'
      BY <2>10 DEF PendingFits
    <3> QED
      BY <2>9, <3>1, <3>2
  <2>12. ASSUME NEW r \in Threads, NEW u \in Threads, r # u, Holding(r)', Holding(u)'
         PROVE  held'[r] # held'[u]
    BY <2>6, <2>12 DEF OneOwnerPerBlock
  <2> QED
    BY <2>11, <2>12 DEF OneOwnerPerBlock
<1>26. ASSUME NEW t \in Threads, UndoFlag(t)
      PROVE  OneOwnerPerBlock'
  BY <1>26, BlocksFrame
  DEF UndoFlag, KeepsHold, Holding, PoolOfHeld, KeepsPending, KeepsBlock, ThreadTypeOK,
      PoolTypeOK, ThreadShape
<1>27. ASSUME NEW t \in Threads, ReturnPeeked(t)
      PROVE  OneOwnerPerBlock'
  <2>1. \A u \in Threads : KeepsHold(u)
    BY <1>27 DEF ReturnPeeked, KeepsHold, Holding, PoolOfHeld, ThreadTypeOK,
       ThreadShape, HandsFit
  <2>2. \A v \in Workers : KeepsPending(v)
    BY <1>27 DEF ReturnPeeked, KeepsPending
  <2>3. \A q \in Pools, j \in TaskIDs : KeepsBlock(q, j)
    <3>1. Holding(t) /\ ~Holding(t)'
      BY <1>27 DEF ReturnPeeked, Holding, ThreadTypeOK
    <3> QED
      BY <1>27, <3>1 DEF ReturnPeeked, KeepsBlock, Released, PoolTypeOK
  <2> QED
    BY <2>1, <2>2, <2>3, BlocksFrame
<1>28. ASSUME NEW w \in Workers, SeeIdleWorker(w)
      PROVE  OneOwnerPerBlock'
  BY <1>28, BlocksFrame
  DEF SeeIdleWorker, KeepsHold, Holding, PoolOfHeld, KeepsPending, KeepsBlock,
     ThreadTypeOK,
      PoolTypeOK, ThreadShape
<1>29. CASE SeeAllIdle
  BY <1>29, BlocksFrame
  DEF SeeAllIdle, KeepsHold, Holding, PoolOfHeld, KeepsPending, KeepsBlock,
     ThreadTypeOK,
      PoolTypeOK, ThreadShape
<1>30. ASSUME NEW w \in Workers, SeeActiveWorker(w)
      PROVE  OneOwnerPerBlock'
  BY <1>30, BlocksFrame
  DEF SeeActiveWorker, KeepsHold, Holding, PoolOfHeld, KeepsPending, KeepsBlock,
     ThreadTypeOK,
      PoolTypeOK, ThreadShape
<1>31. ASSUME NEW w \in Workers, PullWork(w)
      PROVE  OneOwnerPerBlock'
  <2> DEFINE work == mPendingWork[w]
  <2>1. pc[w] = "idle" /\ work # << >> /\ PendingFits(w) /\ AssignmentFits(w)
    BY <1>31 DEF PullWork, OneOwnerPerBlock, OneOwnerPerWorker
  <2>2. work = <<mActiveTaskID[w]>>
    BY <2>1 DEF AssignmentFits
  <2>3. work[Len(work)] = mActiveTaskID[w] /\ SubSeq(work, 1, Len(work) - 1) = << >>
    BY <2>2
  <2>4. /\ held' = [held EXCEPT ![w] = work[Len(work)]]
        /\ mPendingWork' = [mPendingWork EXCEPT ![w] = SubSeq(work, 1, Len(work) - 1)]
        /\ pc' = [pc EXCEPT ![w] = "step"]
        /\ UNCHANGED <<pool, mActiveTaskID, mActivePool, mTaskRecords, mBlocked>>
    BY <1>31 DEF PullWork
  <2> HIDE DEF work
  <2>5. pc'[w] = "step" /\ held'[w] = mActiveTaskID[w] /\ mPendingWork'[w] = << >>
    BY <2>3, <2>4 DEF ThreadTypeOK, SchedulerTypeOK
  <2>6. HoldFits(w)'
    BY <2>1, <2>4, <2>5 DEF HoldFits, PendingFits, PoolOfHeld, work
  <2>7. ASSUME NEW u \in Threads \ {w}, Holding(u)'
        PROVE  HoldFits(u)' /\ Holding(u) /\ held'[u] = held[u]
    <3>1. pc'[u] = pc[u] /\ held'[u] = held[u]
      BY <2>4 DEF ThreadTypeOK
    <3> QED
      BY <2>4, <2>7, <3>1 DEF HoldFits, Holding, PoolOfHeld, OneOwnerPerBlock
  <2>8. \A u \in Threads \ {w} : Holding(u)' => held'[u] # held'[w]
    BY <2>1, <2>5, <2>7 DEF PendingFits, work
  <2>9. ASSUME NEW v \in Workers, mPendingWork'[v] # << >>
        PROVE  PendingFits(v)'
    <3>1. v # w /\ mPendingWork'[v] = mPendingWork[v]
      BY <2>4, <2>5, <2>9 DEF SchedulerTypeOK
    <3>2. PendingFits(v) /\ mPendingWork[v] # << >> /\ mActiveTaskID[v] # mActiveTaskID[w]
      BY <2>1, <2>9, <3>1 DEF OneOwnerPerBlock, PendingFits, work
    <3>3. \A u \in Threads : Holding(u)' => held'[u] # mActiveTaskID[v]
      BY <2>5, <2>7, <3>2 DEF PendingFits
    <3>4. \A x \in Workers : x # v /\ mPendingWork'[x] # << >>
                             => mActiveTaskID[x] # mActiveTaskID[v]
      BY <2>4, <2>5, <3>2 DEF PendingFits, SchedulerTypeOK
    <3> QED
      BY <2>4, <3>2, <3>3, <3>4 DEF PendingFits
  <2>10. /\ \A u \in Threads : HoldFits(u)'
         /\ \A v \in Workers : PendingFits(v)'
    BY <2>6, <2>7, <2>9 DEF HoldFits, PendingFits
  <2>11. ASSUME NEW r \in Threads, NEW u \in Threads, r # u, Holding(r)', Holding(u)'
         PROVE  held'[r] # held'[u]
    BY <2>7, <2>8, <2>11 DEF OneOwnerPerBlock
  <2> QED
    BY <2>10, <2>11 DEF OneOwnerPerBlock
<1>32. ASSUME NEW w \in Workers, NEW state \in TaskStates, StepReturns(w, state)
      PROVE  OneOwnerPerBlock'
  BY <1>32, BlocksFrame
  DEF StepReturns, KeepsHold, Holding, PoolOfHeld, KeepsPending, KeepsBlock,
     ThreadTypeOK,
      PoolTypeOK, ThreadShape
<1>33. ASSUME NEW w \in Workers, ClearAssignment(w)
      PROVE  OneOwnerPerBlock'
  <2>1. \A u \in Threads : KeepsHold(u)
    <3>1. mActiveTaskID[w] = held[w]
      BY <1>33 DEF ClearAssignment, OneOwnerPerWorker, AssignmentFits
    <3>2. KeepsHold(w)
      BY <1>33, <3>1 DEF ClearAssignment, KeepsHold, Holding, PoolOfHeld, ThreadTypeOK
    <3>3. ASSUME NEW u \in Threads, u # w
          PROVE  KeepsHold(u)
      <4>1. pc'[u] = pc[u] /\ held'[u] = held[u] /\ pool'[u] = pool[u]
        BY <1>33, <3>3 DEF ClearAssignment, ThreadTypeOK
      <4>2. CASE pc[u] \in {"step", "clear"}
        <5>1. mActivePool'[u] = mActivePool[u]
          BY <1>33, <3>3, <4>2 DEF ClearAssignment, SchedulerTypeOK, ThreadShape
        <5> QED
          BY <4>1, <4>2, <5>1 DEF KeepsHold, Holding, PoolOfHeld
      <4>3. CASE pc[u] \notin {"step", "clear"}
        BY <4>1, <4>3 DEF KeepsHold, Holding, PoolOfHeld
      <4> QED
        BY <4>2, <4>3
    <3> QED
      BY <3>2, <3>3
  <2>2. \A v \in Workers : KeepsPending(v)
    BY <1>33 DEF ClearAssignment, KeepsPending, OneOwnerPerWorker, AssignmentFits,
       SchedulerTypeOK
  <2>3. \A q \in Pools, j \in TaskIDs : KeepsBlock(q, j)
    BY <1>33 DEF ClearAssignment, KeepsBlock
  <2> QED
    BY <2>1, <2>2, <2>3, BlocksFrame
<1>34. ASSUME NEW w \in Workers, ReturnAndUnblockTask(w)
      PROVE  OneOwnerPerBlock'
  <2>1. \A u \in Threads : KeepsHold(u)
    BY <1>34 DEF ReturnAndUnblockTask, KeepsHold, Holding, PoolOfHeld, ThreadTypeOK,
       ThreadShape, HandsFit
  <2>2. \A v \in Workers : KeepsPending(v)
    BY <1>34 DEF ReturnAndUnblockTask, KeepsPending
  <2>3. \A q \in Pools, j \in TaskIDs : KeepsBlock(q, j)
    <3>1. Holding(w) /\ ~Holding(w)'
      BY <1>34 DEF ReturnAndUnblockTask, Holding, ThreadTypeOK
    <3> QED
      BY <1>34, <3>1 DEF ReturnAndUnblockTask, KeepsBlock, Released, PoolTypeOK
  <2> QED
    BY <2>1, <2>2, <2>3, BlocksFrame
<1>35. ASSUME NEW w \in Workers, RemoveBlockedTask(w)
      PROVE  OneOwnerPerBlock'
  <2>1. \A u \in Threads : KeepsHold(u)
    BY <1>35 DEF RemoveBlockedTask, KeepsHold, Holding, PoolOfHeld, ThreadTypeOK,
       ThreadShape, HandsFit
  <2>2. \A v \in Workers : KeepsPending(v)
    BY <1>35 DEF RemoveBlockedTask, KeepsPending
  <2>3. \A q \in Pools, j \in TaskIDs : KeepsBlock(q, j)
    <3>1. Holding(w) /\ ~Holding(w)'
      BY <1>35 DEF RemoveBlockedTask, Holding, ThreadTypeOK
    <3> QED
      BY <1>35, <3>1 DEF RemoveBlockedTask, KeepsBlock, Released, PoolTypeOK
  <2> QED
    BY <2>1, <2>2, <2>3, BlocksFrame
<1>36. ASSUME NEW w \in Workers, ReleaseWorker(w)
      PROVE  OneOwnerPerBlock'
  BY <1>36, BlocksFrame
  DEF ReleaseWorker, KeepsHold, Holding, PoolOfHeld, KeepsPending, KeepsBlock,
     ThreadTypeOK,
      PoolTypeOK, ThreadShape
<1>37. CASE UNCHANGED vars
  BY <1>37 DEF vars, OneOwnerPerBlock, HoldFits, PendingFits, Holding, PoolOfHeld
<1> HIDE DEF TypeOK
<1> QED
  BY <1>1, <1>2, <1>3, <1>4, <1>5, <1>6, <1>7, <1>8, <1>9, <1>10, <1>11,
     <1>12, <1>13, <1>14, <1>15, <1>16, <1>17, <1>18, <1>19, <1>20,
     <1>21, <1>22, <1>23, <1>24, <1>25, <1>26, <1>27, <1>28, <1>29,
     <1>30, <1>31, <1>32, <1>33, <1>34, <1>35, <1>36, <1>37
  DEF Next, Call, Direct, Proceed, Work, AreAllWorkersIdle

-----------------------------------------------------------------------------

\* A step keeps OneRecordPerTask if it makes no record and blocks only tasks that
\* have one.
LEMMA RecordsFrame ==
  ASSUME OneRecordPerTask, nextID' = nextID,
         \A p \in Pools : mTaskRecords'[p] \subseteq mTaskRecords[p],
         \A i \in TaskIDs : mBlocked'[i] =>
           mBlocked[i] \/ \E p \in Pools : i \in mTaskRecords[p]
  PROVE  OneRecordPerTask'
BY DEF OneRecordPerTask

\* Every step keeps the records of the tasks apart.
LEMMA OneRecordPerTaskStep ==
  ASSUME TypeOK, ThreadShape, OneRecordPerTask, [Next]_vars
  PROVE  OneRecordPerTask'
<1> USE ConstantsAssumption DEF TypeOK
<1>1. ASSUME NEW t \in Clients, NEW w \in Workers, RegisterWorker(t, w)
      PROVE  OneRecordPerTask'
  BY <1>1, RecordsFrame DEF RegisterWorker
<1>2. ASSUME NEW t \in Clients, NEW w \in Workers, UnregisterWorker(t, w)
      PROVE  OneRecordPerTask'
  BY <1>2, RecordsFrame DEF UnregisterWorker
<1>3. ASSUME NEW t \in Clients, NEW p \in Pools, RegisterPool(t, p)
      PROVE  OneRecordPerTask'
  BY <1>3, RecordsFrame DEF RegisterPool
<1>4. ASSUME NEW t \in Clients, NEW p \in Pools, AddTask(t, p)
      PROVE  OneRecordPerTask'
  <2>1. /\ nextID \in Nat /\ nextID' = nextID + 1 /\ mBlocked' = mBlocked
        /\ mTaskRecords'[p] = mTaskRecords[p] \cup {nextID}
        /\ \A q \in Pools \ {p} : mTaskRecords'[q] = mTaskRecords[q]
    BY <1>4 DEF AddTask, PoolTypeOK
  <2>2. \A q \in Pools : \A j \in mTaskRecords[q] : j \in Nat /\ j < nextID
    BY DEF OneRecordPerTask, PoolTypeOK
  <2>3. \A j \in TaskIDs : mBlocked'[j] => j < nextID'
    BY <2>1 DEF OneRecordPerTask
  <2>4. ASSUME NEW q \in Pools, NEW j \in mTaskRecords'[q]
        PROVE  j < nextID' /\ \A r \in Pools \ {q} : j \notin mTaskRecords'[r]
    BY <2>1, <2>2 DEF OneRecordPerTask
  <2> QED
    BY <2>3, <2>4 DEF OneRecordPerTask
<1>5. ASSUME NEW t \in Clients, NEW p \in Pools, AttemptAbortAllTasks(t, p)
      PROVE  OneRecordPerTask'
  BY <1>5, RecordsFrame DEF AttemptAbortAllTasks
<1>6. ASSUME NEW t \in Clients, NEW p \in Pools, NEW i \in TaskIDs,
             AttemptAbortTask(t, p, i)
      PROVE  OneRecordPerTask'
  BY <1>6, RecordsFrame DEF AttemptAbortTask
<1>7. CASE StartDispatching
  BY <1>7, RecordsFrame DEF StartDispatching
<1>8. ASSUME NEW block \in BOOLEAN, StopDispatching(block)
      PROVE  OneRecordPerTask'
  BY <1>8, RecordsFrame DEF StopDispatching
<1>9. CASE AllTasksAreCurrentlyCompleted
  BY <1>9, RecordsFrame DEF AllTasksAreCurrentlyCompleted
<1>10. ASSUME NEW t \in Threads, OnTasksNewlyAvailable(t)
      PROVE  OneRecordPerTask'
  BY <1>10, RecordsFrame DEF OnTasksNewlyAvailable
<1>11. ASSUME NEW t \in Threads, NEW i \in TaskIDs, BlockToAbort(t, i)
      PROVE  OneRecordPerTask'
  <2>1. i \in mTaskRecords[pool[t]] => pool[t] \in Pools
    BY <1>11 DEF BlockToAbort, ThreadShape, HandsFit
  <2> QED
    BY <1>11, <2>1, RecordsFrame DEF BlockToAbort, PoolTypeOK
<1>12. ASSUME NEW t \in Threads, MarkAbortPending(t)
      PROVE  OneRecordPerTask'
  BY <1>12, RecordsFrame DEF MarkAbortPending
<1>13. ASSUME NEW t \in Threads, RemoveAborted(t)
      PROVE  OneRecordPerTask'
  BY <1>13, RecordsFrame DEF RemoveAborted, PoolTypeOK
<1>14. ASSUME NEW t \in Threads, FailToLocate(t)
      PROVE  OneRecordPerTask'
  BY <1>14, RecordsFrame DEF FailToLocate
<1>15. ASSUME NEW t \in Threads, AbortDone(t)
      PROVE  OneRecordPerTask'
  BY <1>15, RecordsFrame DEF AbortDone
<1>16. ASSUME NEW t \in Threads, CheckPermitted(t)
      PROVE  OneRecordPerTask'
  BY <1>16, RecordsFrame DEF CheckPermitted
<1>17. ASSUME NEW t \in Threads, NEW w \in Workers, FlagNextWorker(t, w)
      PROVE  OneRecordPerTask'
  BY <1>17, RecordsFrame DEF FlagNextWorker
<1>18. ASSUME NEW t \in Threads, NoFurtherWorker(t)
      PROVE  OneRecordPerTask'
  BY <1>18, RecordsFrame DEF NoFurtherWorker
<1>19. ASSUME NEW t \in Threads, EnterBlock(t)
      PROVE  OneRecordPerTask'
  BY <1>19, RecordsFrame DEF EnterBlock
<1>20. ASSUME NEW t \in Threads, EnterPool(t)
      PROVE  OneRecordPerTask'
  BY <1>20, RecordsFrame DEF EnterPool
<1>21. ASSUME NEW t \in Threads, LeaveBlocks(t)
      PROVE  OneRecordPerTask'
  BY <1>21, RecordsFrame DEF LeaveBlocks
<1>22. ASSUME NEW t \in Threads, NEW i \in TaskIDs, VisitRecord(t, i)
      PROVE  OneRecordPerTask'
  BY <1>22, RecordsFrame DEF VisitRecord
<1>23. ASSUME NEW t \in Threads, NoFurtherRecord(t)
      PROVE  OneRecordPerTask'
  BY <1>23, RecordsFrame DEF NoFurtherRecord
<1>24. ASSUME NEW t \in Threads, TakeRecord(t)
      PROVE  OneRecordPerTask'
  <2>1. pool[t] \in Pools /\ cursor[t] \in mTaskRecords[pool[t]]
    BY <1>24 DEF TakeRecord, ThreadShape, HandsFit
  <2> QED
    BY <1>24, <2>1, RecordsFrame DEF TakeRecord, PoolTypeOK
<1>25. ASSUME NEW t \in Threads, GiveTask(t)
      PROVE  OneRecordPerTask'
  BY <1>25, RecordsFrame DEF GiveTask
<1>26. ASSUME NEW t \in Threads, UndoFlag(t)
      PROVE  OneRecordPerTask'
  BY <1>26, RecordsFrame DEF UndoFlag
<1>27. ASSUME NEW t \in Threads, ReturnPeeked(t)
      PROVE  OneRecordPerTask'
  BY <1>27, RecordsFrame DEF ReturnPeeked, PoolTypeOK
<1>28. ASSUME NEW w \in Workers, SeeIdleWorker(w)
      PROVE  OneRecordPerTask'
  BY <1>28, RecordsFrame DEF SeeIdleWorker
<1>29. CASE SeeAllIdle
  BY <1>29, RecordsFrame DEF SeeAllIdle
<1>30. ASSUME NEW w \in Workers, SeeActiveWorker(w)
      PROVE  OneRecordPerTask'
  BY <1>30, RecordsFrame DEF SeeActiveWorker
<1>31. ASSUME NEW w \in Workers, PullWork(w)
      PROVE  OneRecordPerTask'
  BY <1>31, RecordsFrame DEF PullWork
<1>32. ASSUME NEW w \in Workers, NEW state \in TaskStates, StepReturns(w, state)
      PROVE  OneRecordPerTask'
  BY <1>32, RecordsFrame DEF StepReturns
<1>33. ASSUME NEW w \in Workers, ClearAssignment(w)
      PROVE  OneRecordPerTask'
  BY <1>33, RecordsFrame DEF ClearAssignment
<1>34. ASSUME NEW w \in Workers, ReturnAndUnblockTask(w)
      PROVE  OneRecordPerTask'
  BY <1>34, RecordsFrame DEF ReturnAndUnblockTask, PoolTypeOK
<1>35. ASSUME NEW w \in Workers, RemoveBlockedTask(w)
      PROVE  OneRecordPerTask'
  BY <1>35, RecordsFrame DEF RemoveBlockedTask, PoolTypeOK
<1>36. ASSUME NEW w \in Workers, ReleaseWorker(w)
      PROVE  OneRecordPerTask'
  BY <1>36, RecordsFrame DEF ReleaseWorker
<1>37. CASE UNCHANGED vars
  BY <1>37 DEF vars, OneRecordPerTask
<1> HIDE DEF TypeOK
<1> QED
  BY <1>1, <1>2, <1>3, <1>4, <1>5, <1>6, <1>7, <1>8, <1>9, <1>10, <1>11,
     <1>12, <1>13, <1>14, <1>15, <1>16, <1>17, <1>18, <1>19, <1>20,
     <1>21, <1>22, <1>23, <1>24, <1>25, <1>26, <1>27, <1>28, <1>29,
     <1>30, <1>31, <1>32, <1>33, <1>34, <1>35, <1>36, <1>37
  DEF Next, Call, Direct, Proceed, Work, AreAllWorkersIdle

-----------------------------------------------------------------------------

\* A step keeps BlocksAnswered if whoever answered for a block goes on doing so,
\* or the block is answered for by another, or the task is unblocked or removed.
KeepsAnswer(t) == Holding(t) => Holding(t)' /\ held'[t] = held[t]

StaysPending(w) == mPendingWork[w] # << >> => /\ mPendingWork'[w] # << >>
                                           /\ mActiveTaskID'[w] = mActiveTaskID[w]

Freed(i) == \A p \in Pools : i \in mTaskRecords'[p] => ~mBlocked'[i]

LEMMA AnswersFrame ==
  ASSUME TypeOK, BlocksAnswered,
         \A p \in Pools : \A i \in mTaskRecords'[p] : mBlocked'[i] =>
           Answered(i)' \/ (i \in mTaskRecords[p] /\ mBlocked[i]),
         \A t \in Threads :
           \/ KeepsAnswer(t)
           \/ \E i \in TaskIDs : held[t] = i /\ (Answered(i)' \/ Freed(i)),
         \A w \in Workers :
           \/ StaysPending(w)
           \/ \E i \in TaskIDs : mActiveTaskID[w] = i /\ Answered(i)'
  PROVE  BlocksAnswered'
<1> SUFFICES ASSUME NEW p \in Pools, NEW i \in mTaskRecords'[p], mBlocked'[i]
             PROVE  Answered(i)'
  BY DEF BlocksAnswered
<1>1. CASE i \in mTaskRecords[p] /\ mBlocked[i]
  <2>1. ~Freed(i)
    BY DEF Freed
  <2>2. ASSUME NEW t \in Threads, Holding(t), held[t] = i
        PROVE  Answered(i)'
    <3>1. CASE KeepsAnswer(t)
      BY <2>2, <3>1 DEF KeepsAnswer, Answered
    <3>2. CASE ~KeepsAnswer(t)
      BY <2>1, <2>2, <3>2
    <3> QED
      BY <3>1, <3>2
  <2>3. ASSUME NEW w \in Workers, mPendingWork[w] # << >>, mActiveTaskID[w] = i
        PROVE  Answered(i)'
    <3>1. CASE StaysPending(w)
      BY <2>3, <3>1 DEF StaysPending, Answered
    <3>2. CASE ~StaysPending(w)
      BY <2>3, <3>2
    <3> QED
      BY <3>1, <3>2
  <2>4. Answered(i)
    BY <1>1 DEF BlocksAnswered
  <2> QED
    BY <2>2, <2>3, <2>4 DEF Answered
<1> QED
  BY <1>1

\* Every step leaves a block with somebody who answers for it.
LEMMA BlocksAnsweredStep ==
  ASSUME TypeOK, ThreadShape, OneOwnerPerWorker, OneOwnerPerBlock,
         OneRecordPerTask, BlocksAnswered, [Next]_vars
  PROVE  BlocksAnswered'
<1> USE ConstantsAssumption DEF TypeOK
<1>1. ASSUME NEW t \in Clients, NEW w \in Workers, RegisterWorker(t, w)
      PROVE  BlocksAnswered'
  BY <1>1, AnswersFrame
  DEF RegisterWorker, KeepsAnswer, Holding, StaysPending, ThreadTypeOK, ThreadShape
<1>2. ASSUME NEW t \in Clients, NEW w \in Workers, UnregisterWorker(t, w)
      PROVE  BlocksAnswered'
  BY <1>2, AnswersFrame
  DEF UnregisterWorker, KeepsAnswer, Holding, StaysPending, ThreadTypeOK, ThreadShape
<1>3. ASSUME NEW t \in Clients, NEW p \in Pools, RegisterPool(t, p)
      PROVE  BlocksAnswered'
  BY <1>3, AnswersFrame
  DEF RegisterPool, KeepsAnswer, Holding, StaysPending, ThreadTypeOK, ThreadShape
<1>4. ASSUME NEW t \in Clients, NEW p \in Pools, AddTask(t, p)
      PROVE  BlocksAnswered'
  <2>1. /\ mBlocked' = mBlocked /\ nextID \in TaskIDs /\ ~mBlocked[nextID]
        /\ mTaskRecords'[p] = mTaskRecords[p] \cup {nextID}
        /\ \A q \in Pools \ {p} : mTaskRecords'[q] = mTaskRecords[q]
    BY <1>4 DEF AddTask, PoolTypeOK, OneRecordPerTask
  <2>2. \A s \in Threads : KeepsAnswer(s)
    BY <1>4 DEF AddTask, KeepsAnswer, Holding, ThreadTypeOK
  <2>3. \A v \in Workers : StaysPending(v)
    BY <1>4 DEF AddTask, StaysPending
  <2>4. \A q \in Pools : \A j \in mTaskRecords'[q] : mBlocked'[j] =>
          j \in mTaskRecords[q] /\ mBlocked[j]
    BY <2>1
  <2> QED
    BY <2>2, <2>3, <2>4, AnswersFrame
<1>5. ASSUME NEW t \in Clients, NEW p \in Pools, AttemptAbortAllTasks(t, p)
      PROVE  BlocksAnswered'
  BY <1>5, AnswersFrame
  DEF AttemptAbortAllTasks, KeepsAnswer, Holding, StaysPending, ThreadTypeOK,
     ThreadShape
<1>6. ASSUME NEW t \in Clients, NEW p \in Pools, NEW i \in TaskIDs,
             AttemptAbortTask(t, p, i)
      PROVE  BlocksAnswered'
  BY <1>6, AnswersFrame
  DEF AttemptAbortTask, KeepsAnswer, Holding, StaysPending, ThreadTypeOK, ThreadShape
<1>7. CASE StartDispatching
  BY <1>7, AnswersFrame
  DEF StartDispatching, KeepsAnswer, Holding, StaysPending, ThreadTypeOK, ThreadShape
<1>8. ASSUME NEW block \in BOOLEAN, StopDispatching(block)
      PROVE  BlocksAnswered'
  BY <1>8, AnswersFrame
  DEF StopDispatching, KeepsAnswer, Holding, StaysPending, ThreadTypeOK, ThreadShape
<1>9. CASE AllTasksAreCurrentlyCompleted
  BY <1>9, AnswersFrame
  DEF AllTasksAreCurrentlyCompleted, KeepsAnswer, Holding, StaysPending, ThreadTypeOK,
     ThreadShape
<1>10. ASSUME NEW t \in Threads, OnTasksNewlyAvailable(t)
      PROVE  BlocksAnswered'
  BY <1>10, AnswersFrame
  DEF OnTasksNewlyAvailable, KeepsAnswer, Holding, StaysPending, ThreadTypeOK,
     ThreadShape
<1>11. ASSUME NEW t \in Threads, NEW i \in TaskIDs, BlockToAbort(t, i)
      PROVE  BlocksAnswered'
  <2>1. CASE i \in mTaskRecords[pool[t]] /\ ~mBlocked[i]
    <3>1. Holding(t)' /\ held'[t] = i
      BY <1>11, <2>1 DEF BlockToAbort, Holding, ThreadTypeOK
    <3>2. Answered(i)'
      BY <3>1 DEF Answered
    <3>3. \A j \in TaskIDs : mBlocked'[j] => mBlocked[j] \/ j = i
      BY <1>11, <2>1 DEF BlockToAbort, PoolTypeOK
    <3>4. \A s \in Threads : KeepsAnswer(s)
      BY <1>11, <2>1 DEF BlockToAbort, KeepsAnswer, Holding, ThreadTypeOK
    <3>5. (\A v \in Workers : StaysPending(v)) /\ mTaskRecords' = mTaskRecords
      BY <1>11 DEF BlockToAbort, StaysPending
    <3> QED
      BY <3>2, <3>3, <3>4, <3>5, AnswersFrame DEF PoolTypeOK
  <2>2. CASE i \notin mTaskRecords[pool[t]] \/ mBlocked[i]
    <3>1. mBlocked' = mBlocked /\ mTaskRecords' = mTaskRecords
      BY <1>11, <2>2 DEF BlockToAbort, PoolTypeOK
    <3>2. \A s \in Threads : KeepsAnswer(s)
      BY <1>11, <2>2 DEF BlockToAbort, KeepsAnswer, Holding, ThreadTypeOK
    <3>3. \A v \in Workers : StaysPending(v)
      BY <1>11 DEF BlockToAbort, StaysPending
    <3> QED
      BY <3>1, <3>2, <3>3, AnswersFrame
  <2> QED
    BY <2>1, <2>2
<1>12. ASSUME NEW t \in Threads, MarkAbortPending(t)
      PROVE  BlocksAnswered'
  BY <1>12, AnswersFrame
  DEF MarkAbortPending, KeepsAnswer, Holding, StaysPending, ThreadTypeOK, ThreadShape
<1>13. ASSUME NEW t \in Threads, RemoveAborted(t)
      PROVE  BlocksAnswered'
  <2>1. HoldFits(t) /\ Holding(t) /\ PoolOfHeld(t) = pool[t]
    BY <1>13 DEF RemoveAborted, Holding, PoolOfHeld, OneOwnerPerBlock
  <2>2. PICK i \in TaskIDs : i = held[t]
    BY <2>1 DEF HoldFits
  <2>3. Freed(i) /\ mBlocked' = mBlocked
        /\ \A q \in Pools : mTaskRecords'[q] \subseteq mTaskRecords[q]
    BY <1>13, <2>1, <2>2 DEF RemoveAborted, Freed, HoldFits, OneRecordPerTask, PoolTypeOK
  <2>4. \A s \in Threads \ {t} : KeepsAnswer(s)
    BY <1>13 DEF RemoveAborted, KeepsAnswer, Holding, ThreadTypeOK
  <2>5. \A v \in Workers : StaysPending(v)
    BY <1>13 DEF RemoveAborted, StaysPending
  <2> QED
    BY <2>2, <2>3, <2>4, <2>5, AnswersFrame DEF PoolTypeOK
<1>14. ASSUME NEW t \in Threads, FailToLocate(t)
      PROVE  BlocksAnswered'
  BY <1>14, AnswersFrame
  DEF FailToLocate, KeepsAnswer, Holding, StaysPending, ThreadTypeOK, ThreadShape
<1>15. ASSUME NEW t \in Threads, AbortDone(t)
      PROVE  BlocksAnswered'
  BY <1>15, AnswersFrame
  DEF AbortDone, KeepsAnswer, Holding, StaysPending, ThreadTypeOK, ThreadShape
<1>16. ASSUME NEW t \in Threads, CheckPermitted(t)
      PROVE  BlocksAnswered'
  BY <1>16, AnswersFrame
  DEF CheckPermitted, KeepsAnswer, Holding, StaysPending, ThreadTypeOK, ThreadShape
<1>17. ASSUME NEW t \in Threads, NEW w \in Workers, FlagNextWorker(t, w)
      PROVE  BlocksAnswered'
  BY <1>17, AnswersFrame
  DEF FlagNextWorker, KeepsAnswer, Holding, StaysPending, ThreadTypeOK, ThreadShape
<1>18. ASSUME NEW t \in Threads, NoFurtherWorker(t)
      PROVE  BlocksAnswered'
  BY <1>18, AnswersFrame
  DEF NoFurtherWorker, KeepsAnswer, Holding, StaysPending, ThreadTypeOK, ThreadShape
<1>19. ASSUME NEW t \in Threads, EnterBlock(t)
      PROVE  BlocksAnswered'
  BY <1>19, AnswersFrame
  DEF EnterBlock, KeepsAnswer, Holding, StaysPending, ThreadTypeOK, ThreadShape
<1>20. ASSUME NEW t \in Threads, EnterPool(t)
      PROVE  BlocksAnswered'
  BY <1>20, AnswersFrame
  DEF EnterPool, KeepsAnswer, Holding, StaysPending, ThreadTypeOK, ThreadShape
<1>21. ASSUME NEW t \in Threads, LeaveBlocks(t)
      PROVE  BlocksAnswered'
  BY <1>21, AnswersFrame
  DEF LeaveBlocks, KeepsAnswer, Holding, StaysPending, ThreadTypeOK, ThreadShape
<1>22. ASSUME NEW t \in Threads, NEW i \in TaskIDs, VisitRecord(t, i)
      PROVE  BlocksAnswered'
  BY <1>22, AnswersFrame
  DEF VisitRecord, KeepsAnswer, Holding, StaysPending, ThreadTypeOK, ThreadShape
<1>23. ASSUME NEW t \in Threads, NoFurtherRecord(t)
      PROVE  BlocksAnswered'
  BY <1>23, AnswersFrame
  DEF NoFurtherRecord, KeepsAnswer, Holding, StaysPending, ThreadTypeOK, ThreadShape
<1>24. ASSUME NEW t \in Threads, TakeRecord(t)
      PROVE  BlocksAnswered'
  <2>1. CASE ~mBlocked[cursor[t]]
    <3>1. PICK i \in TaskIDs : i = cursor[t]
      BY <1>24 DEF TakeRecord, ThreadShape, HandsFit, PoolTypeOK
    <3>2. Holding(t)' /\ held'[t] = i
      BY <1>24, <2>1, <3>1 DEF TakeRecord, Holding, ThreadTypeOK
    <3>3. Answered(i)'
      BY <3>2 DEF Answered
    <3>4. \A j \in TaskIDs : mBlocked'[j] => mBlocked[j] \/ j = i
      BY <1>24, <3>1 DEF TakeRecord, PoolTypeOK
    <3>5. \A s \in Threads : KeepsAnswer(s)
      BY <1>24, <2>1 DEF TakeRecord, KeepsAnswer, Holding, ThreadTypeOK
    <3>6. (\A v \in Workers : StaysPending(v)) /\ mTaskRecords' = mTaskRecords
      BY <1>24 DEF TakeRecord, StaysPending
    <3> QED
      BY <3>3, <3>4, <3>5, <3>6, AnswersFrame DEF PoolTypeOK
  <2>2. CASE mBlocked[cursor[t]]
    <3>1. mBlocked' = mBlocked /\ mTaskRecords' = mTaskRecords
      BY <1>24, <2>2 DEF TakeRecord, PoolTypeOK
    <3>2. \A s \in Threads : KeepsAnswer(s)
      BY <1>24, <2>2 DEF TakeRecord, KeepsAnswer, Holding, ThreadTypeOK
    <3>3. \A v \in Workers : StaysPending(v)
      BY <1>24 DEF TakeRecord, StaysPending
    <3> QED
      BY <3>1, <3>2, <3>3, AnswersFrame
  <2> QED
    BY <2>1, <2>2
<1>25. ASSUME NEW t \in Threads, GiveTask(t)
      PROVE  BlocksAnswered'
  <2>1. PICK w \in Workers : w = worker[t]
    BY <1>25 DEF GiveTask, ThreadTypeOK, ThreadShape, HandsFit
  <2>2. PICK i \in TaskIDs : i = held[t]
    BY <1>25 DEF GiveTask, ThreadShape, HandsFit
  <2>3. mPendingWork[w] = << >>
    <3>1. Dispatching(t)
      BY <1>25 DEF GiveTask, Dispatching, ThreadShape, HandsFit
    <3> QED
      BY <2>1, <3>1 DEF OneOwnerPerWorker, DispatcherOwns, Unassigned
  <2>4. mPendingWork'[w] # << >> /\ mActiveTaskID'[w] = i
    BY <1>25, <2>1, <2>2, <2>3 DEF GiveTask, SchedulerTypeOK
  <2>5. Answered(i)'
    BY <2>4 DEF Answered
  <2>6. \A s \in Threads \ {t} : KeepsAnswer(s)
    BY <1>25 DEF GiveTask, KeepsAnswer, Holding, ThreadTypeOK
  <2>7. \A v \in Workers : StaysPending(v)
    BY <1>25, <2>1, <2>3 DEF GiveTask, StaysPending, SchedulerTypeOK
  <2>8. UNCHANGED <<mTaskRecords, mBlocked>>
    BY <1>25 DEF GiveTask
  <2> QED
    BY <2>2, <2>5, <2>6, <2>7, <2>8, AnswersFrame
<1>26. ASSUME NEW t \in Threads, UndoFlag(t)
      PROVE  BlocksAnswered'
  BY <1>26, AnswersFrame
  DEF UndoFlag, KeepsAnswer, Holding, StaysPending, ThreadTypeOK, ThreadShape
<1>27. ASSUME NEW t \in Threads, ReturnPeeked(t)
      PROVE  BlocksAnswered'
  <2>1. HoldFits(t) /\ Holding(t) /\ PoolOfHeld(t) = pool[t]
    BY <1>27 DEF ReturnPeeked, Holding, PoolOfHeld, OneOwnerPerBlock
  <2>2. PICK i \in TaskIDs : i = held[t]
    BY <2>1 DEF HoldFits
  <2>3. Freed(i) /\ mTaskRecords' = mTaskRecords
        /\ \A j \in TaskIDs : mBlocked'[j] => mBlocked[j]
    BY <1>27, <2>2 DEF ReturnPeeked, Freed, PoolTypeOK
  <2>4. \A s \in Threads \ {t} : KeepsAnswer(s)
    BY <1>27 DEF ReturnPeeked, KeepsAnswer, Holding, ThreadTypeOK
  <2>5. \A v \in Workers : StaysPending(v)
    BY <1>27 DEF ReturnPeeked, StaysPending
  <2> QED
    BY <2>2, <2>3, <2>4, <2>5, AnswersFrame DEF PoolTypeOK
<1>28. ASSUME NEW w \in Workers, SeeIdleWorker(w)
      PROVE  BlocksAnswered'
  BY <1>28, AnswersFrame
  DEF SeeIdleWorker, KeepsAnswer, Holding, StaysPending, ThreadTypeOK, ThreadShape
<1>29. CASE SeeAllIdle
  BY <1>29, AnswersFrame
  DEF SeeAllIdle, KeepsAnswer, Holding, StaysPending, ThreadTypeOK, ThreadShape
<1>30. ASSUME NEW w \in Workers, SeeActiveWorker(w)
      PROVE  BlocksAnswered'
  BY <1>30, AnswersFrame
  DEF SeeActiveWorker, KeepsAnswer, Holding, StaysPending, ThreadTypeOK, ThreadShape
<1>31. ASSUME NEW w \in Workers, PullWork(w)
      PROVE  BlocksAnswered'
  <2>1. PICK i \in TaskIDs : i = mActiveTaskID[w] /\ mPendingWork[w] = <<i>>
    BY <1>31
    DEF PullWork, OneOwnerPerWorker, AssignmentFits, OneOwnerPerBlock, PendingFits
  <2>2. Holding(w)' /\ held'[w] = i
    BY <1>31, <2>1 DEF PullWork, Holding, ThreadTypeOK
  <2>3. Answered(i)'
    BY <2>2 DEF Answered
  <2>4. \A s \in Threads : KeepsAnswer(s)
    BY <1>31 DEF PullWork, KeepsAnswer, Holding, ThreadTypeOK
  <2>5. \A v \in Workers \ {w} : StaysPending(v)
    BY <1>31 DEF PullWork, StaysPending, SchedulerTypeOK
  <2>6. UNCHANGED <<mTaskRecords, mBlocked>>
    BY <1>31 DEF PullWork
  <2> QED
    BY <2>1, <2>3, <2>4, <2>5, <2>6, AnswersFrame
<1>32. ASSUME NEW w \in Workers, NEW state \in TaskStates, StepReturns(w, state)
      PROVE  BlocksAnswered'
  BY <1>32, AnswersFrame
  DEF StepReturns, KeepsAnswer, Holding, StaysPending, ThreadTypeOK, ThreadShape
<1>33. ASSUME NEW w \in Workers, ClearAssignment(w)
      PROVE  BlocksAnswered'
  <2>1. mActiveTaskID[w] = held[w] /\ mPendingWork[w] = << >>
    BY <1>33 DEF ClearAssignment, OneOwnerPerWorker, AssignmentFits
  <2>2. \A s \in Threads : KeepsAnswer(s)
    BY <1>33, <2>1 DEF ClearAssignment, KeepsAnswer, Holding, ThreadTypeOK
  <2>3. \A v \in Workers : StaysPending(v)
    BY <1>33, <2>1 DEF ClearAssignment, StaysPending, SchedulerTypeOK
  <2>4. UNCHANGED <<mTaskRecords, mBlocked>>
    BY <1>33 DEF ClearAssignment
  <2> QED
    BY <2>2, <2>3, <2>4, AnswersFrame
<1>34. ASSUME NEW w \in Workers, ReturnAndUnblockTask(w)
      PROVE  BlocksAnswered'
  <2>1. HoldFits(w) /\ Holding(w) /\ PoolOfHeld(w) = pool[w]
    BY <1>34 DEF ReturnAndUnblockTask, Holding, PoolOfHeld, OneOwnerPerBlock
  <2>2. PICK i \in TaskIDs : i = held[w]
    BY <2>1 DEF HoldFits
  <2>3. Freed(i) /\ mTaskRecords' = mTaskRecords
        /\ \A j \in TaskIDs : mBlocked'[j] => mBlocked[j]
    BY <1>34, <2>2 DEF ReturnAndUnblockTask, Freed, PoolTypeOK
  <2>4. \A s \in Threads \ {w} : KeepsAnswer(s)
    BY <1>34 DEF ReturnAndUnblockTask, KeepsAnswer, Holding, ThreadTypeOK
  <2>5. \A v \in Workers : StaysPending(v)
    BY <1>34 DEF ReturnAndUnblockTask, StaysPending
  <2> QED
    BY <2>2, <2>3, <2>4, <2>5, AnswersFrame DEF PoolTypeOK
<1>35. ASSUME NEW w \in Workers, RemoveBlockedTask(w)
      PROVE  BlocksAnswered'
  <2>1. HoldFits(w) /\ Holding(w) /\ PoolOfHeld(w) = pool[w]
    BY <1>35 DEF RemoveBlockedTask, Holding, PoolOfHeld, OneOwnerPerBlock
  <2>2. PICK i \in TaskIDs : i = held[w]
    BY <2>1 DEF HoldFits
  <2>3. Freed(i) /\ mBlocked' = mBlocked
        /\ \A q \in Pools : mTaskRecords'[q] \subseteq mTaskRecords[q]
    BY <1>35, <2>1, <2>2
    DEF RemoveBlockedTask, Freed, HoldFits, OneRecordPerTask, PoolTypeOK
  <2>4. \A s \in Threads \ {w} : KeepsAnswer(s)
    BY <1>35 DEF RemoveBlockedTask, KeepsAnswer, Holding, ThreadTypeOK
  <2>5. \A v \in Workers : StaysPending(v)
    BY <1>35 DEF RemoveBlockedTask, StaysPending
  <2> QED
    BY <2>2, <2>3, <2>4, <2>5, AnswersFrame DEF PoolTypeOK
<1>36. ASSUME NEW w \in Workers, ReleaseWorker(w)
      PROVE  BlocksAnswered'
  BY <1>36, AnswersFrame
  DEF ReleaseWorker, KeepsAnswer, Holding, StaysPending, ThreadTypeOK, ThreadShape
<1>37. CASE UNCHANGED vars
  BY <1>37 DEF vars, BlocksAnswered, Answered, Holding
<1> HIDE DEF TypeOK
<1> QED
  BY <1>1, <1>2, <1>3, <1>4, <1>5, <1>6, <1>7, <1>8, <1>9, <1>10, <1>11,
     <1>12, <1>13, <1>14, <1>15, <1>16, <1>17, <1>18, <1>19, <1>20,
     <1>21, <1>22, <1>23, <1>24, <1>25, <1>26, <1>27, <1>28, <1>29,
     <1>30, <1>31, <1>32, <1>33, <1>34, <1>35, <1>36, <1>37
  DEF Next, Call, Direct, Proceed, Work, AreAllWorkersIdle

-----------------------------------------------------------------------------

\* The initial state satisfies the inductive invariant.
LEMMA InitIInv == Init => IInv
<1> SUFFICES ASSUME Init
             PROVE  IInv
  OBVIOUS
<1>0. ConstantsAssumption
  BY ConstantsAssumption
<1>1. TypeOK
  <2>1. SchedulerTypeOK
    <3>1. << >> \in Seq(TaskIDs) /\ << >> \in Seq(Pools)
      OBVIOUS
    <3>2. /\ mPendingWork \in [Workers -> Seq(TaskIDs)]
          /\ mPools \in [Priorities -> Seq(Pools)]
      BY <3>1 DEF Init
    <3> QED
      BY <1>0, <3>2 DEF Init, SchedulerTypeOK
  <2>2. PoolTypeOK
    BY <1>0 DEF Init, PoolTypeOK
  <2>3. ThreadTypeOK
    BY <1>0 DEF Init, ThreadTypeOK, Labels
  <2> QED
    BY <2>1, <2>2, <2>3 DEF TypeOK
<1>2. ThreadShape
  BY <1>0 DEF Init, ThreadShape, HandsFit
<1>3. OneOwnerPerWorker
  BY <1>0 DEF Init, OneOwnerPerWorker, DispatcherOwns, AssignmentFits, Dispatching,
     Running, Unassigned
<1>4. OneOwnerPerBlock
  BY <1>0 DEF Init, OneOwnerPerBlock, HoldFits, PendingFits, Holding
<1>5. OneRecordPerTask /\ BlocksAnswered
  BY <1>0 DEF Init, OneRecordPerTask, BlocksAnswered
<1> QED
  BY <1>1, <1>2, <1>3, <1>4, <1>5 DEF IInv

\* Every reachable state satisfies the inductive invariant.
THEOREM Invariance == Spec => []IInv
<1>1. IInv /\ [Next]_vars => IInv'
  BY TypeOKStep, ThreadShapeStep, OneOwnerPerWorkerStep, OneOwnerPerBlockStep,
     OneRecordPerTaskStep, BlocksAnsweredStep
  DEF IInv
<1> QED
  BY InitIInv, <1>1, PTL DEF Spec

\* Every variable always has its type.
THEOREM TypeCorrect == Spec => []TypeOK
<1>1. IInv => TypeOK
  BY DEF IInv
<1> QED
  BY Invariance, <1>1, PTL

\* The tasks in a worker's hands: the pending one, or the one its thread holds.
LEMMA FlightedTasks ==
  ASSUME IInv, NEW w \in Workers, NEW i \in Flighted(w)
  PROVE  \/ /\ mPendingWork[w] = <<i>> /\ i = mActiveTaskID[w]
            /\ pc[w] \notin {"step", "clear", "settle"}
         \/ /\ mPendingWork[w] = << >> /\ i = held[w]
            /\ pc[w] \in {"step", "clear", "settle"}
<1>1. AssignmentFits(w)
  BY DEF IInv, OneOwnerPerWorker
<1>2. CASE mPendingWork[w] = << >>
  BY <1>2 DEF Flighted
<1>3. CASE mPendingWork[w] # << >>
  <2>1. /\ mPendingWork[w] = <<mActiveTaskID[w]>>
        /\ pc[w] \notin {"step", "clear", "settle"}
    BY <1>1, <1>3 DEF AssignmentFits, Running
  <2>2. \A k \in DOMAIN mPendingWork[w] : mPendingWork[w][k] = mActiveTaskID[w]
    BY <2>1
  <2>3. i = mActiveTaskID[w]
    BY <2>1, <2>2 DEF Flighted
  <2> QED
    BY <2>1, <2>3
<1> QED
  BY <1>2, <1>3

\* Task::Step() is never entered by two threads, and a worker has one task at a time.
THEOREM Exclusion == Spec => []ExclusiveExecution
<1>1. ASSUME IInv
      PROVE  ExclusiveExecution
  <2>1. ASSUME NEW v \in Workers, NEW w \in Workers, v # w,
               NEW i \in Flighted(v), i \in Flighted(w)
        PROVE  FALSE
    <3>1. PendingFits(v) /\ PendingFits(w) /\ v \in Threads /\ w \in Threads
      BY <1>1 DEF IInv, OneOwnerPerBlock
    <3>2. pc[v] \in {"step", "clear", "settle"} => Holding(v)
      BY DEF Holding
    <3>3. pc[w] \in {"step", "clear", "settle"} => Holding(w)
      BY DEF Holding
    <3>4. Holding(v) /\ Holding(w) => held[v] # held[w]
      BY <1>1, <2>1, <3>1 DEF IInv, OneOwnerPerBlock
    <3>5. \/ mPendingWork[v] # << >> /\ i = mActiveTaskID[v]
          \/ Holding(v) /\ i = held[v]
      BY <1>1, <3>2, FlightedTasks
    <3>6. \/ mPendingWork[w] # << >> /\ i = mActiveTaskID[w]
          \/ Holding(w) /\ i = held[w]
      BY <1>1, <2>1, <3>3, FlightedTasks
    <3> QED
      BY <2>1, <3>1, <3>4, <3>5, <3>6 DEF PendingFits
  <2>2. ASSUME NEW w \in Workers
        PROVE  /\ Len(mPendingWork[w]) <= 1
               /\ pc[w] \in {"step", "clear", "settle"} => mPendingWork[w] = << >>
    <3>1. mPendingWork[w] = << >> \/ mPendingWork[w] = <<mActiveTaskID[w]>>
      BY <1>1 DEF IInv, OneOwnerPerWorker, AssignmentFits
    <3>2. Len(mPendingWork[w]) <= 1
      <4>1. CASE mPendingWork[w] = << >>
        BY <4>1
      <4>2. CASE mPendingWork[w] = <<mActiveTaskID[w]>>
        BY <4>2
      <4> QED
        BY <3>1, <4>1, <4>2
    <3> QED
      BY <1>1, <3>2 DEF IInv, OneOwnerPerWorker, AssignmentFits, Running
  <2> QED
    BY <2>1, <2>2 DEF ExclusiveExecution
<1> QED
  BY Invariance, <1>1, PTL

\* The record of a task in a worker's hands is in its pool, and blocked.
THEOREM FlightedTasksLive == Spec => []FlightedTaskLives
<1>1. ASSUME IInv
      PROVE  FlightedTaskLives
  <2>1. ASSUME NEW w \in Workers, NEW i \in Flighted(w)
        PROVE  mBlocked[i] /\ \E p \in Pools : i \in mTaskRecords[p]
    <3>1. PendingFits(w) /\ HoldFits(w)
      BY <1>1 DEF IInv, OneOwnerPerBlock
    <3>2. CASE mPendingWork[w] # << >> /\ i = mActiveTaskID[w]
      BY <3>1, <3>2 DEF PendingFits
    <3>3. CASE pc[w] \in {"step", "clear", "settle"} /\ i = held[w]
      BY <3>1, <3>3 DEF HoldFits, Holding
    <3> QED
      BY <1>1, <3>2, <3>3, FlightedTasks
  <2> QED
    BY <2>1 DEF FlightedTaskLives
<1> QED
  BY Invariance, <1>1, PTL

\* As long as a record is blocked, a thread or a worker's pending work answers for
\* the block: no task is kept from being fetched or removed for ever.
THEOREM BlocksAreAnswered == Spec => []NoBlockLeftBehind
<1>1. ASSUME IInv
      PROVE  NoBlockLeftBehind
  <2>1. ASSUME NEW i \in TaskIDs, Answered(i)
        PROVE  \/ \E t \in Threads : Holding(t) /\ held[t] = i
               \/ \E w \in Workers : i \in Flighted(w)
    <3>1. ASSUME NEW w \in Workers, mPendingWork[w] # << >>, mActiveTaskID[w] = i
          PROVE  i \in Flighted(w)
      <4>1. mPendingWork[w] = <<i>>
        BY <1>1, <3>1 DEF IInv, OneOwnerPerWorker, AssignmentFits
      <4>2. 1 \in DOMAIN mPendingWork[w] /\ mPendingWork[w][1] = i
        BY <4>1
      <4> QED
        BY <4>2 DEF Flighted
    <3> QED
      BY <2>1, <3>1 DEF Answered
  <2>2. \A p \in Pools : mTaskRecords[p] \subseteq TaskIDs
    BY <1>1 DEF IInv, TypeOK, PoolTypeOK
  <2> QED
    BY <1>1, <2>1, <2>2 DEF IInv, BlocksAnswered, NoBlockLeftBehind
<1> QED
  BY Invariance, <1>1, PTL

\* A worker whose active flag is down has no task, and gets none from anybody.
THEOREM IdleMeansIdle == Spec => []IdleWorkerHasNoWork
<1>1. ASSUME IInv
      PROVE  IdleWorkerHasNoWork
  <2>1. ASSUME NEW w \in Workers, ~mFlaggedAsActive[w]
        PROVE  Flighted(w) = {} /\ Dispatchers(w) = {}
    <3>1. AssignmentFits(w)
      BY <1>1 DEF IInv, OneOwnerPerWorker
    <3>2. mPendingWork[w] = << >> /\ pc[w] \notin {"step", "clear", "settle"}
      BY <2>1, <3>1 DEF AssignmentFits, Unassigned, Running
    <3>3. Flighted(w) = {}
      BY <3>2 DEF Flighted
    <3>4. ASSUME NEW t \in Dispatchers(w)
          PROVE  FALSE
      <4>1. w # NoWorker
        BY ConstantsAssumption
      <4>2. Dispatching(t) /\ worker[t] = w
        BY <4>1 DEF Dispatchers, Dispatching
      <4> QED
        BY <1>1, <2>1, <4>2 DEF IInv, OneOwnerPerWorker, DispatcherOwns, Dispatchers
    <3> QED
      BY <3>3, <3>4
  <2> QED
    BY <2>1 DEF IdleWorkerHasNoWork
<1> QED
  BY Invariance, <1>1, PTL

\* No assertion of OnWorkComplete, AttemptDispatch, ReturnAndUnblockTask or
\* RemoveBlockedTask that AssertionsHold states ever fails.
THEOREM NoAssertionFails == Spec => []AssertionsHold
<1>1. ASSUME IInv
      PROVE  AssertionsHold
  <2>1. ASSUME NEW w \in Workers, NEW t \in Dispatchers(w)
        PROVE  /\ mFlaggedAsActive[w]
               /\ mActiveTaskID[w] = kInvalidTaskID /\ mActivePool[w] = NoPool
    <3>1. w # NoWorker
      BY ConstantsAssumption
    <3>2. Dispatching(t) /\ worker[t] = w
      BY <3>1 DEF Dispatchers, Dispatching
    <3> QED
      BY <1>1, <3>2 DEF IInv, OneOwnerPerWorker, DispatcherOwns, Dispatchers, Unassigned
  <2>2. ASSUME NEW w \in Workers, pc[w] \in {"step", "clear"}
        PROVE  mFlaggedAsActive[w] /\ w \in mWorkers /\ mActiveTaskID[w] = held[w]
    BY <1>1, <2>2 DEF IInv, OneOwnerPerWorker, AssignmentFits, Running
  <2>3. ASSUME NEW t \in Threads, pc[t] \in {"settle", "erase", "unpeek"}
        PROVE  mBlocked[held[t]] /\ held[t] \in mTaskRecords[pool[t]]
    BY <1>1, <2>3 DEF IInv, OneOwnerPerBlock, HoldFits, Holding, PoolOfHeld
  <2> QED
    BY <2>1, <2>2, <2>3 DEF AssertionsHold
<1> QED
  BY Invariance, <1>1, PTL

\* A worker whose unregistration has returned is given no task any more.
THEOREM LeavingWorkers == Spec => LeavingWorkerGetsNothing
<1> DEFINE Gets(w) == mFlaggedForUnregistration[w] =>
                        Len(mPendingWork'[w]) <= Len(mPendingWork[w])
<1>1. ASSUME IInv, [Next]_vars, NEW w \in Workers, mPendingWork'[w] # mPendingWork[w]
      PROVE  \/ \E t \in Threads : GiveTask(t) /\ worker[t] = w
             \/ PullWork(w)
  <2>1. CASE \E t \in Threads : GiveTask(t)
    BY <1>1, <2>1 DEF GiveTask, IInv, TypeOK, SchedulerTypeOK
  <2>2. CASE \E v \in Workers : PullWork(v)
    BY <1>1, <2>2 DEF PullWork, IInv, TypeOK, SchedulerTypeOK
  <2>3. mPendingWork' # mPendingWork
    BY <1>1
  <2> QED
    BY ZenonT(60), <1>1, <2>1, <2>2, <2>3
    DEF Next, Call, Direct, Proceed, Work, AreAllWorkersIdle,
       vars, RegisterWorker, UnregisterWorker, RegisterPool, AddTask,
       AttemptAbortAllTasks, AttemptAbortTask, StartDispatching, StopDispatching,
       AllTasksAreCurrentlyCompleted, OnTasksNewlyAvailable, BlockToAbort,
       MarkAbortPending, RemoveAborted, FailToLocate, AbortDone, CheckPermitted,
       FlagNextWorker, NoFurtherWorker, EnterBlock, EnterPool, LeaveBlocks,
       VisitRecord, NoFurtherRecord, TakeRecord, UndoFlag, ReturnPeeked,
       SeeIdleWorker, SeeAllIdle, SeeActiveWorker, StepReturns, ClearAssignment,
       ReturnAndUnblockTask, RemoveBlockedTask, ReleaseWorker
<1>2. ASSUME IInv, [Next]_vars, NEW w \in Workers
      PROVE  Gets(w)
  <2>1. mPendingWork[w] \in Seq(TaskIDs)
    BY <1>2 DEF IInv, TypeOK, SchedulerTypeOK
  <2>2. CASE mPendingWork'[w] = mPendingWork[w]
    BY <2>1, <2>2
  <2>3. CASE \E t \in Threads : GiveTask(t) /\ worker[t] = w
    <3>1. PICK t \in Threads : GiveTask(t) /\ worker[t] = w
      BY <2>3
    <3>2. Dispatching(t)
      BY <1>2, <3>1 DEF GiveTask, Dispatching, IInv, ThreadShape, HandsFit
    <3> QED
      BY <1>2, <3>1, <3>2 DEF IInv, OneOwnerPerWorker, DispatcherOwns
  <2>4. CASE PullWork(w)
    <3> DEFINE work == mPendingWork[w]
    <3>1. work # << >> /\ mPendingWork'[w] = SubSeq(work, 1, Len(work) - 1)
      BY <1>2, <2>4 DEF PullWork, IInv, TypeOK, SchedulerTypeOK
    <3>2. Len(SubSeq(work, 1, Len(work) - 1)) <= Len(work)
      BY <2>1, <3>1
    <3> QED
      BY <3>1, <3>2
  <2> QED
    BY <1>1, <1>2, <2>2, <2>3, <2>4
<1>3. IInv /\ [Next]_vars => [\A w \in Workers : Gets(w)]_vars
  BY <1>2
<1> QED
  BY Invariance, <1>3, PTL DEF Spec, LeavingWorkerGetsNothing

-----------------------------------------------------------------------------
(* A scheduler that is prepared before it dispatches.                      *)

\* Nothing is ever aborted.
LEMMA NothingAbortedStep ==
  ASSUME TypeOK, ThreadShape, NothingAborted, PreparedNext
  PROVE  NothingAborted'
<1> USE ConstantsAssumption DEF TypeOK
<1>1. ASSUME NEW t \in Clients, NEW w \in Workers, RegisterWorker(t, w)
      PROVE  NothingAborted'
  BY <1>1 DEF RegisterWorker, NothingAborted, ThreadTypeOK
<1>2. ASSUME NEW t \in Clients, NEW w \in Workers, UnregisterWorker(t, w)
      PROVE  NothingAborted'
  BY <1>2 DEF UnregisterWorker, NothingAborted, ThreadTypeOK
<1>3. ASSUME NEW t \in Clients, NEW p \in Pools, RegisterPool(t, p)
      PROVE  NothingAborted'
  BY <1>3 DEF RegisterPool, NothingAborted, ThreadTypeOK
<1>4. ASSUME NEW t \in Clients, NEW p \in Pools, AddTask(t, p)
      PROVE  NothingAborted'
  BY <1>4 DEF AddTask, NothingAborted, ThreadTypeOK
<1>5. ASSUME NEW t \in Clients, NEW p \in Pools,
             AttemptAbortAllTasks(t, p)
      PROVE  NothingAborted'
  BY <1>5 DEF AttemptAbortAllTasks, ThreadTypeOK, NoAbortNext, PreparedNext
<1>6. ASSUME NEW t \in Clients, NEW p \in Pools, NEW i \in TaskIDs,
             AttemptAbortTask(t, p, i)
      PROVE  NothingAborted'
  BY <1>6 DEF AttemptAbortTask, ThreadTypeOK, NoAbortNext, PreparedNext
<1>7. CASE StartDispatching
  BY <1>7 DEF StartDispatching, NothingAborted, ThreadTypeOK
<1>8. ASSUME NEW block \in BOOLEAN, StopDispatching(block)
      PROVE  NothingAborted'
  BY <1>8 DEF StopDispatching, NothingAborted, ThreadTypeOK
<1>9. CASE AllTasksAreCurrentlyCompleted
  BY <1>9 DEF AllTasksAreCurrentlyCompleted, NothingAborted, ThreadTypeOK
<1>10. ASSUME NEW t \in Threads, OnTasksNewlyAvailable(t)
      PROVE  NothingAborted'
  BY <1>10 DEF OnTasksNewlyAvailable, NothingAborted, ThreadTypeOK
<1>11. ASSUME NEW t \in Threads, NEW i \in TaskIDs, BlockToAbort(t, i)
      PROVE  NothingAborted'
  BY <1>11 DEF BlockToAbort, NothingAborted
<1>12. ASSUME NEW t \in Threads, MarkAbortPending(t)
      PROVE  NothingAborted'
  BY <1>12 DEF MarkAbortPending, NothingAborted
<1>13. ASSUME NEW t \in Threads, RemoveAborted(t)
      PROVE  NothingAborted'
  BY <1>13 DEF RemoveAborted, NothingAborted
<1>14. ASSUME NEW t \in Threads, FailToLocate(t)
      PROVE  NothingAborted'
  BY <1>14 DEF FailToLocate, NothingAborted
<1>15. ASSUME NEW t \in Threads, AbortDone(t)
      PROVE  NothingAborted'
  BY <1>15 DEF AbortDone, NothingAborted
<1>16. ASSUME NEW t \in Threads, CheckPermitted(t)
      PROVE  NothingAborted'
  BY <1>16 DEF CheckPermitted, NothingAborted, ThreadTypeOK
<1>17. ASSUME NEW t \in Threads, NEW w \in Workers, FlagNextWorker(t, w)
      PROVE  NothingAborted'
  BY <1>17 DEF FlagNextWorker, NothingAborted, ThreadTypeOK
<1>18. ASSUME NEW t \in Threads, NoFurtherWorker(t)
      PROVE  NothingAborted'
  BY <1>18 DEF NoFurtherWorker, NothingAborted, ThreadTypeOK
<1>19. ASSUME NEW t \in Threads, EnterBlock(t)
      PROVE  NothingAborted'
  BY <1>19 DEF EnterBlock, NothingAborted, ThreadTypeOK
<1>20. ASSUME NEW t \in Threads, EnterPool(t)
      PROVE  NothingAborted'
  BY <1>20 DEF EnterPool, NothingAborted, ThreadTypeOK
<1>21. ASSUME NEW t \in Threads, LeaveBlocks(t)
      PROVE  NothingAborted'
  BY <1>21 DEF LeaveBlocks, NothingAborted, ThreadTypeOK
<1>22. ASSUME NEW t \in Threads, NEW i \in TaskIDs, VisitRecord(t, i)
      PROVE  NothingAborted'
  BY <1>22 DEF VisitRecord, NothingAborted, ThreadTypeOK
<1>23. ASSUME NEW t \in Threads, NoFurtherRecord(t)
      PROVE  NothingAborted'
  BY <1>23 DEF NoFurtherRecord, NothingAborted, ThreadTypeOK
<1>24. ASSUME NEW t \in Threads, TakeRecord(t)
      PROVE  NothingAborted'
  BY <1>24 DEF TakeRecord, NothingAborted, ThreadTypeOK
<1>25. ASSUME NEW t \in Threads, GiveTask(t)
      PROVE  NothingAborted'
  BY <1>25 DEF GiveTask, NothingAborted, ThreadTypeOK
<1>26. ASSUME NEW t \in Threads, UndoFlag(t)
      PROVE  NothingAborted'
  BY <1>26 DEF UndoFlag, NothingAborted, ThreadTypeOK
<1>27. ASSUME NEW t \in Threads, ReturnPeeked(t)
      PROVE  NothingAborted'
  BY <1>27 DEF ReturnPeeked, NothingAborted, ThreadTypeOK
<1>28. CASE SeeAllIdle
  BY <1>28 DEF SeeAllIdle, NothingAborted, ThreadTypeOK
<1>29. ASSUME NEW w \in Workers, SeeIdleWorker(w)
      PROVE  NothingAborted'
  BY <1>29 DEF SeeIdleWorker, NothingAborted, ThreadTypeOK
<1>30. ASSUME NEW w \in Workers, SeeActiveWorker(w)
      PROVE  NothingAborted'
  BY <1>30 DEF SeeActiveWorker, NothingAborted, ThreadTypeOK
<1>31. ASSUME NEW w \in Workers, PullWork(w)
      PROVE  NothingAborted'
  BY <1>31 DEF PullWork, NothingAborted, ThreadTypeOK
<1>32. ASSUME NEW w \in Workers, NEW state \in TaskStates,
             StepReturns(w, state)
      PROVE  NothingAborted'
  BY <1>32 DEF StepReturns, NothingAborted, ThreadTypeOK
<1>33. ASSUME NEW w \in Workers, ClearAssignment(w)
      PROVE  NothingAborted'
  BY <1>33 DEF ClearAssignment, NothingAborted, ThreadTypeOK
<1>34. ASSUME NEW w \in Workers, ReturnAndUnblockTask(w)
      PROVE  NothingAborted'
  BY <1>34 DEF ReturnAndUnblockTask, NothingAborted, ThreadTypeOK
<1>35. ASSUME NEW w \in Workers, RemoveBlockedTask(w)
      PROVE  NothingAborted'
  BY <1>35 DEF RemoveBlockedTask, NothingAborted, ThreadTypeOK
<1>36. ASSUME NEW w \in Workers, ReleaseWorker(w)
      PROVE  NothingAborted'
  BY <1>36 DEF ReleaseWorker, NothingAborted, ThreadTypeOK
<1> HIDE DEF TypeOK
<1> QED
  BY <1>1, <1>2, <1>3, <1>4, <1>5, <1>6, <1>7, <1>8, <1>9, <1>10, <1>11, <1>12, <1>13,
    <1>14, <1>15, <1>16, <1>17, <1>18, <1>19, <1>20, <1>21, <1>22, <1>23, <1>24,
    <1>25, <1>26, <1>27, <1>28, <1>29, <1>30, <1>31, <1>32, <1>33, <1>34, <1>35, <1>36
  DEF PreparedNext, NoAbortNext, Next, Call, Direct, Proceed, Work, AreAllWorkersIdle

\* What a thread has in hand of its search stays in step with its label.
LEMMA ScanFitsStep ==
  ASSUME TypeOK, ThreadShape, NothingAborted,
         \A t \in Threads : ScanFits(t), PreparedNext
  PROVE  \A t \in Threads : ScanFits(t)'
<1> USE ConstantsAssumption DEF TypeOK
<1>1. ASSUME NEW t \in Clients, NEW w \in Workers, RegisterWorker(t, w)
      PROVE  \A u \in Threads : ScanFits(u)'
  BY <1>1 DEF RegisterWorker, ScanFits, ThreadTypeOK, ThreadShape, HandsFit
<1>2. ASSUME NEW t \in Clients, NEW w \in Workers, UnregisterWorker(t, w)
      PROVE  \A u \in Threads : ScanFits(u)'
  BY <1>2 DEF UnregisterWorker, ScanFits, ThreadTypeOK, ThreadShape, HandsFit
<1>3. ASSUME NEW t \in Clients, NEW p \in Pools, RegisterPool(t, p)
      PROVE  \A u \in Threads : ScanFits(u)'
  <2>1. \A u \in Threads : left[u] = 0 /\ pc[u] \notin {"visit", "take"}
    <3>1. \A u \in Threads : left[u] \in Nat /\ ~ReadsPools(u)
      BY <1>3 DEF RegisterPool, CanWritePools, ThreadTypeOK
    <3> QED
      BY <3>1 DEF ReadsPools, ScanFits
  <2>2. /\ pc[t] = "idle" /\ pc' = [pc EXCEPT ![t] = "check"]
        /\ UNCHANGED <<worker, prio, left, cursor>>
    BY <1>3 DEF RegisterPool
  <2>3. pc'[t] = "check" /\ \A u \in Threads : u # t => pc'[u] = pc[u]
    BY <2>2 DEF ThreadTypeOK
  <2>4. \A u \in Threads : left'[u] = 0 /\ pc'[u] \notin {"visit", "take"}
    BY <2>1, <2>2, <2>3
  <2>5. \A u \in Threads : u # t => ScanFits(u)'
    BY <2>2, <2>3, <2>4 DEF ScanFits
  <2>6. ScanFits(t)'
    <3>1. t \in Threads /\ ScanFits(t)
      OBVIOUS
    <3>2. worker[t] = NoWorker /\ prio[t] = 0 /\ left[t] = 0 /\ cursor[t] = 0
      BY <2>2, <3>1 DEF ScanFits
    <3>3. /\ worker'[t] = NoWorker /\ prio'[t] = 0 /\ left'[t] = 0 /\ cursor'[t] = 0
          /\ pc'[t] = "check"
      BY <2>2, <2>3, <3>2
    <3> QED
      BY <3>3 DEF ScanFits
  <2> QED
    BY <2>5, <2>6
<1>4. ASSUME NEW t \in Clients, NEW p \in Pools, AddTask(t, p)
      PROVE  \A u \in Threads : ScanFits(u)'
  <2>1. CASE mTaskRecords[p] = {}
    <3>1. /\ pc[t] = "idle" /\ pc' = [pc EXCEPT ![t] = "notify"]
          /\ pool' = [pool EXCEPT ![t] = p]
          /\ UNCHANGED <<worker, prio, left, cursor, index, mPools>>
      BY <1>4, <2>1 DEF AddTask
    <3> QED
      BY <3>1 DEF ScanFits, ThreadTypeOK
  <2>2. CASE mTaskRecords[p] # {}
    BY <1>4, <2>2 DEF AddTask, ScanFits
  <2> QED
    BY <2>1, <2>2
<1>5. ASSUME NEW t \in Clients, NEW p \in Pools,
             AttemptAbortAllTasks(t, p)
      PROVE  \A u \in Threads : ScanFits(u)'
  BY <1>5 DEF AttemptAbortAllTasks, ThreadTypeOK, NoAbortNext, PreparedNext
<1>6. ASSUME NEW t \in Clients, NEW p \in Pools, NEW i \in TaskIDs,
             AttemptAbortTask(t, p, i)
      PROVE  \A u \in Threads : ScanFits(u)'
  BY <1>6 DEF AttemptAbortTask, ThreadTypeOK, NoAbortNext, PreparedNext
<1>7. CASE StartDispatching
  BY <1>7 DEF StartDispatching, ScanFits, ThreadTypeOK, ThreadShape, HandsFit
<1>8. ASSUME NEW block \in BOOLEAN, StopDispatching(block)
      PROVE  \A u \in Threads : ScanFits(u)'
  <2>1. /\ pc[Control] = "idle" /\ (pc' = pc \/ pc' = [pc EXCEPT ![Control] = "poll"])
        /\ UNCHANGED <<worker, prio, left, cursor, index, pool, mPools>>
    BY <1>8 DEF StopDispatching
  <2> QED
    BY <2>1 DEF ScanFits, ThreadTypeOK
<1>9. CASE AllTasksAreCurrentlyCompleted
  BY <1>9
  DEF AllTasksAreCurrentlyCompleted, ScanFits, ThreadTypeOK, ThreadShape, HandsFit
<1>10. ASSUME NEW t \in Threads, OnTasksNewlyAvailable(t)
      PROVE  \A u \in Threads : ScanFits(u)'
  <2>1. \A u \in Threads : u # t => ScanFits(u)'
    BY <1>10 DEF OnTasksNewlyAvailable, ScanFits, ThreadTypeOK
  <2>2. ScanFits(t)'
    BY <1>10 DEF OnTasksNewlyAvailable, ScanFits, ThreadTypeOK, ThreadShape, HandsFit
  <2> QED
    BY <2>1, <2>2
<1>11. ASSUME NEW t \in Threads, NEW i \in TaskIDs, BlockToAbort(t, i)
      PROVE  \A u \in Threads : ScanFits(u)'
  BY <1>11 DEF BlockToAbort, NothingAborted
<1>12. ASSUME NEW t \in Threads, MarkAbortPending(t)
      PROVE  \A u \in Threads : ScanFits(u)'
  BY <1>12 DEF MarkAbortPending, NothingAborted
<1>13. ASSUME NEW t \in Threads, RemoveAborted(t)
      PROVE  \A u \in Threads : ScanFits(u)'
  BY <1>13 DEF RemoveAborted, NothingAborted
<1>14. ASSUME NEW t \in Threads, FailToLocate(t)
      PROVE  \A u \in Threads : ScanFits(u)'
  BY <1>14 DEF FailToLocate, NothingAborted
<1>15. ASSUME NEW t \in Threads, AbortDone(t)
      PROVE  \A u \in Threads : ScanFits(u)'
  BY <1>15 DEF AbortDone, NothingAborted
<1>16. ASSUME NEW t \in Threads, CheckPermitted(t)
      PROVE  \A u \in Threads : ScanFits(u)'
  BY <1>16 DEF CheckPermitted, ScanFits, ThreadTypeOK, ThreadShape, HandsFit
<1>17. ASSUME NEW t \in Threads, NEW w \in Workers, FlagNextWorker(t, w)
      PROVE  \A u \in Threads : ScanFits(u)'
  <2>1. pc[t] = "flag" /\ (pc' = pc \/ pc' = [pc EXCEPT ![t] = "nextPool"])
    BY <1>17 DEF FlagNextWorker
  <2>2. /\ worker' = [worker EXCEPT ![t] = w]
        /\ UNCHANGED <<prio, left, pool, cursor, index, mPools>>
    BY <1>17 DEF FlagNextWorker
  <2> QED
    BY <2>1, <2>2 DEF ScanFits, ThreadTypeOK
<1>18. ASSUME NEW t \in Threads, NoFurtherWorker(t)
      PROVE  \A u \in Threads : ScanFits(u)'
  BY <1>18 DEF NoFurtherWorker, ScanFits, ThreadTypeOK, ThreadShape, HandsFit
<1>19. ASSUME NEW t \in Threads, EnterBlock(t)
      PROVE  \A u \in Threads : ScanFits(u)'
  <2>1. /\ pc[t] = "nextPool" /\ prio[t] + 1 \in Priorities
        /\ prio' = [prio EXCEPT ![t] = prio[t] + 1]
        /\ left' = [left EXCEPT ![t] = Len(mPools[prio[t] + 1])]
        /\ \A u \in Threads : u # t => index'[u] = index[u]
        /\ UNCHANGED <<pc, worker, cursor, pool, mPools>>
    <3>1. prio[t] \in Priorities \cup {0} /\ prio[t] < NumPriorities
      BY <1>19 DEF EnterBlock, ThreadTypeOK
    <3>2. NumPriorities \in Nat
      BY ConstantsAssumption DEF ConstantsAssumption
    <3> QED
      BY <1>19, <3>1, <3>2 DEF EnterBlock, ThreadTypeOK
  <2>2. Len(mPools[prio[t] + 1]) \in Nat
    BY <2>1, PoolsOfBlock
  <2> QED
    BY <2>1, <2>2 DEF ScanFits, ThreadTypeOK
<1>20. ASSUME NEW t \in Threads, EnterPool(t)
      PROVE  \A u \in Threads : ScanFits(u)'
  <2>1. \A u \in Threads : u # t => ScanFits(u)'
    BY <1>20 DEF EnterPool, ScanFits, ThreadTypeOK
  <2>2. ScanFits(t)'
    BY <1>20 DEF EnterPool, ScanFits, ThreadTypeOK, ThreadShape, HandsFit
  <2> QED
    BY <2>1, <2>2
<1>21. ASSUME NEW t \in Threads, LeaveBlocks(t)
      PROVE  \A u \in Threads : ScanFits(u)'
  <2>1. \A u \in Threads : u # t => ScanFits(u)'
    BY <1>21 DEF LeaveBlocks, ScanFits, ThreadTypeOK
  <2>2. ScanFits(t)'
    BY <1>21 DEF LeaveBlocks, ScanFits, ThreadTypeOK, ThreadShape, HandsFit
  <2> QED
    BY <2>1, <2>2
<1>22. ASSUME NEW t \in Threads, NEW i \in TaskIDs, VisitRecord(t, i)
      PROVE  \A u \in Threads : ScanFits(u)'
  <2>1. \A u \in Threads : u # t => ScanFits(u)'
    BY <1>22 DEF VisitRecord, ScanFits, ThreadTypeOK
  <2>2. ScanFits(t)'
    BY <1>22 DEF VisitRecord, ScanFits, ThreadTypeOK, ThreadShape, HandsFit
  <2> QED
    BY <2>1, <2>2
<1>23. ASSUME NEW t \in Threads, NoFurtherRecord(t)
      PROVE  \A u \in Threads : ScanFits(u)'
  <2>1. \A u \in Threads : u # t => ScanFits(u)'
    BY <1>23 DEF NoFurtherRecord, ScanFits, ThreadTypeOK
  <2>2. ScanFits(t)'
    BY <1>23 DEF NoFurtherRecord, ScanFits, ThreadTypeOK, ThreadShape, HandsFit
  <2> QED
    BY <2>1, <2>2
<1>24. ASSUME NEW t \in Threads, TakeRecord(t)
      PROVE  \A u \in Threads : ScanFits(u)'
  <2>1. pc[t] = "take" /\ UNCHANGED <<worker, prio, left, pool, index, mPools>>
    BY <1>24 DEF TakeRecord
  <2>2. \/ pc' = [pc EXCEPT ![t] = "visit"] /\ cursor' = cursor
        \/ /\ \/ pc' = [pc EXCEPT ![t] = "unpeek"]
              \/ pc' = [pc EXCEPT ![t] = "give"]
           /\ cursor' = [cursor EXCEPT ![t] = 0]
    BY <1>24 DEF TakeRecord
  <2>3. \A u \in Threads : u # t => ScanFits(u)'
    BY <2>1, <2>2 DEF ScanFits, ThreadTypeOK
  <2>4. ScanFits(t)'
    BY <2>1, <2>2 DEF ScanFits, ThreadTypeOK
  <2> QED
    BY <2>3, <2>4
<1>25. ASSUME NEW t \in Threads, GiveTask(t)
      PROVE  \A u \in Threads : ScanFits(u)'
  <2>1. \A u \in Threads : u # t => ScanFits(u)'
    BY <1>25 DEF GiveTask, ScanFits, ThreadTypeOK
  <2>2. /\ pc'[t] = "flag" /\ prio'[t] = 0 /\ left'[t] = 0 /\ cursor'[t] = 0
    BY <1>25 DEF GiveTask, ThreadTypeOK, ScanFits
  <2>3. ScanFits(t)'
    BY <2>2 DEF ScanFits
  <2> QED
    BY <2>1, <2>3
<1>26. ASSUME NEW t \in Threads, UndoFlag(t)
      PROVE  \A u \in Threads : ScanFits(u)'
  BY <1>26 DEF UndoFlag, ScanFits, ThreadTypeOK, ThreadShape, HandsFit
<1>27. ASSUME NEW t \in Threads, ReturnPeeked(t)
      PROVE  \A u \in Threads : ScanFits(u)'
  <2>1. \A u \in Threads : u # t => ScanFits(u)'
    BY <1>27 DEF ReturnPeeked, ScanFits, ThreadTypeOK
  <2>2. /\ pc'[t] = "idle" /\ prio'[t] = 0 /\ left'[t] = 0 /\ cursor'[t] = 0
        /\ worker'[t] = NoWorker
    BY <1>27 DEF ReturnPeeked, ThreadTypeOK, ScanFits, ThreadShape, HandsFit
  <2>3. ScanFits(t)'
    BY <2>2 DEF ScanFits
  <2> QED
    BY <2>1, <2>3
<1>28. CASE SeeAllIdle
  BY <1>28 DEF SeeAllIdle, ScanFits, ThreadTypeOK, ThreadShape, HandsFit
<1>29. ASSUME NEW w \in Workers, SeeIdleWorker(w)
      PROVE  \A u \in Threads : ScanFits(u)'
  BY <1>29 DEF SeeIdleWorker, ScanFits, ThreadTypeOK, ThreadShape, HandsFit
<1>30. ASSUME NEW w \in Workers, SeeActiveWorker(w)
      PROVE  \A u \in Threads : ScanFits(u)'
  BY <1>30 DEF SeeActiveWorker, ScanFits, ThreadTypeOK, ThreadShape, HandsFit
<1>31. ASSUME NEW w \in Workers, PullWork(w)
      PROVE  \A u \in Threads : ScanFits(u)'
  BY <1>31 DEF PullWork, ScanFits, ThreadTypeOK, ThreadShape, HandsFit
<1>32. ASSUME NEW w \in Workers, NEW state \in TaskStates,
             StepReturns(w, state)
      PROVE  \A u \in Threads : ScanFits(u)'
  BY <1>32 DEF StepReturns, ScanFits, ThreadTypeOK, ThreadShape, HandsFit
<1>33. ASSUME NEW w \in Workers, ClearAssignment(w)
      PROVE  \A u \in Threads : ScanFits(u)'
  BY <1>33 DEF ClearAssignment, ScanFits, ThreadTypeOK, ThreadShape, HandsFit
<1>34. ASSUME NEW w \in Workers, ReturnAndUnblockTask(w)
      PROVE  \A u \in Threads : ScanFits(u)'
  BY <1>34 DEF ReturnAndUnblockTask, ScanFits, ThreadTypeOK, ThreadShape, HandsFit
<1>35. ASSUME NEW w \in Workers, RemoveBlockedTask(w)
      PROVE  \A u \in Threads : ScanFits(u)'
  BY <1>35 DEF RemoveBlockedTask, ScanFits, ThreadTypeOK, ThreadShape, HandsFit
<1>36. ASSUME NEW w \in Workers, ReleaseWorker(w)
      PROVE  \A u \in Threads : ScanFits(u)'
  BY <1>36 DEF ReleaseWorker, ScanFits, ThreadTypeOK, ThreadShape, HandsFit
<1> HIDE DEF TypeOK
<1> QED
  BY <1>1, <1>2, <1>3, <1>4, <1>5, <1>6, <1>7, <1>8, <1>9, <1>10, <1>11, <1>12, <1>13,
    <1>14, <1>15, <1>16, <1>17, <1>18, <1>19, <1>20, <1>21, <1>22, <1>23, <1>24,
    <1>25, <1>26, <1>27, <1>28, <1>29, <1>30, <1>31, <1>32, <1>33, <1>34, <1>35, <1>36
  DEF PreparedNext, NoAbortNext, Next, Call, Direct, Proceed, Work, AreAllWorkersIdle

\* Questions are asked while dispatching is off.
LEMMA AsksWhileStoppedStep ==
  ASSUME TypeOK, ThreadShape, NothingAborted, AsksWhileStopped, PreparedNext
  PROVE  AsksWhileStopped'
<1> USE ConstantsAssumption DEF TypeOK
<1>1. ASSUME NEW t \in Clients, NEW w \in Workers, RegisterWorker(t, w)
      PROVE  AsksWhileStopped'
  BY <1>1
  DEF RegisterWorker, AsksWhileStopped, Asking, ThreadTypeOK, ThreadShape, HandsFit
<1>2. ASSUME NEW t \in Clients, NEW w \in Workers, UnregisterWorker(t, w)
      PROVE  AsksWhileStopped'
  BY <1>2
  DEF UnregisterWorker, AsksWhileStopped, Asking, ThreadTypeOK, ThreadShape, HandsFit
<1>3. ASSUME NEW t \in Clients, NEW p \in Pools, RegisterPool(t, p)
      PROVE  AsksWhileStopped'
  BY <1>3
  DEF RegisterPool, AsksWhileStopped, Asking, ThreadTypeOK, ThreadShape, HandsFit
<1>4. ASSUME NEW t \in Clients, NEW p \in Pools, AddTask(t, p)
      PROVE  AsksWhileStopped'
  BY <1>4 DEF AddTask, AsksWhileStopped, Asking, ThreadTypeOK, ThreadShape, HandsFit
<1>5. ASSUME NEW t \in Clients, NEW p \in Pools,
             AttemptAbortAllTasks(t, p)
      PROVE  AsksWhileStopped'
  BY <1>5 DEF AttemptAbortAllTasks, ThreadTypeOK, NoAbortNext, PreparedNext
<1>6. ASSUME NEW t \in Clients, NEW p \in Pools, NEW i \in TaskIDs,
             AttemptAbortTask(t, p, i)
      PROVE  AsksWhileStopped'
  BY <1>6 DEF AttemptAbortTask, ThreadTypeOK, NoAbortNext, PreparedNext
<1>7. CASE StartDispatching
  BY <1>7
  DEF StartDispatching, AsksWhileStopped, Asking, ThreadTypeOK, ThreadShape, HandsFit
<1>8. ASSUME NEW block \in BOOLEAN, StopDispatching(block)
      PROVE  AsksWhileStopped'
  BY <1>8
  DEF StopDispatching, AsksWhileStopped, Asking, ThreadTypeOK, ThreadShape, HandsFit
<1>9. CASE AllTasksAreCurrentlyCompleted
  BY <1>9
  DEF AllTasksAreCurrentlyCompleted, AsksWhileStopped, Asking, ThreadTypeOK,
      ThreadShape, HandsFit
<1>10. ASSUME NEW t \in Threads, OnTasksNewlyAvailable(t)
      PROVE  AsksWhileStopped'
  BY <1>10
  DEF OnTasksNewlyAvailable, AsksWhileStopped, Asking, ThreadTypeOK, ThreadShape,
      HandsFit
<1>11. ASSUME NEW t \in Threads, NEW i \in TaskIDs, BlockToAbort(t, i)
      PROVE  AsksWhileStopped'
  BY <1>11 DEF BlockToAbort, NothingAborted
<1>12. ASSUME NEW t \in Threads, MarkAbortPending(t)
      PROVE  AsksWhileStopped'
  BY <1>12 DEF MarkAbortPending, NothingAborted
<1>13. ASSUME NEW t \in Threads, RemoveAborted(t)
      PROVE  AsksWhileStopped'
  BY <1>13 DEF RemoveAborted, NothingAborted
<1>14. ASSUME NEW t \in Threads, FailToLocate(t)
      PROVE  AsksWhileStopped'
  BY <1>14 DEF FailToLocate, NothingAborted
<1>15. ASSUME NEW t \in Threads, AbortDone(t)
      PROVE  AsksWhileStopped'
  BY <1>15 DEF AbortDone, NothingAborted
<1>16. ASSUME NEW t \in Threads, CheckPermitted(t)
      PROVE  AsksWhileStopped'
  BY <1>16
  DEF CheckPermitted, AsksWhileStopped, Asking, ThreadTypeOK, ThreadShape, HandsFit
<1>17. ASSUME NEW t \in Threads, NEW w \in Workers, FlagNextWorker(t, w)
      PROVE  AsksWhileStopped'
  BY <1>17
  DEF FlagNextWorker, AsksWhileStopped, Asking, ThreadTypeOK, ThreadShape, HandsFit
<1>18. ASSUME NEW t \in Threads, NoFurtherWorker(t)
      PROVE  AsksWhileStopped'
  BY <1>18
  DEF NoFurtherWorker, AsksWhileStopped, Asking, ThreadTypeOK, ThreadShape, HandsFit
<1>19. ASSUME NEW t \in Threads, EnterBlock(t)
      PROVE  AsksWhileStopped'
  BY <1>19 DEF EnterBlock, AsksWhileStopped, Asking, ThreadTypeOK, ThreadShape, HandsFit
<1>20. ASSUME NEW t \in Threads, EnterPool(t)
      PROVE  AsksWhileStopped'
  BY <1>20 DEF EnterPool, AsksWhileStopped, Asking, ThreadTypeOK, ThreadShape, HandsFit
<1>21. ASSUME NEW t \in Threads, LeaveBlocks(t)
      PROVE  AsksWhileStopped'
  BY <1>21
  DEF LeaveBlocks, AsksWhileStopped, Asking, ThreadTypeOK, ThreadShape, HandsFit
<1>22. ASSUME NEW t \in Threads, NEW i \in TaskIDs, VisitRecord(t, i)
      PROVE  AsksWhileStopped'
  BY <1>22
  DEF VisitRecord, AsksWhileStopped, Asking, ThreadTypeOK, ThreadShape, HandsFit
<1>23. ASSUME NEW t \in Threads, NoFurtherRecord(t)
      PROVE  AsksWhileStopped'
  BY <1>23
  DEF NoFurtherRecord, AsksWhileStopped, Asking, ThreadTypeOK, ThreadShape, HandsFit
<1>24. ASSUME NEW t \in Threads, TakeRecord(t)
      PROVE  AsksWhileStopped'
  BY <1>24 DEF TakeRecord, AsksWhileStopped, Asking, ThreadTypeOK, ThreadShape, HandsFit
<1>25. ASSUME NEW t \in Threads, GiveTask(t)
      PROVE  AsksWhileStopped'
  BY <1>25 DEF GiveTask, AsksWhileStopped, Asking, ThreadTypeOK, ThreadShape, HandsFit
<1>26. ASSUME NEW t \in Threads, UndoFlag(t)
      PROVE  AsksWhileStopped'
  BY <1>26 DEF UndoFlag, AsksWhileStopped, Asking, ThreadTypeOK, ThreadShape, HandsFit
<1>27. ASSUME NEW t \in Threads, ReturnPeeked(t)
      PROVE  AsksWhileStopped'
  BY <1>27
  DEF ReturnPeeked, AsksWhileStopped, Asking, ThreadTypeOK, ThreadShape, HandsFit
<1>28. CASE SeeAllIdle
  BY <1>28 DEF SeeAllIdle, AsksWhileStopped, Asking, ThreadTypeOK, ThreadShape, HandsFit
<1>29. ASSUME NEW w \in Workers, SeeIdleWorker(w)
      PROVE  AsksWhileStopped'
  BY <1>29
  DEF SeeIdleWorker, AsksWhileStopped, Asking, ThreadTypeOK, ThreadShape, HandsFit
<1>30. ASSUME NEW w \in Workers, SeeActiveWorker(w)
      PROVE  AsksWhileStopped'
  BY <1>30
  DEF SeeActiveWorker, AsksWhileStopped, Asking, ThreadTypeOK, ThreadShape, HandsFit
<1>31. ASSUME NEW w \in Workers, PullWork(w)
      PROVE  AsksWhileStopped'
  BY <1>31 DEF PullWork, AsksWhileStopped, Asking, ThreadTypeOK, ThreadShape, HandsFit
<1>32. ASSUME NEW w \in Workers, NEW state \in TaskStates,
             StepReturns(w, state)
      PROVE  AsksWhileStopped'
  BY <1>32
  DEF StepReturns, AsksWhileStopped, Asking, ThreadTypeOK, ThreadShape, HandsFit
<1>33. ASSUME NEW w \in Workers, ClearAssignment(w)
      PROVE  AsksWhileStopped'
  BY <1>33
  DEF ClearAssignment, AsksWhileStopped, Asking, ThreadTypeOK, ThreadShape, HandsFit
<1>34. ASSUME NEW w \in Workers, ReturnAndUnblockTask(w)
      PROVE  AsksWhileStopped'
  BY <1>34
  DEF ReturnAndUnblockTask, AsksWhileStopped, Asking, ThreadTypeOK, ThreadShape,
      HandsFit
<1>35. ASSUME NEW w \in Workers, RemoveBlockedTask(w)
      PROVE  AsksWhileStopped'
  BY <1>35
  DEF RemoveBlockedTask, AsksWhileStopped, Asking, ThreadTypeOK, ThreadShape, HandsFit
<1>36. ASSUME NEW w \in Workers, ReleaseWorker(w)
      PROVE  AsksWhileStopped'
  BY <1>36
  DEF ReleaseWorker, AsksWhileStopped, Asking, ThreadTypeOK, ThreadShape, HandsFit
<1> HIDE DEF TypeOK
<1> QED
  BY <1>1, <1>2, <1>3, <1>4, <1>5, <1>6, <1>7, <1>8, <1>9, <1>10, <1>11, <1>12, <1>13,
    <1>14, <1>15, <1>16, <1>17, <1>18, <1>19, <1>20, <1>21, <1>22, <1>23, <1>24,
    <1>25, <1>26, <1>27, <1>28, <1>29, <1>30, <1>31, <1>32, <1>33, <1>34, <1>35, <1>36
  DEF PreparedNext, NoAbortNext, Next, Call, Direct, Proceed, Work, AreAllWorkersIdle

\* A worker that is to leave stays active, and none is while dispatching is on.
LEMMA LeavingFitsStep ==
  ASSUME TypeOK, ThreadShape, OneOwnerPerWorker, NothingAborted, LeavingFits, PreparedNext
  PROVE  LeavingFits'
<1> USE ConstantsAssumption DEF TypeOK
<1>1. ASSUME NEW t \in Clients, NEW w \in Workers, RegisterWorker(t, w)
      PROVE  LeavingFits'
  BY <1>1 DEF RegisterWorker, LeavingFits, SchedulerTypeOK
<1>2. ASSUME NEW t \in Clients, NEW w \in Workers, UnregisterWorker(t, w)
      PROVE  LeavingFits'
  BY <1>2 DEF UnregisterWorker, LeavingFits, SchedulerTypeOK, PreparedNext
<1>3. ASSUME NEW t \in Clients, NEW p \in Pools, RegisterPool(t, p)
      PROVE  LeavingFits'
  BY <1>3 DEF RegisterPool, LeavingFits, SchedulerTypeOK
<1>4. ASSUME NEW t \in Clients, NEW p \in Pools, AddTask(t, p)
      PROVE  LeavingFits'
  BY <1>4 DEF AddTask, LeavingFits, SchedulerTypeOK
<1>5. ASSUME NEW t \in Clients, NEW p \in Pools,
             AttemptAbortAllTasks(t, p)
      PROVE  LeavingFits'
  BY <1>5 DEF AttemptAbortAllTasks, ThreadTypeOK, NoAbortNext, PreparedNext
<1>6. ASSUME NEW t \in Clients, NEW p \in Pools, NEW i \in TaskIDs,
             AttemptAbortTask(t, p, i)
      PROVE  LeavingFits'
  BY <1>6 DEF AttemptAbortTask, ThreadTypeOK, NoAbortNext, PreparedNext
<1>7. CASE StartDispatching
  BY <1>7
  DEF StartDispatching, LeavingFits, SchedulerTypeOK, PreparedNext, Resting,
      ThreadTypeOK
<1>8. ASSUME NEW block \in BOOLEAN, StopDispatching(block)
      PROVE  LeavingFits'
  BY <1>8 DEF StopDispatching, LeavingFits, SchedulerTypeOK
<1>9. CASE AllTasksAreCurrentlyCompleted
  BY <1>9 DEF AllTasksAreCurrentlyCompleted, LeavingFits, SchedulerTypeOK
<1>10. ASSUME NEW t \in Threads, OnTasksNewlyAvailable(t)
      PROVE  LeavingFits'
  BY <1>10 DEF OnTasksNewlyAvailable, LeavingFits, SchedulerTypeOK
<1>11. ASSUME NEW t \in Threads, NEW i \in TaskIDs, BlockToAbort(t, i)
      PROVE  LeavingFits'
  BY <1>11 DEF BlockToAbort, NothingAborted
<1>12. ASSUME NEW t \in Threads, MarkAbortPending(t)
      PROVE  LeavingFits'
  BY <1>12 DEF MarkAbortPending, NothingAborted
<1>13. ASSUME NEW t \in Threads, RemoveAborted(t)
      PROVE  LeavingFits'
  BY <1>13 DEF RemoveAborted, NothingAborted
<1>14. ASSUME NEW t \in Threads, FailToLocate(t)
      PROVE  LeavingFits'
  BY <1>14 DEF FailToLocate, NothingAborted
<1>15. ASSUME NEW t \in Threads, AbortDone(t)
      PROVE  LeavingFits'
  BY <1>15 DEF AbortDone, NothingAborted
<1>16. ASSUME NEW t \in Threads, CheckPermitted(t)
      PROVE  LeavingFits'
  BY <1>16 DEF CheckPermitted, LeavingFits, SchedulerTypeOK
<1>17. ASSUME NEW t \in Threads, NEW w \in Workers, FlagNextWorker(t, w)
      PROVE  LeavingFits'
  BY <1>17 DEF FlagNextWorker, LeavingFits, SchedulerTypeOK
<1>18. ASSUME NEW t \in Threads, NoFurtherWorker(t)
      PROVE  LeavingFits'
  BY <1>18 DEF NoFurtherWorker, LeavingFits, SchedulerTypeOK
<1>19. ASSUME NEW t \in Threads, EnterBlock(t)
      PROVE  LeavingFits'
  BY <1>19 DEF EnterBlock, LeavingFits, SchedulerTypeOK
<1>20. ASSUME NEW t \in Threads, EnterPool(t)
      PROVE  LeavingFits'
  BY <1>20 DEF EnterPool, LeavingFits, SchedulerTypeOK
<1>21. ASSUME NEW t \in Threads, LeaveBlocks(t)
      PROVE  LeavingFits'
  BY <1>21 DEF LeaveBlocks, LeavingFits, SchedulerTypeOK
<1>22. ASSUME NEW t \in Threads, NEW i \in TaskIDs, VisitRecord(t, i)
      PROVE  LeavingFits'
  BY <1>22 DEF VisitRecord, LeavingFits, SchedulerTypeOK
<1>23. ASSUME NEW t \in Threads, NoFurtherRecord(t)
      PROVE  LeavingFits'
  BY <1>23 DEF NoFurtherRecord, LeavingFits, SchedulerTypeOK
<1>24. ASSUME NEW t \in Threads, TakeRecord(t)
      PROVE  LeavingFits'
  BY <1>24 DEF TakeRecord, LeavingFits, SchedulerTypeOK
<1>25. ASSUME NEW t \in Threads, GiveTask(t)
      PROVE  LeavingFits'
  BY <1>25 DEF GiveTask, LeavingFits, SchedulerTypeOK
<1>26. ASSUME NEW t \in Threads, UndoFlag(t)
      PROVE  LeavingFits'
  BY <1>26
  DEF UndoFlag, LeavingFits, SchedulerTypeOK, OneOwnerPerWorker, DispatcherOwns,
      Dispatching, ThreadShape, HandsFit, ThreadTypeOK
<1>27. ASSUME NEW t \in Threads, ReturnPeeked(t)
      PROVE  LeavingFits'
  BY <1>27 DEF ReturnPeeked, LeavingFits, SchedulerTypeOK
<1>28. CASE SeeAllIdle
  BY <1>28 DEF SeeAllIdle, LeavingFits, SchedulerTypeOK
<1>29. ASSUME NEW w \in Workers, SeeIdleWorker(w)
      PROVE  LeavingFits'
  BY <1>29 DEF SeeIdleWorker, LeavingFits, SchedulerTypeOK
<1>30. ASSUME NEW w \in Workers, SeeActiveWorker(w)
      PROVE  LeavingFits'
  BY <1>30 DEF SeeActiveWorker, LeavingFits, SchedulerTypeOK
<1>31. ASSUME NEW w \in Workers, PullWork(w)
      PROVE  LeavingFits'
  BY <1>31 DEF PullWork, LeavingFits, SchedulerTypeOK
<1>32. ASSUME NEW w \in Workers, NEW state \in TaskStates,
             StepReturns(w, state)
      PROVE  LeavingFits'
  BY <1>32 DEF StepReturns, LeavingFits, SchedulerTypeOK
<1>33. ASSUME NEW w \in Workers, ClearAssignment(w)
      PROVE  LeavingFits'
  BY <1>33 DEF ClearAssignment, LeavingFits, SchedulerTypeOK
<1>34. ASSUME NEW w \in Workers, ReturnAndUnblockTask(w)
      PROVE  LeavingFits'
  BY <1>34 DEF ReturnAndUnblockTask, LeavingFits, SchedulerTypeOK
<1>35. ASSUME NEW w \in Workers, RemoveBlockedTask(w)
      PROVE  LeavingFits'
  BY <1>35 DEF RemoveBlockedTask, LeavingFits, SchedulerTypeOK
<1>36. ASSUME NEW w \in Workers, ReleaseWorker(w)
      PROVE  LeavingFits'
  BY <1>36 DEF ReleaseWorker, LeavingFits, SchedulerTypeOK
<1> HIDE DEF TypeOK
<1> QED
  BY <1>1, <1>2, <1>3, <1>4, <1>5, <1>6, <1>7, <1>8, <1>9, <1>10, <1>11, <1>12, <1>13,
    <1>14, <1>15, <1>16, <1>17, <1>18, <1>19, <1>20, <1>21, <1>22, <1>23, <1>24,
    <1>25, <1>26, <1>27, <1>28, <1>29, <1>30, <1>31, <1>32, <1>33, <1>34, <1>35, <1>36
  DEF PreparedNext, NoAbortNext, Next, Call, Direct, Proceed, Work, AreAllWorkersIdle

\* A block has at most one pool, the one of its priority.
LEMMA BlocksFitStep ==
  ASSUME TypeOK, OnePoolPerBlock, BlocksFit, [Next]_vars
  PROVE  BlocksFit'
<1>1. CASE mPools' = mPools
  BY <1>1 DEF BlocksFit
<1>2. ASSUME NEW t \in Clients, NEW p \in Pools, RegisterPool(t, p)
      PROVE  BlocksFit'
  <2> DEFINE b == PriorityOf[p]
  <2>1. b \in Priorities /\ mPools[b] \in Seq(Pools)
    BY ConstantsAssumption DEF ConstantsAssumption, TypeOK, SchedulerTypeOK
  <2>2. mPools[b] = << >>
    <3>1. ASSUME mPools[b] # << >>
          PROVE  FALSE
      <4>1. 1 \in DOMAIN mPools[b] /\ mPools[b][1] \in Pools
        BY <2>1, <3>1
      <4>2. PriorityOf[mPools[b][1]] = b
        BY <2>1, <4>1 DEF BlocksFit
      <4>3. mPools[b][1] = p
        BY <4>1, <4>2 DEF OnePoolPerBlock
      <4> QED
        BY <1>2, <4>1, <4>3 DEF RegisterPool, IsRegistered
    <3> QED
      BY <3>1
  <2>3. mPools' = [mPools EXCEPT ![b] = <<p>>]
    <3>1. mPools' = [mPools EXCEPT ![b] = Append(mPools[b], p)]
      BY <1>2 DEF RegisterPool
    <3>2. Append(mPools[b], p) = <<p>>
      BY <2>2
    <3> QED
      BY <3>1, <3>2
  <2>4. ASSUME NEW c \in Priorities
        PROVE  /\ Len(mPools'[c]) <= 1
               /\ \A k \in DOMAIN mPools'[c] : PriorityOf[mPools'[c][k]] = c
    <3>1. CASE c = b
      <4>1. mPools'[c] = <<p>>
        BY <2>1, <2>3, <3>1 DEF TypeOK, SchedulerTypeOK
      <4> QED
        BY <3>1, <4>1
    <3>2. CASE c # b
      <4>1. mPools'[c] = mPools[c]
        BY <2>3, <3>2 DEF TypeOK, SchedulerTypeOK
      <4> QED
        BY <4>1 DEF BlocksFit
    <3> QED
      BY <3>1, <3>2
  <2> QED
    BY <2>4 DEF BlocksFit
<1>3. mPools' = mPools \/ \E c \in Clients : \E q \in Pools : RegisterPool(c, q)
  <2> SUFFICES ASSUME ~ \E c \in Clients : \E q \in Pools : RegisterPool(c, q)
               PROVE  mPools' = mPools
    OBVIOUS
  <2>1. ASSUME NEW t \in Clients, NEW w \in Workers, RegisterWorker(t, w)
        PROVE  mPools' = mPools
    BY <2>1 DEF RegisterWorker
  <2>2. ASSUME NEW t \in Clients, NEW w \in Workers, UnregisterWorker(t, w)
        PROVE  mPools' = mPools
    BY <2>2 DEF UnregisterWorker
  <2>3. ASSUME NEW t \in Clients, NEW p \in Pools, RegisterPool(t, p)
        PROVE  mPools' = mPools
    BY <2>3
  <2>4. ASSUME NEW t \in Clients, NEW p \in Pools, AddTask(t, p)
        PROVE  mPools' = mPools
    BY <2>4 DEF AddTask
  <2>5. ASSUME NEW t \in Clients, NEW p \in Pools,
               AttemptAbortAllTasks(t, p)
        PROVE  mPools' = mPools
    BY <2>5 DEF AttemptAbortAllTasks
  <2>6. ASSUME NEW t \in Clients, NEW p \in Pools, NEW i \in TaskIDs,
               AttemptAbortTask(t, p, i)
        PROVE  mPools' = mPools
    BY <2>6 DEF AttemptAbortTask
  <2>7. CASE StartDispatching
    BY <2>7 DEF StartDispatching
  <2>8. ASSUME NEW block \in BOOLEAN, StopDispatching(block)
        PROVE  mPools' = mPools
    BY <2>8 DEF StopDispatching
  <2>9. CASE AllTasksAreCurrentlyCompleted
    BY <2>9 DEF AllTasksAreCurrentlyCompleted
  <2>10. ASSUME NEW t \in Threads, OnTasksNewlyAvailable(t)
        PROVE  mPools' = mPools
    BY <2>10 DEF OnTasksNewlyAvailable
  <2>11. ASSUME NEW t \in Threads, NEW i \in TaskIDs, BlockToAbort(t, i)
        PROVE  mPools' = mPools
    BY <2>11 DEF BlockToAbort
  <2>12. ASSUME NEW t \in Threads, MarkAbortPending(t)
        PROVE  mPools' = mPools
    BY <2>12 DEF MarkAbortPending
  <2>13. ASSUME NEW t \in Threads, RemoveAborted(t)
        PROVE  mPools' = mPools
    BY <2>13 DEF RemoveAborted
  <2>14. ASSUME NEW t \in Threads, FailToLocate(t)
        PROVE  mPools' = mPools
    BY <2>14 DEF FailToLocate
  <2>15. ASSUME NEW t \in Threads, AbortDone(t)
        PROVE  mPools' = mPools
    BY <2>15 DEF AbortDone
  <2>16. ASSUME NEW t \in Threads, CheckPermitted(t)
        PROVE  mPools' = mPools
    BY <2>16 DEF CheckPermitted
  <2>17. ASSUME NEW t \in Threads, NEW w \in Workers, FlagNextWorker(t, w)
        PROVE  mPools' = mPools
    BY <2>17 DEF FlagNextWorker
  <2>18. ASSUME NEW t \in Threads, NoFurtherWorker(t)
        PROVE  mPools' = mPools
    BY <2>18 DEF NoFurtherWorker
  <2>19. ASSUME NEW t \in Threads, EnterBlock(t)
        PROVE  mPools' = mPools
    BY <2>19 DEF EnterBlock
  <2>20. ASSUME NEW t \in Threads, EnterPool(t)
        PROVE  mPools' = mPools
    BY <2>20 DEF EnterPool
  <2>21. ASSUME NEW t \in Threads, LeaveBlocks(t)
        PROVE  mPools' = mPools
    BY <2>21 DEF LeaveBlocks
  <2>22. ASSUME NEW t \in Threads, NEW i \in TaskIDs, VisitRecord(t, i)
        PROVE  mPools' = mPools
    BY <2>22 DEF VisitRecord
  <2>23. ASSUME NEW t \in Threads, NoFurtherRecord(t)
        PROVE  mPools' = mPools
    BY <2>23 DEF NoFurtherRecord
  <2>24. ASSUME NEW t \in Threads, TakeRecord(t)
        PROVE  mPools' = mPools
    BY <2>24 DEF TakeRecord
  <2>25. ASSUME NEW t \in Threads, GiveTask(t)
        PROVE  mPools' = mPools
    BY <2>25 DEF GiveTask
  <2>26. ASSUME NEW t \in Threads, UndoFlag(t)
        PROVE  mPools' = mPools
    BY <2>26 DEF UndoFlag
  <2>27. ASSUME NEW t \in Threads, ReturnPeeked(t)
        PROVE  mPools' = mPools
    BY <2>27 DEF ReturnPeeked
  <2>28. CASE SeeAllIdle
    BY <2>28 DEF SeeAllIdle
  <2>29. ASSUME NEW w \in Workers, SeeIdleWorker(w)
        PROVE  mPools' = mPools
    BY <2>29 DEF SeeIdleWorker
  <2>30. ASSUME NEW w \in Workers, SeeActiveWorker(w)
        PROVE  mPools' = mPools
    BY <2>30 DEF SeeActiveWorker
  <2>31. ASSUME NEW w \in Workers, PullWork(w)
        PROVE  mPools' = mPools
    BY <2>31 DEF PullWork
  <2>32. ASSUME NEW w \in Workers, NEW state \in TaskStates,
               StepReturns(w, state)
        PROVE  mPools' = mPools
    BY <2>32 DEF StepReturns
  <2>33. ASSUME NEW w \in Workers, ClearAssignment(w)
        PROVE  mPools' = mPools
    BY <2>33 DEF ClearAssignment
  <2>34. ASSUME NEW w \in Workers, ReturnAndUnblockTask(w)
        PROVE  mPools' = mPools
    BY <2>34 DEF ReturnAndUnblockTask
  <2>35. ASSUME NEW w \in Workers, RemoveBlockedTask(w)
        PROVE  mPools' = mPools
    BY <2>35 DEF RemoveBlockedTask
  <2>36. ASSUME NEW w \in Workers, ReleaseWorker(w)
        PROVE  mPools' = mPools
    BY <2>36 DEF ReleaseWorker
  <2>37. CASE UNCHANGED vars
    BY <2>37 DEF vars
  <2> QED
    BY <2>37, <2>1, <2>2, <2>3, <2>4, <2>5, <2>6, <2>7, <2>8, <2>9, <2>10, <2>11, <2>12,
      <2>13, <2>14, <2>15, <2>16, <2>17, <2>18, <2>19, <2>20, <2>21, <2>22, <2>23,
      <2>24, <2>25, <2>26, <2>27, <2>28, <2>29, <2>30, <2>31, <2>32, <2>33, <2>34,
      <2>35, <2>36
    DEF Next, Call, Direct, Proceed, Work, AreAllWorkersIdle
<1> QED
  BY <1>1, <1>2, <1>3

\* What else holds of a scheduler that is prepared before it dispatches.
LEMMA PreparedShapeStep ==
  ASSUME OnePoolPerBlock, IInv, PreparedShape, [PreparedNext]_vars
  PROVE  PreparedShape'
<1>1. CASE UNCHANGED vars
  BY <1>1 DEF vars, PreparedShape, NothingAborted, ScanFits, AsksWhileStopped, Asking,
     LeavingFits, BlocksFit
<1>2. CASE PreparedNext
  <2>1. [Next]_vars
    BY <1>2 DEF PreparedNext, NoAbortNext
  <2> QED
    BY <1>2, <2>1, NothingAbortedStep, ScanFitsStep, AsksWhileStoppedStep,
       LeavingFitsStep, BlocksFitStep
    DEF PreparedShape, IInv
<1> QED
  BY <1>1, <1>2

\* The shape holds before anything is registered.
LEMMA InitPreparedShape == Init => PreparedShape
  BY ConstantsAssumption
  DEF Init, PreparedShape, NothingAborted, ScanFits, AsksWhileStopped, Asking,
      LeavingFits, BlocksFit

-----------------------------------------------------------------------------
(* Counting the tasks a search has missed and the workers in reserve.      *)

\* Workers and tasks are few enough to be counted.
LEMMA Countable ==
  ASSUME NEW R \in SUBSET Workers, NEW M \in SUBSET TaskIDs
  PROVE  /\ IsFiniteSet(R) /\ Cardinality(R) \in Nat
         /\ IsFiniteSet(M) /\ Cardinality(M) \in Nat
<1>1. IsFiniteSet(R)
  BY ConstantsAssumption, FS_Subset DEF ConstantsAssumption
<1>2. IsFiniteSet(M)
  <2>1. IsFiniteSet(1 .. MaxTasks)
    BY ConstantsAssumption, FS_Interval DEF ConstantsAssumption
  <2> QED
    BY <2>1, FS_Subset
<1> QED
  BY <1>1, <1>2, FS_CardinalityType

\* Fewer tasks missed, and more workers in reserve.
LEMMA CountKept ==
  ASSUME NEW M \in SUBSET TaskIDs, NEW N \in SUBSET M,
         NEW S \in SUBSET Workers, NEW R \in SUBSET S,
         Cardinality(M) <= Cardinality(R)
  PROVE  Cardinality(N) <= Cardinality(S)
<1>1. IsFiniteSet(M) /\ IsFiniteSet(S)
  BY Countable
<1>2. Cardinality(N) <= Cardinality(M) /\ Cardinality(R) <= Cardinality(S)
  BY <1>1, FS_Subset
<1>3. /\ Cardinality(N) \in Nat /\ Cardinality(M) \in Nat
      /\ Cardinality(R) \in Nat /\ Cardinality(S) \in Nat
  BY Countable
<1> QED
  BY <1>2, <1>3

\* One more task missed, and one more worker in reserve.
LEMMA CountAdded ==
  ASSUME NEW M \in SUBSET TaskIDs, NEW i \in TaskIDs, NEW N \in SUBSET (M \cup {i}),
         NEW R \in SUBSET Workers, NEW w \in Workers \ R,
         NEW S \in SUBSET Workers, R \cup {w} \subseteq S,
         Cardinality(M) <= Cardinality(R)
  PROVE  Cardinality(N) <= Cardinality(S)
<1>1. IsFiniteSet(M) /\ IsFiniteSet(R)
  BY Countable
<1>2. Cardinality(M \cup {i}) <= Cardinality(R \cup {w})
  <2>1. /\ Cardinality(M \cup {i}) = IF i \in M THEN Cardinality(M) ELSE Cardinality(M) + 1
        /\ Cardinality(R \cup {w}) = Cardinality(R) + 1
    BY <1>1, FS_AddElement
  <2>2. Cardinality(M) \in Nat /\ Cardinality(R) \in Nat
    BY Countable
  <2> QED
    BY <2>1, <2>2
<1>3. M \cup {i} \in SUBSET TaskIDs /\ R \cup {w} \in SUBSET S
  OBVIOUS
<1> QED
  BY <1>2, <1>3, CountKept

\* One task missed less, and one worker in reserve less.
LEMMA CountRemoved ==
  ASSUME NEW M \in SUBSET TaskIDs, NEW i \in M, NEW N \in SUBSET (M \ {i}),
         NEW R \in SUBSET Workers, NEW w \in Workers,
         NEW S \in SUBSET Workers, R \ {w} \subseteq S,
         Cardinality(M) <= Cardinality(R)
  PROVE  Cardinality(N) <= Cardinality(S)
<1>1. IsFiniteSet(M) /\ IsFiniteSet(R)
  BY Countable
<1>2. Cardinality(M \ {i}) <= Cardinality(R \ {w})
  <2>1. /\ Cardinality(M \ {i}) = Cardinality(M) - 1
        /\ Cardinality(R \ {w}) = IF w \in R THEN Cardinality(R) - 1 ELSE Cardinality(R)
    BY <1>1, FS_RemoveElement
  <2>2. Cardinality(M) \in Nat /\ Cardinality(R) \in Nat
    BY Countable
  <2> QED
    BY <2>1, <2>2
<1>3. M \ {i} \in SUBSET TaskIDs /\ R \ {w} \in SUBSET S
  OBVIOUS
<1> QED
  BY <1>2, <1>3, CountKept

-----------------------------------------------------------------------------
(* The order in which every search visits the records.                     *)

\* Record i of pool p is visited no later than record j of pool q.
Before(p, i, q, j) == PriorityOf[p] < PriorityOf[q] \/ (p = q /\ i <= j)

\* The order is total when a block has one pool.
LEMMA VisitsInOrder ==
  ASSUME OnePoolPerBlock, NEW p \in Pools, NEW q \in Pools,
         NEW i \in TaskIDs, NEW j \in TaskIDs
  PROVE  Before(p, i, q, j) \/ Before(q, j, p, i)
  BY ConstantsAssumption DEF ConstantsAssumption, Before, OnePoolPerBlock

\* A search that has passed a record has passed those before it.
LEMMA PassedInOrder ==
  ASSUME TypeOK, NEW t \in Threads, NEW p \in Pools, NEW q \in Pools,
         NEW i \in TaskIDs, NEW j \in TaskIDs,
         Before(p, i, q, j), Passed(t, q, j)
  PROVE  Passed(t, p, i)
<1>1. /\ PriorityOf[p] \in Nat /\ PriorityOf[q] \in Nat /\ prio[t] \in Nat
      /\ cursor[t] \in Nat
  BY ConstantsAssumption DEF ConstantsAssumption, TypeOK, ThreadTypeOK
<1>2. CASE PriorityOf[p] < PriorityOf[q]
  BY <1>1, <1>2 DEF Passed
<1>3. CASE p = q /\ i <= j
  BY <1>1, <1>3 DEF Passed
<1> QED
  BY <1>2, <1>3 DEF Before

\* So what is behind a worker begins with the first record,
LEMMA BehindInOrder ==
  ASSUME TypeOK, NEW v \in Workers, NEW p \in Pools, NEW q \in Pools,
         NEW i \in TaskIDs, NEW j \in TaskIDs,
         Before(p, i, q, j), Behind(v, q, j)
  PROVE  Behind(v, p, i)
  BY PassedInOrder DEF Behind

\* and what is ahead of a worker ends with the last.
LEMMA AheadInOrder ==
  ASSUME TypeOK, NEW v \in Workers, NEW p \in Pools, NEW q \in Pools,
         NEW i \in TaskIDs, NEW j \in TaskIDs,
         Before(p, i, q, j), Ahead(v, p, i)
  PROVE  Ahead(v, q, j)
  BY PassedInOrder DEF Ahead

\* A worker is looked for by one thread, and not while it is idle or runs.
LEMMA OneSearch ==
  ASSUME TypeOK, OneOwnerPerWorker, NEW t \in Threads, Scanning(t)
  PROVE  /\ worker[t] \in mWorkers /\ worker[t] \in Workers
         /\ mFlaggedAsActive[worker[t]] /\ ~Running(worker[t])
         /\ \A u \in Threads : Scanning(u) /\ worker[u] = worker[t] => u = t
  BY DEF TypeOK, SchedulerTypeOK, OneOwnerPerWorker, DispatcherOwns, Scanning

-----------------------------------------------------------------------------
(* What a step leaves as it was.                                           *)

\* What is said of worker v still holds, as far as the count goes.
KeepsWaiting ==
  \A p \in Pools : \A i \in TaskIDs : Waiting(p, i)' <=> Waiting(p, i)

\* The count for one worker is kept when nothing waiting is behind it any more, or when
\* nothing has changed for it and whoever would be offered a task still will be.
LEMMA Recount ==
  ASSUME TypeOK, TypeOK', mWorkers' = mWorkers, KeepsWaiting, NEW v \in mWorkers,
         Cardinality(Missed(v)) <= Cardinality(Reserve(v)),
         \/ \A p \in Pools : \A i \in TaskIDs : Waiting(p, i) => ~Behind(v, p, i)'
         \/ /\ \A p \in Pools : \A i \in TaskIDs :
                 Waiting(p, i) => (Behind(v, p, i)' <=> Behind(v, p, i))
            /\ \A w \in mWorkers : \A p \in Pools : \A i \in TaskIDs :
                 Waiting(p, i) /\ Ahead(w, p, i) => Ahead(w, p, i)'
  PROVE  Cardinality(Missed(v)') <= Cardinality(Reserve(v)')
<1>1. /\ Missed(v) \in SUBSET TaskIDs /\ Missed(v)' \in SUBSET TaskIDs
      /\ Reserve(v) \in SUBSET Workers /\ Reserve(v)' \in SUBSET Workers
  BY DEF Missed, Reserve, TypeOK, SchedulerTypeOK
<1>2. CASE \A p \in Pools : \A i \in TaskIDs : Waiting(p, i) => ~Behind(v, p, i)'
  <2>1. Missed(v)' = {}
    BY <1>2 DEF Missed, KeepsWaiting
  <2>2. Cardinality(Reserve(v)') \in Nat
    BY <1>1, Countable
  <2> QED
    BY <2>1, <2>2, FS_EmptySet
<1>3. CASE /\ \A p \in Pools : \A i \in TaskIDs :
                Waiting(p, i) => (Behind(v, p, i)' <=> Behind(v, p, i))
           /\ \A w \in mWorkers : \A p \in Pools : \A i \in TaskIDs :
                Waiting(p, i) /\ Ahead(w, p, i) => Ahead(w, p, i)'
  <2>1. Missed(v)' \subseteq Missed(v)
    BY <1>3 DEF Missed, KeepsWaiting
  <2>2. Reserve(v) \subseteq Reserve(v)'
    BY <1>3 DEF Reserve, KeepsWaiting
  <2> QED
    BY <1>1, <2>1, <2>2, CountKept
<1> QED
  BY <1>2, <1>3

\* Thread t is as far with its search as it was, and comes to the workers it would.
KeepsSearch(t) ==
  /\ pc[t] = "release" => pc'[t] = "release"
  /\ Scanning(t)' <=> Scanning(t)
  /\ Scanning(t) => /\ worker'[t] = worker[t]
                    /\ \A p \in Pools : \A i \in TaskIDs :
                         Waiting(p, i) => (Passed(t, p, i)' <=> Passed(t, p, i))
  /\ \A v \in mWorkers : ~mFlaggedAsActive[v] /\ ComesTo(t, v) => ComesTo(t, v)'

\* That is so for a thread that does not move.
LEMMA SearchUntouched ==
  ASSUME NEW t \in Threads,
         pc'[t] = pc[t], worker'[t] = worker[t], prio'[t] = prio[t],
         left'[t] = left[t], cursor'[t] = cursor[t]
  PROVE  KeepsSearch(t)
  BY DEF KeepsSearch, Scanning, Dispatching, Passed, ComesTo

\* A step that flags nobody and moves no search relative to what waits keeps the count.
LEMMA SearchFrame ==
  ASSUME TypeOK, TypeOK', OneOwnerPerWorker, MissedAreReserved, mDispatchingPermitted,
         UNCHANGED <<mWorkers, mFlaggedAsActive>>, KeepsWaiting,
         \A t \in Threads : KeepsSearch(t)
  PROVE  MissedAreReserved'
<1> SUFFICES ASSUME NEW v \in mWorkers
             PROVE  Cardinality(Missed(v)') <= Cardinality(Reserve(v)')
  BY DEF MissedAreReserved
<1>1. \A w \in mWorkers : ~mFlaggedAsActive[w] /\ SweepAhead(w) => SweepAhead(w)'
  BY DEF SweepAhead, KeepsSearch
<1>2. \A t \in Threads : Scanning(t)' <=> Scanning(t)
  BY DEF KeepsSearch
<1>3. ASSUME NEW w \in mWorkers, NEW p \in Pools, NEW i \in TaskIDs, Waiting(p, i),
             Ahead(w, p, i)
      PROVE  Ahead(w, p, i)'
  <2>1. w \in Threads
    BY DEF TypeOK, SchedulerTypeOK
  <2> QED
    BY <1>1, <1>3, <2>1 DEF Ahead, KeepsSearch
<1>4. ASSUME NEW p \in Pools, NEW i \in TaskIDs, Waiting(p, i)
      PROVE  (\E t \in Threads : Scanning(t)' /\ worker'[t] = v /\ Passed(t, p, i)')
             <=> (\E t \in Threads : Scanning(t) /\ worker[t] = v /\ Passed(t, p, i))
  BY <1>4 DEF KeepsSearch
<1>5. CASE mFlaggedAsActive[v] \/ ~SweepAhead(v)'
  <2>1. \A p \in Pools : \A i \in TaskIDs :
          Waiting(p, i) => (Behind(v, p, i)' <=> Behind(v, p, i))
    BY <1>1, <1>4, <1>5 DEF Behind
  <2> QED
    BY <1>3, <2>1, Recount DEF MissedAreReserved
<1>6. CASE ~mFlaggedAsActive[v] /\ SweepAhead(v)'
  <2>1. \A t \in Threads : Scanning(t) => worker[t] # v
    BY <1>6, OneSearch
  <2>2. \A p \in Pools : \A i \in TaskIDs : Waiting(p, i) => ~Behind(v, p, i)'
    BY <1>4, <1>6, <2>1 DEF Behind
  <2> QED
    BY <2>2, Recount DEF MissedAreReserved
<1> QED
  BY <1>5, <1>6

-----------------------------------------------------------------------------
(* The steps that change the count.                                        *)

\* The pool a search is in is the one of its block.
LEMMA SearchedPool ==
  ASSUME TypeOK, ThreadShape, BlocksFit, OnePoolPerBlock, NEW t \in Threads, ScanFits(t),
         pc[t] \in {"visit", "take"}
  PROVE  /\ pool[t] \in Pools /\ PriorityOf[pool[t]] = prio[t] /\ left[t] = 1
         /\ IsRegistered(pool[t])
         /\ \A p \in Pools : PriorityOf[p] = prio[t] => p = pool[t]
<1>1. /\ pool[t] \in Pools /\ left[t] > 0 /\ left[t] <= Len(mPools[prio[t]])
      /\ prio[t] \in Priorities /\ index[t] < Len(mPools[prio[t]])
      /\ pool[t] = mPools[prio[t]][index[t] + 1]
  BY DEF ThreadShape, HandsFit, ScanFits
<1>2. /\ mPools[prio[t]] \in Seq(Pools) /\ index[t] \in Nat /\ left[t] \in Nat
      /\ Len(mPools[prio[t]]) <= 1
  BY <1>1 DEF TypeOK, SchedulerTypeOK, ThreadTypeOK, BlocksFit
<1>3. left[t] = 1 /\ index[t] = 0 /\ 1 \in DOMAIN mPools[prio[t]]
  BY <1>1, <1>2
<1>4. PriorityOf[pool[t]] = prio[t]
  BY <1>1, <1>3 DEF BlocksFit
<1>5. IsRegistered(pool[t])
  BY <1>1, <1>3, <1>4 DEF IsRegistered
<1>6. \A p \in Pools : PriorityOf[p] = prio[t] => p = pool[t]
  BY <1>1, <1>4 DEF OnePoolPerBlock
<1> QED
  BY <1>1, <1>3, <1>4, <1>5, <1>6

\* Workers are numbered, from one on.
LEMMA WorkerNumbers ==
  ASSUME TypeOK
  PROVE  /\ mWorkers \subseteq Workers /\ \A v \in Workers : v \in Nat /\ v > 0
         /\ \A t \in Threads : worker[t] \in Nat
<1>1. Workers \subseteq Nat \ {0}
  BY ConstantsAssumption DEF ConstantsAssumption
<1>2. \A t \in Threads : worker[t] \in Workers \cup {0}
  BY DEF TypeOK, ThreadTypeOK
<1>3. mWorkers \subseteq Workers
  BY DEF TypeOK, SchedulerTypeOK
<1>4. \A v \in Workers : v \in Nat /\ v > 0
  BY <1>1
<1> QED
  BY <1>2, <1>3, <1>4

\* A worker is flagged: its search starts, and it comes to all tasks.
LEMMA FlagCounts ==
  ASSUME TypeOK, TypeOK', ThreadShape, OneOwnerPerWorker, OneOwnerPerBlock, OneRecordPerTask,
         NothingAborted, \A t \in Threads : ScanFits(t), AsksWhileStopped, LeavingFits,
         BlocksFit, OnePoolPerBlock, mDispatchingPermitted, MissedAreReserved,
         NEW t \in Threads, NEW w \in Workers, FlagNextWorker(t, w), ~mFlaggedAsActive[w]
  PROVE  MissedAreReserved'
<1>1. /\ pc[t] = "flag" /\ w \in mWorkers /\ worker[t] < w /\ w # NoWorker
      /\ \A v \in mWorkers : worker[t] < v => w <= v
  BY WorkerNumbers DEF FlagNextWorker, IsFirst, LaterWorkers
<1>2. /\ pc' = [pc EXCEPT ![t] = "nextPool"] /\ worker' = [worker EXCEPT ![t] = w]
      /\ mFlaggedAsActive' = [mFlaggedAsActive EXCEPT ![w] = TRUE]
      /\ UNCHANGED <<prio, left, cursor, mWorkers, mPools, mTaskRecords, mBlocked>>
  BY <1>1 DEF FlagNextWorker, LeavingFits
<1>3. KeepsWaiting
  BY <1>2 DEF KeepsWaiting, Waiting, IsRegistered
<1>4. /\ pc'[t] = "nextPool" /\ worker'[t] = w /\ prio'[t] = 0 /\ left'[t] = 0
      /\ mFlaggedAsActive'[w]
      /\ \A v \in Workers : v # w => mFlaggedAsActive'[v] = mFlaggedAsActive[v]
  BY <1>1, <1>2 DEF TypeOK, SchedulerTypeOK, ThreadTypeOK, ScanFits
<1>5. \A u \in Threads : u # t =>
        /\ pc'[u] = pc[u] /\ worker'[u] = worker[u] /\ prio'[u] = prio[u]
        /\ left'[u] = left[u] /\ cursor'[u] = cursor[u]
  BY <1>2 DEF TypeOK, ThreadTypeOK
<1>6. /\ ~Scanning(t) /\ Scanning(t)'
      /\ \A u \in Threads : u # t => /\ Scanning(u)' <=> Scanning(u)
                                     /\ Scanning(u) => worker[u] # w
      /\ \A u \in Threads : u # t => \A p \in Pools : \A i \in TaskIDs :
           Passed(u, p, i)' <=> Passed(u, p, i)
      /\ \A p \in Pools : \A i \in TaskIDs : ~Passed(t, p, i)'
  <2>1. ~Scanning(t) /\ Scanning(t)'
    BY <1>1, <1>4 DEF Scanning, Dispatching
  <2>2. \A u \in Threads : u # t => /\ Scanning(u)' <=> Scanning(u)
                                    /\ Scanning(u) => worker[u] # w
    BY <1>5, OneSearch DEF Scanning, Dispatching
  <2>3. \A u \in Threads : u # t => \A p \in Pools : \A i \in TaskIDs :
           Passed(u, p, i)' <=> Passed(u, p, i)
    BY <1>5 DEF Passed
  <2>4. \A p \in Pools : \A i \in TaskIDs : ~Passed(t, p, i)'
    BY <1>4, ConstantsAssumption DEF ConstantsAssumption, Passed
  <2> QED
    BY <2>1, <2>2, <2>3, <2>4
<1>7. \A v \in mWorkers : v # w => (SweepAhead(v)' <=> SweepAhead(v))
  <2>1. \A u \in Threads : u # t => \A v \in mWorkers : ComesTo(u, v)' <=> ComesTo(u, v)
    BY <1>5 DEF ComesTo, Dispatching
  <2>2. \A v \in mWorkers : v # w => (ComesTo(t, v)' <=> ComesTo(t, v))
    <3>1. ASSUME NEW v \in mWorkers, v # w
          PROVE  worker[t] < v <=> w < v
      <4>1. v \in Nat /\ w \in Nat /\ worker[t] \in Nat
        BY WorkerNumbers
      <4> QED
        BY <1>1, <3>1, <4>1
    <3> QED
      BY <1>1, <1>4, <3>1 DEF ComesTo, Dispatching
  <2> QED
    BY <2>1, <2>2 DEF SweepAhead
<1>8. ASSUME NEW v \in mWorkers, v # w, NEW p \in Pools, NEW i \in TaskIDs
      PROVE  /\ Behind(v, p, i)' <=> Behind(v, p, i)
             /\ Ahead(v, p, i) => Ahead(v, p, i)'
  <2>1. v \in Workers /\ v \in Threads
    BY DEF TypeOK, SchedulerTypeOK
  <2>2. pc[v] = "release" => pc'[v] = "release"
    BY <1>1, <1>5, <2>1
  <2>3. Behind(v, p, i)' <=> Behind(v, p, i)
    BY <1>4, <1>5, <1>6, <1>7, <1>8, <2>1 DEF Behind
  <2>4. Ahead(v, p, i) => Ahead(v, p, i)'
    BY <1>4, <1>5, <1>6, <1>7, <1>8, <2>1, <2>2 DEF Ahead
  <2> QED
    BY <2>3, <2>4
<1>9. ASSUME NEW p \in Pools, NEW i \in TaskIDs
      PROVE  Ahead(w, p, i)' /\ ~Behind(w, p, i)'
  BY <1>4, <1>5, <1>6 DEF Ahead, Behind
<1>10. ASSUME NEW v \in mWorkers
       PROVE  Cardinality(Missed(v)') <= Cardinality(Reserve(v)')
  <2>1. Cardinality(Missed(v)) <= Cardinality(Reserve(v))
    BY DEF MissedAreReserved
  <2>2. CASE v = w
    BY <1>2, <1>3, <1>9, <2>1, <2>2, Recount
  <2>3. CASE v # w
    BY <1>2, <1>3, <1>8, <1>9, <2>1, <2>3, Recount
  <2> QED
    BY <2>2, <2>3
<1> QED
  BY <1>2, <1>10 DEF MissedAreReserved

\* A search ends without a task: it has passed all of them.
LEMMA UndoCounts ==
  ASSUME TypeOK, TypeOK', ThreadShape, OneOwnerPerWorker, OneOwnerPerBlock, OneRecordPerTask,
         NothingAborted, \A t \in Threads : ScanFits(t), AsksWhileStopped, LeavingFits,
         BlocksFit, OnePoolPerBlock, mDispatchingPermitted, MissedAreReserved,
         NEW t \in Threads, UndoFlag(t)
  PROVE  MissedAreReserved'
<1> DEFINE w == worker[t]
<1>1. /\ pc[t] = "undo" /\ pc' = [pc EXCEPT ![t] = "flag"]
      /\ mFlaggedAsActive' = [mFlaggedAsActive EXCEPT ![w] = FALSE]
      /\ UNCHANGED <<worker, prio, left, cursor, mWorkers, mPools, mTaskRecords, mBlocked>>
  BY DEF UndoFlag
<1>2. KeepsWaiting
  BY <1>1 DEF KeepsWaiting, Waiting, IsRegistered
<1>3. Scanning(t) /\ \A p \in Pools : \A i \in TaskIDs : Passed(t, p, i)
  BY <1>1 DEF Scanning, Dispatching, Passed, ThreadShape, HandsFit
<1>4. /\ w \in mWorkers /\ w \in Workers /\ mFlaggedAsActive[w] /\ ~Running(w)
      /\ \A u \in Threads : Scanning(u) /\ worker[u] = w => u = t
  BY <1>3, OneSearch
<1>5. /\ pc'[t] = "flag" /\ ~mFlaggedAsActive'[w]
      /\ \A v \in Workers : v # w => mFlaggedAsActive'[v] = mFlaggedAsActive[v]
      /\ \A u \in Threads : u # t => pc'[u] = pc[u]
      /\ \A u \in Threads :
           worker'[u] = worker[u] /\ prio'[u] = prio[u] /\ left'[u] = left[u]
           /\ cursor'[u] = cursor[u]
  BY <1>1, <1>4 DEF TypeOK, SchedulerTypeOK, ThreadTypeOK
<1>6. /\ ~Scanning(t)'
      /\ \A u \in Threads : u # t =>
           /\ Scanning(u)' <=> Scanning(u)
           /\ \A p \in Pools : \A i \in TaskIDs : Passed(u, p, i)' <=> Passed(u, p, i)
  BY <1>5 DEF Scanning, Dispatching, Passed
<1>7. \A v \in mWorkers : SweepAhead(v)' <=> SweepAhead(v)
  <2>1. \A u \in Threads : \A v \in mWorkers : ComesTo(u, v)' <=> ComesTo(u, v)
    BY <1>1, <1>3, <1>5 DEF ComesTo, Dispatching, Scanning
  <2> QED
    BY <2>1 DEF SweepAhead
<1>8. ASSUME NEW v \in mWorkers, v # w, NEW p \in Pools, NEW i \in TaskIDs
      PROVE  /\ Behind(v, p, i)' <=> Behind(v, p, i)
             /\ Ahead(v, p, i) => Ahead(v, p, i)'
  <2>1. v \in Workers /\ v \in Threads
    BY DEF TypeOK, SchedulerTypeOK
  <2>2. pc[v] = "release" => pc'[v] = "release"
    BY <1>1, <1>5, <2>1
  <2>3. Behind(v, p, i)' <=> Behind(v, p, i)
    BY <1>5, <1>6, <1>7, <1>8, <2>1 DEF Behind
  <2>4. Ahead(v, p, i) => Ahead(v, p, i)'
    BY <1>5, <1>6, <1>7, <1>8, <2>1, <2>2 DEF Ahead
  <2> QED
    BY <2>3, <2>4
<1>9. ASSUME NEW p \in Pools, NEW i \in TaskIDs
      PROVE  /\ Behind(w, p, i) /\ ~Ahead(w, p, i)
             /\ Behind(w, p, i)' <=> ~SweepAhead(w)'
  <2>1. Behind(w, p, i)
    BY <1>3 DEF Behind
  <2>2. ~Ahead(w, p, i)
    BY <1>3, <1>4 DEF Ahead, Running
  <2>3. Behind(w, p, i)' <=> ~SweepAhead(w)'
    BY <1>4, <1>5, <1>6 DEF Behind
  <2> QED
    BY <2>1, <2>2, <2>3
<1>10. ASSUME NEW v \in mWorkers
       PROVE  Cardinality(Missed(v)') <= Cardinality(Reserve(v)')
  <2>1. Cardinality(Missed(v)) <= Cardinality(Reserve(v))
    BY DEF MissedAreReserved
  <2>2. \A x \in mWorkers : \A p \in Pools : \A i \in TaskIDs :
          Ahead(x, p, i) => Ahead(x, p, i)'
    BY <1>8, <1>9
  <2>3. CASE v = w /\ SweepAhead(w)'
    BY <1>1, <1>2, <1>9, <2>1, <2>3, Recount
  <2>4. CASE v = w /\ ~SweepAhead(w)'
    BY <1>1, <1>2, <1>9, <2>1, <2>2, <2>4, Recount
  <2>5. CASE v # w
    BY <1>1, <1>2, <1>8, <2>1, <2>2, <2>5, Recount
  <2> QED
    BY <2>3, <2>4, <2>5
<1> QED
  BY <1>1, <1>10 DEF MissedAreReserved

\* A worker that is free again is about to be served by its own thread.
LEMMA ReleaseCounts ==
  ASSUME TypeOK, TypeOK', ThreadShape, OneOwnerPerWorker, OneOwnerPerBlock, OneRecordPerTask,
         NothingAborted, \A t \in Threads : ScanFits(t), AsksWhileStopped, LeavingFits,
         BlocksFit, OnePoolPerBlock, mDispatchingPermitted, MissedAreReserved,
         NEW w \in Workers, ReleaseWorker(w)
  PROVE  MissedAreReserved'
<1>1. /\ pc[w] = "release" /\ pc' = [pc EXCEPT ![w] = "check"]
      /\ mFlaggedAsActive' = [mFlaggedAsActive EXCEPT ![w] = mFlaggedForUnregistration[w]]
      /\ UNCHANGED <<worker, prio, left, cursor, mWorkers, mPools, mTaskRecords, mBlocked>>
  BY DEF ReleaseWorker
<1>2. KeepsWaiting
  BY <1>1 DEF KeepsWaiting, Waiting, IsRegistered
<1>3. w \in mWorkers /\ Running(w) /\ mFlaggedAsActive[w] /\ ~mFlaggedForUnregistration[w]
  BY <1>1 DEF OneOwnerPerWorker, AssignmentFits, Running, LeavingFits
<1>4. /\ pc'[w] = "check" /\ ~mFlaggedAsActive'[w]
      /\ \A v \in Workers : v # w => mFlaggedAsActive'[v] = mFlaggedAsActive[v]
      /\ \A u \in Threads : u # w => pc'[u] = pc[u]
      /\ \A u \in Threads :
           worker'[u] = worker[u] /\ prio'[u] = prio[u] /\ left'[u] = left[u]
           /\ cursor'[u] = cursor[u]
  BY <1>1, <1>3 DEF TypeOK, SchedulerTypeOK, ThreadTypeOK
<1>5. /\ \A u \in Threads : Scanning(u)' <=> Scanning(u)
      /\ \A u \in Threads : Scanning(u) => worker[u] # w
      /\ \A u \in Threads : Scanning(u) => \A p \in Pools : \A i \in TaskIDs :
            Passed(u, p, i)' <=> Passed(u, p, i)
  <2>1. \A u \in Threads : Scanning(u)' <=> Scanning(u)
    BY <1>1, <1>4 DEF Scanning, Dispatching
  <2>2. \A u \in Threads : Scanning(u) => worker[u] # w
    BY <1>3, OneSearch
  <2>3. \A u \in Threads : Scanning(u) => u # w
    BY <1>1 DEF Scanning, Dispatching
  <2>4. \A u \in Threads : Scanning(u) => \A p \in Pools : \A i \in TaskIDs :
            Passed(u, p, i)' <=> Passed(u, p, i)
    BY <1>4, <2>3 DEF Passed
  <2> QED
    BY <2>1, <2>2, <2>4
<1>6. \A v \in mWorkers : SweepAhead(v) /\ SweepAhead(v)'
  <2>1. w \in Threads
    OBVIOUS
  <2> QED
    BY <1>1, <1>4, <2>1 DEF SweepAhead, ComesTo
<1>7. ASSUME NEW v \in mWorkers, v # w, NEW p \in Pools, NEW i \in TaskIDs
      PROVE  /\ Behind(v, p, i)' <=> Behind(v, p, i)
             /\ Ahead(v, p, i) => Ahead(v, p, i)'
  <2>1. v \in Workers /\ v \in Threads
    BY DEF TypeOK, SchedulerTypeOK
  <2>2. Behind(v, p, i)' <=> Behind(v, p, i)
    BY <1>4, <1>5, <1>6, <1>7, <2>1 DEF Behind
  <2>3. Ahead(v, p, i) => Ahead(v, p, i)'
    BY <1>4, <1>5, <1>6, <1>7, <2>1 DEF Ahead
  <2> QED
    BY <2>2, <2>3
<1>8. ASSUME NEW p \in Pools, NEW i \in TaskIDs
      PROVE  ~Behind(w, p, i)' /\ Ahead(w, p, i)'
  BY <1>3, <1>4, <1>5, <1>6 DEF Behind, Ahead
<1>9. ASSUME NEW v \in mWorkers
      PROVE  Cardinality(Missed(v)') <= Cardinality(Reserve(v)')
  <2>1. Cardinality(Missed(v)) <= Cardinality(Reserve(v))
    BY DEF MissedAreReserved
  <2>2. CASE v = w
    BY <1>1, <1>2, <1>8, <2>1, <2>2, Recount
  <2>3. CASE v # w
    BY <1>1, <1>2, <1>7, <1>8, <2>1, <2>3, Recount
  <2> QED
    BY <2>2, <2>3
<1> QED
  BY <1>1, <1>9 DEF MissedAreReserved

\* A search takes a task: one task and one worker less for the searches that have
\* passed the task, nothing for those that have not.
LEMMA TakeCounts ==
  ASSUME TypeOK, TypeOK', ThreadShape, OneOwnerPerWorker, OneOwnerPerBlock, OneRecordPerTask,
         NothingAborted, \A t \in Threads : ScanFits(t), AsksWhileStopped, LeavingFits,
         BlocksFit, OnePoolPerBlock, mDispatchingPermitted, MissedAreReserved,
         NEW t \in Threads, TakeRecord(t), ~mBlocked[cursor[t]]
  PROVE  MissedAreReserved'
<1> DEFINE p0 == pool[t]
           i0 == cursor[t]
           w == worker[t]
<1>1. /\ pc[t] = "take" /\ p0 \in Pools /\ i0 \in TaskIDs /\ i0 \in mTaskRecords[p0]
      /\ w # NoWorker /\ PriorityOf[p0] = prio[t] /\ IsRegistered(p0)
      /\ \A p \in Pools : PriorityOf[p] = prio[t] => p = p0
  <2>1. pc[t] = "take"
    BY DEF TakeRecord
  <2>2. i0 \in mTaskRecords[p0]
    BY <2>1 DEF ThreadShape, HandsFit
  <2>3. w # NoWorker
    BY <2>1 DEF AsksWhileStopped, Asking
  <2>4. p0 \in Pools
    BY <2>1, SearchedPool
  <2>5. i0 \in TaskIDs
    BY <2>2, <2>4 DEF TypeOK, PoolTypeOK
  <2> QED
    BY <2>1, <2>2, <2>3, <2>5, SearchedPool
<1>2. /\ pc' = [pc EXCEPT ![t] = "give"] /\ mBlocked' = [mBlocked EXCEPT ![i0] = TRUE]
      /\ cursor' = [cursor EXCEPT ![t] = 0]
      /\ UNCHANGED <<worker, prio, left, mFlaggedAsActive, mWorkers, mPools, mTaskRecords>>
  BY <1>1 DEF TakeRecord
<1>3. /\ Scanning(t) /\ w \in mWorkers /\ w \in Workers
      /\ mFlaggedAsActive[w] /\ ~Running(w)
      /\ \A u \in Threads : Scanning(u) /\ worker[u] = w => u = t
  <2>1. Scanning(t)
    BY <1>1 DEF Scanning, Dispatching
  <2> QED
    BY <2>1, OneSearch
<1>4. \A p \in Pools : \A i \in TaskIDs : Waiting(p, i)' <=> Waiting(p, i) /\ i # i0
  BY <1>1, <1>2 DEF Waiting, IsRegistered, TypeOK, PoolTypeOK
<1>5. Waiting(p0, i0) /\ \A p \in Pools : Waiting(p, i0) => p = p0
  BY <1>1 DEF Waiting, OneRecordPerTask
<1>6. /\ pc'[t] = "give"
      /\ \A u \in Threads : worker'[u] = worker[u]
      /\ \A u \in Threads : u # t =>
           pc'[u] = pc[u] /\ prio'[u] = prio[u] /\ left'[u] = left[u] /\ cursor'[u] = cursor[u]
  BY <1>2 DEF TypeOK, ThreadTypeOK
<1>7. /\ ~Scanning(t)'
      /\ \A u \in Threads : u # t =>
           /\ Scanning(u)' <=> Scanning(u)
           /\ \A p \in Pools : \A i \in TaskIDs : Passed(u, p, i)' <=> Passed(u, p, i)
  BY <1>6 DEF Scanning, Dispatching, Passed
<1>8. \A v \in mWorkers : SweepAhead(v)' <=> SweepAhead(v)
  <2>1. \A u \in Threads : \A v \in mWorkers : ComesTo(u, v)' <=> ComesTo(u, v)
    BY <1>1, <1>6 DEF ComesTo, Dispatching
  <2> QED
    BY <2>1 DEF SweepAhead
<1>9. ASSUME NEW v \in mWorkers, v # w, NEW p \in Pools, NEW i \in TaskIDs
      PROVE  /\ Behind(v, p, i)' <=> Behind(v, p, i)
             /\ Ahead(v, p, i) => Ahead(v, p, i)'
  <2>1. v \in Workers /\ v \in Threads /\ mFlaggedAsActive'[v] = mFlaggedAsActive[v]
    BY <1>2 DEF TypeOK, SchedulerTypeOK
  <2>2. pc[v] = "release" => pc'[v] = "release"
    BY <1>1, <1>6, <2>1
  <2>3. Behind(v, p, i)' <=> Behind(v, p, i)
    BY <1>6, <1>7, <1>8, <1>9, <2>1 DEF Behind
  <2>4. Ahead(v, p, i) => Ahead(v, p, i)'
    BY <1>6, <1>7, <1>8, <1>9, <2>1, <2>2 DEF Ahead
  <2> QED
    BY <2>3, <2>4
<1>10. ASSUME NEW p \in Pools, NEW i \in TaskIDs
       PROVE  /\ Behind(w, p, i) <=> Passed(t, p, i)
              /\ Ahead(w, p, i) <=> ~Passed(t, p, i)
              /\ Passed(t, p, i) <=> ~Before(p0, i0, p, i)
  <2>1. Behind(w, p, i) <=> Passed(t, p, i)
    BY <1>3 DEF Behind
  <2>2. Ahead(w, p, i) <=> ~Passed(t, p, i)
    BY <1>3 DEF Ahead, Running
  <2>3. Passed(t, p, i) <=> ~Before(p0, i0, p, i)
    <3>1. PriorityOf[p] \in Nat /\ PriorityOf[p0] \in Nat /\ prio[t] \in Nat
      BY <1>1, ConstantsAssumption DEF ConstantsAssumption
    <3> QED
      BY <1>1, <3>1 DEF Passed, Before
  <2> QED
    BY <2>1, <2>2, <2>3
<1>11. ASSUME NEW v \in mWorkers, v = w
       PROVE  Missed(v)' = {}
  <2>1. mFlaggedAsActive'[v] /\ \A u \in Threads : Scanning(u)' => worker'[u] # v
    BY <1>2, <1>3, <1>6, <1>7, <1>11
  <2> QED
    BY <2>1 DEF Missed, Behind
<1>12. ASSUME NEW v \in mWorkers
       PROVE  Cardinality(Missed(v)') <= Cardinality(Reserve(v)')
  <2>1. /\ Cardinality(Missed(v)) <= Cardinality(Reserve(v))
        /\ Cardinality(Missed(w)) <= Cardinality(Reserve(w))
    BY <1>3 DEF MissedAreReserved
  <2>2. /\ Missed(v) \in SUBSET TaskIDs /\ Missed(v)' \in SUBSET TaskIDs
        /\ Missed(w) \in SUBSET TaskIDs /\ Reserve(w) \in SUBSET Workers
        /\ Reserve(v) \in SUBSET Workers /\ Reserve(v)' \in SUBSET Workers
    BY DEF Missed, Reserve, TypeOK, SchedulerTypeOK
  <2>3. CASE v = w
    <3>1. Missed(v)' = {}
      BY <1>11, <2>3
    <3>2. Cardinality(Reserve(v)') \in Nat
      BY <2>2, Countable
    <3> QED
      BY <3>1, <3>2, FS_EmptySet
  <2>4. CASE v # w /\ ~Behind(v, p0, i0)
    <3>1. Missed(v)' \subseteq Missed(v)
      BY <1>4, <1>9, <2>4 DEF Missed
    <3>2. ASSUME NEW x \in Reserve(v)
          PROVE  x \in Reserve(v)'
      <4>1. PICK p \in Pools, i \in TaskIDs :
              Waiting(p, i) /\ Behind(v, p, i) /\ Ahead(x, p, i)
        BY <3>2 DEF Reserve
      <4>2. i # i0 /\ x \in mWorkers
        BY <1>5, <2>4, <3>2, <4>1 DEF Reserve
      <4>3. ~Before(p0, i0, p, i)
        BY <1>1, <2>4, <4>1, BehindInOrder, WorkerNumbers
      <4>4. x # w
        BY <1>10, <4>1, <4>3
      <4>5. Waiting(p, i)' /\ Behind(v, p, i)' /\ Ahead(x, p, i)'
        BY <1>4, <1>9, <2>4, <4>1, <4>2, <4>4
      <4> QED
        BY <1>2, <4>2, <4>5 DEF Reserve
    <3>3. Reserve(v) \subseteq Reserve(v)'
      BY <3>2
    <3> QED
      BY <2>1, <2>2, <3>1, <3>3, CountKept
  <2>5. ASSUME v # w, Behind(v, p0, i0), NEW q \in Pools, NEW n \in TaskIDs,
               Waiting(q, n), Behind(v, q, n), n # i0, Before(p0, i0, q, n)
        PROVE  Cardinality(Missed(v)') <= Cardinality(Reserve(v)')
    <3>1. i0 \in Missed(v)
      BY <1>1, <1>5, <2>5 DEF Missed
    <3>2. Missed(v)' \subseteq Missed(v) \ {i0}
      BY <1>4, <1>9, <2>5 DEF Missed
    <3>3. ASSUME NEW x \in Reserve(v), x # w
          PROVE  x \in Reserve(v)'
      <4>1. PICK p \in Pools, i \in TaskIDs :
              Waiting(p, i) /\ Behind(v, p, i) /\ Ahead(x, p, i)
        BY <3>3 DEF Reserve
      <4>2. x \in mWorkers
        BY <3>3 DEF Reserve
      <4>3. PICK r \in Pools, m \in TaskIDs :
              Waiting(r, m) /\ Behind(v, r, m) /\ Ahead(x, r, m) /\ m # i0
        <5>1. CASE i # i0
          BY <4>1, <5>1
        <5>2. CASE i = i0
          <6>1. Ahead(x, q, n)
            BY <1>1, <1>5, <2>5, <4>1, <4>2, <5>2, AheadInOrder, WorkerNumbers
          <6> QED
            BY <2>5, <6>1
        <5> QED
          BY <5>1, <5>2
      <4>4. Waiting(r, m)' /\ Behind(v, r, m)' /\ Ahead(x, r, m)'
        BY <1>4, <1>9, <2>5, <3>3, <4>2, <4>3
      <4> QED
        BY <1>2, <4>2, <4>4 DEF Reserve
    <3>4. Reserve(v) \ {w} \subseteq Reserve(v)'
      BY <3>3
    <3> QED
      BY <1>3, <2>1, <2>2, <3>1, <3>2, <3>4, CountRemoved
  <2>6. ASSUME v # w, Behind(v, p0, i0),
               ~\E q \in Pools : \E n \in TaskIDs :
                   Waiting(q, n) /\ Behind(v, q, n) /\ n # i0 /\ Before(p0, i0, q, n)
        PROVE  Cardinality(Missed(v)') <= Cardinality(Reserve(v)')
    <3>1. Missed(v)' \subseteq Missed(w)
      BY <1>4, <1>9, <1>10, <2>6 DEF Missed
    <3>2. ASSUME NEW x \in Reserve(w)
          PROVE  x \in Reserve(v)'
      <4>1. PICK p \in Pools, i \in TaskIDs :
              Waiting(p, i) /\ Behind(w, p, i) /\ Ahead(x, p, i)
        BY <3>2 DEF Reserve
      <4>2. Passed(t, p, i) /\ ~Before(p0, i0, p, i)
        BY <1>10, <4>1
      <4>3. x \in mWorkers /\ x # w
        BY <1>10, <3>2, <4>1, <4>2 DEF Reserve
      <4>4. i # i0
        BY <1>1, <1>5, <4>1, <4>2 DEF Before
      <4>5. Behind(v, p, i)
        <5>1. Before(p, i, p0, i0)
          BY <1>1, <4>2, VisitsInOrder
        <5> QED
          BY <1>1, <2>6, <5>1, BehindInOrder, WorkerNumbers
      <4>6. Waiting(p, i)' /\ Behind(v, p, i)' /\ Ahead(x, p, i)'
        BY <1>4, <1>9, <2>6, <4>1, <4>3, <4>4, <4>5
      <4> QED
        BY <1>2, <4>3, <4>6 DEF Reserve
    <3>3. Reserve(w) \subseteq Reserve(v)'
      BY <3>2
    <3> QED
      BY <2>1, <2>2, <3>1, <3>3, CountKept
  <2> QED
    BY <2>3, <2>4, <2>5, <2>6
<1> QED
  BY <1>2, <1>12 DEF MissedAreReserved

\* A worker gives a task back, and is in reserve from now on.
LEMMA ReturnCounts ==
  ASSUME TypeOK, TypeOK', ThreadShape, OneOwnerPerWorker, OneOwnerPerBlock, OneRecordPerTask,
         NothingAborted, \A t \in Threads : ScanFits(t), AsksWhileStopped, LeavingFits,
         BlocksFit, OnePoolPerBlock, mDispatchingPermitted, MissedAreReserved,
         NEW w \in Workers, ReturnAndUnblockTask(w)
  PROVE  MissedAreReserved'
<1> DEFINE i0 == held[w]
<1>1. /\ pc[w] = "settle" /\ pc' = [pc EXCEPT ![w] = "release"]
      /\ mBlocked' = [mBlocked EXCEPT ![i0] = FALSE]
      /\ UNCHANGED <<worker, prio, left, cursor, mFlaggedAsActive, mWorkers, mPools,
                     mTaskRecords>>
  BY DEF ReturnAndUnblockTask
<1>2. i0 \in TaskIDs
  BY <1>1 DEF OneOwnerPerBlock, HoldFits, Holding
<1>3. w \in mWorkers /\ Running(w) /\ mFlaggedAsActive[w]
  BY <1>1 DEF OneOwnerPerWorker, AssignmentFits, Running
<1>4. /\ \A p \in Pools : \A i \in TaskIDs : Waiting(p, i) => Waiting(p, i)'
      /\ \A p \in Pools : \A i \in TaskIDs : Waiting(p, i)' => Waiting(p, i) \/ i = i0
  BY <1>1, <1>2 DEF Waiting, IsRegistered, TypeOK, PoolTypeOK
<1>5. /\ pc'[w] = "release" /\ \A u \in Threads : u # w => pc'[u] = pc[u]
      /\ \A u \in Threads :
           worker'[u] = worker[u] /\ prio'[u] = prio[u] /\ left'[u] = left[u]
           /\ cursor'[u] = cursor[u]
  BY <1>1 DEF TypeOK, ThreadTypeOK
<1>6. /\ \A u \in Threads : Scanning(u)' <=> Scanning(u)
      /\ \A u \in Threads : Scanning(u) => u # w /\ worker[u] # w
      /\ \A u \in Threads : Scanning(u) => \A p \in Pools : \A i \in TaskIDs :
           Passed(u, p, i)' <=> Passed(u, p, i)
  <2>1. \A u \in Threads : Scanning(u)' <=> Scanning(u)
    BY <1>1, <1>5 DEF Scanning, Dispatching
  <2>2. \A u \in Threads : Scanning(u) => u # w /\ worker[u] # w
    BY <1>1, <1>3, OneSearch DEF Scanning, Dispatching
  <2>3. \A u \in Threads : Scanning(u) => \A p \in Pools : \A i \in TaskIDs :
           Passed(u, p, i)' <=> Passed(u, p, i)
    BY <1>5, <2>2 DEF Passed
  <2> QED
    BY <2>1, <2>2, <2>3
<1>7. \A v \in mWorkers : SweepAhead(v)'
  <2>1. w \in Threads
    OBVIOUS
  <2> QED
    BY <1>5, <2>1 DEF SweepAhead, ComesTo
<1>8. ASSUME NEW v \in mWorkers, NEW p \in Pools, NEW i \in TaskIDs
      PROVE  /\ Behind(v, p, i)' => mFlaggedAsActive[v]
             /\ mFlaggedAsActive[v] => (Behind(v, p, i)' <=> Behind(v, p, i))
             /\ Ahead(v, p, i) => Ahead(v, p, i)'
  <2>1. v \in Workers /\ v \in Threads /\ mFlaggedAsActive'[v] = mFlaggedAsActive[v]
    BY <1>1 DEF TypeOK, SchedulerTypeOK
  <2>2. \A u \in Threads : Scanning(u) /\ worker[u] = v => mFlaggedAsActive[v]
    BY OneSearch
  <2>3. Behind(v, p, i)' => mFlaggedAsActive[v]
    BY <1>5, <1>6, <1>7, <2>1, <2>2 DEF Behind
  <2>4. mFlaggedAsActive[v] => (Behind(v, p, i)' <=> Behind(v, p, i))
    BY <1>5, <1>6, <2>1 DEF Behind
  <2>5. pc[v] = "release" => pc'[v] = "release"
    BY <1>5, <2>1
  <2>6. Ahead(v, p, i) => Ahead(v, p, i)'
    BY <1>5, <1>6, <1>7, <2>1, <2>5 DEF Ahead
  <2> QED
    BY <2>3, <2>4, <2>6
<1>9. ASSUME NEW p \in Pools, NEW i \in TaskIDs
      PROVE  ~Ahead(w, p, i) /\ Ahead(w, p, i)'
  BY <1>1, <1>3, <1>5, <1>6 DEF Ahead
<1>10. ASSUME NEW v \in mWorkers
       PROVE  Cardinality(Missed(v)') <= Cardinality(Reserve(v)')
  <2>1. Cardinality(Missed(v)) <= Cardinality(Reserve(v))
    BY DEF MissedAreReserved
  <2>2. /\ Missed(v) \in SUBSET TaskIDs /\ Missed(v)' \in SUBSET TaskIDs
        /\ Reserve(v) \in SUBSET Workers /\ Reserve(v)' \in SUBSET Workers
    BY DEF Missed, Reserve, TypeOK, SchedulerTypeOK
  <2>3. CASE Missed(v)' = {}
    <3>1. Cardinality(Reserve(v)') \in Nat
      BY <2>2, Countable
    <3> QED
      BY <2>3, <3>1, FS_EmptySet
  <2>4. CASE Missed(v)' # {}
    <3>1. PICK q \in Pools, n \in TaskIDs : Waiting(q, n)' /\ Behind(v, q, n)'
      BY <2>4 DEF Missed
    <3>2. mFlaggedAsActive[v]
      BY <1>8, <3>1
    <3>3. Missed(v)' \subseteq Missed(v) \cup {i0}
      BY <1>4, <1>8, <3>2 DEF Missed
    <3>4. w \notin Reserve(v)
      BY <1>9 DEF Reserve
    <3>5. Reserve(v) \subseteq Reserve(v)'
      BY <1>1, <1>4, <1>8, <3>2 DEF Reserve
    <3>6. w \in Reserve(v)'
      BY <1>1, <1>3, <1>9, <3>1 DEF Reserve
    <3>7. Reserve(v) \cup {w} \subseteq Reserve(v)'
      BY <3>5, <3>6
    <3> QED
      BY <1>2, <2>1, <2>2, <3>3, <3>4, <3>7, CountAdded
  <2> QED
    BY <2>3, <2>4
<1> QED
  BY <1>1, <1>10 DEF MissedAreReserved

-----------------------------------------------------------------------------
(* The count is kept by every step.                                        *)

\* Nobody but the control turns dispatching on.
LEMMA OnlyStarted ==
  ASSUME [Next]_vars, ~mDispatchingPermitted, mDispatchingPermitted'
  PROVE  StartDispatching
<1>1. mDispatchingPermitted' # mDispatchingPermitted
  OBVIOUS
<1> QED
  BY ZenonT(60), <1>1
  DEF Next, Call, Direct, Proceed, Work, AreAllWorkersIdle, vars, listVars,
    RegisterWorker, UnregisterWorker, RegisterPool, AddTask, AttemptAbortAllTasks,
    AttemptAbortTask, StopDispatching, AllTasksAreCurrentlyCompleted,
    OnTasksNewlyAvailable, BlockToAbort, MarkAbortPending, RemoveAborted,
    FailToLocate, AbortDone, CheckPermitted, FlagNextWorker, NoFurtherWorker,
    EnterBlock, EnterPool, LeaveBlocks, VisitRecord, NoFurtherRecord, TakeRecord,
    GiveTask, UndoFlag, ReturnPeeked, SeeAllIdle, SeeIdleWorker, SeeActiveWorker,
    PullWork, StepReturns, ClearAssignment, ReturnAndUnblockTask, RemoveBlockedTask,
    ReleaseWorker

\* Dispatching starts while no worker is active: no search is under way, and the
\* thread that starts it comes to all workers.
LEMMA StartCounts ==
  ASSUME TypeOK, TypeOK', OneOwnerPerWorker, PreparedNext,
         ~mDispatchingPermitted, mDispatchingPermitted'
  PROVE  MissedAreReserved'
<1>1. Resting /\ StartDispatching
  BY OnlyStarted DEF PreparedNext, NoAbortNext
<1>2. Control \in Threads
  BY ConstantsAssumption DEF ConstantsAssumption
<1>3. /\ pc'[Control] = "check" /\ \A t \in Threads : t # Control => pc'[t] = pc[t]
      /\ UNCHANGED <<worker, mWorkers>>
  BY <1>1, <1>2 DEF StartDispatching, TypeOK, ThreadTypeOK
<1>4. \A t \in Threads : ~Scanning(t)
  BY <1>1, OneSearch DEF Resting
<1>5. \A t \in Threads : ~Scanning(t)'
  BY <1>3, <1>4 DEF Scanning, Dispatching
<1>6. \A v \in mWorkers : SweepAhead(v)'
  BY <1>2, <1>3 DEF SweepAhead, ComesTo
<1>7. ASSUME NEW v \in mWorkers
      PROVE  Cardinality(Missed(v)') <= Cardinality(Reserve(v)')
  <2>1. Missed(v)' = {}
    BY <1>5, <1>6 DEF Missed, Behind
  <2>2. Cardinality(Reserve(v)') \in Nat
    <3>1. Reserve(v)' \in SUBSET Workers
      BY DEF Reserve, TypeOK, SchedulerTypeOK
    <3> QED
      BY <3>1, Countable
  <2> QED
    BY <2>1, <2>2, FS_EmptySet
<1> QED
  BY <1>3, <1>7 DEF MissedAreReserved

\* While dispatching is on.
LEMMA DispatchingCounts ==
  ASSUME TypeOK, TypeOK', ThreadShape, OneOwnerPerWorker, OneOwnerPerBlock, OneRecordPerTask,
         NothingAborted, \A t \in Threads : ScanFits(t), AsksWhileStopped, LeavingFits,
         BlocksFit, OnePoolPerBlock, MissedAreReserved,
         PreparedNext, mDispatchingPermitted, mDispatchingPermitted'
  PROVE  MissedAreReserved'
<1>0. /\ UNCHANGED <<nextID, mWorkers, mPools, mFlaggedForUnregistration>>
      /\ \A t \in Threads : pc'[t] # "abort"
      /\ Control \in Threads
  BY ConstantsAssumption DEF PreparedNext, NoAbortNext, ConstantsAssumption
<1>1. ASSUME NEW t \in Clients, NEW w \in Workers, RegisterWorker(t, w)
      PROVE  MissedAreReserved'
  BY <1>0, <1>1 DEF RegisterWorker
<1>2. ASSUME NEW t \in Clients, NEW w \in Workers, UnregisterWorker(t, w)
      PROVE  MissedAreReserved'
  BY <1>0, <1>2 DEF UnregisterWorker, TypeOK, SchedulerTypeOK
<1>3. ASSUME NEW t \in Clients, NEW p \in Pools, RegisterPool(t, p)
      PROVE  MissedAreReserved'
  <2>1. KeepsWaiting
    BY <1>0, <1>3 DEF KeepsWaiting, Waiting, IsRegistered, RegisterPool
  <2>2. KeepsSearch(t)
    BY <1>3
    DEF KeepsSearch, Scanning, Dispatching, ComesTo, RegisterPool, TypeOK,
        ThreadTypeOK
  <2>3. \A u \in Threads : u # t => KeepsSearch(u)
    BY <1>3, SearchUntouched DEF RegisterPool, TypeOK, ThreadTypeOK
  <2> QED
    BY <1>3, <2>1, <2>2, <2>3, SearchFrame DEF RegisterPool
<1>4. ASSUME NEW t \in Clients, NEW p \in Pools, AddTask(t, p)
      PROVE  MissedAreReserved'
  BY <1>0, <1>4 DEF AddTask, TypeOK, PoolTypeOK
<1>5. ASSUME NEW t \in Clients, NEW p \in Pools,
             AttemptAbortAllTasks(t, p)
      PROVE  MissedAreReserved'
  BY <1>0, <1>5 DEF AttemptAbortAllTasks, TypeOK, ThreadTypeOK
<1>6. ASSUME NEW t \in Clients, NEW p \in Pools, NEW i \in TaskIDs,
             AttemptAbortTask(t, p, i)
      PROVE  MissedAreReserved'
  BY <1>0, <1>6 DEF AttemptAbortTask, TypeOK, ThreadTypeOK
<1>7. CASE StartDispatching
  BY <1>7 DEF StartDispatching
<1>8. ASSUME NEW block \in BOOLEAN, StopDispatching(block)
      PROVE  MissedAreReserved'
  BY <1>8 DEF StopDispatching
<1>9. CASE AllTasksAreCurrentlyCompleted
  BY <1>9 DEF AllTasksAreCurrentlyCompleted
<1>10. ASSUME NEW t \in Threads, OnTasksNewlyAvailable(t)
      PROVE  MissedAreReserved'
  <2>1. KeepsWaiting
    BY <1>10 DEF KeepsWaiting, Waiting, IsRegistered, OnTasksNewlyAvailable
  <2>2. KeepsSearch(t)
    BY <1>10
    DEF KeepsSearch, Scanning, Dispatching, ComesTo, OnTasksNewlyAvailable, TypeOK,
        ThreadTypeOK
  <2>3. \A u \in Threads : u # t => KeepsSearch(u)
    BY <1>10, SearchUntouched DEF OnTasksNewlyAvailable, TypeOK, ThreadTypeOK
  <2> QED
    BY <1>10, <2>1, <2>2, <2>3, SearchFrame DEF OnTasksNewlyAvailable
<1>11. ASSUME NEW t \in Threads, NEW i \in TaskIDs, BlockToAbort(t, i)
      PROVE  MissedAreReserved'
  BY <1>11 DEF BlockToAbort, NothingAborted
<1>12. ASSUME NEW t \in Threads, MarkAbortPending(t)
      PROVE  MissedAreReserved'
  BY <1>12 DEF MarkAbortPending, NothingAborted
<1>13. ASSUME NEW t \in Threads, RemoveAborted(t)
      PROVE  MissedAreReserved'
  BY <1>13 DEF RemoveAborted, NothingAborted
<1>14. ASSUME NEW t \in Threads, FailToLocate(t)
      PROVE  MissedAreReserved'
  BY <1>14 DEF FailToLocate, NothingAborted
<1>15. ASSUME NEW t \in Threads, AbortDone(t)
      PROVE  MissedAreReserved'
  BY <1>15 DEF AbortDone, NothingAborted
<1>16. ASSUME NEW t \in Threads, CheckPermitted(t)
      PROVE  MissedAreReserved'
  <2>1. KeepsWaiting
    BY <1>16 DEF KeepsWaiting, Waiting, IsRegistered, CheckPermitted
  <2>2. KeepsSearch(t)
    <3>1. worker[t] = NoWorker /\ \A v \in mWorkers : NoWorker < v
      BY <1>16, WorkerNumbers DEF CheckPermitted, ScanFits
    <3> QED
      BY <1>16, <3>1
      DEF KeepsSearch, Scanning, Dispatching, ComesTo, CheckPermitted, TypeOK,
         ThreadTypeOK
  <2>3. \A u \in Threads : u # t => KeepsSearch(u)
    BY <1>16, SearchUntouched DEF CheckPermitted, TypeOK, ThreadTypeOK
  <2> QED
    BY <1>16, <2>1, <2>2, <2>3, SearchFrame DEF CheckPermitted
<1>17. ASSUME NEW t \in Threads, NEW w \in Workers, FlagNextWorker(t, w)
      PROVE  MissedAreReserved'
  <2>1. CASE mFlaggedAsActive[w]
    <3>0. /\ pc[t] = "flag" /\ IsFirst(w, LaterWorkers(t))
          /\ worker' = [worker EXCEPT ![t] = w]
          /\ UNCHANGED <<pc, prio, left, cursor, mFlaggedAsActive, mWorkers, mPools,
                         mTaskRecords, mBlocked>>
      BY <1>17, <2>1 DEF FlagNextWorker
    <3>1. KeepsWaiting
      BY <3>0 DEF KeepsWaiting, Waiting, IsRegistered
    <3>2. KeepsSearch(t)
      <4>1. ASSUME NEW v \in mWorkers, ~mFlaggedAsActive[v], worker[t] < v
            PROVE  w < v
        <5>1. v \in LaterWorkers(t) /\ v \in Nat /\ w \in Nat /\ v # w /\ worker[t] \in Nat
          BY <1>17, <2>1, <4>1, WorkerNumbers DEF LaterWorkers
        <5> QED
          BY <3>0, <5>1 DEF IsFirst
      <4> QED
        BY <3>0, <4>1
        DEF KeepsSearch, Scanning, Dispatching, ComesTo, TypeOK, ThreadTypeOK
    <3>3. \A u \in Threads : u # t => KeepsSearch(u)
      BY <3>0, SearchUntouched DEF TypeOK, ThreadTypeOK
    <3> QED
      BY <3>0, <3>1, <3>2, <3>3, SearchFrame
  <2>2. CASE ~mFlaggedAsActive[w]
    BY <1>17, <2>2, FlagCounts
  <2> QED
    BY <2>1, <2>2
<1>18. ASSUME NEW t \in Threads, NoFurtherWorker(t)
      PROVE  MissedAreReserved'
  <2>1. KeepsWaiting
    BY <1>18 DEF KeepsWaiting, Waiting, IsRegistered, NoFurtherWorker
  <2>2. KeepsSearch(t)
    BY <1>18
    DEF KeepsSearch, Scanning, Dispatching, ComesTo, NoFurtherWorker, LaterWorkers,
       TypeOK, ThreadTypeOK
  <2>3. \A u \in Threads : u # t => KeepsSearch(u)
    BY <1>18, SearchUntouched DEF NoFurtherWorker, TypeOK, ThreadTypeOK
  <2> QED
    BY <1>18, <2>1, <2>2, <2>3, SearchFrame DEF NoFurtherWorker
<1>19. ASSUME NEW t \in Threads, EnterBlock(t)
      PROVE  MissedAreReserved'
  <2>1. KeepsWaiting
    BY <1>19 DEF KeepsWaiting, Waiting, IsRegistered, EnterBlock
  <2>2. KeepsSearch(t)
    <3>1. /\ pc[t] = "nextPool" /\ left[t] = 0 /\ UNCHANGED <<pc, worker>>
          /\ prio[t] \in Nat /\ prio'[t] = prio[t] + 1 /\ left'[t] = Len(mPools[prio[t] + 1])
      BY <1>19, ConstantsAssumption
      DEF EnterBlock, TypeOK, ThreadTypeOK, ConstantsAssumption
    <3>2. ASSUME NEW p \in Pools, NEW i \in TaskIDs, Waiting(p, i)
          PROVE  Passed(t, p, i)' <=> Passed(t, p, i)
      <4>1. PriorityOf[p] \in Priorities /\ PriorityOf[p] \in Nat
        BY ConstantsAssumption DEF ConstantsAssumption
      <4>2. PriorityOf[p] = prio[t] + 1 => left'[t] # 0
        <5>1. PICK k \in DOMAIN mPools[PriorityOf[p]] : mPools[PriorityOf[p]][k] = p
          BY <3>2 DEF Waiting, IsRegistered
        <5>2. mPools[PriorityOf[p]] \in Seq(Pools)
          BY <4>1 DEF TypeOK, SchedulerTypeOK
        <5>3. Len(mPools[PriorityOf[p]]) # 0
          BY <5>1, <5>2
        <5> QED
          BY <3>1, <5>3
      <4> QED
        BY <3>1, <4>1, <4>2 DEF Passed
    <3> QED
      BY <3>1, <3>2 DEF KeepsSearch, Scanning, Dispatching, ComesTo
  <2>3. \A u \in Threads : u # t => KeepsSearch(u)
    BY <1>19, SearchUntouched DEF EnterBlock, TypeOK, ThreadTypeOK
  <2> QED
    BY <1>19, <2>1, <2>2, <2>3, SearchFrame DEF EnterBlock
<1>20. ASSUME NEW t \in Threads, EnterPool(t)
      PROVE  MissedAreReserved'
  <2>1. KeepsWaiting
    BY <1>20 DEF KeepsWaiting, Waiting, IsRegistered, EnterPool
  <2>2. KeepsSearch(t)
    <3>1. /\ pc[t] = "nextPool" /\ left[t] > 0 /\ pc'[t] = "visit" /\ cursor[t] = 0
          /\ UNCHANGED <<worker, prio, left, cursor>>
      BY <1>20 DEF EnterPool, TypeOK, ThreadTypeOK, ScanFits
    <3>2. ASSUME NEW p \in Pools, NEW i \in TaskIDs
          PROVE  Passed(t, p, i)' <=> Passed(t, p, i)
      BY <3>1 DEF Passed
    <3> QED
      BY <3>1, <3>2 DEF KeepsSearch, Scanning, Dispatching, ComesTo
  <2>3. \A u \in Threads : u # t => KeepsSearch(u)
    BY <1>20, SearchUntouched DEF EnterPool, TypeOK, ThreadTypeOK
  <2> QED
    BY <1>20, <2>1, <2>2, <2>3, SearchFrame DEF EnterPool
<1>21. ASSUME NEW t \in Threads, LeaveBlocks(t)
      PROVE  MissedAreReserved'
  <2>1. KeepsWaiting
    BY <1>21 DEF KeepsWaiting, Waiting, IsRegistered, LeaveBlocks
  <2>2. KeepsSearch(t)
    <3>1. /\ pc[t] = "nextPool" /\ left[t] = 0 /\ prio[t] = NumPriorities
          /\ worker[t] # NoWorker /\ pc'[t] = "undo" /\ UNCHANGED worker
      BY <1>21 DEF LeaveBlocks, TypeOK, ThreadTypeOK, AsksWhileStopped, Asking
    <3>2. ASSUME NEW p \in Pools, NEW i \in TaskIDs
          PROVE  Passed(t, p, i) /\ Passed(t, p, i)'
      BY <3>1, ConstantsAssumption DEF ConstantsAssumption, Passed
    <3> QED
      BY <3>1, <3>2 DEF KeepsSearch, Scanning, Dispatching, ComesTo
  <2>3. \A u \in Threads : u # t => KeepsSearch(u)
    BY <1>21, SearchUntouched DEF LeaveBlocks, TypeOK, ThreadTypeOK
  <2> QED
    BY <1>21, <2>1, <2>2, <2>3, SearchFrame DEF LeaveBlocks
<1>22. ASSUME NEW t \in Threads, NEW i \in TaskIDs, VisitRecord(t, i)
      PROVE  MissedAreReserved'
  <2>1. KeepsWaiting
    BY <1>22 DEF KeepsWaiting, Waiting, IsRegistered, VisitRecord
  <2>2. KeepsSearch(t)
    <3>1. /\ pc[t] = "visit" /\ pc'[t] = "take" /\ cursor'[t] = i
          /\ IsFirst(i, LaterRecords(t)) /\ UNCHANGED <<worker, prio, left>>
      BY <1>22 DEF VisitRecord, TypeOK, ThreadTypeOK, NothingAborted
    <3>2. ASSUME NEW p \in Pools, NEW j \in TaskIDs, Waiting(p, j)
          PROVE  Passed(t, p, j)' <=> Passed(t, p, j)
      <4>1. PriorityOf[p] = prio[t] => (j <= cursor[t] <=> j < i)
        <5>1. PriorityOf[p] = prio[t] => j \in mTaskRecords[pool[t]]
          BY <3>1, <3>2, SearchedPool DEF Waiting
        <5>2. cursor[t] \in Nat /\ i \in Nat /\ j \in Nat
          BY DEF TypeOK, ThreadTypeOK
        <5> QED
          BY <3>1, <5>1, <5>2 DEF IsFirst, LaterRecords
      <4> QED
        BY <3>1, <4>1 DEF Passed
    <3> QED
      BY <3>1, <3>2 DEF KeepsSearch, Scanning, Dispatching, ComesTo
  <2>3. \A u \in Threads : u # t => KeepsSearch(u)
    BY <1>22, SearchUntouched DEF VisitRecord, TypeOK, ThreadTypeOK
  <2> QED
    BY <1>22, <2>1, <2>2, <2>3, SearchFrame DEF VisitRecord
<1>23. ASSUME NEW t \in Threads, NoFurtherRecord(t)
      PROVE  MissedAreReserved'
  <2>1. KeepsWaiting
    BY <1>23 DEF KeepsWaiting, Waiting, IsRegistered, NoFurtherRecord
  <2>2. KeepsSearch(t)
    <3>1. /\ pc[t] = "visit" /\ pc'[t] = "nextPool" /\ left'[t] = 0
          /\ LaterRecords(t) = {} /\ UNCHANGED <<worker, prio>>
      <4>1. left[t] = 1
        BY <1>23, SearchedPool DEF NoFurtherRecord
      <4> QED
        BY <1>23, <4>1 DEF NoFurtherRecord, TypeOK, ThreadTypeOK
    <3>2. ASSUME NEW p \in Pools, NEW j \in TaskIDs, Waiting(p, j)
          PROVE  Passed(t, p, j)' <=> Passed(t, p, j)
      <4>1. PriorityOf[p] = prio[t] => j <= cursor[t]
        <5>1. PriorityOf[p] = prio[t] => j \in mTaskRecords[pool[t]]
          BY <3>1, <3>2, SearchedPool DEF Waiting
        <5>2. cursor[t] \in Nat /\ j \in Nat
          BY DEF TypeOK, ThreadTypeOK
        <5> QED
          BY <3>1, <5>1, <5>2 DEF LaterRecords
      <4> QED
        BY <3>1, <4>1 DEF Passed
    <3> QED
      BY <3>1, <3>2 DEF KeepsSearch, Scanning, Dispatching, ComesTo
  <2>3. \A u \in Threads : u # t => KeepsSearch(u)
    BY <1>23, SearchUntouched DEF NoFurtherRecord, TypeOK, ThreadTypeOK
  <2> QED
    BY <1>23, <2>1, <2>2, <2>3, SearchFrame DEF NoFurtherRecord
<1>24. ASSUME NEW t \in Threads, TakeRecord(t)
      PROVE  MissedAreReserved'
  <2>1. CASE mBlocked[cursor[t]]
    <3>0. /\ pc[t] = "take" /\ pc'[t] = "visit" /\ \A u \in Threads : u # t => pc'[u] = pc[u]
          /\ UNCHANGED <<worker, prio, left, cursor, mFlaggedAsActive, mWorkers, mPools,
                         mTaskRecords, mBlocked>>
      <4>1. mBlocked' = mBlocked
        BY <1>24, <2>1 DEF TakeRecord, TypeOK, PoolTypeOK
      <4> QED
        BY <1>24, <2>1, <4>1 DEF TakeRecord, TypeOK, ThreadTypeOK
    <3>1. KeepsWaiting
      BY <3>0 DEF KeepsWaiting, Waiting, IsRegistered
    <3>2. KeepsSearch(t)
      <4>1. ASSUME NEW p \in Pools, NEW j \in TaskIDs, Waiting(p, j)
            PROVE  Passed(t, p, j)' <=> Passed(t, p, j)
        <5>1. cursor[t] \in Nat /\ j \in Nat /\ j # cursor[t]
          BY <4>1, <1>24, <2>1 DEF TypeOK, ThreadTypeOK, Waiting
        <5> QED
          BY <3>0, <5>1 DEF Passed
      <4> QED
        BY <3>0, <4>1 DEF KeepsSearch, Scanning, Dispatching, ComesTo
    <3>3. \A u \in Threads : u # t => KeepsSearch(u)
      BY <3>0, SearchUntouched
    <3> QED
      BY <3>0, <3>1, <3>2, <3>3, SearchFrame
  <2>2. CASE ~mBlocked[cursor[t]]
    BY <1>24, <2>2, TakeCounts
  <2> QED
    BY <2>1, <2>2
<1>25. ASSUME NEW t \in Threads, GiveTask(t)
      PROVE  MissedAreReserved'
  <2>1. KeepsWaiting
    BY <1>25 DEF KeepsWaiting, Waiting, IsRegistered, GiveTask
  <2>2. KeepsSearch(t)
    <3>1. /\ pc[t] = "give" /\ pc'[t] = "flag" /\ UNCHANGED worker
      BY <1>25 DEF GiveTask, TypeOK, ThreadTypeOK
    <3> QED
      BY <3>1 DEF KeepsSearch, Scanning, Dispatching, ComesTo
  <2>3. \A u \in Threads : u # t => KeepsSearch(u)
    BY <1>25, SearchUntouched DEF GiveTask, TypeOK, ThreadTypeOK
  <2> QED
    BY <1>25, <2>1, <2>2, <2>3, SearchFrame DEF GiveTask
<1>26. ASSUME NEW t \in Threads, UndoFlag(t)
      PROVE  MissedAreReserved'
  BY <1>26, UndoCounts
<1>27. ASSUME NEW t \in Threads, ReturnPeeked(t)
      PROVE  MissedAreReserved'
  BY <1>27 DEF ReturnPeeked, AsksWhileStopped, Asking, ThreadShape, HandsFit
<1>28. CASE SeeAllIdle
  BY <1>0, <1>28 DEF SeeAllIdle, AsksWhileStopped, Asking
<1>29. ASSUME NEW w \in Workers, SeeIdleWorker(w)
      PROVE  MissedAreReserved'
  BY <1>0, <1>29 DEF SeeIdleWorker, AsksWhileStopped, Asking
<1>30. ASSUME NEW w \in Workers, SeeActiveWorker(w)
      PROVE  MissedAreReserved'
  BY <1>0, <1>30 DEF SeeActiveWorker, AsksWhileStopped, Asking
<1>31. ASSUME NEW w \in Workers, PullWork(w)
      PROVE  MissedAreReserved'
  <2>1. KeepsWaiting
    BY <1>31 DEF KeepsWaiting, Waiting, IsRegistered, PullWork
  <2>2. KeepsSearch(w)
    BY <1>31
    DEF KeepsSearch, Scanning, Dispatching, ComesTo, PullWork, TypeOK, ThreadTypeOK
  <2>3. \A u \in Threads : u # w => KeepsSearch(u)
    BY <1>31, SearchUntouched DEF PullWork, TypeOK, ThreadTypeOK
  <2> QED
    BY <1>31, <2>1, <2>2, <2>3, SearchFrame DEF PullWork
<1>32. ASSUME NEW w \in Workers, NEW state \in TaskStates,
             StepReturns(w, state)
      PROVE  MissedAreReserved'
  <2>1. KeepsWaiting
    BY <1>32 DEF KeepsWaiting, Waiting, IsRegistered, StepReturns
  <2>2. KeepsSearch(w)
    BY <1>32
    DEF KeepsSearch, Scanning, Dispatching, ComesTo, StepReturns, TypeOK,
        ThreadTypeOK
  <2>3. \A u \in Threads : u # w => KeepsSearch(u)
    BY <1>32, SearchUntouched DEF StepReturns, TypeOK, ThreadTypeOK
  <2> QED
    BY <1>32, <2>1, <2>2, <2>3, SearchFrame DEF StepReturns
<1>33. ASSUME NEW w \in Workers, ClearAssignment(w)
      PROVE  MissedAreReserved'
  <2>1. KeepsWaiting
    BY <1>33 DEF KeepsWaiting, Waiting, IsRegistered, ClearAssignment
  <2>2. KeepsSearch(w)
    BY <1>33
    DEF KeepsSearch, Scanning, Dispatching, ComesTo, ClearAssignment, TypeOK,
        ThreadTypeOK
  <2>3. \A u \in Threads : u # w => KeepsSearch(u)
    BY <1>33, SearchUntouched DEF ClearAssignment, TypeOK, ThreadTypeOK
  <2> QED
    BY <1>33, <2>1, <2>2, <2>3, SearchFrame DEF ClearAssignment
<1>34. ASSUME NEW w \in Workers, ReturnAndUnblockTask(w)
      PROVE  MissedAreReserved'
  BY <1>34, ReturnCounts
<1>35. ASSUME NEW w \in Workers, RemoveBlockedTask(w)
      PROVE  MissedAreReserved'
  <2>1. KeepsWaiting
    <3>1. mBlocked[held[w]]
      BY <1>35 DEF RemoveBlockedTask, OneOwnerPerBlock, HoldFits, Holding
    <3> QED
      BY <1>35, <3>1 DEF KeepsWaiting, Waiting, IsRegistered, RemoveBlockedTask, TypeOK,
         PoolTypeOK
  <2>2. KeepsSearch(w)
    BY <1>35
    DEF KeepsSearch, Scanning, Dispatching, ComesTo, RemoveBlockedTask, TypeOK,
        ThreadTypeOK
  <2>3. \A u \in Threads : u # w => KeepsSearch(u)
    BY <1>35, SearchUntouched DEF RemoveBlockedTask, TypeOK, ThreadTypeOK
  <2> QED
    BY <1>35, <2>1, <2>2, <2>3, SearchFrame DEF RemoveBlockedTask
<1>36. ASSUME NEW w \in Workers, ReleaseWorker(w)
      PROVE  MissedAreReserved'
  BY <1>36, ReleaseCounts
<1> QED
  BY <1>1, <1>2, <1>3, <1>4, <1>5, <1>6, <1>7, <1>8, <1>9, <1>10, <1>11, <1>12, <1>13,
    <1>14, <1>15, <1>16, <1>17, <1>18, <1>19, <1>20, <1>21, <1>22, <1>23, <1>24,
    <1>25, <1>26, <1>27, <1>28, <1>29, <1>30, <1>31, <1>32, <1>33, <1>34, <1>35, <1>36
  DEF PreparedNext, NoAbortNext, Next, Call, Direct, Proceed, Work, AreAllWorkersIdle

\* For every task that a search has missed, there is a worker in reserve.
LEMMA MissedAreReservedStep ==
  ASSUME OnePoolPerBlock, IInv, IInv', PreparedShape, MissedAreReserved, [PreparedNext]_vars
  PROVE  MissedAreReserved'
<1>1. CASE UNCHANGED vars
  <2>1. /\ \A v \in mWorkers : Missed(v)' = Missed(v)
    BY <1>1
    DEF vars, Missed, Waiting, IsRegistered, Behind, SweepAhead, ComesTo, Scanning,
       Dispatching, Passed
  <2>2. /\ \A v \in mWorkers : Reserve(v)' = Reserve(v)
    BY <1>1
    DEF vars, Reserve, Waiting, IsRegistered, Behind, Ahead, SweepAhead, ComesTo,
       Scanning, Dispatching, Passed
  <2> QED
    BY <1>1, <2>1, <2>2 DEF vars, MissedAreReserved
<1>2. CASE ~mDispatchingPermitted'
  BY <1>2 DEF MissedAreReserved
<1>3. CASE PreparedNext /\ ~mDispatchingPermitted /\ mDispatchingPermitted'
  BY <1>3, StartCounts DEF IInv
<1>4. CASE PreparedNext /\ mDispatchingPermitted /\ mDispatchingPermitted'
  BY <1>4, DispatchingCounts DEF IInv, PreparedShape
<1> QED
  BY <1>1, <1>2, <1>3, <1>4

-----------------------------------------------------------------------------

\* When the scheduler is prepared before it dispatches, as in its tests, the searches
\* and the workers in reserve are in balance: of the tasks that wait and that a worker
\* will not be offered any more, there are never more than workers that will be.
THEOREM PreparedInvariance ==
  ASSUME OnePoolPerBlock
  PROVE  Prepared => []PreparedInv
<1>1. Init => PreparedInv
  <2>1. Init => MissedAreReserved
    BY DEF Init, MissedAreReserved
  <2> QED
    BY <2>1, InitIInv, InitPreparedShape DEF PreparedInv
<1>2. PreparedInv /\ [PreparedNext]_vars => PreparedInv'
  <2> SUFFICES ASSUME PreparedInv, [PreparedNext]_vars
               PROVE  PreparedInv'
    OBVIOUS
  <2>1. [Next]_vars
    BY DEF PreparedNext, NoAbortNext
  <2>2. IInv'
    BY <2>1, TypeOKStep, ThreadShapeStep, OneOwnerPerWorkerStep, OneOwnerPerBlockStep,
       OneRecordPerTaskStep, BlocksAnsweredStep
    DEF IInv, PreparedInv
  <2>3. PreparedShape'
    BY PreparedShapeStep DEF PreparedInv
  <2> QED
    BY <2>2, <2>3, MissedAreReservedStep DEF PreparedInv
<1> QED
  BY <1>1, <1>2, PTL DEF Prepared

\* Then no task is left waiting beside an idle worker once all calls have come back,
\* for any number of workers, clients, tasks and priorities.
THEOREM NothingIsForgotten ==
  ASSUME OnePoolPerBlock
  PROVE  PreparedSpec => []NoTaskLeftWaiting
<1>1. ASSUME PreparedInv
      PROVE  NoTaskLeftWaiting
  <2> SUFFICES ASSUME Quiescent, mDispatchingPermitted,
                      NEW i \in TaskIDs, Available(i),
                      NEW w \in mWorkers, ~mFlaggedAsActive[w]
               PROVE  FALSE
    BY DEF NoTaskLeftWaiting
  <2>1. \A v \in mWorkers : ~SweepAhead(v)
    BY DEF Quiescent, SweepAhead, ComesTo, Dispatching
  <2>2. \A t \in Threads : ~Scanning(t)
    BY DEF Quiescent, Scanning, Dispatching
  <2>3. TypeOK /\ mWorkers \subseteq Threads
    BY <1>1 DEF PreparedInv, IInv, TypeOK, SchedulerTypeOK
  <2>4. Reserve(w) = {}
    BY <2>1, <2>2, <2>3 DEF Reserve, Ahead, Quiescent
  <2>5. i \in Missed(w)
    BY <2>1 DEF Missed, Behind, Waiting, Available
  <2>6. Missed(w) \in SUBSET TaskIDs
    BY DEF Missed
  <2>7. Cardinality(Missed(w)) <= 0
    BY <1>1, <2>4, FS_EmptySet DEF PreparedInv, MissedAreReserved
  <2>8. Cardinality(Missed(w)) = 0
    BY <2>6, <2>7, Countable
  <2> QED
    BY <2>5, <2>6, <2>8, Countable, FS_EmptySet
<1> QED
  BY <1>1, PreparedInvariance, PTL DEF PreparedSpec

-----------------------------------------------------------------------------
(* One worker, and dispatching left on.                                    *)

\* The place after the last of a block is the first.
LEMMA NextPlace ==
  ASSUME NEW n \in Nat, NEW i \in Nat, i < n
  PROVE  (i + 1) % n = IF i + 1 = n THEN 0 ELSE i + 1
  OBVIOUS

\* Going on by one place leaves the others that were to be visited.
LEMMA StillToVisit ==
  ASSUME NEW n \in Nat, NEW i \in Nat, NEW l \in Nat, NEW k \in 1 .. n,
         i < n, l > 0, k # i + 1,
         (i < k /\ k <= i + l) \/ k + n <= i + l,
         NEW j, j = IF i + 1 = n THEN 0 ELSE i + 1,
         NEW m, m = l - 1
  PROVE  m > 0 /\ ((j < k /\ k <= j + m) \/ k + n <= j + m)
  OBVIOUS

\* A search that is left alone still has only blocked records behind it.
LEMMA PassedFrame ==
  ASSUME TypeOK, mPools' = mPools,
         \A p \in Pools : mTaskRecords'[p] \subseteq mTaskRecords[p],
         \A i \in TaskIDs : mBlocked[i] => mBlocked'[i],
         NEW u \in Threads, PassedAreBlocked(u), ThreadShape,
         pc'[u] = pc[u], worker'[u] = worker[u], prio'[u] = prio[u], left'[u] = left[u],
         index'[u] = index[u], pool'[u] = pool[u], cursor'[u] = cursor[u]
  PROVE  PassedAreBlocked(u)'
<1> SUFFICES ASSUME Dispatching(u), pc[u] # "undo"
             PROVE  PassedAreBlocked(u)'
  BY DEF PassedAreBlocked, Dispatching
<1>1. \A p \in Pools : AllBlocked(p) => AllBlocked(p)'
  BY DEF AllBlocked, TypeOK, PoolTypeOK
<1>2. ASSUME NEW b \in Priorities, NEW k \in DOMAIN mPools[b]
      PROVE  mPools[b][k] \in Pools
  <2>1. mPools[b] \in Seq(Pools)
    BY DEF TypeOK, SchedulerTypeOK
  <2> QED
    BY <2>1
<1>3. \A k : ToVisit(u, k)' <=> ToVisit(u, k)
  BY DEF ToVisit
<1>4. \A b \in Priorities : b < prio[u] =>
        \A k \in DOMAIN mPools[b] : AllBlocked(mPools[b][k])'
  BY <1>1, <1>2 DEF PassedAreBlocked
<1>5. prio[u] # 0 /\ pc[u] # "give" =>
        \A k \in DOMAIN mPools[prio[u]] :
          ToVisit(u, k)' \/ AllBlocked(mPools[prio[u]][k])'
  BY <1>1, <1>2, <1>3 DEF PassedAreBlocked, TypeOK, ThreadTypeOK
<1>6. pc[u] \in {"visit", "take"} =>
        \A i \in mTaskRecords'[pool[u]] :
          i < cursor[u] \/ (i = cursor[u] /\ pc[u] = "visit") => mBlocked'[i]
  BY DEF PassedAreBlocked, ThreadShape, HandsFit, TypeOK, PoolTypeOK
<1> QED
  BY <1>4, <1>5, <1>6 DEF PassedAreBlocked, AllBlocked

\* Whoever serves a worker has found dispatching on, and it is still on.
LEMMA StaysOnStep ==
  ASSUME TypeOK, ThreadShape, NothingAborted, \A t \in Threads : ScanFits(t), StaysOn,
         DispatchingNext
  PROVE  StaysOn'
<1> SUFFICES ASSUME ~mDispatchingPermitted
             PROVE  StaysOn'
  BY DEF StaysOn, DispatchingNext
<1>0. \A t \in Threads : pc[t] # "flag" /\ ~Dispatching(t)
  BY DEF StaysOn
<1> SUFFICES \A t \in Threads : pc'[t] # "flag" /\ ~Dispatching(t)'
  BY DEF StaysOn

<1>1. ASSUME NEW t \in Clients, NEW w \in Workers, RegisterWorker(t, w)
      PROVE  \A u \in Threads : pc'[u] # "flag" /\ ~Dispatching(u)'
  BY <1>0, <1>1 DEF RegisterWorker, Dispatching, TypeOK, ThreadTypeOK
<1>2. ASSUME NEW t \in Clients, NEW w \in Workers, UnregisterWorker(t, w)
      PROVE  \A u \in Threads : pc'[u] # "flag" /\ ~Dispatching(u)'
  BY <1>0, <1>2 DEF UnregisterWorker, Dispatching, TypeOK, ThreadTypeOK
<1>3. ASSUME NEW t \in Clients, NEW p \in Pools, RegisterPool(t, p)
      PROVE  \A u \in Threads : pc'[u] # "flag" /\ ~Dispatching(u)'
  BY <1>0, <1>3 DEF RegisterPool, Dispatching, TypeOK, ThreadTypeOK
<1>4. ASSUME NEW t \in Clients, NEW p \in Pools, AddTask(t, p)
      PROVE  \A u \in Threads : pc'[u] # "flag" /\ ~Dispatching(u)'
  BY <1>0, <1>4 DEF AddTask, Dispatching, TypeOK, ThreadTypeOK
<1>5. ASSUME NEW t \in Clients, NEW p \in Pools,
             AttemptAbortAllTasks(t, p)
      PROVE  \A u \in Threads : pc'[u] # "flag" /\ ~Dispatching(u)'
  BY <1>5
  DEF AttemptAbortAllTasks, TypeOK, ThreadTypeOK, NoAbortNext, PreparedNext,
      DispatchingNext
<1>6. ASSUME NEW t \in Clients, NEW p \in Pools, NEW i \in TaskIDs,
             AttemptAbortTask(t, p, i)
      PROVE  \A u \in Threads : pc'[u] # "flag" /\ ~Dispatching(u)'
  BY <1>6
  DEF AttemptAbortTask, TypeOK, ThreadTypeOK, NoAbortNext, PreparedNext,
      DispatchingNext
<1>7. CASE StartDispatching
  BY <1>0, <1>7 DEF StartDispatching, Dispatching, TypeOK, ThreadTypeOK
<1>8. ASSUME NEW block \in BOOLEAN, StopDispatching(block)
      PROVE  \A u \in Threads : pc'[u] # "flag" /\ ~Dispatching(u)'
  BY <1>0, <1>8 DEF StopDispatching, Dispatching, TypeOK, ThreadTypeOK
<1>9. CASE AllTasksAreCurrentlyCompleted
  BY <1>0, <1>9 DEF AllTasksAreCurrentlyCompleted, Dispatching, TypeOK, ThreadTypeOK
<1>10. ASSUME NEW t \in Threads, OnTasksNewlyAvailable(t)
      PROVE  \A u \in Threads : pc'[u] # "flag" /\ ~Dispatching(u)'
  BY <1>0, <1>10 DEF OnTasksNewlyAvailable, Dispatching, TypeOK, ThreadTypeOK
<1>11. ASSUME NEW t \in Threads, NEW i \in TaskIDs, BlockToAbort(t, i)
      PROVE  \A u \in Threads : pc'[u] # "flag" /\ ~Dispatching(u)'
  BY <1>11 DEF BlockToAbort, NothingAborted
<1>12. ASSUME NEW t \in Threads, MarkAbortPending(t)
      PROVE  \A u \in Threads : pc'[u] # "flag" /\ ~Dispatching(u)'
  BY <1>12 DEF MarkAbortPending, NothingAborted
<1>13. ASSUME NEW t \in Threads, RemoveAborted(t)
      PROVE  \A u \in Threads : pc'[u] # "flag" /\ ~Dispatching(u)'
  BY <1>13 DEF RemoveAborted, NothingAborted
<1>14. ASSUME NEW t \in Threads, FailToLocate(t)
      PROVE  \A u \in Threads : pc'[u] # "flag" /\ ~Dispatching(u)'
  BY <1>14 DEF FailToLocate, NothingAborted
<1>15. ASSUME NEW t \in Threads, AbortDone(t)
      PROVE  \A u \in Threads : pc'[u] # "flag" /\ ~Dispatching(u)'
  BY <1>15 DEF AbortDone, NothingAborted
<1>16. ASSUME NEW t \in Threads, CheckPermitted(t)
      PROVE  \A u \in Threads : pc'[u] # "flag" /\ ~Dispatching(u)'
  BY <1>0, <1>16 DEF CheckPermitted, Dispatching, TypeOK, ThreadTypeOK
<1>17. ASSUME NEW t \in Threads, NEW w \in Workers, FlagNextWorker(t, w)
      PROVE  \A u \in Threads : pc'[u] # "flag" /\ ~Dispatching(u)'
  BY <1>0, <1>17 DEF FlagNextWorker, Dispatching, TypeOK, ThreadTypeOK
<1>18. ASSUME NEW t \in Threads, NoFurtherWorker(t)
      PROVE  \A u \in Threads : pc'[u] # "flag" /\ ~Dispatching(u)'
  BY <1>0, <1>18 DEF NoFurtherWorker, Dispatching, TypeOK, ThreadTypeOK
<1>19. ASSUME NEW t \in Threads, EnterBlock(t)
      PROVE  \A u \in Threads : pc'[u] # "flag" /\ ~Dispatching(u)'
  BY <1>0, <1>19 DEF EnterBlock, Dispatching, TypeOK, ThreadTypeOK
<1>20. ASSUME NEW t \in Threads, EnterPool(t)
      PROVE  \A u \in Threads : pc'[u] # "flag" /\ ~Dispatching(u)'
  BY <1>0, <1>20 DEF EnterPool, Dispatching, TypeOK, ThreadTypeOK
<1>21. ASSUME NEW t \in Threads, LeaveBlocks(t)
      PROVE  \A u \in Threads : pc'[u] # "flag" /\ ~Dispatching(u)'
  BY <1>0, <1>21 DEF LeaveBlocks, Dispatching, TypeOK, ThreadTypeOK
<1>22. ASSUME NEW t \in Threads, NEW i \in TaskIDs, VisitRecord(t, i)
      PROVE  \A u \in Threads : pc'[u] # "flag" /\ ~Dispatching(u)'
  BY <1>0, <1>22 DEF VisitRecord, Dispatching, TypeOK, ThreadTypeOK
<1>23. ASSUME NEW t \in Threads, NoFurtherRecord(t)
      PROVE  \A u \in Threads : pc'[u] # "flag" /\ ~Dispatching(u)'
  BY <1>0, <1>23 DEF NoFurtherRecord, Dispatching, TypeOK, ThreadTypeOK
<1>24. ASSUME NEW t \in Threads, TakeRecord(t)
      PROVE  \A u \in Threads : pc'[u] # "flag" /\ ~Dispatching(u)'
  BY <1>0, <1>24 DEF TakeRecord, Dispatching, TypeOK, ThreadTypeOK
<1>25. ASSUME NEW t \in Threads, GiveTask(t)
      PROVE  \A u \in Threads : pc'[u] # "flag" /\ ~Dispatching(u)'
  BY <1>0, <1>25 DEF GiveTask, Dispatching, TypeOK, ThreadTypeOK, ThreadShape, HandsFit
<1>26. ASSUME NEW t \in Threads, UndoFlag(t)
      PROVE  \A u \in Threads : pc'[u] # "flag" /\ ~Dispatching(u)'
  BY <1>0, <1>26 DEF UndoFlag, Dispatching, TypeOK, ThreadTypeOK, ThreadShape, HandsFit
<1>27. ASSUME NEW t \in Threads, ReturnPeeked(t)
      PROVE  \A u \in Threads : pc'[u] # "flag" /\ ~Dispatching(u)'
  BY <1>0, <1>27 DEF ReturnPeeked, Dispatching, TypeOK, ThreadTypeOK
<1>28. CASE SeeAllIdle
  BY <1>0, <1>28 DEF SeeAllIdle, Dispatching, TypeOK, ThreadTypeOK
<1>29. ASSUME NEW w \in Workers, SeeIdleWorker(w)
      PROVE  \A u \in Threads : pc'[u] # "flag" /\ ~Dispatching(u)'
  BY <1>0, <1>29 DEF SeeIdleWorker, Dispatching, TypeOK, ThreadTypeOK
<1>30. ASSUME NEW w \in Workers, SeeActiveWorker(w)
      PROVE  \A u \in Threads : pc'[u] # "flag" /\ ~Dispatching(u)'
  BY <1>0, <1>30 DEF SeeActiveWorker, Dispatching, TypeOK, ThreadTypeOK
<1>31. ASSUME NEW w \in Workers, PullWork(w)
      PROVE  \A u \in Threads : pc'[u] # "flag" /\ ~Dispatching(u)'
  BY <1>0, <1>31 DEF PullWork, Dispatching, TypeOK, ThreadTypeOK
<1>32. ASSUME NEW w \in Workers, NEW state \in TaskStates,
             StepReturns(w, state)
      PROVE  \A u \in Threads : pc'[u] # "flag" /\ ~Dispatching(u)'
  BY <1>0, <1>32 DEF StepReturns, Dispatching, TypeOK, ThreadTypeOK
<1>33. ASSUME NEW w \in Workers, ClearAssignment(w)
      PROVE  \A u \in Threads : pc'[u] # "flag" /\ ~Dispatching(u)'
  BY <1>0, <1>33 DEF ClearAssignment, Dispatching, TypeOK, ThreadTypeOK
<1>34. ASSUME NEW w \in Workers, ReturnAndUnblockTask(w)
      PROVE  \A u \in Threads : pc'[u] # "flag" /\ ~Dispatching(u)'
  BY <1>0, <1>34 DEF ReturnAndUnblockTask, Dispatching, TypeOK, ThreadTypeOK
<1>35. ASSUME NEW w \in Workers, RemoveBlockedTask(w)
      PROVE  \A u \in Threads : pc'[u] # "flag" /\ ~Dispatching(u)'
  BY <1>0, <1>35 DEF RemoveBlockedTask, Dispatching, TypeOK, ThreadTypeOK
<1>36. ASSUME NEW w \in Workers, ReleaseWorker(w)
      PROVE  \A u \in Threads : pc'[u] # "flag" /\ ~Dispatching(u)'
  BY <1>0, <1>36 DEF ReleaseWorker, Dispatching, TypeOK, ThreadTypeOK
<1> QED
  BY <1>1, <1>2, <1>3, <1>4, <1>5, <1>6, <1>7, <1>8, <1>9, <1>10, <1>11, <1>12, <1>13,
    <1>14, <1>15, <1>16, <1>17, <1>18, <1>19, <1>20, <1>21, <1>22, <1>23, <1>24,
    <1>25, <1>26, <1>27, <1>28, <1>29, <1>30, <1>31, <1>32, <1>33, <1>34, <1>35, <1>36
  DEF DispatchingNext, PreparedNext, NoAbortNext, Next, Call, Direct, Proceed, Work,
    AreAllWorkersIdle

\* No step unblocks a record that the search for the worker has passed.
LEMMA PassedAreBlockedStep ==
  ASSUME OnlyOneWorker, TypeOK, ThreadShape, OneOwnerPerWorker, OneOwnerPerBlock,
         NothingAborted, \A t \in Threads : ScanFits(t), AsksWhileStopped,
         \A t \in Threads : PassedAreBlocked(t),
         mDispatchingPermitted, DispatchingNext
  PROVE  \A t \in Threads : PassedAreBlocked(t)'
<1>0. /\ mDispatchingPermitted'
      /\ UNCHANGED <<nextID, mWorkers, mPools, mFlaggedForUnregistration>>
      /\ \A t \in Threads : pc'[t] # "abort"
      /\ Control \in Threads
  BY ConstantsAssumption
  DEF DispatchingNext, PreparedNext, NoAbortNext, ConstantsAssumption
<1>1. ASSUME NEW t \in Clients, NEW w \in Workers, RegisterWorker(t, w)
      PROVE  \A u \in Threads : PassedAreBlocked(u)'
  BY <1>0, <1>1 DEF RegisterWorker
<1>2. ASSUME NEW t \in Clients, NEW w \in Workers, UnregisterWorker(t, w)
      PROVE  \A u \in Threads : PassedAreBlocked(u)'
  BY <1>0, <1>2 DEF UnregisterWorker, TypeOK, SchedulerTypeOK
<1>3. ASSUME NEW t \in Clients, NEW p \in Pools, RegisterPool(t, p)
      PROVE  \A u \in Threads : PassedAreBlocked(u)'
  <2>1. \A u \in Threads : u # t => PassedAreBlocked(u)'
    BY <1>0, <1>3, PassedFrame DEF RegisterPool, TypeOK, PoolTypeOK, ThreadTypeOK
  <2>2. PassedAreBlocked(t)'
    BY <1>3 DEF PassedAreBlocked, Dispatching, RegisterPool, TypeOK, ThreadTypeOK
  <2> QED
    BY <2>1, <2>2
<1>4. ASSUME NEW t \in Clients, NEW p \in Pools, AddTask(t, p)
      PROVE  \A u \in Threads : PassedAreBlocked(u)'
  BY <1>0, <1>4 DEF AddTask, TypeOK, PoolTypeOK
<1>5. ASSUME NEW t \in Clients, NEW p \in Pools,
             AttemptAbortAllTasks(t, p)
      PROVE  \A u \in Threads : PassedAreBlocked(u)'
  BY <1>0, <1>5 DEF AttemptAbortAllTasks, TypeOK, ThreadTypeOK
<1>6. ASSUME NEW t \in Clients, NEW p \in Pools, NEW i \in TaskIDs,
             AttemptAbortTask(t, p, i)
      PROVE  \A u \in Threads : PassedAreBlocked(u)'
  BY <1>0, <1>6 DEF AttemptAbortTask, TypeOK, ThreadTypeOK
<1>7. CASE StartDispatching
  BY <1>0, <1>7 DEF StartDispatching
<1>8. ASSUME NEW block \in BOOLEAN, StopDispatching(block)
      PROVE  \A u \in Threads : PassedAreBlocked(u)'
  BY <1>0, <1>8 DEF StopDispatching
<1>9. CASE AllTasksAreCurrentlyCompleted
  BY <1>0, <1>9 DEF AllTasksAreCurrentlyCompleted
<1>10. ASSUME NEW t \in Threads, OnTasksNewlyAvailable(t)
      PROVE  \A u \in Threads : PassedAreBlocked(u)'
  <2>1. \A u \in Threads : u # t => PassedAreBlocked(u)'
    BY <1>0, <1>10, PassedFrame
    DEF OnTasksNewlyAvailable, TypeOK, PoolTypeOK, ThreadTypeOK
  <2>2. PassedAreBlocked(t)'
    BY <1>10
    DEF PassedAreBlocked, Dispatching, OnTasksNewlyAvailable, TypeOK, ThreadTypeOK
  <2> QED
    BY <2>1, <2>2
<1>11. ASSUME NEW t \in Threads, NEW i \in TaskIDs, BlockToAbort(t, i)
      PROVE  \A u \in Threads : PassedAreBlocked(u)'
  BY <1>11 DEF BlockToAbort, NothingAborted
<1>12. ASSUME NEW t \in Threads, MarkAbortPending(t)
      PROVE  \A u \in Threads : PassedAreBlocked(u)'
  BY <1>12 DEF MarkAbortPending, NothingAborted
<1>13. ASSUME NEW t \in Threads, RemoveAborted(t)
      PROVE  \A u \in Threads : PassedAreBlocked(u)'
  BY <1>13 DEF RemoveAborted, NothingAborted
<1>14. ASSUME NEW t \in Threads, FailToLocate(t)
      PROVE  \A u \in Threads : PassedAreBlocked(u)'
  BY <1>14 DEF FailToLocate, NothingAborted
<1>15. ASSUME NEW t \in Threads, AbortDone(t)
      PROVE  \A u \in Threads : PassedAreBlocked(u)'
  BY <1>15 DEF AbortDone, NothingAborted
<1>16. ASSUME NEW t \in Threads, CheckPermitted(t)
      PROVE  \A u \in Threads : PassedAreBlocked(u)'
  <2>1. \A u \in Threads : u # t => PassedAreBlocked(u)'
    BY <1>0, <1>16, PassedFrame DEF CheckPermitted, TypeOK, PoolTypeOK, ThreadTypeOK
  <2>2. PassedAreBlocked(t)'
    BY <1>16 DEF PassedAreBlocked, Dispatching, CheckPermitted, TypeOK, ThreadTypeOK
  <2> QED
    BY <2>1, <2>2
<1>17. ASSUME NEW t \in Threads, NEW w \in Workers, FlagNextWorker(t, w)
      PROVE  \A u \in Threads : PassedAreBlocked(u)'
  <2>0. /\ pc'[t] \in {"flag", "nextPool"} /\ prio'[t] = 0
        /\ \A u \in Threads : u # t => pc'[u] = pc[u] /\ worker'[u] = worker[u]
        /\ UNCHANGED <<prio, left, index, pool, cursor, mPools, mTaskRecords, mBlocked>>
    BY <1>17 DEF FlagNextWorker, TypeOK, ThreadTypeOK, ScanFits
  <2>1. \A u \in Threads : u # t => PassedAreBlocked(u)'
    BY <1>0, <2>0, PassedFrame DEF TypeOK, PoolTypeOK, ThreadTypeOK
  <2>2. PassedAreBlocked(t)'
    BY <2>0, ConstantsAssumption
    DEF PassedAreBlocked, Dispatching, ConstantsAssumption
  <2> QED
    BY <2>1, <2>2
<1>18. ASSUME NEW t \in Threads, NoFurtherWorker(t)
      PROVE  \A u \in Threads : PassedAreBlocked(u)'
  <2>1. \A u \in Threads : u # t => PassedAreBlocked(u)'
    BY <1>0, <1>18, PassedFrame DEF NoFurtherWorker, TypeOK, PoolTypeOK, ThreadTypeOK
  <2>2. PassedAreBlocked(t)'
    BY <1>18 DEF PassedAreBlocked, Dispatching, NoFurtherWorker, TypeOK, ThreadTypeOK
  <2> QED
    BY <2>1, <2>2
<1>19. ASSUME NEW t \in Threads, EnterBlock(t)
      PROVE  \A u \in Threads : PassedAreBlocked(u)'
  <2>1. \A u \in Threads : u # t => PassedAreBlocked(u)'
    BY <1>0, <1>19, PassedFrame DEF EnterBlock, TypeOK, PoolTypeOK, ThreadTypeOK
  <2>2. PassedAreBlocked(t)'
    <3> SUFFICES ASSUME Dispatching(t)'
                 PROVE  PassedAreBlocked(t)'
      BY DEF PassedAreBlocked
    <3> DEFINE n == Len(mPools[prio[t] + 1])
    <3>1. /\ pc[t] = "nextPool" /\ left[t] = 0 /\ Dispatching(t)
          /\ pc'[t] = "nextPool" /\ left'[t] = n /\ prio'[t] = prio[t] + 1
          /\ UNCHANGED <<mPools, mTaskRecords, mBlocked>>
          /\ prio[t] \in Nat /\ prio[t] < NumPriorities
      BY <1>19 DEF EnterBlock, TypeOK, ThreadTypeOK, Dispatching
    <3>2. prio[t] + 1 \in Priorities /\ n \in Nat
      <4>1. prio[t] + 1 \in Priorities
        BY <3>1, ConstantsAssumption DEF ConstantsAssumption
      <4> QED
        BY <4>1, PoolsOfBlock
    <3>3. n > 0 => index'[t] \in 0 .. n - 1
      <4>1. index'[t] = IF n = 0 THEN 0 ELSE (mLastDispatchIndex[prio[t] + 1] + 1) % n
        BY <1>19, <3>1 DEF EnterBlock, TypeOK, ThreadTypeOK, Dispatching
      <4>2. mLastDispatchIndex[prio[t] + 1] \in Nat
        BY <3>2 DEF TypeOK, SchedulerTypeOK
      <4> QED
        BY <3>2, <4>1, <4>2
    <3>4. ASSUME NEW b \in Priorities, b < prio'[t], NEW k \in DOMAIN mPools[b]
          PROVE  AllBlocked(mPools[b][k])'
      <4>1. b < prio[t] \/ b = prio[t]
        BY <3>1, <3>4
      <4>2. ~ToVisit(t, k)
        BY <3>1 DEF ToVisit
      <4>3. AllBlocked(mPools[b][k])
        BY <3>1, <4>1, <4>2 DEF PassedAreBlocked
      <4> QED
        BY <3>1, <4>3 DEF AllBlocked
    <3>5. ASSUME NEW k \in DOMAIN mPools[prio[t] + 1]
          PROVE  ToVisit(t, k)'
      <4>1. k \in 1 .. n
        BY <3>2 DEF TypeOK, SchedulerTypeOK
      <4> QED
        BY <3>1, <3>2, <3>3, <4>1 DEF ToVisit
    <3> QED
      BY <3>1, <3>4, <3>5 DEF PassedAreBlocked
  <2> QED
    BY <2>1, <2>2
<1>20. ASSUME NEW t \in Threads, EnterPool(t)
      PROVE  \A u \in Threads : PassedAreBlocked(u)'
  <2>1. \A u \in Threads : u # t => PassedAreBlocked(u)'
    BY <1>0, <1>20, PassedFrame DEF EnterPool, TypeOK, PoolTypeOK, ThreadTypeOK
  <2>2. PassedAreBlocked(t)'
    <3> SUFFICES ASSUME Dispatching(t)'
                 PROVE  PassedAreBlocked(t)'
      BY DEF PassedAreBlocked
    <3>1. /\ pc[t] = "nextPool" /\ pc'[t] = "visit" /\ cursor'[t] = 0 /\ Dispatching(t)
          /\ UNCHANGED <<prio, left, index, mPools, mTaskRecords, mBlocked>>
      BY <1>20 DEF EnterPool, TypeOK, ThreadTypeOK, Dispatching, ScanFits
    <3>2. \A i \in mTaskRecords'[pool'[t]] : ~(i < cursor'[t]) /\ i # cursor'[t]
      <4>1. pool'[t] \in Pools
        <5>1. prio[t] \in Priorities /\ index[t] < Len(mPools[prio[t]]) /\ index[t] \in Nat
          BY <1>20 DEF EnterPool, ThreadShape, HandsFit, TypeOK, ThreadTypeOK
        <5>2. mPools[prio[t]] \in Seq(Pools)
          BY <5>1 DEF TypeOK, SchedulerTypeOK
        <5>3. mPools[prio[t]][index[t] + 1] \in Pools
          BY <5>1, <5>2
        <5> QED
          BY <1>20, <5>3 DEF EnterPool, TypeOK, ThreadTypeOK
      <4> QED
        BY <3>1, <4>1 DEF TypeOK, PoolTypeOK
    <3>3. \A k : ToVisit(t, k)' <=> ToVisit(t, k)
      BY <3>1 DEF ToVisit
    <3>4. \A b \in Priorities : b < prio[t] =>
            \A k \in DOMAIN mPools[b] : AllBlocked(mPools[b][k])
      BY <3>1 DEF PassedAreBlocked
    <3>5. prio[t] # 0 => \A k \in DOMAIN mPools[prio[t]] :
            ToVisit(t, k)' \/ AllBlocked(mPools[prio[t]][k])
      BY <3>1, <3>3 DEF PassedAreBlocked
    <3> QED
      BY <3>1, <3>2, <3>4, <3>5 DEF PassedAreBlocked, AllBlocked
  <2> QED
    BY <2>1, <2>2
<1>21. ASSUME NEW t \in Threads, LeaveBlocks(t)
      PROVE  \A u \in Threads : PassedAreBlocked(u)'
  <2>1. \A u \in Threads : u # t => PassedAreBlocked(u)'
    BY <1>0, <1>21, PassedFrame DEF LeaveBlocks, TypeOK, PoolTypeOK, ThreadTypeOK
  <2>2. PassedAreBlocked(t)'
    BY <1>21 DEF PassedAreBlocked, Dispatching, LeaveBlocks, TypeOK, ThreadTypeOK
  <2> QED
    BY <2>1, <2>2
<1>22. ASSUME NEW t \in Threads, NEW i \in TaskIDs, VisitRecord(t, i)
      PROVE  \A u \in Threads : PassedAreBlocked(u)'
  <2>1. \A u \in Threads : u # t => PassedAreBlocked(u)'
    BY <1>0, <1>22, PassedFrame DEF VisitRecord, TypeOK, PoolTypeOK, ThreadTypeOK
  <2>2. PassedAreBlocked(t)'
    <3> SUFFICES ASSUME Dispatching(t)'
                 PROVE  PassedAreBlocked(t)'
      BY DEF PassedAreBlocked
    <3>1. /\ pc[t] = "visit" /\ pc'[t] = "take" /\ cursor'[t] = i /\ Dispatching(t)
          /\ IsFirst(i, LaterRecords(t)) /\ pool[t] \in Pools
          /\ UNCHANGED <<prio, left, index, pool, mPools, mTaskRecords, mBlocked>>
      BY <1>22
      DEF VisitRecord, TypeOK, ThreadTypeOK, Dispatching, NothingAborted,
          ThreadShape,
         HandsFit
    <3>2. ASSUME NEW j \in mTaskRecords[pool[t]], j < i
          PROVE  mBlocked[j]
      <4>1. j \in Nat /\ i \in Nat /\ cursor[t] \in Nat
        BY <3>1 DEF TypeOK, PoolTypeOK, ThreadTypeOK
      <4>2. j <= cursor[t]
        BY <3>1, <3>2, <4>1 DEF IsFirst, LaterRecords
      <4> QED
        BY <3>1, <4>1, <4>2 DEF PassedAreBlocked
    <3>3. \A k : ToVisit(t, k)' <=> ToVisit(t, k)
      BY <3>1 DEF ToVisit
    <3> QED
      BY <3>1, <3>2, <3>3 DEF PassedAreBlocked, AllBlocked
  <2> QED
    BY <2>1, <2>2
<1>23. ASSUME NEW t \in Threads, NoFurtherRecord(t)
      PROVE  \A u \in Threads : PassedAreBlocked(u)'
  <2>1. \A u \in Threads : u # t => PassedAreBlocked(u)'
    BY <1>0, <1>23, PassedFrame DEF NoFurtherRecord, TypeOK, PoolTypeOK, ThreadTypeOK
  <2>2. PassedAreBlocked(t)'
    <3> SUFFICES ASSUME Dispatching(t)'
                 PROVE  PassedAreBlocked(t)'
      BY DEF PassedAreBlocked
    <3> DEFINE n == Len(mPools[prio[t]])
    <3>1. /\ pc[t] = "visit" /\ pc'[t] = "nextPool" /\ Dispatching(t)
          /\ LaterRecords(t) = {} /\ pool[t] \in Pools
          /\ pool[t] = mPools[prio[t]][index[t] + 1]
          /\ left'[t] = left[t] - 1 /\ index'[t] = (index[t] + 1) % n
          /\ UNCHANGED <<prio, mPools, mTaskRecords, mBlocked>>
      BY <1>23
      DEF NoFurtherRecord, TypeOK, ThreadTypeOK, Dispatching, ThreadShape,
          HandsFit,
         ScanFits
    <3>2. /\ prio[t] \in Priorities /\ index[t] \in Nat /\ left[t] \in Nat /\ left[t] > 0
          /\ n \in Nat /\ index[t] < n
      <4>1. /\ prio[t] \in Priorities /\ index[t] \in Nat /\ left[t] \in Nat /\ left[t] > 0
            /\ index[t] < n
        BY <3>1 DEF TypeOK, ThreadTypeOK, ThreadShape, HandsFit
      <4> QED
        BY <4>1, PoolsOfBlock
    <3>3. index'[t] = IF index[t] + 1 = n THEN 0 ELSE index[t] + 1
      BY <3>1, <3>2, NextPlace
    <3>4. AllBlocked(pool[t])
      <4>1. \A j \in mTaskRecords[pool[t]] : j \in Nat /\ cursor[t] \in Nat
        BY <3>1 DEF TypeOK, PoolTypeOK, ThreadTypeOK
      <4>2. \A j \in mTaskRecords[pool[t]] : j <= cursor[t]
        BY <3>1, <4>1 DEF LaterRecords
      <4> QED
        BY <3>1, <4>1, <4>2 DEF PassedAreBlocked, AllBlocked
    <3>5. ASSUME NEW k \in DOMAIN mPools[prio[t]]
          PROVE  ToVisit(t, k)' \/ AllBlocked(mPools[prio[t]][k])
      <4>1. k \in 1 .. n
        BY <3>2 DEF TypeOK, SchedulerTypeOK
      <4>2. CASE k = index[t] + 1
        BY <3>1, <3>4, <4>2
      <4>3. CASE k # index[t] + 1 /\ ToVisit(t, k)
        <5>1. /\ left[t] > 0
              /\ (index[t] < k /\ k <= index[t] + left[t]) \/ k + n <= index[t] + left[t]
          BY <4>3 DEF ToVisit
        <5>2. /\ left'[t] > 0
              /\ \/ index'[t] < k /\ k <= index'[t] + left'[t]
                 \/ k + n <= index'[t] + left'[t]
          BY <3>1, <3>2, <3>3, <4>1, <4>3, <5>1, StillToVisit
        <5> QED
          BY <3>1, <5>2 DEF ToVisit
      <4>4. CASE ~ToVisit(t, k)
        BY <3>1, <3>2, <4>4 DEF PassedAreBlocked
      <4> QED
        BY <4>2, <4>3, <4>4
    <3> QED
      BY <3>1, <3>5 DEF PassedAreBlocked, AllBlocked
  <2> QED
    BY <2>1, <2>2
<1>24. ASSUME NEW t \in Threads, TakeRecord(t)
      PROVE  \A u \in Threads : PassedAreBlocked(u)'
  <2>0. /\ \A i \in TaskIDs : mBlocked[i] => mBlocked'[i]
        /\ \A u \in Threads : u # t => pc'[u] = pc[u] /\ cursor'[u] = cursor[u]
        /\ UNCHANGED <<worker, prio, left, index, pool, mPools, mTaskRecords>>
    BY <1>24 DEF TakeRecord, TypeOK, ThreadTypeOK, PoolTypeOK
  <2>1. \A u \in Threads : u # t => PassedAreBlocked(u)'
    BY <1>0, <2>0, PassedFrame DEF TypeOK, PoolTypeOK, ThreadTypeOK
  <2>2. PassedAreBlocked(t)'
    <3> SUFFICES ASSUME Dispatching(t)'
                 PROVE  PassedAreBlocked(t)'
      BY DEF PassedAreBlocked
    <3>1. /\ pc[t] = "take" /\ Dispatching(t) /\ pool[t] \in Pools
          /\ UNCHANGED <<prio, left, index, pool, mPools, mTaskRecords>>
      BY <1>24 DEF TakeRecord, TypeOK, ThreadTypeOK, Dispatching, ThreadShape, HandsFit
    <3>2. \A p \in Pools : AllBlocked(p) => AllBlocked(p)'
      BY <2>0, <3>1 DEF AllBlocked, TypeOK, PoolTypeOK
    <3>3. \A b \in Priorities : \A k \in DOMAIN mPools[b] : mPools[b][k] \in Pools
      BY DEF TypeOK, SchedulerTypeOK
    <3>4. \A b \in Priorities : b < prio[t] =>
            \A k \in DOMAIN mPools[b] : AllBlocked(mPools[b][k])'
      BY <3>1, <3>2, <3>3 DEF PassedAreBlocked
    <3>5. CASE mBlocked[cursor[t]]
      <4>1. pc'[t] = "visit" /\ cursor'[t] = cursor[t] /\ mBlocked' = mBlocked
        BY <1>24, <3>5 DEF TakeRecord, TypeOK, ThreadTypeOK, PoolTypeOK
      <4>2. \A k : ToVisit(t, k)' <=> ToVisit(t, k)
        BY <3>1 DEF ToVisit
      <4>3. \A k \in DOMAIN mPools[prio[t]] :
              prio[t] # 0 => ToVisit(t, k) \/ AllBlocked(mPools[prio[t]][k])
        BY <3>1 DEF PassedAreBlocked
      <4>4. \A j \in mTaskRecords[pool[t]] : j < cursor[t] \/ j = cursor[t] => mBlocked[j]
        BY <3>1, <3>5 DEF PassedAreBlocked
      <4> QED
        BY <3>1, <3>4, <4>1, <4>2, <4>3, <4>4 DEF PassedAreBlocked, AllBlocked
    <3>6. CASE ~mBlocked[cursor[t]]
      <4>1. pc'[t] \in {"give", "unpeek"}
        BY <1>24, <3>6 DEF TakeRecord, TypeOK, ThreadTypeOK
      <4>2. pc'[t] = "give"
        BY <4>1 DEF Dispatching
      <4> QED
        BY <3>1, <3>4, <4>2 DEF PassedAreBlocked, AllBlocked
    <3> QED
      BY <3>5, <3>6
  <2> QED
    BY <2>1, <2>2
<1>25. ASSUME NEW t \in Threads, GiveTask(t)
      PROVE  \A u \in Threads : PassedAreBlocked(u)'
  <2>1. \A u \in Threads : u # t => PassedAreBlocked(u)'
    BY <1>0, <1>25, PassedFrame DEF GiveTask, TypeOK, PoolTypeOK, ThreadTypeOK
  <2>2. PassedAreBlocked(t)'
    BY <1>25 DEF PassedAreBlocked, Dispatching, GiveTask, TypeOK, ThreadTypeOK
  <2> QED
    BY <2>1, <2>2
<1>26. ASSUME NEW t \in Threads, UndoFlag(t)
      PROVE  \A u \in Threads : PassedAreBlocked(u)'
  <2>1. \A u \in Threads : u # t => PassedAreBlocked(u)'
    BY <1>0, <1>26, PassedFrame DEF UndoFlag, TypeOK, PoolTypeOK, ThreadTypeOK
  <2>2. PassedAreBlocked(t)'
    BY <1>26 DEF PassedAreBlocked, Dispatching, UndoFlag, TypeOK, ThreadTypeOK
  <2> QED
    BY <2>1, <2>2
<1>27. ASSUME NEW t \in Threads, ReturnPeeked(t)
      PROVE  \A u \in Threads : PassedAreBlocked(u)'
  BY <1>27 DEF ReturnPeeked, AsksWhileStopped, Asking, ThreadShape, HandsFit
<1>28. CASE SeeAllIdle
  BY <1>0, <1>28 DEF SeeAllIdle, AsksWhileStopped, Asking
<1>29. ASSUME NEW w \in Workers, SeeIdleWorker(w)
      PROVE  \A u \in Threads : PassedAreBlocked(u)'
  BY <1>0, <1>29 DEF SeeIdleWorker, AsksWhileStopped, Asking
<1>30. ASSUME NEW w \in Workers, SeeActiveWorker(w)
      PROVE  \A u \in Threads : PassedAreBlocked(u)'
  BY <1>0, <1>30 DEF SeeActiveWorker, AsksWhileStopped, Asking
<1>31. ASSUME NEW w \in Workers, PullWork(w)
      PROVE  \A u \in Threads : PassedAreBlocked(u)'
  <2>1. \A u \in Threads : u # w => PassedAreBlocked(u)'
    BY <1>0, <1>31, PassedFrame DEF PullWork, TypeOK, PoolTypeOK, ThreadTypeOK
  <2>2. PassedAreBlocked(w)'
    BY <1>31 DEF PassedAreBlocked, Dispatching, PullWork, TypeOK, ThreadTypeOK
  <2> QED
    BY <2>1, <2>2
<1>32. ASSUME NEW w \in Workers, NEW state \in TaskStates,
             StepReturns(w, state)
      PROVE  \A u \in Threads : PassedAreBlocked(u)'
  <2>1. \A u \in Threads : u # w => PassedAreBlocked(u)'
    BY <1>0, <1>32, PassedFrame DEF StepReturns, TypeOK, PoolTypeOK, ThreadTypeOK
  <2>2. PassedAreBlocked(w)'
    BY <1>32 DEF PassedAreBlocked, Dispatching, StepReturns, TypeOK, ThreadTypeOK
  <2> QED
    BY <2>1, <2>2
<1>33. ASSUME NEW w \in Workers, ClearAssignment(w)
      PROVE  \A u \in Threads : PassedAreBlocked(u)'
  <2>1. \A u \in Threads : u # w => PassedAreBlocked(u)'
    BY <1>0, <1>33, PassedFrame DEF ClearAssignment, TypeOK, PoolTypeOK, ThreadTypeOK
  <2>2. PassedAreBlocked(w)'
    BY <1>33 DEF PassedAreBlocked, Dispatching, ClearAssignment, TypeOK, ThreadTypeOK
  <2> QED
    BY <2>1, <2>2
<1>34. ASSUME NEW w \in Workers, ReturnAndUnblockTask(w)
      PROVE  \A u \in Threads : PassedAreBlocked(u)'
  <2>1. pc[w] = "settle" /\ pc'[w] = "release" /\ \A u \in Threads : u # w => pc'[u] = pc[u]
    BY <1>34 DEF ReturnAndUnblockTask, TypeOK, ThreadTypeOK
  <2>2. \A u \in Threads : ~Dispatching(u)
    <3>1. \A u \in Threads : Dispatching(u) => worker[u] \in Workers /\ ~Running(worker[u])
      BY DEF OneOwnerPerWorker, DispatcherOwns, TypeOK, SchedulerTypeOK
    <3> QED
      BY <2>1, <3>1 DEF OnlyOneWorker, Running
  <2>3. UNCHANGED worker
    BY <1>34 DEF ReturnAndUnblockTask
  <2>4. \A u \in Threads : ~Dispatching(u)'
    BY <2>1, <2>2, <2>3 DEF Dispatching
  <2> QED
    BY <2>4 DEF PassedAreBlocked
<1>35. ASSUME NEW w \in Workers, RemoveBlockedTask(w)
      PROVE  \A u \in Threads : PassedAreBlocked(u)'
  <2>1. \A u \in Threads : u # w => PassedAreBlocked(u)'
    BY <1>0, <1>35, PassedFrame DEF RemoveBlockedTask, TypeOK, PoolTypeOK, ThreadTypeOK
  <2>2. PassedAreBlocked(w)'
    BY <1>35 DEF PassedAreBlocked, Dispatching, RemoveBlockedTask, TypeOK, ThreadTypeOK
  <2> QED
    BY <2>1, <2>2
<1>36. ASSUME NEW w \in Workers, ReleaseWorker(w)
      PROVE  \A u \in Threads : PassedAreBlocked(u)'
  <2>1. \A u \in Threads : u # w => PassedAreBlocked(u)'
    BY <1>0, <1>36, PassedFrame DEF ReleaseWorker, TypeOK, PoolTypeOK, ThreadTypeOK
  <2>2. PassedAreBlocked(w)'
    BY <1>36 DEF PassedAreBlocked, Dispatching, ReleaseWorker, TypeOK, ThreadTypeOK
  <2> QED
    BY <2>1, <2>2
<1> QED
  BY <1>1, <1>2, <1>3, <1>4, <1>5, <1>6, <1>7, <1>8, <1>9, <1>10, <1>11, <1>12, <1>13,
    <1>14, <1>15, <1>16, <1>17, <1>18, <1>19, <1>20, <1>21, <1>22, <1>23, <1>24,
    <1>25, <1>26, <1>27, <1>28, <1>29, <1>30, <1>31, <1>32, <1>33, <1>34, <1>35, <1>36
  DEF DispatchingNext, PreparedNext, NoAbortNext, Next, Call, Direct, Proceed, Work,
    AreAllWorkersIdle

\* Every step keeps what the order rests on.
LEMMA OrderInvStep ==
  ASSUME OnlyOneWorker, OrderInv, [DispatchingNext]_vars
  PROVE  OrderInv'
<1>1. CASE UNCHANGED vars
  <2>1. IInv'
    BY <1>1, TypeOKStep, ThreadShapeStep, OneOwnerPerWorkerStep, OneOwnerPerBlockStep,
       OneRecordPerTaskStep, BlocksAnsweredStep
    DEF IInv, OrderInv
  <2> QED
    BY <1>1, <2>1
    DEF vars, OrderInv, NothingAborted, ScanFits, AsksWhileStopped, Asking, StaysOn,
        PassedAreBlocked, Dispatching, AllBlocked, ToVisit
<1>2. CASE DispatchingNext
  <2>1. PreparedNext /\ [Next]_vars
    BY <1>2 DEF DispatchingNext, PreparedNext, NoAbortNext
  <2>2. IInv'
    BY <2>1, TypeOKStep, ThreadShapeStep, OneOwnerPerWorkerStep, OneOwnerPerBlockStep,
       OneRecordPerTaskStep, BlocksAnsweredStep
    DEF IInv, OrderInv
  <2>3. NothingAborted' /\ (\A t \in Threads : ScanFits(t)') /\ AsksWhileStopped'
    BY <2>1, NothingAbortedStep, ScanFitsStep, AsksWhileStoppedStep DEF OrderInv, IInv
  <2>4. StaysOn'
    BY <1>2, StaysOnStep DEF OrderInv, IInv
  <2>5. CASE mDispatchingPermitted
    <3>1. \A t \in Threads : PassedAreBlocked(t)'
      BY <1>2, <2>5, PassedAreBlockedStep DEF OrderInv, IInv
    <3> QED
      BY <2>2, <2>3, <2>4, <3>1 DEF OrderInv
  <2>6. CASE ~mDispatchingPermitted
    <3>1. \A t \in Threads : ~Dispatching(t)
      BY <2>6 DEF OrderInv, StaysOn
    <3>2. \A t \in Threads : ~Dispatching(t)'
      <4>1. CASE ~mDispatchingPermitted'
        BY <2>4, <4>1 DEF StaysOn
      <4>2. CASE mDispatchingPermitted'
        <5>1. StartDispatching
          BY <2>1, <2>6, <4>2, OnlyStarted
        <5> QED
          BY <3>1, <5>1, ConstantsAssumption
          DEF StartDispatching, Dispatching, OrderInv, IInv, TypeOK, ThreadTypeOK,
              ConstantsAssumption
      <4> QED
        BY <4>1, <4>2
    <3>3. \A t \in Threads : PassedAreBlocked(t)'
      BY <3>2 DEF PassedAreBlocked
    <3> QED
      BY <2>2, <2>3, <2>4, <3>3 DEF OrderInv
  <2> QED
    BY <2>5, <2>6
<1> QED
  BY <1>1, <1>2

\* It holds before anything is registered.
LEMMA InitOrderInv == Init => OrderInv
<1> SUFFICES ASSUME Init
             PROVE  OrderInv
  OBVIOUS
<1>1. IInv /\ PreparedShape
  BY InitIInv, InitPreparedShape
<1>2. StaysOn /\ \A t \in Threads : PassedAreBlocked(t)
  BY DEF Init, StaysOn, PassedAreBlocked, Dispatching
<1> QED
  BY <1>1, <1>2 DEF OrderInv, PreparedShape

\* "Pools with higher priority will have their tasks dispatched first": with one worker
\* and dispatching left on, whatever the pools and their priorities, a task is given only
\* when every task of the earlier blocks is blocked.
THEOREM PrioritiesAreKept ==
  ASSUME OnlyOneWorker
  PROVE  Dispatched => HigherPriorityFirst
<1> DEFINE Given(t) == pc[t] = "give" /\ pc'[t] = "flag" =>
             \A p \in Pools : IsRegistered(p) /\ PriorityOf[p] < prio[t] =>
               \A i \in mTaskRecords[p] : mBlocked[i]
<1>1. ASSUME OrderInv, NEW t \in Threads
      PROVE  Given(t)
  <2> SUFFICES ASSUME pc[t] = "give", NEW p \in Pools, IsRegistered(p),
                      PriorityOf[p] < prio[t]
               PROVE  AllBlocked(p)
    BY DEF AllBlocked
  <2>1. Dispatching(t)
    BY <1>1 DEF OrderInv, IInv, ThreadShape, HandsFit, Dispatching
  <2>2. PriorityOf[p] \in Priorities
    BY ConstantsAssumption DEF ConstantsAssumption
  <2> QED
    BY <1>1, <2>1, <2>2 DEF OrderInv, PassedAreBlocked, IsRegistered
<1>2. OrderInv /\ [DispatchingNext]_vars => [\A t \in Threads : Given(t)]_vars
  BY <1>1
<1>3. OrderInv /\ [DispatchingNext]_vars => OrderInv'
  BY OrderInvStep
<1> QED
  BY InitOrderInv, <1>2, <1>3, PTL DEF Dispatched, HigherPriorityFirst

=============================================================================
