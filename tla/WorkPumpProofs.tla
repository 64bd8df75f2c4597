----------------------------- MODULE WorkPumpProofs -----------------------------
(***************************************************************************)
(* Proofs about WorkPump, for any number of users, threads and items.      *)
(***************************************************************************)
EXTENDS WorkPump, TLAPS

\* There is one thread at most, the one that can be joined
OneThread ==
    /\ \A t \in Threads : at[t] # "none" => thread = t
    /\ thread # NoThread => at[thread] # "none"

\* It holds an item while it executes it, and nothing else does
HeldItems ==
    \A t \in Threads : /\ at[t] = "execute" => held[t] # NoItem
                       /\ held[t] # NoItem => at[t] \in {"execute", "gone"}

\* Whoever stops the pump holds mThreadMutex, and there is a thread to stop
Stopping ==
    /\ \A u \in Users : pc[u] \in {"stopWake", "join"} => owner = u
    /\ owner # NoUser => Started

PumpInv == TypeOK /\ OneThread /\ HeldItems /\ Stopping /\ NeverPopsNothing

USE PumpAssumption DEF Started, controls, Places

------------------------------------------------------------------------------
(* The invariant holds at the start. *)
LEMMA InitPumpInv == Init => PumpInv
  <1> SUFFICES ASSUME Init PROVE PumpInv
    OBVIOUS
  <1>1. TypeOK
    <2>1. <<>> \in Seq(Items)
      OBVIOUS
    <2>2. items \in Seq(Items) /\ done \in Seq(Items)
      BY <2>1 DEF Init
    <2>3. at \in [Threads -> Places] /\ held \in [Threads -> Items \cup {NoItem}]
      BY DEF Init
    <2>4. pc \in [Users -> {"out", "assign", "look", "init", "stopWake", "join", "wake", "gone"}]
      BY DEF Init
    <2> QED
      BY <2>2, <2>3, <2>4 DEF Init, TypeOK
  <1>2. OneThread /\ HeldItems /\ Stopping /\ NeverPopsNothing
    BY DEF Init, OneThread, HeldItems, Stopping, NeverPopsNothing
  <1> QED
    BY <1>1, <1>2 DEF PumpInv

(* The end of the process leaves what the invariant is about. *)
LEMMA CrashKeepsPumpInv ==
  ASSUME PumpInv, Crash
  PROVE  PumpInv'
  BY DEF PumpInv, Crash, TypeOK, OneThread, HeldItems, Stopping, NeverPopsNothing

(* Every step keeps it: one action at a time, the users' first. *)
LEMMA UserKeepsPumpInv ==
  ASSUME PumpInv, NEW u \in Users,
         \/ TakeWork(u) \/ AssignWork(u) \/ LookAtThread(u) \/ SetCallbacks(u)
         \/ Start(u) \/ Stop(u) \/ StopWake(u)
         \/ Join(u) \/ Wake(u) \/ \E i \in Items : AddWorkItem(u, i)
  PROVE  PumpInv'
  <1> USE DEF PumpInv
  <1>1. CASE TakeWork(u)
    <2>1. CASE Crash
      BY <2>1, CrashKeepsPumpInv
    <2>2. CASE ~Crash
      BY <1>1, <2>2 DEF TakeWork, TypeOK, OneThread, HeldItems, Stopping, NeverPopsNothing
    <2> QED
      BY <2>1, <2>2
  <1>2. CASE AssignWork(u) \/ LookAtThread(u)
    BY <1>2 DEF AssignWork, LookAtThread, TypeOK, OneThread, HeldItems, Stopping, NeverPopsNothing
  <1>3. CASE SetCallbacks(u)
    BY <1>3 DEF SetCallbacks, TypeOK, OneThread, HeldItems, Stopping, NeverPopsNothing
  <1>4. CASE Start(u)
    BY <1>4 DEF Start, TypeOK, OneThread, HeldItems, Stopping, NeverPopsNothing
  <1>5. CASE Stop(u)
    BY <1>5 DEF Stop, TypeOK, OneThread, HeldItems, Stopping, NeverPopsNothing
  <1>6. CASE StopWake(u)
    BY <1>6 DEF StopWake, Signal, TypeOK, OneThread, HeldItems, Stopping, NeverPopsNothing
  <1>7. CASE Join(u)
    BY <1>7 DEF Join, TypeOK, OneThread, HeldItems, Stopping, NeverPopsNothing
  <1>8. CASE Wake(u)
    BY <1>8 DEF Wake, Signal, TypeOK, OneThread, HeldItems, Stopping, NeverPopsNothing
  <1>9. CASE \E i \in Items : AddWorkItem(u, i)
    BY <1>9 DEF AddWorkItem, TypeOK, OneThread, HeldItems, Stopping, NeverPopsNothing
  <1> QED
    BY <1>1, <1>3, <1>4, <1>5, <1>6, <1>7, <1>8, <1>9, <1>2

LEMMA ThreadKeepsPumpInv ==
  ASSUME PumpInv, NEW t \in Threads, WorkThread(t) \/ SafetyWakeup(t)
  PROVE  PumpInv'
  <1> USE DEF PumpInv, Goto
  <1>1. CASE LockCallbacks(t)
    BY <1>1 DEF LockCallbacks, TypeOK, OneThread, HeldItems, Stopping, NeverPopsNothing
  <1>2. CASE ShouldForceTerminate(t)
    BY <1>2 DEF ShouldForceTerminate, TypeOK, OneThread, HeldItems, Stopping, NeverPopsNothing
  <1>3. CASE HasWork(t)
    BY <1>3 DEF HasWork, TypeOK, OneThread, HeldItems, Stopping, NeverPopsNothing
  <1>4. CASE Pop(t)
    BY <1>4 DEF Pop, TypeOK, OneThread, HeldItems, Stopping, NeverPopsNothing
  <1>5. CASE Execute(t)
    <2>1. CASE Crash
      BY <2>1, CrashKeepsPumpInv
    <2>2. CASE ~Crash
      <3>1. /\ at[t] = "execute" /\ done' = Append(done, held[t])
            /\ held' = [held EXCEPT ![t] = NoItem] /\ at' = [at EXCEPT ![t] = "check"]
            /\ UNCHANGED <<controls, items, pc>>
        BY <1>5, <2>2 DEF Execute
      <3>2. held[t] \in Items
        BY <3>1 DEF TypeOK, HeldItems
      <3>3. done' \in Seq(Items)
        BY <3>1, <3>2 DEF TypeOK
      <3>4. TypeOK'
        BY <3>1, <3>3 DEF TypeOK
      <3> QED
        BY <3>1, <3>4 DEF TypeOK, OneThread, HeldItems, Stopping, NeverPopsNothing
    <2> QED
      BY <2>1, <2>2
  <1>6. CASE WaitForWake(t)
    BY <1>6 DEF WaitForWake, TypeOK, OneThread, HeldItems, Stopping, NeverPopsNothing
  <1>7. CASE SafetyWakeup(t)
    BY <1>7 DEF SafetyWakeup, TypeOK, OneThread, HeldItems, Stopping, NeverPopsNothing
  <1> QED
    BY <1>1, <1>2, <1>3, <1>4, <1>5, <1>6, <1>7 DEF WorkThread

LEMMA NextKeepsPumpInv == PumpInv /\ [Next]_vars => PumpInv'
  <1> SUFFICES ASSUME PumpInv, [Next]_vars PROVE PumpInv'
    OBVIOUS
  <1>1. CASE UNCHANGED vars
    BY <1>1 DEF vars, PumpInv, TypeOK, OneThread, HeldItems, Stopping, NeverPopsNothing
  <1>2. CASE Next /\ ~UNCHANGED vars
    BY <1>2, UserKeepsPumpInv, ThreadKeepsPumpInv DEF Next
  <1> QED
    BY <1>1, <1>2

(* The inductive invariant: one thread, which holds what it executes, and one   *)
(* who stops it (AsyncThread's mThreadMutex and mThread).                       *)
THEOREM PumpInvariant == Spec => []PumpInv
  BY InitPumpInv, NextKeepsPumpInv, PTL DEF Spec

------------------------------------------------------------------------------
(* The variables keep their types. *)
THEOREM PumpTypes == Spec => []TypeOK
  <1>1. PumpInv => TypeOK
    BY DEF PumpInv
  <1> QED
    BY <1>1, PumpInvariant, PTL

(* DoWork never pops from an empty queue, whoever stops and starts the pump.    *)
THEOREM PopsSomething == Spec => []NeverPopsNothing
  <1>1. PumpInv => NeverPopsNothing
    BY DEF PumpInv
  <1> QED
    BY <1>1, PumpInvariant, PTL

(* AsyncThread's Init never exchanges the callbacks of its thread while that     *)
(* runs.  The pump's own callback has no such guard (WorkStays).                 *)
THEOREM CallbacksAreSafe == Spec => CallbacksStay
  <1>1. [Next]_vars => (ReadsCallbacks # {} => callbacks' = callbacks) \/ UNCHANGED vars
    BY DEF Next, vars, TakeWork, AssignWork, LookAtThread, Crash, SetCallbacks, Start, Stop, StopWake, Join, AddWorkItem,
           Wake, WorkThread, LockCallbacks, ShouldForceTerminate, HasWork, Pop, Execute,
           WaitForWake, SafetyWakeup
  <1> QED
    BY <1>1, PTL DEF Spec, CallbacksStay

------------------------------------------------------------------------------
(* The pump's steps are steps of the queue. *)
LEMMA UserSteps ==
  ASSUME PumpInv, NEW u \in Users,
         \/ TakeWork(u) \/ AssignWork(u) \/ LookAtThread(u) \/ SetCallbacks(u)
         \/ Start(u) \/ Stop(u) \/ StopWake(u)
         \/ Join(u) \/ Wake(u) \/ \E i \in Items : AddWorkItem(u, i)
  PROVE  [Queue!Next]_(Queue!vars)
  <1> USE DEF Queue!vars, Queue!Next
  <1>1. CASE TakeWork(u) \/ AssignWork(u) \/ LookAtThread(u) \/ SetCallbacks(u) \/ Stop(u)
    BY <1>1 DEF TakeWork, AssignWork, LookAtThread, Crash, SetCallbacks, Stop
  <1>2. CASE StopWake(u) \/ Wake(u)
    BY <1>2 DEF StopWake, Wake
  <1>3. CASE Start(u)
    BY <1>3 DEF Start, PumpInv, TypeOK, HeldItems, Queue!Open
  <1>4. CASE Join(u)
    BY <1>4 DEF Join, PumpInv, TypeOK, Stopping, HeldItems, Queue!Close
  <1>5. CASE \E i \in Items : AddWorkItem(u, i)
    BY <1>5 DEF AddWorkItem, Queue!Add
  <1> QED
    BY <1>1, <1>2, <1>3, <1>4, <1>5

LEMMA ThreadSteps ==
  ASSUME PumpInv, NEW t \in Threads, WorkThread(t) \/ SafetyWakeup(t)
  PROVE  [Queue!Next]_(Queue!vars)
  <1> USE DEF Queue!vars, Queue!Next
  <1>1. CASE LockCallbacks(t) \/ ShouldForceTerminate(t) \/ HasWork(t) \/ WaitForWake(t)
             \/ SafetyWakeup(t)
    BY <1>1 DEF LockCallbacks, ShouldForceTerminate, HasWork, WaitForWake, SafetyWakeup
  <1>2. CASE Pop(t)
    <2>1. thread = t /\ held[t] = NoItem
      BY <1>2 DEF Pop, PumpInv, OneThread, HeldItems
    <2> QED
      BY <1>2, <2>1 DEF Pop, Goto, PumpInv, TypeOK, Queue!Take
  <1>3. CASE Execute(t)
    <2>1. thread = t /\ held[t] # NoItem
      BY <1>3 DEF Execute, PumpInv, OneThread, HeldItems
    <2> QED
      BY <1>3, <2>1 DEF Execute, Crash, Goto, PumpInv, TypeOK, Queue!Finish
  <1> QED
    BY <1>1, <1>2, <1>3 DEF WorkThread

(* The pump implements the queue: items are worked on once, in order, only while *)
(* it is started, and a stop returns between two of them.                        *)
THEOREM PumpIsQueue == Spec => ImplementsQueue
  <1>1. Init => Queue!Init
    BY DEF Init, Queue!Init
  <1>2. PumpInv /\ [Next]_vars => [Queue!Next]_(Queue!vars)
    <2> SUFFICES ASSUME PumpInv, [Next]_vars PROVE [Queue!Next]_(Queue!vars)
      OBVIOUS
    <2>1. CASE UNCHANGED vars
      BY <2>1 DEF vars, Queue!vars
    <2>2. CASE Next /\ ~UNCHANGED vars
      BY <2>2, UserSteps, ThreadSteps DEF Next
    <2> QED
      BY <2>1, <2>2
  <1> QED
    BY <1>1, <1>2, PumpInvariant, PTL DEF Spec, ImplementsQueue, Queue!Spec

================================================================================
