--------------------------- MODULE MCTaskScheduler ---------------------------
(***************************************************************************)
(* TLC instances of TaskScheduler.                                         *)
(***************************************************************************)
EXTENDS TaskScheduler, TLC

CONSTANTS c1, c2, p1, p2, p3

OneWorker == 1 .. 1
TwoWorkers == 1 .. 2
OnePool == p1 :> 1
ThreePools == (p1 :> 1) @@ (p2 :> 1) @@ (p3 :> 2)

-----------------------------------------------------------------------------
(* Dispatching left on, and tasks that may go on forever.                  *)

DispatchingSpec ==
  /\ Dispatched
  /\ \A t \in Threads : WF_vars(Proceed(t))
  /\ \A w \in Workers : WF_vars(Work(w))

=============================================================================
