------------------------------- MODULE MCMutex -------------------------------
(* RhinoMutex for TLC: two mutexes, the idle task and two or three application
   tasks, so that chains of owners and deadlocks are reached. *)
EXTENDS RhinoMutex, TLC

CONSTANTS idle, t1, t2, t3, ma, mb

MCInitPri2 == (idle :> 2) @@ (t1 :> 1) @@ (t2 :> 0)
MCInitPri3 == (idle :> 3) @@ (t1 :> 2) @@ (t2 :> 1) @@ (t3 :> 0)

\* The mutexes are interchangeable.
MutexSymmetry == Permutations({ma, mb})
=============================================================================
