------------------------------- MODULE MCQueue -------------------------------
(* RhinoQueue for TLC: one queue, the idle task and two or three application
   tasks, and messages that are interchangeable. *)
EXTENDS RhinoQueue, TLC

CONSTANTS idle, t1, t2, t3

MCInitPri2 == (idle :> 2) @@ (t1 :> 1) @@ (t2 :> 0)
MCInitPri3 == (idle :> 3) @@ (t1 :> 2) @@ (t2 :> 1) @@ (t3 :> 0)

Symmetry == Permutations(Msg)
=============================================================================
