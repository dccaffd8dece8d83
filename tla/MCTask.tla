------------------------------- MODULE MCTask --------------------------------
(* RhinoTask for TLC: the idle task and two application tasks that start at
   different priorities and may be moved to the same one. *)
EXTENDS RhinoTask, TLC

CONSTANTS idle, t1, t2

MCInitPri2 == (idle :> 2) @@ (t1 :> 1) @@ (t2 :> 0)
=============================================================================
