-------------------------------- MODULE MCSem --------------------------------
(* RhinoSem for TLC: one semaphore and the idle task with two or three
   application tasks. *)
EXTENDS RhinoSem, TLC

CONSTANTS idle, t1, t2, t3

MCInitPri2 == (idle :> 2) @@ (t1 :> 1) @@ (t2 :> 0)
MCInitPri3 == (idle :> 3) @@ (t1 :> 2) @@ (t2 :> 1) @@ (t3 :> 0)
=============================================================================
