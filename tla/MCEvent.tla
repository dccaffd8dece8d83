------------------------------- MODULE MCEvent -------------------------------
(* RhinoEvent for TLC: one event with two flags, the idle task and two or three
   application tasks. *)
EXTENDS RhinoEvent, TLC

CONSTANTS idle, t1, t2, t3, fa, fb

MCInitPri2 == (idle :> 2) @@ (t1 :> 1) @@ (t2 :> 0)
MCInitPri3 == (idle :> 3) @@ (t1 :> 2) @@ (t2 :> 1) @@ (t3 :> 0)

\* Requests that overlap: both flags, one of them for good, either of them.
AndBoth   == [flags |-> {fa, fb}, all |-> TRUE,  clear |-> FALSE]
ClearA    == [flags |-> {fa},     all |-> TRUE,  clear |-> TRUE]
ClearBoth == [flags |-> {fa, fb}, all |-> FALSE, clear |-> TRUE]

MCRequests  == {AndBoth, ClearA, ClearBoth}
MCRequests2 == {AndBoth, ClearBoth}
=============================================================================
