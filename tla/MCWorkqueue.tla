----------------------------- MODULE MCWorkqueue -----------------------------
(* Instances of RhinoWorkqueue. *)
EXTENDS RhinoWorkqueue
CONSTANTS w1, w2, q1, q2, c1, c2
=============================================================================
