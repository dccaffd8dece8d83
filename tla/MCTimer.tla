------------------------------- MODULE MCTimer -------------------------------
(* Instances of RhinoTimer. *)
EXTENDS RhinoTimer, TLC

CONSTANTS t1, t2

\* A timer that fires once, and a periodic one.
TwoSettings == {<<2, 0>>, <<1, 2>>}
=============================================================================
