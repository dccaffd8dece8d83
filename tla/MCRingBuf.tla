------------------------------ MODULE MCRingBuf ------------------------------
(* RhinoRingBuf with bytes of two bits: lengths from 2 on take two bytes, from 4 on three. *)
EXTENDS RhinoRingBuf

MCBuffers == {[type |-> "DYN", blk_size |-> 5, end |-> 9], [type |-> "FIX", blk_size |-> 2, end |-> 6]}
MCMessages == {<<1>>, <<2, 3>>, <<3, 0>>, <<3, 2, 1>>, <<0, 1, 2, 3, 2>>}
=============================================================================
