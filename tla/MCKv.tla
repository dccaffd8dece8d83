-------------------------------- MODULE MCKv ---------------------------------
(* Instances of KvStore. *)
EXTENDS KvStore, TLC

CONSTANTS t1, t2, g1, g2, ka, kb, kc, v1, v2

AllKeys == {Key}
NoGroups == {}
TaskSymmetry == Permutations(Task) \cup Permutations(Key) \cup Permutations(Val)
KeySymmetry == Permutations(Key) \cup Permutations(Val)
=============================================================================
