------------------------------ MODULE MCBTree ------------------------------
(* BTree with nodes of 3 keys (MAX_KEYS 127 in the code), so that the root  *)
(* fills, splits and is merged with five keys.                              *)
EXTENDS BTree

Symmetry == Permutations(Values)
=============================================================================
