------------------------------ MODULE MCKvMgr ------------------------------
(* KvMgr with its symmetry: it treats all keys, all values and all tasks of *)
(* one priority alike.                                                      *)
EXTENDS KvMgr, TLC

Symmetry == Permutations(Keys) \cup Permutations(Vals) \cup Permutations(Tasks \ Low)
=============================================================================
