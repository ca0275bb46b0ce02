----------------------------- MODULE MCLRUCache -----------------------------
(***************************************************************************)
(* Instance of LRUCache, with its refinement of WriteBackMap, for TLC.     *)
(***************************************************************************)
EXTENDS LRURefinement, TLC

KeySymmetry == Permutations(Key)
=============================================================================
