------------------------------ MODULE MCBTree -------------------------------
(***************************************************************************)
(* BTree and its refinement on small instances.                            *)
(***************************************************************************)
EXTENDS BTreeRefinement, TLC

Symmetry == Permutations(Value)
=============================================================================
