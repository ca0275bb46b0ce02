------------------------------ MODULE MCNodes -------------------------------
(***************************************************************************)
(* BTreeFileStorage on small instances.                                     *)
(***************************************************************************)
EXTENDS BTreeFileStorage, TLC

IdSymmetry == Permutations(Id)
=============================================================================
