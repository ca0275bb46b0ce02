--------------------------- MODULE MCBlockStorage ---------------------------
(* The block storage for TLC.                                               *)
EXTENDS BlockRefinement, TLC

DataSymmetry == Permutations(Data)
=============================================================================
