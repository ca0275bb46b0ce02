--------------------------- MODULE MCBTreeStorage ---------------------------
(***************************************************************************)
(* BTreeStorage on small instances.                                         *)
(***************************************************************************)
EXTENDS StorageHistory, TLC

CONSTANT Other

\* The storages on the file that Other names have another degree.
MCB == [f \in File |-> IF f \in Other THEN 5 ELSE 4]

TreeSymmetry == Permutations(Tree) \cup Permutations(Memory)
                \cup Permutations(File \ Other)
=============================================================================
