--------------------------- MODULE MCKeyValueStore ---------------------------
(***************************************************************************)
(* KeyValueStore for TLC: values of three lengths, one that fills half a    *)
(* block, one that fills a block and one that needs two.                    *)
(***************************************************************************)
EXTENDS KeyValueRefinement, TLC

CONSTANTS empty, short, long

MCLength == [v \in Value |-> CASE v = empty -> 0 [] v = short -> 2 [] v = long -> 5]

KeySymmetry == Permutations(Key)
=============================================================================
