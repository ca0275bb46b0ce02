-------------------------- MODULE BTreeRefinement ---------------------------
(***************************************************************************)
(* BTree as an implementation of SortedMap.                                *)
(***************************************************************************)
EXTENDS BTree

\* What the tree stands for: the pairs in its leaves, the request that has not
\* been answered.  insert and update are one operation to the map.
Leaf(k) == CHOOSE id \in Leaves : Holds(id, k)
ValueIn(nd, k) == nd.value[CHOOSE i \in 0 .. nd.n - 1 : nd.key[i] = k]
Contents == [k \in Key |-> IF Contains(k) THEN ValueIn(nodes[Leaf(k)], k) ELSE NoValue]
Abstractly(kind) == IF kind \in {"insert", "update"} THEN "store" ELSE kind

Abstract == INSTANCE SortedMap WITH
    contents <- Contents,
    request  <- [kind |-> Abstractly(op.kind), key |-> op.key, value |-> op.value],
    answer   <- [result EXCEPT !.kind = Abstractly(@)]

\* The B+tree implements the sorted map: every operation takes effect at one
\* step, splits change nothing, and each answer is the map's.
ImplementsSortedMap == Abstract!Spec
=============================================================================
