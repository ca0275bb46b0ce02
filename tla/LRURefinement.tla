--------------------------- MODULE LRURefinement ----------------------------
(***************************************************************************)
(* LRUCache as an implementation of WriteBackMap.                          *)
(***************************************************************************)
EXTENDS LRUCache

\* A reader finds the entry of cache c, or else what store b behind it has.
View(c, b) == [k \in Key |-> IF Cached(c, k) THEN c.map[k] ELSE b[k]]

Abstract == INSTANCE WriteBackMap WITH
    current <- View(cache, backing),
    durable <- backing,
    answer  <- result

\* The cache is invisible: get, set, operator[], del, evict, pop and clear are
\* the operations of a map that writes back, and no eviction, refresh or L1
\* hit loses or resurrects contents.
ImplementsWriteBackMap == Abstract!Spec
=============================================================================
