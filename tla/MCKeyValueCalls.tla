--------------------------- MODULE MCKeyValueCalls ---------------------------
(***************************************************************************)
(* KeyValueStore for TLC with every call its interface allows.              *)
(***************************************************************************)
EXTENDS KeyValueStore

CONSTANTS empty, short, long

MCLength == [v \in Value |-> CASE v = empty -> 0 [] v = short -> 2 [] v = long -> 5]
=============================================================================
