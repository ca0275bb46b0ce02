------------------------- MODULE KeyValueRefinement --------------------------
(***************************************************************************)
(* The key-value store, with the history of a careful caller, as an         *)
(* implementation of KeyValueMap.                                           *)
(***************************************************************************)
EXTENDS KeyValueHistory

CONSTANT Missing  \* no string

ASSUME MissingAssumption == NoKey \notin Key /\ \A v \in Value : Missing # Bytes(v)

\* The string stored for each key: as many bytes as its length field says,
\* from the end of that field on.
ContentsOfStore ==
  [k \in Key |-> IF Present(k)
                 THEN Stored(At(tree[k]) + LengthFieldSize, LengthAt(At(tree[k])))
                 ELSE Missing]

Promise == INSTANCE KeyValueMap
  WITH contents <- ContentsOfStore, String <- [v \in Value |-> Bytes(v)]

\* Whatever envelopes are reused, abandoned, renamed or carried over a reopening,
\* every get() returns the bytes of the last put(), and a stream the bytes its
\* key had, in order and each once: KeyValueStore implements KeyValueMap.
ImplementsKeyValueMap == Promise!Spec
=============================================================================
