------------------------------ MODULE SortedMap ------------------------------
(***************************************************************************)
(* What a B+tree promises its callers: a map from keys to values, on which *)
(* one operation at a time is requested, takes effect once, atomically,    *)
(* and answers what it found.                                              *)
(***************************************************************************)
CONSTANTS Key, NoKey, Value, NoValue

VARIABLES
    contents,   \* the value of every key, NoValue for a key that is absent
    request,    \* the operation requested, kind "idle" when there is none
    answer      \* the last answer

vars == <<contents, request, answer>>

NoRequest == [kind |-> "idle", key |-> NoKey, value |-> NoValue]
NoAnswer  == [kind |-> "idle", key |-> NoKey, found |-> FALSE, value |-> NoValue]

Init == /\ contents = [k \in Key |-> NoValue]
        /\ request = NoRequest
        /\ answer = NoAnswer

Present(k) == contents[k] # NoValue

Request(kind, k, v) ==
    /\ request = NoRequest
    /\ request' = [kind |-> kind, key |-> k, value |-> v]
    /\ UNCHANGED <<contents, answer>>

Reply(v) ==
    /\ request' = NoRequest
    /\ answer' = [kind |-> request.kind, key |-> request.key,
                  found |-> Present(request.key), value |-> v]

Find == /\ request.kind = "search"
        /\ Reply(contents[request.key])
        /\ UNCHANGED contents

Store == /\ request.kind = "store"
         /\ contents' = [contents EXCEPT ![request.key] = request.value]
         /\ Reply(request.value)

Remove == /\ request.kind = "remove"
          /\ contents' = [contents EXCEPT ![request.key] = NoValue]
          /\ Reply(NoValue)

Next == \/ \E k \in Key : \/ Request("search", k, NoValue)
                          \/ Request("remove", k, NoValue)
                          \/ \E v \in Value : Request("store", k, v)
        \/ Find \/ Store \/ Remove

Spec == Init /\ [][Next]_vars
=============================================================================
