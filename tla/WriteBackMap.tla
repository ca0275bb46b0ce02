---------------------------- MODULE WriteBackMap ----------------------------
(***************************************************************************)
(* What an LRUCache promises its caller, with the cache itself left out:   *)
(* a map whose contents reach a store behind it at times of its own        *)
(* choosing.  Reads see the last write, whatever was flushed or fetched in *)
(* between; a flush stores exactly the current contents; only an explicit  *)
(* discard (del, clear) may bring older contents back.                     *)
(***************************************************************************)
CONSTANTS Key, NoKey, Value, Blank, Null, Absent, Unread

VARIABLES
    current,  \* what a reader of the key finds
    durable,  \* what the store behind the map holds
    answer    \* the answer to the last operation

Answer(op, k, ok, dst) == [op |-> op, key |-> k, ok |-> ok, dst |-> dst]
NoAnswer == Answer("none", NoKey, TRUE, Absent)

Init == /\ durable \in [Key -> {Absent, Unread} \cup Value]
        /\ current = durable
        /\ answer = NoAnswer

\* The contents of the keys in S reach the store.
Flushed(S) ==
    [k \in Key |-> IF k \in S /\ current[k] \in Value THEN current[k]
                   ELSE durable[k]]

\* An empty pointer is never stored: flushing it forgets it.
Retained(S) ==
    [k \in Key |-> IF k \in S /\ current[k] = Null THEN durable[k]
                   ELSE current[k]]

\* An operation on key k may flush one other key to make room.
Displaced(k) == {{}} \cup {{j} : j \in Key \ {k}}

\* A reader by reference of a key with no contents gets an object all the
\* same: a blank one, or an empty pointer when the store has no such id.
Materialized(x) == CASE x = Unread -> Blank [] x = Absent -> Null [] OTHER -> x

\* get() either fails, for a key without contents, or answers with the
\* current contents (dst is not assigned on the path that fetches).
Read(k) == \E S \in Displaced(k) :
    /\ durable' = Flushed(S)
    /\ current' = Retained(S)
    /\ \/ current[k] \in Value \cup {Null}
          /\ \E d \in {current[k], Absent} : answer' = Answer("get", k, TRUE, d)
       \/ current[k] \in {Absent, Unread} /\ answer' = Answer("get", k, FALSE, Absent)

ReadRef(k) == \E S \in Displaced(k) :
    /\ durable' = Flushed(S)
    /\ current' = [Retained(S) EXCEPT ![k] = Materialized(current[k])]
    /\ answer' = Answer("sub", k, TRUE, Materialized(current[k]))

Write(k) == \E v \in Value, S \in Displaced(k) :
    /\ durable' = Flushed(S)
    /\ current' = [Retained(S) EXCEPT ![k] = v]
    /\ answer' = Answer("set", k, TRUE, Absent)

\* Writing through the reference just read.
WriteRef == \E v \in Value :
    /\ answer.op = "sub"
    /\ current' = [current EXCEPT ![answer.key] = v]
    /\ answer' = NoAnswer
    /\ UNCHANGED durable

Flush == \E S \in SUBSET Key :
    /\ durable' = Flushed(S)
    /\ current' = Retained(S)
    /\ answer' = NoAnswer

\* Remove a key and hand out its contents, having stored them.
TakeOut == \E k \in Key :
    /\ durable' = Flushed({k})
    /\ current' = Retained({k})
    /\ current[k] \in Value \cup {Null}
    /\ answer' = Answer("pop", k, TRUE, current[k])

TakeNothing ==
    /\ current = durable
    /\ answer' = Answer("pop", NoKey, FALSE, Absent)
    /\ UNCHANGED <<current, durable>>

\* del: the contents not yet stored are lost, nothing else changes.
Discard(k) ==
    /\ current' = [current EXCEPT ![k] = durable[k]]
    /\ \E found \in BOOLEAN :
          /\ ~found => current[k] = durable[k]
          /\ answer' = Answer("del", k, found, Absent)
    /\ UNCHANGED durable

DiscardAll ==
    /\ current' = durable
    /\ answer' = NoAnswer
    /\ UNCHANGED durable

\* The store grows on its own; a key the map holds contents for keeps them.
Grow(k) ==
    /\ \/ durable[k] = Absent /\ durable' = [durable EXCEPT ![k] = Unread]
       \/ durable[k] = Unread /\ durable' = [durable EXCEPT ![k] = Blank]
    /\ current' = IF current[k] \in Value \cup {Null} THEN current
                  ELSE [current EXCEPT ![k] = durable'[k]]
    /\ UNCHANGED answer

Next ==
    \/ \E k \in Key : Read(k) \/ ReadRef(k) \/ Write(k) \/ Discard(k) \/ Grow(k)
    \/ WriteRef \/ Flush \/ TakeOut \/ TakeNothing \/ DiscardAll

Spec == Init /\ [][Next]_<<current, durable, answer>>
=============================================================================
