--------------------------- MODULE DurableBlocks ---------------------------
(***************************************************************************)
(* What a block storage promises, with ids, cache and file left out: blocks *)
(* are what was last stored in them, and closing makes blocks and headers   *)
(* permanent together.  A program that ends without closing finds the       *)
(* headers of the last close, and each block either as it was then or as    *)
(* something stored since, every block for itself.                          *)
(***************************************************************************)
CONSTANTS Id, Data, NotStored, NoHeader, Headers

VARIABLES
  contents,     \* the block stored under each id
  header,       \* the texts of the users
  saved,        \* the contents at the last close
  saved_header, \* the texts at the last close
  since         \* what has been stored under each id since then

vars == <<contents, header, saved, saved_header, since>>

Nothing == [i \in Id |-> NotStored]
NothingSince == [i \in Id |-> {}]

Init == /\ contents = Nothing /\ saved = Nothing /\ since = NothingSince
        /\ header = NoHeader /\ saved_header = NoHeader

Store(id, d) ==
  /\ header # NoHeader
  /\ contents' = [contents EXCEPT ![id] = d]
  /\ since' = [since EXCEPT ![id] = @ \cup {d}]
  /\ UNCHANGED <<header, saved, saved_header>>

Forget(ids) ==
  /\ contents' = [i \in Id |-> IF i \in ids THEN NotStored ELSE contents[i]]
  /\ UNCHANGED <<header, saved, saved_header, since>>

\* Users set their texts; the first open() of what was never closed finds none,
\* or none that is theirs.
SetHeader(h) == /\ header # NoHeader \/ saved_header = NoHeader
                /\ header' = h
                /\ UNCHANGED <<contents, saved, saved_header, since>>

Close ==
  /\ header # NoHeader
  /\ saved' = contents /\ saved_header' = header /\ since' = NothingSince
  /\ header' = NoHeader
  /\ UNCHANGED contents

\* Opening brings the headers back as they were closed.
Open == /\ header = NoHeader /\ header' = saved_header
        /\ UNCHANGED <<contents, saved, saved_header, since>>

Crash ==
  /\ contents' \in [Id -> Data \cup {NotStored}]
  /\ \A i \in Id : IF saved[i] = NotStored THEN contents'[i] = NotStored
                   ELSE contents'[i] \in {saved[i]} \cup since[i]
  /\ header' = NoHeader
  /\ UNCHANGED <<saved, saved_header, since>>

Next ==
  \/ \E id \in Id, d \in Data : Store(id, d)
  \/ \E ids \in SUBSET Id : Forget(ids)
  \/ \E h \in Headers : SetHeader(h)
  \/ Close \/ Open \/ Crash

Spec == Init /\ [][Next]_vars
=============================================================================
