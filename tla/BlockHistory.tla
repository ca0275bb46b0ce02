---------------------------- MODULE BlockHistory ----------------------------
(***************************************************************************)
(* BlockStorage and users that keep to its rules: they use ids they were    *)
(* given, never the header block, and stop when open() or their header      *)
(* fails.  The history variables say what the users rely on.                *)
(***************************************************************************)
EXTENDS BlockStorage

CONSTANTS Spans,  \* how many ids users ask for at once
          NotStored

ASSUME SpansAssumption == Spans \subseteq Nat

VARIABLES
  stored,  \* the ids whose block was put and not disposed of
  saved,   \* what they held when the storage was last closed, or NotStored
  since    \* what has been put under each id since then

hvars == <<vars, stored, saved, since>>

Known == 1 .. NextId - 1
Span(id, n) == id .. id + n - 1

\* What get() comes to.
ReadBack(id) == IF Holds(lru, id) THEN lru[id].data ELSE file[id]
Readable == [i \in Id |-> IF i \in stored THEN ReadBack(i) ELSE NotStored]

\* The header block has been written by a close.
Sealed == file[HeaderId] \in HeaderBlock

HInit == /\ Init /\ stored = {}
         /\ saved = [i \in Id |-> NotStored] /\ since = [i \in Id |-> {}]

HAlloc(n) == AllocId(n) /\ UNCHANGED <<stored, saved, since>>

HDispose(id, n) ==
  /\ id \in Known /\ id + n <= NextId /\ Dispose(id, n)
  /\ stored' = stored \ Span(id, n)
  /\ UNCHANGED <<saved, since>>

HGet(id) == id # HeaderId /\ Get(id) /\ UNCHANGED <<stored, saved, since>>

HPut(id, d) ==
  /\ id \in Known /\ (Put(id, d) \/ Change(id, d))
  /\ stored' = stored \cup {id}
  /\ since' = [since EXCEPT ![id] = @ \cup {d}]
  /\ UNCHANGED saved

HClose == /\ Close
          /\ saved' = Readable /\ since' = [i \in Id |-> {}]
          /\ UNCHANGED stored

HCrash == /\ Crash
          /\ stored' = {i \in Id : saved[i] # NotStored}
          /\ UNCHANGED <<saved, since>>

HOther ==
  /\ \/ AllocUserHeader \/ Open \/ Renew
     \/ \E uid \in 1 .. Users, text \in Text : SetUserHeader(uid, text)
  /\ UNCHANGED <<stored, saved, since>>

HNext ==
  \/ \E n \in Spans : HAlloc(n) \/ \E id \in Id : HDispose(id, n)
  \/ \E id \in Id : HGet(id) \/ \E d \in Data : HPut(id, d)
  \/ HClose \/ HCrash \/ HOther

HSpec == HInit /\ [][HNext]_hvars

-----------------------------------------------------------------------------
\* A block that was stored has an id the storage knows (hasId): the counter,
\* whether it runs on in the same object or starts anew at the end of the
\* file, never comes to hand that id out again, neither after a close nor
\* after a crash (nextId, _updateCount, dispose).
StoredIdsKnown ==
  \A id \in stored : /\ id < NextId
                     /\ is_open \/ id < Count(file)
                     /\ saved[id] # NotStored => id < Count(file)

\* Once a storage has been closed, every later open() answers yes and has a
\* header for every user, whatever happened to the sessions in between
\* (readHeader, allocUserHeader).
SealedFileOpens == Sealed /\ is_open => usable
=============================================================================
