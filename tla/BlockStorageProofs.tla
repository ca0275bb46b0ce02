-------------------------- MODULE BlockStorageProofs --------------------------
(***************************************************************************)
(* Proofs about BlockStorage and users that keep to its rules, for every    *)
(* number of blocks, users and entries in the cache: what a close or a       *)
(* crash leaves in the file.                                                *)
(*                                                                         *)
(* The file has no holes, so its length is the first id it does not have    *)
(* (CountOfPrefix).  What a call on the cache makes of file and cache is a   *)
(* Sequel of what they were; each helper of the model has a lemma that says *)
(* so, and the actions only cite those.  The second part proves that the     *)
(* block storage implements DurableBlocks.                                  *)
(***************************************************************************)
EXTENDS BlockRefinement, FiniteSetTheorems, TLAPS

Blocks == Contents \cup HeaderBlock
Files == [Id -> Blocks \cup {Beyond}]
Caches == [Id -> Entries \cup {Absent, NoBlock}]

There(f, id) == f[id] # Beyond

\* The file has no holes.
Prefix(f) == \A i, j \in Id : i < j /\ There(f, j) => There(f, i)

\* Its blocks or the cache have the block.
Safe(f, c, id) == Holds(c, id) \/ There(f, id)

\* A file and a cache as they are between calls: the header block is never in
\* the cache.
Fit(f, c) == f \in Files /\ Prefix(f) /\ c \in Caches /\ c[HeaderId] = Absent

\* File and cache as calls on f and c may leave them: nothing is lost, and the
\* header block stays as it is.
Sequel(r, f, c) ==
  /\ Fit(r.file, r.lru)
  /\ r.file[HeaderId] \in {f[HeaderId], Zero}
  /\ \A i \in Id : There(f, i) => There(r.file, i)
  /\ \A i \in Id : Safe(f, c, i) => Safe(r.file, r.lru, i)

-----------------------------------------------------------------------------
(***************************************************************************)
(* The file.                                                                *)
(***************************************************************************)

\* An id is below the length of the file just if the file has the block.
LEMMA CountOfPrefix ==
  ASSUME NEW f \in Files, Prefix(f)
  PROVE  /\ Count(f) \in 0 .. MaxId
         /\ \A i \in Id : i < Count(f) <=> There(f, i)
<1> USE BoundsAssumption DEF Id
<1> DEFINE P == {i \in Id : f[i] # Beyond}
<1>1. IsFiniteSet(P) /\ Cardinality(P) \in 0 .. MaxId
  <2>1. IsFiniteSet(Id) /\ Cardinality(Id) = MaxId
    BY FS_Interval
  <2> QED
    BY <2>1, FS_Subset, FS_CardinalityType
<1>2. ASSUME NEW i \in Id, There(f, i) PROVE i < Cardinality(P)
  <2>1. 0 .. i \subseteq P
    BY <1>2 DEF Prefix, There
  <2>2. Cardinality(0 .. i) = i + 1
    BY FS_Interval
  <2> HIDE DEF P
  <2>3. Cardinality(0 .. i) <= Cardinality(P)
    BY <1>1, <2>1, FS_Subset
  <2> QED
    BY <1>1, <2>2, <2>3
<1>3. ASSUME NEW i \in Id, ~There(f, i) PROVE ~(i < Cardinality(P))
  <2>1. P \subseteq 0 .. i - 1
    BY <1>3 DEF Prefix, There
  <2>2. IsFiniteSet(0 .. i - 1) /\ Cardinality(0 .. i - 1) = i
    BY FS_Interval
  <2> HIDE DEF P
  <2>3. Cardinality(P) <= Cardinality(0 .. i - 1)
    BY <2>1, <2>2, FS_Subset
  <2> QED
    BY <1>1, <2>2, <2>3
<1> QED
  BY <1>1, <1>2, <1>3 DEF Count

\* Writing a block leaves no hole, and changes the header block only if it is
\* the one, or from nothing to zeros.
LEMMA WriteOK ==
  ASSUME NEW f \in Files, Prefix(f), NEW id \in Id, NEW d \in Blocks
  PROVE  /\ Write(f, id, d) \in Files /\ Prefix(Write(f, id, d))
         /\ Write(f, id, d)[id] = d /\ There(Write(f, id, d), id)
         /\ \A i \in Id : There(f, i) => There(Write(f, id, d), i)
         /\ id # HeaderId => Write(f, id, d)[HeaderId] \in {f[HeaderId], Zero}
<1> USE BoundsAssumption, SentinelsAssumption DEF Id, Blocks, Contents, Files, HeaderId
<1> DEFINE w == Write(f, id, d)
<1>0. d # Beyond /\ Zero # Beyond
  OBVIOUS
<1>1. \A i \in Id : w[i] = IF i = id THEN d ELSE IF i < id /\ f[i] = Beyond THEN Zero ELSE f[i]
  BY DEF Write
<1>2. w \in Files
  BY <1>1 DEF Write
<1> HIDE DEF w
<1>3. w[id] = d /\ There(w, id)
  BY <1>0, <1>1 DEF There
<1>4. \A i \in Id : There(w, i) <=> There(f, i) \/ i <= id
  BY <1>0, <1>1 DEF There
<1>5. Prefix(w)
  BY <1>4 DEF Prefix
<1>6. id # HeaderId => w[HeaderId] \in {f[HeaderId], Zero}
  BY <1>1
<1> QED
  BY <1>2, <1>3, <1>4, <1>5, <1>6 DEF w

-----------------------------------------------------------------------------
(***************************************************************************)
(* The cache before it.                                                     *)
(***************************************************************************)

\* What the cache holds is the contents of a block.
LEMMA HeldData ==
  ASSUME NEW c \in Caches, NEW id \in Id, Holds(c, id)
  PROVE  c[id] \in Entries /\ c[id].data \in Blocks
BY DEF Caches, Entries, Blocks, Holds

\* An entry is one that the cache holds.
LEMMA EntryHeld ==
  ASSUME NEW d \in Blocks, NEW dirty \in BOOLEAN
  PROVE  Entry(d, dirty) \in Entries /\ Entry(d, dirty) \notin {Absent, NoBlock}
BY SentinelsAssumption DEF Entry, Entries, Blocks

\* Making room loses nothing: what goes from the cache goes to the file.
LEMMA RoomOK ==
  ASSUME NEW f, NEW c, Fit(f, c), NEW r \in Room(f, c)
  PROVE  Sequel(r, f, c) /\ \A i \in Id : r.lru[i] \in {c[i], Absent}
<1>1. CASE ~Full(c)
  <2>1. r.file = f /\ r.lru = c
    BY <1>1 DEF Room
  <2> QED
    BY <2>1 DEF Sequel, Fit
<1>2. CASE Full(c)
  <2>1. PICK v \in Id : /\ Cached(c, v)
                        /\ r = [file |-> WriteBack(f, c, v), lru |-> [c EXCEPT ![v] = Absent]]
    BY <1>2 DEF Room
  <2>2. v # HeaderId /\ r.file = WriteBack(f, c, v) /\ r.lru = [c EXCEPT ![v] = Absent]
    BY <2>1 DEF Cached, Fit
  <2>3. /\ r.lru \in Caches /\ r.lru[HeaderId] = Absent
        /\ \A i \in Id : r.lru[i] = IF i = v THEN Absent ELSE c[i]
    BY <2>1, <2>2, BoundsAssumption DEF Fit, Caches, Id, HeaderId
  <2>4. CASE ~Holds(c, v)
    <3>1. r.file = f
      BY <2>2, <2>4 DEF WriteBack
    <3>2. \A i \in Id : Holds(c, i) => Holds(r.lru, i)
      BY <2>3, <2>4 DEF Holds
    <3> QED
      BY <2>3, <3>1, <3>2 DEF Sequel, Fit, Safe
  <2>5. CASE Holds(c, v)
    <3>1. r.file = Write(f, v, c[v].data) /\ c[v].data \in Blocks
      BY <2>1, <2>2, <2>5, HeldData DEF WriteBack, Fit
    <3>2. /\ r.file \in Files /\ Prefix(r.file) /\ There(r.file, v)
          /\ \A i \in Id : There(f, i) => There(r.file, i)
          /\ r.file[HeaderId] \in {f[HeaderId], Zero}
      BY <2>2, <3>1, WriteOK DEF Fit
    <3>3. \A i \in Id : Holds(c, i) => i = v \/ Holds(r.lru, i)
      BY <2>3 DEF Holds
    <3> QED
      BY <2>3, <3>2, <3>3 DEF Sequel, Fit, Safe
  <2> QED
    BY <2>4, <2>5
<1> QED
  BY <1>1, <1>2

\* Asking the cache for a block loses nothing; unless the block is in the cache
\* before, what comes is there if its id was handed out.
LEMMA SubOK ==
  ASSUME NEW f, NEW c, Fit(f, c), NEW id \in Id, id # HeaderId, NEW next,
         NEW r \in Sub(f, c, id, next)
  PROVE  Sequel(r, f, c)
<1>1. CASE Cached(c, id)
  <2>1. r.file = f /\ r.lru = c
    BY <1>1 DEF Sub
  <2> QED
    BY <2>1 DEF Sequel, Fit
<1>2. CASE ~Cached(c, id)
  <2>1. PICK q \in Room(f, c) : r = [q EXCEPT !.lru[id] = Fetched(q.file, id, next)]
    BY <1>2 DEF Sub
  <2>2. Sequel(q, f, c) /\ q.lru[id] = Absent
    BY <1>2, <2>1, RoomOK DEF Cached
  <2>3. r.file = q.file /\ r.lru = [q.lru EXCEPT ![id] = Fetched(q.file, id, next)]
    BY <2>1 DEF Room
  <2>4. Fetched(q.file, id, next) \in Entries \cup {NoBlock}
    <3>1. q.file[id] \in Blocks \cup {Beyond} /\ Zero \in Blocks
      BY <2>2 DEF Sequel, Fit, Files, Blocks, Contents
    <3> QED
      BY <3>1, EntryHeld DEF Fetched
  <2> HIDE DEF Sequel
  <2>5. /\ r.lru \in Caches /\ r.lru[HeaderId] = q.lru[HeaderId]
        /\ \A i \in Id : i # id => r.lru[i] = q.lru[i]
    BY <2>2, <2>3, <2>4, BoundsAssumption DEF Sequel, Fit, Caches, Id, HeaderId
  <2>6. \A i \in Id : Holds(q.lru, i) => Holds(r.lru, i)
    BY <2>2, <2>5 DEF Holds
  <2> QED
    BY <2>2, <2>3, <2>5, <2>6 DEF Sequel, Fit, Safe
<1> QED
  BY <1>1, <1>2

\* The entry of a block is replaced by one with other data: nothing is lost, and
\* the cache holds the block.
LEMMA EnteredOK ==
  ASSUME NEW f, NEW c, NEW r, Sequel(r, f, c), NEW id \in Id, id # HeaderId,
         NEW e \in Entries, NEW q, q.file = r.file, q.lru = [r.lru EXCEPT ![id] = e]
  PROVE  Sequel(q, f, c) /\ Holds(q.lru, id)
<1>1. e \notin {Absent, NoBlock}
  BY SentinelsAssumption
<1>2. /\ q.lru \in Caches /\ q.lru[HeaderId] = r.lru[HeaderId]
      /\ \A i \in Id : q.lru[i] = IF i = id THEN e ELSE r.lru[i]
  BY BoundsAssumption DEF Sequel, Fit, Caches, Id, HeaderId
<1>3. Holds(q.lru, id) /\ \A i \in Id : Holds(r.lru, i) => Holds(q.lru, i)
  BY <1>1, <1>2 DEF Holds
<1> QED
  BY <1>2, <1>3 DEF Sequel, Fit, Safe

\* put(), with a block of its own or with the one from the cache.
LEMMA ReplacedOK ==
  ASSUME NEW f, NEW c, Fit(f, c), NEW id \in Id, id # HeaderId, NEW next, NEW d \in Data,
         NEW q \in Replaced(f, c, id, next, d)
  PROVE  Sequel(q, f, c) /\ Holds(q.lru, id)
<1>1. PICK r \in Sub(f, c, id, next) : q = [r EXCEPT !.lru[id] = Entry(d, FALSE)]
  BY DEF Replaced
<1>2. Sequel(r, f, c)
  BY SubOK
<1>3. Entry(d, FALSE) \in Entries
  BY EntryHeld DEF Blocks, Contents
<1>4. q.file = r.file /\ q.lru = [r.lru EXCEPT ![id] = Entry(d, FALSE)]
  BY <1>1 DEF Sub, Room
<1> QED
  BY <1>2, <1>3, <1>4, EnteredOK

\* put() of the block that the cache holds: it is changed where it is.
LEMMA ChangedOK ==
  ASSUME NEW f, NEW c, Fit(f, c), NEW id \in Id, id # HeaderId, NEW next, NEW d \in Data,
         NEW q \in Changed(f, c, id, next, d)
  PROVE  Sequel(q, f, c) /\ Holds(q.lru, id)
<1>1. PICK r \in Sub(f, c, id, next) : Holds(r.lru, id) /\ q = [r EXCEPT !.lru[id].data = d]
  BY DEF Changed
<1>2. Sequel(r, f, c)
  BY SubOK
<1> DEFINE e == [r.lru[id] EXCEPT !.data = d]
<1>3. e \in Entries
  <2>1. r.lru[id] \in Entries
    BY <1>1, <1>2, HeldData DEF Sequel, Fit
  <2> QED
    BY <2>1 DEF Entries, Contents
<1>4. q.file = r.file /\ q.lru = [r.lru EXCEPT ![id] = e]
  BY <1>1 DEF Sub, Room
<1> HIDE DEF e
<1> QED
  BY <1>2, <1>3, <1>4, EnteredOK

\* Closing: the header is in the file, and with it all that the cache held.
LEMMA ClosedFileOK ==
  ASSUME Fit(file, lru), Header(user_header) \in HeaderBlock
  PROVE  /\ ClosedFile \in Files /\ Prefix(ClosedFile)
         /\ ClosedFile[HeaderId] = Header(user_header)
         /\ \A i \in Id : Safe(file, lru, i) => There(ClosedFile, i)
<1> DEFINE w == Write(file, HeaderId, Header(user_header))
           a == AllWritten(w, lru)
<1>0. HeaderId \in Id
  BY BoundsAssumption DEF Id, HeaderId
<1>1. /\ w \in Files /\ Prefix(w) /\ w[HeaderId] = Header(user_header) /\ There(w, HeaderId)
      /\ \A i \in Id : There(file, i) => There(w, i)
  BY <1>0, WriteOK DEF Fit, Blocks
<1> HIDE DEF w
<1>2. \A i \in Id : a[i] = IF Holds(lru, i) THEN lru[i].data
                           ELSE IF w[i] = Beyond /\ (\E j \in Id : j > i /\ Holds(lru, j))
                           THEN Zero ELSE w[i]
  BY DEF AllWritten
<1>3. \A i \in Id : Holds(lru, i) => lru[i].data \in Blocks /\ lru[i].data # Beyond
  BY HeldData, SentinelsAssumption DEF Fit, Blocks
<1>4. Zero # Beyond /\ Zero \in Blocks
  BY SentinelsAssumption DEF Contents, Blocks
<1>5. a \in Files
  BY <1>1, <1>2, <1>3, <1>4 DEF AllWritten, Files
<1> HIDE DEF a
<1>6. \A i \in Id : There(a, i) <=> There(w, i) \/ \E j \in Id : j >= i /\ Holds(lru, j)
  BY <1>2, <1>3, <1>4 DEF There, Id
<1>7. Prefix(a)
  BY <1>1, <1>6 DEF Prefix, Id
<1>8. a[HeaderId] = Header(user_header)
  BY <1>0, <1>1, <1>2 DEF Fit, Holds, There
<1>9. \A i \in Id : Safe(file, lru, i) => There(a, i)
  BY <1>1, <1>6 DEF Safe, Id
<1> QED
  BY <1>5, <1>7, <1>8, <1>9 DEF ClosedFile, w, a

-----------------------------------------------------------------------------
(***************************************************************************)
(* The invariant.                                                           *)
(***************************************************************************)

\* A file has a header for every user, if it has a header at all.
HeadersThere == Sealed => Len(file[HeaderId].user_header) >= Users

\* What is stored has an id that was handed out, and is in the file when the
\* storage is closed, in the cache or the file otherwise.
StoredThere ==
  \A id \in stored : /\ id < NextId /\ Safe(file, lru, id)
                     /\ ~is_open => There(file, id)

SavedThere == \A id \in Id : saved[id] # NotStored => There(file, id)

IInv ==
  /\ TypeOK /\ Fit(file, lru) /\ stored \subseteq Id
  /\ ~exists => \A i \in Id : ~There(file, i)
  /\ is_open => claimed = Users /\ exists
  /\ HeadersThere /\ SealedFileOpens /\ StoredThere /\ SavedThere

\* The next id is one, or the bound.
LEMMA NextIdType == IInv => NextId \in 0 .. MaxId
<1> SUFFICES ASSUME IInv PROVE NextId \in 0 .. MaxId
  OBVIOUS
<1>1. Count(file) \in 0 .. MaxId
  BY CountOfPrefix DEF IInv, Fit
<1> QED
  BY <1>1 DEF IInv, TypeOK, NextId

\* The invariant says what the properties do.
LEMMA InvStored == IInv => StoredIdsKnown
<1> SUFFICES ASSUME IInv PROVE StoredIdsKnown
  OBVIOUS
<1>1. \A i \in Id : i < Count(file) <=> There(file, i)
  BY CountOfPrefix DEF IInv, Fit
<1> QED
  BY <1>1 DEF IInv, StoredThere, SavedThere, StoredIdsKnown

\* A storage that was never opened has no file.
LEMMA InitInv == HInit => IInv
<1> SUFFICES ASSUME HInit PROVE IInv
  OBVIOUS
<1> USE BoundsAssumption, SentinelsAssumption DEF HInit, Init, HeaderId
<1>1. TypeOK
  <2>1. file \in [Id -> Contents \cup HeaderBlock \cup {Beyond}]
    OBVIOUS
  <2>2. lru \in [Id -> Entries \cup {Absent, NoBlock}]
    BY DEF Empty
  <2>3. user_header \in Seq(Text \cup {NoText}) /\ claimed \in 0 .. Users
    OBVIOUS
  <2> QED
    BY <2>1, <2>2, <2>3 DEF TypeOK
<1>2. Fit(file, lru)
  BY <1>1 DEF TypeOK, Fit, Files, Blocks, Caches, Prefix, There, Empty, Id
<1>3. ~Sealed /\ \A i \in Id : ~There(file, i)
  BY DEF Sealed, There, Id
<1> QED
  BY <1>1, <1>2, <1>3 DEF IInv, HeadersThere, SealedFileOpens, StoredThere, SavedThere

\* Steps that leave file and cache alone.
LEMMA SessionInv ==
  ASSUME IInv, TypeOK', file' = file, lru' = lru, stored' \subseteq stored, saved' = saved,
         \A id \in stored' : id < NextId', is_open => is_open', exists => exists',
         is_open' => claimed' = Users /\ exists', SealedFileOpens'
  PROVE  IInv'
<1>1. Fit(file, lru)' /\ stored' \subseteq Id
  BY DEF IInv, Fit
<1>2. HeadersThere' /\ SavedThere'
  BY DEF IInv, HeadersThere, Sealed, SavedThere
<1>3. StoredThere'
  BY DEF IInv, StoredThere, Safe
<1>4. ~exists' => \A i \in Id : ~There(file', i)
  BY DEF IInv, TypeOK
<1> QED
  BY <1>1, <1>2, <1>3, <1>4 DEF IInv

\* The next id is kept where the counter and the file are.
LEMMA NextIdKept == UNCHANGED <<next_id, file>> => NextId' = NextId
BY DEF NextId, Count

-----------------------------------------------------------------------------
(***************************************************************************)
(* The actions.                                                             *)
(***************************************************************************)
\* A header more, while the storage is closed.
LEMMA AllocUserHeaderInv ==
  ASSUME IInv, AllocUserHeader, UNCHANGED <<stored, saved, since>> PROVE IInv'
<1> USE DEF AllocUserHeader
<1>1. TypeOK'
  <2>1. user_header' \in Seq(Text \cup {NoText}) /\ claimed' \in 0 .. Users
    BY BoundsAssumption DEF IInv, TypeOK
  <2> QED
    BY <2>1 DEF IInv, TypeOK
<1>2. NextId' = NextId
  BY NextIdKept
<1> QED
  BY <1>1, <1>2, SessionInv DEF IInv, StoredThere, SealedFileOpens

\* A file without blocks has nothing stored.
LEMMA CreateInv == ASSUME IInv, Create, UNCHANGED <<stored, saved, since>> PROVE IInv'
<1> USE DEF Create
<1>1. next_id' \in 0 .. MaxId /\ next_id' # NoId
  BY NextIdType, BoundsAssumption, SentinelsAssumption
<1>2. TypeOK'
  BY <1>1 DEF IInv, TypeOK
<1>3. stored = {}
  BY DEF IInv, StoredThere
<1> QED
  BY <1>2, <1>3, SessionInv DEF IInv, SealedFileOpens

\* A header that is there has a text for every user.
LEMMA OpenFileInv == ASSUME IInv, OpenFile, UNCHANGED <<stored, saved, since>> PROVE IInv'
<1> USE DEF OpenFile
<1>1. user_header' \in Seq(Text \cup {NoText})
  BY DEF TextsIn, HeaderBlock
<1>2. TypeOK'
  BY <1>1 DEF IInv, TypeOK
<1>3. Sealed => usable'
  <2> SUFFICES ASSUME Sealed PROVE usable'
    OBVIOUS
  <2>1. user_header' = file[HeaderId].user_header
    BY DEF Sealed, TextsIn
  <2> QED
    BY <2>1 DEF IInv, HeadersThere
<1>4. SealedFileOpens'
  BY <1>3 DEF SealedFileOpens, Sealed
<1>5. NextId' = NextId
  BY NextIdKept
<1> QED
  BY <1>2, <1>4, <1>5, SessionInv DEF IInv, StoredThere

\* Only a file that was never closed is empty.
LEMMA OpenEmptyFileInv ==
  ASSUME IInv, OpenEmptyFile, UNCHANGED <<stored, saved, since>> PROVE IInv'
<1> USE DEF OpenEmptyFile
<1>1. TypeOK'
  BY DEF IInv, TypeOK
<1>2. SealedFileOpens'
  BY SentinelsAssumption DEF SealedFileOpens, Sealed
<1>3. NextId' = NextId
  BY NextIdKept
<1> QED
  BY <1>1, <1>2, <1>3, SessionInv DEF IInv, StoredThere

\* A text changes, and not how many there are.
LEMMA SetUserHeaderInv ==
  ASSUME IInv, NEW uid \in 1 .. Users, NEW text \in Text, SetUserHeader(uid, text),
         UNCHANGED <<stored, saved, since>>
  PROVE  IInv'
<1> USE DEF SetUserHeader
<1>1. user_header' \in Seq(Text \cup {NoText})
  BY DEF IInv, TypeOK
<1>2. TypeOK'
  BY <1>1 DEF IInv, TypeOK
<1>3. NextId' = NextId
  BY NextIdKept
<1> QED
  BY <1>2, <1>3, SessionInv DEF IInv, StoredThere, SealedFileOpens, Sealed

\* New ids are above those that are stored.
LEMMA AllocInv == ASSUME IInv, NEW n \in Spans, HAlloc(n) PROVE IInv'
<1> USE DEF HAlloc, AllocId
<1>1. NextId \in Nat /\ n \in Nat /\ next_id' = NextId + n
  BY NextIdType, BoundsAssumption, SpansAssumption
<1>2. next_id' \in 0 .. MaxId /\ NextId' = NextId + n
  BY <1>1, BoundsAssumption, SentinelsAssumption DEF NextId
<1>3. TypeOK'
  BY <1>2 DEF IInv, TypeOK
<1>4. \A id \in stored : id < NextId'
  BY <1>1, <1>2 DEF IInv, StoredThere, Id
<1> QED
  BY <1>3, <1>4, SessionInv DEF IInv, SealedFileOpens, Sealed

\* Ids that are taken back are not stored any more.
LEMMA DisposeInv ==
  ASSUME IInv, NEW n \in Spans, NEW id \in Id, HDispose(id, n) PROVE IInv'
<1> USE DEF HDispose, Dispose
<1>1. /\ NextId \in 0 .. MaxId /\ n \in Nat /\ id \in Nat /\ MaxId \in Nat
      /\ stored' = stored \ (id .. id + n - 1)
  BY NextIdType, BoundsAssumption, SpansAssumption DEF Id, Span
<1>2. next_id' = (IF NextId = id + n THEN id ELSE NextId) /\ next_id' \in 0 .. MaxId
  BY <1>1
<1>3. NextId' = next_id'
  BY <1>1, <1>2, SentinelsAssumption DEF NextId
<1>4. TypeOK'
  BY <1>2 DEF IInv, TypeOK
<1>5. \A i \in stored' : i < NextId'
  BY <1>1, <1>2, <1>3 DEF IInv, StoredThere, Id
<1> QED
  BY <1>1, <1>4, <1>5, SessionInv DEF IInv, SealedFileOpens, Sealed

\* Calls on the cache.
LEMMA LeavesInv ==
  ASSUME IInv, NEW states, Leaves(states), \A r \in states : Sequel(r, file, lru),
         saved' = saved,
         stored' \subseteq stored \cup {i \in Id : i < NextId /\ Safe(file', lru', i)}
  PROVE  IInv'
<1>1. PICK r \in states : file' = r.file /\ lru' = r.lru
  BY DEF Leaves
<1>2. /\ Fit(file', lru') /\ file'[HeaderId] \in {file[HeaderId], Zero}
      /\ \A i \in Id : There(file, i) => There(file', i)
      /\ \A i \in Id : Safe(file, lru, i) => Safe(file', lru', i)
  BY <1>1 DEF Sequel
<1>3. /\ is_open /\ usable /\ next_id' = NextId
      /\ UNCHANGED <<exists, is_open, user_header, claimed, usable>>
  BY DEF Leaves
<1>4. next_id' \in 0 .. MaxId /\ NextId' = NextId
  BY <1>3, NextIdType, BoundsAssumption, SentinelsAssumption DEF NextId
<1>5. TypeOK'
  BY <1>2, <1>3, <1>4 DEF IInv, TypeOK, Fit, Files, Caches, Blocks
<1>6. HeadersThere'
  BY <1>2, SentinelsAssumption DEF IInv, HeadersThere, Sealed, Contents
<1>7. StoredThere'
  BY <1>2, <1>3, <1>4 DEF IInv, StoredThere
<1>8. SavedThere' /\ SealedFileOpens'
  BY <1>2, <1>3 DEF IInv, SavedThere, SealedFileOpens
<1> QED
  BY <1>2, <1>3, <1>5, <1>6, <1>7, <1>8 DEF IInv

\* Reading a block may write others.
LEMMA GetInv == ASSUME IInv, NEW id \in Id, HGet(id) PROVE IInv'
<1>1. \A r \in Sub(file, lru, id, NextId) : Sequel(r, file, lru)
  BY SubOK DEF IInv, HGet
<1> QED
  BY <1>1, LeavesInv DEF HGet, Get

\* What is put is in the cache, whatever had to leave it.
LEMMA PutInv == ASSUME IInv, NEW id \in Id, NEW d \in Data, HPut(id, d) PROVE IInv'
<1>1. id # HeaderId /\ id < NextId /\ stored' = stored \cup {id} /\ saved' = saved
  BY NextIdType, BoundsAssumption DEF HPut, Known, HeaderId
<1>2. ASSUME NEW states, Leaves(states),
             \A r \in states : Sequel(r, file, lru) /\ Holds(r.lru, id)
      PROVE  IInv'
  <2>1. Holds(lru', id)
    BY <1>2 DEF Leaves
  <2> QED
    BY <1>1, <1>2, <2>1, LeavesInv DEF Safe
<1>3. \A r \in Replaced(file, lru, id, NextId, d) : Sequel(r, file, lru) /\ Holds(r.lru, id)
  BY <1>1, ReplacedOK DEF IInv
<1>4. \A r \in Changed(file, lru, id, NextId, d) : Sequel(r, file, lru) /\ Holds(r.lru, id)
  BY <1>1, ChangedOK DEF IInv
<1> QED
  BY <1>2, <1>3, <1>4 DEF HPut, Put, Change

\* Closing puts into the file what was in the cache alone.
LEMMA CloseInv == ASSUME IInv, HClose PROVE IInv'
<1>1. /\ is_open /\ Len(user_header) >= claimed /\ file' = ClosedFile /\ ~is_open'
      /\ lru' = Empty /\ usable' = FALSE /\ is_open' = FALSE
      /\ UNCHANGED <<exists, next_id, user_header, claimed, stored>> /\ saved' = Readable
  BY DEF HClose, Close
<1>2. Header(user_header) \in HeaderBlock
  BY DEF IInv, TypeOK, Header, HeaderBlock
<1>3. /\ file' \in Files /\ Prefix(file') /\ file'[HeaderId] = Header(user_header)
      /\ \A i \in Id : Safe(file, lru, i) => There(file', i)
  BY <1>1, <1>2, ClosedFileOK DEF IInv
<1>4. lru' \in Caches /\ lru'[HeaderId] = Absent
  BY <1>1, BoundsAssumption DEF Empty, Caches, Id, HeaderId
<1>5. TypeOK'
  BY <1>1, <1>3, <1>4 DEF IInv, TypeOK, Files, Caches, Blocks
<1>6. HeadersThere' /\ SealedFileOpens'
  BY <1>1, <1>3 DEF IInv, HeadersThere, SealedFileOpens, Header
<1>7. StoredThere'
  <2>1. \A i \in stored : There(file', i)
    BY <1>3 DEF IInv, StoredThere
  <2>2. Count(file') \in 0 .. MaxId /\ \A i \in Id : i < Count(file') <=> There(file', i)
    BY <1>3, CountOfPrefix
  <2>3. \A i \in stored : i < NextId'
    <3>1. CASE next_id = NoId
      BY <1>1, <2>1, <2>2, <3>1 DEF IInv, NextId
    <3>2. CASE next_id # NoId
      BY <1>1, <3>2 DEF IInv, NextId, StoredThere
    <3> QED
      BY <3>1, <3>2
  <2> QED
    BY <1>1, <2>1, <2>3 DEF StoredThere, Safe
<1>8. SavedThere'
  BY <1>1, <1>3 DEF IInv, SavedThere, StoredThere, Readable
<1> QED
  BY <1>1, <1>3, <1>4, <1>5, <1>6, <1>7, <1>8 DEF IInv, Fit, Safe

\* A new object knows the ids of the blocks in the file.
LEMMA ConstructInv ==
  ASSUME IInv, Construct, UNCHANGED <<file, exists, saved>>, stored' \subseteq Id,
         \A i \in stored' : There(file, i)
  PROVE  IInv'
<1>1. lru' \in Caches /\ lru'[HeaderId] = Absent
  BY BoundsAssumption DEF Construct, Empty, Caches, Id, HeaderId
<1>2. TypeOK'
  <2>1. user_header' \in Seq(Text \cup {NoText}) /\ claimed' \in 0 .. Users
    BY BoundsAssumption DEF Construct
  <2> QED
    BY <1>1, <2>1 DEF Construct, IInv, TypeOK, Caches
<1>3. NextId' = Count(file) /\ \A i \in Id : i < Count(file) <=> There(file, i)
  BY CountOfPrefix DEF Construct, NextId, Count, IInv, Fit
<1>4. StoredThere' /\ SavedThere'
  BY <1>3 DEF IInv, StoredThere, SavedThere, Safe
<1>5. HeadersThere' /\ SealedFileOpens'
  BY DEF Construct, IInv, HeadersThere, SealedFileOpens, Sealed
<1> QED
  BY <1>1, <1>2, <1>4, <1>5 DEF Construct, IInv, Fit

\* Every step keeps the invariant.
LEMMA StepInv == IInv /\ [HNext]_hvars => IInv'
<1> SUFFICES ASSUME IInv, [HNext]_hvars PROVE IInv'
  OBVIOUS
<1>1. ASSUME NEW n \in Spans, HAlloc(n) PROVE IInv'
  BY <1>1, AllocInv
<1>2. ASSUME NEW n \in Spans, NEW id \in Id, HDispose(id, n) PROVE IInv'
  BY <1>2, DisposeInv
<1>3. ASSUME NEW id \in Id, HGet(id) PROVE IInv'
  BY <1>3, GetInv
<1>4. ASSUME NEW id \in Id, NEW d \in Data, HPut(id, d) PROVE IInv'
  BY <1>4, PutInv
<1>5. CASE HClose
  BY <1>5, CloseInv
<1>6. CASE HCrash
  <2>1. stored' \subseteq Id /\ \A i \in stored' : There(file, i)
    BY <1>6 DEF HCrash, IInv, SavedThere
  <2> QED
    BY <1>6, <2>1, ConstructInv DEF HCrash, Crash
<1>7. CASE HOther
  <2>1. CASE Renew
    BY <1>7, <2>1, ConstructInv DEF HOther, Renew, IInv, StoredThere
  <2>2. CASE \E uid \in 1 .. Users, text \in Text : SetUserHeader(uid, text)
    BY <1>7, <2>2, SetUserHeaderInv DEF HOther
  <2> QED
    BY <1>7, <2>1, <2>2, AllocUserHeaderInv, CreateInv, OpenFileInv, OpenEmptyFileInv
    DEF HOther, Open
<1>8. CASE UNCHANGED hvars
  <2>1. NextId' = NextId
    BY <1>8, NextIdKept DEF hvars, vars
  <2>2. TypeOK'
    BY <1>8 DEF hvars, vars, IInv, TypeOK
  <2> QED
    BY <1>8, <2>1, <2>2, SessionInv DEF hvars, vars, IInv, StoredThere, SealedFileOpens, Sealed
<1> QED
  BY <1>1, <1>2, <1>3, <1>4, <1>5, <1>6, <1>7, <1>8 DEF HNext

-----------------------------------------------------------------------------
(***************************************************************************)
(* The theorems.                                                            *)
(***************************************************************************)
\* The invariant of every behaviour.
LEMMA Invariant == HSpec => []IInv
BY InitInv, StepInv, PTL DEF HSpec

\* The types of the state; in particular the counter stays within the bound
\* and the cache holds nothing but blocks and empty pointers.
THEOREM TypeCorrect == HSpec => []TypeOK
<1>1. IInv => TypeOK
  BY DEF IInv
<1> QED
  BY <1>1, Invariant, PTL

\* No block that was stored has its id handed out again, after a close or a
\* crash either (nextId, _updateCount, dispose of BlockStorage).
THEOREM StoredIdsStayKnown == HSpec => []StoredIdsKnown
BY InvStored, Invariant, PTL

\* A file that was closed once can be opened ever after (readHeader).
THEOREM SealedFilesOpen == HSpec => []SealedFileOpens
<1>1. IInv => SealedFileOpens
  BY DEF IInv
<1> QED
  BY <1>1, Invariant, PTL

(***************************************************************************)
(* The block storage implements DurableBlocks.                              *)
(*                                                                         *)
(* So far no block is lost; here the contents of blocks are followed.  What  *)
(* a call on the cache leaves reads back as before (Faithful), whatever was *)
(* evicted, and what a crash would find of a saved block is what was saved  *)
(* or something put since (SavedFrom).                                      *)
(***************************************************************************)
\* What get() comes to, of any file and cache.
Read(f, c, id) == IF Holds(c, id) THEN c[id].data ELSE f[id]

\* Apart from the header block there are only contents.
Plain(f, c) == \A i \in Id : /\ i # HeaderId => f[i] \in Contents \cup {Beyond}
                             /\ Holds(c, i) => c[i].data \in Contents

\* What there was reads back, and the file has it as it was or as it read,
\* except for the blocks of ids.
Faithful(r, f, c, ids) ==
  /\ Plain(r.file, r.lru)
  /\ \A i \in Id \ ids : Safe(f, c, i) => Read(r.file, r.lru, i) = Read(f, c, i)
  /\ \A i \in Id : There(f, i) => r.file[i] \in {f[i], Read(f, c, i)}

-----------------------------------------------------------------------------
(***************************************************************************)
(* File and cache.                                                          *)
(***************************************************************************)

\* What is evicted is written, and so reads back.
LEMMA RoomSame ==
  ASSUME NEW f, NEW c, Fit(f, c), Plain(f, c), NEW r \in Room(f, c)
  PROVE  Faithful(r, f, c, {})
<1>1. CASE ~Full(c)
  <2>1. r.file = f /\ r.lru = c
    BY <1>1 DEF Room
  <2> QED
    BY <2>1 DEF Faithful
<1>2. CASE Full(c)
  <2>1. PICK v \in Id : /\ Cached(c, v)
                        /\ r = [file |-> WriteBack(f, c, v), lru |-> [c EXCEPT ![v] = Absent]]
    BY <1>2 DEF Room
  <2>2. v # HeaderId /\ r.file = WriteBack(f, c, v) /\ r.lru = [c EXCEPT ![v] = Absent]
    BY <2>1 DEF Cached, Fit
  <2>3. \A i \in Id : r.lru[i] = IF i = v THEN Absent ELSE c[i]
    BY <2>2 DEF Fit, Caches
  <2>4. \A i \in Id : Holds(r.lru, i) <=> i # v /\ Holds(c, i)
    BY <2>3 DEF Holds
  <2>5. CASE ~Holds(c, v)
    <3>1. r.file = f
      BY <2>2, <2>5 DEF WriteBack
    <3> QED
      BY <2>3, <2>4, <2>5, <3>1 DEF Faithful, Plain, Read
  <2>6. CASE Holds(c, v)
    <3>1. \A i \in Id : r.file[i] = IF i = v THEN c[v].data
                                    ELSE IF i < v /\ f[i] = Beyond THEN Zero ELSE f[i]
      <4>1. r.file = Write(f, v, c[v].data)
        BY <2>2, <2>6 DEF WriteBack
      <4> QED
        BY <4>1 DEF Write
    <3>2. Plain(r.file, r.lru)
      BY <2>3, <2>4, <2>6, <3>1 DEF Plain, Contents
    <3>3. \A i \in Id : Safe(f, c, i) => Read(r.file, r.lru, i) = Read(f, c, i)
      BY <2>3, <2>4, <2>6, <3>1 DEF Safe, There, Read
    <3>4. \A i \in Id : There(f, i) => r.file[i] \in {f[i], Read(f, c, i)}
      BY <2>6, <3>1 DEF There, Read
    <3> QED
      BY <3>2, <3>3, <3>4 DEF Faithful
  <2> QED
    BY <2>5, <2>6
<1> QED
  BY <1>1, <1>2

\* A block comes from the file as it is there.
LEMMA SubSame ==
  ASSUME NEW f, NEW c, Fit(f, c), Plain(f, c), NEW id \in Id, id # HeaderId, NEW next,
         NEW r \in Sub(f, c, id, next)
  PROVE  Faithful(r, f, c, {})
<1>1. CASE Cached(c, id)
  <2>1. r.file = f /\ r.lru = c
    BY <1>1 DEF Sub
  <2> QED
    BY <2>1 DEF Faithful
<1>2. CASE ~Cached(c, id)
  <2>1. PICK q \in Room(f, c) : r = [q EXCEPT !.lru[id] = Fetched(q.file, id, next)]
    BY <1>2 DEF Sub
  <2>2. Sequel(q, f, c) /\ Faithful(q, f, c, {}) /\ q.lru[id] = Absent
    BY <1>2, <2>1, RoomOK, RoomSame DEF Cached
  <2>3. r.file = q.file /\ r.lru = [q.lru EXCEPT ![id] = Fetched(q.file, id, next)]
    BY <2>1 DEF Room
  <2>4. \A i \in Id : r.lru[i] = IF i = id THEN Fetched(q.file, id, next) ELSE q.lru[i]
    BY <2>2, <2>3 DEF Sequel, Fit, Caches
  <2>5. Holds(r.lru, id) => r.lru[id].data = IF There(q.file, id) THEN q.file[id] ELSE Zero
    BY <2>4 DEF Holds, Fetched, Entry, There
  <2>6. \A i \in Id : i # id => (Holds(r.lru, i) <=> Holds(q.lru, i)) /\ r.lru[i] = q.lru[i]
    BY <2>4 DEF Holds
  <2>7. ~Holds(q.lru, id) /\ (Safe(f, c, id) => There(q.file, id))
    BY <2>2 DEF Sequel, Safe, Holds
  <2>8. Plain(r.file, r.lru)
    BY <2>2, <2>3, <2>5, <2>6 DEF Faithful, Plain, Contents, There
  <2>9. \A i \in Id : Safe(f, c, i) => Read(r.file, r.lru, i) = Read(q.file, q.lru, i)
    BY <2>3, <2>5, <2>6, <2>7 DEF Read
  <2> QED
    BY <2>2, <2>3, <2>8, <2>9 DEF Faithful
<1> QED
  BY <1>1, <1>2

\* An entry with other data: its block reads so, the others as before.
LEMMA EnteredSame ==
  ASSUME NEW f, NEW c, NEW r, Sequel(r, f, c), Faithful(r, f, c, {}),
         NEW id \in Id, id # HeaderId, NEW e \in Entries, e.data \in Contents,
         NEW q, q.file = r.file, q.lru = [r.lru EXCEPT ![id] = e]
  PROVE  Faithful(q, f, c, {id}) /\ Read(q.file, q.lru, id) = e.data
<1>1. e \notin {Absent, NoBlock}
  BY SentinelsAssumption
<1>2. \A i \in Id : q.lru[i] = IF i = id THEN e ELSE r.lru[i]
  BY DEF Sequel, Fit, Caches
<1>3. Holds(q.lru, id) /\ \A i \in Id : i # id => (Holds(r.lru, i) <=> Holds(q.lru, i))
  BY <1>1, <1>2 DEF Holds
<1> QED
  BY <1>2, <1>3 DEF Faithful, Plain, Read

\* put() of a block of its own.
LEMMA ReplacedSame ==
  ASSUME NEW f, NEW c, Fit(f, c), Plain(f, c), NEW id \in Id, id # HeaderId, NEW next,
         NEW d \in Data, NEW q \in Replaced(f, c, id, next, d)
  PROVE  Faithful(q, f, c, {id}) /\ Read(q.file, q.lru, id) = d
<1>1. PICK r \in Sub(f, c, id, next) : q = [r EXCEPT !.lru[id] = Entry(d, FALSE)]
  BY DEF Replaced
<1>2. Sequel(r, f, c) /\ Faithful(r, f, c, {})
  BY SubOK, SubSame
<1> DEFINE e == Entry(d, FALSE)
<1>3. e \in Entries /\ e.data = d /\ e.data \in Contents
  BY EntryHeld DEF Blocks, Contents, Entry
<1>4. q.file = r.file /\ q.lru = [r.lru EXCEPT ![id] = e]
  BY <1>1 DEF Sub, Room
<1> HIDE DEF e
<1>5. Faithful(q, f, c, {id}) /\ Read(q.file, q.lru, id) = e.data
  BY <1>2, <1>3, <1>4, EnteredSame
<1> QED
  BY <1>3, <1>5

\* put() of the block from the cache.
LEMMA ChangedSame ==
  ASSUME NEW f, NEW c, Fit(f, c), Plain(f, c), NEW id \in Id, id # HeaderId, NEW next,
         NEW d \in Data, NEW q \in Changed(f, c, id, next, d)
  PROVE  Faithful(q, f, c, {id}) /\ Read(q.file, q.lru, id) = d
<1>1. PICK r \in Sub(f, c, id, next) : Holds(r.lru, id) /\ q = [r EXCEPT !.lru[id].data = d]
  BY DEF Changed
<1>2. Sequel(r, f, c) /\ Faithful(r, f, c, {})
  BY SubOK, SubSame
<1> DEFINE e == [r.lru[id] EXCEPT !.data = d]
<1>3. e \in Entries /\ e.data = d /\ e.data \in Contents
  <2>1. r.lru[id] \in Entries
    BY <1>1, <1>2, HeldData DEF Sequel, Fit
  <2> QED
    BY <2>1 DEF Entries, Contents
<1>4. q.file = r.file /\ q.lru = [r.lru EXCEPT ![id] = e]
  BY <1>1 DEF Sub, Room
<1> HIDE DEF e
<1>5. Faithful(q, f, c, {id}) /\ Read(q.file, q.lru, id) = e.data
  BY <1>2, <1>3, <1>4, EnteredSame
<1> QED
  BY <1>3, <1>5

\* Closing: the file has what read back before.
LEMMA ClosedSame ==
  ASSUME Fit(file, lru), Plain(file, lru)
  PROVE  /\ \A i \in Id : i # HeaderId /\ Safe(file, lru, i) => ClosedFile[i] = ReadBack(i)
         /\ \A i \in Id : i # HeaderId => ClosedFile[i] \in Contents \cup {Beyond}
<1> DEFINE w == Write(file, HeaderId, Header(user_header))
<1>1. \A i \in Id : ClosedFile[i] = IF Holds(lru, i) THEN lru[i].data
                           ELSE IF w[i] = Beyond /\ (\E j \in Id : j > i /\ Holds(lru, j))
                           THEN Zero ELSE w[i]
  BY DEF ClosedFile, AllWritten
<1>2. \A i \in Id : i # HeaderId => w[i] = file[i]
  BY BoundsAssumption DEF Write, Id, HeaderId
<1> HIDE DEF w
<1>3. \A i \in Id : i # HeaderId /\ Safe(file, lru, i) => ClosedFile[i] = ReadBack(i)
  BY <1>1, <1>2 DEF Safe, There, ReadBack
<1>4. \A i \in Id : i # HeaderId => ClosedFile[i] \in Contents \cup {Beyond}
  BY <1>1, <1>2 DEF Plain, Contents
<1> QED
  BY <1>3, <1>4

-----------------------------------------------------------------------------
(***************************************************************************)
(* The invariant: what is kept of blocks and headers.                       *)
(***************************************************************************)

\* What the file has of a saved block, and what the cache would write, is what
\* was saved or has been put since.
SavedFrom ==
  \A i \in Id : saved[i] # NotStored =>
    i # HeaderId /\ file[i] \in {saved[i]} \cup since[i] /\ ReadBack(i) \in {saved[i]} \cup since[i]

Followed ==
  /\ Len(user_header) <= Users /\ (claimed < Users => Len(user_header) = claimed)
  /\ Sealed => Len(file[HeaderId].user_header) <= Users
  /\ ~is_open => lru = Empty
  /\ Plain(file, lru) /\ HeaderId \notin stored /\ SavedFrom
  /\ saved \in [Id -> Contents \cup {NotStored}] /\ since \in [Id -> SUBSET Contents]

RInv == IInv /\ Followed

\* The headers that the promise knows.
LEMMA HeaderType ==
  ASSUME NEW h \in Seq(Text \cup {NoText}), Len(h) <= Users
  PROVE  h \in Headers /\ h # NoHeader
<1>1. h \in [1 .. Len(h) -> Text \cup {NoText}] /\ Len(h) \in 0 .. Users
  BY BoundsAssumption
<1>2. h \in Headers
  BY <1>1 DEF Headers
<1> QED
  BY <1>2, RefinementAssumption

\* What is readable is contents.
LEMMA ReadableType ==
  ASSUME RInv
  PROVE  Readable \in [Id -> Contents \cup {NotStored}]
<1>1. ASSUME NEW i \in stored PROVE ReadBack(i) \in Contents
  <2>1. i \in Id /\ i # HeaderId /\ Safe(file, lru, i)
    BY DEF RInv, IInv, Followed, StoredThere
  <2>2. CASE Holds(lru, i)
    BY <2>1, <2>2 DEF RInv, Followed, Plain, ReadBack
  <2>3. CASE ~Holds(lru, i)
    BY <2>1, <2>3 DEF RInv, Followed, Plain, ReadBack, Safe, There
  <2> QED
    BY <2>2, <2>3
<1> QED
  BY <1>1 DEF Readable

\* Steps that leave the blocks alone: the invariant is kept, and what the
\* promise sees of the blocks stays.
LEMMA SessionFollowed ==
  ASSUME RInv, UNCHANGED <<file, lru, stored, saved, since>>,
         Len(user_header') <= Users, claimed' < Users => Len(user_header') = claimed',
         is_open => is_open'
  PROVE  Followed' /\ Readable' = Readable /\ SavedHeader' = SavedHeader
<1>1. Readable' = Readable /\ SavedHeader' = SavedHeader
  BY DEF Readable, ReadBack, SavedHeader, Sealed
<1>2. SavedFrom'
  BY DEF RInv, Followed, SavedFrom, ReadBack
<1> QED
  BY <1>1, <1>2 DEF RInv, Followed, Sealed

\* What the promise sees does not change.
LEMMA Stutters ==
  ASSUME Readable' = Readable, SavedHeader' = SavedHeader, OpenHeader' = OpenHeader,
         saved' = saved, since' = since
  PROVE  UNCHANGED Promise!vars
BY DEF Promise!vars

-----------------------------------------------------------------------------
(***************************************************************************)
(* The steps.                                                               *)
(***************************************************************************)

\* Before a storage is open, its headers are nobody's concern.
LEMMA AllocUserHeaderFollows ==
  ASSUME RInv, AllocUserHeader, UNCHANGED <<stored, saved, since>>
  PROVE  Followed' /\ UNCHANGED Promise!vars
<1> USE DEF AllocUserHeader
<1>1. /\ claimed \in Nat /\ Users \in Nat /\ Len(user_header) = claimed
      /\ Len(user_header') = claimed'
  BY BoundsAssumption DEF RInv, IInv, TypeOK, Followed
<1>2. Followed' /\ Readable' = Readable /\ SavedHeader' = SavedHeader
  BY <1>1, SessionFollowed
<1>3. OpenHeader' = OpenHeader
  BY DEF OpenHeader
<1> QED
  BY <1>2, <1>3, Stutters

\* A header that nothing was saved of.
LEMMA SetsHeader ==
  ASSUME RInv, Readable' = Readable, SavedHeader' = SavedHeader, saved' = saved, since' = since,
         is_open', user_header' \in Seq(Text \cup {NoText}), Len(user_header') <= Users,
         is_open \/ ~Sealed
  PROVE  Promise!Next
<1>1. OpenHeader' = user_header' /\ user_header' \in Headers
  BY HeaderType DEF OpenHeader
<1>2. OpenHeader # NoHeader \/ SavedHeader = NoHeader
  BY HeaderType DEF RInv, IInv, TypeOK, Followed, OpenHeader, SavedHeader
<1>3. Promise!SetHeader(user_header')
  BY <1>1, <1>2 DEF Promise!SetHeader
<1> QED
  BY <1>1, <1>3 DEF Promise!Next

\* A new file has the headers that its users have allocated.
LEMMA CreateFollows ==
  ASSUME RInv, Create, UNCHANGED <<stored, saved, since>>
  PROVE  Followed' /\ Promise!Next
<1> USE DEF Create
<1>1. Followed' /\ Readable' = Readable /\ SavedHeader' = SavedHeader
  BY SessionFollowed DEF RInv, Followed
<1>2. ~Sealed
  BY BoundsAssumption, SentinelsAssumption DEF RInv, IInv, Sealed, There, Id, HeaderId
<1> QED
  BY <1>1, <1>2, SetsHeader DEF RInv, IInv, TypeOK, Followed

\* A file that was closed gives its headers back; of one that was not, nobody has any.
LEMMA OpenFileFollows ==
  ASSUME RInv, OpenFile, UNCHANGED <<stored, saved, since>>
  PROVE  Followed' /\ Promise!Next
<1> USE DEF OpenFile
<1>1. user_header' \in Seq(Text \cup {NoText}) /\ Len(user_header') <= Users
  BY BoundsAssumption DEF TextsIn, HeaderBlock, Sealed, RInv, Followed
<1>2. Followed' /\ Readable' = Readable /\ SavedHeader' = SavedHeader
  BY <1>1, SessionFollowed DEF RInv, Followed
<1>3. CASE Sealed
  <2>1. OpenHeader = NoHeader /\ OpenHeader' = SavedHeader
    BY <1>3 DEF OpenHeader, SavedHeader, TextsIn, Sealed
  <2>2. Promise!Open
    BY <1>2, <2>1 DEF Promise!Open
  <2> QED
    BY <1>2, <2>2 DEF Promise!Next
<1>4. CASE ~Sealed
  BY <1>1, <1>2, <1>4, SetsHeader
<1> QED
  BY <1>2, <1>3, <1>4

\* An empty file was never closed.
LEMMA OpenEmptyFileFollows ==
  ASSUME RInv, OpenEmptyFile, UNCHANGED <<stored, saved, since>>
  PROVE  Followed' /\ Promise!Next
<1> USE DEF OpenEmptyFile
<1>1. Followed' /\ Readable' = Readable /\ SavedHeader' = SavedHeader
  BY SessionFollowed DEF RInv, Followed
<1>2. ~Sealed
  BY SentinelsAssumption DEF Sealed
<1> QED
  BY <1>1, <1>2, SetsHeader DEF RInv, IInv, TypeOK, Followed

\* A user sets its text.
LEMMA SetUserHeaderFollows ==
  ASSUME RInv, NEW uid \in 1 .. Users, NEW text \in Text, SetUserHeader(uid, text),
         UNCHANGED <<stored, saved, since>>
  PROVE  Followed' /\ Promise!Next
<1> USE DEF SetUserHeader
<1>1. user_header' \in Seq(Text \cup {NoText}) /\ Len(user_header') = Len(user_header)
  BY DEF RInv, IInv, TypeOK
<1>2. Followed' /\ Readable' = Readable /\ SavedHeader' = SavedHeader
  BY <1>1, SessionFollowed DEF RInv, Followed
<1> QED
  BY <1>1, <1>2, SetsHeader DEF RInv, Followed

\* Handing out ids stores nothing.
LEMMA AllocFollows ==
  ASSUME RInv, NEW n \in Spans, HAlloc(n)
  PROVE  Followed' /\ UNCHANGED Promise!vars
<1> USE DEF HAlloc, AllocId
<1>1. Followed' /\ Readable' = Readable /\ SavedHeader' = SavedHeader
  BY SessionFollowed DEF RInv, Followed
<1>2. OpenHeader' = OpenHeader
  BY DEF OpenHeader
<1> QED
  BY <1>1, <1>2, Stutters

\* Blocks that are taken back are forgotten.
LEMMA DisposeFollows ==
  ASSUME RInv, NEW n \in Spans, NEW id \in Id, HDispose(id, n)
  PROVE  Followed' /\ Promise!Next
<1> USE DEF HDispose, Dispose
<1> DEFINE ids == Id \cap Span(id, n)
<1>1. /\ stored' = stored \ Span(id, n)
      /\ UNCHANGED <<file, lru, saved, since, is_open, user_header, claimed>>
  OBVIOUS
<1>2. Followed'
  BY <1>1 DEF RInv, Followed, Sealed, SavedFrom, ReadBack
<1>3. Readable' = [i \in Id |-> IF i \in ids THEN NotStored ELSE Readable[i]]
  BY <1>1 DEF Readable, ReadBack
<1>4. OpenHeader' = OpenHeader /\ SavedHeader' = SavedHeader
  BY <1>1 DEF OpenHeader, SavedHeader, Sealed
<1>5. Promise!Forget(ids)
  BY <1>1, <1>3, <1>4 DEF Promise!Forget
<1>6. ids \in SUBSET Id
  OBVIOUS
<1> QED
  BY <1>2, <1>5, <1>6 DEF Promise!Next

\* Calls on the cache, which may change the blocks of ids.
LEMMA LeavesFollowed ==
  ASSUME RInv, NEW ids \in SUBSET Id, NEW r, Sequel(r, file, lru), Faithful(r, file, lru, ids),
         file' = r.file, lru' = r.lru, UNCHANGED <<is_open, user_header, claimed, saved>>,
         is_open, HeaderId \notin stored', since' \in [Id -> SUBSET Contents],
         \A i \in Id : since[i] \subseteq since'[i],
         \A i \in ids : Read(r.file, r.lru, i) \in since'[i]
  PROVE  /\ Followed' /\ SavedHeader' = SavedHeader /\ OpenHeader' = OpenHeader
         /\ \A i \in stored : i \notin ids => ReadBack(i)' = ReadBack(i)
<1>1. \A i \in Id : Read(file, lru, i) = ReadBack(i) /\ Read(r.file, r.lru, i) = ReadBack(i)'
  BY DEF Read, ReadBack
<1>2. \A i \in stored : i \notin ids => ReadBack(i)' = ReadBack(i)
  BY <1>1 DEF RInv, IInv, StoredThere, Faithful
<1>3. SavedFrom'
  <2> SUFFICES ASSUME NEW i \in Id, saved[i] # NotStored
               PROVE  /\ i # HeaderId /\ file'[i] \in {saved[i]} \cup since'[i]
                      /\ ReadBack(i)' \in {saved[i]} \cup since'[i]
    BY DEF SavedFrom
  <2>1. /\ i # HeaderId /\ {file[i], ReadBack(i)} \subseteq {saved[i]} \cup since'[i]
        /\ There(file, i)
    BY DEF RInv, IInv, Followed, SavedFrom, SavedThere
  <2>2. file'[i] \in {file[i], ReadBack(i)}
    BY <1>1, <2>1 DEF Faithful
  <2>3. i \notin ids => ReadBack(i)' = ReadBack(i)
    BY <1>1, <2>1 DEF Faithful, Safe
  <2> QED
    BY <1>1, <2>1, <2>2, <2>3
<1>4. (Sealed' <=> Sealed) /\ (Sealed => file'[HeaderId] = file[HeaderId])
  <2>0. HeaderId \in Id
    BY BoundsAssumption DEF Id, HeaderId
  <2>1. file'[HeaderId] \in {file[HeaderId], Zero}
    BY DEF Sequel
  <2>2. Read(file, lru, HeaderId) = file[HeaderId]
    BY DEF RInv, IInv, Fit, Read, Holds
  <2>3. There(file, HeaderId) => file'[HeaderId] = file[HeaderId]
    BY <2>0, <2>2 DEF Faithful
  <2> QED
    BY <2>1, <2>3, SentinelsAssumption DEF Sealed, There, Contents
<1>5. SavedHeader' = SavedHeader /\ OpenHeader' = OpenHeader
  BY <1>4 DEF SavedHeader, OpenHeader
<1>6. Plain(file', lru')
  BY DEF Faithful
<1>7. Followed'
  BY <1>3, <1>4, <1>6 DEF RInv, Followed
<1> QED
  BY <1>2, <1>5, <1>7

\* Reading changes nothing that can be read.
LEMMA GetFollows ==
  ASSUME RInv, NEW id \in Id, HGet(id)
  PROVE  Followed' /\ UNCHANGED Promise!vars
<1>1. PICK r \in Sub(file, lru, id, NextId) : file' = r.file /\ lru' = r.lru
  BY DEF HGet, Get, Leaves
<1>2. Sequel(r, file, lru) /\ Faithful(r, file, lru, {})
  BY SubOK, SubSame DEF HGet, RInv, IInv, Followed
<1>3. /\ UNCHANGED <<is_open, user_header, claimed, saved, stored, since>> /\ is_open
      /\ {} \in SUBSET Id
  BY DEF HGet, Get, Leaves
<1>4. HeaderId \notin stored' /\ since' \in [Id -> SUBSET Contents]
  BY <1>3 DEF RInv, Followed
<1>5. /\ Followed' /\ SavedHeader' = SavedHeader /\ OpenHeader' = OpenHeader
      /\ \A i \in stored : ReadBack(i)' = ReadBack(i)
  BY <1>1, <1>2, <1>3, <1>4, LeavesFollowed
<1>6. Readable' = Readable
  BY <1>3, <1>5 DEF Readable
<1> QED
  BY <1>3, <1>5, <1>6, Stutters

\* Putting a block stores it, whatever else goes to the file.
LEMMA PutFollows ==
  ASSUME RInv, NEW id \in Id, NEW d \in Data, HPut(id, d)
  PROVE  Followed' /\ Promise!Next
<1>1. /\ id # HeaderId /\ stored' = stored \cup {id} /\ saved' = saved
      /\ since' = [since EXCEPT ![id] = @ \cup {d}]
      /\ UNCHANGED <<is_open, user_header, claimed>> /\ is_open
  BY NextIdType, BoundsAssumption DEF HPut, Known, HeaderId, Put, Change, Leaves, RInv
<1>2. \E r : /\ file' = r.file /\ lru' = r.lru /\ Sequel(r, file, lru)
             /\ Faithful(r, file, lru, {id}) /\ Read(r.file, r.lru, id) = d
  <2>1. CASE Put(id, d)
    <3>1. PICK r \in Replaced(file, lru, id, NextId, d) : file' = r.file /\ lru' = r.lru
      BY <2>1 DEF Put, Leaves
    <3>2. Sequel(r, file, lru) /\ Faithful(r, file, lru, {id}) /\ Read(r.file, r.lru, id) = d
      BY <1>1, ReplacedOK, ReplacedSame DEF RInv, IInv, Followed
    <3> QED
      BY <3>1, <3>2
  <2>2. CASE Change(id, d)
    <3>1. PICK r \in Changed(file, lru, id, NextId, d) : file' = r.file /\ lru' = r.lru
      BY <2>2 DEF Change, Leaves
    <3>2. Sequel(r, file, lru) /\ Faithful(r, file, lru, {id}) /\ Read(r.file, r.lru, id) = d
      BY <1>1, ChangedOK, ChangedSame DEF RInv, IInv, Followed
    <3> QED
      BY <3>1, <3>2
  <2> QED
    BY <2>1, <2>2 DEF HPut
<1>3. PICK r : /\ file' = r.file /\ lru' = r.lru /\ Sequel(r, file, lru)
               /\ Faithful(r, file, lru, {id}) /\ Read(r.file, r.lru, id) = d
  BY <1>2
<1>4. /\ HeaderId \notin stored' /\ since' \in [Id -> SUBSET Contents]
      /\ \A i \in Id : since[i] \subseteq since'[i]
      /\ d \in since'[id] /\ {id} \in SUBSET Id
  BY <1>1 DEF RInv, Followed, Contents
<1>5. /\ Followed' /\ SavedHeader' = SavedHeader /\ OpenHeader' = OpenHeader
      /\ \A i \in stored : i \notin {id} => ReadBack(i)' = ReadBack(i)
  BY <1>1, <1>3, <1>4, LeavesFollowed
<1>6. ReadBack(id)' = d
  BY <1>3 DEF Read, ReadBack
<1>7. Readable' = [Readable EXCEPT ![id] = d]
  BY <1>1, <1>5, <1>6 DEF Readable
<1>8. OpenHeader # NoHeader
  BY <1>1, HeaderType DEF OpenHeader, RInv, IInv, TypeOK, Followed
<1>9. Promise!Store(id, d) /\ d \in Contents
  BY <1>1, <1>5, <1>7, <1>8 DEF Promise!Store, Contents
<1> QED
  BY <1>5, <1>9 DEF Promise!Next

\* A close saves what is readable.
LEMMA CloseFollows ==
  ASSUME RInv, IInv', HClose
  PROVE  Followed' /\ Promise!Next
<1>1. /\ is_open /\ file' = ClosedFile /\ is_open' = FALSE /\ lru' = Empty
      /\ UNCHANGED <<user_header, claimed, stored>>
      /\ saved' = Readable /\ since' = [i \in Id |-> {}]
  BY DEF HClose, Close
<1>2. /\ \A i \in Id : i # HeaderId /\ Safe(file, lru, i) => file'[i] = ReadBack(i)
      /\ \A i \in Id : i # HeaderId => file'[i] \in Contents \cup {Beyond}
  BY <1>1, ClosedSame DEF RInv, IInv, Followed
<1>3. Header(user_header) \in HeaderBlock /\ Header(user_header).user_header = user_header
  BY DEF RInv, IInv, TypeOK, Header, HeaderBlock
<1>4. file'[HeaderId] = Header(user_header)
  BY <1>1, <1>3, ClosedFileOK DEF RInv, IInv
<1>5. \A i \in Id : ~Holds(lru', i) /\ ReadBack(i)' = file'[i]
  BY <1>1 DEF Holds, Empty, ReadBack
<1>6. \A i \in stored : i \in Id /\ i # HeaderId /\ Safe(file, lru, i)
  BY DEF RInv, IInv, Followed, StoredThere
<1>7. Readable' = Readable
  BY <1>1, <1>2, <1>5, <1>6 DEF Readable
<1>8. OpenHeader = user_header /\ OpenHeader # NoHeader /\ OpenHeader' = NoHeader
      /\ SavedHeader' = user_header
  BY <1>1, <1>3, <1>4, HeaderType DEF OpenHeader, SavedHeader, Sealed, RInv, IInv, TypeOK, Followed
<1>9. Promise!Close
  BY <1>1, <1>7, <1>8 DEF Promise!Close, Promise!NothingSince
<1>10. SavedFrom'
  BY <1>1, <1>2, <1>5, <1>6 DEF SavedFrom, Readable
<1>11. Plain(file', lru')
  BY <1>2, <1>5 DEF Plain
<1>12. saved' \in [Id -> Contents \cup {NotStored}] /\ since' \in [Id -> SUBSET Contents]
  BY <1>1, ReadableType
<1>13. Followed'
  BY <1>1, <1>3, <1>4, <1>10, <1>11, <1>12 DEF RInv, Followed, Sealed
<1> QED
  BY <1>9, <1>13 DEF Promise!Next

\* A new object starts with an empty cache.
LEMMA ConstructFollows ==
  ASSUME RInv, Construct, UNCHANGED <<file, saved, since>>, HeaderId \notin stored'
  PROVE  /\ Followed' /\ SavedHeader' = SavedHeader /\ OpenHeader' = NoHeader
         /\ \A i \in Id : ReadBack(i)' = file[i]
<1>1. \A i \in Id : ~Holds(lru', i) /\ ReadBack(i)' = file[i]
  BY DEF Construct, Holds, Empty, ReadBack
<1>2. SavedHeader' = SavedHeader /\ OpenHeader' = NoHeader
  BY DEF Construct, SavedHeader, Sealed, OpenHeader
<1>3. SavedFrom'
  BY <1>1 DEF RInv, Followed, SavedFrom
<1>4. Plain(file', lru')
  BY <1>1 DEF RInv, Followed, Plain
<1>5. Len(user_header') = 0 /\ claimed' = 0 /\ is_open' = FALSE /\ lru' = Empty
  BY DEF Construct
<1>6. Followed'
  BY <1>3, <1>4, <1>5, BoundsAssumption DEF RInv, Followed, Sealed
<1> QED
  BY <1>1, <1>2, <1>6

\* Another object on a closed file: its cache was empty before.
LEMMA RenewFollows ==
  ASSUME RInv, Renew, UNCHANGED <<stored, saved, since>>
  PROVE  Followed' /\ UNCHANGED Promise!vars
<1>1. /\ Followed' /\ SavedHeader' = SavedHeader /\ OpenHeader' = NoHeader
      /\ \A i \in Id : ReadBack(i)' = file[i]
  BY ConstructFollows DEF Renew, RInv, Followed
<1>2. ~is_open /\ \A i \in Id : ReadBack(i) = file[i]
  BY DEF Renew, RInv, Followed, Holds, Empty, ReadBack
<1>3. Readable' = Readable /\ OpenHeader' = OpenHeader
  BY <1>1, <1>2 DEF Readable, OpenHeader
<1> QED
  BY <1>1, <1>3, Stutters

\* After a crash the file has, of every saved block, what was saved or what was
\* put since.
LEMMA CrashFollows ==
  ASSUME RInv, HCrash
  PROVE  Followed' /\ Promise!Next
<1>1. /\ Construct /\ UNCHANGED <<file, saved, since>>
      /\ stored' = {i \in Id : saved[i] # NotStored}
  BY DEF HCrash, Crash
<1>2. HeaderId \notin stored'
  BY <1>1 DEF RInv, Followed, SavedFrom
<1>3. /\ Followed' /\ SavedHeader' = SavedHeader /\ OpenHeader' = NoHeader
      /\ \A i \in Id : ReadBack(i)' = file[i]
  BY <1>1, <1>2, ConstructFollows
<1>4. Readable' = [i \in Id |-> IF saved[i] # NotStored THEN file[i] ELSE NotStored]
  BY <1>1, <1>3 DEF Readable
<1>5. \A i \in Id : saved[i] # NotStored =>
         file[i] \in {saved[i]} \cup since[i] /\ file[i] \in Contents
  BY DEF RInv, IInv, Followed, SavedFrom, SavedThere, There, Plain
<1>6. /\ Readable' \in [Id -> Contents \cup {NotStored}]
      /\ \A i \in Id : IF saved[i] = NotStored THEN Readable'[i] = NotStored
                       ELSE Readable'[i] \in {saved[i]} \cup since[i]
  BY <1>4, <1>5
<1>7. Promise!Crash
  BY <1>1, <1>3, <1>6 DEF Promise!Crash
<1> QED
  BY <1>3, <1>7 DEF Promise!Next

-----------------------------------------------------------------------------
(***************************************************************************)
(* The theorem.                                                             *)
(***************************************************************************)
\* To begin with nothing is promised.
LEMMA InitFollows == HInit => RInv /\ Promise!Init
<1> SUFFICES ASSUME HInit PROVE RInv /\ Promise!Init
  OBVIOUS
<1> USE DEF HInit, Init
<1>0. IInv
  BY InitInv
<1>1. ~Sealed /\ HeaderId \in Id
  BY BoundsAssumption, SentinelsAssumption DEF Sealed, Id, HeaderId
<1>2. \A i \in Id : ~Holds(lru, i)
  BY DEF Holds, Empty
<1>3. Plain(file, lru) /\ SavedFrom
  BY <1>2 DEF Plain, SavedFrom
<1>4. Followed
  BY <1>1, <1>3, BoundsAssumption DEF Followed
<1>5. Promise!Init
  BY <1>1 DEF Promise!Init, Promise!Nothing, Promise!NothingSince, Readable, OpenHeader, SavedHeader
<1> QED
  BY <1>0, <1>4, <1>5 DEF RInv

\* Every step keeps the invariant and is one of the promise, or none.
LEMMA StepFollows ==
  ASSUME RInv, [HNext]_hvars
  PROVE  RInv' /\ [Promise!Next]_(Promise!vars)
<1>0. IInv'
  BY StepInv DEF RInv
<1>1. ASSUME NEW n \in Spans, HAlloc(n) PROVE Followed' /\ UNCHANGED Promise!vars
  BY <1>1, AllocFollows
<1>2. ASSUME NEW n \in Spans, NEW id \in Id, HDispose(id, n) PROVE Followed' /\ Promise!Next
  BY <1>2, DisposeFollows
<1>3. ASSUME NEW id \in Id, HGet(id) PROVE Followed' /\ UNCHANGED Promise!vars
  BY <1>3, GetFollows
<1>4. ASSUME NEW id \in Id, NEW d \in Data, HPut(id, d) PROVE Followed' /\ Promise!Next
  BY <1>4, PutFollows
<1>5. CASE HClose
  BY <1>0, <1>5, CloseFollows DEF RInv
<1>6. CASE HCrash
  BY <1>0, <1>6, CrashFollows DEF RInv
<1>7. CASE HOther
  <2>1. CASE \E uid \in 1 .. Users, text \in Text : SetUserHeader(uid, text)
    BY <1>0, <1>7, <2>1, SetUserHeaderFollows DEF HOther, RInv
  <2>2. CASE AllocUserHeader
    BY <1>0, <1>7, <2>2, AllocUserHeaderFollows DEF HOther, RInv
  <2>3. CASE Renew
    BY <1>0, <1>7, <2>3, RenewFollows DEF HOther, RInv
  <2>4. CASE Open
    BY <1>0, <1>7, <2>4, CreateFollows, OpenFileFollows, OpenEmptyFileFollows
    DEF HOther, Open, RInv
  <2> QED
    BY <1>7, <2>1, <2>2, <2>3, <2>4 DEF HOther
<1>8. CASE UNCHANGED hvars
  <2>1. Followed' /\ Readable' = Readable /\ SavedHeader' = SavedHeader
    BY <1>8, SessionFollowed DEF hvars, vars, RInv, Followed
  <2>2. OpenHeader' = OpenHeader
    BY <1>8 DEF hvars, vars, OpenHeader
  <2>3. saved' = saved /\ since' = since
    BY <1>8 DEF hvars
  <2>4. UNCHANGED Promise!vars
    BY <2>1, <2>2, <2>3, Stutters
  <2> QED
    BY <1>0, <2>1, <2>4 DEF RInv
<1> QED
  BY <1>0, <1>1, <1>2, <1>3, <1>4, <1>5, <1>6, <1>7, <1>8 DEF HNext, RInv

\* Blocks and headers outlive closes and crashes as DurableBlocks promises, with
\* a cache of any size before the file (BlockStorage, FileBlockStorage).
THEOREM DurableBlocksKept == HSpec => ImplementsDurableBlocks
<1>1. RInv /\ [HNext]_hvars => RInv' /\ [Promise!Next]_(Promise!vars)
  BY StepFollows
<1> QED
  BY <1>1, InitFollows, PTL DEF HSpec, ImplementsDurableBlocks, Promise!Spec
=============================================================================
