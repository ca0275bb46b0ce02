---------------------------- MODULE BlockStorage ----------------------------
(***************************************************************************)
(* BlockStorage and FileBlockStorage of BlockStorage.h and                  *)
(* BlockStorage.impl.hpp: numbered blocks in one file, a counter that hands *)
(* out their ids, a write-back cache before the file, and the header block, *)
(* block 0, with one text for each user of the storage.                     *)
(*                                                                          *)
(* The file outlives the object: a program may close it and go on with the  *)
(* same object or a new one, or end without closing it.  The cache is the   *)
(* map that module LRUCache implements; which entry it evicts is left open. *)
(* Reading and writing the file succeeds, apart from reading past its end.  *)
(* Each public call is one step: the library has no threads.                *)
(***************************************************************************)
EXTENDS Integers, Sequences, FiniteSets

CONSTANTS
  MaxId,      \* bound: ids are below it
  CacheSize,  \* CACHE_SIZE
  Data,       \* contents that users write
  Zero,       \* the contents of a block that nothing was written to
  Text,       \* what users put into their header
  NoText,     \* the empty string
  Users,      \* how many users share the storage
  Beyond,     \* what the file has past its end
  Absent,     \* no entry in the cache
  NoBlock,    \* an empty shptr
  NoId        \* BLOCK_ID_INVALID

ASSUME BoundsAssumption ==
  MaxId \in Nat \ {0} /\ CacheSize \in Nat \ {0} /\ Users \in Nat

Id == 0 .. MaxId - 1
HeaderId == 0   \* firstId(), and what allocId() gives in a new file

VARIABLES
  file,         \* the blocks of the file, or Beyond
  exists,       \* there is a file of that name
  is_open,      \* isOpen()
  next_id,      \* m_next_block_id
  user_header,  \* m_user_header
  lru,          \* m_lru, from ids to blocks
  claimed,      \* the user headers allocated from this object
  usable        \* open() answered yes, and every user has found its header

vars == <<file, exists, is_open, next_id, user_header, lru, claimed, usable>>

\* Mutant: the loop of writeHeader starts at the second user.
HeaderButFirst(texts) == [user_header |-> IF texts = <<>> THEN texts ELSE Tail(texts)]

Header(texts) == [user_header |-> texts]
HeaderBlock == [user_header : Seq(Text \cup {NoText})]
Contents == Data \cup {Zero}
Entry(d, dirty) == [data |-> d, dirty |-> dirty]
Entries == [data : Contents \cup HeaderBlock, dirty : BOOLEAN]

ASSUME SentinelsAssumption ==
  /\ Beyond \notin Contents /\ \A d \in Contents \cup {Beyond} : d \notin HeaderBlock
  /\ Absent # NoBlock /\ Absent \notin Entries /\ NoBlock \notin Entries
  /\ NoId \notin Nat

Empty == [i \in Id |-> Absent]

(***************************************************************************)
(* The file and the cache before it, as functions of their contents.        *)
(***************************************************************************)

\* The length of the file in blocks.
Count(f) == Cardinality({i \in Id : f[i] # Beyond})

\* A write past the end fills what it skips with zeros.
Write(f, id, d) == [i \in Id |-> IF i = id THEN d
                                 ELSE IF i < id /\ f[i] = Beyond THEN Zero ELSE f[i]]

Cached(c, id) == c[id] # Absent
Holds(c, id) == c[id] \notin {Absent, NoBlock}
Full(c) == Cardinality({i \in Id : Cached(c, i)}) = CacheSize

\* Mutant: a block that is not marked dirty is not written.
WriteBackDirty(f, c, id) ==
  IF Holds(c, id) /\ c[id].dirty THEN Write(f, id, c[id].data) ELSE f

\* on_eviction: every block is written back, whether dirty or not.
WriteBack(f, c, id) == IF Holds(c, id) THEN Write(f, id, c[id].data) ELSE f

\* File and cache once there is room for one more entry.
Room(f, c) ==
  IF Full(c)
  THEN {[file |-> WriteBack(f, c, v), lru |-> [c EXCEPT ![v] = Absent]] :
          v \in {i \in Id : Cached(c, i)}}
  ELSE {[file |-> f, lru |-> c]}

\* evict_all
AllWritten(f, c) ==
  [i \in Id |-> IF Holds(c, i) THEN c[i].data
                ELSE IF f[i] = Beyond /\ (\E j \in Id : j > i /\ Holds(c, j)) THEN Zero
                ELSE f[i]]

\* Mutant: the counter of a new object starts at the last block.
FirstOfLastBlock == IF next_id = NoId THEN Count(file) - 1 ELSE next_id

\* nextId(): the counter of a new object starts at the end of the file.
NextId == IF next_id = NoId THEN Count(file) ELSE next_id

\* Mutant: a read that fails goes unnoticed.
FetchedUnchecked(f, id, next) == IF id >= next THEN NoBlock ELSE Entry(f[id], FALSE)

\* on_miss for operator[]: a block past the end of the file comes out blank and
\* dirty, one whose id has not been handed out as an empty pointer.
Fetched(f, id, next) == IF id >= next THEN NoBlock
                        ELSE IF f[id] = Beyond THEN Entry(Zero, TRUE)
                        ELSE Entry(f[id], FALSE)

\* m_lru[id]: file and cache after it.
Sub(f, c, id, next) ==
  IF Cached(c, id) THEN {[file |-> f, lru |-> c]}
  ELSE {[r EXCEPT !.lru[id] = Fetched(r.file, id, next)] : r \in Room(f, c)}

\* put() of a block object of its own.
Replaced(f, c, id, next, d) ==
  {[r EXCEPT !.lru[id] = Entry(d, FALSE)] : r \in Sub(f, c, id, next)}

\* A block is got, changed through its pointer, and put: it stays as dirty as it was.
Changed(f, c, id, next, d) ==
  {[r EXCEPT !.lru[id].data = d] : r \in {s \in Sub(f, c, id, next) : Holds(s.lru, id)}}

-----------------------------------------------------------------------------
Init ==
  /\ file = [i \in Id |-> Beyond] /\ exists = FALSE
  /\ is_open = FALSE /\ next_id = NoId /\ user_header = <<>> /\ lru = Empty
  /\ claimed = 0 /\ usable = FALSE

\* The users of a storage allocate their headers when they are constructed,
\* before it is usable.
AllocUserHeader ==
  /\ ~is_open /\ claimed < Users
  /\ user_header' = Append(user_header, NoText)
  /\ claimed' = claimed + 1
  /\ UNCHANGED <<file, exists, is_open, next_id, lru, usable>>

\* open() of a file that is not there: openHelper creates it, and the header
\* block takes the first id.
Create ==
  /\ ~is_open /\ ~exists /\ claimed = Users /\ NextId < MaxId
  /\ exists' = TRUE /\ is_open' = TRUE /\ usable' = TRUE
  /\ next_id' = NextId + 1
  /\ UNCHANGED <<file, user_header, lru, claimed>>

TextsIn(block) == IF block \in HeaderBlock THEN block.user_header ELSE <<>>

\* open() of a file with a header block: readHeader replaces m_user_header,
\* a block of zeros reads as a header without users.  A user asks for its header
\* next; where the file has none for it, the access is out of range.
OpenFile ==
  /\ ~is_open /\ exists /\ claimed = Users /\ file[HeaderId] # Beyond
  /\ is_open' = TRUE
  /\ user_header' = TextsIn(file[HeaderId])
  /\ usable' = (Len(user_header') >= claimed)
  /\ UNCHANGED <<file, exists, next_id, lru, claimed>>

\* open() of a file with nothing in it, where the header cannot be read: the
\* answer is no, and the storage stays open.
OpenEmptyFile ==
  /\ ~is_open /\ exists /\ claimed = Users /\ file[HeaderId] = Beyond
  /\ is_open' = TRUE /\ usable' = FALSE
  /\ UNCHANGED <<file, exists, next_id, user_header, lru, claimed>>

Open == Create \/ OpenFile \/ OpenEmptyFile

\* writeHeader: the header block, made anew, goes straight to the file; then
\* the cache is written and the stream closed.  The counter stays as it is.
ClosedFile == AllWritten(Write(file, HeaderId, Header(user_header)), lru)

Close ==
  /\ is_open /\ Len(user_header) >= claimed
  /\ file' = ClosedFile
  /\ is_open' = FALSE /\ lru' = Empty /\ usable' = FALSE
  /\ UNCHANGED <<exists, next_id, user_header, claimed>>

\* A new object on the same file.
Construct == /\ is_open' = FALSE /\ next_id' = NoId /\ user_header' = <<>>
             /\ lru' = Empty /\ claimed' = 0 /\ usable' = FALSE

\* The object is destroyed, closed, and another takes its place.
Renew == ~is_open /\ claimed # 0 /\ Construct /\ UNCHANGED <<file, exists>>

\* The program ends while the file is open, and starts again.
Crash == is_open /\ Construct /\ UNCHANGED <<file, exists>>

-----------------------------------------------------------------------------
SetUserHeader(uid, text) ==
  /\ is_open /\ usable /\ uid \in 1 .. Len(user_header)
  /\ user_header' = [user_header EXCEPT ![uid] = text]
  /\ UNCHANGED <<file, exists, is_open, next_id, lru, claimed, usable>>

\* allocId(n): n ids from NextId on.
AllocId(n) ==
  /\ is_open /\ usable /\ NextId + n <= MaxId
  /\ next_id' = NextId + n
  /\ UNCHANGED <<file, exists, is_open, user_header, lru, claimed, usable>>

\* dispose(id, n): only the ids handed out last are taken back; a block in the
\* cache stays there.
Dispose(id, n) ==
  /\ is_open /\ usable
  /\ next_id' = IF NextId = id + n THEN NextId - n ELSE NextId
  /\ UNCHANGED <<file, exists, is_open, user_header, lru, claimed, usable>>

\* What a call on the cache leaves; nextId() has been called on the way.
Leaves(states) ==
  /\ is_open /\ usable
  /\ \E r \in states : file' = r.file /\ lru' = r.lru
  /\ next_id' = NextId
  /\ UNCHANGED <<exists, is_open, user_header, claimed, usable>>

Get(id) == Leaves(Sub(file, lru, id, NextId))
Put(id, d) == Leaves(Replaced(file, lru, id, NextId, d))
Change(id, d) == Leaves(Changed(file, lru, id, NextId, d))

-----------------------------------------------------------------------------
TypeOK ==
  /\ file \in [Id -> Contents \cup HeaderBlock \cup {Beyond}]
  /\ exists \in BOOLEAN /\ is_open \in BOOLEAN /\ usable \in BOOLEAN
  /\ next_id \in 0 .. MaxId \cup {NoId}
  /\ user_header \in Seq(Text \cup {NoText})
  /\ lru \in [Id -> Entries \cup {Absent, NoBlock}]
  /\ claimed \in 0 .. Users
=============================================================================
