--------------------------- MODULE KeyValueHistory ---------------------------
(***************************************************************************)
(* KeyValueStore with two history variables: the extents the allocator has  *)
(* granted, and what the stream a caller holds has been promised.  The      *)
(* calls are those of a careful caller: it renames onto new keys only,      *)
(* streams from a Search whose last find() had a key that is not too long,  *)
(* and asks for no more than is left.                                       *)
(***************************************************************************)
EXTENDS KeyValueStore, FiniteSets

CONSTANT NoKey  \* the stream is tied to no key

VARIABLES
  granted,  \* the extents given to values so far, abandoned ones included
  stream    \* the state of the stream, the key it comes from, what is left

hvars == <<vars, granted, stream>>

Extent(l) == [at |-> At(l), size |-> l.size]
NoStream == [state |-> "none", source |-> NoKey, rest |-> <<>>]

HInit == Init /\ granted = {} /\ stream = NoStream

Grant(v) == granted' = granted \cup {Extent(NewEnvelope(v))}

\* A call that changes no byte and no locator a stream depends on.
HQuiet(k) ==
  /\ PutRefused(k) \/ Has(k) \/ Get(k) \/ \E new \in Key : RenameMissing(k, new)
  /\ UNCHANGED <<granted, stream>>

\* Writing over the envelope spoils a stream that reads from it.
HPutInPlace(k, v) ==
  /\ PutInPlace(k, v)
  /\ stream' = IF stream.source = k THEN [stream EXCEPT !.state = "spoilt", !.rest = <<>>]
               ELSE stream
  /\ UNCHANGED granted

\* The old envelope is abandoned and keeps its bytes: the stream reads on.
HPutLonger(k, v) ==
  /\ PutLonger(k, v) /\ Grant(v)
  /\ stream' = IF stream.source = k THEN [stream EXCEPT !.source = NoKey] ELSE stream

HPutNew(k, v, n) == PutNew(k, v, n) /\ Grant(v) /\ UNCHANGED stream

HRename(old, new, n) ==
  /\ Rename(old, new, n)
  /\ stream' = IF stream.source = old THEN [stream EXCEPT !.source = new] ELSE stream
  /\ UNCHANGED granted

HFind(k) ==
  /\ Find(k)
  /\ stream' = IF Present(k)
               THEN [state |-> "live", source |-> k, rest |-> Contents(EnvelopeOf(k))]
               ELSE NoStream
  /\ UNCHANGED granted

HStream(n) ==
  /\ n <= contents_size(search.loc) /\ Stream(n)
  /\ stream' = IF stream.state = "live"
               THEN [stream EXCEPT !.rest = SubSeq(stream.rest, n + 1, Len(stream.rest))]
               ELSE stream
  /\ UNCHANGED granted

HOther ==
  /\ RefuseLongKey \/ StreamNothing \/ Close \/ \E new_object \in BOOLEAN : Open(new_object)
  /\ UNCHANGED <<granted, stream>>

HNext ==
  \/ \E k \in Key : HQuiet(k) \/ HFind(k)
  \/ \E k \in Key, v \in Value :
        HPutInPlace(k, v) \/ HPutLonger(k, v) \/ \E n \in 0..MaxNewNodes : HPutNew(k, v, n)
  \/ \E old, new \in Key, n \in 0..MaxNewNodes : HRename(old, new, n)
  \/ \E n \in Piece \cup {contents_size(search.loc)} : HStream(n)
  \/ HOther

HSpec == HInit /\ [][HNext]_hvars

-----------------------------------------------------------------------------
End(e) == e.at + e.size
Apart(e, f) == End(e) <= f.at \/ End(f) <= e.at
BlockExtent(b) == [at |-> b * BLOCKSIZE, size |-> BLOCKSIZE]

\* The span the allocator goes on with: the one in use, or, in a closed store,
\* the one that the next open() reads from the header.  Where there is none
\* the extent is empty.
FreeLocation == IF is_open THEN next_location ELSE header.next
FreeSpan == IF valid(FreeLocation) THEN Extent(FreeLocation) ELSE [at |-> 0, size |-> 0]

\* No two values, live or abandoned, share a byte, nor does a value with a
\* node of the tree, the header block or the free span.  Values and nodes draw
\* ids from one counter (alloc_value_envelope, node_alloc_id), the counter of a
\* new object comes from the length of the file, the span from the header.
SpaceDisjoint ==
  /\ \A e, f \in granted : e # f => Apart(e, f)
  /\ \A e \in granted, b \in nodes \cup {0} : Apart(e, BlockExtent(b))
  /\ \A e \in granted : Apart(e, FreeSpan)
  /\ \A b \in nodes \cup {0} : Apart(FreeSpan, BlockExtent(b))

\* What the code asserts of locators: find() reads a length field that lies in
\* one block, that block exists, and a value that fits a block is never
\* allocated across two (KeyValueStore.impl.hpp 249, 260, 297, 728).
LocatorAssertions ==
  /\ \A k \in Key : Present(k) =>
        /\ valid(tree[k]) /\ tree[k].offset + LengthFieldSize <= BLOCKSIZE
        /\ tree[k].block < next_id
  /\ is_open => \A v \in Value : Amount(v) <= BLOCKSIZE =>
        SpanFor(Amount(v)).offset <= BLOCKSIZE - Amount(v)

\* The file, once written, holds every block that values, nodes and the free
\* span lie in: the ids a new object hands out, from the end of the file on,
\* are in use by none of them (_updateCount, BlockStorage.impl.hpp 281).
FileHoldsAll ==
  /\ \A e \in granted : End(e) <= file_blocks * BLOCKSIZE
  /\ \A b \in nodes : b < file_blocks
  /\ End(FreeSpan) <= file_blocks * BLOCKSIZE

\* What is left of a value that is being streamed lies in blocks that exist, so
\* that a caller who asks for no more than is left never meets the assertion of
\* read() (KeyValueStore.impl.hpp 614): not after puts that reuse or abandon
\* the envelope, nor when the store is reopened under the Search.
StreamInFile == Running /\ Streaming => BlocksExist(search.loc, contents_size(search.loc))
=============================================================================
