---------------------------- MODULE KeyValueStore ----------------------------
(***************************************************************************)
(* milliways::KeyValueStore: byte strings under short keys.  A value is     *)
(* stored as an envelope, a length field followed by its bytes, somewhere   *)
(* in the blocks of one file; a B+tree maps each key to the locator of its  *)
(* envelope.  Envelopes and tree nodes share the block ids of the file.     *)
(*                                                                          *)
(* The tree is the map that module BTree implements, the block storage is   *)
(* a sequence of bytes (module LRUCache shows the cache before it to be     *)
(* transparent), here the file and its cache together.  A byte is named by  *)
(* what was last written to it.  Each public call is one step: the library  *)
(* has no threads and no call of the store is re-entered.                   *)
(***************************************************************************)
EXTENDS Integers, Sequences

CONSTANTS
  Key,              \* keys of at most KEY_MAX_SIZE characters
  Value, Length,    \* values, and how many bytes each has
  BLOCKSIZE,
  LengthFieldSize,  \* sizeof(serialized_value_size_type)
  SizeModulus,      \* size_t counts modulo this number
  Piece,            \* what callers pass as "partial" when they pass a length
  MaxBlock,         \* bound: the file has at most this many blocks
  MaxNewNodes       \* bound: nodes that one insertion into the tree adds

SizesAssumption ==
  /\ BLOCKSIZE \in Nat /\ LengthFieldSize \in 1..BLOCKSIZE
  /\ Length \in [Value -> Nat]
  /\ MaxBlock \in Nat \ {0, 1} /\ MaxNewNodes \in Nat /\ Piece \subseteq Nat \ {0}
  /\ SizeModulus \in Nat /\ MaxBlock * BLOCKSIZE < SizeModulus
  /\ \A v \in Value : Length[v] + LengthFieldSize < SizeModulus

ASSUME SizesAssumption

VARIABLES
  is_open,         \* isOpen()
  tree,            \* m_kv_tree: from keys to locators of envelopes
  nodes,           \* the blocks the tree uses for its nodes
  memory,          \* the bytes of the blocks, by address
  next_id,         \* m_next_block_id of the block storage
  file_blocks,     \* the length of the file once the caches are written to it
  first_block_id,  \* m_first_block_id
  next_location,   \* m_next_location: the free span
  header,          \* the two as last put into the user header
  search,          \* the Search object a caller holds
  answer,          \* what the last call returned
  aborted          \* the assertion that ended the program, or NotAborted

vars == <<is_open, tree, nodes, memory, next_id, file_blocks, first_block_id,
          next_location, header, search, answer, aborted>>

BLOCK_ID_INVALID == -1
NotAborted == "no assertion"

(***************************************************************************)
(* Locators.  Sizes are unsigned: what goes below zero comes out at the top.*)
(***************************************************************************)
DataLocator(b, o) == [block |-> b, offset |-> o]
SizedLocator(b, o, s) == [block |-> b, offset |-> o, size |-> s]
NoLocator == DataLocator(BLOCK_ID_INVALID, 0)
At(l) == l.block * BLOCKSIZE + l.offset

valid(l) == l.block # BLOCK_ID_INVALID /\ l.offset < BLOCKSIZE

normalize(l) ==
  IF l.block = BLOCK_ID_INVALID THEN l
  ELSE [l EXCEPT !.block = l.block + (l.offset \div BLOCKSIZE),
                 !.offset = l.offset % BLOCKSIZE]

Minus(a, b) == (a - b) % SizeModulus

\* Mutant: the offset runs past the end of the block.
ConsumeUnnormalized(l, n) ==
  [l EXCEPT !.size = Minus(l.size, n), !.offset = l.offset + n]

\* Move past n bytes: shrink by n, then advance by n.
consume(l, n) == normalize([l EXCEPT !.size = Minus(l.size, n), !.offset = l.offset + n])

contents_size(l) == Minus(l.size, LengthFieldSize)
contentsLocator(l) == consume(l, LengthFieldSize)

(***************************************************************************)
(* Bytes.                                                                   *)
(***************************************************************************)
Zero == [at |-> 0]
Bytes(v) == [i \in 1..Length[v] |-> [value |-> v, at |-> i]]
LengthField(n) == [i \in 1..LengthFieldSize |-> [length |-> n, at |-> i]]
Address == 0 .. (MaxBlock * BLOCKSIZE - 1)

Stored(a, n) == [i \in 1..n |-> memory[a + i - 1]]
Overlay(m, a, s) ==
  [x \in DOMAIN m |-> IF x \in a .. (a + Len(s) - 1) THEN s[x - a + 1] ELSE m[x]]

\* The number in the length field at address a.  A field other bytes were
\* written over decodes to some number: 0 stands for it.
LengthAt(a) ==
  IF "length" \in DOMAIN memory[a] /\ Stored(a, LengthFieldSize) = LengthField(memory[a].length)
  THEN memory[a].length ELSE 0

Amount(v) == Length[v] + LengthFieldSize

\* write(): nothing is written if the locator is too small for the bytes.
Fits(l, v) == contentsLocator(l).size >= Length[v]
WriteEnvelope(l, v) ==
  LET headed == Overlay(memory, At(l), LengthField(Length[v]))
  IN IF Fits(l, v) THEN Overlay(headed, At(contentsLocator(l)), Bytes(v)) ELSE headed

\* Mutant: only the block of the length field is written.
LastBlockOfField(l, v) == At(l) \div BLOCKSIZE

\* The blocks that writing v at l brings into the file.
LastBlock(l, v) == (At(l) + Amount(v) - 1) \div BLOCKSIZE

(***************************************************************************)
(* The tree, as far as it takes part here: it creates its root the first    *)
(* time it is searched, and insertions may split nodes.                     *)
(***************************************************************************)
Present(k) == tree[k] # NoLocator
NodesAfterSearch == IF nodes = {} THEN {next_id} ELSE nodes
IdAfterSearch == IF nodes = {} THEN next_id + 1 ELSE next_id

\* Ids from, from + 1, ... become n new nodes.
AddNodes(from, n) ==
  /\ nodes' = NodesAfterSearch \cup (from .. (from + n - 1))
  /\ next_id' = from + n
  /\ next_id' <= MaxBlock

\* The file reaches block b, and every node of the tree.
ReachBlock(b) ==
  LET ends == {file_blocks, b + 1} \cup {id + 1 : id \in nodes'}
  IN file_blocks' = CHOOSE e \in ends : \A f \in ends : f <= e

SearchTree ==
  /\ nodes' = NodesAfterSearch
  /\ next_id' = IdAfterSearch
  /\ ReachBlock(0)

Running == is_open /\ aborted = NotAborted
Answer(call, ok, bytes) == answer' = [call |-> call, ok |-> ok, value |-> bytes]

(***************************************************************************)
(* Allocation.  The free span serves a request it is large enough for; for  *)
(* any other it is abandoned for a new span of whole blocks.                *)
(***************************************************************************)
\* Mutant: a size that fills its blocks gets one more.
SizeInBlocksPlusOne(size) == size \div BLOCKSIZE + 1

size_in_blocks(size) == (size + BLOCKSIZE - 1) \div BLOCKSIZE

\* Mutant: the length field is forgotten.
NeedsSpanForContents(amount) ==
  ~ valid(next_location) \/ next_location.size < amount - LengthFieldSize

NeedsSpan(amount) == ~ valid(next_location) \/ next_location.size < amount

SpanFor(amount) ==
  IF NeedsSpan(amount)
  THEN SizedLocator(IdAfterSearch, 0, size_in_blocks(amount) * BLOCKSIZE)
  ELSE next_location

\* Mutant: allocId() called without the number of blocks.
IdAfterAllocOfOne(amount) ==
  IF NeedsSpan(amount) THEN IdAfterSearch + 1 ELSE IdAfterSearch

IdAfterAlloc(amount) ==
  IF NeedsSpan(amount) THEN IdAfterSearch + size_in_blocks(amount) ELSE IdAfterSearch

alloc_value_envelope(amount) ==
  /\ next_location' = consume(SpanFor(amount), amount)
  /\ first_block_id' = IF NeedsSpan(amount) /\ first_block_id = BLOCK_ID_INVALID
                       THEN IdAfterSearch ELSE first_block_id

\* What find() makes of the locator of a stored key.
EnvelopeOf(k) ==
  SizedLocator(tree[k].block, tree[k].offset, LengthAt(At(tree[k])) + LengthFieldSize)

\* The envelope put() gets for a value it allocates space for.
NewEnvelope(v) ==
  SizedLocator(SpanFor(Amount(v)).block, SpanFor(Amount(v)).offset, Amount(v))

-----------------------------------------------------------------------------
(***************************************************************************)
(* put()                                                                    *)
(***************************************************************************)
\* The key is stored and the caller does not want it overwritten.
PutRefused(k) ==
  /\ Running /\ Present(k)
  /\ SearchTree /\ Answer(<<"put if new", k>>, FALSE, <<>>)
  /\ UNCHANGED <<is_open, tree, memory, first_block_id, next_location, header, search, aborted>>

\* Mutant: the length is compared with the size of the whole envelope.
PutInPlaceOfEnvelope(k, v) ==
  /\ Running /\ Present(k)
  /\ Length[v] <= EnvelopeOf(k).size
  /\ memory' = WriteEnvelope(EnvelopeOf(k), v)
  /\ SearchTree /\ Answer(<<"put", k, v>>, Fits(EnvelopeOf(k), v), <<>>)
  /\ UNCHANGED <<is_open, tree, first_block_id, next_location, header, search, aborted>>

\* The new value is no longer than the stored one and takes its place.
PutInPlace(k, v) ==
  /\ Running /\ Present(k)
  /\ Length[v] <= contents_size(EnvelopeOf(k))
  /\ memory' = WriteEnvelope(EnvelopeOf(k), v)
  /\ SearchTree /\ Answer(<<"put", k, v>>, Fits(EnvelopeOf(k), v), <<>>)
  /\ UNCHANGED <<is_open, tree, first_block_id, next_location, header, search, aborted>>

\* Space is allocated, written, and then entered into the tree.
PutAllocated(k, v) ==
  /\ memory' = WriteEnvelope(NewEnvelope(v), v)
  /\ alloc_value_envelope(Amount(v))
  /\ tree' = [tree EXCEPT ![k] = DataLocator(NewEnvelope(v).block, NewEnvelope(v).offset)]
  /\ ReachBlock(LastBlock(NewEnvelope(v), v))
  /\ Answer(<<"put", k, v>>, Fits(NewEnvelope(v), v), <<>>)
  /\ UNCHANGED <<is_open, header, search, aborted>>

\* The new value is longer: the tree is updated, the old envelope abandoned.
PutLonger(k, v) ==
  /\ Running /\ Present(k)
  /\ Length[v] > contents_size(EnvelopeOf(k))
  /\ AddNodes(IdAfterAlloc(Amount(v)), 0)
  /\ PutAllocated(k, v)

\* The key is new: it is inserted into the tree, which may add n nodes.
PutNew(k, v, n) ==
  /\ Running /\ ~ Present(k)
  /\ AddNodes(IdAfterAlloc(Amount(v)), n)
  /\ PutAllocated(k, v)

(***************************************************************************)
(* has(), get(), rename()                                                   *)
(***************************************************************************)
Has(k) ==
  /\ Running
  /\ SearchTree /\ Answer(<<"has", k>>, Present(k), <<>>)
  /\ UNCHANGED <<is_open, tree, memory, first_block_id, next_location, header, search, aborted>>

Contents(l) == Stored(At(contentsLocator(l)), contents_size(l))

Get(k) ==
  /\ Running
  /\ SearchTree
  /\ Answer(<<"get", k>>, Present(k), IF Present(k) THEN Contents(EnvelopeOf(k)) ELSE <<>>)
  /\ UNCHANGED <<is_open, tree, memory, first_block_id, next_location, header, search, aborted>>

RenameMissing(old, new) ==
  /\ Running /\ ~ Present(old)
  /\ SearchTree /\ Answer(<<"rename", old, new>>, FALSE, <<>>)
  /\ UNCHANGED <<is_open, tree, memory, first_block_id, next_location, header, search, aborted>>

\* The new key is inserted with the locator of the old one, then the old one
\* removed.
Rename(old, new, n) ==
  /\ Running /\ Present(old) /\ ~ Present(new)
  /\ AddNodes(IdAfterSearch, n)
  /\ ReachBlock(0)
  /\ tree' = [tree EXCEPT ![new] = tree[old], ![old] = NoLocator]
  /\ Answer(<<"rename", old, new>>, TRUE, <<>>)
  /\ UNCHANGED <<is_open, memory, first_block_id, next_location, header, search, aborted>>

\* A key longer than KEY_MAX_SIZE: every one of these calls refuses it.
RefuseLongKey ==
  /\ Running
  /\ Answer(<<"long key">>, FALSE, <<>>)
  /\ UNCHANGED <<is_open, tree, nodes, memory, next_id, file_blocks, first_block_id,
                 next_location, header, search, aborted>>

(***************************************************************************)
(* find() into a Search, and get() of the value through it, piece by piece. *)
(***************************************************************************)
Find(k) ==
  /\ Running
  /\ SearchTree /\ Answer(<<"find", k>>, Present(k), <<>>)
  /\ search' = IF Present(k) THEN [found |-> TRUE, loc |-> EnvelopeOf(k)]
               ELSE [found |-> FALSE, loc |-> [search.loc EXCEPT !.block = BLOCK_ID_INVALID]]
  /\ UNCHANGED <<is_open, tree, memory, first_block_id, next_location, header, aborted>>

\* For a key that is too long the lookup is left as it was.
FindLongKey ==
  /\ Running
  /\ search' = [search EXCEPT !.loc.block = BLOCK_ID_INVALID]
  /\ Answer(<<"long key">>, FALSE, <<>>)
  /\ UNCHANGED <<is_open, tree, nodes, memory, next_id, file_blocks, first_block_id,
                 next_location, header, aborted>>

Streaming == Running /\ search.found /\ valid(search.loc) /\ contents_size(search.loc) > 0

\* Nothing was found, or nothing is left.
StreamNothing ==
  /\ Running
  /\ search.found => valid(search.loc) /\ contents_size(search.loc) = 0
  /\ Answer(<<"piece">>, FALSE, <<>>)
  /\ UNCHANGED <<is_open, tree, nodes, memory, next_id, file_blocks, first_block_id,
                 next_location, header, search, aborted>>

\* block_get() has a block to give for every one of n bytes.
BlocksExist(l, n) == (At(contentsLocator(l)) + n - 1) \div BLOCKSIZE < next_id

\* The next n bytes: read, and the locator moved on.
Stream(n) ==
  /\ Streaming /\ BlocksExist(search.loc, n)
  /\ Answer(<<"piece">>, TRUE, Stored(At(contentsLocator(search.loc)), n))
  /\ search' = [search EXCEPT !.loc = consume(search.loc, n)]
  /\ UNCHANGED <<is_open, tree, nodes, memory, next_id, file_blocks, first_block_id,
                 next_location, header, aborted>>

-----------------------------------------------------------------------------
(***************************************************************************)
(* close() and open().  The store opened next is the same object, or a new  *)
(* one, whose block ids start at the end of the file.                       *)
(***************************************************************************)
header_write == header' = [first |-> first_block_id, next |-> next_location]
header_read == first_block_id' = header.first /\ next_location' = header.next

Close ==
  /\ Running
  /\ is_open' = FALSE /\ header_write /\ Answer(<<"close">>, TRUE, <<>>)
  /\ UNCHANGED <<tree, nodes, memory, next_id, file_blocks, first_block_id,
                 next_location, search, aborted>>

Open(new_object) ==
  /\ ~ is_open /\ aborted = NotAborted
  /\ is_open' = TRUE /\ header_read /\ Answer(<<"open">>, TRUE, <<>>)
  /\ next_id' = IF new_object THEN file_blocks ELSE next_id
  /\ UNCHANGED <<tree, nodes, memory, file_blocks, header, search, aborted>>

(***************************************************************************)
(* Calls that run into an assertion.                                        *)
(***************************************************************************)
Abort(assertion) ==
  /\ aborted' = assertion
  /\ UNCHANGED <<is_open, tree, nodes, memory, next_id, file_blocks, first_block_id,
                 next_location, header, search, answer>>

\* The tree finds the new key at the leaf where it was to insert it.
RenameOntoStored(old, new) ==
  Running /\ Present(old) /\ Present(new) /\ Abort("key is not in the leaf")

\* The lookup still has a key found earlier, the locator has been invalidated.
StreamInvalid ==
  Running /\ search.found /\ ~ valid(search.loc) /\ Abort("found is valid")

\* The bytes asked for go on past the last block there is.
StreamPastFile(n) ==
  Streaming /\ ~ BlocksExist(search.loc, n) /\ Abort("block exists")

-----------------------------------------------------------------------------
EmptyHeader ==
  [first |-> BLOCK_ID_INVALID, next |-> SizedLocator(BLOCK_ID_INVALID, 0, 0)]

\* A store just opened on a file that did not exist: block 0 is the header of
\* the block storage.
Init ==
  /\ is_open = TRUE /\ aborted = NotAborted
  /\ tree = [k \in Key |-> NoLocator] /\ nodes = {}
  /\ memory = [a \in Address |-> Zero]
  /\ next_id = 1 /\ file_blocks = 1
  /\ header = EmptyHeader
  /\ first_block_id = EmptyHeader.first /\ next_location = EmptyHeader.next
  /\ search = [found |-> FALSE, loc |-> SizedLocator(BLOCK_ID_INVALID, 0, 0)]
  /\ answer = [call |-> <<"open">>, ok |-> TRUE, value |-> <<>>]

\* Every call the interface allows.
Next ==
  \/ \E k \in Key : PutRefused(k) \/ Has(k) \/ Get(k) \/ Find(k)
  \/ \E k \in Key, v \in Value :
        PutInPlace(k, v) \/ PutLonger(k, v) \/ \E n \in 0..MaxNewNodes : PutNew(k, v, n)
  \/ \E old, new \in Key :
        \/ RenameMissing(old, new) \/ RenameOntoStored(old, new)
        \/ \E n \in 0..MaxNewNodes : Rename(old, new, n)
  \/ RefuseLongKey \/ FindLongKey
  \/ StreamNothing \/ StreamInvalid
  \/ \E n \in Piece \cup {contents_size(search.loc)} : Stream(n) \/ StreamPastFile(n)
  \/ Close \/ \E new_object \in BOOLEAN : Open(new_object)

Spec == Init /\ [][Next]_vars

-----------------------------------------------------------------------------
Size == 0 .. (SizeModulus - 1)
Cell == {Zero} \cup [value : Value, at : Nat]
               \cup [length : 0 .. (SizeModulus - 1 - LengthFieldSize), at : Nat]
Offset == 0 .. (BLOCKSIZE - 1)
Locators == [block : Nat \cup {BLOCK_ID_INVALID}, offset : Offset]
SizedLocators == [block : Nat \cup {BLOCK_ID_INVALID}, offset : Offset, size : Size]

\* The type invariant.  Every locator that is kept has been normalized: its
\* offset lies in its block, as the file format, which keeps 16 bits of it,
\* takes for granted.
TypeOK ==
  /\ is_open \in BOOLEAN
  /\ tree \in [Key -> Locators]
  /\ nodes \subseteq 1..(next_id - 1)
  /\ memory \in [Address -> Cell]
  /\ next_id \in 1..MaxBlock /\ file_blocks \in 1..MaxBlock
  /\ first_block_id \in Nat \cup {BLOCK_ID_INVALID}
  /\ next_location \in SizedLocators
  /\ header \in [first : Nat \cup {BLOCK_ID_INVALID}, next : SizedLocators]
  /\ search \in [found : BOOLEAN, loc : SizedLocators]
  /\ DOMAIN answer = {"call", "ok", "value"} /\ answer.ok \in BOOLEAN

\* What the code asserts of rename(): insertion finds that the new key is not in
\* the leaf (BTreeNode.impl.hpp 240).
RenameTargetIsNew == aborted # "key is not in the leaf"
=============================================================================
