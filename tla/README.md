# Verification of milliways

TLA+ modules, TLC configurations and TLAPS proofs for milliways, a header-only
C++ library: a key-value store in one file, built from a B+tree of keys, a heap of
values, a block storage and two write-back caches. The library is single
threaded. What is hard in it is not concurrency but state kept in several places
at once (a block in the file, in the block cache, as a node in the node cache, and
as a pointer in the hands of a caller), sequences of legal calls that bring those
copies apart, arithmetic at the edges of arrays and blocks, and the fact that the
file is only consistent after `close()`.

## 1. Inventory

| Component (source) | State | Operations | Correct when |
|---|---|---|---|
| `ordered_map` (`ordered_map.h`, `.impl.hpp`) | a map, and a deque of its keys in insertion order | `operator[]`, `find`, `pop`, `pop_front`, `pop(key)` | deque and map hold the same keys, each once |
| `LRUCache` (`LRUCache.h`, `.impl.hpp`) | an `ordered_map`; L1: 16 slots with a key and a raw pointer into the map, filled round robin | `get`, `set`, `operator[]`, `del`, `evict`, `evict_all`, `clear`, `pop`; calls `on_miss`, `on_eviction` | reads see the last write whatever was evicted or fetched in between; no L1 pointer dangles; an entry in use is not evicted |
| `LRUBlockCache`, `LRUNodeCache` (`BlockStorage.h`, `BTreeFileStorage.h`) | none of their own | `on_miss` reads a block or a node, `on_eviction` writes it back | see `LRUCache` |
| `BTreeNode` (`BTreeNode.h`, `.impl.hpp`) | fixed arrays of keys, values, children; count, rank, leaf flag, parent, left, right | `search`, `insert_non_full`, `split_child`, `remove` | keys ordered, splits lose nothing |
| `BTree` (`BTree.h`, `.impl.hpp`) | the root, through its storage | `insert`, `update`, `search`, `remove` | it is a sorted map; all leaves on one level; leaves chained in key order |
| `BTree::iterator` | root it was made with, leaf, position, key read, direction, end flag | `rewind`, `next`, `prev`, `operator==` | yields the keys in order, each once; a loop over it ends |
| `BTreeStorage`, `BTreeMemoryStorage` | root id, number of nodes, created flag, attached tree | `attach`, `detach`, `open`, `close`, node allocation | a storage serves one tree and survives open/close in any order |
| `BTreeFileStorage` (`BTreeFileStorage.h`, `.impl.hpp`) | node cache over a block storage; a user header with B, size, root | nodes to blocks and back, header | a node read is the node written, whichever cache it went through |
| `FileBlockStorage` (`BlockStorage.h`, `.impl.hpp`) | the file, block count, next id, block cache, user headers | `allocUserHeader`, `allocId`, `dispose`, `get`, `put`, `read`, `write`, `open`, `close` | ids are handed out once; close and open give everything back; what a program that ends without closing leaves in the file is the last close and blocks put since |
| `KeyValueStore` (`KeyValueStore.h`, `.impl.hpp`) | tree from keys to locators; first block, the free span of the last allocation | `put`, `get`, streaming `get`, `find`, `rename`, `open`, `close`, iterators | `get` returns what was put; values do not overlap one another or the nodes |
| `Seriously` (`Seriously.h`, `.impl.hpp`) | `Packer`: a buffer, a write and a read pointer, what is left for each, an error flag | `<<`, `>>`, `data`, `rewind`; `Traits<T>` | unpacking gives back what was packed or reports an error; no pointer leaves the buffer |
| `Utils` (`Utils.h`, `.impl.hpp`) | the class `shptr`, where there is no standard one | `hexdump` | |

Interaction. `KeyValueStore` calls `BTree`, and `BlockStorage` for the values.
`BTree` and `BTreeNode` fetch every node by id from the storage (`node_get`,
`this_node`), which goes through `LRUNodeCache`; a miss there reads a block through
`FileBlockStorage::get`, which goes through `LRUBlockCache`; evictions go the same
way back as callbacks. Values and nodes share the block ids of one file. Headers
travel as strings from the tree and the store to the block storage, and to the file
at `close()`.

The hazards in detail, each at its line, are in `PROJECT.json`.

What is not modelled, and why, is in section 6.

## 2. Modules

| Module | Models | Composes |
|---|---|---|
| `LRUCache` | `LRUCache<SIZE, Key, T>`, the `ordered_map` in it, the hooks and the store behind them | |
| `WriteBackMap` | abstract: a map whose contents reach a store at times of its own choosing | |
| `LRURecency` | `LRUCache` with the history variable `age` | extends `LRUCache` |
| `LRURefinement` | the mapping from `LRUCache` to `WriteBackMap` | extends `LRUCache` |
| `MCLRUCache`, `MCLRURecency` | TLC instances | |
| `LRUCacheProofs` | theorems about `LRUCache` and `LRURecency`, and that the first implements `WriteBackMap` | extends `LRURecency`, `LRURefinement` |
| `SortedMap` | abstract: a map with one outstanding request | |
| `BTree` | `BTree` and `BTreeNode` over `BTreeMemoryStorage` | |
| `BTreeIterator` | `BTree::iterator` over a tree that changes; `AddSpec` over one that is only added to | extends `BTree` |
| `BTreeRefinement` | the mapping from `BTree` to `SortedMap` | extends `BTree` |
| `MCBTree`, `MCBTreeDeep` | TLC instances, two scenarios for deep trees | |
| `BTreeProofs` | theorems about `BTree`, and that it implements `SortedMap` | extends `BTreeRefinement` |
| `BTreeIteratorProofs` | theorems about `BTreeIterator` over a tree that is only added to | extends `BTreeIterator`, `BTreeProofs` |
| `BTreeStorage` | trees and storages: construction, `attach`, `detach`, `BTree::storage`, `open`, `close`, destruction | |
| `StorageHistory` | with the root the tree in the file ought to have | extends `BTreeStorage` |
| `MCBTreeStorage` | TLC instance | |
| `BTreeStorageProofs` | theorems about both | extends `StorageHistory` |
| `BTreeFileStorage` | nodes held by pointer above the node cache, under the operations of the tree | relies on `LRURecency` and `DurableBlocks` |
| `MCNodes` | TLC instance | |
| `BTreeFileStorageProofs` | theorems about `BTreeFileStorage` | extends `BTreeFileStorage` |
| `BlockStorage` | `FileBlockStorage`: ids, file, block cache, user headers, `open`, `close`, a program that ends while the file is open | |
| `BlockHistory` | the storage under users that keep to its rules | extends `BlockStorage` |
| `DurableBlocks` | abstract: blocks and headers that a close makes permanent together | |
| `BlockRefinement` | the mapping from `BlockHistory` to `DurableBlocks` | |
| `MCBlockStorage` | TLC instance | |
| `BlockStorageProofs` | theorems about `BlockHistory`, and that it implements `DurableBlocks` | extends `BlockRefinement` |
| `KeyValueMap` | abstract: a map from keys to byte strings, and one stream | |
| `KeyValueStore` | `KeyValueStore` over the bytes, blocks and ids of its file | |
| `KeyValueHistory` | the store under a careful caller, with the extents granted and the promise made to a stream | extends `KeyValueStore` |
| `KeyValueRefinement` | the mapping from `KeyValueHistory` to `KeyValueMap` | extends `KeyValueHistory` |
| `MCKeyValueStore`, `MCKeyValueCalls` | TLC instances | |
| `KeyValueProofs` | theorems about `KeyValueHistory`, and that it implements `KeyValueMap` | extends `KeyValueRefinement` |
| `Packer` | `Packer` and `Traits<T>`, byte for byte | |
| `BlockFormat` | the bytes of nodes and of the header block, `Compute_Max_B` | extends `Packer` |
| `MCPacker` | TLC instance of both | |
| `BlockFormatProofs` | theorems about `Packer` and `BlockFormat`, and that the second takes only steps of the first | extends `BlockFormat` |

How the layers meet. A module takes the layer below it as what that layer was shown to
be: `BTree` works on nodes that read back as they were written, which is what
`BTreeFileStorage` shows of them; that module in turn takes from the cache the window of
`SurvivalWindow` and from the blocks what `DurableBlocks` promises; `BlockStorage` takes
from its cache that it is a `WriteBackMap`; `KeyValueStore` takes the tree to be a
`SortedMap` that consumes ids. That a node or a header survives its way through bytes is
`BlockFormat`.

### LRUCache

`cache.keys` is the deque `m_keys`, `cache.map` the map, `cache.l1` the two L1 arrays
in one, `cache.last` is `m_l1_last`; `backing` is what the hooks read and write. A
pointer in L1 is modelled by what it designates: nothing, the entry of its key, or an
entry that has been erased; reading through the last kind may yield anything. An
operation is one step, since no hook of the two caches re-enters the same cache, and
each path through an operation (hit in L1, hit in the map, miss) is an action of its
own: `GetFromL1`, `GetFromMap`, `GetFromStore` and so on. `Assign` is the caller
writing through the reference `operator[]` returned; the model lets it do so only
before the next operation, as the callers in `src/` do. `Extend` is the storage
handing out an id, or another writer lengthening the file. Entries are compared by
contents. A hit in L1 does not move the entry in the deque, so the entry `evict()`
takes need not be the least recently used one that `LRUCache.h:80` speaks of;
`DriftBound` and `SurvivalWindow` say what does hold. That two
pointers may share one object is the subject of `BTreeFileStorage`.

### BTree

A node keeps the layout of the code: arrays of fixed size and a count `n`; what lies
beyond `n` is stale and stays there, which matters to the iterator. `search`,
`insert_non_full` and `remove` recurse from node to node: in the model `op` is the
operation under way and the node it has reached, and each level is a step (`Descend`,
`SplitFullChild`, then one of the leaf actions). That leaves the intermediate
states of a descent visible to the invariants. `bsearch` is modelled by the boundary it
finds; `split_child` is one step (`SplitChild`), since nothing can observe its middle
in memory. `insert` requires an absent key, which the code asserts at the leaf.

### BTreeIterator

`it` holds what the iterator holds: the root it was made with (`m_root`), which an insertion may
have put another one over since, and the key it read at its last move. `Rewind` is `begin()`
and `rbegin()`, `RewindEmpty` the same on a tree without a root, `Again` and `Stop` are
`rewind(false)` and `rewind(true)` called once more; `Again` starts from the iterator's own root,
which is not the tree's if that has grown. Reading position -1 (backwards into an empty leaf)
is an access before the array: any key may come of it. Iterator steps happen between
operations of the tree. `EqualsEnd` is `operator==` with `tree.end()` or `tree.rend()`: both
iterators have ended, and their roots are the same; the `m_root` of `end()` is the root of the moment of
the call (`BTree.h:134`, `161`). The comparison of iterators that have not ended, and with it
`m_first_node`, is left out. A pointer to a node is its id: that is so with the storage in
memory, which keeps one object per node; with the storage on a file, a root that was evicted and
read again is another object, and iterators with the two do not compare equal either.
`Fairness` is explained in section 3.

### BTreeStorage

Tree and storage point at one another, and nearly every call changes both. A call is a
function from a record of what all objects are (`Now`) to another (`Opened`, `Closed`,
`Detached`, `Attached`, `WithStorage`, composed as the code calls them), and an action
makes the variables that record (`Become`). A failing assertion is a record with
`abort`; after it nothing happens. The storage in memory goes by `created()` for being open
(`BTree.h:429`), the one on the file by its block storage. `Operate` is any operation of
the tree, as far as the storage sees it: it calls `root()`, which allocates a node the
first time and afterwards asserts that there is one. All file storages are objects on one
file, of which one is open at a time; some may be compiled for another degree. The count
of nodes and `m_next_id`, which nothing decides on, are left out.

### BTreeFileStorage

What matters of a node object is only whether it has all the changes that were made to its
node (`latest`, `behind`), or comes from a block that was never written (`unwritten`). The
operations of the tree are walks over the pieces of `Script`, each the sequence of accesses
(`get`, `put`, `alloc`) and writes through a pointer (`change`) that a stretch of
`split_child`, `insert_non_full`, `remove`, `search` or `update` makes; `Follows` says which
piece may come next. Every pointer variable of those functions is kept, `this_node()`
included, together with the object it designates: the one in the cache, or one that the
cache has let go of. The cache may evict any entry but the last `Window` accessed, which is
what the theorem `Survival` says of it, with `Window` the capacity of the node cache (1024)
less the L1 slots (16). The least window a split can live with is 2, and that is the one
checked; the comment at `WindowAssumption` says what happens at 1.

### BlockStorage

`file` holds the blocks, `Beyond` past its end; `lru` is the block cache with its entries,
their dirty marks and the empty pointers `on_miss` leaves for unknown ids. The cache evicts
whatever it likes (`Room`): `LRUCache` says which, and nothing here depends on it. The
functions of file and cache (`Write`, `WriteBack`, `Sub`, `Replaced`, `Changed`) return the
set of what may come of a call. `open()` has three paths: a new file (`Create`), a file with
a block 0 (`OpenFile`; it may be all zeros, if a crash came before the first close), and an
empty file (`OpenEmptyFile`, where the answer is no and the storage stays open). `Close`
writes the header block past the cache, then the cache. The file outlives the object:
`Renew` puts a new object on it after a close, `Crash` in the middle of a session. The file
system is assumed to write what it is told, in that order; a write that is torn or delayed
by the operating system is not modelled, nor is a crash inside a call.

`BlockHistory` restricts the callers to ids they were given, and keeps which blocks are
stored, what the last close saved, and what was put since. `DurableBlocks` says what such a
caller may rely on. It is a promise with a gap that the code really has: after a crash
headers are those of the last close, while each block by itself may be newer. So a tree
root or a free span in the header may be older than the nodes and values it leads to.

### KeyValueStore

The store is modelled down to the byte. `memory` is the file and its block cache
together, one cell per byte; a cell is named by what was last written to it (byte i of
value v, byte i of a length field), so that a length field is decoded from the bytes
that are there, and one written over is no longer a length. `tree` is the B+tree as
the map module `BTree` shows it to be; of its inside only what touches the store is
kept: the first search creates the root and takes an id, an insertion may take up to
`MaxNewNodes` more. `next_id` is the counter of the block storage, which values and nodes
share; `file_blocks` the length of the file once caches are written back, from which a
new object goes on counting (`Open(TRUE)`), while the object that closed the file keeps
its counter (`Open(FALSE)`). `next_location` is the free span, `header` what
`header_write` put away, `search` the `Search` object a caller streams from. Sizes are
unsigned and wrap (`Minus`).

A public call is one step; its paths are actions of their own (`PutRefused`,
`PutInPlace`, `PutLonger`, `PutNew`). The model is of a program with assertions on, as
`CMakeLists.txt` leaves them: a call that runs into one is a step to a state in which
`aborted` names it and nothing more happens. `Next` has every call the interface
allows. `HNext` is the part of it a careful caller uses: renaming onto new keys only,
streaming from a `Search` whose last `find()` had a key of legal length, and asking for no
more than is left. The history variable `granted` keeps every extent the allocator gave
out, `stream` what the caller of a stream is still owed.

`KeyValueMap` promises that a get returns the string last put, and that a stream
delivers the string its key had when it was opened, in order and without a gap, through
renames, reopenings and puts of other keys. A put to the streamed key itself either
leaves the stream its old string or spoils it (which of the two depends on lengths the
abstract map knows nothing of); after that the stream may deliver anything.

### Packer and BlockFormat

`Packer` has the pointers, counts and the error flag of the class; `operator<<` and `>>` are
`Pack` and `Unpack`, with the order of their tests, `Load` is `data()`, whole or cut off. A
byte has `Base` values, and all widths are those of the C++ types; numbers are laid out
little-endian in memory and reversed by `htons` and `htonl`, `htonll` is put together from
halves as in the code. `packed` and `got` are histories: what was packed, and what has been
read since the contents were last rewound. What a failed `>>` leaves in the counts is kept.
`BlockFormat` adds nodes and header blocks as sequences of packed fields, written over
whatever the block held before.

## 3. Runs

| Run | Instance | Shows |
|---|---|---|
| `lru_refines` | 3 keys, 2 values, capacity 2, 2 L1 slots, every initial file | type, `LevelsCoherent`, and the refinement `ImplementsWriteBackMap` |
| `lru_recency` | 4 keys, capacity 3, 2 L1 slots | `VictimNotInL1`, `SurvivalWindow` |
| `btree_map` | B = 2, 4 keys, 2 values, all operations | type, the refinement `ImplementsSortedMap`, no deadlock |
| `btree_deep` | B = 2; 10 keys inserted, at most 11 nodes; 7 keys, at most 8 nodes, removals once there are three levels | `Balanced`, `EveryKeyReachable`, `InsertAssertions`, `DescentOnTrack`, `LeavesChained` |
| `btree_iterate` | B = 2, 7 keys, at most 8 nodes, insertions between the steps of an iterator | `IteratesInOrder`, `ForwardSkipsNothing`; liveness: `OperationReturns`, `IterationEnds` |
| `btree_iterate_removed` | B = 2, 4 keys, with removals | violation of `YieldsStoredKeys` (finding) |
| `kv_store` | 2 keys, values of half a block, one block, two blocks; 5 blocks of 4 bytes | type, `SpaceDisjoint`, `LocatorAssertions`, `FileHoldsAll`, `StreamInFile`, the refinement `ImplementsKeyValueMap` |
| `kv_rename` | the same, every call of the interface | violation of `RenameTargetIsNew` (finding) |
| `blocks` | header block and 2 blocks, 1 of them cached, 2 contents, 2 users, spans of 1 and 2 ids | type, `StoredIdsKnown`, `SealedFileOpens`, the refinement `ImplementsDurableBlocks` |
| `nodes` | 6 nodes, 4 cached, window 2 | `NodesKeepChanges`, `WritesToLatest`, `NoDirtyNode` |
| `lifecycle` | 2 trees, 2 storages in memory, 3 on the file, one of them of another degree, 2 roots | type, `LinksAgree`, `OwnsWhatItAllocated`, `RootPersists`, `OnlyMisuseAborts` |
| `packer` | buffers of 8 bytes of 4 values; blocks of 21 to 100 bytes, keys of 1 to 24 bytes, values of 1 to 9 | type, `ReadsBack`, `NetworkOrder`, `ErrorsJustified`, `NodesFit`, `BlocksReadBack` |

Fairness. The library has no scheduler and no timer. What must happen of itself is that a
call that has begun goes on: a single thread executes it, so `WF(TreeStep(Step))` is just
that the thread runs. Under it `OperationReturns` says that no descent goes round or comes
to a stop. `WF(next)` is not the library's but the caller's, a loop that does nothing to its
iterator but `++it` until `it.end()`; under it `IterationEnds` says that the loop ends
although keys are inserted on the way. So do loops of the store's iterators while `it != kv.end()`,
which compares only whether both have ended (`KeyValueStore.h:425`). It is not so of a
loop of the tree's own iterators while `it != tree.end()`, whose `operator==` compares
the roots, too: when the root has grown since `begin()`, the iterator ends and is still not equal
to `tree.end()`, and the loop goes on for ever. Of that loop `IteratesInOrder` says
that it ends over a tree that stands still (`ArrivesAt` asks for `EqualsEnd` where no
key is left), with the storage in memory. All other specifications are safety
specifications; there a call is one step, or, in `BTreeFileStorage`, a walk whose end is of
no interest. That operations do not get stuck is also checked as absence of deadlock in
`btree_map`, where no bound stops an operation; it is checked in the two runs of the cache and
in `packer`, too. In the others a bound may stop the system (ids, blocks and roots run
out, a failed assertion ends the program), so deadlock is not checked there.

Why these bounds. The cache has a full level, a wrapping L1 index and more keys than
places with 3 or 4 keys; capacity 3 over 2 slots is the least with room between L1 and
the victim; the theorems below cover the real sizes (16 slots, 1024 and 8192
entries). For the tree B = 2 is the smallest degree the code supports, a node is full
with 3 keys, so 7 keys give three levels and 10 keys also split an inner node that is
not the root. `MaxNode` bounds the node ids; `btree_map` never reaches it. Values are
interchangeable in `btree_map` and the symmetry says so; keys of the tree are ordered
and no symmetry is used on them. In the store a block has 4 bytes and a length field 2,
so that an envelope can end in the middle of a block, at its end, or in the second block
of a span, and a value can fit the free span with or without its length field; 5 blocks
leave room for the header, the root, a span of two blocks and more after it, so spans are
reused, abandoned and followed by others. When the blocks are used up (`MaxBlock`) puts
that allocate stop. Keys are compared for equality only by this module, hence the symmetry.
`SizeModulus` stands for 2^64: it is larger than any file.
In `blocks`, one cached block of two makes every second access evict; the theorems cover
every size. In `nodes` a split holds pointers to four nodes (parent, child, new node, right
neighbour), so with 6 nodes and 4 places every one of them may be evicted for another
wherever the window allows; for a given cache a wider window only removes behaviours, and the
real one is 1008. In `lifecycle` two of each kind are needed for one storage to be
taken away by another, the third file storage is the foreign one; the theorems hold for any
number. In `packer` 8 bytes hold one 64 bit number exactly, or several smaller values and the
start of another; the block sizes include the smallest (21, nothing but the head) and
sizes at, just below and just above where one more key fits.

### Findings

1. An iterator that reaches a leaf emptied by `remove` yields the removed key, and a
   backward one reads before the array (`BTree.impl.hpp:201`, `208`), against the test that
   every key iterated is stored (`test_kv.cpp:308`). In the store, `rename` removes keys.
2. `rename` onto a key that is stored runs into the assertion of the leaf
   (`KeyValueStore.impl.hpp:380`, `BTreeNode.impl.hpp:240`).

### Remarks

Met while modelling; in the models as the code has them, but with no run of their own.

- `it != tree.end()` stays true for ever once an insertion has grown the root after
  `begin()` (`BTree.h:134`, `162`, `BTree.impl.hpp:81-91`), or once a file storage has evicted and read
  again the root: `operator==` wants the same `m_root`. The tests compare like that over
  trees that stand still (`test_btree_ops.cpp:265`, `355`). `EqualsEnd` has the comparison; no
  property claims that such a loop over a growing tree ends.
- `rewind` of an iterator goes down from the root it was made with (`BTree.impl.hpp:163`): once
  the root has grown, a backward one starts at the last key below its old root, in the middle
  of the tree. `Again` in `BTreeIterator`; `IteratesInOrder` speaks of those whose root is the tree's.
- `LRUCache::get` answers true without assigning its result when the value came from
  `on_miss` (`LRUCache.impl.hpp:107`); `WriteBackMap` allows that, so the refinement does not
  rule it out; `BTreeFileStorage::node_dealloc`, which nothing calls,
  asserts that the result is the node (`BTreeFileStorage.impl.hpp:154`).
- `find` with a key that is too long leaves the `Search` it was given found but not valid, if
  it was found before (`KeyValueStore.impl.hpp:230`); the next `get` from it asserts the
  contrary (`342`). `StreamInvalid` in `KeyValueStore.Next`.
- `get` of a piece takes the caller's length for the length to be read
  (`KeyValueStore.impl.hpp:353`) and reads on past the value, in the end into a block that
  does not exist (`614`). `StreamPastFile` in `KeyValueStore.Next`; `StreamInFile` holds for
  callers that ask for no more than is left.
- A storage allocated by `BTree()` is never deleted: `storage(NULL)` detaches it, which clears
  `m_io_allocated`, before it asks whether to delete (`BTree.impl.hpp:66-68`, `BTree.h:272`).
- A storage in memory counts as open for good once opened; detaching it, as its tree's
  destructor does, fails an assertion (`BTree.h:269`, `429`). `OnlyMisuseAborts` excuses it for calls on
  the tree that has this storage, and for no other.
- A file opened by a tree of another degree is left open with the answer no; closing it
  writes the other degree and no root into its header. `RootPersists` excepts it (`foreign`).
- A user that allocates its header after the block storage was opened has none in the file,
  and one that joins an open storage does not read it (`BTreeFileStorage.h:154`). In
  `BlockStorage` users allocate theirs before `open()`.
- Packing into a packer filled by `data()` writes over the front of its contents; `>>` into a
  string asks first for as many bytes as the variable's old text has (`Seriously.h:389`); a
  string that does not fit has its length taken from the bytes available all the same
  (`Seriously.impl.hpp:569`).
- The comment at `KeyValueStore.h:44` gives the default of `KV_B` as 73, the build has 68.

## 4. Proofs

`LRUCacheProofs` proves, for all sets of keys and values, every capacity and every
number of L1 slots (`SizesAssumption`: both at least 1; `SentinelsAssumption`: the
markers are distinct from keys and values):

- `TypeCorrect`: `Spec => []TypeOK`
- `Coherence`: `Spec => []LevelsCoherent`
- `EvictionSparesL1`: `Spec => []VictimNotInL1`
- `Drifting`: `RSpec => []DriftBound`
- `Survival`: `RSpec => []SurvivalWindow`
- `Refinement`: `Spec => ImplementsWriteBackMap`

Argument. The inductive invariant `IInv` joins `TypeOK`, `DequeMatchesMap`, `L1Sound`
and `SlotsAreRecent`: the key in a slot is nearer to the back of the deque than the
slot is old (`SlotAge`: insertions into L1 since the slot was filled). The last part is
what makes `VictimNotInL1` inductive, since every slot is younger than `L1Size`, so
with a larger capacity the front of a full deque is in no slot. Each operation is a
composition of `Erase`, `Put`, `Invalidate`, `Remember`, and each of these has a
lemma on what it preserves (`RemovedOK`, `InsertOK`, `InvalidateOK`, ...); the actions
then only cite those. For `Drifting` the invariant is strengthened with `DriftBound`
itself and each operation shown to do one of three things to the deque (`RefreshMoves`,
`AdmitMoves`, `StayMoves`). For `Refinement` what a reader would find of a key is
followed through the compositions: in the cache its entry, elsewhere the store. The invariant
needs one part more (`RefOK`): the key whose reference the last `operator[]` returned
is still cached, so that the caller's assignment through it is one the map knows of.

`KeyValueProofs` proves of `HSpec`, for all keys and values, all lengths of values, every
block size, length field and file size (`SizesAssumption`: a length field fits a block, the
bytes of the file and the length of an envelope can be counted in a `size_t`):

- `TypeCorrect`: `HSpec => []TypeOK`, in particular that every locator stays normalized
- `SpaceIsDisjoint`: `HSpec => []SpaceDisjoint`
- `LocatorAssertionsHold`: `HSpec => []LocatorAssertions`
- `FileHolds`: `HSpec => []FileHoldsAll`
- `StreamStaysInFile`: `HSpec => []StreamInFile`
- `Refinement`: `HSpec => ImplementsKeyValueMap` (`MissingAssumption`: the marks for an absent
  key and for no value are told apart from keys and strings)

Argument. `SpaceDisjoint` is not inductive: that a value put into the free span meets
nothing else takes that the span itself lies below the next id and ends with its block,
and that a new span begins at an id nothing uses. `IInv` says so: the file ends where the
next id begins (`IdsOK`), the free span is the rest of one block or empty at the start of a
block (`SpanOK`), every extent granted ends below the next id (`Placed`), and every
stored locator points at a block in use with room for a length field (`HeadsOK`). The span is
`header.next` while the store is closed (`FreeSpan`), so closing and opening move nothing.
The arithmetic is in lemmas of its own: division by the block size (`DivMod`,
`DivModIs`), rounding up (`RoundedUp`), moving a locator (`ConsumeOK`), what is left of a span
(`RestOfSpan`). `AllocOK` then says what an allocation finds and leaves, in its two
cases `NewSpan` and `SpanInUse`; `GrowKeeps` and `AllocKeeps` that steps without and with an
allocation keep everything apart; each call has a lemma (`QuietStep`, ..., `AllocStep`).
The invariant was checked by TLC on the instance of `kv_store` before it was proved.

What the bytes say takes more: `VInv` adds that the value of each key, its length field
included, is written within an extent granted to it or to a longer value (`ValuesOK`), that no
two keys share one (`KeysApart`), and that what is left of a stream lies in the extent of the
value it was opened on, and in that of the key it names and no other (`StreamOK`). Since
extents are disjoint, writing one value leaves all others readable. `Refinement` and
`StreamStaysInFile` follow from it, call by call.

`BTreeProofs` proves, for every degree from 2 up, every set of integer keys, every set of
values and every number of nodes (`DegreeAssumption`, `KeyAssumption`, `NodeAssumption`):

- `TypeCorrect`, `StaysBalanced`, `AssertionsHold`, `KeysStayReachable`, `OnTrack`,
  `ChainStays`: `Spec` implies `[]TypeOK`, `[]Balanced`, `[]InsertAssertions`,
  `[]EveryKeyReachable`, `[]DescentOnTrack` and `[]LeavesChained`
- `Refinement`: `Spec => ImplementsSortedMap`

Argument. That no split hides a key cannot be said of one node: whether a leaf is the right
one for a key depends on all nodes above it. So the invariant gives every node the set
`r[id]` of keys whose descents pass through it, and says that there are sets that fit
(`Tree`): the root has every key, a child has what the keys left and right of it leave over
(`Slot`), a node's keys are in its set, and the sets of a level do not meet (`Apart`) and are
linked in order (`Linked`). No induction over the height is needed: each part speaks of a
node and its children, or of two neighbours. There is one exception the invariant has to make:
when an inner node is split, the last child of the lower half is the first child of the upper
half as well; there its `Slot` is empty, so no descent comes that way. `SplitTree`
is the main lemma: after `split_child` the sets of before fit, with that of the
child cut in two at the median (`Halved`). `GrowRoot` passes through a tree that no state
has, the new root over the full one (`RaisedTree`), and is then a split like any other. On the
way down an operation's key stays in the set of the node it has reached (`Reached`), so
what it finds at the leaf is what the tree has (`LeafDecides`).

From this invariant the rest follows. `LeafFor` and `LeafChain` are recursive functions: that
there is a function satisfying each recursion is shown by induction on the height of a node
(`WalkExists`) and on the length of the chain (`IterateExists`), and the induction itself, over
a set of numbers instead of a predicate, is `NatSet`, proved from the theorems on finite sets.
For the refinement the tree is seen as the set of its pairs (`Stored`): a split moves
pairs and neither loses nor makes one (`SplitStored`), each of the leaf actions adds,
replaces or removes the one of its key (`InsertStored`, `UpdateStored`, `RemoveStored`), and a key
has one pair (`StoredOnce`), so the pairs are a map (`ContentsRepresents`).

`BTreeIteratorProofs` proves, under the same assumptions, of `AddSpec`: an iterator over a tree
into which keys are inserted between its steps and from which none is removed:

- `IteratorPlaced`: `AddSpec => []Walkable`, the inductive invariant
- `IterationOrdered`: `AddSpec => IteratesInOrder`
- `ForwardComplete`: `AddSpec => ForwardSkipsNothing`

Argument. That a forward iterator passes over no key does not follow from the tree
being sound: an iterator may stand on a slot behind the last key of its leaf, where a
split has left a copy of a key that is now in the leaf to the right. So the invariant orders what
is stale, too: a stale slot holds nothing, or a key that is not below the first key of the leaf to
the right (`Stale`), and a leaf other than the root is never empty (`Filled`). Of the
iterator it says that the keys of its leaf up to its position are at most its key, and the
first key of the next leaf as well if it stands behind the last one (`Passed`, `Behind`). Splits and
insertions keep what is behind a place behind it (`SplitBehind`, `LengthenedBehind`, joined
in `AddGrows`); `update_current` establishes it at every place it may be sent to (`Lands`). From
there the next place has the least key beyond (`NextIsLeast`). That a removal would break
`Filled` and `Stale` is what finding 1 of section 3 shows on a tree with removals. For `IteratesInOrder`
the tree stands still, so the iterator is where its key is (`Fixed`), and the leaves to
the right and left are next in the order of the keys (`NextLeaf`, `PreviousLeaf`); `begin` and
`rbegin` start at the outermost leaves (`DownLeads`, over the recursion of `down`), and where no key is
left the iterator has the tree's root (`Fixed`), so it equals `tree.end()`. With no keys at
all `Walkable` says nothing, and there is nothing to iterate over.

`BTreeFileStorageProofs` proves, for any set of nodes, any size of the cache and every window
from 2 up (`WindowAssumption`, `TokensAssumption`: the states of an object are told
apart from its being absent or shared):

- `KeepsChanges`, `WritesGoToLatest`, `NeverDirty`: `Spec` implies `[]NodesKeepChanges`,
  `[]WritesToLatest` and `[]NoDirtyNode`

Argument. The control is finite, so the invariant says of each line of each piece of `Script`
which pointers hold objects of the cache there, which of them hold objects that have
all changes, and which accesses were the last one or two (`Pointers`). The accesses are
shown once to leave every pointer with an object that has what it had (`FetchKeeps`); each
piece then only has to find its pointers where the line before left them. A single node
may miss a change between operations' lines, the left half of a split while the
pointer to its object is still to be put (`Complete`).

`BTreeStorageProofs` proves, for any number of trees and of storages of either kind, each
file storage with a degree of its own (`ObjectsAssumption`: the kinds of object are
distinct):

- `TypeCorrect`, `LinksAlwaysAgree`, `OwnedStorages`, `OnlyMisuse`: `Spec` implies
  `[]TypeOK`, `[]LinksAgree`, `[]OwnsWhatItAllocated` and `OnlyMisuseAborts`
- `RootStays`: `HSpec => []RootPersists`

Argument. Since calls are functions of a record, what is inductive is a predicate of one
(`Sound`: types, pointers that agree, marks that are owned, and that a storage in memory
without its nodes has been opened); each of the five functions has a lemma that it keeps
it, and the actions cite those. `OnlyMisuse` needs besides that a storage in memory that is
open exists (`Born`), so that `BTree()` never gets one that is open already. For `RootStays` the invariant is strengthened with
`Chain`: at most one file storage is open, and it has the root, or none is, and the header
has it, or nothing has been closed and every root is blank.

`BlockStorageProofs` proves, for every number of ids, cached
blocks and users (`BoundsAssumption`, `SentinelsAssumption`, `SpansAssumption`,
`RefinementAssumption`: sizes are natural numbers, and the markers are told apart from
contents):

- `TypeCorrect`, `StoredIdsStayKnown`, `SealedFilesOpen`: `HSpec` implies `[]TypeOK`,
  `[]StoredIdsKnown` and `[]SealedFileOpens`
- `DurableBlocksKept`: `HSpec => ImplementsDurableBlocks`, the refinement

Argument. That an id is unused is a matter of the length of the file, which the model, like
the code, counts. So the first fact is that the file has no holes, and its length is then
the first id it does not have (`CountOfPrefix`, the one place where cardinalities are
reasoned about). What a call on the cache makes of file and cache is a `Sequel`: nothing in
the file goes, and what the file or the cache had, one of them has. The invariant joins
that with what is stored and saved (`StoredThere`, `SavedThere`) and the number of headers
(`HeadersThere`). For the refinement contents have to be followed as well: `Faithful` says
that what was readable reads back the same and that the file has each block as it was or as
it read; `SavedFrom` that what the file has of a saved block is what was saved or put since.
The latter is what makes a crash a step of `DurableBlocks`. Each action then maps to a step
of the abstract module or to none (`AllocFollows`, `PutFollows`, `CrashFollows`, ...).

`BlockFormatProofs` proves of `Packer`, for buffers of every size, every number of values of a byte from 3 up
and every `BLOCKSIZE` that two bytes can count (`WidthsAssumption`), whatever the users pack,
as long as it is what a variable of its C++ type may hold (`ValuesAssumption`: an
integer of its width, a string whose length has four bytes, a valid locator that
`normalize` keeps valid):

- `PackerTypes`, `PackerReadsBack`, `PackerNetworkOrder`: `Spec` implies `[]TypeOK`,
  `[]ReadsBack` and `[]NetworkOrder`
- `PackerErrorsJustified`: `Spec => ErrorsJustified`

Argument. First the numbers: powers of `Base` are a recursive function, `FromMemory` undoes
`InMemory` byte by byte (`MemoryReadsBack`), and `Swapped` reverses a number of 1, 2, 4 or 8
bytes (`SwappedReverses`: the two calls of `htonl` in `htonll` included); so what `Number`
writes `ToNumber` reads, sign included (`NumberReadsBack`). Then values: an encoding is as long
as `serializedsize` says (`EncodedBytes`), and `Decoded` has it back whatever follows
(`DecodesEncoded`). Then sequences: `Places` says where the encoding of the n-th value lies
among those of all. The inductive invariant `PackerInv` joins `TypeOK` with what the histories
are (`Histories`), that the buffer begins with the encodings of what was packed as far as the
contents go (`Contents`), where a packer that has not been loaded writes next (`Packing`), and
that a reader without an error is at the place of the next value (`Reading`). Each operation has
a lemma (`PackStep`, `UnpackStep`, `FailedStep`, `LoadStep`, ...).

Of `BlockFormat` it proves, for every set of block sizes, key sizes and value sizes, and for
nodes and headers of every size whose fields are values of their types and that have as many
values or children as a node of the tree (`FormatAssumption`, `ContentsAssumption`):

- `FullNodesFit`: `FormatSpec => []NodesFit`: the rounding in `Compute_Max_B` is on the safe
  side for leaves and for inner nodes alike (`LeafFits`, `InnerFits`)
- `BlocksComeBack`: `FormatSpec => []BlocksReadBack`
- `BlocksThroughPackers`: `FormatSpec => Spec`, so that the theorems about packers hold
  here too

Argument. A chain of `>>` yields the fields in turn (`ChainReads`, from `DecodesEncoded` and
`Places`); a node and a header are such chains, read in two parts: the number of keys or users
comes out of the first and says how long the second is (`NodeReadsBack`, `HeaderReadsBack`).
`NodeSize` adds up the lengths. The invariant (`BlockInv`) says that the block begins with the
bytes of what was last written into it.

All invariants were checked by TLC on the instances of section 3 before they were proved.

Induction over sequences is not taken from the library, whose induction theorems take an
operator, which the provers at hand do not instantiate: it is built from sets of numbers
(`NatSet`, `StepsExist`, `StepsUnique` in `BlockFormatProofs`, `NatSet`, `WalkExists`,
`IterateExists` in `BTreeProofs`), once for
each recursive function.

Model-checked only: liveness under fairness (`OperationReturns`, `IterationEnds`) and the
actions' being enabled, which are beyond these provers. Every other property that a passing
run checks is a theorem of the specification it is checked of.

## 5. Plan

What the proofs leave for later work. With removals `ForwardSkipsNothing` does not hold: a key
removed before the iterator's place moves the next key into that place, and the next step
passes over it. `IteratesInOrder` should hold as long as no leaf is emptied; proving that takes an
invariant that gives up `Stale` and keeps `Fixed`. The liveness properties would need a
measure of the work an operation has left (the levels below it, the children to be split)
and a prover that takes fairness.

## 6. Not modelled

- `catch.hpp`, the test programs, `benchmark_kv.cpp`, the CMake files: they drive the library
  or are not its own. The tests were read for what they expect. `catch.hpp` alone is more
  than half of the lines under `src/`.
- `dotGraph`, `hexdump`, the `operator<<` for streams: output.
- `shptr` is `std::shared_ptr` or `std::tr1::shared_ptr`; a class of its own is compiled only
  where there is neither (`Utils.h:33-43`).
- Of `ordered_map`: taking from the back, iterators, comparison; only its tests use them.
- `node_dealloc`, `node_dispose`, `node_dispose_id` of the storages, `find` into a
  `SizedLocator`: nothing in `src/` calls them. The check of the version in the header of a
  store: there is one version.
- Errors of the file system: the code asserts that there are none.
- Memory management beyond the pointers between trees and storages. The destructors of the storages
  do not detach; that a caller destroys a storage only when no tree has it is the guard of
  `Destroy`, and `LinksAgree` rests on it.
- The answer of `header_read` when a store is opened, which `KeyValueStore::open` ignores
  (`KeyValueStore.impl.hpp:205`).
- The pointers that iterators and the lookups of a caller keep to nodes of a file storage:
  `BTreeFileStorage` follows those of the operations.
