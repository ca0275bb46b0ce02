-------------------------- MODULE BTreeFileStorage --------------------------
(***************************************************************************)
(* The nodes of a B+tree kept in blocks: LRUNodeCache and BTreeFileStorage  *)
(* (BTreeFileStorage.h, BTreeFileStorage.impl.hpp) under the operations of  *)
(* the tree, which hold pointers to nodes while the cache may evict them.   *)
(*                                                                         *)
(* What matters of a node object is whether it has all the changes made to  *)
(* that node.  The operations are walks over the pieces of Script: every    *)
(* access to the cache and every change through a pointer, in the order of  *)
(* the code.  Which node is a child, full or a leaf is left open.           *)
(*                                                                         *)
(* The blocks behind the cache keep what is put into them (DurableBlocks).  *)
(* The cache evicts any entry that is not among the last Window accessed,   *)
(* which is what theorem Survival of LRUCacheProofs leaves it.              *)
(***************************************************************************)
EXTENDS Integers, Sequences, FiniteSets, Functions

CONSTANTS
  Id,         \* node ids
  CacheSize,  \* MILLIWAYS_DEFAULT_NODE_CACHE_SIZE
  Window,     \* that less LRUCACHE_L1_CACHE_SIZE
  Absent,     \* no entry in the cache
  NoHand,     \* a pointer variable that is not in use
  Shared      \* the pointer designates the object in the cache

\* With a window of 1 a split loses changes: it accesses two other nodes
\* between its last access to the parent and the change to it.
ASSUME WindowAssumption ==
  CacheSize \in Nat /\ Window \in Nat /\ 2 <= Window /\ Window < CacheSize

\* A node object, or a block: it has every change made to the node, or misses
\* some, or was never written (an object read from such a block is dirty).
Content == {"latest", "behind", "unwritten"}

\* The tokens of the model are no contents of nodes and no pointers.
ASSUME TokensAssumption ==
  /\ Absent \notin Content /\ Shared \notin Content
  /\ NoHand \notin [id : Id, object : Content \cup {Shared}]

\* The pointer variables: the node an operation is at, its child, the new
\* node, the node right of that, and what this_node() gave.
Var == {"x", "y", "z", "w", "self"}
Kinds == {"idle", "insert", "remove", "search", "update"}

(***************************************************************************)
(* What the pieces of the operations do to the cache: get is node_get,      *)
(* put is node_put, alloc is node_alloc, change is a write through the      *)
(* pointer.                                                                 *)
(***************************************************************************)
Script == [
  create  |-> << <<"alloc", "x">> >>,
  root    |-> << <<"get", "x">> >>,
  bsearch |-> << <<"get", "self">> >>,
  child   |-> << <<"get", "y">> >>,
  raise   |-> << <<"alloc", "x">>, <<"change", "x">> >>,
  split   |-> << <<"get", "y">>,
                 <<"get", "self">>, <<"alloc", "z">>,
                 <<"change", "self">>, <<"change", "z">>, <<"put", "self">>, <<"put", "z">> >>,
  link    |-> << <<"get", "w">>, <<"change", "w">>, <<"put", "w">> >>,
  share   |-> << <<"change", "y">>, <<"change", "z">>, <<"change", "x">>,
                 <<"put", "y">>, <<"put", "z">>, <<"get", "self">>, <<"put", "self">> >>,
  again   |-> << <<"get", "self">>, <<"get", "y">> >>,
  store   |-> << <<"change", "x">>, <<"get", "self">>, <<"put", "self">> >>,
  update  |-> << <<"change", "self">> >>]

\* Which pieces follow one another in an operation; "done" is its end.  Neither
\* half of a node just split is full: the search after it leads down.
Follows(kind) ==
  {<<"create", "bsearch">>, <<"root", "bsearch">>,
   <<"bsearch", "child">>, <<"child", "bsearch">>}
  \cup CASE kind = "insert" -> {<<"root", "raise">>, <<"raise", "split">>, <<"child", "split">>,
                                <<"split", "link">>, <<"split", "share">>, <<"link", "share">>,
                                <<"share", "again">>, <<"again", "bsearch">>,
                                <<"bsearch", "store">>, <<"store", "done">>}
         [] kind = "remove" -> {<<"bsearch", "store">>, <<"store", "done">>, <<"bsearch", "done">>}
         [] kind = "update" -> {<<"bsearch", "update">>, <<"update", "done">>, <<"bsearch", "done">>}
         [] OTHER           -> {<<"bsearch", "done">>}

VARIABLES
  nodes,   \* the ids of the nodes allocated, a subset of Id
  cache,   \* m_lru: the objects in the cache, [Id -> Content \cup {Absent}]
  recent,  \* the ids last accessed in it, at most Window of them
  blocks,  \* the block of each node, [Id -> Content]
  hand,    \* the pointers: the id of the node and the object designated, which
           \* is Shared or has a Content of its own, or NoHand
  op,      \* the operation under way
  piece,   \* the piece of it
  line     \* and the line there

vars == <<nodes, cache, recent, blocks, hand, op, piece, line>>

(***************************************************************************)
(* The cache, as functions from what it is to what it may become.           *)
(***************************************************************************)
Now == [cache |-> cache, blocks |-> blocks, hand |-> hand]

Cached(s) == {i \in Id : s.cache[i] # Absent}

\* Pointers to an object that leaves the cache go on designating it.  (Two of
\* them then count as two objects, which only loses more.)
Orphaned(h, id, d) ==
  [v \in Var |-> IF h[v] # NoHand /\ h[v] = [id |-> id, object |-> Shared]
                 THEN [id |-> id, object |-> d] ELSE h[v]]

\* Mutant: the evicted node is not written.
EvictedUnwritten(s, v) ==
  [cache |-> [s.cache EXCEPT ![v] = Absent], blocks |-> s.blocks,
   hand |-> Orphaned(s.hand, v, s.cache[v])]

\* on_eviction: node_write.
Evicted(s, v) ==
  [cache |-> [s.cache EXCEPT ![v] = Absent],
   blocks |-> [s.blocks EXCEPT ![v] = s.cache[v]],
   hand |-> Orphaned(s.hand, v, s.cache[v])]

\* Mutant: an entry used just now may go.
VictimsAny(s) == Cached(s)

Victims(s) == {v \in Cached(s) : v \notin Range(recent)}

Room(s) == IF Cardinality(Cached(s)) = CacheSize
           THEN {Evicted(s, v) : v \in Victims(s)} ELSE {s}

\* m_lru[id], with on_miss: node_read.
Sub(s, id) ==
  IF s.cache[id] # Absent THEN {s}
  ELSE {[r EXCEPT !.cache[id] = r.blocks[id]] : r \in Room(s)}

Become(s) == cache' = s.cache /\ blocks' = s.blocks /\ hand' = s.hand

\* The access to id becomes the latest of Window.
Accessed(id) ==
  LET all == Append(recent, id)
  IN recent' = IF Len(all) > Window THEN Tail(all) ELSE all

Holding(v) == hand[v] # NoHand
Object(s, v) == IF s.hand[v].object = Shared THEN s.cache[s.hand[v].id] ELSE s.hand[v].object

-----------------------------------------------------------------------------
Init ==
  /\ nodes = {} /\ cache = [i \in Id |-> Absent] /\ recent = <<>>
  /\ blocks = [i \in Id |-> "unwritten"]
  /\ hand = [v \in Var |-> NoHand]
  /\ op = "idle" /\ piece = "root" /\ line = 1

\* An operation begins with root().  (An update that does not find its key goes
\* on as an insertion, from the root again.)
Begin(kind) ==
  /\ op = "idle"
  /\ op' = kind /\ line' = 1
  /\ piece' = IF nodes = {} THEN "create" ELSE "root"
  /\ UNCHANGED <<nodes, cache, recent, blocks, hand>>

Doing(do, v) ==
  /\ op # "idle" /\ line <= Len(Script[piece]) /\ Script[piece][line] = <<do, v>>
  /\ line' = line + 1
  /\ UNCHANGED <<op, piece>>

HeldIds == {hand[v].id : v \in {u \in Var : Holding(u)}}

\* The node a get may be for: this node, the child followed before, or another.
Fetches(v) == CASE v = "self" -> {hand["x"].id}
                [] v = "y" /\ Holding("y") -> {hand["y"].id}
                [] OTHER -> nodes \ HeldIds

Get(v) ==
  /\ Doing("get", v)
  /\ \E id \in Fetches(v) :
       /\ \E s \in Sub(Now, id) : Become([s EXCEPT !.hand[v] = [id |-> id, object |-> Shared]])
       /\ Accessed(id)
  /\ UNCHANGED nodes

Alloc(v) ==
  /\ Doing("alloc", v)
  /\ \E id \in Id \ nodes :
       /\ nodes' = nodes \cup {id}
       /\ \E s \in Room(Now) : Become([s EXCEPT !.cache[id] = "latest",
                                             !.hand[v] = [id |-> id, object |-> Shared]])
       /\ Accessed(id)

\* What an object becomes when the node is changed through v: the object v
\* designates has the change, the others and the block miss it.
Misses(c) == IF c = "latest" THEN "behind" ELSE c

Change(v) ==
  /\ Doing("change", v)
  /\ LET id == hand[v].id IN
       /\ cache' = IF hand[v].object = Shared \/ cache[id] = Absent THEN cache
                   ELSE [cache EXCEPT ![id] = Misses(@)]
       /\ blocks' = [blocks EXCEPT ![id] = Misses(@)]
       /\ hand' = [u \in Var |->
            IF u # v /\ Holding(u) /\ hand[u].id = id /\ hand[u].object # Shared
            THEN [hand[u] EXCEPT !.object = Misses(@)] ELSE hand[u]]
  /\ UNCHANGED <<nodes, recent>>

\* Mutant: an object that is not the one in the cache is not copied into it.
PutWithoutCopy(v) ==
  /\ Doing("put", v)
  /\ \E s \in Sub(Now, hand[v].id) : Become(s)
  /\ Accessed(hand[v].id)
  /\ UNCHANGED nodes

\* node_put: the object in the cache becomes like the one put.
Put(v) ==
  /\ Doing("put", v)
  /\ \E s \in Sub(Now, hand[v].id) : Become([s EXCEPT !.cache[hand[v].id] = Object(s, v)])
  /\ Accessed(hand[v].id)
  /\ UNCHANGED nodes

\* The pointers the next piece starts with.
Carried(next) ==
  CASE <<piece, next>> = <<"root", "raise">> -> [hand EXCEPT !["y"] = hand["x"]]
    [] piece \in {"child", "again"} /\ next = "bsearch" ->
         [v \in Var |-> IF v = "x" THEN hand["y"] ELSE NoHand]
    [] <<piece, next>> = <<"share", "again">> ->
         [v \in Var |-> IF v = "x" THEN hand["x"] ELSE NoHand]
    [] OTHER -> hand

GoOn ==
  /\ op # "idle" /\ line > Len(Script[piece])
  /\ \E next \in DOMAIN Script :
       /\ <<piece, next>> \in Follows(op)
       /\ piece' = next /\ line' = 1 /\ hand' = Carried(next)
  /\ UNCHANGED <<nodes, cache, recent, blocks, op>>

Return ==
  /\ op # "idle" /\ line > Len(Script[piece]) /\ <<piece, "done">> \in Follows(op)
  /\ op' = "idle" /\ piece' = "root" /\ line' = 1
  /\ hand' = [v \in Var |-> NoHand]
  /\ UNCHANGED <<nodes, cache, recent, blocks>>

\* close() between two operations: evict_all.  What is opened next, by this
\* object or another, starts with an empty cache.
Close ==
  /\ op = "idle"
  /\ blocks' = [i \in Id |-> IF cache[i] # Absent THEN cache[i] ELSE blocks[i]]
  /\ cache' = [i \in Id |-> Absent] /\ recent' = <<>>
  /\ UNCHANGED <<nodes, hand, op, piece, line>>

Next ==
  \/ \E kind \in Kinds \ {"idle"} : Begin(kind)
  \/ \E v \in Var : Get(v) \/ Alloc(v) \/ Change(v) \/ Put(v)
  \/ GoOn \/ Return \/ Close

Spec == Init /\ [][Next]_vars

-----------------------------------------------------------------------------
ReadBack(id) == IF cache[id] # Absent THEN cache[id] ELSE blocks[id]

\* Between operations every node has all the changes that operations made to
\* it, wherever the cache evicted it meanwhile and whether or not the storage
\* was closed: no split, insertion or removal writes through a pointer to an
\* object the cache has let go of, and no node_put brings back an old one.
NodesKeepChanges == op = "idle" => \A id \in nodes : ReadBack(id) = "latest"

\* No operation changes or puts a node through an object that misses a change.
WritesToLatest ==
  op # "idle" /\ line <= Len(Script[piece]) =>
    LET do == Script[piece][line][1]
        v  == Script[piece][line][2]
    IN do \in {"change", "put"} => Object(Now, v) = "latest"

\* The assertions that a node is not dirty when it is put or written
\* (BTreeFileStorage.impl.hpp:104, 196): no node is read from a block that was
\* never written, and none is evicted before it can be.
NoDirtyNode == \A id \in nodes : ReadBack(id) # "unwritten"
=============================================================================
