------------------------------- MODULE BTree --------------------------------
(***************************************************************************)
(* The B+tree of BTree.h / BTree.impl.hpp and BTreeNode.h /                *)
(* BTreeNode.impl.hpp, over the node store of BTreeMemoryStorage, where    *)
(* every pointer to a node designates the one object of that node.         *)
(*                                                                         *)
(* The recursions of the code (search, insert_non_full and remove call     *)
(* themselves on a child) are steps here: "op" is the operation under way  *)
(* and the node it has reached.  A node is kept as the code keeps it, fixed*)
(* arrays and a count n: what lies beyond n is stale, not absent.          *)
(***************************************************************************)
EXTENDS Integers, Sequences

CONSTANTS
    B,          \* the degree: a full node has 2B - 1 keys
    Key,        \* integers: their order is the order of the keys
    NoKey,      \* a default-constructed key
    Value,
    NoValue,    \* a default-constructed value; also: no value for a key
    MaxNode     \* bound: node ids are 1 .. MaxNode

ASSUME DegreeAssumption == B \in Nat /\ B >= 2
ASSUME KeyAssumption    == Key \subseteq Int /\ NoKey \notin Key /\ NoValue \notin Value
ASSUME NodeAssumption   == MaxNode \in Nat

NodeId == 1 .. MaxNode
NoNode == 0                   \* NODE_ID_INVALID
KeyIx  == 0 .. 2 * B - 2
ChildIx == 0 .. 2 * B - 1

VARIABLES
    nodes,      \* m_nodes: the node objects, by id
    next_id,    \* m_next_id
    root_id,    \* m_root_id
    op,         \* the operation under way
    result      \* what the last operation answered

vars == <<nodes, next_id, root_id, op, result>>

Node == [leaf : BOOLEAN, n : 0 .. 2 * B - 1, rank : Int,
         parent : NodeId \cup {NoNode},
         left : NodeId \cup {NoNode}, right : NodeId \cup {NoNode},
         key : [KeyIx -> Key \cup {NoKey}],
         value : [KeyIx -> Value \cup {NoValue}],
         child : [ChildIx -> NodeId \cup {NoNode}]]

Fresh == [leaf |-> TRUE, n |-> 0, rank |-> 0, parent |-> NoNode,
          left |-> NoNode, right |-> NoNode,
          key |-> [i \in KeyIx |-> NoKey],
          value |-> [i \in KeyIx |-> NoValue],
          child |-> [i \in ChildIx |-> NoNode]]

Kinds == {"idle", "search", "insert", "update", "remove"}
Op == [kind : Kinds, key : Key \cup {NoKey}, value : Value \cup {NoValue},
       node : NodeId \cup {NoNode}]
Idle == [kind |-> "idle", key |-> NoKey, value |-> NoValue, node |-> NoNode]

Result == [kind : Kinds, key : Key \cup {NoKey}, found : BOOLEAN,
           value : Value \cup {NoValue}]
Answer(kind, k, found, v) == [kind |-> kind, key |-> k, found |-> found, value |-> v]

Full(nd) == nd.n = 2 * B - 1

(***************************************************************************)
(* Within a node                                                           *)
(***************************************************************************)
\* bsearch: the outcome of the binary search is a boundary, the key before it
\* at most k and the key at it above k.
Boundary(nd, k) == CHOOSE p \in 0 .. nd.n : /\ p > 0    => nd.key[p - 1] <= k
                                            /\ p < nd.n => nd.key[p] > k
Finds(nd, k) == Boundary(nd, k) > 0 /\ nd.key[Boundary(nd, k) - 1] = k

\* The position bsearch answers: of the key found in a leaf, otherwise the
\* child to follow or the place to insert at.
Pos(nd, k) == IF nd.leaf /\ Finds(nd, k) THEN Boundary(nd, k) - 1 ELSE Boundary(nd, k)

\* Shift a[p .. n-1] one place to the right and put x at p.
Inserted(a, n, p, x) ==
    [j \in DOMAIN a |-> IF j = p THEN x
                        ELSE IF p < j /\ j <= n THEN a[j - 1] ELSE a[j]]

\* Shift a[p+1 .. n-1] one place to the left.
Removed(a, n, p) ==
    [j \in DOMAIN a |-> IF p <= j /\ j < n - 1 THEN a[j + 1] ELSE a[j]]

(***************************************************************************)
(* split_child(i) of node x, whose child y = child(i) is full, into y and  *)
(* the new node z                                                          *)
(***************************************************************************)
\* Mutant: child_alloc's node is left a leaf, whatever y is.
UpperHalfLeaf(y, x, nds) ==
    [leaf |-> TRUE, n |-> B - 1, rank |-> nds[x].rank + 1, parent |-> x,
     left |-> y, right |-> nds[y].right,
     key   |-> [j \in KeyIx |-> IF j < B - 1 THEN nds[y].key[j + B] ELSE NoKey],
     value |-> [j \in KeyIx |-> IF j < B - 1 THEN nds[y].value[j + B] ELSE NoValue],
     child |-> [j \in ChildIx |-> IF j < B THEN nds[y].child[j + B] ELSE NoNode]]

\* Mutant: the values are copied from one place too low.
UpperHalfValuesOff(y, x, nds) ==
    LET Y == nds[y] IN
    [leaf |-> Y.leaf, n |-> B - 1, rank |-> nds[x].rank + 1, parent |-> x,
     left |-> y, right |-> Y.right,
     key   |-> [j \in KeyIx |-> IF j < B - 1 THEN Y.key[j + B] ELSE NoKey],
     value |-> [j \in KeyIx |-> IF Y.leaf /\ j < B - 1 THEN Y.value[j + B - 1] ELSE NoValue],
     child |-> [j \in ChildIx |-> IF ~Y.leaf /\ j < B THEN Y.child[j + B] ELSE NoNode]]

\* Mutant: left and right are confused.
UpperHalfLinksSwapped(y, x, nds) ==
    LET Y == nds[y] IN
    [leaf |-> Y.leaf, n |-> B - 1, rank |-> nds[x].rank + 1, parent |-> x,
     left |-> Y.right, right |-> y,
     key   |-> [j \in KeyIx |-> IF j < B - 1 THEN Y.key[j + B] ELSE NoKey],
     value |-> [j \in KeyIx |-> IF Y.leaf /\ j < B - 1 THEN Y.value[j + B] ELSE NoValue],
     child |-> [j \in ChildIx |-> IF ~Y.leaf /\ j < B THEN Y.child[j + B] ELSE NoNode]]

\* The second half of y: B - 1 keys with their values, or with B children.
UpperHalf(y, x, nds) ==
    LET Y == nds[y] IN
    [leaf |-> Y.leaf, n |-> B - 1, rank |-> nds[x].rank + 1, parent |-> x,
     left |-> y, right |-> Y.right,
     key   |-> [j \in KeyIx |-> IF j < B - 1 THEN Y.key[j + B] ELSE NoKey],
     value |-> [j \in KeyIx |-> IF Y.leaf /\ j < B - 1 THEN Y.value[j + B] ELSE NoValue],
     child |-> [j \in ChildIx |-> IF ~Y.leaf /\ j < B THEN Y.child[j + B] ELSE NoNode]]

\* Mutant: y keeps its right neighbour.
LowerHalfUnlinked(Y, z) ==
    [Y EXCEPT !.n = B, !.child = [j \in ChildIx |-> IF j > B THEN NoNode ELSE Y.child[j]]]

\* Mutant: y is not truncated.
LowerHalfWhole(Y, z) == [Y EXCEPT !.right = z]

\* truncate(B): y keeps B keys and the children up to B, which z has as well.
LowerHalf(Y, z) ==
    [Y EXCEPT !.right = z, !.n = B,
              !.child = [j \in ChildIx |-> IF j > B THEN NoNode ELSE Y.child[j]]]

\* Mutant: the key that goes up is the last one y keeps.
SplitChildLowMedian(nds, x, i, z) ==
    LET y == nds[x].child[i]
        r == nds[y].right
    IN [id \in NodeId |->
           CASE id = x -> [nds[x] EXCEPT
                              !.leaf = FALSE,
                              !.n = @ + 1,
                              !.key = Inserted(@, nds[x].n, i, nds[y].key[B - 1]),
                              !.child = Inserted(@, nds[x].n + 1, i + 1, z)]
             [] id = y -> LowerHalf(nds[y], z)
             [] id = z -> UpperHalf(y, x, nds)
             [] id = r -> [nds[r] EXCEPT !.left = z]
             [] OTHER  -> nds[id]]

\* Mutant: the node to the right of z still points back to y.
SplitChildOneWay(nds, x, i, z) ==
    LET y == nds[x].child[i]
    IN [id \in NodeId |->
           CASE id = x -> [nds[x] EXCEPT
                              !.leaf = FALSE,
                              !.n = @ + 1,
                              !.key = Inserted(@, nds[x].n, i, nds[y].key[B]),
                              !.child = Inserted(@, nds[x].n + 1, i + 1, z)]
             [] id = y -> LowerHalf(nds[y], z)
             [] id = z -> UpperHalf(y, x, nds)
             [] OTHER  -> nds[id]]

SplitChild(nds, x, i, z) ==
    LET y == nds[x].child[i]
        r == nds[y].right
        Z == UpperHalf(y, x, nds)
    IN [id \in NodeId |->
           CASE id = x -> [nds[x] EXCEPT
                              !.leaf = FALSE,
                              !.n = @ + 1,
                              !.key = Inserted(@, nds[x].n, i, Z.key[0]),
                              !.child = Inserted(@, nds[x].n + 1, i + 1, z)]
             [] id = y -> LowerHalf(nds[y], z)
             [] id = z -> Z
             [] id = r -> [nds[r] EXCEPT !.left = z]
             [] OTHER  -> nds[id]]

-----------------------------------------------------------------------------
Init == /\ nodes = [id \in NodeId |-> Fresh]
        /\ next_id = 1
        /\ root_id = NoNode
        /\ op = Idle
        /\ result = Answer("idle", NoKey, FALSE, NoValue)

\* Bound: no id above MaxNode is allocated; the operation that needs one stops.
IdsLeft(m) == next_id + m <= MaxNode + 1

\* What is in the tree: the keys of the leaves.
Holds(id, k) == nodes[id].leaf /\ \E i \in 0 .. nodes[id].n - 1 : nodes[id].key[i] = k
Contains(k)  == \E id \in 1 .. next_id - 1 : Holds(id, k)

\* The callers' side: one operation at a time.  insert() requires the key to
\* be absent, which the code asserts when it reaches the leaf.
Begin(kind, k, v) ==
    /\ op = Idle
    /\ kind = "insert" => ~Contains(k)
    /\ op' = [kind |-> kind, key |-> k, value |-> v, node |-> NoNode]
    /\ UNCHANGED <<nodes, next_id, root_id, result>>

\* root(create): the first operation on an empty tree allocates the root.
EnterEmpty ==
    /\ op.kind # "idle" /\ op.node = NoNode /\ root_id = NoNode
    /\ IdsLeft(1)
    /\ root_id' = next_id
    /\ nodes' = [nodes EXCEPT ![next_id] = Fresh]
    /\ next_id' = next_id + 1
    /\ op' = [op EXCEPT !.node = next_id]
    /\ UNCHANGED result

EnterRoot ==
    /\ op.kind # "idle" /\ op.node = NoNode /\ root_id # NoNode
    /\ ~(op.kind = "insert" /\ Full(nodes[root_id]))
    /\ op' = [op EXCEPT !.node = root_id]
    /\ UNCHANGED <<nodes, next_id, root_id, result>>

\* BTree::insert with a full root: a new root above it, then split_child(0).
GrowRoot ==
    LET x == next_id
        z == next_id + 1
        raised == [Fresh EXCEPT !.leaf = FALSE, !.child[0] = root_id,
                                !.rank = nodes[root_id].rank - 1]
    IN /\ op.kind = "insert" /\ op.node = NoNode /\ root_id # NoNode
       /\ Full(nodes[root_id])
       /\ IdsLeft(2)
       /\ nodes' = SplitChild([nodes EXCEPT ![x] = raised], x, 0, z)
       /\ next_id' = next_id + 2
       /\ root_id' = x
       /\ op' = [op EXCEPT !.node = x]
       /\ UNCHANGED result

Here  == nodes[op.node]
Child == Here.child[Pos(Here, op.key)]

AtInner == op.node # NoNode /\ ~Here.leaf
AtLeaf  == op.node # NoNode /\ Here.leaf

\* Mutant: insert_non_full goes down into a full child too.
DescendAnyway ==
    /\ AtInner
    /\ op' = [op EXCEPT !.node = Child]
    /\ UNCHANGED <<nodes, next_id, root_id, result>>

\* search and remove follow the child bsearch points at, and insert_non_full
\* does when that child is not full.
Descend ==
    /\ AtInner
    /\ op.kind = "insert" => ~Full(nodes[Child])
    /\ op' = [op EXCEPT !.node = Child]
    /\ UNCHANGED <<nodes, next_id, root_id, result>>

\* Mutant: after the split it goes on into the child it had found before.
SplitFullChildNoSearch ==
    /\ AtInner /\ op.kind = "insert" /\ Full(nodes[Child])
    /\ IdsLeft(1)
    /\ nodes' = SplitChild(nodes, op.node, Pos(Here, op.key), next_id)
    /\ next_id' = next_id + 1
    /\ op' = [op EXCEPT !.node = Child]
    /\ UNCHANGED <<root_id, result>>

\* insert_non_full splits a full child and searches again.
SplitFullChild ==
    /\ AtInner /\ op.kind = "insert" /\ Full(nodes[Child])
    /\ IdsLeft(1)
    /\ nodes' = SplitChild(nodes, op.node, Pos(Here, op.key), next_id)
    /\ next_id' = next_id + 1
    /\ UNCHANGED <<root_id, op, result>>

Return(found, v) ==
    /\ op' = Idle
    /\ result' = Answer(op.kind, op.key, found, v)

SearchLeaf ==
    /\ AtLeaf /\ op.kind = "search"
    /\ IF Finds(Here, op.key)
       THEN Return(TRUE, Here.value[Pos(Here, op.key)])
       ELSE Return(FALSE, NoValue)
    /\ UNCHANGED <<nodes, next_id, root_id>>

InsertLeaf ==
    LET p == Pos(Here, op.key) IN
    /\ AtLeaf /\ op.kind = "insert"
    /\ nodes' = [nodes EXCEPT
                    ![op.node].key = Inserted(@, Here.n, p, op.key),
                    ![op.node].value = Inserted(@, Here.n, p, op.value),
                    ![op.node].n = @ + 1]
    /\ Return(FALSE, op.value)
    /\ UNCHANGED <<next_id, root_id>>

\* update: overwrite the value found, or else start over as an insert.
UpdateLeaf ==
    /\ AtLeaf /\ op.kind = "update" /\ Finds(Here, op.key)
    /\ nodes' = [nodes EXCEPT ![op.node].value[Pos(Here, op.key)] = op.value]
    /\ Return(TRUE, op.value)
    /\ UNCHANGED <<next_id, root_id>>

UpdateMissing ==
    /\ AtLeaf /\ op.kind = "update" /\ ~Finds(Here, op.key)
    /\ op' = [op EXCEPT !.kind = "insert", !.node = NoNode]
    /\ UNCHANGED <<nodes, next_id, root_id, result>>

\* Mutant: remove drops a key whether or not the search found it.
RemoveLeafUnchecked ==
    LET p == Pos(Here, op.key) IN
    /\ AtLeaf /\ op.kind = "remove"
    /\ nodes' = [nodes EXCEPT
                    ![op.node].key = Removed(@, Here.n, p),
                    ![op.node].value = Removed(@, Here.n, p),
                    ![op.node].n = @ - 1]
    /\ Return(TRUE, NoValue)
    /\ UNCHANGED <<next_id, root_id>>

\* remove: a leaf may end up empty, nothing is merged.
RemoveLeaf ==
    LET p == Pos(Here, op.key) IN
    /\ AtLeaf /\ op.kind = "remove"
    /\ IF Finds(Here, op.key)
       THEN /\ nodes' = [nodes EXCEPT
                            ![op.node].key = Removed(@, Here.n, p),
                            ![op.node].value = Removed(@, Here.n, p),
                            ![op.node].n = @ - 1]
            /\ Return(TRUE, NoValue)
       ELSE /\ Return(FALSE, NoValue)
            /\ UNCHANGED nodes
    /\ UNCHANGED <<next_id, root_id>>

Step ==
    \/ EnterEmpty \/ EnterRoot \/ GrowRoot
    \/ Descend \/ SplitFullChild
    \/ SearchLeaf \/ InsertLeaf \/ UpdateLeaf \/ UpdateMissing \/ RemoveLeaf

Request ==
    \E k \in Key :
        \/ Begin("search", k, NoValue) \/ Begin("remove", k, NoValue)
        \/ \E v \in Value : Begin("insert", k, v) \/ Begin("update", k, v)

Next == Request \/ Step

Spec == Init /\ [][Next]_vars

-----------------------------------------------------------------------------
(***************************************************************************)
(* Properties                                                              *)
(***************************************************************************)
Allocated == 1 .. next_id - 1
Leaves    == {id \in Allocated : nodes[id].leaf}
KeysOf(id) == {nodes[id].key[i] : i \in 0 .. nodes[id].n - 1}

\* Where a descent for k from node id ends (search, insert and remove alike).
LeafFor(id, k) ==
    LET walk[m \in NodeId] ==
            IF nodes[m].leaf THEN m ELSE walk[nodes[m].child[Pos(nodes[m], k)]]
    IN walk[id]

\* The leaves in the order of the "right" links, from the one the left-most
\* children lead to; cut off at MaxNode should the links form a cycle.
LeafChain ==
    LET first[m \in NodeId] == IF nodes[m].leaf THEN m ELSE first[nodes[m].child[0]]
        chain[s \in 0 .. MaxNode] ==
            IF s = 0 THEN <<first[root_id]>>
            ELSE LET before == chain[s - 1]
                     next == nodes[before[Len(before)]].right
                 IN IF next = NoNode THEN before ELSE Append(before, next)
    IN IF root_id = NoNode THEN <<>> ELSE chain[MaxNode]

\* Every variable keeps to its type: ids stay in the store, counts within
\* the arrays.
TypeOK == /\ nodes \in [NodeId -> Node]
          /\ next_id \in 1 .. MaxNode + 1
          /\ root_id \in Allocated \cup {NoNode}
          /\ op \in Op /\ op.node \in Allocated \cup {NoNode}
          /\ result \in Result

\* split_child and the growth of the root keep the tree balanced: the leaves
\* are the nodes of rank 0 and an inner node's live children stand one level
\* below it; an inner node other than the root keeps at least B - 1 keys, and
\* the keys of any node ascend strictly.
Balanced ==
    \A id \in Allocated :
        LET nd == nodes[id] IN
        /\ nd.leaf <=> nd.rank = 0
        /\ ~nd.leaf => /\ nd.n >= (IF id = root_id THEN 1 ELSE B - 1)
                       /\ \A i \in 1 .. nd.n :
                             /\ nd.child[i] \in Allocated
                             /\ nodes[nd.child[i]].rank = nd.rank + 1
        /\ \A i \in 1 .. nd.n - 1 : nd.key[i - 1] < nd.key[i]

\* What a leaf holds, and nothing else, a descent from the root ends at: no
\* split, nor the child that both halves of a split inner node share, hides a
\* key; and a key is in one leaf only.
EveryKeyReachable ==
    \A id \in Leaves : \A k \in KeysOf(id) : LeafFor(root_id, k) = id

\* An operation under way is on the path of its key: what it did to the tree on
\* its way down has not moved the key to another subtree.
DescentOnTrack ==
    op.node # NoNode => LeafFor(op.node, op.key) = LeafFor(root_id, op.key)

\* The assertions of split_child and insert_non_full: a node whose child is to
\* be split has room for one more key (BTreeNode.impl.hpp:168), and so has the
\* leaf reached (234), which does not hold the key (240).
InsertAssertions ==
    op.kind = "insert" /\ op.node # NoNode =>
        IF Here.leaf THEN ~Full(Here) /\ ~Finds(Here, op.key)
                     ELSE Full(nodes[Child]) => ~Full(Here)

\* The links between the leaves, which the iterators walk: from the left-most
\* leaf they pass every leaf once, each knows the one before it, and the keys
\* ascend along them.
LeavesChained ==
    LET chain == LeafChain IN
    /\ {chain[i] : i \in DOMAIN chain} = Leaves
    /\ \A i, j \in DOMAIN chain : i < j =>
         /\ chain[i] # chain[j]
         /\ \A k \in KeysOf(chain[i]), l \in KeysOf(chain[j]) : k < l
    /\ \A i \in DOMAIN chain :
         nodes[chain[i]].left = IF i = 1 THEN NoNode ELSE chain[i - 1]
=============================================================================
