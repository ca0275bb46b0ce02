------------------------- MODULE BTreeIteratorProofs --------------------------
(***************************************************************************)
(* Theorems about iterations over a tree that keys are only added to, for  *)
(* every degree B >= 2, every set of keys and every number of nodes.       *)
(*                                                                         *)
(* A leaf keeps in its stale slots what a split moved to its right, and an *)
(* iterator may stand on such a slot: it got there while the key was still *)
(* live, or it came back from the right.  The invariant therefore orders   *)
(* the stale keys too.                                                     *)
(***************************************************************************)
EXTENDS BTreeIterator, BTreeProofs

LeafIds(nds, top) == {id \in Ids(top) : nds[id].leaf}

\* No leaf is empty unless it is the whole tree.
Filled(nds, top) == \A id \in LeafIds(nds, top) : nds[id].n = 0 => top = 2

\* To the right of leaf id there is one, and its first key is at most k.
RightStarts(nds, id, k) ==
    nds[id].right # NoNode /\ nds[nds[id].right].key[0] <= k

\* What a stale slot of a leaf holds is nothing, or not below the next leaf.
Stale(nds, top) ==
    \A id \in LeafIds(nds, top) : \A j \in KeyIx :
        j >= nds[id].n /\ nds[id].key[j] # NoKey => RightStarts(nds, id, nds[id].key[j])

\* The keys of leaf id up to position p are at most k, and so is the next leaf's
\* first key if p is behind all of them.
Behind(nds, id, p, k) ==
    /\ \A j \in 0 .. nds[id].n - 1 : j <= p => nds[id].key[j] <= k
    /\ p >= nds[id].n => RightStarts(nds, id, k)

\* The tree as insertions alone leave it.
Grown == /\ IInv
         /\ op.kind \in {"idle", "insert"}
         /\ Filled(nodes, next_id)
         /\ Stale(nodes, next_id)

Iterator == [forward : BOOLEAN, root : NodeId \cup {NoNode}, node : NodeId \cup {NoNode},
             pos : -1 .. 2 * B - 2, key : Key \cup {NoKey}, end : BOOLEAN]

\* The iterator stands in a leaf, and its root is a node, or it has ended.
Placed ==
    /\ it \in Iterator
    /\ ~it.end => /\ it.root \in Ids(next_id)
                  /\ it.node \in LeafIds(nodes, next_id)
                  /\ it.forward => it.pos >= 0

\* A forward iterator has everything at most as large as its key behind it.
Passed == ~it.end /\ it.forward /\ it.key # NoKey => Behind(nodes, it.node, it.pos, it.key)

\* In a tree that has not changed the iterator has the tree's root and is where
\* its key is.
Fixed == /\ still \in BOOLEAN
         /\ still /\ ~it.end => it.root = root_id
         /\ still /\ ~it.end /\ nodes[it.node].n > 0 =>
               /\ it.pos \in 0 .. nodes[it.node].n - 1
               /\ it.key = nodes[it.node].key[it.pos]

Iterating == Grown /\ Placed /\ Passed /\ Fixed

-----------------------------------------------------------------------------
(***************************************************************************)
(* Leaves                                                                  *)
(***************************************************************************)
\* A leaf, its keys and its neighbours.
LEMMA LeafFacts ==
    ASSUME NEW nds, NEW top, NEW root, NEW r, Tree(nds, top, root, r),
           NEW a \in LeafIds(nds, top)
    PROVE  /\ a \in Ids(top) /\ a \in NodeId /\ a # NoNode /\ nds[a] \in Node /\ nds[a].leaf
           /\ nds[a].rank = 0
           /\ nds[a].n \in 0 .. 2 * B - 1 /\ nds[a].n \in Int /\ nds[a].n >= 0
           /\ \A j \in 0 .. nds[a].n - 1 :
                 /\ nds[a].key[j] \in Key /\ nds[a].key[j] \in Int /\ nds[a].key[j] # NoKey
                 /\ nds[a].key[j] \in r[a]
           /\ \A i, j \in 0 .. nds[a].n - 1 : i < j => nds[a].key[i] < nds[a].key[j]
           /\ nds[a].right # NoNode =>
                 /\ nds[a].right \in LeafIds(nds, top) /\ nds[a].right # a
                 /\ nds[nds[a].right].left = a /\ Above(r, a, nds[a].right)
           /\ nds[a].left # NoNode =>
                 /\ nds[a].left \in LeafIds(nds, top) /\ nds[a].left # a
                 /\ nds[nds[a].left].right = a /\ Above(r, nds[a].left, a)
<1>1. a \in Ids(top) /\ nds[a].leaf
  BY DEF LeafIds
<1>2. /\ a \in NodeId /\ a # NoNode /\ nds[a] \in Node /\ nds[a].n \in 0 .. 2 * B - 1
      /\ Sorted(nds[a])
      /\ \A j \in 0 .. nds[a].n - 1 : nds[a].key[j] \in Key
  BY <1>1, NodeFacts
<1>3. \A j \in 0 .. nds[a].n - 1 : nds[a].key[j] \in r[a]
  BY <1>1 DEF Tree, Keyed
<1>4. nds[a].rank = 0
  BY <1>1 DEF Tree, Parents
<1>5. ASSUME nds[a].right # NoNode
      PROVE  /\ nds[a].right \in LeafIds(nds, top) /\ nds[a].right # a
             /\ nds[nds[a].right].left = a /\ Above(r, a, nds[a].right)
  <2>1. /\ nds[a].right \in Ids(top) /\ nds[nds[a].right].rank = 0
        /\ nds[nds[a].right].left = a /\ Above(r, a, nds[a].right)
    BY <1>1, <1>4, <1>5 DEF Tree, Linked
  <2>2. nds[nds[a].right].leaf
    BY <2>1 DEF Tree, Parents
  <2>3. nds[a].right # a
    BY <2>1, <1>1, AboveOrders
  <2> QED BY <2>1, <2>2, <2>3 DEF LeafIds
<1>6. ASSUME nds[a].left # NoNode
      PROVE  /\ nds[a].left \in LeafIds(nds, top) /\ nds[a].left # a
             /\ nds[nds[a].left].right = a /\ Above(r, nds[a].left, a)
  <2>1. nds[a].left \in Ids(top) /\ nds[nds[a].left].right = a
    BY <1>1, <1>6 DEF Tree, Linked
  <2>2. nds[a].rank = nds[nds[a].left].rank /\ Above(r, nds[a].left, a)
    BY <2>1, <1>2 DEF Tree, Linked
  <2>3. nds[nds[a].left].leaf
    BY <1>4, <2>1, <2>2 DEF Tree, Parents
  <2>4. nds[a].left # a
    BY <2>1, <2>2, AboveOrders
  <2> QED BY <2>1, <2>2, <2>3, <2>4 DEF LeafIds
<1>7. nds[a].n \in Int /\ nds[a].n >= 0
  BY <1>2, DegreeAssumption
<1> QED BY <1>1, <1>2, <1>3, <1>4, <1>5, <1>6, <1>7, KeyAssumption DEF Sorted

\* A leaf with a neighbour is not empty.
LEMMA NeighbourFilled ==
    ASSUME NEW nds, NEW top, NEW root, NEW r, Tree(nds, top, root, r), Filled(nds, top),
           NEW a \in LeafIds(nds, top), NEW c \in Ids(top), a # c
    PROVE  nds[a].n > 0 /\ 0 \in 0 .. nds[a].n - 1
<1>1. top \in Int /\ a \in 1 .. top - 1 /\ c \in 1 .. top - 1
  BY DEF LeafIds, Ids, Tree, Typed
<1>2. top # 2
  BY <1>1
<1>3. nds[a].n # 0
  BY <1>2 DEF Filled
<1> QED BY <1>3, LeafFacts

\* An empty leaf holds nothing in any slot.
LEMMA EmptyLeaf ==
    ASSUME NEW nds, NEW top, NEW root, NEW r, Tree(nds, top, root, r),
           Filled(nds, top), Stale(nds, top),
           NEW a \in LeafIds(nds, top), nds[a].n = 0
    PROVE  nds[a].right = NoNode /\ nds[a].left = NoNode /\ \A j \in KeyIx : nds[a].key[j] = NoKey
<1>1. nds[a].right = NoNode /\ nds[a].left = NoNode
  <2>1. \A c \in Ids(top) : c = a
    BY NeighbourFilled
  <2>2. \A c \in LeafIds(nds, top) : c = a
    BY <2>1 DEF LeafIds
  <2> QED BY <2>2, LeafFacts
<1>2. ASSUME NEW j \in KeyIx PROVE nds[a].key[j] = NoKey
  <2>1. j >= nds[a].n
    BY DEF KeyIx
  <2> QED BY <1>1, <2>1 DEF Stale, RightStarts
<1> QED BY <1>1, <1>2

\* The leaf to the right of one is the next in the order of the keys.
LEMMA NextLeaf ==
    ASSUME NEW nds, NEW top, NEW root, NEW r, Tree(nds, top, root, r),
           NEW a \in LeafIds(nds, top), NEW c \in LeafIds(nds, top), Above(r, a, c)
    PROVE  nds[a].right # NoNode /\ (c = nds[a].right \/ Above(r, nds[a].right, c))
<1>1. a \in Ids(top) /\ c \in Ids(top) /\ nds[a].rank = nds[c].rank
  BY LeafFacts
<1> QED BY <1>1 DEF Tree, Linked

\* The leaf to the left of one is the one before it.
LEMMA PreviousLeaf ==
    ASSUME NEW nds, NEW top, NEW root, NEW r, Tree(nds, top, root, r),
           NEW a \in LeafIds(nds, top), NEW c \in LeafIds(nds, top), Above(r, a, c)
    PROVE  nds[c].left # NoNode /\ (a = nds[c].left \/ Above(r, a, nds[c].left))
<1>1. a \in Ids(top) /\ c \in Ids(top) /\ nds[a].rank = nds[c].rank
  BY LeafFacts
<1>2. a # c /\ ~Above(r, c, a)
  BY <1>1, AboveOrders
<1>3. nds[c].left # NoNode
  BY <1>1, <1>2, LeftMost
<1>4. PICK d : d = nds[c].left
  OBVIOUS
<1>5. /\ d \in LeafIds(nds, top) /\ d \in Ids(top) /\ nds[d].right = c
      /\ nds[d].rank = nds[a].rank
  BY <1>1, <1>3, <1>4, LeafFacts
<1>6. ASSUME Above(r, d, a) PROVE FALSE
  <2>1. a = c \/ Above(r, c, a)
    BY <1>5, <1>6, NextLeaf
  <2> QED BY <2>1, <1>2
<1>7. a # d => Above(r, a, d)
  BY <1>1, <1>5, <1>6 DEF Tree, Apart
<1> QED BY <1>3, <1>4, <1>7

\* Of two leaves the one with a smaller key is the one before.
LEMMA LeafOrder ==
    ASSUME NEW nds, NEW top, NEW root, NEW r, Tree(nds, top, root, r),
           NEW a \in LeafIds(nds, top), NEW c \in LeafIds(nds, top), a # c,
           NEW k \in r[a], NEW l \in r[c], k < l
    PROVE  Above(r, a, c)
<1>1. a \in Ids(top) /\ c \in Ids(top) /\ nds[a].rank = nds[c].rank
  BY LeafFacts
<1>2. k \in Int /\ l \in Int
  BY <1>1, KeyAssumption DEF Tree, Keyed
<1>3. ~Above(r, c, a)
  BY <1>2 DEF Above
<1> QED BY <1>1, <1>3 DEF Tree, Apart

-----------------------------------------------------------------------------
(***************************************************************************)
(* What a split and an insertion make of the leaves                        *)
(***************************************************************************)
\* The slots of the upper half that its keys do not take are empty.
LEMMA UpperHalfStale ==
    ASSUME NEW nds, NEW top, NEW root, NEW r, NEW x, NEW i, Splittable(nds, top, root, r, x, i),
           NEW N, N = SplitChild(nds, x, i, top)
    PROVE  \A j \in KeyIx : j >= B - 1 => N[top].key[j] = NoKey
<1>1. PICK y : y = nds[x].child[i]
  OBVIOUS
<1>2. top \in NodeId /\ top # y /\ top # x /\ nds[y].right # top
  <2>1. /\ y \in Ids(top) /\ top \in NodeId /\ top \notin Ids(top) /\ x \in Ids(top)
        /\ top # NoNode
        /\ nds[y].right # NoNode => nds[y].right \in Ids(top)
    BY <1>1, SplitNodes DEF Splittable
  <2> QED BY <2>1
<1>3. N[top] = UpperHalf(y, x, nds)
  BY <1>1, <1>2, Zenon DEF SplitChild
<1>4. \A j \in KeyIx : N[top].key[j] = IF j < B - 1 THEN nds[y].key[j + B] ELSE NoKey
  BY <1>3 DEF UpperHalf
<1>5. \A j \in KeyIx : j >= B - 1 => ~(j < B - 1)
  BY DegreeAssumption DEF KeyIx
<1> QED BY <1>4, <1>5

\* The leaves of a tree after a split: those it had, and the upper half of one.
LEMMA SplitLeaves ==
    ASSUME NEW nds, NEW top, NEW root, NEW r, NEW x, NEW i, Splittable(nds, top, root, r, x, i),
           NEW y, y = nds[x].child[i],
           NEW N, N = SplitChild(nds, x, i, top)
    PROVE  /\ \A id \in LeafIds(N, top + 1) :
                 id \in LeafIds(nds, top) \/ (id = top /\ y \in LeafIds(nds, top))
           /\ \A id \in LeafIds(nds, top) :
                 /\ id \in LeafIds(N, top + 1) /\ id # x /\ id # top
                 /\ N[id].key = nds[id].key
                 /\ id # y => N[id].n = nds[id].n /\ N[id].right = nds[id].right
<1>1. /\ y \in Ids(top) /\ y # x /\ x \in Ids(top) /\ ~nds[x].leaf /\ top \notin Ids(top)
      /\ top \in NodeId
      /\ Tree(nds, top, root, r)
  BY SplitNodes DEF Splittable
<1>2. Ids(top + 1) = Ids(top) \cup {top} /\ Ids(top) \subseteq NodeId
  BY <1>1, NodeAssumption DEF Ids, NodeId, Tree, Typed
<1>3. \A id \in Ids(top) : N[id].leaf = nds[id].leaf
  BY SplitLevels
<1>4. N[top].leaf = nds[y].leaf
  BY SplitUpper
<1>5. N[y].key = nds[y].key
  BY SplitLower
<1>6. \A id \in NodeId : id # x /\ id # y /\ id # top =>
         N[id].n = nds[id].n /\ N[id].key = nds[id].key /\ N[id].right = nds[id].right
  BY SplitOthers
<1> QED BY <1>1, <1>2, <1>3, <1>4, <1>5, <1>6 DEF LeafIds

\* The first key of every leaf stays.
LEMMA SplitStarts ==
    ASSUME NEW nds, NEW top, NEW root, NEW r, NEW x, NEW i, Splittable(nds, top, root, r, x, i),
           NEW y, y = nds[x].child[i],
           NEW N, N = SplitChild(nds, x, i, top),
           NEW id \in LeafIds(nds, top), id # y, NEW k, RightStarts(nds, id, k)
    PROVE  RightStarts(N, id, k)
<1>1. Tree(nds, top, root, r)
  BY DEF Splittable
<1>2. PICK c : c = nds[id].right
  OBVIOUS
<1>3. c # NoNode /\ nds[c].key[0] <= k
  BY <1>2 DEF RightStarts
<1>4. c \in LeafIds(nds, top)
  BY <1>1, <1>2, <1>3, LeafFacts
<1>5. N[id].right = c /\ N[c].key = nds[c].key
  BY <1>2, <1>4, SplitLeaves
<1> QED BY <1>3, <1>5 DEF RightStarts

\* The lower half of a leaf has the upper one to its right, which starts with
\* what was key B.
LEMMA SplitMiddle ==
    ASSUME NEW nds, NEW top, NEW root, NEW r, NEW x, NEW i, Splittable(nds, top, root, r, x, i),
           NEW y, y = nds[x].child[i], y \in LeafIds(nds, top),
           NEW N, N = SplitChild(nds, x, i, top)
    PROVE  /\ N[y].n = B /\ N[top].n = B - 1 /\ B \in 0 .. nds[y].n - 1
           /\ nds[y].n = 2 * B - 1
           /\ \A k : nds[y].key[B] <= k => RightStarts(N, y, k)
<1>1. /\ nds[y].n = 2 * B - 1 /\ top # NoNode
  BY SplitNodes
<1>2. N[y].n = B /\ N[y].right = top
  BY SplitLower
<1>3. N[top].n = B - 1 /\ N[top].key[0] = nds[y].key[B]
  <2>1. 0 \in 0 .. B - 2 /\ 0 + B = B
    BY DegreeAssumption
  <2>2. \A j \in 0 .. B - 2 : N[top].key[j] = nds[y].key[j + B]
    BY SplitUpper
  <2>3. N[top].key[0] = nds[y].key[0 + B]
    BY <2>1, <2>2
  <2> QED BY <2>1, <2>3, SplitUpper
<1>4. B \in 0 .. nds[y].n - 1
  BY <1>1, DegreeAssumption
<1> QED BY <1>1, <1>2, <1>3, <1>4 DEF RightStarts

\* A split leaves no leaf empty and the stale keys where they belong.
LEMMA SplitStale ==
    ASSUME NEW nds, NEW top, NEW root, NEW r, NEW x, NEW i, Splittable(nds, top, root, r, x, i),
           \A id \in LeafIds(nds, top) : nds[id].n > 0,
           Stale(nds, top),
           NEW N, N = SplitChild(nds, x, i, top)
    PROVE  Filled(N, top + 1) /\ Stale(N, top + 1)
<1>1. PICK y : y = nds[x].child[i]
  OBVIOUS
<1>2. Tree(nds, top, root, r)
  BY DEF Splittable
<1>3. ASSUME NEW id \in LeafIds(N, top + 1) PROVE N[id].n # 0
  <2>1. CASE id \in LeafIds(nds, top) /\ id # y
    BY <2>1, <1>1, SplitLeaves
  <2>2. CASE id = y /\ y \in LeafIds(nds, top)
    BY <2>2, <1>1, SplitMiddle, DegreeAssumption
  <2>3. CASE id = top /\ y \in LeafIds(nds, top)
    BY <2>3, <1>1, SplitMiddle, DegreeAssumption
  <2> QED BY <1>1, <2>1, <2>2, <2>3, SplitLeaves
<1>4. ASSUME NEW id \in LeafIds(N, top + 1), NEW j \in KeyIx, j >= N[id].n, N[id].key[j] # NoKey
      PROVE  RightStarts(N, id, N[id].key[j])
  <2>1. CASE id \in LeafIds(nds, top) /\ id # y
    <3>1. N[id].n = nds[id].n /\ N[id].key = nds[id].key
      BY <2>1, <1>1, SplitLeaves
    <3>2. RightStarts(nds, id, nds[id].key[j])
      BY <2>1, <3>1, <1>4 DEF Stale
    <3> QED BY <2>1, <3>1, <3>2, <1>1, SplitStarts
  <2>2. CASE id = y /\ y \in LeafIds(nds, top)
    <3>1. /\ N[y].n = B /\ N[y].key = nds[y].key /\ B \in 0 .. nds[y].n - 1
          /\ nds[y].n = 2 * B - 1
      BY <2>2, <1>1, SplitMiddle, SplitLeaves
    <3>2. j \in 0 .. nds[y].n - 1 /\ j >= B
      BY <2>2, <3>1, <1>4 DEF KeyIx
    <3>3. nds[y].key[B] <= nds[y].key[j]
      <4>1. j = B \/ B < j
        BY <3>2, DegreeAssumption
      <4>2. nds[y].key[B] \in Int /\ nds[y].key[j] \in Int /\ (B < j => nds[y].key[B] < nds[y].key[j])
        BY <2>2, <3>1, <3>2, <1>2, LeafFacts
      <4> QED BY <4>1, <4>2
    <3> QED BY <2>2, <3>1, <3>3, <1>1, SplitMiddle
  <2>3. CASE id = top /\ y \in LeafIds(nds, top)
    BY <2>3, <1>1, <1>4, SplitMiddle, UpperHalfStale
  <2> QED BY <1>1, <2>1, <2>2, <2>3, SplitLeaves
<1> QED BY <1>3, <1>4 DEF Filled, Stale

\* What was behind a place is behind it after a split.
LEMMA SplitBehind ==
    ASSUME NEW nds, NEW top, NEW root, NEW r, NEW x, NEW i, Splittable(nds, top, root, r, x, i),
           NEW N, N = SplitChild(nds, x, i, top),
           NEW id \in LeafIds(nds, top), NEW p \in Int, NEW k, Behind(nds, id, p, k)
    PROVE  Behind(N, id, p, k)
<1>1. PICK y : y = nds[x].child[i]
  OBVIOUS
<1>2. N[id].key = nds[id].key
  BY <1>1, SplitLeaves
<1>3. CASE id # y
  <2>1. N[id].n = nds[id].n
    BY <1>1, <1>3, SplitLeaves
  <2>2. p >= nds[id].n => RightStarts(N, id, k)
    BY <1>1, <1>3, SplitStarts DEF Behind
  <2> QED BY <1>2, <2>1, <2>2 DEF Behind
<1>4. CASE id = y
  <2>1. N[id].n = B /\ nds[id].n = 2 * B - 1 /\ B \in 0 .. nds[id].n - 1
    BY <1>1, <1>4, SplitMiddle
  <2>2. \A j \in 0 .. nds[id].n - 1 : j <= p => nds[id].key[j] <= k
    BY DEF Behind
  <2>3. \A j \in 0 .. N[id].n - 1 : j \in 0 .. nds[id].n - 1
    BY <2>1, DegreeAssumption
  <2>4. p >= B => RightStarts(N, id, k)
    <3>1. p >= B => B <= p
      BY DegreeAssumption
    <3> QED BY <1>1, <1>4, <2>1, <2>2, <3>1, SplitMiddle
  <2> QED BY <1>2, <2>1, <2>2, <2>3, <2>4 DEF Behind
<1> QED BY <1>3, <1>4

\* Leaf a got k at p; what was there and beyond moved up, the slots after its
\* last key stay as they were.
Lengthened(N, nds, a, p, k) ==
    /\ \A id \in NodeId : id # a => N[id] = nds[id]
    /\ N[a].leaf /\ N[a].n = nds[a].n + 1 /\ N[a].right = nds[a].right
    /\ p \in 0 .. nds[a].n
    /\ p < nds[a].n => k < nds[a].key[p]
    /\ \A j \in 0 .. nds[a].n : /\ j < p => N[a].key[j] = nds[a].key[j]
                                /\ j = p => N[a].key[j] = k
                                /\ j > p => N[a].key[j] = nds[a].key[j - 1]
    /\ \A j \in KeyIx : j > nds[a].n => N[a].key[j] = nds[a].key[j]

\* That is what insert_non_full does to the leaf it has reached.
LEMMA InsertLengthens ==
    ASSUME IInv, InsertLeaf, NEW r, Holding(r)
    PROVE  /\ op.node \in LeafIds(nodes, next_id) /\ op.key \in r[op.node] /\ op.key \in Int
           /\ \E p : Lengthened(nodes', nodes, op.node, p, op.key)
           /\ UNCHANGED <<next_id, root_id>>
<1>1. /\ op.node \in Ids(next_id) /\ op.node \in NodeId /\ Here \in Node /\ Here.leaf /\ Sorted(Here)
      /\ op.key \in Int /\ op.key \in r[op.node] /\ nodes \in [NodeId -> Node]
      /\ Here = nodes[op.node]
  BY LeafReached DEF InsertLeaf, Here
<1>2. PICK nd, p : /\ Shifted(nd, Here, p, op.key, op.value)
                   /\ nodes' = [nodes EXCEPT ![op.node] = nd]
                   /\ UNCHANGED <<next_id, root_id>>
  BY InsertedHere
<1>3. nodes'[op.node] = nd /\ \A id \in NodeId : id # op.node => nodes'[id] = nodes[id]
  BY <1>1, <1>2
<1>4. PICK a, k, q : a = op.node /\ k = op.key /\ q = Pos(Here, op.key)
  OBVIOUS
<1>5. q \in 0 .. Here.n /\ Here.n \in Nat
  <2>1. /\ Boundary(Here, k) \in 0 .. Here.n /\ Here.n \in Nat
        /\ Finds(Here, k) => Boundary(Here, k) > 0
    BY <1>1, <1>4, BoundaryIs DEF Finds, Sorted
  <2> QED BY <2>1, <1>4 DEF Pos
<1>6. \A j \in KeyIx : j > Here.n => nodes'[a].key[j] = Here.key[j]
  <2>1. nodes'[a].key = Inserted(Here.key, Here.n, q, k)
    <3>1. nodes' = [nodes EXCEPT
                      ![a].key = Inserted(@, Here.n, q, k),
                      ![a].value = Inserted(@, Here.n, q, op.value),
                      ![a].n = @ + 1]
      BY <1>4 DEF InsertLeaf
    <3>2. nodes[a] = Here /\ a \in NodeId
      BY <1>1, <1>4
    <3>3. nodes'[a] = [Here EXCEPT !.key = Inserted(@, Here.n, q, k),
                                   !.value = Inserted(@, Here.n, q, op.value),
                                   !.n = @ + 1]
      BY <3>1, <3>2, <1>1
    <3> QED BY <3>3, <1>1 DEF Node
  <2>2. DOMAIN Here.key = KeyIx
    BY <1>1 DEF Node
  <2>3. ASSUME NEW j \in KeyIx, j > Here.n PROVE nodes'[a].key[j] = Here.key[j]
    <3>1. j # q /\ ~(j <= Here.n)
      BY <2>3, <1>5 DEF KeyIx
    <3> QED BY <2>1, <2>2, <3>1 DEF Inserted
  <2> QED BY <2>3
<1>7. /\ nd.leaf /\ nd.n = Here.n + 1 /\ nd.right = Here.right /\ p \in 0 .. Here.n
      /\ p < Here.n => op.key < Here.key[p]
      /\ \A j \in 0 .. Here.n : /\ j < p => nd.key[j] = Here.key[j]
                                /\ j = p => nd.key[j] = op.key
                                /\ j > p => nd.key[j] = Here.key[j - 1]
  <2>1. p < Here.n => p \in 0 .. Here.n - 1 /\ p >= p
    BY <1>2, <1>5 DEF Shifted
  <2> QED BY <1>2, <2>1 DEF Shifted
<1>8. Lengthened(nodes', nodes, op.node, p, op.key)
  BY <1>1, <1>3, <1>4, <1>6, <1>7 DEF Lengthened
<1> QED BY <1>1, <1>2, <1>8 DEF LeafIds

\* The leaves after an insertion are those before it.
LEMMA LengthenedLeaves ==
    ASSUME NEW nds, NEW top, NEW root, NEW r, Tree(nds, top, root, r),
           NEW a \in LeafIds(nds, top), NEW N, NEW p, NEW k, Lengthened(N, nds, a, p, k)
    PROVE  LeafIds(N, top) = LeafIds(nds, top) /\ LeafIds(nds, top) \subseteq NodeId
<1>1. Ids(top) \subseteq NodeId
  BY NodeFacts
<1> QED BY <1>1 DEF LeafIds, Lengthened

\* Inserting into a leaf that is not empty does not raise its first key.
LEMMA LengthenedStarts ==
    ASSUME NEW nds, NEW top, NEW root, NEW r, Tree(nds, top, root, r), Filled(nds, top),
           NEW a \in LeafIds(nds, top), NEW N, NEW p, NEW k \in Int, Lengthened(N, nds, a, p, k),
           NEW id \in LeafIds(nds, top), NEW l \in Int, RightStarts(nds, id, l)
    PROVE  RightStarts(N, id, l)
<1>1. PICK c : c = nds[id].right
  OBVIOUS
<1>2. c # NoNode /\ nds[c].key[0] <= l
  BY <1>1 DEF RightStarts
<1>3. c \in LeafIds(nds, top) /\ c # id /\ c \in NodeId /\ id \in NodeId /\ id \in Ids(top)
  BY <1>1, <1>2, LeafFacts
<1>4. N[id].right = c
  BY <1>1, <1>3 DEF Lengthened
<1>5. CASE c # a
  BY <1>2, <1>3, <1>4, <1>5 DEF Lengthened, RightStarts
<1>6. CASE c = a
  <2>1. nds[a].n > 0 /\ nds[a].n \in Int /\ 0 \in 0 .. nds[a].n - 1 /\ nds[a].key[0] \in Int
    BY <1>3, <1>6, NeighbourFilled, LeafFacts
  <2>2. p \in 0 .. nds[a].n /\ 0 \in 0 .. nds[a].n
    BY <2>1 DEF Lengthened
  <2>3. CASE p = 0
    <3>1. N[a].key[0] = k /\ k < nds[a].key[0]
      BY <2>1, <2>2, <2>3 DEF Lengthened
    <3>2. N[a].key[0] <= l
      BY <1>2, <1>6, <2>1, <3>1
    <3> QED BY <1>2, <1>4, <1>6, <3>2 DEF RightStarts
  <2>4. CASE p # 0
    <3>1. 0 < p
      BY <2>2, <2>4
    <3>2. N[a].key[0] = nds[a].key[0]
      BY <2>2, <3>1 DEF Lengthened
    <3> QED BY <1>2, <1>4, <1>6, <3>2 DEF RightStarts
  <2> QED BY <2>3, <2>4
<1> QED BY <1>5, <1>6

\* An insertion leaves no leaf empty and the stale keys where they belong.
LEMMA LengthenedStale ==
    ASSUME NEW nds, NEW top, NEW root, NEW r, Tree(nds, top, root, r),
           Filled(nds, top), Stale(nds, top),
           NEW a \in LeafIds(nds, top), NEW N, NEW p, NEW k \in Int, Lengthened(N, nds, a, p, k)
    PROVE  Filled(N, top) /\ Stale(N, top)
<1>1. LeafIds(N, top) = LeafIds(nds, top) /\ LeafIds(nds, top) \subseteq NodeId
  BY LengthenedLeaves
<1>2. N[a].n = nds[a].n + 1 /\ nds[a].n \in Int /\ nds[a].n >= 0
  BY LeafFacts DEF Lengthened
<1>3. ASSUME NEW id \in LeafIds(nds, top), N[id].n = 0 PROVE top = 2
  <2>1. id # a
    BY <1>2, <1>3
  <2> QED BY <1>1, <1>3, <2>1 DEF Lengthened, Filled
<1>4. ASSUME NEW id \in LeafIds(nds, top), NEW j \in KeyIx, j >= N[id].n, N[id].key[j] # NoKey
      PROVE  RightStarts(N, id, N[id].key[j])
  <2>1. j >= nds[id].n /\ N[id].key[j] = nds[id].key[j]
    <3>1. CASE id = a
      <4>1. j > nds[a].n /\ j >= nds[a].n
        BY <1>2, <1>4, <3>1 DEF KeyIx
      <4> QED BY <3>1, <4>1 DEF Lengthened
    <3>2. CASE id # a
      BY <1>1, <1>4, <3>2 DEF Lengthened
    <3> QED BY <3>1, <3>2
  <2>2. RightStarts(nds, id, nds[id].key[j])
    BY <1>4, <2>1 DEF Stale
  <2>3. nds[id].key[j] \in Int
    <3>1. nds[id] \in Node
      BY LeafFacts
    <3>2. nds[id].key[j] \in Key \cup {NoKey}
      BY <3>1 DEF Node
    <3> QED BY <3>2, <1>4, <2>1, KeyAssumption
  <2> QED BY <2>1, <2>2, <2>3, LengthenedStarts
<1> QED BY <1>1, <1>3, <1>4 DEF Filled, Stale

\* What was behind a place is behind it after an insertion: a key that goes below
\* what the place had behind it is itself behind.
LEMMA LengthenedBehind ==
    ASSUME NEW nds, NEW top, NEW root, NEW r, Tree(nds, top, root, r), Filled(nds, top),
           NEW a \in LeafIds(nds, top), NEW N, NEW p, NEW k \in Int, k \in r[a],
           Lengthened(N, nds, a, p, k),
           NEW id \in LeafIds(nds, top), NEW q \in Int, NEW l \in Int, Behind(nds, id, q, l)
    PROVE  Behind(N, id, q, l)
<1>1. CASE id # a
  <2>1. N[id] = nds[id]
    <3>1. id \in NodeId
      BY LeafFacts
    <3> QED BY <1>1, <3>1 DEF Lengthened
  <2>2. q >= nds[id].n => RightStarts(N, id, l)
    BY LengthenedStarts DEF Behind
  <2> QED BY <2>1, <2>2 DEF Behind
<1>2. CASE id = a
  <2>1. /\ nds[a].n \in Int /\ nds[a].n >= 0 /\ N[a].n = nds[a].n + 1 /\ p \in 0 .. nds[a].n
        /\ \A j \in 0 .. nds[a].n - 1 : nds[a].key[j] \in Int
        /\ \A j \in 0 .. nds[a].n - 1 : j <= q => nds[a].key[j] <= l
        /\ q >= nds[a].n => RightStarts(nds, a, l)
    BY <1>2, LeafFacts DEF Behind, Lengthened
  <2>2. q >= N[a].n => RightStarts(N, a, l)
    <3>1. q >= N[a].n => q >= nds[a].n
      BY <2>1
    <3> QED BY <1>2, <2>1, <3>1, LengthenedStarts
  <2>3. ASSUME NEW j \in 0 .. N[a].n - 1, j <= q PROVE N[a].key[j] <= l
    <3>0. j \in 0 .. nds[a].n
      BY <2>1
    <3>1. CASE j < p
      <4>1. j \in 0 .. nds[a].n - 1
        BY <2>1, <3>0, <3>1
      <4> QED BY <2>1, <2>3, <3>0, <3>1, <4>1 DEF Lengthened
    <3>2. CASE j > p
      <4>1. j - 1 \in 0 .. nds[a].n - 1 /\ j - 1 <= q
        BY <2>1, <2>3, <3>0, <3>2
      <4> QED BY <2>1, <3>0, <3>2, <4>1 DEF Lengthened
    <3>3. CASE j = p /\ p < nds[a].n
      <4>1. p \in 0 .. nds[a].n - 1
        BY <2>1, <3>3
      <4>2. k < nds[a].key[p] /\ nds[a].key[p] <= l /\ nds[a].key[p] \in Int
        BY <2>1, <2>3, <3>3, <4>1 DEF Lengthened
      <4>3. N[a].key[j] = k
        BY <3>0, <3>3 DEF Lengthened
      <4> QED BY <4>2, <4>3
    <3>4. CASE j = p /\ p = nds[a].n
      <4>1. N[a].key[j] = k
        BY <3>0, <3>4 DEF Lengthened
      <4>2. PICK c : c = nds[a].right
        OBVIOUS
      <4>3. c # NoNode /\ nds[c].key[0] <= l
        BY <2>1, <2>3, <3>4, <4>2 DEF RightStarts
      <4>4. c \in LeafIds(nds, top) /\ c # a /\ Above(r, a, c) /\ a \in Ids(top)
        BY <4>2, <4>3, LeafFacts
      <4>5. 0 \in 0 .. nds[c].n - 1
        BY <4>4, NeighbourFilled
      <4>6. nds[c].key[0] \in r[c] /\ nds[c].key[0] \in Int
        BY <4>4, <4>5, LeafFacts
      <4>7. k < nds[c].key[0]
        BY <4>4, <4>6 DEF Above
      <4> QED BY <4>1, <4>3, <4>6, <4>7
    <3> QED BY <2>1, <3>0, <3>1, <3>2, <3>3, <3>4
  <2> QED BY <1>2, <2>2, <2>3 DEF Behind
<1> QED BY <1>1, <1>2

-----------------------------------------------------------------------------
(***************************************************************************)
(* A tree that is only added to                                            *)
(***************************************************************************)
\* The leaves stay leaves, and what was behind a place of them is behind it.
LeavesGrow ==
    /\ LeafIds(nodes, next_id) \subseteq LeafIds(nodes, next_id)'
    /\ \A id \in LeafIds(nodes, next_id), p \in Int, k \in Int :
          Behind(nodes, id, p, k) => Behind(nodes, id, p, k)'

\* A step that leaves the nodes alone.
LEMMA SameLeaves ==
    ASSUME Filled(nodes, next_id), Stale(nodes, next_id), UNCHANGED <<nodes, next_id>>
    PROVE  Filled(nodes, next_id)' /\ Stale(nodes, next_id)' /\ LeavesGrow
  BY DEF Filled, Stale, LeavesGrow, LeafIds, Behind, RightStarts

\* The first leaf holds nothing.
LEMMA FirstLeafGrows ==
    ASSUME IInv, \A id \in NodeId : nodes[id] = Fresh, next_id = 1, 1 \in NodeId,
           nodes' = nodes, next_id' = 2
    PROVE  Filled(nodes, next_id)' /\ Stale(nodes, next_id)' /\ LeavesGrow
<1>1. LeafIds(nodes, next_id) = {} /\ \A id \in LeafIds(nodes, next_id)' : id = 1
  BY DEF LeafIds, Ids
<1>2. \A j \in KeyIx : nodes'[1].key[j] = NoKey
  BY DEF Fresh
<1>3. Filled(nodes, next_id)'
  BY DEF Filled
<1>4. Stale(nodes, next_id)'
  BY <1>1, <1>2 DEF Stale
<1> QED BY <1>1, <1>3, <1>4 DEF LeavesGrow

\* The new root on top of the old one is not a leaf.
LEMMA RaisedLeaves ==
    ASSUME NEW nds, NEW top, NEW root, NEW r, Tree(nds, top, root, r), Stale(nds, top),
           NEW N, top + 1 \in 1 .. MaxNode + 1, ~N[top].leaf, \A id \in Ids(top) : N[id] = nds[id]
    PROVE  /\ LeafIds(N, top + 1) = LeafIds(nds, top)
           /\ Stale(N, top + 1)
           /\ \A id \in LeafIds(nds, top) : \A p, k : Behind(nds, id, p, k) => Behind(N, id, p, k)
<1>1. Ids(top + 1) = Ids(top) \cup {top}
  BY NodeAssumption DEF Ids, Tree, Typed
<1>2. LeafIds(N, top + 1) = LeafIds(nds, top)
  BY <1>1 DEF LeafIds
<1>3. \A id \in LeafIds(nds, top) : N[id] = nds[id]
  BY DEF LeafIds
<1>4. ASSUME NEW id \in LeafIds(nds, top), NEW k, RightStarts(nds, id, k)
      PROVE  RightStarts(N, id, k)
  <2>1. nds[id].right \in LeafIds(nds, top)
    BY <1>4, LeafFacts DEF RightStarts
  <2> QED BY <1>3, <1>4, <2>1 DEF RightStarts
<1>5. Stale(N, top + 1)
  BY <1>2, <1>3, <1>4 DEF Stale
<1>6. ASSUME NEW id \in LeafIds(nds, top), NEW p, NEW k, Behind(nds, id, p, k)
      PROVE  Behind(N, id, p, k)
  BY <1>3, <1>4, <1>6 DEF Behind
<1> QED BY <1>2, <1>5, <1>6

\* A full root that is split.
LEMMA GrowRootGrows ==
    ASSUME Grown, GrowRoot
    PROVE  Filled(nodes, next_id)' /\ Stale(nodes, next_id)' /\ LeavesGrow
<1>1. PICK r0 : Holding(r0)
  BY DEF Grown, IInv, Holding
<1>2. PICK x, top, root, nds, r :
         /\ x = next_id /\ top = next_id + 1 /\ root = root_id
         /\ nds = [nodes EXCEPT ![x] = Raised(nodes, root)]
         /\ r = [r0 EXCEPT ![x] = Key]
  OBVIOUS
<1>3. /\ Atop(nds, x, root, r, nodes)
      /\ Splittable(nds, top, x, r, x, 0)
      /\ nodes' = SplitChild(nds, x, 0, top) /\ next_id' = top + 1
      /\ x \in 1 .. MaxNode + 1 /\ root \in Ids(x) /\ x + 1 = top /\ top <= MaxNode
  BY <1>1, <1>2, GrowRootSplits DEF Grown
<1>4. Tree(nodes, x, root, r0) /\ Filled(nodes, x) /\ Stale(nodes, x)
  BY <1>1, <1>2 DEF Holding, Grown
<1>5. /\ LeafIds(nds, top) = LeafIds(nodes, x) /\ Stale(nds, top)
      /\ \A id \in LeafIds(nodes, x) : \A p, k : Behind(nodes, id, p, k) => Behind(nds, id, p, k)
  <2>1. x + 1 \in 1 .. MaxNode + 1 /\ ~nds[x].leaf /\ \A id \in Ids(x) : nds[id] = nodes[id]
    BY <1>3, NodeAssumption DEF Atop
  <2> QED BY <2>1, <1>3, <1>4, RaisedLeaves
<1>6. ASSUME NEW id \in LeafIds(nds, top) PROVE nds[id].n > 0
  <2>1. id \in LeafIds(nodes, x) /\ nds[id] = nodes[id]
    BY <1>3, <1>5 DEF LeafIds, Atop
  <2>2. CASE id = root
    <3>1. nodes[root].n = 2 * B - 1
      BY <1>2 DEF GrowRoot, Full
    <3> QED BY <2>1, <2>2, <3>1, DegreeAssumption
  <2>3. CASE id # root
    <3>1. nodes[id].n > 0
      BY <1>3, <1>4, <2>1, <2>3, NeighbourFilled
    <3> QED BY <2>1, <3>1
  <2> QED BY <2>2, <2>3
<1>7. Filled(nodes', top + 1) /\ Stale(nodes', top + 1)
  BY <1>3, <1>5, <1>6, SplitStale
<1>8. \A id \in LeafIds(nds, top) : id \in LeafIds(nodes', top + 1)
  BY <1>3, SplitLeaves
<1>9. \A id \in LeafIds(nds, top), p \in Int, k \in Int :
         Behind(nds, id, p, k) => Behind(nodes', id, p, k)
  BY <1>3, SplitBehind
<1> QED BY <1>2, <1>3, <1>5, <1>7, <1>8, <1>9 DEF LeavesGrow

\* A full child that is split.
LEMMA SplitChildGrows ==
    ASSUME Grown, SplitFullChild
    PROVE  Filled(nodes, next_id)' /\ Stale(nodes, next_id)' /\ LeavesGrow
<1>1. PICK r : Holding(r)
  BY DEF Grown, IInv, Holding
<1>2. PICK x, top, root, nds, k, i, y :
         /\ x = op.node /\ top = next_id /\ root = root_id /\ nds = nodes /\ k = op.key
         /\ i = Pos(Here, op.key) /\ y = Child
  OBVIOUS
<1>3. /\ Splittable(nds, top, root, r, x, i) /\ x \in Ids(top) /\ ~nds[x].leaf
      /\ nodes' = SplitChild(nds, x, i, top) /\ next_id' = top + 1
  BY <1>1, <1>2, FullChildSplits DEF Grown
<1>4. Tree(nds, top, root, r) /\ Filled(nds, top) /\ Stale(nds, top)
  BY <1>1, <1>2 DEF Holding, Grown
<1>5. ASSUME NEW id \in LeafIds(nds, top) PROVE nds[id].n > 0
  <2>1. id # x
    BY <1>3 DEF LeafIds
  <2> QED BY <1>3, <1>4, <2>1, NeighbourFilled
<1>6. Filled(nodes', top + 1) /\ Stale(nodes', top + 1)
  BY <1>3, <1>4, <1>5, SplitStale
<1>7. \A id \in LeafIds(nds, top) : id \in LeafIds(nodes', top + 1)
  BY <1>3, SplitLeaves
<1>8. \A id \in LeafIds(nds, top), p \in Int, l \in Int :
         Behind(nds, id, p, l) => Behind(nodes', id, p, l)
  BY <1>3, SplitBehind
<1> QED BY <1>2, <1>3, <1>6, <1>7, <1>8 DEF LeavesGrow

\* A key that is inserted into its leaf.
LEMMA InsertGrows ==
    ASSUME Grown, InsertLeaf
    PROVE  Filled(nodes, next_id)' /\ Stale(nodes, next_id)' /\ LeavesGrow
<1>1. PICK r : Holding(r)
  BY DEF Grown, IInv, Holding
<1>2. PICK a, k, top, root : a = op.node /\ k = op.key /\ top = next_id /\ root = root_id
  OBVIOUS
<1>3. a \in LeafIds(nodes, top) /\ k \in r[a] /\ k \in Int /\ next_id' = top
  BY <1>1, <1>2, InsertLengthens DEF Grown
<1>4. PICK p : Lengthened(nodes', nodes, a, p, k)
  BY <1>1, <1>2, InsertLengthens DEF Grown
<1>5. Tree(nodes, top, root, r) /\ Filled(nodes, top) /\ Stale(nodes, top)
  BY <1>1, <1>2 DEF Holding, Grown
<1>6. Filled(nodes', top) /\ Stale(nodes', top)
  BY <1>3, <1>4, <1>5, LengthenedStale
<1>7. LeafIds(nodes', top) = LeafIds(nodes, top)
  BY <1>3, <1>4, <1>5, LengthenedLeaves
<1>8. \A id \in LeafIds(nodes, top), q \in Int, l \in Int :
         Behind(nodes, id, q, l) => Behind(nodes', id, q, l)
  BY <1>3, <1>4, <1>5, LengthenedBehind
<1> QED BY <1>2, <1>3, <1>6, <1>7, <1>8 DEF LeavesGrow

\* Every step of an insertion.
LEMMA AddGrows ==
    ASSUME Grown, AddNext
    PROVE  Grown' /\ LeavesGrow
<1>1. op.kind \in {"idle", "insert"} /\ IInv /\ Filled(nodes, next_id) /\ Stale(nodes, next_id)
  BY DEF Grown
<1>2. op'.kind \in {"idle", "insert"}
  <2>1. ASSUME NEW k, NEW v, Begin("insert", k, v) PROVE op'.kind \in {"idle", "insert"}
    BY <2>1 DEF Begin
  <2>2. op \in Op
    BY <1>1 DEF IInv, Requested
  <2>3. \A id : op' = [op EXCEPT !.node = id] => op'.kind = op.kind
    BY <2>2 DEF Op
  <2>4. EnterEmpty \/ EnterRoot \/ GrowRoot \/ Descend \/ SplitFullChild => op'.kind = op.kind
    BY <2>3 DEF EnterEmpty, EnterRoot, GrowRoot, Descend, SplitFullChild
  <2>5. SearchLeaf \/ InsertLeaf => op' = Idle
    BY DEF SearchLeaf, InsertLeaf, Return
  <2>6. ~UpdateLeaf /\ ~UpdateMissing /\ ~RemoveLeaf
    BY <1>1 DEF UpdateLeaf, UpdateMissing, RemoveLeaf
  <2> QED BY <1>1, <2>1, <2>4, <2>5, <2>6 DEF AddNext, Step, Idle
<1>3. IInv'
  <2>1. Next
    BY DEF AddNext, Next, Request
  <2> QED BY <1>1, <2>1, NextInv
<1>4. Filled(nodes, next_id)' /\ Stale(nodes, next_id)' /\ LeavesGrow
  <2>1. CASE UNCHANGED <<nodes, next_id>>
    BY <1>1, <2>1, SameLeaves
  <2>2. CASE EnterEmpty
    <3>1. PICK r : Holding(r)
      BY <1>1 DEF IInv, Holding
    <3>2. next_id = 1 /\ 1 <= MaxNode /\ 1 \in NodeId
      BY <1>1, <2>2, NodeAssumption DEF EnterEmpty, IInv, IdsLeft, NodeId
    <3>3. nodes \in [NodeId -> Node] /\ \A id \in NodeId : nodes[id] = Fresh
      BY <3>1, <3>2, NodeAssumption DEF Holding, Tree, Typed, NodeId
    <3>4. nodes' = nodes /\ next_id' = 2
      BY <2>2, <3>2, <3>3 DEF EnterEmpty
    <3> QED BY <1>1, <3>2, <3>3, <3>4, FirstLeafGrows
  <2>3. CASE GrowRoot
    BY <2>3, GrowRootGrows
  <2>4. CASE SplitFullChild
    BY <2>4, SplitChildGrows
  <2>5. CASE InsertLeaf
    BY <2>5, InsertGrows
  <2>6. ASSUME EnterRoot \/ Descend \/ SearchLeaf PROVE UNCHANGED <<nodes, next_id>>
    BY <2>6 DEF EnterRoot, Descend, SearchLeaf
  <2>7. ASSUME NEW k, NEW v, Begin("insert", k, v) PROVE UNCHANGED <<nodes, next_id>>
    BY <2>7 DEF Begin
  <2>8. ~UpdateLeaf /\ ~UpdateMissing /\ ~RemoveLeaf
    BY <1>1 DEF UpdateLeaf, UpdateMissing, RemoveLeaf
  <2> QED BY <2>1, <2>2, <2>3, <2>4, <2>5, <2>6, <2>7, <2>8 DEF AddNext, Step
<1> QED BY <1>2, <1>3, <1>4 DEF Grown

-----------------------------------------------------------------------------
(***************************************************************************)
(* The leaves an iteration starts at                                       *)
(***************************************************************************)
\* The first or the last child of each node.
Sideways(nds, right) == [m \in NodeId |-> nds[m].child[IF right THEN nds[m].n ELSE 0]]

\* It is a node one level below.
LEMMA SidewaysLower ==
    ASSUME NEW nds, NEW top, NEW root, NEW r, Tree(nds, top, root, r), NEW right \in BOOLEAN,
           NEW m \in NodeId, ~nds[m].leaf
    PROVE  /\ m \in Ids(top)
           /\ Sideways(nds, right)[m] \in Ids(top) /\ Sideways(nds, right)[m] \in NodeId
           /\ Heights(nds)[Sideways(nds, right)[m]] < Heights(nds)[m]
<1>1. m \in Ids(top)
  BY FreshNode DEF Tree, Typed, Ids, NodeId
<1>2. PICK i : i = IF right THEN nds[m].n ELSE 0
  OBVIOUS
<1>3. i \in 0 .. nds[m].n /\ nds[m] \in Node
  BY <1>1, <1>2, NodeFacts
<1>4. PICK c : c = Sideways(nds, right)[m]
  OBVIOUS
<1>5. c = nds[m].child[i]
  BY <1>2, <1>4 DEF Sideways
<1>6. c \in Ids(top) /\ nds[c].rank = nds[m].rank + 1
  BY <1>1, <1>3, <1>5 DEF Tree, Parents
<1>7. c \in NodeId /\ nds[m].rank \in Int
  BY <1>3, <1>6, NodeFacts DEF Node
<1>8. Heights(nds)[c] < Heights(nds)[m]
  BY <1>6, <1>7 DEF Heights
<1> QED BY <1>1, <1>4, <1>6, <1>7, <1>8

\* Going on that way ends at a leaf, and keeps to a set of nodes W that has the
\* child of each of its nodes.
LEMMA WalkStaysIn ==
    ASSUME NEW nds, NEW top, NEW root, NEW r, Tree(nds, top, root, r), NEW right \in BOOLEAN,
           NEW f, IsWalk(f, NodeId, Bottom(nds), Sideways(nds, right)),
           NEW W \in SUBSET Ids(top),
           \A m \in W : ~nds[m].leaf => Sideways(nds, right)[m] \in W,
           NEW x \in W
    PROVE  f[x] \in W /\ nds[f[x]].leaf
<1> DEFINE Ends(m) == f[m] \in W /\ nds[f[m]].leaf
           h == Heights(nds)
           U == {n \in Nat : \A m \in W : h[m] <= n => Ends(m)}
<1>1. h \in [NodeId -> Nat]
  BY HeightsOf
<1>2. \A m \in W : m \in NodeId
  BY NodeFacts
<1>3. \A m \in NodeId : f[m] = IF nds[m].leaf THEN m ELSE f[Sideways(nds, right)[m]]
  BY DEF IsWalk, Bottom
<1>4. \A m \in W : nds[m].leaf => Ends(m)
  BY <1>2, <1>3
<1>5. \A m \in W : ~nds[m].leaf => /\ Sideways(nds, right)[m] \in NodeId
                                   /\ h[Sideways(nds, right)[m]] < h[m]
  BY <1>2, SidewaysLower
<1>6. 0 \in U
  <2>1. ASSUME NEW m \in W, h[m] <= 0 PROVE nds[m].leaf
    <3>1. ~(h[Sideways(nds, right)[m]] < h[m]) \/ ~(Sideways(nds, right)[m] \in NodeId)
      <4>1. h[m] \in Nat
        BY <1>1, <1>2
      <4>2. Sideways(nds, right)[m] \in NodeId => h[Sideways(nds, right)[m]] \in Nat
        BY <1>1
      <4> HIDE DEF h
      <4> QED BY <2>1, <4>1, <4>2
    <3> QED BY <3>1, <1>5
  <2> QED BY <2>1, <1>4
<1>7. ASSUME NEW n \in Nat, n \in U PROVE n + 1 \in U
  <2>1. ASSUME NEW m \in W, h[m] <= n + 1, ~nds[m].leaf PROVE Ends(m)
    <3>1. PICK d : d = Sideways(nds, right)[m]
      OBVIOUS
    <3>2. d \in W /\ d \in NodeId /\ h[d] < h[m]
      BY <2>1, <3>1, <1>5
    <3>3. h[d] <= n
      <4>1. h[d] \in Nat /\ h[m] \in Nat
        BY <1>1, <1>2, <3>2
      <4> HIDE DEF h
      <4> QED BY <2>1, <3>2, <4>1
    <3>4. Ends(d)
      BY <1>7, <3>2, <3>3
    <3>5. f[m] = f[d]
      BY <1>2, <1>3, <2>1, <3>1
    <3> QED BY <3>4, <3>5
  <2>2. \A m \in W : h[m] <= n + 1 => Ends(m)
    BY <2>1, <1>4
  <2> QED BY <2>2
<1>8. h[x] \in U
  <2>1. h[x] \in Nat
    BY <1>1, <1>2
  <2> HIDE DEF U, h
  <2> QED BY <1>6, <1>7, <2>1, NatSet
<1>9. h[x] <= h[x]
  BY <1>1, <1>2
<1> QED BY <1>8, <1>9

\* down() is such a walk.
LEMMA DownIs ==
    ASSUME NEW r, Tree(nodes, next_id, root_id, r), NEW right \in BOOLEAN, NEW m
    PROVE  \E f : /\ IsWalk(f, NodeId, Bottom(nodes), Sideways(nodes, right))
                  /\ down(m, right) = f[m]
<1> DEFINE walk == CHOOSE f : f = [x \in NodeId |->
                       IF nodes[x].leaf THEN x
                       ELSE f[nodes[x].child[IF right THEN nodes[x].n ELSE 0]]]
<1>1. down(m, right) = walk[m]
  BY DEF down
<1>2. \E f : IsWalk(f, NodeId, Bottom(nodes), Sideways(nodes, right))
  <2>1. PICK h \in [NodeId -> Nat] : h = Heights(nodes)
    BY HeightsOf
  <2>2. PICK N \in Nat : \A x \in NodeId : h[x] <= N
    BY <2>1, HeightsOf
  <2>3. \A x \in NodeId : x \notin Bottom(nodes) =>
           /\ Sideways(nodes, right)[x] \in NodeId
           /\ h[Sideways(nodes, right)[x]] < h[x]
    BY <2>1, SidewaysLower DEF Bottom
  <2> HIDE DEF walk
  <2> QED BY <2>1, <2>2, <2>3, WalkExists
<1>3. \A f : IsWalk(f, NodeId, Bottom(nodes), Sideways(nodes, right))
             <=> f = [x \in NodeId |-> IF nodes[x].leaf THEN x
                                       ELSE f[nodes[x].child[IF right THEN nodes[x].n ELSE 0]]]
  <2> HIDE DEF walk
  <2> QED BY DEF IsWalk, Bottom, Sideways
<1>4. \E f : f = [x \in NodeId |-> IF nodes[x].leaf THEN x
                                   ELSE f[nodes[x].child[IF right THEN nodes[x].n ELSE 0]]]
  <2> HIDE DEF walk
  <2> QED BY <1>2, <1>3
<1>5. walk = [x \in NodeId |-> IF nodes[x].leaf THEN x
                               ELSE walk[nodes[x].child[IF right THEN nodes[x].n ELSE 0]]]
  BY <1>4, Zenon
<1> HIDE DEF walk
<1> QED BY <1>1, <1>3, <1>5

\* From every node it leads to a leaf.
LEMMA DownReaches ==
    ASSUME NEW r, Tree(nodes, next_id, root_id, r), NEW right \in BOOLEAN,
           NEW m \in Ids(next_id)
    PROVE  down(m, right) \in LeafIds(nodes, next_id)
<1>1. PICK f : /\ IsWalk(f, NodeId, Bottom(nodes), Sideways(nodes, right))
               /\ down(m, right) = f[m]
  BY DownIs
<1>2. \A x \in Ids(next_id) : ~nodes[x].leaf => Sideways(nodes, right)[x] \in Ids(next_id)
  BY NodeFacts, SidewaysLower
<1>3. f[m] \in Ids(next_id) /\ nodes[f[m]].leaf
  BY <1>1, <1>2, WalkStaysIn
<1> QED BY <1>1, <1>3 DEF LeafIds

\* From the root it leads to the first or to the last leaf.
LEMMA DownLeads ==
    ASSUME NEW r, Tree(nodes, next_id, root_id, r), root_id \in Ids(next_id),
           Sized(nodes, next_id, root_id)
    PROVE  /\ down(root_id, FALSE) \in LeafIds(nodes, next_id)
           /\ nodes[down(root_id, FALSE)].left = NoNode
           /\ down(root_id, TRUE) \in LeafIds(nodes, next_id)
           /\ nodes[down(root_id, TRUE)].right = NoNode
<1>1. down(root_id, FALSE) \in LeafIds(nodes, next_id) /\ nodes[down(root_id, FALSE)].left = NoNode
  <2>1. PICK f : /\ IsWalk(f, NodeId, Bottom(nodes), Sideways(nodes, FALSE))
                 /\ down(root_id, FALSE) = f[root_id]
    BY DownIs
  <2>2. PICK W : W = {m \in Ids(next_id) : nodes[m].left = NoNode}
    OBVIOUS
  <2>3. ASSUME NEW m \in W, ~nodes[m].leaf PROVE Sideways(nodes, FALSE)[m] \in W
    <3>1. m \in Ids(next_id) /\ m \in NodeId /\ nodes[m].left = NoNode
      BY <2>2, NodeFacts
    <3>2. Sideways(nodes, FALSE)[m] = nodes[m].child[0]
      BY <3>1 DEF Sideways
    <3>3. Sideways(nodes, FALSE)[m] \in Ids(next_id)
      BY <2>3, <3>1, SidewaysLower
    <3>4. nodes[nodes[m].child[0]].left = NoNode
      BY <2>3, <3>1 DEF Tree, Parents
    <3> QED BY <2>2, <3>2, <3>3, <3>4
  <2>4. root_id \in W /\ W \in SUBSET Ids(next_id)
    BY <2>2, RootLeft
  <2>5. f[root_id] \in W /\ nodes[f[root_id]].leaf
    BY <2>1, <2>3, <2>4, WalkStaysIn
  <2> QED BY <2>1, <2>2, <2>5 DEF LeafIds
<1>2. down(root_id, TRUE) \in LeafIds(nodes, next_id) /\ nodes[down(root_id, TRUE)].right = NoNode
  <2>1. PICK f : /\ IsWalk(f, NodeId, Bottom(nodes), Sideways(nodes, TRUE))
                 /\ down(root_id, TRUE) = f[root_id]
    BY DownIs
  <2>2. PICK W : W = {m \in Ids(next_id) : \A k \in r[m], l \in Key : k <= l => l \in r[m]}
    OBVIOUS
  <2>3. ASSUME NEW m \in W, ~nodes[m].leaf PROVE Sideways(nodes, TRUE)[m] \in W
    <3>1. m \in Ids(next_id) /\ m \in NodeId /\ \A k \in r[m], l \in Key : k <= l => l \in r[m]
      BY <2>2, NodeFacts
    <3>2. PICK c, n : c = nodes[m].child[n] /\ n = nodes[m].n
      OBVIOUS
    <3>3. Sideways(nodes, TRUE)[m] = c /\ c \in Ids(next_id)
      BY <2>3, <3>1, <3>2, SidewaysLower DEF Sideways
    <3>4. n \in Int /\ n >= 1 /\ n - 1 \in 0 .. n - 1
      <4>1. n >= 1 /\ n \in 0 .. 2 * B - 1
        BY <2>3, <3>1, <3>2, NodeFacts, DegreeAssumption DEF Sized
      <4> QED BY <4>1, DegreeAssumption
    <3>5. PICK s : s = nodes[m].key[n - 1]
      OBVIOUS
    <3>6. s \in r[m] /\ s \in Int
      BY <3>1, <3>2, <3>4, <3>5, KeyAssumption DEF Tree, Keyed
    <3>7. Slot(nodes, r, m, n) = {k \in r[m] : s <= k}
      <4>1. n > 0 /\ ~(n < nodes[m].n)
        BY <3>2, <3>4
      <4> QED BY <3>5, <4>1 DEF Slot
    <3>8. s \in Slot(nodes, r, m, n)
      BY <3>6, <3>7
    <3>9. r[c] = Slot(nodes, r, m, n)
      <4>1. n \in 0 .. nodes[m].n
        BY <3>2, <3>4
      <4> QED BY <2>3, <3>1, <3>2, <3>8, <4>1 DEF Tree, Parents
    <3>10. ASSUME NEW k \in r[c], NEW l \in Key, k <= l PROVE l \in r[c]
      <4>1. k \in r[m] /\ s <= k /\ k \in Int /\ l \in Int
        BY <3>1, <3>7, <3>9, KeyAssumption DEF Tree, Keyed
      <4>2. l \in r[m] /\ s <= l
        BY <3>1, <3>6, <3>10, <4>1
      <4> QED BY <3>7, <3>9, <4>2
    <3> QED BY <2>2, <3>3, <3>10
  <2>4. root_id \in W /\ W \in SUBSET Ids(next_id)
    BY <2>2 DEF Tree, Rooted
  <2>5. f[root_id] \in W /\ nodes[f[root_id]].leaf
    BY <2>1, <2>3, <2>4, WalkStaysIn
  <2>6. PICK a : a = down(root_id, TRUE)
    OBVIOUS
  <2>7. a \in LeafIds(nodes, next_id) /\ \A k \in r[a], l \in Key : k <= l => l \in r[a]
    BY <2>1, <2>2, <2>5, <2>6 DEF LeafIds
  <2>8. ASSUME nodes[a].right # NoNode PROVE FALSE
    <3>1. PICK c : c = nodes[a].right
      OBVIOUS
    <3>2. c \in LeafIds(nodes, next_id) /\ Above(r, a, c) /\ a \in Ids(next_id)
      BY <2>7, <2>8, <3>1, LeafFacts
    <3>3. c \in Ids(next_id)
      BY <3>2 DEF LeafIds
    <3>4. PICK k \in r[a], l \in r[c] : k \in Int /\ l \in Int /\ l \in Key
      BY <3>2, <3>3, KeyAssumption DEF Tree, Keyed
    <3>5. k < l
      BY <3>2 DEF Above
    <3>6. l \in r[a] /\ ~(l < l)
      BY <2>7, <3>4, <3>5
    <3> QED BY <3>2, <3>6 DEF Above
  <2> QED BY <2>6, <2>7, <2>8
<1> QED BY <1>1, <1>2

-----------------------------------------------------------------------------
(***************************************************************************)
(* The steps of the iterator                                               *)
(***************************************************************************)
\* What update_current leaves behind: the key of the place the iterator moved to,
\* behind which a forward iterator has all that is not larger.
LEMMA Lands ==
    ASSUME Grown, UNCHANGED vars,
           NEW from \in Iterator, from.root \in Ids(next_id),
           NEW id \in LeafIds(nodes, next_id), NEW p \in -1 .. 2 * B - 2,
           p = -1 => ~from.forward /\ nodes[id].n = 0,
           still' \in BOOLEAN,
           still' => from.root = root_id /\ (nodes[id].n = 0 \/ p \in 0 .. nodes[id].n - 1),
           MoveTo(from, id, p)
    PROVE  /\ Placed' /\ Passed' /\ Fixed'
           /\ ~it'.end /\ (p \in KeyIx => it'.key = nodes[id].key[p])
<1>1. PICK r : Holding(r)
  BY DEF Grown, IInv, Holding
<1>2. PICK top, root : top = next_id /\ root = root_id
  OBVIOUS
<1>3. Tree(nodes, top, root, r) /\ Filled(nodes, top) /\ Stale(nodes, top)
  BY <1>1, <1>2 DEF Holding, Grown
<1>4. nodes' = nodes /\ next_id' = top /\ root_id' = root /\ id \in LeafIds(nodes, top)
  BY <1>2 DEF vars
<1>5. /\ id \in NodeId /\ id # NoNode /\ nodes[id] \in Node
      /\ nodes[id].n \in Int /\ nodes[id].n >= 0
  BY <1>3, <1>4, LeafFacts
<1>6. PICK k \in KeyRead(id, p) :
         it' = [from EXCEPT !.node = id, !.pos = p, !.key = k, !.end = FALSE]
  BY <1>5 DEF MoveTo
<1>7. k \in Key \cup {NoKey} /\ (p \in KeyIx => k = nodes[id].key[p])
  BY <1>5, <1>6 DEF KeyRead, Node
<1>8. /\ it'.forward = from.forward /\ it'.root = from.root /\ it'.node = id /\ it'.pos = p
      /\ it'.key = k /\ ~it'.end
      /\ it' \in Iterator
  BY <1>5, <1>6, <1>7 DEF Iterator
<1>9. p = -1 \/ p \in KeyIx
  BY DEF KeyIx
<1>10. p >= 0 <=> p # -1
  OBVIOUS
<1>11. Placed'
  BY <1>2, <1>4, <1>8, <1>10 DEF Placed
<1>12. Fixed'
  <2>1. p \in 0 .. nodes[id].n - 1 => p \in KeyIx
    BY <1>5 DEF KeyIx
  <2> QED BY <1>2, <1>4, <1>5, <1>7, <1>8, <2>1 DEF Fixed
<1>13. ASSUME from.forward, k # NoKey PROVE Behind(nodes, id, p, k)
  <2>1. p \in KeyIx /\ k = nodes[id].key[p] /\ p >= 0 /\ k \in Int /\ p \in Int
    <3>1. p # -1
      BY <1>13
    <3>2. k \in Int
      BY <1>7, <1>13, KeyAssumption
    <3> QED BY <3>1, <3>2, <1>7, <1>9, <1>10
  <2>2. /\ \A j \in 0 .. nodes[id].n - 1 : nodes[id].key[j] \in Int /\ nodes[id].key[j] \in r[id]
        /\ \A i, j \in 0 .. nodes[id].n - 1 : i < j => nodes[id].key[i] < nodes[id].key[j]
    BY <1>3, <1>4, LeafFacts
  <2>3. CASE p < nodes[id].n
    <3>1. p \in 0 .. nodes[id].n - 1 /\ ~(p >= nodes[id].n)
      BY <1>5, <2>1, <2>3
    <3>2. ASSUME NEW j \in 0 .. nodes[id].n - 1, j <= p PROVE nodes[id].key[j] <= k
      <4>1. j = p \/ j < p
        BY <3>1, <3>2
      <4>2. nodes[id].key[j] = k \/ nodes[id].key[j] < k
        BY <2>1, <2>2, <3>1, <4>1
      <4>3. nodes[id].key[j] \in Int
        BY <2>2
      <4> QED BY <2>1, <4>2, <4>3
    <3> QED BY <3>1, <3>2 DEF Behind
  <2>4. CASE p >= nodes[id].n
    <3>1. RightStarts(nodes, id, k)
      BY <1>3, <1>4, <1>13, <2>1, <2>4 DEF Stale
    <3>2. PICK c : c = nodes[id].right
      OBVIOUS
    <3>3. c # NoNode /\ nodes[c].key[0] <= k
      BY <3>1, <3>2 DEF RightStarts
    <3>4. c \in LeafIds(nodes, top) /\ c # id /\ Above(r, id, c) /\ id \in Ids(top)
      BY <1>3, <1>4, <3>2, <3>3, LeafFacts
    <3>5. 0 \in 0 .. nodes[c].n - 1
      BY <1>3, <3>4, NeighbourFilled
    <3>6. nodes[c].key[0] \in r[c] /\ nodes[c].key[0] \in Int
      BY <1>3, <3>4, <3>5, LeafFacts
    <3>7. ASSUME NEW j \in 0 .. nodes[id].n - 1 PROVE nodes[id].key[j] <= k
      <4>1. nodes[id].key[j] < nodes[c].key[0] /\ nodes[id].key[j] \in Int
        BY <2>2, <3>4, <3>6 DEF Above
      <4> QED BY <2>1, <3>3, <3>6, <4>1
    <3> QED BY <3>1, <3>7 DEF Behind
  <2> QED BY <1>5, <2>1, <2>3, <2>4
<1>14. Passed'
  BY <1>4, <1>8, <1>13 DEF Passed
<1> QED BY <1>7, <1>8, <1>11, <1>12, <1>14

\* Beyond the last leaf the iterator has ended.
LEMMA Ends ==
    ASSUME it \in Iterator, still' \in BOOLEAN, it' = Ended(it)
    PROVE  Placed' /\ Passed' /\ Fixed' /\ it'.end /\ it'.root = it.root
<1>1. it'.end /\ it' \in Iterator /\ it'.root = it.root
  <2>1. -1 \in -1 .. 2 * B - 2
    BY DegreeAssumption
  <2> QED BY <2>1 DEF Ended, Iterator
<1> QED BY <1>1 DEF Placed, Passed, Fixed

\* One step takes the iterator to the next or the previous key of its leaf, over
\* the edge to the first or the last of the neighbour, or to the end.
LEMMA Moves ==
    ASSUME Iterating, NEW towards \in BOOLEAN, Advance(towards),
           NEW a, a = it.node, NEW p, p = it.pos, NEW c, NEW n, n = nodes[a].n
    PROVE  /\ Placed' /\ Passed' /\ Fixed'
           /\ towards /\ p + 1 < n /\ p >= 0 => ~it'.end /\ it'.key = nodes[a].key[p + 1]
           /\ towards /\ p + 1 >= n /\ c = nodes[a].right =>
                 IF c = NoNode THEN it'.end /\ it'.root = it.root
                 ELSE ~it'.end /\ it'.key = nodes[c].key[0]
           /\ ~towards /\ p - 1 >= 0 => ~it'.end /\ it'.key = nodes[a].key[p - 1]
           /\ ~towards /\ p - 1 < 0 /\ c = nodes[a].left =>
                 IF c = NoNode THEN it'.end /\ it'.root = it.root
                 ELSE ~it'.end /\ it'.key = nodes[c].key[nodes[c].n - 1]
<1>1. PICK r : Holding(r)
  BY DEF Iterating, Grown, IInv, Holding
<1>2. PICK top, root : top = next_id /\ root = root_id
  OBVIOUS
<1>3. Tree(nodes, top, root, r) /\ Filled(nodes, top) /\ Grown
  BY <1>1, <1>2 DEF Holding, Grown, Iterating
<1>4. /\ it \in Iterator /\ a \in LeafIds(nodes, top) /\ it.root \in Ids(top)
      /\ p \in -1 .. 2 * B - 2 /\ p \in Int /\ UNCHANGED vars
      /\ still' = still /\ still' \in BOOLEAN
      /\ still => it.root = root /\ (n = 0 \/ p \in 0 .. n - 1)
  <2>1. ~it.end
    BY DEF Advance
  <2>2. /\ it \in Iterator /\ a \in LeafIds(nodes, top) /\ it.root \in Ids(top)
        /\ UNCHANGED vars
        /\ still' = still /\ still' \in BOOLEAN
    BY <1>2, <2>1 DEF Iterating, Placed, Fixed, Advance
  <2>3. n \in Int /\ n >= 0
    BY <1>3, <2>2, LeafFacts
  <2>4. still => it.root = root /\ (n = 0 \/ p \in 0 .. n - 1)
    BY <1>2, <2>1, <2>3 DEF Iterating, Fixed
  <2> QED BY <2>2, <2>4 DEF Iterator
<1>5. n \in Int /\ n >= 0 /\ n \in 0 .. 2 * B - 1 /\ a \in Ids(top)
  BY <1>3, <1>4, LeafFacts
<1>6. PICK q : q = IF towards THEN p + 1 ELSE p - 1
  OBVIOUS
<1>7. q \in Int /\ B \in Int
  BY <1>4, <1>6, DegreeAssumption
<1>8. CASE ~(IF towards THEN q >= n ELSE q < 0)
  <2>1. NextPlace(towards) = <<a, q>>
    BY <1>6, <1>8 DEF NextPlace
  <2>2. MoveTo(it, a, q)
    BY <2>1 DEF Advance
  <2>3. q \in 0 .. 2 * B - 2 /\ q \in KeyIx /\ q # -1 /\ q \in -1 .. 2 * B - 2
    BY <1>4, <1>5, <1>6, <1>7, <1>8, DegreeAssumption DEF KeyIx
  <2>4. still' => it.root = root /\ (n = 0 \/ q \in 0 .. n - 1)
    BY <1>4, <1>5, <1>6, <1>7, <1>8
  <2>5. Placed' /\ Passed' /\ Fixed' /\ ~it'.end /\ it'.key = nodes[a].key[q]
    BY <1>2, <1>3, <1>4, <2>2, <2>3, <2>4, Lands
  <2> QED BY <1>6, <1>8, <2>5, <1>4, <1>5
<1>9. CASE towards /\ q >= n
  <2>1. PICK d : d = nodes[a].right
    OBVIOUS
  <2>2. NextPlace(towards) = <<d, 0>>
    BY <1>6, <1>9, <2>1 DEF NextPlace, OverTheEdge
  <2>3. MoveTo(it, d, 0)
    BY <2>2 DEF Advance
  <2>4. CASE d = NoNode
    <3>1. Placed' /\ Passed' /\ Fixed' /\ it'.end /\ it'.root = it.root
      BY <1>4, <2>3, <2>4, Ends DEF MoveTo
    <3> QED BY <1>6, <1>9, <2>1, <2>4, <3>1, <1>4, <1>5
  <2>5. CASE d # NoNode
    <3>1. d \in LeafIds(nodes, top) /\ d # a
      BY <1>3, <1>4, <2>1, <2>5, LeafFacts
    <3>2. 0 \in 0 .. nodes[d].n - 1
      BY <1>3, <1>5, <3>1, NeighbourFilled
    <3>3. 0 \in -1 .. 2 * B - 2 /\ 0 \in KeyIx /\ 0 # -1
      BY DegreeAssumption DEF KeyIx
    <3>4. Placed' /\ Passed' /\ Fixed' /\ ~it'.end /\ it'.key = nodes[d].key[0]
      BY <1>2, <1>3, <1>4, <2>3, <3>1, <3>2, <3>3, Lands
    <3> QED BY <1>6, <1>9, <2>1, <2>5, <3>4, <1>4, <1>5
  <2> QED BY <2>4, <2>5
<1>10. CASE ~towards /\ q < 0
  <2>1. PICK d, l : d = nodes[a].left /\ l = nodes[d].n - 1
    OBVIOUS
  <2>2. NextPlace(towards) = <<d, IF d = NoNode THEN 0 ELSE l>>
    BY <1>6, <1>10, <2>1 DEF NextPlace, OverTheEdge
  <2>3. MoveTo(it, d, IF d = NoNode THEN 0 ELSE l)
    BY <2>2 DEF Advance
  <2>4. CASE d = NoNode
    <3>1. Placed' /\ Passed' /\ Fixed' /\ it'.end /\ it'.root = it.root
      BY <1>4, <2>3, <2>4, Ends DEF MoveTo
    <3> QED BY <1>6, <1>10, <2>1, <2>4, <3>1, <1>4, <1>5
  <2>5. CASE d # NoNode
    <3>1. d \in LeafIds(nodes, top) /\ d # a
      BY <1>3, <1>4, <2>1, <2>5, LeafFacts
    <3>2. nodes[d].n > 0
      BY <1>3, <1>5, <3>1, NeighbourFilled
    <3>3. nodes[d].n \in 0 .. 2 * B - 1 /\ nodes[d].n \in Int
      BY <1>3, <3>1, LeafFacts
    <3>4. l \in -1 .. 2 * B - 2 /\ l \in KeyIx /\ l # -1 /\ l \in 0 .. nodes[d].n - 1
      BY <1>7, <2>1, <3>2, <3>3 DEF KeyIx
    <3>5. MoveTo(it, d, l)
      BY <2>3, <2>5
    <3>6. Placed' /\ Passed' /\ Fixed' /\ ~it'.end /\ it'.key = nodes[d].key[l]
      BY <1>2, <1>3, <1>4, <3>1, <3>4, <3>5, Lands
    <3> QED BY <1>6, <1>10, <2>1, <2>5, <3>6, <1>4, <1>5
  <2> QED BY <2>4, <2>5
<1> QED BY <1>8, <1>9, <1>10

\* rewind of what has a root: the iterator lands in a leaf under it, and under the
\* root of the tree at the first key of the first leaf, or at the last of the last.
LEMMA RewindsFrom ==
    ASSUME Iterating, UNCHANGED vars, NEW from \in Iterator, from.root \in Ids(next_id),
           still' \in BOOLEAN, still' => from.root = root_id,
           RewindFrom(from),
           NEW a, a = down(from.root, ~from.forward),
           NEW p, p = IF from.forward THEN 0 ELSE nodes[a].n - 1
    PROVE  /\ Placed' /\ Passed' /\ Fixed'
           /\ a \in LeafIds(nodes, next_id)
           /\ from.root = root_id => /\ from.forward => nodes[a].left = NoNode
                                     /\ ~from.forward => nodes[a].right = NoNode
           /\ nodes[a].n > 0 => ~it'.end /\ it'.key = nodes[a].key[p]
<1>1. PICK r : Holding(r)
  BY DEF Iterating, Grown, IInv, Holding
<1>2. PICK top, root : top = next_id /\ root = root_id
  OBVIOUS
<1>3. Tree(nodes, top, root, r) /\ Grown /\ IInv
  BY <1>1, <1>2 DEF Holding, Grown, Iterating
<1>4. from.forward \in BOOLEAN
  BY DEF Iterator
<1>5. a \in LeafIds(nodes, top)
  BY <1>2, <1>3, <1>4, DownReaches
<1>6. ASSUME from.root = root_id
      PROVE  /\ from.forward => nodes[a].left = NoNode
             /\ ~from.forward => nodes[a].right = NoNode
  <2>1. Sized(nodes, next_id, root_id) /\ root_id \in Ids(next_id)
    BY <1>3, <1>6 DEF IInv
  <2>2. from.forward => a = down(root_id, FALSE)
    BY <1>6
  <2>3. ~from.forward => a = down(root_id, TRUE)
    BY <1>6
  <2> QED BY <1>2, <1>3, <2>1, <2>2, <2>3, DownLeads
<1>7. nodes[a].n \in Int /\ nodes[a].n >= 0 /\ nodes[a].n \in 0 .. 2 * B - 1
  BY <1>3, <1>5, LeafFacts
<1>8. MoveTo(from, a, p)
  BY DEF RewindFrom
<1>9. p \in -1 .. 2 * B - 2 /\ (p = -1 => ~from.forward /\ nodes[a].n = 0)
  BY <1>7, DegreeAssumption
<1>10. nodes[a].n = 0 \/ p \in 0 .. nodes[a].n - 1
  BY <1>7
<1>11. nodes[a].n > 0 => p \in KeyIx
  BY <1>7, DegreeAssumption DEF KeyIx
<1>12. Placed' /\ Passed' /\ Fixed' /\ ~it'.end /\ (p \in KeyIx => it'.key = nodes[a].key[p])
  BY <1>2, <1>3, <1>5, <1>8, <1>9, <1>10, Lands
<1> QED BY <1>2, <1>5, <1>6, <1>11, <1>12

\* What begin() and rbegin() and what rewind(false) rewind.
StartsFrom(from) == \/ \E forward \in BOOLEAN : Rewind(forward) /\ from = Begun(forward, root_id)
                    \/ Again /\ from = it

\* Either has a node of the tree for its root.
LEMMA Starts ==
    ASSUME Iterating, NEW from, StartsFrom(from)
    PROVE  /\ UNCHANGED vars /\ from \in Iterator /\ from.root \in Ids(next_id)
           /\ still' \in BOOLEAN /\ (still' => from.root = root_id)
           /\ RewindFrom(from)
<1>1. CASE Again /\ from = it
  BY <1>1 DEF Again, Iterating, Placed
<1>2. ASSUME NEW forward \in BOOLEAN, Rewind(forward), from = Begun(forward, root_id)
      PROVE  /\ UNCHANGED vars /\ from \in Iterator /\ from.root \in Ids(next_id)
             /\ still' \in BOOLEAN /\ (still' => from.root = root_id)
             /\ RewindFrom(from)
  <2>1. PICK r : Holding(r)
    BY DEF Iterating, Grown, IInv, Holding
  <2>2. root_id \in Ids(next_id)
    BY <1>2, <2>1, RootThere DEF Iterating, Grown, Rewind
  <2>3. root_id \in NodeId
    BY <2>1, <2>2, NodeFacts DEF Holding
  <2>4. -1 \in -1 .. 2 * B - 2
    BY DegreeAssumption
  <2>5. from \in Iterator /\ from.root = root_id
    BY <1>2, <2>3, <2>4 DEF Begun, Iterator
  <2> QED BY <1>2, <2>2, <2>5 DEF Rewind
<1> QED BY <1>1, <1>2 DEF StartsFrom

\* On an empty tree they go to the leaf that they make.
LEMMA RewindsEmpty ==
    ASSUME Iterating, Key # {}, NEW forward \in BOOLEAN, RewindEmpty(forward)
    PROVE  Iterating'
<1>1. PICK r0 : Holding(r0)
  BY DEF Iterating, Grown, IInv, Holding
<1>2. IInv /\ op = Idle /\ it \in Iterator
  BY DEF Iterating, Grown, Placed, RewindEmpty
<1>3. next_id = 1 /\ 1 <= MaxNode /\ 1 \in NodeId
  BY <1>2, NodeAssumption DEF RewindEmpty, IInv, IdsLeft, NodeId
<1>4. nodes \in [NodeId -> Node] /\ \A id \in NodeId : nodes[id] = Fresh
  BY <1>1, <1>3, NodeAssumption DEF Holding, Tree, Typed, NodeId
<1>5. /\ nodes' = nodes /\ next_id' = 2 /\ root_id' = 1 /\ op' = Idle /\ result' = result
      /\ MoveTo(Begun(forward, 1), 1, IF forward THEN 0 ELSE -1) /\ still'
  BY <1>2, <1>3, <1>4 DEF RewindEmpty
<1>6. IInv'
  <2>1. PICK r : r = [id \in NodeId |-> Key]
    OBVIOUS
  <2>2. Tree(nodes, next_id, root_id, r)' /\ r \in [NodeId -> SUBSET Key]
    BY <1>3, <1>4, <1>5, <2>1, FirstTree
  <2>3. op'.node = NoNode /\ op'.kind = "idle" /\ op'.kind # "insert"
    BY <1>5 DEF Idle
  <2>4. Requested'
    BY <1>2, <1>5, <2>3 DEF IInv, Requested
  <2>5. Room' /\ Reached(r)'
    BY <2>3 DEF Room, Reached
  <2>6. Sized(nodes, next_id, root_id)'
    <3>1. \A id \in Ids(2) : id = 1
      BY DEF Ids
    <3> QED BY <1>3, <1>4, <1>5, <3>1, FreshNode DEF Sized
  <2>7. result' \in Result
    BY <1>2, <1>5 DEF IInv
  <2>8. \E q \in [NodeId -> SUBSET Key] : (Tree(nodes, next_id, root_id, q) /\ Reached(q))'
    BY <2>2, <2>5
  <2> QED BY <1>5, <2>4, <2>5, <2>6, <2>7, <2>8 DEF IInv, NoNode
<1>7. Grown'
  <2>1. Filled(nodes, next_id)' /\ Stale(nodes, next_id)'
    BY <1>2, <1>3, <1>4, <1>5, FirstLeafGrows
  <2> QED BY <1>5, <1>6, <2>1 DEF Grown, Idle
<1>8. PICK p : p = IF forward THEN 0 ELSE -1
  OBVIOUS
<1>9. 1 \in LeafIds(nodes', next_id') /\ nodes'[1].n = 0
  <2>1. 1 \in Ids(2)
    BY DEF Ids
  <2> QED BY <1>3, <1>4, <1>5, <2>1, FreshNode DEF LeafIds
<1>10. PICK k \in KeyRead(1, p) :
          it' = [Begun(forward, 1) EXCEPT !.node = 1, !.pos = p, !.key = k, !.end = FALSE]
  <2>1. PICK from : from = Begun(forward, 1)
    OBVIOUS
  <2>2. MoveTo(from, 1, p)
    BY <1>5, <1>8, <2>1
  <2>3. 1 # NoNode
    BY DEF NoNode
  <2>4. \E k \in KeyRead(1, p) :
           it' = [from EXCEPT !.node = 1, !.pos = p, !.key = k, !.end = FALSE]
    BY <2>2, <2>3, Zenon DEF MoveTo
  <2> QED BY <2>1, <2>4, Zenon
<1>11. k \in Key \cup {NoKey} /\ (forward => k = NoKey)
  <2>1. p \in KeyIx => nodes[1].key[p] = NoKey
    BY <1>3, <1>4 DEF Fresh
  <2>2. forward => p \in KeyIx
    BY <1>8, DegreeAssumption DEF KeyIx
  <2> QED BY <2>1, <2>2 DEF KeyRead
<1>12. /\ it' \in Iterator /\ it'.node = 1 /\ it'.pos = p /\ it'.forward = forward
       /\ it'.root = 1 /\ it'.key = k /\ ~it'.end
  <2>1. p \in -1 .. 2 * B - 2
    BY <1>8, DegreeAssumption
  <2> QED BY <1>3, <1>10, <1>11, <2>1 DEF Iterator, Begun
<1>13. Placed'
  BY <1>8, <1>9, <1>12 DEF Placed, LeafIds
<1>14. Passed'
  BY <1>11, <1>12 DEF Passed
<1>15. Fixed'
  <2>1. ~(nodes'[it'.node].n > 0) /\ still' \in BOOLEAN
    BY <1>9, <1>12 DEF RewindEmpty
  <2> QED BY <1>5, <1>12, <2>1 DEF Fixed
<1> QED BY <1>7, <1>13, <1>14, <1>15 DEF Iterating

\* No node goes.
LEMMA AddKeepsIds ==
    ASSUME Grown, AddNext
    PROVE  Ids(next_id) \subseteq Ids(next_id')
<1>1. PICK r : Holding(r)
  BY DEF Grown, IInv, Holding
<1>2. next_id \in Int
  BY <1>1 DEF Holding, Tree, Typed
<1>3. next_id' \in {next_id, next_id + 1, next_id + 2}
  <2>1. ASSUME NEW k, NEW v, Begin("insert", k, v) PROVE next_id' = next_id
    BY <2>1 DEF Begin
  <2>2. /\ EnterEmpty \/ SplitFullChild => next_id' = next_id + 1
        /\ GrowRoot => next_id' = next_id + 2
    BY DEF EnterEmpty, GrowRoot, SplitFullChild
  <2>3. \/ EnterRoot \/ Descend \/ SearchLeaf \/ InsertLeaf
        \/ UpdateLeaf \/ UpdateMissing \/ RemoveLeaf
        => next_id' = next_id
    BY DEF EnterRoot, Descend, SearchLeaf, InsertLeaf, UpdateLeaf, UpdateMissing, RemoveLeaf
  <2> QED BY <2>1, <2>2, <2>3 DEF AddNext, Step
<1>4. PICK m, n : m = next_id /\ n = next_id'
  OBVIOUS
<1>5. m \in Int /\ n \in Int /\ n >= m
  BY <1>2, <1>3, <1>4
<1>6. 1 .. m - 1 \subseteq 1 .. n - 1
  BY <1>5
<1> QED BY <1>4, <1>6 DEF Ids

\* The tree grows under the iterator.
LEMMA AddStays ==
    ASSUME Iterating, TreeStep(AddNext)
    PROVE  Iterating'
<1>1. Grown' /\ LeavesGrow /\ Ids(next_id) \subseteq Ids(next_id')
  BY AddGrows, AddKeepsIds DEF Iterating, TreeStep
<1>2. it' = it /\ still' = (still /\ UNCHANGED <<nodes, root_id>>)
  BY DEF TreeStep
<1>3. /\ it \in Iterator
      /\ ~it.end => it.root \in Ids(next_id) /\ it.node \in LeafIds(nodes, next_id)
      /\ ~it.end /\ it.forward => it.pos >= 0
  BY DEF Iterating, Placed
<1>4. LeafIds(nodes, next_id) \subseteq LeafIds(nodes', next_id')
  BY <1>1 DEF LeavesGrow
<1>5. Placed'
  BY <1>1, <1>2, <1>3, <1>4 DEF Placed
<1>6. Passed'
  <2>1. ASSUME ~it.end, it.forward, it.key # NoKey PROVE Behind(nodes', it.node, it.pos, it.key)
    <3>1. it.pos \in Int /\ it.key \in Int
      <4>1. it.pos \in -1 .. 2 * B - 2 /\ it.key \in Key
        BY <1>3, <2>1 DEF Iterator
      <4>2. it.pos \in Int
        BY <4>1
      <4>3. it.key \in Int
        BY <4>1, KeyAssumption
      <4> QED BY <4>2, <4>3
    <3>2. Behind(nodes, it.node, it.pos, it.key)
      BY <2>1 DEF Iterating, Passed
    <3> QED BY <1>1, <1>3, <2>1, <3>1, <3>2 DEF LeavesGrow
  <2> QED BY <1>2, <2>1 DEF Passed
<1>7. Fixed'
  BY <1>2 DEF Iterating, Fixed
<1> QED BY <1>1, <1>5, <1>6, <1>7 DEF Iterating

\* Grown looks at the tree only.
LEMMA SameGrown ==
    ASSUME Grown, UNCHANGED vars
    PROVE  Grown'
<1>1. IInv'
  BY NextInv DEF Grown
<1>2. UNCHANGED <<nodes, next_id, op>>
  BY DEF vars
<1>3. Filled(nodes, next_id)' /\ Stale(nodes, next_id)'
  BY <1>2, SameLeaves DEF Grown
<1> QED BY <1>1, <1>2, <1>3 DEF Grown

\* Every step of the iterator and of the insertions.
LEMMA IteratingStep ==
    ASSUME Iterating, Key # {}, [Walk \/ TreeStep(AddNext)]_allVars
    PROVE  Iterating'
<1>1. ASSUME NEW towards \in BOOLEAN, Advance(towards) PROVE Iterating'
  <2>1. Grown'
    BY <1>1, SameGrown DEF Iterating, Advance
  <2>2. Placed' /\ Passed' /\ Fixed'
    BY <1>1, Moves
  <2> QED BY <2>1, <2>2 DEF Iterating
<1>2. ASSUME NEW from, StartsFrom(from) PROVE Iterating'
  <2>1. Grown'
    BY <1>2, Starts, SameGrown DEF Iterating
  <2>2. PICK a : a = down(from.root, ~from.forward)
    OBVIOUS
  <2>3. Placed' /\ Passed' /\ Fixed'
    BY <1>2, <2>2, Starts, RewindsFrom
  <2> QED BY <2>1, <2>3 DEF Iterating
<1>3. ASSUME NEW forward \in BOOLEAN, RewindEmpty(forward) PROVE Iterating'
  BY <1>3, RewindsEmpty
<1>4. ASSUME Stop PROVE Iterating'
  <2>1. Grown'
    BY <1>4, SameGrown DEF Iterating, Stop
  <2>2. Placed' /\ Passed' /\ Fixed'
    BY <1>4, Ends DEF Iterating, Placed, Fixed, Stop
  <2> QED BY <2>1, <2>2 DEF Iterating
<1>5. CASE Walk
  <2>1. ~it.end => it.forward \in BOOLEAN
    BY DEF Iterating, Placed, Iterator
  <2>2. ASSUME next \/ prev PROVE \E towards \in BOOLEAN : Advance(towards)
    <3>1. ~it.end
      BY <2>2 DEF next, prev, Advance
    <3> QED BY <2>1, <2>2, <3>1 DEF next, prev
  <2>3. ASSUME NEW forward \in BOOLEAN, Rewind(forward) PROVE StartsFrom(Begun(forward, root_id))
    BY <2>3 DEF StartsFrom
  <2>4. Again => StartsFrom(it)
    BY DEF StartsFrom
  <2> QED BY <1>1, <1>2, <1>3, <1>5, <1>4, <2>2, <2>3, <2>4 DEF Walk
<1>6. CASE TreeStep(AddNext)
  BY <1>6, AddStays
<1>7. CASE UNCHANGED allVars
  <2>1. UNCHANGED vars /\ it' = it /\ still' = still
    BY <1>7 DEF allVars, itVars
  <2>2. Grown'
    BY <2>1, SameGrown DEF Iterating
  <2>3. nodes' = nodes /\ next_id' = next_id /\ root_id' = root_id
    BY <2>1 DEF vars
  <2>4. Placed' /\ Passed' /\ Fixed'
    BY <2>1, <2>3 DEF Iterating, Placed, Passed, Fixed, Behind, RightStarts
  <2> QED BY <2>2, <2>4 DEF Iterating
<1> QED BY <1>5, <1>6, <1>7

\* At the beginning there is no tree and the iterator has ended.
LEMMA IteratingInit == ItInit => Iterating
<1> SUFFICES ASSUME ItInit PROVE Iterating
  OBVIOUS
<1>1. IInv
  BY InitInv DEF ItInit
<1>2. next_id = 1 /\ op = Idle /\ LeafIds(nodes, next_id) = {}
  BY DEF ItInit, Init, LeafIds, Ids
<1>3. Grown
  BY <1>1, <1>2 DEF Grown, Filled, Stale, Idle
<1>4. it.end /\ it \in Iterator /\ still \in BOOLEAN
  <2>1. -1 \in -1 .. 2 * B - 2
    BY DegreeAssumption
  <2> QED BY <2>1 DEF ItInit, Iterator, Ended, Begun
<1> QED BY <1>3, <1>4 DEF Iterating, Placed, Passed, Fixed

-----------------------------------------------------------------------------
(***************************************************************************)
(* What an iteration comes to                                              *)
(***************************************************************************)
\* A key that is present is in a leaf.
LEMMA PresentIn ==
    ASSUME NEW k \in Present
    PROVE  \E c \in LeafIds(nodes, next_id) : \E i \in 0 .. nodes[c].n - 1 : nodes[c].key[i] = k
  BY DEF Present, Contains, Holds, LeafIds, Ids

\* What a leaf holds is present.
LEMMA LivePresent ==
    ASSUME NEW c \in LeafIds(nodes, next_id), NEW i \in 0 .. nodes[c].n - 1, nodes[c].key[i] \in Key
    PROVE  nodes[c].key[i] \in Present
  BY DEF Present, Contains, Holds, LeafIds, Ids

\* The least key beyond what is behind a place is at the next place.
LEMMA NextIsLeast ==
    ASSUME Grown, NEW a \in LeafIds(nodes, next_id), NEW p \in Int, p >= 0, NEW h \in Int,
           Behind(nodes, a, p, h),
           NEW k \in Present, h < k
    PROVE  /\ p + 1 < nodes[a].n => nodes[a].key[p + 1] <= k
           /\ p + 1 >= nodes[a].n => /\ nodes[a].right # NoNode
                                     /\ nodes[nodes[a].right].key[0] <= k
<1>1. PICK r : Holding(r)
  BY DEF Grown, IInv, Holding
<1>2. PICK top, root, nds : top = next_id /\ root = root_id /\ nds = nodes
  OBVIOUS
<1>3. Tree(nds, top, root, r) /\ Filled(nds, top) /\ a \in LeafIds(nds, top)
  BY <1>1, <1>2 DEF Holding, Grown
<1>0. PICK c \in LeafIds(nds, top) : \E i \in 0 .. nds[c].n - 1 : nds[c].key[i] = k
  BY <1>2, PresentIn
<1>4. PICK i \in 0 .. nds[c].n - 1 : nds[c].key[i] = k
  BY <1>0
<1>5. /\ k \in r[c] /\ k \in Int /\ c \in Ids(top) /\ a \in Ids(top)
      /\ nds[c].n \in Int /\ nds[a].n \in Int /\ nds[a].n >= 0 /\ nds[a].rank = nds[c].rank
  BY <1>3, <1>4, LeafFacts
<1>6. \A j \in 0 .. nds[a].n - 1 : j <= p => nds[a].key[j] <= h
  BY <1>2 DEF Behind
<1>7. \A j \in 0 .. nds[a].n - 1 : nds[a].key[j] \in Int /\ nds[a].key[j] \in r[a]
  BY <1>3, LeafFacts
<1>8. CASE c = a
  <2>1. i > p
    <3>1. ~(i <= p)
      <4>1. i <= p => k <= h
        BY <1>4, <1>6, <1>8
      <4> QED BY <1>5, <4>1
    <3> QED BY <3>1, <1>4, <1>5
  <2>2. p + 1 < nds[a].n => nds[a].key[p + 1] <= k
    <3>1. p + 1 = i \/ p + 1 < i
      BY <1>4, <1>5, <1>8, <2>1
    <3>2. p + 1 \in 0 .. nds[a].n - 1
      BY <1>4, <1>5, <1>8, <2>1
    <3>3. p + 1 < i => nds[a].key[p + 1] < k
      BY <1>3, <1>4, <1>8, <3>2, LeafFacts
    <3> QED BY <1>4, <1>5, <1>7, <1>8, <3>1, <3>2, <3>3
  <2>3. ~(p + 1 >= nds[a].n)
    BY <1>4, <1>5, <1>8, <2>1
  <2> QED BY <1>2, <2>2, <2>3
<1>9. CASE c # a /\ nds[a].n > 0
  <2>1. 0 \in 0 .. nds[a].n - 1 /\ 0 <= p
    BY <1>5, <1>9
  <2>2. nds[a].key[0] < k
    <3>1. nds[a].key[0] <= h /\ nds[a].key[0] \in Int
      BY <1>6, <1>7, <2>1
    <3> QED BY <1>5, <3>1
  <2>3. Above(r, a, c)
    BY <1>3, <1>4, <1>5, <1>7, <1>9, <2>1, <2>2, LeafOrder
  <2>4. ASSUME p + 1 < nds[a].n PROVE nds[a].key[p + 1] <= k
    <3>1. p + 1 \in 0 .. nds[a].n - 1
      BY <1>5, <2>4
    <3>2. nds[a].key[p + 1] \in Int /\ nds[a].key[p + 1] \in r[a]
      BY <1>7, <3>1
    <3>3. nds[a].key[p + 1] < k
      BY <1>5, <2>3, <3>2 DEF Above
    <3> QED BY <1>5, <3>2, <3>3
  <2>5. PICK d : d = nds[a].right
    OBVIOUS
  <2>6. d # NoNode /\ (c = d \/ Above(r, d, c))
    BY <1>3, <1>4, <2>3, <2>5, NextLeaf
  <2>7. d \in LeafIds(nds, top) /\ d # a
    BY <1>3, <2>5, <2>6, LeafFacts
  <2>8. 0 \in 0 .. nds[d].n - 1
    BY <1>3, <1>5, <2>7, NeighbourFilled
  <2>9. nds[d].key[0] \in Int /\ nds[d].key[0] \in r[d]
    BY <1>3, <2>7, <2>8, LeafFacts
  <2>10. nds[d].key[0] <= k
    <3>1. CASE c = d
      <4>1. i = 0 \/ 0 < i
        BY <1>4, <1>5
      <4>2. 0 < i => nds[d].key[0] < k
        BY <1>3, <1>4, <2>8, <3>1, LeafFacts
      <4> QED BY <1>4, <1>5, <2>9, <3>1, <4>1, <4>2
    <3>2. CASE Above(r, d, c)
      <4>1. nds[d].key[0] < k
        BY <1>5, <2>9, <3>2 DEF Above
      <4> QED BY <1>5, <2>9, <4>1
    <3> QED BY <2>6, <3>1, <3>2
  <2> QED BY <1>2, <2>4, <2>5, <2>6, <2>10
<1>10. CASE c # a /\ ~(nds[a].n > 0)
  <2>1. nds[a].n > 0
    BY <1>3, <1>5, <1>10, NeighbourFilled
  <2> QED BY <1>10, <2>1
<1> QED BY <1>8, <1>9, <1>10

\* The greatest key before a place is at the previous place.
LEMMA PreviousIsGreatest ==
    ASSUME Grown, NEW a \in LeafIds(nodes, next_id), NEW p \in 0 .. nodes[a].n - 1,
           NEW k \in Present, k < nodes[a].key[p]
    PROVE  /\ p - 1 >= 0 => k <= nodes[a].key[p - 1]
           /\ p - 1 < 0 => /\ nodes[a].left # NoNode
                           /\ \A d, l : d = nodes[a].left /\ l = nodes[d].n - 1 => k <= nodes[d].key[l]
<1>1. PICK r : Holding(r)
  BY DEF Grown, IInv, Holding
<1>2. PICK top, root, nds : top = next_id /\ root = root_id /\ nds = nodes
  OBVIOUS
<1>3. Tree(nds, top, root, r) /\ Filled(nds, top) /\ a \in LeafIds(nds, top)
  BY <1>1, <1>2 DEF Holding, Grown
<1>0. PICK c \in LeafIds(nds, top) : \E i \in 0 .. nds[c].n - 1 : nds[c].key[i] = k
  BY <1>2, PresentIn
<1>4. PICK i \in 0 .. nds[c].n - 1 : nds[c].key[i] = k
  BY <1>0
<1>5. /\ k \in r[c] /\ k \in Int /\ c \in Ids(top) /\ a \in Ids(top)
      /\ nds[c].n \in Int /\ nds[a].n \in Int /\ nds[a].rank = nds[c].rank
  BY <1>3, <1>4, LeafFacts
<1>6. \A j \in 0 .. nds[a].n - 1 : nds[a].key[j] \in Int /\ nds[a].key[j] \in r[a]
  BY <1>3, LeafFacts
<1>7. p \in Int /\ p \in 0 .. nds[a].n - 1 /\ k < nds[a].key[p]
  BY <1>2
<1>8. CASE c = a
  <2>1. i < p
    <3>1. p < i => nds[a].key[p] < k
      BY <1>3, <1>4, <1>7, <1>8, LeafFacts
    <3>2. nds[a].key[p] \in Int
      BY <1>6, <1>7
    <3>3. i # p /\ ~(p < i)
      BY <1>4, <1>5, <1>7, <1>8, <3>1, <3>2
    <3> QED BY <1>4, <1>5, <1>7, <3>3
  <2>2. p - 1 \in 0 .. nds[a].n - 1 /\ p - 1 >= 0 /\ (i = p - 1 \/ i < p - 1)
    BY <1>4, <1>5, <1>7, <2>1
  <2>3. i < p - 1 => k < nds[a].key[p - 1]
    BY <1>3, <1>4, <1>8, <2>2, LeafFacts
  <2>4. k <= nds[a].key[p - 1]
    BY <1>4, <1>5, <1>6, <1>8, <2>2, <2>3
  <2> QED BY <1>2, <1>7, <2>2, <2>4
<1>9. CASE c # a
  <2>1. Above(r, c, a)
    BY <1>3, <1>4, <1>5, <1>6, <1>7, <1>9, LeafOrder
  <2>2. ASSUME p - 1 >= 0 PROVE k <= nds[a].key[p - 1]
    <3>1. p - 1 \in 0 .. nds[a].n - 1
      BY <1>5, <1>7, <2>2
    <3>2. nds[a].key[p - 1] \in Int /\ nds[a].key[p - 1] \in r[a]
      BY <1>6, <3>1
    <3>3. k < nds[a].key[p - 1]
      BY <1>5, <2>1, <3>2 DEF Above
    <3> QED BY <1>5, <3>2, <3>3
  <2>3. PICK d, l : d = nds[a].left /\ l = nds[d].n - 1
    OBVIOUS
  <2>4. d # NoNode /\ (c = d \/ Above(r, c, d))
    BY <1>3, <1>4, <2>1, <2>3, PreviousLeaf
  <2>5. d \in LeafIds(nds, top) /\ d # a
    BY <1>3, <2>3, <2>4, LeafFacts
  <2>6. nds[d].n > 0 /\ nds[d].n \in Int
    BY <1>3, <1>5, <2>5, NeighbourFilled, LeafFacts
  <2>7. l \in 0 .. nds[d].n - 1
    BY <2>3, <2>6
  <2>8. nds[d].key[l] \in Int /\ nds[d].key[l] \in r[d]
    BY <1>3, <2>5, <2>7, LeafFacts
  <2>9. k <= nds[d].key[l]
    <3>1. CASE c = d
      <4>1. i = l \/ i < l
        BY <1>4, <2>3, <2>6, <3>1
      <4>2. i < l => k < nds[d].key[l]
        BY <1>3, <1>4, <2>7, <3>1, LeafFacts
      <4> QED BY <1>4, <1>5, <2>8, <3>1, <4>1, <4>2
    <3>2. CASE Above(r, c, d)
      <4>1. k < nds[d].key[l]
        BY <1>5, <2>8, <3>2 DEF Above
      <4> QED BY <1>5, <2>8, <4>1
    <3> QED BY <2>4, <3>1, <3>2
  <2> QED BY <1>2, <2>2, <2>3, <2>4, <2>9
<1> QED BY <1>8, <1>9

\* A nearest key is the one that NearestTo chooses.
LEMMA NearestIs ==
    ASSUME NEW S \in SUBSET Int, NEW towards \in BOOLEAN, NEW k \in S,
           \A l \in S : IF towards THEN k <= l ELSE k >= l
    PROVE  NearestTo(S, towards) = k
<1>1. PICK m : m = NearestTo(S, towards)
  OBVIOUS
<1>2. m \in S /\ \A l \in S : IF towards THEN m <= l ELSE m >= l
  BY <1>1, Zenon DEF NearestTo
<1>3. m \in Int /\ k \in Int
  BY <1>2
<1>4. IF towards THEN m <= k /\ k <= m ELSE m >= k /\ k >= m
  BY <1>2
<1> QED BY <1>1, <1>3, <1>4

\* An iterator that is at a nearest key has arrived there.
LEMMA Arrives ==
    ASSUME NEW S \in SUBSET Int, NEW towards \in BOOLEAN, NEW k \in S,
           \A l \in S : IF towards THEN k <= l ELSE k >= l,
           ~it'.end, it'.key = k
    PROVE  ArrivesAt(S, towards)
<1>1. NearestTo(S, towards) = k /\ S # {}
  BY NearestIs
<1> QED BY <1>1, Zenon DEF ArrivesAt

\* Of a forward iterator a step does not lead past a key that is present.
LEMMA SkipsNothing ==
    ASSUME Iterating, it.forward, Advance(TRUE), it.key \in Present, NEW k \in Beyond(it.key, TRUE)
    PROVE  ~it'.end /\ it'.key <= k
<1>1. PICK a, p, h : a = it.node /\ p = it.pos /\ h = it.key
  OBVIOUS
<1>2. ~it.end /\ h \in Key /\ h \in Int /\ h # NoKey
  BY <1>1, KeyAssumption DEF Advance, Present
<1>3. /\ Grown /\ it \in Iterator /\ a \in LeafIds(nodes, next_id) /\ p >= 0
      /\ Behind(nodes, a, p, h)
  BY <1>1, <1>2 DEF Iterating, Placed, Passed
<1>4. p \in -1 .. 2 * B - 2
  BY <1>1, <1>3 DEF Iterator
<1>5. p \in Int
  BY <1>4
<1>6. k \in Present /\ h < k
  BY <1>1, Zenon DEF Beyond
<1>7. PICK n, c : n = nodes[a].n /\ c = nodes[a].right
  OBVIOUS
<1>8. /\ p + 1 < n => nodes[a].key[p + 1] <= k
      /\ p + 1 >= n => c # NoNode /\ nodes[c].key[0] <= k
  BY <1>2, <1>3, <1>5, <1>6, <1>7, NextIsLeast
<1>9. /\ p + 1 < n => ~it'.end /\ it'.key = nodes[a].key[p + 1]
      /\ p + 1 >= n => IF c = NoNode THEN it'.end /\ it'.root = it.root
                       ELSE ~it'.end /\ it'.key = nodes[c].key[0]
  <2>1. TRUE \in BOOLEAN
    OBVIOUS
  <2> QED BY <1>1, <1>3, <1>7, <2>1, Moves
<1>10. n \in Int
  <2>1. PICK r : Holding(r)
    BY <1>3 DEF Grown, IInv, Holding
  <2> QED BY <1>3, <1>7, <2>1, LeafFacts DEF Holding
<1>11. p + 1 < n \/ p + 1 >= n
  BY <1>5, <1>10
<1> QED BY <1>8, <1>9, <1>11

\* In a tree that holds a key no leaf is empty.
LEMMA PresentFills ==
    ASSUME Grown, Present # {}, NEW a \in LeafIds(nodes, next_id)
    PROVE  nodes[a].n > 0 /\ nodes[a].n \in Int
<1>1. PICK r : Holding(r)
  BY DEF Grown, IInv, Holding
<1>2. PICK top, root : top = next_id /\ root = root_id
  OBVIOUS
<1>3. Tree(nodes, top, root, r) /\ Filled(nodes, top) /\ a \in LeafIds(nodes, top)
  BY <1>1, <1>2 DEF Holding, Grown
<1>4. nodes[a].n \in Int /\ nodes[a].n >= 0
  BY <1>3, LeafFacts
<1>5. PICK k : k \in Present
  OBVIOUS
<1>6. PICK c \in LeafIds(nodes, top) : \E i \in 0 .. nodes[c].n - 1 : nodes[c].key[i] = k
  BY <1>2, <1>5, PresentIn
<1>7. CASE c = a
  BY <1>4, <1>6, <1>7
<1>8. CASE c # a
  <2>1. c \in Ids(top)
    BY DEF LeafIds
  <2> QED BY <1>3, <1>4, <1>8, <2>1, NeighbourFilled
<1> QED BY <1>7, <1>8

\* An iteration starts at the nearest key of its direction.
LEMMA StartsNearest ==
    ASSUME Iterating, NEW from, StartsFrom(from), from.root = root_id,
           NEW forward, forward = from.forward, Present # {}
    PROVE  ArrivesAt(Present, forward)
<1>1. PICK r : Holding(r)
  BY DEF Iterating, Grown, IInv, Holding
<1>2. PICK a, p : a = down(from.root, ~forward) /\ p = IF forward THEN 0 ELSE nodes[a].n - 1
  OBVIOUS
<1>3. PICK top, root : top = next_id /\ root = root_id
  OBVIOUS
<1>4. Tree(nodes, top, root, r) /\ Filled(nodes, top)
  BY <1>1, <1>3 DEF Holding, Iterating, Grown
<1>5. /\ a \in LeafIds(nodes, top)
      /\ forward => nodes[a].left = NoNode
      /\ ~forward => nodes[a].right = NoNode
      /\ nodes[a].n > 0 => ~it'.end /\ it'.key = nodes[a].key[p]
      /\ forward \in BOOLEAN
  BY <1>2, <1>3, Starts, RewindsFrom DEF Iterator
<1>6. a \in Ids(top) /\ nodes[a].n \in Int /\ nodes[a].n >= 0
  BY <1>4, <1>5, LeafFacts
<1>7. nodes[a].n > 0
  BY <1>3, <1>5, PresentFills DEF Iterating
<1>8. p \in 0 .. nodes[a].n - 1
  BY <1>2, <1>6, <1>7
<1>9. PICK f : f = nodes[a].key[p]
  OBVIOUS
<1>10. f \in Int /\ f \in Key /\ f \in r[a]
  BY <1>4, <1>5, <1>8, <1>9, LeafFacts
<1>11. f \in Present
  BY <1>3, <1>5, <1>8, <1>9, <1>10, LivePresent
<1>12. ASSUME NEW l \in Present PROVE IF forward THEN f <= l ELSE f >= l
  <2>1. PICK c \in LeafIds(nodes, top) : \E i \in 0 .. nodes[c].n - 1 : nodes[c].key[i] = l
    BY <1>3, PresentIn
  <2>2. PICK i \in 0 .. nodes[c].n - 1 : nodes[c].key[i] = l
    BY <2>1
  <2>3. c \in Ids(top) /\ nodes[c].rank = nodes[a].rank /\ l \in Int /\ l \in r[c]
    BY <1>4, <1>5, <2>2, LeafFacts
  <2>4. CASE c = a
    <3>1. /\ i < p => l < f
          /\ p < i => f < l
      BY <1>4, <1>5, <1>8, <1>9, <2>2, <2>4, LeafFacts
    <3>2. IF forward THEN p <= i ELSE i <= p
      BY <1>2, <1>6, <2>2, <2>4
    <3>3. i \in Int /\ p \in Int
      BY <1>8, <2>2
    <3> QED BY <1>9, <1>10, <2>2, <2>3, <2>4, <3>1, <3>2, <3>3
  <2>5. CASE c # a /\ forward
    <3>1. Above(r, a, c)
      BY <1>4, <1>5, <1>6, <2>3, <2>5, LeftMost
    <3>2. f < l
      BY <1>10, <2>3, <3>1 DEF Above
    <3> QED BY <1>10, <2>3, <2>5, <3>2
  <2>6. CASE c # a /\ ~forward
    <3>1. ~Above(r, a, c)
      BY <1>4, <1>5, <2>6, NextLeaf
    <3>2. Above(r, c, a)
      BY <1>4, <1>6, <2>3, <2>6, <3>1 DEF Tree, Apart
    <3>3. l < f
      BY <1>10, <2>3, <3>2 DEF Above
    <3> QED BY <1>10, <2>3, <2>6, <3>3
  <2> QED BY <2>4, <2>5, <2>6
<1>13. Present \in SUBSET Int
  BY KeyAssumption DEF Present
<1> QED BY <1>5, <1>7, <1>9, <1>11, <1>12, <1>13, Arrives

\* Arriving at a present key that none of those beyond another comes before.
LEMMA ArrivesBeyond ==
    ASSUME NEW h \in Int, NEW towards \in BOOLEAN, NEW f \in Present,
           IF towards THEN h < f ELSE f < h,
           \A l \in Present :
              (IF towards THEN h < l ELSE l < h) => (IF towards THEN f <= l ELSE l <= f),
           ~it'.end, it'.key = f
    PROVE  ArrivesAt(Beyond(h, towards), towards)
<1>1. Present \subseteq Int
  BY KeyAssumption DEF Present
<1>2. Beyond(h, towards) \in SUBSET Int
  BY <1>1 DEF Beyond
<1>3. f \in Beyond(h, towards)
  BY <1>1 DEF Beyond
<1>4. ASSUME NEW l \in Beyond(h, towards) PROVE IF towards THEN f <= l ELSE f >= l
  <2>1. l \in Present /\ IF towards THEN h < l ELSE l < h
    BY <1>1 DEF Beyond
  <2>2. IF towards THEN f <= l ELSE l <= f
    BY <2>1
  <2>3. f \in Int /\ l \in Int
    BY <1>1, <2>1
  <2> QED BY <2>2, <2>3
<1> QED BY <1>2, <1>3, <1>4, Arrives

\* Where the tree has stood still a step leads to the nearest key beyond.
LEMMA StepsToNearest ==
    ASSUME Iterating, NEW towards \in BOOLEAN, still, Advance(towards), it.key \in Present
    PROVE  ArrivesAt(Beyond(it.key, towards), towards)
<1>1. PICK r : Holding(r)
  BY DEF Iterating, Grown, IInv, Holding
<1>2. PICK a, p, h, n : a = it.node /\ p = it.pos /\ h = it.key /\ n = nodes[a].n
  OBVIOUS
<1>3. PICK top, root : top = next_id /\ root = root_id
  OBVIOUS
<1>4. Tree(nodes, top, root, r) /\ Filled(nodes, top) /\ Grown /\ ~it.end
  BY <1>1, <1>3 DEF Holding, Iterating, Grown, Advance
<1>5. a \in LeafIds(nodes, top) /\ n > 0 /\ n \in Int /\ a \in Ids(top)
  <2>1. a \in LeafIds(nodes, top)
    BY <1>2, <1>3, <1>4 DEF Iterating, Placed
  <2> QED BY <1>2, <1>3, <1>4, <2>1, PresentFills DEF LeafIds
<1>6. p \in 0 .. n - 1 /\ h = nodes[a].key[p]
  BY <1>2, <1>4, <1>5 DEF Iterating, Fixed
<1>7. /\ \A j \in 0 .. n - 1 : nodes[a].key[j] \in Key /\ nodes[a].key[j] \in Int /\ nodes[a].key[j] \in r[a]
      /\ \A i, j \in 0 .. n - 1 : i < j => nodes[a].key[i] < nodes[a].key[j]
  BY <1>2, <1>4, <1>5, LeafFacts
<1>8. h \in Int /\ h \in r[a] /\ p \in Int /\ p >= 0
  BY <1>6, <1>7
<1>9. it.root = root_id /\ root_id' = root_id
  BY <1>4 DEF Iterating, Fixed, Advance, vars
<1>10. CASE towards
  <2>1. Behind(nodes, a, p, h)
    <3>1. ASSUME NEW j \in 0 .. n - 1, j <= p PROVE nodes[a].key[j] <= h
      <4>1. j = p \/ j < p
        BY <1>6, <3>1
      <4> QED BY <1>6, <1>7, <1>8, <4>1
    <3>2. ~(p >= n)
      BY <1>5, <1>6
    <3> QED BY <1>2, <3>1, <3>2 DEF Behind
  <2>2. PICK c : c = nodes[a].right
    OBVIOUS
  <2>3. ASSUME NEW l \in Present, h < l
        PROVE  /\ p + 1 < n => nodes[a].key[p + 1] <= l
               /\ p + 1 >= n => c # NoNode /\ nodes[c].key[0] <= l
    BY <1>2, <1>3, <1>4, <1>5, <1>8, <2>1, <2>2, <2>3, NextIsLeast
  <2>4. /\ p + 1 < n => ~it'.end /\ it'.key = nodes[a].key[p + 1]
        /\ p + 1 >= n => IF c = NoNode THEN it'.end /\ it'.root = it.root
                         ELSE ~it'.end /\ it'.key = nodes[c].key[0]
    BY <1>2, <1>8, <1>10, <2>2, Moves
  <2>5. CASE p + 1 < n
    <3>1. PICK f : f = nodes[a].key[p + 1]
      OBVIOUS
    <3>2. p + 1 \in 0 .. n - 1 /\ p < p + 1
      BY <1>5, <1>8, <2>5
    <3>3. f \in Present /\ h < f
      BY <1>2, <1>3, <1>5, <1>6, <1>7, <3>1, <3>2, LivePresent
    <3>4. ArrivesAt(Beyond(h, towards), towards)
      BY <1>8, <1>10, <2>3, <2>4, <2>5, <3>1, <3>3, ArrivesBeyond
    <3> QED BY <1>2, <3>4
  <2>6. CASE p + 1 >= n /\ c = NoNode
    <3>1. Beyond(h, towards) = {}
      BY <1>10, <2>3, <2>6 DEF Beyond
    <3> QED BY <1>2, <1>9, <2>4, <2>6, <3>1 DEF ArrivesAt, EqualsEnd
  <2>7. CASE p + 1 >= n /\ c # NoNode
    <3>1. PICK f : f = nodes[c].key[0]
      OBVIOUS
    <3>2. c \in LeafIds(nodes, top) /\ c # a /\ Above(r, a, c)
      BY <1>4, <1>5, <2>2, <2>7, LeafFacts
    <3>3. 0 \in 0 .. nodes[c].n - 1
      BY <1>4, <1>5, <3>2, NeighbourFilled
    <3>4. f \in Key /\ f \in r[c]
      BY <1>4, <3>1, <3>2, <3>3, LeafFacts
    <3>5. f \in Present /\ h < f
      BY <1>3, <1>8, <3>1, <3>2, <3>3, <3>4, LivePresent DEF Above
    <3>6. ArrivesAt(Beyond(h, towards), towards)
      BY <1>8, <1>10, <2>3, <2>4, <2>7, <3>1, <3>5, ArrivesBeyond
    <3> QED BY <1>2, <3>6
  <2> QED BY <1>5, <1>8, <2>5, <2>6, <2>7
<1>11. CASE ~towards
  <2>1. PICK c, m : c = nodes[a].left /\ m = nodes[c].n - 1
    OBVIOUS
  <2>2. ASSUME NEW l \in Present, l < h
        PROVE  /\ p - 1 >= 0 => l <= nodes[a].key[p - 1]
               /\ p - 1 < 0 => c # NoNode /\ l <= nodes[c].key[m]
    BY <1>2, <1>3, <1>4, <1>5, <1>6, <2>1, <2>2, PreviousIsGreatest
  <2>3. /\ p - 1 >= 0 => ~it'.end /\ it'.key = nodes[a].key[p - 1]
        /\ p - 1 < 0 => IF c = NoNode THEN it'.end /\ it'.root = it.root
                        ELSE ~it'.end /\ it'.key = nodes[c].key[m]
    BY <1>2, <1>11, <2>1, Moves
  <2>4. CASE p - 1 >= 0
    <3>1. PICK f : f = nodes[a].key[p - 1]
      OBVIOUS
    <3>2. p - 1 \in 0 .. n - 1 /\ p - 1 < p
      BY <1>6, <1>5, <2>4
    <3>3. f \in Present /\ f < h
      BY <1>2, <1>3, <1>5, <1>6, <1>7, <3>1, <3>2, LivePresent
    <3>4. ArrivesAt(Beyond(h, towards), towards)
      BY <1>8, <1>11, <2>2, <2>3, <2>4, <3>1, <3>3, ArrivesBeyond
    <3> QED BY <1>2, <3>4
  <2>5. CASE p - 1 < 0 /\ c = NoNode
    <3>1. Beyond(h, towards) = {}
      BY <1>11, <2>2, <2>5 DEF Beyond
    <3> QED BY <1>2, <1>9, <2>3, <2>5, <3>1 DEF ArrivesAt, EqualsEnd
  <2>6. CASE p - 1 < 0 /\ c # NoNode
    <3>1. PICK f : f = nodes[c].key[m]
      OBVIOUS
    <3>2. c \in LeafIds(nodes, top) /\ c # a /\ Above(r, c, a)
      BY <1>4, <1>5, <2>1, <2>6, LeafFacts
    <3>3. nodes[c].n > 0 /\ nodes[c].n \in Int
      BY <1>4, <1>5, <3>2, NeighbourFilled, LeafFacts
    <3>4. m \in 0 .. nodes[c].n - 1
      BY <2>1, <3>3
    <3>5. f \in Key /\ f \in r[c]
      BY <1>4, <3>1, <3>2, <3>4, LeafFacts
    <3>6. f \in Present /\ f < h
      BY <1>3, <1>8, <3>1, <3>2, <3>4, <3>5, LivePresent DEF Above
    <3>7. ArrivesAt(Beyond(h, towards), towards)
      BY <1>8, <1>11, <2>2, <2>3, <2>6, <3>1, <3>6, ArrivesBeyond
    <3> QED BY <1>2, <3>7
  <2> QED BY <1>8, <2>4, <2>5, <2>6
<1> QED BY <1>10, <1>11

-----------------------------------------------------------------------------
(***************************************************************************)
(* Theorems                                                                *)
(***************************************************************************)
\* Without keys there is nothing to iterate over.
Walkable == Key = {} \/ Iterating

\* A step keeps it.
LEMMA WalkableStep == Walkable /\ [Walk \/ TreeStep(AddNext)]_allVars => Walkable'
  BY IteratingStep DEF Walkable

\* However insertions and their splits fall between the steps of an iterator, it
\* stands in a leaf of the tree, and a forward one has all that is not larger
\* than its key behind it, the stale keys that splits leave included.
THEOREM IteratorPlaced == AddSpec => []Walkable
<1>1. ItInit => Walkable
  BY IteratingInit DEF Walkable
<1>2. Walkable /\ [Walk \/ TreeStep(AddNext)]_allVars => Walkable'
  BY WalkableStep
<1> QED BY <1>1, <1>2, PTL DEF AddSpec

\* What IteratesInOrder says of a step.
OrderedStep ==
    /\ \A forward \in BOOLEAN :
          /\ Present # {}
          /\ \/ Rewind(forward)
             \/ Again /\ it.root = root_id /\ it.forward = forward
          => ArrivesAt(Present, forward)
    /\ \A towards \in BOOLEAN :
          still /\ Advance(towards) /\ it.key \in Present
          => ArrivesAt(Beyond(it.key, towards), towards)

\* Over a tree that stands still the iterator goes from the first key through
\* its neighbours to the last, in either direction, and ends there.
THEOREM IterationOrdered == AddSpec => IteratesInOrder
<1>1. Walkable => OrderedStep
  <2>1. SUFFICES ASSUME Walkable PROVE OrderedStep
    OBVIOUS
  <2>2. CASE Key = {}
    <3>1. Present = {}
      BY <2>2 DEF Present
    <3> QED BY <3>1 DEF OrderedStep
  <2>3. CASE Iterating
    <3>1. ASSUME NEW forward \in BOOLEAN, Rewind(forward), Present # {}
          PROVE  ArrivesAt(Present, forward)
      <4>1. PICK from : from = Begun(forward, root_id)
        OBVIOUS
      <4>2. StartsFrom(from)
        BY <3>1, <4>1 DEF StartsFrom
      <4>3. from.root = root_id /\ from.forward = forward
        BY <4>1 DEF Begun
      <4> QED BY <2>3, <3>1, <4>2, <4>3, StartsNearest
    <3>2. ASSUME NEW forward \in BOOLEAN, Again, it.root = root_id, it.forward = forward,
                 Present # {}
          PROVE  ArrivesAt(Present, forward)
      <4>1. StartsFrom(it)
        BY <3>2 DEF StartsFrom
      <4> QED BY <2>3, <3>2, <4>1, StartsNearest
    <3> QED BY <2>3, <3>1, <3>2, StepsToNearest DEF OrderedStep
  <2> QED BY <2>1, <2>2, <2>3 DEF Walkable
<1>2. Walkable /\ [Walk \/ TreeStep(AddNext)]_allVars => [OrderedStep]_allVars
  BY <1>1
<1>3. AddSpec => [][OrderedStep]_allVars
  BY <1>2, IteratorPlaced, PTL DEF AddSpec
<1> QED BY <1>3 DEF OrderedStep, IteratesInOrder

\* What ForwardSkipsNothing says of a step.
CompleteStep == it.forward /\ Advance(TRUE) /\ it.key \in Present
                => \A k \in Beyond(it.key, TRUE) : ~it'.end /\ it'.key <= k

\* Whatever is inserted between its steps, a forward iterator passes over no key.
THEOREM ForwardComplete == AddSpec => ForwardSkipsNothing
<1>1. Walkable => CompleteStep
  <2>1. SUFFICES ASSUME Walkable PROVE CompleteStep
    OBVIOUS
  <2>2. CASE Key = {}
    <3>1. Present = {}
      BY <2>2 DEF Present
    <3> QED BY <3>1 DEF CompleteStep
  <2>3. CASE Iterating
    BY <2>3, SkipsNothing DEF CompleteStep
  <2> QED BY <2>1, <2>2, <2>3 DEF Walkable
<1>2. Walkable /\ [Walk \/ TreeStep(AddNext)]_allVars => [CompleteStep]_allVars
  BY <1>1
<1>3. AddSpec => [][CompleteStep]_allVars
  BY <1>2, IteratorPlaced, PTL DEF AddSpec
<1> QED BY <1>3 DEF CompleteStep, ForwardSkipsNothing
=============================================================================
