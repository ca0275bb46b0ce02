---------------------------- MODULE BTreeProofs -----------------------------
(***************************************************************************)
(* Theorems about BTree, for every degree B >= 2, every set of keys and    *)
(* values and every number of nodes.                                       *)
(*                                                                         *)
(* The invariant behind them gives every node the set r[id] of the keys    *)
(* whose descent passes through it.  The code keeps no such set: it is     *)
(* what the keys of the nodes above leave over, and the invariant says     *)
(* that there are sets that fit.  The root has every key; child i of an    *)
(* inner node has those between key i - 1 and key i, if there are any (the *)
(* first child of the upper half of a split has none: it is the last child *)
(* of the lower half too); and no two nodes of a level share a key.        *)
(***************************************************************************)
EXTENDS BTreeRefinement, FiniteSetTheorems, TLAPS

\* The definitions take the nodes (nds), the first free id (top), the root and
\* the sets (r) as parameters: GrowRoot passes through a tree that no state has.
Ids(top) == 1 .. top - 1

\* The keys that child i of node id is the way to.
Slot(nds, r, id, i) == {k \in r[id] : /\ i > 0 => nds[id].key[i - 1] <= k
                                      /\ i < nds[id].n => k < nds[id].key[i]}

Above(r, a, c) == \A k \in r[a], l \in r[c] : k < l

Typed(nds, top) == /\ nds \in [NodeId -> Node]
                   /\ top \in 1 .. MaxNode + 1
                   /\ \A id \in NodeId : id >= top => nds[id] = Fresh

\* The root, in the highest level, has every key.
Rooted(nds, top, root, r) ==
    \A id \in Ids(top) : /\ root \in Ids(top)
                         /\ r[root] = Key
                         /\ nds[root].rank <= nds[id].rank

Keyed(nds, top, r) ==
    \A id \in Ids(top) :
        /\ r[id] # {} /\ r[id] \subseteq Key
        /\ \A i \in 0 .. nds[id].n - 1 : nds[id].key[i] \in r[id]
        /\ \A i, j \in 0 .. nds[id].n - 1 : i < j => nds[id].key[i] < nds[id].key[j]

\* The leaves are the nodes of rank 0; the children of a node stand a level
\* below it and share its keys out.
Parents(nds, top, r) ==
    \A id \in Ids(top) :
        /\ nds[id].leaf <=> nds[id].rank = 0
        /\ nds[id].rank <= 0
        /\ ~nds[id].leaf => \A i \in 0 .. nds[id].n :
              /\ nds[id].child[i] \in Ids(top)
              /\ nds[nds[id].child[i]].rank = nds[id].rank + 1
              /\ Slot(nds, r, id, i) # {} => r[nds[id].child[i]] = Slot(nds, r, id, i)
        /\ ~nds[id].leaf /\ nds[id].left = NoNode => nds[nds[id].child[0]].left = NoNode

\* No two nodes of a level share a key.
Apart(nds, top, r) ==
    \A a, c \in Ids(top) :
        nds[a].rank = nds[c].rank /\ a # c => Above(r, a, c) \/ Above(r, c, a)

\* The links join the nodes of a level in the order of their keys.
Linked(nds, top, r) ==
    \A a \in Ids(top) :
        /\ nds[a].right # NoNode => /\ nds[a].right \in Ids(top)
                                    /\ nds[nds[a].right].rank = nds[a].rank
                                    /\ nds[nds[a].right].left = a
                                    /\ Above(r, a, nds[a].right)
        /\ nds[a].left # NoNode => /\ nds[a].left \in Ids(top)
                                   /\ nds[nds[a].left].right = a
        /\ \A c \in Ids(top) :
              nds[a].rank = nds[c].rank /\ Above(r, a, c) =>
                 /\ nds[a].right # NoNode
                 /\ c = nds[a].right \/ Above(r, nds[a].right, c)

Tree(nds, top, root, r) ==
    /\ Typed(nds, top)
    /\ Rooted(nds, top, root, r)
    /\ Keyed(nds, top, r)
    /\ Parents(nds, top, r)
    /\ Apart(nds, top, r)
    /\ Linked(nds, top, r)

\* An inner node has a key, and unless it is the root at least B - 1.
Sized(nds, top, root) ==
    \A id \in Ids(top) : ~nds[id].leaf => nds[id].n >= (IF id = root THEN 1 ELSE B - 1)

\* A request has its key, an insertion a value and no such key in the tree.
Requested ==
    /\ op \in Op
    /\ op.node # NoNode => op.node \in Allocated /\ op.kind # "idle"
    /\ op.kind = "idle" => op = Idle
    /\ op.kind # "idle" => op.key \in Key
    /\ op.kind \in {"insert", "update"} => op.value \in Value
    /\ op.kind = "insert" => ~Contains(op.key)

\* The node an insertion has reached has room, or its child has.
Room == op.kind = "insert" /\ op.node # NoNode =>
           IF Here.leaf THEN ~Full(Here) ELSE Full(nodes[Child]) => ~Full(Here)

Reached(r) == op.node # NoNode => op.key \in r[op.node]

IInv == /\ root_id = NoNode <=> next_id = 1
        /\ result \in Result
        /\ Sized(nodes, next_id, root_id)
        /\ Requested
        /\ Room
        /\ \E r \in [NodeId -> SUBSET Key] :
              Tree(nodes, next_id, root_id, r) /\ Reached(r)
-----------------------------------------------------------------------------
(***************************************************************************)
(* Numbers, and what a binary search answers                               *)
(***************************************************************************)
\* Induction: a set with 0 and the successor of each of its numbers has them
\* all.  The numbers below the first one missing would be a finite set that
\* the successor maps into itself, so onto itself, yet never to 0.
LEMMA NatSet ==
    ASSUME NEW U, 0 \in U, \A n \in Nat : n \in U => n + 1 \in U
    PROVE  Nat \subseteq U
<1>1. SUFFICES ASSUME NEW n \in Nat, n \notin U PROVE FALSE
  OBVIOUS
<1> DEFINE V == {x \in Nat : \A y \in 0 .. x : y \in U}
           s == [x \in V |-> x + 1]
<1>2. 0 \in V /\ V \subseteq Nat
  OBVIOUS
<1>3. \A x \in V : x + 1 \in V
  OBVIOUS
<1>4. \A x \in V : x <= n
  BY <1>1
<1>5. IsFiniteSet(V)
  BY <1>2, <1>4, <1>1, FS_BoundedSetOfNaturals
<1>6. s \in Injection(V, V)
  BY <1>3, <1>2 DEF Injection, IsInjective
<1>7. s \in Surjection(V, V)
  BY <1>5, <1>6, FS_Injection
<1>8. \E x \in V : s[x] = 0
  BY <1>7, <1>2 DEF Surjection
<1> QED BY <1>8, <1>2

\* A set of naturals with a member has a least one.
LEMMA Least ==
    ASSUME NEW T \in SUBSET Nat, T # {}
    PROVE  \E x \in T : \A y \in T : x <= y
<1>1. SUFFICES ASSUME \A x \in T : \E y \in T : y < x PROVE FALSE
  OBVIOUS
<1> DEFINE U == {n \in Nat : \A t \in T : n < t}
<1>2. 0 \in U
  <2>1. ASSUME NEW t \in T PROVE 0 < t
    <3>1. PICK y \in T : y < t
      BY <1>1
    <3> QED BY <3>1
  <2> QED BY <2>1
<1>3. ASSUME NEW n \in Nat, n \in U PROVE n + 1 \in U
  <2>1. ASSUME NEW t \in T PROVE n + 1 < t
    <3>1. PICK y \in T : y < t
      BY <1>1
    <3> QED BY <3>1, <1>3
  <2> QED BY <2>1
<1>4. Nat \subseteq U
  <2> HIDE DEF U
  <2> QED BY <1>2, <1>3, NatSet
<1>5. PICK t \in T : TRUE
  OBVIOUS
<1>6. t \in U
  BY <1>4
<1> QED BY <1>5, <1>6

\* The keys of a node are integers that ascend.
Sorted(nd) == /\ nd.n \in Nat
              /\ \A i \in 0 .. nd.n - 1 : nd.key[i] \in Int
              /\ \A i, j \in 0 .. nd.n - 1 : i < j => nd.key[i] < nd.key[j]

\* There is a boundary for every key.
LEMMA BoundaryIs ==
    ASSUME NEW nd, Sorted(nd), NEW k \in Int
    PROVE  /\ Boundary(nd, k) \in 0 .. nd.n
           /\ Boundary(nd, k) > 0 => nd.key[Boundary(nd, k) - 1] <= k
           /\ Boundary(nd, k) < nd.n => nd.key[Boundary(nd, k)] > k
<1> DEFINE T == {p \in Nat : p <= nd.n /\ (p = nd.n \/ nd.key[p] > k)}
<1>1. T \in SUBSET Nat /\ nd.n \in T
  BY DEF Sorted
<1>2. PICK p \in T : \A q \in T : p <= q
  <2> HIDE DEF T
  <2> QED BY <1>1, Least
<1>3. p > 0 => nd.key[p - 1] <= k
  <2>1. SUFFICES ASSUME p > 0 PROVE nd.key[p - 1] <= k
    OBVIOUS
  <2>2. p - 1 \notin T
    BY <1>2, <2>1
  <2> QED BY <2>1, <2>2 DEF Sorted
<1>4. p \in 0 .. nd.n /\ (p < nd.n => nd.key[p] > k)
  BY <1>2 DEF Sorted
<1>5. \E q \in 0 .. nd.n : /\ q > 0    => nd.key[q - 1] <= k
                           /\ q < nd.n => nd.key[q] > k
  BY <1>3, <1>4
<1> QED BY <1>5 DEF Boundary

\* There is only one.
LEMMA BoundaryUnique ==
    ASSUME NEW nd, Sorted(nd), NEW k \in Int, NEW p \in 0 .. nd.n,
           p > 0 => nd.key[p - 1] <= k,
           p < nd.n => nd.key[p] > k
    PROVE  Boundary(nd, k) = p
<1>1. PICK q : q = Boundary(nd, k)
  OBVIOUS
<1>2. q \in 0 .. nd.n /\ (q > 0 => nd.key[q - 1] <= k) /\ (q < nd.n => nd.key[q] > k)
  BY <1>1, BoundaryIs
<1>3. ~(p < q)
  <2>1. SUFFICES ASSUME p < q PROVE FALSE
    OBVIOUS
  <2>2. p \in 0 .. nd.n - 1 /\ q - 1 \in 0 .. nd.n - 1 /\ nd.key[p] \in Int /\ nd.key[q - 1] \in Int
    BY <2>1, <1>2 DEF Sorted
  <2>3. p = q - 1 \/ nd.key[p] < nd.key[q - 1]
    BY <2>1, <2>2, <1>2 DEF Sorted
  <2>4. k < nd.key[p] /\ nd.key[q - 1] <= k
    BY <2>1, <2>2, <1>2 DEF Sorted
  <2> QED BY <2>2, <2>3, <2>4
<1>4. ~(q < p)
  <2>1. SUFFICES ASSUME q < p PROVE FALSE
    OBVIOUS
  <2>2. q \in 0 .. nd.n - 1 /\ p - 1 \in 0 .. nd.n - 1 /\ nd.key[q] \in Int /\ nd.key[p - 1] \in Int
    BY <2>1, <1>2 DEF Sorted
  <2>3. q = p - 1 \/ nd.key[q] < nd.key[p - 1]
    BY <2>1, <2>2, <1>2 DEF Sorted
  <2>4. k < nd.key[q] /\ nd.key[p - 1] <= k
    BY <2>1, <2>2, <1>2 DEF Sorted
  <2> QED BY <2>2, <2>3, <2>4
<1> QED BY <1>1, <1>2, <1>3, <1>4 DEF Sorted

\* bsearch finds the keys of the node and no other.
LEMMA FindsIs ==
    ASSUME NEW nd, Sorted(nd), NEW k \in Int
    PROVE  Finds(nd, k) <=> \E i \in 0 .. nd.n - 1 : nd.key[i] = k
<1>1. ASSUME Finds(nd, k) PROVE \E i \in 0 .. nd.n - 1 : nd.key[i] = k
  BY <1>1, BoundaryIs DEF Finds, Sorted
<1>2. ASSUME NEW i \in 0 .. nd.n - 1, nd.key[i] = k PROVE Finds(nd, k)
  <2>1. i + 1 \in 0 .. nd.n /\ i + 1 > 0 /\ nd.key[(i + 1) - 1] <= k
    BY <1>2 DEF Sorted
  <2>2. i + 1 < nd.n => nd.key[i + 1] > k
    BY <1>2 DEF Sorted
  <2>3. Boundary(nd, k) = i + 1
    BY <2>1, <2>2, BoundaryUnique
  <2> QED BY <2>3, <1>2 DEF Finds
<1> QED BY <1>1, <1>2

-----------------------------------------------------------------------------
(***************************************************************************)
(* What split_child makes of the nodes                                     *)
(***************************************************************************)
\* What split_child(i) of node x asserts, and that some key leads to its child.
Splittable(nds, top, root, r, x, i) ==
    /\ Tree(nds, top, root, r)
    /\ r \in [NodeId -> SUBSET Key]
    /\ top <= MaxNode
    /\ x \in Ids(top) /\ ~nds[x].leaf /\ ~Full(nds[x])
    /\ i \in 0 .. nds[x].n /\ Slot(nds, r, x, i) # {}
    /\ Full(nds[nds[x].child[i]])

Median(nds, y) == nds[y].key[B]

\* The keys of y below the key that goes up stay with it; z has the others.
Halved(nds, top, r, y) ==
    [r EXCEPT ![y] = {k \in r[y] : k < Median(nds, y)},
              ![top] = {k \in r[y] : Median(nds, y) <= k}]

\* A node of the tree has sorted keys and its fields have their types.
LEMMA NodeFacts ==
    ASSUME NEW nds, NEW top, NEW root, NEW r, Tree(nds, top, root, r), NEW id \in Ids(top)
    PROVE  /\ id \in NodeId /\ id # NoNode /\ nds[id] \in Node /\ nds[id].n \in 0 .. 2 * B - 1
           /\ Sorted(nds[id])
           /\ \A j \in 0 .. nds[id].n - 1 : nds[id].key[j] \in Key
<1>1. id \in NodeId /\ id # NoNode /\ nds[id] \in Node
  BY NodeAssumption DEF Tree, Typed, Ids, NodeId, NoNode
<1>2. nds[id].n \in 0 .. 2 * B - 1
  BY <1>1 DEF Node
<1>3. \A j \in 0 .. nds[id].n - 1 : nds[id].key[j] \in Key
  BY DEF Tree, Keyed
<1>4. \A j, l \in 0 .. nds[id].n - 1 : j < l => nds[id].key[j] < nds[id].key[l]
  BY DEF Tree, Keyed
<1>5. nds[id].n \in Nat
  BY <1>2, DegreeAssumption
<1>6. \A j \in 0 .. nds[id].n - 1 : nds[id].key[j] \in Int
  BY <1>3, KeyAssumption
<1>7. Sorted(nds[id])
  BY <1>4, <1>5, <1>6 DEF Sorted
<1> QED BY <1>1, <1>2, <1>3, <1>7

\* The nodes split_child touches are four different ones.
LEMMA SplitNodes ==
    ASSUME NEW nds, NEW top, NEW root, NEW r, NEW x, NEW i, Splittable(nds, top, root, r, x, i),
           NEW y, y = nds[x].child[i]
    PROVE  /\ y \in Ids(top) /\ y # x /\ nds[y].rank = nds[x].rank + 1
           /\ r[y] = Slot(nds, r, x, i)
           /\ top \in NodeId /\ top \notin Ids(top) /\ top # NoNode
           /\ nds[y].right # NoNode => /\ nds[y].right \in Ids(top)
                                       /\ nds[y].right # x /\ nds[y].right # y
                                       /\ nds[nds[y].right].left = y
           /\ nds[y].n = 2 * B - 1
           /\ Median(nds, y) \in r[y]
           /\ nds[y].key[0] \in r[y] /\ nds[y].key[0] < Median(nds, y)
<1>1. /\ y \in Ids(top) /\ nds[y].rank = nds[x].rank + 1
      /\ r[y] = Slot(nds, r, x, i)
  BY DEF Splittable, Tree, Parents
<1>2. x \in Ids(top) /\ nds[x].rank \in Int /\ nds[y].n = 2 * B - 1
  BY NodeFacts DEF Splittable, Node, Full
<1>3. y # x
  BY <1>1, <1>2
<1>4. top \in NodeId /\ top \notin Ids(top) /\ top # NoNode
  BY NodeAssumption DEF Splittable, Tree, Typed, Ids, NodeId, NoNode
<1>5. /\ r[y] # {} /\ r[y] \subseteq Key
      /\ Median(nds, y) \in r[y] /\ nds[y].key[0] \in r[y] /\ nds[y].key[0] < Median(nds, y)
  <2>1. B \in 0 .. nds[y].n - 1 /\ 0 \in 0 .. nds[y].n - 1 /\ 0 < B
    BY <1>2, DegreeAssumption
  <2> QED BY <1>1, <2>1 DEF Splittable, Tree, Keyed, Median
<1>6. ASSUME nds[y].right # NoNode
      PROVE  /\ nds[y].right \in Ids(top) /\ nds[y].right # x /\ nds[y].right # y
             /\ nds[nds[y].right].left = y
  <2>1. /\ nds[y].right \in Ids(top) /\ nds[nds[y].right].rank = nds[y].rank
        /\ nds[nds[y].right].left = y /\ Above(r, y, nds[y].right)
    BY <1>1, <1>6 DEF Splittable, Tree, Linked
  <2>2. nds[y].right # x
    BY <2>1, <1>1, <1>2
  <2>3. nds[y].right # y
    <3>1. PICK k \in r[y] : k \in Int
      BY <1>5, KeyAssumption
    <3>2. ~(k < k)
      BY <3>1
    <3> QED BY <2>1, <3>1, <3>2 DEF Above
  <2> QED BY <2>1, <2>2, <2>3
<1> QED BY <1>1, <1>2, <1>3, <1>4, <1>5, <1>6

\* Outside the four nodes nothing changes, and of the node to the right only its
\* left link.
LEMMA SplitOthers ==
    ASSUME NEW nds, NEW top, NEW root, NEW r, NEW x, NEW i, Splittable(nds, top, root, r, x, i),
           NEW y, y = nds[x].child[i],
           NEW N, N = SplitChild(nds, x, i, top),
           NEW id \in NodeId, id # x, id # y, id # top
    PROVE  /\ N[id].leaf = nds[id].leaf /\ N[id].n = nds[id].n /\ N[id].rank = nds[id].rank
           /\ N[id].key = nds[id].key /\ N[id].value = nds[id].value
           /\ N[id].child = nds[id].child /\ N[id].right = nds[id].right
           /\ N[id].left = IF id = nds[y].right THEN top ELSE nds[id].left
           /\ N[id] \in Node
           /\ id # nds[y].right => N[id] = nds[id]
<1>1. nds[id] \in Node /\ top \in NodeId
  BY SplitNodes DEF Splittable, Tree, Typed
<1>2. N[id] = IF id = nds[y].right THEN [nds[id] EXCEPT !.left = top] ELSE nds[id]
  BY Zenon DEF SplitChild
<1> QED BY <1>1, <1>2 DEF Node

\* Node x of N is node x of nds with the median of y at i and z at i + 1.
Widened(nds, N, x, i, y, z) ==
    /\ N[x].leaf = FALSE /\ N[x].n = nds[x].n + 1 /\ N[x].rank = nds[x].rank
    /\ N[x].left = nds[x].left /\ N[x].right = nds[x].right
    /\ \A j \in 0 .. nds[x].n :
          /\ j < i => N[x].key[j] = nds[x].key[j]
          /\ j = i => N[x].key[j] = Median(nds, y)
          /\ j > i => N[x].key[j] = nds[x].key[j - 1]
    /\ \A j \in 0 .. nds[x].n + 1 :
          /\ j <= i => N[x].child[j] = nds[x].child[j]
          /\ j = i + 1 => N[x].child[j] = z
          /\ j > i + 1 => N[x].child[j] = nds[x].child[j - 1]
    /\ N[x] \in Node

\* x gets the first key of z at i and z itself at i + 1.
LEMMA SplitAbove ==
    ASSUME NEW nds, NEW top, NEW root, NEW r, NEW x, NEW i, Splittable(nds, top, root, r, x, i),
           NEW y, y = nds[x].child[i],
           NEW N, N = SplitChild(nds, x, i, top)
    PROVE  Widened(nds, N, x, i, y, top)
<1>1. /\ x \in NodeId /\ nds[x] \in Node /\ nds[x].n \in 0 .. 2 * B - 2 /\ i \in 0 .. nds[x].n
      /\ nds[x].n + 1 \in 0 .. 2 * B - 1
  BY NodeFacts, DegreeAssumption DEF Splittable, Full
<1>2. top \in NodeId /\ top # x /\ y # x /\ y \in NodeId /\ nds[y] \in Node /\ nds[y].right # x
  <2>1. y \in Ids(top) /\ y # x /\ x \in Ids(top) /\ top \in NodeId /\ top \notin Ids(top)
    BY SplitNodes DEF Splittable
  <2>2. y \in NodeId /\ nds[y] \in Node
    BY <2>1, NodeFacts DEF Splittable
  <2>3. nds[y].right # x
    BY SplitNodes, <1>1 DEF NodeId, NoNode
  <2> QED BY <2>1, <2>2, <2>3
<1> DEFINE m == UpperHalf(y, x, nds).key[0]
           ks == Inserted(nds[x].key, nds[x].n, i, m)
           cs == Inserted(nds[x].child, nds[x].n + 1, i + 1, top)
<1>3. m = Median(nds, y)
  BY DegreeAssumption DEF UpperHalf, Median, KeyIx
<1>4. N[x] = [nds[x] EXCEPT !.leaf = FALSE, !.n = @ + 1, !.key = ks, !.child = cs]
  BY <1>1, <1>2, Zenon DEF SplitChild
<1>5. m \in Key \cup {NoKey}
  BY <1>3, <1>2, DegreeAssumption DEF Median, Node, KeyIx
<1>6. nds[x].key \in [KeyIx -> Key \cup {NoKey}] /\ nds[x].child \in [ChildIx -> NodeId \cup {NoNode}]
  BY <1>1 DEF Node
<1>7. ks \in [KeyIx -> Key \cup {NoKey}]
  BY <1>5, <1>6, <1>1, DegreeAssumption DEF Inserted, KeyIx
<1>8. cs \in [ChildIx -> NodeId \cup {NoNode}]
  BY <1>2, <1>6, <1>1, DegreeAssumption DEF Inserted, ChildIx
<1>9. \A j \in 0 .. nds[x].n : /\ j < i => ks[j] = nds[x].key[j]
                               /\ j = i => ks[j] = Median(nds, y)
                               /\ j > i => ks[j] = nds[x].key[j - 1]
  BY <1>1, <1>3, <1>6, DegreeAssumption DEF Inserted, KeyIx
<1>10. \A j \in 0 .. nds[x].n + 1 : /\ j <= i => cs[j] = nds[x].child[j]
                                    /\ j = i + 1 => cs[j] = top
                                    /\ j > i + 1 => cs[j] = nds[x].child[j - 1]
  BY <1>1, <1>6, DegreeAssumption DEF Inserted, ChildIx
<1> HIDE DEF m, ks, cs
<1>11. N[x] \in Node
  BY <1>1, <1>4, <1>7, <1>8, ZenonT(40) DEF Node
<1>12. /\ N[x].leaf = FALSE /\ N[x].n = nds[x].n + 1 /\ N[x].rank = nds[x].rank
       /\ N[x].left = nds[x].left /\ N[x].right = nds[x].right
       /\ N[x].key = ks /\ N[x].child = cs
  BY <1>1, <1>4 DEF Node
<1> QED BY <1>9, <1>10, <1>11, <1>12 DEF Widened

\* y keeps B keys and the children up to B, and links to z.
LEMMA SplitLower ==
    ASSUME NEW nds, NEW top, NEW root, NEW r, NEW x, NEW i, Splittable(nds, top, root, r, x, i),
           NEW y, y = nds[x].child[i],
           NEW N, N = SplitChild(nds, x, i, top)
    PROVE  /\ N[y].leaf = nds[y].leaf /\ N[y].n = B /\ N[y].rank = nds[y].rank
           /\ N[y].left = nds[y].left /\ N[y].right = top
           /\ N[y].key = nds[y].key /\ N[y].value = nds[y].value
           /\ \A j \in 0 .. B : N[y].child[j] = nds[y].child[j]
           /\ N[y] \in Node
<1>1. /\ top \in NodeId /\ y \in NodeId /\ top # y /\ y # x /\ nds[y] \in Node
      /\ nds[y].right # y
  BY SplitNodes, NodeFacts DEF Splittable, NodeId, NoNode
<1> DEFINE cs == [j \in ChildIx |-> IF j > B THEN NoNode ELSE nds[y].child[j]]
<1>2. N[y] = [nds[y] EXCEPT !.right = top, !.n = B, !.child = cs]
  BY <1>1, Zenon DEF SplitChild, LowerHalf
<1>3. nds[y].child \in [ChildIx -> NodeId \cup {NoNode}]
  BY <1>1 DEF Node
<1>4. cs \in [ChildIx -> NodeId \cup {NoNode}]
  BY <1>3
<1>6. \A j \in 0 .. B : cs[j] = nds[y].child[j]
  <2>1. \A j \in 0 .. B : j \in ChildIx /\ ~(j > B)
    BY DegreeAssumption DEF ChildIx
  <2> QED BY <2>1
<1>5. B \in 0 .. 2 * B - 1
  BY DegreeAssumption
<1> HIDE DEF cs
<1>7. N[y] \in Node
  BY <1>1, <1>2, <1>4, <1>5, ZenonT(40) DEF Node
<1>8. /\ N[y].leaf = nds[y].leaf /\ N[y].n = B /\ N[y].rank = nds[y].rank
      /\ N[y].left = nds[y].left /\ N[y].right = top
      /\ N[y].key = nds[y].key /\ N[y].value = nds[y].value
      /\ N[y].child = cs
  BY <1>1, <1>2 DEF Node
<1> QED BY <1>6, <1>7, <1>8

\* z has the rest of y, and its key 0 is the one that went up.
LEMMA SplitUpper ==
    ASSUME NEW nds, NEW top, NEW root, NEW r, NEW x, NEW i, Splittable(nds, top, root, r, x, i),
           NEW y, y = nds[x].child[i],
           NEW N, N = SplitChild(nds, x, i, top)
    PROVE  /\ N[top].leaf = nds[y].leaf /\ N[top].n = B - 1 /\ N[top].rank = nds[y].rank
           /\ N[top].left = y /\ N[top].right = nds[y].right
           /\ \A j \in 0 .. B - 2 : N[top].key[j] = nds[y].key[j + B]
           /\ nds[y].leaf => \A j \in 0 .. B - 2 : N[top].value[j] = nds[y].value[j + B]
           /\ ~nds[y].leaf => \A j \in 0 .. B - 1 : N[top].child[j] = nds[y].child[j + B]
           /\ N[top] \in Node
<1>1. /\ top \in NodeId /\ y \in NodeId /\ top # y /\ top # x /\ nds[y] \in Node
      /\ nds[y].right # top /\ x \in NodeId /\ nds[y].rank = nds[x].rank + 1
      /\ nds[x] \in Node
  BY SplitNodes, NodeFacts DEF Splittable, NodeId, NoNode
<1>2. N[top] = UpperHalf(y, x, nds)
  BY <1>1, Zenon DEF SplitChild
<1> DEFINE Y == nds[y]
           ks == [j \in KeyIx |-> IF j < B - 1 THEN Y.key[j + B] ELSE NoKey]
           vs == [j \in KeyIx |-> IF Y.leaf /\ j < B - 1 THEN Y.value[j + B] ELSE NoValue]
           cs == [j \in ChildIx |-> IF ~Y.leaf /\ j < B THEN Y.child[j + B] ELSE NoNode]
<1>3. N[top] = [leaf |-> Y.leaf, n |-> B - 1, rank |-> nds[x].rank + 1, parent |-> x,
                left |-> y, right |-> Y.right, key |-> ks, value |-> vs, child |-> cs]
  BY <1>2, Zenon DEF UpperHalf
<1>4. /\ Y.key \in [KeyIx -> Key \cup {NoKey}] /\ Y.value \in [KeyIx -> Value \cup {NoValue}]
      /\ Y.child \in [ChildIx -> NodeId \cup {NoNode}] /\ Y.leaf \in BOOLEAN
      /\ Y.right \in NodeId \cup {NoNode} /\ nds[x].rank + 1 \in Int
  BY <1>1 DEF Node
<1>5. \A j \in KeyIx : j < B - 1 => j + B \in KeyIx
  BY DegreeAssumption DEF KeyIx
<1>6. \A j \in ChildIx : j < B => j + B \in ChildIx
  BY DegreeAssumption DEF ChildIx
<1>7. ks \in [KeyIx -> Key \cup {NoKey}]
  BY <1>4, <1>5
<1>8. vs \in [KeyIx -> Value \cup {NoValue}]
  BY <1>4, <1>5
<1>9. cs \in [ChildIx -> NodeId \cup {NoNode}]
  BY <1>4, <1>6
<1>10. /\ \A j \in 0 .. B - 2 : ks[j] = Y.key[j + B]
       /\ Y.leaf => \A j \in 0 .. B - 2 : vs[j] = Y.value[j + B]
       /\ ~Y.leaf => \A j \in 0 .. B - 1 : cs[j] = Y.child[j + B]
  <2>1. \A j \in 0 .. B - 2 : j \in KeyIx /\ j < B - 1
    BY DegreeAssumption DEF KeyIx
  <2>2. \A j \in 0 .. B - 1 : j \in ChildIx /\ j < B
    BY DegreeAssumption DEF ChildIx
  <2>3. \A j \in 0 .. B - 2 : ks[j] = Y.key[j + B]
    BY <2>1
  <2>4. Y.leaf => \A j \in 0 .. B - 2 : vs[j] = Y.value[j + B]
    BY <2>1
  <2>5. ~Y.leaf => \A j \in 0 .. B - 1 : cs[j] = Y.child[j + B]
    BY <2>2
  <2> QED BY <2>3, <2>4, <2>5
<1>11. B - 1 \in 0 .. 2 * B - 1
  BY DegreeAssumption
<1> HIDE DEF ks, vs, cs
<1>12. N[top] \in Node
  BY <1>1, <1>3, <1>4, <1>7, <1>8, <1>9, <1>11 DEF Node
<1>13. /\ N[top].leaf = Y.leaf /\ N[top].n = B - 1 /\ N[top].rank = Y.rank
       /\ N[top].left = y /\ N[top].right = Y.right
       /\ N[top].key = ks /\ N[top].value = vs /\ N[top].child = cs
  BY <1>1, <1>3
<1> QED BY <1>10, <1>12, <1>13

-----------------------------------------------------------------------------
(***************************************************************************)
(* A split tree is a tree                                                  *)
(***************************************************************************)
\* The sets of keys after a split: the halves are not empty.
LEMMA SplitRanges ==
    ASSUME NEW nds, NEW top, NEW root, NEW r, NEW x, NEW i, Splittable(nds, top, root, r, x, i),
           NEW y, y = nds[x].child[i],
           NEW rp, rp = Halved(nds, top, r, y)
    PROVE  /\ rp \in [NodeId -> SUBSET Key]
           /\ rp[y] = {k \in r[y] : k < Median(nds, y)}
           /\ rp[top] = {k \in r[y] : Median(nds, y) <= k}
           /\ \A id \in Ids(top) : id # y => rp[id] = r[id]
           /\ rp[y] # {} /\ rp[top] # {}
           /\ Above(rp, y, top)
<1>1. /\ y \in Ids(top) /\ y \in NodeId /\ top \in NodeId /\ top \notin Ids(top)
      /\ r \in [NodeId -> SUBSET Key] /\ Ids(top) \subseteq NodeId
  <2>1. y \in Ids(top) /\ top \in NodeId /\ top \notin Ids(top)
    BY SplitNodes
  <2>2. Ids(top) \subseteq NodeId
    BY NodeAssumption DEF Splittable, Tree, Typed, Ids, NodeId
  <2> QED BY <2>1, <2>2 DEF Splittable
<1>2. r[y] \subseteq Key /\ r[y] \subseteq Int
  BY <1>1, KeyAssumption
<1>3. Median(nds, y) \in r[y] /\ nds[y].key[0] \in r[y] /\ nds[y].key[0] < Median(nds, y)
  BY SplitNodes
<1>4. rp[y] = {k \in r[y] : k < Median(nds, y)} /\ rp[top] = {k \in r[y] : Median(nds, y) <= k}
  BY <1>1 DEF Halved
<1>5. rp \in [NodeId -> SUBSET Key]
  BY <1>1, <1>2 DEF Halved
<1>6. \A id \in Ids(top) : id # y => rp[id] = r[id]
  BY <1>1 DEF Halved
<1>7. rp[y] # {} /\ rp[top] # {}
  BY <1>3, <1>4, <1>2
<1>8. Above(rp, y, top)
  BY <1>4, <1>2, <1>3 DEF Above
<1> QED BY <1>4, <1>5, <1>6, <1>7, <1>8

\* Levels and links of the nodes there were before.
LEMMA SplitLevels ==
    ASSUME NEW nds, NEW top, NEW root, NEW r, NEW x, NEW i, Splittable(nds, top, root, r, x, i),
           NEW y, y = nds[x].child[i],
           NEW N, N = SplitChild(nds, x, i, top),
           NEW id \in Ids(top)
    PROVE  /\ N[id].rank = nds[id].rank /\ N[id].leaf = nds[id].leaf
           /\ N[id].left = IF id = nds[y].right THEN top ELSE nds[id].left
           /\ id # y => N[id].right = nds[id].right
           /\ N[id].left = NoNode <=> nds[id].left = NoNode
<1>1. /\ id \in NodeId /\ id # top /\ x # y /\ nds[x].leaf = FALSE
      /\ id = nds[y].right => id # x /\ id # y /\ nds[id].left = y
      /\ y # NoNode /\ top # NoNode /\ id # NoNode
  <2>1. id \in NodeId /\ id # NoNode
    BY NodeFacts DEF Splittable
  <2>2. id # top /\ x # y /\ y \in Ids(top) /\ top # NoNode
    BY SplitNodes
  <2>3. y # NoNode
    BY <2>2, NodeFacts DEF Splittable
  <2>4. nds[x].leaf = FALSE
    BY NodeFacts DEF Splittable, Node
  <2>5. id = nds[y].right => id # x /\ id # y /\ nds[id].left = y
    BY SplitNodes, <2>1
  <2> QED BY <2>1, <2>2, <2>3, <2>4, <2>5
<1>2. CASE id = x
  <2>1. N[x].leaf = FALSE /\ N[x].rank = nds[x].rank /\ N[x].left = nds[x].left /\ N[x].right = nds[x].right
    <3>1. Widened(nds, N, x, i, y, top)
      BY SplitAbove
    <3> QED BY <3>1 DEF Widened
  <2> QED BY <1>1, <1>2, <2>1
<1>3. CASE id = y
  <2>1. N[y].leaf = nds[y].leaf /\ N[y].rank = nds[y].rank /\ N[y].left = nds[y].left
    BY SplitLower
  <2> QED BY <1>1, <1>3, <2>1
<1>4. CASE id # x /\ id # y
  <2>1. /\ N[id].leaf = nds[id].leaf /\ N[id].rank = nds[id].rank /\ N[id].right = nds[id].right
        /\ N[id].left = IF id = nds[y].right THEN top ELSE nds[id].left
    BY SplitOthers, <1>1, <1>4
  <2> QED BY <1>1, <1>4, <2>1
<1> QED BY <1>2, <1>3, <1>4

\* The store keeps its type, and the ids beyond the new one are still unused.
LEMMA SplitTyped ==
    ASSUME NEW nds, NEW top, NEW root, NEW r, NEW x, NEW i, Splittable(nds, top, root, r, x, i),
           NEW N, N = SplitChild(nds, x, i, top)
    PROVE  Typed(N, top + 1)
<1> DEFINE y == nds[x].child[i]
<1>1. \A id \in NodeId : N[id] \in Node
  <2>1. N[x] \in Node
    <3>1. Widened(nds, N, x, i, y, top)
      BY SplitAbove
    <3> QED BY <3>1 DEF Widened
  <2>2. N[y] \in Node
    BY SplitLower
  <2>3. N[top] \in Node
    BY SplitUpper
  <2>4. \A id \in NodeId : id # x /\ id # y /\ id # top => N[id] \in Node
    BY SplitOthers
  <2> QED BY <2>1, <2>2, <2>3, <2>4
<1>2. N \in [NodeId -> Node]
  <2>1. N = [id \in NodeId |-> N[id]]
    BY DEF SplitChild
  <2> QED BY <2>1, <1>1, SMTT(30)
<1>3. top + 1 \in 1 .. MaxNode + 1
  BY NodeAssumption DEF Splittable, Tree, Typed
<1>4. ASSUME NEW id \in NodeId, id >= top + 1 PROVE N[id] = Fresh
  <2>1. top \in Int /\ id \in Int /\ nds[id] = Fresh /\ id \notin Ids(top) /\ id # top /\ id # NoNode
    BY <1>4, NodeAssumption DEF Splittable, Tree, Typed, Ids, NodeId, NoNode
  <2>2. y \in Ids(top) /\ x \in Ids(top) /\ (nds[y].right # NoNode => nds[y].right \in Ids(top))
    BY SplitNodes DEF Splittable
  <2>3. id # x /\ id # y /\ id # nds[y].right
    BY <2>1, <2>2
  <2>4. N[id] = nds[id]
    BY <2>1, <2>3, SplitOthers
  <2> QED BY <2>1, <2>4
<1> QED BY <1>2, <1>3, <1>4 DEF Typed

\* The root still has every key: it is not the node split, which is lower.
LEMMA SplitRooted ==
    ASSUME NEW nds, NEW top, NEW root, NEW r, NEW x, NEW i, Splittable(nds, top, root, r, x, i),
           NEW y, y = nds[x].child[i],
           NEW N, N = SplitChild(nds, x, i, top),
           NEW rp, rp = Halved(nds, top, r, y)
    PROVE  Rooted(N, top + 1, root, rp)
<1>1. /\ top \in Int /\ x \in Ids(top) /\ y \in Ids(top)
      /\ root \in Ids(top) /\ r[root] = Key
      /\ \A id \in Ids(top) : nds[root].rank <= nds[id].rank
      /\ nds[y].rank = nds[x].rank + 1
  <2>1. y \in Ids(top) /\ nds[y].rank = nds[x].rank + 1
    BY SplitNodes
  <2>2. x \in Ids(top) /\ top \in Int
    BY DEF Splittable, Tree, Typed
  <2>3. /\ root \in Ids(top) /\ r[root] = Key
        /\ \A id \in Ids(top) : nds[root].rank <= nds[id].rank
    BY <2>2 DEF Splittable, Tree, Rooted
  <2> QED BY <2>1, <2>2, <2>3
<1>2. nds[x].rank \in Int /\ nds[root].rank \in Int
  BY <1>1, NodeFacts DEF Splittable, Node
<1>3. root # y
  BY <1>1, <1>2
<1>4. rp[root] = Key
  BY <1>1, <1>3, SplitRanges
<1>5. Ids(top + 1) = Ids(top) \cup {top}
  BY <1>1 DEF Ids
<1>6. \A id \in Ids(top) : N[id].rank = nds[id].rank
  BY SplitLevels
<1>7. N[top].rank = nds[y].rank
  BY SplitUpper
<1> QED BY <1>1, <1>4, <1>5, <1>6, <1>7 DEF Rooted

\* The keys of every node are its own and ascend.
LEMMA SplitKeyed ==
    ASSUME NEW nds, NEW top, NEW root, NEW r, NEW x, NEW i, Splittable(nds, top, root, r, x, i),
           NEW y, y = nds[x].child[i],
           NEW N, N = SplitChild(nds, x, i, top),
           NEW rp, rp = Halved(nds, top, r, y)
    PROVE  Keyed(N, top + 1, rp)
<1> DEFINE m == Median(nds, y)
           Good(id) == /\ rp[id] # {} /\ rp[id] \subseteq Key
                       /\ \A j \in 0 .. N[id].n - 1 : N[id].key[j] \in rp[id]
                       /\ \A j, l \in 0 .. N[id].n - 1 : j < l => N[id].key[j] < N[id].key[l]
<1>1. /\ top \in Int /\ x \in Ids(top) /\ y \in Ids(top) /\ y # x /\ top \in NodeId
      /\ nds[x].n \in 0 .. 2 * B - 1 /\ i \in 0 .. nds[x].n /\ nds[y].n = 2 * B - 1
      /\ r[y] = Slot(nds, r, x, i) /\ top \notin Ids(top)
      /\ m \in r[y] /\ nds[y].key[0] \in r[y] /\ nds[y].key[0] < m
  <2>1. nds[x].n \in 0 .. 2 * B - 1
    BY NodeFacts DEF Splittable
  <2>2. /\ y \in Ids(top) /\ y # x /\ top \in NodeId /\ nds[y].n = 2 * B - 1
        /\ r[y] = Slot(nds, r, x, i) /\ top \notin Ids(top)
        /\ m \in r[y] /\ nds[y].key[0] \in r[y] /\ nds[y].key[0] < m
    BY SplitNodes
  <2> QED BY <2>1, <2>2 DEF Splittable, Tree, Typed
<1>2. \A id \in Ids(top) :
         /\ r[id] # {} /\ r[id] \subseteq Key /\ r[id] \subseteq Int
         /\ \A j \in 0 .. nds[id].n - 1 : nds[id].key[j] \in r[id]
         /\ \A j, l \in 0 .. nds[id].n - 1 : j < l => nds[id].key[j] < nds[id].key[l]
  BY KeyAssumption DEF Splittable, Tree, Keyed
<1>3. /\ \A id \in NodeId : rp[id] \subseteq Key
      /\ rp[y] = {k \in r[y] : k < m}
      /\ rp[top] = {k \in r[y] : m <= k}
      /\ \A id \in Ids(top) : id # y => rp[id] = r[id]
      /\ rp[y] # {} /\ rp[top] # {}
  BY SplitRanges
<1>4. Good(x)
  <2>1. /\ N[x].n = nds[x].n + 1
        /\ \A j \in 0 .. nds[x].n : /\ j < i => N[x].key[j] = nds[x].key[j]
                                    /\ j = i => N[x].key[j] = m
                                    /\ j > i => N[x].key[j] = nds[x].key[j - 1]
    <3>1. Widened(nds, N, x, i, y, top)
      BY SplitAbove
    <3> QED BY <3>1 DEF Widened
  <2>2. rp[x] = r[x] /\ r[x] # {} /\ r[x] \subseteq Key /\ r[x] \subseteq Int /\ m \in r[x]
    BY <1>1, <1>2, <1>3 DEF Slot
  <2>3. \A j \in 0 .. nds[x].n - 1 : nds[x].key[j] \in r[x] /\ nds[x].key[j] \in Int
    BY <1>1, <1>2
  <2>4. ASSUME NEW j \in 0 .. nds[x].n - 1, j < i PROVE nds[x].key[j] < m
    <3>1. i - 1 \in 0 .. nds[x].n - 1 /\ (j = i - 1 \/ j < i - 1)
      BY <2>4, <1>1
    <3>2. nds[x].key[j] <= nds[x].key[i - 1]
      BY <3>1, <1>1, <1>2, <2>3
    <3>3. nds[x].key[i - 1] <= nds[y].key[0]
      BY <1>1, <2>4 DEF Slot
    <3>4. nds[y].key[0] \in Int /\ m \in Int
      BY <1>1, <1>2
    <3> QED BY <3>1, <3>2, <3>3, <3>4, <2>3, <1>1
  <2>5. ASSUME NEW j \in 0 .. nds[x].n - 1, i <= j PROVE m < nds[x].key[j]
    <3>1. i \in 0 .. nds[x].n - 1 /\ (j = i \/ i < j)
      BY <2>5, <1>1
    <3>2. nds[x].key[i] <= nds[x].key[j]
      BY <3>1, <1>1, <1>2, <2>3
    <3>3. m < nds[x].key[i]
      BY <1>1, <3>1 DEF Slot
    <3>4. m \in Int
      BY <1>1, <1>2
    <3> QED BY <3>1, <3>2, <3>3, <3>4, <2>3
  <2>6. \A j \in 0 .. nds[x].n : N[x].key[j] \in r[x]
    BY <2>1, <2>2, <2>3, <1>1
  <2>7. ASSUME NEW j \in 0 .. nds[x].n, NEW l \in 0 .. nds[x].n, j < l
        PROVE  N[x].key[j] < N[x].key[l]
    <3>1. CASE l < i
      <4>1. N[x].key[j] = nds[x].key[j] /\ N[x].key[l] = nds[x].key[l]
            /\ j \in 0 .. nds[x].n - 1 /\ l \in 0 .. nds[x].n - 1
        BY <2>1, <2>7, <3>1, <1>1
      <4> QED BY <4>1, <2>7, <1>2, <1>1
    <3>2. CASE l = i
      <4>1. N[x].key[j] = nds[x].key[j] /\ N[x].key[l] = m /\ j \in 0 .. nds[x].n - 1
        BY <2>1, <2>7, <3>2, <1>1
      <4> QED BY <4>1, <2>4, <2>7, <3>2
    <3>3. CASE i < l /\ j < i
      <4>1. N[x].key[j] = nds[x].key[j] /\ N[x].key[l] = nds[x].key[l - 1]
            /\ j \in 0 .. nds[x].n - 1 /\ l - 1 \in 0 .. nds[x].n - 1 /\ j < l - 1
        BY <2>1, <2>7, <3>3, <1>1
      <4> QED BY <4>1, <1>2, <1>1
    <3>4. CASE i < l /\ j = i
      <4>1. N[x].key[j] = m /\ N[x].key[l] = nds[x].key[l - 1]
            /\ l - 1 \in 0 .. nds[x].n - 1 /\ i <= l - 1
        BY <2>1, <2>7, <3>4, <1>1
      <4> QED BY <4>1, <2>5
    <3>5. CASE i < j
      <4>1. N[x].key[j] = nds[x].key[j - 1] /\ N[x].key[l] = nds[x].key[l - 1]
            /\ j - 1 \in 0 .. nds[x].n - 1 /\ l - 1 \in 0 .. nds[x].n - 1 /\ j - 1 < l - 1
        BY <2>1, <2>7, <3>5, <1>1
      <4> QED BY <4>1, <1>2, <1>1
    <3> QED BY <3>1, <3>2, <3>3, <3>4, <3>5, <1>1
  <2>8. 0 .. N[x].n - 1 = 0 .. nds[x].n
    BY <2>1, <1>1, SMTT(30)
  <2> QED BY <2>2, <2>6, <2>7, <2>8
<1>5. Good(y)
  <2>1. N[y].n = B /\ N[y].key = nds[y].key
    BY SplitLower
  <2>2. ASSUME NEW j \in 0 .. B - 1
        PROVE  /\ j \in 0 .. nds[y].n - 1 /\ B \in 0 .. nds[y].n - 1 /\ j < B
    BY <1>1, DegreeAssumption
  <2>3. \A j \in 0 .. B - 1 : nds[y].key[j] \in rp[y]
    BY <2>2, <1>1, <1>2, <1>3 DEF Median
  <2>4. rp[y] \subseteq Key
    BY <1>2, <1>3, <1>1
  <2> QED BY <2>1, <2>2, <2>3, <2>4, <1>1, <1>2, <1>3, ZenonT(40)
<1>6. Good(top)
  <2>1. N[top].n = B - 1 /\ \A j \in 0 .. B - 2 : N[top].key[j] = nds[y].key[j + B]
    BY SplitUpper
  <2>2. \A j \in 0 .. B - 2 : j + B \in 0 .. nds[y].n - 1 /\ B \in 0 .. nds[y].n - 1 /\ (j = 0 \/ B < j + B)
    BY <1>1, DegreeAssumption
  <2>3. \A j \in 0 .. B - 2 : nds[y].key[j + B] \in r[y] /\ nds[y].key[j + B] \in Int
    BY <2>2, <1>1, <1>2
  <2>4. \A j \in 0 .. B - 2 : m <= nds[y].key[j + B]
    <3>1. m \in Int /\ m = nds[y].key[B]
      BY <1>1, <1>2 DEF Median
    <3>2. ASSUME NEW j \in 0 .. B - 2, j # 0 PROVE m < nds[y].key[j + B]
      BY <2>2, <3>1, <3>2, <1>1, <1>2
    <3>3. 0 + B = B
      BY DegreeAssumption
    <3> QED BY <3>1, <3>2, <3>3, <2>3
  <2>5. \A j, l \in 0 .. B - 2 : j < l => nds[y].key[j + B] < nds[y].key[l + B]
    <3>1. \A j, l \in 0 .. B - 2 : j < l => j + B < l + B
      BY DegreeAssumption
    <3> QED BY <3>1, <2>2, <1>1, <1>2
  <2>6. 0 .. N[top].n - 1 = 0 .. B - 2
    BY <2>1, DegreeAssumption
  <2>7. \A j \in 0 .. B - 2 : N[top].key[j] \in rp[top]
    BY <2>1, <2>3, <2>4, <1>3
  <2>8. rp[top] \subseteq Key
    BY <1>2, <1>3, <1>1
  <2>9. \A j, l \in 0 .. B - 2 : j < l => N[top].key[j] < N[top].key[l]
    BY <2>1, <2>5
  <2> QED BY <2>6, <2>7, <2>8, <2>9, <1>3
<1>7. ASSUME NEW id \in Ids(top), id # x, id # y PROVE Good(id)
  <2>1. id \in NodeId /\ id # top
    BY <1>7, <1>1, NodeFacts DEF Splittable
  <2>2. N[id].n = nds[id].n /\ N[id].key = nds[id].key
    BY <1>7, <2>1, SplitOthers
  <2>3. rp[id] = r[id]
    BY <1>3, <1>7
  <2> QED BY <2>2, <2>3, <1>2
<1>8. Ids(top + 1) = Ids(top) \cup {top}
  BY <1>1 DEF Ids
<1>9. \A id \in Ids(top + 1) : Good(id)
  BY <1>4, <1>5, <1>6, <1>7, <1>8
<1> QED BY <1>9 DEF Keyed

\* Two nodes of a level with a key in common are one node.
LEMMA SameNode ==
    ASSUME NEW nds, NEW top, NEW root, NEW r, Tree(nds, top, root, r),
           NEW a \in Ids(top), NEW c \in Ids(top), nds[a].rank = nds[c].rank,
           NEW k \in r[a], k \in r[c]
    PROVE  a = c
<1>1. r[a] \subseteq Int
  BY KeyAssumption DEF Tree, Keyed
<1>2. ~(k < k)
  BY <1>1
<1>3. a # c => Above(r, a, c) \/ Above(r, c, a)
  BY DEF Tree, Apart
<1> QED BY <1>2, <1>3 DEF Above

\* Only one child of one node is the way to a node, whatever stale child may
\* have its id too.
LEMMA SoleParent ==
    ASSUME NEW nds, NEW top, NEW root, NEW r, Tree(nds, top, root, r),
           NEW a \in Ids(top), ~nds[a].leaf, NEW i \in 0 .. nds[a].n,
           NEW c \in Ids(top), ~nds[c].leaf, NEW j \in 0 .. nds[c].n,
           Slot(nds, r, a, i) # {}, Slot(nds, r, c, j) # {},
           nds[a].child[i] = nds[c].child[j]
    PROVE  a = c /\ i = j
<1>1. /\ nds[nds[a].child[i]].rank = nds[a].rank + 1
      /\ nds[nds[c].child[j]].rank = nds[c].rank + 1
      /\ r[nds[a].child[i]] = Slot(nds, r, a, i)
      /\ r[nds[c].child[j]] = Slot(nds, r, c, j)
  BY DEF Tree, Parents
<1>2. /\ nds[a].rank \in Int /\ nds[c].rank \in Int /\ nds[a].n \in Nat
      /\ Sorted(nds[a])
  BY NodeFacts DEF Node, Sorted
<1>3. PICK k : k \in Slot(nds, r, a, i) /\ k \in Slot(nds, r, c, j)
  BY <1>1
<1>4. a = c
  BY <1>1, <1>2, <1>3, SameNode DEF Slot
<1>5. k \in Int /\ i \in 0 .. nds[a].n /\ j \in 0 .. nds[a].n
  BY <1>3, <1>4, KeyAssumption DEF Slot, Tree, Keyed
<1>6. Boundary(nds[a], k) = i
  <2>1. (i > 0 => nds[a].key[i - 1] <= k) /\ (i < nds[a].n => k < nds[a].key[i])
    BY <1>3 DEF Slot
  <2>2. i < nds[a].n => nds[a].key[i] > k
    BY <2>1, <1>2, <1>5 DEF Sorted
  <2> QED BY <2>1, <2>2, <1>2, <1>5, BoundaryUnique
<1>7. Boundary(nds[a], k) = j
  <2>1. (j > 0 => nds[a].key[j - 1] <= k) /\ (j < nds[a].n => k < nds[a].key[j])
    BY <1>3, <1>4 DEF Slot
  <2>2. j < nds[a].n => nds[a].key[j] > k
    BY <2>1, <1>2, <1>5 DEF Sorted
  <2> QED BY <2>1, <2>2, <1>2, <1>5, BoundaryUnique
<1> QED BY <1>4, <1>6, <1>7

\* Child j of node id, in nodes N with the sets rp.
ChildOK(N, top, rp, id, j) ==
    /\ N[id].child[j] \in Ids(top)
    /\ N[N[id].child[j]].rank = N[id].rank + 1
    /\ Slot(N, rp, id, j) # {} => rp[N[id].child[j]] = Slot(N, rp, id, j)

\* A child other than y keeps its place when its slot has the keys it had before.
LEMMA SplitChildKept ==
    ASSUME NEW nds, NEW top, NEW root, NEW r, NEW x, NEW i, Splittable(nds, top, root, r, x, i),
           NEW y, y = nds[x].child[i],
           NEW N, N = SplitChild(nds, x, i, top),
           NEW rp, rp = Halved(nds, top, r, y),
           NEW old \in Ids(top), ~nds[old].leaf, NEW j \in 0 .. nds[old].n,
           old # x \/ j # i,
           NEW id, NEW l, N[id].child[l] = nds[old].child[j],
           N[id].rank = nds[old].rank,
           Slot(N, rp, id, l) \in {{}, Slot(nds, r, old, j)}
    PROVE  ChildOK(N, top + 1, rp, id, l)
<1> DEFINE c == nds[old].child[j]
<1>1. /\ c \in Ids(top) /\ nds[c].rank = nds[old].rank + 1
      /\ Slot(nds, r, old, j) # {} => r[c] = Slot(nds, r, old, j)
  BY DEF Splittable, Tree, Parents
<1>2. N[c].rank = nds[c].rank
  BY <1>1, SplitLevels
<1>3. c \in Ids(top + 1)
  <2>1. top \in Int
    BY DEF Splittable, Tree, Typed
  <2> QED BY <1>1, <2>1 DEF Ids
<1>4. ASSUME Slot(nds, r, old, j) # {} PROVE rp[c] = r[c]
  <2>1. /\ Tree(nds, top, root, r) /\ x \in Ids(top) /\ ~nds[x].leaf
        /\ i \in 0 .. nds[x].n /\ Slot(nds, r, x, i) # {}
    BY DEF Splittable
  <2>2. c # y
    BY <2>1, <1>4, SoleParent
  <2> QED BY <2>2, <1>1, SplitRanges
<1> HIDE DEF c
<1>5. N[id].child[l] = c
  BY DEF c
<1>6. Slot(N, rp, id, l) # {} => rp[c] = Slot(N, rp, id, l)
  BY <1>1, <1>4
<1> QED BY <1>1, <1>2, <1>3, <1>5, <1>6 DEF ChildOK

\* The children of x: the two halves at i and i + 1, the others beside them.
LEMMA SplitChildrenOfX ==
    ASSUME NEW nds, NEW top, NEW root, NEW r, NEW x, NEW i, Splittable(nds, top, root, r, x, i),
           NEW y, y = nds[x].child[i],
           NEW N, N = SplitChild(nds, x, i, top),
           NEW rp, rp = Halved(nds, top, r, y),
           NEW l \in 0 .. nds[x].n + 1
    PROVE  ChildOK(N, top + 1, rp, x, l)
<1> DEFINE n == nds[x].n
           m == Median(nds, y)
<1>1. /\ x \in Ids(top) /\ ~nds[x].leaf /\ i \in 0 .. n /\ n \in 0 .. 2 * B - 1 /\ top \in Int
  BY NodeFacts DEF Splittable, Tree, Typed
<1>2. /\ y \in Ids(top) /\ y # x /\ nds[y].rank = nds[x].rank + 1
      /\ r[y] = Slot(nds, r, x, i) /\ m \in r[y] /\ top \notin Ids(top)
  BY SplitNodes
<1>3. Widened(nds, N, x, i, y, top)
  BY SplitAbove
<1>4. /\ N[x].n = n + 1 /\ N[x].rank = nds[x].rank
      /\ \A j \in 0 .. n : /\ j < i => N[x].key[j] = nds[x].key[j]
                           /\ j = i => N[x].key[j] = m
                           /\ j > i => N[x].key[j] = nds[x].key[j - 1]
      /\ \A j \in 0 .. n + 1 : /\ j <= i => N[x].child[j] = nds[x].child[j]
                               /\ j = i + 1 => N[x].child[j] = top
                               /\ j > i + 1 => N[x].child[j] = nds[x].child[j - 1]
  BY <1>3 DEF Widened
<1>5. /\ rp[x] = r[x] /\ rp[y] = {k \in r[y] : k < m} /\ rp[top] = {k \in r[y] : m <= k}
  BY <1>1, <1>2, SplitRanges
<1>6. r[x] \subseteq Int /\ m \in Int /\ (i < n => nds[x].key[i] \in Int /\ m < nds[x].key[i])
      /\ (i > 0 => nds[x].key[i - 1] \in Int /\ nds[x].key[i - 1] <= m)
  <2>1. r[x] \subseteq Int
    BY <1>1, KeyAssumption DEF Splittable, Tree, Keyed
  <2>2. Sorted(nds[x])
    BY <1>1, NodeFacts DEF Splittable
  <2>3. \A j \in 0 .. n - 1 : nds[x].key[j] \in Int
    BY <2>2 DEF Sorted
  <2> QED BY <2>1, <2>3, <1>1, <1>2 DEF Slot
<1>7. Ids(top + 1) = Ids(top) \cup {top}
  BY <1>1 DEF Ids
<1>8. CASE l < i
  <2>1. /\ l \in 0 .. n /\ N[x].child[l] = nds[x].child[l] /\ N[x].key[l] = nds[x].key[l]
        /\ (l > 0 => N[x].key[l - 1] = nds[x].key[l - 1]) /\ l < n /\ l < n + 1
    BY <1>1, <1>4, <1>8
  <2>2. Slot(N, rp, x, l) = Slot(nds, r, x, l)
    BY <2>1, <1>4, <1>5 DEF Slot
  <2>3. l # i
    BY <1>8, <1>1
  <2> QED BY <2>1, <2>2, <2>3, <1>1, <1>4, SplitChildKept
<1>9. CASE l = i
  <2>1. /\ N[x].child[l] = y /\ N[x].key[l] = m /\ l < n + 1
        /\ (l > 0 => N[x].key[l - 1] = nds[x].key[l - 1])
    BY <1>1, <1>4, <1>9
  <2>2. Slot(N, rp, x, l) = rp[y]
    <3>1. Slot(N, rp, x, l) = {k \in r[x] : (i > 0 => nds[x].key[i - 1] <= k) /\ k < m}
      BY <2>1, <1>4, <1>5, <1>9 DEF Slot
    <3>2. rp[y] = {k \in r[x] : /\ i > 0 => nds[x].key[i - 1] <= k
                                /\ i < n => k < nds[x].key[i]
                                /\ k < m}
      BY <1>2, <1>5 DEF Slot
    <3>3. \A k \in r[x] : k < m => (i < n => k < nds[x].key[i])
      BY <1>6
    <3> QED BY <3>1, <3>2, <3>3
  <2>3. N[y].rank = nds[y].rank
    BY <1>2, SplitLevels
  <2> QED BY <2>1, <2>2, <2>3, <1>2, <1>4, <1>7 DEF ChildOK
<1>10. CASE l = i + 1
  <2>1. /\ N[x].child[l] = top /\ l > 0 /\ N[x].key[l - 1] = m
        /\ (l < n + 1 => N[x].key[l] = nds[x].key[i]) /\ (l < n + 1 <=> i < n)
    BY <1>1, <1>4, <1>10
  <2>2. Slot(N, rp, x, l) = rp[top]
    <3>1. Slot(N, rp, x, l) = {k \in r[x] : m <= k /\ (i < n => k < nds[x].key[i])}
      BY <2>1, <1>4, <1>5 DEF Slot
    <3>2. rp[top] = {k \in r[x] : /\ i > 0 => nds[x].key[i - 1] <= k
                                  /\ i < n => k < nds[x].key[i]
                                  /\ m <= k}
      BY <1>2, <1>5 DEF Slot
    <3>3. \A k \in r[x] : m <= k => (i > 0 => nds[x].key[i - 1] <= k)
      BY <1>6
    <3> QED BY <3>1, <3>2, <3>3
  <2>3. N[top].rank = nds[y].rank
    BY SplitUpper
  <2> QED BY <2>1, <2>2, <2>3, <1>2, <1>4, <1>7 DEF ChildOK
<1>11. CASE l > i + 1
  <2>1. /\ l - 1 \in 0 .. n /\ N[x].child[l] = nds[x].child[l - 1]
        /\ l > 0 /\ N[x].key[l - 1] = nds[x].key[(l - 1) - 1]
        /\ (l < n + 1 => N[x].key[l] = nds[x].key[l - 1])
        /\ (l < n + 1 <=> l - 1 < n) /\ l - 1 > 0
    BY <1>1, <1>4, <1>11
  <2>2. Slot(N, rp, x, l) = Slot(nds, r, x, l - 1)
    BY <2>1, <1>4, <1>5 DEF Slot
  <2>3. l - 1 # i
    BY <1>11, <1>1
  <2> QED BY <2>1, <2>2, <2>3, <1>1, <1>4, SplitChildKept
<1> QED BY <1>1, <1>8, <1>9, <1>10, <1>11

\* The children of y, an inner node: those up to B, with the keys they had.
LEMMA SplitChildrenOfY ==
    ASSUME NEW nds, NEW top, NEW root, NEW r, NEW x, NEW i, Splittable(nds, top, root, r, x, i),
           NEW y, y = nds[x].child[i], ~nds[y].leaf,
           NEW N, N = SplitChild(nds, x, i, top),
           NEW rp, rp = Halved(nds, top, r, y),
           NEW l \in 0 .. B
    PROVE  ChildOK(N, top + 1, rp, y, l)
<1> DEFINE m == Median(nds, y)
<1>1. /\ y \in Ids(top) /\ y # x /\ nds[y].n = 2 * B - 1 /\ l \in 0 .. nds[y].n
      /\ m \in r[y] /\ m = nds[y].key[B] /\ B \in 0 .. nds[y].n - 1
  BY SplitNodes, DegreeAssumption DEF Median
<1>2. N[y].n = B /\ N[y].rank = nds[y].rank /\ N[y].key = nds[y].key /\ N[y].child[l] = nds[y].child[l]
  BY SplitLower
<1>3. rp[y] = {k \in r[y] : k < m}
  BY SplitRanges
<1>4. r[y] \subseteq Int /\ \A j \in 0 .. B : nds[y].key[j] \in Int /\ nds[y].key[j] <= m
  <2>1. r[y] \subseteq Int
    BY <1>1, KeyAssumption DEF Splittable, Tree, Keyed
  <2>2. Sorted(nds[y])
    BY <1>1, NodeFacts DEF Splittable
  <2>3. \A j \in 0 .. nds[y].n - 1 : nds[y].key[j] \in Int
    BY <2>2 DEF Sorted
  <2>4. \A j \in 0 .. B : j \in 0 .. nds[y].n - 1 /\ (j = B \/ j < B)
    BY <1>1, DegreeAssumption, SMTT(30)
  <2>5. \A j \in 0 .. B : j < B => nds[y].key[j] < nds[y].key[B]
    BY <2>2, <2>4, <1>1 DEF Sorted
  <2>6. m \in Int
    BY <2>1, <1>1, SMTT(30)
  <2>7. \A j \in 0 .. B : nds[y].key[j] \in Int /\ nds[y].key[j] <= m
    <3> HIDE DEF m
    <3> QED BY <2>3, <2>4, <2>5, <2>6, <1>1, SMTT(30)
  <2> QED BY <2>1, <2>7
<1>5. Slot(N, rp, y, l) = Slot(nds, r, y, l)
  <2>1. Slot(N, rp, y, l) = {k \in r[y] : /\ k < m
                                          /\ l > 0 => nds[y].key[l - 1] <= k
                                          /\ l < B => k < nds[y].key[l]}
    BY <1>2, <1>3, Zenon DEF Slot
  <2>2. l < nds[y].n
    BY <1>1, DegreeAssumption
  <2>3. Slot(nds, r, y, l) = {k \in r[y] : /\ l > 0 => nds[y].key[l - 1] <= k
                                           /\ k < nds[y].key[l]}
    BY <2>2 DEF Slot
  <2>4. \A k \in r[y] : (k < m /\ (l < B => k < nds[y].key[l])) <=> k < nds[y].key[l]
    <3>1. CASE l = B
      BY <3>1, <1>1, DegreeAssumption
    <3>2. CASE l < B
      BY <3>2, <1>4, <1>1
    <3> QED BY <3>1, <3>2, DegreeAssumption
  <2> QED BY <2>1, <2>3, <2>4
<1> QED BY <1>1, <1>2, <1>5, SplitChildKept

\* The children of z: those of y from B on; no key leads to the first of them.
LEMMA SplitChildrenOfZ ==
    ASSUME NEW nds, NEW top, NEW root, NEW r, NEW x, NEW i, Splittable(nds, top, root, r, x, i),
           NEW y, y = nds[x].child[i], ~nds[y].leaf,
           NEW N, N = SplitChild(nds, x, i, top),
           NEW rp, rp = Halved(nds, top, r, y),
           NEW l \in 0 .. B - 1
    PROVE  ChildOK(N, top + 1, rp, top, l)
<1> DEFINE m == Median(nds, y)
           j == l + B
<1>1. /\ y \in Ids(top) /\ y # x /\ nds[y].n = 2 * B - 1 /\ j \in 0 .. nds[y].n
      /\ m \in r[y] /\ m = nds[y].key[B]
  BY SplitNodes, DegreeAssumption DEF Median
<1>2. /\ N[top].n = B - 1 /\ N[top].rank = nds[y].rank /\ N[top].child[l] = nds[y].child[j]
      /\ \A q \in 0 .. B - 2 : N[top].key[q] = nds[y].key[q + B]
  BY SplitUpper
<1>3. rp[top] = {k \in r[y] : m <= k}
  BY SplitRanges
<1>4. /\ r[y] \subseteq Int
      /\ \A q \in B .. 2 * B - 2 : nds[y].key[q] \in Int /\ m <= nds[y].key[q]
  <2>1. r[y] \subseteq Int
    BY <1>1, KeyAssumption DEF Splittable, Tree, Keyed
  <2>2. Sorted(nds[y])
    BY <1>1, NodeFacts DEF Splittable
  <2>3. \A q \in 0 .. nds[y].n - 1 : nds[y].key[q] \in Int
    BY <2>2 DEF Sorted
  <2>4. \A q \in B .. 2 * B - 2 : /\ q \in 0 .. nds[y].n - 1 /\ B \in 0 .. nds[y].n - 1
                                  /\ q = B \/ B < q
    BY <1>1, DegreeAssumption
  <2>5. \A q \in B .. 2 * B - 2 : B < q => nds[y].key[B] < nds[y].key[q]
    BY <2>2, <2>4 DEF Sorted
  <2>6. m \in Int
    BY <2>1, <1>1
  <2>7. \A q \in B .. 2 * B - 2 : nds[y].key[q] \in Int /\ m <= nds[y].key[q]
    <3> HIDE DEF m
    <3> QED BY <2>3, <2>4, <2>5, <2>6, <1>1
  <2> QED BY <2>1, <2>7
<1>5. Slot(N, rp, top, l) \in {{}, Slot(nds, r, y, j)}
  <2>1. CASE l = 0
    <3>1. l < N[top].n /\ N[top].key[l] = m
      <4>1. 0 \in 0 .. B - 2 /\ 0 < B - 1 /\ 0 + B = B
        BY DegreeAssumption
      <4> QED BY <4>1, <2>1, <1>1, <1>2
    <3>2. Slot(N, rp, top, l) \subseteq {k \in r[y] : m <= k /\ k < m}
      BY <3>1, <1>3 DEF Slot
    <3>3. \A k \in r[y] : k \in Int /\ m \in Int
      BY <1>1, <1>4, Zenon
    <3>4. \A k \in r[y] : ~(m <= k /\ k < m)
      <4> HIDE DEF m
      <4> QED BY <3>3
    <3> QED BY <3>2, <3>4
  <2>2. CASE l # 0
    <3>1. /\ l - 1 \in 0 .. B - 2 /\ (l - 1) + B = j - 1 /\ l > 0 /\ j > 0
          /\ j - 1 \in B .. 2 * B - 2
          /\ l < B - 1 <=> j < nds[y].n
          /\ l < B - 1 => l \in 0 .. B - 2
      BY <2>2, <1>1, DegreeAssumption
    <3>2. N[top].key[l - 1] = nds[y].key[j - 1] /\ (l < B - 1 => N[top].key[l] = nds[y].key[j])
      BY <3>1, <1>2
    <3>3. Slot(N, rp, top, l) = {k \in r[y] : /\ m <= k /\ nds[y].key[j - 1] <= k
                                              /\ j < nds[y].n => k < nds[y].key[j]}
      BY <3>1, <3>2, <1>2, <1>3, Zenon DEF Slot
    <3>4. Slot(nds, r, y, j) = {k \in r[y] : /\ nds[y].key[j - 1] <= k
                                             /\ j < nds[y].n => k < nds[y].key[j]}
      BY <3>1 DEF Slot
    <3>5. \A k \in r[y] : nds[y].key[j - 1] <= k => m <= k
      <4>1. /\ nds[y].key[j - 1] \in Int /\ m <= nds[y].key[j - 1] /\ m \in Int
            /\ \A k \in r[y] : k \in Int
        BY <3>1, <1>1, <1>4
      <4> HIDE DEF j, m
      <4> QED BY <4>1, SMTT(30)
    <3>6. \A k \in r[y] : (m <= k /\ nds[y].key[j - 1] <= k) <=> nds[y].key[j - 1] <= k
      BY <3>5
    <3> HIDE DEF j, m
    <3> QED BY <3>3, <3>4, <3>6, Zenon
  <2> QED BY <2>1, <2>2
<1> HIDE DEF j
<1> QED BY <1>1, <1>2, <1>5, SplitChildKept

\* The children of every other node.
LEMMA SplitChildrenOfOthers ==
    ASSUME NEW nds, NEW top, NEW root, NEW r, NEW x, NEW i, Splittable(nds, top, root, r, x, i),
           NEW y, y = nds[x].child[i],
           NEW N, N = SplitChild(nds, x, i, top),
           NEW rp, rp = Halved(nds, top, r, y),
           NEW id \in Ids(top), id # x, id # y, ~nds[id].leaf,
           NEW l \in 0 .. nds[id].n
    PROVE  ChildOK(N, top + 1, rp, id, l)
<1>1. id \in NodeId /\ id # top
  BY SplitNodes, NodeFacts DEF Splittable
<1>2. /\ N[id].n = nds[id].n /\ N[id].key = nds[id].key
      /\ N[id].child = nds[id].child /\ N[id].rank = nds[id].rank
  BY <1>1, SplitOthers
<1>3. rp[id] = r[id]
  BY SplitRanges
<1>4. Slot(N, rp, id, l) = Slot(nds, r, id, l)
  BY <1>2, <1>3 DEF Slot
<1>5. /\ N[id].child[l] = nds[id].child[l]
      /\ Slot(N, rp, id, l) \in {{}, Slot(nds, r, id, l)}
      /\ id # x \/ l # i
  BY <1>2, <1>4
<1> QED BY <1>2, <1>5, SplitChildKept

\* All of Parents.
LEMMA SplitParents ==
    ASSUME NEW nds, NEW top, NEW root, NEW r, NEW x, NEW i, Splittable(nds, top, root, r, x, i),
           NEW y, y = nds[x].child[i],
           NEW N, N = SplitChild(nds, x, i, top),
           NEW rp, rp = Halved(nds, top, r, y)
    PROVE  Parents(N, top + 1, rp)
<1> DEFINE Good(id) ==
              /\ N[id].leaf <=> N[id].rank = 0
              /\ N[id].rank <= 0
              /\ ~N[id].leaf => \A j \in 0 .. N[id].n : ChildOK(N, top + 1, rp, id, j)
              /\ ~N[id].leaf /\ N[id].left = NoNode => N[N[id].child[0]].left = NoNode
<1>1. /\ x \in Ids(top) /\ y \in Ids(top) /\ x # y /\ top \notin Ids(top) /\ y # NoNode
      /\ Ids(top + 1) = Ids(top) \cup {top}
  <2>1. y \in Ids(top) /\ x # y /\ top \notin Ids(top)
    BY SplitNodes
  <2>2. y # NoNode
    BY <2>1, NodeFacts DEF Splittable
  <2>3. x \in Ids(top) /\ Ids(top + 1) = Ids(top) \cup {top}
    BY DEF Splittable, Tree, Typed, Ids
  <2> QED BY <2>1, <2>2, <2>3
<1>2. \A id \in Ids(top) :
        /\ nds[id].leaf <=> nds[id].rank = 0
        /\ nds[id].rank <= 0
        /\ ~nds[id].leaf => nds[id].child[0] \in Ids(top)
        /\ ~nds[id].leaf /\ nds[id].left = NoNode => nds[nds[id].child[0]].left = NoNode
  <2>1. \A id \in Ids(top) : 0 \in 0 .. nds[id].n
    BY NodeFacts DEF Splittable
  <2> QED BY <2>1 DEF Splittable, Tree, Parents
<1>3. \A id \in Ids(top) :
        /\ N[id].rank = nds[id].rank /\ N[id].leaf = nds[id].leaf
        /\ N[id].left = NoNode <=> nds[id].left = NoNode
  BY SplitLevels
<1>4. \A id \in Ids(top) : N[id].child[0] = nds[id].child[0]
  <2>1. N[x].child[0] = nds[x].child[0]
    <3>1. Widened(nds, N, x, i, y, top)
      BY SplitAbove
    <3>2. 0 \in 0 .. nds[x].n + 1 /\ 0 <= i
      BY NodeFacts DEF Splittable
    <3> QED BY <3>1, <3>2 DEF Widened
  <2>2. N[y].child[0] = nds[y].child[0]
    <3>1. 0 \in 0 .. B
      BY DegreeAssumption
    <3> QED BY <3>1, SplitLower
  <2>3. ASSUME NEW id \in Ids(top), id # x, id # y PROVE N[id].child[0] = nds[id].child[0]
    <3>1. id \in NodeId /\ id # top
      BY <1>1, NodeFacts DEF Splittable
    <3> QED BY <3>1, <2>3, SplitOthers
  <2> QED BY <2>1, <2>2, <2>3
<1>5. ASSUME NEW id \in Ids(top) PROVE Good(id)
  <2>1. ASSUME ~N[id].leaf, NEW j \in 0 .. N[id].n PROVE ChildOK(N, top + 1, rp, id, j)
    <3>1. ~nds[id].leaf
      BY <2>1, <1>3
    <3>2. CASE id = x
      <4>1. Widened(nds, N, x, i, y, top)
        BY SplitAbove
      <4>2. j \in 0 .. nds[x].n + 1
        BY <4>1, <3>2 DEF Widened
      <4> QED BY <4>2, <3>2, SplitChildrenOfX
    <3>3. CASE id = y
      <4>1. j \in 0 .. B
        BY <3>3, SplitLower
      <4> QED BY <4>1, <3>1, <3>3, SplitChildrenOfY
    <3>4. CASE id # x /\ id # y
      <4>1. id \in NodeId /\ id # top
        BY <1>1, NodeFacts DEF Splittable
      <4>2. N[id].n = nds[id].n
        BY <4>1, <3>4, SplitOthers
      <4> QED BY <4>2, <3>1, <3>4, SplitChildrenOfOthers
    <3> QED BY <3>2, <3>3, <3>4
  <2>2. ~N[id].leaf /\ N[id].left = NoNode => N[N[id].child[0]].left = NoNode
    BY <1>2, <1>3, <1>4
  <2> QED BY <2>1, <2>2, <1>2, <1>3
<1>6. Good(top)
  <2>1. N[top].leaf = nds[y].leaf /\ N[top].rank = nds[y].rank /\ N[top].n = B - 1 /\ N[top].left = y
    BY SplitUpper
  <2>2. ~nds[y].leaf => \A j \in 0 .. B - 1 : ChildOK(N, top + 1, rp, top, j)
    BY SplitChildrenOfZ
  <2> QED BY <2>1, <2>2, <1>1, <1>2
<1>7. \A id \in Ids(top + 1) : Good(id)
  BY <1>1, <1>5, <1>6
<1> QED BY <1>7 DEF Parents, ChildOK

\* The halves of y are apart from what y was apart from, and one above the other.
LEMMA SplitApart ==
    ASSUME NEW nds, NEW top, NEW root, NEW r, NEW x, NEW i, Splittable(nds, top, root, r, x, i),
           NEW y, y = nds[x].child[i],
           NEW N, N = SplitChild(nds, x, i, top),
           NEW rp, rp = Halved(nds, top, r, y)
    PROVE  Apart(N, top + 1, rp)
<1> DEFINE was(id) == IF id = top THEN y ELSE id
<1>1. /\ y \in Ids(top) /\ top \notin Ids(top) /\ Ids(top + 1) = Ids(top) \cup {top}
  BY SplitNodes DEF Splittable, Tree, Typed, Ids
<1>2. /\ rp[y] = {k \in r[y] : k < Median(nds, y)}
      /\ rp[top] = {k \in r[y] : Median(nds, y) <= k}
      /\ \A id \in Ids(top) : id # y => rp[id] = r[id]
      /\ Above(rp, y, top)
  BY SplitRanges
<1>3. \A id \in Ids(top + 1) : /\ was(id) \in Ids(top)
                               /\ rp[id] \subseteq r[was(id)]
                               /\ N[id].rank = nds[was(id)].rank
  <2>1. \A id \in Ids(top) : N[id].rank = nds[id].rank
    BY SplitLevels
  <2>2. N[top].rank = nds[y].rank
    BY SplitUpper
  <2>3. ASSUME NEW id \in Ids(top)
        PROVE  was(id) = id /\ rp[id] \subseteq r[id]
    BY <1>1, <1>2
  <2>4. was(top) = y /\ rp[top] \subseteq r[y]
    BY <1>2
  <2> HIDE DEF was
  <2> QED BY <2>1, <2>2, <2>3, <2>4, <1>1
<1>4. ASSUME NEW a \in Ids(top + 1), NEW c \in Ids(top + 1), N[a].rank = N[c].rank, a # c
      PROVE  Above(rp, a, c) \/ Above(rp, c, a)
  <2>1. CASE was(a) # was(c)
    <3>1. Above(r, was(a), was(c)) \/ Above(r, was(c), was(a))
      <4> HIDE DEF was
      <4> QED BY <1>3, <1>4, <2>1 DEF Splittable, Tree, Apart
    <3> HIDE DEF was
    <3> QED BY <3>1, <1>3 DEF Above
  <2>2. CASE was(a) = was(c)
    <3>1. {a, c} = {y, top}
      BY <2>2, <1>4, <1>1
    <3> QED BY <3>1, <1>2
  <2> QED BY <2>1, <2>2
<1> QED BY <1>4 DEF Apart

\* z goes between y and the node that was to the right of it.
LEMMA SplitLinked ==
    ASSUME NEW nds, NEW top, NEW root, NEW r, NEW x, NEW i, Splittable(nds, top, root, r, x, i),
           NEW y, y = nds[x].child[i],
           NEW N, N = SplitChild(nds, x, i, top),
           NEW rp, rp = Halved(nds, top, r, y)
    PROVE  Linked(N, top + 1, rp)
<1> DEFINE b == nds[y].right
           RightOK(a) == N[a].right # NoNode => /\ N[a].right \in Ids(top + 1)
                                                /\ N[N[a].right].rank = N[a].rank
                                                /\ N[N[a].right].left = a
                                                /\ Above(rp, a, N[a].right)
           LeftOK(a) == N[a].left # NoNode => /\ N[a].left \in Ids(top + 1)
                                              /\ N[N[a].left].right = a
           NextOK(a, c) == N[a].rank = N[c].rank /\ Above(rp, a, c) =>
                              /\ N[a].right # NoNode
                              /\ c = N[a].right \/ Above(rp, N[a].right, c)
<1>1. /\ y \in Ids(top) /\ top \notin Ids(top) /\ Ids(top + 1) = Ids(top) \cup {top}
      /\ b # NoNode => b \in Ids(top) /\ b # x /\ b # y /\ nds[b].left = y
      /\ top # NoNode
  BY SplitNodes DEF Splittable, Tree, Typed, Ids
<1>2. /\ rp[y] \subseteq r[y] /\ rp[top] \subseteq r[y]
      /\ \A id \in Ids(top) : id # y => rp[id] = r[id]
      /\ rp[y] # {} /\ rp[top] # {}
      /\ Above(rp, y, top)
  <2>1. rp[y] = {k \in r[y] : k < Median(nds, y)} /\ rp[top] = {k \in r[y] : Median(nds, y) <= k}
    BY SplitRanges
  <2> QED BY <2>1, SplitRanges
<1>3. \A id \in Ids(top) :
         /\ N[id].rank = nds[id].rank
         /\ N[id].left = IF id = b THEN top ELSE nds[id].left
         /\ id # y => N[id].right = nds[id].right
  BY SplitLevels
<1>4. N[y].right = top /\ N[top].rank = nds[y].rank /\ N[top].left = y /\ N[top].right = b
  BY SplitLower, SplitUpper
<1>5. \A a \in Ids(top) :
         /\ nds[a].right # NoNode => /\ nds[a].right \in Ids(top)
                                     /\ nds[nds[a].right].rank = nds[a].rank
                                     /\ nds[nds[a].right].left = a
                                     /\ Above(r, a, nds[a].right)
         /\ nds[a].left # NoNode => /\ nds[a].left \in Ids(top)
                                    /\ nds[nds[a].left].right = a
         /\ \A c \in Ids(top) :
               nds[a].rank = nds[c].rank /\ Above(r, a, c) =>
                  /\ nds[a].right # NoNode
                  /\ c = nds[a].right \/ Above(r, nds[a].right, c)
  BY DEF Splittable, Tree, Linked
<1>6. \A a, c \in Ids(top) :
         nds[a].rank = nds[c].rank /\ a # c => Above(r, a, c) \/ Above(r, c, a)
  BY DEF Splittable, Tree, Apart
<1>7. \A id \in Ids(top) : rp[id] # {} /\ rp[id] \subseteq r[id] /\ rp[id] \subseteq Int /\ id # NoNode
  <2>1. \A id \in Ids(top) : r[id] # {} /\ r[id] \subseteq Int /\ id # NoNode
    BY KeyAssumption, NodeFacts DEF Splittable, Tree, Keyed
  <2> QED BY <2>1, <1>2
<1> HIDE DEF b
\* Nodes above each other after the split were so before: ranges are not empty.
<1>8. ASSUME NEW a \in Ids(top), NEW c \in Ids(top), a # c, nds[a].rank = nds[c].rank,
             Above(rp, a, c)
      PROVE  Above(r, a, c)
  <2>1. PICK k \in rp[a], l \in rp[c] : k \in r[a] /\ l \in r[c] /\ k \in Int /\ l \in Int
    BY <1>7
  <2>2. k < l /\ ~(l < k)
    BY <2>1, <1>8 DEF Above
  <2>3. ~Above(r, c, a)
    BY <2>1, <2>2 DEF Above
  <2> QED BY <2>3, <1>6, <1>8
<1>9. ASSUME NEW a \in Ids(top), NEW c \in Ids(top), Above(r, a, c) PROVE Above(rp, a, c)
  BY <1>7, <1>9 DEF Above
<1>10. \A a \in Ids(top) : RightOK(a)
  <2>1. RightOK(y)
    BY <1>1, <1>2, <1>3, <1>4
  <2>2. ASSUME NEW a \in Ids(top), a # y PROVE RightOK(a)
    <3>1. SUFFICES ASSUME N[a].right # NoNode
                   PROVE  /\ N[a].right \in Ids(top + 1)
                          /\ N[N[a].right].rank = N[a].rank
                          /\ N[N[a].right].left = a
                          /\ Above(rp, a, N[a].right)
      OBVIOUS
    <3>2. /\ N[a].right = nds[a].right /\ nds[a].right \in Ids(top)
          /\ nds[nds[a].right].rank = nds[a].rank
          /\ nds[nds[a].right].left = a
          /\ Above(r, a, nds[a].right)
      BY <2>2, <3>1, <1>3, <1>5
    <3>3. nds[a].right # b
      BY <3>2, <2>2, <1>1, <1>7
    <3>4. Above(rp, a, nds[a].right)
      BY <3>2, <1>9
    <3> QED BY <3>2, <3>3, <3>4, <1>1, <1>3
  <2> QED BY <2>1, <2>2
<1>11. RightOK(top)
  <2>1. SUFFICES ASSUME b # NoNode
                 PROVE  /\ b \in Ids(top + 1) /\ N[b].rank = N[top].rank
                        /\ N[b].left = top /\ Above(rp, top, b)
    BY <1>4
  <2>2. nds[b].rank = nds[y].rank /\ Above(r, y, b)
    BY <2>1, <1>1, <1>5 DEF b
  <2>3. Above(rp, top, b)
    BY <2>1, <2>2, <1>1, <1>2 DEF Above
  <2> QED BY <2>1, <2>2, <2>3, <1>1, <1>3, <1>4
<1>12. \A a \in Ids(top) : LeftOK(a)
  <2>1. ASSUME NEW a \in Ids(top), a = b PROVE LeftOK(a)
    BY <2>1, <1>1, <1>3, <1>4
  <2>2. ASSUME NEW a \in Ids(top), a # b PROVE LeftOK(a)
    <3>1. N[a].left = nds[a].left
      BY <2>2, <1>3
    <3>2. nds[a].left # NoNode => nds[a].left \in Ids(top) /\ nds[nds[a].left].right = a
      BY <1>5
    <3>3. nds[a].left # NoNode => nds[a].left # y
      BY <3>2, <2>2 DEF b
    <3> QED BY <3>1, <3>2, <3>3, <1>1, <1>3
  <2> QED BY <2>1, <2>2
<1>13. LeftOK(top)
  BY <1>1, <1>4
<1>14. ASSUME NEW a \in Ids(top), a # y, NEW c \in Ids(top) PROVE NextOK(a, c)
  <2>1. SUFFICES ASSUME nds[a].rank = nds[c].rank, Above(rp, a, c)
                 PROVE  /\ nds[a].right # NoNode
                        /\ c = nds[a].right \/ Above(rp, nds[a].right, c)
    BY <1>3, <1>14
  <2>2. a # c
    <3>1. PICK k \in rp[a] : k \in Int
      BY <1>7
    <3>2. ~(k < k)
      BY <3>1
    <3> QED BY <3>1, <3>2, <2>1 DEF Above
  <2>3. Above(r, a, c)
    BY <2>1, <2>2, <1>8
  <2>4. nds[a].right # NoNode /\ (c = nds[a].right \/ Above(r, nds[a].right, c))
    BY <2>1, <2>3, <1>5
  <2>5. nds[a].right \in Ids(top)
    BY <2>4, <1>5
  <2> QED BY <2>4, <2>5, <1>9
<1>15. ASSUME NEW a \in Ids(top), a # y PROVE NextOK(a, top)
  <2>1. SUFFICES ASSUME nds[a].rank = nds[y].rank, Above(rp, a, top)
                 PROVE  /\ nds[a].right # NoNode
                        /\ Above(rp, nds[a].right, top)
    BY <1>3, <1>4, <1>15
  <2>2. Above(r, a, y)
    <3>1. PICK k \in rp[a], l \in rp[top] : k \in r[a] /\ l \in r[y] /\ k \in Int /\ l \in Int
      <4>1. r[y] \subseteq Int
        BY <1>1, KeyAssumption DEF Splittable, Tree, Keyed
      <4> QED BY <4>1, <1>2, <1>7
    <3>2. k < l /\ ~(l < k)
      BY <3>1, <2>1 DEF Above
    <3>3. ~Above(r, y, a)
      BY <3>1, <3>2 DEF Above
    <3> QED BY <3>3, <2>1, <1>15, <1>6, <1>1
  <2>3. nds[a].right # NoNode /\ (y = nds[a].right \/ Above(r, nds[a].right, y))
    BY <2>1, <2>2, <1>5, <1>1
  <2>4. nds[a].right \in Ids(top)
    BY <2>3, <1>5
  <2>5. Above(r, nds[a].right, y) => Above(rp, nds[a].right, top)
    BY <2>4, <1>2, <1>7 DEF Above
  <2> QED BY <2>3, <2>5, <1>2
<1>16. ASSUME NEW c \in Ids(top + 1) PROVE NextOK(y, c)
  <2>1. CASE c = top
    BY <2>1, <1>1, <1>4
  <2>2. CASE c \in Ids(top)
    <3>1. SUFFICES ASSUME nds[y].rank = nds[c].rank, Above(rp, y, c) PROVE Above(rp, top, c)
      BY <2>2, <1>1, <1>3, <1>4
    <3>2. y # c
      <4>1. PICK k \in rp[y] : k \in Int
        BY <1>7, <1>1
      <4>2. ~(k < k)
        BY <4>1
      <4> QED BY <4>1, <4>2, <3>1 DEF Above
    <3>3. Above(r, y, c)
      BY <3>1, <3>2, <2>2, <1>1, <1>8
    <3> QED BY <3>3, <2>2, <1>2, <1>7 DEF Above
  <2> QED BY <2>1, <2>2, <1>1
<1>17. ASSUME NEW c \in Ids(top + 1) PROVE NextOK(top, c)
  <2>1. SUFFICES ASSUME nds[y].rank = N[c].rank, Above(rp, top, c)
                 PROVE  b # NoNode /\ (c = b \/ Above(rp, b, c))
    BY <1>4
  <2>2. PICK k \in rp[y], l \in rp[top] : k \in Int /\ l \in Int /\ k < l /\ l \in r[y]
    <3>1. rp[top] \subseteq Int
      BY <1>2, <1>1, KeyAssumption DEF Splittable, Tree, Keyed
    <3> QED BY <3>1, <1>1, <1>2, <1>7 DEF Above
  <2>3. c # top
    <3>1. ~(l < l)
      BY <2>2
    <3> QED BY <3>1, <2>1 DEF Above
  <2>4. c # y
    <3>1. ~(l < k)
      BY <2>2
    <3> QED BY <3>1, <2>1 DEF Above
  <2>5. c \in Ids(top) /\ nds[c].rank = nds[y].rank
    BY <2>1, <2>3, <1>1, <1>3
  <2>6. Above(r, y, c)
    <3>1. PICK q \in rp[c] : q \in r[c] /\ q \in Int
      BY <2>5, <1>7
    <3>2. l < q /\ ~(q < l)
      BY <3>1, <2>1, <2>2 DEF Above
    <3>3. ~Above(r, c, y)
      BY <3>1, <3>2, <2>2 DEF Above
    <3> QED BY <3>3, <2>4, <2>5, <1>1, <1>6
  <2>7. b # NoNode /\ (c = b \/ Above(r, b, c))
    BY <2>5, <2>6, <1>1, <1>5 DEF b
  <2> QED BY <2>5, <2>7, <1>1, <1>9
<1>18. \A a \in Ids(top + 1) : RightOK(a) /\ LeftOK(a)
  BY <1>1, <1>10, <1>11, <1>12, <1>13
<1>19. \A a, c \in Ids(top + 1) : NextOK(a, c)
  BY <1>1, <1>14, <1>15, <1>16, <1>17
<1> QED BY <1>18, <1>19 DEF Linked

\* split_child makes a tree of a tree.
LEMMA SplitTree ==
    ASSUME NEW nds, NEW top, NEW root, NEW r, NEW x, NEW i, Splittable(nds, top, root, r, x, i)
    PROVE  Tree(SplitChild(nds, x, i, top), top + 1, root, Halved(nds, top, r, nds[x].child[i]))
<1> DEFINE N  == SplitChild(nds, x, i, top)
           rp == Halved(nds, top, r, nds[x].child[i])
<1>1. Typed(N, top + 1)
  BY SplitTyped
<1>2. Rooted(N, top + 1, root, rp)
  BY SplitRooted
<1>3. Keyed(N, top + 1, rp)
  BY SplitKeyed
<1>4. Parents(N, top + 1, rp)
  BY SplitParents
<1>5. Apart(N, top + 1, rp)
  BY SplitApart
<1>6. Linked(N, top + 1, rp)
  BY SplitLinked
<1> QED BY <1>1, <1>2, <1>3, <1>4, <1>5, <1>6 DEF Tree

-----------------------------------------------------------------------------
(***************************************************************************)
(* Other changes of a tree, and what a descent meets                       *)
(***************************************************************************)
\* Node id of the tree holds key k with value v.
Pair(nd, k, v) == nd.leaf /\ \E j \in 0 .. nd.n - 1 : nd.key[j] = k /\ nd.value[j] = v
Stored(nds, top, k, v) == \E id \in Ids(top) : Pair(nds[id], k, v)

\* A split moves pairs and neither loses nor makes one.
LEMMA SplitStored ==
    ASSUME NEW nds, NEW top, NEW root, NEW r, NEW x, NEW i, Splittable(nds, top, root, r, x, i),
           NEW k, NEW v
    PROVE  Stored(SplitChild(nds, x, i, top), top + 1, k, v) <=> Stored(nds, top, k, v)
<1> DEFINE N == SplitChild(nds, x, i, top)
           y == nds[x].child[i]
<1>1. /\ y \in Ids(top) /\ x \in Ids(top) /\ y # x /\ top \notin Ids(top) /\ nds[y].n = 2 * B - 1
      /\ Ids(top + 1) = Ids(top) \cup {top} /\ ~nds[x].leaf
  BY SplitNodes DEF Splittable, Tree, Typed, Ids
<1>2. ~N[x].leaf
  <2>1. Widened(nds, N, x, i, y, top)
    BY SplitAbove
  <2> QED BY <2>1 DEF Widened
<1>3. N[y].leaf = nds[y].leaf /\ N[y].n = B /\ N[y].key = nds[y].key /\ N[y].value = nds[y].value
  BY SplitLower
<1>4. /\ N[top].leaf = nds[y].leaf /\ N[top].n = B - 1
      /\ \A j \in 0 .. B - 2 : N[top].key[j] = nds[y].key[j + B]
      /\ nds[y].leaf => \A j \in 0 .. B - 2 : N[top].value[j] = nds[y].value[j + B]
  BY SplitUpper
<1>5. ASSUME NEW id \in Ids(top), id # x, id # y
      PROVE  Pair(N[id], k, v) <=> Pair(nds[id], k, v)
  <2>1. id \in NodeId /\ id # top
    BY <1>1, NodeFacts DEF Splittable
  <2>2. /\ N[id].leaf = nds[id].leaf /\ N[id].n = nds[id].n
        /\ N[id].key = nds[id].key /\ N[id].value = nds[id].value
    BY <2>1, <1>5, SplitOthers
  <2> QED BY <2>2 DEF Pair
<1> HIDE DEF N, y
<1>6. (Pair(N[y], k, v) \/ Pair(N[top], k, v)) <=> Pair(nds[y], k, v)
  <2>1. ASSUME Pair(N[y], k, v) PROVE Pair(nds[y], k, v)
    <3>1. \A j \in 0 .. B - 1 : j \in 0 .. nds[y].n - 1
      BY <1>1, DegreeAssumption
    <3> QED BY <2>1, <3>1, <1>3 DEF Pair
  <2>2. ASSUME Pair(N[top], k, v) PROVE Pair(nds[y], k, v)
    <3>1. PICK j \in 0 .. N[top].n - 1 : N[top].key[j] = k /\ N[top].value[j] = v
      BY <2>2 DEF Pair
    <3>2. nds[y].leaf
      BY <2>2, <1>4 DEF Pair
    <3>3. j \in 0 .. B - 2 /\ j + B \in 0 .. nds[y].n - 1
      BY <3>1, <1>1, <1>4, DegreeAssumption
    <3>4. nds[y].key[j + B] = k /\ nds[y].value[j + B] = v
      BY <3>1, <3>2, <3>3, <1>4
    <3> QED BY <3>2, <3>3, <3>4 DEF Pair
  <2>3. ASSUME Pair(nds[y], k, v) PROVE Pair(N[y], k, v) \/ Pair(N[top], k, v)
    <3>1. PICK j \in 0 .. nds[y].n - 1 : nds[y].key[j] = k /\ nds[y].value[j] = v
      BY <2>3 DEF Pair
    <3>2. nds[y].leaf
      BY <2>3 DEF Pair
    <3>3. CASE j < B
      <4>1. j \in 0 .. N[y].n - 1
        BY <3>1, <3>3, <1>3, <1>1, DegreeAssumption
      <4> QED BY <4>1, <3>1, <3>2, <1>3 DEF Pair
    <3>4. CASE j >= B
      <4>1. PICK q \in 0 .. B - 2 : q + B = j
        <5>1. j - B \in 0 .. B - 2 /\ (j - B) + B = j
          BY <3>1, <3>4, <1>1, DegreeAssumption
        <5> QED BY <5>1
      <4>2. N[top].key[q] = k /\ N[top].value[q] = v /\ N[top].leaf /\ q \in 0 .. N[top].n - 1
        <5>1. 0 .. N[top].n - 1 = 0 .. B - 2
          BY <1>4, DegreeAssumption
        <5> QED BY <5>1, <4>1, <3>1, <3>2, <1>4
      <4> QED BY <4>2 DEF Pair
    <3> QED BY <3>1, <3>3, <3>4, <1>1, DegreeAssumption
  <2> QED BY <2>1, <2>2, <2>3
<1>7. ~Pair(N[x], k, v) /\ ~Pair(nds[x], k, v)
  BY <1>1, <1>2 DEF Pair
<1>8. Stored(N, top + 1, k, v) => Stored(nds, top, k, v)
  <2>1. SUFFICES ASSUME NEW id \in Ids(top + 1), Pair(N[id], k, v) PROVE Stored(nds, top, k, v)
    BY DEF Stored
  <2>2. \E c \in Ids(top) : Pair(nds[c], k, v)
    BY <2>1, <1>1, <1>5, <1>6, <1>7
  <2> QED BY <2>2 DEF Stored
<1>9. Stored(nds, top, k, v) => Stored(N, top + 1, k, v)
  <2>1. SUFFICES ASSUME NEW id \in Ids(top), Pair(nds[id], k, v) PROVE Stored(N, top + 1, k, v)
    BY DEF Stored
  <2>2. \E c \in Ids(top + 1) : Pair(N[c], k, v)
    BY <2>1, <1>1, <1>5, <1>6, <1>7
  <2> QED BY <2>2 DEF Stored
<1> QED BY <1>8, <1>9 DEF N

\* A change of the keys and values of a leaf, its keys in order and its own.
LEMMA LeafTree ==
    ASSUME NEW nds, NEW top, NEW root, NEW r, Tree(nds, top, root, r),
           NEW id \in Ids(top), nds[id].leaf,
           NEW nd \in Node, nd.leaf,
           nd.rank = nds[id].rank, nd.left = nds[id].left, nd.right = nds[id].right,
           \A j \in 0 .. nd.n - 1 : nd.key[j] \in r[id],
           \A j, l \in 0 .. nd.n - 1 : j < l => nd.key[j] < nd.key[l],
           NEW N, N = [nds EXCEPT ![id] = nd]
    PROVE  Tree(N, top, root, r)
<1>1. /\ nds \in [NodeId -> Node] /\ Ids(top) \subseteq NodeId /\ top \in 1 .. MaxNode + 1
  BY NodeFacts DEF Tree, Typed
<1>2. \A c \in NodeId : c # id => N[c] = nds[c]
  BY <1>1
<1>3. N[id] = nd
  BY <1>1
<1>4. \A c \in NodeId : N[c].rank = nds[c].rank /\ N[c].left = nds[c].left /\ N[c].right = nds[c].right
                        /\ N[c].leaf = nds[c].leaf
  <2>1. nd.leaf = nds[id].leaf
    BY <1>1 DEF Node
  <2> QED BY <1>2, <1>3, <2>1
<1>5. Typed(N, top)
  <2>1. \A c \in NodeId : c >= top => c # id
    BY <1>1 DEF Ids
  <2> QED BY <1>1, <1>2, <2>1 DEF Tree, Typed
<1>6. Rooted(N, top, root, r)
  BY <1>1, <1>4 DEF Tree, Rooted
<1>7. Keyed(N, top, r)
  <2>1. \A c \in Ids(top) : r[c] # {} /\ r[c] \subseteq Key
    BY DEF Tree, Keyed
  <2>2. ASSUME NEW c \in Ids(top), c # id
        PROVE  /\ \A i \in 0 .. N[c].n - 1 : N[c].key[i] \in r[c]
               /\ \A i, j \in 0 .. N[c].n - 1 : i < j => N[c].key[i] < N[c].key[j]
    BY <2>2, <1>1, <1>2 DEF Tree, Keyed
  <2>3. /\ \A i \in 0 .. N[id].n - 1 : N[id].key[i] \in r[id]
        /\ \A i, j \in 0 .. N[id].n - 1 : i < j => N[id].key[i] < N[id].key[j]
    BY <1>3
  <2> QED BY <2>1, <2>2, <2>3 DEF Keyed
<1>8. Parents(N, top, r)
  <2>1. SUFFICES ASSUME NEW c \in Ids(top)
                 PROVE  /\ N[c].leaf <=> N[c].rank = 0
                        /\ N[c].rank <= 0
                        /\ ~N[c].leaf => \A i \in 0 .. N[c].n : ChildOK(N, top, r, c, i)
                        /\ ~N[c].leaf /\ N[c].left = NoNode => N[N[c].child[0]].left = NoNode
    BY DEF Parents, ChildOK
  <2>2. /\ nds[c].leaf <=> nds[c].rank = 0
        /\ nds[c].rank <= 0
        /\ ~nds[c].leaf => \A i \in 0 .. nds[c].n : ChildOK(nds, top, r, c, i)
        /\ ~nds[c].leaf /\ nds[c].left = NoNode => nds[nds[c].child[0]].left = NoNode
    BY DEF Tree, Parents, ChildOK
  <2>3. N[c].rank = nds[c].rank /\ N[c].left = nds[c].left /\ N[c].leaf = nds[c].leaf
    BY <1>1, <1>4
  <2>4. ASSUME ~nds[c].leaf
        PROVE  /\ \A i \in 0 .. N[c].n : ChildOK(N, top, r, c, i)
               /\ N[c].left = NoNode => N[N[c].child[0]].left = NoNode
    <3>1. N[c] = nds[c]
      BY <2>4, <1>1, <1>2
    <3>2. \A i : Slot(N, r, c, i) = Slot(nds, r, c, i)
      BY <3>1 DEF Slot
    <3>3. ASSUME NEW i \in 0 .. N[c].n PROVE ChildOK(N, top, r, c, i)
      <4>1. ChildOK(nds, top, r, c, i)
        BY <2>2, <2>4, <3>1
      <4>2. nds[c].child[i] \in NodeId
        BY <4>1, <1>1 DEF ChildOK
      <4> QED BY <4>1, <4>2, <3>1, <3>2, <1>4, ZenonT(40) DEF ChildOK
    <3>4. nds[c].child[0] \in NodeId
      <4>1. 0 \in 0 .. nds[c].n
        BY NodeFacts
      <4> QED BY <4>1, <2>2, <2>4, <1>1 DEF ChildOK
    <3> QED BY <3>1, <3>3, <3>4, <2>2, <2>4, <1>4
  <2> QED BY <2>2, <2>3, <2>4
<1>9. Apart(N, top, r)
  BY <1>1, <1>4 DEF Tree, Apart
<1>10. Linked(N, top, r)
  <2>1. \A a \in Ids(top) : N[a].rank = nds[a].rank /\ N[a].left = nds[a].left /\ N[a].right = nds[a].right
    BY <1>1, <1>4
  <2> QED BY <2>1 DEF Tree, Linked
<1> QED BY <1>5, <1>6, <1>7, <1>8, <1>9, <1>10 DEF Tree

\* A node above the root, the root its only child: it has no key yet.
Raised(nds, root) == [Fresh EXCEPT !.leaf = FALSE, !.child[0] = root,
                                   !.rank = nds[root].rank - 1]

\* A node not in use yet.
LEMMA FreshNode ==
    /\ Fresh \in Node /\ Fresh.leaf /\ Fresh.n = 0 /\ Fresh.rank = 0
    /\ Fresh.left = NoNode /\ Fresh.right = NoNode
<1> DEFINE ks == [i \in KeyIx |-> NoKey]
           vs == [i \in KeyIx |-> NoValue]
           cs == [i \in ChildIx |-> NoNode]
<1>1. /\ ks \in [KeyIx -> Key \cup {NoKey}] /\ vs \in [KeyIx -> Value \cup {NoValue}]
      /\ cs \in [ChildIx -> NodeId \cup {NoNode}] /\ 0 \in 0 .. 2 * B - 1
  BY DegreeAssumption
<1>2. Fresh = [leaf |-> TRUE, n |-> 0, rank |-> 0, parent |-> NoNode,
               left |-> NoNode, right |-> NoNode, key |-> ks, value |-> vs, child |-> cs]
  BY DEF Fresh
<1> HIDE DEF ks, vs, cs
<1> QED BY <1>1, <1>2 DEF Node

\* It is an inner node of the type with its one child.
LEMMA RaisedNode ==
    ASSUME NEW nds \in [NodeId -> Node], NEW root \in NodeId
    PROVE  /\ Raised(nds, root) \in Node
           /\ ~Raised(nds, root).leaf /\ Raised(nds, root).n = 0
           /\ Raised(nds, root).rank = nds[root].rank - 1
           /\ Raised(nds, root).left = NoNode /\ Raised(nds, root).right = NoNode
           /\ Raised(nds, root).child[0] = root
<1>1. PICK f \in Node : f = Fresh
  BY FreshNode
<1>2. PICK cs : cs = [f.child EXCEPT ![0] = root]
  OBVIOUS
<1>3. PICK d \in Int : d = nds[root].rank - 1
  BY DEF Node
<1>4. Raised(nds, root) = [f EXCEPT !.leaf = FALSE, !.child = cs, !.rank = d]
  BY <1>1, <1>2, <1>3 DEF Raised
<1>5. cs[0] = root /\ cs \in [ChildIx -> NodeId \cup {NoNode}]
  <2>1. 0 \in ChildIx /\ f.child \in [ChildIx -> NodeId \cup {NoNode}]
    BY <1>1, DegreeAssumption DEF ChildIx, Node
  <2> QED BY <2>1, <1>2
<1>6. Raised(nds, root) \in Node
  BY <1>4, <1>5 DEF Node
<1>7. /\ ~Raised(nds, root).leaf /\ Raised(nds, root).n = f.n /\ Raised(nds, root).rank = d
      /\ Raised(nds, root).left = f.left /\ Raised(nds, root).right = f.right
      /\ Raised(nds, root).child = cs
  BY <1>4 DEF Node
<1> QED BY <1>1, <1>3, <1>5, <1>6, <1>7, FreshNode

\* The tree with a root more.
Atop(N, top, root, rp, nds) ==
    /\ Tree(N, top + 1, top, rp)
    /\ rp \in [NodeId -> SUBSET Key]
    /\ ~N[top].leaf /\ N[top].n = 0 /\ N[top].child[0] = root
    /\ Slot(N, rp, top, 0) # {}
    /\ \A id \in Ids(top) : N[id] = nds[id]

\* Nothing is left of the root: its level has no other node.
LEMMA RootLeft ==
    ASSUME NEW nds, NEW top, NEW root, NEW r, Tree(nds, top, root, r), root \in Ids(top)
    PROVE  nds[root].left = NoNode
<1>1. SUFFICES ASSUME nds[root].left # NoNode PROVE FALSE
  OBVIOUS
<1>2. PICK a \in Ids(top) : nds[a].right = root
  BY <1>1 DEF Tree, Linked
<1>3. Above(r, a, root) /\ r[root] = Key
  <2>1. root # NoNode
    BY NodeFacts
  <2> QED BY <1>2, <2>1 DEF Tree, Linked, Rooted
<1>4. PICK k \in r[a] : k \in Key /\ k \in Int
  BY KeyAssumption DEF Tree, Keyed
<1>5. ~(k < k)
  BY <1>4
<1> QED BY <1>3, <1>4, <1>5 DEF Above

\* With the raised node the tree has a root more, which every key leads through.
LEMMA RaisedTree ==
    ASSUME NEW nds, NEW top, NEW root, NEW r \in [NodeId -> SUBSET Key], Tree(nds, top, root, r),
           top <= MaxNode, root \in Ids(top),
           NEW N, N = [nds EXCEPT ![top] = Raised(nds, root)],
           NEW rp, rp = [r EXCEPT ![top] = Key]
    PROVE  Atop(N, top, root, rp, nds)
<1>1. /\ nds \in [NodeId -> Node] /\ Ids(top) \subseteq NodeId /\ top \in 1 .. MaxNode
      /\ top \in NodeId /\ top \notin Ids(top) /\ Ids(top + 1) = Ids(top) \cup {top} /\ top # NoNode
      /\ NoNode \notin Ids(top)
  <2>1. nds \in [NodeId -> Node] /\ top \in 1 .. MaxNode
    BY NodeAssumption DEF Tree, Typed
  <2> QED BY <2>1, NodeAssumption DEF Ids, NodeId, NoNode
<1>2. /\ nds[root].rank \in Int /\ nds[root].rank <= 0 /\ r[root] = Key /\ Key # {}
      /\ \A id \in Ids(top) : nds[root].rank <= nds[id].rank
  <2>1. nds[root].rank \in Int
    BY <1>1 DEF Node
  <2> QED BY <2>1 DEF Tree, Parents, Rooted, Keyed
<1>4. /\ ~N[top].leaf /\ N[top].n = 0 /\ N[top].rank = nds[root].rank - 1
      /\ N[top].left = NoNode /\ N[top].right = NoNode /\ N[top].child[0] = root
      /\ N[top] \in Node
  <2>1. N[top] = Raised(nds, root)
    BY <1>1
  <2> QED BY <2>1, <1>1, RaisedNode
<1>5. \A id \in NodeId : id # top => N[id] = nds[id]
  BY <1>1
<1>6. /\ rp \in [NodeId -> SUBSET Key] /\ rp[top] = Key
      /\ \A id \in Ids(top) : rp[id] = r[id]
  BY <1>1
<1>7. Typed(N, top + 1)
  <2>1. N \in [NodeId -> Node]
    BY <1>1, <1>4
  <2>2. \A id \in NodeId : id >= top + 1 => id # top /\ id >= top
    BY <1>1 DEF NodeId
  <2> QED BY <2>1, <2>2, <1>1, <1>5, NodeAssumption DEF Tree, Typed
<1>8. \A id \in Ids(top) : N[id] = nds[id]
  BY <1>1, <1>5
<1>9. Rooted(N, top + 1, top, rp)
  <2>1. \A id \in Ids(top) : nds[id].rank \in Int /\ nds[root].rank <= nds[id].rank
    BY <1>1, <1>2 DEF Node
  <2>2. \A id \in Ids(top) : N[top].rank <= N[id].rank
    BY <2>1, <1>2, <1>4, <1>8
  <2>3. N[top].rank <= N[top].rank
    BY <1>2, <1>4
  <2> QED BY <2>2, <2>3, <1>1, <1>6 DEF Rooted
<1>10. Keyed(N, top + 1, rp)
  <2>1. \A id \in Ids(top) :
           /\ rp[id] # {} /\ rp[id] \subseteq Key
           /\ \A i \in 0 .. N[id].n - 1 : N[id].key[i] \in rp[id]
           /\ \A i, j \in 0 .. N[id].n - 1 : i < j => N[id].key[i] < N[id].key[j]
    BY <1>6, <1>8 DEF Tree, Keyed
  <2> QED BY <2>1, <1>1, <1>2, <1>4, <1>6 DEF Keyed
<1>11. Slot(N, rp, top, 0) = Key
  BY <1>4, <1>6 DEF Slot
<1>12. nds[root].left = NoNode
  BY RootLeft
<1>13. Parents(N, top + 1, rp)
  <2>1. \A id \in Ids(top) :
          /\ nds[id].leaf <=> nds[id].rank = 0
          /\ nds[id].rank <= 0
          /\ ~nds[id].leaf => \A i \in 0 .. nds[id].n : ChildOK(nds, top, r, id, i)
          /\ ~nds[id].leaf /\ nds[id].left = NoNode => nds[nds[id].child[0]].left = NoNode
    BY DEF Tree, Parents, ChildOK
  <2>2. ASSUME NEW id \in Ids(top)
        PROVE  /\ N[id].leaf <=> N[id].rank = 0
               /\ N[id].rank <= 0
               /\ ~N[id].leaf => \A i \in 0 .. N[id].n : ChildOK(N, top + 1, rp, id, i)
               /\ ~N[id].leaf /\ N[id].left = NoNode => N[N[id].child[0]].left = NoNode
    <3>1. N[id] = nds[id] /\ \A i : Slot(N, rp, id, i) = Slot(nds, r, id, i)
      BY <1>6, <1>8 DEF Slot
    <3>2. ASSUME ~nds[id].leaf, NEW i \in 0 .. nds[id].n PROVE ChildOK(N, top + 1, rp, id, i)
      <4>1. ChildOK(nds, top, r, id, i)
        BY <2>1, <3>2
      <4> QED BY <4>1, <3>1, <1>1, <1>6, <1>8 DEF ChildOK
    <3>3. ~nds[id].leaf => nds[id].child[0] \in Ids(top)
      <4>1. 0 \in 0 .. nds[id].n
        BY NodeFacts
      <4> QED BY <4>1, <2>1 DEF ChildOK
    <3> QED BY <2>1, <3>1, <3>2, <3>3, <1>8, ZenonT(40)
  <2>3. ChildOK(N, top + 1, rp, top, 0)
    <3>1. N[root].rank = nds[root].rank /\ rp[root] = Key
      BY <1>2, <1>6, <1>8
    <3> QED BY <3>1, <1>1, <1>2, <1>4, <1>11 DEF ChildOK
  <2>4. /\ N[top].rank <= 0 /\ N[top].rank # 0
        /\ \A i \in 0 .. N[top].n : i = 0
        /\ N[N[top].child[0]].left = NoNode
    BY <1>2, <1>4, <1>8, <1>12
  <2>5. \A id \in Ids(top + 1) :
          /\ N[id].leaf <=> N[id].rank = 0
          /\ N[id].rank <= 0
          /\ ~N[id].leaf => \A i \in 0 .. N[id].n : ChildOK(N, top + 1, rp, id, i)
          /\ ~N[id].leaf /\ N[id].left = NoNode => N[N[id].child[0]].left = NoNode
    BY <2>2, <2>3, <2>4, <1>1, <1>4
  <2> QED BY <2>5 DEF Parents, ChildOK
<1>14. \A id \in Ids(top) : N[id].rank # N[top].rank
  <2>1. \A id \in Ids(top) : nds[id].rank \in Int /\ nds[root].rank <= nds[id].rank
    BY <1>1, <1>2 DEF Node
  <2> QED BY <2>1, <1>2, <1>4, <1>8
<1>15. \A a, c \in Ids(top) : Above(rp, a, c) <=> Above(r, a, c)
  BY <1>6 DEF Above
<1>16. Apart(N, top + 1, rp)
  BY <1>1, <1>8, <1>14, <1>15 DEF Tree, Apart
<1>17. Linked(N, top + 1, rp)
  <2>1. ASSUME NEW a \in Ids(top)
        PROVE  /\ N[a].right # NoNode => /\ N[a].right \in Ids(top)
                                         /\ N[N[a].right].rank = N[a].rank
                                         /\ N[N[a].right].left = a
                                         /\ Above(rp, a, N[a].right)
               /\ N[a].left # NoNode => /\ N[a].left \in Ids(top)
                                        /\ N[N[a].left].right = a
               /\ \A c \in Ids(top) :
                     N[a].rank = N[c].rank /\ Above(rp, a, c) =>
                        /\ N[a].right # NoNode
                        /\ c = N[a].right \/ Above(rp, N[a].right, c)
    <3>1. /\ nds[a].right # NoNode => /\ nds[a].right \in Ids(top)
                                      /\ nds[nds[a].right].rank = nds[a].rank
                                      /\ nds[nds[a].right].left = a
                                      /\ Above(r, a, nds[a].right)
          /\ nds[a].left # NoNode => /\ nds[a].left \in Ids(top)
                                     /\ nds[nds[a].left].right = a
          /\ \A c \in Ids(top) :
                nds[a].rank = nds[c].rank /\ Above(r, a, c) =>
                   /\ nds[a].right # NoNode
                   /\ c = nds[a].right \/ Above(r, nds[a].right, c)
      BY DEF Tree, Linked
    <3>2. N[a] = nds[a] /\ \A c \in Ids(top) : N[c] = nds[c]
      BY <1>8
    <3> QED BY <3>1, <3>2, <1>15
  <2>2. \A c \in Ids(top + 1) : ~Above(rp, top, c) \/ N[c].rank # N[top].rank
    <3>1. PICK k \in Key : k \in Int
      BY <1>2, KeyAssumption
    <3>2. ~(k < k)
      BY <3>1
    <3>3. ~Above(rp, top, top)
      BY <3>1, <3>2, <1>6 DEF Above
    <3> QED BY <3>3, <1>1, <1>14
  <2>3. \A a \in Ids(top) : N[a].rank # N[top].rank
    BY <1>14
  <2>4. ASSUME NEW a \in Ids(top + 1)
        PROVE  /\ N[a].right # NoNode => /\ N[a].right \in Ids(top + 1)
                                         /\ N[N[a].right].rank = N[a].rank
                                         /\ N[N[a].right].left = a
                                         /\ Above(rp, a, N[a].right)
               /\ N[a].left # NoNode => /\ N[a].left \in Ids(top + 1)
                                        /\ N[N[a].left].right = a
    BY <2>1, <1>1, <1>4
  <2>5. ASSUME NEW a \in Ids(top + 1), NEW c \in Ids(top + 1),
               N[a].rank = N[c].rank, Above(rp, a, c)
        PROVE  /\ N[a].right # NoNode
               /\ c = N[a].right \/ Above(rp, N[a].right, c)
    <3>1. a \in Ids(top) /\ c \in Ids(top)
      BY <2>5, <2>2, <2>3, <1>1
    <3> QED BY <3>1, <2>1, <2>5
  <2> QED BY <2>4, <2>5 DEF Linked
<1> QED BY <1>2, <1>4, <1>6, <1>7, <1>8, <1>9, <1>10, <1>11, <1>13, <1>16, <1>17 DEF Tree, Atop

\* The tree of a single empty leaf.
LEMMA FirstTree ==
    ASSUME NEW nds \in [NodeId -> Node], \A id \in NodeId : nds[id] = Fresh,
           1 <= MaxNode, Key # {},
           NEW r, r = [id \in NodeId |-> Key]
    PROVE  Tree(nds, 2, 1, r)
<1>1. Ids(2) = {1} /\ 1 \in NodeId /\ 2 \in 1 .. MaxNode + 1
  BY NodeAssumption DEF Ids, NodeId
<1>2. nds[1] = Fresh /\ r[1] = Key
  BY <1>1
<1>3. /\ nds[1].leaf /\ nds[1].n = 0 /\ nds[1].rank = 0
      /\ nds[1].left = NoNode /\ nds[1].right = NoNode
  BY <1>2, FreshNode
<1>4. Typed(nds, 2) /\ Rooted(nds, 2, 1, r)
  BY <1>1, <1>2, <1>3 DEF Typed, Rooted
<1>5. Keyed(nds, 2, r) /\ Parents(nds, 2, r)
  BY <1>1, <1>2, <1>3 DEF Keyed, Parents
<1>6. Apart(nds, 2, r)
  BY <1>1 DEF Apart
<1>7. Linked(nds, 2, r)
  <2>1. PICK k \in Key : k \in Int
    BY KeyAssumption
  <2>2. ~(k < k)
    BY <2>1
  <2>3. ~Above(r, 1, 1)
    BY <2>1, <2>2, <1>2 DEF Above
  <2> QED BY <2>3, <1>1, <1>3 DEF Linked
<1> QED BY <1>4, <1>5, <1>6, <1>7 DEF Tree

\* A descent follows the child whose keys its key is among.
LEMMA Follow ==
    ASSUME NEW nds, NEW top, NEW root, NEW r, Tree(nds, top, root, r),
           NEW id \in Ids(top), ~nds[id].leaf, NEW k \in r[id],
           NEW p, p = Pos(nds[id], k)
    PROVE  /\ p \in 0 .. nds[id].n
           /\ k \in Slot(nds, r, id, p)
           /\ nds[id].child[p] \in Ids(top)
           /\ k \in r[nds[id].child[p]]
           /\ nds[nds[id].child[p]].rank = nds[id].rank + 1
<1>1. Sorted(nds[id]) /\ k \in Int
  BY NodeFacts, KeyAssumption DEF Tree, Keyed
<1>2. p = Boundary(nds[id], k)
  BY DEF Pos
<1>3. /\ p \in 0 .. nds[id].n
      /\ p > 0 => nds[id].key[p - 1] <= k
      /\ p < nds[id].n => nds[id].key[p] > k
  BY <1>1, <1>2, BoundaryIs
<1>4. k \in Slot(nds, r, id, p)
  <2>1. p < nds[id].n => k < nds[id].key[p]
    BY <1>1, <1>3 DEF Sorted
  <2> QED BY <2>1, <1>3 DEF Slot
<1> QED BY <1>3, <1>4 DEF Tree, Parents

\* A key that the tree holds is in the leaf that its descent ends at.
LEMMA InItsLeaf ==
    ASSUME NEW nds, NEW top, NEW root, NEW r, Tree(nds, top, root, r),
           NEW id \in Ids(top), nds[id].leaf, NEW k \in r[id],
           NEW c \in Ids(top), NEW v, Pair(nds[c], k, v)
    PROVE  c = id /\ Finds(nds[id], k)
<1>1. nds[c].leaf /\ nds[c].rank = 0 /\ nds[id].rank = 0
  BY DEF Tree, Parents, Pair
<1>2. k \in r[c]
  BY DEF Tree, Keyed, Pair
<1>3. c = id
  BY <1>1, <1>2, SameNode
<1>4. Sorted(nds[id]) /\ k \in Int
  BY NodeFacts, KeyAssumption DEF Tree, Keyed
<1>5. \E j \in 0 .. nds[id].n - 1 : nds[id].key[j] = k
  BY <1>3 DEF Pair
<1> QED BY <1>3, <1>4, <1>5, FindsIs

\* Contains says that some pair of the tree has the key.
LEMMA ContainsStored == \A k : Contains(k) <=> \E v : Stored(nodes, next_id, k, v)
  BY DEF Contains, Holds, Stored, Pair, Ids

-----------------------------------------------------------------------------
(***************************************************************************)
(* The invariant                                                           *)
(***************************************************************************)
\* What the invariant says of the tree, for one choice of the sets.
Holding(r) == /\ r \in [NodeId -> SUBSET Key]
              /\ Tree(nodes, next_id, root_id, r)
              /\ Reached(r)

\* A tree has a root as soon as it has a node.
LEMMA RootThere ==
    ASSUME IInv, NEW r, Holding(r)
    PROVE  /\ next_id \in 1 .. MaxNode + 1
           /\ root_id # NoNode => root_id \in Ids(next_id) /\ r[root_id] = Key
           /\ op.node # NoNode => op.node \in Ids(next_id)
           /\ root_id = NoNode => next_id = 1
<1>1. next_id \in 1 .. MaxNode + 1
  BY DEF Holding, Tree, Typed
<1>2. ASSUME root_id # NoNode PROVE root_id \in Ids(next_id) /\ r[root_id] = Key
  <2>1. 1 \in Ids(next_id)
    BY <1>1, <1>2 DEF IInv, Ids
  <2> QED BY <2>1 DEF Holding, Tree, Rooted
<1>3. op.node # NoNode => op.node \in Ids(next_id)
  BY DEF IInv, Requested, Ids, Allocated
<1> QED BY <1>1, <1>2, <1>3 DEF IInv

\* At the beginning there is no node.
LEMMA InitInv == Init => IInv
<1> SUFFICES ASSUME Init PROVE IInv
  OBVIOUS
<1>1. next_id = 1 /\ Ids(next_id) = {} /\ op.node = NoNode /\ op.kind = "idle"
  BY DEF Init, Ids, Idle
<1>2. result \in Result
  BY DEF Init, Answer, Result, Kinds
<1>3. Sized(nodes, next_id, root_id) /\ Room
  BY <1>1 DEF Sized, Room
<1>4. Requested
  BY <1>1 DEF Init, Requested, Op, Idle, Kinds, NoNode
<1>5. Typed(nodes, next_id)
  BY <1>1, FreshNode, NodeAssumption DEF Init, Typed
<1> DEFINE r == [id \in NodeId |-> {}]
<1>6. Tree(nodes, next_id, root_id, r)
  BY <1>1, <1>5 DEF Tree, Rooted, Keyed, Parents, Apart, Linked
<1>7. r \in [NodeId -> SUBSET Key] /\ Reached(r)
  BY <1>1 DEF Reached
<1>8. \E q \in [NodeId -> SUBSET Key] : Tree(nodes, next_id, root_id, q) /\ Reached(q)
  <2> HIDE DEF r
  <2> QED BY <1>6, <1>7
<1> QED BY <1>1, <1>2, <1>3, <1>4, <1>8 DEF IInv, Init

\* A step that leaves the tree alone.
LEMMA SameTree ==
    ASSUME IInv, UNCHANGED <<nodes, next_id, root_id>>,
           result' \in Result, Requested', Room', NEW r, Holding(r), Reached(r)'
    PROVE  IInv'
<1>1. Tree(nodes, next_id, root_id, r)' /\ r \in [NodeId -> SUBSET Key]
  BY DEF Holding
<1>2. Sized(nodes, next_id, root_id)'
  BY DEF IInv
<1>3. (root_id = NoNode <=> next_id = 1)'
  BY DEF IInv
<1> QED BY <1>1, <1>2, <1>3 DEF IInv

\* Contains depends on the tree only.
LEMMA SameContains ==
    ASSUME UNCHANGED <<nodes, next_id>>
    PROVE  \A k : Contains(k)' <=> Contains(k)
  BY DEF Contains, Holds

\* Begin takes a request: a key, a value to store, and to insert a key that is
\* not in the tree.
LEMMA BeginInv ==
    ASSUME IInv, NEW k \in Key, NEW v, NEW kind \in Kinds \ {"idle"}, Begin(kind, k, v),
           v \in Value \cup {NoValue}, kind \in {"insert", "update"} => v \in Value
    PROVE  IInv'
<1>1. PICK r : Holding(r)
  BY DEF IInv, Holding
<1>2. /\ op' = [kind |-> kind, key |-> k, value |-> v, node |-> NoNode]
      /\ UNCHANGED <<nodes, next_id, root_id, result>>
      /\ kind = "insert" => ~Contains(k)
  BY DEF Begin
<1>3. op'.kind = kind /\ op'.key = k /\ op'.value = v /\ op'.node = NoNode
  BY <1>2
<1>4. Requested'
  <2>1. op' \in Op
    BY <1>2 DEF Op, NoNode
  <2> QED BY <2>1, <1>2, <1>3, SameContains DEF Requested
<1>5. Room' /\ Reached(r)'
  BY <1>3 DEF Room, Reached
<1>6. result' \in Result
  BY <1>2 DEF IInv
<1> QED BY <1>1, <1>2, <1>4, <1>5, <1>6, SameTree

\* The steps that only move an operation to another node keep its request.
LEMMA MovedRequest ==
    ASSUME Requested, UNCHANGED <<nodes, next_id>>, NEW id, id \in Ids(next_id), id \in NodeId,
           op.kind # "idle", op' = [op EXCEPT !.node = id]
    PROVE  /\ Requested'
           /\ op'.node = id /\ op'.key = op.key /\ op'.kind = op.kind
<1>1. op \in Op
  BY DEF Requested
<1>2. /\ op' \in Op /\ op'.node = id /\ op'.key = op.key /\ op'.kind = op.kind
      /\ op'.value = op.value
  BY <1>1 DEF Op
<1>3. id \in Allocated'
  BY DEF Allocated, Ids
<1> QED BY <1>1, <1>2, <1>3, SameContains DEF Requested

\* An operation starts at the root, which leads every key on.
LEMMA EnterRootInv == IInv /\ EnterRoot => IInv'
<1> SUFFICES ASSUME IInv, EnterRoot PROVE IInv'
  OBVIOUS
<1>1. PICK r : Holding(r)
  BY DEF IInv, Holding
<1>2. root_id \in Ids(next_id) /\ r[root_id] = Key
  BY <1>1, RootThere DEF EnterRoot
<1>3. root_id \in NodeId /\ root_id # NoNode
  BY <1>1, <1>2, NodeFacts DEF Holding
<1>4. Requested' /\ op'.node = root_id /\ op'.key = op.key /\ op'.kind = op.kind
  BY <1>2, <1>3, MovedRequest DEF EnterRoot, IInv
<1>5. op.key \in Key
  BY DEF EnterRoot, IInv, Requested
<1>6. Reached(r)'
  BY <1>2, <1>4, <1>5 DEF Reached
<1>7. Room'
  <2>1. op.kind = "insert" => ~Full(nodes[root_id])
    BY DEF EnterRoot
  <2>2. Here' = nodes[root_id]
    BY <1>4 DEF Here, EnterRoot
  <2>3. Full(Here)' <=> Full(nodes[root_id])
    BY <2>2 DEF Full
  <2> QED BY <2>1, <2>2, <2>3, <1>4 DEF Room
<1>8. result' \in Result /\ UNCHANGED <<nodes, next_id, root_id>>
  BY DEF EnterRoot, IInv
<1> QED BY <1>1, <1>4, <1>6, <1>7, <1>8, SameTree

\* It goes down to the child its key leads to, an insertion into no full one.
LEMMA DescendInv == IInv /\ Descend => IInv'
<1> SUFFICES ASSUME IInv, Descend PROVE IInv'
  OBVIOUS
<1>1. PICK r : Holding(r)
  BY DEF IInv, Holding
<1>2. op.node \in Ids(next_id) /\ ~nodes[op.node].leaf /\ op.key \in r[op.node] /\ op.kind # "idle"
  BY <1>1, RootThere DEF Descend, AtInner, Here, Holding, Reached, IInv, Requested
<1>3. Child \in Ids(next_id) /\ op.key \in r[Child]
  BY <1>1, <1>2, Follow DEF Child, Here, Holding
<1>4. Child \in NodeId /\ Child # NoNode
  BY <1>1, <1>3, NodeFacts DEF Holding
<1>5. PICK c : c = Child
  OBVIOUS
<1>6. op' = [op EXCEPT !.node = c] /\ UNCHANGED <<nodes, next_id, root_id, result>>
  BY <1>5 DEF Descend
<1>7. Requested' /\ op'.node = c /\ op'.key = op.key /\ op'.kind = op.kind
  BY <1>2, <1>3, <1>4, <1>5, <1>6, MovedRequest DEF IInv
<1>8. Reached(r)'
  BY <1>3, <1>5, <1>7 DEF Reached
<1>9. Room'
  <2>1. op.kind = "insert" => ~Full(nodes[c])
    BY <1>5 DEF Descend
  <2>2. Here' = nodes[c]
    BY <1>6, <1>7 DEF Here
  <2>3. Full(Here)' <=> Full(nodes[c])
    BY <2>2 DEF Full
  <2> QED BY <2>1, <2>2, <2>3, <1>7 DEF Room
<1>10. result' \in Result /\ UNCHANGED <<nodes, next_id, root_id>>
  BY <1>6 DEF IInv
<1> QED BY <1>1, <1>7, <1>8, <1>9, <1>10, SameTree

\* The first operation on an empty tree makes its leaf.
LEMMA EnterEmptyInv == IInv /\ EnterEmpty => IInv'
<1> SUFFICES ASSUME IInv, EnterEmpty PROVE IInv'
  OBVIOUS
<1>1. PICK r0 : Holding(r0)
  BY DEF IInv, Holding
<1>2. next_id = 1 /\ 1 <= MaxNode /\ 1 \in NodeId /\ op.key \in Key
  BY NodeAssumption DEF EnterEmpty, IInv, IdsLeft, Requested, NodeId
<1>3. nodes \in [NodeId -> Node] /\ \A id \in NodeId : nodes[id] = Fresh
  BY <1>1, <1>2, NodeAssumption DEF Holding, Tree, Typed, NodeId
<1>4. nodes' = nodes /\ next_id' = 2 /\ root_id' = 1
  BY <1>2, <1>3 DEF EnterEmpty
<1>5. PICK r : r = [id \in NodeId |-> Key]
  OBVIOUS
<1>6. Tree(nodes, next_id, root_id, r)' /\ r \in [NodeId -> SUBSET Key] /\ r[1] = Key
  BY <1>2, <1>3, <1>4, <1>5, FirstTree
<1>7. op' = [op EXCEPT !.node = 1] /\ op \in Op /\ op.kind # "idle" /\ op.key \in Key
  BY <1>2 DEF EnterEmpty, IInv, Requested
<1>8. op' \in Op /\ op'.node = 1 /\ op'.key = op.key /\ op'.kind = op.kind /\ op'.value = op.value
  BY <1>2, <1>7 DEF Op
<1>9. Ids(next_id)' = {1} /\ 1 \in Allocated'
  BY <1>4 DEF Ids, Allocated
<1>10. \A k : ~Contains(k)'
  BY <1>3, <1>2, <1>4, FreshNode DEF Contains, Holds
<1>11. Requested'
  BY <1>7, <1>8, <1>9, <1>10 DEF Requested, IInv
<1>12. Here' = Fresh
  BY <1>2, <1>3, <1>4, <1>8 DEF Here
<1>13. Room'
  <2>1. ~Full(Here)'
    BY <1>12, FreshNode, DegreeAssumption DEF Full
  <2> QED BY <2>1, <1>12, FreshNode DEF Room
<1>14. Reached(r)'
  BY <1>2, <1>6, <1>8 DEF Reached
<1>15. Sized(nodes, next_id, root_id)'
  BY <1>2, <1>3, <1>4, <1>9, FreshNode DEF Sized
<1>16. result' \in Result
  BY DEF EnterEmpty, IInv
<1> QED BY <1>4, <1>6, <1>11, <1>13, <1>14, <1>15, <1>16 DEF IInv, NoNode

\* A node split leaves B keys and B - 1, and its parent one more.
LEMMA SplitSized ==
    ASSUME NEW nds, NEW top, NEW root, NEW r, NEW x, NEW i, Splittable(nds, top, root, r, x, i),
           \A id \in Ids(top) : ~nds[id].leaf /\ id # x /\ id # nds[x].child[i] /\ id # root =>
                                   nds[id].n >= B - 1,
           root \in {x, nds[x].child[i]} \/ nds[root].leaf \/ nds[root].n >= 1,
           x # root => nds[x].n >= B - 1
    PROVE  Sized(SplitChild(nds, x, i, top), top + 1, root)
<1> DEFINE N == SplitChild(nds, x, i, top)
           y == nds[x].child[i]
<1>1. /\ y \in Ids(top) /\ x \in Ids(top) /\ y # x /\ top \notin Ids(top)
      /\ Ids(top + 1) = Ids(top) \cup {top}
  BY SplitNodes DEF Splittable, Tree, Typed, Ids
<1>2. N[x].n = nds[x].n + 1
  <2>1. Widened(nds, N, x, i, y, top)
    BY SplitAbove
  <2> QED BY <2>1 DEF Widened
<1>3. N[y].n = B /\ N[top].n = B - 1
  BY SplitLower, SplitUpper
<1>4. ASSUME NEW id \in Ids(top), id # x, id # y
      PROVE  N[id].leaf = nds[id].leaf /\ N[id].n = nds[id].n
  <2>1. id \in NodeId /\ id # top
    BY <1>1, NodeFacts DEF Splittable
  <2> QED BY <2>1, <1>4, SplitOthers
<1>5. \A id \in Ids(top) : nds[id].n \in Nat
  BY NodeFacts DEF Splittable, Sorted
<1> HIDE DEF N
<1>6. ASSUME NEW id \in Ids(top + 1), ~N[id].leaf
      PROVE  N[id].n >= (IF id = root THEN 1 ELSE B - 1)
  <2>1. CASE id = x
    BY <2>1, <1>1, <1>2, <1>5, DegreeAssumption
  <2>2. CASE id = y \/ id = top
    <3>1. root # top
      BY <1>1 DEF Splittable, Tree, Rooted
    <3> QED BY <2>2, <3>1, <1>3, DegreeAssumption
  <2>3. CASE id \in Ids(top) /\ id # x /\ id # y
    BY <2>3, <1>4, <1>6
  <2> QED BY <2>1, <2>2, <2>3, <1>1
<1> QED BY <1>6 DEF Sized, N

\* Contains after a split.
LEMMA SplitContains ==
    ASSUME NEW nds, NEW top, NEW root, NEW r, NEW x, NEW i, Splittable(nds, top, root, r, x, i),
           nodes' = SplitChild(nds, x, i, top), next_id' = top + 1, NEW k
    PROVE  Contains(k)' <=> \E v : Stored(nds, top, k, v)
<1>1. Contains(k)' <=> \E v : Stored(nodes', next_id', k, v)
  BY DEF Contains, Holds, Stored, Pair, Ids
<1>2. \A v : Stored(nodes', next_id', k, v) <=> Stored(nds, top, k, v)
  BY SplitStored
<1> QED BY <1>1, <1>2

\* The request of an insertion, once a split has left the tree with its pairs.
LEMMA SplitRequested ==
    ASSUME Requested, NEW id \in NodeId, id \in Allocated', op' = [op EXCEPT !.node = id],
           op.kind = "insert", \A k : Contains(k)' => Contains(k)
    PROVE  /\ Requested'
           /\ op'.node = id /\ op'.key = op.key /\ op'.kind = op.kind
<1>1. op \in Op /\ op.key \in Key /\ op.value \in Value /\ ~Contains(op.key)
  BY DEF Requested
<1>2. /\ op' \in Op /\ op'.node = id /\ op'.key = op.key /\ op'.kind = op.kind
      /\ op'.value = op.value
  BY <1>1 DEF Op
<1>3. ~Contains(op.key)'
  BY <1>1, <1>2
<1> QED BY <1>1, <1>2, <1>3 DEF Requested

\* BTree::insert on a full root: split_child(0) of the node raised above it.
LEMMA GrowRootSplits ==
    ASSUME IInv, GrowRoot, NEW r0, Holding(r0),
           NEW x, NEW top, NEW root, NEW nds, NEW r,
           x = next_id, top = next_id + 1, root = root_id,
           nds = [nodes EXCEPT ![x] = Raised(nodes, root)],
           r = [r0 EXCEPT ![x] = Key]
    PROVE  /\ Atop(nds, x, root, r, nodes)
           /\ Splittable(nds, top, x, r, x, 0)
           /\ nodes' = SplitChild(nds, x, 0, top) /\ next_id' = top + 1 /\ root_id' = x
           /\ x \in 1 .. MaxNode + 1 /\ root \in Ids(x) /\ x + 1 = top /\ top <= MaxNode
<1>1. /\ next_id \in 1 .. MaxNode + 1 /\ root_id \in Ids(next_id) /\ next_id + 1 <= MaxNode
      /\ next_id <= MaxNode
  BY RootThere, NodeAssumption DEF GrowRoot, IdsLeft
<1>2. Atop(nds, x, root, r, nodes)
  BY <1>1, RaisedTree DEF Holding
<1>3. Splittable(nds, top, x, r, x, 0)
  <2>1. x \in Ids(top) /\ top <= MaxNode /\ 0 \in 0 .. nds[x].n
    BY <1>1, <1>2 DEF Ids, Atop
  <2>2. Full(nds[nds[x].child[0]])
    BY <1>1, <1>2 DEF GrowRoot, Atop
  <2>3. ~Full(nds[x])
    BY <1>2, DegreeAssumption DEF Full, Atop
  <2> QED BY <2>1, <2>2, <2>3, <1>2 DEF Splittable, Atop
<1>4. nodes' = SplitChild(nds, x, 0, top) /\ next_id' = top + 1 /\ root_id' = x
  BY <1>1 DEF GrowRoot, Raised
<1> QED BY <1>1, <1>2, <1>3, <1>4

\* The new root has one key and the two halves of the old one.
LEMMA GrowRootInv == IInv /\ GrowRoot => IInv'
<1> SUFFICES ASSUME IInv, GrowRoot PROVE IInv'
  OBVIOUS
<1>1. PICK r0 : Holding(r0)
  BY DEF IInv, Holding
<1>2. PICK x, top, root, nds, r :
         /\ x = next_id /\ top = next_id + 1 /\ root = root_id
         /\ nds = [nodes EXCEPT ![x] = Raised(nodes, root)]
         /\ r = [r0 EXCEPT ![x] = Key]
  OBVIOUS
<1>3. x \in 1 .. MaxNode + 1 /\ root \in Ids(x) /\ x + 1 = top /\ top <= MaxNode
  BY <1>1, <1>2, GrowRootSplits
<1>4. /\ Tree(nds, top, x, r) /\ r \in [NodeId -> SUBSET Key]
      /\ ~nds[x].leaf /\ nds[x].n = 0 /\ nds[x].child[0] = root
      /\ Slot(nds, r, x, 0) # {}
      /\ \A id \in Ids(x) : nds[id] = nodes[id]
  <2>1. Atop(nds, x, root, r, nodes)
    BY <1>1, <1>2, GrowRootSplits
  <2> QED BY <2>1, <1>3 DEF Atop
<1>5. Splittable(nds, top, x, r, x, 0)
  BY <1>1, <1>2, GrowRootSplits
<1>6. nodes' = SplitChild(nds, x, 0, top) /\ next_id' = top + 1 /\ root_id' = x
  BY <1>1, <1>2, GrowRootSplits
<1>7. PICK rp : rp = Halved(nds, top, r, root)
  OBVIOUS
<1>8. Tree(nodes', next_id', root_id', rp)
  BY <1>4, <1>5, <1>6, <1>7, SplitTree
<1>9. /\ rp \in [NodeId -> SUBSET Key]
      /\ \A id \in Ids(top) : id # root => rp[id] = r[id]
  BY <1>4, <1>5, <1>7, SplitRanges
<1>10. x \in Ids(top) /\ x # root /\ x \in NodeId /\ x \in Allocated' /\ x # NoNode
  BY <1>3, <1>6, NodeAssumption DEF Ids, NodeId, Allocated, NoNode
<1>11. rp[x] = Key
  <2>1. r[x] = Key
    BY <1>2, <1>10, <1>1 DEF Holding
  <2> QED BY <2>1, <1>9, <1>10
<1>12. \A id \in Ids(top) : id = x \/ id \in Ids(x)
  BY <1>3, <1>2 DEF Ids
<1>13. op.kind = "insert" /\ op' = [op EXCEPT !.node = x] /\ op.key \in Key
  BY <1>2 DEF GrowRoot, IInv, Requested
<1>14. \A k : Contains(k)' => Contains(k)
  <2>1. \A k, v : Stored(nds, top, k, v) => Stored(nodes, next_id, k, v)
    BY <1>2, <1>4, <1>12 DEF Stored, Pair
  <2>2. \A k : Contains(k)' <=> \E v : Stored(nds, top, k, v)
    BY <1>5, <1>6, SplitContains
  <2> QED BY <2>1, <2>2, ContainsStored
<1>15. Requested' /\ op'.node = x /\ op'.key = op.key /\ op'.kind = op.kind
  BY <1>10, <1>13, <1>14, SplitRequested DEF IInv
<1>16. Sized(nodes', next_id', root_id')
  <2>1. \A id \in Ids(top) : ~nds[id].leaf /\ id # x /\ id # root => nds[id].n >= B - 1
    <3>1. \A id \in Ids(x) : ~nodes[id].leaf /\ id # root => nodes[id].n >= B - 1
      BY <1>2 DEF IInv, Sized
    <3> QED BY <3>1, <1>4, <1>12
  <2> QED BY <2>1, <1>4, <1>5, <1>6, SplitSized
<1>17. Here'.n = 1 /\ Here'.leaf = FALSE
  <2>1. Widened(nds, nodes', x, 0, root, top)
    BY <1>4, <1>5, <1>6, SplitAbove
  <2>2. Here' = nodes'[x]
    BY <1>15 DEF Here
  <2> QED BY <2>1, <2>2, <1>4 DEF Widened
<1>18. Room'
  <2>1. ~Full(Here)'
    BY <1>17, DegreeAssumption DEF Full
  <2> QED BY <2>1, <1>17 DEF Room
<1>19. Reached(rp)'
  BY <1>11, <1>13, <1>15 DEF Reached
<1>20. result' \in Result
  BY DEF GrowRoot, IInv
<1>21. root_id' # NoNode /\ next_id' # 1
  BY <1>3, <1>2, <1>6, <1>10
<1> QED BY <1>8, <1>9, <1>15, <1>16, <1>18, <1>19, <1>20, <1>21 DEF IInv

\* What split_child asserts holds when insert_non_full calls it.
LEMMA FullChildSplits ==
    ASSUME IInv, SplitFullChild, NEW r, Holding(r),
           NEW x, NEW top, NEW root, NEW nds, NEW k, NEW i, NEW y,
           x = op.node, top = next_id, root = root_id, nds = nodes, k = op.key,
           i = Pos(Here, op.key), y = Child
    PROVE  /\ Splittable(nds, top, root, r, x, i)
           /\ i = Pos(nds[x], k) /\ y = nds[x].child[i] /\ k \in r[x] /\ x \in Ids(top)
           /\ i \in 0 .. nds[x].n /\ k \in Slot(nds, r, x, i) /\ y \in Ids(top)
           /\ top \in 1 .. MaxNode + 1 /\ x # NoNode /\ root # NoNode
           /\ ~nds[x].leaf /\ op.kind = "insert"
           /\ nodes' = SplitChild(nds, x, i, top) /\ next_id' = top + 1 /\ root_id' = root /\ op' = op
<1>1. /\ next_id \in 1 .. MaxNode + 1 /\ next_id <= MaxNode /\ op.node \in Ids(next_id)
      /\ op.node # NoNode /\ ~nodes[op.node].leaf /\ op.key \in r[op.node] /\ op.kind = "insert"
      /\ root_id # NoNode
  <2>1. next_id <= MaxNode
    BY RootThere, NodeAssumption DEF SplitFullChild, IdsLeft
  <2>2. op.node \in Ids(next_id) /\ op.node # NoNode /\ op.key \in r[op.node]
    BY RootThere DEF SplitFullChild, AtInner, Holding, Reached
  <2>3. root_id # NoNode
    BY <2>2 DEF IInv, Ids
  <2> QED BY <2>1, <2>2, <2>3, RootThere DEF SplitFullChild, AtInner, Here
<1>2. /\ i = Pos(nds[x], k) /\ y = nds[x].child[i] /\ k \in r[x] /\ x \in Ids(top)
  BY <1>1 DEF Here, Child
<1>3. Tree(nds, top, root, r) /\ r \in [NodeId -> SUBSET Key]
  BY DEF Holding
<1>4. i \in 0 .. nds[x].n /\ k \in Slot(nds, r, x, i) /\ y \in Ids(top)
  BY <1>1, <1>2, <1>3, Follow
<1>5. Splittable(nds, top, root, r, x, i)
  <2>1. Full(nds[y])
    BY DEF SplitFullChild
  <2>2. ~Full(nds[x])
    BY <1>1, <2>1 DEF IInv, Room, Here
  <2> QED BY <2>1, <2>2, <1>1, <1>2, <1>3, <1>4 DEF Splittable
<1>6. nodes' = SplitChild(nds, x, i, top) /\ next_id' = top + 1 /\ root_id' = root /\ op' = op
  BY DEF SplitFullChild
<1> QED BY <1>1, <1>2, <1>4, <1>5, <1>6

\* After the split the search goes on into one of the halves, which has room.
LEMMA SplitFullChildInv == IInv /\ SplitFullChild => IInv'
<1> SUFFICES ASSUME IInv, SplitFullChild PROVE IInv'
  OBVIOUS
<1>1. PICK r : Holding(r)
  BY DEF IInv, Holding
<1>2. PICK x, top, root, nds, k, i, y :
         /\ x = op.node /\ top = next_id /\ root = root_id /\ nds = nodes /\ k = op.key
         /\ i = Pos(Here, op.key) /\ y = Child
  OBVIOUS
<1>3. /\ Splittable(nds, top, root, r, x, i)
      /\ i = Pos(nds[x], k) /\ y = nds[x].child[i] /\ k \in r[x] /\ x \in Ids(top)
      /\ i \in 0 .. nds[x].n /\ k \in Slot(nds, r, x, i) /\ y \in Ids(top)
      /\ top \in 1 .. MaxNode + 1 /\ x # NoNode /\ root # NoNode
      /\ ~nds[x].leaf /\ op.kind = "insert"
      /\ nodes' = SplitChild(nds, x, i, top) /\ next_id' = top + 1 /\ root_id' = root /\ op' = op
  BY <1>1, <1>2, FullChildSplits
<1>4. Tree(nds, top, root, r) /\ r \in [NodeId -> SUBSET Key]
  BY <1>3 DEF Splittable
<1>5. PICK rp : rp = Halved(nds, top, r, y)
  OBVIOUS
<1>6. Tree(nodes', next_id', root_id', rp)
  BY <1>3, <1>5, SplitTree
<1>7. /\ rp \in [NodeId -> SUBSET Key]
       /\ \A id \in Ids(top) : id # y => rp[id] = r[id]
  BY <1>3, <1>5, SplitRanges
<1>8. x # y
  BY <1>3, SplitNodes
<1>9. \A l : Contains(l)' => Contains(l)
  BY <1>2, <1>3, SplitContains, ContainsStored
<1>10. Requested'
  <2>1. op.node \in Allocated'
    BY <1>3, <1>2 DEF Allocated, Ids
  <2> QED BY <2>1, <1>2, <1>3, <1>9 DEF IInv, Requested
<1>11. Sized(nodes', next_id', root_id')
  <2>1. \A id \in Ids(top) : ~nds[id].leaf => nds[id].n >= (IF id = root THEN 1 ELSE B - 1)
    BY <1>2 DEF IInv, Sized
  <2>2. root \in Ids(top)
    BY <1>1, <1>3, <1>2, RootThere
  <2> QED BY <2>1, <2>2, <1>3, <1>2, SplitSized
<1>12. Room'
  <2>1. Widened(nds, nodes', x, i, y, top)
    BY <1>3, SplitAbove
  <2>2. Here' = nodes'[x] /\ op'.key = k
    BY <1>2, <1>3 DEF Here
  <2>3. PICK nx : nx = nodes'[x]
    OBVIOUS
  <2>4. /\ nx.n = nds[x].n + 1 /\ nx.leaf = FALSE
        /\ \A j \in 0 .. nds[x].n : /\ j < i => nx.key[j] = nds[x].key[j]
                                    /\ j = i => nx.key[j] = Median(nds, y)
                                    /\ j > i => nx.key[j] = nds[x].key[j - 1]
        /\ \A j \in 0 .. nds[x].n + 1 : /\ j <= i => nx.child[j] = nds[x].child[j]
                                        /\ j = i + 1 => nx.child[j] = top
                                        /\ j > i + 1 => nx.child[j] = nds[x].child[j - 1]
    BY <2>1, <2>3 DEF Widened
  <2>5. Sorted(nx) /\ k \in Int /\ nds[x].n \in Nat
    <3>1. x \in Ids(top + 1)
      BY <1>3, <1>2 DEF Ids
    <3>2. Sorted(nx)
      BY <3>1, <2>3, <1>3, <1>6, NodeFacts
    <3>3. k \in Int
      BY <1>3, <1>4, KeyAssumption DEF Tree, Keyed
    <3> QED BY <3>2, <3>3, <1>3, <1>4, NodeFacts DEF Sorted
  <2>6. /\ i > 0 => nds[x].key[i - 1] <= k
        /\ i < nds[x].n => k < nds[x].key[i]
    BY <1>3 DEF Slot
  <2>7. Median(nds, y) \in Int
    <3>1. Median(nds, y) \in r[y]
      BY <1>3, SplitNodes
    <3> QED BY <3>1, <1>4, <1>3, KeyAssumption DEF Tree, Keyed
  <2>8. Boundary(nx, k) \in {i, i + 1}
    <3>1. CASE k < Median(nds, y)
      <4>1. i \in 0 .. nx.n /\ i < nx.n
        BY <1>3, <2>4, <2>5
      <4>2. i > 0 => nx.key[i - 1] <= k
        BY <1>3, <2>4, <2>5, <2>6
      <4>3. i < nx.n => nx.key[i] > k
        BY <1>3, <2>4, <2>5, <2>7, <3>1
      <4> QED BY <4>1, <4>2, <4>3, <2>5, BoundaryUnique
    <3>2. CASE Median(nds, y) <= k
      <4>1. i + 1 \in 0 .. nx.n
        BY <1>3, <2>4, <2>5
      <4>2. i + 1 > 0 => nx.key[(i + 1) - 1] <= k
        BY <1>3, <2>4, <2>5, <2>7, <3>2
      <4>3. i + 1 < nx.n => nx.key[i + 1] > k
        <5>1. SUFFICES ASSUME i < nds[x].n PROVE nx.key[i + 1] > k
          BY <2>4, <2>5, <1>3
        <5>2. i + 1 \in 0 .. nds[x].n /\ i + 1 > i /\ (i + 1) - 1 = i
          BY <5>1, <1>3, <2>5
        <5>3. nx.key[i + 1] = nds[x].key[i]
          BY <5>2, <2>4
        <5>4. nds[x].key[i] \in Int
          <6>1. Sorted(nds[x])
            BY <1>3, <1>4, NodeFacts
          <6> QED BY <6>1, <5>1, <1>3 DEF Sorted
        <5> QED BY <5>1, <5>3, <5>4, <2>5, <2>6
      <4> QED BY <4>1, <4>2, <4>3, <2>5, BoundaryUnique
    <3> QED BY <3>1, <3>2, <2>5, <2>7
  <2>9. Pos(nx, k) = Boundary(nx, k)
    BY <2>4 DEF Pos
  <2>10. nx.child[Pos(nx, k)] \in {y, top}
    BY <2>4, <2>5, <2>8, <2>9, <1>3
  <2>11. nodes'[y].n = B /\ nodes'[top].n = B - 1
    BY <1>3, SplitLower, SplitUpper
  <2>12. Child' = nx.child[Pos(nx, k)]
    BY <2>2, <2>3 DEF Child, Here
  <2>13. ~Full(nodes[Child])'
    BY <2>10, <2>11, <2>12, DegreeAssumption DEF Full
  <2> QED BY <2>2, <2>3, <2>4, <2>13 DEF Room
<1>13. Reached(rp)'
  BY <1>2, <1>3, <1>7, <1>8 DEF Reached
<1>14. result' \in Result /\ (root_id = NoNode <=> next_id = 1)'
  BY <1>3, <1>2 DEF SplitFullChild, IInv
<1> QED BY <1>6, <1>7, <1>10, <1>11, <1>12, <1>13, <1>14 DEF IInv

\* The node an insertion leaves: k and v at p, what was at p and beyond one
\* place further on.
Shifted(nd, nd0, p, k, v) ==
    /\ nd \in Node /\ nd.leaf
    /\ nd.rank = nd0.rank /\ nd.left = nd0.left /\ nd.right = nd0.right
    /\ nd.n = nd0.n + 1 /\ p \in 0 .. nd0.n
    /\ \A j \in 0 .. nd0.n :
          /\ j < p => nd.key[j] = nd0.key[j] /\ nd.value[j] = nd0.value[j]
          /\ j = p => nd.key[j] = k /\ nd.value[j] = v
          /\ j > p => nd.key[j] = nd0.key[j - 1] /\ nd.value[j] = nd0.value[j - 1]
    /\ \A j \in 0 .. nd0.n - 1 : (j < p => nd0.key[j] < k) /\ (j >= p => k < nd0.key[j])

\* insert_non_full on a leaf with room that does not have the key.
LEMMA InsertedNode ==
    ASSUME NEW nd0 \in Node, nd0.leaf, ~Full(nd0), Sorted(nd0),
           NEW k \in Key, NEW v \in Value, ~Finds(nd0, k), NEW p, p = Pos(nd0, k),
           NEW nd, nd = [nd0 EXCEPT !.key = Inserted(@, nd0.n, p, k),
                                    !.value = Inserted(@, nd0.n, p, v),
                                    !.n = @ + 1]
    PROVE  Shifted(nd, nd0, p, k, v)
<1>1. /\ nd0.n \in 0 .. 2 * B - 2 /\ 0 .. nd0.n \subseteq KeyIx
      /\ nd0.key \in [KeyIx -> Key \cup {NoKey}] /\ nd0.value \in [KeyIx -> Value \cup {NoValue}]
  <2>1. nd0.n \in 0 .. 2 * B - 1 /\ nd0.n # 2 * B - 1
    BY DEF Node, Full
  <2>2. nd0.n \in 0 .. 2 * B - 2
    BY <2>1, DegreeAssumption
  <2>3. 0 .. nd0.n \subseteq KeyIx
    BY <2>2, DegreeAssumption DEF KeyIx
  <2> QED BY <2>2, <2>3 DEF Node
<1>2. p = Boundary(nd0, k) /\ k \in Int
  BY KeyAssumption DEF Pos
<1>3. /\ p \in 0 .. nd0.n
      /\ p > 0 => nd0.key[p - 1] <= k
      /\ p < nd0.n => nd0.key[p] > k
  BY <1>2, BoundaryIs
<1>4. PICK ks, vs : ks = Inserted(nd0.key, nd0.n, p, k) /\ vs = Inserted(nd0.value, nd0.n, p, v)
  OBVIOUS
<1>5. nd = [nd0 EXCEPT !.key = ks, !.value = vs, !.n = nd0.n + 1]
  BY <1>4
<1>6. \A j \in KeyIx : /\ ks[j] = IF j = p THEN k
                                  ELSE IF p < j /\ j <= nd0.n THEN nd0.key[j - 1] ELSE nd0.key[j]
                       /\ vs[j] = IF j = p THEN v
                                  ELSE IF p < j /\ j <= nd0.n THEN nd0.value[j - 1] ELSE nd0.value[j]
  BY <1>1, <1>4 DEF Inserted
<1>7. \A j \in KeyIx : p < j /\ j <= nd0.n => j - 1 \in KeyIx
  BY <1>1, <1>3 DEF KeyIx
<1>8. ks \in [KeyIx -> Key \cup {NoKey}]
  <2>1. ks = [j \in KeyIx |-> ks[j]]
    BY <1>1, <1>4 DEF Inserted
  <2>2. \A j \in KeyIx : ks[j] \in Key \cup {NoKey}
    BY <1>1, <1>6, <1>7
  <2> QED BY <2>1, <2>2
<1>9. vs \in [KeyIx -> Value \cup {NoValue}]
  <2>1. vs = [j \in KeyIx |-> vs[j]]
    BY <1>1, <1>4 DEF Inserted
  <2>2. \A j \in KeyIx : vs[j] \in Value \cup {NoValue}
    BY <1>1, <1>6, <1>7
  <2> QED BY <2>1, <2>2
<1>10. nd0.n + 1 \in 0 .. 2 * B - 1
  BY <1>1, DegreeAssumption
<1>11. nd \in Node
  BY <1>5, <1>8, <1>9, <1>10 DEF Node
<1>12. /\ nd.leaf /\ nd.rank = nd0.rank /\ nd.left = nd0.left /\ nd.right = nd0.right
       /\ nd.n = nd0.n + 1 /\ nd.key = ks /\ nd.value = vs
  BY <1>5 DEF Node
<1>13. ASSUME NEW j \in 0 .. nd0.n
       PROVE  /\ j < p => nd.key[j] = nd0.key[j] /\ nd.value[j] = nd0.value[j]
              /\ j = p => nd.key[j] = k /\ nd.value[j] = v
              /\ j > p => nd.key[j] = nd0.key[j - 1] /\ nd.value[j] = nd0.value[j - 1]
  <2>1. j \in KeyIx /\ j <= nd0.n /\ p \in Int
    BY <1>1, <1>3
  <2> QED BY <2>1, <1>6, <1>12
<1>14. ASSUME NEW j \in 0 .. nd0.n - 1
       PROVE  (j < p => nd0.key[j] < k) /\ (j >= p => k < nd0.key[j])
  <2>1. nd0.key[j] \in Int /\ nd0.key[j] # k
    BY <1>2, FindsIs DEF Sorted
  <2>2. ASSUME j < p PROVE nd0.key[j] <= k
    <3>1. p - 1 \in 0 .. nd0.n - 1 /\ nd0.key[p - 1] \in Int /\ nd0.key[p - 1] <= k
      BY <2>2, <1>3, <1>1 DEF Sorted
    <3>2. j = p - 1 \/ nd0.key[j] < nd0.key[p - 1]
      BY <3>1, <2>2, <1>3, <1>1 DEF Sorted
    <3> QED BY <3>1, <3>2, <2>1, <1>2
  <2>3. ASSUME j >= p PROVE k < nd0.key[j]
    <3>1. p \in 0 .. nd0.n - 1 /\ nd0.key[p] \in Int /\ k < nd0.key[p]
      <4>1. p \in 0 .. nd0.n - 1
        BY <2>3, <1>3, <1>1
      <4> QED BY <4>1, <1>2, <1>3 DEF Sorted
    <3>2. j = p \/ nd0.key[p] < nd0.key[j]
      BY <3>1, <2>3 DEF Sorted
    <3> QED BY <3>1, <3>2, <2>1, <1>2
  <2> QED BY <2>1, <2>2, <2>3, <1>2
<1> QED BY <1>3, <1>11, <1>12, <1>13, <1>14 DEF Shifted

\* The node a removal leaves: what was beyond p one place back.
Closed(nd, nd0, p) ==
    /\ nd \in Node /\ nd.leaf
    /\ nd.rank = nd0.rank /\ nd.left = nd0.left /\ nd.right = nd0.right
    /\ nd.n = nd0.n - 1 /\ p \in 0 .. nd0.n - 1
    /\ \A j \in 0 .. nd0.n - 2 :
          /\ j < p => nd.key[j] = nd0.key[j] /\ nd.value[j] = nd0.value[j]
          /\ j >= p => nd.key[j] = nd0.key[j + 1] /\ nd.value[j] = nd0.value[j + 1]

\* The position of a key that the leaf has.
LEMMA FoundAt ==
    ASSUME NEW nd, nd.leaf, Sorted(nd), NEW k \in Int, Finds(nd, k)
    PROVE  Pos(nd, k) \in 0 .. nd.n - 1 /\ nd.key[Pos(nd, k)] = k
  BY BoundaryIs DEF Finds, Pos, Sorted

\* remove on a leaf that has the key.
LEMMA RemovedNode ==
    ASSUME NEW nd0 \in Node, nd0.leaf, Sorted(nd0),
           NEW k \in Key, Finds(nd0, k), NEW p, p = Pos(nd0, k),
           NEW nd, nd = [nd0 EXCEPT !.key = Removed(@, nd0.n, p),
                                    !.value = Removed(@, nd0.n, p),
                                    !.n = @ - 1]
    PROVE  Closed(nd, nd0, p)
<1>1. /\ nd0.n \in 0 .. 2 * B - 1 /\ 0 .. nd0.n - 1 \subseteq KeyIx
      /\ nd0.key \in [KeyIx -> Key \cup {NoKey}] /\ nd0.value \in [KeyIx -> Value \cup {NoValue}]
  BY DegreeAssumption DEF Node, KeyIx
<1>2. p \in 0 .. nd0.n - 1
  BY KeyAssumption, FoundAt
<1>4. PICK ks, vs : ks = Removed(nd0.key, nd0.n, p) /\ vs = Removed(nd0.value, nd0.n, p)
  OBVIOUS
<1>5. nd = [nd0 EXCEPT !.key = ks, !.value = vs, !.n = nd0.n - 1]
  BY <1>4
<1>6. \A j \in KeyIx : /\ ks[j] = IF p <= j /\ j < nd0.n - 1 THEN nd0.key[j + 1] ELSE nd0.key[j]
                       /\ vs[j] = IF p <= j /\ j < nd0.n - 1 THEN nd0.value[j + 1] ELSE nd0.value[j]
  BY <1>1, <1>4 DEF Removed
<1>7. \A j \in KeyIx : p <= j /\ j < nd0.n - 1 => j + 1 \in KeyIx
  BY <1>1, <1>2, DegreeAssumption DEF KeyIx
<1>8. ks \in [KeyIx -> Key \cup {NoKey}]
  <2>1. ks = [j \in KeyIx |-> ks[j]]
    BY <1>1, <1>4 DEF Removed
  <2>2. \A j \in KeyIx : ks[j] \in Key \cup {NoKey}
    BY <1>1, <1>6, <1>7
  <2> QED BY <2>1, <2>2
<1>9. vs \in [KeyIx -> Value \cup {NoValue}]
  <2>1. vs = [j \in KeyIx |-> vs[j]]
    BY <1>1, <1>4 DEF Removed
  <2>2. \A j \in KeyIx : vs[j] \in Value \cup {NoValue}
    BY <1>1, <1>6, <1>7
  <2> QED BY <2>1, <2>2
<1>10. nd0.n - 1 \in 0 .. 2 * B - 1
  BY <1>1, <1>2, DegreeAssumption
<1>11. nd \in Node
  BY <1>5, <1>8, <1>9, <1>10 DEF Node
<1>12. /\ nd.leaf /\ nd.rank = nd0.rank /\ nd.left = nd0.left /\ nd.right = nd0.right
       /\ nd.n = nd0.n - 1 /\ nd.key = ks /\ nd.value = vs
  BY <1>5 DEF Node
<1>13. ASSUME NEW j \in 0 .. nd0.n - 2
       PROVE  /\ j < p => nd.key[j] = nd0.key[j] /\ nd.value[j] = nd0.value[j]
              /\ j >= p => nd.key[j] = nd0.key[j + 1] /\ nd.value[j] = nd0.value[j + 1]
  <2>1. j \in KeyIx /\ j < nd0.n - 1 /\ p \in Int
    BY <1>1, <1>2
  <2> QED BY <2>1, <1>6, <1>12
<1> QED BY <1>2, <1>11, <1>12, <1>13 DEF Closed

\* The last step of an operation: it changes at most the leaf it has reached.
LEMMA LeafInv ==
    ASSUME IInv, AtLeaf, NEW r, Holding(r),
           NEW nd \in Node, nd.leaf,
           nd.rank = Here.rank, nd.left = Here.left, nd.right = Here.right,
           \A j \in 0 .. nd.n - 1 : nd.key[j] \in r[op.node],
           \A j, l \in 0 .. nd.n - 1 : j < l => nd.key[j] < nd.key[l],
           nodes' = [nodes EXCEPT ![op.node] = nd], UNCHANGED <<next_id, root_id>>,
           NEW found \in BOOLEAN, NEW v \in Value \cup {NoValue}, Return(found, v)
    PROVE  IInv'
<1>1. op.node \in Ids(next_id) /\ nodes[op.node].leaf /\ nodes[op.node] = Here
  BY RootThere DEF AtLeaf, Here
<1>2. Tree(nodes', next_id, root_id, r)
  BY <1>1, LeafTree DEF Holding
<1>3. op' = Idle /\ Idle.kind = "idle" /\ Idle.node = NoNode /\ Idle \in Op
  BY DEF Return, Idle, Op, Kinds, NoNode
<1>4. Requested' /\ Room' /\ Reached(r)'
  BY <1>3 DEF Requested, Room, Reached
<1>5. result' \in Result
  <2>1. op \in Op
    BY DEF IInv, Requested
  <2> QED BY <2>1 DEF Return, Answer, Result, Op
<1>6. Sized(nodes, next_id, root_id)'
  <2>1. ASSUME NEW id \in Ids(next_id), ~nodes'[id].leaf
        PROVE  nodes'[id] = nodes[id]
    <3>1. id \in NodeId /\ nodes \in [NodeId -> Node]
      BY NodeFacts DEF Holding, Tree, Typed
    <3> QED BY <3>1, <2>1
  <2> QED BY <2>1 DEF IInv, Sized
<1>7. (root_id = NoNode <=> next_id = 1)'
  BY DEF IInv
<1> QED BY <1>2, <1>4, <1>5, <1>6, <1>7 DEF IInv, Holding

\* What an operation at a leaf knows of it.
LEMMA LeafReached ==
    ASSUME IInv, AtLeaf, NEW r, Holding(r)
    PROVE  /\ op.node \in Ids(next_id) /\ op.node \in NodeId
           /\ Here \in Node /\ Here.leaf /\ Sorted(Here)
           /\ op.key \in Key /\ op.key \in Int /\ op.key \in r[op.node]
           /\ \A j \in 0 .. Here.n - 1 : Here.key[j] \in r[op.node]
           /\ nodes \in [NodeId -> Node]
           /\ op.kind # "idle" /\ op \in Op
<1>1. op.node \in Ids(next_id) /\ nodes[op.node] = Here /\ Here.leaf /\ op.node # NoNode
  BY RootThere DEF AtLeaf, Here
<1>2. op.node \in NodeId /\ Here \in Node /\ Sorted(Here)
  BY <1>1, NodeFacts DEF Holding
<1>3. \A j \in 0 .. Here.n - 1 : Here.key[j] \in r[op.node]
  BY <1>1 DEF Holding, Tree, Keyed
<1>4. op.key \in Key /\ op.key \in r[op.node] /\ op.kind # "idle" /\ op \in Op
  BY <1>1 DEF IInv, Requested, Holding, Reached
<1> QED BY <1>1, <1>2, <1>3, <1>4, KeyAssumption DEF Holding, Tree, Typed

\* The tree has a key if and only if the leaf of its descent has.
LEMMA LeafDecides ==
    ASSUME IInv, AtLeaf, NEW r, Holding(r)
    PROVE  Contains(op.key) <=> Finds(Here, op.key)
<1>1. ASSUME Contains(op.key) PROVE Finds(Here, op.key)
  <2>1. PICK v : Stored(nodes, next_id, op.key, v)
    BY <1>1, ContainsStored
  <2>3. PICK c \in Ids(next_id) : Pair(nodes[c], op.key, v)
    BY <2>1 DEF Stored
  <2>2. op.node \in Ids(next_id) /\ nodes[op.node].leaf /\ op.key \in r[op.node]
    BY LeafReached DEF Here
  <2> QED BY <2>2, <2>3, InItsLeaf DEF Holding, Here
<1>2. ASSUME Finds(Here, op.key) PROVE Contains(op.key)
  <2>1. \E j \in 0 .. Here.n - 1 : Here.key[j] = op.key
    BY <1>2, LeafReached, FindsIs
  <2>2. op.node \in Ids(next_id) /\ nodes[op.node] = Here /\ Here.leaf
    BY LeafReached DEF Here
  <2> QED BY <2>1, <2>2 DEF Contains, Holds, Ids
<1> QED BY <1>1, <1>2

\* A leaf that stays as it is.
LEMMA SameLeafInv ==
    ASSUME IInv, AtLeaf, UNCHANGED <<nodes, next_id, root_id>>,
           NEW found \in BOOLEAN, NEW v \in Value \cup {NoValue}, Return(found, v)
    PROVE  IInv'
<1>1. PICK r : Holding(r)
  BY DEF IInv, Holding
<1>2. PICK nd : nd = Here
  OBVIOUS
<1>3. /\ nd \in Node /\ nd.leaf /\ Sorted(nd)
      /\ \A j \in 0 .. nd.n - 1 : nd.key[j] \in r[op.node]
      /\ nodes \in [NodeId -> Node]
  BY <1>1, <1>2, LeafReached
<1>4. nodes' = [nodes EXCEPT ![op.node] = nd]
  BY <1>2, <1>3 DEF Here
<1>5. \A j, l \in 0 .. nd.n - 1 : j < l => nd.key[j] < nd.key[l]
  BY <1>3 DEF Sorted
<1> QED BY <1>1, <1>2, <1>3, <1>4, <1>5, LeafInv

\* A search ends.
LEMMA SearchLeafInv == IInv /\ SearchLeaf => IInv'
<1> SUFFICES ASSUME IInv, SearchLeaf PROVE IInv'
  OBVIOUS
<1>1. PICK r : Holding(r)
  BY DEF IInv, Holding
<1>2. /\ Here \in Node /\ Here.leaf /\ Sorted(Here) /\ op.key \in Int /\ AtLeaf
  BY <1>1, LeafReached DEF SearchLeaf
<1>3. CASE Finds(Here, op.key)
  <2>1. Pos(Here, op.key) \in KeyIx
    <3>1. Pos(Here, op.key) \in 0 .. Here.n - 1
      BY <1>2, <1>3, FoundAt
    <3>2. Here.n \in 0 .. 2 * B - 1
      BY <1>2 DEF Node
    <3> QED BY <3>1, <3>2, DegreeAssumption DEF KeyIx
  <2>2. Here.value[Pos(Here, op.key)] \in Value \cup {NoValue}
    BY <1>2, <2>1 DEF Node
  <2> QED BY <1>2, <1>3, <2>2, SameLeafInv DEF SearchLeaf
<1>4. CASE ~Finds(Here, op.key)
  BY <1>2, <1>4, SameLeafInv DEF SearchLeaf
<1> QED BY <1>3, <1>4

\* An update of a key that is not there starts over as an insertion, of a key
\* that is in no leaf.
LEMMA UpdateMissingInv == IInv /\ UpdateMissing => IInv'
<1> SUFFICES ASSUME IInv, UpdateMissing PROVE IInv'
  OBVIOUS
<1>1. PICK r : Holding(r)
  BY DEF IInv, Holding
<1>2. /\ op \in Op /\ op.key \in Key /\ op.value \in Value
  BY <1>1, LeafReached DEF UpdateMissing, IInv, Requested
<1>3. ~Contains(op.key)
  BY <1>1, LeafDecides DEF UpdateMissing
<1>4. /\ op' = [op EXCEPT !.kind = "insert", !.node = NoNode]
      /\ UNCHANGED <<nodes, next_id, root_id, result>>
  BY DEF UpdateMissing
<1>5. /\ op' \in Op /\ op'.kind = "insert" /\ op'.node = NoNode
      /\ op'.key = op.key /\ op'.value = op.value
  <2>1. "insert" \in Kinds
    BY DEF Kinds
  <2> QED BY <1>2, <1>4, <2>1 DEF Op
<1>6. ~Contains(op.key)'
  BY <1>3, <1>4, <1>5, SameContains
<1>7. Requested'
  BY <1>2, <1>5, <1>6 DEF Requested
<1>8. Room' /\ Reached(r)'
  BY <1>5 DEF Room, Reached
<1>9. result' \in Result
  BY <1>4 DEF IInv
<1> QED BY <1>1, <1>4, <1>7, <1>8, <1>9, SameTree

\* insert_non_full at the leaf.
LEMMA InsertedHere ==
    ASSUME IInv, InsertLeaf, NEW r, Holding(r)
    PROVE  \E nd, p : /\ Shifted(nd, Here, p, op.key, op.value)
                      /\ nodes' = [nodes EXCEPT ![op.node] = nd]
                      /\ UNCHANGED <<next_id, root_id>>
<1>1. AtLeaf /\ op.kind = "insert" /\ UNCHANGED <<next_id, root_id>>
  BY DEF InsertLeaf
<1>2. PICK nd0, k, v, p : nd0 = Here /\ k = op.key /\ v = op.value /\ p = Pos(Here, op.key)
  OBVIOUS
<1>3. /\ nd0 \in Node /\ nd0.leaf /\ Sorted(nd0) /\ k \in Key
      /\ op.node \in NodeId /\ nodes \in [NodeId -> Node]
  BY <1>1, <1>2, LeafReached
<1>4. v \in Value /\ ~Finds(nd0, k) /\ ~Full(nd0)
  <2>1. op.value \in Value /\ ~Contains(op.key)
    BY <1>1 DEF IInv, Requested
  <2>2. ~Full(Here)
    BY <1>1 DEF IInv, Room, AtLeaf
  <2> QED BY <1>1, <1>2, <2>1, <2>2, LeafDecides
<1>5. PICK nd : nd = [nd0 EXCEPT !.key = Inserted(@, nd0.n, p, k),
                                 !.value = Inserted(@, nd0.n, p, v),
                                 !.n = @ + 1]
  OBVIOUS
<1>6. Shifted(nd, nd0, p, k, v)
  BY <1>2, <1>3, <1>4, <1>5, InsertedNode
<1>7. nodes' = [nodes EXCEPT ![op.node] = nd]
  <2>1. nodes' = [nodes EXCEPT
                    ![op.node].key = Inserted(@, nd0.n, p, k),
                    ![op.node].value = Inserted(@, nd0.n, p, v),
                    ![op.node].n = @ + 1]
    BY <1>2 DEF InsertLeaf
  <2>2. nodes[op.node] = nd0
    BY <1>2 DEF Here
  <2> QED BY <2>1, <2>2, <1>3, <1>5
<1> QED BY <1>1, <1>2, <1>6, <1>7

\* An insertion puts its key in the leaf, at its place.
LEMMA InsertLeafInv == IInv /\ InsertLeaf => IInv'
<1> SUFFICES ASSUME IInv, InsertLeaf PROVE IInv'
  OBVIOUS
<1>1. PICK r : Holding(r)
  BY DEF IInv, Holding
<1>2. AtLeaf /\ op.kind = "insert"
  BY DEF InsertLeaf
<1>3. PICK nd0, k, v : nd0 = Here /\ k = op.key /\ v = op.value
  OBVIOUS
<1>4. /\ nd0 \in Node /\ nd0.leaf /\ Sorted(nd0)
      /\ k \in Key /\ k \in Int /\ k \in r[op.node]
      /\ \A j \in 0 .. nd0.n - 1 : nd0.key[j] \in r[op.node]
  BY <1>1, <1>2, <1>3, LeafReached
<1>5. v \in Value
  BY <1>2, <1>3 DEF IInv, Requested
<1>6. PICK nd, p : /\ Shifted(nd, nd0, p, k, v)
                   /\ nodes' = [nodes EXCEPT ![op.node] = nd]
                   /\ UNCHANGED <<next_id, root_id>>
  BY <1>1, <1>3, InsertedHere
<1>7. /\ nd \in Node /\ nd.leaf
      /\ nd.rank = nd0.rank /\ nd.left = nd0.left /\ nd.right = nd0.right
  BY <1>6 DEF Shifted
<1>8. nd0.n \in Nat /\ p \in 0 .. nd0.n /\ nd.n - 1 = nd0.n
  BY <1>4, <1>6 DEF Sorted, Shifted
<1>9. ASSUME NEW j \in 0 .. nd.n - 1 PROVE nd.key[j] \in r[op.node]
  <2>1. CASE j < p
    BY <2>1, <1>4, <1>6, <1>8 DEF Shifted
  <2>2. CASE j = p
    BY <2>2, <1>4, <1>6, <1>8 DEF Shifted
  <2>3. CASE j > p
    <3>1. j \in 0 .. nd0.n /\ j - 1 \in 0 .. nd0.n - 1
      BY <2>3, <1>8
    <3> QED BY <2>3, <3>1, <1>4, <1>6 DEF Shifted
  <2> QED BY <2>1, <2>2, <2>3, <1>8
<1>10. ASSUME NEW j \in 0 .. nd.n - 1, NEW l \in 0 .. nd.n - 1, j < l
       PROVE  nd.key[j] < nd.key[l]
  <2>1. /\ j \in 0 .. nd0.n /\ l \in 0 .. nd0.n
        /\ \A i, m \in 0 .. nd0.n - 1 : i < m => nd0.key[i] < nd0.key[m]
        /\ \A i \in 0 .. nd0.n - 1 : (i < p => nd0.key[i] < k) /\ (i >= p => k < nd0.key[i])
        /\ \A i \in 0 .. nd0.n : /\ i < p => nd.key[i] = nd0.key[i]
                                 /\ i = p => nd.key[i] = k
                                 /\ i > p => nd.key[i] = nd0.key[i - 1]
    BY <1>4, <1>6, <1>8 DEF Sorted, Shifted
  <2>2. CASE l < p
    <3>1. j \in 0 .. nd0.n - 1 /\ l \in 0 .. nd0.n - 1 /\ j < p
      BY <2>2, <1>8, <1>10
    <3> QED BY <3>1, <2>1, <2>2, <1>10
  <2>3. CASE l = p
    <3>1. j \in 0 .. nd0.n - 1 /\ j < p
      BY <2>3, <1>8, <1>10
    <3> QED BY <3>1, <2>1, <2>3
  <2>4. CASE l > p
    <3>1. l - 1 \in 0 .. nd0.n - 1 /\ l - 1 >= p
      BY <2>4, <1>8
    <3>2. nd.key[l] = nd0.key[l - 1] /\ k < nd0.key[l - 1]
      BY <2>1, <2>4, <3>1
    <3>3. CASE j < p
      <4>1. j \in 0 .. nd0.n - 1 /\ j < l - 1
        BY <3>3, <2>4, <1>8
      <4> QED BY <4>1, <3>1, <3>2, <3>3, <2>1
    <3>4. CASE j = p
      BY <3>2, <3>4, <2>1
    <3>5. CASE j > p
      <4>1. j - 1 \in 0 .. nd0.n - 1 /\ j - 1 < l - 1
        BY <3>5, <1>8, <1>10
      <4> QED BY <4>1, <3>1, <3>2, <3>5, <2>1
    <3> QED BY <3>3, <3>4, <3>5, <1>8
  <2> QED BY <2>2, <2>3, <2>4, <1>8
<1>11. Return(FALSE, v)
  BY <1>3 DEF InsertLeaf
<1> QED BY <1>1, <1>2, <1>3, <1>5, <1>6, <1>7, <1>9, <1>10, <1>11, LeafInv

\* An update overwrites a value.
LEMMA UpdateLeafInv == IInv /\ UpdateLeaf => IInv'
<1> SUFFICES ASSUME IInv, UpdateLeaf PROVE IInv'
  OBVIOUS
<1>1. PICK r : Holding(r)
  BY DEF IInv, Holding
<1>2. AtLeaf /\ op.kind = "update"
  BY DEF UpdateLeaf
<1>3. PICK nd0, v, p : nd0 = Here /\ v = op.value /\ p = Pos(Here, op.key)
  OBVIOUS
<1>4. /\ nd0 \in Node /\ nd0.leaf /\ Sorted(nd0)
      /\ \A j \in 0 .. nd0.n - 1 : nd0.key[j] \in r[op.node]
      /\ op.node \in NodeId /\ nodes \in [NodeId -> Node]
  BY <1>1, <1>2, <1>3, LeafReached
<1>5. v \in Value
  BY <1>2, <1>3 DEF IInv, Requested
<1>6. PICK vs : vs = [nd0.value EXCEPT ![p] = v]
  OBVIOUS
<1>7. PICK nd : nd = [nd0 EXCEPT !.value = vs]
  OBVIOUS
<1>8. vs \in [KeyIx -> Value \cup {NoValue}]
  BY <1>4, <1>5, <1>6 DEF Node
<1>9. /\ nd \in Node /\ nd.leaf /\ nd.n = nd0.n /\ nd.key = nd0.key
      /\ nd.rank = nd0.rank /\ nd.left = nd0.left /\ nd.right = nd0.right
  BY <1>4, <1>7, <1>8 DEF Node
<1>10. nodes' = [nodes EXCEPT ![op.node] = nd]
  <2>1. nodes' = [nodes EXCEPT ![op.node].value[p] = v]
    BY <1>3 DEF UpdateLeaf
  <2>2. nodes[op.node] = nd0
    BY <1>3 DEF Here
  <2> QED BY <2>1, <2>2, <1>4, <1>6, <1>7
<1>11. \A j, l \in 0 .. nd.n - 1 : j < l => nd.key[j] < nd.key[l]
  BY <1>4, <1>9 DEF Sorted
<1>12. Return(TRUE, v) /\ UNCHANGED <<next_id, root_id>>
  BY <1>3 DEF UpdateLeaf
<1>13. \A j \in 0 .. nd.n - 1 : nd.key[j] \in r[op.node]
  BY <1>4, <1>9
<1> QED BY <1>1, <1>2, <1>3, <1>5, <1>9, <1>10, <1>11, <1>12, <1>13, LeafInv

\* remove at a leaf that has the key.
LEMMA RemovedHere ==
    ASSUME IInv, RemoveLeaf, Finds(Here, op.key), NEW r, Holding(r)
    PROVE  \E nd, p : /\ Closed(nd, Here, p) /\ Here.key[p] = op.key
                      /\ nodes' = [nodes EXCEPT ![op.node] = nd]
                      /\ UNCHANGED <<next_id, root_id>>
<1>1. PICK nd0, p : nd0 = Here /\ p = Pos(Here, op.key)
  OBVIOUS
<1>2. /\ nd0 \in Node /\ nd0.leaf /\ Sorted(nd0) /\ op.key \in Key /\ op.key \in Int
      /\ op.node \in NodeId /\ nodes \in [NodeId -> Node]
  BY <1>1, LeafReached DEF RemoveLeaf
<1>3. PICK nd : nd = [nd0 EXCEPT !.key = Removed(@, nd0.n, p),
                                 !.value = Removed(@, nd0.n, p),
                                 !.n = @ - 1]
  OBVIOUS
<1>4. Closed(nd, nd0, p) /\ nd0.key[p] = op.key
  BY <1>1, <1>2, <1>3, RemovedNode, FoundAt
<1>5. nodes' = [nodes EXCEPT ![op.node] = nd] /\ UNCHANGED <<next_id, root_id>>
  <2>1. /\ nodes' = [nodes EXCEPT
                       ![op.node].key = Removed(@, nd0.n, p),
                       ![op.node].value = Removed(@, nd0.n, p),
                       ![op.node].n = @ - 1]
        /\ UNCHANGED <<next_id, root_id>>
    BY <1>1 DEF RemoveLeaf
  <2>2. nodes[op.node] = nd0
    BY <1>1 DEF Here
  <2> QED BY <2>1, <2>2, <1>2, <1>3
<1> QED BY <1>1, <1>4, <1>5

\* A removal takes its key out of the leaf, if it is there.
LEMMA RemoveLeafInv == IInv /\ RemoveLeaf => IInv'
<1> SUFFICES ASSUME IInv, RemoveLeaf PROVE IInv'
  OBVIOUS
<1>1. PICK r : Holding(r)
  BY DEF IInv, Holding
<1>2. AtLeaf
  BY DEF RemoveLeaf
<1>3. CASE ~Finds(Here, op.key)
  BY <1>2, <1>3, SameLeafInv DEF RemoveLeaf
<1>4. CASE Finds(Here, op.key)
  <2>1. PICK nd0 : nd0 = Here
    OBVIOUS
  <2>2. /\ nd0 \in Node /\ nd0.leaf /\ Sorted(nd0)
        /\ \A j \in 0 .. nd0.n - 1 : nd0.key[j] \in r[op.node]
    BY <1>1, <1>2, <2>1, LeafReached
  <2>3. PICK nd, p : /\ Closed(nd, nd0, p)
                     /\ nodes' = [nodes EXCEPT ![op.node] = nd]
                     /\ UNCHANGED <<next_id, root_id>>
    BY <1>1, <1>4, <2>1, RemovedHere
  <2>4. /\ nd \in Node /\ nd.leaf
        /\ nd.rank = nd0.rank /\ nd.left = nd0.left /\ nd.right = nd0.right
    BY <2>3 DEF Closed
  <2>5. nd0.n \in Nat /\ p \in 0 .. nd0.n - 1 /\ nd.n - 1 = nd0.n - 2
    BY <2>2, <2>3 DEF Sorted, Closed
  <2>6. \A j \in 0 .. nd.n - 1 : /\ j < p => nd.key[j] = nd0.key[j]
                                 /\ j >= p => nd.key[j] = nd0.key[j + 1]
    BY <2>3, <2>5 DEF Closed
  <2>7. ASSUME NEW j \in 0 .. nd.n - 1 PROVE nd.key[j] \in r[op.node]
    <3>1. j \in 0 .. nd0.n - 1 /\ j + 1 \in 0 .. nd0.n - 1
      BY <2>5
    <3> QED BY <3>1, <2>2, <2>5, <2>6
  <2>8. ASSUME NEW j \in 0 .. nd.n - 1, NEW l \in 0 .. nd.n - 1, j < l
         PROVE  nd.key[j] < nd.key[l]
    <3>1. /\ j \in 0 .. nd0.n - 1 /\ j + 1 \in 0 .. nd0.n - 1
          /\ l \in 0 .. nd0.n - 1 /\ l + 1 \in 0 .. nd0.n - 1
          /\ j < l + 1 /\ j + 1 < l + 1
      BY <2>5, <2>8
    <3>2. \A i, m \in 0 .. nd0.n - 1 : i < m => nd0.key[i] < nd0.key[m]
      BY <2>2 DEF Sorted
    <3>3. CASE l < p
      <4>1. j < p
        BY <2>5, <2>8, <3>3
      <4> QED BY <4>1, <3>1, <3>2, <3>3, <2>6, <2>8
    <3>4. CASE j >= p
      <4>1. l >= p
        BY <2>5, <2>8, <3>4
      <4> QED BY <4>1, <3>1, <3>2, <3>4, <2>6, <2>8
    <3>5. CASE j < p /\ l >= p
      BY <3>1, <3>2, <3>5, <2>6, <2>8
    <3> QED BY <3>3, <3>4, <3>5, <2>5
  <2>9. Return(TRUE, NoValue)
    BY <1>4 DEF RemoveLeaf
  <2> QED BY <1>1, <1>2, <2>1, <2>3, <2>4, <2>7, <2>8, <2>9, LeafInv
<1> QED BY <1>3, <1>4

\* Every step keeps the invariant.
LEMMA NextInv == IInv /\ [Next]_vars => IInv'
<1> SUFFICES ASSUME IInv, [Next]_vars PROVE IInv'
  OBVIOUS
<1>1. ASSUME NEW k \in Key, Begin("search", k, NoValue) \/ Begin("remove", k, NoValue)
      PROVE  IInv'
  <2>1. "search" \in Kinds \ {"idle"} /\ "remove" \in Kinds \ {"idle"}
    BY DEF Kinds
  <2> QED BY <1>1, <2>1, BeginInv
<1>2. ASSUME NEW k \in Key, NEW v \in Value, Begin("insert", k, v) \/ Begin("update", k, v)
      PROVE  IInv'
  <2>1. "insert" \in Kinds \ {"idle"} /\ "update" \in Kinds \ {"idle"}
    BY DEF Kinds
  <2> QED BY <1>2, <2>1, BeginInv
<1>3. CASE Request
  BY <1>1, <1>2, <1>3 DEF Request
<1>4. CASE Step
  BY <1>4, EnterEmptyInv, EnterRootInv, GrowRootInv, DescendInv, SplitFullChildInv,
     SearchLeafInv, InsertLeafInv, UpdateLeafInv, UpdateMissingInv, RemoveLeafInv DEF Step
<1>5. CASE UNCHANGED vars
  <2>1. PICK r : Holding(r)
    BY DEF IInv, Holding
  <2>2. UNCHANGED <<nodes, next_id, root_id, op, result>>
    BY <1>5 DEF vars
  <2>3. Requested'
    BY <2>2, SameContains DEF IInv, Requested, Allocated
  <2>4. Room' /\ Reached(r)' /\ result' \in Result
    BY <2>1, <2>2 DEF IInv, Room, Reached, Holding, Here, Child
  <2> QED BY <2>1, <2>2, <2>3, <2>4, SameTree
<1> QED BY <1>3, <1>4, <1>5 DEF Next

\* The tree fits the ranges of its nodes after every step of every operation.
THEOREM Invariance == Spec => []IInv
<1>1. Init => IInv
  BY InitInv
<1>2. IInv /\ [Next]_vars => IInv'
  BY NextInv
<1> QED BY <1>1, <1>2, PTL DEF Spec

-----------------------------------------------------------------------------
(***************************************************************************)
(* What the invariant says of the tree                                     *)
(***************************************************************************)
\* The variables keep their types.
LEMMA TypeHolds == IInv => TypeOK
<1> SUFFICES ASSUME IInv PROVE TypeOK
  OBVIOUS
<1>1. PICK r : Holding(r)
  BY DEF IInv, Holding
<1>2. nodes \in [NodeId -> Node] /\ next_id \in 1 .. MaxNode + 1
  BY <1>1 DEF Holding, Tree, Typed
<1>3. root_id \in Allocated \cup {NoNode} /\ op.node \in Allocated \cup {NoNode}
  BY <1>1, RootThere DEF Ids, Allocated
<1> QED BY <1>2, <1>3 DEF IInv, Requested, TypeOK

\* Node ids stay in the store and the counts within the arrays: no split
\* writes past a node and no operation goes to a node that is not there.
THEOREM TypeCorrect == Spec => []TypeOK
  BY Invariance, TypeHolds, PTL

\* A level is a level, and its nodes are filled.
LEMMA BalanceHolds == IInv => Balanced
<1> SUFFICES ASSUME IInv, NEW id \in Allocated
             PROVE  LET nd == nodes[id] IN
                    /\ nd.leaf <=> nd.rank = 0
                    /\ ~nd.leaf => /\ nd.n >= (IF id = root_id THEN 1 ELSE B - 1)
                                   /\ \A i \in 1 .. nd.n :
                                         /\ nd.child[i] \in Allocated
                                         /\ nodes[nd.child[i]].rank = nd.rank + 1
                    /\ \A i \in 1 .. nd.n - 1 : nd.key[i - 1] < nd.key[i]
  BY DEF Balanced
<1>1. PICK r : Holding(r)
  BY DEF IInv, Holding
<1>2. id \in Ids(next_id) /\ Allocated = Ids(next_id)
  BY DEF Ids, Allocated
<1>3. Sorted(nodes[id])
  BY <1>1, <1>2, NodeFacts DEF Holding
<1>4. ASSUME NEW i \in 1 .. nodes[id].n - 1 PROVE nodes[id].key[i - 1] < nodes[id].key[i]
  <2>1. i - 1 \in 0 .. nodes[id].n - 1 /\ i \in 0 .. nodes[id].n - 1 /\ i - 1 < i
    BY <1>3 DEF Sorted
  <2> QED BY <2>1, <1>3 DEF Sorted
<1>5. ~nodes[id].leaf => nodes[id].n >= (IF id = root_id THEN 1 ELSE B - 1)
  BY <1>2 DEF IInv, Sized
<1>6. /\ nodes[id].leaf <=> nodes[id].rank = 0
      /\ ~nodes[id].leaf => \A i \in 1 .. nodes[id].n :
            /\ nodes[id].child[i] \in Ids(next_id)
            /\ nodes[nodes[id].child[i]].rank = nodes[id].rank + 1
  BY <1>1, <1>2 DEF Holding, Tree, Parents
<1> QED BY <1>2, <1>4, <1>5, <1>6

\* The tree stays balanced: all leaves are at one depth, and no split leaves a
\* node below the root with fewer than B - 1 keys.
THEOREM StaysBalanced == Spec => []Balanced
  BY Invariance, BalanceHolds, PTL

\* What split_child and insert_non_full assert, the invariant says.
LEMMA AssertionsInv == IInv => InsertAssertions
<1> SUFFICES ASSUME IInv, op.kind = "insert", op.node # NoNode
             PROVE  IF Here.leaf THEN ~Full(Here) /\ ~Finds(Here, op.key)
                                 ELSE Full(nodes[Child]) => ~Full(Here)
  BY DEF InsertAssertions
<1>1. PICK r : Holding(r)
  BY DEF IInv, Holding
<1>2. ASSUME Here.leaf PROVE ~Finds(Here, op.key)
  <2>1. ~Contains(op.key)
    BY DEF IInv, Requested
  <2> QED BY <1>1, <1>2, <2>1, LeafDecides DEF AtLeaf
<1> QED BY <1>2 DEF IInv, Room

\* No assertion of an insertion fails: the node whose child is split has room
\* for a key more, the leaf reached has too and does not have the key.
THEOREM AssertionsHold == Spec => []InsertAssertions
  BY Invariance, AssertionsInv, PTL

\* f follows the link nx from each node of S down to one of L.
IsWalk(f, S, L, nx) == f = [m \in S |-> IF m \in L THEN m ELSE f[nx[m]]]

\* Following a link from node to node down to a leaf is a function of the node
\* it starts at, if there is a bound on the heights and each link leads lower.
LEMMA WalkExists ==
    ASSUME NEW S, NEW L, NEW nx, NEW h \in [S -> Nat], NEW N \in Nat,
           \A m \in S : h[m] <= N,
           \A m \in S : m \notin L => nx[m] \in S /\ h[nx[m]] < h[m]
    PROVE  \E f : IsWalk(f, S, L, nx)
<1> DEFINE D(n) == {m \in S : h[m] <= n}
           Walks(f, n) == \A m \in D(n) : f[m] = IF m \in L THEN m ELSE f[nx[m]]
           U == {n \in Nat : \E f : Walks(f, n)}
<1>1. 0 \in U
  <2>1. Walks([m \in S |-> m], 0)
    <3>1. ASSUME NEW m \in D(0), m \notin L PROVE FALSE
      BY <3>1
    <3> QED BY <3>1
  <2> QED BY <2>1
<1>2. ASSUME NEW n \in Nat, n \in U PROVE n + 1 \in U
  <2>1. PICK f : Walks(f, n)
    BY <1>2
  <2>2. PICK g : g = [m \in S |-> IF m \in L THEN m ELSE f[nx[m]]]
    OBVIOUS
  <2>3. \A m \in D(n) : g[m] = f[m]
    BY <2>1, <2>2
  <2>4. \A m \in D(n + 1) : m \notin L => nx[m] \in D(n)
    BY <1>2
  <2>5. Walks(g, n + 1)
    BY <2>2, <2>3, <2>4
  <2> QED BY <2>5
<1>3. N \in U
  <2> HIDE DEF U
  <2> QED BY <1>1, <1>2, NatSet
<1>4. PICK f : Walks(f, N)
  BY <1>3
<1>5. PICK g : g = [m \in S |-> f[m]]
  OBVIOUS
<1>6. \A m \in S : g[m] = IF m \in L THEN m ELSE g[nx[m]]
  BY <1>4, <1>5
<1>7. g = [m \in S |-> IF m \in L THEN m ELSE g[nx[m]]]
  BY <1>5, <1>6
<1> QED BY <1>7 DEF IsWalk

\* The height of a node, and the node a search for k goes on to.
Heights(nds) == [m \in NodeId |-> 0 - nds[m].rank]
Onward(nds, k) == [m \in NodeId |-> nds[m].child[Pos(nds[m], k)]]

\* The heights are bounded by that of the root.
LEMMA HeightsOf ==
    ASSUME NEW nds, NEW top, NEW root, NEW r, Tree(nds, top, root, r)
    PROVE  /\ Heights(nds) \in [NodeId -> Nat]
           /\ \E N \in Nat : \A m \in NodeId : Heights(nds)[m] <= N
<1>1. /\ nds \in [NodeId -> Node] /\ top \in 1 .. MaxNode + 1
      /\ \A m \in NodeId : m \notin Ids(top) => nds[m] = Fresh
      /\ Ids(top) \subseteq NodeId
  BY NodeAssumption DEF Tree, Typed, Ids, NodeId
<1>2. \A m \in NodeId : nds[m].rank \in Int /\ nds[m].rank <= 0
  <2>1. \A m \in Ids(top) : nds[m].rank <= 0
    BY DEF Tree, Parents
  <2> QED BY <1>1, <2>1, FreshNode DEF Node
<1>3. Heights(nds) \in [NodeId -> Nat]
  BY <1>2 DEF Heights
<1>4. CASE Ids(top) = {}
  BY <1>1, <1>4, FreshNode DEF Heights
<1>5. CASE Ids(top) # {}
  <2>1. root \in Ids(top) /\ \A m \in Ids(top) : nds[root].rank <= nds[m].rank
    BY <1>5 DEF Tree, Rooted
  <2>2. 0 - nds[root].rank \in Nat /\ nds[root].rank \in Int
    BY <2>1, <1>1, <1>2
  <2>3. \A m \in NodeId : Heights(nds)[m] <= 0 - nds[root].rank
    BY <1>1, <1>2, <2>1, <2>2, FreshNode DEF Heights
  <2> QED BY <2>2, <2>3, <1>3
<1> QED BY <1>3, <1>4, <1>5

\* Every key has a child to go on to in every inner node.
LEMMA Leads ==
    ASSUME NEW nds, NEW top, NEW root, NEW r, Tree(nds, top, root, r),
           NEW m \in NodeId, ~nds[m].leaf, NEW k \in Key
    PROVE  /\ m \in Ids(top)
           /\ Onward(nds, k)[m] = nds[m].child[Pos(nds[m], k)]
           /\ Onward(nds, k)[m] \in Ids(top)
           /\ nds[Onward(nds, k)[m]].rank = nds[m].rank + 1
<1>1. m \in Ids(top)
  BY FreshNode DEF Tree, Typed, Ids, NodeId
<1>2. Pos(nds[m], k) = Boundary(nds[m], k)
  BY DEF Pos
<1>3. Pos(nds[m], k) \in 0 .. nds[m].n
  BY <1>1, <1>2, NodeFacts, BoundaryIs, KeyAssumption
<1> QED BY <1>1, <1>3 DEF Tree, Parents, Onward

\* The search for k from node m, whatever leaf it leads to, starts there or goes
\* on from its child: LeafFor is defined, since the ranks rise to 0.
LEMMA LeafForIs ==
    ASSUME NEW r, Tree(nodes, next_id, root_id, r), NEW k \in Key, NEW m \in NodeId
    PROVE  LeafFor(m, k) = IF nodes[m].leaf THEN m ELSE LeafFor(Onward(nodes, k)[m], k)
<1> DEFINE L == {c \in NodeId : nodes[c].leaf}
           nx == Onward(nodes, k)
           walk == CHOOSE f : f = [c \in NodeId |->
                       IF nodes[c].leaf THEN c ELSE f[nodes[c].child[Pos(nodes[c], k)]]]
<1>1. \A c : LeafFor(c, k) = walk[c]
  BY DEF LeafFor
<1>2. \E f : IsWalk(f, NodeId, L, nx)
  <2>1. PICK h \in [NodeId -> Nat] : h = Heights(nodes)
    BY HeightsOf
  <2>2. PICK N \in Nat : \A c \in NodeId : h[c] <= N
    BY <2>1, HeightsOf
  <2>3. ASSUME NEW c \in NodeId, c \notin L PROVE nx[c] \in NodeId /\ h[nx[c]] < h[c]
    <3>1. /\ nx[c] \in Ids(next_id) /\ nodes[nx[c]].rank = nodes[c].rank + 1
          /\ nodes \in [NodeId -> Node]
      BY <2>3, Leads DEF Tree, Typed
    <3>2. nx[c] \in NodeId
      BY <3>1, NodeFacts
    <3>3. nodes[c].rank \in Int /\ h[c] = 0 - nodes[c].rank /\ h[nx[c]] = 0 - nodes[nx[c]].rank
      BY <2>1, <3>1, <3>2 DEF Heights, Node
    <3> QED BY <3>1, <3>2, <3>3
  <2> HIDE DEF L, nx, walk
  <2> QED BY <2>1, <2>2, <2>3, WalkExists
<1>3. PICK f : f = [c \in NodeId |-> IF c \in L THEN c ELSE f[nx[c]]]
  BY <1>2 DEF IsWalk
<1>4. f = [c \in NodeId |-> IF nodes[c].leaf THEN c ELSE f[nodes[c].child[Pos(nodes[c], k)]]]
  BY <1>3 DEF Onward
<1>5. walk = [c \in NodeId |-> IF nodes[c].leaf THEN c ELSE walk[nodes[c].child[Pos(nodes[c], k)]]]
  <2>1. \E g : g = [c \in NodeId |-> IF nodes[c].leaf THEN c ELSE g[nodes[c].child[Pos(nodes[c], k)]]]
    BY <1>4
  <2> QED BY <2>1, Zenon
<1>6. walk[m] = IF nodes[m].leaf THEN m ELSE walk[Onward(nodes, k)[m]]
  <2>1. Onward(nodes, k)[m] = nodes[m].child[Pos(nodes[m], k)]
    BY DEF Onward
  <2> HIDE DEF walk
  <2> QED BY <1>5, <2>1
<1> QED BY <1>1, <1>6

\* A search that starts where k passes through ends at the leaf k passes through.
LEMMA SearchEnds ==
    ASSUME NEW r, Tree(nodes, next_id, root_id, r),
           NEW m \in Ids(next_id), NEW k \in r[m]
    PROVE  /\ LeafFor(m, k) \in Ids(next_id) /\ nodes[LeafFor(m, k)].leaf
           /\ k \in r[LeafFor(m, k)]
<1> DEFINE Ends(c) == /\ LeafFor(c, k) \in Ids(next_id) /\ nodes[LeafFor(c, k)].leaf
                      /\ k \in r[LeafFor(c, k)]
           h == Heights(nodes)
           U == {n \in Nat : \A c \in Ids(next_id) : h[c] <= n /\ k \in r[c] => Ends(c)}
<1>1. k \in Key /\ h \in [NodeId -> Nat]
  BY HeightsOf DEF Tree, Keyed
<1>2. \A c \in Ids(next_id) : c \in NodeId /\ h[c] = 0 - nodes[c].rank /\ nodes[c].rank \in Int
  <2>1. \A c \in Ids(next_id) : c \in NodeId
    BY NodeFacts
  <2> QED BY <2>1 DEF Heights, Tree, Typed, Node
<1>3. \A c \in Ids(next_id) : nodes[c].leaf => LeafFor(c, k) = c
  BY <1>1, <1>2, LeafForIs
<1>4. 0 \in U
  <2>1. ASSUME NEW c \in Ids(next_id), h[c] <= 0, k \in r[c] PROVE Ends(c)
    <3>1. nodes[c].rank = 0
      BY <2>1, <1>1, <1>2
    <3>2. nodes[c].leaf
      BY <3>1 DEF Tree, Parents
    <3> QED BY <2>1, <3>2, <1>3
  <2> QED BY <2>1
<1>5. ASSUME NEW n \in Nat, n \in U PROVE n + 1 \in U
  <2>1. ASSUME NEW c \in Ids(next_id), h[c] <= n + 1, k \in r[c], ~nodes[c].leaf PROVE Ends(c)
    <3>1. PICK d : d = Onward(nodes, k)[c]
      OBVIOUS
    <3>2. d \in Ids(next_id) /\ nodes[d].rank = nodes[c].rank + 1 /\ d = nodes[c].child[Pos(nodes[c], k)]
      BY <1>1, <1>2, <2>1, <3>1, Leads
    <3>3. k \in r[d]
      BY <2>1, <3>2, Follow
    <3>4. h[d] <= n
      BY <1>2, <2>1, <3>2
    <3>5. Ends(d)
      BY <1>5, <3>2, <3>3, <3>4
    <3>6. LeafFor(c, k) = LeafFor(d, k)
      BY <1>1, <1>2, <2>1, <3>1, LeafForIs
    <3> QED BY <3>5, <3>6
  <2>2. ASSUME NEW c \in Ids(next_id), k \in r[c], nodes[c].leaf PROVE Ends(c)
    BY <2>2, <1>3
  <2>3. \A c \in Ids(next_id) : h[c] <= n + 1 /\ k \in r[c] => Ends(c)
    BY <2>1, <2>2
  <2> QED BY <2>3
<1>6. h[m] \in U
  <2>1. h[m] \in Nat
    BY <1>1, <1>2
  <2> HIDE DEF U, h
  <2> QED BY <1>4, <1>5, <2>1, NatSet
<1>7. h[m] <= h[m]
  BY <1>1, <1>2
<1> QED BY <1>6, <1>7

\* Wherever k passes through, the search for it ends at the same leaf.
LEMMA OneLeaf ==
    ASSUME NEW r, Tree(nodes, next_id, root_id, r),
           NEW a \in Ids(next_id), NEW c \in Ids(next_id), NEW k, k \in r[a], k \in r[c]
    PROVE  LeafFor(a, k) = LeafFor(c, k)
<1>1. PICK x, y : x = LeafFor(a, k) /\ y = LeafFor(c, k)
  OBVIOUS
<1>2. /\ x \in Ids(next_id) /\ nodes[x].leaf /\ k \in r[x]
      /\ y \in Ids(next_id) /\ nodes[y].leaf /\ k \in r[y]
  BY <1>1, SearchEnds
<1>3. nodes[x].rank = nodes[y].rank
  BY <1>2 DEF Tree, Parents
<1> QED BY <1>1, <1>2, <1>3, SameNode

\* What a leaf holds is found by a search from the root.
LEMMA ReachableHolds == IInv => EveryKeyReachable
<1> SUFFICES ASSUME IInv, NEW id \in Leaves, NEW k \in KeysOf(id)
             PROVE  LeafFor(root_id, k) = id
  BY DEF EveryKeyReachable
<1>1. PICK r : Holding(r)
  BY DEF IInv, Holding
<1>2. Tree(nodes, next_id, root_id, r)
  BY <1>1 DEF Holding
<1>3. id \in Ids(next_id) /\ nodes[id].leaf /\ id \in NodeId
  BY <1>2, NodeFacts DEF Leaves, Allocated, Ids
<1>4. k \in r[id] /\ k \in Key
  BY <1>2, <1>3 DEF KeysOf, Tree, Keyed
<1>5. root_id \in Ids(next_id) /\ k \in r[root_id]
  BY <1>2, <1>3, <1>4 DEF Tree, Rooted
<1>6. LeafFor(root_id, k) = LeafFor(id, k)
  BY <1>2, <1>3, <1>4, <1>5, OneLeaf
<1> QED BY <1>2, <1>3, <1>4, <1>6, LeafForIs

\* No operation hides a key: the descent that search, insert and remove make
\* ends at the one leaf that holds it, also between the steps of an insertion.
THEOREM KeysStayReachable == Spec => []EveryKeyReachable
  BY Invariance, ReachableHolds, PTL

\* Where an operation is, its key passes through.
LEMMA TrackHolds == IInv => DescentOnTrack
<1> SUFFICES ASSUME IInv, op.node # NoNode
             PROVE  LeafFor(op.node, op.key) = LeafFor(root_id, op.key)
  BY DEF DescentOnTrack
<1>1. PICK r : Holding(r)
  BY DEF IInv, Holding
<1>2. Tree(nodes, next_id, root_id, r) /\ op.node \in Ids(next_id) /\ op.key \in r[op.node]
  BY <1>1, RootThere DEF Holding, Reached
<1>3. root_id \in Ids(next_id) /\ op.key \in r[root_id]
  BY <1>2 DEF Tree, Rooted, Keyed
<1> QED BY <1>2, <1>3, OneLeaf

\* What an operation splits on its way down does not lead it astray.
THEOREM OnTrack == Spec => []DescentOnTrack
  BY Invariance, TrackHolds, PTL

\* Above orders the nodes.
LEMMA AboveOrders ==
    ASSUME NEW nds, NEW top, NEW root, NEW r, Tree(nds, top, root, r),
           NEW a \in Ids(top), NEW c \in Ids(top)
    PROVE  /\ ~Above(r, a, a)
           /\ \A d \in Ids(top) : Above(r, a, c) /\ Above(r, c, d) => Above(r, a, d)
<1>1. \A e \in Ids(top) : r[e] # {} /\ r[e] \subseteq Int
  BY KeyAssumption DEF Tree, Keyed
<1>2. ~Above(r, a, a)
  <2>1. PICK k \in r[a] : ~(k < k)
    BY <1>1
  <2> QED BY <2>1 DEF Above
<1>3. ASSUME NEW d \in Ids(top), Above(r, a, c), Above(r, c, d) PROVE Above(r, a, d)
  <2>1. PICK l \in r[c] : l \in Int
    BY <1>1
  <2>2. ASSUME NEW k \in r[a], NEW m \in r[d] PROVE k < m
    <3>1. k \in Int /\ m \in Int /\ k < l /\ l < m
      BY <1>1, <1>3, <2>1 DEF Above
    <3> QED BY <3>1, <2>1
  <2> QED BY <2>2 DEF Above
<1> QED BY <1>2, <1>3

\* The one node of a level that has none to its left has the lowest keys: from
\* any other the links would lead to nodes ever closer to it.
LEMMA LeftMost ==
    ASSUME NEW nds, NEW top, NEW root, NEW r, Tree(nds, top, root, r),
           NEW x \in Ids(top), nds[x].left = NoNode,
           NEW c \in Ids(top), nds[c].rank = nds[x].rank, c # x
    PROVE  Above(r, x, c)
<1>1. SUFFICES ASSUME Above(r, c, x) PROVE FALSE
  BY DEF Tree, Apart
<1> DEFINE T == {d \in Ids(top) : nds[d].rank = nds[x].rank /\ Above(r, d, x)}
           M(d) == {e \in T : Above(r, d, e)}
           Z == {Cardinality(M(d)) : d \in T}
<1>2. ASSUME NEW d \in T
      PROVE  nds[d].right \in T /\ Above(r, d, nds[d].right)
  <2>1. /\ nds[d].right # NoNode
        /\ x = nds[d].right \/ Above(r, nds[d].right, x)
    BY DEF Tree, Linked
  <2>2. /\ nds[d].right \in Ids(top) /\ nds[nds[d].right].rank = nds[d].rank
        /\ nds[nds[d].right].left = d /\ Above(r, d, nds[d].right)
    BY <2>1 DEF Tree, Linked
  <2>3. d # NoNode
    BY NodeFacts
  <2> QED BY <2>1, <2>2, <2>3
<1>3. IsFiniteSet(T)
  <2>1. top - 1 \in Int /\ T \subseteq 1 .. top - 1
    BY DEF Ids, Tree, Typed
  <2>2. IsFiniteSet(1 .. top - 1)
    BY <2>1, FS_Interval
  <2> QED BY <2>1, <2>2, FS_Subset
<1>4. \A d \in T : IsFiniteSet(M(d)) /\ Cardinality(M(d)) \in Nat
  <2>1. \A d \in T : M(d) \in SUBSET T
    OBVIOUS
  <2> HIDE DEF M, T
  <2> QED BY <1>3, <2>1, FS_Subset, FS_CardinalityType
<1>5. ASSUME NEW d \in T PROVE \E e \in T : Cardinality(M(e)) < Cardinality(M(d))
  <2>1. PICK e \in T : e = nds[d].right /\ Above(r, d, e)
    BY <1>2
  <2>2. e \in M(d) /\ e \notin M(e) /\ M(e) \in SUBSET M(d)
    <3>1. ~Above(r, e, e) /\ \A f \in T : Above(r, d, e) /\ Above(r, e, f) => Above(r, d, f)
      BY AboveOrders
    <3> QED BY <2>1, <3>1
  <2>3. M(e) # M(d)
    BY <2>2
  <2>4. Cardinality(M(e)) <= Cardinality(M(d)) /\ Cardinality(M(e)) # Cardinality(M(d))
    <3> HIDE DEF M, T
    <3> QED BY <1>4, <2>2, <2>3, FS_Subset
  <2>5. Cardinality(M(e)) \in Nat /\ Cardinality(M(d)) \in Nat
    BY <1>4
  <2>6. Cardinality(M(e)) < Cardinality(M(d))
    <3> HIDE DEF M
    <3> QED BY <2>4, <2>5
  <2> QED BY <2>6
<1>6. c \in T
  BY <1>1
<1>7. Z \in SUBSET Nat /\ Z # {}
  <2> HIDE DEF M, T
  <2> QED BY <1>4, <1>6
<1>8. PICK z \in Z : \A y \in Z : z <= y
  <2> HIDE DEF Z
  <2> QED BY <1>7, Least
<1>9. PICK d \in T : z = Cardinality(M(d))
  BY <1>8
<1>10. PICK e \in T : Cardinality(M(e)) < z
  BY <1>5, <1>9
<1>11. Cardinality(M(e)) \in Z /\ z \in Nat /\ Cardinality(M(e)) \in Nat
  BY <1>4, <1>7
<1>12. z <= Cardinality(M(e))
  BY <1>8, <1>11
<1> HIDE DEF M, T
<1> QED BY <1>10, <1>11, <1>12

\* c[s] is a after s steps g.
Iterates(c, Q, a, g, N) ==
    c \in [0 .. N -> Q] /\ c[0] = a /\ \A s \in 1 .. N : c[s] = g[c[s - 1]]

\* Repeating a step a number of times is a function of how often.
LEMMA IterateExists ==
    ASSUME NEW Q, NEW a \in Q, NEW g \in [Q -> Q], NEW N \in Nat
    PROVE  \E c : Iterates(c, Q, a, g, N)
<1> DEFINE U == {n \in Nat : \E c : Iterates(c, Q, a, g, n)}
<1>1. 0 \in U
  <2>1. Iterates([s \in 0 .. 0 |-> a], Q, a, g, 0)
    BY DEF Iterates
  <2> QED BY <2>1
<1>2. ASSUME NEW n \in Nat, n \in U PROVE n + 1 \in U
  <2>1. PICK c : Iterates(c, Q, a, g, n)
    BY <1>2
  <2>2. PICK d : d = [s \in 0 .. n + 1 |-> IF s = n + 1 THEN g[c[n]] ELSE c[s]]
    OBVIOUS
  <2>3. \A s \in 0 .. n + 1 : s # n + 1 => s \in 0 .. n /\ d[s] = c[s]
    BY <2>2
  <2>4. d[n + 1] = g[c[n]] /\ n \in 0 .. n /\ c[n] \in Q
    BY <2>1, <2>2 DEF Iterates
  <2>5. d \in [0 .. n + 1 -> Q]
    BY <2>1, <2>2, <2>3, <2>4 DEF Iterates
  <2>6. \A s \in 1 .. n + 1 : s - 1 \in 0 .. n /\ d[s - 1] = c[s - 1]
    BY <2>3
  <2>7. \A s \in 1 .. n + 1 : d[s] = g[d[s - 1]]
    <3>1. ASSUME NEW s \in 1 .. n + 1 PROVE d[s] = g[d[s - 1]]
      <4>1. CASE s = n + 1
        <5>1. s - 1 = n
          BY <4>1
        <5> QED BY <4>1, <5>1, <2>4, <2>6
      <4>2. CASE s # n + 1
        <5>1. s \in 1 .. n /\ s \in 0 .. n + 1
          BY <4>2
        <5> QED BY <4>2, <5>1, <2>1, <2>3, <2>6 DEF Iterates
      <4> QED BY <4>1, <4>2
    <3> QED BY <3>1
  <2>8. d[0] = a
    BY <2>1, <2>3 DEF Iterates
  <2>9. Iterates(d, Q, a, g, n + 1)
    BY <2>5, <2>7, <2>8 DEF Iterates
  <2> QED BY <2>9
<1>3. N \in U
  <2> HIDE DEF U
  <2> QED BY <1>1, <1>2, NatSet
<1> QED BY <1>3

\* The leaves of the links: one more at the end of q, if its last leaf has a
\* right neighbour.
Longer(nds, q) == IF nds[q[Len(q)]].right = NoNode THEN q ELSE Append(q, nds[q[Len(q)]].right)
Down(nds)      == [m \in NodeId |-> nds[m].child[0]]
Bottom(nds)    == {m \in NodeId : nds[m].leaf}

\* The left-most children lead to a leaf with none to its left.
LEMMA FirstLeaf ==
    ASSUME NEW nds, NEW top, NEW root, NEW r, Tree(nds, top, root, r), root \in Ids(top),
           NEW f, IsWalk(f, NodeId, Bottom(nds), Down(nds))
    PROVE  f[root] \in Ids(top) /\ nds[f[root]].leaf /\ nds[f[root]].left = NoNode
<1> DEFINE Ends(m) == f[m] \in Ids(top) /\ nds[f[m]].leaf /\ nds[f[m]].left = NoNode
           h == Heights(nds)
           U == {n \in Nat : \A m \in Ids(top) : h[m] <= n /\ nds[m].left = NoNode => Ends(m)}
<1>1. h \in [NodeId -> Nat]
  BY HeightsOf
<1>2. \A m \in Ids(top) : m \in NodeId /\ h[m] = 0 - nds[m].rank /\ nds[m].rank \in Int
  <2>1. \A m \in Ids(top) : m \in NodeId
    BY NodeFacts
  <2> QED BY <2>1 DEF Heights, Tree, Typed, Node
<1>3. \A m \in NodeId : f[m] = IF nds[m].leaf THEN m ELSE f[nds[m].child[0]]
  <2>1. \A m \in NodeId : (m \in Bottom(nds) <=> nds[m].leaf) /\ Down(nds)[m] = nds[m].child[0]
    BY DEF Bottom, Down
  <2>2. \A m \in NodeId : f[m] = IF m \in Bottom(nds) THEN m ELSE f[Down(nds)[m]]
    BY DEF IsWalk
  <2> QED BY <2>1, <2>2
<1>4. \A m \in Ids(top) : nds[m].leaf /\ nds[m].left = NoNode => Ends(m)
  BY <1>2, <1>3
<1>5. 0 \in U
  <2>1. ASSUME NEW m \in Ids(top), h[m] <= 0, nds[m].left = NoNode PROVE Ends(m)
    <3>1. nds[m].rank = 0
      BY <2>1, <1>1, <1>2
    <3>2. nds[m].leaf
      BY <3>1 DEF Tree, Parents
    <3> QED BY <2>1, <3>2, <1>4
  <2> QED BY <2>1
<1>6. ASSUME NEW n \in Nat, n \in U PROVE n + 1 \in U
  <2>1. ASSUME NEW m \in Ids(top), h[m] <= n + 1, nds[m].left = NoNode, ~nds[m].leaf
        PROVE  Ends(m)
    <3>1. PICK d : d = nds[m].child[0]
      OBVIOUS
    <3>2. d \in Ids(top) /\ nds[d].rank = nds[m].rank + 1 /\ nds[d].left = NoNode
      <4>1. 0 \in 0 .. nds[m].n
        BY NodeFacts
      <4> QED BY <2>1, <3>1, <4>1 DEF Tree, Parents
    <3>3. h[d] <= n
      BY <1>2, <2>1, <3>2
    <3>4. Ends(d)
      BY <1>6, <3>2, <3>3
    <3>5. f[m] = f[d]
      BY <1>2, <1>3, <2>1, <3>1
    <3> QED BY <3>4, <3>5
  <2>2. \A m \in Ids(top) : h[m] <= n + 1 /\ nds[m].left = NoNode => Ends(m)
    BY <2>1, <1>4
  <2> QED BY <2>2
<1>7. h[root] \in U
  <2>1. h[root] \in Nat
    BY <1>1, <1>2
  <2> HIDE DEF U, h
  <2> QED BY <1>5, <1>6, <2>1, NatSet
<1>8. h[root] <= h[root] /\ nds[root].left = NoNode
  BY <1>1, <1>2, RootLeft
<1> QED BY <1>7, <1>8

\* LeafChain is what those two definitions say: the left-most leaf, and its
\* right neighbours as far as MaxNode links lead.
LEMMA ChainIs ==
    ASSUME NEW r, Tree(nodes, next_id, root_id, r), root_id \in Ids(next_id)
    PROVE  \E x \in Ids(next_id) :
              /\ nodes[x].leaf /\ nodes[x].left = NoNode
              /\ \E c : /\ c[0] = <<x>>
                        /\ \A s \in 1 .. MaxNode : c[s] = Longer(nodes, c[s - 1])
                        /\ LeafChain = c[MaxNode]
<1> DEFINE first == CHOOSE f : f = [m \in NodeId |-> IF nodes[m].leaf THEN m ELSE f[nodes[m].child[0]]]
           chain == CHOOSE c : c = [s \in 0 .. MaxNode |->
                       IF s = 0 THEN <<first[root_id]>>
                       ELSE LET before == c[s - 1]
                                next == nodes[before[Len(before)]].right
                            IN IF next = NoNode THEN before ELSE Append(before, next)]
<1>1. LeafChain = chain[MaxNode]
  <2>1. root_id # NoNode
    BY NodeFacts
  <2> QED BY <2>1 DEF LeafChain
<1>2. \E f : IsWalk(f, NodeId, Bottom(nodes), Down(nodes))
  <2>1. PICK h \in [NodeId -> Nat] : h = Heights(nodes)
    BY HeightsOf
  <2>2. PICK N \in Nat : \A m \in NodeId : h[m] <= N
    BY <2>1, HeightsOf
  <2>3. ASSUME NEW m \in NodeId, m \notin Bottom(nodes)
        PROVE  Down(nodes)[m] \in NodeId /\ h[Down(nodes)[m]] < h[m]
    <3>1. m \in Ids(next_id) /\ ~nodes[m].leaf /\ Down(nodes)[m] = nodes[m].child[0]
      BY <2>3, FreshNode DEF Tree, Typed, Ids, NodeId, Bottom, Down
    <3>2. 0 \in 0 .. nodes[m].n
      BY <3>1, NodeFacts
    <3>3. /\ Down(nodes)[m] \in Ids(next_id)
          /\ nodes[Down(nodes)[m]].rank = nodes[m].rank + 1
      BY <3>1, <3>2 DEF Tree, Parents
    <3>4. Down(nodes)[m] \in NodeId /\ nodes[m].rank \in Int
      BY <3>1, <3>3, NodeFacts DEF Node
    <3>5. h[m] = 0 - nodes[m].rank /\ h[Down(nodes)[m]] = 0 - nodes[Down(nodes)[m]].rank
      BY <2>1, <3>4 DEF Heights
    <3> QED BY <3>3, <3>4, <3>5
  <2> HIDE DEF first, chain
  <2> QED BY <2>1, <2>2, <2>3, WalkExists
<1>3. IsWalk(first, NodeId, Bottom(nodes), Down(nodes))
  <2>1. \A f : IsWalk(f, NodeId, Bottom(nodes), Down(nodes))
               <=> f = [m \in NodeId |-> IF nodes[m].leaf THEN m ELSE f[nodes[m].child[0]]]
    BY DEF IsWalk, Bottom, Down
  <2>2. \E f : f = [m \in NodeId |-> IF nodes[m].leaf THEN m ELSE f[nodes[m].child[0]]]
    <3> HIDE DEF first, chain
    <3> QED BY <1>2, <2>1
  <2>3. first = [m \in NodeId |-> IF nodes[m].leaf THEN m ELSE first[nodes[m].child[0]]]
    <3> HIDE DEF chain
    <3> QED BY <2>2, Zenon
  <2> HIDE DEF first, chain
  <2> QED BY <2>1, <2>3
<1>4. PICK x : x = first[root_id]
  OBVIOUS
<1>5. x \in Ids(next_id) /\ nodes[x].leaf /\ nodes[x].left = NoNode
  <2> HIDE DEF first, chain
  <2> QED BY <1>3, <1>4, FirstLeaf
<1>6. PICK Q : Q = Seq(NodeId) \ {<<>>}
  OBVIOUS
<1>7. PICK g : g = [q \in Q |-> Longer(nodes, q)]
  OBVIOUS
<1>8. g \in [Q -> Q] /\ <<x>> \in Q
  <2>1. nodes \in [NodeId -> Node] /\ x \in NodeId
    BY <1>5, NodeFacts DEF Tree, Typed
  <2>2. ASSUME NEW q \in Q PROVE Longer(nodes, q) \in Q
    <3>1. q \in Seq(NodeId) /\ q[Len(q)] \in NodeId
      BY <1>6
    <3>2. nodes[q[Len(q)]].right \in NodeId \cup {NoNode}
      BY <2>1, <3>1 DEF Node
    <3>3. PICK m : m = nodes[q[Len(q)]].right
      OBVIOUS
    <3>4. m # NoNode => Append(q, m) \in Q
      BY <1>6, <3>1, <3>2, <3>3
    <3> QED BY <3>3, <3>4 DEF Longer
  <2> HIDE DEF first, chain
  <2> QED BY <2>1, <2>2, <1>6, <1>7
<1>9. PICK c : /\ c \in [0 .. MaxNode -> Q]
               /\ c[0] = <<x>> /\ \A s \in 1 .. MaxNode : c[s] = g[c[s - 1]]
  <2>1. \E d : Iterates(d, Q, <<x>>, g, MaxNode)
    <3> HIDE DEF first, chain
    <3> QED BY <1>8, NodeAssumption, IterateExists
  <2> QED BY <2>1 DEF Iterates
<1>10. c = [s \in 0 .. MaxNode |->
               IF s = 0 THEN <<first[root_id]>>
               ELSE LET before == c[s - 1]
                        next == nodes[before[Len(before)]].right
                    IN IF next = NoNode THEN before ELSE Append(before, next)]
  <2>1. ASSUME NEW s \in 0 .. MaxNode, s # 0
        PROVE  c[s] = IF nodes[c[s - 1][Len(c[s - 1])]].right = NoNode THEN c[s - 1]
                      ELSE Append(c[s - 1], nodes[c[s - 1][Len(c[s - 1])]].right)
    <3>1. s \in 1 .. MaxNode /\ s - 1 \in 0 .. MaxNode
      BY <2>1, NodeAssumption
    <3>2. c[s] = g[c[s - 1]] /\ c[s - 1] \in Q
      BY <3>1, <1>9
    <3> QED BY <3>2, <1>7 DEF Longer
  <2>2. c[0] = <<first[root_id]>>
    BY <1>4, <1>9
  <2> HIDE DEF first, chain
  <2> QED BY <2>1, <2>2, <1>9
<1>11. \E d : d = [s \in 0 .. MaxNode |->
               IF s = 0 THEN <<first[root_id]>>
               ELSE LET before == d[s - 1]
                        next == nodes[before[Len(before)]].right
                    IN IF next = NoNode THEN before ELSE Append(before, next)]
  <2> HIDE DEF first, chain
  <2> QED BY <1>10, Zenon
<1>12. chain = [s \in 0 .. MaxNode |->
               IF s = 0 THEN <<first[root_id]>>
               ELSE LET before == chain[s - 1]
                        next == nodes[before[Len(before)]].right
                    IN IF next = NoNode THEN before ELSE Append(before, next)]
  <2> HIDE DEF first
  <2> QED BY <1>11, Zenon
<1>13. /\ chain[0] = <<x>>
       /\ \A s \in 1 .. MaxNode : chain[s] = Longer(nodes, chain[s - 1])
  <2>1. 0 \in 0 .. MaxNode /\ \A s \in 1 .. MaxNode : s \in 0 .. MaxNode /\ s # 0
    BY NodeAssumption
  <2> HIDE DEF first, chain
  <2> QED BY <2>1, <1>4, <1>12, Zenon DEF Longer
<1> HIDE DEF first, chain
<1> QED BY <1>1, <1>5, <1>13

\* q runs along the links from a left-most leaf: s + 1 leaves, or all there are;
\* the leaves it has not come to yet are above its last.
Chained(nds, top, r, q, s) ==
    /\ q \in Seq(Ids(top)) /\ Len(q) >= 1
    /\ \A i \in 1 .. Len(q) : nds[q[i]].leaf
    /\ \A i \in 1 .. Len(q) : nds[q[i]].left = IF i = 1 THEN NoNode ELSE q[i - 1]
    /\ \A i, j \in 1 .. Len(q) : i < j => Above(r, q[i], q[j])
    /\ \A c \in Ids(top) : nds[c].leaf => \/ \E i \in 1 .. Len(q) : c = q[i]
                                          \/ Above(r, q[Len(q)], c)
    /\ Len(q) = s + 1 \/ nds[q[Len(q)]].right = NoNode

\* At first it is that leaf.
LEMMA ChainStarts ==
    ASSUME NEW nds, NEW top, NEW root, NEW r, Tree(nds, top, root, r),
           NEW x \in Ids(top), nds[x].leaf, nds[x].left = NoNode
    PROVE  Chained(nds, top, r, <<x>>, 0)
<1>1. \A c \in Ids(top) : nds[c].leaf => c = x \/ Above(r, x, c)
  <2>1. \A c \in Ids(top) : nds[c].leaf => nds[c].rank = nds[x].rank
    BY DEF Tree, Parents
  <2> QED BY <2>1, LeftMost
<1>2. PICK q : q = <<x>>
  OBVIOUS
<1>3. q \in Seq(Ids(top)) /\ Len(q) = 1 /\ q[1] = x
  BY <1>2
<1>4. Chained(nds, top, r, q, 0)
  BY <1>1, <1>3 DEF Chained
<1> QED BY <1>2, <1>4

\* Each link adds the next leaf above.
LEMMA ChainGrows ==
    ASSUME NEW nds, NEW top, NEW root, NEW r, Tree(nds, top, root, r),
           NEW s \in Nat, NEW q, Chained(nds, top, r, q, s)
    PROVE  Chained(nds, top, r, Longer(nds, q), s + 1)
<1>1. PICK n \in Nat : n = Len(q) /\ n >= 1
  BY DEF Chained
<1>2. /\ q \in Seq(Ids(top)) /\ n \in 1 .. Len(q) /\ q[n] \in Ids(top) /\ nds[q[n]].leaf
      /\ \A i \in 1 .. n : q[i] \in Ids(top)
  BY <1>1 DEF Chained
<1>3. CASE nds[q[n]].right = NoNode
  <2>1. Longer(nds, q) = q
    BY <1>1, <1>3 DEF Longer
  <2> QED BY <2>1, <1>1, <1>3 DEF Chained
<1>4. CASE nds[q[n]].right # NoNode
  <2>1. PICK x, p : x = nds[q[n]].right /\ p = Append(q, x)
    OBVIOUS
  <2>2. /\ x \in Ids(top) /\ nds[x].rank = nds[q[n]].rank /\ nds[x].left = q[n]
        /\ Above(r, q[n], x)
    BY <1>2, <1>4, <2>1 DEF Tree, Linked
  <2>3. nds[x].leaf
    BY <1>2, <2>2 DEF Tree, Parents
  <2>4. /\ p \in Seq(Ids(top)) /\ Len(p) = n + 1 /\ p[n + 1] = x
        /\ \A i \in 1 .. n : p[i] = q[i]
    BY <1>1, <1>2, <2>1, <2>2
  <2>5. \A i \in 1 .. n + 1 : i \in 1 .. n \/ i = n + 1
    BY <1>1
  <2>6. \A i \in 1 .. n + 1 : nds[p[i]].leaf
    BY <2>3, <2>4, <2>5, <1>1 DEF Chained
  <2>7. ASSUME NEW i \in 1 .. n + 1
        PROVE  nds[p[i]].left = IF i = 1 THEN NoNode ELSE p[i - 1]
    <3>1. CASE i \in 1 .. n
      <4>1. i # 1 => i - 1 \in 1 .. n
        BY <3>1
      <4>2. nds[q[i]].left = IF i = 1 THEN NoNode ELSE q[i - 1]
        BY <3>1, <1>1 DEF Chained
      <4> QED BY <3>1, <4>1, <4>2, <2>4
    <3>2. CASE i = n + 1
      <4>1. i # 1 /\ i - 1 = n /\ n \in 1 .. n
        BY <3>2, <1>1
      <4> QED BY <3>2, <4>1, <2>2, <2>4
    <3> QED BY <3>1, <3>2, <2>5
  <2>8. ASSUME NEW i \in 1 .. n + 1, NEW j \in 1 .. n + 1, i < j
        PROVE  Above(r, p[i], p[j])
    <3>1. i \in 1 .. n
      BY <2>8, <1>1
    <3>2. CASE j \in 1 .. n
      BY <3>1, <3>2, <2>4, <2>8, <1>1 DEF Chained
    <3>3. CASE j = n + 1
      <4>1. i = n \/ Above(r, q[i], q[n])
        BY <3>1, <1>1 DEF Chained
      <4>2. Above(r, q[i], x)
        BY <4>1, <3>1, <1>2, <2>2, AboveOrders
      <4> QED BY <4>2, <3>1, <3>3, <2>4
    <3> QED BY <3>2, <3>3, <2>5
  <2>9. ASSUME NEW c \in Ids(top), nds[c].leaf
        PROVE  (\E i \in 1 .. n + 1 : c = p[i]) \/ Above(r, p[n + 1], c)
    <3>1. (\E i \in 1 .. n : c = q[i]) \/ Above(r, q[n], c)
      BY <2>9, <1>1 DEF Chained
    <3>2. ASSUME NEW i \in 1 .. n, c = q[i] PROVE \E j \in 1 .. n + 1 : c = p[j]
      <4>1. i \in 1 .. n + 1
        BY <1>1
      <4> QED BY <3>2, <4>1, <2>4
    <3>3. ASSUME Above(r, q[n], c) PROVE c = x \/ Above(r, x, c)
      <4>1. nds[q[n]].rank = nds[c].rank
        BY <1>2, <2>9 DEF Tree, Parents
      <4> QED BY <4>1, <3>3, <1>2, <2>1 DEF Tree, Linked
    <3>4. n + 1 \in 1 .. n + 1
      BY <1>1
    <3> QED BY <3>1, <3>2, <3>3, <3>4, <2>4
  <2>10. n = s + 1
    BY <1>1, <1>4 DEF Chained
  <2>11. Chained(nds, top, r, p, s + 1)
    <3>1. Len(p) = n + 1 /\ Len(p) >= 1 /\ Len(p) = (s + 1) + 1
      BY <2>4, <2>10, <1>1
    <3> QED BY <3>1, <2>4, <2>6, <2>7, <2>8, <2>9 DEF Chained
  <2>12. Longer(nds, q) = p
    BY <1>1, <1>4, <2>1 DEF Longer
  <2> QED BY <2>11, <2>12
<1> QED BY <1>3, <1>4

\* As many links as there are ids lead past every leaf.
LEMMA ChainEnds ==
    ASSUME NEW nds, NEW top, NEW root, NEW r, Tree(nds, top, root, r),
           NEW q, Chained(nds, top, r, q, MaxNode)
    PROVE  \A c \in Ids(top) : nds[c].leaf => \E i \in 1 .. Len(q) : c = q[i]
<1>1. PICK n \in Nat : n = Len(q) /\ n >= 1
  BY DEF Chained
<1>2. q \in Seq(Ids(top)) /\ \A i \in 1 .. n : q[i] \in Ids(top) /\ q[i] \in NodeId
  <2>1. q \in Seq(Ids(top)) /\ \A i \in 1 .. n : q[i] \in Ids(top)
    BY <1>1 DEF Chained
  <2> QED BY <2>1, NodeFacts
<1>3. \A i, j \in 1 .. n : i < j => Above(r, q[i], q[j])
  BY <1>1 DEF Chained
<1>4. \A i, j \in 1 .. n : i # j => q[i] # q[j]
  <2>1. ASSUME NEW i \in 1 .. n, NEW j \in 1 .. n, i < j PROVE q[i] # q[j]
    BY <2>1, <1>2, <1>3, AboveOrders
  <2> QED BY <2>1
<1>5. n # MaxNode + 1
  <2>1. SUFFICES ASSUME n = MaxNode + 1 PROVE FALSE
    OBVIOUS
  <2>2. /\ IsFiniteSet(1 .. n) /\ Cardinality(1 .. n) = n
        /\ IsFiniteSet(1 .. MaxNode) /\ Cardinality(1 .. MaxNode) = MaxNode
    <3>1. 1 \in Int /\ n \in Int /\ MaxNode \in Int /\ ~(1 > n) /\ n - 1 + 1 = n
          /\ MaxNode - 1 + 1 = MaxNode /\ (1 > MaxNode => MaxNode = 0)
      BY <1>1, NodeAssumption
    <3> QED BY <3>1, FS_Interval
  <2>3. Cardinality(1 .. MaxNode) < Cardinality(1 .. n)
    BY <2>1, <2>2, NodeAssumption
  <2>4. PICK f : f = [i \in 1 .. n |-> q[i]]
    OBVIOUS
  <2>5. f \in [1 .. n -> 1 .. MaxNode]
    BY <1>2, <2>4 DEF NodeId
  <2>6. PICK i, j \in 1 .. n : i # j /\ f[i] = f[j]
    BY <2>2, <2>3, <2>5, FS_PigeonHole
  <2> QED BY <2>4, <2>6, <1>4
<1>6. nds[q[n]].right = NoNode /\ q[n] \in Ids(top) /\ nds[q[n]].leaf
  <2>1. n \in 1 .. n
    BY <1>1
  <2> QED BY <2>1, <1>1, <1>2, <1>5 DEF Chained
<1>7. ASSUME NEW c \in Ids(top), nds[c].leaf PROVE ~Above(r, q[n], c)
  <2>1. nds[q[n]].rank = nds[c].rank
    BY <1>6, <1>7 DEF Tree, Parents
  <2> QED BY <2>1, <1>6 DEF Tree, Linked
<1> QED BY <1>1, <1>7 DEF Chained

\* The chain of the tree.
LEMMA ChainHolds ==
    ASSUME NEW r, Tree(nodes, next_id, root_id, r), root_id \in Ids(next_id)
    PROVE  Chained(nodes, next_id, r, LeafChain, MaxNode)
<1>1. PICK x \in Ids(next_id) :
         /\ nodes[x].leaf /\ nodes[x].left = NoNode
         /\ \E c : /\ c[0] = <<x>>
                   /\ \A s \in 1 .. MaxNode : c[s] = Longer(nodes, c[s - 1])
                   /\ LeafChain = c[MaxNode]
  BY ChainIs
<1>2. PICK c : /\ c[0] = <<x>>
               /\ \A s \in 1 .. MaxNode : c[s] = Longer(nodes, c[s - 1])
               /\ LeafChain = c[MaxNode]
  BY <1>1
<1> DEFINE U == {n \in Nat : n <= MaxNode => Chained(nodes, next_id, r, c[n], n)}
<1>3. 0 \in U
  BY <1>1, <1>2, ChainStarts
<1>4. ASSUME NEW n \in Nat, n \in U PROVE n + 1 \in U
  <2>1. ASSUME n + 1 <= MaxNode PROVE Chained(nodes, next_id, r, c[n + 1], n + 1)
    <3>1. n + 1 \in 1 .. MaxNode /\ n <= MaxNode /\ (n + 1) - 1 = n
      BY <2>1, NodeAssumption
    <3>2. c[n + 1] = Longer(nodes, c[n])
      BY <3>1, <1>2
    <3>3. Chained(nodes, next_id, r, c[n], n)
      BY <3>1, <1>4
    <3> QED BY <3>2, <3>3, ChainGrows
  <2> QED BY <2>1
<1>5. MaxNode \in U
  <2> HIDE DEF U
  <2> QED BY <1>3, <1>4, NodeAssumption, NatSet
<1> QED BY <1>2, <1>5, NodeAssumption

\* What the iterators walk over is the leaves, in the order of the keys.
LEMMA ChainedHolds == IInv => LeavesChained
<1> SUFFICES ASSUME IInv PROVE LeavesChained
  OBVIOUS
<1>1. PICK r : Holding(r)
  BY DEF IInv, Holding
<1>2. Tree(nodes, next_id, root_id, r)
  BY <1>1 DEF Holding
<1>3. PICK q : q = LeafChain
  OBVIOUS
<1>4. SUFFICES /\ {q[i] : i \in DOMAIN q} = Leaves
               /\ \A i, j \in DOMAIN q : i < j =>
                    /\ q[i] # q[j]
                    /\ \A k \in KeysOf(q[i]), l \in KeysOf(q[j]) : k < l
               /\ \A i \in DOMAIN q : nodes[q[i]].left = IF i = 1 THEN NoNode ELSE q[i - 1]
  BY <1>3 DEF LeavesChained
<1>5. CASE root_id = NoNode
  <2>1. q = <<>> /\ DOMAIN q = {}
    BY <1>3, <1>5 DEF LeafChain
  <2>2. Leaves = {}
    BY <1>1, <1>5, RootThere DEF Leaves, Allocated
  <2> QED BY <2>1, <2>2
<1>6. CASE root_id # NoNode
  <2>1. Chained(nodes, next_id, r, q, MaxNode)
    BY <1>1, <1>2, <1>3, <1>6, RootThere, ChainHolds
  <2>2. q \in Seq(Ids(next_id)) /\ DOMAIN q = 1 .. Len(q) /\ \A i \in 1 .. Len(q) : q[i] \in Ids(next_id)
    BY <2>1 DEF Chained
  <2>3. {q[i] : i \in DOMAIN q} = Leaves
    <3>1. \A c \in Leaves : \E i \in 1 .. Len(q) : c = q[i]
      BY <1>2, <2>1, ChainEnds DEF Leaves, Allocated, Ids
    <3>2. \A i \in 1 .. Len(q) : q[i] \in Leaves
      BY <2>1, <2>2 DEF Chained, Leaves, Allocated, Ids
    <3> QED BY <2>2, <3>1, <3>2
  <2>4. ASSUME NEW i \in DOMAIN q, NEW j \in DOMAIN q, i < j
        PROVE  /\ q[i] # q[j]
               /\ \A k \in KeysOf(q[i]), l \in KeysOf(q[j]) : k < l
    <3>1. q[i] \in Ids(next_id) /\ q[j] \in Ids(next_id) /\ Above(r, q[i], q[j])
      BY <2>1, <2>2, <2>4 DEF Chained
    <3>2. q[i] # q[j]
      BY <1>2, <3>1, AboveOrders
    <3>3. KeysOf(q[i]) \subseteq r[q[i]] /\ KeysOf(q[j]) \subseteq r[q[j]]
      BY <1>2, <3>1 DEF KeysOf, Tree, Keyed
    <3> QED BY <3>1, <3>2, <3>3 DEF Above
  <2>5. \A i \in DOMAIN q : nodes[q[i]].left = IF i = 1 THEN NoNode ELSE q[i - 1]
    BY <2>1, <2>2 DEF Chained
  <2> QED BY <2>3, <2>4, <2>5
<1> QED BY <1>5, <1>6

\* The links stay a chain of all leaves in the order of their keys, each leaf
\* knowing the one before it: what an iteration forward or backward relies on.
THEOREM ChainStays == Spec => []LeavesChained
  BY Invariance, ChainedHolds, PTL

-----------------------------------------------------------------------------
(***************************************************************************)
(* The B+tree implements SortedMap                                         *)
(***************************************************************************)
\* Map m has the pairs of the tree and no others.
Represents(m, nds, top) ==
    /\ m \in [Key -> Value \cup {NoValue}]
    /\ \A k \in Key, v \in Value : m[k] = v <=> Stored(nds, top, k, v)

\* Every key that the tree holds has a value.
Valued(nds, top) == \A k, v : Stored(nds, top, k, v) => k \in Key /\ v \in Value

\* A key has one value.
LEMMA StoredOnce ==
    ASSUME NEW nds, NEW top, NEW root, NEW r, Tree(nds, top, root, r),
           NEW k, NEW a \in Ids(top), NEW i \in 0 .. nds[a].n - 1, nds[a].leaf, nds[a].key[i] = k,
           NEW c \in Ids(top), NEW j \in 0 .. nds[c].n - 1, nds[c].leaf, nds[c].key[j] = k
    PROVE  a = c /\ i = j
<1>1. k \in r[a] /\ k \in r[c] /\ k \in Int /\ nds[a].rank = nds[c].rank
  <2>1. k \in r[a] /\ k \in r[c] /\ r[a] \subseteq Key
    BY DEF Tree, Keyed
  <2>2. nds[a].rank = 0 /\ nds[c].rank = 0
    BY DEF Tree, Parents
  <2> QED BY <2>1, <2>2, KeyAssumption
<1>2. a = c
  BY <1>1, SameNode
<1>3. Sorted(nds[a]) /\ ~(k < k)
  BY <1>1, NodeFacts
<1>4. i = j
  <2>1. i \in Int /\ j \in Int /\ (i < j => k < k) /\ (j < i => k < k)
    BY <1>2, <1>3 DEF Sorted
  <2> QED BY <2>1, <1>3
<1> QED BY <1>2, <1>4

\* Two maps with the pairs of the same tree are the same.
LEMMA OneMap ==
    ASSUME NEW m, NEW m2, NEW nds, NEW top, NEW nds2, NEW top2,
           Represents(m, nds, top), Represents(m2, nds2, top2),
           \A k, v : Stored(nds2, top2, k, v) <=> Stored(nds, top, k, v)
    PROVE  m2 = m
<1>1. ASSUME NEW k \in Key PROVE m2[k] = m[k]
  <2>1. m[k] \in Value \cup {NoValue} /\ m2[k] \in Value \cup {NoValue}
    BY DEF Represents
  <2>2. \A v \in Value : m2[k] = v <=> m[k] = v
    BY DEF Represents
  <2> QED BY <2>1, <2>2
<1> QED BY <1>1 DEF Represents

\* Contents is the map with the pairs of the tree.
LEMMA ContentsRepresents ==
    ASSUME IInv, Valued(nodes, next_id)
    PROVE  Represents(Contents, nodes, next_id)
<1>1. PICK r : Holding(r)
  BY DEF IInv, Holding
<1>2. Tree(nodes, next_id, root_id, r)
  BY <1>1 DEF Holding
<1>3. \A k \in Key : Contents[k] = IF Contains(k) THEN ValueIn(nodes[Leaf(k)], k) ELSE NoValue
  BY DEF Contents
<1>4. ASSUME NEW k, NEW v, Stored(nodes, next_id, k, v)
      PROVE  k \in Key /\ v \in Value /\ Contents[k] = v
  <2>1. PICK c \in Ids(next_id) : Pair(nodes[c], k, v)
    BY <1>4 DEF Stored
  <2>2. PICK j \in 0 .. nodes[c].n - 1 : nodes[c].leaf /\ nodes[c].key[j] = k /\ nodes[c].value[j] = v
    BY <2>1 DEF Pair
  <2>3. c \in Leaves /\ Holds(c, k)
    BY <2>2 DEF Leaves, Allocated, Ids, Holds
  <2>4. PICK a : a = Leaf(k)
    OBVIOUS
  <2>5. a \in Leaves /\ Holds(a, k)
    BY <2>3, <2>4 DEF Leaf
  <2>6. PICK i \in 0 .. nodes[a].n - 1 : a \in Ids(next_id) /\ nodes[a].leaf /\ nodes[a].key[i] = k
    BY <2>5 DEF Leaves, Allocated, Ids, Holds
  <2>7. a = c
    BY <1>2, <2>2, <2>6, StoredOnce
  <2>8. PICK l : l = CHOOSE q \in 0 .. nodes[c].n - 1 : nodes[c].key[q] = k
    OBVIOUS
  <2>9. l \in 0 .. nodes[c].n - 1 /\ nodes[c].key[l] = k
    BY <2>2, <2>8
  <2>10. l = j
    BY <1>2, <2>2, <2>9, StoredOnce
  <2>11. ValueIn(nodes[Leaf(k)], k) = v
    BY <2>2, <2>4, <2>7, <2>8, <2>10 DEF ValueIn
  <2>12. Contains(k)
    BY <2>3 DEF Contains, Leaves, Allocated
  <2>13. k \in Key /\ v \in Value
    BY <1>4 DEF Valued
  <2> QED BY <1>3, <2>11, <2>12, <2>13
<1>5. ASSUME NEW k \in Key, ~Contains(k) PROVE Contents[k] = NoValue /\ \A v : ~Stored(nodes, next_id, k, v)
  BY <1>3, <1>5, ContainsStored
<1>6. ASSUME NEW k \in Key PROVE Contents[k] \in Value \cup {NoValue}
  <2>1. CASE Contains(k)
    BY <2>1, <1>4, ContainsStored
  <2>2. CASE ~Contains(k)
    BY <2>2, <1>5
  <2> QED BY <2>1, <2>2
<1>7. Contents \in [Key -> Value \cup {NoValue}]
  BY <1>6 DEF Contents
<1>8. ASSUME NEW k \in Key, NEW v \in Value PROVE Contents[k] = v <=> Stored(nodes, next_id, k, v)
  <2>1. ASSUME Contents[k] = v PROVE Stored(nodes, next_id, k, v)
    <3>1. Contains(k)
      BY <2>1, <1>5, KeyAssumption
    <3>2. PICK w : Stored(nodes, next_id, k, w)
      BY <3>1, ContainsStored
    <3> QED BY <2>1, <3>2, <1>4
  <2> QED BY <2>1, <1>4
<1> QED BY <1>7, <1>8 DEF Represents

\* What the other leaves hold.
Elsewhere(nds, top, id, k, v) == \E c \in Ids(top) : c # id /\ Pair(nds[c], k, v)

Replaced(N, nds, top, id, nd) ==
    \A k, v : Stored(N, top, k, v) <=> Pair(nd, k, v) \/ Elsewhere(nds, top, id, k, v)

\* What is stored once a leaf has changed: what the leaf holds now and what the
\* other leaves hold.
LEMMA LeafStored ==
    ASSUME NEW nds \in [NodeId -> Node], NEW top, NEW id \in Ids(top), id \in NodeId,
           NEW nd, NEW N, N = [nds EXCEPT ![id] = nd]
    PROVE  Replaced(N, nds, top, id, nd)
<1>1. N[id] = nd /\ \A c : c # id => N[c] = nds[c]
  OBVIOUS
<1> QED BY <1>1 DEF Stored, Elsewhere, Replaced

\* The pairs of a leaf after an insertion.
LEMMA ShiftedPairs ==
    ASSUME NEW nd0, NEW nd, NEW p, NEW k, NEW v, Sorted(nd0), nd0.leaf, Shifted(nd, nd0, p, k, v),
           NEW l, NEW w
    PROVE  Pair(nd, l, w) <=> Pair(nd0, l, w) \/ (l = k /\ w = v)
<1>1. /\ nd0.n \in Nat /\ p \in 0 .. nd0.n /\ nd.n - 1 = nd0.n /\ nd.leaf
      /\ \A j \in 0 .. nd0.n :
          /\ j < p => nd.key[j] = nd0.key[j] /\ nd.value[j] = nd0.value[j]
          /\ j = p => nd.key[j] = k /\ nd.value[j] = v
          /\ j > p => nd.key[j] = nd0.key[j - 1] /\ nd.value[j] = nd0.value[j - 1]
  BY DEF Sorted, Shifted
<1>2. ASSUME NEW j \in 0 .. nd.n - 1, nd.key[j] = l, nd.value[j] = w
      PROVE  Pair(nd0, l, w) \/ (l = k /\ w = v)
  <2>1. CASE j < p
    <3>1. j \in 0 .. nd0.n - 1 /\ nd0.key[j] = l /\ nd0.value[j] = w
      BY <1>1, <1>2, <2>1
    <3> QED BY <3>1 DEF Pair
  <2>2. CASE j = p
    BY <1>1, <1>2, <2>2
  <2>3. CASE j > p
    <3>1. j - 1 \in 0 .. nd0.n - 1 /\ nd0.key[j - 1] = l /\ nd0.value[j - 1] = w
      BY <1>1, <1>2, <2>3
    <3> QED BY <3>1 DEF Pair
  <2> QED BY <2>1, <2>2, <2>3, <1>1
<1>3. ASSUME NEW j \in 0 .. nd0.n - 1, nd0.key[j] = l, nd0.value[j] = w
      PROVE  Pair(nd, l, w)
  <2>1. CASE j < p
    <3>1. j \in 0 .. nd.n - 1 /\ nd.key[j] = l /\ nd.value[j] = w
      BY <1>1, <1>3, <2>1
    <3> QED BY <3>1, <1>1 DEF Pair
  <2>2. CASE j >= p
    <3>1. j + 1 \in 0 .. nd.n - 1 /\ j + 1 > p /\ (j + 1) - 1 = j
      BY <1>1, <2>2
    <3>2. nd.key[j + 1] = l /\ nd.value[j + 1] = w
      BY <3>1, <1>1, <1>3
    <3> QED BY <3>1, <3>2, <1>1 DEF Pair
  <2> QED BY <2>1, <2>2, <1>1
<1>4. Pair(nd, k, v)
  <2>1. p \in 0 .. nd.n - 1 /\ nd.key[p] = k /\ nd.value[p] = v
    BY <1>1
  <2> QED BY <2>1, <1>1 DEF Pair
<1> QED BY <1>2, <1>3, <1>4 DEF Pair

\* The pairs of a leaf after a removal.
LEMMA ClosedPairs ==
    ASSUME NEW nd0, NEW nd, NEW p, Sorted(nd0), nd0.leaf, Closed(nd, nd0, p), NEW l, NEW w
    PROVE  Pair(nd, l, w) <=> Pair(nd0, l, w) /\ l # nd0.key[p]
<1>1. /\ nd0.n \in Nat /\ p \in 0 .. nd0.n - 1 /\ nd.n - 1 = nd0.n - 2 /\ nd.leaf
      /\ \A j \in 0 .. nd0.n - 2 :
          /\ j < p => nd.key[j] = nd0.key[j] /\ nd.value[j] = nd0.value[j]
          /\ j >= p => nd.key[j] = nd0.key[j + 1] /\ nd.value[j] = nd0.value[j + 1]
  BY DEF Sorted, Closed
<1>2. \A i \in 0 .. nd0.n - 1 : i # p => nd0.key[i] # nd0.key[p]
  <2>1. ASSUME NEW i \in 0 .. nd0.n - 1, i # p PROVE nd0.key[i] # nd0.key[p]
    <3>1. /\ nd0.key[i] \in Int /\ nd0.key[p] \in Int
          /\ nd0.key[i] < nd0.key[p] \/ nd0.key[p] < nd0.key[i]
      BY <1>1, <2>1 DEF Sorted
    <3> QED BY <3>1
  <2> QED BY <2>1
<1>3. ASSUME NEW j \in 0 .. nd.n - 1, nd.key[j] = l, nd.value[j] = w
      PROVE  Pair(nd0, l, w) /\ l # nd0.key[p]
  <2>1. CASE j < p
    <3>1. j \in 0 .. nd0.n - 1 /\ nd0.key[j] = l /\ nd0.value[j] = w /\ j # p
      BY <1>1, <1>3, <2>1
    <3> QED BY <3>1, <1>2 DEF Pair
  <2>2. CASE j >= p
    <3>1. j + 1 \in 0 .. nd0.n - 1 /\ nd0.key[j + 1] = l /\ nd0.value[j + 1] = w /\ j + 1 # p
      BY <1>1, <1>3, <2>2
    <3> QED BY <3>1, <1>2 DEF Pair
  <2> QED BY <2>1, <2>2, <1>1
<1>4. ASSUME NEW j \in 0 .. nd0.n - 1, nd0.key[j] = l, nd0.value[j] = w, l # nd0.key[p]
      PROVE  Pair(nd, l, w)
  <2>1. j # p
    BY <1>4
  <2>2. CASE j < p
    <3>1. j \in 0 .. nd.n - 1 /\ nd.key[j] = l /\ nd.value[j] = w
      BY <1>1, <1>4, <2>2
    <3> QED BY <3>1, <1>1 DEF Pair
  <2>3. CASE j > p
    <3>1. j - 1 \in 0 .. nd.n - 1 /\ j - 1 >= p /\ (j - 1) + 1 = j
      BY <1>1, <2>3
    <3>2. nd.key[j - 1] = l /\ nd.value[j - 1] = w
      BY <3>1, <1>1, <1>4
    <3> QED BY <3>1, <3>2, <1>1 DEF Pair
  <2> QED BY <2>1, <2>2, <2>3, <1>1
<1> QED BY <1>3, <1>4 DEF Pair

Overwritten(nd, nd0, k, v) ==
    \A l, w : Pair(nd, l, w) <=> (l # k /\ Pair(nd0, l, w)) \/ (l = k /\ w = v)

\* The pairs of a leaf after an update.
LEMMA UpdatedPairs ==
    ASSUME NEW nd0 \in Node, Sorted(nd0), nd0.leaf, NEW v \in Value,
           NEW p \in 0 .. nd0.n - 1, NEW nd, nd = [nd0 EXCEPT !.value = [nd0.value EXCEPT ![p] = v]],
           NEW k, k = nd0.key[p]
    PROVE  Overwritten(nd, nd0, k, v)
<1>1. /\ nd0.n \in 0 .. 2 * B - 1 /\ 0 .. nd0.n - 1 \subseteq KeyIx
      /\ nd0.value \in [KeyIx -> Value \cup {NoValue}]
  BY DegreeAssumption DEF Node, KeyIx
<1>2. nd.n = nd0.n /\ nd.key = nd0.key /\ nd.leaf /\ nd.value = [nd0.value EXCEPT ![p] = v]
  BY DEF Node
<1>3. \A j \in 0 .. nd0.n - 1 : nd.value[j] = IF j = p THEN v ELSE nd0.value[j]
  BY <1>1, <1>2
<1>4. \A i \in 0 .. nd0.n - 1 : i # p => nd0.key[i] # nd0.key[p]
  <2>1. ASSUME NEW i \in 0 .. nd0.n - 1, i # p PROVE nd0.key[i] # nd0.key[p]
    <3>1. /\ nd0.key[i] \in Int /\ nd0.key[p] \in Int
          /\ nd0.key[i] < nd0.key[p] \/ nd0.key[p] < nd0.key[i]
      <4>1. i < p \/ p < i
        BY <2>1
      <4> QED BY <4>1, <2>1 DEF Sorted
    <3> QED BY <3>1
  <2> QED BY <2>1
<1> QED BY <1>2, <1>3, <1>4 DEF Pair, Overwritten

\* The steps on the way, the splits among them, keep the pairs.
LEMMA StoredSame ==
    ASSUME IInv,
           \/ EnterEmpty \/ EnterRoot \/ GrowRoot \/ Descend \/ SplitFullChild
           \/ UNCHANGED <<nodes, next_id>>
    PROVE  \A k, v : Stored(nodes', next_id', k, v) <=> Stored(nodes, next_id, k, v)
<1>1. PICK r0 : Holding(r0)
  BY DEF IInv, Holding
<1>2. CASE EnterEmpty
  <2>1. next_id = 1 /\ 1 \in NodeId
    BY <1>2, NodeAssumption DEF EnterEmpty, IInv, IdsLeft, NodeId
  <2>2. nodes \in [NodeId -> Node] /\ nodes[1] = Fresh
    BY <1>1, <2>1, NodeAssumption DEF Holding, Tree, Typed
  <2>3. nodes'[1] = Fresh /\ next_id' = 2 /\ Ids(next_id) = {} /\ Ids(next_id') = {1}
    BY <1>2, <2>1, <2>2 DEF EnterEmpty, Ids
  <2>4. \A k, v : ~Pair(Fresh, k, v)
    BY FreshNode DEF Pair
  <2> QED BY <2>3, <2>4 DEF Stored
<1>3. CASE EnterRoot \/ Descend \/ UNCHANGED <<nodes, next_id>>
  BY <1>3 DEF EnterRoot, Descend
<1>4. CASE GrowRoot
  <2>1. PICK x, top, root, nds, r :
         /\ x = next_id /\ top = next_id + 1 /\ root = root_id
         /\ nds = [nodes EXCEPT ![x] = Raised(nodes, root)]
         /\ r = [r0 EXCEPT ![x] = Key]
    OBVIOUS
  <2>2. /\ Atop(nds, x, root, r, nodes) /\ Splittable(nds, top, x, r, x, 0)
        /\ nodes' = SplitChild(nds, x, 0, top) /\ next_id' = top + 1
        /\ x \in 1 .. MaxNode + 1 /\ x + 1 = top
    BY <1>1, <1>4, <2>1, GrowRootSplits
  <2>3. \A k, v : Stored(nodes', next_id', k, v) <=> Stored(nds, top, k, v)
    BY <2>2, SplitStored
  <2>4. Ids(top) = Ids(x) \cup {x}
    BY <2>2, NodeAssumption DEF Ids
  <2>5. ~nds[x].leaf /\ \A id \in Ids(x) : nds[id] = nodes[id]
    BY <2>2 DEF Atop
  <2>6. \A k, v : Stored(nds, top, k, v) <=> Stored(nodes, x, k, v)
    BY <2>4, <2>5 DEF Stored, Pair
  <2> QED BY <2>1, <2>3, <2>6
<1>5. CASE SplitFullChild
  <2>1. PICK x, top, root, nds, k, i, y :
         /\ x = op.node /\ top = next_id /\ root = root_id /\ nds = nodes /\ k = op.key
         /\ i = Pos(Here, op.key) /\ y = Child
    OBVIOUS
  <2>2. /\ Splittable(nds, top, root, r0, x, i)
        /\ nodes' = SplitChild(nds, x, i, top) /\ next_id' = top + 1
    BY <1>1, <1>5, <2>1, FullChildSplits
  <2> QED BY <2>1, <2>2, SplitStored
<1> QED BY <1>2, <1>3, <1>4, <1>5

\* An insertion adds its pair.
LEMMA InsertStored ==
    ASSUME IInv, InsertLeaf
    PROVE  /\ op.key \in Key /\ op.value \in Value /\ \A v : ~Stored(nodes, next_id, op.key, v)
           /\ \A k, v : Stored(nodes', next_id', k, v)
                        <=> Stored(nodes, next_id, k, v) \/ (k = op.key /\ v = op.value)
<1>1. PICK r : Holding(r)
  BY DEF IInv, Holding
<1>2. AtLeaf /\ op.kind = "insert"
  BY DEF InsertLeaf
<1>3. PICK nd, p : /\ Shifted(nd, Here, p, op.key, op.value)
                   /\ nodes' = [nodes EXCEPT ![op.node] = nd] /\ UNCHANGED next_id
  BY <1>1, InsertedHere
<1>4. /\ op.node \in Ids(next_id) /\ op.node \in NodeId /\ nodes \in [NodeId -> Node]
      /\ Sorted(Here) /\ Here.leaf /\ op.key \in Key
  BY <1>1, <1>2, LeafReached
<1>5. \A k, v : Pair(nd, k, v) <=> Pair(Here, k, v) \/ (k = op.key /\ v = op.value)
  BY <1>3, <1>4, ShiftedPairs
<1>6. Replaced(nodes', nodes, next_id, op.node, nd)
  BY <1>3, <1>4, LeafStored
<1>7. op.value \in Value /\ ~Contains(op.key)
  BY <1>2 DEF IInv, Requested
<1>8. \A v : ~Stored(nodes, next_id, op.key, v)
  BY <1>7, ContainsStored
<1>9. \A k, v : Stored(nodes, next_id, k, v) <=> Pair(Here, k, v) \/ Elsewhere(nodes, next_id, op.node, k, v)
  BY <1>4 DEF Stored, Here, Elsewhere
<1>10. \A k, v : Stored(nodes', next_id', k, v)
                  <=> Pair(nd, k, v) \/ Elsewhere(nodes, next_id, op.node, k, v)
  BY <1>3, <1>6 DEF Replaced
<1>11. \A k, v : Stored(nodes', next_id', k, v)
                  <=> Stored(nodes, next_id, k, v) \/ (k = op.key /\ v = op.value)
  BY <1>5, <1>9, <1>10, Zenon
<1> QED BY <1>4, <1>7, <1>8, <1>11

\* The other leaves do not have the key of the operation.
LEMMA OnlyHere ==
    ASSUME IInv, AtLeaf, NEW c \in Ids(next_id), c # op.node, NEW v
    PROVE  ~Pair(nodes[c], op.key, v)
<1>1. PICK r : Holding(r)
  BY DEF IInv, Holding
<1>2. op.node \in Ids(next_id) /\ nodes[op.node].leaf /\ op.key \in r[op.node]
  BY <1>1, LeafReached DEF Here
<1>3. Tree(nodes, next_id, root_id, r)
  BY <1>1 DEF Holding
<1>4. ASSUME Pair(nodes[c], op.key, v) PROVE c = op.node
  BY <1>2, <1>3, <1>4, InItsLeaf
<1> QED BY <1>4

\* An update replaces the value of its key.
LEMMA UpdateStored ==
    ASSUME IInv, UpdateLeaf
    PROVE  /\ op.key \in Key /\ op.value \in Value /\ \E v : Stored(nodes, next_id, op.key, v)
           /\ \A k, v : Stored(nodes', next_id', k, v)
                        <=> \/ k # op.key /\ Stored(nodes, next_id, k, v)
                            \/ k = op.key /\ v = op.value
<1>1. PICK r : Holding(r)
  BY DEF IInv, Holding
<1>2. AtLeaf /\ op.kind = "update" /\ Finds(Here, op.key)
  BY DEF UpdateLeaf
<1>3. /\ op.node \in Ids(next_id) /\ op.node \in NodeId /\ nodes \in [NodeId -> Node]
      /\ Here \in Node /\ Sorted(Here) /\ Here.leaf /\ op.key \in Key /\ op.key \in Int
  BY <1>1, <1>2, LeafReached
<1>4. PICK nd0, p, v0 : nd0 = Here /\ p = Pos(Here, op.key) /\ v0 = op.value
  OBVIOUS
<1>5. PICK nd : nd = [nd0 EXCEPT !.value = [nd0.value EXCEPT ![p] = v0]]
  OBVIOUS
<1>6. nodes' = [nodes EXCEPT ![op.node] = nd] /\ next_id' = next_id
  <2>1. nodes' = [nodes EXCEPT ![op.node].value[p] = v0] /\ next_id' = next_id
    BY <1>4 DEF UpdateLeaf
  <2>2. nodes[op.node] = nd0
    BY <1>4 DEF Here
  <2> QED BY <2>1, <2>2, <1>3, <1>5
<1>7. p \in 0 .. nd0.n - 1 /\ nd0.key[p] = op.key
  BY <1>2, <1>3, <1>4, FoundAt
<1>8. op.value \in Value
  BY <1>2 DEF IInv, Requested
<1>9. Overwritten(nd, nd0, op.key, op.value)
  BY <1>3, <1>4, <1>5, <1>7, <1>8, UpdatedPairs
<1>10. Replaced(nodes', nodes, next_id, op.node, nd)
  BY <1>3, <1>6, LeafStored
<1>11. \A k, v : Stored(nodes, next_id, k, v) <=> Pair(nd0, k, v) \/ Elsewhere(nodes, next_id, op.node, k, v)
  BY <1>3, <1>4 DEF Stored, Here, Elsewhere
<1>12. \E v : Stored(nodes, next_id, op.key, v)
  BY <1>1, <1>2, LeafDecides, ContainsStored
<1>13. \A v : ~Elsewhere(nodes, next_id, op.node, op.key, v)
  BY <1>2, OnlyHere DEF Elsewhere
<1> QED BY <1>3, <1>6, <1>8, <1>9, <1>10, <1>11, <1>12, <1>13 DEF Replaced, Overwritten

\* A removal takes away what its key had.
LEMMA RemoveStored ==
    ASSUME IInv, RemoveLeaf
    PROVE  /\ op.key \in Key
           /\ Finds(Here, op.key) <=> \E v : Stored(nodes, next_id, op.key, v)
           /\ \A k, v : Stored(nodes', next_id', k, v)
                        <=> k # op.key /\ Stored(nodes, next_id, k, v)
<1>1. PICK r : Holding(r)
  BY DEF IInv, Holding
<1>2. AtLeaf
  BY DEF RemoveLeaf
<1>3. /\ op.node \in Ids(next_id) /\ op.node \in NodeId /\ nodes \in [NodeId -> Node]
      /\ Here \in Node /\ Sorted(Here) /\ Here.leaf /\ op.key \in Key /\ op.key \in Int
  BY <1>1, <1>2, LeafReached
<1>4. Finds(Here, op.key) <=> \E v : Stored(nodes, next_id, op.key, v)
  BY <1>1, <1>2, LeafDecides, ContainsStored
<1>5. CASE ~Finds(Here, op.key)
  <2>1. nodes' = nodes /\ next_id' = next_id
    BY <1>5 DEF RemoveLeaf
  <2> QED BY <2>1, <1>3, <1>4, <1>5
<1>6. CASE Finds(Here, op.key)
  <2>1. PICK nd, p : /\ Closed(nd, Here, p) /\ Here.key[p] = op.key
                     /\ nodes' = [nodes EXCEPT ![op.node] = nd] /\ UNCHANGED next_id
    BY <1>1, <1>6, RemovedHere
  <2>2. \A k, v : Pair(nd, k, v) <=> Pair(Here, k, v) /\ k # op.key
    BY <1>3, <2>1, ClosedPairs
  <2>3. Replaced(nodes', nodes, next_id, op.node, nd)
    BY <1>3, <2>1, LeafStored
  <2>4. \A k, v : Stored(nodes, next_id, k, v) <=> Pair(Here, k, v) \/ Elsewhere(nodes, next_id, op.node, k, v)
    BY <1>3 DEF Stored, Here, Elsewhere
  <2>5. \A v : ~Elsewhere(nodes, next_id, op.node, op.key, v)
    BY <1>2, OnlyHere DEF Elsewhere
  <2> QED BY <1>3, <1>4, <2>1, <2>2, <2>3, <2>4, <2>5 DEF Replaced
<1> QED BY <1>5, <1>6

\* What the refinement rests on.
ValuesKept == Valued(nodes, next_id)
RInv == IInv /\ ValuesKept /\ Represents(Contents, nodes, next_id)

\* No step stores anything but keys and values.
LEMMA ValuedNext == IInv /\ ValuesKept /\ [Next]_vars => ValuesKept'
<1> SUFFICES ASSUME IInv, Valued(nodes, next_id), [Next]_vars PROVE Valued(nodes', next_id')
  BY DEF ValuesKept
<1>1. CASE \/ EnterEmpty \/ EnterRoot \/ GrowRoot \/ Descend \/ SplitFullChild
           \/ UNCHANGED <<nodes, next_id>>
  BY <1>1, StoredSame DEF Valued
<1>2. CASE InsertLeaf
  BY <1>2, InsertStored DEF Valued
<1>3. CASE UpdateLeaf
  BY <1>3, UpdateStored DEF Valued
<1>4. CASE RemoveLeaf
  BY <1>4, RemoveStored DEF Valued
<1>5. CASE Request \/ SearchLeaf \/ UpdateMissing \/ UNCHANGED vars
  <2>1. UNCHANGED <<nodes, next_id>>
    BY <1>5 DEF Request, Begin, SearchLeaf, UpdateMissing, vars
  <2> QED BY <2>1, <1>1
<1> QED BY <1>1, <1>2, <1>3, <1>4, <1>5 DEF Next, Step

\* The map after a pair is stored.
LEMMA StoreMap ==
    ASSUME NEW nds, NEW top, NEW nds2, NEW top2, NEW m, NEW m2,
           Represents(m, nds, top), Represents(m2, nds2, top2), NEW k \in Key, NEW v \in Value,
           \A l, w : Stored(nds2, top2, l, w) <=> (l # k /\ Stored(nds, top, l, w)) \/ (l = k /\ w = v)
    PROVE  m2 = [m EXCEPT ![k] = v]
<1>1. m2[k] = v
  BY DEF Represents
<1>2. ASSUME NEW l \in Key, l # k PROVE m2[l] = m[l]
  <2>1. m[l] \in Value \cup {NoValue} /\ m2[l] \in Value \cup {NoValue}
    BY DEF Represents
  <2>2. \A w \in Value : m2[l] = w <=> m[l] = w
    BY <1>2 DEF Represents
  <2> QED BY <2>1, <2>2
<1> QED BY <1>1, <1>2 DEF Represents

\* The map after a key is removed.
LEMMA RemoveMap ==
    ASSUME NEW nds, NEW top, NEW nds2, NEW top2, NEW m, NEW m2,
           Represents(m, nds, top), Represents(m2, nds2, top2), NEW k \in Key,
           \A l, w : Stored(nds2, top2, l, w) <=> l # k /\ Stored(nds, top, l, w)
    PROVE  m2 = [m EXCEPT ![k] = NoValue]
<1>1. m2[k] = NoValue
  BY DEF Represents
<1>2. ASSUME NEW l \in Key, l # k PROVE m2[l] = m[l]
  <2>1. m[l] \in Value \cup {NoValue} /\ m2[l] \in Value \cup {NoValue}
    BY DEF Represents
  <2>2. \A w \in Value : m2[l] = w <=> m[l] = w
    BY <1>2 DEF Represents
  <2> QED BY <2>1, <2>2
<1> QED BY <1>1, <1>2 DEF Represents

\* The key is in the map if and only if the tree has it.
LEMMA PresentStored ==
    ASSUME NEW nds, NEW top, NEW m, Represents(m, nds, top), Valued(nds, top), NEW k \in Key
    PROVE  m[k] # NoValue <=> \E v : Stored(nds, top, k, v)
<1>1. m[k] \in Value \cup {NoValue} /\ \A v \in Value : m[k] = v <=> Stored(nds, top, k, v)
  BY DEF Represents
<1>2. \A v : Stored(nds, top, k, v) => v \in Value
  BY DEF Valued
<1> QED BY <1>1, <1>2, KeyAssumption

\* The map stays as it is when the pairs do.
LEMMA MapStays ==
    ASSUME RInv, RInv',
           \/ EnterEmpty \/ EnterRoot \/ GrowRoot \/ Descend \/ SplitFullChild
           \/ UNCHANGED <<nodes, next_id>>
    PROVE  Contents' = Contents
<1>1. \A k, v : Stored(nodes', next_id', k, v) <=> Stored(nodes, next_id, k, v)
  BY StoredSame DEF RInv
<1>2. Represents(Contents, nodes, next_id) /\ Represents(Contents', nodes', next_id')
  BY DEF RInv
<1> QED BY <1>1, <1>2, OneMap

\* The steps on the way change neither the map nor its request nor the answer.
LEMMA WayStutters ==
    ASSUME RInv, RInv',
           \/ EnterEmpty \/ EnterRoot \/ GrowRoot \/ Descend \/ SplitFullChild
           \/ UpdateMissing \/ UNCHANGED vars
    PROVE  UNCHANGED Abstract!vars
<1>1. Contents' = Contents
  <2>1. CASE \/ EnterEmpty \/ EnterRoot \/ GrowRoot \/ Descend \/ SplitFullChild
             \/ UNCHANGED <<nodes, next_id>>
    BY <2>1, MapStays
  <2> QED BY <2>1 DEF UpdateMissing, vars
<1>2. result' = result
  BY DEF EnterEmpty, EnterRoot, GrowRoot, Descend, SplitFullChild, UpdateMissing, vars
<1>3. op \in Op
  BY DEF RInv, IInv, Requested
<1>4. Abstractly(op.kind)' = Abstractly(op.kind) /\ op'.key = op.key /\ op'.value = op.value
  <2>1. CASE UNCHANGED op
    BY <2>1
  <2>2. CASE \E id : op' = [op EXCEPT !.node = id]
    BY <1>3, <2>2 DEF Op
  <2>3. CASE UpdateMissing
    <3>1. op' = [op EXCEPT !.kind = "insert", !.node = NoNode] /\ op.kind = "update"
      BY <2>3 DEF UpdateMissing
    <3>2. op'.kind = "insert" /\ op'.key = op.key /\ op'.value = op.value
      BY <1>3, <3>1 DEF Op
    <3> QED BY <3>1, <3>2 DEF Abstractly
  <2>4. CASE EnterEmpty \/ EnterRoot \/ GrowRoot \/ Descend
    <3>1. \E id : op' = [op EXCEPT !.node = id]
      BY <2>4 DEF EnterEmpty, EnterRoot, GrowRoot, Descend
    <3> QED BY <3>1, <2>2
  <2>5. CASE SplitFullChild \/ UNCHANGED vars
    BY <2>5, <2>1 DEF SplitFullChild, vars
  <2> QED BY <2>3, <2>4, <2>5
<1> QED BY <1>1, <1>2, <1>4 DEF Abstract!vars, Abstractly

\* A request of the tree is one of the map.
LEMMA BeginRefines ==
    ASSUME RInv, RInv', NEW kind, NEW k, NEW v, Begin(kind, k, v)
    PROVE  Abstract!Request(Abstractly(kind), k, v)
<1>1. UNCHANGED <<nodes, next_id, result>> /\ op = Idle
  BY DEF Begin
<1>2. Contents' = Contents
  BY <1>1, MapStays
<1>3. op' = [kind |-> kind, key |-> k, value |-> v, node |-> NoNode]
  BY DEF Begin
<1>4. op'.kind = kind /\ op'.key = k /\ op'.value = v
  BY <1>3
<1>5. op.kind = "idle" /\ op.key = NoKey /\ op.value = NoValue
  BY <1>1 DEF Idle
<1>6. Abstractly(op.kind) = "idle"
  BY <1>5 DEF Abstractly
<1>7. Abstractly(op'.kind) = Abstractly(kind)
  BY <1>4
<1> QED BY <1>1, <1>2, <1>4, <1>5, <1>6, <1>7 DEF Abstract!Request, Abstract!NoRequest, Abstractly

\* So every request is.
LEMMA RequestRefines ==
    ASSUME RInv, RInv', Request
    PROVE  Abstract!Next
<1>1. ASSUME NEW k \in Key, Begin("search", k, NoValue) PROVE Abstract!Next
  <2>1. Abstract!Request("search", k, NoValue)
    BY <1>1, BeginRefines DEF Abstractly
  <2> QED BY <2>1 DEF Abstract!Next
<1>2. ASSUME NEW k \in Key, Begin("remove", k, NoValue) PROVE Abstract!Next
  <2>1. Abstract!Request("remove", k, NoValue)
    BY <1>2, BeginRefines DEF Abstractly
  <2> QED BY <2>1 DEF Abstract!Next
<1>3. ASSUME NEW k \in Key, NEW v \in Value, Begin("insert", k, v) \/ Begin("update", k, v)
      PROVE  Abstract!Next
  <2>1. Abstract!Request("store", k, v)
    BY <1>3, BeginRefines DEF Abstractly
  <2> QED BY <2>1 DEF Abstract!Next
<1> QED BY <1>1, <1>2, <1>3 DEF Request

\* The answer of an operation is the answer of the map's, when it says of the
\* key's presence what the map says.
LEMMA ReturnReplies ==
    ASSUME RInv, op.key \in Key, NEW found, NEW v, Return(found, v),
           found = (Contents[op.key] # NoValue)
    PROVE  Abstract!Reply(v)
<1>1. op' = Idle /\ result' = [kind |-> op.kind, key |-> op.key, found |-> found, value |-> v]
  BY DEF Return, Answer
<1>2. [kind |-> Abstractly(op.kind)', key |-> op'.key, value |-> op'.value] = Abstract!NoRequest
  BY <1>1 DEF Idle, Abstractly, Abstract!NoRequest
<1>3. [result' EXCEPT !.kind = Abstractly(@)]
        = [kind |-> Abstractly(op.kind), key |-> op.key, found |-> found, value |-> v]
  BY <1>1
<1> QED BY <1>2, <1>3 DEF Abstract!Reply, Abstract!Present, Abstractly

\* A search answers the value the map has for its key.
LEMMA SearchRefines ==
    ASSUME RInv, RInv', SearchLeaf
    PROVE  Abstract!Find
<1>1. PICK r : Holding(r)
  BY DEF RInv, IInv, Holding
<1>2. AtLeaf /\ op.kind = "search" /\ UNCHANGED <<nodes, next_id>>
  BY DEF SearchLeaf
<1>3. Contents' = Contents
  BY <1>2, MapStays
<1>4. /\ op.node \in Ids(next_id) /\ Sorted(Here) /\ Here.leaf /\ op.key \in Key /\ op.key \in Int
      /\ IInv /\ Valued(nodes, next_id) /\ Represents(Contents, nodes, next_id)
  BY <1>1, <1>2, LeafReached, KeyAssumption DEF RInv, ValuesKept
<1>5. Contents[op.key] # NoValue <=> Finds(Here, op.key)
  BY <1>1, <1>2, <1>4, LeafDecides, ContainsStored, PresentStored
<1>6. Abstract!Reply(Contents[op.key])
  <2>1. CASE Finds(Here, op.key)
    <3>1. Pos(Here, op.key) \in 0 .. Here.n - 1 /\ Here.key[Pos(Here, op.key)] = op.key
      BY <2>1, <1>4, FoundAt
    <3>2. Pair(Here, op.key, Here.value[Pos(Here, op.key)])
      BY <3>1, <1>4 DEF Pair
    <3>3. Stored(nodes, next_id, op.key, Here.value[Pos(Here, op.key)])
      BY <3>2, <1>4 DEF Stored, Here
    <3>4. Contents[op.key] = Here.value[Pos(Here, op.key)]
      BY <3>3, <1>4 DEF Represents, Valued
    <3>5. Return(TRUE, Contents[op.key])
      BY <2>1, <3>4 DEF SearchLeaf
    <3> QED BY <3>5, <2>1, <1>4, <1>5, ReturnReplies
  <2>2. CASE ~Finds(Here, op.key)
    <3>1. Return(FALSE, Contents[op.key])
      BY <2>2, <1>5 DEF SearchLeaf
    <3> QED BY <3>1, <2>2, <1>4, <1>5, ReturnReplies
  <2> QED BY <2>1, <2>2
<1> QED BY <1>2, <1>3, <1>6 DEF Abstract!Find, Abstractly

\* An insertion stores a pair for a key that was absent.
LEMMA InsertRefines ==
    ASSUME RInv, RInv', InsertLeaf
    PROVE  Abstract!Store
<1>1. /\ op.key \in Key /\ op.value \in Value /\ \A v : ~Stored(nodes, next_id, op.key, v)
      /\ \A k, v : Stored(nodes', next_id', k, v)
                   <=> Stored(nodes, next_id, k, v) \/ (k = op.key /\ v = op.value)
  BY InsertStored DEF RInv
<1>2. /\ Valued(nodes, next_id) /\ Represents(Contents, nodes, next_id)
      /\ Represents(Contents', nodes', next_id')
  BY DEF RInv, ValuesKept
<1>3. \A k, v : Stored(nodes', next_id', k, v)
                <=> (k # op.key /\ Stored(nodes, next_id, k, v)) \/ (k = op.key /\ v = op.value)
  BY <1>1
<1>4. Contents' = [Contents EXCEPT ![op.key] = op.value]
  BY <1>1, <1>2, <1>3, StoreMap
<1>5. ~(Contents[op.key] # NoValue)
  BY <1>1, <1>2, PresentStored
<1>6. op.kind = "insert" /\ Return(FALSE, op.value)
  BY DEF InsertLeaf
<1>7. Abstract!Reply(op.value)
  BY <1>1, <1>5, <1>6, ReturnReplies
<1> QED BY <1>4, <1>6, <1>7 DEF Abstract!Store, Abstractly

\* An update overwrites the value of a key that was present.
LEMMA UpdateRefines ==
    ASSUME RInv, RInv', UpdateLeaf
    PROVE  Abstract!Store
<1>1. /\ op.key \in Key /\ op.value \in Value /\ \E v : Stored(nodes, next_id, op.key, v)
      /\ \A k, v : Stored(nodes', next_id', k, v)
                   <=> (k # op.key /\ Stored(nodes, next_id, k, v)) \/ (k = op.key /\ v = op.value)
  BY UpdateStored DEF RInv
<1>2. /\ Valued(nodes, next_id) /\ Represents(Contents, nodes, next_id)
      /\ Represents(Contents', nodes', next_id')
  BY DEF RInv, ValuesKept
<1>3. Contents' = [Contents EXCEPT ![op.key] = op.value]
  BY <1>1, <1>2, StoreMap
<1>4. Contents[op.key] # NoValue
  BY <1>1, <1>2, PresentStored
<1>5. op.kind = "update" /\ Return(TRUE, op.value)
  BY DEF UpdateLeaf
<1>6. Abstract!Reply(op.value)
  BY <1>1, <1>4, <1>5, ReturnReplies
<1> QED BY <1>3, <1>5, <1>6 DEF Abstract!Store, Abstractly

\* A removal leaves the key without a value and says whether it had one.
LEMMA RemoveRefines ==
    ASSUME RInv, RInv', RemoveLeaf
    PROVE  Abstract!Remove
<1>1. /\ op.key \in Key
      /\ Finds(Here, op.key) <=> \E v : Stored(nodes, next_id, op.key, v)
      /\ \A k, v : Stored(nodes', next_id', k, v) <=> k # op.key /\ Stored(nodes, next_id, k, v)
  BY RemoveStored DEF RInv
<1>2. /\ Valued(nodes, next_id) /\ Represents(Contents, nodes, next_id)
      /\ Represents(Contents', nodes', next_id')
  BY DEF RInv, ValuesKept
<1>3. Contents' = [Contents EXCEPT ![op.key] = NoValue]
  BY <1>1, <1>2, RemoveMap
<1>4. Contents[op.key] # NoValue <=> Finds(Here, op.key)
  BY <1>1, <1>2, PresentStored
<1>5. op.kind = "remove" /\ (IF Finds(Here, op.key) THEN Return(TRUE, NoValue) ELSE Return(FALSE, NoValue))
  BY DEF RemoveLeaf
<1>6. Abstract!Reply(NoValue)
  <2>1. CASE Finds(Here, op.key)
    BY <2>1, <1>1, <1>4, <1>5, ReturnReplies
  <2>2. CASE ~Finds(Here, op.key)
    BY <2>2, <1>1, <1>4, <1>5, ReturnReplies
  <2> QED BY <2>1, <2>2
<1> QED BY <1>3, <1>5, <1>6 DEF Abstract!Remove, Abstractly

\* Every step of the tree is a step of the map or leaves it alone.
LEMMA NextRefines ==
    ASSUME RInv, RInv', [Next]_vars
    PROVE  [Abstract!Next]_(Abstract!vars)
<1>1. CASE Request
  BY <1>1, RequestRefines
<1>2. CASE \/ EnterEmpty \/ EnterRoot \/ GrowRoot \/ Descend \/ SplitFullChild
           \/ UpdateMissing \/ UNCHANGED vars
  BY <1>2, WayStutters
<1>3. CASE SearchLeaf
  BY <1>3, SearchRefines DEF Abstract!Next
<1>4. CASE InsertLeaf
  BY <1>4, InsertRefines DEF Abstract!Next
<1>5. CASE UpdateLeaf
  BY <1>5, UpdateRefines DEF Abstract!Next
<1>6. CASE RemoveLeaf
  BY <1>6, RemoveRefines DEF Abstract!Next
<1> QED BY <1>1, <1>2, <1>3, <1>4, <1>5, <1>6 DEF Next, Step

\* An empty tree is the empty map.
LEMMA InitRefines == Init => ValuesKept /\ Abstract!Init
<1> SUFFICES ASSUME Init PROVE ValuesKept /\ Abstract!Init
  OBVIOUS
<1>1. next_id = 1 /\ op = Idle /\ result = Answer("idle", NoKey, FALSE, NoValue)
  BY DEF Init
<1>2. 1 .. next_id - 1 = {} /\ Ids(next_id) = {}
  BY <1>1 DEF Ids
<1>3. ValuesKept
  BY <1>2 DEF ValuesKept, Valued, Stored
<1>4. Contents = [k \in Key |-> NoValue]
  BY <1>2 DEF Contents, Contains
<1>5. [kind |-> Abstractly(op.kind), key |-> op.key, value |-> op.value] = Abstract!NoRequest
  BY <1>1 DEF Idle, Abstractly, Abstract!NoRequest
<1>6. [result EXCEPT !.kind = Abstractly(@)] = Abstract!NoAnswer
  BY <1>1 DEF Answer, Abstractly, Abstract!NoAnswer
<1> QED BY <1>3, <1>4, <1>5, <1>6 DEF Abstract!Init

\* Every behaviour of the B+tree of BTree.impl.hpp is one of a sorted map:
\* search, insert, update and remove take effect at one step each and answer
\* what the map answers, and splitting nodes is not seen.
THEOREM Refinement == Spec => ImplementsSortedMap
<1>1. Init => IInv /\ ValuesKept /\ Abstract!Init
  BY InitInv, InitRefines
<1>2. (IInv /\ ValuesKept) /\ [Next]_vars => (IInv /\ ValuesKept)'
  BY NextInv, ValuedNext
<1>3. IInv /\ ValuesKept => RInv
  BY ContentsRepresents DEF RInv, ValuesKept
<1>4. RInv /\ RInv' /\ [Next]_vars => [Abstract!Next]_(Abstract!vars)
  BY NextRefines
<1> QED BY <1>1, <1>2, <1>3, <1>4, PTL DEF Spec, ImplementsSortedMap, Abstract!Spec
=============================================================================
