---------------------------- MODULE BTreeIterator ----------------------------
(***************************************************************************)
(* The iterator of BTree.h / BTree.impl.hpp over a tree that operations    *)
(* change between its steps: it holds the root it was made with, a leaf    *)
(* and a position there, and the key it read when it got there.            *)
(*                                                                         *)
(* A pointer to a node is the node's id, as with the storage in memory,    *)
(* which keeps one object per node.  There is one tree (m_tree), and       *)
(* m_first_node, which only iterators that have not ended compare, is left *)
(* out.                                                                    *)
(***************************************************************************)
EXTENDS BTree

VARIABLES
    it,         \* the iterator: m_forward, m_root, m_current (node, pos, key), m_end
    still       \* history: the tree has not changed since the iterator was rewound
                \* from its root

itVars == <<it, still>>
allVars == <<vars, itVars>>

\* What has ended is nowhere, and finds nothing: the key it had is not to be read.
Ended(it_) == [it_ EXCEPT !.node = NoNode, !.pos = -1, !.key = NoKey, !.end = TRUE]

\* What the constructor makes of a root; rewind then moves it.
Begun(forward, root) ==
    [forward |-> forward, root |-> root, node |-> NoNode, pos |-> -1,
     key |-> NoKey, end |-> FALSE]

\* operator== with what end() and rend() return: both have ended, and the roots
\* are the same, the one of this moment and the one the iterator was made with.
EqualsEnd == it.end /\ it.root = root_id

\* down: from a node along the left-most or the right-most children to a leaf.
down(id, right) ==
    LET walk[m \in NodeId] ==
            IF nodes[m].leaf THEN m
            ELSE walk[nodes[m].child[IF right THEN nodes[m].n ELSE 0]]
    IN walk[id]

\* What reading key(pos) of a node may return: a slot beyond n holds whatever was
\* there last, and before the first slot anything may lie.
KeyRead(id, p) == IF p \in KeyIx THEN {nodes[id].key[p]} ELSE Key \cup {NoKey}

\* update_current of an iterator that has moved to position p of a leaf or to none.
MoveTo(from, id, p) ==
    IF id = NoNode
    THEN it' = Ended(from)
    ELSE \E k \in KeyRead(id, p) :
            it' = [from EXCEPT !.node = id, !.pos = p, !.key = k, !.end = FALSE]

\* rewind of an iterator that has not ended: to the first place of its direction
\* under the root it was made with.
RewindFrom(from) ==
    LET id == down(from.root, ~from.forward)
    IN MoveTo(from, id, IF from.forward THEN 0 ELSE nodes[id].n - 1)

\* Mutant: over the edge of a leaf to its first key, in either direction.
OverTheEdgeToFirst(id, towards) ==
    <<IF towards THEN nodes[id].right ELSE nodes[id].left, 0>>

\* Where the iterator goes over the edge of a leaf: to the first key of the leaf
\* on the right, or to the last of the one on the left.
OverTheEdge(id, towards) ==
    IF towards THEN <<nodes[id].right, 0>>
    ELSE LET l == nodes[id].left
         IN <<l, IF l = NoNode THEN 0 ELSE nodes[l].n - 1>>

\* The place one step away.
NextPlace(towards) ==
    LET p == IF towards THEN it.pos + 1 ELSE it.pos - 1
        over == IF towards THEN p >= nodes[it.node].n ELSE p < 0
    IN IF over THEN OverTheEdge(it.node, towards) ELSE <<it.node, p>>

-----------------------------------------------------------------------------
ItInit == /\ Init
          /\ it = Ended(Begun(TRUE, NoNode))
          /\ still = TRUE

\* begin() and rbegin() of a tree that has a root.
Rewind(forward) ==
    /\ op = Idle /\ root_id # NoNode
    /\ RewindFrom(Begun(forward, root_id))
    /\ still' = TRUE
    /\ UNCHANGED vars

\* Without one, they create an empty root first.
RewindEmpty(forward) ==
    /\ op = Idle /\ root_id = NoNode
    /\ IdsLeft(1)
    /\ nodes' = [nodes EXCEPT ![next_id] = Fresh]
    /\ root_id' = next_id
    /\ next_id' = next_id + 1
    /\ MoveTo(Begun(forward, next_id), next_id, IF forward THEN 0 ELSE -1)
    /\ still' = TRUE
    /\ UNCHANGED <<op, result>>

\* rewind(false) once more: from the same root, which by now may be an inner node.
Again ==
    /\ op = Idle /\ ~it.end
    /\ RewindFrom(it)
    /\ still' = (it.root = root_id)
    /\ UNCHANGED vars

\* rewind(true): over before its time.
Stop ==
    /\ op = Idle /\ ~it.end
    /\ it' = Ended(it)
    /\ UNCHANGED <<vars, still>>

\* next() and prev(), which a forward and a backward iterator swap; at the end
\* neither moves any more.
Advance(towards) ==
    /\ op = Idle /\ ~it.end
    /\ LET place == NextPlace(towards) IN MoveTo(it, place[1], place[2])
    /\ UNCHANGED <<vars, still>>

next == Advance(it.forward)
prev == Advance(~it.forward)

\* The operations of the tree know nothing of the iterator.
TreeStep(step) ==
    /\ step
    /\ still' = (still /\ UNCHANGED <<nodes, root_id>>)
    /\ UNCHANGED it

Walk == \/ next \/ prev \/ Again \/ Stop
        \/ \E forward \in BOOLEAN : Rewind(forward) \/ RewindEmpty(forward)

ItNext == Walk \/ TreeStep(Next)

ItSpec == ItInit /\ [][ItNext]_allVars

\* One thread runs the tree's operations and the loop that moves the iterator:
\* what it has begun it goes on with.
Fairness == WF_allVars(TreeStep(Step)) /\ WF_allVars(next)

\* A tree that is only added to, each key with one value.
AddNext == (\E k \in Key, v \in Value : Begin("insert", k, v)) \/ Step
AddSpec == ItInit /\ [][Walk \/ TreeStep(AddNext)]_allVars /\ Fairness

-----------------------------------------------------------------------------
Present == {k \in Key : Contains(k)}
Beyond(k, towards) == {l \in Present : IF towards THEN l > k ELSE l < k}
NearestTo(S, towards) == CHOOSE k \in S : \A l \in S : IF towards THEN k <= l ELSE k >= l

\* After the step the iterator is at the nearest of these keys; or there are none,
\* and it equals what tree.end() and tree.rend() return.
ArrivesAt(S, towards) == IF S = {} THEN EqualsEnd'
                         ELSE ~it'.end /\ it'.key = NearestTo(S, towards)

\* Over a tree that stays as it is and that nothing was removed from, an iterator
\* starts at the first key of its direction, each step leads from a key to its
\* neighbour in that direction, and where there is none the iterator becomes equal
\* to tree.end(), so that the loop while it != tree.end() is over: the chain of
\* the leaves and the positions within them never skip or repeat a key.
IteratesInOrder ==
    [][/\ \A forward \in BOOLEAN :
             /\ Present # {}
             /\ \/ Rewind(forward)
                \/ Again /\ it.root = root_id /\ it.forward = forward
             => ArrivesAt(Present, forward)
       /\ \A towards \in BOOLEAN :
             still /\ Advance(towards) /\ it.key \in Present
             => ArrivesAt(Beyond(it.key, towards), towards)]_allVars

\* Insertions between the steps, the splits they cause included, may make a
\* forward iterator see a key again, never make it pass over one.
ForwardSkipsNothing ==
    [][it.forward /\ Advance(TRUE) /\ it.key \in Present
       => \A k \in Beyond(it.key, TRUE) : ~it'.end /\ it'.key <= k]_allVars

\* An operation that has begun comes to an end: no split leaves the child it
\* was made for full, and no descent goes round in the nodes.
OperationReturns == op.kind # "idle" ~> op.kind = "idle"

\* A loop that does nothing to the iterator but move it forward, and goes on until
\* it.end(), ends, be the iterator a forward or a backward one and whatever is
\* inserted into the tree while the loop runs.  The store's iterators also compare
\* like that with kv.end() (KeyValueStore.h:425).  The tree's own do not: it !=
\* tree.end() stays true, although the iterator has ended, once an insertion has
\* put a new root over the one the iterator was made with (EqualsEnd).
LoopOnly == <>[][next \/ TreeStep(Next)]_allVars
IterationEnds == LoopOnly => <>[]it.end

\* What the tests require of every key a forward iteration of a tree that is not
\* empty yields (test_kv.cpp:308): that it is stored.
YieldsStoredKeys ==
    Present # {} /\ it.forward /\ still /\ ~it.end => it.key \in Present
=============================================================================
