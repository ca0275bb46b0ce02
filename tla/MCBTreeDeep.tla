---------------------------- MODULE MCBTreeDeep ------------------------------
(***************************************************************************)
(* BTree on instances that grow deep.  Every key has the one value, itself, *)
(* and there are two scenarios, each with keys of its own: many are         *)
(* inserted, so that inner nodes split; or a few are, and once there are    *)
(* three levels, removed and inserted again.                               *)
(***************************************************************************)
EXTENDS BTree

CONSTANTS
    ManyKeys,   \* the keys of the first scenario
    FewKeys,    \* the keys of the second
    FewNodes    \* bound: no insertion of theirs begins once more ids are taken

\* The keys that lie in the nodes, those removed included.
Seen == {nodes[id].key[i] : id \in Allocated, i \in KeyIx} \ {NoKey}

Deep == root_id # NoNode /\ nodes[root_id].rank <= -2

Grow == Seen \cap FewKeys = {} /\ \E k \in ManyKeys : Begin("insert", k, k)
Shrink ==
    /\ Seen \cap ManyKeys = {}
    /\ \E k \in FewKeys : \/ next_id <= FewNodes /\ Begin("insert", k, k)
                          \/ Deep /\ Begin("remove", k, NoValue)

DeepSpec == Init /\ [][Grow \/ Shrink \/ Step]_vars
=============================================================================
