---------------------------- MODULE BTreeStorage ----------------------------
(***************************************************************************)
(* Trees and the storages they are attached to: BTree::storage, the         *)
(* constructors and the destructor of BTree, and attach, detach, open and   *)
(* close of BTreeMemoryStorage and BTreeFileStorage (BTree.h,               *)
(* BTree.impl.hpp, BTreeFileStorage.h).                                     *)
(*                                                                         *)
(* Tree and storage point at one another, and any of the calls may come on  *)
(* either, in any order.  The file storages are objects on one file, of     *)
(* which one at a time is open; what is in the file is its header.          *)
(***************************************************************************)
EXTENDS Naturals

CONSTANTS
  Tree, Memory, File, \* objects: trees, storages in memory, storages on the file
  B,                  \* the degree each file storage was compiled for
  MaxRoot,            \* bound: roots are 1 .. MaxRoot
  None,               \* a null pointer
  NoFile              \* nothing has been closed yet

ASSUME ObjectsAssumption ==
  /\ Memory \cap File = {} /\ Tree \cap (Memory \cup File) = {}
  /\ None \notin Tree \cup Memory \cup File
  /\ MaxRoot \in Nat /\ DOMAIN B = File
  /\ NoFile \notin [b : {B[f] : f \in File}, root : 0 .. MaxRoot]

Storage == Memory \cup File
NoRoot == 0   \* NODE_ID_INVALID
Degrees == {B[f] : f \in File}

VARIABLES
  live,       \* the objects that exist
  io,         \* m_io of each tree
  allocated,  \* m_io_allocated
  tree,       \* m_tree of each storage
  root,       \* m_root_id
  created,    \* m_created
  opened,     \* isOpen() of the block storage of each file storage
  nodes,      \* the storages in memory that hold the node of their root
  header,     \* what the file says: the degree and the root
  next_root,  \* the root allocated next
  aborted     \* an assertion failed

objects == <<io, allocated, tree, root, created, opened, nodes, header>>
vars == <<live, objects, next_root, aborted>>

(***************************************************************************)
(* What a call makes of the objects.  An assertion that fails is "abort".   *)
(***************************************************************************)
Now == [io |-> io, allocated |-> allocated, tree |-> tree, root |-> root,
        created |-> created, opened |-> opened, nodes |-> nodes,
        header |-> header, abort |-> FALSE]

\* The storage in memory goes by created(), which closing does not reset.
IsOpen(o, s) == IF s \in Memory THEN o.created[s] ELSE o.opened[s]

\* open(): in memory it starts with no nodes; on a file it reads the header,
\* unless there was none, and takes the root from it if the degree is its own.
Opened(o, s) ==
  IF IsOpen(o, s) THEN o
  ELSE IF s \in Memory THEN [o EXCEPT !.created[s] = TRUE, !.nodes = @ \ {s}]
  ELSE [o EXCEPT !.opened[s] = TRUE, !.created[s] = (o.header = NoFile),
                 !.root[s] = IF o.header # NoFile /\ o.header.b = B[s] THEN o.header.root ELSE @]

\* Mutant: the two are written the other way round.
HeaderTextSwapped(o, s) == [b |-> o.root[s], root |-> B[s]]

\* header_write
HeaderText(o, s) == [b |-> B[s], root |-> o.root[s]]

\* close(): the header is written whatever open() found; m_root_id stays.
Closed(o, s) ==
  IF ~IsOpen(o, s) THEN o
  ELSE IF s \in Memory THEN [o EXCEPT !.nodes = @ \ {s}]
  ELSE [o EXCEPT !.opened[s] = FALSE, !.header = HeaderText(o, s)]

\* Mutant: the root is forgotten before the storage is closed.
DetachedForgetting(o, s) ==
  LET t == o.tree[s]
      c == Closed([o EXCEPT !.root[s] = NoRoot], s)
  IN IF t = None THEN o
     ELSE IF IsOpen(c, s) THEN [c EXCEPT !.abort = TRUE]
     ELSE [c EXCEPT !.io[t] = None, !.allocated[t] = FALSE, !.tree[s] = None]

\* Mutant: the tree keeps the mark.
DetachedMarked(o, s) ==
  LET t == o.tree[s]
      c == Closed(o, s)
  IN IF t = None THEN o
     ELSE IF IsOpen(c, s) THEN [c EXCEPT !.abort = TRUE]
     ELSE [c EXCEPT !.io[t] = None, !.tree[s] = None, !.root[s] = NoRoot]

\* Mutant: it does not close.
DetachedUnclosed(o, s) ==
  LET t == o.tree[s]
  IN IF t = None THEN o
     ELSE IF IsOpen(o, s) THEN [o EXCEPT !.abort = TRUE]
     ELSE [o EXCEPT !.io[t] = None, !.allocated[t] = FALSE,
                    !.tree[s] = None, !.root[s] = NoRoot]

\* detach(): closes, and asserts that it is closed.
Detached(o, s) ==
  LET t == o.tree[s]
      c == Closed(o, s)
  IN IF t = None THEN o
     ELSE IF IsOpen(c, s) THEN [c EXCEPT !.abort = TRUE]
     ELSE [c EXCEPT !.io[t] = None, !.allocated[t] = FALSE,
                    !.tree[s] = None, !.root[s] = NoRoot]

\* Mutant: the tree's storage before is not detached.
AttachedOver(o, s, t) ==
  IF o.tree[s] = t THEN o
  ELSE IF o.tree[s] # None \/ IsOpen(o, s) THEN [o EXCEPT !.abort = TRUE]
  ELSE [o EXCEPT !.tree[s] = t, !.io[t] = s, !.root[s] = NoRoot]

\* attach(t): asserts that it has no other tree and is closed, and detaches
\* the storage the tree had.
Attached(o, s, t) ==
  IF o.tree[s] = t THEN o
  ELSE IF o.tree[s] # None \/ IsOpen(o, s) THEN [o EXCEPT !.abort = TRUE]
  ELSE LET d == IF o.io[t] \notin {None, s} THEN Detached(o, o.io[t]) ELSE o
       IN IF d.abort THEN d
          ELSE [d EXCEPT !.tree[s] = t, !.io[t] = s, !.root[s] = NoRoot]

\* BTree::storage(value).  The storage before would be deleted if it were still
\* marked as allocated, which detach() has undone.
WithStorage(o, t, s) ==
  LET old == o.io[t]
      d   == IF old # None THEN Detached(o, old) ELSE o
  IN IF old = s THEN o
     ELSE IF d.abort THEN d
     ELSE IF s = None THEN [d EXCEPT !.allocated[t] = FALSE]
     ELSE Attached([d EXCEPT !.allocated[t] = FALSE], s, t)

Become(o) ==
  /\ io' = o.io /\ allocated' = o.allocated /\ tree' = o.tree /\ root' = o.root
  /\ created' = o.created /\ opened' = o.opened /\ nodes' = o.nodes /\ header' = o.header
  /\ aborted' = o.abort

Call(x, o) == ~aborted /\ x \in live /\ Become(o) /\ UNCHANGED <<live, next_root>>

\* One file storage is open at a time.
MayOpen(s) == s \in File => \A f \in File \ {s} : ~opened[f]

-----------------------------------------------------------------------------
Init ==
  /\ live = {} /\ header = NoFile /\ next_root = 1 /\ aborted = FALSE
  /\ io = [t \in Tree |-> None] /\ allocated = [t \in Tree |-> FALSE]
  /\ tree = [s \in Storage |-> None] /\ root = [s \in Storage |-> NoRoot]
  /\ created = [s \in Storage |-> FALSE] /\ opened = [f \in File |-> FALSE]
  /\ nodes = {}

Construct(s) == /\ ~aborted /\ s \in Storage \ live
                /\ live' = live \cup {s}
                /\ UNCHANGED <<objects, next_root, aborted>>

\* BTree(): with a storage in memory of its own.
ConstructTree(t, m) ==
  /\ ~aborted /\ t \notin live /\ m \notin live
  /\ live' = live \cup {t, m}
  /\ Become([WithStorage(Now, t, m) EXCEPT !.allocated[t] = TRUE])
  /\ UNCHANGED next_root

\* BTree(storage)
ConstructTreeOn(t, s) ==
  /\ ~aborted /\ t \notin live /\ s \in live
  /\ live' = live \cup {t}
  /\ Become(WithStorage(Now, t, s))
  /\ UNCHANGED next_root

SetStorage(t, s) == s \in live \cup {None} /\ Call(t, WithStorage(Now, t, s))
Attach(s, t) == t \in live /\ Call(s, Attached(Now, s, t))
Detach(s) == Call(s, Detached(Now, s))

\* On the storage, or on its tree, which hands it on.
Open(s) == MayOpen(s) /\ Call(s, Opened(Now, s))
Close(s) == Call(s, Closed(Now, s))

\* An operation of the tree: root() allocates the first, and asserts otherwise
\* that there is a node.
Operate(t) ==
  LET s == io[t] IN
  /\ ~aborted /\ t \in live /\ s # None
  /\ s \in File => opened[s]
  /\ IF root[s] = NoRoot
     THEN /\ next_root <= MaxRoot /\ next_root' = next_root + 1
          /\ Become([Now EXCEPT !.root[s] = next_root,
                                !.nodes = IF s \in Memory THEN @ \cup {s} ELSE @])
     ELSE /\ s \in Memory /\ s \notin nodes
          /\ Become([Now EXCEPT !.abort = TRUE]) /\ UNCHANGED next_root
  /\ UNCHANGED live

\* ~BTree: close(), then storage(NULL).
DestroyTree(t) ==
  LET c == IF io[t] = None THEN Now ELSE Closed(Now, io[t]) IN
  /\ ~aborted /\ t \in live
  /\ Become(WithStorage(c, t, None))
  /\ live' = live \ {t}
  /\ UNCHANGED next_root

\* A storage is destroyed when no tree has it any more; it closes itself.  A
\* new object may take its place.
Destroy(s) ==
  LET c == Closed(Now, s) IN
  /\ ~aborted /\ s \in live /\ tree[s] = None
  /\ Become([c EXCEPT !.created[s] = FALSE, !.root[s] = NoRoot, !.nodes = @ \ {s}])
  /\ live' = live \ {s}
  /\ UNCHANGED next_root

Next ==
  \/ \E s \in Storage : \/ Construct(s) \/ Detach(s) \/ Open(s) \/ Close(s) \/ Destroy(s)
                        \/ \E t \in Tree : Attach(s, t) \/ ConstructTreeOn(t, s) \/ SetStorage(t, s)
  \/ \E t \in Tree : \/ \E m \in Memory : ConstructTree(t, m)
                     \/ SetStorage(t, None) \/ Operate(t) \/ DestroyTree(t)

Spec == Init /\ [][Next]_vars

-----------------------------------------------------------------------------
TypeOK ==
  /\ live \subseteq Tree \cup Storage
  /\ io \in [Tree -> Storage \cup {None}] /\ allocated \in [Tree -> BOOLEAN]
  /\ tree \in [Storage -> Tree \cup {None}] /\ root \in [Storage -> 0 .. MaxRoot]
  /\ created \in [Storage -> BOOLEAN] /\ opened \in [File -> BOOLEAN]
  /\ nodes \subseteq Memory
  /\ header \in [b : Degrees, root : 0 .. MaxRoot] \cup {NoFile}
  /\ next_root \in 1 .. MaxRoot + 1 /\ aborted \in BOOLEAN

\* Tree and storage always point at one another, whichever of the two is
\* attached, replaced, detached or destroyed: no pointer is left to an object
\* that is gone or belongs to another (attach, detach, BTree::storage, ~BTree).
LinksAgree ==
  ~aborted =>
    /\ \A t \in Tree, s \in Storage : io[t] = s <=> tree[s] = t
    /\ \A t \in Tree : io[t] # None => {t, io[t]} \subseteq live

\* A tree that frees its storage has one of its own to free: the mark goes when
\* the storage does.
OwnsWhatItAllocated == ~aborted => \A t \in Tree : allocated[t] => io[t] \in Memory

\* A storage in memory that was opened once counts as open whatever is done to it.
OpenForGood(o, s) == s \in Memory /\ o.created[s]

\* Assertions fail only where the program asks for it: it goes on with a tree
\* whose storage is one in memory that has been opened, or attaches a storage that
\* is open or another tree's (BTree.h:246, 247, 269, BTree.impl.hpp:80).  No order
\* of calls on closed storages and on files ends in one, nor does a call on one
\* tree because of another's storage.
OnlyMisuseAborts ==
  [][aborted' => \/ aborted
                 \/ \E t \in Tree :
                      /\ OpenForGood(Now, io[t])
                      /\ \/ Operate(t) \/ DestroyTree(t) \/ Detach(io[t]) \/ SetStorage(t, None)
                         \/ \E s \in Storage : Attach(s, t) \/ SetStorage(t, s)
                 \/ \E s \in Storage, t \in Tree :
                      /\ Attach(s, t) \/ ConstructTreeOn(t, s) \/ SetStorage(t, s)
                      /\ tree[s] \notin {None, t} \/ IsOpen(Now, s)]_vars
=============================================================================
