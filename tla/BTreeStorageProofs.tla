-------------------------- MODULE BTreeStorageProofs -------------------------
(***************************************************************************)
(* Proofs about BTreeStorage: of every order of calls, for any number of    *)
(* trees and storages of either kind.                                       *)
(*                                                                         *)
(* A call turns the record of what the objects are, Now, into another.  So  *)
(* what is inductive is stated of such a record (Sound), each helper of     *)
(* the model has a lemma saying that it keeps it and what it does to the    *)
(* pointers, and the actions only cite those.                               *)
(***************************************************************************)
EXTENDS StorageHistory, TLAPS

Objects ==
  [io : [Tree -> Storage \cup {None}], allocated : [Tree -> BOOLEAN],
   tree : [Storage -> Tree \cup {None}], root : [Storage -> 0 .. MaxRoot],
   created : [Storage -> BOOLEAN], opened : [File -> BOOLEAN], nodes : SUBSET Memory,
   header : [b : Degrees, root : 0 .. MaxRoot] \cup {NoFile}, abort : BOOLEAN]

\* Tree and storage point at one another.
Agree(o) == \A t \in Tree, s \in Storage : o.io[t] = s <=> o.tree[s] = t

\* What a tree frees is a storage in memory that it has.
Owned(o) == \A t \in Tree : o.allocated[t] => o.io[t] \in Memory

\* A storage in memory has lost its nodes only if it has been opened.
Held(o) == \A m \in Memory : o.root[m] = NoRoot \/ m \in o.nodes \/ o.created[m]

Sound(o) == o \in Objects /\ Agree(o) /\ Owned(o) /\ Held(o)

\* Whoever has a tree or a storage is alive, and so is what it has.
Alive(io_, live_) == \A t \in Tree : io_[t] # None => t \in live_ /\ io_[t] \in live_

\* The pointers of p are those of o, apart from some that are null.
Fewer(p, o) == \A t \in Tree : p.io[t] \in {o.io[t], None}

-----------------------------------------------------------------------------
\* Opening keeps a record sound and its pointers as they are.
LEMMA OpenedOK ==
  ASSUME NEW o, Sound(o), NEW s \in Storage
  PROVE  /\ Sound(Opened(o, s))
         /\ Opened(o, s).io = o.io /\ Opened(o, s).abort = o.abort
<1> USE ObjectsAssumption DEF Sound, Objects, Storage
<1>1. CASE IsOpen(o, s)
  BY <1>1 DEF Opened
<1>2. CASE ~IsOpen(o, s) /\ s \in Memory
  BY <1>2 DEF Opened, Agree, Owned, Held
<1>3. CASE ~IsOpen(o, s) /\ s \in File
  <2> DEFINE r == IF o.header # NoFile /\ o.header.b = B[s] THEN o.header.root ELSE o.root[s]
  <2>1. r \in 0 .. MaxRoot
    OBVIOUS
  <2> DEFINE c == o.header = NoFile
  <2>c. c \in BOOLEAN
    OBVIOUS
  <2>2. Opened(o, s) = [o EXCEPT !.opened[s] = TRUE, !.created[s] = c, !.root[s] = r]
    BY <1>3 DEF Opened
  <2> HIDE DEF r, c
  <2>3. Opened(o, s) \in Objects
    <3>1. [o.opened EXCEPT ![s] = TRUE] \in [File -> BOOLEAN]
      BY <1>3
    <3>2. [o.created EXCEPT ![s] = c] \in [Storage -> BOOLEAN]
      BY <2>c
    <3>3. [o.root EXCEPT ![s] = r] \in [Storage -> 0 .. MaxRoot]
      BY <2>1
    <3> QED
      BY <2>2, <3>1, <3>2, <3>3
  <2>4. Held(Opened(o, s))
    BY <1>3, <2>1, <2>2 DEF Held
  <2> QED
    BY <2>2, <2>3, <2>4 DEF Agree, Owned
<1> QED
  BY <1>1, <1>2, <1>3

\* Closing keeps a record sound and its pointers as they are; a storage on a
\* file is closed after it, one in memory open if it was.
LEMMA ClosedOK ==
  ASSUME NEW o, Sound(o), NEW s \in Storage
  PROVE  /\ Sound(Closed(o, s))
         /\ Closed(o, s).io = o.io /\ Closed(o, s).tree = o.tree
         /\ Closed(o, s).allocated = o.allocated /\ Closed(o, s).root = o.root
         /\ Closed(o, s).created = o.created /\ Closed(o, s).abort = o.abort
         /\ \A f \in File : Closed(o, s).opened[f] => o.opened[f]
         /\ IsOpen(Closed(o, s), s) => s \in Memory /\ o.created[s]
<1> USE ObjectsAssumption DEF Sound, Objects, Storage
<1>1. CASE ~IsOpen(o, s)
  BY <1>1 DEF Closed
<1>2. CASE IsOpen(o, s) /\ s \in Memory
  BY <1>2 DEF Closed, IsOpen, Agree, Owned, Held
<1>3. CASE IsOpen(o, s) /\ s \in File
  <2>1. HeaderText(o, s) \in [b : Degrees, root : 0 .. MaxRoot]
    BY <1>3 DEF HeaderText, Degrees
  <2> QED
    BY <1>3, <2>1 DEF Closed, IsOpen, Agree, Owned, Held
<1> QED
  BY <1>1, <1>2, <1>3

\* A failed assertion changes nothing else.
LEMMA AbortedOK ==
  ASSUME NEW o, Sound(o)
  PROVE  LET a == [o EXCEPT !.abort = TRUE]
         IN Sound(a) /\ a.io = o.io /\ a.created = o.created /\ a.abort
            /\ a.opened = o.opened
<1> DEFINE a == [o EXCEPT !.abort = TRUE]
<1>1. a \in Objects
  BY DEF Sound, Objects
<1>2. /\ a.io = o.io /\ a.opened = o.opened /\ a.created = o.created /\ a.abort /\ a.tree = o.tree
      /\ a.allocated = o.allocated /\ a.root = o.root /\ a.nodes = o.nodes
  BY DEF Sound, Objects
<1> HIDE DEF a
<1>3. Agree(a) /\ Owned(a) /\ Held(a)
  BY <1>2 DEF Sound, Agree, Owned, Held
<1> QED
  BY <1>1, <1>2, <1>3 DEF Sound, a

\* Detaching takes the storage from its tree, or fails its assertion, which
\* only an opened storage in memory makes it do; nothing else changes hands.
LEMMA DetachedOK ==
  ASSUME NEW o, Sound(o), NEW s \in Storage
  PROVE  LET d == Detached(o, s)
         IN /\ Sound(d) /\ Fewer(d, o) /\ d.created = o.created
            /\ \A f \in File : d.opened[f] => o.opened[f]
            /\ d.abort => o.abort \/ (o.tree[s] # None /\ OpenForGood(o, s))
            /\ ~d.abort => /\ d.tree[s] = None
                           /\ \A t \in Tree : d.io[t] = IF o.io[t] = s THEN None ELSE o.io[t]
<1> DEFINE c == Closed(o, s)
           d == Detached(o, s)
           t0 == o.tree[s]
<1>c. /\ Sound(c) /\ c.io = o.io /\ c.tree = o.tree /\ c.allocated = o.allocated
      /\ c.root = o.root /\ c.created = o.created /\ c.abort = o.abort
      /\ \A f \in File : c.opened[f] => o.opened[f]
      /\ IsOpen(c, s) => s \in Memory /\ o.created[s]
  BY ClosedOK
<1>1. CASE t0 = None
  <2>1. d = o
    BY <1>1 DEF Detached
  <2>2. \A t \in Tree : o.io[t] # s
    BY <1>1, ObjectsAssumption DEF Sound, Agree
  <2> QED
    BY <1>1, <2>1, <2>2 DEF Fewer
<1>2. CASE t0 # None /\ IsOpen(c, s)
  <2>1. d = [c EXCEPT !.abort = TRUE]
    BY <1>2 DEF Detached
  <2> HIDE DEF c, d
  <2>2. Sound(d) /\ d.io = o.io /\ d.abort /\ d.created = o.created /\ d.opened = c.opened
    BY <1>c, <2>1, AbortedOK
  <2> QED
    BY <1>c, <1>2, <2>2 DEF Fewer, OpenForGood, d
<1>3. CASE t0 # None /\ ~IsOpen(c, s)
  <2>1. d = [c EXCEPT !.io[t0] = None, !.allocated[t0] = FALSE,
                      !.tree[s] = None, !.root[s] = NoRoot]
    BY <1>3 DEF Detached
  <2>2. t0 \in Tree /\ \A t \in Tree : o.io[t] = s <=> t = t0
    BY <1>3 DEF Sound, Agree, Objects
  <2> HIDE DEF c, d, t0
  <2>3. d \in Objects
    <3>1. [c.io EXCEPT ![t0] = None] \in [Tree -> Storage \cup {None}]
      BY <1>c DEF Sound, Objects
    <3>2. [c.allocated EXCEPT ![t0] = FALSE] \in [Tree -> BOOLEAN]
      BY <1>c DEF Sound, Objects
    <3>3. [c.tree EXCEPT ![s] = None] \in [Storage -> Tree \cup {None}]
      BY <1>c DEF Sound, Objects
    <3>4. [c.root EXCEPT ![s] = NoRoot] \in [Storage -> 0 .. MaxRoot]
      BY <1>c, ObjectsAssumption DEF Sound, Objects, NoRoot
    <3> QED
      BY <1>c, <2>1, <3>1, <3>2, <3>3, <3>4 DEF Sound, Objects
  <2>4. /\ d.io = [o.io EXCEPT ![t0] = None] /\ d.tree = [o.tree EXCEPT ![s] = None]
        /\ d.allocated = [o.allocated EXCEPT ![t0] = FALSE]
        /\ d.root = [o.root EXCEPT ![s] = NoRoot] /\ d.nodes = c.nodes
        /\ d.created = o.created /\ d.opened = c.opened /\ d.abort = o.abort
    BY <1>c, <2>1 DEF Sound, Objects
  <2>5. Agree(d)
    BY <2>2, <2>4, ObjectsAssumption DEF Sound, Objects, Agree, Storage
  <2>6. Owned(d)
    BY <2>2, <2>4 DEF Sound, Objects, Owned
  <2>7. Held(d)
    BY <1>c, <2>4 DEF Sound, Objects, Held, Storage
  <2> QED
    BY <1>c, <2>2, <2>3, <2>4, <2>5, <2>6, <2>7 DEF Sound, Objects, Fewer, d
<1> QED
  BY <1>1, <1>2, <1>3

\* Attaching gives the storage to the tree and to nobody else, or fails one of
\* its assertions.
LEMMA AttachedOK ==
  ASSUME NEW o, Sound(o), NEW s \in Storage, NEW t \in Tree
  PROVE  LET a == Attached(o, s, t)
         IN /\ Sound(a) /\ a.created = o.created
            /\ \A u \in Tree : a.io[u] \in {o.io[u], None} \/ (u = t /\ a.io[u] = s)
            /\ a.abort => \/ o.abort \/ OpenForGood(o, o.io[t])
                          \/ o.tree[s] \notin {None, t} \/ IsOpen(o, s)
            /\ ~a.abort => a.io[t] = s /\ a.tree[s] = t
<1> DEFINE a == Attached(o, s, t)
           d == IF o.io[t] \notin {None, s} THEN Detached(o, o.io[t]) ELSE o
<1>1. CASE o.tree[s] = t
  <2>1. a = o
    BY <1>1 DEF Attached
  <2> QED
    BY <1>1, <2>1 DEF Sound, Agree
<1>2. CASE o.tree[s] # t /\ (o.tree[s] # None \/ IsOpen(o, s))
  <2>1. a = [o EXCEPT !.abort = TRUE]
    BY <1>2 DEF Attached
  <2> HIDE DEF a
  <2>2. Sound(a) /\ a.io = o.io /\ a.created = o.created /\ a.abort
    BY <2>1, AbortedOK
  <2> QED
    BY <1>2, <2>2 DEF a
<1>3. CASE o.tree[s] # t /\ o.tree[s] = None /\ ~IsOpen(o, s)
  <2>0. o.io[t] \in Storage \cup {None} /\ o.io[t] # s
    BY <1>3 DEF Sound, Objects, Agree
  <2>1. /\ Sound(d) /\ Fewer(d, o) /\ d.created = o.created
        /\ \A f \in File : d.opened[f] => o.opened[f]
        /\ d.abort => o.abort \/ OpenForGood(o, o.io[t])
        /\ ~d.abort => /\ d.io[t] = None
                       /\ \A u \in Tree : u # t => d.io[u] = o.io[u] \/ d.io[u] = None
    <3>1. CASE o.io[t] = None
      BY <3>1 DEF Fewer
    <3>2. CASE o.io[t] # None
      <4>1. o.io[t] \in Storage /\ d = Detached(o, o.io[t])
        BY <2>0, <3>2
      <4> QED
        BY <4>1, DetachedOK
    <3> QED
      BY <3>1, <3>2
  <2>2. CASE d.abort
    <3>1. a = d
      BY <1>3, <2>2 DEF Attached
    <3> QED
      BY <2>1, <2>2, <3>1 DEF Fewer
  <2>3. CASE ~d.abort
    <3>1. a = [d EXCEPT !.tree[s] = t, !.io[t] = s, !.root[s] = NoRoot]
      BY <1>3, <2>3 DEF Attached
    <3>0. \A u \in Tree : o.io[u] # s
      BY <1>3, ObjectsAssumption DEF Sound, Agree
    <3> HIDE DEF d
    <3>2. \A u \in Tree : d.io[u] # s
      BY <2>1, <3>0, ObjectsAssumption DEF Fewer, Storage
    <3>3. d.tree[s] = None
      BY <2>1, <3>2 DEF Sound, Agree, Objects
    <3>4. ~d.allocated[t]
      BY <2>1, <2>3, ObjectsAssumption DEF Sound, Owned
    <3> HIDE DEF a, d
    <3>5. /\ a.tree = [d.tree EXCEPT ![s] = t] /\ a.io = [d.io EXCEPT ![t] = s]
          /\ a.root = [d.root EXCEPT ![s] = NoRoot] /\ a.abort = d.abort
          /\ a.allocated = d.allocated /\ a.nodes = d.nodes /\ a.created = d.created
      BY <2>1, <3>1 DEF Sound, Objects
    <3>6. a \in Objects
      <4>1. [d.io EXCEPT ![t] = s] \in [Tree -> Storage \cup {None}]
        BY <2>1 DEF Sound, Objects
      <4>2. [d.tree EXCEPT ![s] = t] \in [Storage -> Tree \cup {None}]
        BY <2>1 DEF Sound, Objects
      <4>3. [d.root EXCEPT ![s] = NoRoot] \in [Storage -> 0 .. MaxRoot]
        BY <2>1, ObjectsAssumption DEF Sound, Objects, NoRoot
      <4> QED
        BY <2>1, <3>1, <4>1, <4>2, <4>3 DEF Sound, Objects
    <3>7. Agree(a)
      BY <2>1, <2>3, <3>2, <3>3, <3>5, ObjectsAssumption DEF Sound, Objects, Agree, Storage
    <3>8. Owned(a)
      BY <2>1, <3>4, <3>5 DEF Sound, Objects, Owned
    <3>9. Held(a)
      BY <2>1, <3>5 DEF Sound, Objects, Held, Storage
    <3>10. a.io[t] = s /\ a.tree[s] = t /\ ~a.abort /\ a.created = o.created
      BY <2>1, <2>3, <3>5 DEF Sound, Objects
    <3>11. \A u \in Tree : u # t => a.io[u] \in {o.io[u], None}
      BY <2>1, <3>5 DEF Sound, Objects, Fewer
    <3> QED
      BY <3>6, <3>7, <3>8, <3>9, <3>10, <3>11 DEF Sound, a
  <2> QED
    BY <2>2, <2>3
<1> QED
  BY <1>1, <1>2, <1>3

\* Replacing the storage of a tree detaches the old one and attaches the new
\* one, or fails on the way.
LEMMA WithStorageOK ==
  ASSUME NEW o, Sound(o), NEW t \in Tree, NEW s \in Storage \cup {None}
  PROVE  LET w == WithStorage(o, t, s)
         IN /\ Sound(w) /\ w.created = o.created
            /\ \A u \in Tree : w.io[u] \in {o.io[u], None} \/ (u = t /\ w.io[u] = s)
            /\ w.abort => \/ o.abort \/ OpenForGood(o, o.io[t])
                          \/ s # None /\ (o.tree[s] \notin {None, t} \/ IsOpen(o, s))
            /\ ~w.abort => w.io[t] = s
<1> DEFINE w == WithStorage(o, t, s)
           d == IF o.io[t] # None THEN Detached(o, o.io[t]) ELSE o
           e == [d EXCEPT !.allocated[t] = FALSE]
<1>0. o.io[t] \in Storage \cup {None}
  BY DEF Sound, Objects
<1>1. /\ Sound(d) /\ Fewer(d, o) /\ d.created = o.created
      /\ \A f \in File : d.opened[f] => o.opened[f]
      /\ d.abort => o.abort \/ OpenForGood(o, o.io[t])
      /\ ~d.abort => d.io[t] = None
  <2>1. CASE o.io[t] = None
    BY <2>1 DEF Fewer
  <2>2. CASE o.io[t] # None
    <3>1. o.io[t] \in Storage /\ d = Detached(o, o.io[t])
      BY <1>0, <2>2
    <3> QED
      BY <3>1, DetachedOK
  <2> QED
    BY <2>1, <2>2
<1>2. CASE o.io[t] = s
  <2>1. w = o
    BY <1>2 DEF WithStorage
  <2> QED
    BY <1>2, <2>1
<1>3. CASE o.io[t] # s /\ d.abort
  <2>1. w = d
    BY <1>3 DEF WithStorage
  <2> QED
    BY <1>1, <1>3, <2>1 DEF Fewer
<1>4. CASE o.io[t] # s /\ ~d.abort
  <2>1. w = IF s = None THEN e ELSE Attached(e, s, t)
    BY <1>4 DEF WithStorage
  <2>2. Sound(e) /\ Fewer(e, o) /\ e.io = d.io /\ e.created = o.created /\ ~e.abort
        /\ e.opened = d.opened
    <3> HIDE DEF d
    <3>1. [d.allocated EXCEPT ![t] = FALSE] \in [Tree -> BOOLEAN]
      BY <1>1 DEF Sound, Objects
    <3>2. e \in Objects
      BY <1>1, <3>1 DEF Sound, Objects
    <3>3. /\ e.io = d.io /\ e.tree = d.tree /\ e.root = d.root /\ e.created = d.created
          /\ e.nodes = d.nodes /\ e.allocated = [d.allocated EXCEPT ![t] = FALSE]
          /\ e.abort = d.abort /\ e.opened = d.opened
      BY <1>1 DEF Sound, Objects
    <3> HIDE DEF e
    <3>4. Agree(e) /\ Owned(e) /\ Held(e)
      BY <1>1, <3>3 DEF Sound, Objects, Agree, Owned, Held
    <3> QED
      BY <1>1, <1>4, <3>2, <3>3, <3>4 DEF Sound, Fewer
  <2>3. CASE s = None
    BY <1>1, <1>4, <2>1, <2>2, <2>3 DEF Fewer
  <2>4. CASE s # None
    <3>1. s \in Storage /\ w = Attached(e, s, t)
      BY <2>1, <2>4
    <3> HIDE DEF w, e, d
    <3>2. e.tree[s] \in {o.tree[s], None}
      <4>1. e.tree[s] \in Tree \cup {None}
        BY <2>2, <3>1 DEF Sound, Objects
      <4>2. CASE e.tree[s] \in Tree
        <5>1. e.io[e.tree[s]] = s
          BY <2>2, <3>1, <4>2 DEF Sound, Agree
        <5>2. o.io[e.tree[s]] = s
          BY <2>2, <2>4, <4>2, <5>1 DEF Fewer
        <5> QED
          BY <3>1, <4>2, <5>2 DEF Sound, Agree
      <4> QED
        BY <4>1, <4>2
    <3>3. IsOpen(e, s) => IsOpen(o, s)
      BY <1>1, <2>2, <3>1 DEF IsOpen, Sound, Objects, Storage
    <3>4. /\ Sound(w) /\ w.created = e.created
          /\ \A u \in Tree : w.io[u] \in {e.io[u], None} \/ (u = t /\ w.io[u] = s)
          /\ w.abort => \/ e.abort \/ OpenForGood(e, e.io[t])
                        \/ e.tree[s] \notin {None, t} \/ IsOpen(e, s)
          /\ ~w.abort => w.io[t] = s
      BY <2>2, <3>1, AttachedOK
    <3>5. ~OpenForGood(e, e.io[t])
      BY <1>1, <1>4, <2>2, ObjectsAssumption DEF OpenForGood
    <3> QED
      BY <2>2, <2>4, <3>2, <3>3, <3>4, <3>5 DEF Fewer, w
  <2> QED
    BY <2>3, <2>4
<1> QED
  BY <1>2, <1>3, <1>4

-----------------------------------------------------------------------------
(***************************************************************************)
(* The invariant.  After a failed assertion only the types are left.        *)
(***************************************************************************)
Inv == TypeOK /\ (~aborted => Sound(Now) /\ Alive(io, live))

\* The record of a state without a failed assertion has its type.
LEMMA NowTyped ==
  ASSUME TypeOK
  PROVE  Now \in Objects
BY DEF TypeOK, Now, Objects

\* What the next state takes over from the record a call leaves.
LEMMA BecomeOK ==
  ASSUME NEW o, o \in Objects, Become(o),
         live' \subseteq Tree \cup Storage, next_root' \in 1 .. MaxRoot + 1
  PROVE  /\ TypeOK'
         /\ (Agree(o) /\ Owned(o) /\ Held(o) /\ ~aborted') => Sound(Now)'
<1>1. /\ io' = o.io /\ allocated' = o.allocated /\ tree' = o.tree /\ root' = o.root
      /\ created' = o.created /\ opened' = o.opened /\ nodes' = o.nodes
      /\ header' = o.header /\ aborted' = o.abort
  BY DEF Become
<1>2. TypeOK'
  BY <1>1 DEF TypeOK, Objects
<1>3. ASSUME Agree(o), Owned(o), Held(o) PROVE Sound(Now)'
  <2>1. Now' \in Objects
    BY <1>2 DEF TypeOK, Now, Objects
  <2>2. Agree(Now')
    BY <1>1, <1>3 DEF Agree, Now
  <2>3. Owned(Now')
    BY <1>1, <1>3 DEF Owned, Now
  <2>4. Held(Now')
    BY <1>1, <1>3 DEF Held, Now
  <2> QED
    BY <2>1, <2>2, <2>3, <2>4 DEF Sound
<1> QED
  BY <1>2, <1>3

\* The same of a sound record, with who is alive.
LEMMA BecomeSound ==
  ASSUME NEW o, Sound(o), Become(o), Alive(o.io, live'),
         live' \subseteq Tree \cup Storage, next_root' \in 1 .. MaxRoot + 1
  PROVE  Inv'
<1>1. io' = o.io
  BY DEF Become
<1>2. TypeOK' /\ (~aborted' => Sound(Now)')
  BY BecomeOK DEF Sound
<1>3. Alive(io, live)'
  BY <1>1 DEF Alive
<1> QED
  BY <1>2, <1>3 DEF Inv

\* Nothing exists, and nothing points at anything.
LEMMA InitInv == Init => Inv
<1> SUFFICES ASSUME Init PROVE Inv
  OBVIOUS
<1> USE ObjectsAssumption DEF Init, NoRoot
<1>1. TypeOK
  <2>1. 0 \in 0 .. MaxRoot /\ next_root \in 1 .. MaxRoot + 1
    OBVIOUS
  <2>2. live \subseteq Tree \cup Storage /\ nodes \subseteq Memory /\ aborted \in BOOLEAN
    OBVIOUS
  <2>3. io \in [Tree -> Storage \cup {None}] /\ allocated \in [Tree -> BOOLEAN]
    OBVIOUS
  <2>4. tree \in [Storage -> Tree \cup {None}] /\ created \in [Storage -> BOOLEAN]
    OBVIOUS
  <2>5. root \in [Storage -> 0 .. MaxRoot] /\ opened \in [File -> BOOLEAN]
    BY <2>1
  <2>6. header \in [b : Degrees, root : 0 .. MaxRoot] \cup {NoFile}
    OBVIOUS
  <2> QED
    BY <2>1, <2>2, <2>3, <2>4, <2>5, <2>6 DEF TypeOK
<1>2. Now \in Objects
  BY <1>1, NowTyped
<1>3. Agree(Now)
  BY DEF Agree, Now, Storage
<1>4. Owned(Now) /\ Held(Now)
  BY DEF Owned, Held, Now, Storage
<1>5. Alive(io, live)
  BY DEF Alive
<1> QED
  BY <1>1, <1>2, <1>3, <1>4, <1>5 DEF Inv, Sound

-----------------------------------------------------------------------------
(***************************************************************************)
(* The actions.                                                             *)
(***************************************************************************)

\* A new storage has nothing yet.
LEMMA ConstructInv == ASSUME Inv, NEW s \in Storage, Construct(s) PROVE Inv'
<1>1. UNCHANGED objects /\ UNCHANGED <<next_root, aborted>> /\ live' = live \cup {s} /\ ~aborted
  BY DEF Construct
<1>2. Now' = Now
  BY <1>1 DEF Now, objects
<1>3. TypeOK'
  BY <1>1 DEF Inv, TypeOK, objects
<1>4. Alive(io, live)'
  BY <1>1 DEF Inv, Alive, objects
<1> QED
  BY <1>1, <1>2, <1>3, <1>4 DEF Inv

\* A tree with a storage of its own.
LEMMA ConstructTreeInv ==
  ASSUME Inv, NEW t \in Tree, NEW m \in Memory, ConstructTree(t, m) PROVE Inv'
<1> DEFINE w == WithStorage(Now, t, m)
           o == [w EXCEPT !.allocated[t] = TRUE]
<1>1. ~aborted /\ live' = live \cup {t, m} /\ Become(o) /\ next_root' = next_root
  BY DEF ConstructTree
<1>2. Sound(Now) /\ Alive(io, live) /\ m \in Storage /\ Now.io = io
  BY <1>1 DEF Inv, Now, Storage
<1>3. /\ Sound(w) /\ (~w.abort => w.io[t] = m)
      /\ \A u \in Tree : w.io[u] \in {io[u], None} \/ (u = t /\ w.io[u] = m)
  BY <1>2, WithStorageOK
<1> HIDE DEF w
<1>4. o \in Objects
  <2>1. [w.allocated EXCEPT ![t] = TRUE] \in [Tree -> BOOLEAN]
    BY <1>3 DEF Sound, Objects
  <2> QED
    BY <1>3, <2>1 DEF Sound, Objects
<1>5. /\ o.io = w.io /\ o.tree = w.tree /\ o.root = w.root /\ o.created = w.created
      /\ o.nodes = w.nodes /\ o.allocated = [w.allocated EXCEPT ![t] = TRUE]
      /\ o.abort = w.abort
  BY <1>3 DEF Sound, Objects
<1> HIDE DEF o
<1>6. Agree(o) /\ Held(o) /\ (~o.abort => Owned(o))
  BY <1>3, <1>5 DEF Sound, Objects, Agree, Held, Owned
<1>7. live' \subseteq Tree \cup Storage /\ next_root' \in 1 .. MaxRoot + 1
  BY <1>1, <1>2 DEF Inv, TypeOK
<1>8. TypeOK' /\ (~o.abort /\ ~aborted' => Sound(Now)')
  BY <1>1, <1>4, <1>6, <1>7, BecomeOK
<1>9. io' = w.io /\ aborted' = o.abort
  BY <1>1, <1>5 DEF Become
<1>10. Alive(io, live)'
  BY <1>1, <1>2, <1>3, <1>9 DEF Alive
<1> QED
  BY <1>8, <1>9, <1>10 DEF Inv

\* A tree on a storage that is there.
LEMMA ConstructTreeOnInv ==
  ASSUME Inv, NEW t \in Tree, NEW s \in Storage, ConstructTreeOn(t, s) PROVE Inv'
<1> DEFINE w == WithStorage(Now, t, s)
<1>1. ~aborted /\ s \in live /\ live' = live \cup {t} /\ Become(w) /\ next_root' = next_root
  BY DEF ConstructTreeOn
<1>2. Sound(Now) /\ Alive(io, live) /\ Now.io = io
  BY <1>1 DEF Inv, Now
<1>3. Sound(w) /\ \A u \in Tree : w.io[u] \in {io[u], None} \/ (u = t /\ w.io[u] = s)
  BY <1>2, WithStorageOK
<1> HIDE DEF w
<1>4. Alive(w.io, live')
  BY <1>1, <1>2, <1>3 DEF Alive
<1>5. live' \subseteq Tree \cup Storage /\ next_root' \in 1 .. MaxRoot + 1
  BY <1>1 DEF Inv, TypeOK
<1> QED
  BY <1>1, <1>3, <1>4, <1>5, BecomeSound

\* A call that leaves a sound record, in which who had a storage has it or has
\* none, or the living t has the living s.
LEMMA CallInv ==
  ASSUME Inv, NEW x, NEW o, Call(x, o), ~aborted => Sound(o),
         NEW t, NEW s, t \in live, s \in live \cup {None},
         \A u \in Tree : o.io[u] \in {io[u], None} \/ (u = t /\ o.io[u] = s)
  PROVE  Inv'
<1>1. ~aborted /\ Become(o) /\ live' = live /\ next_root' = next_root
  BY DEF Call
<1>2. Alive(o.io, live')
  BY <1>1 DEF Inv, Alive
<1>3. live' \subseteq Tree \cup Storage /\ next_root' \in 1 .. MaxRoot + 1
  BY <1>1 DEF Inv, TypeOK
<1> QED
  BY <1>1, <1>2, <1>3, BecomeSound

\* Another storage for a tree, or none.
LEMMA SetStorageInv ==
  ASSUME Inv, NEW t \in Tree, NEW s \in Storage \cup {None}, SetStorage(t, s) PROVE Inv'
<1> DEFINE w == WithStorage(Now, t, s)
<1>1. ~aborted /\ t \in live /\ s \in live \cup {None} /\ Call(t, w)
  BY DEF SetStorage, Call
<1>2. Sound(Now) /\ Now.io = io
  BY <1>1 DEF Inv, Now
<1>3. Sound(w) /\ \A u \in Tree : w.io[u] \in {io[u], None} \/ (u = t /\ w.io[u] = s)
  BY <1>2, WithStorageOK
<1> HIDE DEF w
<1> QED
  BY <1>1, <1>3, CallInv

\* A living storage for a living tree.
LEMMA AttachInv ==
  ASSUME Inv, NEW s \in Storage, NEW t \in Tree, Attach(s, t) PROVE Inv'
<1> DEFINE a == Attached(Now, s, t)
<1>1. ~aborted /\ t \in live /\ s \in live /\ Call(s, a)
  BY DEF Attach, Call
<1>2. Sound(Now) /\ Now.io = io
  BY <1>1 DEF Inv, Now
<1>3. Sound(a) /\ \A u \in Tree : a.io[u] \in {io[u], None} \/ (u = t /\ a.io[u] = s)
  BY <1>2, AttachedOK
<1> HIDE DEF a
<1> QED
  BY <1>1, <1>3, CallInv

\* A tree less that has a storage.
LEMMA DetachInv == ASSUME Inv, NEW s \in Storage, Detach(s) PROVE Inv'
<1> DEFINE d == Detached(Now, s)
<1>1. ~aborted /\ s \in live /\ Call(s, d)
  BY DEF Detach, Call
<1>2. Sound(Now) /\ Now.io = io
  BY <1>1 DEF Inv, Now
<1>3. Sound(d) /\ \A u \in Tree : d.io[u] \in {io[u], None}
  BY <1>2, DetachedOK DEF Fewer
<1> HIDE DEF d
<1> QED
  BY <1>1, <1>3, CallInv

\* Opening and closing leave the pointers alone.
LEMMA OpenInv == ASSUME Inv, NEW s \in Storage, Open(s) PROVE Inv'
<1> DEFINE o == Opened(Now, s)
<1>1. ~aborted /\ s \in live /\ Call(s, o)
  BY DEF Open, Call
<1>2. Sound(Now) /\ Now.io = io
  BY <1>1 DEF Inv, Now
<1>3. Sound(o) /\ o.io = io
  BY <1>2, OpenedOK
<1> HIDE DEF o
<1> QED
  BY <1>1, <1>3, CallInv

\* Closing leaves the header in the file.
LEMMA CloseInv == ASSUME Inv, NEW s \in Storage, Close(s) PROVE Inv'
<1> DEFINE o == Closed(Now, s)
<1>1. ~aborted /\ s \in live /\ Call(s, o)
  BY DEF Close, Call
<1>2. Sound(Now) /\ Now.io = io
  BY <1>1 DEF Inv, Now
<1>3. Sound(o) /\ o.io = io
  BY <1>2, ClosedOK
<1> HIDE DEF o
<1> QED
  BY <1>1, <1>3, CallInv

\* An operation gives a tree without nodes its first one, or stops at an
\* assertion.
LEMMA OperateInv == ASSUME Inv, NEW t \in Tree, Operate(t) PROVE Inv'
<1> DEFINE s == io[t]
           n == IF s \in Memory THEN nodes \cup {s} ELSE nodes
           o == [Now EXCEPT !.root[s] = next_root, !.nodes = n]
<1>1. ~aborted /\ t \in live /\ s # None /\ live' = live
  BY DEF Operate
<1>2. TypeOK /\ Sound(Now) /\ Alive(io, live) /\ s \in Storage
  BY <1>1 DEF Inv, TypeOK
<1>3. CASE root[s] = NoRoot
  <2>1. /\ next_root <= MaxRoot /\ next_root' = next_root + 1
        /\ Become([Now EXCEPT !.root[s] = next_root,
                              !.nodes = IF s \in Memory THEN @ \cup {s} ELSE @])
    BY <1>3 DEF Operate
  <2>2. next_root \in 0 .. MaxRoot /\ next_root' \in 1 .. MaxRoot + 1
    BY <1>2, <2>1, ObjectsAssumption DEF TypeOK
  <2>3. n \subseteq Memory
    BY <1>2 DEF TypeOK
  <2>4. Become(o)
    BY <2>1 DEF Now
  <2> HIDE DEF n
  <2>5. o \in Objects
    <3>1. [Now.root EXCEPT ![s] = next_root] \in [Storage -> 0 .. MaxRoot]
      BY <1>2, <2>2 DEF Sound, Objects
    <3> QED
      BY <1>2, <2>3, <3>1 DEF Sound, Objects
  <2>6. /\ o.io = io /\ o.tree = tree /\ o.allocated = allocated /\ o.created = created
        /\ o.nodes = n /\ o.root = [root EXCEPT ![s] = next_root]
    BY DEF Now
  <2> HIDE DEF o
  <2>7. Agree(o) /\ Owned(o)
    BY <1>2, <2>6 DEF Sound, Agree, Owned, Now
  <2>8. Held(o)
    BY <1>2, <2>6 DEF Sound, Held, Now, TypeOK, n
  <2> QED
    BY <1>1, <1>2, <2>2, <2>4, <2>5, <2>6, <2>7, <2>8, BecomeSound DEF Sound, TypeOK
<1>4. CASE root[s] # NoRoot
  <2> DEFINE a == [Now EXCEPT !.abort = TRUE]
  <2>1. Become(a) /\ next_root' = next_root
    BY <1>4 DEF Operate
  <2>2. Sound(a) /\ a.io = io
    BY <1>2, AbortedOK DEF Now
  <2> HIDE DEF a
  <2> QED
    BY <1>1, <1>2, <2>1, <2>2, BecomeSound DEF TypeOK
<1> QED
  BY <1>3, <1>4

\* A tree takes with it what points at it.
LEMMA DestroyTreeInv == ASSUME Inv, NEW t \in Tree, DestroyTree(t) PROVE Inv'
<1> DEFINE c == IF io[t] = None THEN Now ELSE Closed(Now, io[t])
           w == WithStorage(c, t, None)
<1>1. ~aborted /\ live' = live \ {t} /\ Become(w) /\ next_root' = next_root
  BY DEF DestroyTree
<1>2. TypeOK /\ Sound(Now) /\ Alive(io, live) /\ Now.io = io
  BY <1>1 DEF Inv, Now
<1>3. Sound(c) /\ c.io = io
  <2>1. CASE io[t] = None
    BY <1>2, <2>1
  <2>2. CASE io[t] # None
    <3>1. io[t] \in Storage /\ c = Closed(Now, io[t])
      BY <1>2, <2>2 DEF TypeOK
    <3> QED
      BY <1>2, <3>1, ClosedOK
  <2> QED
    BY <2>1, <2>2
<1> HIDE DEF c
<1>4. /\ Sound(w) /\ (~w.abort => w.io[t] = None)
      /\ \A u \in Tree : w.io[u] \in {io[u], None}
  BY <1>3, WithStorageOK
<1> HIDE DEF w
<1>5. TypeOK' /\ (~aborted' => Sound(Now)')
  BY <1>1, <1>2, <1>4, BecomeOK DEF Sound, TypeOK
<1>6. ~aborted' => Alive(io, live)'
  <2>1. io' = w.io /\ aborted' = w.abort
    BY <1>1 DEF Become
  <2>2. \A u \in Tree : io[u] # t
    BY <1>2, ObjectsAssumption DEF TypeOK, Storage
  <2> QED
    BY <1>1, <1>2, <1>4, <2>1, <2>2 DEF Alive
<1> QED
  BY <1>5, <1>6 DEF Inv

\* A storage goes when no tree points at it.
LEMMA DestroyInv == ASSUME Inv, NEW s \in Storage, Destroy(s) PROVE Inv'
<1> DEFINE c == Closed(Now, s)
           o == [c EXCEPT !.created[s] = FALSE, !.root[s] = NoRoot, !.nodes = @ \ {s}]
<1>1. /\ ~aborted /\ tree[s] = None /\ live' = live \ {s} /\ Become(o)
      /\ next_root' = next_root
  BY DEF Destroy
<1>2. TypeOK /\ Sound(Now) /\ Alive(io, live) /\ Now.io = io /\ Now.tree = tree
  BY <1>1 DEF Inv, Now
<1>3. Sound(c) /\ c.io = io /\ c.tree = tree
  BY <1>2, ClosedOK
<1> HIDE DEF c
<1>4. /\ o.io = io /\ o.tree = tree /\ o.allocated = c.allocated
      /\ o.created = [c.created EXCEPT ![s] = FALSE] /\ o.nodes = c.nodes \ {s}
      /\ o.root = [c.root EXCEPT ![s] = NoRoot] /\ o.abort = c.abort
  BY <1>3 DEF Sound, Objects
<1>5. o \in Objects
  <2>1. [c.created EXCEPT ![s] = FALSE] \in [Storage -> BOOLEAN]
    BY <1>3 DEF Sound, Objects
  <2>2. [c.root EXCEPT ![s] = NoRoot] \in [Storage -> 0 .. MaxRoot]
    BY <1>3, ObjectsAssumption DEF Sound, Objects, NoRoot
  <2> QED
    BY <1>3, <2>1, <2>2 DEF Sound, Objects
<1> HIDE DEF o
<1>6. Agree(o) /\ Owned(o)
  BY <1>3, <1>4 DEF Sound, Agree, Owned
<1>7. Held(o)
  BY <1>3, <1>4 DEF Sound, Objects, Held, Storage
<1>8. Alive(o.io, live')
  <2>1. \A u \in Tree : io[u] # s /\ u # s
    BY <1>1, <1>2, ObjectsAssumption DEF Sound, Agree, Storage
  <2> QED
    BY <1>1, <1>2, <1>4, <2>1 DEF Alive
<1> QED
  BY <1>1, <1>2, <1>5, <1>6, <1>7, <1>8, BecomeSound DEF Sound, TypeOK

-----------------------------------------------------------------------------
(***************************************************************************)
(* The theorems.                                                            *)
(***************************************************************************)

\* Every step of the specification keeps the invariant.
LEMMA StepInv == Inv /\ [Next]_vars => Inv'
<1> SUFFICES ASSUME Inv, [Next]_vars PROVE Inv'
  OBVIOUS
<1>1. ASSUME NEW s \in Storage, Construct(s) PROVE Inv'
  BY <1>1, ConstructInv
<1>2. ASSUME NEW s \in Storage, Detach(s) PROVE Inv'
  BY <1>2, DetachInv
<1>3. ASSUME NEW s \in Storage, Open(s) PROVE Inv'
  BY <1>3, OpenInv
<1>4. ASSUME NEW s \in Storage, Close(s) PROVE Inv'
  BY <1>4, CloseInv
<1>5. ASSUME NEW s \in Storage, Destroy(s) PROVE Inv'
  BY <1>5, DestroyInv
<1>6. ASSUME NEW s \in Storage, NEW t \in Tree, Attach(s, t) PROVE Inv'
  BY <1>6, AttachInv
<1>7. ASSUME NEW s \in Storage, NEW t \in Tree, ConstructTreeOn(t, s) PROVE Inv'
  BY <1>7, ConstructTreeOnInv
<1>8. ASSUME NEW s \in Storage \cup {None}, NEW t \in Tree, SetStorage(t, s) PROVE Inv'
  BY <1>8, SetStorageInv
<1>9. ASSUME NEW t \in Tree, NEW m \in Memory, ConstructTree(t, m) PROVE Inv'
  BY <1>9, ConstructTreeInv
<1>10. ASSUME NEW t \in Tree, Operate(t) PROVE Inv'
  BY <1>10, OperateInv
<1>11. ASSUME NEW t \in Tree, DestroyTree(t) PROVE Inv'
  BY <1>11, DestroyTreeInv
<1>12. CASE UNCHANGED vars
  <2>1. /\ UNCHANGED <<live, io, allocated, tree, root, created, opened, nodes, header>>
        /\ UNCHANGED <<next_root, aborted>>
    BY <1>12 DEF vars, objects
  <2>2. Now' = Now
    BY <2>1 DEF Now
  <2>3. TypeOK' /\ (Alive(io, live) => Alive(io, live)')
    BY <2>1 DEF Inv, TypeOK, Alive
  <2> QED
    BY <2>1, <2>2, <2>3 DEF Inv
<1> QED
  BY <1>1, <1>2, <1>3, <1>4, <1>5, <1>6, <1>7, <1>8, <1>9, <1>10, <1>11, <1>12 DEF Next

\* What follows is about the specification without the history variables; the
\* one with them adds no behaviour.
THEOREM HistoryOnly == HSpec => Spec
<1>1. HInit => Init
  BY DEF HInit
<1>2. [HNext]_hvars => [Next]_vars
  BY DEF HNext, HOperate, HOpen, HOther, Next, hvars
<1> QED
  BY <1>1, <1>2, PTL DEF HSpec, Spec

\* The invariant of every behaviour.
LEMMA Invariant == Spec => []Inv
BY InitInv, StepInv, PTL DEF Spec

\* The types of the state, and the roots within those allocated (the members
\* of BTree and of its storages).
THEOREM TypeCorrect == Spec => []TypeOK
<1>1. Inv => TypeOK
  BY DEF Inv
<1> QED
  BY <1>1, Invariant, PTL

\* Tree and storage point at one another, and nobody at an object that is gone
\* (attach, detach, BTree::storage, ~BTree).
THEOREM LinksAlwaysAgree == Spec => []LinksAgree
<1>1. Inv => LinksAgree
  BY DEF Inv, Sound, Agree, Alive, Now, LinksAgree
<1> QED
  BY <1>1, Invariant, PTL

\* A tree marked as having allocated its storage has one in memory
\* (m_io_allocated of BTree).
THEOREM OwnedStorages == Spec => []OwnsWhatItAllocated
<1>1. Inv => OwnsWhatItAllocated
  BY DEF Inv, Sound, Owned, Now, OwnsWhatItAllocated
<1> QED
  BY <1>1, Invariant, PTL

\* A storage in memory that is open is one that exists.
Born == \A m \in Memory : created[m] => m \in live

\* Only open() makes one open, and one that goes is closed again.
LEMMA BornStep ==
  ASSUME Inv, Born, [Next]_vars
  PROVE  Born'
<1>0. ASSUME ~aborted PROVE Sound(Now) /\ Now.created = created
  BY <1>0 DEF Inv, Now
<1>1. ASSUME NEW o, Become(o), o.created = created, live \subseteq live' PROVE Born'
  BY <1>1 DEF Born, Become
<1>2. ASSUME NEW x, NEW o, Call(x, o), o.created = created PROVE Born'
  BY <1>2, <1>1 DEF Call
<1>3. ASSUME NEW s \in Storage, Construct(s) PROVE Born'
  BY <1>3 DEF Construct, Born, objects
<1>4. ASSUME NEW s \in Storage, Detach(s) PROVE Born'
  BY <1>4, <1>0, <1>2, DetachedOK DEF Detach, Call
<1>5. ASSUME NEW s \in Storage, Open(s) PROVE Born'
  <2>1. ~aborted /\ s \in live /\ live' = live /\ created' = Opened(Now, s).created
    BY <1>5 DEF Open, Call, Become
  <2>2. \A m \in Memory : m # s => (Opened(Now, s).created[m] <=> created[m])
    BY <2>1, <1>0 DEF Opened, Sound, Objects, Storage
  <2> QED
    BY <2>1, <2>2 DEF Born
<1>6. ASSUME NEW s \in Storage, Close(s) PROVE Born'
  BY <1>6, <1>0, <1>2, ClosedOK DEF Close, Call
<1>7. ASSUME NEW s \in Storage, Destroy(s) PROVE Born'
  <2> DEFINE c == Closed(Now, s)
  <2>1. ~aborted /\ live' = live \ {s} /\ Sound(c) /\ c.created = created
    BY <1>7, <1>0, ClosedOK DEF Destroy
  <2>2. created' = [c EXCEPT !.created[s] = FALSE, !.root[s] = NoRoot, !.nodes = @ \ {s}].created
    BY <1>7 DEF Destroy, Become
  <2> HIDE DEF c
  <2>3. created' = [created EXCEPT ![s] = FALSE] /\ created \in [Storage -> BOOLEAN]
    BY <2>1, <2>2 DEF Sound, Objects
  <2> QED
    BY <2>1, <2>3 DEF Born, Storage
<1>8. ASSUME NEW s \in Storage, NEW t \in Tree, Attach(s, t) PROVE Born'
  BY <1>8, <1>0, <1>2, AttachedOK DEF Attach, Call
<1>9. ASSUME NEW s \in Storage, NEW t \in Tree, ConstructTreeOn(t, s) PROVE Born'
  <2>1. WithStorage(Now, t, s).created = created
    BY <1>9, <1>0, WithStorageOK DEF ConstructTreeOn
  <2> QED
    BY <1>9, <1>1, <2>1 DEF ConstructTreeOn
<1>10. ASSUME NEW s \in Storage \cup {None}, NEW t \in Tree, SetStorage(t, s) PROVE Born'
  <2>1. WithStorage(Now, t, s).created = created
    BY <1>10, <1>0, WithStorageOK DEF SetStorage, Call
  <2> QED
    BY <1>10, <1>2, <2>1 DEF SetStorage
<1>11. ASSUME NEW t \in Tree, NEW m \in Memory, ConstructTree(t, m) PROVE Born'
  <2> DEFINE w == WithStorage(Now, t, m)
  <2>1. Sound(w) /\ w.created = created
    BY <1>11, <1>0, WithStorageOK DEF ConstructTree, Storage
  <2> HIDE DEF w
  <2>2. [w EXCEPT !.allocated[t] = TRUE].created = created
    BY <2>1 DEF Sound, Objects
  <2> QED
    BY <1>11, <1>1, <2>2 DEF ConstructTree, w
<1>12. ASSUME NEW t \in Tree, Operate(t) PROVE Born'
  <2>1. created' = created /\ live' = live
    BY <1>12, <1>0 DEF Operate, Become, Now
  <2> QED
    BY <2>1 DEF Born
<1>13. ASSUME NEW t \in Tree, DestroyTree(t) PROVE Born'
  <2> DEFINE c == IF io[t] = None THEN Now ELSE Closed(Now, io[t])
  <2>1. Sound(c) /\ c.created = created
    <3>1. io[t] # None => io[t] \in Storage
      BY DEF Inv, TypeOK
    <3> QED
      BY <1>13, <1>0, <3>1, ClosedOK DEF DestroyTree
  <2> HIDE DEF c
  <2>2. created' = created
    BY <1>13, <2>1, WithStorageOK DEF DestroyTree, Become, c
  <2>3. live' = live \ {t} /\ t \notin Memory
    BY <1>13, ObjectsAssumption DEF DestroyTree
  <2> QED
    BY <2>2, <2>3 DEF Born
<1>14. CASE UNCHANGED vars
  BY <1>14 DEF vars, objects, Born
<1> QED
  BY <1>3, <1>4, <1>5, <1>6, <1>7, <1>8, <1>9, <1>10, <1>11, <1>12, <1>13, <1>14 DEF Next

\* Nothing is open at the start.
LEMMA AlwaysBorn == Spec => []Born
<1>1. Init => Born
  BY DEF Init, Born, Storage
<1>2. Inv /\ Born /\ [Next]_vars => Born'
  BY BornStep
<1> QED
  BY <1>1, <1>2, Invariant, PTL DEF Spec

\* Tree t, which has a storage in memory that has been opened, goes on.
GoesOn(t) ==
  /\ OpenForGood(Now, io[t])
  /\ \/ Operate(t) \/ DestroyTree(t) \/ Detach(io[t]) \/ SetStorage(t, None)
     \/ \E s \in Storage : Attach(s, t) \/ SetStorage(t, s)

\* A step whose assertion fails is one of a tree whose storage in memory has been
\* opened, or gives a tree a storage that is open or another's.
LEMMA AbortStep ==
  ASSUME Inv, Born, Next, aborted'
  PROVE  \/ aborted \/ \E t \in Tree : GoesOn(t)
         \/ \E s \in Storage, t \in Tree :
              /\ Attach(s, t) \/ ConstructTreeOn(t, s) \/ SetStorage(t, s)
              /\ tree[s] \notin {None, t} \/ IsOpen(Now, s)
<1> DEFINE Misuse == \E t \in Tree : GoesOn(t)
<1> SUFFICES ASSUME ~aborted
             PROVE  \/ Misuse
                    \/ \E s \in Storage, t \in Tree :
                         /\ Attach(s, t) \/ ConstructTreeOn(t, s) \/ SetStorage(t, s)
                         /\ tree[s] \notin {None, t} \/ IsOpen(Now, s)
  OBVIOUS
<1>0. TypeOK /\ Sound(Now) /\ Alive(io, live)
  BY DEF Inv
<1>now. /\ Now.tree = tree /\ Now.io = io /\ Now.created = created /\ ~Now.abort
        /\ Now.nodes = nodes /\ Now.root = root
  BY DEF Now
<1>b. \A o : Become(o) => o.abort
  BY DEF Become
<1>1. ASSUME NEW s \in Storage, Construct(s) PROVE FALSE
  BY <1>1 DEF Construct
<1>2. ASSUME NEW s \in Storage, Detach(s) PROVE Misuse
  <2>1. Detached(Now, s).abort
    BY <1>2, <1>b DEF Detach, Call
  <2>2. tree[s] # None /\ OpenForGood(Now, s)
    BY <2>1, <1>0, <1>now, DetachedOK
  <2>3. tree[s] \in Tree /\ io[tree[s]] = s
    BY <2>2, <1>0, <1>now DEF TypeOK, Sound, Agree
  <2> QED
    BY <1>2, <2>2, <2>3 DEF GoesOn
<1>3. ASSUME NEW s \in Storage, Open(s) PROVE FALSE
  <2>1. Opened(Now, s).abort
    BY <1>3, <1>b DEF Open, Call
  <2> QED
    BY <2>1, <1>0, <1>now, OpenedOK
<1>4. ASSUME NEW s \in Storage, Close(s) PROVE FALSE
  <2>1. Closed(Now, s).abort
    BY <1>4, <1>b DEF Close, Call
  <2> QED
    BY <2>1, <1>0, <1>now, ClosedOK
<1>5. ASSUME NEW s \in Storage, Destroy(s) PROVE FALSE
  <2> DEFINE c == Closed(Now, s)
  <2>1. Sound(c) /\ ~c.abort
    BY <1>0, <1>now, ClosedOK
  <2>2. [c EXCEPT !.created[s] = FALSE, !.root[s] = NoRoot, !.nodes = @ \ {s}].abort
    BY <1>5, <1>b DEF Destroy
  <2> HIDE DEF c
  <2> QED
    BY <2>1, <2>2 DEF Sound, Objects
<1>6. ASSUME NEW s \in Storage, NEW t \in Tree, Attach(s, t)
      PROVE  Misuse \/ tree[s] \notin {None, t} \/ IsOpen(Now, s)
  <2>1. Attached(Now, s, t).abort
    BY <1>6, <1>b DEF Attach, Call
  <2>2. OpenForGood(Now, io[t]) \/ tree[s] \notin {None, t} \/ IsOpen(Now, s)
    BY <2>1, <1>0, <1>now, AttachedOK
  <2> QED
    BY <1>6, <2>2 DEF GoesOn
<1>7. ASSUME NEW s \in Storage, NEW t \in Tree, ConstructTreeOn(t, s)
      PROVE  tree[s] \notin {None, t} \/ IsOpen(Now, s)
  <2>1. WithStorage(Now, t, s).abort
    BY <1>7, <1>b DEF ConstructTreeOn
  <2>2. OpenForGood(Now, io[t]) \/ tree[s] \notin {None, t} \/ IsOpen(Now, s)
    BY <2>1, <1>0, <1>now, WithStorageOK, ObjectsAssumption DEF Storage
  <2>3. t \notin live
    BY <1>7 DEF ConstructTreeOn
  <2>4. ~OpenForGood(Now, io[t])
    BY <2>3, <1>0, ObjectsAssumption DEF Alive, OpenForGood
  <2> QED
    BY <2>2, <2>4
<1>8. ASSUME NEW s \in Storage \cup {None}, NEW t \in Tree, SetStorage(t, s)
      PROVE  \/ Misuse
             \/ s \in Storage /\ (tree[s] \notin {None, t} \/ IsOpen(Now, s))
  <2>1. WithStorage(Now, t, s).abort
    BY <1>8, <1>b DEF SetStorage, Call
  <2>2. \/ OpenForGood(Now, io[t])
        \/ s \in Storage /\ (tree[s] \notin {None, t} \/ IsOpen(Now, s))
    BY <2>1, <1>0, <1>now, WithStorageOK
  <2>3. OpenForGood(Now, io[t]) => GoesOn(t)
    BY <1>8 DEF GoesOn
  <2> QED
    BY <2>2, <2>3
<1>9. ASSUME NEW t \in Tree, NEW m \in Memory, ConstructTree(t, m) PROVE FALSE
  <2> DEFINE w == WithStorage(Now, t, m)
  <2>1. [w EXCEPT !.allocated[t] = TRUE].abort /\ m \notin live /\ m \in Storage
    BY <1>9, <1>b DEF ConstructTree, Storage
  <2>2. /\ Sound(w)
        /\ w.abort => \/ OpenForGood(Now, io[t]) \/ tree[m] \notin {None, t}
                      \/ IsOpen(Now, m)
    BY <2>1, <1>0, <1>now, WithStorageOK
  <2> HIDE DEF w
  <2>3. w.abort
    BY <2>1, <2>2 DEF Sound, Objects
  <2>4. tree[m] = None
    <3>1. tree[m] \in Tree \cup {None}
      BY <2>1, <1>0 DEF TypeOK
    <3>2. ASSUME tree[m] \in Tree PROVE FALSE
      BY <3>2, <2>1, <1>0, <1>now, ObjectsAssumption DEF Sound, Agree, Alive, Storage
    <3> QED
      BY <3>1, <3>2
  <2>5. ~IsOpen(Now, m) \/ OpenForGood(Now, m)
    BY DEF IsOpen, OpenForGood
  <2>6. ~OpenForGood(Now, m)
    BY <2>1, <1>now DEF Born, OpenForGood
  <2>7. ~OpenForGood(Now, io[t])
    BY <1>9, <1>0, ObjectsAssumption DEF ConstructTree, Alive, OpenForGood
  <2> QED
    BY <2>2, <2>3, <2>4, <2>5, <2>6, <2>7, <1>now
<1>10. ASSUME NEW t \in Tree, Operate(t) PROVE Misuse
  <2> DEFINE s == io[t]
  <2>1. CASE root[s] = NoRoot
    <3>1. [Now EXCEPT !.root[s] = next_root,
                      !.nodes = IF s \in Memory THEN @ \cup {s} ELSE @].abort
      BY <1>10, <2>1, <1>b DEF Operate
    <3> QED
      BY <3>1, <1>now DEF Now
  <2>2. CASE root[s] # NoRoot
    <3>1. s \in Memory /\ s \notin nodes
      BY <1>10, <2>2 DEF Operate
    <3>2. OpenForGood(Now, io[t])
      BY <2>2, <3>1, <1>0, <1>now DEF Sound, Held, OpenForGood
    <3> QED
      BY <1>10, <3>2 DEF GoesOn
  <2> QED
    BY <2>1, <2>2
<1>11. ASSUME NEW t \in Tree, DestroyTree(t) PROVE Misuse
  <2> DEFINE c == IF io[t] = None THEN Now ELSE Closed(Now, io[t])
  <2>1. WithStorage(c, t, None).abort
    BY <1>11, <1>b DEF DestroyTree
  <2>2. Sound(c) /\ c.created = created /\ c.io = io /\ ~c.abort
    <3>1. CASE io[t] = None
      BY <3>1, <1>0, <1>now
    <3>2. CASE io[t] # None
      <4>1. io[t] \in Storage
        BY <3>2, <1>0 DEF TypeOK
      <4> QED
        BY <3>2, <4>1, <1>0, <1>now, ClosedOK
    <3> QED
      BY <3>1, <3>2
  <2> HIDE DEF c
  <2>3. OpenForGood(c, c.io[t])
    BY <2>1, <2>2, WithStorageOK
  <2>4. OpenForGood(Now, io[t])
    BY <2>2, <2>3, <1>now DEF OpenForGood
  <2> QED
    BY <1>11, <2>4 DEF GoesOn
<1> HIDE DEF Misuse
<1> QED
  BY <1>1, <1>2, <1>3, <1>4, <1>5, <1>6, <1>7, <1>8, <1>9, <1>10, <1>11 DEF Next

\* No order of calls fails an assertion, misuse apart (the assertions of
\* BTree.h:246, 247, 269 and BTree.impl.hpp:80).
THEOREM OnlyMisuse == Spec => OnlyMisuseAborts
<1>1. Inv /\ Born /\ [Next]_vars =>
        [aborted' => \/ aborted \/ \E t \in Tree : GoesOn(t)
                     \/ \E s \in Storage, t \in Tree :
                          /\ Attach(s, t) \/ ConstructTreeOn(t, s) \/ SetStorage(t, s)
                          /\ tree[s] \notin {None, t} \/ IsOpen(Now, s)]_vars
  BY AbortStep
<1> QED
  BY <1>1, Invariant, AlwaysBorn, PTL DEF Spec, OnlyMisuseAborts, GoesOn

-----------------------------------------------------------------------------
(***************************************************************************)
(* The root of the tree in the file.                                        *)
(***************************************************************************)
OneOpen(o) == \A f, g \in File : o.opened[f] /\ o.opened[g] => f = g

\* The root is k in the storage that is open, or else in the file.
Kept(o, k) ==
  IF \E f \in File : o.opened[f]
  THEN \A f \in File : o.opened[f] => o.root[f] = k
  ELSE IF o.header = NoFile THEN k = NoRoot ELSE o.header.root = k

\* As long as nothing was closed, no closed storage has a root.
Blank(o) == o.header = NoFile => \A f \in File : o.opened[f] \/ o.root[f] = NoRoot

Chain(o, k) == OneOpen(o) /\ Kept(o, k) /\ Blank(o)

\* The three go by these fields alone.
LEMMA ChainFields ==
  ASSUME NEW o, NEW p, NEW k, Chain(o, k), p.opened = o.opened, p.header = o.header,
         \A f \in File : o.opened[f] => p.root[f] = o.root[f],
         \A f \in File : ~o.opened[f] => p.root[f] \in {o.root[f], NoRoot}
  PROVE  Chain(p, k)
BY DEF Chain, OneOpen, Kept, Blank

\* Closing hands the root on to the file.
LEMMA ClosedChain ==
  ASSUME NEW o, Sound(o), NEW k, Chain(o, k), NEW s \in Storage
  PROVE  Chain(Closed(o, s), k) /\ (s \in File => ~Closed(o, s).opened[s])
<1> DEFINE c == Closed(o, s)
<1>1. CASE ~IsOpen(o, s)
  <2>1. c = o
    BY <1>1 DEF Closed
  <2> QED
    BY <1>1, <2>1, ObjectsAssumption DEF IsOpen
<1>2. CASE IsOpen(o, s) /\ s \in Memory
  <2>1. c.opened = o.opened /\ c.header = o.header /\ c.root = o.root
    BY <1>2 DEF Closed, Sound, Objects
  <2> HIDE DEF c
  <2>2. Chain(c, k)
    BY <2>1, ChainFields
  <2> QED
    BY <1>2, <2>2, ObjectsAssumption DEF c
<1>3. CASE IsOpen(o, s) /\ s \in File
  <2>1. /\ c.opened = [o.opened EXCEPT ![s] = FALSE] /\ c.root = o.root
        /\ c.header = [b |-> B[s], root |-> o.root[s]]
    BY <1>3, ObjectsAssumption DEF Closed, HeaderText, Sound, Objects
  <2>2. o.opened[s]
    BY <1>3, ObjectsAssumption DEF IsOpen
  <2> HIDE DEF c
  <2>3. \A f \in File : ~c.opened[f]
    BY <1>3, <2>1, <2>2 DEF Sound, Objects, Chain, OneOpen
  <2>4. o.root[s] = k
    BY <1>3, <2>2 DEF Chain, Kept
  <2>5. c.header # NoFile /\ c.header.root = k
    <3>1. c.header \in [b : {B[f] : f \in File}, root : 0 .. MaxRoot]
      BY <1>3, <2>1 DEF Sound, Objects
    <3> QED
      BY <2>1, <2>4, <3>1, ObjectsAssumption
  <2>6. Chain(c, k)
    BY <2>3, <2>5 DEF Chain, OneOpen, Kept, Blank
  <2> QED
    BY <1>3, <2>3, <2>6 DEF c
<1> QED
  BY <1>1, <1>2, <1>3 DEF Storage

\* A failed assertion leaves the root where it is.
LEMMA AbortedChain ==
  ASSUME NEW o, Sound(o), NEW k, Chain(o, k)
  PROVE  Chain([o EXCEPT !.abort = TRUE], k)
<1> DEFINE a == [o EXCEPT !.abort = TRUE]
<1>1. a.opened = o.opened /\ a.header = o.header /\ a.root = o.root
  BY DEF Sound, Objects
<1> HIDE DEF a
<1>2. Chain(a, k)
  BY <1>1, ChainFields
<1> QED
  BY <1>2 DEF a

\* detach() forgets the root of a storage that it has closed.
LEMMA DetachedChain ==
  ASSUME NEW o, Sound(o), NEW k, Chain(o, k), NEW s \in Storage
  PROVE  Chain(Detached(o, s), k)
<1> DEFINE c == Closed(o, s)
           d == Detached(o, s)
           t0 == o.tree[s]
<1>c. /\ Sound(c) /\ c.tree = o.tree /\ Chain(c, k) /\ (s \in File => ~c.opened[s])
  BY ClosedOK, ClosedChain
<1>1. CASE t0 = None
  <2>1. d = o
    BY <1>1 DEF Detached
  <2> QED
    BY <2>1
<1>2. CASE t0 # None /\ IsOpen(c, s)
  <2>1. d = [c EXCEPT !.abort = TRUE]
    BY <1>2 DEF Detached
  <2> HIDE DEF c, d
  <2>2. Chain(d, k)
    BY <1>c, <2>1, AbortedChain
  <2> QED
    BY <2>2 DEF d
<1>3. CASE t0 # None /\ ~IsOpen(c, s)
  <2>1. d = [c EXCEPT !.io[t0] = None, !.allocated[t0] = FALSE,
                      !.tree[s] = None, !.root[s] = NoRoot]
    BY <1>3 DEF Detached
  <2> HIDE DEF c, d, t0
  <2>2. d.root = [c.root EXCEPT ![s] = NoRoot] /\ d.opened = c.opened /\ d.header = c.header
    BY <1>c, <2>1 DEF Sound, Objects
  <2>3. /\ \A f \in File : c.opened[f] => d.root[f] = c.root[f]
        /\ \A f \in File : ~c.opened[f] => d.root[f] \in {c.root[f], NoRoot}
    BY <1>c, <2>2 DEF Sound, Objects, Storage
  <2>4. Chain(d, k)
    BY <1>c, <2>2, <2>3, ChainFields
  <2> QED
    BY <2>4 DEF d
<1> QED
  BY <1>1, <1>2, <1>3

\* attach() forgets the root of a storage that is closed.
LEMMA AttachedChain ==
  ASSUME NEW o, Sound(o), NEW k, Chain(o, k), NEW s \in Storage, NEW t \in Tree
  PROVE  Chain(Attached(o, s, t), k)
<1> DEFINE a == Attached(o, s, t)
           d == IF o.io[t] \notin {None, s} THEN Detached(o, o.io[t]) ELSE o
<1>1. CASE o.tree[s] = t
  <2>1. a = o
    BY <1>1 DEF Attached
  <2> QED
    BY <2>1
<1>2. CASE o.tree[s] # t /\ (o.tree[s] # None \/ IsOpen(o, s))
  <2>1. a = [o EXCEPT !.abort = TRUE]
    BY <1>2 DEF Attached
  <2> HIDE DEF a
  <2>2. Chain(a, k)
    BY <2>1, AbortedChain
  <2> QED
    BY <2>2 DEF a
<1>3. CASE o.tree[s] # t /\ o.tree[s] = None /\ ~IsOpen(o, s)
  <2>0. o.io[t] \in Storage \cup {None}
    BY DEF Sound, Objects
  <2>1. Sound(d) /\ Chain(d, k) /\ \A f \in File : d.opened[f] => o.opened[f]
    <3>1. CASE o.io[t] \in {None, s}
      BY <3>1
    <3>2. CASE o.io[t] \notin {None, s}
      <4>1. o.io[t] \in Storage /\ d = Detached(o, o.io[t])
        BY <2>0, <3>2
      <4> QED
        BY <4>1, DetachedOK, DetachedChain
    <3> QED
      BY <3>1, <3>2
  <2>2. CASE d.abort
    <3>1. a = d
      BY <1>3, <2>2 DEF Attached
    <3> QED
      BY <2>1, <3>1
  <2>3. CASE ~d.abort
    <3>1. a = [d EXCEPT !.tree[s] = t, !.io[t] = s, !.root[s] = NoRoot]
      BY <1>3, <2>3 DEF Attached
    <3>2. s \in File => ~o.opened[s]
      BY <1>3, ObjectsAssumption DEF IsOpen
    <3> HIDE DEF a, d
    <3>3. a.root = [d.root EXCEPT ![s] = NoRoot] /\ a.opened = d.opened /\ a.header = d.header
      BY <2>1, <3>1 DEF Sound, Objects
    <3>4. /\ \A f \in File : d.opened[f] => a.root[f] = d.root[f]
          /\ \A f \in File : ~d.opened[f] => a.root[f] \in {d.root[f], NoRoot}
      BY <2>1, <3>2, <3>3 DEF Sound, Objects, Storage
    <3>5. Chain(a, k)
      BY <2>1, <3>3, <3>4, ChainFields
    <3> QED
      BY <3>5 DEF a
  <2> QED
    BY <2>2, <2>3
<1> QED
  BY <1>1, <1>2, <1>3

\* So does a tree that gets another storage.
LEMMA WithStorageChain ==
  ASSUME NEW o, Sound(o), NEW k, Chain(o, k), NEW t \in Tree, NEW s \in Storage \cup {None}
  PROVE  Chain(WithStorage(o, t, s), k)
<1> DEFINE w == WithStorage(o, t, s)
           d == IF o.io[t] # None THEN Detached(o, o.io[t]) ELSE o
           e == [d EXCEPT !.allocated[t] = FALSE]
<1>0. o.io[t] \in Storage \cup {None}
  BY DEF Sound, Objects
<1>1. Sound(d) /\ Chain(d, k)
  <2>1. CASE o.io[t] = None
    BY <2>1
  <2>2. CASE o.io[t] # None
    <3>1. o.io[t] \in Storage /\ d = Detached(o, o.io[t])
      BY <1>0, <2>2
    <3> QED
      BY <3>1, DetachedOK, DetachedChain
  <2> QED
    BY <2>1, <2>2
<1>2. CASE o.io[t] = s
  <2>1. w = o
    BY <1>2 DEF WithStorage
  <2> QED
    BY <2>1
<1>3. CASE o.io[t] # s /\ d.abort
  <2>1. w = d
    BY <1>3 DEF WithStorage
  <2> QED
    BY <1>1, <2>1
<1>4. CASE o.io[t] # s /\ ~d.abort
  <2>1. w = IF s = None THEN e ELSE Attached(e, s, t)
    BY <1>4 DEF WithStorage
  <2> HIDE DEF d
  <2>2. /\ e.io = d.io /\ e.tree = d.tree /\ e.root = d.root /\ e.created = d.created
        /\ e.nodes = d.nodes /\ e.allocated = [d.allocated EXCEPT ![t] = FALSE]
        /\ e.opened = d.opened /\ e.header = d.header
    BY <1>1 DEF Sound, Objects
  <2>3. e \in Objects
    <3>1. [d.allocated EXCEPT ![t] = FALSE] \in [Tree -> BOOLEAN]
      BY <1>1 DEF Sound, Objects
    <3> QED
      BY <1>1, <3>1 DEF Sound, Objects
  <2> HIDE DEF e, w
  <2>4. Sound(e) /\ Chain(e, k)
    BY <1>1, <2>2, <2>3, ChainFields DEF Sound, Objects, Agree, Owned, Held
  <2>5. CASE s = None
    <3>1. Chain(w, k)
      BY <2>1, <2>4, <2>5
    <3> QED
      BY <3>1 DEF w
  <2>6. CASE s # None
    <3>1. Chain(w, k)
      BY <2>1, <2>4, <2>6, AttachedChain
    <3> QED
      BY <3>1 DEF w
  <2> QED
    BY <2>5, <2>6
<1> QED
  BY <1>2, <1>3, <1>4

\* open() takes the root over from the file, if the degree is its own.
LEMMA OpenedChain ==
  ASSUME NEW o, Sound(o), NEW k, Chain(o, k), NEW s \in Storage,
         s \in File => \A f \in File \ {s} : ~o.opened[f],
         s \in File /\ o.header # NoFile => o.header.b = B[s]
  PROVE  Chain(Opened(o, s), k)
<1> DEFINE p == Opened(o, s)
<1>1. CASE IsOpen(o, s)
  <2>1. p = o
    BY <1>1 DEF Opened
  <2> QED
    BY <2>1
<1>2. CASE ~IsOpen(o, s) /\ s \in Memory
  <2>1. p.opened = o.opened /\ p.header = o.header /\ p.root = o.root
    BY <1>2 DEF Opened, Sound, Objects
  <2> HIDE DEF p
  <2>2. Chain(p, k)
    BY <2>1, ChainFields
  <2> QED
    BY <2>2 DEF p
<1>3. CASE ~IsOpen(o, s) /\ s \in File
  <2> DEFINE r == IF o.header # NoFile THEN o.header.root ELSE o.root[s]
             c == o.header = NoFile
  <2>1. p = [o EXCEPT !.opened[s] = TRUE, !.created[s] = c, !.root[s] = r]
    BY <1>3, ObjectsAssumption DEF Opened
  <2>2. ~o.opened[s] /\ \A f \in File : ~o.opened[f]
    BY <1>3, ObjectsAssumption DEF IsOpen
  <2>3. r = k
    BY <1>3, <2>2 DEF Chain, Kept, Blank
  <2> HIDE DEF p, r, c
  <2>4. /\ p.opened = [o.opened EXCEPT ![s] = TRUE] /\ p.header = o.header
        /\ p.root = [o.root EXCEPT ![s] = r]
    BY <2>1 DEF Sound, Objects
  <2>5. \A f \in File : /\ p.opened[f] <=> f = s
                        /\ p.root[f] = IF f = s THEN k ELSE o.root[f]
    BY <1>3, <2>2, <2>3, <2>4 DEF Sound, Objects, Storage
  <2>6. Chain(p, k)
    BY <1>3, <2>2, <2>4, <2>5 DEF Chain, OneOpen, Kept, Blank
  <2> QED
    BY <2>6 DEF p
<1> QED
  BY <1>1, <1>2, <1>3 DEF Storage

\* The invariant with the history variables.
HInv == Inv /\ (~aborted /\ ~foreign => Chain(Now, kept))

\* The next state takes the chain over from the record a call leaves.
LEMMA BecomeChain ==
  ASSUME NEW o, Become(o), NEW k, Chain(o, k)
  PROVE  Chain(Now', k)
BY DEF Become, Chain, OneOpen, Kept, Blank, Now

\* The first root that an operation allocates is the one to keep.
LEMMA OperateChain ==
  ASSUME HInv, NEW t \in Tree, HOperate(t), ~aborted', ~foreign'
  PROVE  Chain(Now, kept)'
<1> DEFINE s == io[t]
<1>1. ~aborted /\ ~foreign /\ s # None /\ (s \in File => opened[s])
  BY DEF HOperate, Operate
<1>2. Sound(Now) /\ TypeOK /\ s \in Storage /\ Chain(Now, kept)
  BY <1>1 DEF HInv, Inv, TypeOK
<1>3. CASE root[s] = NoRoot
  <2>1. root' = [root EXCEPT ![s] = next_root] /\ opened' = opened /\ header' = header
    BY <1>3 DEF HOperate, Operate, Become, Now
  <2>2. CASE s \in File
    <3>1. kept' = next_root
      BY <1>2, <2>1, <2>2 DEF HOperate, TypeOK
    <3>2. \A f \in File : opened[f] <=> f = s
      BY <1>1, <1>2, <2>2 DEF Chain, OneOpen, Now
    <3> QED
      BY <1>2, <2>1, <2>2, <3>1, <3>2 DEF Chain, OneOpen, Kept, Blank, Now, TypeOK
  <2>3. CASE s \notin File
    <3>1. kept' = kept /\ \A f \in File : root'[f] = root[f]
      BY <1>2, <2>1, <2>3 DEF HOperate, TypeOK, Storage
    <3> QED
      BY <1>2, <2>1, <3>1 DEF Chain, OneOpen, Kept, Blank, Now
  <2> QED
    BY <2>2, <2>3
<1>4. CASE root[s] # NoRoot
  <2>1. aborted'
    BY <1>4 DEF HOperate, Operate, Become, Now
  <2> QED
    BY <2>1
<1> QED
  BY <1>3, <1>4

\* The other steps leave the root that is kept.
LEMMA OtherChain ==
  ASSUME HInv, HOther, ~aborted', ~foreign'
  PROVE  Chain(Now, kept)'
<1>1. kept' = kept /\ ~foreign
  BY DEF HOther
<1>2. SUFFICES ASSUME ~aborted PROVE Chain(Now', kept)
  <2>1. ~aborted
    BY DEF HOther, Construct, Detach, Close, Destroy, Attach, ConstructTreeOn, SetStorage,
           ConstructTree, DestroyTree, Call
  <2> QED
    BY <1>1, <1>2, <2>1
<1>3. Sound(Now) /\ Chain(Now, kept) /\ TypeOK
  BY <1>1, <1>2 DEF HInv, Inv
<1>4. ASSUME NEW s \in Storage, Construct(s) PROVE Chain(Now', kept)
  <2>1. Now' = Now
    BY <1>4 DEF Construct, objects, Now
  <2> QED
    BY <1>3, <2>1
<1>5. ASSUME NEW s \in Storage, Detach(s) PROVE Chain(Now', kept)
  <2>1. Chain(Detached(Now, s), kept) /\ Become(Detached(Now, s))
    BY <1>3, <1>5, DetachedChain DEF Detach, Call
  <2> QED
    BY <2>1, BecomeChain
<1>6. ASSUME NEW s \in Storage, Close(s) PROVE Chain(Now', kept)
  <2>1. Chain(Closed(Now, s), kept) /\ Become(Closed(Now, s))
    BY <1>3, <1>6, ClosedChain DEF Close, Call
  <2> QED
    BY <2>1, BecomeChain
<1>7. ASSUME NEW s \in Storage, Destroy(s) PROVE Chain(Now', kept)
  <2> DEFINE c == Closed(Now, s)
             o == [c EXCEPT !.created[s] = FALSE, !.root[s] = NoRoot, !.nodes = @ \ {s}]
  <2>1. Become(o)
    BY <1>7 DEF Destroy
  <2>2. Sound(c) /\ Chain(c, kept) /\ (s \in File => ~c.opened[s])
    BY <1>3, ClosedOK, ClosedChain
  <2> HIDE DEF c
  <2>3. o.root = [c.root EXCEPT ![s] = NoRoot] /\ o.opened = c.opened /\ o.header = c.header
    BY <2>2 DEF Sound, Objects
  <2> HIDE DEF o
  <2>4. /\ \A f \in File : c.opened[f] => o.root[f] = c.root[f]
        /\ \A f \in File : ~c.opened[f] => o.root[f] \in {c.root[f], NoRoot}
    BY <2>2, <2>3 DEF Sound, Objects, Storage
  <2>5. Chain(o, kept)
    BY <2>2, <2>3, <2>4, ChainFields
  <2> QED
    BY <2>1, <2>5, BecomeChain
<1>8. ASSUME NEW s \in Storage, NEW t \in Tree, Attach(s, t) PROVE Chain(Now', kept)
  <2>1. Chain(Attached(Now, s, t), kept) /\ Become(Attached(Now, s, t))
    BY <1>3, <1>8, AttachedChain DEF Attach, Call
  <2> QED
    BY <2>1, BecomeChain
<1>9. ASSUME NEW s \in Storage \cup {None}, NEW t \in Tree, SetStorage(t, s) \/ ConstructTreeOn(t, s)
      PROVE  Chain(Now', kept)
  <2>1. Chain(WithStorage(Now, t, s), kept) /\ Become(WithStorage(Now, t, s))
    BY <1>3, <1>9, WithStorageChain DEF SetStorage, ConstructTreeOn, Call
  <2> QED
    BY <2>1, BecomeChain
<1>10. ASSUME NEW t \in Tree, NEW m \in Memory, ConstructTree(t, m) PROVE Chain(Now', kept)
  <2> DEFINE w == WithStorage(Now, t, m)
             o == [w EXCEPT !.allocated[t] = TRUE]
  <2>1. Become(o)
    BY <1>10 DEF ConstructTree
  <2>2. Sound(w) /\ Chain(w, kept)
    BY <1>3, WithStorageOK, WithStorageChain DEF Storage
  <2> HIDE DEF w
  <2>3. o.root = w.root /\ o.opened = w.opened /\ o.header = w.header
    BY <2>2 DEF Sound, Objects
  <2> HIDE DEF o
  <2>4. Chain(o, kept)
    BY <2>2, <2>3, ChainFields
  <2> QED
    BY <2>1, <2>4, BecomeChain
<1>11. ASSUME NEW t \in Tree, DestroyTree(t) PROVE Chain(Now', kept)
  <2> DEFINE c == IF io[t] = None THEN Now ELSE Closed(Now, io[t])
  <2>1. Become(WithStorage(c, t, None))
    BY <1>11 DEF DestroyTree
  <2>2. Sound(c) /\ Chain(c, kept)
    <3>1. CASE io[t] = None
      BY <3>1, <1>3
    <3>2. CASE io[t] # None
      <4>1. io[t] \in Storage /\ c = Closed(Now, io[t])
        BY <3>2, <1>3 DEF TypeOK
      <4> QED
        BY <4>1, <1>3, ClosedOK, ClosedChain
    <3> QED
      BY <3>1, <3>2
  <2> HIDE DEF c
  <2>3. Chain(WithStorage(c, t, None), kept)
    BY <2>2, WithStorageChain
  <2> QED
    BY <2>1, <2>3, BecomeChain
<1> QED
  BY <1>4, <1>5, <1>6, <1>7, <1>8, <1>9, <1>10, <1>11 DEF HOther

\* No file, and no root.
LEMMA HInitInv == HInit => HInv
<1> SUFFICES ASSUME HInit PROVE HInv
  OBVIOUS
<1>1. Inv
  BY InitInv DEF HInit
<1>2. Chain(Now, kept)
  BY DEF HInit, Init, Chain, OneOpen, Kept, Blank, Now, Storage
<1> QED
  BY <1>1, <1>2 DEF HInv

\* Every step keeps the invariant.
LEMMA HStepInv == HInv /\ [HNext]_hvars => HInv'
<1> SUFFICES ASSUME HInv, [HNext]_hvars PROVE HInv'
  OBVIOUS
<1>1. Inv'
  <2>1. [Next]_vars
    BY DEF HNext, HOperate, HOpen, HOther, Next, hvars
  <2> QED
    BY <2>1, StepInv DEF HInv
<1> SUFFICES ASSUME ~aborted', ~foreign' PROVE Chain(Now, kept)'
  BY <1>1 DEF HInv
<1>2. ASSUME NEW t \in Tree, HOperate(t) PROVE Chain(Now, kept)'
  BY <1>2, OperateChain
<1>3. ASSUME NEW s \in Storage, HOpen(s) PROVE Chain(Now, kept)'
  <2>1. /\ ~aborted /\ ~foreign /\ kept' = kept /\ MayOpen(s) /\ Become(Opened(Now, s))
        /\ s \in File /\ header # NoFile => header.b = B[s]
    BY <1>3 DEF HOpen, Open, Call
  <2>2. Sound(Now) /\ Chain(Now, kept) /\ Now.opened = opened /\ Now.header = header
    BY <2>1 DEF HInv, Inv, Now
  <2>3. Chain(Opened(Now, s), kept)
    BY <2>1, <2>2, OpenedChain DEF MayOpen
  <2> QED
    BY <2>1, <2>3, BecomeChain
<1>4. CASE HOther
  BY <1>4, OtherChain
<1>5. CASE UNCHANGED hvars
  <2>1. Now' = Now /\ UNCHANGED <<kept, aborted, foreign>>
    BY <1>5 DEF hvars, vars, objects, Now
  <2> QED
    BY <2>1 DEF HInv
<1> QED
  BY <1>2, <1>3, <1>4, <1>5 DEF HNext

\* The tree in the file keeps its root, through every order of opening, closing,
\* attaching, detaching and destroying, with any number of storages on the file
\* (open, close, attach and detach of BTreeFileStorage.h and BTree.h).
THEOREM RootStays == HSpec => []RootPersists
<1>1. HInv => RootPersists
  BY DEF HInv, Chain, Kept, Now, RootPersists
<1> QED
  BY <1>1, HInitInv, HStepInv, PTL DEF HSpec
=============================================================================
