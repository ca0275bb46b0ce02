----------------------- MODULE BTreeFileStorageProofs ------------------------
(***************************************************************************)
(* Proofs about BTreeFileStorage: for any nodes, any size of the cache and  *)
(* any window of 2 or more, no operation of the tree loses a change to a    *)
(* node that the cache evicts under its pointers.                           *)
(*                                                                         *)
(* What is inductive says, of each line of each piece, which pointers       *)
(* designate objects in the cache there and which accesses were the last.   *)
(* The accesses are shown once to leave every pointer with an object that   *)
(* has the changes it had (FetchKeeps); each piece then only has to find    *)
(* its pointers where the line before left them.                            *)
(***************************************************************************)
EXTENDS BTreeFileStorage, TLAPS

Pointer == [id : Id, object : Content \cup {Shared}]
Memory == [cache : [Id -> Content \cup {Absent}], blocks : [Id -> Content],
           hand : [Var -> Pointer \cup {NoHand}]]

TypeOK ==
  /\ nodes \in SUBSET Id /\ Now \in Memory
  /\ recent \in Seq(Id) /\ Len(recent) <= Window
  /\ op \in Kinds /\ piece \in DOMAIN Script /\ line \in 1 .. 8

\* A pointer is to a node; one to an object in the cache finds it there.
Live(s) == \A v \in Var : s.hand[v] # NoHand =>
  /\ s.hand[v].id \in nodes
  /\ s.hand[v].object = Shared => s.cache[s.hand[v].id] # Absent

Stored(s, i) == IF s.cache[i] # Absent THEN s.cache[i] ELSE s.blocks[i]

\* Every node has its changes, but the one that share has changed through a
\* pointer to an object out of the cache and has not put yet.
Complete == \A i \in nodes :
  \/ ReadBack(i) = "latest"
  \/ /\ op # "idle" /\ piece = "share" /\ line \in 2 .. 4
     /\ i = hand["y"].id /\ ReadBack(i) = "behind"

(***************************************************************************)
(* The pointers and the last accesses, line by line.                        *)
(***************************************************************************)
Free(U) == \A u \in U : hand[u] = NoHand
InCache(U) == \A u \in U : Holding(u) /\ hand[u].object = Shared
Differ(U) == \A u, v \in U : u # v => hand[u].id # hand[v].id
Last(v) == Len(recent) >= 1 /\ recent[Len(recent)] = hand[v].id
LastTwo(u, v) == Len(recent) >= 2 /\ recent[Len(recent) - 1] = hand[u].id /\ Last(v)

OnTop == InCache({"x"}) /\ Last("x") /\ Free({"y", "z", "w"})
ThisNode == InCache({"self"}) /\ hand["self"].id = hand["x"].id
NewerY == Holding("y") /\ Object(Now, "y") = "latest"

AtStart == (line = 1 => Free(Var)) /\ (line = 2 => OnTop)
AtSearch == OnTop /\ (line = 2 => ThisNode)
AtChild ==
  /\ line = 1 => OnTop
  /\ line = 2 => InCache({"x", "y"}) /\ Differ({"x", "y"}) /\ LastTwo("x", "y") /\ Free({"z", "w"})
AtRaise ==
  /\ InCache({"x", "y"}) /\ Free({"z", "w"})
  /\ line = 1 => Last("y")
  /\ line \in {2, 3} => Differ({"x", "y"}) /\ LastTwo("y", "x")
AtSplit ==
  /\ InCache({"x", "y"}) /\ Differ({"x", "y"}) /\ Free({"w"})
  /\ line = 1 => LastTwo("x", "y") \/ LastTwo("y", "x")
  /\ line = 2 => Last("y")
  /\ line = 3 => LastTwo("y", "x")
  /\ line <= 3 => Free({"z"})
  /\ line >= 3 => ThisNode
  /\ line >= 4 => InCache({"z"}) /\ Differ({"x", "y", "z"})
  /\ line \in {4, 5, 6, 8} => LastTwo("x", "z")
  /\ line = 7 => LastTwo("z", "x")
AtLink ==
  /\ InCache({"x", "z"}) /\ Differ({"x", "y", "z"}) /\ NewerY
  /\ line = 1 => LastTwo("x", "z")
  /\ line >= 2 => InCache({"w"}) /\ Differ({"x", "y", "z", "w"})
AtShare ==
  /\ Holding("x")
  /\ line <= 4 => InCache({"x", "z"}) /\ Differ({"x", "y", "z"}) /\ NewerY
  /\ line = 5 => Holding("z") /\ Object(Now, "z") = "latest"
  /\ line >= 7 => InCache({"self"})
AtAgain ==
  /\ Holding("x") /\ Free({"z", "w"})
  /\ line <= 2 => Free({"y"})
  /\ line = 3 => InCache({"y"}) /\ Last("y")
AtStore ==
  /\ Holding("x") /\ (line = 1 => InCache({"x"})) /\ (line >= 3 => InCache({"self"}))
AtUpdate == InCache({"self"})

Pointers ==
  IF op = "idle" THEN Free(Var) /\ piece = "root" /\ line = 1
  ELSE /\ line <= Len(Script[piece]) + 1
       /\ piece \in {"create", "root"} => AtStart
       /\ piece = "bsearch" => AtSearch
       /\ piece = "child" => AtChild
       /\ piece = "raise" => AtRaise
       /\ piece = "split" => AtSplit
       /\ piece = "link" => AtLink
       /\ piece = "share" => AtShare
       /\ piece = "again" => AtAgain
       /\ piece = "store" => AtStore
       /\ piece = "update" => AtUpdate

IInv == TypeOK /\ Live(Now) /\ Complete /\ Pointers

-----------------------------------------------------------------------------
(***************************************************************************)
(* What the accesses to the cache keep.                                     *)
(***************************************************************************)

\* s is what the cache may become when an entry makes room: nodes are stored
\* as before and pointers have the objects they had, those to the entries last
\* accessed in the cache.
Keeps(s) ==
  /\ s \in Memory /\ Live(s)
  /\ \A i \in Id : Stored(s, i) = ReadBack(i)
  /\ \A i \in Range(recent) : cache[i] # Absent => s.cache[i] = cache[i]
  /\ \A v \in Var : ~Holding(v) => s.hand[v] = NoHand
  /\ \A v \in Var : Holding(v) =>
       /\ s.hand[v] # NoHand /\ s.hand[v].id = hand[v].id
       /\ Object(s, v) = Object(Now, v)
       /\ hand[v].id \in Range(recent) => s.hand[v] = hand[v]

\* The eviction of one entry that is not among the last accessed.
LEMMA EvictedKeeps ==
  ASSUME TypeOK, Live(Now), NEW i \in Id, cache[i] # Absent, i \notin Range(recent)
  PROVE  Keeps(Evicted(Now, i))
<1> DEFINE s == Evicted(Now, i)
<1> USE TokensAssumption DEF TypeOK, Memory, Pointer, Content
<1>1. s.cache = [cache EXCEPT ![i] = Absent] /\ s.blocks = [blocks EXCEPT ![i] = cache[i]]
  BY DEF Evicted, Now
<1>2. \A v \in Var : s.hand[v] = IF Holding(v) /\ hand[v] = [id |-> i, object |-> Shared]
                                 THEN [id |-> i, object |-> cache[i]] ELSE hand[v]
  BY DEF Evicted, Now, Orphaned, Holding
<1>3. s \in Memory
  <2>1. s.hand \in [Var -> Pointer \cup {NoHand}]
    BY <1>2 DEF Evicted, Now, Orphaned, Holding
  <2> QED
    BY <1>1, <2>1 DEF Evicted, Now
<1> HIDE DEF s
<1>4. \A v \in Var : Holding(v) => hand[v] \in Pointer
  BY DEF Now, Holding
<1>5. Live(s)
  BY <1>1, <1>2, <1>4 DEF Live, Now, Holding
<1>6. \A j \in Id : Stored(s, j) = ReadBack(j)
  BY <1>1 DEF Stored, ReadBack, Now
<1>7. \A v \in Var : Holding(v) => Object(s, v) = Object(Now, v)
  BY <1>1, <1>2, <1>4 DEF Object, Live, Now, Holding
<1>8. \A v \in Var : Holding(v) => s.hand[v] # NoHand /\ s.hand[v].id = hand[v].id
                                  /\ (hand[v].id \in Range(recent) => s.hand[v] = hand[v])
  <2> SUFFICES ASSUME NEW v \in Var, Holding(v)
               PROVE  s.hand[v] # NoHand /\ s.hand[v].id = hand[v].id
                      /\ (hand[v].id \in Range(recent) => s.hand[v] = hand[v])
    OBVIOUS
  <2>1. CASE hand[v] = [id |-> i, object |-> Shared]
    <3>1. s.hand[v] = [id |-> i, object |-> cache[i]] /\ hand[v].id = i
      BY <1>2, <2>1
    <3>2. s.hand[v] \in Pointer
      BY <3>1 DEF Now
    <3> QED
      BY <3>1, <3>2
  <2>2. CASE hand[v] # [id |-> i, object |-> Shared]
    BY <1>2, <2>2 DEF Holding
  <2> QED
    BY <2>1, <2>2
<1>9. \A j \in Range(recent) : cache[j] # Absent => s.cache[j] = cache[j]
  BY <1>1 DEF Range, Now
<1> QED
  BY <1>2, <1>3, <1>5, <1>6, <1>7, <1>8, <1>9 DEF Keeps, Holding, s

\* Making room, where the cache is full.
LEMMA RoomKeeps ==
  ASSUME TypeOK, Live(Now), NEW s \in Room(Now)
  PROVE  Keeps(s)
<1>1. CASE s = Now
  BY <1>1 DEF Keeps, Stored, ReadBack, Holding, Now, TypeOK, Memory
<1>2. CASE \E i \in Victims(Now) : s = Evicted(Now, i)
  BY <1>2, EvictedKeeps DEF Victims, Cached, Now
<1> QED
  BY <1>1, <1>2 DEF Room

\* Fetching a node: m_lru[id].
LEMMA FetchKeeps ==
  ASSUME TypeOK, Live(Now), NEW id \in Id, NEW r \in Sub(Now, id)
  PROVE  Keeps(r) /\ r.cache[id] = ReadBack(id) /\ r.cache[id] # Absent
         /\ (cache[id] # Absent => r = Now)
<1> USE TokensAssumption DEF TypeOK
<1>1. CASE cache[id] # Absent
  <2>1. r = Now
    BY <1>1 DEF Sub, Now
  <2>2. Keeps(r)
    BY <2>1 DEF Keeps, Stored, ReadBack, Holding, Now, Memory
  <2> QED
    BY <1>1, <2>1, <2>2 DEF ReadBack, Now
<1>2. CASE cache[id] = Absent
  <2>1. PICK s \in Room(Now) : r = [s EXCEPT !.cache[id] = s.blocks[id]]
    BY <1>2 DEF Sub, Now
  <2>2. Keeps(s)
    BY <2>1, RoomKeeps
  <2>3. s.cache[id] = Absent
    BY <1>2, <2>1 DEF Room, Evicted, Now, Memory
  <2>4. s \in Memory /\ s.blocks[id] \in Content
    BY <2>2 DEF Keeps, Memory
  <2>5. r \in Memory /\ r.cache = [s.cache EXCEPT ![id] = s.blocks[id]]
        /\ r.blocks = s.blocks /\ r.hand = s.hand
    BY <2>1, <2>4 DEF Memory
  <2>6. r.cache[id] = ReadBack(id) /\ r.cache[id] # Absent
    BY <2>2, <2>3, <2>4, <2>5 DEF Keeps, Stored, Memory
  <2>7. Live(r)
    BY <2>2, <2>4, <2>5, <2>6 DEF Keeps, Live, Memory, Pointer
  <2>8. \A i \in Id : Stored(r, i) = ReadBack(i)
    BY <2>2, <2>4, <2>5, <2>6 DEF Keeps, Stored, Memory
  <2>9. \A v \in Var : Holding(v) => Object(r, v) = Object(Now, v)
    <3> SUFFICES ASSUME NEW v \in Var, Holding(v)
                 PROVE  Object(r, v) = Object(s, v)
      BY <2>2 DEF Keeps
    <3>1. r.hand[v] = s.hand[v] /\ s.hand[v] # NoHand /\ s.hand[v] \in Pointer
      BY <2>2, <2>4, <2>5 DEF Keeps, Memory
    <3>2. CASE s.hand[v].object = Shared
      <4>1. s.cache[s.hand[v].id] # Absent
        BY <3>1, <3>2, <2>2 DEF Keeps, Live
      <4> QED
        BY <4>1, <3>1, <3>2, <2>3, <2>4, <2>5 DEF Object, Memory, Pointer
    <3> QED
      BY <3>1, <3>2 DEF Object
  <2>10. \A i \in Range(recent) : cache[i] # Absent => r.cache[i] = cache[i]
    BY <1>2, <2>2, <2>4, <2>5 DEF Keeps, Range, Memory
  <2>11. Keeps(r)
    BY <2>2, <2>5, <2>7, <2>8, <2>9, <2>10 DEF Keeps
  <2> QED
    BY <1>2, <2>6, <2>11
<1> QED
  BY <1>1, <1>2

\* The access becomes the last, the one before it the last but one.
LEMMA AccessedLast ==
  ASSUME TypeOK, NEW id \in Id, Accessed(id)
  PROVE  /\ recent' \in Seq(Id) /\ Len(recent') <= Window /\ Len(recent') >= 1
         /\ recent'[Len(recent')] = id
         /\ Len(recent) >= 1 => /\ Len(recent') >= 2
                               /\ recent'[Len(recent') - 1] = recent[Len(recent)]
<1> DEFINE all == Append(recent, id)
<1> USE WindowAssumption DEF TypeOK
<1>1. all \in Seq(Id) /\ Len(all) = Len(recent) + 1 /\ all[Len(recent) + 1] = id
      /\ (Len(recent) >= 1 => all[Len(recent)] = recent[Len(recent)])
  OBVIOUS
<1>2. CASE Len(all) > Window
  <2>1. recent' = Tail(all)
    BY <1>2 DEF Accessed
  <2> QED
    BY <1>1, <1>2, <2>1
<1>3. CASE ~(Len(all) > Window)
  <2>1. recent' = all
    BY <1>3 DEF Accessed
  <2> QED
    BY <1>1, <1>3, <2>1
<1> QED
  BY <1>2, <1>3

-----------------------------------------------------------------------------
(***************************************************************************)
(* The lines, one by one: what each does to the memory and to pointers.     *)
(***************************************************************************)
GetPoints ==
  {<<"root", 1, "x">>, <<"bsearch", 1, "self">>, <<"child", 1, "y">>, <<"split", 1, "y">>,
   <<"split", 2, "self">>, <<"link", 1, "w">>, <<"share", 6, "self">>,
   <<"again", 1, "self">>, <<"again", 2, "y">>, <<"store", 2, "self">>}
AllocPoints == {<<"create", 1, "x">>, <<"raise", 1, "x">>, <<"split", 3, "z">>}
ChangePoints ==
  {<<"raise", 2, "x">>, <<"split", 4, "self">>, <<"split", 5, "z">>, <<"link", 2, "w">>,
   <<"share", 1, "y">>, <<"share", 2, "z">>, <<"share", 3, "x">>, <<"store", 1, "x">>,
   <<"update", 1, "self">>}
PutPoints ==
  {<<"split", 6, "self">>, <<"split", 7, "z">>, <<"link", 3, "w">>, <<"share", 4, "y">>,
   <<"share", 5, "z">>, <<"share", 7, "self">>, <<"store", 3, "self">>}

\* How long the pieces are.
LEMMA ScriptLengths ==
  /\ DOMAIN Script = {"create", "root", "bsearch", "child", "raise", "split", "link", "share",
                      "again", "store", "update"}
  /\ \A p \in {"create", "root", "bsearch", "child", "update"} : Len(Script[p]) = 1
  /\ \A p \in {"raise", "again"} : Len(Script[p]) = 2
  /\ \A p \in {"link", "store"} : Len(Script[p]) = 3
  /\ \A p \in {"split", "share"} : Len(Script[p]) = 7
BY DEF Script

\* Where a line does what.
LEMMA ScriptPlaces ==
  ASSUME TypeOK, NEW do, NEW v, line <= Len(Script[piece]),
         do = Script[piece][line][1], v = Script[piece][line][2]
  PROVE  /\ line \in 1 .. 7 /\ Len(Script[piece]) \in 1 .. 7
         /\ do = "get" => <<piece, line, v>> \in GetPoints
         /\ do = "alloc" => <<piece, line, v>> \in AllocPoints
         /\ do = "change" => <<piece, line, v>> \in ChangePoints
         /\ do = "put" => <<piece, line, v>> \in PutPoints
<1>1. piece \in DOMAIN Script /\ line \in 1 .. 8 /\ line <= Len(Script[piece])
      /\ do = Script[piece][line][1] /\ v = Script[piece][line][2]
  BY DEF TypeOK
<1>2. line \in 1 .. 7 /\ Len(Script[piece]) \in 1 .. 7
  BY <1>1, ScriptLengths
<1>3. CASE piece \in {"create", "root", "bsearch", "child", "update"}
  <2>1. line = 1
    BY <1>1, <1>3, ScriptLengths
  <2> QED
    BY <1>1, <1>3, <2>1 DEF Script, GetPoints, AllocPoints, ChangePoints, PutPoints
<1>4. CASE piece \in {"raise", "again"}
  <2>1. line \in {1, 2}
    BY <1>1, <1>4, ScriptLengths
  <2> QED
    BY <1>1, <1>4, <2>1 DEF Script, GetPoints, AllocPoints, ChangePoints, PutPoints
<1>5. CASE piece \in {"link", "store"}
  <2>0. Len(Script[piece]) = 3
    BY <1>5, ScriptLengths
  <2>1. line \in {1, 2, 3}
    BY <1>1, <1>2, <2>0
  <2> QED
    BY <1>1, <1>5, <2>1 DEF Script, GetPoints, AllocPoints, ChangePoints, PutPoints
<1>6. CASE piece = "split"
  BY <1>1, <1>2, <1>6 DEF Script, GetPoints, AllocPoints, ChangePoints, PutPoints
<1>7. CASE piece = "share"
  BY <1>1, <1>2, <1>7 DEF Script, GetPoints, AllocPoints, ChangePoints, PutPoints
<1> QED
  BY <1>1, <1>2, <1>3, <1>4, <1>5, <1>6, <1>7, ScriptLengths

\* So of the line under way, which is followed by the next.
LEMMA ScriptPoints ==
  ASSUME TypeOK, NEW do, NEW v, Doing(do, v)
  PROVE  /\ line' \in 2 .. 8 /\ line' <= Len(Script[piece]) + 1
         /\ do = "get" => <<piece, line, v>> \in GetPoints
         /\ do = "alloc" => <<piece, line, v>> \in AllocPoints
         /\ do = "change" => <<piece, line, v>> \in ChangePoints
         /\ do = "put" => <<piece, line, v>> \in PutPoints
BY ScriptPlaces DEF Doing

\* An access through v to node id: which pointers and accesses it leaves.
Touches(v, id) ==
  /\ TypeOK' /\ Live(Now)' /\ nodes \subseteq nodes' /\ op' = op /\ piece' = piece
  /\ line' = line + 1 /\ line' <= Len(Script[piece]) + 1
  /\ Len(recent') >= 1 /\ recent'[Len(recent')] = id
  /\ Len(recent) >= 1 =>
       Len(recent') >= 2 /\ recent'[Len(recent') - 1] = recent[Len(recent)]
  /\ Holding(v)' /\ hand'[v].id = id
  /\ \A u \in Var \ {v} : ~Holding(u) => hand'[u] = NoHand
  /\ \A u \in Var \ {v} : Holding(u) =>
       /\ hand'[u] # NoHand /\ hand'[u].id = hand[u].id
       /\ hand[u].id \in Range(recent) => hand'[u] = hand[u]
       /\ Object(Now, u) = "latest" => Object(Now, u)' = "latest"

\* What a pointer has been given, it designates in the cache.
Fetched(v, id) ==
  /\ Touches(v, id) /\ hand'[v] = [id |-> id, object |-> Shared]
  /\ cache[id] # Absent => \A u \in Var \ {v} : hand'[u] = hand[u]

\* A line that accesses the cache goes on to the next.
LEMMA LineGoesOn ==
  ASSUME TypeOK, NEW do, NEW v, Doing(do, v), NEW id \in Id, Accessed(id),
         Now' \in Memory, nodes' \in SUBSET Id
  PROVE  /\ TypeOK' /\ op' = op /\ piece' = piece
         /\ line' = line + 1 /\ line' <= Len(Script[piece]) + 1
         /\ Len(recent') >= 1 /\ recent'[Len(recent')] = id
         /\ Len(recent) >= 1 =>
              Len(recent') >= 2 /\ recent'[Len(recent') - 1] = recent[Len(recent)]
<1>1. line' \in 2 .. 8 /\ line' <= Len(Script[piece]) + 1
  BY ScriptPoints
<1>2. op' = op /\ piece' = piece /\ line' = line + 1
  BY DEF Doing
<1>3. /\ recent' \in Seq(Id) /\ Len(recent') <= Window /\ Len(recent') >= 1
      /\ recent'[Len(recent')] = id
      /\ Len(recent) >= 1 => /\ Len(recent') >= 2
                            /\ recent'[Len(recent') - 1] = recent[Len(recent)]
  BY AccessedLast
<1>4. TypeOK'
  BY <1>1, <1>2, <1>3 DEF TypeOK
<1> QED
  BY <1>1, <1>2, <1>3, <1>4

\* The node fetched is one of the tree.
LEMMA FetchesNodes ==
  ASSUME TypeOK, Live(Now), Pointers, NEW v \in Var, Doing("get", v), NEW id \in Fetches(v)
  PROVE  id \in nodes
<1>1. <<piece, line, v>> \in GetPoints /\ op # "idle"
  BY ScriptPoints DEF Doing
<1>2. v = "self" => Holding("x")
  BY <1>1 DEF GetPoints, Pointers, AtSearch, OnTop, InCache, AtSplit, AtShare, AtAgain, AtStore
<1>3. \A u \in Var : Holding(u) => hand[u].id \in nodes
  BY DEF Live, Now, Holding
<1> QED
  BY <1>2, <1>3 DEF Fetches, HeldIds, Var

\* Get: the nodes keep what they have.
LEMMA GetFacts ==
  ASSUME TypeOK, Live(Now), Pointers, NEW v \in Var, Get(v)
  PROVE  \E id \in Fetches(v) :
           /\ id \in nodes /\ Fetched(v, id) /\ nodes' = nodes
           /\ \A i \in Id : ReadBack(i)' = ReadBack(i)
<1> USE TokensAssumption
<1>0. PICK id \in Fetches(v) :
         /\ \E s \in Sub(Now, id) : Become([s EXCEPT !.hand[v] = [id |-> id, object |-> Shared]])
         /\ Accessed(id)
  BY DEF Get
<1>1. PICK r \in Sub(Now, id) : Become([r EXCEPT !.hand[v] = [id |-> id, object |-> Shared]])
  BY <1>0
<1>2. Doing("get", v) /\ nodes' = nodes
  BY DEF Get
<1>3. id \in nodes /\ id \in Id
  BY <1>2, FetchesNodes DEF TypeOK
<1>4. Keeps(r) /\ r.cache[id] = ReadBack(id) /\ r.cache[id] # Absent
      /\ (cache[id] # Absent => r = Now)
  BY <1>1, <1>3, FetchKeeps
<1>5. r \in Memory
  BY <1>4 DEF Keeps
<1>6. cache' = r.cache /\ blocks' = r.blocks
      /\ hand' = [r.hand EXCEPT ![v] = [id |-> id, object |-> Shared]]
  BY <1>1, <1>5 DEF Become, Memory
<1>7. TypeOK'
  <2>1. Now' \in Memory
    BY <1>3, <1>5, <1>6 DEF Now, Memory, Pointer
  <2> QED
    BY <1>0, <1>2, <1>3, <2>1, LineGoesOn DEF TypeOK
<1>8. \A i \in Id : ReadBack(i)' = ReadBack(i)
  BY <1>4, <1>6 DEF Keeps, Stored, ReadBack
<1>9. Live(Now)'
  BY <1>2, <1>3, <1>4, <1>5, <1>6 DEF Keeps, Live, Now, Memory
<1>10. \A u \in Var \ {v} : hand'[u] = r.hand[u] /\ Object(Now, u)' = Object(r, u)
  BY <1>5, <1>6 DEF Memory, Object, Now
<1>11. \A u \in Var \ {v} : ~Holding(u) => hand'[u] = NoHand
  BY <1>4, <1>10 DEF Keeps
<1>12. \A u \in Var \ {v} : Holding(u) =>
         /\ hand'[u] # NoHand /\ hand'[u].id = hand[u].id
         /\ hand[u].id \in Range(recent) => hand'[u] = hand[u]
         /\ Object(Now, u) = "latest" => Object(Now, u)' = "latest"
  BY <1>4, <1>10 DEF Keeps
<1>13. hand'[v] = [id |-> id, object |-> Shared] /\ Holding(v)'
  BY <1>5, <1>6, <1>3 DEF Memory, Holding, Pointer
<1>14. Touches(v, id)
  <2>1. Now' \in Memory /\ nodes' \in SUBSET Id
    BY <1>7 DEF TypeOK
  <2>2. /\ op' = op /\ piece' = piece /\ line' = line + 1 /\ line' <= Len(Script[piece]) + 1
        /\ Len(recent') >= 1 /\ recent'[Len(recent')] = id
        /\ Len(recent) >= 1 =>
             Len(recent') >= 2 /\ recent'[Len(recent') - 1] = recent[Len(recent)]
    BY <1>0, <1>2, <1>3, <2>1, LineGoesOn
  <2> QED
    BY <1>2, <1>7, <1>9, <1>11, <1>12, <1>13, <2>2 DEF Touches
<1>15. cache[id] # Absent => \A u \in Var \ {v} : hand'[u] = hand[u]
  BY <1>4, <1>10 DEF Now
<1> QED
  BY <1>3, <1>2, <1>8, <1>13, <1>14, <1>15 DEF Fetched

\* Alloc: a node of its own, with all of its changes.
LEMMA AllocFacts ==
  ASSUME TypeOK, Live(Now), NEW v \in Var, Alloc(v)
  PROVE  \E id \in Id \ nodes :
           /\ Touches(v, id) /\ hand'[v] = [id |-> id, object |-> Shared]
           /\ nodes' = nodes \cup {id} /\ ReadBack(id)' = "latest"
           /\ \A i \in nodes : ReadBack(i)' = ReadBack(i)
<1> USE TokensAssumption
<1>1. PICK id \in Id \ nodes, r \in Room(Now) :
         /\ nodes' = nodes \cup {id}
         /\ Become([r EXCEPT !.cache[id] = "latest",
                             !.hand[v] = [id |-> id, object |-> Shared]])
         /\ Accessed(id)
  BY DEF Alloc
<1>2. Doing("alloc", v)
  BY DEF Alloc
<1>4. Keeps(r)
  BY <1>1, RoomKeeps
<1>5. r \in Memory
  BY <1>4 DEF Keeps
<1>6. cache' = [r.cache EXCEPT ![id] = "latest"] /\ blocks' = r.blocks
      /\ hand' = [r.hand EXCEPT ![v] = [id |-> id, object |-> Shared]]
  BY <1>1, <1>5 DEF Become, Memory
<1>7. TypeOK'
  <2>1. Now' \in Memory
    BY <1>1, <1>5, <1>6 DEF Now, Memory, Pointer, Content
  <2> QED
    BY <1>1, <1>2, <2>1, LineGoesOn DEF TypeOK
<1>8. \A i \in nodes : ReadBack(i)' = ReadBack(i)
  BY <1>1, <1>4, <1>5, <1>6 DEF Keeps, Stored, ReadBack, TypeOK, Memory
<1>9. ReadBack(id)' = "latest" /\ cache'[id] # Absent
  BY <1>1, <1>5, <1>6 DEF ReadBack, Memory, Content
<1>10. \A u \in Var \ {v} : hand'[u] = r.hand[u] /\ (Holding(u) => Object(Now, u)' = Object(r, u))
  <2> SUFFICES ASSUME NEW u \in Var \ {v}
               PROVE  hand'[u] = r.hand[u] /\ (Holding(u) => Object(Now, u)' = Object(r, u))
    OBVIOUS
  <2>1. hand'[u] = r.hand[u]
    BY <1>5, <1>6 DEF Memory
  <2>2. Holding(u) => r.hand[u] # NoHand /\ r.hand[u].id \in nodes
    BY <1>4 DEF Keeps, Live
  <2>3. Holding(u) => cache'[r.hand[u].id] = r.cache[r.hand[u].id]
    BY <2>2, <1>1, <1>5, <1>6 DEF Memory, TypeOK
  <2> QED
    BY <2>1, <2>3 DEF Object, Now
<1>11. Live(Now)'
  <2>1. \A u \in Var \ {v} : r.hand[u] # NoHand => r.hand[u].id \in nodes
          /\ (r.hand[u].object = Shared => r.cache[r.hand[u].id] # Absent)
    BY <1>4 DEF Keeps, Live
  <2> QED
    BY <1>1, <1>5, <1>6, <1>9, <1>10, <2>1 DEF Live, Now, Memory
<1>12. \A u \in Var \ {v} : ~Holding(u) => hand'[u] = NoHand
  BY <1>4, <1>10 DEF Keeps
<1>13. \A u \in Var \ {v} : Holding(u) =>
         /\ hand'[u] # NoHand /\ hand'[u].id = hand[u].id
         /\ hand[u].id \in Range(recent) => hand'[u] = hand[u]
         /\ Object(Now, u) = "latest" => Object(Now, u)' = "latest"
  BY <1>4, <1>10 DEF Keeps
<1>14. hand'[v] = [id |-> id, object |-> Shared] /\ Holding(v)'
  BY <1>5, <1>6, <1>1 DEF Memory, Holding, Pointer
<1>15. Touches(v, id)
  <2>1. Now' \in Memory /\ nodes' \in SUBSET Id
    BY <1>7 DEF TypeOK
  <2>2. /\ op' = op /\ piece' = piece /\ line' = line + 1 /\ line' <= Len(Script[piece]) + 1
        /\ Len(recent') >= 1 /\ recent'[Len(recent')] = id
        /\ Len(recent) >= 1 =>
             Len(recent') >= 2 /\ recent'[Len(recent') - 1] = recent[Len(recent)]
    BY <1>1, <1>2, <2>1, LineGoesOn
  <2> QED
    BY <1>1, <1>7, <1>11, <1>12, <1>13, <1>14, <2>2 DEF Touches
<1> QED
  BY <1>1, <1>8, <1>9, <1>14, <1>15

\* Put of an object that has all the changes: the node has them, wherever the
\* object was, and so have the objects of the other pointers that had theirs.
LEMMA PutFacts ==
  ASSUME TypeOK, Live(Now), NEW v \in Var, Put(v), Holding(v), Object(Now, v) = "latest",
         NEW id, id = hand[v].id
  PROVE  /\ id \in nodes /\ Touches(v, id) /\ nodes' = nodes
         /\ cache[id] # Absent => hand' = hand
         /\ ReadBack(id)' = "latest"
         /\ \A i \in Id : i # id => ReadBack(i)' = ReadBack(i)
<1> USE TokensAssumption
<1>1. Doing("put", v) /\ Accessed(id) /\ nodes' = nodes
  BY DEF Put
<1>2. PICK r \in Sub(Now, id) : Become([r EXCEPT !.cache[id] = Object(r, v)])
  BY DEF Put
<1>3. id \in nodes /\ id \in Id
  BY DEF Live, Now, Holding, TypeOK
<1>4. Keeps(r) /\ r.cache[id] = ReadBack(id) /\ r.cache[id] # Absent
      /\ (cache[id] # Absent => r = Now)
  BY <1>3, FetchKeeps
<1>5. r \in Memory
  BY <1>4 DEF Keeps
<1>6. Object(r, v) = "latest"
  BY <1>4 DEF Keeps
<1>7. cache' = [r.cache EXCEPT ![id] = "latest"] /\ blocks' = r.blocks /\ hand' = r.hand
  BY <1>2, <1>5, <1>6 DEF Become, Memory
<1>8. Now' \in Memory /\ nodes' \in SUBSET Id
  BY <1>1, <1>3, <1>5, <1>7 DEF Now, Memory, Content, TypeOK
<1>9. /\ TypeOK' /\ op' = op /\ piece' = piece
      /\ line' = line + 1 /\ line' <= Len(Script[piece]) + 1
      /\ Len(recent') >= 1 /\ recent'[Len(recent')] = id
      /\ Len(recent) >= 1 =>
           Len(recent') >= 2 /\ recent'[Len(recent') - 1] = recent[Len(recent)]
  BY <1>1, <1>3, <1>8, LineGoesOn
<1>10. cache'[id] = "latest" /\ cache'[id] # Absent
       /\ \A i \in Id : i # id => cache'[i] = r.cache[i]
  BY <1>3, <1>5, <1>7 DEF Memory, Content
<1>11. Live(Now)'
  <2>1. \A u \in Var : r.hand[u] # NoHand => r.hand[u].id \in nodes
          /\ (r.hand[u].object = Shared => r.cache[r.hand[u].id] # Absent)
    BY <1>4 DEF Keeps, Live
  <2> QED
    BY <1>1, <1>7, <1>10, <2>1 DEF Live, Now, TypeOK
<1>12. \A u \in Var : Holding(u) /\ Object(Now, u) = "latest" => Object(Now, u)' = "latest"
  <2> SUFFICES ASSUME NEW u \in Var, Holding(u), Object(Now, u) = "latest"
               PROVE  Object(Now, u)' = "latest"
    OBVIOUS
  <2>1. Object(r, u) = "latest" /\ r.hand[u].id \in Id /\ hand'[u] = r.hand[u]
    BY <1>4, <1>7 DEF Keeps, Live, TypeOK
  <2> QED
    BY <2>1, <1>10, <1>7 DEF Object, Now
<1>13. /\ \A u \in Var : ~Holding(u) => hand'[u] = NoHand
       /\ \A u \in Var : Holding(u) =>
            /\ hand'[u] # NoHand /\ hand'[u].id = hand[u].id
            /\ hand[u].id \in Range(recent) => hand'[u] = hand[u]
  BY <1>4, <1>7 DEF Keeps
<1>14. Touches(v, id)
  BY <1>1, <1>9, <1>11, <1>12, <1>13 DEF Touches, Holding
<1>15. ReadBack(id)' = "latest" /\ \A i \in Id : i # id => ReadBack(i)' = ReadBack(i)
  BY <1>4, <1>7, <1>10 DEF Keeps, Stored, ReadBack
<1>16. cache[id] # Absent => hand' = hand
  BY <1>4, <1>7 DEF Now
<1> QED
  BY <1>1, <1>3, <1>14, <1>15, <1>16

\* Change: the node has it where v designates it; the others miss it.
LEMMA ChangeFacts ==
  ASSUME TypeOK, Live(Now), NEW v \in Var, Change(v), Holding(v), NEW id, id = hand[v].id
  PROVE  /\ TypeOK' /\ Live(Now)' /\ id \in nodes /\ nodes' = nodes /\ recent' = recent
         /\ op' = op /\ piece' = piece
         /\ line' = line + 1 /\ line' <= Len(Script[piece]) + 1
         /\ \A i \in Id : i # id => ReadBack(i)' = ReadBack(i)
         /\ hand[v].object = Shared => ReadBack(id)' = ReadBack(id)
         /\ ReadBack(id) = "latest" =>
              ReadBack(id)' \in {"latest", "behind"}
         /\ hand'[v] = hand[v] /\ Object(Now, v)' = Object(Now, v)
         /\ \A u \in Var : ~Holding(u) => hand'[u] = NoHand
         /\ \A u \in Var : Holding(u) =>
              /\ hand'[u] # NoHand /\ hand'[u].id = hand[u].id
              /\ hand[u].object = Shared => hand'[u] = hand[u]
              /\ hand[u].id # id =>
                   hand'[u] = hand[u] /\ Object(Now, u)' = Object(Now, u)
<1> USE TokensAssumption
<1> DEFINE c == IF hand[v].object = Shared \/ cache[id] = Absent THEN cache
                ELSE [cache EXCEPT ![id] = Misses(@)]
<1>1. Doing("change", v) /\ nodes' = nodes /\ recent' = recent /\ cache' = c
      /\ blocks' = [blocks EXCEPT ![id] = Misses(@)]
  BY DEF Change
<1>2. \A u \in Var : hand'[u] =
         IF u # v /\ Holding(u) /\ hand[u].id = id /\ hand[u].object # Shared
         THEN [hand[u] EXCEPT !.object = Misses(@)] ELSE hand[u]
  BY DEF Change
<1>3. id \in nodes /\ id \in Id
  BY DEF Live, Now, Holding, TypeOK
<1>4. cache \in [Id -> Content \cup {Absent}] /\ blocks \in [Id -> Content]
      /\ hand \in [Var -> Pointer \cup {NoHand}]
  BY DEF TypeOK, Now, Memory
<1>5. \A x \in Content : Misses(x) \in Content
  BY DEF Misses, Content
<1>6. cache' \in [Id -> Content \cup {Absent}] /\ blocks' \in [Id -> Content]
  BY <1>1, <1>3, <1>4, <1>5
<1>7. \A i \in Id : (cache'[i] = Absent) = (cache[i] = Absent)
  BY <1>1, <1>3, <1>4, <1>5
<1>8. \A u \in Var : Holding(u) =>
        /\ hand[u] \in Pointer /\ hand'[u] \in Pointer
        /\ hand'[u].id = hand[u].id
        /\ hand[u].object = Shared => hand'[u] = hand[u]
        /\ hand[u].object # Shared => hand'[u].object # Shared
        /\ hand[u].id # id \/ u = v => hand'[u] = hand[u]
  <2> SUFFICES ASSUME NEW u \in Var, Holding(u)
               PROVE  /\ hand[u] \in Pointer /\ hand'[u] \in Pointer
                      /\ hand'[u].id = hand[u].id
                      /\ hand[u].object = Shared => hand'[u] = hand[u]
                      /\ hand[u].object # Shared => hand'[u].object # Shared
                      /\ hand[u].id # id \/ u = v => hand'[u] = hand[u]
    OBVIOUS
  <2>1. hand[u] \in Pointer
    BY <1>4 DEF Holding
  <2>2. CASE u # v /\ hand[u].id = id /\ hand[u].object # Shared
    <3>1. hand[u].object \in Content
      BY <2>1, <2>2 DEF Pointer
    <3>2. hand'[u] = [hand[u] EXCEPT !.object = Misses(hand[u].object)]
      BY <1>2, <2>2
    <3>3. Misses(hand[u].object) \in Content
      BY <1>5, <3>1
    <3> QED
      BY <2>1, <2>2, <3>2, <3>3 DEF Pointer
  <2>3. CASE ~(u # v /\ hand[u].id = id /\ hand[u].object # Shared)
    BY <1>2, <2>1, <2>3
  <2> QED
    BY <2>2, <2>3
<1>9. \A u \in Var : ~Holding(u) => hand'[u] = NoHand
  BY <1>2 DEF Holding
<1>10. hand' \in [Var -> Pointer \cup {NoHand}]
  <2>1. hand' = [u \in Var |-> hand'[u]]
    BY DEF Change
  <2> QED
    BY <2>1, <1>8, <1>9
<1>11. TypeOK' /\ op' = op /\ piece' = piece /\ line' = line + 1
       /\ line' <= Len(Script[piece]) + 1
  <2>1. line' \in 2 .. 8 /\ line' <= Len(Script[piece]) + 1
    BY <1>1, ScriptPoints
  <2>2. op' = op /\ piece' = piece /\ line' = line + 1
    BY <1>1 DEF Doing
  <2> QED
    BY <1>1, <1>6, <1>10, <2>1, <2>2 DEF TypeOK, Now, Memory
<1>12. Live(Now)'
  <2>1. \A u \in Var : Holding(u) => hand[u].id \in nodes /\ hand[u].id \in Id
          /\ (hand[u].object = Shared => cache[hand[u].id] # Absent)
    BY DEF Live, Now, Holding, TypeOK
  <2> QED
    BY <1>1, <1>7, <1>8, <1>9, <2>1 DEF Live, Now
<1>13. \A i \in Id : i # id => cache'[i] = cache[i] /\ blocks'[i] = blocks[i]
  BY <1>1, <1>4
<1>14. \A i \in Id : i # id => ReadBack(i)' = ReadBack(i)
  BY <1>13 DEF ReadBack
<1>15. hand[v].object = Shared => cache' = cache /\ cache[id] # Absent
  BY <1>1 DEF Live, Now, Holding
<1>16. hand[v].object = Shared => ReadBack(id)' = ReadBack(id)
  BY <1>15 DEF ReadBack
<1>17. ReadBack(id) = "latest" => ReadBack(id)' \in {"latest", "behind"}
  BY <1>1, <1>3, <1>4, <1>7 DEF ReadBack, Misses
<1>18. hand'[v] = hand[v] /\ Object(Now, v)' = Object(Now, v)
  BY <1>8, <1>15 DEF Object, Now
<1>19. \A u \in Var : Holding(u) /\ hand[u].id # id =>
         hand'[u] = hand[u] /\ Object(Now, u)' = Object(Now, u)
  <2> SUFFICES ASSUME NEW u \in Var, Holding(u), hand[u].id # id
               PROVE  hand'[u] = hand[u] /\ Object(Now, u)' = Object(Now, u)
    OBVIOUS
  <2>1. hand'[u] = hand[u] /\ hand[u].id \in Id
    BY <1>8 DEF Live, Now, Holding, TypeOK
  <2> QED
    BY <2>1, <1>13 DEF Object, Now
<1>20. \A u \in Var : Holding(u) => hand'[u] # NoHand
  BY <1>8 DEF Pointer
<1> QED
  BY <1>1, <1>8, <1>9, <1>11, <1>12, <1>14, <1>16, <1>17, <1>18, <1>19, <1>20, <1>3

-----------------------------------------------------------------------------
(***************************************************************************)
(* Every step keeps the invariant.                                          *)
(***************************************************************************)

\* The last accesses are recent ones.
LEMMA LastIsRecent ==
  ASSUME TypeOK
  PROVE  /\ Len(recent) >= 1 => recent[Len(recent)] \in Range(recent)
         /\ Len(recent) >= 2 => recent[Len(recent) - 1] \in Range(recent)
BY DEF TypeOK, Range

\* A get finds the pointers where the line before left them.
LEMMA GetKeeps ==
  ASSUME IInv, NEW v \in Var, Get(v)
  PROVE  IInv'
<1> USE DEF IInv
<1>1. PICK id \in Fetches(v) :
        /\ id \in nodes /\ Fetched(v, id) /\ nodes' = nodes
        /\ \A i \in Id : ReadBack(i)' = ReadBack(i)
  BY GetFacts
<1>2. <<piece, line, v>> \in GetPoints /\ op # "idle"
  BY ScriptPoints DEF Get, Doing
<1>3. /\ Touches(v, id) /\ hand'[v] = [id |-> id, object |-> Shared]
      /\ cache[id] # Absent => \A u \in Var \ {v} : hand'[u] = hand[u]
  BY <1>1 DEF Fetched
<1>4. TypeOK' /\ Live(Now)' /\ op' = op /\ piece' = piece /\ line' = line + 1
      /\ line' <= Len(Script[piece]) + 1
  BY <1>3 DEF Touches
<1>5. Complete'
  BY <1>1, <1>2, <1>4 DEF Complete, GetPoints, TypeOK
<1>6. Holding(v)' /\ hand'[v].id = id /\ hand'[v].object = Shared
  BY <1>3 DEF Touches
<1>7. \A u \in Var \ {v} :
        /\ ~Holding(u) => hand'[u] = NoHand
        /\ Holding(u) => Holding(u)' /\ hand'[u].id = hand[u].id
        /\ Holding(u) => (hand[u].id \in Range(recent) => hand'[u] = hand[u])
        /\ Holding(u) /\ Object(Now, u) = "latest" => Object(Now, u)' = "latest"
  BY <1>3 DEF Touches, Holding
<1>8. Len(recent') >= 1 /\ recent'[Len(recent')] = id
      /\ (Len(recent) >= 1 =>
            Len(recent') >= 2 /\ recent'[Len(recent') - 1] = recent[Len(recent)])
  BY <1>3 DEF Touches
<1>9. \A u \in Var : Holding(u) => (hand[u].object = Shared => cache[hand[u].id] # Absent)
  BY DEF Live, Now, Holding
<1>10. id \in Fetches(v)
  OBVIOUS
<1> USE <1>4, LastIsRecent
<1>11. CASE <<piece, line, v>> = <<"root", 1, "x">>
  <2>1. AtStart'
    BY <1>2, <1>6, <1>7, <1>8, <1>11
    DEF Pointers, AtStart, OnTop, InCache, Last, Free, Holding, Var
  <2> QED
    BY <1>2, <1>5, <1>11, <2>1 DEF Pointers
<1>12. CASE <<piece, line, v>> = <<"bsearch", 1, "self">>
  <2>1. id = hand["x"].id
    BY <1>12 DEF Fetches
  <2>2. AtSearch'
    BY <1>2, <1>6, <1>7, <1>8, <1>9, <1>12, <2>1
    DEF Pointers, AtSearch, OnTop, ThisNode, InCache, Last, Free, Holding, Var
  <2> QED
    BY <1>2, <1>5, <1>12, <2>2 DEF Pointers
<1>13. CASE <<piece, line, v>> = <<"child", 1, "y">>
  <2>1. id # hand["x"].id
    BY <1>2, <1>10, <1>13
    DEF Fetches, HeldIds, Pointers, AtChild, OnTop, InCache, Free, Holding, Var
  <2>2. AtChild'
    BY <1>2, <1>6, <1>7, <1>8, <1>9, <1>13, <2>1
    DEF Pointers, AtChild, OnTop, InCache, Differ, Last, LastTwo, Free, Holding, Var
  <2> QED
    BY <1>2, <1>5, <1>13, <2>2 DEF Pointers
<1>14. CASE <<piece, line, v>> = <<"split", 1, "y">>
  <2>1. AtSplit
    BY <1>2, <1>14 DEF Pointers
  <2>2. id = hand["y"].id
    BY <1>10, <1>14, <2>1 DEF Fetches, AtSplit, InCache
  <2>3. AtSplit'
    BY <1>6, <1>7, <1>8, <1>9, <1>14, <2>1, <2>2 , <1>3
    DEF AtSplit, ThisNode, InCache, Differ, Last, LastTwo, Free, Holding, Var
  <2> QED
    BY <1>2, <1>5, <1>14, <2>3 DEF Pointers
<1>15. CASE <<piece, line, v>> = <<"split", 2, "self">>
  <2>1. AtSplit
    BY <1>2, <1>15 DEF Pointers
  <2>2. id = hand["x"].id
    BY <1>10, <1>15 DEF Fetches
  <2>3. AtSplit'
    BY <1>6, <1>7, <1>8, <1>9, <1>15, <2>1, <2>2 , <1>3
    DEF AtSplit, ThisNode, InCache, Differ, Last, LastTwo, Free, Holding, Var
  <2> QED
    BY <1>2, <1>5, <1>15, <2>3 DEF Pointers
<1>16. CASE <<piece, line, v>> = <<"link", 1, "w">>
  <2>1. AtLink
    BY <1>2, <1>16 DEF Pointers
  <2>2. id # hand["x"].id /\ id # hand["y"].id /\ id # hand["z"].id
    BY <1>10, <1>16, <2>1 DEF Fetches, HeldIds, AtLink, NewerY, InCache, Holding, Var
  <2>3. AtLink'
    BY <1>6, <1>7, <1>8, <1>16, <2>1, <2>2
    DEF AtLink, InCache, NewerY, Differ, Last, LastTwo, Holding, Var
  <2> QED
    BY <1>2, <1>5, <1>16, <2>3 DEF Pointers
<1>17. CASE <<piece, line, v>> = <<"share", 6, "self">>
  <2>1. AtShare'
    BY <1>2, <1>6, <1>7, <1>17 DEF Pointers, AtShare, InCache, Var
  <2> QED
    BY <1>2, <1>5, <1>17, <2>1 DEF Pointers
<1>18. CASE <<piece, line, v>> = <<"again", 1, "self">>
  <2>1. AtAgain'
    BY <1>2, <1>6, <1>7, <1>18 DEF Pointers, AtAgain, InCache, Free, Holding, Var
  <2> QED
    BY <1>2, <1>5, <1>18, <2>1 DEF Pointers
<1>19. CASE <<piece, line, v>> = <<"again", 2, "y">>
  <2>1. AtAgain'
    BY <1>2, <1>6, <1>7, <1>8, <1>19 DEF Pointers, AtAgain, InCache, Free, Last, Holding, Var
  <2> QED
    BY <1>2, <1>5, <1>19, <2>1 DEF Pointers
<1>20. CASE <<piece, line, v>> = <<"store", 2, "self">>
  <2>1. AtStore'
    BY <1>2, <1>6, <1>7, <1>20 DEF Pointers, AtStore, InCache, Var
  <2> QED
    BY <1>2, <1>5, <1>20, <2>1 DEF Pointers
<1> QED
  BY <1>2, <1>11, <1>12, <1>13, <1>14, <1>15, <1>16, <1>17, <1>18, <1>19, <1>20 DEF GetPoints

\* An allocation makes room without losing the two nodes accessed last.
LEMMA AllocKeeps ==
  ASSUME IInv, NEW v \in Var, Alloc(v)
  PROVE  IInv'
<1> USE DEF IInv
<1>1. PICK id \in Id \ nodes :
        /\ Touches(v, id) /\ hand'[v] = [id |-> id, object |-> Shared]
        /\ nodes' = nodes \cup {id} /\ ReadBack(id)' = "latest"
        /\ \A i \in nodes : ReadBack(i)' = ReadBack(i)
  BY AllocFacts
<1>2. <<piece, line, v>> \in AllocPoints /\ op # "idle"
  BY ScriptPoints DEF Alloc, Doing
<1>4. TypeOK' /\ Live(Now)' /\ op' = op /\ piece' = piece /\ line' = line + 1
      /\ line' <= Len(Script[piece]) + 1
  BY <1>1 DEF Touches
<1>5. Complete'
  BY <1>1, <1>2, <1>4 DEF Complete, AllocPoints, TypeOK
<1>6. Holding(v)' /\ hand'[v].id = id /\ hand'[v].object = Shared
  BY <1>1 DEF Touches
<1>7. \A u \in Var \ {v} :
        /\ ~Holding(u) => hand'[u] = NoHand
        /\ Holding(u) => Holding(u)' /\ hand'[u].id = hand[u].id
        /\ Holding(u) => (hand[u].id \in Range(recent) => hand'[u] = hand[u])
  BY <1>1 DEF Touches, Holding
<1>8. Len(recent') >= 1 /\ recent'[Len(recent')] = id
      /\ (Len(recent) >= 1 =>
            Len(recent') >= 2 /\ recent'[Len(recent') - 1] = recent[Len(recent)])
  BY <1>1 DEF Touches
<1>9. \A u \in Var : Holding(u) => hand[u].id # id
  BY <1>1 DEF Live, Now, Holding
<1> USE <1>4, LastIsRecent
<1>11. CASE <<piece, line, v>> = <<"create", 1, "x">>
  <2>1. AtStart'
    BY <1>2, <1>6, <1>7, <1>8, <1>11
    DEF Pointers, AtStart, OnTop, InCache, Last, Free, Holding, Var
  <2> QED
    BY <1>2, <1>5, <1>11, <2>1 DEF Pointers
<1>12. CASE <<piece, line, v>> = <<"raise", 1, "x">>
  <2>1. AtRaise
    BY <1>2, <1>12 DEF Pointers
  <2>2. AtRaise'
    BY <1>6, <1>7, <1>8, <1>9, <1>12, <2>1
    DEF AtRaise, InCache, Differ, Last, LastTwo, Free, Holding, Var
  <2> QED
    BY <1>2, <1>5, <1>12, <2>2 DEF Pointers
<1>13. CASE <<piece, line, v>> = <<"split", 3, "z">>
  <2>1. AtSplit
    BY <1>2, <1>13 DEF Pointers
  <2>2. AtSplit'
    BY <1>6, <1>7, <1>8, <1>9, <1>13, <2>1
    DEF AtSplit, ThisNode, InCache, Differ, Last, LastTwo, Free, Holding, Var
  <2> QED
    BY <1>2, <1>5, <1>13, <2>2 DEF Pointers
<1> QED
  BY <1>2, <1>11, <1>12, <1>13 DEF AllocPoints

\* The object that a line changes or puts has all the changes.
LEMMA LineIsLatest ==
  ASSUME IInv, NEW do \in {"change", "put"}, NEW v, op # "idle",
         line <= Len(Script[piece]), do = Script[piece][line][1], v = Script[piece][line][2]
  PROVE  v \in Var /\ Holding(v) /\ Object(Now, v) = "latest"
         /\ (do = "change" => <<piece, line, v>> \in ChangePoints)
         /\ (do = "put" => <<piece, line, v>> \in PutPoints)
<1> USE DEF IInv
<1>1. /\ do = "change" => <<piece, line, v>> \in ChangePoints
      /\ do = "put" => <<piece, line, v>> \in PutPoints
  BY ScriptPlaces
<1>2. \A u \in Var : Holding(u) /\ hand[u].object = Shared /\
         ~(piece = "share" /\ line \in 2 .. 4 /\ hand[u].id = hand["y"].id)
         => Object(Now, u) = "latest"
  BY DEF Complete, Live, Object, Now, Holding, ReadBack
<1>3. CASE piece = "raise"
  BY <1>1, <1>2, <1>3 DEF Pointers, AtRaise, InCache, ChangePoints, PutPoints, Var
<1>4. CASE piece = "split"
  BY <1>1, <1>2, <1>4
  DEF Pointers, AtSplit, InCache, ThisNode, ChangePoints, PutPoints, Var
<1>5. CASE piece = "link"
  BY <1>1, <1>2, <1>5 DEF Pointers, AtLink, InCache, ChangePoints, PutPoints, Var
<1>6. CASE piece = "share"
  <2>1. AtShare /\ line \in 1 .. 8
    BY <1>6 DEF Pointers, TypeOK
  <2>2. CASE line \in {1, 4}
    BY <1>1, <1>6, <2>1, <2>2 DEF AtShare, NewerY, ChangePoints, PutPoints, Var
  <2>3. CASE line \in {2, 3}
    BY <1>1, <1>2, <1>6, <2>1, <2>3 DEF AtShare, InCache, Differ, ChangePoints, PutPoints, Var
  <2>4. CASE line \in {5, 7}
    BY <1>1, <1>2, <1>6, <2>1, <2>4 DEF AtShare, InCache, ChangePoints, PutPoints, Var
  <2> QED
    BY <1>1, <1>6, <2>2, <2>3, <2>4 DEF ChangePoints, PutPoints
<1>7. CASE piece = "store"
  BY <1>1, <1>2, <1>7 DEF Pointers, AtStore, InCache, ChangePoints, PutPoints, Var
<1>8. CASE piece = "update"
  BY <1>1, <1>2, <1>8 DEF Pointers, AtUpdate, InCache, ChangePoints, PutPoints, Var
<1> QED
  BY <1>1, <1>3, <1>4, <1>5, <1>6, <1>7, <1>8 DEF ChangePoints, PutPoints

\* A put completes the node it is for.
LEMMA PutKeeps ==
  ASSUME IInv, NEW v \in Var, Put(v)
  PROVE  IInv'
<1> USE DEF IInv
<1>a. PICK id : id = hand[v].id
  OBVIOUS
<1>0. Doing("put", v) /\ op # "idle"
  BY DEF Put, Doing
<1>1. Holding(v) /\ Object(Now, v) = "latest" /\ <<piece, line, v>> \in PutPoints
  BY <1>0, LineIsLatest DEF Doing
<1>2. /\ id \in nodes /\ Touches(v, id) /\ nodes' = nodes
      /\ cache[id] # Absent => hand' = hand
      /\ ReadBack(id)' = "latest"
      /\ \A i \in Id : i # id => ReadBack(i)' = ReadBack(i)
  BY <1>a, <1>1, PutFacts
<1>4. TypeOK' /\ Live(Now)' /\ op' = op /\ piece' = piece /\ line' = line + 1
      /\ line' <= Len(Script[piece]) + 1
  BY <1>2 DEF Touches
<1>5. Complete'
  BY <1>a, <1>0, <1>1, <1>2, <1>4 DEF Complete, PutPoints, TypeOK
<1>6. Holding(v)' /\ hand'[v].id = hand[v].id
  BY <1>a, <1>2 DEF Touches
<1>7. \A u \in Var \ {v} :
        /\ ~Holding(u) => hand'[u] = NoHand
        /\ Holding(u) => Holding(u)' /\ hand'[u].id = hand[u].id
        /\ Holding(u) /\ Object(Now, u) = "latest" => Object(Now, u)' = "latest"
  BY <1>2 DEF Touches, Holding
<1>8. Len(recent') >= 1 /\ recent'[Len(recent')] = id
      /\ (Len(recent) >= 1 =>
            Len(recent') >= 2 /\ recent'[Len(recent') - 1] = recent[Len(recent)])
  BY <1>2 DEF Touches
<1>9. hand[v].object = Shared => hand' = hand
  BY <1>a, <1>1, <1>2 DEF Live, Now, Holding
<1>10. \A u \in Var : Holding(u) /\ hand[u].object = Shared /\
         ~(piece = "share" /\ line \in 2 .. 4 /\ hand[u].id = hand["y"].id)
         => Object(Now, u) = "latest"
  BY DEF Complete, Live, Object, Now, Holding, ReadBack
<1> USE <1>4
<1>11. CASE piece = "split"
  <2>1. AtSplit
    BY <1>0, <1>11 DEF Pointers
  <2>2. AtSplit'
    BY <1>a, <1>1, <1>8, <1>9, <1>11, <2>1
    DEF PutPoints, AtSplit, ThisNode, InCache, Differ, Last, LastTwo, Free, Holding, Var
  <2> QED
    BY <1>0, <1>5, <1>11, <2>2 DEF Pointers
<1>12. CASE piece = "link"
  <2>1. AtLink
    BY <1>0, <1>12 DEF Pointers
  <2>2. NewerY'
    BY <1>1, <1>7, <1>12, <2>1 DEF PutPoints, AtLink, NewerY, Var
  <2>3. AtLink'
    BY <1>1, <1>9, <1>12, <2>1, <2>2
    DEF PutPoints, AtLink, InCache, Differ, Holding, Var
  <2> QED
    BY <1>0, <1>5, <1>12, <2>3 DEF Pointers
<1>13. CASE piece = "share"
  <2>1. AtShare
    BY <1>0, <1>13 DEF Pointers
  <2>2. AtShare'
    BY <1>1, <1>6, <1>7, <1>9, <1>10, <1>13, <2>1
    DEF PutPoints, AtShare, InCache, Differ, Holding, Var
  <2> QED
    BY <1>0, <1>5, <1>13, <2>2 DEF Pointers
<1>14. CASE piece = "store"
  <2>1. AtStore
    BY <1>0, <1>14 DEF Pointers
  <2>2. AtStore'
    BY <1>1, <1>9, <1>14, <2>1 DEF PutPoints, AtStore, InCache, Holding, Var
  <2> QED
    BY <1>0, <1>5, <1>14, <2>2 DEF Pointers
<1> QED
  BY <1>1, <1>11, <1>12, <1>13, <1>14 DEF PutPoints

\* A change through a pointer to the cache is in the cache; one through the
\* pointer to the child that was split may be in that object alone.
LEMMA ChangeKeeps ==
  ASSUME IInv, NEW v \in Var, Change(v)
  PROVE  IInv'
<1> USE DEF IInv
<1>a. PICK id : id = hand[v].id
  OBVIOUS
<1>0. Doing("change", v) /\ op # "idle"
  BY DEF Change, Doing
<1>1. Holding(v) /\ Object(Now, v) = "latest" /\ <<piece, line, v>> \in ChangePoints
  BY <1>0, LineIsLatest DEF Doing
<1>2. /\ TypeOK' /\ Live(Now)' /\ id \in nodes /\ nodes' = nodes /\ recent' = recent
      /\ op' = op /\ piece' = piece
      /\ line' = line + 1 /\ line' <= Len(Script[piece]) + 1
      /\ \A i \in Id : i # id => ReadBack(i)' = ReadBack(i)
      /\ hand[v].object = Shared => ReadBack(id)' = ReadBack(id)
      /\ ReadBack(id) = "latest" => ReadBack(id)' \in {"latest", "behind"}
      /\ hand'[v] = hand[v] /\ Object(Now, v)' = Object(Now, v)
      /\ \A u \in Var : ~Holding(u) => hand'[u] = NoHand
      /\ \A u \in Var : Holding(u) =>
           /\ hand'[u] # NoHand /\ hand'[u].id = hand[u].id
           /\ hand[u].object = Shared => hand'[u] = hand[u]
           /\ hand[u].id # id =>
                hand'[u] = hand[u] /\ Object(Now, u)' = Object(Now, u)
  BY <1>a, <1>1, ChangeFacts
<1>3. line \in 1 .. 8 /\ \A i \in nodes : i \in Id
  BY DEF TypeOK
<1>4. piece = "share" => line \in 1 .. 3 /\ AtShare
  BY <1>0, <1>1 DEF ChangePoints, Pointers
<1>5. piece # "share" \/ line # 1 => hand[v].object = Shared
  BY <1>0, <1>1 DEF ChangePoints, Pointers, AtRaise, AtSplit, ThisNode, AtLink, AtShare,
                    AtStore, AtUpdate, InCache
<1>6. Complete'
  <2>1. CASE piece # "share"
    BY <1>2, <1>3, <1>5, <2>1 DEF Complete
  <2>2. CASE piece = "share" /\ line # 1
    <3>1. hand'["y"].id = hand["y"].id
      BY <1>2, <1>4, <2>2 DEF AtShare, NewerY, Var
    <3> QED
      BY <1>0, <1>2, <1>3, <1>4, <1>5, <2>2, <3>1 DEF Complete
  <2>3. CASE piece = "share" /\ line = 1
    <3>1. v = "y" /\ hand'["y"].id = id
      BY <1>a, <1>1, <1>2, <2>3 DEF ChangePoints
    <3> QED
      BY <1>0, <1>2, <1>3, <2>3, <3>1 DEF Complete
  <2> QED
    BY <2>1, <2>2, <2>3
<1> USE <1>2, <1>3
<1>11. CASE piece = "raise"
  <2>1. AtRaise'
    BY <1>0, <1>1, <1>11
    DEF ChangePoints, Pointers, AtRaise, InCache, Differ, Last, LastTwo, Free, Holding, Var
  <2> QED
    BY <1>0, <1>6, <1>11, <2>1 DEF Pointers
<1>12. CASE piece = "split"
  <2>1. AtSplit
    BY <1>0, <1>12 DEF Pointers
  <2>2. AtSplit'
    BY <1>1, <1>12, <2>1
    DEF ChangePoints, AtSplit, ThisNode, InCache, Differ, Last, LastTwo, Free, Holding, Var
  <2> QED
    BY <1>0, <1>6, <1>12, <2>2 DEF Pointers
<1>13. CASE piece = "link"
  <2>1. AtLink
    BY <1>0, <1>13 DEF Pointers
  <2>2. AtLink'
    BY <1>a, <1>1, <1>13, <2>1
    DEF ChangePoints, AtLink, NewerY, InCache, Differ, Holding, Var
  <2> QED
    BY <1>0, <1>6, <1>13, <2>2 DEF Pointers
<1>14. CASE piece = "share"
  <2>1. AtShare'
    BY <1>a, <1>1, <1>4, <1>14
    DEF ChangePoints, AtShare, NewerY, InCache, Differ, Holding, Var
  <2> QED
    BY <1>0, <1>6, <1>14, <2>1 DEF Pointers
<1>15. CASE piece = "store"
  <2>1. AtStore'
    BY <1>0, <1>1, <1>15 DEF ChangePoints, Pointers, AtStore, InCache, Holding, Var
  <2> QED
    BY <1>0, <1>6, <1>15, <2>1 DEF Pointers
<1>16. CASE piece = "update"
  <2>1. AtUpdate'
    BY <1>0, <1>1, <1>16 DEF ChangePoints, Pointers, AtUpdate, InCache, Holding, Var
  <2> QED
    BY <1>0, <1>6, <1>16, <2>1 DEF Pointers
<1> QED
  BY <1>1, <1>11, <1>12, <1>13, <1>14, <1>15, <1>16 DEF ChangePoints

\* The pieces that follow one another in any operation.
Junctions ==
  {<<"create", "bsearch">>, <<"root", "bsearch">>, <<"bsearch", "child">>, <<"child", "bsearch">>,
   <<"root", "raise">>, <<"raise", "split">>, <<"child", "split">>, <<"split", "link">>,
   <<"split", "share">>, <<"link", "share">>, <<"share", "again">>, <<"again", "bsearch">>,
   <<"bsearch", "store">>, <<"bsearch", "update">>}

\* The next piece starts with the pointers that it needs.
LEMMA GoOnKeeps ==
  ASSUME IInv, GoOn
  PROVE  IInv'
<1> USE DEF IInv
<1>1. PICK next \in DOMAIN Script :
        <<piece, next>> \in Follows(op) /\ piece' = next /\ line' = 1 /\ hand' = Carried(next)
  BY DEF GoOn
<1>2. op # "idle" /\ op' = op /\ line > Len(Script[piece])
      /\ nodes' = nodes /\ cache' = cache /\ recent' = recent /\ blocks' = blocks
  BY DEF GoOn
<1>3. <<piece, next>> \in Junctions
  <2>1. next # "done"
    BY ScriptLengths
  <2> QED
    BY <1>1, <1>2, <2>1 DEF Follows, Junctions, TypeOK, Kinds
<1>4. line = Len(Script[piece]) + 1 /\ Len(Script[piece]) \in 1 .. 7
  BY <1>2, ScriptLengths DEF Pointers, TypeOK
<1>5. hand \in [Var -> Pointer \cup {NoHand}]
  BY DEF TypeOK, Now, Memory
<1>7. /\ <<piece, next>> = <<"root", "raise">> => hand' = [hand EXCEPT !["y"] = hand["x"]]
      /\ piece \in {"child", "again"} /\ next = "bsearch" =>
           hand' = [v \in Var |-> IF v = "x" THEN hand["y"] ELSE NoHand]
      /\ <<piece, next>> = <<"share", "again">> =>
           hand' = [v \in Var |-> IF v = "x" THEN hand["x"] ELSE NoHand]
      /\ /\ <<piece, next>> # <<"root", "raise">> /\ <<piece, next>> # <<"share", "again">>
         /\ ~(piece \in {"child", "again"} /\ next = "bsearch")
         => hand' = hand
  BY <1>1 DEF Carried
<1>8. /\ hand' \in [Var -> Pointer \cup {NoHand}]
      /\ \A v \in Var : hand'[v] = NoHand \/ \E u \in Var : hand'[v] = hand[u]
  BY <1>3, <1>5, <1>7 DEF Junctions, Var
<1>9. TypeOK'
  BY <1>1, <1>2, <1>8 DEF TypeOK, Now, Memory
<1>10. Live(Now)'
  BY <1>2, <1>8 DEF Live, Now
<1>11. Complete'
  <2>1. ~(piece = "share" /\ line \in 2 .. 4)
    BY <1>4, ScriptLengths
  <2> QED
    BY <1>2, <2>1 DEF Complete, ReadBack
<1>12. /\ piece \in {"create", "root", "bsearch", "child", "update"} => line = 2
       /\ piece \in {"raise", "again"} => line = 3
       /\ piece = "split" => line = 8
  <2>1. /\ piece \in {"create", "root", "bsearch", "child", "update"} => Len(Script[piece]) = 1
        /\ piece \in {"raise", "again"} => Len(Script[piece]) = 2
        /\ piece = "split" => Len(Script[piece]) = 7
    BY ScriptLengths
  <2>2. \A n \in Nat : Len(Script[piece]) = n => line = n + 1
    BY <1>4
  <2> QED
    BY <2>1, <2>2, 1 + 1 = 2, 2 + 1 = 3, 7 + 1 = 8
<1>20. 1 <= Len(Script[next]) + 1
  BY ScriptLengths
<1> USE <1>1, <1>2, <1>12, <1>20
<1>13. CASE piece \in {"create", "root"}
  <2>1. OnTop /\ line = 2
    BY <1>13 DEF Pointers, AtStart
  <2>2. next = "bsearch" => AtSearch'
    BY <1>7, <1>13, <2>1 DEF AtSearch, OnTop, InCache, Last, Free, Holding
  <2>3. next = "raise" => AtRaise'
    BY <1>3, <1>5, <1>7, <1>13, <2>1
    DEF Junctions, AtRaise, OnTop, InCache, Last, Free, Holding, Var
  <2> QED
    BY <1>3, <1>9, <1>10, <1>11, <1>13, <2>2, <2>3 DEF Junctions, Pointers
<1>14. CASE piece = "bsearch"
  <2>1. AtSearch /\ line = 2 /\ hand' = hand
    BY <1>7, <1>14 DEF Pointers
  <2>2. OnTop' /\ ThisNode' /\ Holding("x")'
    BY <2>1 DEF AtSearch, OnTop, ThisNode, InCache, Last, Free, Holding
  <2>3. AtChild' /\ AtStore' /\ AtUpdate'
    BY <2>2 DEF AtChild, AtStore, AtUpdate, OnTop, ThisNode, InCache
  <2> QED
    BY <1>3, <1>9, <1>10, <1>11, <1>14, <2>3 DEF Junctions, Pointers
<1>15. CASE piece = "child"
  <2>1. AtChild /\ line = 2
    BY <1>15 DEF Pointers
  <2>2. next = "bsearch" => AtSearch'
    BY <1>7, <1>15, <2>1
    DEF AtSearch, AtChild, OnTop, InCache, LastTwo, Last, Free, Holding, Var
  <2>3. next = "split" => AtSplit'
    <3>1. AtChild /\ Free({"z", "w"})
      BY <2>1 DEF AtChild
    <3> QED
      BY <1>7, <1>15, <2>1, <3>1
      DEF AtSplit, AtChild, InCache, Differ, LastTwo, Last, Free, Holding, Var
  <2> QED
    BY <1>3, <1>9, <1>10, <1>11, <1>15, <2>2, <2>3 DEF Junctions, Pointers
<1>16. CASE piece = "raise"
  <2>1. AtRaise /\ line = 3 /\ next = "split" /\ hand' = hand
    BY <1>3, <1>7, <1>16 DEF Junctions, Pointers
  <2>2. AtSplit'
    BY <2>1 DEF AtSplit, AtRaise, InCache, Differ, LastTwo, Last, Free, Holding, Var
  <2> QED
    BY <1>9, <1>10, <1>11, <2>1, <2>2 DEF Pointers
<1>17. CASE piece = "split"
  <2>1. AtSplit /\ line = 8 /\ next \in {"link", "share"} /\ hand' = hand
    BY <1>3, <1>7, <1>17 DEF Junctions, Pointers
  <2>2. NewerY'
    <3>1. Holding("y") /\ hand["y"].object = Shared
      BY <2>1 DEF AtSplit, InCache
    <3>2. Object(Now, "y") = "latest"
      BY <1>17, <3>1 DEF Complete, Live, Object, Now, Holding, ReadBack, Var
    <3> QED
      BY <2>1, <3>1, <3>2 DEF NewerY, Holding, Object, Now
  <2>3. InCache({"x", "z"})' /\ Differ({"x", "y", "z"})' /\ LastTwo("x", "z")' /\ Holding("x")'
    BY <2>1 DEF AtSplit, InCache, Differ, LastTwo, Last, Holding
  <2>4. AtLink' /\ AtShare'
    BY <2>2, <2>3 DEF AtLink, AtShare
  <2> QED
    BY <1>9, <1>10, <1>11, <2>1, <2>4 DEF Pointers
<1>18. CASE piece = "link"
  <2>1. AtLink /\ next = "share" /\ hand' = hand
    BY <1>3, <1>7, <1>18 DEF Junctions, Pointers
  <2>2. AtShare'
    BY <2>1 DEF AtLink, AtShare, NewerY, InCache, Differ, Holding, Object, Now
  <2> QED
    BY <1>9, <1>10, <1>11, <2>1, <2>2 DEF Pointers
<1>19. CASE piece = "share"
  <2>1. AtShare /\ next = "again"
    BY <1>3, <1>19 DEF Junctions, Pointers
  <2>2. AtAgain'
    BY <1>7, <1>19, <2>1 DEF AtShare, AtAgain, Free, Holding, Var
  <2> QED
    BY <1>9, <1>10, <1>11, <2>1, <2>2 DEF Pointers
<1>21. CASE piece = "again"
  <2>1. AtAgain /\ line = 3 /\ next = "bsearch"
    BY <1>3, <1>21 DEF Junctions, Pointers
  <2>2. AtSearch'
    BY <1>7, <1>21, <2>1 DEF AtAgain, AtSearch, OnTop, InCache, Last, Free, Holding, Var
  <2> QED
    BY <1>9, <1>10, <1>11, <2>1, <2>2 DEF Pointers
<1> QED
  BY <1>3, <1>13, <1>14, <1>15, <1>16, <1>17, <1>18, <1>19, <1>21 DEF Junctions

\* Where an operation may end, no node misses a change.
LEMMA ReturnKeeps ==
  ASSUME IInv, Return
  PROVE  IInv'
<1> USE DEF IInv
<1>1. op # "idle" /\ <<piece, "done">> \in Follows(op)
      /\ op' = "idle" /\ piece' = "root" /\ line' = 1 /\ hand' = [v \in Var |-> NoHand]
      /\ nodes' = nodes /\ cache' = cache /\ recent' = recent /\ blocks' = blocks
  BY DEF Return
<1>2. piece # "share"
  BY <1>1 DEF Follows, TypeOK, Kinds
<1>3. TypeOK'
  BY <1>1, ScriptLengths DEF TypeOK, Kinds, Now, Memory
<1>4. Live(Now)' /\ Complete' /\ Pointers'
  BY <1>1, <1>2 DEF Live, Complete, ReadBack, Pointers, Free, Now, TypeOK
<1> QED
  BY <1>3, <1>4

\* An operation begins, or the storage is closed, without pointers.
LEMMA IdleKeeps ==
  ASSUME IInv, Close \/ \E kind \in Kinds \ {"idle"} : Begin(kind)
  PROVE  IInv'
<1> USE TokensAssumption, WindowAssumption DEF IInv
<1>1. CASE Close
  <2>1. op = "idle" /\ nodes' = nodes /\ hand' = hand /\ op' = op /\ piece' = piece /\ line' = line
        /\ blocks' = [i \in Id |-> IF cache[i] # Absent THEN cache[i] ELSE blocks[i]]
        /\ cache' = [i \in Id |-> Absent] /\ recent' = <<>>
    BY <1>1 DEF Close
  <2>2. Free(Var)
    BY <2>1 DEF Pointers
  <2>3. TypeOK'
    BY <2>1 DEF TypeOK, Now, Memory
  <2>4. Live(Now)' /\ Pointers'
    BY <2>1, <2>2 DEF Live, Pointers, Free, Now
  <2>5. \A i \in Id : ReadBack(i)' = ReadBack(i)
    BY <2>1 DEF ReadBack
  <2>6. Complete'
    BY <2>1, <2>5 DEF Complete, TypeOK
  <2> QED
    BY <2>3, <2>4, <2>6
<1>2. ASSUME NEW kind \in Kinds \ {"idle"}, Begin(kind)
      PROVE  IInv'
  <2>1. op = "idle" /\ op' = kind /\ line' = 1 /\ piece' \in {"create", "root"} /\ nodes' = nodes
        /\ cache' = cache /\ recent' = recent /\ blocks' = blocks /\ hand' = hand
    BY <1>2 DEF Begin
  <2>2. Free(Var)
    BY <2>1 DEF Pointers
  <2>3. TypeOK'
    BY <2>1, ScriptLengths DEF TypeOK, Now, Memory
  <2>4. Live(Now)' /\ Complete'
    BY <2>1 DEF Live, Complete, ReadBack, Now
  <2>5. Len(Script[piece']) = 1
    BY <2>1, ScriptLengths
  <2>6. Pointers'
    BY <2>1, <2>2, <2>5 DEF Pointers, AtStart, Free
  <2> QED
    BY <2>3, <2>4, <2>6
<1> QED
  BY <1>1, <1>2

\* The strengthened invariant: of every line of every operation, which
\* pointers designate objects of the cache and have all the changes.
THEOREM Invariance == Spec => []IInv
<1>1. Init => IInv
  BY TokensAssumption, WindowAssumption, ScriptLengths
  DEF Init, IInv, TypeOK, Now, Memory, Live, Complete, Pointers, Free, Content, Kinds
<1>2. IInv /\ [Next]_vars => IInv'
  <2> SUFFICES ASSUME IInv, [Next]_vars
               PROVE  IInv'
    OBVIOUS
  <2>1. CASE Next
    BY <2>1, IdleKeeps, GetKeeps, AllocKeeps, ChangeKeeps, PutKeeps, GoOnKeeps, ReturnKeeps
    DEF Next
  <2>2. CASE UNCHANGED vars
    BY <2>2 DEF vars, IInv, TypeOK, Now, Memory, Live, Complete, ReadBack, Pointers, Free, InCache, Differ,
      Last, LastTwo, OnTop, ThisNode, NewerY, AtStart, AtSearch, AtChild, AtRaise, AtSplit,
      AtLink, AtShare, AtAgain, AtStore, AtUpdate, Holding, Object
  <2> QED
    BY <2>1, <2>2
<1> QED
  BY <1>1, <1>2, PTL DEF Spec

\* Between operations every node has all the changes made to it, wherever the
\* cache evicted it and whether or not the storage was closed meanwhile.
THEOREM KeepsChanges == Spec => []NodesKeepChanges
<1>1. IInv => NodesKeepChanges
  BY DEF IInv, Complete, NodesKeepChanges
<1> QED
  BY <1>1, Invariance, PTL

\* No operation changes or puts a node through an object that misses a change.
THEOREM WritesGoToLatest == Spec => []WritesToLatest
<1>1. IInv => WritesToLatest
  <2> SUFFICES ASSUME IInv, op # "idle", line <= Len(Script[piece]),
                      Script[piece][line][1] \in {"change", "put"}
               PROVE  Object(Now, Script[piece][line][2]) = "latest"
    BY DEF WritesToLatest
  <2> QED
    BY LineIsLatest
<1> QED
  BY <1>1, Invariance, PTL

\* No node is read from a block that was never written, so none is dirty.
THEOREM NeverDirty == Spec => []NoDirtyNode
<1>1. IInv => NoDirtyNode
  BY DEF IInv, Complete, NoDirtyNode
<1> QED
  BY <1>1, Invariance, PTL
=============================================================================
