------------------------------ MODULE LRUCache ------------------------------
(***************************************************************************)
(* LRUCache<SIZE, Key, T> of LRUCache.h / LRUCache.impl.hpp, with the      *)
(* ordered_map it is built on (ordered_map.h, ordered_map.impl.hpp) and    *)
(* the write-back hooks LRUBlockCache (BlockStorage.h) and LRUNodeCache    *)
(* (BTreeFileStorage.h) plug into it.                                      *)
(*                                                                         *)
(* The cache has two levels.  m_omap holds the entries together with a     *)
(* deque of their keys, oldest first; a round-robin array of L1Size slots  *)
(* (L1) remembers recently touched keys and a raw pointer to each entry.   *)
(* An L1 hit returns through the pointer and does not touch the deque.     *)
(*                                                                         *)
(* One action per public operation and per path through it.  The program  *)
(* is single threaded, so an operation is one step, the hooks included.   *)
(***************************************************************************)
EXTENDS Integers, Sequences, SequencesExt

CONSTANTS
    Key,      \* the ids a caller uses (block ids, node ids)
    NoKey,    \* m_invalid_key, marks a free L1 slot
    Value,    \* contents an entry can have
    Blank,    \* contents of a block or node object just constructed
    Null,     \* an empty shptr
    Absent,   \* no entry in the map / no such id in the store / dst untouched
    Unread,   \* the store has the id, but reading it fails (past end of file)
    Size,     \* SIZE, the capacity
    L1Size    \* LRUCACHE_L1_CACHE_SIZE

ASSUME SizesAssumption == Size \in Nat \ {0} /\ L1Size \in Nat \ {0}

ASSUME SentinelsAssumption ==
    /\ NoKey \notin Key
    /\ Blank \in Value
    /\ Null \notin Value
    /\ Absent \notin Value \cup {Null}
    /\ Unread \notin Value \cup {Null, Absent}

Entry == Value \cup {Null}
Slot  == 0 .. L1Size - 1

VARIABLES
    cache,    \* the LRUCache object, see Cache below
    backing,  \* what the hooks read and write: the file behind the cache
    result    \* what the last operation returned

vars == <<cache, backing, result>>

\* m_l1_key[i] and m_l1_mapped[i].  The pointer is null, or designates the
\* entry of that key ("live"), or an entry that has been erased.
L1Entry == [key : Key \cup {NoKey}, mapped : {"null", "live", "dangling"}]

FreeSlot == [key |-> NoKey, mapped |-> "null"]

Cache == [keys : Seq(Key),                         \* m_omap.m_keys
          map  : [Key -> Entry \cup {Absent}],     \* m_omap.m_map
          l1   : [Slot -> L1Entry],
          last : -1 .. L1Size - 1]                 \* m_l1_last

Ops == {"none", "get", "set", "sub", "del", "pop"}

Result == [op : Ops, key : Key \cup {NoKey}, ok : BOOLEAN,
           dst : Entry \cup {Absent}]

Answer(op, k, ok, dst) == [op |-> op, key |-> k, ok |-> ok, dst |-> dst]
NoAnswer == Answer("none", NoKey, TRUE, Absent)

(***************************************************************************)
(* ordered_map                                                             *)
(***************************************************************************)
Cached(c, k)   == c.map[k] # Absent
Position(c, k) == CHOOSE i \in 1 .. Len(c.keys) : c.keys[i] = k

\* Erase the entry whose key is at deque position i: pop_front() is i = 1 and
\* pop(key) is i = Position(c, key).  L1 pointers to the entry now dangle.
Erase(c, i) ==
    LET k == c.keys[i] IN
    [c EXCEPT !.keys = RemoveAt(@, i),
              !.map[k] = Absent,
              !.l1 = [s \in Slot |-> IF @[s].key = k /\ @[s].mapped = "live"
                                     THEN [@[s] EXCEPT !.mapped = "dangling"]
                                     ELSE @[s]]]

\* m_omap[k] = v
Put(c, k, v) ==
    [c EXCEPT !.keys = IF Cached(c, k) THEN @ ELSE Append(@, k),
              !.map[k] = v]

(***************************************************************************)
(* L1                                                                      *)
(***************************************************************************)
SlotsOf(c, k) == {s \in Slot : c.l1[s].key = k}
InL1(c, k)    == SlotsOf(c, k) # {}

\* The loop that invalidates every slot holding k.
Invalidate(c, k) ==
    [c EXCEPT !.l1 = [s \in Slot |-> IF @[s].key = k THEN FreeSlot ELSE @[s]]]

\* Mutant: the index never wraps.
NextSlotNoWrap(c) == c.last + 1

NextSlot(c) == (c.last + 1) % L1Size

\* Remember k, with a pointer to its entry, in the next slot round robin.
Remember(c, k) ==
    [c EXCEPT !.last = NextSlot(c),
              !.l1[NextSlot(c)] = [key |-> k, mapped |-> "live"]]

\* Insert as the newest entry and remember it: the tail get, set and
\* operator[] have in common.
Insert(c, k, v) == Remember(Put(c, k, v), k)

\* What reading through a slot's pointer yields: the entry, or anything when
\* the pointer no longer designates one.
Pointee(c, s) == IF c.l1[s].mapped = "live" THEN {c.map[c.l1[s].key]} ELSE Entry

\* Writing through a slot's pointer.
Store(c, s, v) ==
    IF c.l1[s].mapped = "live" THEN [c EXCEPT !.map[c.l1[s].key] = v] ELSE c

(***************************************************************************)
(* Eviction and the hooks                                                  *)
(***************************************************************************)
Full(c)   == Len(c.keys) >= Size
Victim(c) == c.keys[1]

\* on_eviction: write the entry back, unless it is an empty pointer.
WriteBack(store, k, v) == IF v \in Value THEN [store EXCEPT ![k] = v] ELSE store

\* Mutant: the slots of the evicted key are left as they are.
DropFrontKeepsL1(c) == Erase(c, 1)

\* Take the front entry out; pop() and evict() do the same to the cache.
DropFront(c) == Invalidate(Erase(c, 1), Victim(c))

\* Mutant: the evicted entry is not written back.
WriteFrontBackLost(c, store) == store

\* on_eviction of the entry DropFront takes out.
WriteFrontBack(c, store) == WriteBack(store, Victim(c), c.map[Victim(c)])

\* "if (m_omap.size() >= Size) evict();" before an insertion.
MakeRoom(c)          == IF Full(c) THEN DropFront(c) ELSE c
AfterRoom(c, store)  == IF Full(c) THEN WriteFrontBack(c, store) ELSE store

\* on_miss(op_sub): the contents read, a blank object when the read fails, an
\* empty pointer when the store does not know the id.
Fetched(store, k) == CASE store[k] \in Value -> store[k]
                       [] store[k] = Unread  -> Blank
                       [] OTHER              -> Null

-----------------------------------------------------------------------------
Init ==
    /\ cache = [keys |-> <<>>, map |-> [k \in Key |-> Absent],
                l1 |-> [s \in Slot |-> FreeSlot], last |-> -1]
    /\ backing \in [Key -> {Absent, Unread} \cup Value]
    /\ result = NoAnswer

(* bool get(mapped_type& dst, key_type& key) *)
GetFromL1(k) ==
    /\ \E s \in SlotsOf(cache, k), v \in Entry :
          /\ v \in Pointee(cache, s)
          /\ result' = Answer("get", k, TRUE, v)
    /\ UNCHANGED <<cache, backing>>

GetFromMap(k) ==
    /\ ~InL1(cache, k) /\ Cached(cache, k)
    /\ cache' = Insert(Erase(cache, Position(cache, k)), k, cache.map[k])
    /\ result' = Answer("get", k, TRUE, cache.map[k])
    /\ UNCHANGED backing

\* The value on_miss read goes into the map; dst is not assigned.
GetFromStore(k) ==
    /\ ~InL1(cache, k) /\ ~Cached(cache, k)
    /\ backing' = AfterRoom(cache, backing)
    /\ IF backing'[k] \in Value
       THEN /\ cache' = Insert(MakeRoom(cache), k, backing'[k])
            /\ result' = Answer("get", k, TRUE, Absent)
       ELSE /\ cache' = MakeRoom(cache)
            /\ result' = Answer("get", k, FALSE, Absent)

(* bool set(key_type& key, mapped_type& value) *)
SetInL1(k, v) ==
    /\ \E s \in SlotsOf(cache, k) : cache' = Store(cache, s, v)
    /\ result' = Answer("set", k, TRUE, Absent)
    /\ UNCHANGED backing

\* Mutant: the entry found is overwritten where it is.
SetInMapInPlace(k, v) ==
    /\ ~InL1(cache, k) /\ Cached(cache, k)
    /\ cache' = Insert(cache, k, v)
    /\ result' = Answer("set", k, TRUE, Absent)
    /\ UNCHANGED backing

SetInMap(k, v) ==
    /\ ~InL1(cache, k) /\ Cached(cache, k)
    /\ cache' = Insert(Invalidate(Erase(cache, Position(cache, k)), k), k, v)
    /\ result' = Answer("set", k, TRUE, Absent)
    /\ UNCHANGED backing

SetNew(k, v) ==
    /\ ~InL1(cache, k) /\ ~Cached(cache, k)
    /\ backing' = AfterRoom(cache, backing)
    /\ cache' = Insert(MakeRoom(cache), k, v)
    /\ result' = Answer("set", k, TRUE, Absent)

(* T& operator[](const key_type& key) *)
SubFromL1(k) ==
    /\ \E s \in SlotsOf(cache, k), v \in Entry :
          /\ v \in Pointee(cache, s)
          /\ result' = Answer("sub", k, TRUE, v)
    /\ UNCHANGED <<cache, backing>>

\* Mutant: the entry found keeps its place in the deque.
SubFromMapInPlace(k) ==
    /\ ~InL1(cache, k) /\ Cached(cache, k)
    /\ cache' = Remember(cache, k)
    /\ result' = Answer("sub", k, TRUE, cache.map[k])
    /\ UNCHANGED backing

SubFromMap(k) ==
    /\ ~InL1(cache, k) /\ Cached(cache, k)
    /\ cache' = Insert(Erase(cache, Position(cache, k)), k, cache.map[k])
    /\ result' = Answer("sub", k, TRUE, cache.map[k])
    /\ UNCHANGED backing

\* The outcome of on_miss is ignored: whatever it produced is inserted.
SubFromStore(k) ==
    /\ ~InL1(cache, k) /\ ~Cached(cache, k)
    /\ backing' = AfterRoom(cache, backing)
    /\ cache' = Insert(MakeRoom(cache), k, Fetched(backing', k))
    /\ result' = Answer("sub", k, TRUE, Fetched(backing', k))

\* The caller writes through the reference operator[] has just returned.
Assign(v) ==
    /\ result.op = "sub"
    /\ cache' = [cache EXCEPT !.map[result.key] = v]
    /\ result' = NoAnswer
    /\ UNCHANGED backing

(* bool del(key_type& key) *)
Del(k) ==
    LET c == Invalidate(cache, k) IN
    /\ cache' = IF Cached(c, k) THEN Erase(c, Position(c, k)) ELSE c
    /\ result' = Answer("del", k, Cached(cache, k), Absent)
    /\ UNCHANGED backing

(* void evict(bool force) *)
Evict(force) ==
    /\ IF cache.keys # <<>> /\ (Full(cache) \/ force)
       THEN /\ cache' = DropFront(cache)
            /\ backing' = WriteFrontBack(cache, backing)
       ELSE UNCHANGED <<cache, backing>>
    /\ result' = NoAnswer

(* std::pair<Key, T> pop() *)
Pop ==
    IF cache.keys # <<>>
    THEN /\ cache' = DropFront(cache)
         /\ backing' = WriteFrontBack(cache, backing)
         /\ result' = Answer("pop", Victim(cache), TRUE, cache.map[Victim(cache)])
    ELSE /\ result' = Answer("pop", NoKey, FALSE, Absent)
         /\ UNCHANGED <<cache, backing>>

Emptied == [keys |-> <<>>, map |-> [k \in Key |-> Absent],
            l1 |-> [s \in Slot |-> FreeSlot], last |-> -1]

(* void evict_all(): clear_l1(), then evict(force) until nothing is left *)
EvictAll ==
    /\ cache' = Emptied
    /\ backing' = [k \in Key |-> IF cache.map[k] \in Value THEN cache.map[k]
                                 ELSE backing[k]]
    /\ result' = NoAnswer

(* void clear(): clear_l1() and m_omap.clear(), nothing is written back *)
Clear ==
    /\ cache' = Emptied
    /\ result' = NoAnswer
    /\ UNCHANGED backing

\* The storage hands out a new id; a write beyond the end of the file that
\* did not come through this cache makes the ids below it readable.
Extend(k) ==
    /\ \/ /\ backing[k] = Absent
          /\ backing' = [backing EXCEPT ![k] = Unread]
       \/ /\ backing[k] = Unread
          /\ backing' = [backing EXCEPT ![k] = Blank]
    /\ UNCHANGED <<cache, result>>

\* The operations that use an entry.
Get(k)    == GetFromL1(k) \/ GetFromMap(k) \/ GetFromStore(k)
Set(k, v) == SetInL1(k, v) \/ SetInMap(k, v) \/ SetNew(k, v)
Sub(k)    == SubFromL1(k) \/ SubFromMap(k) \/ SubFromStore(k)

Access(k) == Get(k) \/ Sub(k) \/ \E v \in Value : Set(k, v)

\* The operations that only remove entries, and the ones outside the cache.
Other ==
    \/ \E v \in Value : Assign(v)
    \/ \E k \in Key : Del(k) \/ Extend(k)
    \/ \E force \in BOOLEAN : Evict(force)
    \/ Pop
    \/ EvictAll
    \/ Clear

Next == Other \/ \E k \in Key : Access(k)

Spec == Init /\ [][Next]_vars

-----------------------------------------------------------------------------
TypeOK ==
    /\ cache \in Cache
    /\ backing \in [Key -> {Absent, Unread} \cup Value]
    /\ result \in Result

\* ordered_map keeps two containers: the deque lists the keys of the map, each
\* once, whatever the order of insertions, refreshes and removals, and the
\* capacity is never exceeded.
DequeMatchesMap(c) ==
    /\ Len(c.keys) <= Size
    /\ \A i, j \in 1 .. Len(c.keys) : c.keys[i] = c.keys[j] => i = j
    /\ \A k \in Key : Cached(c, k) <=> \E i \in 1 .. Len(c.keys) : c.keys[i] = k

\* Every L1 slot is free or holds the key of an entry of the map, with a
\* pointer to that very entry, and no key is in two slots: a hit in L1 never
\* dereferences a null pointer or an erased entry.
L1Sound(c) ==
    /\ \A s \in Slot : \/ c.l1[s] = FreeSlot
                       \/ /\ c.l1[s].key \in Key
                          /\ c.l1[s].mapped = "live"
                          /\ Cached(c, c.l1[s].key)
    /\ \A s, t \in Slot : c.l1[s].key = c.l1[t].key /\ c.l1[s].key # NoKey => s = t

\* The two levels agree after every operation (LRUCache.impl.hpp: the
\* invalidation loops of set, del, evict and pop).
LevelsCoherent == DequeMatchesMap(cache) /\ L1Sound(cache)

\* Number of L1 insertions since slot s was filled.
SlotAge(c, s) == IF s <= c.last THEN c.last - s ELSE c.last - s + L1Size

\* The key in a slot is nearer to the back of the deque than the slot is old.
SlotsAreRecent(c) ==
    \A s \in Slot, i \in 1 .. Len(c.keys) :
        c.keys[i] = c.l1[s].key => Len(c.keys) - i <= SlotAge(c, s)

\* With more entries than L1 slots, the entry the next eviction takes is never
\* one that L1 still holds: an eviction made to admit a new entry leaves L1
\* alone (although L1 hits do not refresh the deque).
VictimNotInL1 ==
    Size > L1Size /\ Full(cache) => ~InL1(cache, Victim(cache))
=============================================================================
