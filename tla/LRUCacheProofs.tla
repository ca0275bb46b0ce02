--------------------------- MODULE LRUCacheProofs ---------------------------
(***************************************************************************)
(* Proofs about LRUCache and LRURecency for every Key, Value, Size and     *)
(* L1Size.  The inductive invariant is CacheOK: the two levels agree, and  *)
(* a key held by an L1 slot is at most as far from the back of the deque   *)
(* as the slot is old.                                                     *)
(***************************************************************************)
EXTENDS LRURecency, LRURefinement, SequenceTheorems, TLAPS

CacheOK(c) ==
    /\ c \in Cache
    /\ DequeMatchesMap(c)
    /\ L1Sound(c)
    /\ SlotsAreRecent(c)

\* The reference operator[] returned last is to an entry still in the map.
RefOK == result.op = "sub" => result.key \in Key /\ Cached(cache, result.key)

IInv ==
    /\ CacheOK(cache)
    /\ backing \in [Key -> {Absent, Unread} \cup Value]
    /\ result \in Result
    /\ RefOK

-----------------------------------------------------------------------------
\* Taking the element at position i out of a sequence.
LEMMA RemoveAtProperties ==
    ASSUME NEW S, NEW s \in Seq(S), NEW i \in 1 .. Len(s)
    PROVE  /\ RemoveAt(s, i) \in Seq(S)
           /\ Len(RemoveAt(s, i)) = Len(s) - 1
           /\ \A j \in 1 .. Len(s) - 1 :
                 RemoveAt(s, i)[j] = IF j < i THEN s[j] ELSE s[j + 1]
<1> DEFINE A == SubSeq(s, 1, i - 1)
           B == SubSeq(s, i + 1, Len(s))
<1>1. /\ A \in Seq(S) /\ Len(A) = i - 1
      /\ \A j \in 1 .. i - 1 : A[j] = s[j]
  BY SubSeqProperties
<1>2. /\ B \in Seq(S) /\ Len(B) = Len(s) - i
      /\ \A j \in 1 .. Len(s) - i : B[j] = s[i + j]
  BY SubSeqProperties
<1> HIDE DEF A, B
<1>3. RemoveAt(s, i) = A \o B
  BY DEF RemoveAt, A, B
<1>4. /\ A \o B \in Seq(S)
      /\ Len(A \o B) = Len(s) - 1
      /\ \A j \in 1 .. Len(s) - 1 :
            (A \o B)[j] = IF j <= i - 1 THEN A[j] ELSE B[j - (i - 1)]
  <2>1. /\ A \o B \in Seq(S)
        /\ Len(A \o B) = Len(A) + Len(B)
        /\ \A j \in 1 .. Len(A) + Len(B) :
              (A \o B)[j] = IF j <= Len(A) THEN A[j] ELSE B[j - Len(A)]
    BY <1>1, <1>2, ConcatProperties, Zenon
  <2>2. Len(A) + Len(B) = Len(s) - 1
    BY <1>1, <1>2
  <2> QED BY <1>1, <2>1, <2>2
<1>5. \A j \in 1 .. Len(s) - 1 :
         (A \o B)[j] = IF j < i THEN s[j] ELSE s[j + 1]
  <2> SUFFICES ASSUME NEW j \in 1 .. Len(s) - 1
               PROVE  (A \o B)[j] = IF j < i THEN s[j] ELSE s[j + 1]
    OBVIOUS
  <2>1. CASE j < i
    BY <1>1, <1>4, <2>1
  <2>2. CASE ~(j < i)
    <3>1. (A \o B)[j] = B[j - (i - 1)]
      BY <1>4, <2>2
    <3>2. j - (i - 1) \in 1 .. Len(s) - i /\ i + (j - (i - 1)) = j + 1
      BY <2>2
    <3> QED BY <1>2, <2>2, <3>1, <3>2
  <2> QED BY <2>1, <2>2
<1> QED BY <1>3, <1>4, <1>5

\* The round robin without the remainder operator.
LEMMA NextSlotIs ==
    ASSUME NEW c \in Cache
    PROVE  NextSlot(c) = IF c.last + 1 = L1Size THEN 0 ELSE c.last + 1
<1>1. c.last \in -1 .. L1Size - 1 /\ L1Size \in Nat \ {0}
  BY SizesAssumption DEF Cache
<1> QED BY <1>1 DEF NextSlot

\* d is c with the entry at deque position i, and every slot holding its key,
\* taken out: what del(), evict(), pop() and a refresh do before anything else.
Removed(c, d, i) ==
    /\ d \in Cache
    /\ d.keys = RemoveAt(c.keys, i)
    /\ d.map = [c.map EXCEPT ![c.keys[i]] = Absent]
    /\ d.last = c.last
    /\ \A s \in Slot : d.l1[s] = IF c.l1[s].key = c.keys[i] THEN FreeSlot ELSE c.l1[s]

\* Taking an entry out keeps the levels coherent, and the key is gone.
LEMMA RemovedOK ==
    ASSUME NEW c, CacheOK(c), NEW i \in 1 .. Len(c.keys), NEW d, Removed(c, d, i)
    PROVE  /\ CacheOK(d)
           /\ Len(d.keys) = Len(c.keys) - 1
           /\ ~Cached(d, c.keys[i])
           /\ ~InL1(d, c.keys[i])
           /\ \A k \in Key : k # c.keys[i] => d.map[k] = c.map[k]
<1> DEFINE key == c.keys[i]
<1>1. c \in Cache /\ c.keys \in Seq(Key) /\ key \in Key /\ c.map \in [Key -> Entry \cup {Absent}]
      /\ c.l1 \in [Slot -> L1Entry] /\ c.last \in -1 .. L1Size - 1
  BY DEF CacheOK, Cache
<1>2. /\ d.keys \in Seq(Key)
      /\ Len(d.keys) = Len(c.keys) - 1
      /\ \A j \in 1 .. Len(c.keys) - 1 :
            d.keys[j] = IF j < i THEN c.keys[j] ELSE c.keys[j + 1]
  <2>1. d.keys = RemoveAt(c.keys, i)
    BY DEF Removed
  <2> QED BY <1>1, <2>1, RemoveAtProperties
<1>3. /\ d.map[key] = Absent
      /\ \A k \in Key : k # key => d.map[k] = c.map[k]
  BY <1>1 DEF Removed
<1>4. \A s \in Slot : d.l1[s] = IF c.l1[s].key = key THEN FreeSlot ELSE c.l1[s]
  BY DEF Removed
<1>5. \A j, m \in 1 .. Len(c.keys) : c.keys[j] = c.keys[m] => j = m
  BY DEF CacheOK, DequeMatchesMap
<1>6. \A k \in Key : c.map[k] # Absent <=> \E j \in 1 .. Len(c.keys) : c.keys[j] = k
  BY DEF CacheOK, DequeMatchesMap, Cached
<1> HIDE DEF key
<1>7. key \notin {d.keys[j] : j \in 1 .. Len(d.keys)}
  <2> SUFFICES ASSUME NEW j \in 1 .. Len(c.keys) - 1 PROVE d.keys[j] # key
    BY <1>1, <1>2
  <2> QED BY <1>1, <1>2, <1>5 DEF key
<1>8. DequeMatchesMap(d)
  <2>1. Len(d.keys) <= Size
    BY <1>1, <1>2, SizesAssumption DEF CacheOK, DequeMatchesMap
  <2>2. ASSUME NEW j \in 1 .. Len(d.keys), NEW m \in 1 .. Len(d.keys), d.keys[j] = d.keys[m]
        PROVE  j = m
    BY <1>1, <1>2, <1>5, <2>2
  <2>3. ASSUME NEW k \in Key
        PROVE  Cached(d, k) <=> \E j \in 1 .. Len(d.keys) : d.keys[j] = k
    <3>1. CASE k = key
      BY <1>3, <1>7, <3>1 DEF Cached
    <3>2. CASE k # key
      <4>1. ASSUME NEW j \in 1 .. Len(c.keys), c.keys[j] = k
            PROVE  \E m \in 1 .. Len(d.keys) : d.keys[m] = k
        <5>1. j # i
          BY <3>2, <4>1 DEF key
        <5>2. CASE j < i
          BY <1>1, <1>2, <4>1, <5>2
        <5>3. CASE j > i
          <6>1. j - 1 \in 1 .. Len(c.keys) - 1 /\ ~(j - 1 < i) /\ j - 1 + 1 = j
            BY <1>1, <5>3
          <6>2. d.keys[j - 1] = c.keys[j]
            BY <1>2, <6>1
          <6> QED BY <1>2, <4>1, <6>1, <6>2
        <5> QED BY <1>1, <5>1, <5>2, <5>3
      <4>2. ASSUME NEW j \in 1 .. Len(d.keys), d.keys[j] = k
            PROVE  \E m \in 1 .. Len(c.keys) : c.keys[m] = k
        BY <1>1, <1>2, <4>2
      <4>3. Cached(d, k) <=> c.map[k] # Absent
        BY <1>3, <3>2 DEF Cached
      <4> QED BY <1>6, <4>1, <4>2, <4>3
    <3> QED BY <3>1, <3>2
  <2> QED BY <2>1, <2>2, <2>3 DEF DequeMatchesMap
<1>9. L1Sound(d)
  <2>1. ASSUME NEW s \in Slot
        PROVE  \/ d.l1[s] = FreeSlot
               \/ /\ d.l1[s].key \in Key
                  /\ d.l1[s].mapped = "live"
                  /\ Cached(d, d.l1[s].key)
    BY <1>3, <1>4 DEF CacheOK, L1Sound, Cached
  <2>2. ASSUME NEW s \in Slot, NEW t \in Slot,
               d.l1[s].key = d.l1[t].key, d.l1[s].key # NoKey
        PROVE  s = t
    BY <1>4, <2>2 DEF CacheOK, L1Sound, FreeSlot
  <2> QED BY <2>1, <2>2 DEF L1Sound
<1>10. SlotsAreRecent(d)
  <2> SUFFICES ASSUME NEW s \in Slot, NEW j \in 1 .. Len(d.keys), d.keys[j] = d.l1[s].key
               PROVE  Len(d.keys) - j <= SlotAge(d, s)
    BY DEF SlotsAreRecent
  <2>1. d.l1[s] = c.l1[s]
    BY <1>1, <1>2, <1>4, SentinelsAssumption DEF FreeSlot
  <2>2. SlotAge(d, s) = SlotAge(c, s) /\ SlotAge(c, s) \in Int
    BY <1>1, SizesAssumption DEF Removed, SlotAge, Slot
  <2>3. PICK m \in 1 .. Len(c.keys) : c.keys[m] = d.keys[j] /\ m <= j + 1 /\ m >= j
    BY <1>1, <1>2
  <2>4. Len(c.keys) - m <= SlotAge(c, s)
    BY <2>1, <2>3 DEF CacheOK, SlotsAreRecent
  <2> QED BY <1>1, <1>2, <2>2, <2>3, <2>4
<1>11. ~InL1(d, key)
  BY <1>1, <1>4, SentinelsAssumption DEF InL1, SlotsOf, FreeSlot
<1> QED BY <1>2, <1>3, <1>8, <1>9, <1>10, <1>11 DEF CacheOK, Removed, Cached, key

\* Inserting a key that is in neither level, with room for it, keeps the levels
\* coherent: the slot written is the oldest one, so every other slot's age
\* grows with the deque.
LEMMA InsertOK ==
    ASSUME NEW c, CacheOK(c), NEW k \in Key, NEW v \in Entry,
           ~Cached(c, k), ~InL1(c, k), Len(c.keys) < Size
    PROVE  /\ CacheOK(Insert(c, k, v))
           /\ Cached(Insert(c, k, v), k)
<1> DEFINE d == Insert(c, k, v)
           n == IF c.last + 1 = L1Size THEN 0 ELSE c.last + 1
<1>1. c \in Cache /\ c.keys \in Seq(Key) /\ c.map \in [Key -> Entry \cup {Absent}]
      /\ c.l1 \in [Slot -> L1Entry] /\ c.last \in -1 .. L1Size - 1
  BY DEF CacheOK, Cache
<1>2. n \in Slot /\ NextSlot(Put(c, k, v)) = n
  <2>1. NextSlot(Put(c, k, v)) = NextSlot(c)
    BY <1>1 DEF NextSlot, Put, Cache
  <2> QED BY <1>1, <2>1, NextSlotIs, SizesAssumption DEF Slot
<1>3. /\ d.keys = Append(c.keys, k)
      /\ d.map = [c.map EXCEPT ![k] = v]
      /\ d.last = n
      /\ d.l1 = [c.l1 EXCEPT ![n] = [key |-> k, mapped |-> "live"]]
      /\ d \in Cache
  <2>1. d = [keys |-> Append(c.keys, k), map |-> [c.map EXCEPT ![k] = v],
             l1 |-> [c.l1 EXCEPT ![n] = [key |-> k, mapped |-> "live"]], last |-> n]
    <3>1. Put(c, k, v) = [keys |-> Append(c.keys, k), map |-> [c.map EXCEPT ![k] = v],
                          l1 |-> c.l1, last |-> c.last]
      <4> DEFINE r == [keys |-> c.keys, map |-> c.map, l1 |-> c.l1, last |-> c.last]
      <4>1. c = r
        BY <1>1 DEF Cache
      <4>2. ~Cached(r, k)
        BY <4>1
      <4>3. Put(r, k, v) = [r EXCEPT !.keys = Append(@, k), !.map[k] = v]
        BY <4>2 DEF Put
      <4> QED BY <4>1, <4>3
    <3> DEFINE p == [keys |-> Append(c.keys, k), map |-> [c.map EXCEPT ![k] = v],
                     l1 |-> c.l1, last |-> c.last]
    <3>2. d = Remember(p, k) /\ NextSlot(p) = n
      BY <1>2, <3>1 DEF Insert
    <3> HIDE DEF n
    <3>3. Remember(p, k) = [p EXCEPT !.last = n, !.l1[n] = [key |-> k, mapped |-> "live"]]
      BY <3>2 DEF Remember
    <3> QED BY <3>2, <3>3
  <2>2. Append(c.keys, k) \in Seq(Key)
    BY <1>1
  <2>3. [c.map EXCEPT ![k] = v] \in [Key -> Entry \cup {Absent}]
    BY <1>1
  <2>4. [c.l1 EXCEPT ![n] = [key |-> k, mapped |-> "live"]] \in [Slot -> L1Entry]
    BY <1>1 DEF L1Entry
  <2>5. n \in -1 .. L1Size - 1
    BY <1>2, SizesAssumption DEF Slot
  <2> HIDE DEF d, n
  <2> QED BY <2>1, <2>2, <2>3, <2>4, <2>5 DEF Cache
<1> HIDE DEF d, n
<1>4. /\ Len(d.keys) = Len(c.keys) + 1
      /\ d.keys[Len(c.keys) + 1] = k
      /\ \A j \in 1 .. Len(c.keys) : d.keys[j] = c.keys[j]
  BY <1>1, <1>3
<1>5. \A j \in 1 .. Len(c.keys) : c.keys[j] # k
  BY DEF CacheOK, DequeMatchesMap, Cached
<1>6. d.map[k] = v /\ \A j \in Key : j # k => d.map[j] = c.map[j]
  BY <1>1, <1>3
<1>7. v # Absent
  BY SentinelsAssumption DEF Entry
<1>8. /\ d.l1[n] = [key |-> k, mapped |-> "live"]
      /\ \A s \in Slot : s # n => d.l1[s] = c.l1[s]
  BY <1>1, <1>2, <1>3
<1>9. \A s \in Slot : c.l1[s].key # k
  BY DEF InL1, SlotsOf
<1>10. DequeMatchesMap(d)
  <2>1. Len(d.keys) <= Size
    BY <1>1, <1>4, SizesAssumption
  <2>2. ASSUME NEW j \in 1 .. Len(d.keys), NEW m \in 1 .. Len(d.keys), d.keys[j] = d.keys[m]
        PROVE  j = m
    BY <1>1, <1>4, <1>5, <2>2 DEF CacheOK, DequeMatchesMap
  <2>3. ASSUME NEW x \in Key
        PROVE  Cached(d, x) <=> \E j \in 1 .. Len(d.keys) : d.keys[j] = x
    <3>1. CASE x = k
      BY <1>1, <1>4, <1>6, <1>7, <3>1 DEF Cached
    <3>2. CASE x # k
      <4>1. Cached(d, x) <=> Cached(c, x)
        BY <1>6, <3>2 DEF Cached
      <4>2. Cached(c, x) <=> \E j \in 1 .. Len(c.keys) : c.keys[j] = x
        BY DEF CacheOK, DequeMatchesMap
      <4>3. (\E j \in 1 .. Len(c.keys) : c.keys[j] = x)
            <=> (\E j \in 1 .. Len(d.keys) : d.keys[j] = x)
        BY <1>1, <1>4, <3>2
      <4> QED BY <4>1, <4>2, <4>3
    <3> QED BY <3>1, <3>2
  <2> QED BY <2>1, <2>2, <2>3 DEF DequeMatchesMap
<1>11. L1Sound(d)
  <2>1. ASSUME NEW s \in Slot
        PROVE  \/ d.l1[s] = FreeSlot
               \/ /\ d.l1[s].key \in Key
                  /\ d.l1[s].mapped = "live"
                  /\ Cached(d, d.l1[s].key)
    BY <1>6, <1>7, <1>8 DEF CacheOK, L1Sound, Cached
  <2>2. ASSUME NEW s \in Slot, NEW t \in Slot,
               d.l1[s].key = d.l1[t].key, d.l1[s].key # NoKey
        PROVE  s = t
    BY <1>8, <1>9, <2>2 DEF CacheOK, L1Sound
  <2> QED BY <2>1, <2>2 DEF L1Sound
<1>12. SlotsAreRecent(d)
  <2> SUFFICES ASSUME NEW s \in Slot, NEW j \in 1 .. Len(d.keys), d.keys[j] = d.l1[s].key
               PROVE  Len(d.keys) - j <= SlotAge(d, s)
    BY DEF SlotsAreRecent
  <2>1. CASE s = n
    <3>1. j = Len(d.keys)
      BY <1>1, <1>4, <1>5, <1>8, <2>1
    <3>2. SlotAge(d, s) = 0
      BY <1>2, <1>3, <2>1 DEF SlotAge, Slot
    <3> QED BY <1>1, <1>4, <3>1, <3>2
  <2>2. CASE s # n
    <3>1. d.keys[j] = c.l1[s].key
      BY <1>8, <2>2
    <3>2. j \in 1 .. Len(c.keys) /\ c.keys[j] = c.l1[s].key
      BY <1>1, <1>4, <1>9, <3>1
    <3>3. Len(c.keys) - j <= SlotAge(c, s)
      BY <3>2 DEF CacheOK, SlotsAreRecent
    <3>4. SlotAge(d, s) = SlotAge(c, s) + 1 /\ SlotAge(c, s) \in Int
      <4>1. s \in 0 .. L1Size - 1 /\ L1Size \in Nat \ {0} /\ d.last = n /\ s # n
        BY <1>3, <2>2, SizesAssumption DEF Slot
      <4>2. CASE c.last + 1 = L1Size
        <5>1. n = 0 /\ c.last \in Int /\ s <= c.last /\ ~(s <= 0)
          BY <1>1, <4>1, <4>2 DEF n
        <5> QED BY <4>1, <4>2, <5>1 DEF SlotAge
      <4>3. CASE c.last + 1 # L1Size
        <5>1. n = c.last + 1 /\ c.last \in Int
          BY <1>1, <4>3 DEF n
        <5>2. s <= n <=> s <= c.last
          BY <4>1, <5>1
        <5> QED BY <4>1, <5>1, <5>2 DEF SlotAge
      <4> QED BY <4>2, <4>3
    <3> QED BY <1>1, <1>4, <3>2, <3>3, <3>4
  <2> QED BY <2>1, <2>2
<1> QED BY <1>3, <1>6, <1>7, <1>10, <1>11, <1>12 DEF CacheOK, Cached, d

\* Overwriting the value of a cached key moves nothing.
LEMMA OverwriteOK ==
    ASSUME NEW c, CacheOK(c), NEW k \in Key, Cached(c, k), NEW v \in Entry
    PROVE  CacheOK([c EXCEPT !.map[k] = v])
<1> DEFINE d == [c EXCEPT !.map[k] = v]
<1>1. c \in Cache /\ c.map \in [Key -> Entry \cup {Absent}]
  BY DEF CacheOK, Cache
<1>2. /\ d \in Cache
      /\ d.keys = c.keys /\ d.l1 = c.l1 /\ d.last = c.last
      /\ d.map = [c.map EXCEPT ![k] = v]
  BY <1>1 DEF Cache
<1> HIDE DEF d
<1>3. \A x \in Key : Cached(d, x) <=> Cached(c, x)
  BY <1>1, <1>2, SentinelsAssumption DEF Cached, Entry
<1>4. DequeMatchesMap(d)
  BY <1>2, <1>3 DEF CacheOK, DequeMatchesMap
<1>5. L1Sound(d)
  BY <1>2, <1>3 DEF CacheOK, L1Sound
<1>6. SlotsAreRecent(d)
  BY <1>2 DEF CacheOK, SlotsAreRecent, SlotAge
<1> QED BY <1>2, <1>4, <1>5, <1>6 DEF CacheOK, d

\* Position finds the place of a cached key in the deque (ordered_map::find).
LEMMA PositionOK ==
    ASSUME NEW c, CacheOK(c), NEW k \in Key, Cached(c, k)
    PROVE  Position(c, k) \in 1 .. Len(c.keys) /\ c.keys[Position(c, k)] = k
BY DEF CacheOK, DequeMatchesMap, Position

\* Invalidating a key frees its slot and touches nothing else.
LEMMA InvalidateOK ==
    ASSUME NEW c, CacheOK(c), NEW k \in Key
    PROVE  /\ CacheOK(Invalidate(c, k))
           /\ ~InL1(Invalidate(c, k), k)
           /\ Invalidate(c, k).keys = c.keys
           /\ Invalidate(c, k).map = c.map
<1> DEFINE d == Invalidate(c, k)
<1>1. c \in Cache /\ c.l1 \in [Slot -> L1Entry]
  BY DEF CacheOK, Cache
<1>2. /\ d \in Cache /\ d.keys = c.keys /\ d.map = c.map /\ d.last = c.last
      /\ \A s \in Slot : d.l1[s] = IF c.l1[s].key = k THEN FreeSlot ELSE c.l1[s]
  BY <1>1 DEF Invalidate, Cache, FreeSlot, L1Entry
<1> HIDE DEF d
<1>3. DequeMatchesMap(d)
  BY <1>2 DEF CacheOK, DequeMatchesMap, Cached
<1>4. L1Sound(d)
  BY <1>2 DEF CacheOK, L1Sound, Cached, FreeSlot
<1>5. SlotsAreRecent(d)
  <2> SUFFICES ASSUME NEW s \in Slot, NEW i \in 1 .. Len(d.keys), d.keys[i] = d.l1[s].key
               PROVE  Len(d.keys) - i <= SlotAge(d, s)
    BY DEF SlotsAreRecent
  <2>1. d.l1[s] = c.l1[s]
    <3>1. d.keys[i] \in Key
      BY <1>2 DEF Cache
    <3> QED BY <1>2, <3>1, SentinelsAssumption DEF FreeSlot
  <2>2. SlotAge(d, s) = SlotAge(c, s)
    BY <1>2 DEF SlotAge
  <2> QED BY <1>2, <2>1, <2>2 DEF CacheOK, SlotsAreRecent
<1>6. ~InL1(d, k)
  BY <1>2, SentinelsAssumption DEF InL1, SlotsOf, FreeSlot
<1> QED BY <1>2, <1>3, <1>4, <1>5, <1>6 DEF CacheOK, d

\* Erasing an entry as such, before any slot is invalidated.
LEMMA EraseIs ==
    ASSUME NEW c, CacheOK(c), NEW i \in 1 .. Len(c.keys)
    PROVE  /\ Erase(c, i) \in Cache
           /\ Erase(c, i).keys = RemoveAt(c.keys, i)
           /\ Erase(c, i).map = [c.map EXCEPT ![c.keys[i]] = Absent]
           /\ Erase(c, i).last = c.last
           /\ \A s \in Slot :
                 /\ Erase(c, i).l1[s].key = c.l1[s].key
                 /\ c.l1[s].key # c.keys[i] => Erase(c, i).l1[s] = c.l1[s]
<1> DEFINE k == c.keys[i]
           l == [s \in Slot |-> IF c.l1[s].key = k /\ c.l1[s].mapped = "live"
                                THEN [c.l1[s] EXCEPT !.mapped = "dangling"]
                                ELSE c.l1[s]]
<1>1. /\ c \in Cache /\ c.keys \in Seq(Key) /\ k \in Key
      /\ c.map \in [Key -> Entry \cup {Absent}] /\ c.l1 \in [Slot -> L1Entry]
      /\ c.last \in -1 .. L1Size - 1
  BY DEF CacheOK, Cache
<1>2. Erase(c, i) = [keys |-> RemoveAt(c.keys, i), map |-> [c.map EXCEPT ![k] = Absent],
                     l1 |-> l, last |-> c.last]
  <2> DEFINE r == [keys |-> c.keys, map |-> c.map, l1 |-> c.l1, last |-> c.last]
  <2>1. c = r
    BY <1>1 DEF Cache
  <2>2. Erase(r, i) = [r EXCEPT !.keys = RemoveAt(c.keys, i), !.map[k] = Absent, !.l1 = l]
    BY DEF Erase
  <2> QED BY <2>1, <2>2
<1>3. l \in [Slot -> L1Entry]
  BY <1>1 DEF L1Entry
<1>4. RemoveAt(c.keys, i) \in Seq(Key)
  BY <1>1, RemoveAtProperties
<1>5. [c.map EXCEPT ![k] = Absent] \in [Key -> Entry \cup {Absent}]
  BY <1>1
<1>6. \A s \in Slot : l[s].key = c.l1[s].key /\ (c.l1[s].key # k => l[s] = c.l1[s])
  BY <1>1 DEF L1Entry
<1> HIDE DEF k, l
<1>7. Erase(c, i) \in Cache
  BY <1>1, <1>2, <1>3, <1>4, <1>5 DEF Cache
<1> QED BY <1>2, <1>6, <1>7 DEF k

\* del() and a refresh: the key is in no slot when its entry is erased.
LEMMA EraseUnremembered ==
    ASSUME NEW c, CacheOK(c), NEW i \in 1 .. Len(c.keys), ~InL1(c, c.keys[i])
    PROVE  Removed(c, Erase(c, i), i)
<1>1. \A s \in Slot : c.l1[s].key # c.keys[i]
  BY DEF InL1, SlotsOf
<1> DEFINE e == Erase(c, i)
<1>2. /\ e \in Cache
      /\ e.keys = RemoveAt(c.keys, i)
      /\ e.map = [c.map EXCEPT ![c.keys[i]] = Absent]
      /\ e.last = c.last
      /\ \A s \in Slot : /\ e.l1[s].key = c.l1[s].key
                         /\ c.l1[s].key # c.keys[i] => e.l1[s] = c.l1[s]
  BY EraseIs
<1> HIDE DEF e
<1>3. Removed(c, e, i)
  BY <1>1, <1>2 DEF Removed
<1> QED BY <1>3 DEF e

\* evict() and pop(): the slot of the entry erased is invalidated.
LEMMA DropFrontRemoves ==
    ASSUME NEW c, CacheOK(c), c.keys # <<>>
    PROVE  /\ Removed(c, DropFront(c), 1)
           /\ 1 \in 1 .. Len(c.keys)
<1> DEFINE e == Erase(c, 1)
<1>1. 1 \in 1 .. Len(c.keys) /\ c.keys \in Seq(Key) /\ c.l1 \in [Slot -> L1Entry]
  BY DEF CacheOK, Cache
<1>2. /\ e \in Cache
      /\ e.keys = RemoveAt(c.keys, 1)
      /\ e.map = [c.map EXCEPT ![c.keys[1]] = Absent]
      /\ e.last = c.last
      /\ \A s \in Slot : /\ e.l1[s].key = c.l1[s].key
                         /\ c.l1[s].key # c.keys[1] => e.l1[s] = c.l1[s]
  BY <1>1, EraseIs
<1> HIDE DEF e
<1> DEFINE d == Invalidate(e, c.keys[1])
<1>3. /\ d \in Cache /\ d.keys = e.keys /\ d.map = e.map /\ d.last = e.last
      /\ \A s \in Slot : d.l1[s] = IF e.l1[s].key = c.keys[1] THEN FreeSlot ELSE e.l1[s]
  BY <1>2 DEF Invalidate, Cache, FreeSlot, L1Entry
<1>4. d = DropFront(c)
  BY DEF DropFront, Victim, e
<1> HIDE DEF d
<1> QED BY <1>1, <1>2, <1>3, <1>4 DEF Removed

\* Making room for a key that is in neither level.
LEMMA MakeRoomOK ==
    ASSUME NEW c, CacheOK(c), NEW k \in Key, ~Cached(c, k), ~InL1(c, k)
    PROVE  /\ CacheOK(MakeRoom(c))
           /\ ~Cached(MakeRoom(c), k)
           /\ ~InL1(MakeRoom(c), k)
           /\ Len(MakeRoom(c).keys) < Size
<1>1. c.keys \in Seq(Key) /\ Len(c.keys) <= Size /\ Size \in Nat \ {0}
  BY SizesAssumption DEF CacheOK, Cache, DequeMatchesMap
<1>2. CASE ~Full(c)
  BY <1>1, <1>2 DEF MakeRoom, Full
<1>3. CASE Full(c)
  <2>1. c.keys # <<>> /\ MakeRoom(c) = DropFront(c)
    BY <1>1, <1>3 DEF MakeRoom, Full
  <2>2. Removed(c, DropFront(c), 1) /\ 1 \in 1 .. Len(c.keys)
    BY <2>1, DropFrontRemoves
  <2>3. /\ CacheOK(DropFront(c)) /\ Len(DropFront(c).keys) = Len(c.keys) - 1
        /\ \A x \in Key : x # c.keys[1] => DropFront(c).map[x] = c.map[x]
    BY <2>2, RemovedOK
  <2>4. k # c.keys[1]
    BY <2>2 DEF CacheOK, DequeMatchesMap
  <2>5. ~InL1(DropFront(c), k)
    BY <2>2, SentinelsAssumption DEF Removed, InL1, SlotsOf, FreeSlot
  <2> QED BY <1>1, <2>1, <2>3, <2>4, <2>5 DEF Cached
<1> QED BY <1>2, <1>3

\* Moving an entry to the back and remembering it, possibly with new contents.
LEMMA RefreshOK ==
    ASSUME NEW c, CacheOK(c), NEW k \in Key, Cached(c, k), ~InL1(c, k), NEW v \in Entry
    PROVE  LET d == Erase(c, Position(c, k)) IN
           /\ CacheOK(Insert(d, k, v)) /\ Cached(Insert(d, k, v), k)
           /\ CacheOK(Insert(Invalidate(d, k), k, v)) /\ Cached(Insert(Invalidate(d, k), k, v), k)
<1> DEFINE i == Position(c, k)
           d == Erase(c, i)
<1>1. i \in 1 .. Len(c.keys) /\ c.keys[i] = k
  BY PositionOK
<1> HIDE DEF i
<1>2. Removed(c, d, i)
  BY <1>1, EraseUnremembered
<1> HIDE DEF d
<1>3. CacheOK(d) /\ ~Cached(d, k) /\ ~InL1(d, k) /\ Len(d.keys) = Len(c.keys) - 1
  BY <1>1, <1>2, RemovedOK
<1>4. Len(d.keys) < Size
  BY <1>1, <1>3, SizesAssumption DEF CacheOK, DequeMatchesMap, Cache
<1>5. CacheOK(Insert(d, k, v)) /\ Cached(Insert(d, k, v), k)
  BY <1>3, <1>4, InsertOK
<1>6. /\ CacheOK(Invalidate(d, k)) /\ ~InL1(Invalidate(d, k), k)
      /\ Invalidate(d, k).keys = d.keys /\ ~Cached(Invalidate(d, k), k)
  BY <1>3, InvalidateOK DEF Cached
<1>7. CacheOK(Insert(Invalidate(d, k), k, v)) /\ Cached(Insert(Invalidate(d, k), k, v), k)
  BY <1>4, <1>6, InsertOK
<1> QED BY <1>5, <1>7 DEF d, i

-----------------------------------------------------------------------------
\* The store after an eviction is a store.
LEMMA StoreOK ==
    ASSUME CacheOK(cache), backing \in [Key -> {Absent, Unread} \cup Value]
    PROVE  /\ AfterRoom(cache, backing) \in [Key -> {Absent, Unread} \cup Value]
           /\ WriteFrontBack(cache, backing) \in [Key -> {Absent, Unread} \cup Value]
<1>1. \A k, v : WriteBack(backing, k, v) \in [Key -> {Absent, Unread} \cup Value]
  BY DEF WriteBack
<1> QED BY <1>1 DEF AfterRoom, WriteFrontBack

\* A hit in L1 reads and overwrites an entry of the map.
LEMMA L1Hit ==
    ASSUME CacheOK(cache), NEW k \in Key, NEW s \in SlotsOf(cache, k)
    PROVE  /\ Cached(cache, k) /\ cache.l1[s].key = k
           /\ cache.l1[s].mapped = "live"
           /\ Pointee(cache, s) = {cache.map[k]}
           /\ cache.map[k] \in Entry
<1>1. s \in Slot /\ cache.l1[s].key = k
  BY DEF SlotsOf
<1>2. cache.l1[s] # FreeSlot
  BY <1>1, SentinelsAssumption DEF FreeSlot
<1>3. cache.l1[s].mapped = "live" /\ Cached(cache, k)
  BY <1>1, <1>2 DEF CacheOK, L1Sound
<1> QED BY <1>1, <1>3 DEF Pointee, CacheOK, Cache, Cached

\* What the map holds for a cached key is an entry of the cache's type.
LEMMA MappedIsEntry ==
    ASSUME CacheOK(cache), NEW k \in Key, Cached(cache, k)
    PROVE  cache.map[k] \in Entry
BY DEF CacheOK, Cache, Cached

\* A cache just constructed, empty over any store, satisfies the invariant.
LEMMA InitIInv == Init => IInv
<1> SUFFICES ASSUME Init PROVE IInv
  OBVIOUS
<1>1. cache \in Cache /\ cache.keys = <<>>
  BY SizesAssumption DEF Init, Cache, FreeSlot, L1Entry
<1>2. DequeMatchesMap(cache)
  BY <1>1, SizesAssumption DEF Init, DequeMatchesMap, Cached
<1>3. L1Sound(cache)
  BY DEF Init, L1Sound, FreeSlot
<1>4. SlotsAreRecent(cache)
  BY <1>1 DEF SlotsAreRecent
<1>5. result \in Result /\ RefOK
  BY DEF Init, NoAnswer, Answer, Result, Ops, RefOK
<1> QED BY <1>1, <1>2, <1>3, <1>4, <1>5 DEF Init, IInv, CacheOK

\* The cache that clear() and evict_all() leave is coherent.
LEMMA EmptiedOK == CacheOK(Emptied)
<1>1. Emptied \in Cache /\ Emptied.keys = <<>>
  BY SizesAssumption DEF Emptied, Cache, FreeSlot, L1Entry
<1>2. DequeMatchesMap(Emptied)
  BY <1>1, SizesAssumption DEF Emptied, DequeMatchesMap, Cached
<1>3. L1Sound(Emptied)
  BY DEF Emptied, L1Sound, FreeSlot
<1>4. SlotsAreRecent(Emptied)
  BY <1>1 DEF SlotsAreRecent
<1> QED BY <1>1, <1>2, <1>3, <1>4 DEF CacheOK

\* The operations that use an entry preserve the invariant.
LEMMA AccessIInv ==
    ASSUME IInv, NEW k \in Key, Access(k)
    PROVE  IInv'
<1> USE DEF IInv
<1>1. CacheOK(cache) /\ backing \in [Key -> {Absent, Unread} \cup Value]
  OBVIOUS
<1>2. CASE GetFromL1(k)
  <2>1. PICK s \in SlotsOf(cache, k), v \in Entry :
           v \in Pointee(cache, s) /\ result' = Answer("get", k, TRUE, v)
    BY <1>2 DEF GetFromL1
  <2> QED BY <1>1, <1>2, <2>1 DEF GetFromL1, Answer, Result, Ops, RefOK
<1>3. CASE GetFromMap(k)
  <2>1. Cached(cache, k) /\ ~InL1(cache, k) /\ cache.map[k] \in Entry
    BY <1>1, <1>3, MappedIsEntry DEF GetFromMap
  <2>2. CacheOK(cache')
    BY <1>1, <1>3, <2>1, RefreshOK DEF GetFromMap
  <2> QED BY <1>1, <1>3, <2>1, <2>2 DEF GetFromMap, Answer, Result, Ops, RefOK
<1>4. CASE GetFromStore(k)
  <2>1. /\ CacheOK(MakeRoom(cache)) /\ ~Cached(MakeRoom(cache), k)
        /\ ~InL1(MakeRoom(cache), k) /\ Len(MakeRoom(cache).keys) < Size
    BY <1>1, <1>4, MakeRoomOK DEF GetFromStore
  <2>2. backing' \in [Key -> {Absent, Unread} \cup Value]
    BY <1>1, <1>4, StoreOK DEF GetFromStore
  <2>3. CASE backing'[k] \in Value
    <3>1. CacheOK(Insert(MakeRoom(cache), k, backing'[k]))
      BY <2>1, <2>3, InsertOK DEF Entry
    <3>2. cache' = Insert(MakeRoom(cache), k, backing'[k]) /\ result' = Answer("get", k, TRUE, Absent)
      BY <1>4, <2>3 DEF GetFromStore
    <3> QED BY <2>2, <3>1, <3>2 DEF Answer, Result, Ops, RefOK
  <2>4. CASE backing'[k] \notin Value
    <3>1. cache' = MakeRoom(cache) /\ result' = Answer("get", k, FALSE, Absent)
      BY <1>4, <2>4 DEF GetFromStore
    <3> QED BY <2>1, <2>2, <3>1 DEF Answer, Result, Ops, RefOK
  <2> QED BY <2>3, <2>4
<1>5. CASE SubFromL1(k)
  <2>1. PICK s \in SlotsOf(cache, k), v \in Entry :
           v \in Pointee(cache, s) /\ result' = Answer("sub", k, TRUE, v)
    BY <1>5 DEF SubFromL1
  <2>2. Cached(cache, k)
    BY <1>1, <2>1, L1Hit
  <2> QED BY <1>1, <1>5, <2>1, <2>2 DEF SubFromL1, Answer, Result, Ops, RefOK
<1>6. CASE SubFromMap(k)
  <2>1. Cached(cache, k) /\ ~InL1(cache, k) /\ cache.map[k] \in Entry
    BY <1>1, <1>6, MappedIsEntry DEF SubFromMap
  <2>2. CacheOK(cache') /\ Cached(cache', k)
    BY <1>1, <1>6, <2>1, RefreshOK DEF SubFromMap
  <2> QED BY <1>1, <1>6, <2>1, <2>2 DEF SubFromMap, Answer, Result, Ops, RefOK
<1>7. CASE SubFromStore(k)
  <2>1. /\ CacheOK(MakeRoom(cache)) /\ ~Cached(MakeRoom(cache), k)
        /\ ~InL1(MakeRoom(cache), k) /\ Len(MakeRoom(cache).keys) < Size
    BY <1>1, <1>7, MakeRoomOK DEF SubFromStore
  <2>2. backing' \in [Key -> {Absent, Unread} \cup Value]
    BY <1>1, <1>7, StoreOK DEF SubFromStore
  <2>3. Fetched(backing', k) \in Entry
    BY SentinelsAssumption DEF Fetched, Entry
  <2>4. CacheOK(cache') /\ Cached(cache', k)
    BY <1>7, <2>1, <2>3, InsertOK DEF SubFromStore
  <2> QED BY <1>7, <2>2, <2>3, <2>4 DEF SubFromStore, Answer, Result, Ops, RefOK
<1>8. ASSUME NEW v \in Value, SetInL1(k, v) PROVE IInv'
  <2>1. PICK s \in SlotsOf(cache, k) : cache' = Store(cache, s, v)
    BY <1>8 DEF SetInL1
  <2>2. Cached(cache, k) /\ cache' = [cache EXCEPT !.map[k] = v]
    BY <1>1, <2>1, L1Hit DEF Store
  <2>3. CacheOK(cache')
    BY <1>1, <2>2, OverwriteOK DEF Entry
  <2> QED BY <1>1, <1>8, <2>3 DEF SetInL1, Answer, Result, Ops, RefOK
<1>9. ASSUME NEW v \in Value, SetInMap(k, v) PROVE IInv'
  <2>1. CacheOK(cache')
    BY <1>1, <1>9, RefreshOK DEF SetInMap, Entry
  <2> QED BY <1>1, <1>9, <2>1 DEF SetInMap, Answer, Result, Ops, RefOK
<1>10. ASSUME NEW v \in Value, SetNew(k, v) PROVE IInv'
  <2>1. /\ CacheOK(MakeRoom(cache)) /\ ~Cached(MakeRoom(cache), k)
        /\ ~InL1(MakeRoom(cache), k) /\ Len(MakeRoom(cache).keys) < Size
    BY <1>1, <1>10, MakeRoomOK DEF SetNew
  <2>2. backing' \in [Key -> {Absent, Unread} \cup Value]
    BY <1>1, <1>10, StoreOK DEF SetNew
  <2>3. CacheOK(cache')
    BY <1>10, <2>1, InsertOK DEF SetNew, Entry
  <2> QED BY <1>10, <2>2, <2>3 DEF SetNew, Answer, Result, Ops, RefOK
<1> QED BY <1>2, <1>3, <1>4, <1>5, <1>6, <1>7, <1>8, <1>9, <1>10
        DEF Access, Get, Sub, Set

\* So do the operations that only remove entries, and the store's own steps.
LEMMA OtherIInv ==
    ASSUME IInv, Other
    PROVE  IInv'
<1> USE DEF IInv
<1>1. CacheOK(cache) /\ backing \in [Key -> {Absent, Unread} \cup Value]
  OBVIOUS
<1>2. ASSUME NEW v \in Value, Assign(v) PROVE IInv'
  <2>1. result.key \in Key /\ Cached(cache, result.key)
    BY <1>2 DEF Assign, RefOK
  <2>2. CacheOK(cache')
    BY <1>1, <1>2, <2>1, OverwriteOK DEF Assign, Entry
  <2> QED BY <1>1, <1>2, <2>2 DEF Assign, NoAnswer, Answer, Result, Ops, RefOK
<1>3. ASSUME NEW k \in Key, Del(k) PROVE IInv'
  <2> DEFINE c == Invalidate(cache, k)
  <2>1. CacheOK(c) /\ ~InL1(c, k)
    BY <1>1, InvalidateOK
  <2> HIDE DEF c
  <2>2. CacheOK(cache')
    <3>1. CASE Cached(c, k)
      <4>1. Position(c, k) \in 1 .. Len(c.keys) /\ c.keys[Position(c, k)] = k
        BY <2>1, <3>1, PositionOK
      <4>2. Removed(c, Erase(c, Position(c, k)), Position(c, k))
        BY <2>1, <4>1, EraseUnremembered
      <4>3. CacheOK(Erase(c, Position(c, k)))
        BY <2>1, <4>1, <4>2, RemovedOK
      <4> QED BY <1>3, <3>1, <4>3 DEF Del, c
    <3>2. CASE ~Cached(c, k)
      BY <1>3, <2>1, <3>2 DEF Del, c
    <3> QED BY <3>1, <3>2
  <2>3. result' = Answer("del", k, Cached(cache, k), Absent) /\ Cached(cache, k) \in BOOLEAN
    BY <1>3 DEF Del, Cached
  <2>4. backing' = backing
    BY <1>3 DEF Del
  <2> QED BY <1>1, <2>2, <2>3, <2>4 DEF Answer, Result, Ops, RefOK
<1>4. ASSUME NEW k \in Key, Extend(k) PROVE IInv'
  <2>1. backing' \in [Key -> {Absent, Unread} \cup Value]
    BY <1>1, <1>4, SentinelsAssumption DEF Extend
  <2> QED BY <1>1, <1>4, <2>1 DEF Extend, RefOK
<1>5. ASSUME cache.keys # <<>>
      PROVE  /\ CacheOK(DropFront(cache))
             /\ WriteFrontBack(cache, backing) \in [Key -> {Absent, Unread} \cup Value]
             /\ Victim(cache) \in Key
             /\ cache.map[Victim(cache)] \in Entry
  <2>1. Removed(cache, DropFront(cache), 1) /\ 1 \in 1 .. Len(cache.keys)
    BY <1>1, <1>5, DropFrontRemoves
  <2>2. Victim(cache) \in Key /\ Cached(cache, Victim(cache))
    BY <2>1 DEF Victim, CacheOK, Cache, DequeMatchesMap
  <2> QED BY <1>1, <2>1, <2>2, RemovedOK, StoreOK, MappedIsEntry
<1>6. ASSUME NEW force \in BOOLEAN, Evict(force) PROVE IInv'
  <2>1. CacheOK(cache') /\ backing' \in [Key -> {Absent, Unread} \cup Value]
    BY <1>1, <1>5, <1>6 DEF Evict
  <2> QED BY <1>6, <2>1 DEF Evict, NoAnswer, Answer, Result, Ops, RefOK
<1>7. CASE Pop
  <2>1. CASE cache.keys # <<>>
    <3>1. /\ cache' = DropFront(cache) /\ backing' = WriteFrontBack(cache, backing)
          /\ result' = Answer("pop", Victim(cache), TRUE, cache.map[Victim(cache)])
      BY <1>7, <2>1 DEF Pop
    <3> QED BY <1>5, <2>1, <3>1 DEF Answer, Result, Ops, RefOK
  <2>2. CASE cache.keys = <<>>
    <3>1. result' = Answer("pop", NoKey, FALSE, Absent) /\ UNCHANGED <<cache, backing>>
      BY <1>7, <2>2 DEF Pop
    <3> QED BY <1>1, <3>1 DEF Answer, Result, Ops, RefOK
  <2> QED BY <2>1, <2>2
<1>8. CASE EvictAll
  BY <1>1, <1>8, EmptiedOK DEF EvictAll, NoAnswer, Answer, Result, Ops, RefOK
<1>9. CASE Clear
  BY <1>1, <1>9, EmptiedOK DEF Clear, NoAnswer, Answer, Result, Ops, RefOK
<1> QED BY <1>2, <1>3, <1>4, <1>6, <1>7, <1>8, <1>9 DEF Other

\* Every operation of the cache, and every step of its store, keeps the invariant.
LEMMA StepIInv == IInv /\ [Next]_vars => IInv'
<1> SUFFICES ASSUME IInv, [Next]_vars PROVE IInv'
  OBVIOUS
<1>1. CASE UNCHANGED vars
  BY <1>1 DEF IInv, RefOK, vars
<1> QED BY <1>1, AccessIInv, OtherIInv DEF Next

\* The inductive invariant holds of every reachable cache: the deque matches
\* the map, and L1 points to entries that are recent.
THEOREM Invariance == Spec => []IInv
BY InitIInv, StepIInv, PTL DEF Spec

\* The variables keep their types; in particular L1's next slot is a slot.
THEOREM TypeCorrect == Spec => []TypeOK
<1>1. IInv => TypeOK
  BY DEF IInv, TypeOK, CacheOK
<1> QED BY <1>1, Invariance, PTL

\* The deque, the map and L1 agree after every operation: no operation of the
\* cache ever dereferences a null or dangling L1 pointer.
THEOREM Coherence == Spec => []LevelsCoherent
<1>1. IInv => LevelsCoherent
  BY DEF IInv, LevelsCoherent, CacheOK
<1> QED BY <1>1, Invariance, PTL

\* A capacity eviction never takes an entry L1 holds, if the cache is larger
\* than L1: the front of a full deque is Size - 1 places from the back, further
\* than any slot is old.
THEOREM EvictionSparesL1 == Spec => []VictimNotInL1
<1>1. IInv => VictimNotInL1
  <2> SUFFICES ASSUME IInv, Size > L1Size, Full(cache), InL1(cache, Victim(cache))
               PROVE  FALSE
    BY DEF VictimNotInL1
  <2>1. PICK s \in Slot : cache.l1[s].key = cache.keys[1]
    BY DEF InL1, SlotsOf, Victim
  <2>2. Len(cache.keys) = Size /\ 1 \in 1 .. Len(cache.keys) /\ cache.last \in -1 .. L1Size - 1
    BY SizesAssumption DEF IInv, CacheOK, DequeMatchesMap, Full, Cache
  <2>3. Len(cache.keys) - 1 <= SlotAge(cache, s)
    BY <2>1, <2>2 DEF IInv, CacheOK, SlotsAreRecent
  <2>4. SlotAge(cache, s) <= L1Size - 1
    BY <2>2, SizesAssumption DEF SlotAge, Slot
  <2> QED BY <2>2, <2>3, <2>4, SizesAssumption DEF SlotAge, Slot
<1> QED BY <1>1, Invariance, PTL

-----------------------------------------------------------------------------
\* Every key of d other than k was in c, and is at most n places further from
\* the back than it was.
Drift(c, d, k, n) ==
    \A i \in 1 .. Len(d.keys) : d.keys[i] # k =>
        \E m \in 1 .. Len(c.keys) : /\ c.keys[m] = d.keys[i]
                                    /\ Len(d.keys) - i <= Len(c.keys) - m + n

\* Taking an entry out brings no other entry nearer to the front.
LEMMA RemovedDrift ==
    ASSUME NEW c, CacheOK(c), NEW i \in 1 .. Len(c.keys), NEW d, Removed(c, d, i), NEW k
    PROVE  Drift(c, d, k, 0)
<1>1. c.keys \in Seq(Key) /\ d.keys = RemoveAt(c.keys, i)
  BY DEF CacheOK, Cache, Removed
<1>2. /\ Len(d.keys) = Len(c.keys) - 1
      /\ \A j \in 1 .. Len(c.keys) - 1 :
            d.keys[j] = IF j < i THEN c.keys[j] ELSE c.keys[j + 1]
  BY <1>1, RemoveAtProperties
<1> SUFFICES ASSUME NEW j \in 1 .. Len(d.keys)
             PROVE  \E m \in 1 .. Len(c.keys) : /\ c.keys[m] = d.keys[j]
                                                /\ Len(d.keys) - j <= Len(c.keys) - m + 0
  BY DEF Drift
<1>3. CASE j < i
  <2>1. j \in 1 .. Len(c.keys) /\ c.keys[j] = d.keys[j]
    BY <1>1, <1>2, <1>3
  <2> QED BY <1>1, <1>2, <2>1
<1>4. CASE ~(j < i)
  <2>1. j + 1 \in 1 .. Len(c.keys) /\ c.keys[j + 1] = d.keys[j]
    BY <1>1, <1>2, <1>4
  <2> QED BY <1>1, <1>2, <2>1
<1> QED BY <1>3, <1>4

\* A step that leaves the deque alone lets no entry drift.
LEMMA SelfDrift ==
    ASSUME NEW c, CacheOK(c), NEW d, d.keys = c.keys, NEW k
    PROVE  Drift(c, d, k, 0)
<1>1. c.keys \in Seq(Key)
  BY DEF CacheOK, Cache
<1> QED BY <1>1 DEF Drift

\* Inserting puts the key at the back and moves the others one place on.
LEMMA InsertDrift ==
    ASSUME NEW c, CacheOK(c), NEW b, CacheOK(b), NEW k \in Key, NEW v,
           Drift(b, c, k, 0), ~Cached(c, k)
    PROVE  /\ Drift(b, Insert(c, k, v), k, 1)
           /\ \A i \in 1 .. Len(Insert(c, k, v).keys) :
                 Insert(c, k, v).keys[i] = k => i = Len(Insert(c, k, v).keys)
<1> DEFINE d == Insert(c, k, v)
<1>1. c.keys \in Seq(Key) /\ b.keys \in Seq(Key) /\ c \in Cache
  BY DEF CacheOK, Cache
<1>2. d.keys = Append(c.keys, k)
  <2>1. Put(c, k, v).keys = Append(c.keys, k)
    BY <1>1 DEF Put, Cache
  <2>2. DOMAIN Put(c, k, v) = DOMAIN c
    BY DEF Put
  <2>3. d.keys = Put(c, k, v).keys
    BY <1>1, <2>2 DEF Insert, Remember, Cache
  <2> QED BY <2>1, <2>3
<1> HIDE DEF d
<1>3. /\ Len(d.keys) = Len(c.keys) + 1
      /\ d.keys[Len(c.keys) + 1] = k
      /\ \A j \in 1 .. Len(c.keys) : d.keys[j] = c.keys[j]
  BY <1>1, <1>2
<1>4. \A j \in 1 .. Len(c.keys) : c.keys[j] # k
  BY DEF CacheOK, DequeMatchesMap, Cached
<1>5. \A i \in 1 .. Len(d.keys) : d.keys[i] = k => i = Len(d.keys)
  BY <1>1, <1>3, <1>4
<1>6. ASSUME NEW i \in 1 .. Len(d.keys), d.keys[i] # k
      PROVE  \E m \in 1 .. Len(b.keys) : /\ b.keys[m] = d.keys[i]
                                         /\ Len(d.keys) - i <= Len(b.keys) - m + 1
  <2>1. i \in 1 .. Len(c.keys) /\ c.keys[i] = d.keys[i]
    BY <1>1, <1>3, <1>6
  <2>2. PICK m \in 1 .. Len(b.keys) : /\ b.keys[m] = c.keys[i]
                                      /\ Len(c.keys) - i <= Len(b.keys) - m + 0
    BY <1>6, <2>1 DEF Drift
  <2> QED BY <1>1, <1>3, <2>1, <2>2
<1>7. Drift(b, d, k, 1)
  BY <1>6 DEF Drift
<1> QED BY <1>5, <1>7 DEF d

\* A key in L1 is at most L1Size - 1 places from the back.
LEMMA InL1IsNearBack ==
    ASSUME NEW c, CacheOK(c), NEW k, InL1(c, k), NEW i \in 1 .. Len(c.keys), c.keys[i] = k
    PROVE  Len(c.keys) - i <= L1Size - 1
<1>1. PICK s \in Slot : c.l1[s].key = k
  BY DEF InL1, SlotsOf
<1>2. Len(c.keys) - i <= SlotAge(c, s)
  BY <1>1 DEF CacheOK, SlotsAreRecent
<1>3. SlotAge(c, s) <= L1Size - 1 /\ SlotAge(c, s) \in Int
  BY SizesAssumption DEF SlotAge, Slot, CacheOK, Cache
<1>4. c.keys \in Seq(Key)
  BY DEF CacheOK, Cache
<1> QED BY <1>2, <1>3, <1>4, SizesAssumption

\* The cache an operation finds room in.
LEMMA MakeRoomDrift ==
    ASSUME NEW c, CacheOK(c), NEW k \in Key
    PROVE  Drift(c, MakeRoom(c), k, 0)
<1>1. CASE ~Full(c)
  BY <1>1, SelfDrift DEF MakeRoom
<1>2. CASE Full(c)
  <2>1. c.keys # <<>> /\ MakeRoom(c) = DropFront(c)
    BY <1>2, SizesAssumption DEF MakeRoom, Full, CacheOK, Cache
  <2>2. Removed(c, DropFront(c), 1) /\ 1 \in 1 .. Len(c.keys)
    BY <2>1, DropFrontRemoves
  <2> QED BY <2>1, <2>2, RemovedDrift
<1> QED BY <1>1, <1>2

\* How an access to k moves the entries: k ends near the back, the others move
\* on by one place when k is inserted, and not at all otherwise.
Moves(k) ==
    /\ Drift(cache, cache', k, IF Inserts(k) THEN 1 ELSE 0)
    /\ \A i \in 1 .. Len(cache'.keys) :
          cache'.keys[i] = k => Len(cache'.keys) - i <= L1Size - 1

\* A hit in the map takes its key to the back (get, set, operator[]).
LEMMA RefreshMoves ==
    ASSUME CacheOK(cache), NEW k \in Key, Cached(cache, k), ~InL1(cache, k),
           NEW v \in Entry,
           LET d == Erase(cache, Position(cache, k)) IN
           cache' = Insert(d, k, v) \/ cache' = Insert(Invalidate(d, k), k, v)
    PROVE  Moves(k)
<1> DEFINE i == Position(cache, k)
           d == Erase(cache, i)
           e == Invalidate(d, k)
<1>1. i \in 1 .. Len(cache.keys) /\ cache.keys[i] = k
  BY PositionOK
<1>2. cache' = Insert(d, k, v) \/ cache' = Insert(e, k, v)
  OBVIOUS
<1>3. CacheOK(cache') /\ Cached(cache', k)
  BY RefreshOK
<1> HIDE DEF i
<1>4. Removed(cache, d, i)
  BY <1>1, EraseUnremembered
<1> HIDE DEF d
<1>5. CacheOK(d) /\ ~Cached(d, k)
  BY <1>1, <1>4, RemovedOK
<1>6. CacheOK(e) /\ e.keys = d.keys /\ ~Cached(e, k)
  BY <1>5, InvalidateOK DEF Cached
<1>7. Drift(cache, d, k, 0)
  BY <1>1, <1>4, RemovedDrift
<1>8. Drift(cache, e, k, 0)
  BY <1>6, <1>7 DEF Drift
<1> HIDE DEF e
<1>9. Drift(cache, cache', k, 1)
      /\ \A j \in 1 .. Len(cache'.keys) : cache'.keys[j] = k => j = Len(cache'.keys)
  BY <1>2, <1>5, <1>6, <1>7, <1>8, InsertDrift
<1>10. cache'.keys \in Seq(Key)
  BY <1>3 DEF CacheOK, Cache
<1> QED BY <1>3, <1>9, <1>10, SizesAssumption DEF Moves, Inserts

\* A miss admits its key at the back, after making room for it.
LEMMA AdmitMoves ==
    ASSUME CacheOK(cache), NEW k \in Key, ~Cached(cache, k), ~InL1(cache, k),
           NEW v \in Entry, cache' = Insert(MakeRoom(cache), k, v)
    PROVE  Moves(k)
<1> DEFINE d == MakeRoom(cache)
<1>1. CacheOK(d) /\ ~Cached(d, k) /\ ~InL1(d, k) /\ Len(d.keys) < Size
  BY MakeRoomOK
<1>2. Drift(cache, d, k, 0)
  BY MakeRoomDrift
<1>3. cache' = Insert(d, k, v)
  OBVIOUS
<1> HIDE DEF d
<1>4. CacheOK(cache') /\ Cached(cache', k)
  BY <1>1, <1>3, InsertOK
<1>5. Drift(cache, cache', k, 1)
      /\ \A j \in 1 .. Len(cache'.keys) : cache'.keys[j] = k => j = Len(cache'.keys)
  BY <1>1, <1>2, <1>3, InsertDrift
<1>6. cache'.keys \in Seq(Key)
  BY <1>4 DEF CacheOK, Cache
<1> QED BY <1>4, <1>5, <1>6, SizesAssumption DEF Moves, Inserts

\* A hit in L1, or a fetch that failed, inserts nothing.
LEMMA StayMoves ==
    ASSUME CacheOK(cache), NEW k \in Key,
           \/ InL1(cache, k) /\ cache'.keys = cache.keys
           \/ ~Cached(cache, k) /\ ~InL1(cache, k) /\ cache' = MakeRoom(cache)
    PROVE  Moves(k)
<1>1. CASE InL1(cache, k) /\ cache'.keys = cache.keys
  <2>1. ~Inserts(k)
    BY <1>1 DEF Inserts
  <2>2. Drift(cache, cache', k, 0)
    BY <1>1, SelfDrift
  <2> QED BY <1>1, <2>1, <2>2, InL1IsNearBack DEF Moves
<1>2. CASE ~Cached(cache, k) /\ ~InL1(cache, k) /\ cache' = MakeRoom(cache)
  <2>1. CacheOK(cache') /\ ~Cached(cache', k)
    BY <1>2, MakeRoomOK
  <2>2. Drift(cache, cache', k, 0)
    BY <1>2, MakeRoomDrift
  <2>3. \A i \in 1 .. Len(cache'.keys) : cache'.keys[i] # k
    BY <2>1 DEF CacheOK, DequeMatchesMap
  <2> QED BY <2>1, <2>2, <2>3 DEF Moves, Inserts
<1> QED BY <1>1, <1>2

\* Every access moves the deque in one of three ways: as a hit in L1, which
\* leaves it, as a refresh, or as an admission.
LEMMA AccessMoves ==
    ASSUME IInv, NEW k \in Key, Access(k)
    PROVE  Moves(k)
<1>1. CacheOK(cache)
  BY DEF IInv
<1>2. CASE GetFromL1(k) \/ SubFromL1(k)
  <2>1. InL1(cache, k) /\ cache' = cache
    BY <1>2 DEF GetFromL1, SubFromL1, InL1
  <2> QED BY <1>1, <2>1, StayMoves
<1>3. CASE GetFromMap(k) \/ SubFromMap(k)
  <2>1. Cached(cache, k) /\ ~InL1(cache, k) /\ cache.map[k] \in Entry
    BY <1>1, <1>3, MappedIsEntry DEF GetFromMap, SubFromMap
  <2>2. cache' = Insert(Erase(cache, Position(cache, k)), k, cache.map[k])
    BY <1>3 DEF GetFromMap, SubFromMap
  <2> QED BY <1>1, <2>1, <2>2, RefreshMoves
<1>4. CASE GetFromStore(k)
  <2>1. CASE backing'[k] \in Value
    <3>1. cache' = Insert(MakeRoom(cache), k, backing'[k])
      BY <1>4, <2>1 DEF GetFromStore
    <3> QED BY <1>1, <1>4, <2>1, <3>1, AdmitMoves DEF GetFromStore, Entry
  <2>2. CASE backing'[k] \notin Value
    <3>1. cache' = MakeRoom(cache)
      BY <1>4, <2>2 DEF GetFromStore
    <3> QED BY <1>1, <1>4, <3>1, StayMoves DEF GetFromStore
  <2> QED BY <2>1, <2>2
<1>5. CASE SubFromStore(k)
  <2>1. Fetched(backing', k) \in Entry
    BY SentinelsAssumption DEF Fetched, Entry
  <2> QED BY <1>1, <1>5, <2>1, AdmitMoves DEF SubFromStore
<1>6. ASSUME NEW v \in Value, SetInL1(k, v) PROVE Moves(k)
  <2>1. PICK s \in SlotsOf(cache, k) : cache' = Store(cache, s, v)
    BY <1>6 DEF SetInL1
  <2>2. cache' = [cache EXCEPT !.map[k] = v]
    BY <1>1, <2>1, L1Hit DEF Store
  <2>3. cache'.keys = cache.keys
    BY <1>1, <2>2 DEF CacheOK, Cache
  <2> QED BY <1>1, <2>1, <2>3, StayMoves DEF InL1
<1>7. ASSUME NEW v \in Value, SetInMap(k, v) PROVE Moves(k)
  <2>1. cache' = Insert(Invalidate(Erase(cache, Position(cache, k)), k), k, v)
    BY <1>7 DEF SetInMap
  <2> QED BY <1>1, <1>7, <2>1, RefreshMoves DEF SetInMap, Entry
<1>8. ASSUME NEW v \in Value, SetNew(k, v) PROVE Moves(k)
  BY <1>1, <1>8, AdmitMoves DEF SetNew, Entry
<1> QED BY <1>2, <1>3, <1>4, <1>5, <1>6, <1>7, <1>8 DEF Access, Get, Sub, Set

\* The other operations bring no entry nearer to the front, in absolute terms.
LEMMA OtherDrift ==
    ASSUME IInv, Other
    PROVE  Drift(cache, cache', NoKey, 0)
<1>1. CacheOK(cache)
  BY DEF IInv
<1>2. ASSUME NEW v \in Value, Assign(v) PROVE Drift(cache, cache', NoKey, 0)
  <2>1. cache'.keys = cache.keys
    BY <1>1, <1>2 DEF Assign, CacheOK, Cache
  <2> QED BY <1>1, <2>1, SelfDrift
<1>3. ASSUME NEW k \in Key, Del(k) PROVE Drift(cache, cache', NoKey, 0)
  <2> DEFINE c == Invalidate(cache, k)
  <2>1. CacheOK(c) /\ ~InL1(c, k) /\ c.keys = cache.keys
    BY <1>1, InvalidateOK
  <2> HIDE DEF c
  <2>2. CASE Cached(c, k)
    <3>1. Position(c, k) \in 1 .. Len(c.keys) /\ c.keys[Position(c, k)] = k
      BY <2>1, <2>2, PositionOK
    <3>2. Removed(c, Erase(c, Position(c, k)), Position(c, k))
      BY <2>1, <3>1, EraseUnremembered
    <3>3. cache' = Erase(c, Position(c, k))
      BY <1>3, <2>2 DEF Del, c
    <3>4. Drift(c, cache', NoKey, 0)
      BY <2>1, <3>1, <3>2, <3>3, RemovedDrift
    <3> QED BY <2>1, <3>4 DEF Drift
  <2>3. CASE ~Cached(c, k)
    <3>1. cache' = c
      BY <1>3, <2>3 DEF Del, c
    <3> QED BY <1>1, <2>1, <3>1, SelfDrift
  <2> QED BY <2>2, <2>3
<1>4. ASSUME NEW k \in Key, Extend(k) PROVE Drift(cache, cache', NoKey, 0)
  BY <1>1, <1>4, SelfDrift DEF Extend
<1>5. CASE cache' = DropFront(cache) /\ cache.keys # <<>>
  <2>1. Removed(cache, DropFront(cache), 1) /\ 1 \in 1 .. Len(cache.keys)
    BY <1>1, <1>5, DropFrontRemoves
  <2> QED BY <1>1, <1>5, <2>1, RemovedDrift
<1>6. CASE cache' = cache
  BY <1>1, <1>6, SelfDrift
<1>7. ASSUME NEW force \in BOOLEAN, Evict(force) PROVE Drift(cache, cache', NoKey, 0)
  BY <1>5, <1>6, <1>7 DEF Evict
<1>8. CASE Pop
  BY <1>5, <1>6, <1>8 DEF Pop
<1>9. CASE EvictAll \/ Clear
  BY <1>9 DEF EvictAll, Clear, Emptied, Drift
<1> QED BY <1>2, <1>3, <1>4, <1>7, <1>8, <1>9 DEF Other

AgeInv == age \in [Key -> 0 .. Size] /\ DriftBound

\* A distance and an age that both grow by one keep the bound between them.
LEMMA OneOlder ==
    ASSUME NEW x \in Int, NEW y \in Int, NEW g \in Int, NEW h \in Int, NEW s \in Int,
           x <= y + 1, y <= g + s - 1, h = g + 1
    PROVE  x <= h + s - 1
OBVIOUS

\* Every step keeps the bound on the drift of entries towards the front.
LEMMA DriftStep ==
    ASSUME IInv, IInv', AgeInv, RNext
    PROVE  AgeInv'
<1> USE SizesAssumption
<1>1. CacheOK(cache) /\ CacheOK(cache') /\ age \in [Key -> 0 .. Size]
  BY DEF IInv, AgeInv
<1>2. cache.keys \in Seq(Key) /\ cache'.keys \in Seq(Key) /\ Len(cache'.keys) <= Size
  BY <1>1 DEF CacheOK, Cache, DequeMatchesMap
<1>3. \A j \in Key, m \in 1 .. Len(cache.keys) :
         cache.keys[m] = j => Len(cache.keys) - m <= age[j] + L1Size - 1
  BY DEF AgeInv, DriftBound
<1>4. ASSUME NEW k \in Key, Access(k), Used(k) PROVE AgeInv'
  <2>1. Moves(k)
    BY <1>4, AccessMoves
  <2>2. age' \in [Key -> 0 .. Size]
    BY <1>1, <1>4 DEF Used, Older
  <2>3. ASSUME NEW j \in Key, NEW i \in 1 .. Len(cache'.keys), cache'.keys[i] = j
        PROVE  Len(cache'.keys) - i <= age'[j] + L1Size - 1
    <3>1. CASE j = k
      <4>1. age'[j] = 0
        BY <1>4, <3>1 DEF Used
      <4> QED BY <2>1, <2>3, <3>1, <4>1 DEF Moves
    <3>2. CASE j # k
      <4> DEFINE n == IF Inserts(k) THEN 1 ELSE 0
      <4>1. PICK m \in 1 .. Len(cache.keys) :
               /\ cache.keys[m] = j
               /\ Len(cache'.keys) - i <= Len(cache.keys) - m + n
        BY <2>1, <2>3, <3>2 DEF Moves, Drift
      <4>2. Len(cache.keys) - m <= age[j] + L1Size - 1
        BY <1>3, <4>1
      <4>3. age'[j] = IF Inserts(k) THEN Older(age[j]) ELSE age[j]
        BY <1>4, <3>2 DEF Used
      <4>4. age[j] \in 0 .. Size
        BY <1>1
      <4>5. CASE Inserts(k)
        <5>1. Len(cache'.keys) - i <= Len(cache.keys) - m + 1 /\ age'[j] = Older(age[j])
          BY <4>1, <4>3, <4>5
        <5>2. CASE age[j] < Size
          <6>1. age'[j] = age[j] + 1
            BY <5>1, <5>2 DEF Older
          <6>2. /\ Len(cache.keys) - m \in Int /\ Len(cache'.keys) - i \in Int
                /\ L1Size \in Int /\ age[j] \in Int /\ age'[j] \in Int
            BY <1>2, <4>4, <6>1
          <6> QED BY <4>2, <5>1, <6>1, <6>2, OneOlder
        <5>3. CASE ~(age[j] < Size)
          <6>1. age'[j] = Size /\ Len(cache'.keys) - i <= Size
            BY <1>2, <5>1, <5>3 DEF Older
          <6> QED BY <1>2, <6>1
        <5> QED BY <5>2, <5>3
      <4>6. CASE ~Inserts(k)
        BY <1>2, <4>1, <4>2, <4>3, <4>4, <4>6
      <4> QED BY <4>5, <4>6
    <3> QED BY <3>1, <3>2
  <2> QED BY <2>2, <2>3 DEF AgeInv, DriftBound
<1>5. CASE Other /\ UNCHANGED age
  <2>1. Drift(cache, cache', NoKey, 0)
    BY <1>5, OtherDrift
  <2>2. ASSUME NEW j \in Key, NEW i \in 1 .. Len(cache'.keys), cache'.keys[i] = j
        PROVE  Len(cache'.keys) - i <= age'[j] + L1Size - 1
    <3>1. PICK m \in 1 .. Len(cache.keys) :
             /\ cache.keys[m] = j
             /\ Len(cache'.keys) - i <= Len(cache.keys) - m + 0
      BY <2>1, <2>2, SentinelsAssumption DEF Drift
    <3>2. Len(cache.keys) - m <= age[j] + L1Size - 1 /\ age[j] \in 0 .. Size
      BY <1>1, <1>3, <3>1
    <3> QED BY <1>2, <1>5, <3>1, <3>2
  <2> QED BY <1>1, <1>5, <2>2 DEF AgeInv, DriftBound
<1> QED BY <1>4, <1>5 DEF RNext

\* The inductive invariant of the cache together with that of the ages.
LEMMA RecencyInvariance == RSpec => [](IInv /\ AgeInv)
<1>1. RInit => IInv /\ AgeInv
  <2> SUFFICES ASSUME RInit PROVE IInv /\ AgeInv
    OBVIOUS
  <2>1. IInv
    BY InitIInv DEF RInit
  <2>2. AgeInv
    BY SizesAssumption DEF RInit, Init, AgeInv, DriftBound
  <2> QED BY <2>1, <2>2
<1>2. IInv /\ AgeInv /\ [RNext]_rvars => (IInv /\ AgeInv)'
  <2> SUFFICES ASSUME IInv, AgeInv, [RNext]_rvars PROVE IInv' /\ AgeInv'
    OBVIOUS
  <2>1. IInv'
    <3>1. CASE RNext
      BY <3>1, StepIInv DEF RNext, Next
    <3>2. CASE UNCHANGED rvars
      BY <3>2, StepIInv DEF rvars, vars
    <3> QED BY <3>1, <3>2
  <2>2. AgeInv'
    <3>1. CASE RNext
      BY <2>1, <3>1, DriftStep
    <3>2. CASE UNCHANGED rvars
      BY <3>2 DEF AgeInv, DriftBound, rvars
    <3> QED BY <3>1, <3>2
  <2> QED BY <2>1, <2>2
<1> QED BY <1>1, <1>2, PTL DEF RSpec

\* An entry drifts by at most one place per insertion since its last use.
THEOREM Drifting == RSpec => []DriftBound
<1>1. AgeInv => DriftBound
  BY DEF AgeInv
<1> QED BY <1>1, RecencyInvariance, PTL

\* The window in which an object handed out by operator[] stays cached: a
\* capacity eviction takes an entry only after at least Size - L1Size
\* insertions since its last use.
THEOREM Survival == RSpec => []SurvivalWindow
<1>1. IInv /\ AgeInv => SurvivalWindow
  <2> SUFFICES ASSUME IInv, AgeInv, Full(cache)
               PROVE  age[Victim(cache)] >= Size - L1Size
    BY DEF SurvivalWindow
  <2>1. /\ Len(cache.keys) = Size /\ 1 \in 1 .. Len(cache.keys)
        /\ cache.keys[1] \in Key /\ age[cache.keys[1]] \in 0 .. Size
    BY SizesAssumption DEF IInv, AgeInv, CacheOK, DequeMatchesMap, Full, Cache
  <2>2. Len(cache.keys) - 1 <= age[cache.keys[1]] + L1Size - 1
    BY <2>1 DEF AgeInv, DriftBound
  <2> QED BY <2>1, <2>2, SizesAssumption DEF Victim
<1> QED BY <1>1, RecencyInvariance, PTL

-----------------------------------------------------------------------------
(***************************************************************************)
(* The cache implements WriteBackMap.                                      *)
(***************************************************************************)
\* A cached key has an entry, any other the contents of the store: what a
\* reader finds is never mistaken for the mark of a key without an entry.
LEMMA ViewIs ==
    ASSUME IInv
    PROVE  \A k \in Key :
              /\ Cached(cache, k) => /\ View(cache, backing)[k] = cache.map[k]
                                     /\ cache.map[k] \in Entry
              /\ ~Cached(cache, k) => View(cache, backing)[k] = backing[k]
              /\ backing[k] \in {Absent, Unread} \cup Value /\ backing[k] # Null
<1>1. \A k \in Key : Cached(cache, k) => cache.map[k] \in Entry
  BY MappedIsEntry DEF IInv
<1> QED BY <1>1, SentinelsAssumption DEF IInv, View

\* Inserting changes one entry of the map.
LEMMA InsertMap ==
    ASSUME NEW c \in Cache, NEW k \in Key, NEW v \in Entry, NEW b
    PROVE  View(Insert(c, k, v), b) = [View(c, b) EXCEPT ![k] = v]
<1> DEFINE d == Insert(c, k, v)
<1>1. d.map = [c.map EXCEPT ![k] = v] /\ c.map \in [Key -> Entry \cup {Absent}]
  BY DEF Insert, Remember, Put, Cache
<1> HIDE DEF d
<1>2. \A x \in Key : d.map[x] = IF x = k THEN v ELSE c.map[x]
  BY <1>1
<1>3. v # Absent
  BY SentinelsAssumption DEF Entry
<1>4. \A x \in Key : (IF Cached(d, x) THEN d.map[x] ELSE b[x])
                     = IF x = k THEN v ELSE IF Cached(c, x) THEN c.map[x] ELSE b[x]
  BY <1>2, <1>3 DEF Cached
<1> QED BY <1>4 DEF View, d

\* Taking an entry out lets readers see the store again.
LEMMA RemovedView ==
    ASSUME NEW c, CacheOK(c), NEW i \in 1 .. Len(c.keys), NEW d, Removed(c, d, i), NEW b
    PROVE  \A x \in Key : View(d, b)[x] = IF x = c.keys[i] THEN b[x] ELSE View(c, b)[x]
<1>1. /\ ~Cached(d, c.keys[i])
      /\ \A x \in Key : x # c.keys[i] => d.map[x] = c.map[x]
  BY RemovedOK
<1> QED BY <1>1 DEF View, Cached

\* Evicting the front entry stores its contents: the key is flushed.
LEMMA FrontFlushes ==
    ASSUME IInv, cache.keys # <<>>
    PROVE  /\ Victim(cache) \in Key /\ Cached(cache, Victim(cache))
           /\ WriteFrontBack(cache, backing) = Abstract!Flushed({Victim(cache)})
           /\ View(DropFront(cache), WriteFrontBack(cache, backing))
              = Abstract!Retained({Victim(cache)})
<1>1. CacheOK(cache) /\ backing \in [Key -> {Absent, Unread} \cup Value]
  BY DEF IInv
<1>2. Removed(cache, DropFront(cache), 1) /\ 1 \in 1 .. Len(cache.keys)
  BY <1>1, DropFrontRemoves
<1> DEFINE j == Victim(cache)  b == WriteFrontBack(cache, backing)  d == DropFront(cache)
<1>3. j = cache.keys[1] /\ j \in Key /\ Cached(cache, j)
  BY <1>1, <1>2 DEF Victim, CacheOK, Cache, DequeMatchesMap
<1>4. View(cache, backing)[j] = cache.map[j] /\ cache.map[j] \in Entry
  BY <1>3, ViewIs
<1>5. \A x \in Key : x # j => View(d, b)[x] = View(cache, b)[x]
  BY <1>1, <1>2, <1>3, RemovedView
<1>6. View(d, b)[j] = b[j]
  BY <1>1, <1>2, <1>3, RemovedView
<1>7. b = IF cache.map[j] \in Value THEN [backing EXCEPT ![j] = cache.map[j]] ELSE backing
  BY DEF WriteFrontBack, WriteBack
<1> HIDE DEF j, b, d
<1>8. b \in [Key -> {Absent, Unread} \cup Value]
  BY <1>1, <1>7
<1>9. \A x \in Key : b[x] = IF x = j /\ cache.map[j] \in Value THEN cache.map[j] ELSE backing[x]
  BY <1>1, <1>3, <1>7
<1>10. b = Abstract!Flushed({j})
  <2>1. \A x \in Key : Abstract!Flushed({j})[x] = b[x]
    BY <1>4, <1>9 DEF Abstract!Flushed
  <2> QED BY <2>1, <1>8 DEF Abstract!Flushed
<1>11. \A x \in Key : View(cache, b)[x] = IF Cached(cache, x) THEN cache.map[x] ELSE b[x]
  BY DEF View
<1>12. \A x \in Key : x # j => View(cache, b)[x] = View(cache, backing)[x]
  BY <1>9, <1>11 DEF View
<1>13. View(d, b) = Abstract!Retained({j})
  <2>1. \A x \in Key : Abstract!Retained({j})[x]
                       = IF x = j /\ View(cache, backing)[x] = Null THEN backing[x]
                         ELSE View(cache, backing)[x]
    BY DEF Abstract!Retained
  <2>2. Abstract!Retained({j})[j] = b[j]
    BY <2>1, <1>3, <1>4, <1>9, SentinelsAssumption DEF Entry
  <2>3. \A x \in Key : View(d, b)[x] = Abstract!Retained({j})[x]
    BY <2>1, <2>2, <1>3, <1>5, <1>6, <1>12
  <2> QED BY <2>3 DEF View, Abstract!Retained
<1> QED BY <1>3, <1>10, <1>13 DEF j, b, d

\* With nothing flushed, both are as before.
LEMMA NothingFlushed ==
    ASSUME IInv
    PROVE  /\ Abstract!Flushed({}) = backing
           /\ Abstract!Retained({}) = View(cache, backing)
<1>1. backing \in [Key -> {Absent, Unread} \cup Value]
  BY DEF IInv
<1>2. Abstract!Flushed({}) = [k \in Key |-> backing[k]]
  BY DEF Abstract!Flushed
<1>3. Abstract!Retained({}) = [k \in Key |-> View(cache, backing)[k]]
  BY DEF Abstract!Retained
<1>4. View(cache, backing) = [k \in Key |-> View(cache, backing)[k]]
  BY DEF View
<1> QED BY <1>1, <1>2, <1>3, <1>4

\* Making room for key k flushes one other key, or none.
LEMMA RoomFlushes ==
    ASSUME IInv, NEW k \in Key, ~Cached(cache, k), ~InL1(cache, k)
    PROVE  \E S \in Abstract!Displaced(k) :
              /\ k \notin S
              /\ AfterRoom(cache, backing) = Abstract!Flushed(S)
              /\ View(MakeRoom(cache), AfterRoom(cache, backing)) = Abstract!Retained(S)
<1>1. CASE ~Full(cache)
  <2>1. AfterRoom(cache, backing) = backing /\ MakeRoom(cache) = cache
    BY <1>1 DEF AfterRoom, MakeRoom
  <2>2. {} \in Abstract!Displaced(k) /\ k \notin {}
    BY DEF Abstract!Displaced
  <2> QED BY <2>1, <2>2, NothingFlushed
<1>2. CASE Full(cache)
  <2>1. /\ AfterRoom(cache, backing) = WriteFrontBack(cache, backing)
        /\ MakeRoom(cache) = DropFront(cache)
    BY <1>2 DEF AfterRoom, MakeRoom
  <2>2. cache.keys # <<>>
    BY <1>2, SizesAssumption DEF Full, IInv, CacheOK, Cache
  <2>3. Victim(cache) \in Key \ {k}
    BY <2>2, FrontFlushes
  <2>4. {Victim(cache)} \in Abstract!Displaced(k) /\ k \notin {Victim(cache)}
    BY <2>3 DEF Abstract!Displaced
  <2> QED BY <2>1, <2>2, <2>4, FrontFlushes
<1> QED BY <1>1, <1>2

\* Moving an entry to the back changes what a reader finds only if its
\* contents change.
LEMMA RefreshView ==
    ASSUME NEW c, CacheOK(c), NEW k \in Key, Cached(c, k), ~InL1(c, k), NEW v \in Entry, NEW b
    PROVE  LET d == Erase(c, Position(c, k)) IN
           /\ View(Insert(d, k, v), b) = [View(c, b) EXCEPT ![k] = v]
           /\ View(Insert(Invalidate(d, k), k, v), b) = [View(c, b) EXCEPT ![k] = v]
<1> DEFINE i == Position(c, k)
           d == Erase(c, i)
<1>1. i \in 1 .. Len(c.keys) /\ c.keys[i] = k
  BY PositionOK
<1> HIDE DEF i
<1>2. Removed(c, d, i)
  BY <1>1, EraseUnremembered
<1> HIDE DEF d
<1>3. CacheOK(d) /\ d \in Cache
  BY <1>1, <1>2, RemovedOK DEF Removed
<1>4. \A x \in Key : View(d, b)[x] = IF x = k THEN b[x] ELSE View(c, b)[x]
  BY <1>1, <1>2, RemovedView
<1>5. [View(d, b) EXCEPT ![k] = v] = [View(c, b) EXCEPT ![k] = v]
  BY <1>4 DEF View
<1>6. Invalidate(d, k) \in Cache /\ Invalidate(d, k).map = d.map
  BY <1>3, InvalidateOK DEF CacheOK
<1>7. View(Invalidate(d, k), b) = View(d, b)
  BY <1>6 DEF View, Cached
<1>8. View(Insert(d, k, v), b) = [View(d, b) EXCEPT ![k] = v]
  BY <1>3, InsertMap
<1>9. View(Insert(Invalidate(d, k), k, v), b) = [View(Invalidate(d, k), b) EXCEPT ![k] = v]
  BY <1>6, InsertMap
<1> QED BY <1>5, <1>7, <1>8, <1>9 DEF d, i

\* get() reads the map.
LEMMA GetRefines ==
    ASSUME IInv, NEW k \in Key, Get(k)
    PROVE  Abstract!Read(k)
<1> DEFINE cur == View(cache, backing)
<1>1. /\ CacheOK(cache) /\ cache \in Cache /\ backing \in [Key -> {Absent, Unread} \cup Value]
      /\ backing[k] \in {Absent, Unread} \cup Value
  BY DEF IInv, CacheOK
<1>2. {} \in Abstract!Displaced(k)
  BY DEF Abstract!Displaced
<1>3. ASSUME NEW d \in {cur[k], Absent}, cur[k] \in Value \cup {Null},
             NEW S \in Abstract!Displaced(k), backing' = Abstract!Flushed(S),
             View(cache, backing)' = Abstract!Retained(S),
             result' = Answer("get", k, TRUE, d)
      PROVE  Abstract!Read(k)
  BY <1>3 DEF Abstract!Read, Answer, Abstract!Answer
<1>4. CASE GetFromL1(k)
  <2>1. PICK s \in SlotsOf(cache, k) : result' = Answer("get", k, TRUE, cache.map[k])
    <3>1. PICK s \in SlotsOf(cache, k), v \in Entry :
             v \in Pointee(cache, s) /\ result' = Answer("get", k, TRUE, v)
      BY <1>4 DEF GetFromL1
    <3>2. v = cache.map[k]
      BY <1>1, <3>1, L1Hit
    <3> QED BY <3>1, <3>2
  <2>2. Cached(cache, k) /\ cur[k] = cache.map[k] /\ cur[k] \in Entry
    BY <1>1, <2>1, L1Hit, ViewIs
  <2>3. UNCHANGED <<cache, backing>> /\ View(cache, backing)' = View(cache, backing)
    BY <1>4 DEF GetFromL1, View, Cached
  <2> QED BY <1>2, <1>3, <2>1, <2>2, <2>3, NothingFlushed DEF Entry
<1>5. CASE GetFromMap(k)
  <2>1. /\ Cached(cache, k) /\ ~InL1(cache, k) /\ backing' = backing
        /\ cache' = Insert(Erase(cache, Position(cache, k)), k, cache.map[k])
        /\ result' = Answer("get", k, TRUE, cache.map[k])
    BY <1>5 DEF GetFromMap
  <2>2. cur[k] = cache.map[k] /\ cache.map[k] \in Entry
    BY <2>1, ViewIs
  <2>3. View(cache', backing') = [cur EXCEPT ![k] = cache.map[k]]
    BY <1>1, <2>1, <2>2, RefreshView
  <2>4. View(cache, backing)' = cur
    BY <2>2, <2>3 DEF View
  <2> QED BY <1>2, <1>3, <2>1, <2>2, <2>4, NothingFlushed DEF Entry
<1>6. CASE GetFromStore(k)
  <2>1. ~InL1(cache, k) /\ ~Cached(cache, k) /\ backing' = AfterRoom(cache, backing)
    BY <1>6 DEF GetFromStore
  <2>2. PICK S \in Abstract!Displaced(k) :
           /\ k \notin S
           /\ AfterRoom(cache, backing) = Abstract!Flushed(S)
           /\ View(MakeRoom(cache), AfterRoom(cache, backing)) = Abstract!Retained(S)
    BY <2>1, RoomFlushes
  <2>3. backing'[k] = backing[k] /\ cur[k] = backing[k] /\ Abstract!Retained(S)[k] = backing[k]
    BY <2>1, <2>2, ViewIs DEF Abstract!Flushed, Abstract!Retained
  <2>4. CASE backing[k] \in Value
    <3>1. cache' = Insert(MakeRoom(cache), k, backing'[k]) /\ result' = Answer("get", k, TRUE, Absent)
      BY <1>6, <2>3, <2>4 DEF GetFromStore
    <3>2. MakeRoom(cache) \in Cache /\ backing[k] \in Entry
      BY <1>1, <2>1, <2>4, MakeRoomOK DEF CacheOK, Entry
    <3>3. View(cache', backing') = [Abstract!Retained(S) EXCEPT ![k] = backing[k]]
      BY <2>1, <2>2, <2>3, <3>1, <3>2, InsertMap
    <3>4. View(cache, backing)' = Abstract!Retained(S)
      BY <2>3, <3>3 DEF View, Abstract!Retained
    <3> QED BY <1>3, <2>1, <2>2, <2>3, <2>4, <3>1, <3>4
  <2>5. CASE backing[k] \notin Value
    <3>1. cache' = MakeRoom(cache) /\ result' = Answer("get", k, FALSE, Absent)
      BY <1>6, <2>3, <2>5 DEF GetFromStore
    <3>2. View(cache', backing') = Abstract!Retained(S)
      BY <2>1, <2>2, <3>1
    <3>3. cur[k] \in {Absent, Unread}
      BY <1>1, <2>3, <2>5
    <3> QED BY <2>1, <2>2, <3>1, <3>2, <3>3
            DEF Abstract!Read, Answer, Abstract!Answer, View, Cached
  <2> QED BY <2>4, <2>5
<1> QED BY <1>4, <1>5, <1>6 DEF Get

\* set() writes the map.
LEMMA SetRefines ==
    ASSUME IInv, NEW k \in Key, NEW v \in Value, Set(k, v)
    PROVE  Abstract!Write(k)
<1> DEFINE cur == View(cache, backing)
<1>1. CacheOK(cache) /\ cache \in Cache /\ v \in Entry
  BY DEF IInv, CacheOK, Entry
<1>2. {} \in Abstract!Displaced(k)
  BY DEF Abstract!Displaced
<1>3. ASSUME NEW S \in Abstract!Displaced(k), backing' = Abstract!Flushed(S),
             View(cache', backing') = [Abstract!Retained(S) EXCEPT ![k] = v],
             result' = Answer("set", k, TRUE, Absent)
      PROVE  Abstract!Write(k)
  <2>1. View(cache, backing)' = [Abstract!Retained(S) EXCEPT ![k] = v]
    BY <1>3 DEF View, Cached
  <2> QED BY <1>3, <2>1 DEF Abstract!Write, Answer, Abstract!Answer
<1>4. CASE SetInL1(k, v)
  <2>1. PICK s \in SlotsOf(cache, k) : cache' = Store(cache, s, v)
    BY <1>4 DEF SetInL1
  <2>2. Cached(cache, k) /\ cache' = [cache EXCEPT !.map[k] = v]
    BY <1>1, <2>1, L1Hit DEF Store
  <2>3. /\ cache.map \in [Key -> Entry \cup {Absent}]
        /\ \A x \in Key : cache'.map[x] = IF x = k THEN v ELSE cache.map[x]
    BY <1>1, <2>2 DEF Cache
  <2>4. backing' = backing /\ result' = Answer("set", k, TRUE, Absent)
    BY <1>4 DEF SetInL1
  <2>5. View(cache', backing') = [cur EXCEPT ![k] = v]
    <3>1. v # Absent
      BY <1>1, SentinelsAssumption DEF Entry
    <3>2. \A x \in Key : View(cache', backing')[x] = IF x = k THEN v ELSE cur[x]
      BY <2>3, <2>4, <3>1 DEF View, Cached
    <3> QED BY <3>2 DEF View
  <2> QED BY <1>2, <1>3, <2>4, <2>5, NothingFlushed
<1>5. CASE SetInMap(k, v)
  <2>1. /\ Cached(cache, k) /\ ~InL1(cache, k) /\ backing' = backing
        /\ cache' = Insert(Invalidate(Erase(cache, Position(cache, k)), k), k, v)
        /\ result' = Answer("set", k, TRUE, Absent)
    BY <1>5 DEF SetInMap
  <2>2. View(cache', backing') = [cur EXCEPT ![k] = v]
    BY <1>1, <2>1, RefreshView
  <2> QED BY <1>2, <1>3, <2>1, <2>2, NothingFlushed
<1>6. CASE SetNew(k, v)
  <2>1. /\ ~InL1(cache, k) /\ ~Cached(cache, k) /\ backing' = AfterRoom(cache, backing)
        /\ cache' = Insert(MakeRoom(cache), k, v)
        /\ result' = Answer("set", k, TRUE, Absent)
    BY <1>6 DEF SetNew
  <2>2. PICK S \in Abstract!Displaced(k) :
           /\ AfterRoom(cache, backing) = Abstract!Flushed(S)
           /\ View(MakeRoom(cache), AfterRoom(cache, backing)) = Abstract!Retained(S)
    BY <2>1, RoomFlushes
  <2>3. MakeRoom(cache) \in Cache
    BY <1>1, <2>1, MakeRoomOK DEF CacheOK
  <2>4. View(cache', backing') = [Abstract!Retained(S) EXCEPT ![k] = v]
    BY <1>1, <2>1, <2>2, <2>3, InsertMap
  <2> QED BY <1>3, <2>1, <2>2, <2>4
<1> QED BY <1>4, <1>5, <1>6 DEF Set

\* operator[] reads the map, and leaves an entry where there was none.
LEMMA SubRefines ==
    ASSUME IInv, NEW k \in Key, Sub(k)
    PROVE  Abstract!ReadRef(k)
<1> DEFINE cur == View(cache, backing)
<1>1. /\ CacheOK(cache) /\ cache \in Cache
      /\ backing[k] \in {Absent, Unread} \cup Value
  BY DEF IInv, CacheOK
<1>2. {} \in Abstract!Displaced(k)
  BY DEF Abstract!Displaced
<1>3. ASSUME NEW S \in Abstract!Displaced(k), backing' = Abstract!Flushed(S),
             View(cache', backing')
               = [Abstract!Retained(S) EXCEPT ![k] = Abstract!Materialized(cur[k])],
             result' = Answer("sub", k, TRUE, Abstract!Materialized(cur[k]))
      PROVE  Abstract!ReadRef(k)
  <2>1. View(cache, backing)'
        = [Abstract!Retained(S) EXCEPT ![k] = Abstract!Materialized(cur[k])]
    BY <1>3 DEF View, Cached
  <2> QED BY <1>3, <2>1 DEF Abstract!ReadRef, Answer, Abstract!Answer
<1>4. ASSUME NEW x \in Entry PROVE Abstract!Materialized(x) = x
  BY <1>4, SentinelsAssumption DEF Abstract!Materialized, Entry
<1>5. ASSUME Cached(cache, k)
      PROVE  /\ cur[k] = cache.map[k] /\ cache.map[k] \in Entry
             /\ Abstract!Materialized(cur[k]) = cache.map[k]
             /\ [cur EXCEPT ![k] = cache.map[k]] = cur
  BY <1>4, <1>5, ViewIs DEF View
<1>6. CASE SubFromL1(k)
  <2>1. PICK s \in SlotsOf(cache, k) : result' = Answer("sub", k, TRUE, cache.map[k])
    <3>1. PICK s \in SlotsOf(cache, k), v \in Entry :
             v \in Pointee(cache, s) /\ result' = Answer("sub", k, TRUE, v)
      BY <1>6 DEF SubFromL1
    <3>2. v = cache.map[k]
      BY <1>1, <3>1, L1Hit
    <3> QED BY <3>1, <3>2
  <2>2. Cached(cache, k)
    BY <1>1, <2>1, L1Hit
  <2>3. cache' = cache /\ backing' = backing
    BY <1>6 DEF SubFromL1
  <2> QED BY <1>2, <1>3, <1>5, <2>1, <2>2, <2>3, NothingFlushed
<1>7. CASE SubFromMap(k)
  <2>1. /\ Cached(cache, k) /\ ~InL1(cache, k) /\ backing' = backing
        /\ cache' = Insert(Erase(cache, Position(cache, k)), k, cache.map[k])
        /\ result' = Answer("sub", k, TRUE, cache.map[k])
    BY <1>7 DEF SubFromMap
  <2>2. View(cache', backing') = [cur EXCEPT ![k] = cache.map[k]]
    BY <1>1, <1>5, <2>1, RefreshView
  <2> QED BY <1>2, <1>3, <1>5, <2>1, <2>2, NothingFlushed
<1>8. CASE SubFromStore(k)
  <2>1. /\ ~InL1(cache, k) /\ ~Cached(cache, k) /\ backing' = AfterRoom(cache, backing)
        /\ cache' = Insert(MakeRoom(cache), k, Fetched(backing', k))
        /\ result' = Answer("sub", k, TRUE, Fetched(backing', k))
    BY <1>8 DEF SubFromStore
  <2>2. PICK S \in Abstract!Displaced(k) :
           /\ k \notin S
           /\ AfterRoom(cache, backing) = Abstract!Flushed(S)
           /\ View(MakeRoom(cache), AfterRoom(cache, backing)) = Abstract!Retained(S)
    BY <2>1, RoomFlushes
  <2>3. backing'[k] = backing[k] /\ cur[k] = backing[k]
    BY <2>1, <2>2, ViewIs DEF Abstract!Flushed
  <2>4. Fetched(backing', k) = Abstract!Materialized(cur[k]) /\ Fetched(backing', k) \in Entry
    BY <1>1, <2>3, SentinelsAssumption DEF Fetched, Abstract!Materialized, Entry
  <2>5. MakeRoom(cache) \in Cache
    BY <1>1, <2>1, MakeRoomOK DEF CacheOK
  <2>6. View(cache', backing')
        = [Abstract!Retained(S) EXCEPT ![k] = Abstract!Materialized(cur[k])]
    BY <2>1, <2>2, <2>4, <2>5, InsertMap
  <2> QED BY <1>3, <2>1, <2>2, <2>4, <2>6
<1> QED BY <1>6, <1>7, <1>8 DEF Sub

\* An assignment through the reference operator[] returned writes the map.
LEMMA AssignRefines ==
    ASSUME IInv, NEW v \in Value, Assign(v)
    PROVE  Abstract!WriteRef
<1>1. /\ result.op = "sub" /\ result.key \in Key /\ Cached(cache, result.key)
      /\ cache' = [cache EXCEPT !.map[result.key] = v]
      /\ result' = NoAnswer /\ backing' = backing
  BY DEF IInv, RefOK, Assign
<1>2. PICK k \in Key : k = result.key
  BY <1>1
<1>3. \A x \in Key : cache'.map[x] = IF x = k THEN v ELSE cache.map[x]
  BY <1>1, <1>2 DEF IInv, CacheOK, Cache
<1>4. v # Absent
  BY SentinelsAssumption
<1>5. \A x \in Key : View(cache', backing')[x] = IF x = k THEN v ELSE View(cache, backing)[x]
  BY <1>1, <1>3, <1>4 DEF View, Cached
<1>6. View(cache, backing)' = [View(cache, backing) EXCEPT ![k] = v]
  BY <1>5 DEF View, Cached
<1> QED BY <1>1, <1>2, <1>6
        DEF Abstract!WriteRef, Abstract!NoAnswer, NoAnswer, Answer, Abstract!Answer

\* del() lets the contents of the store show again.
LEMMA DelRefines ==
    ASSUME IInv, NEW k \in Key, Del(k)
    PROVE  Abstract!Discard(k)
<1> DEFINE c == Invalidate(cache, k)  cur == View(cache, backing)
<1>1. CacheOK(c) /\ ~InL1(c, k) /\ c.map = cache.map
  BY InvalidateOK DEF IInv
<1>2. /\ cache' = IF Cached(c, k) THEN Erase(c, Position(c, k)) ELSE c
      /\ result' = Answer("del", k, Cached(cache, k), Absent)
      /\ backing' = backing
  BY DEF Del
<1>3. Cached(c, k) = Cached(cache, k) /\ Cached(cache, k) \in BOOLEAN
  BY <1>1 DEF Cached
<1>4. View(c, backing) = cur
  BY <1>1 DEF View, Cached
<1> HIDE DEF c
<1>5. \A x \in Key : View(cache', backing')[x] = IF x = k THEN backing[x] ELSE cur[x]
  <2>1. CASE Cached(c, k)
    <3>1. Position(c, k) \in 1 .. Len(c.keys) /\ c.keys[Position(c, k)] = k
      BY <1>1, <2>1, PositionOK
    <3>2. Removed(c, Erase(c, Position(c, k)), Position(c, k))
      BY <1>1, <3>1, EraseUnremembered
    <3>3. \A x \in Key : View(Erase(c, Position(c, k)), backing)[x]
                         = IF x = k THEN backing[x] ELSE View(c, backing)[x]
      BY <1>1, <3>1, <3>2, RemovedView
    <3> QED BY <1>2, <1>4, <2>1, <3>3
  <2>2. CASE ~Cached(c, k)
    BY <1>2, <1>3, <1>4, <2>2, ViewIs
  <2> QED BY <2>1, <2>2
<1>6. View(cache, backing)' = [cur EXCEPT ![k] = backing[k]]
  BY <1>5 DEF View, Cached
<1>7. ~Cached(cache, k) => cur[k] = backing[k]
  BY ViewIs
<1>8. \E found \in BOOLEAN :
         /\ ~found => cur[k] = backing[k]
         /\ result' = Abstract!Answer("del", k, found, Absent)
  BY <1>2, <1>3, <1>7 DEF Answer, Abstract!Answer
<1> QED BY <1>2, <1>6, <1>8 DEF Abstract!Discard

\* The store behind the cache grows under keys that have no entry.
LEMMA ExtendRefines ==
    ASSUME IInv, NEW k \in Key, Extend(k)
    PROVE  Abstract!Grow(k)
<1> DEFINE cur == View(cache, backing)
<1>1. backing \in [Key -> {Absent, Unread} \cup Value]
  BY DEF IInv
<1>2. /\ backing[k] \in {Absent, Unread} /\ cache' = cache /\ result' = result
      /\ \/ backing[k] = Absent /\ backing' = [backing EXCEPT ![k] = Unread]
         \/ backing[k] = Unread /\ backing' = [backing EXCEPT ![k] = Blank]
  BY DEF Extend
<1>3. \A x \in Key : x # k => backing'[x] = backing[x]
  BY <1>1, <1>2
<1>4. \A x \in Key : View(cache', backing')[x] = IF Cached(cache, x) THEN cache.map[x] ELSE backing'[x]
  BY <1>2 DEF View
<1>5. cur[k] \in Value \cup {Null} <=> Cached(cache, k)
  BY <1>2, ViewIs, SentinelsAssumption DEF Entry
<1>6. \A x \in Key : View(cache', backing')[x]
                     = IF x = k /\ ~Cached(cache, k) THEN backing'[k] ELSE cur[x]
  BY <1>3, <1>4 DEF View
<1>7. View(cache, backing)' = IF cur[k] \in Value \cup {Null} THEN cur
                              ELSE [cur EXCEPT ![k] = backing'[k]]
  BY <1>5, <1>6 DEF View, Cached
<1> QED BY <1>2, <1>7 DEF Abstract!Grow

\* evict() and evict_all() flush keys.
LEMMA EvictRefines ==
    ASSUME IInv, EvictAll \/ \E force \in BOOLEAN : Evict(force)
    PROVE  Abstract!Flush
<1> DEFINE cur == View(cache, backing)
<1>1. ASSUME NEW S \in SUBSET Key, backing' = Abstract!Flushed(S),
             View(cache', backing') = Abstract!Retained(S), result' = NoAnswer
      PROVE  Abstract!Flush
  <2>1. View(cache, backing)' = Abstract!Retained(S)
    BY <1>1 DEF View, Cached
  <2> QED BY <1>1, <2>1 DEF Abstract!Flush, Abstract!NoAnswer, NoAnswer, Answer, Abstract!Answer
<1>2. CASE EvictAll
  <2>1. /\ cache' = Emptied /\ result' = NoAnswer
        /\ backing' = [k \in Key |-> IF cache.map[k] \in Value THEN cache.map[k]
                                     ELSE backing[k]]
    BY <1>2 DEF EvictAll
  <2>2. \A k \in Key : Abstract!Flushed(Key)[k] = backing'[k]
    BY <2>1, ViewIs, SentinelsAssumption DEF Abstract!Flushed, Cached
  <2>3. backing' = Abstract!Flushed(Key)
    BY <2>1, <2>2 DEF Abstract!Flushed
  <2>4. \A k \in Key : View(cache', backing')[k] = backing'[k]
    BY <2>1 DEF View, Cached, Emptied
  <2>5. \A k \in Key : Abstract!Retained(Key)[k] = backing'[k]
    BY <2>1, ViewIs, SentinelsAssumption DEF Abstract!Retained, Cached, Entry
  <2>6. View(cache', backing') = Abstract!Retained(Key)
    BY <2>4, <2>5 DEF View, Abstract!Retained
  <2> QED BY <1>1, <2>1, <2>3, <2>6
<1>3. ASSUME NEW force \in BOOLEAN, Evict(force) PROVE Abstract!Flush
  <2>1. CASE cache.keys # <<>> /\ (Full(cache) \/ force)
    <3>1. /\ cache' = DropFront(cache) /\ backing' = WriteFrontBack(cache, backing)
          /\ result' = NoAnswer
      BY <1>3, <2>1 DEF Evict
    <3>2. {Victim(cache)} \in SUBSET Key
      BY <2>1, FrontFlushes
    <3> QED BY <1>1, <2>1, <3>1, <3>2, FrontFlushes
  <2>2. CASE ~(cache.keys # <<>> /\ (Full(cache) \/ force))
    <3>1. cache' = cache /\ backing' = backing /\ result' = NoAnswer
      BY <1>3, <2>2 DEF Evict
    <3>2. {} \in SUBSET Key
      OBVIOUS
    <3> QED BY <1>1, <3>1, <3>2, NothingFlushed
  <2> QED BY <2>1, <2>2
<1> QED BY <1>2, <1>3

\* pop() takes the front entry out, having stored it.
LEMMA PopRefines ==
    ASSUME IInv, Pop
    PROVE  Abstract!TakeOut \/ Abstract!TakeNothing
<1>1. CASE cache.keys # <<>>
  <2>1. PICK k : k = Victim(cache)
    OBVIOUS
  <2>2. /\ cache' = DropFront(cache) /\ backing' = WriteFrontBack(cache, backing)
        /\ result' = Answer("pop", k, TRUE, cache.map[k])
    BY <1>1, <2>1 DEF Pop
  <2>3. /\ k \in Key /\ Cached(cache, k) /\ backing' = Abstract!Flushed({k})
        /\ View(cache', backing') = Abstract!Retained({k})
    BY <1>1, <2>1, <2>2, FrontFlushes
  <2>4. View(cache, backing)[k] = cache.map[k] /\ cache.map[k] \in Value \cup {Null}
    BY <2>3, ViewIs DEF Entry
  <2>5. View(cache, backing)' = Abstract!Retained({k})
    BY <2>3 DEF View, Cached
  <2>6. Abstract!TakeOut
    BY <2>2, <2>3, <2>4, <2>5 DEF Abstract!TakeOut, Answer, Abstract!Answer
  <2> QED BY <2>6
<1>2. CASE cache.keys = <<>>
  <2>1. result' = Answer("pop", NoKey, FALSE, Absent) /\ cache' = cache /\ backing' = backing
    BY <1>2 DEF Pop
  <2>2. \A k \in Key : ~Cached(cache, k)
    BY <1>2 DEF IInv, CacheOK, DequeMatchesMap
  <2>3. \A k \in Key : View(cache, backing)[k] = backing[k]
    BY <2>2, ViewIs
  <2>4. View(cache, backing) = backing
    BY <2>3 DEF View, IInv
  <2>5. View(cache, backing)' = View(cache, backing)
    BY <2>1 DEF View, Cached
  <2>6. Abstract!TakeNothing
    BY <2>1, <2>4, <2>5 DEF Abstract!TakeNothing, Answer, Abstract!Answer
  <2> QED BY <2>6
<1> QED BY <1>1, <1>2

\* clear() lets the contents of the store show again everywhere.
LEMMA ClearRefines ==
    ASSUME IInv, Clear
    PROVE  Abstract!DiscardAll
<1>1. cache' = Emptied /\ result' = NoAnswer /\ backing' = backing
  BY DEF Clear
<1>2. backing \in [Key -> {Absent, Unread} \cup Value]
  BY DEF IInv
<1>3. \A k \in Key : View(cache', backing')[k] = backing[k]
  BY <1>1 DEF View, Cached, Emptied
<1>4. View(cache, backing)' = backing
  BY <1>2, <1>3 DEF View, Cached
<1> QED BY <1>1, <1>4 DEF Abstract!DiscardAll, Abstract!NoAnswer, NoAnswer, Answer, Abstract!Answer

\* The cache implements a map that writes back: whatever is evicted, refreshed
\* or hit in L1, a reader finds the last contents written, every flush stores
\* exactly those, and only del and clear bring older ones back. For every
\* capacity and every number of slots.
THEOREM Refinement == Spec => ImplementsWriteBackMap
<1>1. Init => Abstract!Init
  <2> SUFFICES ASSUME Init PROVE Abstract!Init
    OBVIOUS
  <2>1. /\ backing \in [Key -> {Absent, Unread} \cup Value] /\ result = NoAnswer
        /\ \A k \in Key : ~Cached(cache, k)
    BY DEF Init, Cached
  <2>2. View(cache, backing) = backing
    BY <2>1 DEF View
  <2> QED BY <2>1, <2>2 DEF Abstract!Init, Abstract!NoAnswer, NoAnswer, Answer, Abstract!Answer
<1>2. IInv /\ [Next]_vars => [Abstract!Next]_<<View(cache, backing), backing, result>>
  <2> SUFFICES ASSUME IInv, [Next]_vars
               PROVE  [Abstract!Next]_<<View(cache, backing), backing, result>>
    OBVIOUS
  <2>1. ASSUME NEW k \in Key, Access(k) PROVE Abstract!Next
    BY <2>1, GetRefines, SetRefines, SubRefines DEF Access, Abstract!Next
  <2>2. CASE Other
    BY <2>2, AssignRefines, DelRefines, ExtendRefines, EvictRefines, PopRefines, ClearRefines
       DEF Other, Abstract!Next
  <2>3. CASE UNCHANGED vars
    BY <2>3 DEF vars, View, Cached
  <2> QED BY <2>1, <2>2, <2>3 DEF Next
<1> QED BY <1>1, <1>2, Invariance, PTL DEF Spec, ImplementsWriteBackMap, Abstract!Spec
=============================================================================
