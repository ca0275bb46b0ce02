----------------------------- MODULE LRURecency -----------------------------
(***************************************************************************)
(* LRUCache with a history variable: how many insertions into L1 (that is, *)
(* accesses that missed L1) have happened since each key was last used.    *)
(* The variable only observes; every behaviour of LRUCache is kept.        *)
(***************************************************************************)
EXTENDS LRUCache


VARIABLE age    \* age[k], capped at Size

rvars == <<cache, backing, result, age>>

RInit == Init /\ age = [k \in Key |-> Size]

Older(n) == IF n < Size THEN n + 1 ELSE Size

\* A hit in L1 and a get() whose fetch failed insert nothing.
Inserts(k) == ~InL1(cache, k) /\ Cached(cache', k)

\* The key used is young again; when the use inserted it, the others age.
Used(k) ==
    age' = [j \in Key |-> IF j = k THEN 0
                          ELSE IF Inserts(k) THEN Older(age[j]) ELSE age[j]]

RNext ==
    \/ \E k \in Key : Access(k) /\ Used(k)
    \/ Other /\ UNCHANGED age

RSpec == RInit /\ [][RNext]_rvars

-----------------------------------------------------------------------------
\* Deque position against age: an entry drifts towards the front by at most
\* one place per insertion since its last use, after the head start of the
\* L1Size - 1 places it can be behind while L1 hits do not refresh it.
DriftBound ==
    \A k \in Key, i \in 1 .. Len(cache.keys) :
        cache.keys[i] = k => Len(cache.keys) - i <= age[k] + L1Size - 1

\* The window in which an object handed out by operator[] is safe from
\* eviction: a capacity eviction only takes an entry after at least
\* Size - L1Size insertions since its last use.  The B+tree relies on it when
\* it keeps working on a node pointer across further node_get calls.
SurvivalWindow ==
    Full(cache) => age[Victim(cache)] >= Size - L1Size
=============================================================================
