\* Six nodes, four of them in the cache; the tightest window.
CONSTANTS
  Id = {n1, n2, n3, n4, n5, n6}
  CacheSize = 4
  Window = 2
  Absent = Absent
  NoHand = NoHand
  Shared = Shared
SPECIFICATION Spec
SYMMETRY IdSymmetry
CHECK_DEADLOCK FALSE
INVARIANTS NodesKeepChanges WritesToLatest NoDirtyNode
