\* A full node has 3 keys: 7 keys make three levels, 10 split an inner node below
\* the root.  The orders that need a twelfth id stop before their last insertion.
CONSTANTS
    B = 2
    Key = {1, 2, 3, 4, 5, 6, 7, 8, 9, 10, 11, 12, 13, 14, 15, 16, 17}
    NoKey = 99
    Value = {1, 2, 3, 4, 5, 6, 7, 8, 9, 10, 11, 12, 13, 14, 15, 16, 17}
    NoValue = 0
    MaxNode = 11
    ManyKeys = {1, 2, 3, 4, 5, 6, 7, 8, 9, 10}
    FewKeys = {11, 12, 13, 14, 15, 16, 17}
    FewNodes = 8
SPECIFICATION DeepSpec
CHECK_DEADLOCK FALSE
INVARIANTS Balanced EveryKeyReachable InsertAssertions DescentOnTrack LeavesChained
