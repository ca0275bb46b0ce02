SPECIFICATION Spec
CONSTANTS
    Key = {k1, k2, k3}
    NoKey = NoKey
    Value = {blank, v1}
    Blank = blank
    Null = Null
    Absent = Absent
    Unread = Unread
    Size = 2
    L1Size = 2
SYMMETRY KeySymmetry
INVARIANTS
    TypeOK
    LevelsCoherent
PROPERTIES
    ImplementsWriteBackMap
