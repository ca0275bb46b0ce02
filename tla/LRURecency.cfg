SPECIFICATION MCSpec
CONSTANTS
    Key = {k1, k2, k3, k4}
    NoKey = NoKey
    Value = {blank}
    Blank = blank
    Null = Null
    Absent = Absent
    Unread = Unread
    Size = 3
    L1Size = 2
SYMMETRY KeySymmetry
INVARIANTS
    VictimNotInL1
    SurvivalWindow
