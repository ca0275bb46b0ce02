\* With 4 keys at most 3 nodes are ever allocated: MaxNode does not bind.
CONSTANTS
    B = 2
    Key = {1, 2, 3, 4}
    NoKey = 99
    Value = {v1, v2}
    NoValue = NoValue
    MaxNode = 6
SPECIFICATION Spec
SYMMETRY Symmetry
INVARIANTS TypeOK
PROPERTIES ImplementsSortedMap
