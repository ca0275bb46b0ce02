CONSTANTS
    B = 2
    Key = {1, 2, 3, 4}
    NoKey = 99
    Value = {v1}
    NoValue = NoValue
    MaxNode = 8
SPECIFICATION ItSpec
CHECK_DEADLOCK FALSE
INVARIANTS YieldsStoredKeys
