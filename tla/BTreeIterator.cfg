CONSTANTS
    B = 2
    Key = {1, 2, 3, 4, 5, 6, 7}
    NoKey = 99
    Value = {v1}
    NoValue = NoValue
    MaxNode = 8
SPECIFICATION AddSpec
CHECK_DEADLOCK FALSE
PROPERTIES IteratesInOrder ForwardSkipsNothing OperationReturns IterationEnds
