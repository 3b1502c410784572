SPECIFICATION Spec
CONSTANTS
    MaxSize = 3
    Data <- MCData
    Counts <- MCCounts
    PointerSize = 2
INVARIANT TypeOK
PROPERTY IsByteQueue
