CONSTANTS
    Word = 4
    BlockSize = 3
    Lengths <- MCLengths
    Offsets <- MCOffsets
SPECIFICATION CounterSpec
INVARIANTS
    SameVerdict
    CountersInSequence
CHECK_DEADLOCK FALSE
