\* One process, three kinds of search, a limit of two ticks, two threads and a
\* buffer of one place.
CONSTANTS
    p1 = p1
    wide = wide
    narrow = narrow
    exact = exact
    Procs = {p1}
    Configs = {wide, narrow, exact}
    Total <- MCTotal
    Hits <- MCHits
    Base <- MCBase
    ShardSize = 2
    BatchSizes = {1, 2}
    HitLimit = 2
    FieldValues = {0, 1, 2}
    HitLists <- MCHitLists
    NoFile = NoFile
    Damaged = Damaged
    Byte = 2
    Limit = 2
    Grace = 3
    StartTime = 1
    BatchTime = 1
    ExitTime = 1
    Grid = 2
    HitCapacity = 1
SPECIFICATION WholeFair
INVARIANTS
    HonestNeverRefused
PROPERTIES
    ImplementsSystem
    ImplementsRunner
    HonestCompletes
