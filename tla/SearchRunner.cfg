\* Two processes, three kinds of search on one path, every record.
CONSTANTS
    p1 = p1
    p2 = p2
    wide = wide
    narrow = narrow
    exact = exact
    Procs = {p1, p2}
    Configs = {wide, narrow, exact}
    Total <- MCTotal
    Hits <- MCHits
    Base <- MCBase
    ShardSize = 3
    BatchSizes = {2, 3}
    HitLimit = 3
    FieldValues = {0, 1, 2, 3}
    HitLists <- MCHitLists
    NoFile = NoFile
    Damaged = Damaged
SYMMETRY Symmetry
SPECIFICATION Spec
INVARIANTS
    TypeOK
    NoLostHit
    CompleteMeansAll
    YieldsTrueHits
    NeverRepeatsCommitted
    PositionIsCurrent
PROPERTIES
    DurableProgress
    ImplementsPromise
    SessionAdvances
