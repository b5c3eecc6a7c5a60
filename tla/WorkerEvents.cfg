\* Lines of up to two stretches read two at a time through a pipe of three.
CONSTANTS
    Timeout = 2
    ReadSize = 2
    LineLimit = 2
    PipeSize = 3
    MaxWritten = 5
    MaxAway = 1
SPECIFICATION FairSpec
INVARIANTS
    TypeOK
    NothingLost
    AllBeforeExit
    BlameIsJust
    TimesOutJustly
    NoWorkerLeft
PROPERTIES
    SignalsItsWorker
    GeneratorEnds
CHECK_DEADLOCK FALSE
