\* Nine candidates from 5 on in batches of four, three threads, two places.
CONSTANTS
    Requests <- MCRequests
    Grid = 3
    HitCapacity = 2
    Timed = TRUE
SPECIFICATION Spec
INVARIANTS
    BufferAccounted
PROPERTIES
    ImplementsProtocol
CHECK_DEADLOCK FALSE
