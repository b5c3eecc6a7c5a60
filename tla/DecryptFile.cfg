\* Two callers; the source changes twice, the path is changed once.
CONSTANTS
    Callers = {c1, c2}
    Pieces = 2
    MaxVersion = 2
    MaxCleared = 1
    Nobody = Nobody
    User = User
SYMMETRY CallerSymmetry
SPECIFICATION Spec
INVARIANTS
    HashMeansRight
    OneVersion
    PathAccounted
PROPERTIES
    OthersUntouched
CHECK_DEADLOCK FALSE
