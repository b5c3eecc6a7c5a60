\* Archives of up to three pairs of two groups.  No pair shows place 0, so a name
\* is verified only where a user supplies it; place 5 makes a longer name possible.
CONSTANTS
    near = near
    far = far
    Groups = {near, far}
    Base = 2
    Xor <- MCXor
    MaxName = 3
    Fields = 1
    KeySize = 1
    Stream <- MCStream
    Packed <- MCPacked
    Unpack <- MCUnpack
    Schemes <- MCSchemes
    ValidSchemes <- MCValid
    Keys <- MCSchemes
    Damaged <- MCDamaged
    Supplied = {0, 5}
    MaxPairs = 3
SPECIFICATION Spec
INVARIANTS
    WitnessOutweighs
    AcceptedIsTrue
    GenuineSuffices
CHECK_DEADLOCK FALSE
