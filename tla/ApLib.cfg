\* Bytes of two bits, the borders of the offsets at 2, 3 and 5.
CONSTANTS
    Byte = 4
    ByteBits = 2
    SingleBits = 2
    Near = 2
    Middle = 3
    Distant = 5
    MaxTokens = 3
    MaxArbitrary = 5
    Streams <- MCStreams
SPECIFICATION Spec
INVARIANTS
    WithinLimit
    Unpacks
