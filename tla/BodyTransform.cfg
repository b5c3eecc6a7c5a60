\* Blocks of two bytes, chunks of four, reads of eight: sizes on each side of
\* every border, and stretches of one, two and three chunks.
CONSTANTS
    Block = 2
    Chunk = 4
    IoBuffer = 8
    Counter = 12
    Sizes = {0, 1, 3, 4, 5, 8, 9, 12, 13, 16, 17, 21, 24, 27, 31, 33}
    Skips = {4, 8, 12}
    Spans = {0, 1, 2}
SPECIFICATION Spec
INVARIANTS
    OutputIsDeciphered
CHECK_DEADLOCK FALSE
