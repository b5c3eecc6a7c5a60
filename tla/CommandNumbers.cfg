\* Words of seven bits, with maxima of one digit, of two, and the largest word.
CONSTANTS
    Word = 128
    Spaces = {4, 16, 127}
SPECIFICATION NumbersSpec
INVARIANTS
    TakenAsWritten
\* A command line is read once.
CHECK_DEADLOCK FALSE
