\* Every failure, kill and power loss around saves of two documents.
CONSTANTS
    first = first
    second = second
    i1 = i1
    i2 = i2
    i3 = i3
    i4 = i4
    Documents = {first, second}
    Inodes = {i1, i2, i3, i4}
    NoInode = NoInode
    Absent = Absent
    Partial = Partial
SYMMETRY Symmetry
SPECIFICATION Spec
INVARIANTS
    SavedSurvives
    NoLitter
PROPERTIES
    ImplementsFile
