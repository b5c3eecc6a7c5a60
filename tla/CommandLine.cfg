\* Two calls of any commands on archives of up to two pairs.
CONSTANTS
    Procs = {p1, p2}
    MaxListed = 2
    NoFile = NoFile
    UsersFile = UsersFile
SPECIFICATION MainSpec
INVARIANTS
    SuccessIsEarned
