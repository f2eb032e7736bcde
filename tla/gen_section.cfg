SPECIFICATION Spec
CONSTANTS
    a = a  b = b  w1 = w1  w2 = w2
    Sections = {a}
    Misconfigured = {}
    Pks = {1, 2, 3, 4}
    Workers = {w1, w2}
    Modes = {FALSE}
    MaxUrls = 3
    BatchSize = 2
    MaxEdits = 2
    MaxFaults = 0
    MaxIndex = 3
    NoIndex = NoIndex
SYMMETRY WorkersAreAlike
CHECK_DEADLOCK FALSE
INVARIANTS
    TypeOK
    NoDuplicateUrls
    ShardsFilled
    NothingMissed
    EntriesWellCut
