SPECIFICATION Spec
CONSTANTS
    a = a  b = b  w1 = w1  w2 = w2
    Sections = {a}
    Misconfigured = {}
    Pks = {1, 2}
    Workers = {w1}
    Modes = {FALSE}
    MaxUrls = 1
    BatchSize = 1
    MaxEdits = 2
    MaxFaults = 0
    MaxIndex = 3
    NoIndex = NoIndex
CHECK_DEADLOCK FALSE
INVARIANTS
    FlagCoversEdits
