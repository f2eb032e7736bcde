SPECIFICATION MaintenanceSpec
CONSTANTS
    a = a  b = b  w1 = w1  w2 = w2
    Sections = {a}
    Misconfigured = {}
    Pks = {1, 2}
    Workers = {w1}
    Modes = {FALSE}
    MaxUrls = 1
    BatchSize = 1
    MaxEdits = 2
    MaxFaults = 1
    MaxIndex = 3
    NoIndex = NoIndex
    Ticks = {}
    IndexPath = IndexPath
    Cleanups = FALSE
CHECK_DEADLOCK FALSE
INVARIANT
    FlagHonest
