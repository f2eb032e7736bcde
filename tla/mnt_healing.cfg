SPECIFICATION FairMaintenanceSpec
CONSTANTS
    a = a  b = b  w1 = w1  w2 = w2
    Sections = {a}
    Misconfigured = {}
    Pks = {1}
    Workers = {w1}
    Modes = {TRUE}
    MaxUrls = 1
    BatchSize = 1
    MaxEdits = 1
    MaxFaults = 1
    MaxIndex = 3
    NoIndex = NoIndex
    Ticks = {}
    IndexPath = IndexPath
    Cleanups = TRUE
CHECK_DEADLOCK FALSE
PROPERTIES
    OrphansCollected
    IndexRestored
    DeadLinksHealed
