SPECIFICATION FairSpecFromSmallStart
CONSTANTS
    a = a  b = b  w1 = w1  w2 = w2
    Sections = {a, b}
    Misconfigured = {}
    Pks = {1, 2}
    Workers = {w1}
    Modes = {FALSE, TRUE}
    MaxUrls = 1
    BatchSize = 1
    MaxEdits = 2
    MaxFaults = 1
    MaxIndex = 3
    NoIndex = NoIndex
CHECK_DEADLOCK FALSE
INVARIANTS
    IndexComplete
    NoDeadLinks
    ChecksumOfContents
PROPERTIES
    EventuallyServed
