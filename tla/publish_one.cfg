SPECIFICATION Spec
CONSTANTS
    c1 = c1  c2 = c2  c3 = c3  p1 = p1  p2 = p2
    Publishers = {p1}
    Contents = {c1, c2, c3}
    Size <- MCSize
    Absent = Absent
    Truncated = Truncated
    Backends = {"in_place", "generic"}
    TornSaves = FALSE
INVARIANTS
    TypeOK
PROPERTIES
    CompleteCopySurvives
    ReturnedMeansPublished
    AtomicReplacement
