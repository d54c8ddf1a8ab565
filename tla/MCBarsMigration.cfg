SPECIFICATION Spec
CONSTANTS
    LastKey = 2
    BatchSize = 1
    c1 = c1
    c2 = c2
    c3 = c3
    p1 = p1
    p2 = p2
    p3 = p3
    Columns = {c1, c2, c3}
    Payloads = {p1, p2, p3}
    Written <- MCWritten
    RightsTag <- MCRightsTag
    Runs = {r1, r2}
    Copies = {copy1, copy2}
    NoBar = NoBar
    NoTable = NoTable
    NoBatch = NoBatch
INVARIANTS
    ValidatedIsCurrent
    OneCanRollBack
PROPERTIES
    CleanedIsFinal
    PublishedSpec
SYMMETRY Symmetry
CHECK_DEADLOCK FALSE
