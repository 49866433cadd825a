SPECIFICATION Spec
CONSTANTS
    Deployers = {d1, d2}
    Processes = {p1, p2}
    Ticks = 2
    Retention = 0
    PageSize = 1
    MaxRecords = 3
    MaxNow = 4
SYMMETRY Symmetry
INVARIANTS
    MissingIsExplained
    BrokenIsExplained
    EvidenceKept
    PagesAreComplete
CHECK_DEADLOCK FALSE
