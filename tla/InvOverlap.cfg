SPECIFICATION Spec
CONSTANTS
    a1 = a1
    a2 = a2
    a3 = a3
    Attempts <- ThreeAttempts
    Overlap = TRUE
    SearchSees = FALSE
    LateApply = TRUE
    PathImported = TRUE
    MaxCrashes = 1
SYMMETRY AttemptSymmetry
INVARIANTS
    SuccessIsTrue
    MilestoneIsTrue
PROPERTIES
    UnknownBlocks
CHECK_DEADLOCK FALSE
