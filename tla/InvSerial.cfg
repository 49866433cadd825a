SPECIFICATION Spec
CONSTANTS
    a1 = a1
    a2 = a2
    a3 = a3
    Attempts <- ThreeAttempts
    Overlap = FALSE
    SearchSees = FALSE
    LateApply = TRUE
    PathImported = FALSE
    MaxCrashes = 1
SYMMETRY AttemptSymmetry
INVARIANTS
    SecondIsARetry
PROPERTIES
    ImplementsOnce
    NoPostAfterTimeout
CHECK_DEADLOCK FALSE
