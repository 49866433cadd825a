SPECIFICATION Spec
CONSTANTS
    a1 = a1
    a2 = a2
    a3 = a3
    Attempts <- TwoAttempts
    Overlap = TRUE
    SearchSees = TRUE
    LateApply = FALSE
    PathImported = TRUE
    MaxCrashes = 0
SYMMETRY AttemptSymmetry
INVARIANTS
    AtMostOneInvoice
CHECK_DEADLOCK FALSE
