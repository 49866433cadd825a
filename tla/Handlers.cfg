SPECIFICATION Spec
CONSTANTS
    Runs = {r1, r2}
    Names = {n1}
    Lines = 2
SYMMETRY Symmetry
INVARIANTS
    SuccessIsWhole
    FailureLeavesDraft
    TwinsAreRaced
CHECK_DEADLOCK FALSE
