SPECIFICATION Spec
CONSTANTS
    c1 = c1
    c2 = c2
    u1 = u1
    u2 = u2
    p1 = p1
    p2 = p2
    Commands <- OneCommand
    Users <- TwoUsers
    Presses <- TwoPresses
    Handled <- OneCommand
    Invoices <- NoCommand
    Guarded <- NoCommand
    Wirings <- AsTested
    Levels <- AllFull
    MaxCrashes = 1
SYMMETRY PressUserSymmetry
INVARIANTS
    AtMostOneCreation
    NotRunIsTrue
    CreatedIsTrue
PROPERTIES
    ImplementsLifecycle
CHECK_DEADLOCK FALSE
