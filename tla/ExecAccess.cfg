SPECIFICATION FairSpec
CONSTANTS
    c1 = c1
    c2 = c2
    u1 = u1
    u2 = u2
    p1 = p1
    p2 = p2
    Commands <- TwoCommands
    Users <- OneUser
    Presses <- OnePress
    Handled <- OneCommand
    Invoices <- SecondCommand
    Guarded <- TwoCommands
    Wirings <- AnyWiring
    Levels <- AnyLevel
    MaxCrashes = 1
PROPERTIES
    PressAnswered
    ConfirmedEnds
    OrphansStay
CHECK_DEADLOCK FALSE
