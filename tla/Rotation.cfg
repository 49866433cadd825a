SPECIFICATION Spec
CONSTANTS
    Runs = {r1, r2}
    First = First
    Typo = Typo
SYMMETRY Symmetry
INVARIANTS
    RedisKnown
PROPERTIES
    SuccessIsWhole
    RollbackRestores
    OthersKept
CHECK_DEADLOCK FALSE
