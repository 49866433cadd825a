SPECIFICATION IdentitySpec
CONSTANTS
    t1 = t1
    t2 = t2
    d1 = d1
    d2 = d2
    r1 = r1
    r2 = r2
    None = None
    TgUsers <- TwoTgUsers
    ErpUsers <- TwoErpUsers
    Requests <- TwoRequests
    MaxKeys = 2
    MaxOperator = 3
SYMMETRY Symmetry
INVARIANTS
    OneToOne
    OperatorWins
    OffMeansDenied
