SPECIFICATION Spec
CONSTANTS
    PageSize = 2
    MaxPages = 2
    RankLimit = 1
    MaxRows = 5
    MaxEdits = 1
    UserKeys = {k1, k2}
    MaxHeld = 3
    MaxDeliveries = 2
    MaxChanges = 3
INVARIANTS
    AnswersAreTrue
    ReadingIsWhole
    InsightsAgree
    SearchesAgree
PROPERTIES
    ReadsAreBacked
