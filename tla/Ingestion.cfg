SPECIFICATION FairSpec
CONSTANTS
    h1 = h1
    r1 = r1
    r2 = r2
    r3 = r3
    None = None
    Documents <- OneDocument
    Runs <- ThreeRuns
    MaxAutoRetries = 3
    MaxCommands = 3
    MaxCrashes = 1
INVARIANTS
    OneCommand
    RetryableHasFile
    ProcessingIsTrue
PROPERTIES
    ProcessingEnds
