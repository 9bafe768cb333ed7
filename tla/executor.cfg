SPECIFICATION FairSpec
CONSTANTS
    Items = {i1}
    Calls = {c1, c2}
    MaxRuns = 1
    MaxRetries = 1
    MaxCancels = 2
    MaxFaults = 1
INVARIANTS
    TypeOK
    ReportedOnce
    DuplicateOnlyByRace
    GuardHasTask
    ReportMatchesStream
PROPERTY ExecutionEnds
CHECK_DEADLOCK FALSE
