SPECIFICATION FairSpec
CONSTANTS
    r1 = r1
    r2 = r2
    Runs = {r1, r2}
    Items = {i1}
    Types <- TypesPerRun
    MaxIterations <- IterationsPerRun
    CheckpointInterval = 2
    MaxTransient = 1
    MaxRebuilds = 2
    MaxAttempts = 2
    WithCI = {r1}
    OnFailure <- FailureColumns
    MaxMoves = 1
INVARIANTS
    TypeOK
    PassIsLastWord
    SuccessCoversEveryType
    FailuresGetAFix
    CheckpointIsOwn
    CardWaitsForReport
PROPERTY RepairEnds
CHECK_DEADLOCK FALSE
