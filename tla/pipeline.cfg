SPECIFICATION FairSpec
CONSTANTS
    Items = {a, b}
    Nobody = Nobody
    ColumnOrder <- BoardColumns
    Trigger <- BoardTrigger
    Exits <- BoardExits
    Agents <- BoardAgents
    AutoProgress <- BoardAutoProgress
    OnFailure <- BoardOnFailure
    NoColumn = NoColumn
    Mishaps = {}
    MaxMishaps = 0
INVARIANTS
    TypeOK
    ExecutionHoldsLock
PROPERTIES
    LockHandedOver
