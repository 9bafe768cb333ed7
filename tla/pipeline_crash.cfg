SPECIFICATION Spec
CONSTANTS
    Items = {a, b}
    Nobody = Nobody
    ColumnOrder <- DirectColumns
    Trigger <- DirectTrigger
    Exits <- BoardExits
    Agents <- BoardAgents
    AutoProgress <- BoardAutoProgress
    OnFailure <- DirectOnFailure
    NoColumn = NoColumn
    Mishaps = {"restart", "careless"}
    MaxMishaps = 1
SYMMETRY Symmetry
CONSTRAINTS NotStranded FewHandOvers
INVARIANT NoLostWakeup
