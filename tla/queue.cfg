SPECIFICATION Spec
CONSTANTS
    Items = {a, b}
    ColumnOrder <- MCColumns
    Trigger <- MCTrigger
    Callers = {c1, c2}
    NoItem = NoItem
    MaxMoves = 1
    MaxCuts = 1
SYMMETRY Symmetry
INVARIANTS
    TypeOK
    EntryHasMetadata
    NoOrphanIndex
    TopmostFirst
