SPECIFICATION Spec
CONSTANTS
    Keys = {k1}
    Holders = {a, b}
    Nobody = Nobody
    Tasks = {t1, t2}
    MaxLeases = 3
    MaxAborts = 1
    TtlsElapse = TRUE
SYMMETRY Symmetry
INVARIANTS
    TypeOK
    NoImmortalMetadata
    OneCallPerLease
PROPERTIES
    ImplementsContract
CHECK_DEADLOCK FALSE
