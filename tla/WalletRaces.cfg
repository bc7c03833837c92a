SPECIFICATION Spec
CONSTANTS
    User = {u1, u2}
    Asset = {a1, a2}
    Task = {1, 2}
    Nobody = Nobody
    Pages = {0, 1}
    PageSize = 1
    MaxMoves = 1
    MaxFaults = 1
CHECK_DEADLOCK FALSE
INVARIANTS
    TypeOK
    NeverForeign
    NothingSoldStays
PROPERTY
    SnapshotHeals
