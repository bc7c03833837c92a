SPECIFICATION Spec
CONSTANTS
    Request = {1, 2, 3}
    Seed = {0}
    plain = plain
    blank = blank
    other = other
    Email <- MCEmail
    Trimmed <- MCTrimmed
    Asks <- MCAsks
    MaxReads = 1
    None = None
CHECK_DEADLOCK FALSE
INVARIANTS
    TypeOK
    AlwaysAKey
    OldKeyDies
    EmailOnce
    BoundaryHolds
    ClosedByOne
