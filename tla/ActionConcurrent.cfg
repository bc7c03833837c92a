SPECIFICATION Spec
CONSTANTS
    t1 = t1
    t2 = t2
    Asset = {a1}
    User = {u1, u2}
    Key = {k1, k2}
    Trace <- Traces
    Request = {r1, r2}
    Inputs <- ConcurrentInputs
    Serial = FALSE
SYMMETRY RequestSymmetry
CHECK_DEADLOCK FALSE
INVARIANTS
    TypeOK
    AuditExplainsSteps
    RowMatchesAudit
    FrozenIsRecoverable
    RetryNeverReexecutes
    AnswersAreTrue
