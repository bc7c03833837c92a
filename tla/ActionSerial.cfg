SPECIFICATION Spec
CONSTANTS
    t1 = t1
    t2 = t2
    Asset = {a1}
    User = {u1}
    Key = {k1, k2}
    Trace <- Traces
    Request = {r1, r2, r3}
    Inputs <- SerialInputs
    Serial = TRUE
CHECK_DEADLOCK FALSE
SYMMETRY RequestSymmetry
INVARIANTS
    TerminalIsFinal
    FreezeBlocksBusiness
    OneExecutionPerKey
    OwnershipCoherent
PROPERTIES
    ImplementsLifecycle
