SPECIFICATION Spec
CONSTANTS
    Instance = {i1}
    Request = {r1, r2, r3}
    MaxCtr = 2
    Redis = TRUE
    RedisFails = FALSE
    Serial = FALSE
SYMMETRY CtrSymmetry
CHECK_DEADLOCK FALSE
INVARIANT RepeatIsFlagged
