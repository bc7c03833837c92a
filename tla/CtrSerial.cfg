SPECIFICATION Spec
CONSTANTS
    Instance = {i1}
    Request = {r1, r2, r3}
    MaxCtr = 3
    Redis = TRUE
    RedisFails = FALSE
    Serial = TRUE
SYMMETRY CtrSymmetry
CHECK_DEADLOCK FALSE
INVARIANTS
    RepeatIsFlagged
    BufferKeepsUp
