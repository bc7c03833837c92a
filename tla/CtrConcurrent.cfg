SPECIFICATION CalSpec
CONSTANTS
    Instance = {i1}
    Request = {r1, r2}
    MaxCtr = 2
    Redis = TRUE
    RedisFails = TRUE
    Serial = FALSE
    Threshold = 1
    MaxRuns = 1
SYMMETRY CtrSymmetry
CHECK_DEADLOCK FALSE
INVARIANTS
    CalTypeOK
    CachesHoldCommitted
    FlagIsJustified
    CalibrationKeepsMax
