SPECIFICATION TransferSpec
CONSTANTS
    t1 = t1
    Asset = {a1}
    User = {u1, u2}
    Key = {k1}
    Trace <- Traces
    Request = {r1, r2, r3}
    MaxCtr = 1
    MaxActions = 1
    Inputs <- RivalInputs
    Moves <- SmallMoves
    Serial = FALSE
SYMMETRY RequestSymmetry
CHECK_DEADLOCK FALSE
INVARIANTS
    TransferTypeOK
    TapMovesOnce
    RecordsAreBacked
    SettledAsAnswered
PROPERTY
    FreshStepsAreLegal
