SPECIFICATION ModuleSpec
CONSTANTS
    PRECISE_UNIT = 4
    Component = {c1, c2}
    Module = {}
    UnitWriter = {}
    NULL = NULL
    InitialUnit = {5}
    Quantity = {5}
    FeeRate = {0, 1}
    TradeUnit = {}
    TokenAmount = {}
    tokenTransferBuffer = 0
    Loss = {}
    MaxSupply = 5
    MaxBalance = 8
    TargetUnit = {0, 6}
    Duration = {1}
    Multiplier = {3, 4}
    RaisePercentage = {2}
    Price = {3}
    MaxRebalances = 1
    Bidder = {b1, b2, b3, b4}
    BatchSize = 2
SYMMETRY Symmetry
INVARIANTS UnlockableAfterDuration
CHECK_DEADLOCK FALSE
