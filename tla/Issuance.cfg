SPECIFICATION Spec
CONSTANTS
    PRECISE_UNIT = 2
    Component = {c1, c2}
    Module = {}
    UnitWriter = {}
    InitialUnit = {1, 3}
    Quantity = {1, 2}
    FeeRate = {0, 1, 2}
    TradeUnit = {0, 3}
    TokenAmount = {1, 2}
    tokenTransferBuffer = 1
    Loss = {0, 1}
    MaxSupply = 4
    MaxBalance = 6
SYMMETRY Symmetry
INVARIANTS Collateralized RedemptionNeverBlocked BufferCoversLoss
CHECK_DEADLOCK FALSE
