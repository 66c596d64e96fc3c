SPECIFICATION IndexSpec
CONSTANTS
    PRECISE_UNIT = 4
    Component = {c1, WETH}
    weth = WETH
    Module = {}
    UnitWriter = {}
    InitialUnit = {5}
    Quantity = {5}
    FeeRate = {0, 1}
    TradeUnit = {}
    TokenAmount = {0, 4}
    tokenTransferBuffer = 0
    Loss = {}
    MaxSupply = 5
    MaxBalance = 10
    TargetUnit = {0, 4}
    Multiplier = {3, 4}
    RaisePercentage = {2}
    MaxSize = {5}
    CoolOff = {0, 1}
    MaxRebalances = 1
INVARIANTS PositionsBacked
PROPERTIES TradeNeverOvershoots FullTradeMeetsTarget RemainingKeepsTargets
CHECK_DEADLOCK FALSE
