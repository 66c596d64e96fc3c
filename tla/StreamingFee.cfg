SPECIFICATION FeeSpec
CONSTANTS
    PRECISE_UNIT = 10
    Component = {c1}
    Module = {}
    UnitWriter = {}
    InitialUnit = {5, 14}
    Quantity = {7, 10}
    FeeRate = {0, 3}
    TradeUnit = {}
    TokenAmount = {}
    tokenTransferBuffer = 0
    Loss = {}
    MaxSupply = 36
    MaxBalance = 60
    ONE_YEAR = 2
    StreamingRate = {0, 1, 4}
    MaxElapsed = 5
    MaxIssued = 24
INVARIANTS ShortfallBounded HelpersPredictAccrual
PROPERTIES FeeShareBounded BlockedAccrualIsFinal
CHECK_DEADLOCK FALSE
