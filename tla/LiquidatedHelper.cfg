SPECIFICATION ValuedSpec
CONSTANTS
    c1 = c1
    c2 = c2
    PRECISE_UNIT = 20
    Component = {c1, c2}
    Module = {}
    UnitWriter = {}
    InitialUnit = {39}
    Quantity = {9, 25}
    FeeRate = {6}
    TradeUnit = {}
    TokenAmount = {}
    tokenTransferBuffer = 0
    Loss = {}
    MaxSupply = 60
    MaxBalance = 120
    BaseUnits <- MCBaseUnits
    masterQuoteAsset = c1
    Price = {8}
    ReserveQuantity = {31}
    ManagerFee = {4}
    Premium = {3}
    minSetTokenSupply = 10
    MAX_POSITION_MULTIPLIER = 60
    MaxNavIssued = 25
    MaxNavSteps = 3
    Market = {b1, b2}
    USDC_FACTOR = 2
    ONE_DAY_IN_SECONDS = 2
    LEVER_UP_SLIPPAGE = 2
    maxPerpPositionsPerSet = 2
    SpotPrice = {16, 50}
    PerpQuantity = {14}
    TradeUnits <- MCTradeUnits
    DepositUnits = {18}
    LeverageRatio = {2}
    Slippage = {2}
    PremiumStep <- MCPremiumStep
    PerpFee = {4}
    MaxPerpSupply = 54
    MaxPerpSteps = 5
SYMMETRY Symmetry
INVARIANT HelperAnswersRedemptions
CHECK_DEADLOCK FALSE
