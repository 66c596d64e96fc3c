SPECIFICATION LeverageSpec
CONSTANTS
    PRECISE_UNIT = 3
    Component = {aWETH, USDC}
    Module = {AaveLeverageModule}
    UnitWriter = {}
    InitialUnit = {3}
    Quantity = {1, 2}
    FeeRate = {0, 3}
    TradeUnit = {0, 3}
    TokenAmount = {0, 1, 2}
    tokenTransferBuffer = 0
    Loss = {0}
    MaxSupply = 2
    MaxBalance = 2
    leverageModule = AaveLeverageModule
    Collateral = {aWETH}
    BorrowAsset = {USDC}
    ControllerMayDisable = TRUE
    MaxDebt = 2
    ChecksEveryTransfer = TRUE
    AaveValue <- MCAaveValue
INVARIANTS HealthyLeverageRedeemable DebtIsTracked
PROPERTIES SupplyChangeCoversDebt OnlyInterestUncoversDebt
CHECK_DEADLOCK FALSE
