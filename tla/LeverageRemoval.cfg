SPECIFICATION LeverageSpec
CONSTANTS
    PRECISE_UNIT = 2
    Component = {aWETH, USDC}
    Module = {AaveLeverageModule}
    UnitWriter = {}
    InitialUnit = {2}
    Quantity = {1, 2}
    FeeRate = {0, 1}
    TradeUnit = {0, 2}
    TokenAmount = {0, 1, 2}
    tokenTransferBuffer = 0
    Loss = {0}
    MaxSupply = 2
    MaxBalance = 3
    leverageModule = AaveLeverageModule
    Collateral = {aWETH}
    BorrowAsset = {USDC}
    ControllerMayDisable = FALSE
    MaxDebt = 2
    ChecksEveryTransfer = FALSE
    AaveValue <- MCAaveValue
INVARIANT RemovedModuleLeavesNoPosition
CHECK_DEADLOCK FALSE
