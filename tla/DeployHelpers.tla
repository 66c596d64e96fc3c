--------------------------- MODULE DeployHelpers ---------------------------
(***************************************************************************)
(* The deploy helpers of utils/deploys, and the constructors they call.    *)
(*                                                                         *)
(* A helper passes its arguments on by position, and almost all of them    *)
(* are addresses, so neither TypeScript nor the EVM notices two that are   *)
(* exchanged.  The helpers' side (..Deploys) gives what each passes, by    *)
(* the name the helper has for it; the contracts' side (.._constructor)    *)
(* what each constructor takes it for.  One name is used where the two     *)
(* sides spell the same thing differently.  Linking libraries is left out. *)
(***************************************************************************)
EXTENDS Integers, Sequences, FiniteSets

OfEach(contracts, args) == [c \in contracts |-> args]

\* Two tables in one; where both have an entry, the first counts.
f ++ g == [c \in DOMAIN f \cup DOMAIN g |-> IF c \in DOMAIN f THEN f[c] ELSE g[c]]

-----------------------------------------------------------------------------
(* Helpers: contract -> arguments passed to its constructor *)

CoreDeploys ==
       OfEach({"SetTokenCreator", "IntegrationRegistry", "SetValuer"}, <<"controller">>)
    ++ [Controller |-> <<"feeRecipient">>,
        SetToken |-> <<"components", "units", "modules", "controller", "manager", "name",
            "symbol">>,
        PriceOracle |-> <<"controller", "masterQuoteAsset", "adapters", "assetOnes",
            "assetTwos", "oracles">>]

ModuleDeploys ==
       OfEach({"BasicIssuanceModule", "IssuanceModule", "DebtIssuanceModule",
               "DebtIssuanceModuleV2", "SlippageIssuanceModule", "AmmModule",
               "StreamingFeeModule", "AirdropModule", "TradeModule", "ClaimModule",
               "StakingModule", "RebasingComponentModule", "GovernanceModule"}, <<"controller">>)
    ++ OfEach({"WrapModule", "CustomOracleNavIssuanceModule", "GeneralIndexModule"},
              <<"controller", "weth">>)
    ++ [DebtIssuanceModuleV3 |-> <<"controller", "tokenTransferBuffer">>,
        SingleIndexModule |-> <<"controller", "weth", "uniswapRouter", "sushiswapRouter",
            "balancerProxy">>]

IntegratedModuleDeploys ==
       OfEach({"AaveLeverageModule", "AaveV3LeverageModule"},
              <<"controller", "lendingPoolAddressesProvider">>)
    ++ OfEach({"PerpV2LeverageModuleV2", "PerpV2BasisTradingModule"},
              <<"controller", "perpVault", "perpQuoter", "perpMarketRegistry",
                "maxPerpPositionsPerSet">>)
    ++ [AuctionRebalanceModuleV1 |-> <<"controller">>,
        WrapModuleV2 |-> <<"controller", "weth">>,
        CompoundLeverageModule |-> <<"controller", "compToken", "comptroller", "cEther",
            "weth">>,
        MorphoLeverageModule |-> <<"controller", "morpho">>,
        NotionalTradeModule |-> <<"controller", "wrappedfCashFactory", "weth", "notionalV2",
            "decodedIdGasLimit">>]

AdapterDeploys ==
       OfEach({"UniswapV2AmmAdapter", "UniswapV2ExchangeAdapter",
               "UniswapV2TransferFeeExchangeAdapter", "UniswapV2ExchangeAdapterV2",
               "UniswapV2IndexExchangeAdapter"}, <<"uniswapV2Router">>)
    ++ [KyberExchangeAdapter |-> <<"kyberNetworkProxy">>,
        OneInchExchangeAdapter |-> <<"approveAddress", "exchangeAddress",
            "swapFunctionSignature">>,
        AaveGovernanceV2Adapter |-> <<"aaveGovernanceV2", "aaveToken">>,
        CompClaimAdapter |-> <<"comptroller">>,
        BalancerV1IndexExchangeAdapter |-> <<"balancerProxy">>,
        BalancerV2ExchangeAdapter |-> <<"balancerVault">>,
        CompoundLikeGovernanceAdapter |-> <<"governorAlpha", "governanceToken">>,
        CompoundBravoGovernanceAdapter |-> <<"governorBravo", "governanceToken">>,
        CurveStakingAdapter |-> <<"gaugeController">>,
        RgtMigrationWrapAdapter |-> <<"pegExchanger">>]

ExchangeAdapterDeploys ==
       OfEach({"UniswapV3IndexExchangeAdapter", "UniswapV3ExchangeAdapter",
               "UniswapV3ExchangeAdapterV2", "UniswapV3ExchangeAdapterV3"}, <<"swapRouter">>)
    ++ [UniswapPairPriceAdapter |-> <<"controller", "uniswapFactory", "uniswapPools">>,
        ZeroExApiAdapter |-> <<"zeroEx", "weth">>,
        SnapshotGovernanceAdapter |-> <<"delegateRegistry">>,
        SynthetixExchangeAdapter |-> <<"synthetixExchanger">>,
        KyberV3IndexExchangeAdapter |-> <<"dmmRouter", "dmmFactory">>]

WrapAndPriceAdapterDeploys ==
       OfEach({"CompoundWrapV2Adapter", "YearnWrapV2Adapter", "ERC4626WrapV2Adapter",
               "ConstantPriceAdapter", "BoundedStepwiseLinearPriceAdapter",
               "BoundedStepwiseLogarithmicPriceAdapter",
               "BoundedStepwiseExponentialPriceAdapter"}, <<>>)
    ++ [CompoundV3WrapV2Adapter |-> <<"comet">>,
        AaveV2WrapV2Adapter |-> <<"lendingPool">>,
        AaveV3WrapV2Adapter |-> <<"pool">>,
        ERC4626ExchangeAdapter |-> <<"vault">>,
        CurveExchangeAdapter |-> <<"tokenA", "tokenB", "tokenAIndex", "tokenBIndex",
            "stableswap">>,
        CurveStEthExchangeAdapter |-> <<"weth", "steth", "stableswap">>]

LibraryDeploys ==
    OfEach({"Compound", "AaveV2", "AaveV3", "Morpho", "PerpV2", "PositionV2", "PerpV2LibraryV2",
            "PerpV2Positions"}, <<>>)

ProductDeploys ==
       [AssetLimitHook |-> <<"assets", "limits">>,
        AMMSplitter |-> <<"uniRouter", "sushiRouter", "uniFactory", "sushiFactory">>,
        BridgedSetToken |-> <<"name", "symbol">>,
        CachedSetValuer |-> <<"controller", "setValuer", "rebasingModule", "maxStaleness">>]

OracleDeploys ==
       [CTokenOracle |-> <<"cToken", "underlyingOracle", "cTokenFullUnit",
            "underlyingFullUnit", "dataDescription">>,
        YearnVaultOracle |-> <<"vault", "underlyingOracle", "underlyingFullUnit",
            "dataDescription">>,
        ERC4626Oracle |-> <<"vault", "dataDescription">>,
        PreciseUnitOracle |-> <<"dataDescription">>]

\* Faulty: two addresses are exchanged.
viewerExchanged ==
       [ProtocolViewer |-> <<>>,
        PerpV2LeverageModuleViewer |-> <<"perpModule", "perpClearingHouseConfig",
            "perpAccountBalance", "vQuoteToken">>]

ViewerDeploys ==
       [ProtocolViewer |-> <<>>,
        PerpV2LeverageModuleViewer |-> <<"perpModule", "perpAccountBalance",
            "perpClearingHouseConfig", "vQuoteToken">>]

Deploys ==
    CoreDeploys ++ ModuleDeploys ++ IntegratedModuleDeploys ++ AdapterDeploys
        ++ ExchangeAdapterDeploys ++ WrapAndPriceAdapterDeploys ++ LibraryDeploys
        ++ ProductDeploys ++ OracleDeploys ++ ViewerDeploys

-----------------------------------------------------------------------------
(* Constructors with more than one parameter *)

SetToken_constructor ==
    <<"components", "units", "modules", "controller", "manager", "name", "symbol">>
PriceOracle_constructor ==
    <<"controller", "masterQuoteAsset", "adapters", "assetOnes", "assetTwos", "oracles">>
DebtIssuanceModuleV3_constructor == <<"controller", "tokenTransferBuffer">>
WrapModule_constructor == <<"controller", "weth">>
WrapModuleV2_constructor == <<"controller", "weth">>
CustomOracleNavIssuanceModule_constructor == <<"controller", "weth">>
GeneralIndexModule_constructor == <<"controller", "weth">>
SingleIndexModule_constructor ==
    <<"controller", "weth", "uniswapRouter", "sushiswapRouter", "balancerProxy">>
CompoundLeverageModule_constructor == <<"controller", "compToken", "comptroller", "cEther", "weth">>
AaveLeverageModule_constructor == <<"controller", "lendingPoolAddressesProvider">>
AaveV3LeverageModule_constructor == <<"controller", "lendingPoolAddressesProvider">>
MorphoLeverageModule_constructor == <<"controller", "morpho">>
NotionalTradeModule_constructor ==
    <<"controller", "wrappedfCashFactory", "weth", "notionalV2", "decodedIdGasLimit">>
PerpV2LeverageModuleV2_constructor ==
    <<"controller", "perpVault", "perpQuoter", "perpMarketRegistry", "maxPerpPositionsPerSet">>
PerpV2BasisTradingModule_constructor ==
    <<"controller", "perpVault", "perpQuoter", "perpMarketRegistry", "maxPerpPositionsPerSet">>
AssetLimitHook_constructor == <<"assets", "limits">>
AMMSplitter_constructor == <<"uniRouter", "sushiRouter", "uniFactory", "sushiFactory">>
BridgedSetToken_constructor == <<"name", "symbol">>
CachedSetValuer_constructor == <<"controller", "setValuer", "rebasingModule", "maxStaleness">>
CTokenOracle_constructor ==
    <<"cToken", "underlyingOracle", "cTokenFullUnit", "underlyingFullUnit", "dataDescription">>
YearnVaultOracle_constructor ==
    <<"vault", "underlyingOracle", "underlyingFullUnit", "dataDescription">>
ERC4626Oracle_constructor == <<"vault", "dataDescription">>
PerpV2LeverageModuleViewer_constructor ==
    <<"perpModule", "perpAccountBalance", "perpClearingHouseConfig", "vQuoteToken">>
OneInchExchangeAdapter_constructor ==
    <<"approveAddress", "exchangeAddress", "swapFunctionSignature">>
AaveGovernanceV2Adapter_constructor == <<"aaveGovernanceV2", "aaveToken">>
CompoundLikeGovernanceAdapter_constructor == <<"governorAlpha", "governanceToken">>
CompoundBravoGovernanceAdapter_constructor == <<"governorBravo", "governanceToken">>
UniswapPairPriceAdapter_constructor == <<"controller", "uniswapFactory", "uniswapPools">>
ZeroExApiAdapter_constructor == <<"zeroEx", "weth">>
KyberV3IndexExchangeAdapter_constructor == <<"dmmRouter", "dmmFactory">>
CurveExchangeAdapter_constructor ==
    <<"tokenA", "tokenB", "tokenAIndex", "tokenBIndex", "stableswap">>
CurveStEthExchangeAdapter_constructor == <<"weth", "steth", "stableswap">>

OwnConstructors ==
    [SetToken |-> SetToken_constructor,
     PriceOracle |-> PriceOracle_constructor,
     DebtIssuanceModuleV3 |-> DebtIssuanceModuleV3_constructor,
     WrapModule |-> WrapModule_constructor,
     WrapModuleV2 |-> WrapModuleV2_constructor,
     CustomOracleNavIssuanceModule |-> CustomOracleNavIssuanceModule_constructor,
     GeneralIndexModule |-> GeneralIndexModule_constructor,
     SingleIndexModule |-> SingleIndexModule_constructor,
     CompoundLeverageModule |-> CompoundLeverageModule_constructor,
     AaveLeverageModule |-> AaveLeverageModule_constructor,
     AaveV3LeverageModule |-> AaveV3LeverageModule_constructor,
     MorphoLeverageModule |-> MorphoLeverageModule_constructor,
     NotionalTradeModule |-> NotionalTradeModule_constructor,
     PerpV2LeverageModuleV2 |-> PerpV2LeverageModuleV2_constructor,
     PerpV2BasisTradingModule |-> PerpV2BasisTradingModule_constructor,
     AssetLimitHook |-> AssetLimitHook_constructor,
     AMMSplitter |-> AMMSplitter_constructor,
     BridgedSetToken |-> BridgedSetToken_constructor,
     CachedSetValuer |-> CachedSetValuer_constructor,
     CTokenOracle |-> CTokenOracle_constructor,
     YearnVaultOracle |-> YearnVaultOracle_constructor,
     ERC4626Oracle |-> ERC4626Oracle_constructor,
     PerpV2LeverageModuleViewer |-> PerpV2LeverageModuleViewer_constructor,
     OneInchExchangeAdapter |-> OneInchExchangeAdapter_constructor,
     AaveGovernanceV2Adapter |-> AaveGovernanceV2Adapter_constructor,
     CompoundLikeGovernanceAdapter |-> CompoundLikeGovernanceAdapter_constructor,
     CompoundBravoGovernanceAdapter |-> CompoundBravoGovernanceAdapter_constructor,
     UniswapPairPriceAdapter |-> UniswapPairPriceAdapter_constructor,
     ZeroExApiAdapter |-> ZeroExApiAdapter_constructor,
     KyberV3IndexExchangeAdapter |-> KyberV3IndexExchangeAdapter_constructor,
     CurveExchangeAdapter |-> CurveExchangeAdapter_constructor,
     CurveStEthExchangeAdapter |-> CurveStEthExchangeAdapter_constructor]

\* Every other module hands its only parameter to ModuleBase.
ModuleBase_constructor == <<"controller">>
Constructors ==
    OfEach({c \in DOMAIN ModuleDeploys : Len(ModuleDeploys[c]) = 1}, ModuleBase_constructor)
        ++ OwnConstructors
=============================================================================
