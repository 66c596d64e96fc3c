---------------------------- MODULE PerpV2Utils ----------------------------
(***************************************************************************)
(* utils/common/perpV2Utils.ts: what the tests of the perpetual leverage   *)
(* modules expect of them.  What the helpers read from the chain is a      *)
(* parameter:                                                              *)
(*   account     the module's getAccountInfo                               *)
(*   position    market -> base and quote balance, for the markets the     *)
(*               module lists, which a liquidation does not touch          *)
(*   deltaQuote  market -> answer of the fixture's getSwapQuote            *)
(***************************************************************************)
EXTENDS MathUtils, Functions

CONSTANTS USDC_FACTOR,          \* 10 ** 12: eighteen decimals over those of USDC
          LEVER_UP_SLIPPAGE,    \* ether(.02), whatever slippagePercentage was passed
          ONE_DAY_IN_SECONDS

toUSDCDecimals(quantity) == bnDiv(quantity, USDC_FACTOR)

\* The trade leverUp asks for: base quantity and bound on the quote, per set.
leverUp(collateralBalance, totalSupply, spotPrice, leverageRatio, isLong) ==
    LET baseNotional == preciseDiv(collateralBalance * leverageRatio, spotPrice)
        baseUnit == preciseDiv(baseNotional, totalSupply)
        estimatedQuote == bnAbs(preciseMul(baseNotional, spotPrice))
        allowedSlippage == preciseMul(estimatedQuote, LEVER_UP_SLIPPAGE)
    IN  [baseUnit |-> IF isLong THEN baseUnit ELSE -baseUnit,
         quoteUnit |-> preciseDiv(IF isLong THEN estimatedQuote + allowedSlippage
                                  ELSE estimatedQuote - allowedSlippage, totalSupply)]

\* What the position in one market adds to an issue.
issueQuote(baseUnit, setQuantity, deltaQuote, spotPrice) ==
    LET baseNotional == preciseMul(baseUnit, setQuantity)
        isLong == baseNotional >= 0
        idealQuote == preciseMul(baseNotional, spotPrice)
        expectedSlippage == IF isLong THEN deltaQuote - idealQuote
                            ELSE bnAbs(idealQuote) - deltaQuote
    IN  idealQuote + expectedSlippage

calculateUSDCTransferInPreciseUnits(account, position, totalSupply, setQuantity, deltaQuote, spotPrice) ==
    LET totalCollateralValue == account.collateralBalance + account.owedRealizedPnl
                                  + account.netQuoteBalance + account.pendingFundingPayments
        quotes == [b \in DOMAIN position |->
                      issueQuote(preciseDiv(position[b].base, totalSupply), setQuantity,
                                 deltaQuote[b], spotPrice[b])]
    IN  preciseMul(preciseDiv(totalCollateralValue, totalSupply), setQuantity)
          + SumFunctionOnSet(quotes, DOMAIN position)

calculateUSDCTransferIn(account, position, totalSupply, setQuantity, deltaQuote, spotPrice) ==
    toUSDCDecimals(calculateUSDCTransferInPreciseUnits(account, position, totalSupply, setQuantity,
                                                       deltaQuote, spotPrice))

\* Faulty: every position is closed as if it were long.
realizedPnlOfLong(p, totalSupply, setQuantity, deltaQuote) ==
    LET baseNotional == preciseMul(preciseDiv(p.base, totalSupply), setQuantity)
    IN  preciseMul(p.quote, preciseDiv(bnAbs(baseNotional), bnAbs(p.base))) + deltaQuote

\* Profit or loss that closing a share of the position in one market realizes.
realizedPnl(p, totalSupply, setQuantity, deltaQuote) ==
    LET basePositionUnit == preciseDiv(p.base, totalSupply)
        baseNotional == preciseMul(basePositionUnit, setQuantity)
        closeRatio == preciseDiv(bnAbs(baseNotional), bnAbs(p.base))
        reducedOpenNotional == preciseMul(p.quote, closeRatio)
    IN  IF basePositionUnit >= 0 THEN reducedOpenNotional + deltaQuote
        ELSE reducedOpenNotional - deltaQuote

\* closeRatio divides by the base balance: BigNumber throws on zero.
calculateUSDCTransferOutOK(position) == \A b \in DOMAIN position : position[b].base # 0

\* The value that leaves, without its sign.
calculateUSDCTransferOutPreciseUnits(account, position, totalSupply, setQuantity, deltaQuote) ==
    LET totalCollateralBalance == account.collateralBalance + account.owedRealizedPnl
                                    + account.pendingFundingPayments
        pnl == [b \in DOMAIN position |->
                   realizedPnl(position[b], totalSupply, setQuantity, deltaQuote[b])]
    IN  bnAbs(preciseMul(preciseDiv(totalCollateralBalance, totalSupply), setQuantity)
                + SumFunctionOnSet(pnl, DOMAIN position))

calculateUSDCTransferOut(account, position, totalSupply, setQuantity, deltaQuote) ==
    toUSDCDecimals(calculateUSDCTransferOutPreciseUnits(account, position, totalSupply,
                                                        setQuantity, deltaQuote))

calculateExternalPositionUnit(account, totalSupply) ==
    toUSDCDecimals(preciseDiv(account.collateralBalance, totalSupply))

\* twPremium is the market's growth since it was opened, not since the set's position was
\* last settled; its sign is dropped, and taken from the prices of the moment.
getNetFundingGrowth(baseBalance, twPremium, markBelowIndex) ==
    LET fundingGrowth == bnAbs(preciseMul(baseBalance, bnDiv(twPremium, ONE_DAY_IN_SECONDS)))
        isLong == baseBalance > 0
    IN  IF isLong = markBelowIndex THEN fundingGrowth ELSE -fundingGrowth

getUSDCDeltaDueToFundingGrowth(totalSupply, setQuantity, baseBalance, twPremium, markBelowIndex) ==
    preciseMul(preciseDiv(getNetFundingGrowth(baseBalance, twPremium, markBelowIndex), totalSupply),
               setQuantity)

\* A market's leverage counts the whole collateral, and of the quote only its own.
leverageRatio(account, p, indexPrice) ==
    LET positionValue == preciseMul(indexPrice, p.base)
        totalCollateralValue == account.collateralBalance + account.owedRealizedPnl
                                  + account.pendingFundingPayments
    IN  preciseDiv(positionValue, positionValue + totalCollateralValue + p.quote)

calculateLeverageRatios(account, position, indexPrice) ==
    [b \in DOMAIN position |-> leverageRatio(account, position[b], indexPrice[b])]
=============================================================================
