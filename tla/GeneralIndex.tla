---------------------------- MODULE GeneralIndex ----------------------------
(***************************************************************************)
(* GeneralIndexModule on one set: the manager fixes target units, traders  *)
(* swap each component against WETH on an exchange until the targets are   *)
(* met, in trades of at most maxSize with a pause in between, and nothing  *)
(* is locked: sets are issued and redeemed and other modules scale the     *)
(* multiplier meanwhile.                                                   *)
(*                                                                         *)
(* Traders' permissions are kept as the bidders' of AuctionBidders.tla.    *)
(* The exchange is external: it takes exactly what is sold and gives what  *)
(* it likes, or gives exactly what is bought and takes what it likes up to *)
(* the set's balance; the trader's limits, and an exchange or adapter that *)
(* refuses, are the step not being taken.  The clock only matters as the   *)
(* time since a component's last trade.  An array of settings is one call  *)
(* per element here.                                                       *)
(***************************************************************************)
EXTENDS Issuance

CONSTANTS weth,             \* the asset all trades go through
          TargetUnit,       \* target units a manager sets
          Multiplier,       \* multipliers, of the set and assumed by the manager
          RaisePercentage,  \* values of raiseTargetPercentage
          MaxSize,          \* values of maxSize
          CoolOff,          \* values of coolOffPeriod
          MaxRebalances     \* bound on the rebalances started

ASSUME IndexAssumption ==
    /\ weth \in Component
    /\ TargetUnit \subseteq Nat /\ Multiplier \subseteq 1..PRECISE_UNIT
    /\ RaisePercentage \subseteq Nat /\ MaxSize \subseteq Nat
    /\ IsFiniteSet(CoolOff) /\ CoolOff \subseteq Nat /\ 0 \in CoolOff
    /\ MaxRebalances \in Nat

VARIABLES isInitialized,         \* the set has initialized the module
          targetUnit,            \* executionInfo[set][c]: targetUnit,
          maxSize,               \*   maxSize,
          coolOffPeriod,         \*   coolOffPeriod,
          sinceTrade,            \*   now - lastTradeTimestamp, at most LongestCoolOff
          positionMultiplier,    \* rebalanceInfo[set]: positionMultiplier,
          raiseTargetPercentage, \*   raiseTargetPercentage,
          rebalanceComponents,   \*   rebalanceComponents
          rebalances             \* rebalances started (history)

settings == <<maxSize, coolOffPeriod>>

rebalanceInfo == <<positionMultiplier, raiseTargetPercentage, rebalanceComponents>>

indexVars == <<vars, isInitialized, targetUnit, settings, sinceTrade, rebalanceInfo, rebalances>>

\* Longer ago than any cool-off period.
LongestCoolOff == CHOOSE t \in CoolOff : \A u \in CoolOff : u <= t

IndexInit ==
    /\ Init
    /\ isInitialized = FALSE
    /\ targetUnit = [c \in Component |-> 0]
    /\ maxSize = [c \in Component |-> 0]
    /\ coolOffPeriod = [c \in Component |-> 0]
    /\ sinceTrade = [c \in Component |-> LongestCoolOff]
    /\ positionMultiplier = 0
    /\ raiseTargetPercentage = 0
    /\ rebalanceComponents = <<>>
    /\ rebalances = 0

-----------------------------------------------------------------------------
(* Targets.                                                                 *)

\* A division by a multiplier of zero reverts: every use is guarded by it.
getNormalizedTargetUnit(c) ==
    (targetUnit[c] * pos.positionMultiplier) \div positionMultiplier

currentNotional(c) == getDefaultTotalNotional(totalSupply, unit(c))
targetNotional(c) == preciseMulCeil(totalSupply, getNormalizedTargetUnit(c))

\* A target is met within one unit; a target of zero only exactly.
targetUnmet(c) ==
    LET target == getNormalizedTargetUnit(c)
    IN  /\ c # weth
        /\ IF target > 0 THEN ~ approximatelyEquals(target, unit(c), 1) ELSE target # unit(c)

\* The subtraction in approximatelyEquals reverts the whole call.
targetUnmetReverts(c) ==
    LET target == getNormalizedTargetUnit(c)
    IN  /\ c # weth
        /\ target > 0
        /\ approximatelyEqualsReverts(target, unit(c), 1)

\* The loop stops at the first unmet target, and reverts if a reverting one
\* comes before it.
allTargetsMet == \A i \in DOMAIN rebalanceComponents : ~ targetUnmet(rebalanceComponents[i])
allTargetsMetReverts ==
    \E i \in DOMAIN rebalanceComponents :
        /\ targetUnmetReverts(rebalanceComponents[i])
        /\ \A j \in 1..(i - 1) : ~ targetUnmet(rebalanceComponents[j])

canSell(c) == c # weth /\ getNormalizedTargetUnit(c) < unit(c)
noTokensToSell == \A c \in Range(rebalanceComponents) : ~ canSell(c)

-----------------------------------------------------------------------------
(* Calls of the manager.                                                    *)

\* Targets are what the set has, so that nothing is to be traded.
initialize ==
    /\ ~ isInitialized
    /\ isInitialized' = TRUE
    /\ targetUnit' = [c \in Component |-> IF isComponent(pos, c) THEN unit(c) ELSE targetUnit[c]]
    /\ sinceTrade' = [c \in Component |-> IF isComponent(pos, c) THEN LongestCoolOff ELSE sinceTrade[c]]
    /\ positionMultiplier' = pos.positionMultiplier
    /\ UNCHANGED <<vars, settings, raiseTargetPercentage, rebalanceComponents, rebalances>>

\* The set removes the module; executionInfo is kept.
removeModule ==
    /\ isInitialized
    /\ isInitialized' = FALSE
    /\ positionMultiplier' = 0
    /\ raiseTargetPercentage' = 0
    /\ rebalanceComponents' = <<>>
    /\ UNCHANGED <<vars, targetUnit, settings, sinceTrade, rebalances>>

startRebalance(newComponents, targets, initialMultiplier) ==
    LET aggregateComponents == extend(pos.components, newComponents)
    IN  /\ isInitialized
        /\ ~ hasDuplicate(aggregateComponents)
        /\ \A c \in Range(aggregateComponents) : ~ hasExternalPosition(pos, c)
        /\ rebalances < MaxRebalances
        /\ rebalances' = rebalances + 1
        /\ targetUnit' = [c \in Component |->
                            IF contains(aggregateComponents, c) THEN targets[c] ELSE targetUnit[c]]
        /\ rebalanceComponents' = aggregateComponents
        /\ positionMultiplier' = initialMultiplier
        /\ UNCHANGED <<vars, isInitialized, settings, sinceTrade, raiseTargetPercentage>>

setTradeMaximums(c, size) ==
    /\ isInitialized
    /\ maxSize' = [maxSize EXCEPT ![c] = size]
    /\ UNCHANGED <<vars, isInitialized, targetUnit, coolOffPeriod, sinceTrade, rebalanceInfo, rebalances>>

setCoolOffPeriods(c, period) ==
    /\ isInitialized
    /\ coolOffPeriod' = [coolOffPeriod EXCEPT ![c] = period]
    /\ UNCHANGED <<vars, isInitialized, targetUnit, maxSize, sinceTrade, rebalanceInfo, rebalances>>

setRaiseTargetPercentage(percentage) ==
    /\ isInitialized
    /\ percentage > 0
    /\ raiseTargetPercentage' = percentage
    /\ UNCHANGED <<vars, isInitialized, targetUnit, settings, sinceTrade, positionMultiplier,
                   rebalanceComponents, rebalances>>

-----------------------------------------------------------------------------
(* Calls of traders.                                                        *)

validateTradeParameters(c) ==
    /\ isInitialized
    /\ positionMultiplier # 0
    /\ c # weth
    /\ contains(rebalanceComponents, c)
    /\ coolOffPeriod[c] <= sinceTrade[c]
    /\ ~ hasExternalPosition(pos, c)

isSendTokenFixed(c) == targetNotional(c) < currentNotional(c)

\* Faulty: no more than the maximum, but not what is left either.
tradeSizeUnlimited(c, protocolFee) == maxSize[c]
\* Faulty: a purchase is not enlarged by the fee.
tradeSizeBeforeFee(c, protocolFee) ==
    LET left == abs(targetNotional(c) - currentNotional(c))
    IN  IF left <= maxSize[c] THEN left ELSE maxSize[c]
\* What is left to trade, within the maximum; a purchase is enlarged by the fee.
tradeSize(c, protocolFee) ==
    LET left == IF isSendTokenFixed(c)
                THEN currentNotional(c) - targetNotional(c)
                ELSE preciseDiv(targetNotional(c) - currentNotional(c), PRECISE_UNIT - protocolFee)
    IN  IF left <= maxSize[c] THEN left ELSE maxSize[c]

\* The end of both kinds of trade: what the exchange took and gave, the fee, the
\* positions and the time of the trade.
executeTrade(c, sendToken, sent, receiveToken, received, protocolFee) ==
    LET newBalance == [balance EXCEPT ![sendToken] = @ - sent,
                                      ![receiveToken] = @ + received - preciseMul(received, protocolFee)]
        afterSend == calculateAndEditDefaultPosition(pos, sendToken, totalSupply,
                                                     balance[sendToken], newBalance[sendToken])
    IN  /\ sent <= balance[sendToken]
        /\ newBalance[receiveToken] >= balance[receiveToken]
        /\ calculateAndEditDefaultPositionOK(pos, sendToken, totalSupply,
                                             balance[sendToken], newBalance[sendToken])
        /\ calculateAndEditDefaultPositionOK(afterSend, receiveToken, totalSupply,
                                             balance[receiveToken], newBalance[receiveToken])
        /\ pos' = calculateAndEditDefaultPosition(afterSend, receiveToken, totalSupply,
                                                  balance[receiveToken], newBalance[receiveToken])
        /\ balance' = newBalance
        /\ WithinBounds(totalSupply, balance')
        /\ sinceTrade' = [sinceTrade EXCEPT ![c] = 0]
        /\ UNCHANGED <<totalSupply, isInitialized, targetUnit, settings, rebalanceInfo, rebalances>>

\* ethQuantity is what the exchange gives in a sale and takes in a purchase.
trade(c, ethQuantity, protocolFee) ==
    /\ validateTradeParameters(c)
    /\ unit(c) # getNormalizedTargetUnit(c)
    /\ IF isSendTokenFixed(c)
       THEN executeTrade(c, c, tradeSize(c, protocolFee), weth, ethQuantity, protocolFee)
       ELSE /\ protocolFee < PRECISE_UNIT
            /\ executeTrade(c, weth, ethQuantity, c, tradeSize(c, protocolFee), protocolFee)

\* Faulty: the target is not normalized.
remainingAboveRawTarget == currentNotional(weth) - preciseMulCeil(totalSupply, targetUnit[weth])
\* The subtraction reverts below zero.
remainingWETH == currentNotional(weth) - targetNotional(weth)

\* The target of WETH is compared as the manager gave it, then normalized.  Unlike
\* a trade it may not reach the maximum; the fee counts as part of the trade.
tradeRemainingWETH(c, received, protocolFee) ==
    /\ validateTradeParameters(c)
    /\ noTokensToSell
    /\ targetUnit[weth] < unit(weth)
    /\ remainingWETH >= 0
    /\ executeTrade(c, weth, remainingWETH, c, received, protocolFee)
    /\ received < maxSize[c]
    /\ unit(c)' <= getNormalizedTargetUnit(c)'

raiseAssetTargets ==
    /\ positionMultiplier # 0
    /\ ~ allTargetsMetReverts
    /\ allTargetsMet
    /\ unit(weth) > getNormalizedTargetUnit(weth)
    /\ positionMultiplier' = preciseDiv(positionMultiplier, PRECISE_UNIT + raiseTargetPercentage)
    /\ UNCHANGED <<vars, isInitialized, targetUnit, settings, sinceTrade, raiseTargetPercentage,
                   rebalanceComponents, rebalances>>

-----------------------------------------------------------------------------
(* The surroundings.                                                        *)

Tick ==
    /\ sinceTrade' = [c \in Component |->
                        IF sinceTrade[c] < LongestCoolOff THEN sinceTrade[c] + 1 ELSE sinceTrade[c]]
    /\ UNCHANGED <<vars, isInitialized, targetUnit, settings, rebalanceInfo, rebalances>>

\* Other modules mint, burn and scale the multiplier.
OtherModule ==
    /\ \/ \E q \in Quantity : BasicIssue(q)
       \/ \E q \in Quantity : BasicRedeem(q)
       \/ /\ \E k \in Multiplier :
               /\ k < pos.positionMultiplier
               /\ validateNewMultiplier(pos, k)
               /\ pos' = editPositionMultiplier(pos, k)
          /\ UNCHANGED <<totalSupply, balance>>
    /\ UNCHANGED <<isInitialized, targetUnit, settings, sinceTrade, rebalanceInfo, rebalances>>

NewComponents == {<<>>} \union {<<c>> : c \in Component}

\* WETH's own maximum and cool-off can be set but are never read.
ManagerStep ==
    \/ initialize
    \/ removeModule
    \/ \E new \in NewComponents, targets \in [Component -> TargetUnit], k \in Multiplier :
         startRebalance(new, targets, k)
    \/ \E c \in Component \ {weth}, n \in MaxSize : setTradeMaximums(c, n)
    \/ \E c \in Component \ {weth}, t \in CoolOff : setCoolOffPeriods(c, t)
    \/ \E p \in RaisePercentage : setRaiseTargetPercentage(p)

TradeStep(c) == \E n \in TokenAmount, f \in FeeRate : trade(c, n, f)
RemainingStep(c) == \E n \in TokenAmount, f \in FeeRate : tradeRemainingWETH(c, n, f)

IndexNext ==
    \/ ManagerStep
    \/ \E c \in Component : TradeStep(c)
    \/ \E c \in Component : RemainingStep(c)
    \/ raiseAssetTargets
    \/ Tick
    \/ OtherModule

IndexSpec == IndexInit /\ [][IndexNext]_indexVars

-----------------------------------------------------------------------------
(* Properties.                                                              *)

\* Trades never leave the set with positions its balances do not cover, whatever
\* the exchange gives or takes, and whatever is issued and scaled in between.
PositionsBacked ==
    \A c \in Component : preciseMulCeil(totalSupply, unit(c)) <= balance[c]

\* No trade pushes a component past its target by more than rounding: a sale stops
\* at most one unit below it, lost in the conversion to virtual units, a purchase
\* less than 1 / supply above it.  The code never looks at the unit a trade ends
\* up with; it only computes the size of the trade.
TradeNeverOvershoots ==
    [][balance' # balance /\ pos' # pos => \A c \in Component \ {weth} : TradeStep(c) =>
         IF isSendTokenFixed(c)
         THEN unit(c)' >= getNormalizedTargetUnit(c) - 1
         ELSE (unit(c)' - getNormalizedTargetUnit(c)) * totalSupply < PRECISE_UNIT]_indexVars

\* A trade the maximum does not cut short settles its component: with at least one
\* whole set the target then counts as met, fees and roundings included, so that
\* a rebalance comes to an end.
FullTradeMeetsTarget ==
    [][totalSupply' = totalSupply /\ balance' # balance => \A c \in Component \ {weth} :
         /\ totalSupply >= PRECISE_UNIT
         /\ \E n \in TokenAmount, f \in FeeRate :
              trade(c, n, f) /\ tradeSize(c, f) < maxSize[c]
         => ~ targetUnmet(c)']_indexVars

\* Spending the remaining WETH takes WETH at most that unit below its own target,
\* although the amount is computed from rounded notionals and guarded by another
\* target than the one it is computed from, and never takes the component above
\* its target.
\* (An empty set holds no WETH to be protected: there the update reads a balance of
\* zero, and a trade of nothing, if the exchange takes it, closes the position.)
RemainingKeepsTargets ==
    [][balance' # balance /\ totalSupply > 0 => \A c \in Component \ {weth} : RemainingStep(c) =>
         /\ unit(weth)' >= getNormalizedTargetUnit(weth) - 1
         /\ unit(c)' <= getNormalizedTargetUnit(c)]_indexVars
=============================================================================
