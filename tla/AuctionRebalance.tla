-------------------------- MODULE AuctionRebalance --------------------------
(***************************************************************************)
(* AuctionRebalanceModuleV1 on one set: the manager fixes target units and *)
(* bidders trade components against a quote asset until the targets are    *)
(* met or the time is up.  Meanwhile, unless the rebalance locks the set,  *)
(* sets are issued and redeemed and other modules scale the multiplier.    *)
(*                                                                         *)
(* Who may bid is the subject of AuctionBidders.tla.  The price adapter is *)
(* external: a bid takes any price.  The bidder's quote limit only makes   *)
(* the bidder's own call revert and is left out.  All that matters of the  *)
(* clock is the time the rebalance still has to run.                       *)
(***************************************************************************)
EXTENDS Issuance

CONSTANTS NULL,             \* address(0)
          TargetUnit,       \* target units a manager sets
          Duration,         \* rebalance durations
          Multiplier,       \* multipliers, of the set and assumed by the manager
          RaisePercentage,  \* values of raiseTargetPercentage
          Price,            \* prices of a component in the quote asset
          MaxRebalances     \* bound on the rebalances started

ASSUME AuctionAssumption ==
    /\ NULL \notin Component
    /\ TargetUnit \subseteq Nat /\ Duration \subseteq Nat
    /\ Multiplier \subseteq 1..PRECISE_UNIT
    /\ RaisePercentage \subseteq Nat /\ Price \subseteq Nat
    /\ MaxRebalances \in Nat

VARIABLES isInitialized,         \* the set has initialized the module
          isLocked,              \* the set is locked, by this module
          targetUnit,            \* executionInfo[set][c].targetUnit
          quoteAsset,            \* rebalanceInfo[set]: quoteAsset,
          remaining,             \*   rebalanceStartTime + rebalanceDuration - now, not below 0
          positionMultiplier,    \*   positionMultiplier,
          raiseTargetPercentage, \*   raiseTargetPercentage,
          rebalanceComponents,   \*   rebalanceComponents
          startedLocked,         \* the last rebalance started on a locked set (history)
          rebalances             \* rebalances started (history)

rebalanceInfo == <<quoteAsset, remaining, positionMultiplier, raiseTargetPercentage, rebalanceComponents>>

history == <<startedLocked, rebalances>>

auctionVars == <<vars, isInitialized, isLocked, targetUnit, rebalanceInfo, history>>

AuctionInit ==
    /\ Init
    /\ isInitialized = FALSE
    /\ isLocked = FALSE
    /\ targetUnit = [c \in Component |-> 0]
    /\ quoteAsset = NULL
    /\ remaining = 0
    /\ positionMultiplier = 0
    /\ raiseTargetPercentage = 0
    /\ rebalanceComponents = <<>>
    /\ startedLocked = FALSE
    /\ rebalances = 0

-----------------------------------------------------------------------------
(* Targets.                                                                 *)

isRebalanceDurationElapsed == remaining = 0

\* A division by a multiplier of zero reverts: every use is guarded by it.
getNormalizedTargetUnit(c) ==
    (targetUnit[c] * pos.positionMultiplier) \div positionMultiplier

\* A target is met within one unit; a target of zero only exactly.
targetUnmet(c) ==
    LET target == getNormalizedTargetUnit(c)
    IN  /\ c # quoteAsset
        /\ IF target > 0 THEN ~ approximatelyEquals(target, unit(c), 1) ELSE unit(c) # 0

\* The subtraction in approximatelyEquals reverts the whole call.
targetUnmetReverts(c) ==
    LET target == getNormalizedTargetUnit(c)
    IN  /\ c # quoteAsset
        /\ target > 0
        /\ approximatelyEqualsReverts(target, unit(c), 1)

\* The loop stops at the first unmet target, and reverts if a reverting one
\* comes before it.
allTargetsMet == \A i \in DOMAIN rebalanceComponents : ~ targetUnmet(rebalanceComponents[i])
allTargetsMetReverts ==
    \E i \in DOMAIN rebalanceComponents :
        /\ targetUnmetReverts(rebalanceComponents[i])
        /\ \A j \in 1..(i - 1) : ~ targetUnmet(rebalanceComponents[j])

isQuoteAssetExcess == unit(quoteAsset) > getNormalizedTargetUnit(quoteAsset)

\* Both comparisons are evaluated, so the second can revert in spite of the first.
isQuoteAssetExcessOrAtTarget ==
    isQuoteAssetExcess \/ approximatelyEquals(unit(quoteAsset), getNormalizedTargetUnit(quoteAsset), 1)
isQuoteAssetReverts ==
    approximatelyEqualsReverts(unit(quoteAsset), getNormalizedTargetUnit(quoteAsset), 1)

canUnlockEarly == allTargetsMet /\ isQuoteAssetExcessOrAtTarget /\ raiseTargetPercentage = 0
canUnlockEarlyReverts ==
    \/ positionMultiplier = 0
    \/ allTargetsMetReverts
    \/ allTargetsMet /\ isQuoteAssetReverts

-----------------------------------------------------------------------------
(* Calls of the manager.                                                    *)

\* Targets are what the set has, so that nothing is for sale.
initialize ==
    /\ ~ isInitialized
    /\ isInitialized' = TRUE
    /\ targetUnit' = [c \in Component |-> IF isComponent(pos, c) THEN unit(c) ELSE targetUnit[c]]
    /\ positionMultiplier' = pos.positionMultiplier
    /\ UNCHANGED <<vars, isLocked, quoteAsset, remaining, raiseTargetPercentage, rebalanceComponents,
                   history>>

\* The set removes the module; executionInfo is kept.
removeModule ==
    /\ isInitialized
    /\ ~ isLocked
    /\ isInitialized' = FALSE
    /\ quoteAsset' = NULL
    /\ remaining' = 0
    /\ positionMultiplier' = 0
    /\ raiseTargetPercentage' = 0
    /\ rebalanceComponents' = <<>>
    /\ UNCHANGED <<vars, isLocked, targetUnit, history>>

startRebalance(quote, newComponents, targets, shouldLock, duration, initialMultiplier) ==
    LET allComponents == extend(pos.components, newComponents)
    IN  /\ isInitialized
        /\ ~ hasDuplicate(allComponents)
        /\ \A c \in Range(newComponents) : targets[c] > 0
        /\ isLocked' = (isLocked \/ shouldLock)
        /\ rebalances < MaxRebalances
        /\ rebalances' = rebalances + 1
        /\ startedLocked' = isLocked'
        /\ targetUnit' = [c \in Component |->
                            IF contains(allComponents, c) THEN targets[c] ELSE targetUnit[c]]
        /\ quoteAsset' = quote
        /\ remaining' = duration
        /\ positionMultiplier' = initialMultiplier
        /\ rebalanceComponents' = allComponents
        /\ UNCHANGED <<vars, isInitialized, raiseTargetPercentage>>

setRaiseTargetPercentage(percentage) ==
    /\ isInitialized
    /\ raiseTargetPercentage' = percentage
    /\ UNCHANGED <<vars, isInitialized, isLocked, targetUnit, quoteAsset, remaining,
                   positionMultiplier, rebalanceComponents, history>>

-----------------------------------------------------------------------------
(* Calls of bidders.                                                        *)

currentNotional(c) == getDefaultTotalNotional(totalSupply, unit(c))
targetNotional(c) == preciseMulCeil(totalSupply, getNormalizedTargetUnit(c))

isSellAuction(c) == targetNotional(c) < currentNotional(c)

\* Faulty: a purchase is not enlarged by the fee.
auctionQuantityBeforeFee(c, protocolFee) == abs(targetNotional(c) - currentNotional(c))

\* What is left to trade; a purchase is enlarged by the protocol fee.
auctionQuantity(c, protocolFee) ==
    IF isSellAuction(c)
    THEN currentNotional(c) - targetNotional(c)
    ELSE preciseDiv(targetNotional(c) - currentNotional(c), PRECISE_UNIT - protocolFee)

\* Faulty: does not compare the amount with what is left.
BidQuantityUnlimited(c, protocolFee) == 1..(auctionQuantity(c, protocolFee) + PRECISE_UNIT)

\* The bidder names an amount in 1..auctionQuantity, or the largest uint256 for all
\* of it, which may be nothing.
BidQuantity(c, protocolFee) ==
    1..auctionQuantity(c, protocolFee) \union {auctionQuantity(c, protocolFee)}

\* In favour of the set either way.
calculateQuoteAssetQuantity(c, quantity, price) ==
    IF isSellAuction(c) THEN preciseMulCeil(quantity, price) ELSE preciseMul(quantity, price)

\* The bidder receives sent of one token for received of the other; the protocol
\* takes its fee out of what the set received.
bid(c, quantity, price, protocolFee) ==
    LET quote == calculateQuoteAssetQuantity(c, quantity, price)
        sendToken == IF isSellAuction(c) THEN c ELSE quoteAsset
        receiveToken == IF isSellAuction(c) THEN quoteAsset ELSE c
        sent == IF isSellAuction(c) THEN quantity ELSE quote
        received == IF isSellAuction(c) THEN quote ELSE quantity
        newBalance == [balance EXCEPT ![sendToken] = @ - sent,
                                      ![receiveToken] = @ + received - preciseMul(received, protocolFee)]
        afterSend == calculateAndEditDefaultPosition(pos, sendToken, totalSupply,
                                                     balance[sendToken], newBalance[sendToken])
    IN  /\ sent <= balance[sendToken]
        /\ calculateAndEditDefaultPositionOK(pos, sendToken, totalSupply,
                                             balance[sendToken], newBalance[sendToken])
        /\ calculateAndEditDefaultPositionOK(afterSend, receiveToken, totalSupply,
                                             balance[receiveToken], newBalance[receiveToken])
        /\ pos' = calculateAndEditDefaultPosition(afterSend, receiveToken, totalSupply,
                                                  balance[receiveToken], newBalance[receiveToken])
        /\ balance' = newBalance
        /\ newBalance[receiveToken] >= balance[receiveToken]
        /\ WithinBounds(totalSupply, balance')
        /\ UNCHANGED <<totalSupply, isInitialized, isLocked, targetUnit, rebalanceInfo,
                       history>>

\* validateBidTargets, and the checks of the auction's size.
bidOK(c, protocolFee) ==
    /\ isInitialized
    /\ ~ isRebalanceDurationElapsed
    /\ c # quoteAsset
    /\ contains(rebalanceComponents, c)
    /\ positionMultiplier # 0
    /\ unit(c) # getNormalizedTargetUnit(c)
    /\ isSellAuction(c) \/ protocolFee < PRECISE_UNIT

raiseAssetTargets ==
    /\ ~ isRebalanceDurationElapsed
    /\ positionMultiplier # 0
    /\ ~ allTargetsMetReverts
    /\ allTargetsMet
    /\ isQuoteAssetExcess
    /\ positionMultiplier' = preciseDiv(positionMultiplier, PRECISE_UNIT + raiseTargetPercentage)
    /\ UNCHANGED <<vars, isInitialized, isLocked, targetUnit, quoteAsset, remaining,
                   raiseTargetPercentage, rebalanceComponents, history>>

\* Anyone may call it.  The conditions for an early end are evaluated even when
\* the time is up, and revert the call when their arithmetic does.
unlockOK ==
    /\ isLocked
    /\ ~ canUnlockEarlyReverts
    /\ isRebalanceDurationElapsed \/ canUnlockEarly

\* Faulty: an early end leaves the rest of the duration to bid in.
unlockKeepingDuration ==
    /\ unlockOK
    /\ raiseTargetPercentage' = 0
    /\ isLocked' = FALSE
    /\ UNCHANGED <<vars, isInitialized, targetUnit, quoteAsset, remaining, positionMultiplier,
                   rebalanceComponents, history>>

unlock ==
    /\ unlockOK
    /\ remaining' = IF canUnlockEarly THEN 0 ELSE remaining
    /\ raiseTargetPercentage' = 0
    /\ isLocked' = FALSE
    /\ UNCHANGED <<vars, isInitialized, targetUnit, quoteAsset, positionMultiplier, rebalanceComponents,
                   history>>

-----------------------------------------------------------------------------
(* The surroundings.                                                        *)

Tick ==
    /\ remaining > 0
    /\ remaining' = remaining - 1
    /\ UNCHANGED <<vars, isInitialized, isLocked, targetUnit, quoteAsset, positionMultiplier,
                   raiseTargetPercentage, rebalanceComponents, history>>

\* Other modules mint, burn and scale the multiplier unless the set is locked.
OtherModule ==
    /\ ~ isLocked
    /\ \/ \E q \in Quantity : BasicIssue(q)
       \/ \E q \in Quantity : BasicRedeem(q)
       \/ /\ \E k \in Multiplier :
               /\ k < pos.positionMultiplier
               /\ validateNewMultiplier(pos, k)
               /\ pos' = editPositionMultiplier(pos, k)
          /\ UNCHANGED <<totalSupply, balance>>
    /\ UNCHANGED <<isInitialized, isLocked, targetUnit, rebalanceInfo, history>>

NewComponents == {<<>>} \union {<<c>> : c \in Component}

ManagerStep ==
    \/ initialize
    \/ removeModule
    \/ \E quote \in Component, new \in NewComponents, targets \in [Component -> TargetUnit],
          lock \in BOOLEAN, d \in Duration, k \in Multiplier :
         startRebalance(quote, new, targets, lock, d, k)
    \/ \E p \in RaisePercentage : setRaiseTargetPercentage(p)

\* A bid on c: which auction is open, for how much and at what price.
BidStep(c) ==
    \E f \in FeeRate, p \in Price :
        /\ bidOK(c, f)
        /\ \E n \in BidQuantity(c, f) : bid(c, n, p, f)

AuctionNext ==
    \/ ManagerStep
    \/ \E c \in Component : BidStep(c)
    \/ raiseAssetTargets
    \/ unlock
    \/ Tick
    \/ OtherModule

AuctionSpec == AuctionInit /\ [][AuctionNext]_auctionVars

-----------------------------------------------------------------------------
(* Properties.                                                              *)

\* Bids never leave the set with positions its balances do not cover, whatever
\* the prices, fees and sizes, and whatever is issued and scaled in between.
PositionsBacked ==
    \A c \in Component : preciseMulCeil(totalSupply, unit(c)) <= balance[c]

\* No bid pushes a component past its target by more than rounding: a sale stops
\* at one unit below it, a purchase less than 1 / supply above it, which is not
\* above it at all once one whole set exists.  The code never looks at the unit
\* it ends up with; it only bounds the size of the bid.
BidNeverOvershoots ==
    [][pos' # pos => \A c \in Component : BidStep(c) =>
         LET target == getNormalizedTargetUnit(c)
         IN  IF isSellAuction(c)
             THEN unit(c)' >= target - 1
             ELSE (unit(c)' - target) * totalSupply < PRECISE_UNIT]_auctionVars

\* A bid for all that is left settles its auction: with at least one whole set the
\* component's target then counts as met, fees and roundings included.
FillMeetsTarget ==
    [][balance' # balance => \A c \in Component, f \in FeeRate, p \in Price :
         /\ totalSupply >= PRECISE_UNIT
         /\ bidOK(c, f)
         /\ bid(c, auctionQuantity(c, f), p, f)
         => ~ targetUnmet(c)']_auctionVars

\* A rebalance that locked the set takes bids only while the set is locked: once
\* it is unlocked, in time or early, the auctions are closed, so that nobody
\* issues or redeems against a rebalance that was meant to be exclusive.
LockedRebalanceIsExclusive == startedLocked /\ ~ isLocked => isRebalanceDurationElapsed

\* unlock's comment: "Can be called once the rebalance duration has elapsed."
UnlockableAfterDuration == isLocked /\ isRebalanceDurationElapsed => unlockOK
=============================================================================
