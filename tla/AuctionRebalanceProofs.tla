----------------------- MODULE AuctionRebalanceProofs -----------------------
(***************************************************************************)
(* AuctionRebalanceModuleV1 leaves every position backed by a balance,     *)
(* takes components to their targets without passing them, and takes no    *)
(* bids on a rebalance that locked the set once the set is unlocked: for   *)
(* any targets, prices, bids, fees, durations and multipliers, and         *)
(* whatever is issued, redeemed and scaled in between.  Nobody keeps a     *)
(* permission to bid when the set removes the module, for any bidders and  *)
(* any batches of updates.                                                 *)
(***************************************************************************)
EXTENDS AuctionRebalance, AuctionBidders, IssuanceProofs

-----------------------------------------------------------------------------
(* The invariant.                                                           *)

\* The numbers an auction's size is computed from; while there is time to bid there is a
\* quote asset.
Typed ==
    /\ targetUnit \in [Component -> Nat]
    /\ positionMultiplier \in Nat /\ raiseTargetPercentage \in Nat /\ remaining \in Nat
    /\ remaining > 0 => quoteAsset \in Component

\* The multiplier starts at 100% and is only scaled down: a unit loses at most one where it
\* is stored.
NotRaised == pos.positionMultiplier <= PRECISE_UNIT

AuctionInv == IInv /\ NotRaised /\ Typed /\ LockedRebalanceIsExclusive

LEMMA AuctionInvBacked == AuctionInv => PositionsBacked
BY IInvCollateralized DEF AuctionInv, Collateralized, PositionsBacked

LEMMA InitAuctionInv == AuctionInit => AuctionInv
<1> SUFFICES ASSUME AuctionInit PROVE AuctionInv
  OBVIOUS
<1>1. IInv
  BY InitIInv DEF AuctionInit
<1>2. NotRaised
  BY PreciseUnitAssumption DEF AuctionInit, Init, InitialPositions, NotRaised
<1>3. Typed /\ LockedRebalanceIsExclusive
  BY DEF AuctionInit, Typed, LockedRebalanceIsExclusive
<1> QED BY <1>1, <1>2, <1>3 DEF AuctionInv

\* Notionals and targets are natural numbers wherever a call reads them.
LEMMA NotionalsNatural ==
    ASSUME AuctionInv, NEW c \in Component, positionMultiplier # 0
    PROVE  /\ currentNotional(c) \in Nat /\ targetNotional(c) \in Nat
           /\ getNormalizedTargetUnit(c) \in Nat
<1>1. /\ totalSupply \in Nat /\ unit(c) \in Nat /\ targetUnit[c] \in Nat
      /\ positionMultiplier \in Int /\ positionMultiplier > 0
  BY RealUnits DEF AuctionInv, IInv, Typed, unit
<1>2. pos.positionMultiplier \in Nat
  BY DEF AuctionInv, IInv, PositionInv, PositionState
<1>3. PICK x \in Nat : x = targetUnit[c] * pos.positionMultiplier
  BY <1>1, <1>2
<1>4. x \div positionMultiplier \in Nat
  BY <1>1, <1>3, DivBounds
<1>5. getNormalizedTargetUnit(c) \in Nat
  BY <1>3, <1>4 DEF getNormalizedTargetUnit
<1>6. currentNotional(c) \in Nat
  BY <1>1, MulIsBelow DEF currentNotional, getDefaultTotalNotional
<1>7. targetNotional(c) \in Nat
  BY <1>1, <1>5, MulCeilIsAbove DEF targetNotional
<1> QED BY <1>5, <1>6, <1>7

-----------------------------------------------------------------------------
(* Bids.                                                                    *)

\* What is left to be sold or bought is a natural number.
LEMMA QuantityNatural ==
    ASSUME AuctionInv, NEW c \in Component, NEW f \in FeeRate, bidOK(c, f)
    PROVE  auctionQuantity(c, f) \in Nat
<1> DEFINE cur == currentNotional(c)
           goal == targetNotional(c)
<1>1. cur \in Nat /\ goal \in Nat /\ f \in Nat
  BY NotionalsNatural, IssuanceAssumption DEF bidOK
<1>2. isSellAuction(c) <=> goal < cur
  BY DEF isSellAuction
<1>3. isSellAuction(c) \/ f < PRECISE_UNIT
  BY DEF bidOK
<1> HIDE DEF cur, goal
<1>4. CASE isSellAuction(c)
  <2>1. cur - goal \in Nat
    BY <1>1, <1>2, <1>4
  <2> QED BY <1>4, <2>1 DEF auctionQuantity, cur, goal
<1>5. CASE ~ isSellAuction(c)
  <2>1. goal - cur \in Nat /\ PRECISE_UNIT - f \in Nat /\ PRECISE_UNIT - f > 0
    BY <1>1, <1>2, <1>3, <1>5, PreciseUnitAssumption
  <2>2. preciseDiv(goal - cur, PRECISE_UNIT - f) \in Nat
    BY <2>1, DivIsBelow
  <2> QED BY <1>5, <2>2 DEF auctionQuantity, cur, goal
<1> QED BY <1>4, <1>5

\* Every bid sets the two positions to what their balances back, and the unit of the
\* component follows its balance: down by what is sold, up by what is left of a purchase.
LEMMA BidEffect ==
    ASSUME AuctionInv, NEW c \in Component, NEW q \in Nat, NEW p \in Price, NEW f \in FeeRate,
           bidOK(c, f), bid(c, q, p, f)
    PROVE  LET N == IF isSellAuction(c) THEN balance[c] - q
                    ELSE balance[c] + q - preciseMul(q, f)
           IN  /\ IInv'
               /\ pos'.positionMultiplier = pos.positionMultiplier
               /\ N \in Nat
               /\ FollowsBalance(totalSupply, unit(c), balance[c], N, unit(c)')
<1> DEFINE quote == calculateQuoteAssetQuantity(c, q, p)
           s == IF isSellAuction(c) THEN c ELSE quoteAsset
           r == IF isSellAuction(c) THEN quoteAsset ELSE c
           sent == IF isSellAuction(c) THEN q ELSE quote
           received == IF isSellAuction(c) THEN quote ELSE q
           fee == preciseMul(received, f)
           new == [balance EXCEPT ![s] = @ - sent, ![r] = @ + received - fee]
           afterSend == calculateAndEditDefaultPosition(pos, s, totalSupply, balance[s], new[s])
<1>1. /\ totalSupply \in Nat /\ balance \in [Component -> Nat] /\ IInv /\ NotRaised
      /\ p \in Nat /\ f \in Nat
  BY IssuanceAssumption, AuctionAssumption DEF AuctionInv, IInv
<1>2. quoteAsset \in Component /\ c # quoteAsset
  BY DEF bidOK, isRebalanceDurationElapsed, AuctionInv, Typed
<1>3. s \in Component /\ r \in Component /\ s # r /\ c \in {s, r}
  BY <1>2
<1>4. quote \in Nat
  BY <1>1, MulIsBelow, MulCeilIsAbove DEF calculateQuoteAssetQuantity
<1>5. sent \in Nat /\ received \in Nat
  BY <1>4
<1>6. fee \in Nat
  BY <1>1, <1>5, MulIsBelow
<1>7. /\ sent <= balance[s] /\ new[r] >= balance[r]
      /\ calculateAndEditDefaultPositionOK(pos, s, totalSupply, balance[s], new[s])
      /\ calculateAndEditDefaultPositionOK(afterSend, r, totalSupply, balance[r], new[r])
      /\ pos' = calculateAndEditDefaultPosition(afterSend, r, totalSupply, balance[r], new[r])
      /\ balance' = new /\ UNCHANGED totalSupply
  BY DEF bid
<1>8. /\ isSellAuction(c) => c = s /\ sent = q
      /\ ~ isSellAuction(c) => c = r /\ received = q
  OBVIOUS
<1> HIDE DEF quote, s, r, sent, received
<1>9. fee = preciseMul(received, f)
  OBVIOUS
<1> HIDE DEF fee
<1>10. /\ new \in [Component -> Int]
       /\ new[s] = balance[s] - sent
       /\ new[r] = balance[r] + received - fee
       /\ \A z \in Component \ {s, r} : new[z] = balance[z]
  BY <1>1, <1>3, <1>5, <1>6
<1> HIDE DEF new
<1>11. \A z \in Component : new[z] \in Nat
  BY <1>1, <1>3, <1>5, <1>7, <1>10
<1>12. new \in [Component -> Nat]
  BY <1>10, <1>11
<1>13. /\ IInv'
       /\ pos'.positionMultiplier = pos.positionMultiplier
       /\ \A z \in {s, r} : FollowsBalance(totalSupply, unit(z), balance[z], new[z], unit(z)')
  BY <1>1, <1>3, <1>7, <1>10, <1>12, TradedPositions DEF NotRaised
<1>14. new[c] = IF isSellAuction(c) THEN balance[c] - q ELSE balance[c] + q - preciseMul(q, f)
  BY <1>8, <1>9, <1>10
<1>15. new[c] \in Nat /\ FollowsBalance(totalSupply, unit(c), balance[c], new[c], unit(c)')
  BY <1>3, <1>11, <1>13
<1> QED BY Zenon, <1>13, <1>14, <1>15

\* It changes nothing that a size is computed from.
LEMMA BidKeepsAuction ==
    ASSUME Typed, LockedRebalanceIsExclusive, NEW c, NEW q, NEW p, NEW f, bid(c, q, p, f)
    PROVE  /\ Typed' /\ LockedRebalanceIsExclusive'
           /\ UNCHANGED <<targetUnit, positionMultiplier, quoteAsset, totalSupply>>
BY DEF bid, Typed, LockedRebalanceIsExclusive, isRebalanceDurationElapsed, rebalanceInfo, history

LEMMA BidKeepsInv ==
    ASSUME AuctionInv, NEW c \in Component, BidStep(c)
    PROVE  AuctionInv'
<1>1. PICK f \in FeeRate, p \in Price : bidOK(c, f) /\ \E n \in BidQuantity(c, f) : bid(c, n, p, f)
  BY DEF BidStep
<1>2. PICK n \in BidQuantity(c, f) : bid(c, n, p, f)
  BY <1>1
<1>3. n \in Nat
  BY <1>1, QuantityNatural DEF BidQuantity
<1>4. IInv' /\ pos'.positionMultiplier = pos.positionMultiplier
  BY <1>1, <1>2, <1>3, BidEffect
<1>5. Typed' /\ LockedRebalanceIsExclusive'
  BY <1>2, BidKeepsAuction DEF AuctionInv
<1> QED BY <1>4, <1>5 DEF AuctionInv, NotRaised

\* Where a bid ends: not past the target, and at it if it is for all that is left.
LEMMA BidStops ==
    ASSUME AuctionInv, NEW c \in Component, NEW q \in Nat, NEW p \in Price, NEW f \in FeeRate,
           bidOK(c, f), q <= auctionQuantity(c, f), bid(c, q, p, f)
    PROVE  LET target == getNormalizedTargetUnit(c)
           IN  /\ target \in Nat /\ target' = target /\ unit(c)' \in Nat
               /\ isSellAuction(c) => unit(c)' >= target - 1
               /\ ~ isSellAuction(c) => (unit(c)' - target) * totalSupply < PRECISE_UNIT
               /\ totalSupply >= PRECISE_UNIT /\ q = auctionQuantity(c, f) =>
                    target - 1 <= unit(c)' /\ unit(c)' <= target
<1> DEFINE target == getNormalizedTargetUnit(c)
           left == auctionQuantity(c, f)
           goal == preciseMulCeil(totalSupply, target)
           cur == preciseMul(totalSupply, unit(c))
           B == balance[c]
           N == IF isSellAuction(c) THEN B - q ELSE B + q - preciseMul(q, f)
<1>1. /\ f \in Nat /\ positionMultiplier # 0 /\ IInv /\ Typed
      /\ LockedRebalanceIsExclusive
      /\ isSellAuction(c) \/ f < PRECISE_UNIT
  BY IssuanceAssumption DEF AuctionInv, bidOK
<1>2. /\ goal = targetNotional(c) /\ cur = currentNotional(c)
      /\ goal \in Nat /\ cur \in Nat /\ target \in Nat
  BY <1>1, NotionalsNatural
     DEF targetNotional, currentNotional, getDefaultTotalNotional
<1>3. left = IF isSellAuction(c) THEN cur - goal ELSE preciseDiv(goal - cur, PRECISE_UNIT - f)
  BY <1>2 DEF auctionQuantity
<1>4. isSellAuction(c) <=> goal < cur
  BY <1>2 DEF isSellAuction
<1>5. /\ totalSupply \in Nat /\ unit(c) \in Nat /\ B \in Nat
      /\ totalSupply * unit(c) <= PRECISE_UNIT * B
  BY <1>1, RealUnits DEF IInv, Backs, unit
<1>6. /\ IInv' /\ pos'.positionMultiplier = pos.positionMultiplier
      /\ N \in Nat /\ FollowsBalance(totalSupply, unit(c), B, N, unit(c)')
  BY Zenon, BidEffect
<1>7. unit(c)' \in Nat
  BY <1>6, RealUnits DEF IInv, unit
<1>8. target' = target
  <2>1. UNCHANGED <<targetUnit, positionMultiplier>>
    BY <1>1, BidKeepsAuction
  <2> QED BY <1>6, <2>1 DEF getNormalizedTargetUnit
<1>9. /\ isSellAuction(c) => N = B - q
      /\ ~ isSellAuction(c) => N = B + q - preciseMul(q, f)
  OBVIOUS
<1>10. q <= left
  OBVIOUS
<1> HIDE DEF target, left, goal, cur, B, N
<1>11. PICK w \in Nat : w = unit(c)'
  BY <1>7
<1>12. FollowsBalance(totalSupply, unit(c), B, N, w)
  BY Zenon, <1>6, <1>11
<1>13. ASSUME isSellAuction(c)
       PROVE  w >= target - 1 /\ (q = left => N - B = goal - cur)
  <2>1. B - N <= cur - goal /\ (q = left => N - B = goal - cur)
    BY <1>2, <1>3, <1>5, <1>6, <1>9, <1>10, <1>13
  <2>2. totalSupply > 0
    <3>1. totalSupply = 0 => cur = 0
      BY <1>5, PreciseUnitAssumption DEF cur, preciseMul
    <3> QED BY <1>2, <1>4, <1>5, <1>13, <3>1
  <2>3. w >= target - 1
    BY Zenon, <1>2, <1>5, <1>6, <1>12, <2>1, <2>2, SaleStopsAtTarget DEF cur, goal
  <2> QED BY <2>1, <2>3
<1>14. ASSUME ~ isSellAuction(c)
       PROVE  (w - target) * totalSupply < PRECISE_UNIT /\ (q = left => N - B = goal - cur)
  <2>1. PICK X \in Nat : X = goal - cur
    BY <1>2, <1>4, <1>14
  <2>2. left = preciseDiv(X, PRECISE_UNIT - f)
    BY <1>3, <1>14, <2>1
  <2>3. /\ q - preciseMul(q, f) \in Nat /\ q - preciseMul(q, f) <= X
        /\ q = left => q - preciseMul(q, f) = X
    BY <1>1, <1>10, <1>14, <2>2, NetOfFee
  <2>4. N - B = q - preciseMul(q, f)
    <3>1. preciseMul(q, f) \in Nat
      BY <1>1, MulIsBelow
    <3> QED BY <1>5, <1>9, <1>14, <3>1
  <2>5. N - B <= goal - cur /\ (q = left => N - B = goal - cur)
    BY <1>2, <2>1, <2>3, <2>4
  <2>6. (w - target) * totalSupply < PRECISE_UNIT
    BY Zenon, <1>2, <1>5, <1>6, <1>12, <2>5, PurchaseStopsAtTarget DEF cur, goal
  <2> QED BY <2>5, <2>6
<1>15. ASSUME totalSupply >= PRECISE_UNIT, q = left
       PROVE  target - 1 <= w /\ w <= target
  <2>1. N - B = goal - cur
    BY <1>13, <1>14, <1>15
  <2> QED BY Zenon, <1>2, <1>5, <1>6, <1>12, <1>15, <2>1, ExactTradeMeetsTarget DEF cur, goal
<1> QED BY <1>2, <1>7, <1>8, <1>11, <1>13, <1>14, <1>15 DEF target, left

-----------------------------------------------------------------------------
(* Other steps.                                                             *)

\* Issues, redemptions and fees of other modules.
LEMMA OtherModuleKeepsInv ==
    ASSUME AuctionInv, OtherModule
    PROVE  AuctionInv'
<1>1. Typed' /\ LockedRebalanceIsExclusive' /\ IInv /\ NotRaised
  BY DEF OtherModule, AuctionInv, Typed, LockedRebalanceIsExclusive, isRebalanceDurationElapsed,
         rebalanceInfo, history
<1>2. CASE (\E q \in Quantity : BasicIssue(q)) \/ (\E q \in Quantity : BasicRedeem(q))
  <2>1. UNCHANGED pos
    BY <1>2 DEF BasicIssue, BasicRedeem
  <2> QED BY <1>1, <1>2, <2>1, BasicIssueKeepsIInv, BasicRedeemKeepsIInv DEF AuctionInv, NotRaised
<1>3. ASSUME NEW k \in Multiplier, k < pos.positionMultiplier, validateNewMultiplier(pos, k),
             pos' = editPositionMultiplier(pos, k), UNCHANGED <<totalSupply, balance>>
      PROVE  AuctionInv'
  <2>1. k \in Int
    BY AuctionAssumption, PreciseUnitAssumption
  <2>2. pos \in PositionState
    BY <1>1 DEF IInv, PositionInv
  <2>3. pos'.positionMultiplier = k /\ pos.positionMultiplier \in Int
    BY <1>3, <2>1, <2>2, EditMultiplierFields, PositionFields
  <2>4. NotRaised'
    BY <1>1, <1>3, <2>1, <2>3, PreciseUnitAssumption DEF NotRaised
  <2> QED BY <1>1, <1>3, <2>1, <2>4, SmallerMultiplierKeepsIInv DEF AuctionInv
<1> QED BY <1>2, <1>3 DEF OtherModule

\* Calls that move no tokens: an unlock closes the auctions, and a start on a set that is not
\* locked afterwards is not one that locked it.
LEMMA SettingsKeepInv ==
    ASSUME AuctionInv, ManagerStep \/ raiseAssetTargets \/ unlock \/ Tick
    PROVE  AuctionInv'
<1>1. /\ \A c \in Component : unit(c) \in Nat
      /\ pos.positionMultiplier \in Nat /\ Typed /\ LockedRebalanceIsExclusive
  <2>1. \A c \in Component : unit(c) \in Nat
    BY RealUnits DEF AuctionInv, IInv, unit
  <2>2. pos.positionMultiplier \in Nat
    BY DEF AuctionInv, IInv, PositionInv, PositionState
  <2> QED BY <2>1, <2>2 DEF AuctionInv
<1>2. CASE initialize
  BY <1>1, <1>2 DEF initialize, Typed, LockedRebalanceIsExclusive, isRebalanceDurationElapsed,
                    history, vars, AuctionInv, IInv, Backs, NotRaised
<1>3. CASE removeModule
  BY <1>1, <1>3 DEF removeModule, Typed, LockedRebalanceIsExclusive, isRebalanceDurationElapsed,
                    history, vars, AuctionInv, IInv, Backs, NotRaised
<1>4. ASSUME NEW quote \in Component, NEW new, NEW targets \in [Component -> TargetUnit],
             NEW lock \in BOOLEAN, NEW d \in Duration, NEW k \in Multiplier,
             startRebalance(quote, new, targets, lock, d, k)
      PROVE  AuctionInv'
  <2>1. \A c \in Component : targets[c] \in Nat
    BY AuctionAssumption
  <2>2. k \in Nat /\ d \in Nat
    BY AuctionAssumption, PreciseUnitAssumption
  <2> DEFINE B == [c \in Component |-> contains(extend(pos.components, new), c)]
  <2>3. targetUnit' = [c \in Component |-> IF B[c] THEN targets[c] ELSE targetUnit[c]]
    BY <1>4 DEF startRebalance
  <2>4. /\ positionMultiplier' = k /\ remaining' = d /\ quoteAsset' = quote
        /\ startedLocked' = isLocked' /\ UNCHANGED <<vars, raiseTargetPercentage>>
    BY <1>4 DEF startRebalance
  <2> HIDE DEF B
  <2>5. Typed'
    BY <1>1, <2>1, <2>2, <2>3, <2>4 DEF Typed
  <2>6. LockedRebalanceIsExclusive'
    BY <2>4 DEF LockedRebalanceIsExclusive
  <2> QED BY <2>4, <2>5, <2>6 DEF vars, AuctionInv, IInv, Backs, NotRaised
<1>5. ASSUME NEW x \in RaisePercentage, setRaiseTargetPercentage(x)
      PROVE  AuctionInv'
  BY <1>1, <1>5, AuctionAssumption
     DEF setRaiseTargetPercentage, Typed, LockedRebalanceIsExclusive, isRebalanceDurationElapsed,
         history, vars, AuctionInv, IInv, Backs, NotRaised
<1>6. CASE raiseAssetTargets
  <2>1. /\ positionMultiplier' = preciseDiv(positionMultiplier, PRECISE_UNIT + raiseTargetPercentage)
        /\ UNCHANGED <<vars, isLocked, targetUnit, quoteAsset, remaining, raiseTargetPercentage,
                       startedLocked>>
    BY <1>6 DEF raiseAssetTargets, history
  <2>2. /\ positionMultiplier \in Nat /\ PRECISE_UNIT + raiseTargetPercentage \in Nat
        /\ PRECISE_UNIT + raiseTargetPercentage > 0
    BY <1>1, PreciseUnitAssumption DEF Typed
  <2>3. positionMultiplier' \in Nat
    BY <2>1, <2>2, DivIsBelow
  <2> QED BY <1>1, <2>1, <2>3 DEF Typed, LockedRebalanceIsExclusive, isRebalanceDurationElapsed,
                                  vars, AuctionInv, IInv, Backs, NotRaised
<1>7. CASE unlock
  BY <1>1, <1>7 DEF unlock, unlockOK, Typed, LockedRebalanceIsExclusive,
                    isRebalanceDurationElapsed, history, vars, AuctionInv, IInv, Backs, NotRaised
<1>8. CASE Tick
  BY <1>1, <1>8 DEF Tick, Typed, LockedRebalanceIsExclusive, isRebalanceDurationElapsed,
                    history, vars, AuctionInv, IInv, Backs, NotRaised
<1> QED BY <1>2, <1>3, <1>4, <1>5, <1>6, <1>7, <1>8 DEF ManagerStep

-----------------------------------------------------------------------------
(* The theorems.                                                            *)

LEMMA NextKeepsAuctionInv == AuctionInv /\ [AuctionNext]_auctionVars => AuctionInv'
<1> SUFFICES ASSUME AuctionInv, [AuctionNext]_auctionVars PROVE AuctionInv'
  OBVIOUS
<1>1. CASE ManagerStep \/ raiseAssetTargets \/ unlock \/ Tick
  BY <1>1, SettingsKeepInv
<1>2. CASE \E c \in Component : BidStep(c)
  BY <1>2, BidKeepsInv
<1>3. CASE OtherModule
  BY <1>3, OtherModuleKeepsInv
<1>4. CASE UNCHANGED auctionVars
  BY <1>4 DEF auctionVars, rebalanceInfo, history, vars, AuctionInv, IInv, Backs, NotRaised,
              Typed, LockedRebalanceIsExclusive, isRebalanceDurationElapsed
<1> QED BY <1>1, <1>2, <1>3, <1>4 DEF AuctionNext

LEMMA SpecAuctionInv == AuctionSpec => []AuctionInv
BY InitAuctionInv, NextKeepsAuctionInv, PTL DEF AuctionSpec

\* Bids never leave the set with positions its balances do not cover, whatever is issued,
\* redeemed and scaled between them.
THEOREM BidsKeepBacking == AuctionSpec => []PositionsBacked
<1>1. AuctionInv => PositionsBacked
  BY AuctionInvBacked
<1> QED BY <1>1, SpecAuctionInv, PTL

\* Once a rebalance that locked the set has been unlocked, in time or early, no auction of it
\* is open any more.
THEOREM LockedRebalanceAlwaysExclusive == AuctionSpec => []LockedRebalanceIsExclusive
<1>1. AuctionInv => LockedRebalanceIsExclusive
  BY DEF AuctionInv
<1> QED BY <1>1, SpecAuctionInv, PTL

\* No bid pushes a component past its target by more than rounding, at any price and fee,
\* although the code only bounds the size of the bid.
THEOREM BidsStopAtTarget == AuctionSpec => BidNeverOvershoots
<1>1. ASSUME AuctionInv, NEW c \in Component, BidStep(c)
      PROVE  IF isSellAuction(c)
             THEN unit(c)' >= getNormalizedTargetUnit(c) - 1
             ELSE (unit(c)' - getNormalizedTargetUnit(c)) * totalSupply < PRECISE_UNIT
  <2>1. PICK f \in FeeRate, p \in Price :
          bidOK(c, f) /\ \E n \in BidQuantity(c, f) : bid(c, n, p, f)
    BY <1>1 DEF BidStep
  <2>2. PICK n \in BidQuantity(c, f) : bid(c, n, p, f)
    BY <2>1
  <2>3. n \in Nat /\ n <= auctionQuantity(c, f)
    BY <1>1, <2>1, QuantityNatural DEF BidQuantity
  <2> QED BY Zenon, <1>1, <2>1, <2>2, <2>3, BidStops
<1>2. AuctionInv => [pos' # pos => \A c \in Component : BidStep(c) =>
         LET target == getNormalizedTargetUnit(c)
         IN  IF isSellAuction(c)
             THEN unit(c)' >= target - 1
             ELSE (unit(c)' - target) * totalSupply < PRECISE_UNIT]_auctionVars
  BY Zenon, <1>1
<1> QED BY <1>2, SpecAuctionInv, PTL DEF BidNeverOvershoots

\* A bid for all that is left settles its component.
THEOREM FillsSettle == AuctionSpec => FillMeetsTarget
<1>1. ASSUME AuctionInv, NEW c \in Component, NEW f \in FeeRate, NEW p \in Price,
             totalSupply >= PRECISE_UNIT, bidOK(c, f), bid(c, auctionQuantity(c, f), p, f)
      PROVE  ~ targetUnmet(c)'
  <2>1. auctionQuantity(c, f) \in Nat
    BY <1>1, QuantityNatural
  <2>2. auctionQuantity(c, f) <= auctionQuantity(c, f)
    BY <2>1
  <2>3. PICK t \in Nat : t = getNormalizedTargetUnit(c)' /\ t - 1 <= unit(c)' /\ unit(c)' <= t
    BY Zenon, <1>1, <2>1, <2>2, BidStops
  <2>4. unit(c)' \in Nat
    BY Zenon, <1>1, <2>1, <2>2, BidStops
  <2> QED BY <2>3, <2>4 DEF targetUnmet, approximatelyEquals
<1>2. AuctionInv => [balance' # balance => \A c \in Component, f \in FeeRate, p \in Price :
         /\ totalSupply >= PRECISE_UNIT
         /\ bidOK(c, f)
         /\ bid(c, auctionQuantity(c, f), p, f)
         => ~ targetUnmet(c)']_auctionVars
  BY Zenon, <1>1
<1> QED BY <1>2, SpecAuctionInv, PTL DEF FillMeetsTarget

-----------------------------------------------------------------------------
(* The allowed bidders.                                                     *)

\* An allow list and the array that mirrors it.
Mirrored ==
    {s \in [allowed : [Bidder -> BOOLEAN], history : Seq(Bidder)] :
        /\ ~ hasDuplicate(s.history)
        /\ \A b \in Bidder : s.allowed[b] <=> contains(s.history, b)}

\* The invariant: the list and the array mirror each other, and nobody may bid on a set
\* without the module.
BiddersInv ==
    /\ [allowed |-> bidAllowList, history |-> biddersHistory] \in Mirrored
    /\ initialized \in BOOLEAN
    /\ NoStalePermission

\* The array follows one change of the list.
LEMMA HistoryFollows ==
    ASSUME NEW H \in Seq(Bidder), ~ hasDuplicate(H), NEW b \in Bidder, NEW status \in BOOLEAN
    PROVE  LET G == updateBiddersHistory(H, b, status)
           IN  /\ G \in Seq(Bidder) /\ ~ hasDuplicate(G)
               /\ contains(G, b) <=> status
               /\ \A x : x # b => (contains(G, x) <=> contains(H, x))
<1> DEFINE G == updateBiddersHistory(H, b, status)
<1>1. CASE status /\ ~ contains(H, b)
  <2>1. G = Append(H, b)
    BY <1>1 DEF updateBiddersHistory
  <2>2. /\ Append(H, b) \in Seq(Bidder) /\ ~ hasDuplicate(Append(H, b))
        /\ \A x : contains(Append(H, b), x) <=> contains(H, x) \/ x = b
    BY Zenon, <1>1, AppendFacts
  <2> QED BY Zenon, <1>1, <2>1, <2>2
<1>2. CASE ~ status /\ contains(H, b)
  <2>1. G = removeStorage(H, b)
    BY <1>2 DEF updateBiddersHistory
  <2>2. /\ removeStorage(H, b) \in Seq(Bidder) /\ ~ hasDuplicate(removeStorage(H, b))
        /\ \A x : contains(removeStorage(H, b), x) <=> contains(H, x) /\ x # b
    BY Zenon, <1>2, RemoveStorageFacts
  <2> QED BY Zenon, <1>2, <2>1, <2>2
<1>3. CASE status <=> contains(H, b)
  <2>1. G = H
    BY <1>3 DEF updateBiddersHistory
  <2> QED BY Zenon, <1>3, <2>1
<1> QED BY <1>1, <1>2, <1>3

\* So one turn of the loop keeps the two mirrored.
LEMMA TurnKeepsMirrored ==
    ASSUME NEW s \in Mirrored, NEW pair \in Bidder \X BOOLEAN
    PROVE  updateBidder(s, pair) \in Mirrored
<1>1. PICK b \in Bidder, status \in BOOLEAN : pair = <<b, status>> /\ pair[1] = b /\ pair[2] = status
  OBVIOUS
<1>2. PICK L \in [Bidder -> BOOLEAN], H \in Seq(Bidder) :
        /\ s = [allowed |-> L, history |-> H] /\ s.allowed = L /\ s.history = H
        /\ ~ hasDuplicate(H) /\ \A x \in Bidder : L[x] <=> contains(H, x)
  BY DEF Mirrored
<1>3. PICK G : G = updateBiddersHistory(H, b, status)
  OBVIOUS
<1>4. /\ G \in Seq(Bidder) /\ ~ hasDuplicate(G)
      /\ contains(G, b) <=> status
      /\ \A x : x # b => (contains(G, x) <=> contains(H, x))
  BY Zenon, <1>1, <1>2, <1>3, HistoryFollows
<1>5. PICK K \in [Bidder -> BOOLEAN] : K = [L EXCEPT ![b] = status]
  BY <1>1, <1>2
<1>6. K[b] = status /\ \A x \in Bidder : x # b => K[x] = L[x]
  BY <1>1, <1>2, <1>5
<1>7. \A x \in Bidder : K[x] <=> contains(G, x)
  BY Zenon, <1>2, <1>4, <1>6
<1>8. updateBidder(s, pair) = [allowed |-> K, history |-> G]
  BY Zenon, <1>1, <1>2, <1>3, <1>5 DEF updateBidder
<1> QED BY <1>4, <1>7, <1>8 DEF Mirrored

\* The values of the loop's state: what the first i pairs make of the state s.
Turns(f, s, pairs) ==
    f = [i \in 0..Len(pairs) |-> IF i = 0 THEN s ELSE updateBidder(f[i - 1], pairs[i])]

LEMMA TurnsKeepMirrored ==
    ASSUME NEW s \in Mirrored, NEW pairs \in Seq(Bidder \X BOOLEAN), NEW f, Turns(f, s, pairs)
    PROVE  f[Len(pairs)] \in Mirrored
<1> DEFINE n == Len(pairs)
           P == [i \in 0..n |-> f[i] \in Mirrored]
<1>1. n \in Nat /\ \A i \in 1..n : pairs[i] \in Bidder \X BOOLEAN
  OBVIOUS
<1>2. P \in [0..n -> BOOLEAN]
  <2> HIDE DEF Mirrored
  <2> QED OBVIOUS
<1> HIDE DEF n
<1>3. 0 \in 0..n /\ n \in 0..n /\ \A i \in 1..n : i \in 0..n /\ i - 1 \in 0..n /\ i # 0
  BY <1>1
<1>4. f[0] = s /\ \A i \in 1..n : f[i] = updateBidder(f[i - 1], pairs[i])
  BY Zenon, <1>3 DEF Turns, n
<1>5. P[0]
  BY Zenon, <1>3, <1>4
<1>6. ASSUME NEW i \in 1..n, P[i - 1] PROVE P[i]
  <2>1. f[i - 1] \in Mirrored
    BY Zenon, <1>3, <1>6
  <2>2. updateBidder(f[i - 1], pairs[i]) \in Mirrored
    BY Zenon, <1>1, <2>1, TurnKeepsMirrored
  <2> QED BY Zenon, <1>3, <1>4, <2>2
<1> HIDE DEF P
<1>7. \A i \in 0..n : P[i]
  BY Zenon, <1>1, <1>2, <1>5, <1>6, BoundedInduction
<1> QED BY Zenon, <1>3, <1>7 DEF P, n

LEMMA TurnsExist ==
    ASSUME NEW s \in Mirrored, NEW pairs \in Seq(Bidder \X BOOLEAN)
    PROVE  \E f : Turns(f, s, pairs)
<1> DEFINE n == Len(pairs)
           step == [i \in 1..n |-> [x \in Mirrored |-> updateBidder(x, pairs[i])]]
<1>1. n \in Nat /\ \A i \in 1..n : pairs[i] \in Bidder \X BOOLEAN
  OBVIOUS
<1>2. step \in [1..n -> [Mirrored -> Mirrored]]
  BY Zenon, <1>1, TurnKeepsMirrored
<1> HIDE DEF n
<1>3. PICK f \in [0..n -> Mirrored] : TakesSteps(f, n, s, step)
  <2> HIDE DEF step
  <2> QED BY Zenon, <1>1, <1>2, StepsExist
<1>4. ASSUME NEW i \in 0..n, i # 0
      PROVE  step[i][f[i - 1]] = updateBidder(f[i - 1], pairs[i])
  <2>1. i \in 1..n /\ i - 1 \in 0..n
    BY <1>1, <1>4
  <2>2. f[i - 1] \in Mirrored
    BY Zenon, <2>1
  <2> QED BY Zenon, <2>1, <2>2
<1>5. f = [i \in 0..n |-> IF i = 0 THEN s ELSE step[i][f[i - 1]]]
  BY Zenon, <1>3 DEF TakesSteps
<1> HIDE DEF step
<1>6. [i \in 0..n |-> IF i = 0 THEN s ELSE step[i][f[i - 1]]]
        = [i \in 0..n |-> IF i = 0 THEN s ELSE updateBidder(f[i - 1], pairs[i])]
  BY <1>4
<1> QED BY Zenon, <1>5, <1>6 DEF Turns, n

LEMMA SetBidderStatusKeepsInv ==
    ASSUME BiddersInv, NEW pairs \in Seq(Bidder \X BOOLEAN), SetBidderStatus(pairs)
    PROVE  BiddersInv'
<1> DEFINE s == [allowed |-> bidAllowList, history |-> biddersHistory]
<1>1. PICK g : g = CHOOSE f : f = [i \in 0..Len(pairs) |->
                     IF i = 0 THEN s ELSE updateBidder(f[i - 1], pairs[i])]
  OBVIOUS
<1>2. /\ initialized
      /\ bidAllowList' = g[Len(pairs)].allowed /\ biddersHistory' = g[Len(pairs)].history
      /\ UNCHANGED <<initialized, isAnyoneAllowedToBid>>
  BY Zenon, <1>1 DEF SetBidderStatus
<1>3. s \in Mirrored
  BY DEF BiddersInv
<1> HIDE DEF s
<1>4. Turns(g, s, pairs)
  BY Zenon, <1>1, <1>3, TurnsExist DEF Turns
<1>5. g[Len(pairs)] \in Mirrored
  BY Zenon, <1>3, <1>4, TurnsKeepMirrored
<1>6. PICK t \in Mirrored : t = g[Len(pairs)]
  BY <1>5
<1>7. t = [allowed |-> t.allowed, history |-> t.history]
  BY DEF Mirrored
<1>8. [allowed |-> bidAllowList', history |-> biddersHistory'] \in Mirrored
  BY Zenon, <1>2, <1>6, <1>7
<1> QED BY Zenon, <1>2, <1>8 DEF BiddersInv, NoStalePermission, Mirrored

LEMMA RemoveModuleKeepsInv ==
    ASSUME BiddersInv, RemoveModule
    PROVE  BiddersInv'
<1>1. /\ bidAllowList \in [Bidder -> BOOLEAN]
      /\ \A b \in Bidder : bidAllowList[b] <=> contains(biddersHistory, b)
  BY DEF BiddersInv, Mirrored
<1>2. /\ bidAllowList' = [b \in Bidder |-> bidAllowList[b] /\ ~ contains(biddersHistory, b)]
      /\ biddersHistory' = <<>> /\ initialized' = FALSE /\ isAnyoneAllowedToBid' = FALSE
  BY DEF RemoveModule
<1>3. bidAllowList' = [b \in Bidder |-> FALSE]
  BY Zenon, <1>1, <1>2
<1>4. <<>> \in Seq(Bidder) /\ DOMAIN <<>> = {}
  OBVIOUS
<1>5. ~ hasDuplicate(<<>>) /\ \A b \in Bidder : ~ contains(<<>>, b)
  BY Zenon, <1>4 DEF hasDuplicate, IsInjective, contains, Range
<1>6. [allowed |-> bidAllowList', history |-> biddersHistory'] \in Mirrored
  BY <1>2, <1>3, <1>4, <1>5 DEF Mirrored
<1>7. NoStalePermission'
  BY <1>2, <1>3 DEF NoStalePermission, isAllowedBidder
<1> QED BY Zenon, <1>2, <1>6, <1>7 DEF BiddersInv, Mirrored

LEMMA InitBiddersInv == BiddersInit => BiddersInv
<1> SUFFICES ASSUME BiddersInit PROVE BiddersInv
  OBVIOUS
<1>1. /\ bidAllowList = [b \in Bidder |-> FALSE] /\ biddersHistory = <<>>
      /\ initialized = FALSE /\ isAnyoneAllowedToBid = FALSE
  BY DEF BiddersInit
<1>2. <<>> \in Seq(Bidder) /\ DOMAIN <<>> = {}
  OBVIOUS
<1>3. ~ hasDuplicate(<<>>) /\ \A b \in Bidder : ~ contains(<<>>, b)
  BY Zenon, <1>2 DEF hasDuplicate, IsInjective, contains, Range
<1>4. [allowed |-> bidAllowList, history |-> biddersHistory] \in Mirrored
  BY <1>1, <1>2, <1>3 DEF Mirrored
<1>5. NoStalePermission
  BY <1>1 DEF NoStalePermission, isAllowedBidder
<1> QED BY Zenon, <1>1, <1>4, <1>5 DEF BiddersInv

LEMMA BiddersNextKeepsInv == BiddersInv /\ [BiddersNext]_biddersVars => BiddersInv'
<1> SUFFICES ASSUME BiddersInv, [BiddersNext]_biddersVars PROVE BiddersInv'
  OBVIOUS
<1>1. CASE Initialize
  BY Zenon, <1>1 DEF Initialize, BiddersInv, NoStalePermission, Mirrored
<1>2. ASSUME NEW n \in 1..BatchSize, NEW pairs \in [1..n -> Bidder \X BOOLEAN],
             SetBidderStatus(pairs)
      PROVE  BiddersInv'
  <2>1. n \in Nat
    BY BiddersAssumption
  <2>2. pairs \in Seq(Bidder \X BOOLEAN)
    BY <2>1
  <2> QED BY Zenon, <1>2, <2>2, SetBidderStatusKeepsInv
<1>3. ASSUME NEW status \in BOOLEAN, SetAnyoneBid(status) PROVE BiddersInv'
  BY Zenon, <1>3 DEF SetAnyoneBid, BiddersInv, NoStalePermission, Mirrored
<1>4. CASE RemoveModule
  BY Zenon, <1>4, RemoveModuleKeepsInv
<1>5. CASE UNCHANGED biddersVars
  BY Zenon, <1>5 DEF biddersVars, BiddersInv, NoStalePermission, isAllowedBidder, Mirrored
<1> QED BY Zenon, <1>1, <1>2, <1>3, <1>4, <1>5 DEF BiddersNext

LEMMA SpecBiddersInv == BiddersSpec => []BiddersInv
BY InitBiddersInv, BiddersNextKeepsInv, PTL DEF BiddersSpec

\* A set without the module, or with the module anew, has no bidder left over from before:
\* the loop of removeModule clears every permission, whatever batches of setBidderStatus came
\* before.
THEOREM PermissionsEndWithModule == BiddersSpec => []NoStalePermission
<1>1. BiddersInv => NoStalePermission
  BY DEF BiddersInv
<1> QED BY <1>1, SpecBiddersInv, PTL

\* biddersHistory holds every allowed bidder once and no other, however setBidderStatus adds
\* and removes them.
THEOREM HistoryAlwaysExact == BiddersSpec => []HistoryExact
<1>1. BiddersInv => HistoryExact
  BY DEF BiddersInv, HistoryExact, Mirrored
<1> QED BY <1>1, SpecBiddersInv, PTL
=============================================================================
