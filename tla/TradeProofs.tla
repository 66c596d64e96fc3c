---------------------------- MODULE TradeProofs -----------------------------
(***************************************************************************)
(* The modules that trade for a set on an exchange.  GeneralIndexModule    *)
(* leaves every position backed by a balance, and takes components to      *)
(* their targets without passing them, for any targets, maxima, fees,      *)
(* trades and multipliers, and whatever is issued, redeemed and scaled in  *)
(* between.  For any markets, prices, premiums, slippage and liquidations  *)
(* on Perp, who issues or redeems bears the slippage of                    *)
(* PerpV2LeverageModuleV2's trades, and the helpers of the tests predict   *)
(* what the module moves.                                                  *)
(***************************************************************************)
EXTENDS GeneralIndex, PerpIssuance, IssuanceProofs

-----------------------------------------------------------------------------
(* GeneralIndexModule: the invariant.                                       *)

\* The numbers a trade's size is computed from.
Typed ==
    /\ targetUnit \in [Component -> Nat] /\ maxSize \in [Component -> Nat]
    /\ positionMultiplier \in Nat /\ raiseTargetPercentage \in Nat

\* The multiplier starts at 100% and is only scaled down: a unit loses at most one where it
\* is stored.
NotRaised == pos.positionMultiplier <= PRECISE_UNIT

IndexInv == IInv /\ Typed /\ NotRaised

LEMMA IndexInvBacked == IndexInv => PositionsBacked
BY IInvCollateralized DEF IndexInv, Collateralized, PositionsBacked

\* Notionals and targets are natural numbers wherever a call reads them.
LEMMA NotionalsNatural ==
    ASSUME IndexInv, NEW c \in Component, positionMultiplier # 0
    PROVE  /\ currentNotional(c) \in Nat /\ targetNotional(c) \in Nat
           /\ getNormalizedTargetUnit(c) \in Nat
<1>1. /\ totalSupply \in Nat /\ unit(c) \in Nat /\ targetUnit[c] \in Nat
      /\ positionMultiplier \in Int /\ positionMultiplier > 0
  BY RealUnits DEF IndexInv, IInv, Typed, unit
<1>2. pos.positionMultiplier \in Nat
  BY DEF IndexInv, IInv, PositionInv, PositionState
<1>3. PICK x \in Nat : x = targetUnit[c] * pos.positionMultiplier
  BY <1>1, <1>2
<1>4. x \div positionMultiplier \in Nat
  BY <1>1, <1>3, DivBounds
<1>5. getNormalizedTargetUnit(c) \in Nat
  BY <1>3, <1>4 DEF getNormalizedTargetUnit
<1>6. currentNotional(c) \in Nat
  BY <1>1, MulIsBelow DEF currentNotional, getDefaultTotalNotional
<1>7. targetNotional(c) \in Nat
  BY <1>1, <1>5, MulCeilIsAbove DEF targetNotional
<1> QED BY <1>5, <1>6, <1>7

-----------------------------------------------------------------------------
(* Trades.                                                                  *)

\* The end of every trade sets the two positions to what their balances back, and the units of
\* both follow the balances.
LEMMA ExecuteTradeEffect ==
    ASSUME IInv, NEW c \in Component, NEW s \in Component, NEW r \in Component, s # r,
           NEW sent \in Nat, NEW received \in Nat, NEW f \in Nat,
           executeTrade(c, s, sent, r, received, f)
    PROVE  /\ IInv'
           /\ pos'.positionMultiplier = pos.positionMultiplier
           /\ balance[s] - sent \in Nat
           /\ balance[r] + received - preciseMul(received, f) \in Nat
           /\ NotRaised =>
                /\ FollowsBalance(totalSupply, unit(s), balance[s], balance[s] - sent, unit(s)')
                /\ FollowsBalance(totalSupply, unit(r), balance[r],
                                  balance[r] + received - preciseMul(received, f), unit(r)')
<1> DEFINE fee == preciseMul(received, f)
           new == [balance EXCEPT ![s] = @ - sent, ![r] = @ + received - fee]
           afterSend == calculateAndEditDefaultPosition(pos, s, totalSupply, balance[s], new[s])
<1>1. totalSupply \in Nat /\ balance \in [Component -> Nat]
  BY DEF IInv
<1>2. /\ sent <= balance[s] /\ new[r] >= balance[r]
      /\ calculateAndEditDefaultPositionOK(pos, s, totalSupply, balance[s], new[s])
      /\ calculateAndEditDefaultPositionOK(afterSend, r, totalSupply, balance[r], new[r])
      /\ pos' = calculateAndEditDefaultPosition(afterSend, r, totalSupply, balance[r], new[r])
      /\ balance' = new /\ UNCHANGED totalSupply
  BY DEF executeTrade
<1>3. fee \in Nat
  BY MulIsBelow
<1> HIDE DEF fee
<1>4. /\ new \in [Component -> Int]
      /\ new[s] = balance[s] - sent
      /\ new[r] = balance[r] + received - fee
      /\ \A z \in Component \ {s, r} : new[z] = balance[z]
  BY <1>1, <1>3
<1> HIDE DEF new
<1>5. \A z \in Component : new[z] \in Nat
  BY <1>1, <1>2, <1>4
<1>6. new \in [Component -> Nat]
  BY <1>4, <1>5
<1>7. /\ IInv'
      /\ pos'.positionMultiplier = pos.positionMultiplier
      /\ NotRaised => \A z \in {s, r} :
           FollowsBalance(totalSupply, unit(z), balance[z], new[z], unit(z)')
  BY <1>2, <1>4, <1>6, TradedPositions DEF NotRaised
<1> QED BY <1>4, <1>5, <1>7 DEF fee

\* It changes nothing that a size is computed from.
LEMMA ExecuteTradeKeepsTyped ==
    ASSUME Typed, NEW c, NEW s, NEW r, NEW sent, NEW received, NEW f,
           executeTrade(c, s, sent, r, received, f)
    PROVE  Typed' /\ UNCHANGED <<targetUnit, positionMultiplier, totalSupply>>
BY DEF executeTrade, Typed, settings, rebalanceInfo

\* What is left to be sold or bought is a natural number, and so is the part a trade takes.
LEMMA LeftNatural ==
    ASSUME IndexInv, NEW c \in Component, NEW f \in Nat, positionMultiplier # 0,
           isSendTokenFixed(c) \/ f < PRECISE_UNIT
    PROVE  (IF isSendTokenFixed(c)
            THEN currentNotional(c) - targetNotional(c)
            ELSE preciseDiv(targetNotional(c) - currentNotional(c), PRECISE_UNIT - f)) \in Nat
<1> DEFINE cur == currentNotional(c)
           goal == targetNotional(c)
<1>1. cur \in Nat /\ goal \in Nat
  BY NotionalsNatural
<1>2. isSendTokenFixed(c) <=> goal < cur
  BY DEF isSendTokenFixed
<1> HIDE DEF cur, goal
<1>3. CASE isSendTokenFixed(c)
  <2>1. cur - goal \in Nat
    BY <1>1, <1>2, <1>3
  <2> QED BY <1>3, <2>1 DEF cur, goal
<1>4. CASE ~ isSendTokenFixed(c)
  <2>1. goal - cur \in Nat /\ PRECISE_UNIT - f \in Nat /\ PRECISE_UNIT - f > 0
    BY <1>1, <1>2, <1>4, PreciseUnitAssumption
  <2>2. preciseDiv(goal - cur, PRECISE_UNIT - f) \in Nat
    BY <2>1, DivIsBelow
  <2> QED BY <1>4, <2>2 DEF cur, goal
<1> QED BY <1>3, <1>4

LEMMA TradeSizeNatural ==
    ASSUME IndexInv, NEW c \in Component, NEW f \in Nat, positionMultiplier # 0,
           isSendTokenFixed(c) \/ f < PRECISE_UNIT
    PROVE  tradeSize(c, f) \in Nat
<1>1. maxSize[c] \in Nat
  BY DEF IndexInv, Typed
<1> QED BY Zenon, <1>1, LeftNatural DEF tradeSize

\* Both kinds of trade.
LEMMA TradesKeepIndexInv ==
    ASSUME IndexInv, NEW c \in Component, NEW n \in TokenAmount, NEW f \in FeeRate,
           trade(c, n, f) \/ tradeRemainingWETH(c, n, f)
    PROVE  IndexInv'
<1>1. /\ n \in Nat /\ f \in Nat /\ weth \in Component /\ c # weth
      /\ positionMultiplier # 0 /\ IInv /\ Typed /\ NotRaised
  BY IssuanceAssumption, IndexAssumption
     DEF IndexInv, trade, tradeRemainingWETH, validateTradeParameters
<1>2. CASE trade(c, n, f) /\ isSendTokenFixed(c)
  <2>1. executeTrade(c, c, tradeSize(c, f), weth, n, f)
    BY <1>2 DEF trade
  <2>2. tradeSize(c, f) \in Nat
    BY <1>1, <1>2, TradeSizeNatural
  <2> QED BY <1>1, <2>1, <2>2, ExecuteTradeEffect, ExecuteTradeKeepsTyped DEF IndexInv, NotRaised
<1>3. CASE trade(c, n, f) /\ ~ isSendTokenFixed(c)
  <2>1. f < PRECISE_UNIT /\ executeTrade(c, weth, n, c, tradeSize(c, f), f)
    BY <1>3 DEF trade
  <2>2. tradeSize(c, f) \in Nat
    BY <1>1, <2>1, TradeSizeNatural
  <2> QED BY <1>1, <2>1, <2>2, ExecuteTradeEffect, ExecuteTradeKeepsTyped DEF IndexInv, NotRaised
<1>4. CASE tradeRemainingWETH(c, n, f)
  <2>1. remainingWETH >= 0 /\ executeTrade(c, weth, remainingWETH, c, n, f)
    BY <1>4 DEF tradeRemainingWETH
  <2>2. remainingWETH \in Nat
    BY <1>1, <2>1, NotionalsNatural DEF remainingWETH
  <2> QED BY <1>1, <2>1, <2>2, ExecuteTradeEffect, ExecuteTradeKeepsTyped DEF IndexInv, NotRaised
<1> QED BY <1>2, <1>3, <1>4

\* A target depends on the multiplier, not on what is traded.
LEMMA TargetsStay ==
    ASSUME NEW c, UNCHANGED <<targetUnit, positionMultiplier>>,
           pos'.positionMultiplier = pos.positionMultiplier
    PROVE  getNormalizedTargetUnit(c)' = getNormalizedTargetUnit(c)
BY DEF getNormalizedTargetUnit

\* Where a trade ends: not past the target, and at it if it trades all that is left.
LEMMA TradeStops ==
    ASSUME IndexInv, NEW c \in Component, NEW n \in TokenAmount, NEW f \in FeeRate, trade(c, n, f)
    PROVE  LET target == getNormalizedTargetUnit(c)
           IN  /\ target \in Nat /\ target' = target /\ unit(c)' \in Nat
               /\ isSendTokenFixed(c) => unit(c)' >= target - 1
               /\ ~ isSendTokenFixed(c) => (unit(c)' - target) * totalSupply < PRECISE_UNIT
               /\ totalSupply >= PRECISE_UNIT /\ tradeSize(c, f) < maxSize[c] =>
                    target - 1 <= unit(c)' /\ unit(c)' <= target
<1> DEFINE target == getNormalizedTargetUnit(c)
           left == IF isSendTokenFixed(c)
                   THEN currentNotional(c) - targetNotional(c)
                   ELSE preciseDiv(targetNotional(c) - currentNotional(c), PRECISE_UNIT - f)
           goal == preciseMulCeil(totalSupply, target)
           cur == preciseMul(totalSupply, unit(c))
           B == balance[c]
           size == tradeSize(c, f)
<1>1. /\ n \in Nat /\ f \in Nat /\ weth \in Component /\ c # weth
      /\ positionMultiplier # 0 /\ IInv /\ Typed /\ NotRaised
  BY IssuanceAssumption, IndexAssumption DEF IndexInv, trade, validateTradeParameters
<1>2. /\ goal = targetNotional(c) /\ cur = currentNotional(c)
      /\ goal \in Nat /\ cur \in Nat /\ target \in Nat
  BY <1>1, NotionalsNatural
     DEF targetNotional, currentNotional, getDefaultTotalNotional
<1>3. /\ size <= left /\ (size < maxSize[c] => size = left)
  <2>1. left \in Nat
    <3>1. isSendTokenFixed(c) \/ f < PRECISE_UNIT
      BY DEF trade
    <3> QED BY Zenon, <1>1, <3>1, LeftNatural
  <2>2. maxSize[c] \in Nat
    BY <1>1 DEF Typed
  <2>3. size = IF left <= maxSize[c] THEN left ELSE maxSize[c]
    BY DEF tradeSize
  <2> HIDE DEF size, left
  <2> QED BY <2>1, <2>2, <2>3
<1>4. /\ totalSupply \in Nat /\ unit(c) \in Nat /\ B \in Nat
      /\ totalSupply * unit(c) <= PRECISE_UNIT * B
  BY <1>1, RealUnits DEF IInv, Backs, unit
<1>5. size \in Nat
  BY <1>1, TradeSizeNatural DEF trade
<1> HIDE DEF size, target
<1>6. CASE isSendTokenFixed(c)
  <2>1. executeTrade(c, c, size, weth, n, f)
    BY <1>6 DEF trade, size
  <2>2. /\ IInv' /\ pos'.positionMultiplier = pos.positionMultiplier /\ B - size \in Nat
        /\ FollowsBalance(totalSupply, unit(c), B, B - size, unit(c)')
    BY <1>1, <1>5, <2>1, ExecuteTradeEffect
  <2>3. UNCHANGED <<targetUnit, positionMultiplier>>
    BY <1>1, <2>1, ExecuteTradeKeepsTyped
  <2>4. unit(c)' \in Nat
    BY <2>2, RealUnits DEF IInv, unit
  <2>5. target' = target
    BY Zenon, <2>2, <2>3, TargetsStay DEF target
  <2>6. left = cur - goal /\ goal < cur
    BY <1>2, <1>6 DEF isSendTokenFixed
  <2> HIDE DEF B, left, goal, cur
  <2>7. PICK w \in Nat : w = unit(c)'
    BY <2>4
  <2>8. PICK N \in Nat : N = B - size
    BY <2>2
  <2>9. FollowsBalance(totalSupply, unit(c), B, N, w)
    BY Zenon, <2>2, <2>7, <2>8
  <2>10. w >= target - 1
    <3>1. B - N <= cur - goal
      BY <1>3, <1>4, <1>5, <2>6, <2>8, <1>2
    <3>2. totalSupply > 0
      <4>1. totalSupply = 0 => cur = 0
        BY <1>4, PreciseUnitAssumption DEF cur, preciseMul
      <4> QED BY <1>2, <1>4, <2>6, <4>1
    <3> QED BY Zenon, <1>2, <1>4, <2>9, <3>1, <3>2, SaleStopsAtTarget DEF cur, goal
  <2>11. ASSUME totalSupply >= PRECISE_UNIT, size < maxSize[c]
         PROVE  target - 1 <= w /\ w <= target
    <3>1. N - B = goal - cur
      BY <1>2, <1>3, <1>4, <1>5, <2>6, <2>8, <2>11
    <3> QED BY Zenon, <1>2, <1>4, <2>9, <2>11, <3>1, ExactTradeMeetsTarget DEF cur, goal
  <2> QED BY <1>2, <1>6, <2>4, <2>5, <2>7, <2>10, <2>11 DEF size, target
<1>7. CASE ~ isSendTokenFixed(c)
  <2>1. f < PRECISE_UNIT /\ executeTrade(c, weth, n, c, size, f)
    BY <1>7 DEF trade, size
  <2> DEFINE net == size - preciseMul(size, f)
  <2>2. /\ IInv' /\ pos'.positionMultiplier = pos.positionMultiplier
        /\ B + size - preciseMul(size, f) \in Nat
        /\ FollowsBalance(totalSupply, unit(c), B, B + size - preciseMul(size, f), unit(c)')
    BY <1>1, <1>5, <2>1, ExecuteTradeEffect
  <2>3. UNCHANGED <<targetUnit, positionMultiplier>>
    BY <1>1, <2>1, ExecuteTradeKeepsTyped
  <2>4. unit(c)' \in Nat
    BY <2>2, RealUnits DEF IInv, unit
  <2>5. target' = target
    BY Zenon, <2>2, <2>3, TargetsStay DEF target
  <2>6. PICK X \in Nat : X = goal - cur /\ left = preciseDiv(X, PRECISE_UNIT - f)
    BY <1>2, <1>7 DEF isSendTokenFixed
  <2> HIDE DEF B, left, goal, cur
  <2>7. /\ net \in Nat /\ net <= X
        /\ size < maxSize[c] => net = X
    BY <1>1, <1>3, <1>5, <2>1, <2>6, NetOfFee
  <2>8. PICK w \in Nat : w = unit(c)'
    BY <2>4
  <2>9. PICK N \in Nat : N = B + size - preciseMul(size, f)
    BY <2>2
  <2>10. FollowsBalance(totalSupply, unit(c), B, N, w)
    BY Zenon, <2>2, <2>8, <2>9
  <2>11. N - B = net
    <3>1. preciseMul(size, f) \in Nat
      BY <1>1, <1>5, MulIsBelow
    <3> QED BY <1>4, <1>5, <2>9, <3>1
  <2> HIDE DEF net
  <2>12. (w - target) * totalSupply < PRECISE_UNIT
    <3>1. N - B <= goal - cur
      BY <1>2, <2>6, <2>7, <2>11
    <3> QED BY Zenon, <1>2, <1>4, <2>10, <3>1, PurchaseStopsAtTarget DEF cur, goal
  <2>13. ASSUME totalSupply >= PRECISE_UNIT, size < maxSize[c]
         PROVE  target - 1 <= w /\ w <= target
    <3>1. N - B = goal - cur
      BY <2>6, <2>7, <2>11, <2>13
    <3> QED BY Zenon, <1>2, <1>4, <2>10, <2>13, <3>1, ExactTradeMeetsTarget DEF cur, goal
  <2> QED BY <1>2, <1>7, <2>4, <2>5, <2>8, <2>12, <2>13 DEF size, target
<1> QED BY <1>6, <1>7

\* Where spending the remaining WETH ends: at most one unit below WETH's own target, although the
\* code guards the call with another target than the one it computes the amount from.
LEMMA RemainingStops ==
    ASSUME IndexInv, NEW c \in Component, NEW n \in TokenAmount, NEW f \in FeeRate,
           tradeRemainingWETH(c, n, f), totalSupply > 0
    PROVE  /\ unit(weth)' >= getNormalizedTargetUnit(weth) - 1
           /\ unit(c)' <= getNormalizedTargetUnit(c)
<1> DEFINE target == getNormalizedTargetUnit(weth)
           goal == preciseMulCeil(totalSupply, target)
           cur == preciseMul(totalSupply, unit(weth))
           B == balance[weth]
<1>1. /\ n \in Nat /\ f \in Nat /\ weth \in Component /\ c # weth
      /\ positionMultiplier # 0 /\ IInv /\ Typed /\ NotRaised
  BY IssuanceAssumption, IndexAssumption DEF IndexInv, tradeRemainingWETH, validateTradeParameters
<1>2. /\ goal = targetNotional(weth) /\ cur = currentNotional(weth)
      /\ goal \in Nat /\ cur \in Nat /\ target \in Nat
  BY <1>1, NotionalsNatural
     DEF targetNotional, currentNotional, getDefaultTotalNotional
<1>3. /\ totalSupply \in Nat /\ unit(weth) \in Nat /\ B \in Nat
      /\ totalSupply * unit(weth) <= PRECISE_UNIT * B
  BY <1>1, RealUnits DEF IInv, Backs, unit
<1> HIDE DEF target, goal, cur, B
<1>4. /\ remainingWETH = cur - goal /\ remainingWETH >= 0
      /\ executeTrade(c, weth, remainingWETH, c, n, f)
      /\ unit(c)' <= getNormalizedTargetUnit(c)'
  BY <1>2 DEF tradeRemainingWETH, remainingWETH
<1>5. PICK r \in Nat : r = remainingWETH /\ r = cur - goal
  BY <1>2, <1>4
<1>6. /\ IInv' /\ pos'.positionMultiplier = pos.positionMultiplier /\ B - r \in Nat
      /\ FollowsBalance(totalSupply, unit(weth), B, B - r, unit(weth)')
  BY <1>1, <1>4, <1>5, ExecuteTradeEffect DEF B
<1>7. UNCHANGED <<targetUnit, positionMultiplier>>
  BY <1>1, <1>4, ExecuteTradeKeepsTyped
<1>8. getNormalizedTargetUnit(c)' = getNormalizedTargetUnit(c)
  BY Zenon, <1>6, <1>7, TargetsStay
<1>9. unit(weth)' \in Nat
  BY <1>1, <1>6, RealUnits DEF IInv, unit
<1>10. PICK w \in Nat, N \in Nat : w = unit(weth)' /\ N = B - r
  BY <1>6, <1>9
<1>11. B - N <= cur - goal
  BY <1>2, <1>3, <1>5, <1>10
<1>12. FollowsBalance(totalSupply, unit(weth), B, N, w)
  BY Zenon, <1>6, <1>10
<1>13. w >= target - 1
  BY Zenon, <1>2, <1>3, <1>11, <1>12, SaleStopsAtTarget DEF cur, goal
<1> QED BY <1>4, <1>8, <1>10, <1>13 DEF target

-----------------------------------------------------------------------------
(* Other steps.                                                             *)

\* Issues, redemptions and fees of other modules.
LEMMA OtherModuleKeepsIndexInv ==
    ASSUME IndexInv, OtherModule
    PROVE  IndexInv'
<1>1. Typed' /\ IInv /\ NotRaised
  BY DEF OtherModule, IndexInv, Typed, settings, rebalanceInfo
<1>2. CASE (\E q \in Quantity : BasicIssue(q)) \/ (\E q \in Quantity : BasicRedeem(q))
  <2>1. UNCHANGED pos
    BY <1>2 DEF BasicIssue, BasicRedeem
  <2> QED BY <1>1, <1>2, <2>1, BasicIssueKeepsIInv, BasicRedeemKeepsIInv DEF IndexInv, NotRaised
<1>3. ASSUME NEW k \in Multiplier, k < pos.positionMultiplier, validateNewMultiplier(pos, k),
             pos' = editPositionMultiplier(pos, k), UNCHANGED <<totalSupply, balance>>
      PROVE  IndexInv'
  <2>1. k \in Int
    BY IndexAssumption, PreciseUnitAssumption
  <2>2. pos \in PositionState
    BY <1>1 DEF IInv, PositionInv
  <2>3. pos'.positionMultiplier = k /\ pos.positionMultiplier \in Int
    BY <1>3, <2>1, <2>2, EditMultiplierFields, PositionFields
  <2>4. NotRaised'
    BY <1>1, <1>3, <2>1, <2>3, PreciseUnitAssumption DEF NotRaised
  <2> QED BY <1>1, <1>3, <2>1, <2>4, SmallerMultiplierKeepsIInv DEF IndexInv
<1> QED BY <1>2, <1>3 DEF OtherModule

\* Settings are the numbers the manager gave, or what the set had.
LEMMA ManagerStepKeepsTyped ==
    ASSUME IndexInv, ManagerStep \/ raiseAssetTargets \/ Tick
    PROVE  Typed' /\ UNCHANGED vars
<1>1. /\ \A c \in Component : unit(c) \in Nat
      /\ pos.positionMultiplier \in Nat /\ Typed
  <2>1. \A c \in Component : unit(c) \in Nat
    BY RealUnits DEF IndexInv, IInv, unit
  <2>2. pos.positionMultiplier \in Nat
    BY DEF IndexInv, IInv, PositionInv, PositionState
  <2> QED BY <2>1, <2>2 DEF IndexInv
<1>2. CASE initialize
  BY <1>1, <1>2 DEF initialize, Typed, settings
<1>3. CASE removeModule
  BY <1>1, <1>3 DEF removeModule, Typed, settings
<1>4. ASSUME NEW new, NEW targets \in [Component -> TargetUnit], NEW k \in Multiplier,
             startRebalance(new, targets, k)
      PROVE  Typed' /\ UNCHANGED vars
  <2>1. \A c \in Component : targets[c] \in Nat
    BY IndexAssumption
  <2>2. k \in Nat
    BY IndexAssumption, PreciseUnitAssumption
  <2>3. /\ \E B : targetUnit' = [c \in Component |-> IF B[c] THEN targets[c] ELSE targetUnit[c]]
        /\ positionMultiplier' = k /\ UNCHANGED <<vars, maxSize, raiseTargetPercentage>>
    <3> DEFINE B == [c \in Component |-> contains(extend(pos.components, new), c)]
    <3>1. targetUnit' = [c \in Component |-> IF B[c] THEN targets[c] ELSE targetUnit[c]]
      BY <1>4 DEF startRebalance
    <3> QED BY Zenon, <1>4, <3>1 DEF startRebalance, settings
  <2> QED BY <1>1, <2>1, <2>2, <2>3 DEF Typed
<1>5. ASSUME NEW c \in Component, NEW n \in MaxSize, setTradeMaximums(c, n)
      PROVE  Typed' /\ UNCHANGED vars
  BY <1>1, <1>5, IndexAssumption DEF setTradeMaximums, Typed, rebalanceInfo
<1>6. ASSUME NEW c \in Component, NEW t \in CoolOff, setCoolOffPeriods(c, t)
      PROVE  Typed' /\ UNCHANGED vars
  BY <1>1, <1>6 DEF setCoolOffPeriods, Typed, rebalanceInfo
<1>7. ASSUME NEW x \in RaisePercentage, setRaiseTargetPercentage(x)
      PROVE  Typed' /\ UNCHANGED vars
  BY <1>1, <1>7, IndexAssumption DEF setRaiseTargetPercentage, Typed, settings
<1>8. CASE raiseAssetTargets
  <2>1. /\ positionMultiplier' = preciseDiv(positionMultiplier, PRECISE_UNIT + raiseTargetPercentage)
        /\ UNCHANGED <<vars, targetUnit, maxSize, raiseTargetPercentage>>
    BY <1>8 DEF raiseAssetTargets, settings
  <2>2. /\ positionMultiplier \in Nat /\ PRECISE_UNIT + raiseTargetPercentage \in Nat
        /\ PRECISE_UNIT + raiseTargetPercentage > 0
    BY <1>1, PreciseUnitAssumption DEF Typed
  <2>3. positionMultiplier' \in Nat
    BY <2>1, <2>2, DivIsBelow
  <2> QED BY <1>1, <2>1, <2>3 DEF Typed
<1>9. CASE Tick
  BY <1>1, <1>9 DEF Tick, Typed, settings, rebalanceInfo
<1> QED BY <1>2, <1>3, <1>4, <1>5, <1>6, <1>7, <1>8, <1>9 DEF ManagerStep

-----------------------------------------------------------------------------
(* The theorem.                                                             *)

LEMMA IndexNextKeepsInv == IndexInv /\ [IndexNext]_indexVars => IndexInv'
<1> SUFFICES ASSUME IndexInv, [IndexNext]_indexVars PROVE IndexInv'
  OBVIOUS
<1>1. CASE UNCHANGED indexVars \/ ManagerStep \/ raiseAssetTargets \/ Tick
  <2>1. Typed' /\ UNCHANGED vars
    <3>1. CASE UNCHANGED indexVars
      BY <3>1 DEF indexVars, IndexInv, Typed, settings, rebalanceInfo
    <3> QED BY <1>1, <3>1, ManagerStepKeepsTyped
  <2> QED BY <2>1 DEF IndexInv, NotRaised, vars, IInv, Backs
<1>2. CASE (\E c \in Component : TradeStep(c)) \/ (\E c \in Component : RemainingStep(c))
  BY <1>2, TradesKeepIndexInv DEF TradeStep, RemainingStep
<1>3. CASE OtherModule
  BY <1>3, OtherModuleKeepsIndexInv
<1> QED BY <1>1, <1>2, <1>3 DEF IndexNext

LEMMA InitIndexInv == IndexInit => IndexInv
<1>1. Init => NotRaised
  BY PreciseUnitAssumption DEF Init, InitialPositions, NotRaised
<1> QED BY <1>1, InitIInv DEF IndexInit, IndexInv, Typed

LEMMA SpecIndexInv == IndexSpec => []IndexInv
BY InitIndexInv, IndexNextKeepsInv, PTL DEF IndexSpec

\* Trades never leave the set with positions its balances do not cover.
THEOREM PositionsStayBacked == IndexSpec => []PositionsBacked
<1>1. IndexInv => PositionsBacked
  BY IndexInvBacked
<1> QED BY <1>1, SpecIndexInv, PTL

\* No trade pushes a component past its target by more than rounding, at any size, price and
\* fee, although the code only bounds the size of the trade.
THEOREM NeverOvershoots == IndexSpec => TradeNeverOvershoots
<1>1. ASSUME IndexInv, NEW c \in Component \ {weth}, TradeStep(c)
      PROVE  IF isSendTokenFixed(c)
             THEN unit(c)' >= getNormalizedTargetUnit(c) - 1
             ELSE (unit(c)' - getNormalizedTargetUnit(c)) * totalSupply < PRECISE_UNIT
  BY Zenon, <1>1, TradeStops DEF TradeStep
<1>2. IndexInv => [balance' # balance /\ pos' # pos => \A c \in Component \ {weth} : TradeStep(c) =>
         IF isSendTokenFixed(c)
         THEN unit(c)' >= getNormalizedTargetUnit(c) - 1
         ELSE (unit(c)' - getNormalizedTargetUnit(c)) * totalSupply < PRECISE_UNIT]_indexVars
  BY Zenon, <1>1
<1> QED BY <1>2, SpecIndexInv, PTL DEF TradeNeverOvershoots

\* A trade that the maximum does not cut short settles its component.
THEOREM FullTradesSettle == IndexSpec => FullTradeMeetsTarget
<1>1. ASSUME IndexInv, NEW c \in Component, NEW n \in TokenAmount, NEW f \in FeeRate,
             totalSupply >= PRECISE_UNIT, trade(c, n, f), tradeSize(c, f) < maxSize[c]
      PROVE  ~ targetUnmet(c)'
  <2>1. PICK t \in Nat : t = getNormalizedTargetUnit(c)' /\ t - 1 <= unit(c)' /\ unit(c)' <= t
    BY Zenon, <1>1, TradeStops
  <2>2. unit(c)' \in Nat
    BY Zenon, <1>1, TradeStops
  <2> QED BY <2>1, <2>2 DEF targetUnmet, approximatelyEquals
<1>2. IndexInv => [totalSupply' = totalSupply /\ balance' # balance => \A c \in Component \ {weth} :
         /\ totalSupply >= PRECISE_UNIT
         /\ \E n \in TokenAmount, f \in FeeRate :
              trade(c, n, f) /\ tradeSize(c, f) < maxSize[c]
         => ~ targetUnmet(c)']_indexVars
  BY Zenon, <1>1
<1> QED BY <1>2, SpecIndexInv, PTL DEF FullTradeMeetsTarget

\* Spending the remaining WETH keeps both its own target and the component's.
THEOREM RemainingRespectsTargets == IndexSpec => RemainingKeepsTargets
<1>1. IndexInv => [balance' # balance /\ totalSupply > 0 =>
         \A c \in Component \ {weth} : RemainingStep(c) =>
           /\ unit(weth)' >= getNormalizedTargetUnit(weth) - 1
           /\ unit(c)' <= getNormalizedTargetUnit(c)]_indexVars
  BY Zenon, RemainingStops DEF RemainingStep
<1> QED BY <1>1, SpecIndexInv, PTL DEF RemainingKeepsTargets

-----------------------------------------------------------------------------
(* PerpV2LeverageModuleV2: divisions that truncate toward zero.             *)

\* The quotient lies between zero and the number divided, less than one away from it.
LEMMA QuotientBounds ==
    ASSUME NEW a \in Int, NEW b \in Int, b > 0
    PROVE  /\ Quotient(a, b) \in Int
           /\ a - b < b * Quotient(a, b) /\ b * Quotient(a, b) < a + b
           /\ a >= 0 => Quotient(a, b) >= 0 /\ b * Quotient(a, b) <= a
           /\ a <= 0 => Quotient(a, b) <= 0 /\ b * Quotient(a, b) >= a
<1>1. CASE a >= 0
  <2>1. Quotient(a, b) = a \div b
    BY <1>1 DEF Quotient, abs
  <2>2. PICK n \in Int : n = a \div b /\ b * n <= a /\ a < b * n + b
    BY DivBounds
  <2>3. n >= 0
    BY <1>1, <2>2
  <2>4. a = 0 => n = 0
    BY <2>2
  <2> QED BY <1>1, <2>1, <2>2, <2>3, <2>4
<1>2. CASE a < 0
  <2>1. Quotient(a, b) = -((-a) \div b)
    BY <1>2 DEF Quotient, abs
  <2>2. PICK n \in Int : n = (-a) \div b /\ b * n <= -a /\ -a < b * n + b
    BY <1>2, DivBounds
  <2>3. n >= 0
    BY <1>2, <2>2
  <2>4. b * (-n) = -(b * n)
    BY <2>2
  <2> QED BY <1>2, <2>1, <2>2, <2>3, <2>4
<1> QED BY <1>1, <1>2

LEMMA QuotientType ==
    ASSUME NEW a \in Int, NEW b \in Int, b > 0
    PROVE  Quotient(a, b) \in Int
BY QuotientBounds

\* The share of an amount x of the whole supply S that goes with q sets, by way of the
\* amount per set: twice truncated.
LEMMA ShareBounds ==
    ASSUME NEW x \in Int, NEW S \in Int, S > 0, NEW q \in Int, q > 0
    PROVE  LET y == preciseMulInt(preciseDivInt(x, S), q)
           IN  /\ y \in Int
               /\ PRECISE_UNIT * (S * y) <= PRECISE_UNIT * (q * x) + S * (q + PRECISE_UNIT)
               /\ PRECISE_UNIT * (q * x) <= PRECISE_UNIT * (S * y) + S * (q + PRECISE_UNIT)
<1>1. PICK P \in Int : P = PRECISE_UNIT /\ P > 0
  BY PreciseUnitAssumption
<1>2. PICK xp \in Int : xp = x * P
  OBVIOUS
<1>3. PICK v \in Int : /\ v = preciseDivInt(x, S)
                       /\ xp - S < S * v /\ S * v < xp + S
  BY <1>1, <1>2, QuotientBounds DEF preciseDivInt
<1>4. PICK vq \in Int : vq = v * q
  OBVIOUS
<1>5. PICK y \in Int : /\ y = preciseMulInt(v, q)
                       /\ vq - P < P * y /\ P * y < vq + P
  BY <1>1, <1>4, QuotientBounds DEF preciseMulInt
<1>6. PICK sv \in Int, sq \in Int, sp \in Int : sv = S * v /\ sq = S * q /\ sp = S * P
  OBVIOUS
<1>7. S * (vq - P) <= S * (P * y) /\ S * (P * y) <= S * (vq + P)
  BY <1>1, <1>5, KeepOrder
<1>8. q * (xp - S) <= q * sv /\ q * sv <= q * (xp + S)
  BY <1>3, <1>6, KeepOrder
<1>9. /\ S * (vq - P) = q * sv - sp /\ S * (vq + P) = q * sv + sp
      /\ q * (xp - S) = P * (q * x) - sq /\ q * (xp + S) = P * (q * x) + sq
      /\ S * (P * y) = P * (S * y) /\ S * (q + P) = sq + sp
  BY <1>2, <1>4, <1>6
<1>10. PICK m1 \in Int, m2 \in Int, m3 \in Int, m4 \in Int :
         m1 = q * sv /\ m2 = P * (q * x) /\ m3 = P * (S * y) /\ m4 = S * (q + P)
  OBVIOUS
<1>11. m1 - sp <= m3 /\ m3 <= m1 + sp /\ m2 - sq <= m1 /\ m1 <= m2 + sq /\ m4 = sq + sp
  BY <1>7, <1>8, <1>9, <1>10
<1>12. m3 <= m2 + m4 /\ m2 <= m3 + m4
  BY <1>6, <1>11
<1>13. preciseMulInt(preciseDivInt(x, S), q) = y
  BY <1>3, <1>5
<1> QED BY <1>1, <1>10, <1>12, <1>13

-----------------------------------------------------------------------------
(* Perp.                                                                    *)

\* The states of a levered set: amounts that can be of either sign, a vault that is never
\* overdrawn.
PerpInv ==
    /\ perpSupply \in Nat
    /\ base \in [Market -> Int] /\ quote \in [Market -> Int]
    /\ collateral \in Nat /\ owedRealizedPnl \in Int
    /\ twPremium \in [Market -> Int] /\ lastTwPremium \in [Market -> Int]
    /\ spot \in [Market -> Nat \ {0}] /\ markBelowIndex \in [Market -> BOOLEAN]
    /\ positions \subseteq Market
    /\ external \in [open : BOOLEAN, unit : Nat]

LEMMA MaxOfZero ==
    ASSUME NEW x \in Int
    PROVE  Max({0, x}) = IF x > 0 THEN x ELSE 0
BY DEF Max

\* A swap neither costs nor brings less than nothing.
LEMMA SwapQuoteType ==
    ASSUME PerpInv, NEW b \in Market, NEW amount \in Int, NEW slippage \in Nat
    PROVE  SwapQuote(b, amount, slippage) \in Nat
<1>1. PICK P \in Int, s \in Nat : P = PRECISE_UNIT /\ P > 0 /\ s = spot[b] /\ s > 0
  BY PreciseUnitAssumption DEF PerpInv
<1>2. CASE amount > 0
  <2>1. PICK n \in Int : n = amount * s /\ n > 0
    BY <1>1, <1>2
  <2>2. (n - 1) \div P \in Int /\ (n - 1) \div P >= 0
    BY <1>1, <2>1
  <2>3. SwapQuote(b, amount, slippage) = ((n - 1) \div P) + 1 + slippage
    BY <1>1, <1>2, <2>1 DEF SwapQuote, preciseMulCeil
  <2> QED BY <2>2, <2>3
<1>3. CASE ~ (amount > 0)
  <2>1. PICK n \in Int : n = (-amount) * s
    BY <1>1
  <2>2. PICK m \in Int : m = (n \div P) - slippage
    BY <1>1, <2>1
  <2>3. SwapQuote(b, amount, slippage) = Max({0, m})
    BY <1>1, <1>3, <2>1, <2>2 DEF SwapQuote, preciseMul
  <2> QED BY <2>3, MaxOfZero
<1> QED BY <1>2, <1>3

\* What a swap moves is taken from what the account has in quote and realized profit.
LEMMA OpenPositionConserves ==
    ASSUME NEW mb \in Int, NEW mq \in Int, NEW mo \in Int, NEW amount \in Int, NEW dq \in Int
    PROVE  LET n == openPosition([base |-> mb, quote |-> mq, owed |-> mo], amount, dq)
           IN  /\ n.base = mb + amount /\ n.quote \in Int /\ n.owed \in Int
               /\ n.quote + n.owed = mq + mo - (IF amount > 0 THEN dq ELSE -dq)
<1> DEFINE m == [base |-> mb, quote |-> mq, owed |-> mo]
           n == openPosition(m, amount, dq)
           q == IF amount > 0 THEN -dq ELSE dq
           reducing == mb # 0 /\ (mb > 0) # (amount > 0)
<1>1. m.base = mb /\ m.quote = mq /\ m.owed = mo /\ q \in Int
  OBVIOUS
<1>2. CASE ~ reducing
  <2>1. n = [m EXCEPT !.base = @ + amount, !.quote = @ + q]
    BY <1>1, <1>2 DEF openPosition
  <2>2. n.base = mb + amount /\ n.quote = mq + q /\ n.owed = mo
    BY <2>1
  <2> QED BY <1>1, <2>2
<1>3. CASE reducing /\ abs(amount) <= abs(mb)
  <2>1. PICK k \in Int : k = Quotient(mq * abs(amount), abs(mb))
    <3>1. abs(mb) \in Int /\ abs(mb) > 0 /\ abs(amount) \in Int
      BY <1>3 DEF abs
    <3>2. PICK x \in Int : x = mq * abs(amount)
      BY <3>1
    <3> QED BY <3>1, <3>2, QuotientBounds
  <2>2. n = [base |-> mb + amount, quote |-> mq - k, owed |-> mo + k + q]
    BY <1>1, <1>3, <2>1 DEF openPosition
  <2>3. n.base = mb + amount /\ n.quote = mq - k /\ n.owed = mo + k + q
    BY <2>2
  <2> QED BY <1>1, <2>3
<1>4. CASE reducing /\ ~ (abs(amount) <= abs(mb))
  <2>1. PICK k \in Int : k = Quotient(q * abs(mb), abs(amount))
    <3>1. abs(mb) \in Int /\ abs(amount) > 0 /\ abs(amount) \in Int
      BY <1>4 DEF abs
    <3>2. PICK x \in Int : x = q * abs(mb)
      BY <3>1
    <3> QED BY <3>1, <3>2, QuotientBounds
  <2>2. n = [base |-> mb + amount, quote |-> q - k, owed |-> mo + mq + k]
    BY <1>1, <1>4, <2>1 DEF openPosition
  <2>3. n.base = mb + amount /\ n.quote = q - k /\ n.owed = mo + mq + k
    BY <2>2
  <2> QED BY <1>1, <2>3
<1> QED BY <1>2, <1>3, <1>4

-----------------------------------------------------------------------------
(* The account's value.                                                     *)

\* What an account is made of, market by market.
fundings == [b \in Market |-> pendingFunding(b)]
worths == [b \in Market |-> base[b] * spot[b]]
marketValues == [b \in Market |-> marketValue(b)]

\* What swaps of an amount in some markets cost, and what the base they move is worth.
costs(amount, slippage) ==
    [b \in DOMAIN amount |->
       IF amount[b] > 0 THEN SwapQuote(b, amount[b], slippage)
       ELSE -SwapQuote(b, amount[b], slippage)]
moved(amount) == [b \in DOMAIN amount |-> amount[b] * spot[b]]

LEMMA FundingType ==
    ASSUME PerpInv, NEW b \in Market
    PROVE  pendingFunding(b) \in Int
<1>1. PICK d \in Int : d = ONE_DAY_IN_SECONDS * PRECISE_UNIT /\ d > 0
  BY PreciseUnitAssumption, PerpAssumption
<1>2. PICK n \in Int : n = base[b] * (twPremium[b] - lastTwPremium[b])
  BY DEF PerpInv
<1> QED BY <1>1, <1>2, QuotientBounds DEF pendingFunding

\* The account's value, taken apart.
AccountAddsUp ==
    /\ fundings \in [Market -> Int] /\ worths \in [Market -> Int]
    /\ SumFunctionOnSet(quote, Market) \in Int
    /\ SumFunctionOnSet(fundings, Market) \in Int
    /\ SumFunctionOnSet(worths, Market) \in Int
    /\ accountValue = PRECISE_UNIT * (collateral * USDC_FACTOR + owedRealizedPnl)
         + PRECISE_UNIT * SumFunctionOnSet(quote, Market)
         - PRECISE_UNIT * SumFunctionOnSet(fundings, Market)
         + SumFunctionOnSet(worths, Market)

LEMMA AccountParts == PerpInv => AccountAddsUp
<1> SUFFICES ASSUME PerpInv PROVE AccountAddsUp
  OBVIOUS
<1>1. PICK P \in Int, L \in Int : P = PRECISE_UNIT /\ L = -P
  BY PreciseUnitAssumption
<1>2. IsFiniteSet(Market)
  BY PerpAssumption
<1>3. fundings \in [Market -> Int]
  BY FundingType DEF fundings
<1>4. worths \in [Market -> Int]
  BY DEF worths, PerpInv
<1>5. quote \in [Market -> Int]
  BY DEF PerpInv
<1>6. ASSUME NEW b \in Market
      PROVE  /\ marketValues[b] \in Int
             /\ marketValues[b] = P * quote[b] - P * fundings[b] + worths[b]
  <2>1. PICK x \in Int, y \in Int, z \in Int : x = quote[b] /\ y = fundings[b] /\ z = worths[b]
    BY <1>3, <1>4, <1>5
  <2>2. marketValues[b] = P * (x - y) + z
    BY <1>1, <2>1 DEF marketValues, marketValue, fundings, worths
  <2>3. P * (x - y) = P * x - P * y
    OBVIOUS
  <2> QED BY <2>1, <2>2, <2>3
<1>7. marketValues \in [Market -> Int]
  BY <1>6 DEF marketValues
<1>8. PICK m \in Int, n \in Int, f \in Int, w \in Int :
        /\ m = SumFunctionOnSet(marketValues, Market) /\ n = SumFunctionOnSet(quote, Market)
        /\ f = SumFunctionOnSet(fundings, Market) /\ w = SumFunctionOnSet(worths, Market)
  <2>1. Market \in SUBSET Market
    OBVIOUS
  <2> QED BY <1>2, <1>3, <1>4, <1>5, <1>7, <2>1, SumIsInteger
<1>9. Combines(marketValues, P, quote, L, fundings, 1, worths, Market)
  <2>1. ASSUME NEW b \in Market
        PROVE  marketValues[b] = P * quote[b] + L * fundings[b] + 1 * worths[b]
    <3>1. PICK x \in Int, y \in Int, z \in Int : x = quote[b] /\ y = fundings[b] /\ z = worths[b]
      BY <1>3, <1>4, <1>5
    <3>2. L * y = -(P * y)
      BY <1>1
    <3>3. marketValues[b] = P * x - P * y + z
      BY <1>6, <3>1
    <3>4. PICK px \in Int, py \in Int : px = P * x /\ py = P * y
      OBVIOUS
    <3>5. marketValues[b] = px + L * y + 1 * z
      BY <3>2, <3>3, <3>4
    <3> QED BY <3>1, <3>4, <3>5
  <2> QED BY <2>1 DEF Combines
<1>10. Market \in SUBSET Market /\ 1 \in Int
  OBVIOUS
<1>11. m = P * n + L * f + 1 * w
  BY <1>2, <1>3, <1>4, <1>5, <1>7, <1>8, <1>9, <1>10, SumCombines
<1>12. L * f = -(P * f)
  BY <1>1
<1>13. m = P * n - P * f + w
  BY <1>11, <1>12
<1>14. accountValue = P * (collateral * USDC_FACTOR + owedRealizedPnl) + m
  BY <1>1, <1>8 DEF accountValue, marketValues
<1>15. P * (collateral * USDC_FACTOR + owedRealizedPnl) \in Int
  BY PerpAssumption DEF PerpInv
<1> QED BY <1>1, <1>3, <1>4, <1>8, <1>13, <1>14, <1>15 DEF AccountAddsUp

\* Swaps in some markets: types, and what they conserve.
SwapsAddUp(D, amount, slippage) ==
    LET perp == Swaps(amount, slippage)
    IN  /\ perp.base \in [Market -> Int] /\ perp.quote \in [Market -> Int]
        /\ perp.realized \in Int
        /\ costs(amount, slippage) \in [D -> Int] /\ moved(amount) \in [D -> Int]
        /\ \A b \in D : perp.base[b] = base[b] + amount[b]
        /\ \A b \in Market \ D : perp.base[b] = base[b] /\ perp.quote[b] = quote[b]
        /\ SumFunctionOnSet(perp.quote, Market) + perp.realized
             = SumFunctionOnSet(quote, Market) - SumFunctionOnSet(fundings, D)
                 - SumFunctionOnSet(costs(amount, slippage), D)

LEMMA SwapsConserve ==
    ASSUME PerpInv, NEW D \in SUBSET Market, NEW amount \in [D -> Int], NEW slippage \in Nat
    PROVE  SwapsAddUp(D, amount, slippage)
<1> DEFINE after == [b \in DOMAIN amount |->
                        openPosition(MarketState(b), amount[b], SwapQuote(b, amount[b], slippage))]
           realized == [b \in DOMAIN amount |-> after[b].owed - pendingFunding(b)]
           newBase == [b \in Market |-> IF b \in DOMAIN amount THEN after[b].base ELSE base[b]]
           newQuote == [b \in Market |-> IF b \in DOMAIN amount THEN after[b].quote ELSE quote[b]]
           cost == costs(amount, slippage)
<1>1. DOMAIN amount = D
  OBVIOUS
<1>2. /\ Swaps(amount, slippage).base = newBase /\ Swaps(amount, slippage).quote = newQuote
      /\ Swaps(amount, slippage).realized = SumFunctionOnSet(realized, D)
  BY <1>1 DEF Swaps
<1>3. ASSUME NEW b \in D
      PROVE  /\ cost[b] \in Int /\ pendingFunding(b) \in Int
             /\ after[b].base = base[b] + amount[b]
             /\ after[b].quote \in Int /\ after[b].owed \in Int
             /\ after[b].quote + after[b].owed = quote[b] - cost[b]
  <2>1. b \in Market /\ amount[b] \in Int /\ base[b] \in Int /\ quote[b] \in Int
    BY DEF PerpInv
  <2>2. PICK dq \in Int : dq = SwapQuote(b, amount[b], slippage)
    BY <2>1, SwapQuoteType
  <2>3. cost[b] = IF amount[b] > 0 THEN dq ELSE -dq
    BY <1>1, <2>2 DEF costs
  <2>4. after[b] = openPosition([base |-> base[b], quote |-> quote[b], owed |-> 0], amount[b], dq)
    BY <1>1, <2>2 DEF MarketState
  <2>5. /\ after[b].base = base[b] + amount[b] /\ after[b].quote \in Int /\ after[b].owed \in Int
        /\ after[b].quote + after[b].owed
             = quote[b] + 0 - (IF amount[b] > 0 THEN dq ELSE -dq)
    BY <2>1, <2>4, OpenPositionConserves
  <2>6. pendingFunding(b) \in Int
    BY <2>1, FundingType
  <2> QED BY <2>1, <2>2, <2>3, <2>5, <2>6
<1>4. /\ base \in [Market -> Int] /\ quote \in [Market -> Int] /\ spot \in [Market -> Nat]
  BY DEF PerpInv
<1> HIDE DEF after
<1>5. newBase \in [Market -> Int] /\ newQuote \in [Market -> Int]
  BY <1>1, <1>3, <1>4
<1>6. realized \in [D -> Int] /\ cost \in [D -> Int] /\ moved(amount) \in [D -> Int]
  <2>1. cost \in [D -> Int]
    BY <1>1, <1>3 DEF costs
  <2>2. moved(amount) \in [D -> Int]
    BY <1>1, <1>4 DEF moved
  <2> QED BY <1>1, <1>3, <2>1, <2>2
<1>7. /\ \A b \in D : newBase[b] = base[b] + amount[b]
      /\ \A b \in Market \ D : newBase[b] = base[b] /\ newQuote[b] = quote[b]
  BY <1>1, <1>3
<1>8. ASSUME NEW b \in D
      PROVE  newQuote[b] + realized[b] = quote[b] - fundings[b] - cost[b]
  <2>1. /\ newQuote[b] = after[b].quote /\ realized[b] = after[b].owed - pendingFunding(b)
        /\ fundings[b] = pendingFunding(b) /\ quote[b] \in Int
    BY <1>1, <1>4 DEF fundings
  <2> HIDE DEF realized, newBase, newQuote, cost
  <2> QED BY <1>3, <2>1
<1> HIDE DEF realized, newBase, newQuote, cost
<1>9. IsFiniteSet(Market) /\ IsFiniteSet(D)
  BY PerpAssumption, FS_Subset
<1>10. fundings \in [Market -> Int]
  BY AccountParts DEF AccountAddsUp
<1> DEFINE nq == [b \in D |-> newQuote[b] - quote[b]]
           fu == [b \in D |-> fundings[b]]
<1>11. nq \in [D -> Int] /\ fu \in [D -> Int]
  BY <1>4, <1>5, <1>10
<1>12. Combines(nq, -1, realized, -1, fu, -1, cost, D)
  <2>1. ASSUME NEW b \in D
        PROVE  nq[b] = (-1) * realized[b] + (-1) * fu[b] + (-1) * cost[b]
    <3>1. /\ newQuote[b] \in Int /\ quote[b] \in Int /\ realized[b] \in Int
          /\ fundings[b] \in Int /\ cost[b] \in Int
      BY <1>4, <1>5, <1>6, <1>10
    <3>2. nq[b] = newQuote[b] - quote[b] /\ fu[b] = fundings[b]
      OBVIOUS
    <3> HIDE DEF nq, fu
    <3> QED BY <1>8, <3>1, <3>2
  <2> QED BY <2>1 DEF Combines
<1>13. nq \in [D -> Int] /\ fu \in [D -> Int] /\ D \in SUBSET D /\ 1 \in Int /\ -1 \in Int
  BY <1>11
<1> HIDE DEF nq, fu
<1>14. PICK r \in Int, x \in Int, f \in Int, k \in Int :
         /\ r = SumFunctionOnSet(realized, D) /\ x = SumFunctionOnSet(nq, D)
         /\ f = SumFunctionOnSet(fu, D) /\ k = SumFunctionOnSet(cost, D)
  BY <1>6, <1>9, <1>13, SumIsInteger
<1>15. x = (-1) * r + (-1) * f + (-1) * k
  BY <1>6, <1>9, <1>12, <1>13, <1>14, SumCombines
<1>17. f = SumFunctionOnSet(fundings, D)
  <2>1. \A b \in D : fu[b] = fundings[b]
    BY DEF fu
  <2> QED BY <1>9, <1>10, <1>13, <1>14, <2>1, SumAgrees
<1>18. SumFunctionOnSet(newQuote, Market) = SumFunctionOnSet(quote, Market) + x
  <2> DEFINE o == [b \in Market |-> IF b \in D THEN nq[b] ELSE 0]
  <2>1. o \in [Market -> Int]
    BY <1>13
  <2>2. \A b \in D : o[b] = nq[b]
    OBVIOUS
  <2>3. \A b \in Market \ D : o[b] = 0
    OBVIOUS
  <2>4. \A b \in Market : newQuote[b] = quote[b] + o[b]
    <3>1. ASSUME NEW b \in D PROVE newQuote[b] = quote[b] + nq[b]
      <4>1. newQuote[b] \in Int /\ quote[b] \in Int
        BY <1>4, <1>5
      <4> QED BY <4>1 DEF nq
    <3>2. ASSUME NEW b \in Market \ D PROVE newQuote[b] = quote[b] + 0
      BY <1>4, <1>7, <3>2
    <3> QED BY <3>1, <3>2
  <2> HIDE DEF o
  <2>5. SumFunctionOnSet(o, Market) = SumFunctionOnSet(o, D)
    BY <1>9, <2>1, <2>3, SumOutside
  <2>6. SumFunctionOnSet(o, D) = SumFunctionOnSet(nq, D)
    BY <1>9, <1>13, <2>1, <2>2, SumAgrees
  <2>7. PICK a \in Int, c \in Int, e \in Int :
          /\ a = SumFunctionOnSet(newQuote, Market) /\ c = SumFunctionOnSet(quote, Market)
          /\ e = SumFunctionOnSet(o, Market)
    <3>1. Market \in SUBSET Market
      OBVIOUS
    <3> QED BY <1>4, <1>5, <1>9, <2>1, <3>1, SumIsInteger
  <2>8. Combines(newQuote, 1, quote, 1, o, 0, o, Market)
    <3>1. ASSUME NEW b \in Market PROVE newQuote[b] = 1 * quote[b] + 1 * o[b] + 0 * o[b]
      <4>1. quote[b] \in Int /\ o[b] \in Int
        BY <1>4, <2>1
      <4> QED BY <2>4, <4>1
    <3> QED BY <3>1 DEF Combines
  <2>9. Market \in SUBSET Market /\ 0 \in Int
    OBVIOUS
  <2>10. a = 1 * c + 1 * e + 0 * e
    BY <1>4, <1>5, <1>9, <1>13, <2>1, <2>7, <2>8, <2>9, SumCombines
  <2>12. a = c + e
    BY <2>10
  <2> QED BY <1>14, <2>5, <2>6, <2>7, <2>12
<1>19. SumFunctionOnSet(quote, Market) \in Int
  BY AccountParts DEF AccountAddsUp
<1>20. SumFunctionOnSet(newQuote, Market) + r = SumFunctionOnSet(quote, Market) - f - k
  BY <1>15, <1>18, <1>19
<1> QED BY <1>2, <1>5, <1>6, <1>7, <1>14, <1>17, <1>20 DEF cost, SwapsAddUp

\* Swaps cost what they cost, and move base that is worth what it is worth; d is the USDC
\* that goes in or out of the vault besides.
LEMMA SwapsChangeAccount ==
    ASSUME PerpInv, PerpInv', NEW D \in SUBSET Market, NEW amount \in [D -> Int],
           NEW slippage \in Nat, NEW d \in Int,
           base' = Swaps(amount, slippage).base, quote' = Swaps(amount, slippage).quote,
           spot' = spot,
           collateral' * USDC_FACTOR + owedRealizedPnl' - SumFunctionOnSet(fundings', Market)
             = collateral * USDC_FACTOR + owedRealizedPnl + Swaps(amount, slippage).realized
                 - (SumFunctionOnSet(fundings, Market) - SumFunctionOnSet(fundings, D))
                 + USDC_FACTOR * d
    PROVE  /\ SumFunctionOnSet(costs(amount, slippage), D) \in Int
           /\ SumFunctionOnSet(moved(amount), D) \in Int
           /\ accountValue \in Int /\ accountValue' \in Int
           /\ accountValue' = accountValue + PRECISE_UNIT * (USDC_FACTOR * d)
                - PRECISE_UNIT * SumFunctionOnSet(costs(amount, slippage), D)
                + SumFunctionOnSet(moved(amount), D)
<1> DEFINE perp == Swaps(amount, slippage)
           cost == costs(amount, slippage)
           move == moved(amount)
<1>1. AccountAddsUp /\ AccountAddsUp'
  <2>1. (PerpInv => AccountAddsUp)'
    BY AccountParts, PTL
  <2> QED BY <2>1, AccountParts
<1>2. /\ perp.base \in [Market -> Int] /\ perp.quote \in [Market -> Int]
      /\ perp.realized \in Int
      /\ cost \in [D -> Int] /\ move \in [D -> Int]
      /\ \A b \in D : perp.base[b] = base[b] + amount[b]
      /\ \A b \in Market \ D : perp.base[b] = base[b] /\ perp.quote[b] = quote[b]
      /\ SumFunctionOnSet(perp.quote, Market) + perp.realized
           = SumFunctionOnSet(quote, Market) - SumFunctionOnSet(fundings, D)
               - SumFunctionOnSet(cost, D)
  <2>1. SwapsAddUp(D, amount, slippage)
    BY SwapsConserve
  <2> QED BY <2>1 DEF SwapsAddUp
<1>3. IsFiniteSet(Market) /\ IsFiniteSet(D)
  BY PerpAssumption, FS_Subset
<1>4. worths \in [Market -> Int] /\ worths' \in [Market -> Int]
  BY <1>1 DEF AccountAddsUp
<1>5. SumFunctionOnSet(worths', Market) = SumFunctionOnSet(worths, Market) + SumFunctionOnSet(move, D)
  <2> DEFINE o == [b \in Market |-> IF b \in D THEN move[b] ELSE 0]
  <2>1. o \in [Market -> Int]
    BY <1>2
  <2>2. \A b \in D : o[b] = move[b]
    OBVIOUS
  <2>3. \A b \in Market \ D : o[b] = 0
    OBVIOUS
  <2>4. ASSUME NEW b \in Market PROVE worths'[b] = 1 * worths[b] + 1 * o[b] + 0 * o[b]
    <3>1. worths'[b] = base'[b] * spot[b] /\ worths[b] = base[b] * spot[b]
      BY DEF worths
    <3>2. PICK x \in Int, s \in Int : x = base[b] /\ s = spot[b]
      BY DEF PerpInv
    <3>3. CASE b \in D
      <4>1. PICK a \in Int : a = amount[b]
        BY <3>3
      <4>2. o[b] = a * s
        BY <3>2, <3>3, <4>1 DEF moved
      <4>3. worths'[b] = (x + a) * s
        BY <1>2, <3>1, <3>2, <3>3, <4>1
      <4>4. (x + a) * s = x * s + a * s
        OBVIOUS
      <4>5. PICK y \in Int, z \in Int : y = x * s /\ z = a * s
        OBVIOUS
      <4> HIDE DEF o
      <4> QED BY <3>1, <3>2, <4>2, <4>3, <4>4, <4>5
    <3>4. CASE b \notin D
      <4>1. worths'[b] = worths[b] /\ worths[b] \in Int
        BY <1>2, <1>4, <3>1, <3>4
      <4>2. o[b] = 0
        BY <3>4
      <4> HIDE DEF o
      <4> QED BY <4>1, <4>2
    <3> QED BY <3>3, <3>4
  <2>5. Combines(worths', 1, worths, 1, o, 0, o, Market)
    <3> HIDE DEF o
    <3> QED BY <2>4 DEF Combines
  <2> HIDE DEF o, move
  <2>6. SumFunctionOnSet(o, Market) = SumFunctionOnSet(o, D)
    BY <1>3, <2>1, <2>3, SumOutside
  <2>7. SumFunctionOnSet(o, D) = SumFunctionOnSet(move, D)
    BY <1>2, <1>3, <2>1, <2>2, SumAgrees
  <2>8. PICK a \in Int, c \in Int, e \in Int :
          /\ a = SumFunctionOnSet(worths', Market) /\ c = SumFunctionOnSet(worths, Market)
          /\ e = SumFunctionOnSet(o, Market)
    <3>1. Market \in SUBSET Market
      OBVIOUS
    <3> QED BY <1>3, <1>4, <2>1, <3>1, SumIsInteger
  <2>9. Market \in SUBSET Market /\ 0 \in Int /\ 1 \in Int
    OBVIOUS
  <2>10. a = 1 * c + 1 * e + 0 * e
    BY <1>3, <1>4, <2>1, <2>5, <2>8, <2>9, SumCombines
  <2> QED BY <2>6, <2>7, <2>8, <2>10
<1> HIDE DEF perp, cost, move
<1>6. PICK P \in Int, k \in Int, t \in Int, f \in Int, fd \in Int, g \in Int, n \in Int, m \in Int,
           w \in Int, v \in Int, r \in Int, x \in Int, y \in Int :
        /\ P = PRECISE_UNIT
        /\ k = SumFunctionOnSet(cost, D) /\ t = SumFunctionOnSet(move, D)
        /\ f = SumFunctionOnSet(fundings, Market) /\ fd = SumFunctionOnSet(fundings, D)
        /\ g = SumFunctionOnSet(fundings', Market)
        /\ n = SumFunctionOnSet(quote, Market) /\ m = SumFunctionOnSet(quote', Market)
        /\ w = SumFunctionOnSet(worths, Market) /\ v = SumFunctionOnSet(worths', Market)
        /\ r = perp.realized
        /\ x = collateral * USDC_FACTOR + owedRealizedPnl
        /\ y = collateral' * USDC_FACTOR + owedRealizedPnl'
  <2>1. D \in SUBSET D
    OBVIOUS
  <2>2. SumFunctionOnSet(cost, D) \in Int /\ SumFunctionOnSet(move, D) \in Int
    BY <1>2, <1>3, <2>1, SumIsInteger
  <2>3. SumFunctionOnSet(fundings, D) \in Int
    BY <1>1, <1>3, SumIsInteger DEF AccountAddsUp
  <2>4. /\ collateral * USDC_FACTOR + owedRealizedPnl \in Int
        /\ collateral' * USDC_FACTOR + owedRealizedPnl' \in Int
    BY PerpAssumption DEF PerpInv
  <2>5. /\ SumFunctionOnSet(fundings, Market) \in Int /\ SumFunctionOnSet(fundings', Market) \in Int
        /\ SumFunctionOnSet(quote, Market) \in Int /\ SumFunctionOnSet(quote', Market) \in Int
        /\ SumFunctionOnSet(worths, Market) \in Int /\ SumFunctionOnSet(worths', Market) \in Int
    BY <1>1 DEF AccountAddsUp
  <2>6. PRECISE_UNIT \in Int /\ perp.realized \in Int
    BY <1>2, PreciseUnitAssumption
  <2> QED BY Zenon, <2>2, <2>3, <2>4, <2>5, <2>6
<1>7. m + r = n - fd - k /\ v = w + t
  BY <1>2, <1>5, <1>6 DEF perp
<1>8. PICK e \in Int : e = USDC_FACTOR * d
  BY PerpAssumption
<1>9. y - g = x + r - (f - fd) + e
  <2>1. r = Swaps(amount, slippage).realized
    BY <1>6 DEF perp
  <2>2. /\ collateral \in Int /\ collateral' \in Int
        /\ owedRealizedPnl \in Int /\ owedRealizedPnl' \in Int /\ USDC_FACTOR \in Int
    BY PerpAssumption DEF PerpInv
  <2> QED BY <1>6, <1>8, <2>1, <2>2
<1>10. accountValue = P * x + P * n - P * f + w /\ accountValue' = P * y + P * m - P * g + v
  BY <1>1, <1>6 DEF AccountAddsUp
<1>11. P * y + P * m - P * g = P * (y + m - g) /\ P * x + P * n - P * f = P * (x + n - f)
  OBVIOUS
<1>12. y + m - g = (x + n - f) + e - k
  BY <1>7, <1>9
<1>13. P * ((x + n - f) + e - k) = P * (x + n - f) + P * e - P * k
  OBVIOUS
<1>14. accountValue' = accountValue + P * e - P * k + t
  <2>1. PICK z \in Int, a \in Int, b \in Int : z = P * (x + n - f) /\ a = P * e /\ b = P * k
    OBVIOUS
  <2> QED BY <1>7, <1>10, <1>11, <1>12, <1>13, <2>1
<1>15. accountValue \in Int
  BY <1>10
<1>16. P * e \in Int /\ P * k \in Int
  OBVIOUS
<1> QED BY <1>6, <1>8, <1>14, <1>15, <1>16 DEF cost, move

-----------------------------------------------------------------------------
(* The account's share that goes with an amount of sets.                    *)

\* The account's listed part for an amount of sets, truncated, the base that goes with it,
\* and what perpRounding is made of.
collateralShare(q) == preciseMulInt(calculatePartialAccountValuePositionUnit(syncPositionList), q)
baseShare(q) == SumFunctionOnSet(moved(shareTrades(q, TRUE)), syncPositionList)
unlistedWorth ==
    SumFunctionOnSet([b \in Market \ syncPositionList |->
                        abs(PRECISE_UNIT * quote[b] + base[b] * spot[b])],
                     Market \ syncPositionList)
perUnitRounding(q) == (q + PRECISE_UNIT) * (PRECISE_UNIT + SumFunctionOnSet(spot, Market))

\* Y is what is listed of the account's value, O what is not.
LEMMA AccountShare ==
    ASSUME PerpInv, perpSupply > 0, NEW q \in Nat, q > 0
    PROVE  /\ collateralShare(q) \in Int /\ baseShare(q) \in Int
           /\ unlistedWorth \in Nat /\ perUnitRounding(q) \in Nat
           /\ \E Y \in Int, O \in Int, Z \in Int :
                /\ accountValue = Y + O /\ O <= unlistedWorth /\ - O <= unlistedWorth
                /\ Z = PRECISE_UNIT * collateralShare(q) + baseShare(q)
                /\ PRECISE_UNIT * (perpSupply * Z)
                     <= PRECISE_UNIT * (q * Y) + perpSupply * perUnitRounding(q)
                /\ PRECISE_UNIT * (q * Y)
                     <= PRECISE_UNIT * (perpSupply * Z) + perpSupply * perUnitRounding(q)
<1> DEFINE L == syncPositionList
           unlisted == [b \in Market \ L |-> abs(PRECISE_UNIT * quote[b] + base[b] * spot[b])]
           moves == [b \in Market |-> shareOf(b, q) * spot[b]]
<1>1. PICK P \in Nat, S \in Nat, U \in Nat :
        P = PRECISE_UNIT /\ P > 0 /\ S = perpSupply /\ S > 0 /\ U = USDC_FACTOR
  BY PreciseUnitAssumption, PerpAssumption DEF PerpInv
<1>2. IsFiniteSet(Market) /\ L \in SUBSET Market /\ IsFiniteSet(Market \ L)
  BY PerpAssumption, FS_Difference DEF syncPositionList, PerpInv
<1>3. AccountAddsUp
  BY AccountParts
<1>4. /\ quote \in [Market -> Int] /\ base \in [Market -> Int] /\ spot \in [Market -> Nat]
      /\ spot \in [Market -> Int] /\ worths \in [Market -> Int] /\ fundings \in [Market -> Int]
  BY <1>3 DEF PerpInv, AccountAddsUp
<1>5. ASSUME NEW b \in Market
      PROVE  /\ shareOf(b, q) \in Int
             /\ P * (S * shareOf(b, q)) <= P * (q * base[b]) + S * (q + P)
             /\ P * (q * base[b]) <= P * (S * shareOf(b, q)) + S * (q + P)
  <2>1. PICK x \in Int : x = base[b]
    BY <1>4
  <2>2. PICK y \in Int :
          /\ y = preciseMulInt(preciseDivInt(x, S), q)
          /\ P * (S * y) <= P * (q * x) + S * (q + P)
          /\ P * (q * x) <= P * (S * y) + S * (q + P)
    <3>1. LET y == preciseMulInt(preciseDivInt(x, S), q)
          IN  /\ y \in Int
              /\ PRECISE_UNIT * (S * y) <= PRECISE_UNIT * (q * x) + S * (q + PRECISE_UNIT)
              /\ PRECISE_UNIT * (q * x) <= PRECISE_UNIT * (S * y) + S * (q + PRECISE_UNIT)
      <4>1. S \in Int /\ q \in Int
        OBVIOUS
      <4> QED BY Zenon, <1>1, <2>1, <4>1, ShareBounds
    <3> QED BY <1>1, <3>1
  <2>3. shareOf(b, q) = y
    BY <1>1, <2>1, <2>2 DEF shareOf
  <2> QED BY <2>1, <2>2, <2>3
<1>6. moves \in [Market -> Int]
  BY <1>4, <1>5
<1>7. Market \in SUBSET Market /\ Market \ L \in SUBSET Market /\ 0 \in Int /\ 1 \in Int
  OBVIOUS
<1> HIDE DEF L, unlisted, moves
<1>8. PICK nl \in Int, no \in Int, wl \in Int, wo \in Int, f \in Int, t \in Int, gl \in Int, g \in Nat :
        /\ nl = SumFunctionOnSet(quote, L) /\ no = SumFunctionOnSet(quote, Market \ L)
        /\ wl = SumFunctionOnSet(worths, L) /\ wo = SumFunctionOnSet(worths, Market \ L)
        /\ f = SumFunctionOnSet(fundings, Market)
        /\ t = SumFunctionOnSet(moves, L)
        /\ gl = SumFunctionOnSet(spot, L) /\ g = SumFunctionOnSet(spot, Market)
  <2>1. /\ SumFunctionOnSet(quote, L) \in Int /\ SumFunctionOnSet(quote, Market \ L) \in Int
        /\ SumFunctionOnSet(worths, L) \in Int /\ SumFunctionOnSet(worths, Market \ L) \in Int
        /\ SumFunctionOnSet(fundings, Market) \in Int /\ SumFunctionOnSet(moves, L) \in Int
        /\ SumFunctionOnSet(spot, L) \in Int
    BY <1>2, <1>4, <1>6, <1>7, SumIsInteger
  <2>2. SumFunctionOnSet(spot, Market) \in Nat
    BY <1>2, <1>4, <1>7, SumIsNatural
  <2> QED BY Zenon, <2>1, <2>2
<1>9. gl <= g
  <2>1. g = gl + SumFunctionOnSet(spot, Market \ L)
    BY <1>2, <1>4, <1>8, SumSplits
  <2>2. SumFunctionOnSet(spot, Market \ L) \in Nat
    BY <1>2, <1>4, <1>7, SumIsNatural
  <2> QED BY <2>1, <2>2
<1>10. baseShare(q) = t
  <2>1. moved(shareTrades(q, TRUE)) = [b \in L |-> shareOf(b, q) * spot[b]]
    <3>1. shareTrades(q, TRUE) = [b \in L |-> shareOf(b, q)]
      BY DEF shareTrades, L
    <3>2. DOMAIN shareTrades(q, TRUE) = L /\ \A b \in L : shareTrades(q, TRUE)[b] = shareOf(b, q)
      BY <3>1
    <3> QED BY <3>2 DEF moved
  <2>2. moved(shareTrades(q, TRUE)) \in [L -> Int]
    <3>1. \A b \in L : shareOf(b, q) * spot[b] \in Int
      BY <1>2, <1>4, <1>5
    <3> QED BY <2>1, <3>1
  <2>3. \A b \in L : moves[b] = moved(shareTrades(q, TRUE))[b]
    BY <1>2, <2>1 DEF moves
  <2>4. L \in SUBSET L /\ IsFiniteSet(L)
    BY <1>2, FS_Subset
  <2>5. SumFunctionOnSet(moves, L) = SumFunctionOnSet(moved(shareTrades(q, TRUE)), L)
    <3>1. PICK m \in [L -> Int] : m = moved(shareTrades(q, TRUE))
      BY <2>2
    <3>2. \A b \in L : moves[b] = m[b]
      BY <2>3, <3>1
    <3>3. SumFunctionOnSet(moves, L) = SumFunctionOnSet(m, L)
      BY <1>2, <1>6, <2>4, <3>2, SumAgrees
    <3> QED BY <3>1, <3>3
  <2> QED BY <1>8, <2>5 DEF baseShare, L
<1>11. PICK v \in Int : v = collateral * U + owedRealizedPnl + (- f) + nl
  BY <1>1 DEF PerpInv
<1>12. /\ collateralShare(q) \in Int
       /\ P * (S * collateralShare(q)) <= P * (q * v) + S * (q + P)
       /\ P * (q * v) <= P * (S * collateralShare(q)) + S * (q + P)
  <2>1. fundings = [b \in Market |-> pendingFunding(b)]
    BY DEF fundings
  <2>2. calculatePartialAccountValuePositionUnit(L) = preciseDivInt(v, S)
    BY <1>1, <1>8, <1>11, <2>1
       DEF calculatePartialAccountValuePositionUnit, getAccountInfo, allPendingFunding
  <2>3. collateralShare(q) = preciseMulInt(preciseDivInt(v, S), q)
    BY <2>2 DEF collateralShare, L
  <2> QED BY <1>1, <2>3, ShareBounds
<1>13. PICK c \in Int : c = collateralShare(q)
  BY <1>12
<1>14. PICK o \in Int, un \in Nat : o = P * no + wo /\ un = unlistedWorth /\ o <= un /\ - o <= un
  <2> DEFINE part == [b \in Market |-> P * quote[b] + worths[b]]
             neg == [b \in Market |-> - part[b]]
  <2>1. part \in [Market -> Int] /\ neg \in [Market -> Int]
    BY <1>1, <1>4
  <2>2. unlisted \in [Market \ L -> Nat]
    <3>1. ASSUME NEW b \in Market \ L
          PROVE  abs(PRECISE_UNIT * quote[b] + base[b] * spot[b]) \in Nat
      <4>1. PICK z \in Int : z = PRECISE_UNIT * quote[b] + base[b] * spot[b]
        BY <1>1, <1>4
      <4> QED BY <4>1 DEF abs
    <3> QED BY <3>1 DEF unlisted
  <2>3. ASSUME NEW b \in Market \ L
        PROVE  part[b] <= unlisted[b] /\ neg[b] <= unlisted[b]
    <3>1. PICK z \in Int : z = part[b]
      BY <2>1
    <3>2. unlisted[b] = abs(z) /\ neg[b] = - z
      BY <1>1, <3>1 DEF unlisted, worths
    <3> HIDE DEF part, neg
    <3> QED BY <3>1, <3>2 DEF abs
  <2>4. Combines(part, P, quote, 1, worths, 0, worths, Market \ L)
    <3>1. ASSUME NEW b \in Market \ L
          PROVE  part[b] = P * quote[b] + 1 * worths[b] + 0 * worths[b]
      <4>1. PICK w \in Int, z \in Int : w = worths[b] /\ z = P * quote[b]
        BY <1>1, <1>4
      <4>2. part[b] = z + w
        BY <4>1
      <4> HIDE DEF part
      <4> QED BY <4>1, <4>2
    <3> QED BY <3>1 DEF Combines
  <2>5. Combines(neg, -1, part, 0, part, 0, part, Market \ L)
    <3>1. ASSUME NEW b \in Market \ L
          PROVE  neg[b] = (-1) * part[b] + 0 * part[b] + 0 * part[b]
      <4>1. PICK z \in Int : z = part[b]
        BY <2>1
      <4>2. neg[b] = - z
        BY <4>1
      <4> HIDE DEF part, neg
      <4> QED BY <4>1, <4>2
    <3> QED BY <3>1 DEF Combines
  <2> HIDE DEF part, neg
  <2>6. PICK x \in Int, y \in Int, un \in Nat :
          /\ x = SumFunctionOnSet(part, Market \ L) /\ y = SumFunctionOnSet(neg, Market \ L)
          /\ un = SumFunctionOnSet(unlisted, Market \ L)
    <3>1. /\ SumFunctionOnSet(part, Market \ L) \in Int /\ SumFunctionOnSet(neg, Market \ L) \in Int
      BY <1>2, <1>7, <2>1, SumIsInteger
    <3>2. SumFunctionOnSet(unlisted, Market \ L) \in Nat
      BY <1>2, <2>2, SumIsNatural
    <3> QED BY <3>1, <3>2
  <2>7. x = P * no + 1 * wo + 0 * wo
    BY <1>2, <1>4, <1>7, <1>8, <2>1, <2>4, <2>6, SumCombines
  <2>8. y = (-1) * x + 0 * x + 0 * x
    BY <1>2, <1>7, <2>1, <2>5, <2>6, SumCombines
  <2>9. x <= un /\ y <= un
    <3> DEFINE e == [b \in Market \ L |-> part[b]]
               n == [b \in Market \ L |-> neg[b]]
    <3>1. /\ e \in [Market \ L -> Int] /\ n \in [Market \ L -> Int]
          /\ unlisted \in [Market \ L -> Int] /\ Market \ L \in SUBSET (Market \ L)
      BY <2>1, <2>2
    <3>2. StaysBelow(e, unlisted, Market \ L) /\ StaysBelow(n, unlisted, Market \ L)
      BY <2>3 DEF StaysBelow
    <3>3. \A b \in Market \ L : part[b] = e[b] /\ neg[b] = n[b]
      OBVIOUS
    <3> HIDE DEF e, n
    <3>4. /\ SumFunctionOnSet(e, Market \ L) <= un /\ SumFunctionOnSet(n, Market \ L) <= un
      BY <1>2, <2>6, <3>1, <3>2, SumStaysBelow
    <3>5. /\ x = SumFunctionOnSet(e, Market \ L) /\ y = SumFunctionOnSet(n, Market \ L)
      BY <1>2, <1>7, <2>1, <2>6, <3>1, <3>3, SumAgrees
    <3> QED BY <3>4, <3>5
  <2>10. un = unlistedWorth
    BY <2>6 DEF unlistedWorth, unlisted, L
  <2> QED BY <2>6, <2>7, <2>8, <2>9, <2>10
<1>15. PICK k \in Nat : k = S * (q + P)
  BY <1>1
<1>16. /\ (P * S) * t <= (P * q) * wl + k * gl
       /\ (P * q) * wl <= (P * S) * t + k * gl
  <2>1. PICK ps \in Int, pq \in Int : ps = P * S /\ pq = P * q
    OBVIOUS
  <2> DEFINE e == [b \in Market |-> ps * moves[b]]
             d == [b \in Market |-> pq * worths[b]]
             eu == [b \in Market |-> ps * moves[b] + k * spot[b]]
             du == [b \in Market |-> pq * worths[b] + k * spot[b]]
  <2>2. /\ e \in [Market -> Int] /\ d \in [Market -> Int] /\ eu \in [Market -> Int]
        /\ du \in [Market -> Int]
    BY <1>4, <1>6
  <2>3. ASSUME NEW b \in L PROVE e[b] <= du[b] /\ d[b] <= eu[b]
    <3>1. PICK h \in Int, x \in Int, s \in Nat : h = shareOf(b, q) /\ x = base[b] /\ s = spot[b]
      BY <1>2, <1>4, <1>5
    <3>2. P * (S * h) <= P * (q * x) + k /\ P * (q * x) <= P * (S * h) + k
      BY <1>2, <1>5, <1>15, <3>1
    <3>3. /\ s * (P * (S * h)) <= s * (P * (q * x) + k)
          /\ s * (P * (q * x)) <= s * (P * (S * h) + k)
      BY <3>2, KeepOrder
    <3>4. /\ s * (P * (S * h)) = ps * (h * s) /\ s * (P * (q * x)) = pq * (x * s)
          /\ s * (P * (q * x) + k) = pq * (x * s) + k * s
          /\ s * (P * (S * h) + k) = ps * (h * s) + k * s
      BY <2>1
    <3>5. moves[b] = h * s /\ worths[b] = x * s /\ b \in Market
      BY <1>2, <3>1 DEF moves, worths
    <3>6. /\ e[b] = ps * (h * s) /\ du[b] = pq * (x * s) + k * s
          /\ d[b] = pq * (x * s) /\ eu[b] = ps * (h * s) + k * s
      BY <3>1, <3>5
    <3> HIDE DEF e, d, eu, du
    <3> QED BY <3>3, <3>4, <3>6
  <2>4. Combines(e, ps, moves, 0, moves, 0, moves, L) /\ Combines(d, pq, worths, 0, worths, 0, worths, L)
    <3>1. ASSUME NEW b \in L
          PROVE  /\ e[b] = ps * moves[b] + 0 * moves[b] + 0 * moves[b]
                 /\ d[b] = pq * worths[b] + 0 * worths[b] + 0 * worths[b]
      <4>1. PICK z \in Int, w \in Int : z = moves[b] /\ w = worths[b]
        BY <1>2, <1>4, <1>6
      <4>2. e[b] = ps * z /\ d[b] = pq * w
        BY <1>2, <4>1
      <4>3. PICK x \in Int, y \in Int : x = ps * z /\ y = pq * w
        OBVIOUS
      <4> HIDE DEF e, d
      <4> QED BY <4>1, <4>2, <4>3
    <3> QED BY <3>1 DEF Combines
  <2>5. Combines(eu, ps, moves, k, spot, 0, spot, L) /\ Combines(du, pq, worths, k, spot, 0, spot, L)
    <3>1. ASSUME NEW b \in L
          PROVE  /\ eu[b] = ps * moves[b] + k * spot[b] + 0 * spot[b]
                 /\ du[b] = pq * worths[b] + k * spot[b] + 0 * spot[b]
      <4>1. PICK z \in Int, w \in Int, s \in Int : z = moves[b] /\ w = worths[b] /\ s = spot[b]
        BY <1>2, <1>4, <1>6
      <4>2. eu[b] = ps * z + k * s /\ du[b] = pq * w + k * s
        BY <1>2, <4>1
      <4>3. PICK x \in Int, y \in Int, u \in Int : x = ps * z /\ y = pq * w /\ u = k * s
        OBVIOUS
      <4> HIDE DEF eu, du
      <4> QED BY <4>1, <4>2, <4>3
    <3> QED BY <3>1 DEF Combines
  <2>6. StaysBelow(e, du, L) /\ StaysBelow(d, eu, L)
    <3> HIDE DEF e, d, eu, du
    <3> QED BY <2>3 DEF StaysBelow
  <2> HIDE DEF e, d, eu, du
  <2>7. k \in Int
    OBVIOUS
  <2>8. /\ SumFunctionOnSet(e, L) = ps * t + 0 * t + 0 * t
        /\ SumFunctionOnSet(d, L) = pq * wl + 0 * wl + 0 * wl
    BY <1>2, <1>4, <1>6, <1>7, <1>8, <2>2, <2>4, SumCombines
  <2>9. /\ SumFunctionOnSet(eu, L) = ps * t + k * gl + 0 * gl
        /\ SumFunctionOnSet(du, L) = pq * wl + k * gl + 0 * gl
    BY <1>2, <1>4, <1>6, <1>7, <1>8, <2>2, <2>5, <2>7, SumCombines
  <2>10. /\ SumFunctionOnSet(e, L) <= SumFunctionOnSet(du, L)
         /\ SumFunctionOnSet(d, L) <= SumFunctionOnSet(eu, L)
    BY <1>2, <2>2, <2>6, SumStaysBelow
  <2>11. PICK x \in Int, y \in Int, z \in Int : x = ps * t /\ y = pq * wl /\ z = k * gl
    OBVIOUS
  <2>12. x <= y + z /\ y <= x + z
    BY <2>8, <2>9, <2>10, <2>11
  <2> QED BY <2>1, <2>11, <2>12
<1>17. k * gl <= k * g
  BY <1>9, KeepOrder
<1>18. PICK Y \in Int, Z \in Int, R \in Nat : Y = P * v + wl /\ Z = P * c + t /\ R = (q + P) * (P + g)
  <2>1. (q + P) * (P + g) \in Nat
    OBVIOUS
  <2> QED BY <2>1
<1>19. accountValue = Y + o
  <2>1. /\ SumFunctionOnSet(quote, Market) = nl + no /\ SumFunctionOnSet(worths, Market) = wl + wo
    BY <1>2, <1>4, <1>8, SumSplits
  <2>2. PICK x \in Int : x = collateral * U + owedRealizedPnl
    BY <1>1 DEF PerpInv
  <2>3. accountValue = P * x + P * (nl + no) - P * f + (wl + wo)
    BY <1>1, <1>3, <1>8, <2>1, <2>2 DEF AccountAddsUp
  <2>4. v = x + nl - f
    BY <1>11, <2>2
  <2>5. P * (x + nl - f) = P * x + P * nl - P * f /\ P * (nl + no) = P * nl + P * no
    OBVIOUS
  <2>6. PICK x1 \in Int, x2 \in Int, x3 \in Int, x4 \in Int :
          x1 = P * x /\ x2 = P * nl /\ x3 = P * no /\ x4 = P * f
    OBVIOUS
  <2> QED BY <1>14, <1>18, <2>3, <2>4, <2>5, <2>6
<1>20. /\ P * (P * (S * c)) <= P * (P * (q * v) + k) /\ P * (P * (q * v)) <= P * (P * (S * c) + k)
  BY <1>12, <1>13, <1>15, KeepOrder
<1>21. /\ P * (S * Z) = P * (P * (S * c)) + (P * S) * t
       /\ P * (q * Y) = P * (P * (q * v)) + (P * q) * wl
       /\ P * (P * (q * v) + k) = P * (P * (q * v)) + P * k
       /\ P * (P * (S * c) + k) = P * (P * (S * c)) + P * k
       /\ S * R = P * k + k * g
  BY <1>15, <1>18
<1>22. PICK x1 \in Int, x2 \in Int, x3 \in Int, x4 \in Int, x5 \in Int, x6 \in Int, x7 \in Int :
         /\ x1 = P * (P * (S * c)) /\ x2 = (P * S) * t /\ x3 = P * (P * (q * v)) /\ x4 = (P * q) * wl
         /\ x5 = P * k /\ x6 = k * g /\ x7 = k * gl
  OBVIOUS
<1>23. P * (S * Z) <= P * (q * Y) + S * R /\ P * (q * Y) <= P * (S * Z) + S * R
  BY <1>16, <1>17, <1>20, <1>21, <1>22
<1>24. perUnitRounding(q) = R
  BY <1>1, <1>8, <1>18 DEF perUnitRounding
<1>25. Z = P * collateralShare(q) + baseShare(q)
  BY <1>10, <1>13, <1>18
<1> QED BY <1>1, <1>10, <1>12, <1>14, <1>18, <1>19, <1>23, <1>24, <1>25

-----------------------------------------------------------------------------
(* Issuing, redeeming and what Perp does keep the account's types.          *)

\* The base that goes with an amount of sets, and what the swaps of it cost.
LEMMA SharesType ==
    ASSUME PerpInv, perpSupply > 0, NEW q \in Nat, NEW isIssue \in BOOLEAN
    PROVE  /\ syncPositionList \in SUBSET Market
           /\ \A b \in Market : shareOf(b, q) \in Int
           /\ shareTrades(q, isIssue) \in [syncPositionList -> Int]
<1>1. ASSUME NEW b \in Market
      PROVE  shareOf(b, q) \in Int
  <2>1. PICK P \in Int, S \in Int, x \in Int :
          P = PRECISE_UNIT /\ P > 0 /\ S = perpSupply /\ S > 0 /\ x = base[b]
    BY PreciseUnitAssumption DEF PerpInv
  <2>2. PICK v \in Int : v = Quotient(x * P, S)
    <3>1. PICK n \in Int : n = x * P
      BY <2>1
    <3> QED BY <2>1, <3>1, QuotientBounds
  <2>3. PICK n \in Int : n = v * q
    OBVIOUS
  <2> QED BY <2>1, <2>2, <2>3, QuotientBounds DEF shareOf, preciseMulInt, preciseDivInt
<1>2. syncPositionList \in SUBSET Market
  BY DEF syncPositionList, PerpInv
<1>3. \A b \in syncPositionList :
         (IF isIssue THEN shareOf(b, q) ELSE -shareOf(b, q)) \in Int
  BY <1>1, <1>2
<1> QED BY <1>1, <1>2, <1>3 DEF shareTrades

\* What the swaps of an issue cost is added to the value, and what those of a redemption
\* bring is too.
LEMMA ValueIssued ==
    ASSUME PerpInv, perpSupply > 0, NEW q \in Nat, q > 0, NEW slippage \in Nat,
           NEW isIssue \in BOOLEAN, swapsOK(q)
    PROVE  /\ collateralShare(q) \in Int
           /\ SumFunctionOnSet(costs(shareTrades(q, isIssue), slippage), syncPositionList) \in Int
           /\ accountValueIssued(q, isIssue, slippage)
                = collateralShare(q)
                    + (IF isIssue
                       THEN SumFunctionOnSet(costs(shareTrades(q, isIssue), slippage), syncPositionList)
                       ELSE -SumFunctionOnSet(costs(shareTrades(q, isIssue), slippage), syncPositionList))
<1> DEFINE L == syncPositionList
           trades == shareTrades(q, isIssue)
           cost == costs(trades, slippage)
           signed == [b \in L |-> IF shareOf(b, q) >= 0 THEN SwapQuote(b, trades[b], slippage)
                                  ELSE -SwapQuote(b, trades[b], slippage)]
<1>1. L \in SUBSET Market /\ (\A b \in Market : shareOf(b, q) \in Int) /\ trades \in [L -> Int]
  BY SharesType
<1>2. IsFiniteSet(L) /\ L \in SUBSET L
  BY <1>1, PerpAssumption, FS_Subset
<1>3. accountValueIssued(q, isIssue, slippage) = collateralShare(q) + SumFunctionOnSet(signed, L)
  BY DEF accountValueIssued, collateralShare
<1>4. ASSUME NEW b \in L
      PROVE  /\ cost[b] \in Int
             /\ signed[b] = IF isIssue THEN cost[b] ELSE -cost[b]
  <2>1. PICK h \in Int : h = shareOf(b, q) /\ h # 0
    BY <1>1 DEF swapsOK
  <2>2. trades[b] = IF isIssue THEN h ELSE -h
    BY <2>1 DEF shareTrades
  <2>3. PICK dq \in Int : dq = SwapQuote(b, trades[b], slippage)
    BY <1>1, SwapQuoteType
  <2>4. DOMAIN trades = L
    BY <1>1
  <2> HIDE DEF trades, L
  <2>5. cost[b] = IF trades[b] > 0 THEN dq ELSE -dq
    BY <2>3, <2>4 DEF costs
  <2>6. signed[b] = IF h >= 0 THEN dq ELSE -dq
    BY <2>1, <2>3
  <2> HIDE DEF cost, signed
  <2> QED BY <2>1, <2>2, <2>3, <2>5, <2>6
<1>5. cost \in [L -> Int] /\ signed \in [L -> Int]
  <2>1. DOMAIN trades = L
    BY <1>1
  <2>2. cost \in [L -> Int]
    BY <1>4, <2>1 DEF costs
  <2>3. \A b \in L : signed[b] \in Int
    BY <1>4
  <2> QED BY <2>2, <2>3
<1>6. collateralShare(q) \in Int
  BY AccountShare
<1> HIDE DEF cost, signed, L
<1>7. PICK k \in Int, x \in Int : k = SumFunctionOnSet(cost, L) /\ x = SumFunctionOnSet(signed, L)
  BY <1>2, <1>5, SumIsInteger
<1>8. CASE isIssue
  <2>1. \A b \in L : signed[b] = cost[b]
    BY <1>4, <1>8
  <2>2. x = k
    BY <1>2, <1>5, <1>7, <2>1, SumAgrees
  <2> QED BY <1>3, <1>6, <1>7, <1>8, <2>2 DEF cost, L
<1>9. CASE ~ isIssue
  <2>1. Combines(signed, -1, cost, 0, cost, 0, cost, L)
    <3>1. ASSUME NEW b \in L
          PROVE  signed[b] = (-1) * cost[b] + 0 * cost[b] + 0 * cost[b]
      BY <1>4, <1>9
    <3> QED BY <3>1 DEF Combines
  <2>2. -1 \in Int /\ 0 \in Int
    OBVIOUS
  <2>3. x = (-1) * k + 0 * k + 0 * k
    BY <1>2, <1>5, <1>7, <2>1, <2>2, SumCombines
  <2>4. x = -k
    BY <2>3
  <2> QED BY <1>3, <1>6, <1>7, <1>9, <2>4 DEF cost, L
<1> QED BY <1>8, <1>9

\* The external position unit is a number of USDC, rounded down from one that is rounded up
\* when issuing and down when redeeming.
LEMMA UnitOfValue ==
    ASSUME NEW v \in Int, v > 0, NEW q \in Nat, q > 0
    PROVE  /\ LET newUnit == fromPreciseUnitToDecimals(preciseDivCeil(v, q))
              IN  /\ newUnit \in Nat
                  /\ v * PRECISE_UNIT <= q * (USDC_FACTOR * newUnit) + q * (USDC_FACTOR - 1)
           /\ LET newUnit == fromPreciseUnitToDecimals(preciseDiv(v, q))
              IN  newUnit \in Nat /\ q * (USDC_FACTOR * newUnit) <= v * PRECISE_UNIT
<1>1. PICK P \in Int, U \in Int : P = PRECISE_UNIT /\ P > 0 /\ U = USDC_FACTOR /\ U > 0
  BY PreciseUnitAssumption, PerpAssumption
<1>2. PICK n \in Int : n = v * P /\ n > 0
  BY <1>1
<1>3. PICK m \in Int : m = (n - 1) \div q /\ q * m <= n - 1 /\ n - 1 < q * m + q
  BY <1>2, DivBounds
<1>4. m >= 0
  BY <1>2, <1>3
<1>5. PICK x \in Int : x = Quotient(m + 1, U) /\ x >= 0 /\ m + 1 - U < U * x
  <2>1. PICK z \in Int : z = m + 1 /\ z >= 0
    BY <1>3, <1>4
  <2>2. PICK x \in Int : x = Quotient(z, U) /\ x >= 0 /\ z - U < U * x
    BY <1>1, <2>1, QuotientBounds
  <2> QED BY <2>1, <2>2
<1>6. fromPreciseUnitToDecimals(preciseDivCeil(v, q)) = x
  BY <1>1, <1>2, <1>3, <1>5 DEF fromPreciseUnitToDecimals, preciseDivCeil
<1>7. n <= q * (U * x) + q * (U - 1)
  <2>1. PICK ux \in Int : ux = U * x
    OBVIOUS
  <2>2. m + 1 <= ux + (U - 1)
    BY <1>5, <2>1
  <2>3. q * (m + 1) <= q * (ux + (U - 1))
    BY <2>2, KeepOrder
  <2>4. q * (m + 1) = q * m + q /\ q * (ux + (U - 1)) = q * ux + q * (U - 1)
    OBVIOUS
  <2>5. PICK a \in Int, b \in Int, c \in Int : a = q * m /\ b = q * ux /\ c = q * (U - 1)
    OBVIOUS
  <2> QED BY <1>3, <2>1, <2>3, <2>4, <2>5
<1>8. PICK k \in Int : k = n \div q /\ q * k <= n /\ n < q * k + q
  BY <1>2, DivBounds
<1>9. k >= 0
  BY <1>2, <1>8
<1>10. PICK y \in Int : y = Quotient(k, U) /\ y >= 0 /\ U * y <= k
  BY <1>1, <1>9, QuotientBounds
<1>11. fromPreciseUnitToDecimals(preciseDiv(v, q)) = y
  BY <1>1, <1>2, <1>8, <1>10 DEF fromPreciseUnitToDecimals, preciseDiv
<1>12. q * (U * y) <= n
  <2>1. PICK uy \in Int : uy = U * y
    OBVIOUS
  <2>2. q * uy <= q * k
    BY <1>10, <2>1, KeepOrder
  <2> QED BY <1>8, <2>1, <2>2
<1> QED BY <1>1, <1>2, <1>5, <1>6, <1>7, <1>10, <1>11, <1>12

LEMMA ExecuteType ==
    ASSUME PerpInv, perpSupply > 0, NEW q \in Nat, q > 0, NEW slippage \in Nat,
           NEW isIssue \in BOOLEAN, swapsOK(q)
    PROVE  /\ accountValueIssued(q, isIssue, slippage) \in Int
           /\ executePositionTrades(q, isIssue, slippage) \in Nat
<1>1. accountValueIssued(q, isIssue, slippage) \in Int
  BY ValueIssued
<1>2. PICK v \in Int : v = accountValueIssued(q, isIssue, slippage)
  BY <1>1
<1>3. CASE v <= 0
  BY <1>1, <1>2, <1>3 DEF executePositionTrades
<1>4. CASE v > 0
  <2>1. /\ fromPreciseUnitToDecimals(preciseDivCeil(v, q)) \in Nat
        /\ fromPreciseUnitToDecimals(preciseDiv(v, q)) \in Nat
    BY <1>4, UnitOfValue
  <2>2. executePositionTrades(q, isIssue, slippage)
          = fromPreciseUnitToDecimals(IF isIssue THEN preciseDivCeil(v, q) ELSE preciseDiv(v, q))
    BY <1>2, <1>4 DEF executePositionTrades
  <2> QED BY <1>1, <2>1, <2>2
<1> QED BY <1>2, <1>3, <1>4

\* What Perp withdraws, and what funding it settles.
LEMMA WithdrawnTypes ==
    ASSUME PerpInv, NEW amount \in Int, NEW owed \in Int, NEW settled \in SUBSET Market,
           Withdrawn(amount, owed, settled)
    PROVE  /\ collateral' \in Nat /\ owedRealizedPnl' \in Int
           /\ lastTwPremium' \in [Market -> Int]
<1> DEFINE notYet == {b \in Market : b \notin settled}
           fundingOf == [b \in notYet |-> pendingFunding(b)]
<1>1. fundingOf \in [notYet -> Int]
  BY FundingType
<1>2. IsFiniteSet(notYet) /\ notYet \in SUBSET notYet
  BY PerpAssumption, FS_Subset
<1>3. PICK due \in Int : due = owed - SumFunctionOnSet(fundingOf, notYet)
  <2> HIDE DEF fundingOf, notYet
  <2>1. SumFunctionOnSet(fundingOf, notYet) \in Int
    BY <1>1, <1>2, SumIsInteger
  <2> QED BY <2>1
<1>4. PICK U \in Int : U = USDC_FACTOR /\ U > 0
  BY PerpAssumption
<1>5. PICK paid \in Int : paid = Quotient(due, U)
  BY <1>4, QuotientBounds
<1>6. SettledPremium(settled) \in [Market -> Int]
  BY DEF SettledPremium, PerpInv
<1>7. CASE amount = 0
  BY <1>6, <1>7 DEF Withdrawn, PerpInv
<1>8. CASE amount # 0
  <2>1. /\ collateral + paid - amount >= 0
        /\ collateral' = collateral + paid - amount
        /\ owedRealizedPnl' = due - U * paid
        /\ lastTwPremium' = twPremium
    BY <1>3, <1>4, <1>5, <1>8 DEF Withdrawn, fromPreciseUnitToDecimals
  <2>2. collateral + paid - amount \in Int /\ due - U * paid \in Int
    BY DEF PerpInv
  <2> QED BY <2>1, <2>2 DEF PerpInv
<1> QED BY <1>7, <1>8

\* Once the funding of some markets is settled, what is owed is that of the others.
LEMMA FundingAfter ==
    ASSUME PerpInv, PerpInv', NEW settled \in SUBSET Market,
           \A b \in Market \ settled : base'[b] = base[b],
           twPremium' = twPremium, lastTwPremium' = SettledPremium(settled)
    PROVE  /\ SumFunctionOnSet(fundings, settled) \in Int
           /\ SumFunctionOnSet(fundings, Market) \in Int
           /\ SumFunctionOnSet(fundings', Market)
                = SumFunctionOnSet(fundings, Market) - SumFunctionOnSet(fundings, settled)
<1> DEFINE rest == Market \ settled
<1>1. fundings \in [Market -> Int] /\ fundings' \in [Market -> Int]
  <2>1. (PerpInv => AccountAddsUp)'
    BY AccountParts, PTL
  <2> QED BY <2>1, AccountParts DEF AccountAddsUp
<1>2. IsFiniteSet(Market) /\ Market \in SUBSET Market /\ rest \in SUBSET Market
  BY PerpAssumption
<1>3. ASSUME NEW b \in settled PROVE fundings'[b] = 0
  <2>1. PICK x \in Int, z \in Int : x = base'[b] /\ z = ONE_DAY_IN_SECONDS * PRECISE_UNIT /\ z > 0
    BY PreciseUnitAssumption, PerpAssumption DEF PerpInv
  <2>2. twPremium'[b] - lastTwPremium'[b] = 0
    BY DEF SettledPremium, PerpInv
  <2>3. x * (twPremium'[b] - lastTwPremium'[b]) = 0
    BY <2>2
  <2>4. Quotient(0, z) = 0
    <3>1. PICK k \in Int : k = Quotient(0, z) /\ k >= 0 /\ k <= 0
      BY <2>1, QuotientBounds
    <3> QED BY <3>1
  <2>5. fundings'[b] = Quotient(x * (twPremium'[b] - lastTwPremium'[b]), z)
    BY <2>1 DEF fundings, pendingFunding
  <2> QED BY <2>3, <2>4, <2>5
<1>4. ASSUME NEW b \in rest PROVE fundings'[b] = fundings[b]
  <2>1. lastTwPremium'[b] = lastTwPremium[b] /\ base'[b] = base[b]
    BY DEF SettledPremium
  <2> QED BY <2>1 DEF fundings, pendingFunding
<1>5. \A b \in Market \ rest : fundings'[b] = 0
  BY <1>3
<1>6. SumFunctionOnSet(fundings', Market) = SumFunctionOnSet(fundings', rest)
  <2> HIDE DEF rest
  <2> QED BY <1>1, <1>2, <1>5, SumOutside
<1>7. SumFunctionOnSet(fundings', rest) = SumFunctionOnSet(fundings, rest)
  <2> HIDE DEF rest
  <2> QED BY <1>1, <1>2, <1>4, SumAgrees
<1>8. SumFunctionOnSet(fundings, Market)
        = SumFunctionOnSet(fundings, settled) + SumFunctionOnSet(fundings, rest)
  BY <1>1, <1>2, SumSplits
<1>9. /\ SumFunctionOnSet(fundings, settled) \in Int /\ SumFunctionOnSet(fundings, rest) \in Int
      /\ SumFunctionOnSet(fundings, Market) \in Int
  <2> HIDE DEF rest
  <2> QED BY <1>1, <1>2, SumIsInteger
<1> QED BY <1>6, <1>7, <1>8, <1>9

\* Whether anything is withdrawn or not, the account pays the funding of the markets that
\* were not settled, or still owes it.
LEMMA WithdrawnSettles ==
    ASSUME PerpInv, PerpInv', NEW amount \in Int, NEW owed \in Int, NEW settled \in SUBSET Market,
           \A b \in Market \ settled : base'[b] = base[b], twPremium' = twPremium,
           Withdrawn(amount, owed, settled)
    PROVE  collateral' * USDC_FACTOR + owedRealizedPnl' - SumFunctionOnSet(fundings', Market)
             = collateral * USDC_FACTOR + owed
                 - (SumFunctionOnSet(fundings, Market) - SumFunctionOnSet(fundings, settled))
                 + USDC_FACTOR * (-amount)
<1> DEFINE notYet == {b \in Market : b \notin settled}
           fundingOf == [b \in notYet |-> pendingFunding(b)]
<1>1. PICK U \in Int, c \in Int : U = USDC_FACTOR /\ U > 0 /\ c = collateral
  BY PerpAssumption DEF PerpInv
<1>2. CASE amount = 0
  <2>1. collateral' = collateral /\ owedRealizedPnl' = owed /\ lastTwPremium' = SettledPremium(settled)
    BY <1>2 DEF Withdrawn
  <2>2. PICK f \in Int, fd \in Int :
          /\ f = SumFunctionOnSet(fundings, Market) /\ fd = SumFunctionOnSet(fundings, settled)
          /\ SumFunctionOnSet(fundings', Market) = f - fd
    BY <2>1, FundingAfter
  <2>3. PICK x \in Int : x = c * U
    OBVIOUS
  <2>4. U * (-amount) = 0
    BY <1>2
  <2> QED BY <1>1, <2>1, <2>2, <2>3, <2>4
<1>3. CASE amount # 0
  <2>1. PICK due \in Int, fd \in Int, f \in Int :
          /\ due = owed - SumFunctionOnSet(fundingOf, notYet)
          /\ f = SumFunctionOnSet(fundings, Market) /\ fd = SumFunctionOnSet(fundings, settled)
          /\ due = owed - (f - fd)
    <3>1. fundings \in [Market -> Int]
      BY AccountParts DEF AccountAddsUp
    <3>2. IsFiniteSet(Market) /\ notYet \in SUBSET Market /\ notYet \in SUBSET notYet
          /\ IsFiniteSet(notYet) /\ notYet = Market \ settled
      BY PerpAssumption, FS_Subset
    <3>3. fundingOf \in [notYet -> Int] /\ \A b \in notYet : fundings[b] = fundingOf[b]
      BY FundingType DEF fundings
    <3> HIDE DEF fundingOf
    <3>4. SumFunctionOnSet(fundings, notYet) = SumFunctionOnSet(fundingOf, notYet)
      <4> HIDE DEF notYet
      <4> QED BY <3>1, <3>2, <3>3, SumAgrees
    <3>5. SumFunctionOnSet(fundings, Market)
            = SumFunctionOnSet(fundings, settled) + SumFunctionOnSet(fundings, Market \ settled)
      BY <3>1, <3>2, SumSplits
    <3>6. /\ SumFunctionOnSet(fundings, Market) \in Int /\ SumFunctionOnSet(fundings, settled) \in Int
          /\ SumFunctionOnSet(fundings, notYet) \in Int
      <4>1. Market \in SUBSET Market
        OBVIOUS
      <4> HIDE DEF notYet
      <4> QED BY <3>1, <3>2, <4>1, SumIsInteger
    <3> HIDE DEF notYet
    <3>7. PICK a \in Int, b \in Int, d \in Int :
            /\ a = SumFunctionOnSet(fundings, Market) /\ b = SumFunctionOnSet(fundings, settled)
            /\ d = SumFunctionOnSet(fundings, notYet)
      BY <3>6
    <3>8. a = b + d /\ d = SumFunctionOnSet(fundingOf, notYet)
      BY <3>2, <3>4, <3>5, <3>7
    <3>9. owed - d = owed - (a - b) /\ owed - d \in Int
      BY <3>8
    <3> QED BY <3>7, <3>8, <3>9
  <2>2. PICK paid \in Int : paid = Quotient(due, U)
    BY <1>1, QuotientBounds
  <2>3. /\ collateral' = c + paid - amount /\ owedRealizedPnl' = due - U * paid
        /\ lastTwPremium' = twPremium
    BY <1>1, <1>3, <2>1, <2>2 DEF Withdrawn, fromPreciseUnitToDecimals
  <2>4. SumFunctionOnSet(fundings', Market) = 0
    <3>1. PICK f1 \in Int :
            /\ SumFunctionOnSet(fundings', Market) = f1 - f1
      <4>1. lastTwPremium' = SettledPremium(Market)
        BY <2>3 DEF SettledPremium, PerpInv
      <4>2. Market \in SUBSET Market /\ \A b \in Market \ Market : base'[b] = base[b]
        OBVIOUS
      <4> QED BY <4>1, <4>2, FundingAfter
    <3> QED BY <3>1
  <2>5. (c + paid - amount) * U = c * U + U * paid - U * amount /\ U * (-amount) = -(U * amount)
    OBVIOUS
  <2>6. PICK x \in Int, y \in Int, z \in Int : x = c * U /\ y = U * paid /\ z = U * amount
    OBVIOUS
  <2>7. x + y - z + (due - y) - 0 = x + owed - (f - fd) - z
    BY <2>1
  <2> QED BY <1>1, <2>1, <2>3, <2>4, <2>5, <2>6, <2>7
<1> QED BY <1>2, <1>3

\* Every action keeps the account's types.
LEMMA SwapsTypes ==
    ASSUME PerpInv, NEW D \in SUBSET Market, NEW amount \in [D -> Int], NEW slippage \in Nat
    PROVE  /\ Swaps(amount, slippage).base \in [Market -> Int]
           /\ Swaps(amount, slippage).quote \in [Market -> Int]
           /\ Swaps(amount, slippage).realized \in Int
           /\ \A b \in Market \ D : Swaps(amount, slippage).base[b] = base[b]
<1>1. SwapsAddUp(D, amount, slippage)
  BY SwapsConserve
<1> QED BY <1>1 DEF SwapsAddUp

LEMMA SettledType ==
    ASSUME PerpInv, NEW markets
    PROVE  SettledPremium(markets) \in [Market -> Int]
BY DEF SettledPremium, PerpInv

\* Amounts per set come to amounts that are not negative.
LEMMA AmountType ==
    ASSUME NEW a \in Nat, NEW b \in Nat
    PROVE  preciseMul(a, b) \in Nat /\ preciseMulCeil(a, b) \in Nat
<1>1. PICK n \in Nat, P \in Nat : n = a * b /\ P = PRECISE_UNIT /\ P > 0
  BY PreciseUnitAssumption
<1>2. n \div P \in Nat
  BY <1>1
<1>3. CASE n = 0
  <2>1. a = 0 \/ b = 0
    BY <1>1, <1>3
  <2> QED BY <1>1, <1>2, <2>1 DEF preciseMul, preciseMulCeil
<1>4. CASE n # 0
  <2>1. (n - 1) \div P \in Nat
    BY <1>1, <1>4
  <2>2. a # 0 /\ b # 0
    BY <1>1, <1>4
  <2> QED BY <1>1, <1>2, <2>1, <2>2 DEF preciseMul, preciseMulCeil
<1> QED BY <1>3, <1>4

LEMMA IssueKeepsTypes ==
    ASSUME PerpInv, NEW q \in PerpQuantity, NEW slippage \in Slippage, PerpIssue(q, slippage)
    PROVE  PerpInv'
<1>1. q \in Nat /\ q > 0 /\ slippage \in Nat /\ perpSupply > 0 /\ perpSupply \in Nat
  BY PerpAssumption DEF PerpIssue, PerpInv
<1>2. /\ syncPositionList \in SUBSET Market
      /\ shareTrades(q, TRUE) \in [syncPositionList -> Int]
  BY <1>1, SharesType
<1>3. /\ Swaps(shareTrades(q, TRUE), slippage).base \in [Market -> Int]
      /\ Swaps(shareTrades(q, TRUE), slippage).quote \in [Market -> Int]
      /\ Swaps(shareTrades(q, TRUE), slippage).realized \in Int
  BY <1>1, <1>2, SwapsTypes
<1>4. executePositionTrades(q, TRUE, slippage) \in Nat
  BY <1>1, ExecuteType DEF PerpIssue
<1>5. issueTransfer(q, slippage) \in Nat
  BY <1>1, <1>4, AmountType DEF issueTransfer
<1>6. SettledPremium(syncPositionList) \in [Market -> Int]
  BY SettledType
<1>7. external' \in [open : BOOLEAN, unit : Nat]
  BY <1>4 DEF PerpIssue, PerpInv
<1>8. /\ collateral' = collateral + issueTransfer(q, slippage)
      /\ owedRealizedPnl' = owedRealizedPnl + Swaps(shareTrades(q, TRUE), slippage).realized
      /\ perpSupply' = perpSupply + q
  BY DEF PerpIssue
<1>9. collateral' \in Nat /\ owedRealizedPnl' \in Int /\ perpSupply' \in Nat
  <2> DEFINE realized == Swaps(shareTrades(q, TRUE), slippage).realized
             transfer == issueTransfer(q, slippage)
  <2>1. /\ collateral \in Nat /\ owedRealizedPnl \in Int /\ realized \in Int /\ transfer \in Nat
        /\ collateral' = collateral + transfer /\ owedRealizedPnl' = owedRealizedPnl + realized
        /\ perpSupply' = perpSupply + q
    BY <1>3, <1>5, <1>8 DEF PerpInv
  <2> HIDE DEF realized, transfer
  <2> QED BY <1>1, <2>1
<1> QED BY <1>2, <1>3, <1>6, <1>7, <1>9 DEF PerpIssue, PerpInv

LEMMA RedeemKeepsTypes ==
    ASSUME PerpInv, NEW q \in PerpQuantity, NEW slippage \in Slippage, PerpRedeem(q, slippage)
    PROVE  PerpInv'
<1>1. q \in Nat /\ q > 0 /\ slippage \in Nat /\ perpSupply > 0 /\ perpSupply \in Nat
      /\ perpSupply >= q
  BY PerpAssumption DEF PerpRedeem, PerpInv
<1>2. /\ syncPositionList \in SUBSET Market
      /\ shareTrades(q, FALSE) \in [syncPositionList -> Int]
  BY <1>1, SharesType
<1>3. /\ Swaps(shareTrades(q, FALSE), slippage).base \in [Market -> Int]
      /\ Swaps(shareTrades(q, FALSE), slippage).quote \in [Market -> Int]
      /\ Swaps(shareTrades(q, FALSE), slippage).realized \in Int
  BY <1>1, <1>2, SwapsTypes
<1>4. executePositionTrades(q, FALSE, slippage) \in Nat
  BY <1>1, ExecuteType DEF PerpRedeem
<1>5. redeemTransfer(q, slippage) \in Int
  <2>1. PICK u \in Nat : u = executePositionTrades(q, FALSE, slippage)
    BY <1>4
  <2>2. redeemTransfer(q, slippage) = preciseMul(q, u)
    BY <2>1 DEF redeemTransfer
  <2> QED BY <1>1, <2>2, AmountType
<1>6. PICK owed \in Int :
        owed = owedRealizedPnl + Swaps(shareTrades(q, FALSE), slippage).realized
  <2> DEFINE realized == Swaps(shareTrades(q, FALSE), slippage).realized
  <2>1. owedRealizedPnl \in Int /\ realized \in Int
    BY <1>3 DEF PerpInv
  <2> HIDE DEF realized
  <2>2. PICK owed \in Int : owed = owedRealizedPnl + realized
    BY <2>1
  <2> QED BY <2>2 DEF realized
<1>7. Withdrawn(redeemTransfer(q, slippage), owed, syncPositionList)
  BY <1>6 DEF PerpRedeem
<1>8. collateral' \in Nat /\ owedRealizedPnl' \in Int /\ lastTwPremium' \in [Market -> Int]
  BY <1>2, <1>5, <1>7, WithdrawnTypes
<1>9. external' \in [open : BOOLEAN, unit : Nat]
  BY <1>4 DEF PerpRedeem, PerpInv
<1>10. perpSupply' \in Nat
  BY <1>1 DEF PerpRedeem
<1> QED BY <1>2, <1>3, <1>8, <1>9, <1>10 DEF PerpRedeem, PerpInv

LEMMA TradeKeepsTypes ==
    ASSUME PerpInv, NEW b \in Market, NEW units \in Int, NEW quoteUnits, NEW slippage \in Slippage,
           NEW fee \in Nat, PerpTrade(b, units, quoteUnits, slippage, fee)
    PROVE  PerpInv'
<1> DEFINE amount == baseNotional(b, units)
           trades == [x \in {b} |-> amount]
           fees == fromPreciseUnitToDecimals(preciseMul(SwapQuote(b, amount, slippage), fee))
<1>1. PICK S \in Nat, P \in Nat, U \in Nat :
        /\ S = perpSupply /\ S > 0 /\ P = PRECISE_UNIT /\ P > 0 /\ U = USDC_FACTOR /\ U > 0
        /\ slippage \in Nat
  BY PreciseUnitAssumption, PerpAssumption DEF PerpTrade, PerpInv
<1>2. amount \in Int
  <2>1. -base[b] \in Int
    BY DEF PerpInv
  <2>2. PICK n \in Int : n = units * S
    BY <1>1
  <2>3. preciseMulInt(units, S) \in Int
    BY <1>1, <2>2, QuotientBounds DEF preciseMulInt
  <2> QED BY <1>1, <2>1, <2>3 DEF baseNotional
<1>3. {b} \in SUBSET Market /\ trades \in [{b} -> Int]
  BY <1>2
<1>4. SwapQuote(b, amount, slippage) \in Nat
  BY <1>1, <1>2, SwapQuoteType
<1>5. PICK dq, perp : /\ dq \in Nat /\ dq = SwapQuote(b, amount, slippage)
                      /\ perp = Swaps(trades, slippage)
  BY <1>4
<1>6. fees \in Int
  <2>1. PICK m \in Int : m = preciseMul(dq, fee)
    BY <1>5, AmountType
  <2> QED BY <1>1, <1>5, <2>1, QuotientBounds DEF fromPreciseUnitToDecimals
<1> HIDE DEF trades
<1>7. perp.base \in [Market -> Int] /\ perp.quote \in [Market -> Int] /\ perp.realized \in Int
  BY <1>1, <1>3, <1>5, SwapsTypes
<1> USE DEF trades
<1>8. /\ base' = perp.base /\ quote' = perp.quote
      /\ Withdrawn(fees, owedRealizedPnl + perp.realized, {b})
      /\ positions' = updatedPositionList(b, base'[b])
      /\ UNCHANGED <<perpSupply, twPremium, spot, markBelowIndex, external>>
  BY <1>5 DEF PerpTrade
<1> HIDE DEF trades, fees, amount
<1>9. PICK owed \in Int, taken \in Int : owed = owedRealizedPnl + perp.realized /\ taken = fees
  BY <1>6, <1>7 DEF PerpInv
<1>10. collateral' \in Nat /\ owedRealizedPnl' \in Int /\ lastTwPremium' \in [Market -> Int]
  BY <1>3, <1>8, <1>9, WithdrawnTypes
<1>11. positions' \subseteq Market
  BY <1>8 DEF updatedPositionList, PerpInv
<1> QED BY <1>7, <1>8, <1>10, <1>11 DEF PerpInv

LEMMA ExternalUnitType ==
    ASSUME PerpInv, perpSupply > 0, collateral' \in Nat, UpdateExternalPositionUnit
    PROVE  external' \in [open : BOOLEAN, unit : Nat]
<1>1. PICK S \in Int, P \in Nat, U \in Int, c \in Nat :
        /\ S = perpSupply /\ S > 0 /\ P = PRECISE_UNIT /\ U = USDC_FACTOR /\ U > 0
        /\ U \in Nat /\ c = collateral'
  BY PreciseUnitAssumption, PerpAssumption DEF PerpInv
<1>2. PICK n \in Int : n = (c * U) * P /\ n >= 0
  <2>1. PICK cu \in Nat : cu = c * U
    BY <1>1, ProductOfNat
  <2>2. cu * P \in Nat
    BY ProductOfNat
  <2> QED BY <2>1, <2>2
<1>3. PICK m \in Int : m = Quotient(n, S) /\ m >= 0
  BY <1>1, <1>2, QuotientBounds
<1>4. PICK u \in Int : u = Quotient(m, U) /\ u >= 0
  BY <1>1, <1>3, QuotientBounds
<1>5. fromPreciseUnitToDecimals(preciseDivInt(collateral' * USDC_FACTOR, perpSupply)) = u
  BY <1>1, <1>2, <1>3, <1>4 DEF fromPreciseUnitToDecimals, preciseDivInt
<1> QED BY <1>4, <1>5 DEF UpdateExternalPositionUnit, PerpInv

LEMMA DepositKeepsTypes ==
    ASSUME PerpInv, NEW units \in DepositUnits, PerpDeposit(units)
    PROVE  PerpInv'
<1>1. perpSupply \in Nat /\ units \in Nat /\ perpSupply > 0
  BY PerpAssumption DEF PerpDeposit, PerpInv
<1>2. collateral' \in Nat
  <2>1. preciseMul(units, perpSupply) \in Nat
    BY <1>1, AmountType
  <2> QED BY <2>1 DEF PerpDeposit, PerpInv
<1>3. external' \in [open : BOOLEAN, unit : Nat]
  BY <1>1, <1>2, ExternalUnitType DEF PerpDeposit
<1> QED BY <1>2, <1>3 DEF PerpDeposit, PerpInv

LEMMA WithdrawKeepsTypes ==
    ASSUME PerpInv, NEW units \in DepositUnits, PerpWithdraw(units)
    PROVE  PerpInv'
<1>1. perpSupply \in Nat /\ units \in Nat /\ perpSupply > 0
  BY PerpAssumption DEF PerpWithdraw, PerpInv
<1>2. PICK amount \in Int, owed \in Int :
        amount = preciseMulCeil(units, perpSupply) /\ owed = owedRealizedPnl
  BY <1>1, AmountType DEF PerpInv
<1>3. Withdrawn(amount, owed, {})
  BY <1>2 DEF PerpWithdraw
<1>4. {} \in SUBSET Market
  OBVIOUS
<1>5. collateral' \in Nat /\ owedRealizedPnl' \in Int /\ lastTwPremium' \in [Market -> Int]
  BY <1>3, <1>4, WithdrawnTypes
<1>6. external' \in [open : BOOLEAN, unit : Nat]
  BY <1>1, <1>5, ExternalUnitType DEF PerpWithdraw
<1> QED BY <1>5, <1>6 DEF PerpWithdraw, PerpInv

LEMMA LiquidateKeepsTypes ==
    ASSUME PerpInv, NEW b \in Market, NEW slippage \in Slippage, Liquidate(b, slippage)
    PROVE  PerpInv'
<1> DEFINE trades == [x \in {b} |-> -base[b]]
<1>1. {b} \in SUBSET Market /\ trades \in [{b} -> Int] /\ slippage \in Nat
  BY PerpAssumption DEF PerpInv
<1> HIDE DEF trades
<1>2. /\ Swaps(trades, slippage).base \in [Market -> Int]
      /\ Swaps(trades, slippage).quote \in [Market -> Int]
      /\ Swaps(trades, slippage).realized \in Int
  BY <1>1, SwapsTypes
<1>3. SettledPremium({b}) \in [Market -> Int]
  BY SettledType
<1>4. /\ base' = Swaps(trades, slippage).base /\ quote' = Swaps(trades, slippage).quote
      /\ owedRealizedPnl' = owedRealizedPnl + Swaps(trades, slippage).realized
      /\ lastTwPremium' = SettledPremium({b})
      /\ UNCHANGED <<perpSupply, collateral, twPremium, spot, markBelowIndex, positions, external>>
  BY DEF Liquidate, trades
<1>5. PICK r \in Int : r = Swaps(trades, slippage).realized
  BY <1>2
<1>6. owedRealizedPnl' \in Int
  BY <1>4, <1>5 DEF PerpInv
<1> QED BY <1>2, <1>3, <1>4, <1>6 DEF PerpInv

LEMMA MarketKeepsTypes ==
    ASSUME PerpInv, NEW b \in Market, NEW p \in SpotPrice, NEW premium \in PremiumStep,
           MarketMoves(b, p, premium)
    PROVE  PerpInv'
<1>1. premium \in Int /\ p \in Nat \ {0}
  BY PerpAssumption
<1>2. spot' \in [Market -> Nat \ {0}] /\ twPremium' \in [Market -> Int]
  BY <1>1 DEF MarketMoves, PerpInv
<1>3. markBelowIndex' \in [Market -> BOOLEAN]
  <2>1. (premium < 0) \in BOOLEAN
    BY <1>1
  <2>2. PICK below \in BOOLEAN : markBelowIndex' = [markBelowIndex EXCEPT ![b] = below]
    BY Zenon, <2>1 DEF MarketMoves
  <2>3. markBelowIndex \in [Market -> BOOLEAN]
    BY DEF PerpInv
  <2> QED BY Zenon, <2>2, <2>3
<1> QED BY <1>2, <1>3 DEF MarketMoves, PerpInv

LEMMA PlainStepsKeepTypes ==
    ASSUME PerpInv, NEW q \in PerpQuantity,
           PlainIssue(q) \/ PlainRedeem(q) \/ IssueAfterLastRedemption(q)
    PROVE  PerpInv'
<1>1. q \in Nat /\ external.unit \in Nat /\ perpSupply \in Nat /\ collateral \in Nat
  BY PerpAssumption DEF PerpInv
<1>2. perpSupply' \in Nat
  BY <1>1 DEF PlainIssue, PlainRedeem, IssueAfterLastRedemption
<1>3. collateral' \in Nat
  <2>1. PICK u \in Nat, d \in Nat : u = external.unit /\ d = preciseMulCeil(q, u)
    BY <1>1, AmountType
  <2> QED BY <1>1, <2>1 DEF PlainIssue, PlainRedeem, IssueAfterLastRedemption
<1> QED BY <1>2, <1>3 DEF PerpInv, PlainIssue, PlainRedeem, IssueAfterLastRedemption

\* leverUp asks for whole numbers.
LEMMA LeverUpUnits ==
    ASSUME PerpInv, NEW b \in Market, perpSupply > 0, NEW ratio \in LeverageRatio, NEW isLong
    PROVE  PerpUtils!leverUp(collateral * USDC_FACTOR, perpSupply, spot[b], ratio, isLong).baseUnit
             \in Int
<1>1. PICK S \in Nat, P \in Nat, U \in Nat, s \in Nat, c \in Nat :
        /\ S = perpSupply /\ S > 0 /\ P = PRECISE_UNIT /\ U = USDC_FACTOR /\ s = spot[b] /\ s > 0
        /\ c = collateral
  <2>1. perpSupply \in Nat /\ spot[b] \in Nat /\ spot[b] > 0 /\ collateral \in Nat
    BY DEF PerpInv
  <2> QED BY <2>1, PreciseUnitAssumption, PerpAssumption
<1>2. ratio \in Nat
  BY PerpAssumption
<1>3. PICK n \in Int : n = ((c * U) * ratio) * P
  <2>1. PICK k \in Int : k = (c * U) * ratio
    BY <1>2
  <2> QED BY <2>1
<1>4. PICK m \in Int : m = Quotient(n, s)
  BY <1>1, <1>3, QuotientType
<1>5. PICK k \in Int : k = m * P
  BY <1>1
<1>6. PICK u \in Int : u = Quotient(k, S)
  <2>1. k \in Int /\ S \in Int /\ S > 0
    BY <1>1
  <2>2. Quotient(k, S) \in Int
    BY ZenonT(40), <2>1, QuotientType
  <2> QED BY <2>2
<1>7. PerpUtils!bnDiv(n, s) = m /\ PerpUtils!bnDiv(k, S) = u
  BY <1>1, <1>3, <1>4, <1>5, <1>6 DEF PerpUtils!bnDiv, PerpUtils!bnAbs, Quotient, abs
<1>8. PerpUtils!preciseDiv(PerpUtils!preciseDiv((c * U) * ratio, s), S) = u
  BY <1>1, <1>3, <1>5, <1>7 DEF PerpUtils!preciseDiv
<1>9. PerpUtils!leverUp(c * U, S, s, ratio, isLong).baseUnit = IF isLong THEN u ELSE -u
  BY <1>8 DEF PerpUtils!leverUp
<1> QED BY <1>1, <1>9

LEMMA PerpTypesKept == PerpInv /\ [PerpNext]_perpVars => PerpInv'
<1> SUFFICES ASSUME PerpInv, [PerpNext]_perpVars PROVE PerpInv'
  OBVIOUS
<1>1. ASSUME NEW q \in PerpQuantity, NEW s \in Slippage, PerpIssue(q, s) \/ PerpRedeem(q, s)
      PROVE  PerpInv'
  BY <1>1, IssueKeepsTypes, RedeemKeepsTypes
<1>2. ASSUME NEW q \in PerpQuantity,
             PlainIssue(q) \/ PlainRedeem(q) \/ IssueAfterLastRedemption(q)
      PROVE  PerpInv'
  BY <1>2, PlainStepsKeepTypes
<1>3. ASSUME NEW b \in Market, NEW u \in TradeUnits, NEW s \in Slippage, NEW f \in PerpFee,
             PerpTrade(b, u, IF u > 0 THEN MaxPerpSupply * PRECISE_UNIT ELSE 0, s, f)
      PROVE  PerpInv'
  <2>1. u \in Int /\ f \in Nat
    BY PerpAssumption
  <2> QED BY <1>3, <2>1, TradeKeepsTypes
<1>4. ASSUME NEW b \in Market, NEW k \in LeverageRatio, NEW isLong \in BOOLEAN, NEW s \in Slippage,
             LeverUp(b, k, isLong, s)
      PROVE  PerpInv'
  <2> DEFINE ask == PerpUtils!leverUp(collateral * USDC_FACTOR, perpSupply, spot[b], k, isLong)
  <2>1. perpSupply > 0 /\ PerpTrade(b, ask.baseUnit, ask.quoteUnit, s, 0)
    BY <1>4 DEF LeverUp
  <2>2. ask.baseUnit \in Int /\ 0 \in Nat
    BY <2>1, LeverUpUnits
  <2> HIDE DEF ask
  <2> QED BY <2>1, <2>2, TradeKeepsTypes
<1>5. ASSUME NEW u \in DepositUnits, PerpDeposit(u) \/ PerpWithdraw(u) PROVE PerpInv'
  BY <1>5, DepositKeepsTypes, WithdrawKeepsTypes
<1>6. ASSUME NEW b \in Market, NEW p \in SpotPrice, NEW x \in PremiumStep, MarketMoves(b, p, x)
      PROVE  PerpInv'
  BY <1>6, MarketKeepsTypes
<1>7. ASSUME NEW b \in Market, NEW s \in Slippage, Liquidate(b, s) PROVE PerpInv'
  BY <1>7, LiquidateKeepsTypes
<1>8. CASE UNCHANGED perpVars
  BY <1>8 DEF perpVars, PerpInv
<1> QED BY <1>1, <1>2, <1>3, <1>4, <1>5, <1>6, <1>7, <1>8 DEF PerpNext

LEMMA PerpTypesAtFirst == PerpInit => PerpInv
<1> SUFFICES ASSUME PerpInit PROVE PerpInv
  OBVIOUS
<1>1. perpSupply \in Nat /\ spot \in [Market -> Nat \ {0}]
  BY PerpAssumption DEF PerpInit
<1>2. markBelowIndex \in [Market -> BOOLEAN]
  <2>1. markBelowIndex = [b \in Market |-> FALSE]
    BY DEF PerpInit
  <2> QED BY Zenon, <2>1
<1>3. external \in [open : BOOLEAN, unit : Nat]
  BY DEF PerpInit
<1> QED BY <1>1, <1>2, <1>3 DEF PerpInit, PerpInv

-----------------------------------------------------------------------------
(* "Slippage is borne by the issuer."                                       *)

\* What a share of the listed part is of the whole account's value, in numbers: A is the
\* account's value, of which Y is listed, and Z the share that goes with q of S sets.
LEMMA ShareOfAccount ==
    ASSUME NEW P \in Int, P > 0, NEW S \in Int, S > 0, NEW q \in Int, q > 0,
           NEW A \in Int, NEW Y \in Int, NEW O \in Int, NEW Z \in Int, NEW un \in Int, NEW R \in Int,
           A = Y + O, O <= un, - O <= un,
           P * (S * Z) <= P * (q * Y) + S * R, P * (q * Y) <= P * (S * Z) + S * R
    PROVE  /\ S * Z <= q * A + q * un + S * ((R \div P) + 1)
           /\ q * A <= S * Z + q * un + S * ((R \div P) + 1)
<1>1. PICK h \in Int : h = R \div P /\ P * h <= R /\ R < P * h + P
  BY DivBounds
<1>2. PICK x \in Int : x = S * (h + 1)
  OBVIOUS
<1>3. S * R <= P * x
  <2>1. P * (h + 1) = P * h + P
    OBVIOUS
  <2>2. R <= P * (h + 1)
    BY <1>1, <2>1
  <2>3. S * R <= S * (P * (h + 1))
    BY <2>2, KeepOrder
  <2>4. S * (P * (h + 1)) = P * x
    BY <1>2
  <2> QED BY <2>3, <2>4
<1>4. PICK sz \in Int, qy \in Int, qa \in Int, qo \in Int, qn \in Int :
        sz = S * Z /\ qy = q * Y /\ qa = q * A /\ qo = q * O /\ qn = q * un
  OBVIOUS
<1>5. sz <= qy + x
  <2>1. P * (qy + x) = P * qy + P * x
    OBVIOUS
  <2>2. P * sz <= P * (qy + x)
    <3>1. PICK a \in Int, b \in Int, c \in Int, d \in Int : a = P * sz /\ b = P * qy /\ c = P * x /\ d = S * R
      OBVIOUS
    <3> QED BY <1>3, <1>4, <2>1, <3>1
  <2> QED BY <2>2, CancelFactor
<1>6. qy <= sz + x
  <2>1. P * (sz + x) = P * sz + P * x
    OBVIOUS
  <2>2. P * qy <= P * (sz + x)
    <3>1. PICK a \in Int, b \in Int, c \in Int, d \in Int : a = P * sz /\ b = P * qy /\ c = P * x /\ d = S * R
      OBVIOUS
    <3> QED BY <1>3, <1>4, <2>1, <3>1
  <2> QED BY <2>2, CancelFactor
<1>7. qa = qy + qo
  <2>1. q * (Y + O) = q * Y + q * O
    OBVIOUS
  <2> QED BY <1>4, <2>1
<1>8. qo <= qn /\ - qo <= qn
  <2>1. q * O <= q * un /\ q * (- O) <= q * un
    BY KeepOrder
  <2>2. q * (- O) = - (q * O)
    OBVIOUS
  <2> QED BY <1>4, <2>1, <2>2
<1> QED BY <1>1, <1>2, <1>4, <1>5, <1>6, <1>7, <1>8

LEMMA PreciseMulBounds ==
    ASSUME NEW a \in Nat, NEW b \in Nat
    PROVE  /\ PRECISE_UNIT * preciseMul(a, b) <= a * b
           /\ a * b < PRECISE_UNIT * preciseMul(a, b) + PRECISE_UNIT
           /\ a * b <= PRECISE_UNIT * preciseMulCeil(a, b)
           /\ PRECISE_UNIT * preciseMulCeil(a, b) < a * b + PRECISE_UNIT
<1>1. PICK P \in Int, n \in Int : P = PRECISE_UNIT /\ P > 0 /\ n = a * b /\ n >= 0
  BY PreciseUnitAssumption, ProductOfNat
<1>2. PICK x \in Int : x = n \div P /\ P * x <= n /\ n < P * x + P
  BY <1>1, DivBounds
<1>3. preciseMul(a, b) = x
  BY <1>1, <1>2 DEF preciseMul
<1>4. CASE a = 0 \/ b = 0
  <2>1. preciseMulCeil(a, b) = 0 /\ n = 0
    BY <1>1, <1>4 DEF preciseMulCeil
  <2> QED BY <1>1, <1>2, <1>3, <2>1
<1>5. CASE ~ (a = 0 \/ b = 0)
  <2>1. PICK y \in Int : y = (n - 1) \div P /\ P * y <= n - 1 /\ n - 1 < P * y + P
    BY <1>1, DivBounds
  <2>2. preciseMulCeil(a, b) = y + 1
    BY <1>1, <1>5, <2>1 DEF preciseMulCeil
  <2>3. P * (y + 1) = P * y + P
    OBVIOUS
  <2>4. PICK py \in Int : py = P * y
    OBVIOUS
  <2>5. n <= P * (y + 1) /\ P * (y + 1) < n + P
    BY <2>1, <2>3, <2>4
  <2> QED BY <1>1, <1>2, <1>3, <2>2, <2>5
<1> QED BY <1>4, <1>5

\* The USDC of a unit that is rounded up or down, in numbers.
LEMMA UpperTransfer ==
    ASSUME NEW P \in Int, NEW U \in Int, U > 0, NEW q \in Int, q > 0, NEW v \in Int,
           NEW newUnit \in Int, NEW d \in Int,
           v * P <= q * (U * newUnit) + q * (U - 1), q * newUnit <= P * d
    PROVE  P * v <= P * (U * d) + U * q
<1>1. PICK x \in Int, y \in Int : x = q * newUnit /\ y = P * d
  OBVIOUS
<1>2. U * x <= U * y
  BY <1>1, KeepOrder
<1>3. /\ U * x = q * (U * newUnit) /\ U * y = P * (U * d) /\ v * P = P * v
      /\ q * (U - 1) = U * q - q
  BY <1>1
<1>4. PICK a \in Int, b \in Int, c \in Int, e \in Int :
        a = U * x /\ b = U * y /\ c = P * v /\ e = U * q
  OBVIOUS
<1>5. c <= a + e - q
  BY <1>3, <1>4
<1> QED BY <1>2, <1>3, <1>4, <1>5

LEMMA LowerTransfer ==
    ASSUME NEW P \in Int, NEW U \in Int, U > 0, NEW q \in Int, q > 0, NEW v \in Int,
           NEW newUnit \in Int, NEW d \in Int,
           q * (U * newUnit) <= v * P, P * d <= q * newUnit
    PROVE  P * (U * d) <= P * v
<1>1. PICK x \in Int, y \in Int : x = q * newUnit /\ y = P * d
  OBVIOUS
<1>2. U * y <= U * x
  BY <1>1, KeepOrder
<1>3. U * x = q * (U * newUnit) /\ U * y = P * (U * d) /\ v * P = P * v
  BY <1>1
<1> QED BY <1>2, <1>3

LEMMA NoTransfer ==
    ASSUME NEW P \in Nat, NEW U \in Nat, NEW q \in Nat, NEW v \in Int, NEW d \in Nat, v <= 0
    PROVE  P * v <= P * (U * d) + U * q
<1>1. PICK ud \in Nat : ud = U * d
  BY ProductOfNat
<1>2. PICK x \in Nat, y \in Nat : x = P * ud /\ y = U * q
  BY ProductOfNat
<1>3. P * v <= P * 0
  BY KeepOrder
<1>4. P * v <= 0
  BY <1>3
<1>5. PICK z \in Int : z = P * v
  OBVIOUS
<1> QED BY <1>1, <1>2, <1>4, <1>5

\* The USDC an issue takes covers the value issued, but for the USDC that the unit loses; and
\* what a redemption pays is no more than the value redeemed.
LEMMA TransferCoversValue ==
    ASSUME PerpInv, perpSupply > 0, NEW q \in Nat, q > 0, NEW slippage \in Nat, swapsOK(q)
    PROVE  /\ PRECISE_UNIT * accountValueIssued(q, TRUE, slippage)
                <= PRECISE_UNIT * (USDC_FACTOR * issueTransfer(q, slippage)) + USDC_FACTOR * q
           /\ executePositionTrades(q, FALSE, slippage) > 0 =>
                PRECISE_UNIT * (USDC_FACTOR * redeemTransfer(q, slippage))
                  <= PRECISE_UNIT * accountValueIssued(q, FALSE, slippage)
<1> DEFINE v == accountValueIssued(q, TRUE, slippage)
           newUnit == executePositionTrades(q, TRUE, slippage)
           d == issueTransfer(q, slippage)
           w == accountValueIssued(q, FALSE, slippage)
           part == executePositionTrades(q, FALSE, slippage)
           e == redeemTransfer(q, slippage)
<1>1. PICK P \in Nat, U \in Nat : P = PRECISE_UNIT /\ P > 0 /\ U = USDC_FACTOR /\ U > 0
  BY PreciseUnitAssumption, PerpAssumption
<1>2. v \in Int /\ newUnit \in Nat /\ w \in Int /\ part \in Nat
  BY ExecuteType
<1>3. d = preciseMulCeil(q, newUnit) /\ e = preciseMul(q, part)
  BY DEF issueTransfer, redeemTransfer
<1>4. ~ (v <= 0) => newUnit = fromPreciseUnitToDecimals(preciseDivCeil(v, q))
  BY Zenon DEF executePositionTrades
<1>5. part # 0 => ~ (w <= 0) /\ part = fromPreciseUnitToDecimals(preciseDiv(w, q))
  BY Zenon DEF executePositionTrades
<1> HIDE DEF v, newUnit, d, w, part, e
<1>6. d \in Nat /\ e \in Nat
  BY <1>2, <1>3, AmountType
<1>7. P * v <= P * (U * d) + U * q
  <2>1. CASE v <= 0
    BY <1>2, <1>6, <2>1, NoTransfer
  <2>2. CASE v > 0
    <3>1. newUnit = fromPreciseUnitToDecimals(preciseDivCeil(v, q))
      BY <1>2, <1>4, <2>2
    <3>2. v * P <= q * (U * newUnit) + q * (U - 1)
      BY <1>1, <1>2, <2>2, <3>1, UnitOfValue
    <3>3. q * newUnit <= P * d
      BY <1>1, <1>2, <1>3, PreciseMulBounds
    <3> QED BY <1>1, <1>2, <1>6, <3>2, <3>3, UpperTransfer
  <2> QED BY <1>2, <2>1, <2>2
<1>8. ASSUME part > 0 PROVE P * (U * e) <= P * w
  <2>1. w > 0 /\ part = fromPreciseUnitToDecimals(preciseDiv(w, q))
    BY <1>2, <1>5, <1>8
  <2>2. q * (U * part) <= w * P
    BY <1>1, <1>2, <2>1, UnitOfValue
  <2>3. P * e <= q * part
    BY <1>1, <1>2, <1>3, PreciseMulBounds
  <2> QED BY <1>1, <1>2, <1>6, <2>2, <2>3, LowerTransfer
<1> QED BY <1>1, <1>7, <1>8 DEF v, newUnit, d, w, part, e

\* The rounding that the property allows, taken apart.
LEMMA RoundingParts ==
    ASSUME PerpInv, perpSupply > 0, NEW q \in Nat
    PROVE  perpRounding(q)
             = perpSupply * ((perUnitRounding(q) \div PRECISE_UNIT) + 1 + USDC_FACTOR * q)
                 + q * unlistedWorth
BY DEF perpRounding, perUnitRounding, unlistedWorth

\* What is sold for a redemption is what an issue of as many sets would buy.
LEMMA SoldIsBought ==
    ASSUME PerpInv, perpSupply > 0, NEW q \in Nat
    PROVE  SumFunctionOnSet(moved(shareTrades(q, FALSE)), syncPositionList) = - baseShare(q)
<1> DEFINE L == syncPositionList
           sold == moved(shareTrades(q, FALSE))
           bought == moved(shareTrades(q, TRUE))
<1>1. /\ L \in SUBSET Market /\ \A b \in Market : shareOf(b, q) \in Int
      /\ shareTrades(q, TRUE) \in [L -> Int] /\ shareTrades(q, FALSE) \in [L -> Int]
  BY SharesType
<1>2. IsFiniteSet(L) /\ L \in SUBSET L
  BY <1>1, PerpAssumption, FS_Subset
<1>3. DOMAIN shareTrades(q, TRUE) = L /\ DOMAIN shareTrades(q, FALSE) = L
  BY <1>1
<1>4. ASSUME NEW b \in L
      PROVE  sold[b] \in Int /\ bought[b] \in Int /\ sold[b] = - bought[b]
  <2>1. PICK h \in Int, s \in Int : h = shareOf(b, q) /\ s = spot[b]
    BY <1>1 DEF PerpInv
  <2>2. shareTrades(q, TRUE)[b] = h /\ shareTrades(q, FALSE)[b] = -h
    BY <2>1 DEF shareTrades
  <2>3. sold[b] = (-h) * s /\ bought[b] = h * s
    <3> HIDE DEF L
    <3> QED BY <1>3, <2>1, <2>2 DEF moved
  <2>4. PICK x \in Int, y \in Int : x = h * s /\ y = (-h) * s /\ y = -x
    OBVIOUS
  <2> HIDE DEF sold, bought
  <2> QED BY <2>3, <2>4
<1>5. sold \in [L -> Int] /\ bought \in [L -> Int]
  <2>1. sold = [b \in L |-> sold[b]] /\ bought = [b \in L |-> bought[b]]
    <3> HIDE DEF L
    <3> QED BY <1>3 DEF moved
  <2> HIDE DEF sold, bought, L
  <2> QED BY <1>4, <2>1
<1> HIDE DEF sold, bought, L
<1>6. PICK x \in Int, y \in Int : x = SumFunctionOnSet(sold, L) /\ y = SumFunctionOnSet(bought, L)
  BY <1>2, <1>5, SumIsInteger
<1>7. Combines(sold, -1, bought, 0, bought, 0, bought, L)
  <2>1. ASSUME NEW b \in L
        PROVE  sold[b] = (-1) * bought[b] + 0 * bought[b] + 0 * bought[b]
    BY <1>4
  <2> QED BY <2>1 DEF Combines
<1>8. -1 \in Int /\ 0 \in Int
  OBVIOUS
<1>9. x = (-1) * y + 0 * y + 0 * y
  BY <1>2, <1>5, <1>6, <1>7, <1>8, SumCombines
<1>10. x = - y
  BY <1>9
<1> QED BY <1>6, <1>10 DEF sold, bought, L, baseShare

\* After an issue: the account is worth its share more, but for rounding.
LEMMA IssueAddsShare ==
    ASSUME PerpInv, PerpInv', NEW q \in PerpQuantity, NEW slippage \in Slippage,
           PerpIssue(q, slippage)
    PROVE  /\ accountValue \in Int /\ accountValue' \in Int
           /\ accountValue + PRECISE_UNIT * collateralShare(q) + baseShare(q)
                <= accountValue' + USDC_FACTOR * q
<1> DEFINE L == syncPositionList
           trades == shareTrades(q, TRUE)
           d == issueTransfer(q, slippage)
<1>1. /\ q \in Nat /\ q > 0 /\ slippage \in Nat /\ perpSupply > 0 /\ perpSupply \in Nat
      /\ swapsOK(q)
  BY PerpAssumption DEF PerpIssue, PerpInv
<1>2. L \in SUBSET Market /\ trades \in [L -> Int]
  BY <1>1, SharesType
<1>3. d \in Int
  <2>1. executePositionTrades(q, TRUE, slippage) \in Nat
    BY <1>1, ExecuteType
  <2>2. PICK newUnit \in Nat : newUnit = executePositionTrades(q, TRUE, slippage)
    BY <2>1
  <2>3. d = preciseMulCeil(q, newUnit)
    BY <2>2 DEF issueTransfer
  <2> HIDE DEF d
  <2>4. d \in Nat
    BY <1>1, <2>3, AmountType
  <2> QED BY <2>4
<1>4. /\ base' = Swaps(trades, slippage).base /\ quote' = Swaps(trades, slippage).quote
      /\ spot' = spot /\ twPremium' = twPremium
      /\ owedRealizedPnl' = owedRealizedPnl + Swaps(trades, slippage).realized
      /\ lastTwPremium' = SettledPremium(L)
      /\ collateral' = collateral + d
  BY DEF PerpIssue
<1> HIDE DEF d, trades, L
<1>5. /\ Swaps(trades, slippage).realized \in Int
      /\ \A b \in Market \ L : base'[b] = base[b]
  <2>1. SwapsAddUp(L, trades, slippage)
    BY <1>1, <1>2, SwapsConserve, Zenon
  <2>2. /\ Swaps(trades, slippage).realized \in Int
        /\ \A b \in Market \ L : Swaps(trades, slippage).base[b] = base[b]
    BY <2>1 DEF SwapsAddUp
  <2> QED BY <1>4, <2>2
<1>6. /\ SumFunctionOnSet(fundings, L) \in Int
      /\ SumFunctionOnSet(fundings, Market) \in Int
      /\ SumFunctionOnSet(fundings', Market)
           = SumFunctionOnSet(fundings, Market) - SumFunctionOnSet(fundings, L)
  BY <1>2, <1>4, <1>5, FundingAfter
<1>7. collateral' * USDC_FACTOR + owedRealizedPnl' - SumFunctionOnSet(fundings', Market)
        = collateral * USDC_FACTOR + owedRealizedPnl + Swaps(trades, slippage).realized
            - (SumFunctionOnSet(fundings, Market) - SumFunctionOnSet(fundings, L))
            + USDC_FACTOR * d
  <2> DEFINE realized == Swaps(trades, slippage).realized
             f == SumFunctionOnSet(fundings, Market)
             fl == SumFunctionOnSet(fundings, L)
             g == SumFunctionOnSet(fundings', Market)
  <2>1. /\ realized \in Int /\ f \in Int /\ fl \in Int /\ g = f - fl /\ owedRealizedPnl \in Int
        /\ owedRealizedPnl' = owedRealizedPnl + realized /\ collateral' = collateral + d
    BY <1>4, <1>5, <1>6 DEF PerpInv
  <2>2. PICK c \in Int, U \in Int : c = collateral /\ U = USDC_FACTOR
    BY PerpAssumption DEF PerpInv
  <2>3. (c + d) * U = c * U + U * d
    BY <1>3
  <2>4. PICK x \in Int, y \in Int : x = c * U /\ y = U * d
    BY <1>3
  <2> HIDE DEF realized, f, fl, g
  <2>5. collateral' * U + owedRealizedPnl' - g = x + owedRealizedPnl + realized - (f - fl) + y
    BY <2>1, <2>2, <2>3, <2>4
  <2>6. collateral' * U + owedRealizedPnl' - g
          = collateral * U + owedRealizedPnl + realized - (f - fl) + U * d
    BY <2>2, <2>4, <2>5
  <2> QED BY Zenon, <2>2, <2>6 DEF realized, f, fl, g
<1>8. /\ SumFunctionOnSet(costs(trades, slippage), L) \in Int
      /\ SumFunctionOnSet(moved(trades), L) \in Int
      /\ accountValue \in Int /\ accountValue' \in Int
      /\ accountValue' = accountValue + PRECISE_UNIT * (USDC_FACTOR * d)
           - PRECISE_UNIT * SumFunctionOnSet(costs(trades, slippage), L)
           + SumFunctionOnSet(moved(trades), L)
  BY Zenon, <1>1, <1>2, <1>3, <1>4, <1>7, SwapsChangeAccount
<1>9. PICK P \in Int, U \in Int, A \in Int, B \in Int, k \in Int, t \in Int, c \in Int, v \in Int :
        /\ P = PRECISE_UNIT /\ U = USDC_FACTOR /\ A = accountValue /\ B = accountValue'
        /\ k = SumFunctionOnSet(costs(trades, slippage), L) /\ t = baseShare(q)
        /\ c = collateralShare(q) /\ v = accountValueIssued(q, TRUE, slippage) /\ v = c + k
        /\ B = A + P * (U * d) - P * k + t /\ P * v <= P * (U * d) + U * q
  <2>1. collateralShare(q) \in Int
    BY <1>1, AccountShare
  <2>2. accountValueIssued(q, TRUE, slippage)
          = collateralShare(q) + SumFunctionOnSet(costs(trades, slippage), L)
    BY <1>1, ValueIssued DEF trades, L
  <2>3. SumFunctionOnSet(moved(trades), L) = baseShare(q)
    BY DEF baseShare, trades, L
  <2>4. PRECISE_UNIT * accountValueIssued(q, TRUE, slippage)
          <= PRECISE_UNIT * (USDC_FACTOR * d) + USDC_FACTOR * q
    BY <1>1, TransferCoversValue DEF d
  <2>5. PRECISE_UNIT \in Int /\ USDC_FACTOR \in Int
    BY PreciseUnitAssumption, PerpAssumption
  <2>6. accountValueIssued(q, TRUE, slippage) \in Int /\ baseShare(q) \in Int
    BY <1>1, ExecuteType, AccountShare
  <2> QED BY Zenon, <1>8, <2>1, <2>2, <2>3, <2>4, <2>5, <2>6
<1>10. A + P * c + t <= B + U * q
  <2>1. v = c + k /\ B = A + P * (U * d) - P * k + t /\ P * v <= P * (U * d) + U * q
    BY Zenon, <1>9
  <2>2. P * (c + k) = P * c + P * k
    OBVIOUS
  <2>3. PICK pud \in Int, pk \in Int, pc \in Int, uq \in Int :
          pud = P * (U * d) /\ pk = P * k /\ pc = P * c /\ uq = U * q
    BY <1>1, <1>3
  <2> QED BY <2>1, <2>2, <2>3
<1> QED BY Zenon, <1>8, <1>9, <1>10

\* After a redemption: the account is worth its share less at most.
LEMMA RedeemTakesShare ==
    ASSUME PerpInv, PerpInv', NEW q \in PerpQuantity, NEW slippage \in Slippage,
           PerpRedeem(q, slippage), external'.unit > 0
    PROVE  /\ accountValue \in Int /\ accountValue' \in Int
           /\ accountValue <= accountValue' + PRECISE_UNIT * collateralShare(q) + baseShare(q)
<1> DEFINE L == syncPositionList
           trades == shareTrades(q, FALSE)
           d == redeemTransfer(q, slippage)
<1>1. /\ q \in Nat /\ q > 0 /\ slippage \in Nat /\ perpSupply > 0 /\ perpSupply \in Nat
      /\ swapsOK(q)
  BY PerpAssumption DEF PerpRedeem, PerpInv
<1>2. L \in SUBSET Market /\ trades \in [L -> Int]
  BY <1>1, SharesType
<1>3. d \in Int /\ -d \in Int
  <2>1. executePositionTrades(q, FALSE, slippage) \in Nat
    BY <1>1, ExecuteType
  <2>2. PICK newUnit \in Nat : newUnit = executePositionTrades(q, FALSE, slippage)
    BY <2>1
  <2>3. d = preciseMul(q, newUnit)
    BY <2>2 DEF redeemTransfer
  <2> HIDE DEF d
  <2>4. d \in Nat
    BY <1>1, <2>3, AmountType
  <2> QED BY <2>4
<1>4. /\ base' = Swaps(trades, slippage).base /\ quote' = Swaps(trades, slippage).quote
      /\ spot' = spot /\ twPremium' = twPremium
      /\ Withdrawn(d, owedRealizedPnl + Swaps(trades, slippage).realized, L)
  BY DEF PerpRedeem
<1> HIDE DEF d, trades, L
<1>5. /\ Swaps(trades, slippage).realized \in Int
      /\ \A b \in Market \ L : base'[b] = base[b]
  <2>1. SwapsAddUp(L, trades, slippage)
    BY <1>1, <1>2, SwapsConserve, Zenon
  <2>2. /\ Swaps(trades, slippage).realized \in Int
        /\ \A b \in Market \ L : Swaps(trades, slippage).base[b] = base[b]
    BY <2>1 DEF SwapsAddUp
  <2> QED BY <1>4, <2>2
<1>6. PICK owed \in Int : owed = owedRealizedPnl + Swaps(trades, slippage).realized
  <2> DEFINE realized == Swaps(trades, slippage).realized
  <2>1. owedRealizedPnl \in Int /\ realized \in Int
    BY <1>5 DEF PerpInv
  <2> HIDE DEF realized
  <2>2. PICK owed \in Int : owed = owedRealizedPnl + realized
    BY <2>1
  <2> QED BY <2>2 DEF realized
<1>7. collateral' * USDC_FACTOR + owedRealizedPnl' - SumFunctionOnSet(fundings', Market)
        = collateral * USDC_FACTOR + owed
            - (SumFunctionOnSet(fundings, Market) - SumFunctionOnSet(fundings, L))
            + USDC_FACTOR * (-d)
  <2>1. Withdrawn(d, owed, L)
    BY <1>4, <1>6
  <2> QED BY <1>2, <1>3, <1>4, <1>5, <2>1, WithdrawnSettles
<1>8. collateral' * USDC_FACTOR + owedRealizedPnl' - SumFunctionOnSet(fundings', Market)
        = collateral * USDC_FACTOR + owedRealizedPnl + Swaps(trades, slippage).realized
            - (SumFunctionOnSet(fundings, Market) - SumFunctionOnSet(fundings, L))
            + USDC_FACTOR * (-d)
  <2> DEFINE realized == Swaps(trades, slippage).realized
  <2>1. realized \in Int /\ owed = owedRealizedPnl + realized /\ owedRealizedPnl \in Int
    BY <1>5, <1>6 DEF PerpInv
  <2>2. PICK x \in Int : x = collateral * USDC_FACTOR
    BY PerpAssumption DEF PerpInv
  <2> HIDE DEF realized
  <2> DEFINE rest == SumFunctionOnSet(fundings, Market) - SumFunctionOnSet(fundings, L)
             paid == USDC_FACTOR * (-d)
             left == collateral' * USDC_FACTOR + owedRealizedPnl' - SumFunctionOnSet(fundings', Market)
  <2>3. rest \in Int /\ paid \in Int
    <3>1. fundings \in [Market -> Int]
      BY AccountParts DEF AccountAddsUp
    <3>2. IsFiniteSet(Market) /\ Market \in SUBSET Market
      BY PerpAssumption
    <3>3. SumFunctionOnSet(fundings, Market) \in Int /\ SumFunctionOnSet(fundings, L) \in Int
      BY <1>2, <3>1, <3>2, SumIsInteger
    <3> QED BY <1>3, <3>3, PerpAssumption
  <2>4. left = x + owed - rest + paid
    BY Zenon, <1>7, <2>2
  <2> HIDE DEF rest, paid, left
  <2>5. left = x + owedRealizedPnl + realized - rest + paid
    BY <2>1, <2>2, <2>3, <2>4
  <2> QED BY Zenon, <2>2, <2>5 DEF realized, rest, paid, left
<1>9. /\ SumFunctionOnSet(costs(trades, slippage), L) \in Int
      /\ SumFunctionOnSet(moved(trades), L) \in Int
      /\ accountValue \in Int /\ accountValue' \in Int
      /\ accountValue' = accountValue + PRECISE_UNIT * (USDC_FACTOR * (-d))
           - PRECISE_UNIT * SumFunctionOnSet(costs(trades, slippage), L)
           + SumFunctionOnSet(moved(trades), L)
  BY Zenon, <1>1, <1>2, <1>3, <1>4, <1>8, SwapsChangeAccount
<1>10. executePositionTrades(q, FALSE, slippage) > 0
  BY DEF PerpRedeem, PerpInv
<1>11. PICK P \in Int, U \in Int, A \in Int, B \in Int, k \in Int, t \in Int, c \in Int, v \in Int :
        /\ P = PRECISE_UNIT /\ U = USDC_FACTOR /\ A = accountValue /\ B = accountValue'
        /\ k = SumFunctionOnSet(costs(trades, slippage), L) /\ t = baseShare(q)
        /\ c = collateralShare(q) /\ v = accountValueIssued(q, FALSE, slippage) /\ v = c + (-k)
        /\ B = A + P * (U * (-d)) - P * k + (-t) /\ P * (U * d) <= P * v
  <2>1. collateralShare(q) \in Int /\ baseShare(q) \in Int
    BY <1>1, AccountShare
  <2>2. accountValueIssued(q, FALSE, slippage)
          = collateralShare(q) + (-SumFunctionOnSet(costs(trades, slippage), L))
    BY <1>1, ValueIssued DEF trades, L
  <2>3. SumFunctionOnSet(moved(trades), L) = -baseShare(q)
    BY <1>1, SoldIsBought DEF trades, L
  <2>4. PRECISE_UNIT * (USDC_FACTOR * d) <= PRECISE_UNIT * accountValueIssued(q, FALSE, slippage)
    BY <1>1, <1>10, TransferCoversValue DEF d
  <2>5. PRECISE_UNIT \in Int /\ USDC_FACTOR \in Int
    BY PreciseUnitAssumption, PerpAssumption
  <2>6. accountValueIssued(q, FALSE, slippage) \in Int
    BY <1>1, ExecuteType
  <2> QED BY Zenon, <1>9, <2>1, <2>2, <2>3, <2>4, <2>5, <2>6
<1>12. A <= B + P * c + t
  <2>1. v = c + (-k) /\ B = A + P * (U * (-d)) - P * k + (-t) /\ P * (U * d) <= P * v
    BY Zenon, <1>11
  <2>2. P * (c + (-k)) = P * c - P * k /\ P * (U * (-d)) = -(P * (U * d))
    BY <1>3
  <2>3. PICK pud \in Int, pk \in Int, pc \in Int : pud = P * (U * d) /\ pk = P * k /\ pc = P * c
    BY <1>3
  <2> QED BY <2>1, <2>2, <2>3
<1> QED BY Zenon, <1>9, <1>11, <1>12

\* Issuing q of S sets leaves each of the S what it was worth; redeeming q leaves it to the
\* other S - q.  In numbers: Z is the share that was added or taken, x the USDC the unit loses.
LEMMA WorthKeptByIssue ==
    ASSUME NEW S \in Int, S > 0, NEW q \in Int, NEW A \in Int, NEW B \in Int, NEW Z \in Int,
           NEW h \in Int, NEW x \in Int, NEW un \in Int,
           A + Z <= B + x, q * A <= S * Z + q * un + S * h
    PROVE  (S + q) * A <= S * B + (S * (h + x) + q * un)
<1>1. S * (A + Z) <= S * (B + x)
  BY KeepOrder
<1>2. /\ S * (A + Z) = S * A + S * Z /\ S * (B + x) = S * B + S * x
      /\ (S + q) * A = S * A + q * A /\ S * (h + x) = S * h + S * x
  OBVIOUS
<1>3. PICK sa \in Int, sz \in Int, sb \in Int, sx \in Int, qa \in Int, sh \in Int, qn \in Int :
        /\ sa = S * A /\ sz = S * Z /\ sb = S * B /\ sx = S * x /\ qa = q * A /\ sh = S * h
        /\ qn = q * un
  OBVIOUS
<1> QED BY <1>1, <1>2, <1>3

LEMMA WorthKeptByRedeem ==
    ASSUME NEW S \in Int, S > 0, NEW q \in Int, NEW A \in Int, NEW B \in Int, NEW Z \in Int,
           NEW h \in Int, NEW x \in Nat, NEW un \in Int,
           A <= B + Z, S * Z <= q * A + q * un + S * h
    PROVE  (S - q) * A <= S * B + (S * (h + x) + q * un)
<1>1. S * A <= S * (B + Z)
  BY KeepOrder
<1>2. /\ S * (B + Z) = S * B + S * Z
      /\ (S - q) * A = S * A - q * A /\ S * (h + x) = S * h + S * x
  OBVIOUS
<1>3. S * x >= S * 0
  BY KeepOrder
<1>4. PICK sa \in Int, sz \in Int, sb \in Int, sx \in Int, qa \in Int, sh \in Int, qn \in Int :
        /\ sa = S * A /\ sz = S * Z /\ sb = S * B /\ sx = S * x /\ qa = q * A /\ sh = S * h
        /\ qn = q * un
  OBVIOUS
<1>5. sx >= 0
  BY <1>3, <1>4
<1> QED BY <1>1, <1>2, <1>4, <1>5

\* The account's share of an amount of sets, with the share of the value that the property
\* speaks of.
LEMMA ShareOfValue ==
    ASSUME PerpInv, perpSupply > 0, NEW q \in Nat, q > 0
    PROVE  \E Z \in Int, h \in Int, un \in Nat :
             /\ Z = PRECISE_UNIT * collateralShare(q) + baseShare(q)
             /\ accountValue \in Int
             /\ perpRounding(q) = perpSupply * (h + USDC_FACTOR * q) + q * un
             /\ perpSupply * Z <= q * accountValue + q * un + perpSupply * h
             /\ q * accountValue <= perpSupply * Z + q * un + perpSupply * h
<1>1. PICK Y \in Int, O \in Int, Z \in Int :
        /\ accountValue = Y + O /\ O <= unlistedWorth /\ - O <= unlistedWorth
        /\ Z = PRECISE_UNIT * collateralShare(q) + baseShare(q)
        /\ PRECISE_UNIT * (perpSupply * Z)
             <= PRECISE_UNIT * (q * Y) + perpSupply * perUnitRounding(q)
        /\ PRECISE_UNIT * (q * Y)
             <= PRECISE_UNIT * (perpSupply * Z) + perpSupply * perUnitRounding(q)
  BY AccountShare
<1>2. PICK P \in Int, S \in Int, U \in Int, A \in Int, un \in Nat, R \in Nat :
        /\ P = PRECISE_UNIT /\ P > 0 /\ S = perpSupply /\ S > 0 /\ U = USDC_FACTOR
        /\ A = accountValue /\ un = unlistedWorth /\ R = perUnitRounding(q)
  <2>1. unlistedWorth \in Nat /\ perUnitRounding(q) \in Nat
    BY AccountShare
  <2>2. accountValue \in Int /\ perpSupply \in Int
    BY <1>1 DEF PerpInv
  <2> QED BY <2>1, <2>2, PreciseUnitAssumption, PerpAssumption
<1>3. /\ A = Y + O /\ O <= un /\ - O <= un
      /\ P * (S * Z) <= P * (q * Y) + S * R /\ P * (q * Y) <= P * (S * Z) + S * R
  BY <1>1, <1>2
<1>4. PICK k \in Int : k = R \div P
  BY <1>2
<1>5. S * Z <= q * A + q * un + S * (k + 1) /\ q * A <= S * Z + q * un + S * (k + 1)
  BY <1>2, <1>3, <1>4, ShareOfAccount
<1>6. PICK h \in Int : h = k + 1
  OBVIOUS
<1>7. perpRounding(q) = S * (h + U * q) + q * un
  BY Zenon, <1>2, <1>4, <1>6, RoundingParts
<1>8. S * Z <= q * A + q * un + S * h /\ q * A <= S * Z + q * un + S * h
  BY Zenon, <1>5, <1>6
<1> QED BY Zenon, <1>1, <1>2, <1>7, <1>8

\* What the property says of a step.
KeepsWorth ==
    perpSupply' # perpSupply /\ perpSupply > 0 /\ external.open
        /\ (perpSupply' < perpSupply => external'.unit > 0) =>
      perpSupply' * accountValue
        <= perpSupply * accountValue' + perpRounding(abs(perpSupply' - perpSupply))

LEMMA IssueKeepsWorth ==
    ASSUME PerpInv, PerpInv', NEW q \in PerpQuantity, NEW slippage \in Slippage,
           PerpIssue(q, slippage)
    PROVE  KeepsWorth
<1>1. q \in Nat /\ q > 0 /\ perpSupply > 0 /\ perpSupply \in Nat /\ perpSupply' = perpSupply + q
  BY PerpAssumption DEF PerpIssue, PerpInv
<1>2. PICK Z \in Int, h \in Int, un \in Nat :
        /\ Z = PRECISE_UNIT * collateralShare(q) + baseShare(q)
        /\ perpRounding(q) = perpSupply * (h + USDC_FACTOR * q) + q * un
        /\ q * accountValue <= perpSupply * Z + q * un + perpSupply * h
  BY <1>1, ShareOfValue
<1>3. PICK S \in Int, A \in Int, B \in Int, x \in Int :
        /\ S = perpSupply /\ A = accountValue /\ B = accountValue' /\ x = USDC_FACTOR * q
  BY <1>1, IssueAddsShare, PerpAssumption
<1>4. A + Z <= B + x
  <2>1. PICK m \in Int, t \in Int : m = PRECISE_UNIT * collateralShare(q) /\ t = baseShare(q)
    BY <1>1, AccountShare, PreciseUnitAssumption
  <2>2. A + m + t <= B + x
    BY Zenon, <1>3, <2>1, IssueAddsShare
  <2>3. Z = m + t
    BY Zenon, <1>2, <2>1
  <2> QED BY <2>2, <2>3
<1>5. q * A <= S * Z + q * un + S * h
  BY Zenon, <1>2, <1>3
<1>6. (S + q) * A <= S * B + (S * (h + x) + q * un)
  BY <1>1, <1>3, <1>4, <1>5, WorthKeptByIssue
<1>7. abs(perpSupply' - perpSupply) = q
  BY <1>1 DEF abs
<1>8. (perpSupply + q) * accountValue <= perpSupply * accountValue' + perpRounding(q)
  BY Zenon, <1>2, <1>3, <1>6
<1> QED BY Zenon, <1>1, <1>7, <1>8 DEF KeepsWorth

LEMMA RedeemKeepsWorth ==
    ASSUME PerpInv, PerpInv', NEW q \in PerpQuantity, NEW slippage \in Slippage,
           PerpRedeem(q, slippage)
    PROVE  KeepsWorth
<1>1. /\ q \in Nat /\ q > 0 /\ perpSupply > 0 /\ perpSupply \in Nat
      /\ perpSupply' = perpSupply - q /\ perpSupply' < perpSupply
  BY PerpAssumption DEF PerpRedeem, PerpInv
<1>2. SUFFICES ASSUME external'.unit > 0
               PROVE  perpSupply' * accountValue
                        <= perpSupply * accountValue' + perpRounding(abs(perpSupply' - perpSupply))
  BY <1>1 DEF KeepsWorth
<1>3. PICK Z \in Int, h \in Int, un \in Nat :
        /\ Z = PRECISE_UNIT * collateralShare(q) + baseShare(q)
        /\ perpRounding(q) = perpSupply * (h + USDC_FACTOR * q) + q * un
        /\ perpSupply * Z <= q * accountValue + q * un + perpSupply * h
  BY <1>1, ShareOfValue
<1>4. PICK S \in Int, A \in Int, B \in Int, x \in Nat :
        /\ S = perpSupply /\ A = accountValue /\ B = accountValue' /\ x = USDC_FACTOR * q
  <2>1. USDC_FACTOR * q \in Nat
    BY <1>1, PerpAssumption, ProductOfNat
  <2> QED BY <1>1, <1>2, <2>1, RedeemTakesShare
<1>5. A <= B + Z
  <2>1. PICK m \in Int, t \in Int : m = PRECISE_UNIT * collateralShare(q) /\ t = baseShare(q)
    BY <1>1, AccountShare, PreciseUnitAssumption
  <2>2. A <= B + m + t
    BY Zenon, <1>2, <1>4, <2>1, RedeemTakesShare
  <2>3. Z = m + t
    BY Zenon, <1>3, <2>1
  <2> QED BY <2>2, <2>3
<1>6. S * Z <= q * A + q * un + S * h
  <2>1. S * Z <= q * accountValue + q * un + S * h
    BY Zenon, <1>3, <1>4
  <2> QED BY Zenon, <1>4, <2>1
<1>7. (S - q) * A <= S * B + (S * (h + x) + q * un)
  <2>1. S > 0 /\ q \in Int /\ un \in Int
    BY <1>1, <1>4
  <2> QED BY Zenon, <1>5, <1>6, <2>1, WorthKeptByRedeem
<1>8. abs(perpSupply' - perpSupply) = q
  BY <1>1 DEF abs
<1>9. (perpSupply - q) * accountValue <= perpSupply * accountValue' + perpRounding(q)
  BY Zenon, <1>3, <1>4, <1>7
<1> QED BY Zenon, <1>1, <1>8, <1>9

\* "Slippage is borne by the issuer": issuing and redeeming on Perp leave the account worth
\* what it was for each of the other sets, up to rounding (PerpV2LeverageModuleV2's hooks).
THEOREM SlippageAlwaysBorneByIssuer == PerpSpec => SlippageBorneByIssuer
<1>1. PerpInv /\ PerpInv' /\ [PerpNext]_perpVars => KeepsWorth
  <2> SUFFICES ASSUME PerpInv, PerpInv', [PerpNext]_perpVars, ~ KeepsWorth PROVE FALSE
    OBVIOUS
  <2>1. /\ perpSupply' # perpSupply /\ perpSupply > 0 /\ external.open
    BY DEF KeepsWorth
  <2>2. ASSUME NEW q \in PerpQuantity, NEW s \in Slippage, PerpIssue(q, s) \/ PerpRedeem(q, s)
        PROVE  FALSE
    BY <2>2, IssueKeepsWorth, RedeemKeepsWorth
  <2>3. ASSUME NEW q \in PerpQuantity,
               PlainIssue(q) \/ PlainRedeem(q) \/ IssueAfterLastRedemption(q)
        PROVE  FALSE
    BY <2>1, <2>3 DEF PlainIssue, PlainRedeem, IssueAfterLastRedemption
  <2>4. CASE UNCHANGED perpSupply
    BY <2>1, <2>4
  <2>5. \/ \E q \in PerpQuantity, s \in Slippage : PerpIssue(q, s) \/ PerpRedeem(q, s)
        \/ \E q \in PerpQuantity : PlainIssue(q) \/ PlainRedeem(q) \/ IssueAfterLastRedemption(q)
        \/ UNCHANGED perpSupply
    <3>1. ASSUME NEW b \in Market, NEW u \in TradeUnits, NEW s \in Slippage, NEW f \in PerpFee,
                 PerpTrade(b, u, IF u > 0 THEN MaxPerpSupply * PRECISE_UNIT ELSE 0, s, f)
          PROVE  UNCHANGED perpSupply
      BY <3>1 DEF PerpTrade
    <3>2. ASSUME NEW b \in Market, NEW k \in LeverageRatio, NEW isLong \in BOOLEAN,
                 NEW s \in Slippage, LeverUp(b, k, isLong, s)
          PROVE  UNCHANGED perpSupply
      BY <3>2 DEF LeverUp, PerpTrade
    <3>3. ASSUME NEW u \in DepositUnits, PerpDeposit(u) \/ PerpWithdraw(u)
          PROVE  UNCHANGED perpSupply
      BY <3>3 DEF PerpDeposit, PerpWithdraw
    <3>4. ASSUME NEW b \in Market, NEW p \in SpotPrice, NEW x \in PremiumStep, MarketMoves(b, p, x)
          PROVE  UNCHANGED perpSupply
      BY <3>4 DEF MarketMoves
    <3>5. ASSUME NEW b \in Market, NEW s \in Slippage, Liquidate(b, s) PROVE UNCHANGED perpSupply
      BY <3>5 DEF Liquidate
    <3>6. CASE UNCHANGED perpVars
      BY <3>6 DEF perpVars
    <3> QED BY <3>1, <3>2, <3>3, <3>4, <3>5, <3>6 DEF PerpNext
  <2> QED BY <2>2, <2>3, <2>4, <2>5
<1>2. KeepsWorth => [perpSupply' # perpSupply /\ perpSupply > 0 /\ external.open
           /\ (perpSupply' < perpSupply => external'.unit > 0) =>
         perpSupply' * accountValue
           <= perpSupply * accountValue' + perpRounding(abs(perpSupply' - perpSupply))]_perpVars
  BY Zenon DEF KeepsWorth
<1>3. PerpSpec => []PerpInv
  BY PerpTypesAtFirst, PerpTypesKept, PTL DEF PerpSpec
<1> QED BY <1>1, <1>2, <1>3, PTL DEF PerpSpec, SlippageBorneByIssuer

-----------------------------------------------------------------------------
(* The test suite's helpers for Perp.                                       *)

LEMMA PerpDivIsQuotient ==
    ASSUME NEW a \in Int, NEW b \in Int
    PROVE  PerpUtils!bnDiv(a, b) = Quotient(a, b)
BY DEF PerpUtils!bnDiv, PerpUtils!bnAbs, Quotient, abs

LEMMA PerpMulAgrees ==
    ASSUME NEW a \in Int, NEW b \in Int
    PROVE  PerpUtils!preciseMul(a, b) = preciseMulInt(a, b) /\ preciseMulInt(a, b) \in Int
<1>1. PICK n \in Int, P \in Int : n = a * b /\ P = PRECISE_UNIT /\ P > 0
  BY PreciseUnitAssumption
<1>2. PerpUtils!bnDiv(n, P) = Quotient(n, P) /\ Quotient(n, P) \in Int
  BY <1>1, PerpDivIsQuotient, QuotientBounds
<1> QED BY <1>1, <1>2 DEF PerpUtils!preciseMul, preciseMulInt

LEMMA PerpDivAgrees ==
    ASSUME NEW a \in Int, NEW b \in Int, b > 0
    PROVE  PerpUtils!preciseDiv(a, b) = preciseDivInt(a, b) /\ preciseDivInt(a, b) \in Int
<1>1. PICK n \in Int : n = a * PRECISE_UNIT
  BY PreciseUnitAssumption
<1>2. PerpUtils!bnDiv(n, b) = Quotient(n, b) /\ Quotient(n, b) \in Int
  BY PerpDivIsQuotient, QuotientBounds
<1> QED BY <1>1, <1>2 DEF PerpUtils!preciseDiv, preciseDivInt

\* Funding: the helper divides the premium by the day before it multiplies, the module after.
LEMMA FundingClose ==
    ASSUME NEW P \in Int, P > 0, NEW D \in Int, D > 0, NEW a \in Nat, NEW w \in Nat,
           NEW g \in Int, NEW x \in Int, NEW f \in Int,
           f = w \div D, g = (a * f) \div P, x = (a * w) \div (D * P)
    PROVE  P * (x - g) <= a + P /\ P * (g - x) <= a + P
<1>1. D * f <= w /\ w < D * f + D
  BY DivBounds
<1>2. PICK af \in Int, aw \in Int, dp \in Int : af = a * f /\ aw = a * w /\ dp = D * P /\ dp > 0
  OBVIOUS
<1>3. P * g <= af /\ af < P * g + P
  BY <1>2, DivBounds
<1>4. dp * x <= aw /\ aw < dp * x + dp
  BY <1>2, DivBounds
<1>5. a * (D * f) <= a * w /\ a * w <= a * (D * f + D)
  BY <1>1, KeepOrder
<1>6. /\ a * (D * f) = D * af /\ a * (D * f + D) = D * af + D * a /\ dp * x = D * (P * x)
      /\ D * (P * g) <= D * af /\ D * af <= D * (P * g + P)
  <2>1. D * (P * g) <= D * af /\ D * af <= D * (P * g + P)
    BY <1>3, KeepOrder
  <2> QED BY <1>2, <2>1
<1>7. PICK pg \in Int, px \in Int, da \in Int, daf \in Int :
        pg = P * g /\ px = P * x /\ da = D * a /\ daf = D * af
  OBVIOUS
<1>8. D * px <= daf + da /\ daf <= D * px + dp /\ D * pg <= daf /\ daf <= D * (pg + P)
  BY <1>2, <1>4, <1>5, <1>6, <1>7
<1>9. D * px <= D * (pg + P + a)
  <2>1. D * (pg + P + a) = D * (pg + P) + D * a
    OBVIOUS
  <2>2. PICK u \in Int, v \in Int : u = D * px /\ v = D * (pg + P)
    OBVIOUS
  <2> QED BY <1>7, <1>8, <2>1, <2>2
<1>10. D * pg <= D * (px + P)
  <2>1. D * (px + P) = D * px + dp
    BY <1>2
  <2>2. PICK u \in Int, v \in Int : u = D * px /\ v = D * pg
    OBVIOUS
  <2> QED BY <1>8, <2>1, <2>2
<1>11. px <= pg + P + a /\ pg <= px + P
  BY <1>9, <1>10, CancelFactor
<1>12. P * (x - g) = px - pg /\ P * (g - x) = pg - px
  BY <1>7
<1> QED BY <1>11, <1>12

FundingTerms(P, D, a, w, f, g, x) ==
    /\ P \in Int /\ P > 0 /\ D \in Int /\ D > 0 /\ a \in Nat /\ w \in Nat
    /\ f \in Int /\ g \in Int /\ x \in Int
    /\ f = w \div D /\ g = (a * f) \div P /\ x = (a * w) \div (D * P)

LEMMA FundingTermsClose ==
    ASSUME NEW P, NEW D, NEW a, NEW w, NEW f, NEW g, NEW x, FundingTerms(P, D, a, w, f, g, x)
    PROVE  P * (x - g) <= a + P /\ P * (g - x) <= a + P
BY ZenonT(40), FundingClose DEF FundingTerms

\* Quotients of numbers of either sign, from those of their absolute values.
LEMMA QuotientOfSigns ==
    ASSUME NEW a \in Nat, NEW b \in Int, b > 0
    PROVE  Quotient(a, b) = a \div b /\ Quotient(-a, b) = -(a \div b)
<1>1. a \div b \in Int
  BY DivBounds
<1>2. a = 0 => a \div b = 0
  BY DivBounds
<1> QED BY <1>1, <1>2 DEF Quotient, abs

LEMMA FundingIsPredicted == PerpInv => FundingPredicted
<1> SUFFICES ASSUME PerpInv, NEW b \in Market,
                    lastTwPremium[b] = 0,
                    twPremium[b] = 0 \/ markBelowIndex[b] = (twPremium[b] < 0)
             PROVE  PRECISE_UNIT * abs(PerpUtils!getNetFundingGrowth(base[b], twPremium[b], markBelowIndex[b])
                                         + pendingFunding(b))
                      <= abs(base[b]) + PRECISE_UNIT
  BY DEF FundingPredicted
<1>1. PICK P \in Int, D \in Int, m \in Int, w \in Int :
        P = PRECISE_UNIT /\ P > 0 /\ D = ONE_DAY_IN_SECONDS /\ D > 0 /\ m = base[b] /\ w = twPremium[b]
  BY PreciseUnitAssumption, PerpAssumption DEF PerpInv
<1>2. PICK below \in BOOLEAN : below = markBelowIndex[b] /\ (w = 0 \/ below = (w < 0))
  BY <1>1 DEF PerpInv
<1> DEFINE f == abs(w) \div D
           g == (abs(m) * f) \div P
           x == (abs(m) * abs(w)) \div (D * P)
<1>3. abs(m) \in Nat /\ abs(w) \in Nat
  BY DEF abs
<1>4. PICK am \in Nat, aw \in Nat, dp \in Int :
        am = abs(m) /\ aw = abs(w) /\ dp = D * P /\ dp > 0
  BY <1>1, <1>3
<1>5. f \in Int /\ f >= 0 /\ g \in Int /\ g >= 0 /\ x \in Int /\ x >= 0
  <2>1. f \in Nat
    BY <1>1, <1>4
  <2> HIDE DEF f
  <2>2. am * f \in Nat /\ am * aw \in Nat
    BY <2>1, ProductOfNat
  <2>3. (am * f) \div P \in Nat
    <3>1. PICK n \in Nat : n = am * f
      BY <2>2
    <3> QED BY <1>1, <3>1
  <2>4. (am * aw) \div dp \in Nat
    <3>1. PICK n \in Nat : n = am * aw
      BY <2>2
    <3>2. PICK d \in Int : d = dp /\ d > 0
      BY <1>4
    <3>3. n \div d \in Nat
      BY <3>2
    <3> QED BY <3>1, <3>2, <3>3
  <2> QED BY <1>4, <2>1, <2>3, <2>4
<1>6. P * (x - g) <= am + P /\ P * (g - x) <= am + P
  <2>1. f = aw \div D /\ g = (am * f) \div P /\ x = (am * aw) \div (D * P)
    BY <1>4
  <2> HIDE DEF f, g, x
  <2>2. FundingTerms(P, D, am, aw, f, g, x)
    BY Zenon, <1>1, <1>4, <1>5, <2>1 DEF FundingTerms
  <2> QED BY Zenon, <2>2, FundingTermsClose
<1> HIDE DEF f, g, x
<1>7. PerpUtils!bnDiv(w, D) = IF w >= 0 THEN f ELSE -f
  <2>1. w >= 0 => Quotient(w, D) = f
    BY <1>1, <1>4, QuotientOfSigns DEF f, abs
  <2>2. w < 0 => Quotient(w, D) = -f
    <3>1. w < 0 => w = -aw
      BY <1>4 DEF abs
    <3>2. Quotient(-aw, D) = -(aw \div D)
      BY <1>1, <1>4, QuotientOfSigns
    <3>3. f = aw \div D
      BY <1>4 DEF f
    <3> QED BY <3>1, <3>2, <3>3
  <2> QED BY <1>1, <2>1, <2>2, PerpDivIsQuotient
<1>8. PICK k \in Int : k = PerpUtils!bnDiv(w, D) /\ (k = f \/ k = -f)
  BY <1>5, <1>7
<1>9. PerpUtils!bnAbs(PerpUtils!preciseMul(m, k)) = g
  <2>1. PICK n \in Nat : n = am * f
    BY <1>4, <1>5, ProductOfNat
  <2>2. m * k = n \/ m * k = -n
    <3>1. m = am \/ m = -am
      BY <1>4 DEF abs
    <3>2. (-am) * f = -(am * f) /\ am * (-f) = -(am * f) /\ (-am) * (-f) = am * f
      BY <1>5
    <3> QED BY <1>8, <2>1, <3>1, <3>2
  <2>3. Quotient(n, P) = g /\ Quotient(-n, P) = -g
    BY <1>1, <1>4, <2>1, QuotientOfSigns DEF g
  <2>4. preciseMulInt(m, k) = g \/ preciseMulInt(m, k) = -g
    BY <1>1, <2>2, <2>3 DEF preciseMulInt
  <2>5. PerpUtils!preciseMul(m, k) = g \/ PerpUtils!preciseMul(m, k) = -g
    BY <2>4, PerpMulAgrees
  <2> QED BY <1>5, <2>5 DEF PerpUtils!bnAbs
<1>10. PICK e \in Int : /\ e = PerpUtils!getNetFundingGrowth(m, w, below)
                        /\ (m > 0) = below => e = g
                        /\ (m > 0) # below => e = -g
  <2>1. PerpUtils!getNetFundingGrowth(m, w, below) = IF (m > 0) = below THEN g ELSE -g
    BY <1>1, <1>8, <1>9 DEF PerpUtils!getNetFundingGrowth
  <2> QED BY <1>5, <2>1
<1>11. PICK y \in Int : y = pendingFunding(b) /\ y = Quotient(m * w, dp)
  <2>1. w - lastTwPremium[b] = w
    BY <1>1
  <2>2. pendingFunding(b) = Quotient(m * w, dp)
    BY <1>1, <1>4, <2>1 DEF pendingFunding
  <2> QED BY <2>2, FundingType
<1>12. /\ (m >= 0 /\ w >= 0) \/ (m < 0 /\ w < 0) => y = x
       /\ (m >= 0 /\ w < 0) \/ (m < 0 /\ w >= 0) => y = -x
  <2>1. PICK n \in Nat : n = am * aw
    BY ProductOfNat
  <2>2. Quotient(n, dp) = x /\ Quotient(-n, dp) = -x
    BY <1>4, <2>1, QuotientOfSigns DEF x
  <2>3. /\ m >= 0 => m = am
        /\ m < 0 => m = -am
        /\ w >= 0 => w = aw
        /\ w < 0 => w = -aw
    BY <1>4 DEF abs
  <2>4. (-am) * aw = -(am * aw) /\ am * (-aw) = -(am * aw) /\ (-am) * (-aw) = am * aw
    OBVIOUS
  <2> QED BY <1>11, <2>1, <2>2, <2>3, <2>4
<1>13. w = 0 => f = 0 /\ x = 0
  <2>1. ASSUME w = 0 PROVE f = 0 /\ x = 0
    <3>1. aw = 0
      BY <1>4, <2>1 DEF abs
    <3>2. am * aw = 0
      BY <3>1
    <3>3. 0 \div D = 0 /\ 0 \div dp = 0
      BY <1>1, <1>4
    <3> QED BY <1>4, <3>1, <3>2, <3>3 DEF f, x
  <2> QED BY <2>1
<1>14. w = 0 => g = 0
  <2>1. ASSUME w = 0 PROVE g = 0
    <3>1. am * f = 0
      BY <1>13, <2>1
    <3> QED BY <1>1, <1>4, <3>1 DEF g
  <2> QED BY <2>1
<1>15. m = 0 => g = 0 /\ x = 0
  <2>1. ASSUME m = 0 PROVE g = 0 /\ x = 0
    <3>1. am = 0
      BY <1>4, <2>1 DEF abs
    <3>2. am * f = 0 /\ am * aw = 0
      BY <1>5, <3>1
    <3>3. 0 \div P = 0 /\ 0 \div dp = 0
      BY <1>1, <1>4
    <3> QED BY <1>4, <3>2, <3>3 DEF g, x
  <2> QED BY <2>1
<1>16. e + y = x - g \/ e + y = g - x
  <2>1. CASE w = 0
    BY <1>5, <1>10, <1>12, <1>13, <1>14, <2>1
  <2>2. CASE m = 0
    BY <1>5, <1>10, <1>12, <1>15, <2>2
  <2>3. CASE w # 0 /\ m # 0
    BY <1>2, <1>5, <1>10, <1>12, <2>3
  <2> QED BY <2>1, <2>2, <2>3
<1>17. P * abs(e + y) <= am + P
  <2>1. abs(e + y) = x - g \/ abs(e + y) = g - x
    BY <1>5, <1>16 DEF abs
  <2> QED BY <1>6, <2>1
<1> QED BY Zenon, <1>1, <1>2, <1>4, <1>10, <1>11, <1>17

\* leverUp, in numbers: n is the notional, p the price, B the base it buys, u that per set, a
\* the whole of it as the module trades it, est the quote it is estimated at; s and t are a
\* unit of the supply and of the price.
LeverTrade(P, S, n, p, B, u, a, est, s, t) ==
    /\ P > 0 /\ S > 0 /\ p > 0 /\ s = S \div P /\ t = p \div P
    /\ B = (n * P) \div p /\ u = (B * P) \div S /\ a = (u * S) \div P /\ est = (B * p) \div P

LeverBounds(P, n, p, B, u, a, est, s, t) ==
    /\ B >= 0 /\ u >= 0 /\ a >= 0 /\ est >= 0 /\ s >= 0 /\ t >= 0
    /\ a <= B /\ a * p <= n * P
    /\ B - (s + 1) <= a /\ n - (t + 1) <= est

LEMMA LeverUpBase ==
    ASSUME NEW P \in Int, NEW S \in Int, NEW n \in Nat, NEW p \in Int,
           NEW B \in Int, NEW u \in Int, NEW a \in Int, NEW est \in Int,
           NEW s \in Int, NEW t \in Int, LeverTrade(P, S, n, p, B, u, a, est, s, t)
    PROVE  LeverBounds(P, n, p, B, u, a, est, s, t)
<1>0. /\ P > 0 /\ S > 0 /\ p > 0 /\ s = S \div P /\ t = p \div P
      /\ B = (n * P) \div p /\ u = (B * P) \div S /\ a = (u * S) \div P /\ est = (B * p) \div P
  BY DEF LeverTrade
<1>1. PICK np \in Int, bp \in Int, us \in Int, bq \in Int :
        np = n * P /\ bp = B * P /\ us = u * S /\ bq = B * p
  OBVIOUS
<1>2. p * B <= np /\ np < p * B + p
  BY <1>0, <1>1, DivBounds
<1>3. S * u <= bp /\ bp < S * u + S
  BY <1>0, <1>1, DivBounds
<1>4. P * a <= us /\ us < P * a + P
  BY <1>0, <1>1, DivBounds
<1>5. P * est <= bq /\ bq < P * est + P
  BY <1>0, <1>1, DivBounds
<1>6. /\ s >= 0 /\ P * s <= S /\ S < P * s + P
      /\ t >= 0 /\ P * t <= p /\ p < P * t + P
  <2>1. P * s <= S /\ S < P * s + P /\ P * t <= p /\ p < P * t + P
    BY <1>0, DivBounds
  <2>2. s >= 0 /\ t >= 0
    BY <1>0
  <2> QED BY <2>1, <2>2
<1>7. S * u = us /\ p * B = bq
  BY <1>1
<1>8. B >= 0 /\ bp >= 0 /\ bq >= 0
  <2>1. n \in Nat /\ P \in Nat /\ np \in Nat
    BY <1>0, <1>1, ProductOfNat
  <2>2. B \in Nat
    BY <1>0, <1>1, <2>1
  <2>3. p \in Nat
    BY <1>0
  <2> QED BY <1>1, <2>1, <2>2, <2>3, ProductOfNat
<1>9. u >= 0 /\ us >= 0 /\ a >= 0 /\ est >= 0
  <2>1. u >= 0 /\ est >= 0
    BY <1>0, <1>1, <1>8
  <2>2. us \in Nat
    <3>1. u \in Nat /\ S \in Nat
      BY <1>0, <2>1
    <3> QED BY <1>1, <3>1, ProductOfNat
  <2> QED BY <1>0, <1>1, <2>1, <2>2
<1>10. a <= B
  <2>1. P * a <= P * B
    BY <1>1, <1>3, <1>4, <1>7
  <2> QED BY <1>0, <2>1, CancelFactor
<1>11. a * p <= np
  <2>1. p * a <= p * B
    BY <1>0, <1>10, KeepOrder
  <2>2. p * a = a * p
    OBVIOUS
  <2> QED BY <1>2, <2>1, <2>2
<1>12. B - (s + 1) <= a
  <2>1. P * (B - (s + 1)) = P * B - (P * s + P) /\ P * (a + 1) = P * a + P
    OBVIOUS
  <2>2. P * (B - (s + 1)) < P * (a + 1)
    <3>1. PICK x \in Int, y \in Int : x = P * s /\ y = P * a
      OBVIOUS
    <3> QED BY <1>1, <1>3, <1>4, <1>6, <1>7, <2>1, <3>1
  <2>3. ~ (a + 1 <= B - (s + 1))
    <3>1. SUFFICES ASSUME a + 1 <= B - (s + 1) PROVE FALSE
      OBVIOUS
    <3>2. P * (a + 1) <= P * (B - (s + 1))
      BY <1>0, <3>1, KeepOrder
    <3> QED BY <2>2, <3>2
  <2> QED BY <2>3
<1>13. n - (t + 1) <= est
  <2>1. P * (n - (t + 1)) = P * n - (P * t + P) /\ P * (est + 1) = P * est + P /\ P * n = np
    BY <1>1
  <2>2. P * (n - (t + 1)) < P * (est + 1)
    <3>1. PICK x \in Int, y \in Int : x = P * t /\ y = P * est
      OBVIOUS
    <3> QED BY <1>2, <1>5, <1>6, <1>7, <2>1, <3>1
  <2>3. ~ (est + 1 <= n - (t + 1))
    <3>1. SUFFICES ASSUME est + 1 <= n - (t + 1) PROVE FALSE
      OBVIOUS
    <3>2. P * (est + 1) <= P * (n - (t + 1))
      BY <1>0, <3>1, KeepOrder
    <3> QED BY <2>2, <3>2
  <2> QED BY <2>3
<1> QED BY <1>1, <1>6, <1>8, <1>9, <1>10, <1>11, <1>12, <1>13 DEF LeverBounds

\* What the slippage allows is at least what it would of the notional, less the rounding of
\* the estimate.
LEMMA SlippageAllowed ==
    ASSUME NEW P \in Int, P > 0, NEW n \in Nat, NEW est \in Int, NEW t \in Int, t >= 0,
           NEW L \in Int, 0 <= L, L <= P, n - (t + 1) <= est, est >= 0
    PROVE  /\ (n * L) \div P - (t + 1) <= (est * L) \div P
           /\ 0 <= (est * L) \div P /\ (est * L) \div P <= est
<1>1. PICK nl \in Int, el \in Int : nl = n * L /\ el = est * L /\ el >= 0
  <2>1. est \in Nat /\ L \in Nat
    OBVIOUS
  <2>2. est * L \in Nat
    BY <2>1, ProductOfNat
  <2> QED BY <2>2
<1>2. PICK x \in Int, y \in Int :
        x = nl \div P /\ P * x <= nl /\ y = el \div P /\ P * y <= el /\ el < P * y + P
  BY DivBounds
<1>3. L * (n - (t + 1)) <= L * est
  BY KeepOrder
<1>4. (t + 1) * L <= (t + 1) * P
  BY KeepOrder
<1>5. L * (n - (t + 1)) = nl - (t + 1) * L /\ L * est = el
  BY <1>1
<1>6. PICK c \in Int, d \in Int : c = (t + 1) * L /\ d = (t + 1) * P
  OBVIOUS
<1>7. nl - d <= el
  BY <1>3, <1>4, <1>5, <1>6
<1>8. x - (t + 1) <= y
  <2>1. P * (x - (t + 1)) = P * x - d /\ P * (y + 1) = P * y + P
    BY <1>6
  <2>2. P * (x - (t + 1)) < P * (y + 1)
    <3>1. PICK u \in Int, v \in Int : u = P * x /\ v = P * y
      OBVIOUS
    <3> QED BY <1>2, <1>7, <2>1, <3>1
  <2>3. ~ (y + 1 <= x - (t + 1))
    <3>1. SUFFICES ASSUME y + 1 <= x - (t + 1) PROVE FALSE
      OBVIOUS
    <3>2. P * (y + 1) <= P * (x - (t + 1))
      BY <3>1, KeepOrder
    <3> QED BY <2>2, <3>2
  <2> QED BY <2>3
<1>9. y >= 0
  BY <1>1, <1>2
<1>10. y <= est
  <2>1. est * L <= est * P
    BY KeepOrder
  <2>2. est * P = P * est
    OBVIOUS
  <2>3. P * y <= P * est
    BY <1>1, <1>2, <2>1, <2>2
  <2> QED BY <2>3, CancelFactor
<1> QED BY <1>1, <1>2, <1>8, <1>9, <1>10

\* A bound z, by way of its amount per set: at most one for each whole set and one below.
LEMMA BoundPerSet ==
    ASSUME NEW P \in Int, P > 0, NEW S \in Int, S > 0, NEW z \in Nat
    PROVE  LET bound == (((z * P) \div S) * S) \div P
           IN  bound \in Int /\ bound <= z /\ z - ((S \div P) + 1) <= bound
<1>1. PICK zp \in Int : zp = z * P
  OBVIOUS
<1>2. PICK u \in Int : u = zp \div S /\ S * u <= zp /\ zp < S * u + S
  BY DivBounds
<1>3. PICK us \in Int : us = u * S
  OBVIOUS
<1>4. PICK x \in Int : x = us \div P /\ P * x <= us /\ us < P * x + P
  BY DivBounds
<1>5. PICK s \in Int : s = S \div P /\ S < P * s + P
  BY DivBounds
<1>6. x <= z
  <2>1. P * x <= P * z
    BY <1>1, <1>2, <1>3, <1>4
  <2> QED BY <2>1, CancelFactor
<1>7. z - (s + 1) <= x
  <2>1. P * (z - (s + 1)) = P * z - (P * s + P) /\ P * (x + 1) = P * x + P /\ P * z = zp /\ S * u = us
    BY <1>1, <1>3
  <2>2. P * (z - (s + 1)) < P * (x + 1)
    <3>1. PICK a \in Int, b \in Int : a = P * s /\ b = P * x
      OBVIOUS
    <3> QED BY <1>2, <1>4, <1>5, <2>1, <3>1
  <2>3. ~ (x + 1 <= z - (s + 1))
    <3>1. SUFFICES ASSUME x + 1 <= z - (s + 1) PROVE FALSE
      OBVIOUS
    <3>2. P * (x + 1) <= P * (z - (s + 1))
      BY <3>1, KeepOrder
    <3> QED BY <2>2, <3>2
  <2> QED BY <2>3
<1> QED BY <1>1, <1>2, <1>3, <1>4, <1>5, <1>6, <1>7

\* What a swap of base a costs at the spot price is no more than the estimate and one, and
\* brings no less than it does but for what is lost of the base.
LEMMA QuoteNearEstimate ==
    ASSUME NEW P \in Int, P > 0, NEW p \in Int, p > 0, NEW B \in Int, NEW a \in Int,
           NEW k \in Int, k >= 0, NEW est \in Int, est = (B * p) \div P, a <= B, B - k <= a
    PROVE  /\ ((a * p - 1) \div P) + 1 <= est + 1
           /\ est - k * ((p \div P) + 1) <= (a * p) \div P
<1>1. PICK bq \in Int, aq \in Int : bq = B * p /\ aq = a * p
  OBVIOUS
<1>2. P * est <= bq /\ bq < P * est + P
  BY <1>1, DivBounds
<1>3. aq <= bq
  <2>1. p * a <= p * B
    BY KeepOrder
  <2> QED BY <1>1, <2>1
<1>4. ((aq - 1) \div P) <= est
  <2>1. PICK y \in Int : y = (aq - 1) \div P /\ P * y <= aq - 1
    BY DivBounds
  <2>2. P * (est + 1) = P * est + P
    OBVIOUS
  <2>3. ~ (est + 1 <= y)
    <3>1. SUFFICES ASSUME est + 1 <= y PROVE FALSE
      OBVIOUS
    <3>2. P * (est + 1) <= P * y
      BY <3>1, KeepOrder
    <3>3. PICK u \in Int, v \in Int : u = P * est /\ v = P * y
      OBVIOUS
    <3> QED BY <1>2, <1>3, <2>1, <2>2, <3>2, <3>3
  <2> QED BY <2>1, <2>3
<1>5. PICK t \in Int : t = p \div P /\ p < P * t + P
  BY DivBounds
<1>6. est - k * (t + 1) <= aq \div P
  <2>1. PICK y \in Int : y = aq \div P /\ aq < P * y + P
    BY DivBounds
  <2>2. p * (B - k) <= p * a
    BY KeepOrder
  <2>3. P * (t + 1) = P * t + P
    OBVIOUS
  <2>4. k * p <= k * (P * (t + 1))
    BY <1>5, <2>3, KeepOrder
  <2>5. PICK kt \in Int : kt = k * (t + 1)
    OBVIOUS
  <2>6. k * (P * (t + 1)) = P * kt /\ p * (B - k) = bq - k * p /\ p * a = aq
        /\ P * (est - kt) = P * est - P * kt /\ P * (y + 1) = P * y + P
    BY <1>1, <2>5
  <2>7. P * (est - kt) < P * (y + 1)
    <3>1. PICK x1 \in Int, x2 \in Int, x3 \in Int, x4 \in Int :
            x1 = k * p /\ x2 = P * kt /\ x3 = P * est /\ x4 = P * y
      OBVIOUS
    <3> QED BY <1>2, <2>1, <2>2, <2>4, <2>6, <3>1
  <2>8. ~ (y + 1 <= est - kt)
    <3>1. SUFFICES ASSUME y + 1 <= est - kt PROVE FALSE
      OBVIOUS
    <3>2. P * (y + 1) <= P * (est - kt)
      BY <3>1, KeepOrder
    <3> QED BY <2>7, <3>2
  <2> QED BY <2>1, <2>5, <2>8
<1> QED BY <1>1, <1>4, <1>5, <1>6

LEMMA PerpMulOfNat ==
    ASSUME NEW a \in Nat, NEW b \in Nat
    PROVE  PerpUtils!preciseMul(a, b) = (a * b) \div PRECISE_UNIT
<1>1. PICK P \in Nat, n \in Nat : P = PRECISE_UNIT /\ P > 0 /\ n = a * b
  BY PreciseUnitAssumption, ProductOfNat
<1>2. preciseMulInt(a, b) = Quotient(n, P)
  BY <1>1 DEF preciseMulInt
<1>3. Quotient(n, P) = n \div P
  BY <1>1, QuotientOfSigns
<1> QED BY <1>1, <1>2, <1>3, PerpMulAgrees

LEMMA PerpDivOfNat ==
    ASSUME NEW a \in Nat, NEW b \in Nat, b > 0
    PROVE  PerpUtils!preciseDiv(a, b) = (a * PRECISE_UNIT) \div b
<1>1. PICK P \in Nat, m \in Nat : P = PRECISE_UNIT /\ P > 0 /\ m = a * P
  BY PreciseUnitAssumption, ProductOfNat
<1>2. preciseDivInt(a, b) = Quotient(m, b)
  BY <1>1 DEF preciseDivInt
<1>3. Quotient(m, b) = m \div b
  BY <1>1, QuotientOfSigns
<1> QED BY <1>1, <1>2, <1>3, PerpDivAgrees

\* What leverUp asks for.
LeverAsk(held, S, p, ratio, isLong, P, u, est, slip) ==
    LET ask == PerpUtils!leverUp(held, S, p, ratio, isLong)
    IN  /\ ask.baseUnit = IF isLong THEN u ELSE -u
        /\ isLong => ask.quoteUnit = ((est + slip) * P) \div S
        /\ ~ isLong => ask.quoteUnit = ((est - slip) * P) \div S

LeverSlippage(P, L, est, slip) ==
    P = PRECISE_UNIT /\ L = LEVER_UP_SLIPPAGE /\ 0 <= L /\ L <= P /\ slip = (est * L) \div P

LeverNotional(held, ratio, n) == held * ratio = n

LeverUpAskedFor(P, S, n, p, B, u, a, est, s, t, L, slip, held, ratio) ==
    /\ P \in Int /\ S \in Int /\ n \in Nat /\ p \in Int /\ B \in Int /\ u \in Int /\ a \in Int
    /\ est \in Int /\ s \in Int /\ t \in Int /\ L \in Int /\ slip \in Int
    /\ held \in Int /\ ratio \in Int
    /\ LeverTrade(P, S, n, p, B, u, a, est, s, t) /\ LeverSlippage(P, L, est, slip)
    /\ LeverNotional(held, ratio, n)

LEMMA LeverUpAsks ==
    ASSUME NEW P, NEW S, NEW n, NEW p, NEW B, NEW u, NEW a, NEW est, NEW s, NEW t,
           NEW L, NEW slip, NEW held, NEW ratio,
           LeverUpAskedFor(P, S, n, p, B, u, a, est, s, t, L, slip, held, ratio)
    PROVE  \A isLong \in BOOLEAN : LeverAsk(held, S, p, ratio, isLong, P, u, est, slip)
<1> TAKE isLong \in BOOLEAN
<1>0. /\ P \in Int /\ S \in Int /\ n \in Nat /\ p \in Int /\ B \in Int /\ u \in Int /\ a \in Int
      /\ est \in Int /\ s \in Int /\ t \in Int /\ L \in Int /\ slip \in Int
      /\ held \in Int /\ ratio \in Int
      /\ LeverTrade(P, S, n, p, B, u, a, est, s, t) /\ LeverSlippage(P, L, est, slip)
      /\ LeverNotional(held, ratio, n)
  BY DEF LeverUpAskedFor
<1>1. LeverBounds(P, n, p, B, u, a, est, s, t)
  BY Zenon, <1>0, LeverUpBase
<1>2. B >= 0 /\ est >= 0 /\ t >= 0 /\ n - (t + 1) <= est
  BY <1>0, <1>1 DEF LeverBounds
<1>3. /\ P > 0 /\ S > 0 /\ p > 0 /\ B = (n * P) \div p /\ u = (B * P) \div S /\ est = (B * p) \div P
  BY <1>0 DEF LeverTrade
<1>4. P = PRECISE_UNIT /\ L = LEVER_UP_SLIPPAGE /\ 0 <= L /\ L <= P /\ slip = (est * L) \div P
  BY <1>0 DEF LeverSlippage
<1>5. 0 <= slip /\ slip <= est
  BY <1>0, <1>2, <1>3, <1>4, SlippageAllowed
<1>6. PICK x \in Nat, y \in Nat : x = est + slip /\ y = est - slip
  BY <1>0, <1>2, <1>5
<1>7. n \in Nat /\ S \in Nat /\ p \in Nat /\ L \in Nat /\ B \in Nat /\ est \in Nat
  BY <1>0, <1>2, <1>3, <1>4
<1>8. /\ PerpUtils!preciseDiv(n, p) = (n * P) \div p
      /\ PerpUtils!preciseDiv(B, S) = (B * P) \div S
      /\ PerpUtils!preciseDiv(x, S) = (x * P) \div S
      /\ PerpUtils!preciseDiv(y, S) = (y * P) \div S
      /\ PerpUtils!preciseMul(B, p) = (B * p) \div P
      /\ PerpUtils!preciseMul(est, L) = (est * L) \div P
  <2>1. PerpUtils!preciseDiv(n, p) = (n * P) \div p
    BY Zenon, <1>0, <1>3, <1>4, <1>7, PerpDivOfNat
  <2>2. PerpUtils!preciseDiv(B, S) = (B * P) \div S
    BY Zenon, <1>0, <1>3, <1>4, <1>7, PerpDivOfNat
  <2>3. PerpUtils!preciseDiv(x, S) = (x * P) \div S
    BY Zenon, <1>0, <1>3, <1>4, <1>7, PerpDivOfNat
  <2>4. PerpUtils!preciseDiv(y, S) = (y * P) \div S
    BY Zenon, <1>0, <1>3, <1>4, <1>7, PerpDivOfNat
  <2>5. PerpUtils!preciseMul(B, p) = (B * p) \div P
    BY Zenon, <1>0, <1>4, <1>7, PerpMulOfNat
  <2>6. PerpUtils!preciseMul(est, L) = (est * L) \div P
    BY Zenon, <1>0, <1>4, <1>7, PerpMulOfNat
  <2> QED BY Zenon, <1>0, <2>1, <2>2, <2>3, <2>4, <2>5, <2>6
<1>9. PerpUtils!bnAbs(est) = est
  BY <1>0, <1>2 DEF PerpUtils!bnAbs
<1>10. PerpUtils!leverUp(held, S, p, ratio, isLong)
         = [baseUnit |-> IF isLong THEN u ELSE -u,
            quoteUnit |-> PerpUtils!preciseDiv(IF isLong THEN x ELSE y, S)]
  <2>1. /\ PerpUtils!preciseDiv(n, p) = B /\ PerpUtils!preciseDiv(B, S) = u
        /\ PerpUtils!preciseMul(B, p) = est /\ PerpUtils!preciseMul(est, L) = slip
    BY Zenon, <1>0, <1>3, <1>4, <1>8
  <2>2. held * ratio = n
    BY <1>0 DEF LeverNotional
  <2> QED BY Zenon, <1>0, <1>4, <1>6, <1>9, <2>1, <2>2 DEF PerpUtils!leverUp
<1> DEFINE ask == PerpUtils!leverUp(held, S, p, ratio, isLong)
<1>11. /\ ask.baseUnit = IF isLong THEN u ELSE -u
       /\ ask.quoteUnit = PerpUtils!preciseDiv(IF isLong THEN x ELSE y, S)
  <2>1. PICK v, w : /\ v = (IF isLong THEN u ELSE -u)
                    /\ w = PerpUtils!preciseDiv(IF isLong THEN x ELSE y, S)
    BY <1>0
  <2>2. ask = [baseUnit |-> v, quoteUnit |-> w]
    BY Zenon, <1>0, <1>10, <2>1
  <2> HIDE DEF ask
  <2>3. ask.baseUnit = v /\ ask.quoteUnit = w
    BY <1>0, <2>2
  <2> QED BY Zenon, <1>0, <2>1, <2>3
<1> HIDE DEF ask
<1>12. CASE isLong
  <2>1. ask.quoteUnit = (x * P) \div S /\ (x * P) \div S = ((est + slip) * P) \div S
    BY Zenon, <1>0, <1>6, <1>8, <1>11, <1>12
  <2>2. ask.quoteUnit = ((est + slip) * P) \div S
    BY Zenon, <1>0, <2>1
  <2> QED BY Zenon, <1>0, <1>11, <1>12, <2>2 DEF LeverAsk, ask
<1>13. CASE ~ isLong
  <2>1. ask.quoteUnit = (y * P) \div S /\ (y * P) \div S = ((est - slip) * P) \div S
    BY Zenon, <1>0, <1>6, <1>8, <1>11, <1>13
  <2>2. ask.quoteUnit = ((est - slip) * P) \div S
    BY Zenon, <1>0, <2>1
  <2> QED BY Zenon, <1>0, <1>11, <1>13, <2>2 DEF LeverAsk, ask
<1> QED BY <1>0, <1>12, <1>13

\* leverUp's trades are accepted.
LEMMA LeverUpIsAccepted == PerpInv => LeverUpAccepted
<1> DEFINE notional(k) == k * collateral * USDC_FACTOR
           ask(b, k, isLong) == PerpUtils!leverUp(collateral * USDC_FACTOR, perpSupply, spot[b], k, isLong)
           amount(b, k, isLong) == baseNotional(b, ask(b, k, isLong).baseUnit)
           rounding(b) == ((perpSupply \div PRECISE_UNIT) + 2) * ((spot[b] \div PRECISE_UNIT) + 1) + 1
<1> SUFFICES ASSUME PerpInv, NEW b \in Market, NEW k \in LeverageRatio, NEW isLong \in BOOLEAN,
                    perpSupply > 0, base[b] = 0, ask(b, k, isLong).baseUnit # 0,
                    amount(b, k, isLong) # 0
             PROVE  /\ preciseMul(notional(k), LEVER_UP_SLIPPAGE) >= rounding(b) =>
                         boundOK(amount(b, k, isLong), SwapQuote(b, amount(b, k, isLong), 0),
                                 ask(b, k, isLong).quoteUnit)
                    /\ abs(amount(b, k, isLong)) * spot[b] <= notional(k) * PRECISE_UNIT
  BY DEF LeverUpAccepted
<1>1. PICK P \in Int, S \in Int, p \in Int, L \in Int, held \in Int, ratio \in Int, n \in Nat :
        /\ P = PRECISE_UNIT /\ P > 0 /\ S = perpSupply /\ S > 0 /\ p = spot[b] /\ p > 0
        /\ L = LEVER_UP_SLIPPAGE /\ 0 <= L /\ L <= P
        /\ held = collateral * USDC_FACTOR /\ ratio = k
        /\ n = notional(k) /\ held * ratio = n
  <2>1. PICK c \in Nat, U \in Nat, r \in Nat : c = collateral /\ U = USDC_FACTOR /\ r = k
    BY PerpAssumption DEF PerpInv
  <2>2. PICK m \in Nat : m = r * c * U
    <3>1. r * c \in Nat
      BY ProductOfNat
    <3> QED BY <3>1, ProductOfNat
  <2>3. (c * U) * r = m /\ c * U \in Int
    BY <2>2
  <2>4. m = notional(k) /\ c * U = collateral * USDC_FACTOR
    BY <2>1, <2>2
  <2>5. perpSupply \in Int /\ spot[b] \in Int /\ spot[b] > 0
    BY DEF PerpInv
  <2>6. LEVER_UP_SLIPPAGE \in Int /\ 0 <= LEVER_UP_SLIPPAGE /\ LEVER_UP_SLIPPAGE <= PRECISE_UNIT
        /\ PRECISE_UNIT \in Int /\ PRECISE_UNIT > 0
    BY PreciseUnitAssumption, PerpAssumption
  <2> HIDE DEF notional
  <2>7. /\ notional(k) \in Nat /\ collateral * USDC_FACTOR \in Int /\ k \in Int
        /\ (collateral * USDC_FACTOR) * k = notional(k)
    <3>1. k \in Int
      BY <2>1
    <3> QED BY Zenon, <2>1, <2>3, <2>4, <3>1
  <2> QED BY Zenon, <2>5, <2>6, <2>7
<1>2. PICK B \in Int, u \in Int, a \in Int, est \in Int, slip \in Int, s \in Int, t \in Int :
        LeverTrade(P, S, n, p, B, u, a, est, s, t) /\ LeverSlippage(P, L, est, slip)
  <2>1. PICK B \in Int : B = (n * P) \div p
    BY <1>1
  <2>2. PICK u \in Int, est \in Int : u = (B * P) \div S /\ est = (B * p) \div P
    BY <1>1
  <2>3. PICK a \in Int, slip \in Int : a = (u * S) \div P /\ slip = (est * L) \div P
    BY <1>1
  <2>4. PICK s \in Int, t \in Int : s = S \div P /\ t = p \div P
    BY <1>1
  <2>5. LeverTrade(P, S, n, p, B, u, a, est, s, t) /\ LeverSlippage(P, L, est, slip)
    BY Zenon, <1>1, <2>1, <2>2, <2>3, <2>4 DEF LeverTrade, LeverSlippage
  <2> QED BY Zenon, <2>5
<1>3. /\ B = (n * P) \div p /\ u = (B * P) \div S /\ a = (u * S) \div P
       /\ est = (B * p) \div P /\ slip = (est * L) \div P /\ s = S \div P /\ t = p \div P
  BY Zenon, <1>2 DEF LeverTrade, LeverSlippage
<1>4. /\ B >= 0 /\ u >= 0 /\ a >= 0 /\ est >= 0 /\ s >= 0 /\ t >= 0 /\ a <= B /\ a * p <= n * P
      /\ B - (s + 1) <= a /\ n - (t + 1) <= est
  <2>1. LeverBounds(P, n, p, B, u, a, est, s, t)
    BY Zenon, <1>2, LeverUpBase
  <2> QED BY Zenon, <2>1 DEF LeverBounds
<1>5. (n * L) \div P - (t + 1) <= slip /\ 0 <= slip /\ slip <= est
  BY <1>1, <1>4, <1>3, SlippageAllowed
<1>6. /\ ask(b, k, isLong).baseUnit = IF isLong THEN u ELSE -u
      /\ isLong => ask(b, k, isLong).quoteUnit = ((est + slip) * P) \div S
      /\ ~ isLong => ask(b, k, isLong).quoteUnit = ((est - slip) * P) \div S
  <2>1. LeverAsk(held, S, p, ratio, isLong, P, u, est, slip)
    <3>1. /\ LeverTrade(P, S, n, p, B, u, a, est, s, t) /\ LeverSlippage(P, L, est, slip)
          /\ LeverNotional(held, ratio, n) /\ isLong \in BOOLEAN
      BY Zenon, <1>1, <1>2 DEF LeverNotional
    <3>2. LeverUpAskedFor(P, S, n, p, B, u, a, est, s, t, L, slip, held, ratio)
      BY Zenon, <3>1 DEF LeverUpAskedFor
    <3>3. \A long \in BOOLEAN : LeverAsk(held, S, p, ratio, long, P, u, est, slip)
      BY Zenon, <3>2, LeverUpAsks
    <3> QED BY Zenon, <3>3
  <2>2. PerpUtils!leverUp(held, S, p, ratio, isLong) = ask(b, k, isLong)
    BY <1>1
  <2> HIDE DEF ask
  <2> QED BY Zenon, <2>1, <2>2 DEF LeverAsk
<1>7. amount(b, k, isLong) = IF isLong THEN a ELSE -a
  <2>1. preciseDivInt(base[b], perpSupply) = 0
    <3>1. 0 * P = 0 /\ 0 \div S = 0
      BY <1>1
    <3>2. 0 \in Nat /\ Quotient(0, S) = 0
      BY <1>1, <3>1, QuotientOfSigns
    <3> QED BY <1>1, <3>1, <3>2 DEF preciseDivInt
  <2>2. PICK x \in Int : x = ask(b, k, isLong).baseUnit /\ x # 0 /\ x = IF isLong THEN u ELSE -u
    BY <1>6
  <2>3. amount(b, k, isLong) = preciseMulInt(x, perpSupply)
    BY <2>1, <2>2 DEF baseNotional
  <2>4. PICK us \in Nat : us = u * S
    BY <1>1, <1>4, ProductOfNat
  <2>5. (-u) * S = -us
    BY <2>4
  <2>6. Quotient(us, P) = a /\ Quotient(-us, P) = -a
    BY <1>1, <1>3, <2>4, QuotientOfSigns
  <2>7. preciseMulInt(u, perpSupply) = a /\ preciseMulInt(-u, perpSupply) = -a
    BY <1>1, <2>4, <2>5, <2>6 DEF preciseMulInt
  <2> QED BY <2>2, <2>3, <2>7
<1> DEFINE am == amount(b, k, isLong)
           qu == ask(b, k, isLong).quoteUnit
<1>8. am # 0
  OBVIOUS
<1> HIDE DEF amount, ask
<1>9. a > 0
  BY <1>4, <1>7, <1>8
<1>10. abs(am) * spot[b] <= notional(k) * PRECISE_UNIT
  <2>1. abs(am) = a
    BY <1>7, <1>9 DEF abs
  <2> HIDE DEF am, notional
  <2> QED BY <1>1, <1>4, <2>1
<1>11. ASSUME preciseMul(notional(k), LEVER_UP_SLIPPAGE) >= rounding(b)
       PROVE  boundOK(am, SwapQuote(b, am, 0), qu)
  <2>1. slip >= (s + 2) * (t + 1) - t
    <3>1. PICK nl \in Int, rr \in Int : nl = (n * L) \div P /\ rr = (s + 2) * (t + 1)
      BY <1>1
    <3>2. nl >= rr + 1
      BY <1>1, <1>3, <1>11, <3>1 DEF preciseMul
    <3> QED BY <1>5, <3>1, <3>2
  <2>2. (s + 2) * (t + 1) = (s + 1) * (t + 1) + t + 1 /\ (s + 1) * (t + 1) = s * t + s + t + 1 /\ s * t >= 0
    <3>1. s * t \in Nat
      BY <1>4, ProductOfNat
    <3> QED BY <3>1
  <2>3. PICK st \in Int : st = s * t
    OBVIOUS
  <2>4. slip >= s + 2 /\ slip >= (s + 1) * (t + 1)
    BY <1>4, <2>1, <2>2, <2>3
  <2>5. CASE isLong
    <3>1. am = a /\ a > 0 /\ qu = ((est + slip) * P) \div S
      BY <1>6, <1>7, <1>9, <2>5
    <3>2. PICK z \in Nat : z = est + slip
      BY <1>4, <1>5
    <3>3. PICK bound \in Int : bound = (qu * S) \div P /\ z - (s + 1) <= bound
      <4>1. qu = (z * P) \div S
        BY <3>1, <3>2
      <4>2. LET x == (((z * P) \div S) * S) \div P
            IN  x \in Int /\ x <= z /\ z - ((S \div P) + 1) <= x
        BY <1>1, BoundPerSet
      <4> HIDE DEF qu
      <4> QED BY <1>3, <4>1, <4>2
    <3>4. PICK cost \in Int : cost = ((a * p - 1) \div P) + 1 /\ cost <= est + 1
      <4>1. s + 1 >= 0 /\ s + 1 \in Int
        BY <1>4
      <4>2. ((a * p - 1) \div P) + 1 \in Int
        BY <1>1
      <4>3. /\ ((a * p - 1) \div P) + 1 <= est + 1
            /\ est - (s + 1) * ((p \div P) + 1) <= (a * p) \div P
        BY ZenonT(40), <1>1, <1>3, <1>4, <4>1, <4>2, QuoteNearEstimate
      <4> QED BY <4>2, <4>3
    <3>5. SwapQuote(b, am, 0) = cost
      <4>1. a # 0 /\ p # 0
        BY <1>1, <3>1
      <4>2. preciseMulCeil(a, spot[b]) = cost
        BY <1>1, <3>4, <4>1 DEF preciseMulCeil
      <4> QED BY <3>1, <3>4, <4>2 DEF SwapQuote
    <3>6. cost <= bound
      BY <2>4, <3>2, <3>3, <3>4
    <3>7. preciseMul(qu, perpSupply) = bound
      BY <1>1, <3>3 DEF preciseMul
    <3> HIDE DEF am, qu
    <3> QED BY <3>1, <3>5, <3>6, <3>7 DEF boundOK
  <2>6. CASE ~ isLong
    <3>1. am = -a /\ a > 0 /\ qu = ((est - slip) * P) \div S
      BY <1>6, <1>7, <1>9, <2>6
    <3>2. PICK z \in Nat : z = est - slip
      BY <1>5
    <3>3. PICK bound \in Int : bound = (qu * S) \div P /\ bound <= z
      <4>1. qu = (z * P) \div S
        BY <3>1, <3>2
      <4>2. LET x == (((z * P) \div S) * S) \div P
            IN  x \in Int /\ x <= z /\ z - ((S \div P) + 1) <= x
        BY <1>1, BoundPerSet
      <4> HIDE DEF qu
      <4> QED BY <1>3, <4>1, <4>2
    <3>4. PICK got \in Int : got = (a * p) \div P /\ est - (s + 1) * (t + 1) <= got
      <4>1. s + 1 >= 0 /\ s + 1 \in Int
        BY <1>4
      <4>2. (a * p) \div P \in Int
        BY <1>1
      <4>3. /\ ((a * p - 1) \div P) + 1 <= est + 1
            /\ est - (s + 1) * ((p \div P) + 1) <= (a * p) \div P
        BY ZenonT(40), <1>1, <1>3, <1>4, <4>1, <4>2, QuoteNearEstimate
      <4> QED BY <1>3, <4>2, <4>3
    <3>5. got >= z
      <4>1. PICK st1 \in Int : st1 = (s + 1) * (t + 1)
        OBVIOUS
      <4> QED BY <2>4, <3>2, <3>4, <4>1
    <3>6. SwapQuote(b, am, 0) = got
      <4>1. -am = a /\ ~ (am > 0)
        BY <3>1
      <4>2. preciseMul(-am, spot[b]) - 0 = got
        <5> HIDE DEF am
        <5> QED BY <1>1, <3>4, <4>1 DEF preciseMul
      <4>3. got >= 0
        BY <3>2, <3>5
      <4>4. Max({0, got}) = got
        BY <4>3, MaxOfZero
      <4> HIDE DEF am
      <4> QED BY <4>1, <4>2, <4>4 DEF SwapQuote
    <3>7. preciseMul(qu, perpSupply) = bound
      BY <1>1, <3>3 DEF preciseMul
    <3> HIDE DEF am, qu
    <3> QED BY <3>1, <3>3, <3>5, <3>6, <3>7 DEF boundOK
  <2> QED BY <2>5, <2>6
<1> QED BY <1>10, <1>11

\* The sums of the helpers are those of the module.
LEMMA PerpSumAgrees ==
    ASSUME NEW f, NEW s
    PROVE  PerpUtils!SumFunctionOnSet(f, s) = SumFunctionOnSet(f, s)
BY Zenon DEF SumFunctionOnSet, FoldFunctionOnSet, MapThenFoldSet,
   PerpUtils!SumFunctionOnSet, PerpUtils!FoldFunctionOnSet, PerpUtils!MapThenFoldSet

\* What the account is made of, and what the helpers are given of it.
AccountNumbers(c, o, f, n) ==
    /\ c \in Int /\ o \in Int /\ f \in Int /\ n \in Int
    /\ c = collateral * USDC_FACTOR /\ o = owedRealizedPnl /\ f = -allPendingFunding
    /\ n = SumFunctionOnSet(quote, syncPositionList)
    /\ getAccountInfo(syncPositionList)
         = [collateralBalance |-> c, owedRealizedPnl |-> o, pendingFundingPayments |-> f,
            netQuoteBalance |-> n]

LEMMA AccountHasNumbers ==
    ASSUME PerpInv
    PROVE  \E c, o, f, n : AccountNumbers(c, o, f, n)
<1>1. collateral * USDC_FACTOR \in Int
  BY PerpAssumption DEF PerpInv
<1>2. owedRealizedPnl \in Int /\ quote \in [Market -> Int]
  BY DEF PerpInv
<1>3. allPendingFunding = SumFunctionOnSet(fundings, Market)
  BY DEF allPendingFunding, fundings
<1>4. SumFunctionOnSet(fundings, Market) \in Int
  BY AccountParts DEF AccountAddsUp
<1>5. syncPositionList \in SUBSET Market
  BY DEF syncPositionList, PerpInv
<1>6. SumFunctionOnSet(quote, syncPositionList) \in Int
  BY <1>2, <1>5, PerpAssumption, SumIsInteger
<1>7. -allPendingFunding \in Int
  BY <1>3, <1>4
<1>8. AccountNumbers(collateral * USDC_FACTOR, owedRealizedPnl, -allPendingFunding,
                     SumFunctionOnSet(quote, syncPositionList))
  BY Zenon, <1>1, <1>2, <1>6, <1>7 DEF AccountNumbers, getAccountInfo
<1> QED BY Zenon, <1>8

\* The share h of a position of x that goes with q of S sets, and what its swap moves.
ShareTraded(x, S, q, dq, p, h) ==
    /\ x \in Int /\ S \in Int /\ S > 0 /\ q \in Nat /\ dq \in Int /\ p \in Nat /\ h \in Int
    /\ h = preciseMulInt(preciseDivInt(x, S), q)

\* The helper's number for one market is the quote the swap moves.
LEMMA IssueQuoteIsSigned ==
    ASSUME NEW x, NEW S, NEW q, NEW dq, NEW p, NEW h, ShareTraded(x, S, q, dq, p, h)
    PROVE  PerpUtils!issueQuote(PerpUtils!preciseDiv(x, S), q, dq, p) = IF h >= 0 THEN dq ELSE -dq
<1> x \in Int /\ S \in Int /\ S > 0 /\ q \in Nat /\ dq \in Int /\ p \in Nat /\ h \in Int
  BY DEF ShareTraded
<1>0. h = preciseMulInt(preciseDivInt(x, S), q)
  BY Zenon DEF ShareTraded
<1>1. PICK u \in Int : u = PerpUtils!preciseDiv(x, S) /\ u = preciseDivInt(x, S)
  BY PerpDivAgrees
<1>2. PerpUtils!preciseMul(u, q) = h
  <2>1. PerpUtils!preciseMul(u, q) = preciseMulInt(u, q)
    BY PerpMulAgrees
  <2>2. preciseMulInt(u, q) = preciseMulInt(preciseDivInt(x, S), q)
    BY Zenon, <1>1
  <2> QED BY Zenon, <1>0, <2>1, <2>2
<1>3. PICK i \in Int : i = PerpUtils!preciseMul(h, p) /\ i = preciseMulInt(h, p)
  BY PerpMulAgrees
<1>4. h < 0 => i <= 0
  <2>1. PICK n \in Int, P \in Int : n = h * p /\ P = PRECISE_UNIT /\ P > 0
    BY PreciseUnitAssumption
  <2>2. h < 0 => n <= 0
    BY <2>1
  <2>3. i = Quotient(n, P)
    BY <1>3, <2>1 DEF preciseMulInt
  <2> QED BY <2>1, <2>2, <2>3, QuotientBounds
<1>5. PerpUtils!issueQuote(u, q, dq, p)
        = i + (IF h >= 0 THEN dq - i ELSE PerpUtils!bnAbs(i) - dq)
  BY Zenon, <1>2, <1>3 DEF PerpUtils!issueQuote
<1>6. PerpUtils!issueQuote(u, q, dq, p) = IF h >= 0 THEN dq ELSE -dq
  BY <1>4, <1>5 DEF PerpUtils!bnAbs
<1> QED BY <1>1, <1>6

\* The helper values an issue as the module does.
LEMMA TransferInValue ==
    ASSUME PerpInv, PositionsInSync, perpSupply > 0, NEW q \in Nat, q > 0, NEW slippage \in Nat
    PROVE  PerpUtils!calculateUSDCTransferInPreciseUnits(getAccountInfo(syncPositionList), Listed,
               perpSupply, q, Quotes(q, TRUE, slippage), spot)
             = accountValueIssued(q, TRUE, slippage)
<1> DEFINE L == syncPositionList
           trades == shareTrades(q, TRUE)
           dq == Quotes(q, TRUE, slippage)
           signed == [b \in L |-> IF shareOf(b, q) >= 0 THEN SwapQuote(b, trades[b], slippage)
                                  ELSE -SwapQuote(b, trades[b], slippage)]
           predicted == [b \in DOMAIN Listed |->
                           PerpUtils!issueQuote(PerpUtils!preciseDiv(Listed[b].base, perpSupply), q,
                                                dq[b], spot[b])]
<1>1. L \in SUBSET Market /\ (\A b \in Market : shareOf(b, q) \in Int) /\ trades \in [L -> Int]
  BY Zenon, SharesType
<1>2. PICK c, o, f, n : AccountNumbers(c, o, f, n)
  BY Zenon, AccountHasNumbers
<1>3. PICK S \in Int : S = perpSupply /\ S > 0
  BY DEF PerpInv
<1>4. DOMAIN Listed = L
  BY DEF Listed, PositionsInSync
<1>5. ASSUME NEW b \in L
      PROVE  predicted[b] = signed[b]
  <2>1. PICK x \in Int, p \in Nat : x = base[b] /\ p = spot[b]
    BY <1>1 DEF PerpInv
  <2>2. /\ shareOf(b, q) \in Int
        /\ shareOf(b, q) = preciseMulInt(preciseDivInt(x, S), q)
    <3>1. shareOf(b, q) \in Int
      BY <1>1
    <3>2. shareOf(b, q) = preciseMulInt(preciseDivInt(base[b], perpSupply), q)
      BY Zenon DEF shareOf
    <3>3. preciseDivInt(base[b], perpSupply) = preciseDivInt(x, S)
      BY Zenon, <1>3, <2>1
    <3>4. shareOf(b, q) = preciseMulInt(preciseDivInt(x, S), q)
      BY Zenon, <3>2, <3>3
    <3> QED BY Zenon, <3>1, <3>4
  <2>3. PICK d \in Int : d = SwapQuote(b, trades[b], slippage) /\ d = dq[b]
    <3>1. SwapQuote(b, trades[b], slippage) \in Int
      <4>1. b \in Market /\ trades[b] \in Int
        <5> HIDE DEF trades, L, signed, predicted, dq
        <5> QED BY <1>1
      <4> HIDE DEF trades, L, signed, predicted, dq
      <4>2. SwapQuote(b, trades[b], slippage) \in Nat
        BY Zenon, <4>1, SwapQuoteType
      <4> QED BY <4>2
    <3>2. dq[b] = SwapQuote(b, trades[b], slippage)
      BY DEF Quotes, shareTrades, PositionsInSync
    <3> QED BY <3>1, <3>2
  <2>4. Listed[b].base = x
    BY <2>1 DEF Listed, PositionsInSync
  <2>5. predicted[b] = PerpUtils!issueQuote(PerpUtils!preciseDiv(x, S), q, d, p)
    BY Zenon, <1>3, <1>4, <2>1, <2>3, <2>4
  <2>6. PerpUtils!issueQuote(PerpUtils!preciseDiv(x, S), q, d, p)
          = IF shareOf(b, q) >= 0 THEN d ELSE -d
    <3>1. ShareTraded(x, S, q, d, p, shareOf(b, q))
      BY Zenon, <1>3, <2>1, <2>2, <2>3 DEF ShareTraded
    <3> QED BY Zenon, <3>1, IssueQuoteIsSigned
  <2>7. signed[b] = IF shareOf(b, q) >= 0 THEN d ELSE -d
    BY Zenon, <2>3
  <2> QED BY Zenon, <2>5, <2>6, <2>7
<1>6. predicted = signed
  BY Zenon, <1>4, <1>5
<1> HIDE DEF predicted, signed, dq, trades, L
<1>7. PICK total \in Int : total = c + o + n + f /\ total = c + o + f + n
  BY <1>2 DEF AccountNumbers
<1>8. preciseDivInt(total, S) \in Int /\ PerpUtils!preciseDiv(total, S) = preciseDivInt(total, S)
  BY <1>3, PerpDivAgrees
<1>9. PerpUtils!preciseMul(preciseDivInt(total, S), q) = preciseMulInt(preciseDivInt(total, S), q)
  BY <1>8, PerpMulAgrees
<1>10. calculatePartialAccountValuePositionUnit(L) = preciseDivInt(total, S)
  <2>1. getAccountInfo(L) = [collateralBalance |-> c, owedRealizedPnl |-> o,
                              pendingFundingPayments |-> f, netQuoteBalance |-> n]
    BY Zenon, <1>2 DEF AccountNumbers, L
  <2>2. LET info == getAccountInfo(L)
        IN  /\ info.collateralBalance = c /\ info.owedRealizedPnl = o
            /\ info.pendingFundingPayments = f /\ info.netQuoteBalance = n
    BY <2>1
  <2> QED BY Zenon, <1>3, <1>7, <2>2 DEF calculatePartialAccountValuePositionUnit
<1>11. accountValueIssued(q, TRUE, slippage)
         = preciseMulInt(preciseDivInt(total, S), q) + SumFunctionOnSet(signed, L)
  BY Zenon, <1>10 DEF accountValueIssued, signed, trades, L
<1>12. PerpUtils!calculateUSDCTransferInPreciseUnits(getAccountInfo(L), Listed, perpSupply, q, dq, spot)
         = PerpUtils!preciseMul(PerpUtils!preciseDiv(total, S), q)
             + PerpUtils!SumFunctionOnSet(predicted, DOMAIN Listed)
  <2>1. getAccountInfo(L) = [collateralBalance |-> c, owedRealizedPnl |-> o,
                              pendingFundingPayments |-> f, netQuoteBalance |-> n]
    BY Zenon, <1>2 DEF AccountNumbers, L
  <2>2. LET info == getAccountInfo(L)
        IN  /\ info.collateralBalance = c /\ info.owedRealizedPnl = o
            /\ info.pendingFundingPayments = f /\ info.netQuoteBalance = n
    BY <2>1
  <2> QED BY Zenon, <1>3, <1>7, <2>2 DEF PerpUtils!calculateUSDCTransferInPreciseUnits, predicted
<1>13. PerpUtils!SumFunctionOnSet(predicted, DOMAIN Listed) = SumFunctionOnSet(signed, L)
  BY Zenon, <1>4, <1>6, PerpSumAgrees
<1> QED BY Zenon, <1>8, <1>9, <1>11, <1>12, <1>13 DEF L, dq

\* The amounts of an issue: U units of value a unit of USDC, d moved and e expected.
MovedIn(P, U, q, v, m, x, d, e) ==
    /\ P \in Int /\ P > 0 /\ U \in Int /\ U > 0 /\ q \in Int /\ q > 0
    /\ v \in Int /\ m \in Int /\ x \in Int /\ d \in Int /\ e \in Int
    /\ q * m <= v * P - 1 /\ U * x <= m + 1 /\ P * d < q * x + P
    /\ U * e <= v /\ v <= U * e + U - 1 /\ P * v <= P * (U * d) + U * q

\* The issuance module moves the value rounded up to a unit per set, the helper expects it
\* rounded to a unit of USDC.
LEMMA TransferInClose ==
    ASSUME NEW P, NEW U, NEW q, NEW v, NEW m, NEW x, NEW d, NEW e,
           MovedIn(P, U, q, v, m, x, d, e)
    PROVE  P * (d - e) <= q + P /\ P * (e - d) <= q
<1> /\ P \in Int /\ P > 0 /\ U \in Int /\ U > 0 /\ q \in Int /\ q > 0
    /\ v \in Int /\ m \in Int /\ x \in Int /\ d \in Int /\ e \in Int
  BY DEF MovedIn
<1>0. /\ q * m <= v * P - 1 /\ U * x <= m + 1 /\ P * d < q * x + P
      /\ U * e <= v /\ v <= U * e + U - 1 /\ P * v <= P * (U * d) + U * q
  BY DEF MovedIn
<1>1. PICK n \in Int, qm \in Int, ux \in Int, pd \in Int, qx \in Int, ue \in Int :
        n = v * P /\ qm = q * m /\ ux = U * x /\ pd = P * d /\ qx = q * x /\ ue = U * e
  OBVIOUS
<1>2. q * ux <= n - 1 + q
  <2>1. q * ux <= q * (m + 1)
    BY <1>0, <1>1, KeepOrder
  <2>2. q * (m + 1) = qm + q
    BY <1>1
  <2> QED BY <1>0, <1>1, <2>1, <2>2
<1>3. U * pd <= q * ux + U * P - U
  <2>1. U * pd <= U * (qx + P - 1)
    BY <1>0, <1>1, KeepOrder
  <2>2. U * (qx + P - 1) = U * qx + U * P - U
    OBVIOUS
  <2>3. U * qx = q * ux
    BY <1>1
  <2> QED BY <2>1, <2>2, <2>3
<1>4. n <= P * ue + P * U - P
  <2>1. P * v <= P * (ue + U - 1)
    BY <1>0, <1>1, KeepOrder
  <2>2. P * (ue + U - 1) = P * ue + P * U - P /\ P * v = n
    BY <1>1
  <2> QED BY <2>1, <2>2
<1>5. PICK D \in Int, up \in Int, qux \in Int, pue \in Int, upd \in Int :
        D = d - e /\ up = U * P /\ qux = q * ux /\ pue = P * ue /\ upd = U * pd
  OBVIOUS
<1>6. U * (P * D) = upd - pue /\ P * D = pd - P * e
  BY <1>1, <1>5
<1>7. upd - pue <= 2 * up - P - U + q - 1
  <2>1. U * P = P * U
    OBVIOUS
  <2> QED BY <1>2, <1>3, <1>4, <1>5, <2>1
<1>8. PICK z \in Int : z = P * D
  OBVIOUS
<1>9. ASSUME q >= P PROVE z <= q + P
  <2>1. (U - 1) * P <= (U - 1) * q
    <3>1. U - 1 \in Int /\ U - 1 >= 0
      OBVIOUS
    <3> QED BY <1>9, <3>1, KeepOrder
  <2>2. (U - 1) * P = up - P /\ (U - 1) * q = U * q - q /\ U * (q + P) = U * q + up
    BY <1>5
  <2>3. PICK uq \in Int : uq = U * q
    OBVIOUS
  <2>4. 2 * up - P - U + q - 1 <= uq + up
    BY <2>1, <2>2, <2>3
  <2>5. U * z <= U * (q + P)
    BY <1>6, <1>7, <1>8, <2>2, <2>3, <2>4
  <2>6. z <= q + P
    BY <2>5, CancelFactor
  <2> QED BY <2>6
<1>10. ASSUME q < P PROVE z <= q + P
  <2>1. U * z < 2 * up
    BY <1>6, <1>7, <1>8, <1>10
  <2>2. D < 2
    <3>1. SUFFICES ASSUME D >= 2 PROVE FALSE
      OBVIOUS
    <3>2. up > 0 /\ U * z = up * D
      BY <1>5, <1>8
    <3>3. up * 2 <= up * D
      BY <3>1, <3>2, KeepOrder
    <3>4. PICK a \in Int : a = up * D
      OBVIOUS
    <3> QED BY <2>1, <3>2, <3>3, <3>4
  <2>3. P * D <= P * 1
    BY <2>2, KeepOrder
  <2> QED BY <1>8, <2>3
<1>11. P * (e - d) <= q
  <2>1. P * ue <= P * v
    BY <1>0, <1>1, KeepOrder
  <2>2. PICK pv \in Int, pe \in Int, ud \in Int : pv = P * v /\ pe = P * e /\ ud = U * d
    OBVIOUS
  <2>3. P * ue = U * pe /\ P * ud = U * pd /\ U * (pd + q) = U * pd + U * q
    BY <1>1, <2>2
  <2>4. PICK a \in Int, b \in Int, c \in Int, g \in Int : a = U * pe /\ b = U * pd /\ c = U * q /\ g = P * ud
    BY <2>2
  <2>5. U * pe <= U * (pd + q)
    <3>1. pv <= g + c
      BY <1>0, <2>2, <2>4
    <3> QED BY <2>1, <2>2, <2>3, <2>4, <3>1
  <2>6. pe <= pd + q
    BY <2>2, <2>5, CancelFactor
  <2>7. P * (e - d) = pe - pd
    BY <1>1, <2>2
  <2> QED BY <2>6, <2>7
<1>12. P * (d - e) <= q + P
  <2>1. z <= q + P
    BY <1>9, <1>10
  <2>2. P * (d - e) = z
    BY Zenon, <1>5, <1>8
  <2> QED BY Zenon, <2>1, <2>2
<1> QED BY <1>11, <1>12

LEMMA TransferInIsPredicted == PerpInv => HelpersPredictTransferIn
<1> DEFINE expected(q, s) == PerpUtils!calculateUSDCTransferIn(
               getAccountInfo(positions), Listed, perpSupply, q, Quotes(q, TRUE, s), spot)
<1> SUFFICES ASSUME PerpInv, NEW q \in PerpQuantity, NEW s \in Slippage, perpSupply > 0,
                    PositionsInSync, swapsOK(q)
             PROVE  IF accountValueIssued(q, TRUE, s) <= 0
                    THEN expected(q, s) <= 0 /\ issueTransfer(q, s) = 0
                    ELSE PRECISE_UNIT * abs(issueTransfer(q, s) - expected(q, s)) <= q + PRECISE_UNIT
  BY DEF HelpersPredictTransferIn
<1>1. PICK P \in Int, U \in Int :
        P = PRECISE_UNIT /\ P > 0 /\ U = USDC_FACTOR /\ U > 0
  BY PreciseUnitAssumption, PerpAssumption
<1>2. q \in Nat /\ q > 0 /\ q \in Int /\ s \in Nat
  BY PerpAssumption
<1>3. TRUE \in BOOLEAN
  OBVIOUS
<1>4. /\ accountValueIssued(q, TRUE, s) \in Int
      /\ executePositionTrades(q, TRUE, s) \in Nat
  BY Zenon, <1>2, <1>3, ExecuteType
<1>5. PICK v \in Int : v = accountValueIssued(q, TRUE, s)
  BY Zenon, <1>4
<1>6. PICK x \in Nat : x = executePositionTrades(q, TRUE, s)
  BY Zenon, <1>4
<1>7. PICK e \in Int : e = expected(q, s) /\ e = Quotient(v, U)
  <2>1. expected(q, s) = PerpUtils!bnDiv(v, U)
    <3>1. PerpUtils!calculateUSDCTransferInPreciseUnits(getAccountInfo(positions), Listed,
               perpSupply, q, Quotes(q, TRUE, s), spot) = accountValueIssued(q, TRUE, s)
      BY Zenon, <1>2, TransferInValue DEF PositionsInSync
    <3> QED BY Zenon, <1>1, <1>5, <3>1 DEF PerpUtils!calculateUSDCTransferIn, PerpUtils!toUSDCDecimals
  <2>2. PerpUtils!bnDiv(v, U) = Quotient(v, U) /\ Quotient(v, U) \in Int
    BY <1>1, PerpDivIsQuotient, QuotientBounds
  <2> QED BY Zenon, <2>1, <2>2
<1>8. PICK d \in Nat : d = issueTransfer(q, s) /\ d = preciseMulCeil(q, x)
  <2>1. preciseMulCeil(q, x) \in Nat
    BY <1>2, AmountType
  <2>2. issueTransfer(q, s) = preciseMulCeil(q, x)
    BY Zenon, <1>6 DEF issueTransfer
  <2> QED BY Zenon, <2>1, <2>2
<1>9. ASSUME v <= 0
      PROVE  e <= 0 /\ d = 0
  <2>1. e <= 0
    BY <1>1, <1>7, <1>9, QuotientBounds
  <2>2. x = 0
    BY Zenon, <1>5, <1>6, <1>9 DEF executePositionTrades
  <2>3. d = 0
    BY <1>8, <2>2 DEF preciseMulCeil
  <2> QED BY <2>1, <2>3
<1>10. ASSUME v > 0
       PROVE  P * abs(d - e) <= q + P
  <2>1. ~ (v <= 0)
    BY <1>10
  <2>2. x = Quotient(preciseDivCeil(v, q), U)
    BY Zenon, <1>1, <1>5, <1>6, <2>1 DEF executePositionTrades, fromPreciseUnitToDecimals
  <2>3. PICK n \in Int, m \in Int : /\ n = v * P /\ n > 0 /\ m = (n - 1) \div q
                                    /\ q * m <= n - 1 /\ m >= 0
    <3>1. PICK n \in Int : n = v * P /\ n > 0
      BY <1>1, <1>10
    <3>2. PICK m \in Int : m = (n - 1) \div q /\ q * m <= n - 1 /\ n - 1 < q * m + q
      BY <1>2, DivBounds
    <3>3. m >= 0
      BY <1>2, <3>1, <3>2
    <3> QED BY <3>1, <3>2, <3>3
  <2>4. preciseDivCeil(v, q) = m + 1
    BY <1>1, <1>10, <2>3 DEF preciseDivCeil
  <2>5. U * x <= m + 1
    <3>1. PICK z \in Int : z = m + 1 /\ z >= 0
      BY <2>3
    <3>2. x = Quotient(z, U)
      BY <2>2, <2>4, <3>1
    <3> QED BY <1>1, <3>1, <3>2, QuotientBounds
  <2>6. P * d < q * x + P /\ q * x <= P * d
    BY <1>1, <1>2, <1>8, PreciseMulBounds
  <2>7. U * e <= v /\ v <= U * e + U - 1
    <3>1. PICK ue \in Int : ue = U * e
      OBVIOUS
    <3>2. v - U < ue /\ ue <= v
      BY <1>1, <1>7, <1>10, <3>1, QuotientBounds
    <3> QED BY <3>1, <3>2
  <2>8. P * v <= P * (U * d) + U * q
    <3>1. /\ PRECISE_UNIT * accountValueIssued(q, TRUE, s)
               <= PRECISE_UNIT * (USDC_FACTOR * issueTransfer(q, s)) + USDC_FACTOR * q
      BY Zenon, <1>2, TransferCoversValue
    <3> QED BY Zenon, <1>1, <1>5, <1>8, <3>1
  <2>9. P * (d - e) <= q + P /\ P * (e - d) <= q
    <3>1. q * m <= v * P - 1 /\ x \in Int /\ d \in Int
      BY <2>3
    <3>2. MovedIn(P, U, q, v, m, x, d, e)
      BY Zenon, <1>1, <1>2, <2>5, <2>6, <2>7, <2>8, <3>1 DEF MovedIn
    <3> QED BY Zenon, <3>2, TransferInClose
  <2>10. abs(d - e) = d - e \/ abs(d - e) = e - d
    BY DEF abs
  <2> QED BY <1>1, <1>2, <2>9, <2>10
<1> HIDE DEF expected
<1>11. CASE v <= 0
  BY Zenon, <1>5, <1>7, <1>8, <1>9, <1>11
<1>12. CASE ~ (v <= 0)
  <2>1. v > 0
    BY <1>12
  <2> QED BY Zenon, <1>1, <1>5, <1>7, <1>8, <1>10, <1>12, <2>1
<1> QED BY Zenon, <1>11, <1>12

\* Two functions that are close, up to their factors, have sums that are close.
SumsAreClose(a, f, b, g, c, k, s) ==
    \A x \in s : a * f[x] <= b * g[x] + c * k[x] /\ b * g[x] <= a * f[x] + c * k[x]

LEMMA CloseSums ==
    ASSUME NEW s, IsFiniteSet(s), NEW a \in Int, NEW b \in Int, NEW c \in Int,
           NEW f \in [s -> Int], NEW g \in [s -> Int], NEW k \in [s -> Int],
           SumsAreClose(a, f, b, g, c, k, s)
    PROVE  LET F == SumFunctionOnSet(f, s)
               G == SumFunctionOnSet(g, s)
               K == SumFunctionOnSet(k, s)
           IN  /\ F \in Int /\ G \in Int /\ K \in Int
               /\ a * F <= b * G + c * K /\ b * G <= a * F + c * K
<1> DEFINE e == [x \in s |-> a * f[x]]
           d == [x \in s |-> b * g[x]]
           eu == [x \in s |-> a * f[x] + c * k[x]]
           du == [x \in s |-> b * g[x] + c * k[x]]
<1>1. e \in [s -> Int] /\ d \in [s -> Int] /\ eu \in [s -> Int] /\ du \in [s -> Int]
  <2>1. ASSUME NEW x \in s
        PROVE  a * f[x] \in Int /\ b * g[x] \in Int /\ a * f[x] + c * k[x] \in Int
               /\ b * g[x] + c * k[x] \in Int
    <3>1. f[x] \in Int /\ g[x] \in Int /\ k[x] \in Int
      OBVIOUS
    <3> QED BY <3>1
  <2> QED BY <2>1
<1>2. s \in SUBSET s /\ 0 \in Int
  OBVIOUS
<1>3. Combines(e, a, f, 0, f, 0, f, s) /\ Combines(d, b, g, 0, g, 0, g, s)
  <2>1. ASSUME NEW x \in s
        PROVE  e[x] = a * f[x] + 0 * f[x] + 0 * f[x] /\ d[x] = b * g[x] + 0 * g[x] + 0 * g[x]
    <3>1. PICK m \in Int, n \in Int : m = f[x] /\ n = g[x]
      OBVIOUS
    <3>2. PICK am \in Int, bn \in Int : am = a * m /\ bn = b * n
      OBVIOUS
    <3>3. e[x] = am /\ d[x] = bn
      BY <3>1, <3>2
    <3>4. e[x] = am + 0 * m + 0 * m /\ d[x] = bn + 0 * n + 0 * n
      BY <3>3
    <3> QED BY Zenon, <3>1, <3>2, <3>4
  <2> QED BY Zenon, <2>1 DEF Combines
<1>4. Combines(eu, a, f, c, k, 0, f, s) /\ Combines(du, b, g, c, k, 0, g, s)
  <2>1. ASSUME NEW x \in s
        PROVE  eu[x] = a * f[x] + c * k[x] + 0 * f[x] /\ du[x] = b * g[x] + c * k[x] + 0 * g[x]
    <3>1. PICK m \in Int, n \in Int, o \in Int : m = f[x] /\ n = g[x] /\ o = k[x]
      OBVIOUS
    <3>2. PICK am \in Int, bn \in Int, co \in Int : am = a * m /\ bn = b * n /\ co = c * o
      OBVIOUS
    <3>3. eu[x] = am + co /\ du[x] = bn + co
      BY <3>1, <3>2
    <3>4. eu[x] = am + co + 0 * m /\ du[x] = bn + co + 0 * n
      BY <3>3
    <3> QED BY Zenon, <3>1, <3>2, <3>4
  <2> QED BY Zenon, <2>1 DEF Combines
<1>5. StaysBelow(e, du, s) /\ StaysBelow(d, eu, s)
  BY DEF StaysBelow, SumsAreClose
<1> HIDE DEF e, d, eu, du
<1>6. PICK F \in Int, G \in Int, K \in Int :
        F = SumFunctionOnSet(f, s) /\ G = SumFunctionOnSet(g, s) /\ K = SumFunctionOnSet(k, s)
  BY <1>2, SumIsInteger
<1>7. /\ SumFunctionOnSet(e, s) = a * F + 0 * F + 0 * F
      /\ SumFunctionOnSet(d, s) = b * G + 0 * G + 0 * G
  BY <1>1, <1>2, <1>3, <1>6, SumCombines
<1>8. /\ SumFunctionOnSet(eu, s) = a * F + c * K + 0 * F
      /\ SumFunctionOnSet(du, s) = b * G + c * K + 0 * G
  BY <1>1, <1>2, <1>4, <1>6, SumCombines
<1>9. /\ SumFunctionOnSet(e, s) <= SumFunctionOnSet(du, s)
      /\ SumFunctionOnSet(d, s) <= SumFunctionOnSet(eu, s)
  BY <1>1, <1>2, <1>5, SumStaysBelow
<1>10. PICK aF \in Int, bG \in Int, cK \in Int : aF = a * F /\ bG = b * G /\ cK = c * K
  OBVIOUS
<1>11. aF <= bG + cK /\ bG <= aF + cK
  BY <1>7, <1>8, <1>9, <1>10
<1> QED BY Zenon, <1>6, <1>10, <1>11

\* Closing a position by its own ratio, and by the supply: a share ah of a position of ax
\* realizes R of a quote of ay.
ClosesPosition(P, S, q, ax, ay, ah, r, R, K, z) ==
    /\ P \in Int /\ P > 0 /\ S \in Int /\ S > 0 /\ q \in Int /\ q > 0 /\ ax \in Int /\ ax > 0
    /\ ay \in Int /\ ay >= 0 /\ ah \in Int /\ ah >= 0 /\ r \in Int /\ R \in Int /\ K \in Int /\ z \in Int
    /\ P * (S * ah) <= P * (q * ax) + S * (q + P)
    /\ P * (q * ax) <= P * (S * ah) + S * (q + P)
    /\ ax * r <= ah * P /\ ah * P <= ax * r + ax
    /\ P * R <= ay * r /\ ay * r <= P * R + P
    /\ K = ay * (q + P) /\ K <= ax * z + ax

LEMMA CloseRatio ==
    ASSUME NEW P, NEW S, NEW q, NEW ax, NEW ay, NEW ah, NEW r, NEW R, NEW K, NEW z,
           ClosesPosition(P, S, q, ax, ay, ah, r, R, K, z)
    PROVE  /\ P * (S * R) <= P * (q * ay) + S * (ay + z + P + 1)
           /\ P * (q * ay) <= P * (S * R) + S * (ay + z + P + 1)
<1> /\ P \in Int /\ P > 0 /\ S \in Int /\ S > 0 /\ q \in Int /\ q > 0 /\ ax \in Int /\ ax > 0
    /\ ay \in Int /\ ay >= 0 /\ ah \in Int /\ ah >= 0 /\ r \in Int /\ R \in Int /\ K \in Int /\ z \in Int
  BY DEF ClosesPosition
<1>1. PICK ar \in Int, hp \in Int, yr \in Int, pr \in Int, psh \in Int, pqx \in Int, sqp \in Int :
        /\ ar = ax * r /\ hp = ah * P /\ yr = ay * r /\ pr = P * R
        /\ psh = P * (S * ah) /\ pqx = P * (q * ax) /\ sqp = S * (q + P)
  OBVIOUS
<1>2. /\ psh <= pqx + sqp /\ pqx <= psh + sqp /\ ar <= hp /\ hp <= ar + ax
      /\ pr <= yr /\ yr <= pr + P
  BY <1>1 DEF ClosesPosition
<1>3. K = ay * (q + P) /\ K <= ax * z + ax
  BY DEF ClosesPosition
<1>4. PICK m \in Int, sk \in Int, syr \in Int, pqy \in Int, sy \in Int, sz \in Int, sp \in Int :
        /\ m = S * ay /\ m >= 0 /\ sk = S * K /\ syr = S * yr /\ pqy = P * (q * ay)
        /\ sy = S * ay /\ sz = S * (z + 1) /\ sp = S * P
  <2>1. S * ay >= 0
    OBVIOUS
  <2> QED BY <2>1
<1>5. m * ar <= m * hp /\ m * hp <= m * (ar + ax)
  BY <1>2, <1>4, KeepOrder
<1>6. ay * psh <= ay * (pqx + sqp) /\ ay * pqx <= ay * (psh + sqp)
  BY <1>2, KeepOrder
<1>7. sk <= ax * sz
  <2>1. S * K <= S * (ax * z + ax)
    BY <1>3, KeepOrder
  <2>2. S * (ax * z + ax) = ax * (S * (z + 1))
    OBVIOUS
  <2> QED BY <1>4, <2>1, <2>2
<1>8. m * ar = ax * syr
  BY <1>1, <1>4
<1>9. m * hp = ay * psh
  BY <1>1, <1>4
<1>10. m * (ar + ax) = ax * (syr + sy)
  <2>1. m * (ar + ax) = m * ar + m * ax /\ ax * (syr + sy) = ax * syr + ax * sy
    OBVIOUS
  <2>2. m * ax = ax * sy
    BY <1>4
  <2> QED BY <1>8, <2>1, <2>2
<1>11. ay * (pqx + sqp) = ay * pqx + sk /\ ay * (psh + sqp) = ay * psh + sk
  <2>1. ay * (pqx + sqp) = ay * pqx + ay * sqp /\ ay * (psh + sqp) = ay * psh + ay * sqp
    OBVIOUS
  <2>2. ay * sqp = sk
    BY <1>1, <1>3, <1>4
  <2> QED BY <2>1, <2>2
<1>12. ay * pqx = ax * pqy
  BY <1>1, <1>4
<1>13. PICK a1 \in Int, a2 \in Int, a3 \in Int, a4 \in Int :
         a1 = ax * syr /\ a2 = ay * psh /\ a3 = ax * pqy /\ a4 = ax * sz
  OBVIOUS
<1>14. syr <= pqy + sz
  <2>1. ax * (pqy + sz) = ax * pqy + ax * sz
    OBVIOUS
  <2>2. ax * syr <= ax * (pqy + sz)
    BY <1>5, <1>6, <1>7, <1>8, <1>9, <1>11, <1>12, <1>13, <2>1
  <2> QED BY <2>2, CancelFactor
<1>15. pqy <= syr + sy + sz
  <2>1. ax * (syr + sy + sz) = ax * (syr + sy) + ax * sz
    OBVIOUS
  <2>2. PICK a5 \in Int : a5 = ax * (syr + sy)
    OBVIOUS
  <2>3. ax * pqy <= ax * (syr + sy + sz)
    BY <1>5, <1>6, <1>7, <1>9, <1>10, <1>11, <1>12, <1>13, <2>1, <2>2
  <2>4. syr + sy + sz \in Int
    OBVIOUS
  <2> QED BY <2>3, <2>4, CancelFactor
<1>16. S * pr <= syr /\ syr <= S * pr + sp
  <2>1. S * pr <= S * yr /\ S * yr <= S * (pr + P)
    BY <1>2, KeepOrder
  <2>2. S * (pr + P) = S * pr + S * P
    OBVIOUS
  <2> QED BY <1>4, <2>1, <2>2
<1>17. P * (S * R) = S * pr /\ S * (ay + z + P + 1) = sy + sz + sp /\ sp >= 0
  <2>1. P * (S * R) = S * (P * R) /\ S * (ay + z + P + 1) = S * ay + S * (z + 1) + S * P /\ S * P >= 0
    OBVIOUS
  <2> QED BY <1>1, <1>4, <2>1
<1>18. PICK b1 \in Int : b1 = S * pr
  OBVIOUS
<1> QED BY <1>4, <1>14, <1>15, <1>16, <1>17, <1>18

\* A listed position and what closing a share h of it brings: x and y its base and quote,
\* dq the quote the swap moves, closing the bound on the difference.
ShareClosed(x, y, S, q, h, dq) ==
    /\ x \in Int /\ y \in Int /\ S \in Int /\ S > 0 /\ q \in Nat /\ q > 0 /\ h \in Int /\ h # 0
    /\ dq \in Int /\ h = preciseMulInt(preciseDivInt(x, S), q)

closingBound(x, y, q) ==
    abs(y) + (abs(y) * (q + PRECISE_UNIT)) \div abs(x) + PRECISE_UNIT + 1

ReducesQuote(red, x, y, S, q, h, dq) ==
    /\ red \in Int /\ closingBound(x, y, q) \in Int
    /\ PerpUtils!realizedPnl([base |-> x, quote |-> y], S, q, dq)
         = red + (IF h >= 0 THEN dq ELSE -dq)
    /\ (PRECISE_UNIT * S) * red <= (PRECISE_UNIT * q) * y + S * closingBound(x, y, q)
    /\ (PRECISE_UNIT * q) * y <= (PRECISE_UNIT * S) * red + S * closingBound(x, y, q)

\* The base of the share has the sign of the position, and so has that of one set.
LEMMA ShareSign ==
    ASSUME NEW x, NEW y, NEW S, NEW q, NEW h, NEW dq, ShareClosed(x, y, S, q, h, dq)
    PROVE  LET u == preciseDivInt(x, S)
           IN  u \in Int /\ (u >= 0) = (h >= 0) /\ (h > 0 => x > 0) /\ (h < 0 => x < 0)
<1> /\ x \in Int /\ S \in Int /\ S > 0 /\ q \in Nat /\ q > 0 /\ h \in Int /\ h # 0
  BY DEF ShareClosed
<1>1. PICK P \in Int, n \in Int : P = PRECISE_UNIT /\ P > 0 /\ n = x * P
  BY PreciseUnitAssumption
<1>2. PICK u \in Int : u = preciseDivInt(x, S) /\ u = Quotient(n, S)
  <2>1. Quotient(n, S) \in Int /\ preciseDivInt(x, S) = Quotient(n, S)
    BY <1>1, QuotientBounds DEF preciseDivInt
  <2> QED BY Zenon, <2>1
<1>3. PICK k \in Int : k = u * q
  OBVIOUS
<1>4. h = Quotient(k, P)
  <2>1. h = preciseMulInt(u, q)
    <3>1. h = preciseMulInt(preciseDivInt(x, S), q)
      BY Zenon DEF ShareClosed
    <3> QED BY Zenon, <1>2, <3>1
  <2> QED BY <1>1, <1>3, <2>1 DEF preciseMulInt
<1>5. (k >= 0 => h >= 0) /\ (k <= 0 => h <= 0)
  BY <1>1, <1>4, QuotientBounds
<1>6. (n >= 0 => u >= 0) /\ (n <= 0 => u <= 0)
  BY <1>2, QuotientBounds
<1>7. (u >= 0 => k >= 0) /\ (u <= 0 => k <= 0)
  BY <1>3
<1>8. (x >= 0 => n >= 0) /\ (x <= 0 => n <= 0)
  BY <1>1
<1>9. (u >= 0) = (h >= 0) /\ (h > 0 => x > 0) /\ (h < 0 => x < 0)
  BY <1>5, <1>6, <1>7, <1>8
<1> QED BY Zenon, <1>2, <1>9

LEMMA MarketClose ==
    ASSUME NEW x, NEW y, NEW S, NEW q, NEW h, NEW dq, ShareClosed(x, y, S, q, h, dq)
    PROVE  \E red : ReducesQuote(red, x, y, S, q, h, dq)
<1> /\ x \in Int /\ y \in Int /\ S \in Int /\ S > 0 /\ q \in Nat /\ q > 0 /\ h \in Int /\ h # 0
    /\ dq \in Int
  BY DEF ShareClosed
<1>1. PICK P \in Int : P = PRECISE_UNIT /\ P > 0
  BY PreciseUnitAssumption
<1>2. PICK u \in Int : /\ u = preciseDivInt(x, S) /\ (u >= 0) = (h >= 0)
                       /\ (h > 0 => x > 0) /\ (h < 0 => x < 0)
  <2>1. LET v == preciseDivInt(x, S)
        IN  v \in Int /\ (v >= 0) = (h >= 0) /\ (h > 0 => x > 0) /\ (h < 0 => x < 0)
    BY Zenon, ShareSign
  <2> QED BY Zenon, <2>1
<1>3. h = preciseMulInt(u, q)
  <2>1. h = preciseMulInt(preciseDivInt(x, S), q)
    BY Zenon DEF ShareClosed
  <2> QED BY Zenon, <1>2, <2>1
<1>4. PICK ax \in Nat, ay \in Nat, ah \in Nat :
        ax = abs(x) /\ ay = abs(y) /\ ah = abs(h) /\ ax > 0 /\ ah > 0
  BY <1>2 DEF abs
<1>5. /\ P * (S * ah) <= P * (q * ax) + S * (q + P)
      /\ P * (q * ax) <= P * (S * ah) + S * (q + P)
  <2>1. /\ P * (S * h) <= P * (q * x) + S * (q + P)
        /\ P * (q * x) <= P * (S * h) + S * (q + P)
    <3>1. LET g == preciseMulInt(preciseDivInt(x, S), q)
          IN  /\ g \in Int
              /\ PRECISE_UNIT * (S * g) <= PRECISE_UNIT * (q * x) + S * (q + PRECISE_UNIT)
              /\ PRECISE_UNIT * (q * x) <= PRECISE_UNIT * (S * g) + S * (q + PRECISE_UNIT)
      <4>1. x \in Int /\ S \in Int /\ S > 0 /\ q \in Int /\ q > 0
        OBVIOUS
      <4> QED BY Zenon, <4>1, ShareBounds
    <3>2. preciseMulInt(preciseDivInt(x, S), q) = h
      BY Zenon DEF ShareClosed
    <3> QED BY Zenon, <1>1, <3>1, <3>2
  <2>2. CASE h > 0
    <3>1. ah = h /\ ax = x
      BY <1>2, <1>4, <2>2 DEF abs
    <3> QED BY Zenon, <2>1, <3>1
  <2>3. CASE h < 0
    <3>1. h = -ah /\ x = -ax
      BY <1>2, <1>4, <2>3 DEF abs
    <3>2. P * (S * (-ah)) = -(P * (S * ah)) /\ P * (q * (-ax)) = -(P * (q * ax))
      OBVIOUS
    <3>3. PICK a \in Int, b \in Int, c \in Int :
            a = P * (S * ah) /\ b = P * (q * ax) /\ c = S * (q + P)
      OBVIOUS
    <3>4. -a <= -b + c /\ -b <= -a + c
      BY <2>1, <3>1, <3>2, <3>3
    <3>5. a <= b + c /\ b <= a + c
      BY <3>4
    <3> QED BY Zenon, <3>3, <3>5
  <2> QED BY <2>2, <2>3
<1>6. PICK r \in Nat : r = (ah * P) \div ax /\ ax * r <= ah * P /\ ah * P <= ax * r + ax
  <2>1. PICK n \in Nat : n = ah * P
    BY <1>1, ProductOfNat
  <2>2. n \div ax \in Nat
    BY <1>4, <2>1
  <2>3. ax * (n \div ax) <= n /\ n < ax * (n \div ax) + ax
    BY <1>4, DivBounds
  <2>4. PICK r \in Nat : r = n \div ax
    BY <2>2
  <2>5. PICK m \in Int : m = ax * r
    OBVIOUS
  <2> QED BY <2>1, <2>3, <2>4, <2>5
<1>7. PICK yr \in Nat : yr = ay * r
  BY ProductOfNat
<1>8. PICK R \in Nat : R = yr \div P /\ P * R <= yr /\ yr <= P * R + P
  <2>1. PICK R \in Nat : R = yr \div P
    BY <1>1
  <2>2. P * R <= yr /\ yr < P * R + P
    BY <1>1, <2>1, DivBounds
  <2>3. PICK m \in Int : m = P * R
    OBVIOUS
  <2> QED BY <2>1, <2>2, <2>3
<1>9. PICK K \in Nat, z \in Nat : K = ay * (q + P) /\ z = K \div ax /\ K <= ax * z + ax
  <2>1. q + P \in Nat
    BY <1>1
  <2>2. PICK K \in Nat : K = ay * (q + P)
    BY <2>1, ProductOfNat
  <2>3. PICK z \in Nat : z = K \div ax
    BY <1>4
  <2>4. K < ax * z + ax
    BY <1>4, <2>3, DivBounds
  <2>5. PICK m \in Int : m = ax * z
    OBVIOUS
  <2> QED BY <2>2, <2>3, <2>4, <2>5
<1>10. /\ P * (S * R) <= P * (q * ay) + S * (ay + z + P + 1)
       /\ P * (q * ay) <= P * (S * R) + S * (ay + z + P + 1)
  <2>1. q \in Int /\ ax \in Int /\ ay \in Int /\ ay >= 0 /\ ah \in Int /\ ah >= 0 /\ r \in Int
        /\ R \in Int /\ K \in Int /\ z \in Int
    OBVIOUS
  <2>2. ClosesPosition(P, S, q, ax, ay, ah, r, R, K, z)
    BY Zenon, <1>1, <1>4, <1>5, <1>6, <1>7, <1>8, <1>9, <2>1 DEF ClosesPosition
  <2> QED BY Zenon, <2>2, CloseRatio
<1>11. PICK red \in Int : red = preciseMulInt(y, r) /\ (y >= 0 => red = R) /\ (y < 0 => red = -R)
  <2>1. Quotient(yr, P) = R /\ Quotient(-yr, P) = -R
    BY <1>1, <1>8, QuotientOfSigns
  <2>2. y >= 0 => y * r = yr
    BY <1>4, <1>7 DEF abs
  <2>3. y < 0 => y * r = -yr
    <3>1. y < 0 => y = -ay
      BY <1>4 DEF abs
    <3>2. (-ay) * r = -(ay * r)
      OBVIOUS
    <3> QED BY <1>7, <3>1, <3>2
  <2>4. preciseMulInt(y, r) = Quotient(y * r, P)
    BY <1>1 DEF preciseMulInt
  <2>5. (y >= 0 => preciseMulInt(y, r) = R) /\ (y < 0 => preciseMulInt(y, r) = -R)
    BY <2>1, <2>2, <2>3, <2>4
  <2> QED BY <2>5
<1>12. PICK cl \in Int : cl = ay + z + P + 1 /\ cl = closingBound(x, y, q)
  BY <1>1, <1>4, <1>9 DEF closingBound
<1>13. /\ (P * S) * red <= (P * q) * y + S * cl
       /\ (P * q) * y <= (P * S) * red + S * cl
  <2>1. PICK a \in Int, b \in Int, c \in Int :
          a = P * (S * R) /\ b = P * (q * ay) /\ c = S * cl
    OBVIOUS
  <2>2. a <= b + c /\ b <= a + c
    BY <1>10, <1>12, <2>1
  <2>3. CASE y >= 0
    <3>1. red = R /\ y = ay
      BY <1>4, <1>11, <2>3 DEF abs
    <3>2. (P * S) * R = a /\ (P * q) * ay = b
      BY <2>1
    <3>3. (P * S) * red = a /\ (P * q) * y = b
      BY Zenon, <3>1, <3>2
    <3> QED BY Zenon, <2>1, <2>2, <3>3
  <2>4. CASE y < 0
    <3>1. red = -R /\ y = -ay
      BY <1>4, <1>11, <2>4 DEF abs
    <3>2. (P * S) * (-R) = -a /\ (P * q) * (-ay) = -b
      BY <2>1
    <3>3. (P * S) * red = -a /\ (P * q) * y = -b
      BY Zenon, <3>1, <3>2
    <3>4. -a <= -b + c /\ -b <= -a + c
      BY <2>2
    <3> QED BY Zenon, <2>1, <3>3, <3>4
  <2> QED BY <2>3, <2>4
<1>14. PerpUtils!realizedPnl([base |-> x, quote |-> y], S, q, dq)
         = red + (IF h >= 0 THEN dq ELSE -dq)
  <2>1. PerpUtils!preciseDiv(x, S) = u
    BY <1>2, PerpDivAgrees
  <2>2. PerpUtils!preciseMul(u, q) = h
    <3>1. PerpUtils!preciseMul(u, q) = preciseMulInt(u, q)
      BY PerpMulAgrees
    <3> QED BY Zenon, <1>3, <3>1
  <2>3. PerpUtils!bnAbs(h) = ah /\ PerpUtils!bnAbs(x) = ax
    BY <1>4 DEF PerpUtils!bnAbs, abs
  <2>4. PerpUtils!preciseDiv(ah, ax) = r
    <3>1. PerpUtils!preciseDiv(ah, ax) = (ah * PRECISE_UNIT) \div ax
      BY <1>4, PerpDivOfNat
    <3> QED BY Zenon, <1>1, <1>6, <3>1
  <2>5. PerpUtils!preciseMul(y, r) = red
    <3>1. PerpUtils!preciseMul(y, r) = preciseMulInt(y, r)
      BY PerpMulAgrees
    <3> QED BY Zenon, <1>11, <3>1
  <2>6. LET p == [base |-> x, quote |-> y] IN p.base = x /\ p.quote = y
    OBVIOUS
  <2>7. PerpUtils!realizedPnl([base |-> x, quote |-> y], S, q, dq)
          = IF u >= 0 THEN red + dq ELSE red - dq
    BY Zenon, <2>1, <2>2, <2>3, <2>4, <2>5, <2>6 DEF PerpUtils!realizedPnl
  <2>8. (IF u >= 0 THEN red + dq ELSE red - dq) = red + (IF h >= 0 THEN dq ELSE -dq)
    BY <1>2
  <2> QED BY Zenon, <2>7, <2>8
<1>15. ReducesQuote(red, x, y, S, q, h, dq)
  BY Zenon, <1>1, <1>12, <1>13, <1>14 DEF ReducesQuote
<1> QED BY Zenon, <1>15

\* A share C of the total with the quote n, against a share C2 of the total without it and
\* what closing the positions realizes, F.
SharesOut(P, S, q, C, C2, t, n, F, K) ==
    /\ P \in Int /\ P > 0 /\ S \in Int /\ S > 0 /\ q \in Int /\ C \in Int /\ C2 \in Int
    /\ t \in Int /\ n \in Int /\ F \in Int /\ K \in Int
    /\ P * (S * C) <= P * (q * (t + n)) + S * (q + P)
    /\ P * (q * (t + n)) <= P * (S * C) + S * (q + P)
    /\ P * (S * C2) <= P * (q * t) + S * (q + P)
    /\ P * (q * t) <= P * (S * C2) + S * (q + P)
    /\ (P * S) * F <= (P * q) * n + S * K
    /\ (P * q) * n <= (P * S) * F + S * K

LEMMA SharesOutClose ==
    ASSUME NEW P, NEW S, NEW q, NEW C, NEW C2, NEW t, NEW n, NEW F, NEW K,
           SharesOut(P, S, q, C, C2, t, n, F, K)
    PROVE  /\ P * (C - C2 - F) <= 2 * (q + P) + K
           /\ -(P * (C - C2 - F)) <= 2 * (q + P) + K
<1> /\ P \in Int /\ P > 0 /\ S \in Int /\ S > 0 /\ q \in Int /\ C \in Int /\ C2 \in Int
    /\ t \in Int /\ n \in Int /\ F \in Int /\ K \in Int
  BY DEF SharesOut
<1>1. PICK pc \in Int, pd \in Int, pf \in Int, qt \in Int, qn \in Int, B \in Int, sk \in Int :
        /\ pc = S * (P * C) /\ pd = S * (P * C2) /\ pf = S * (P * F)
        /\ qt = P * (q * t) /\ qn = P * (q * n) /\ B = S * (q + P) /\ sk = S * K
  OBVIOUS
<1>2. /\ P * (S * C) = pc /\ P * (S * C2) = pd /\ (P * S) * F = pf
      /\ P * (q * (t + n)) = qt + qn /\ (P * q) * n = qn
  <2>1. /\ P * (S * C) = S * (P * C) /\ P * (S * C2) = S * (P * C2) /\ (P * S) * F = S * (P * F)
    OBVIOUS
  <2>2. P * (q * (t + n)) = P * (q * t) + P * (q * n) /\ (P * q) * n = P * (q * n)
    OBVIOUS
  <2> QED BY Zenon, <1>1, <2>1, <2>2
<1>3. /\ P * (S * C) <= P * (q * (t + n)) + S * (q + P)
      /\ P * (q * (t + n)) <= P * (S * C) + S * (q + P)
      /\ P * (S * C2) <= P * (q * t) + S * (q + P)
      /\ P * (q * t) <= P * (S * C2) + S * (q + P)
      /\ (P * S) * F <= (P * q) * n + S * K
      /\ (P * q) * n <= (P * S) * F + S * K
  BY Zenon DEF SharesOut
<1>4. /\ pc <= (qt + qn) + B /\ qt + qn <= pc + B /\ pd <= qt + B /\ qt <= pd + B
      /\ pf <= qn + sk /\ qn <= pf + sk
  BY Zenon, <1>1, <1>2, <1>3
<1>5. PICK x \in Int : x = P * (C - C2 - F)
  OBVIOUS
<1>6. S * x = pc - pd - pf
  BY <1>1, <1>5
<1>7. S * (2 * (q + P) + K) = 2 * B + sk
  BY <1>1
<1>8. S * (-x) = -(S * x)
  OBVIOUS
<1>9. PICK s \in Int : s = S * x
  OBVIOUS
<1>10. S * x <= S * (2 * (q + P) + K) /\ S * (-x) <= S * (2 * (q + P) + K)
  BY <1>4, <1>6, <1>7, <1>8, <1>9
<1>11. x <= 2 * (q + P) + K /\ -x <= 2 * (q + P) + K
  BY <1>10, CancelFactor
<1> QED BY Zenon, <1>5, <1>11

\* A share of a number of the account.
LEMMA ShareOfNumber ==
    ASSUME NEW x \in Int, NEW S \in Int, S > 0, NEW q \in Nat, q > 0
    PROVE  \E y \in Int :
             /\ PerpUtils!preciseMul(PerpUtils!preciseDiv(x, S), q) = y
             /\ preciseMulInt(preciseDivInt(x, S), q) = y
             /\ PRECISE_UNIT * (S * y) <= PRECISE_UNIT * (q * x) + S * (q + PRECISE_UNIT)
             /\ PRECISE_UNIT * (q * x) <= PRECISE_UNIT * (S * y) + S * (q + PRECISE_UNIT)
<1>1. q \in Int
  OBVIOUS
<1>2. PICK y \in Int : y = preciseMulInt(preciseDivInt(x, S), q)
  BY <1>1, ShareBounds
<1>3. /\ PRECISE_UNIT * (S * y) <= PRECISE_UNIT * (q * x) + S * (q + PRECISE_UNIT)
      /\ PRECISE_UNIT * (q * x) <= PRECISE_UNIT * (S * y) + S * (q + PRECISE_UNIT)
  <2>1. LET g == preciseMulInt(preciseDivInt(x, S), q)
        IN  /\ g \in Int
            /\ PRECISE_UNIT * (S * g) <= PRECISE_UNIT * (q * x) + S * (q + PRECISE_UNIT)
            /\ PRECISE_UNIT * (q * x) <= PRECISE_UNIT * (S * g) + S * (q + PRECISE_UNIT)
    BY Zenon, <1>1, ShareBounds
  <2> QED BY Zenon, <1>2, <2>1
<1>4. PICK u \in Int : u = PerpUtils!preciseDiv(x, S) /\ u = preciseDivInt(x, S)
  BY PerpDivAgrees
<1>5. PerpUtils!preciseMul(u, q) = preciseMulInt(u, q)
  BY <1>1, PerpMulAgrees
<1>6. PerpUtils!preciseMul(PerpUtils!preciseDiv(x, S), q) = preciseMulInt(preciseDivInt(x, S), q)
  <2>1. PerpUtils!preciseMul(PerpUtils!preciseDiv(x, S), q) = PerpUtils!preciseMul(u, q)
    BY Zenon, <1>4
  <2>2. preciseMulInt(preciseDivInt(x, S), q) = preciseMulInt(u, q)
    BY Zenon, <1>4
  <2> QED BY Zenon, <1>5, <2>1, <2>2
<1> QED BY Zenon, <1>2, <1>3, <1>6

\* What separates the value the module takes out from the one the helper expects.
closings(q) == [b \in syncPositionList |-> closingBound(base[b], quote[b], q)]
outBound(q) == 2 * (q + PRECISE_UNIT) + SumFunctionOnSet(closings(q), syncPositionList)

LEMMA TransferOutValue ==
    ASSUME PerpInv, PositionsInSync, perpSupply > 0, NEW q \in Nat, q > 0, NEW slippage \in Nat,
           swapsOK(q)
    PROVE  \E v \in Int, w \in Int :
             /\ v = accountValueIssued(q, FALSE, slippage)
             /\ PerpUtils!calculateUSDCTransferOutPreciseUnits(getAccountInfo(syncPositionList), Listed,
                    perpSupply, q, Quotes(q, FALSE, slippage)) = PerpUtils!bnAbs(w)
             /\ outBound(q) \in Int /\ SumFunctionOnSet(closings(q), syncPositionList) \in Int
             /\ PRECISE_UNIT * (v - w) <= outBound(q) /\ -(PRECISE_UNIT * (v - w)) <= outBound(q)
<1> DEFINE L == syncPositionList
           trades == shareTrades(q, FALSE)
           dq == Quotes(q, FALSE, slippage)
           signed == [b \in L |-> IF shareOf(b, q) >= 0 THEN SwapQuote(b, trades[b], slippage)
                                  ELSE -SwapQuote(b, trades[b], slippage)]
           pnl == [b \in DOMAIN Listed |-> PerpUtils!realizedPnl(Listed[b], perpSupply, q, dq[b])]
           reduced(b) == CHOOSE r : ReducesQuote(r, base[b], quote[b], perpSupply, q,
                                                 shareOf(b, q), dq[b])
           red == [b \in L |-> reduced(b)]
           own == [b \in L |-> quote[b]]
           cl == closings(q)
<1>1. L \in SUBSET Market /\ (\A b \in Market : shareOf(b, q) \in Int) /\ trades \in [L -> Int]
  <2>1. FALSE \in BOOLEAN
    OBVIOUS
  <2> QED BY Zenon, <2>1, SharesType
<1>2. PICK c, o, f, n : AccountNumbers(c, o, f, n)
  BY Zenon, AccountHasNumbers
<1>3. PICK S \in Int, P \in Int : S = perpSupply /\ S > 0 /\ P = PRECISE_UNIT /\ P > 0
  BY PreciseUnitAssumption DEF PerpInv
<1>4. DOMAIN Listed = L /\ IsFiniteSet(L)
  BY <1>1, PerpAssumption, FS_Subset DEF Listed, PositionsInSync
<1>5. ASSUME NEW b \in L
      PROVE  /\ pnl[b] = red[b] + signed[b] /\ red[b] \in Int /\ signed[b] \in Int
             /\ cl[b] \in Int /\ own[b] \in Int
             /\ (P * S) * red[b] <= (P * q) * own[b] + S * cl[b]
             /\ (P * q) * own[b] <= (P * S) * red[b] + S * cl[b]
  <2>1. PICK x \in Int, y \in Int : x = base[b] /\ y = quote[b]
    BY <1>1 DEF PerpInv
  <2>2. PICK h \in Int : h = shareOf(b, q) /\ h # 0
    BY <1>1 DEF swapsOK
  <2>3. h = preciseMulInt(preciseDivInt(x, S), q)
    <3>1. shareOf(b, q) = preciseMulInt(preciseDivInt(base[b], perpSupply), q)
      BY Zenon DEF shareOf
    <3>2. preciseDivInt(base[b], perpSupply) = preciseDivInt(x, S)
      BY Zenon, <1>3, <2>1
    <3> QED BY Zenon, <2>2, <3>1, <3>2
  <2>4. PICK d \in Int : d = SwapQuote(b, trades[b], slippage) /\ d = dq[b]
    <3>1. SwapQuote(b, trades[b], slippage) \in Int
      <4>1. b \in Market /\ trades[b] \in Int
        <5> HIDE DEF trades, L, signed, pnl, dq, red, own, cl
        <5> QED BY <1>1
      <4> HIDE DEF trades, L, signed, pnl, dq, red, own, cl
      <4>2. SwapQuote(b, trades[b], slippage) \in Nat
        BY Zenon, <4>1, SwapQuoteType
      <4> QED BY <4>2
    <3>2. dq[b] = SwapQuote(b, trades[b], slippage)
      BY DEF Quotes, shareTrades, PositionsInSync
    <3> QED BY Zenon, <3>1, <3>2
  <2>5. PICK e : ReducesQuote(e, x, y, S, q, h, d)
    <3>1. ShareClosed(x, y, S, q, h, d)
      BY Zenon, <1>3, <2>2, <2>3 DEF ShareClosed
    <3> QED BY Zenon, <3>1, MarketClose
  <2>6. ReducesQuote(red[b], x, y, S, q, h, d)
    <3>1. red[b] = CHOOSE r : ReducesQuote(r, x, y, S, q, h, d)
      BY Zenon, <1>3, <2>1, <2>2, <2>4
    <3> QED BY Zenon, <2>5, <3>1
  <2>7. Listed[b] = [base |-> x, quote |-> y]
    BY <2>1 DEF Listed, PositionsInSync
  <2>8. pnl[b] = PerpUtils!realizedPnl([base |-> x, quote |-> y], S, q, d)
    BY Zenon, <1>3, <1>4, <2>4, <2>7
  <2>9. signed[b] = IF h >= 0 THEN d ELSE -d
    BY Zenon, <2>2, <2>4
  <2>10. signed[b] \in Int
    <3> HIDE DEF signed
    <3> QED BY <2>9
  <2>11. cl[b] = closingBound(x, y, q) /\ own[b] = y
    BY Zenon, <2>1 DEF closings
  <2>12. /\ red[b] \in Int /\ closingBound(x, y, q) \in Int
         /\ PerpUtils!realizedPnl([base |-> x, quote |-> y], S, q, d)
              = red[b] + (IF h >= 0 THEN d ELSE -d)
         /\ (PRECISE_UNIT * S) * red[b] <= (PRECISE_UNIT * q) * y + S * closingBound(x, y, q)
         /\ (PRECISE_UNIT * q) * y <= (PRECISE_UNIT * S) * red[b] + S * closingBound(x, y, q)
    <3> HIDE DEF red
    <3> QED BY Zenon, <2>6 DEF ReducesQuote
  <2> HIDE DEF red, signed, pnl, own, cl
  <2>13. pnl[b] = red[b] + signed[b]
    BY Zenon, <2>8, <2>9, <2>12
  <2>14. cl[b] \in Int /\ own[b] \in Int
    BY Zenon, <2>11, <2>12
  <2>15. /\ (P * S) * red[b] <= (P * q) * own[b] + S * cl[b]
         /\ (P * q) * own[b] <= (P * S) * red[b] + S * cl[b]
    BY Zenon, <1>3, <2>11, <2>12
  <2> QED BY Zenon, <2>10, <2>12, <2>13, <2>14, <2>15
<1>6. /\ pnl = [b \in L |-> pnl[b]] /\ red = [b \in L |-> red[b]] /\ signed = [b \in L |-> signed[b]]
      /\ own = [b \in L |-> own[b]] /\ cl = [b \in L |-> cl[b]]
  <2>1. pnl = [b \in L |-> pnl[b]]
    BY Zenon, <1>4
  <2>2. red = [b \in L |-> red[b]]
    <3> HIDE DEF L, dq, reduced
    <3> QED BY Zenon
  <2>3. signed = [b \in L |-> signed[b]]
    BY Zenon
  <2>4. own = [b \in L |-> own[b]]
    BY Zenon
  <2>5. cl = [b \in L |-> cl[b]]
    BY Zenon DEF closings
  <2> HIDE DEF L, dq, signed, pnl, red, own, cl
  <2> QED BY Zenon, <2>1, <2>2, <2>3, <2>4, <2>5
<1>7. \A b \in L : own[b] = quote[b]
  OBVIOUS
<1> HIDE DEF L, trades, dq, signed, pnl, red, own, cl
<1>8. /\ red \in [L -> Int] /\ signed \in [L -> Int] /\ own \in [L -> Int] /\ cl \in [L -> Int]
      /\ pnl \in [L -> Int]
  <2>1. \A b \in L : red[b] \in Int /\ signed[b] \in Int /\ own[b] \in Int /\ cl[b] \in Int
    BY Zenon, <1>5
  <2>2. \A b \in L : pnl[b] \in Int
    <3>1. \A b \in L : pnl[b] = red[b] + signed[b]
      BY Zenon, <1>5
    <3> QED BY <2>1, <3>1
  <2> QED BY <1>6, <2>1, <2>2
<1>9. PICK F \in Int, G \in Int, K \in Int :
        /\ F = SumFunctionOnSet(red, L) /\ G = SumFunctionOnSet(own, L) /\ K = SumFunctionOnSet(cl, L)
        /\ (P * S) * F <= (P * q) * G + S * K /\ (P * q) * G <= (P * S) * F + S * K
  <2>1. SumsAreClose(P * S, red, P * q, own, S, cl, L)
    BY Zenon, <1>5 DEF SumsAreClose
  <2>2. P * S \in Int /\ P * q \in Int
    OBVIOUS
  <2>3. LET F == SumFunctionOnSet(red, L)
            G == SumFunctionOnSet(own, L)
            K == SumFunctionOnSet(cl, L)
        IN  /\ F \in Int /\ G \in Int /\ K \in Int
            /\ (P * S) * F <= (P * q) * G + S * K /\ (P * q) * G <= (P * S) * F + S * K
    BY Zenon, <1>4, <1>8, <2>1, <2>2, CloseSums
  <2> QED BY Zenon, <2>3
<1>10. n = G
  <2>1. quote \in [Market -> Int] /\ IsFiniteSet(Market) /\ L \in SUBSET L
    BY PerpAssumption DEF PerpInv
  <2>2. SumFunctionOnSet(own, L) = SumFunctionOnSet(quote, L)
    BY <1>1, <1>4, <1>7, <1>8, <2>1, SumAgrees
  <2>3. n = SumFunctionOnSet(quote, L)
    BY Zenon, <1>2 DEF AccountNumbers, L
  <2> QED BY Zenon, <1>9, <2>2, <2>3
<1>11. PICK z \in Int : z = SumFunctionOnSet(signed, L) /\ SumFunctionOnSet(pnl, L) = F + z
  <2>1. L \in SUBSET L /\ 1 \in Int /\ 0 \in Int
    OBVIOUS
  <2>2. PICK z \in Int : z = SumFunctionOnSet(signed, L)
    BY <1>4, <1>8, <2>1, SumIsInteger
  <2>3. Combines(pnl, 1, red, 1, signed, 0, red, L)
    <3>1. ASSUME NEW b \in L
          PROVE  pnl[b] = 1 * red[b] + 1 * signed[b] + 0 * red[b]
      BY <1>5
    <3> QED BY Zenon, <3>1 DEF Combines
  <2>4. SumFunctionOnSet(pnl, L) = 1 * F + 1 * z + 0 * F
    BY <1>4, <1>8, <1>9, <2>1, <2>2, <2>3, SumCombines
  <2>5. 1 * F + 1 * z + 0 * F = F + z
    OBVIOUS
  <2> QED BY Zenon, <2>2, <2>4, <2>5
<1>12. PICK t \in Int : t = c + o + f /\ c + o + f + n = t + n /\ t + n \in Int /\ n \in Int
  BY <1>2 DEF AccountNumbers
<1>13. PICK C \in Int :
         /\ preciseMulInt(preciseDivInt(t + n, S), q) = C
         /\ P * (S * C) <= P * (q * (t + n)) + S * (q + P)
         /\ P * (q * (t + n)) <= P * (S * C) + S * (q + P)
  <2>1. PICK x \in Int : x = t + n
    BY <1>12
  <2>2. PICK C \in Int :
             /\ PerpUtils!preciseMul(PerpUtils!preciseDiv(x, S), q) = C
             /\ preciseMulInt(preciseDivInt(x, S), q) = C
             /\ PRECISE_UNIT * (S * C) <= PRECISE_UNIT * (q * x) + S * (q + PRECISE_UNIT)
             /\ PRECISE_UNIT * (q * x) <= PRECISE_UNIT * (S * C) + S * (q + PRECISE_UNIT)
    BY <1>3, ShareOfNumber
  <2> QED BY Zenon, <1>3, <2>1, <2>2
<1>14. PICK C2 \in Int :
         /\ PerpUtils!preciseMul(PerpUtils!preciseDiv(t, S), q) = C2
         /\ P * (S * C2) <= P * (q * t) + S * (q + P)
         /\ P * (q * t) <= P * (S * C2) + S * (q + P)
  <2>1. PICK C2 \in Int :
             /\ PerpUtils!preciseMul(PerpUtils!preciseDiv(t, S), q) = C2
             /\ preciseMulInt(preciseDivInt(t, S), q) = C2
             /\ PRECISE_UNIT * (S * C2) <= PRECISE_UNIT * (q * t) + S * (q + PRECISE_UNIT)
             /\ PRECISE_UNIT * (q * t) <= PRECISE_UNIT * (S * C2) + S * (q + PRECISE_UNIT)
    BY <1>3, ShareOfNumber
  <2> QED BY Zenon, <1>3, <2>1
<1>15. LET info == getAccountInfo(L)
       IN  /\ info.collateralBalance = c /\ info.owedRealizedPnl = o
           /\ info.pendingFundingPayments = f /\ info.netQuoteBalance = n
  <2>1. getAccountInfo(L) = [collateralBalance |-> c, owedRealizedPnl |-> o,
                              pendingFundingPayments |-> f, netQuoteBalance |-> n]
    BY Zenon, <1>2 DEF AccountNumbers, L
  <2> QED BY <2>1
<1>16. accountValueIssued(q, FALSE, slippage) = C + z
  <2>1. calculatePartialAccountValuePositionUnit(L) = preciseDivInt(t + n, S)
    BY Zenon, <1>3, <1>12, <1>15 DEF calculatePartialAccountValuePositionUnit
  <2>2. accountValueIssued(q, FALSE, slippage)
          = preciseMulInt(calculatePartialAccountValuePositionUnit(L), q) + SumFunctionOnSet(signed, L)
    BY Zenon DEF accountValueIssued, signed, trades, L
  <2> QED BY Zenon, <1>11, <1>13, <2>1, <2>2
<1>17. PerpUtils!calculateUSDCTransferOutPreciseUnits(getAccountInfo(L), Listed, perpSupply, q, dq)
         = PerpUtils!bnAbs(C2 + (F + z))
  <2>1. PerpUtils!calculateUSDCTransferOutPreciseUnits(getAccountInfo(L), Listed, perpSupply, q, dq)
          = PerpUtils!bnAbs(PerpUtils!preciseMul(PerpUtils!preciseDiv(t, S), q)
                              + PerpUtils!SumFunctionOnSet(pnl, DOMAIN Listed))
    BY Zenon, <1>3, <1>12, <1>15 DEF PerpUtils!calculateUSDCTransferOutPreciseUnits, pnl
  <2>2. PerpUtils!SumFunctionOnSet(pnl, DOMAIN Listed) = F + z
    <3>1. PerpUtils!SumFunctionOnSet(pnl, DOMAIN Listed) = SumFunctionOnSet(pnl, L)
      BY Zenon, <1>4, PerpSumAgrees
    <3> QED BY Zenon, <1>11, <3>1
  <2> QED BY Zenon, <1>14, <2>1, <2>2
<1>18. /\ P * (C - C2 - F) <= 2 * (q + P) + K
       /\ -(P * (C - C2 - F)) <= 2 * (q + P) + K
  <2>1. q \in Int
    OBVIOUS
  <2>2. SharesOut(P, S, q, C, C2, t, n, F, K)
    BY Zenon, <1>3, <1>9, <1>10, <1>12, <1>13, <1>14, <2>1 DEF SharesOut
  <2> QED BY Zenon, <2>2, SharesOutClose
<1>19. PICK v \in Int, w \in Int : v = C + z /\ w = C2 + (F + z) /\ v - w = C - C2 - F
  BY <1>11
<1>20. outBound(q) = 2 * (q + P) + K /\ 2 * (q + P) + K \in Int
  <2>1. outBound(q) = 2 * (q + P) + K
    BY Zenon, <1>3, <1>9 DEF outBound, cl, L
  <2>2. 2 * (q + P) + K \in Int
    OBVIOUS
  <2> QED BY Zenon, <2>1, <2>2
<1>21. /\ PRECISE_UNIT * (v - w) <= outBound(q) /\ -(PRECISE_UNIT * (v - w)) <= outBound(q)
       /\ outBound(q) \in Int /\ SumFunctionOnSet(closings(q), syncPositionList) \in Int
  BY Zenon, <1>3, <1>9, <1>18, <1>19, <1>20 DEF cl, L
<1> QED BY Zenon, <1>16, <1>17, <1>19, <1>21 DEF L, dq

\* The amounts of a redemption: of a value v the unit x is taken and d is moved; the helper
\* expects e, from a value w that is close.
MovedOut(P, U, q, v, m, x, d, w, e, B) ==
    /\ P \in Int /\ P > 0 /\ U \in Int /\ U > 0 /\ q \in Int /\ q > 0
    /\ v \in Int /\ m \in Int /\ x \in Int /\ d \in Int /\ w \in Int /\ e \in Int /\ B \in Int
    /\ v * P <= q * m + q - 1 /\ m <= U * x + U - 1 /\ q * x <= P * d + P - 1
    /\ P * (U * d) <= P * v
    /\ U * e <= w /\ w <= U * e + U - 1
    /\ P * (v - w) <= B /\ -(P * (v - w)) <= B

LEMMA TransferOutClose ==
    ASSUME NEW P, NEW U, NEW q, NEW v, NEW m, NEW x, NEW d, NEW w, NEW e, NEW B,
           MovedOut(P, U, q, v, m, x, d, w, e, B)
    PROVE  /\ (P * U) * (d - e) <= U * (q + 2 * P) + B
           /\ (P * U) * (e - d) <= U * (q + 2 * P) + B
<1> /\ P \in Int /\ P > 0 /\ U \in Int /\ U > 0 /\ q \in Int /\ q > 0
    /\ v \in Int /\ m \in Int /\ x \in Int /\ d \in Int /\ w \in Int /\ e \in Int /\ B \in Int
  BY DEF MovedOut
<1>1. PICK pv \in Int, pw \in Int, pud \in Int, pue \in Int, up \in Int, uq \in Int, qux \in Int, qm \in Int :
        /\ pv = P * v /\ pw = P * w /\ pud = P * (U * d) /\ pue = P * (U * e) /\ up = P * U
        /\ uq = U * q /\ qux = q * (U * x) /\ qm = q * m
  OBVIOUS
<1>2. pv <= qm + q - 1
  <2>1. v * P <= q * m + q - 1
    BY Zenon DEF MovedOut
  <2>2. v * P = P * v
    OBVIOUS
  <2> QED BY Zenon, <1>1, <2>1, <2>2
<1>3. qm <= qux + uq - q
  <2>1. m <= U * x + U - 1
    BY Zenon DEF MovedOut
  <2>2. q * m <= q * (U * x + U - 1)
    BY <2>1, KeepOrder
  <2>3. q * (U * x + U - 1) = q * (U * x) + U * q - q
    OBVIOUS
  <2> QED BY Zenon, <1>1, <2>2, <2>3
<1>4. qux <= pud + up - U
  <2>1. q * x <= P * d + P - 1
    BY Zenon DEF MovedOut
  <2>2. U * (q * x) <= U * (P * d + P - 1)
    BY <2>1, KeepOrder
  <2>3. U * (q * x) = q * (U * x) /\ U * (P * d + P - 1) = P * (U * d) + P * U - U
    OBVIOUS
  <2> QED BY Zenon, <1>1, <2>2, <2>3
<1>5. pud <= pv
  BY Zenon, <1>1 DEF MovedOut
<1>6. pue <= pw /\ pw <= pue + up - P
  <2>1. U * e <= w /\ w <= U * e + U - 1
    BY Zenon DEF MovedOut
  <2>2. P * (U * e) <= P * w /\ P * w <= P * (U * e + U - 1)
    BY <2>1, KeepOrder
  <2>3. P * (U * e + U - 1) = P * (U * e) + P * U - P
    OBVIOUS
  <2> QED BY Zenon, <1>1, <2>2, <2>3
<1>7. pv - pw <= B /\ -(pv - pw) <= B
  <2>1. P * (v - w) <= B /\ -(P * (v - w)) <= B
    BY Zenon DEF MovedOut
  <2>2. P * (v - w) = P * v - P * w
    OBVIOUS
  <2> QED BY Zenon, <1>1, <2>1, <2>2
<1>8. /\ (P * U) * (d - e) = pud - pue /\ (P * U) * (e - d) = pue - pud
      /\ U * (q + 2 * P) = uq + 2 * up /\ up > 0
  <2>1. /\ (P * U) * (d - e) = P * (U * d) - P * (U * e)
        /\ (P * U) * (e - d) = P * (U * e) - P * (U * d)
        /\ U * (q + 2 * P) = U * q + 2 * (P * U) /\ P * U > 0
    OBVIOUS
  <2> QED BY Zenon, <1>1, <2>1
<1>9. uq > 0
  <2>1. U * q > 0
    OBVIOUS
  <2> QED BY <1>1, <2>1
<1>10. pud - pue <= (uq + 2 * up) + B /\ pue - pud <= (uq + 2 * up) + B
  BY <1>2, <1>3, <1>4, <1>5, <1>6, <1>7, <1>8, <1>9
<1> QED BY Zenon, <1>8, <1>10

\* The sign of a value that the module takes as positive does not matter.
LEMMA CloseWithoutSign ==
    ASSUME NEW P \in Int, P > 0, NEW v \in Int, v > 0, NEW w \in Int, NEW B \in Int,
           P * (v - w) <= B, -(P * (v - w)) <= B
    PROVE  LET a == PerpUtils!bnAbs(w)
           IN  a \in Nat /\ P * (v - a) <= B /\ -(P * (v - a)) <= B
<1>1. CASE w >= 0
  BY <1>1 DEF PerpUtils!bnAbs
<1>2. CASE w < 0
  <2>1. PICK pv \in Int, pw \in Int : pv = P * v /\ pw = P * (-w) /\ pv > 0 /\ pw > 0
    <3>1. -w > 0 /\ -w \in Int
      BY <1>2
    <3>2. P * v > 0 /\ P * (-w) > 0
      BY <3>1
    <3> QED BY <3>2
  <2>2. P * (v - w) = pv + pw /\ P * (v - (-w)) = pv - pw
    BY <2>1
  <2>3. pv - pw <= B /\ -(pv - pw) <= B
    BY <2>1, <2>2
  <2>4. PerpUtils!bnAbs(w) = -w /\ -w \in Nat
    BY <1>2 DEF PerpUtils!bnAbs
  <2> QED BY Zenon, <2>2, <2>3, <2>4
<1> QED BY <1>1, <1>2

\* A redemption moves what the helper expects.
LEMMA TransferOutIsPredicted == PerpInv => HelpersPredictTransferOut
<1> DEFINE expected(q, s) == PerpUtils!calculateUSDCTransferOut(
               getAccountInfo(positions), Listed, perpSupply, q, Quotes(q, FALSE, s))
           valueOut(q, s) == accountValueIssued(q, FALSE, s)
           closing(q) == [b \in syncPositionList |->
               abs(quote[b]) + (abs(quote[b]) * (q + PRECISE_UNIT)) \div abs(base[b]) + PRECISE_UNIT + 1]
<1> SUFFICES ASSUME PerpInv, NEW q \in PerpQuantity, NEW s \in Slippage, perpSupply >= q,
                    PositionsInSync, swapsOK(q), valueOut(q, s) > 0
             PROVE  PRECISE_UNIT * USDC_FACTOR * abs(redeemTransfer(q, s) - expected(q, s))
                      <= USDC_FACTOR * (q + 2 * PRECISE_UNIT) + 2 * (q + PRECISE_UNIT)
                           + SumFunctionOnSet(closing(q), syncPositionList)
  BY Zenon DEF HelpersPredictTransferOut
<1>0. closing(q) = closings(q)
  BY Zenon DEF closings, closingBound
<1> HIDE DEF expected, valueOut, closing
<1>1. PICK P \in Int, U \in Int :
        P = PRECISE_UNIT /\ P > 0 /\ U = USDC_FACTOR /\ U > 0
  BY PreciseUnitAssumption, PerpAssumption
<1>2. q \in Nat /\ q > 0 /\ q \in Int /\ s \in Nat
  BY PerpAssumption
<1>3. perpSupply > 0
  BY <1>2 DEF PerpInv
<1>4. PICK v \in Int, y \in Int :
           /\ v = valueOut(q, s)
           /\ PerpUtils!calculateUSDCTransferOutPreciseUnits(getAccountInfo(positions), Listed,
                  perpSupply, q, Quotes(q, FALSE, s)) = PerpUtils!bnAbs(y)
           /\ outBound(q) \in Int /\ SumFunctionOnSet(closings(q), syncPositionList) \in Int
           /\ PRECISE_UNIT * (v - y) <= outBound(q) /\ -(PRECISE_UNIT * (v - y)) <= outBound(q)
  BY Zenon, <1>2, <1>3, TransferOutValue DEF valueOut, PositionsInSync
<1>5. v > 0 /\ ~ (v <= 0)
  BY <1>4
<1>6. PICK w \in Nat, B \in Int :
        /\ w = PerpUtils!bnAbs(y) /\ B = outBound(q) /\ P * (v - w) <= B /\ -(P * (v - w)) <= B
  <2>1. PICK B \in Int : B = outBound(q) /\ P * (v - y) <= B /\ -(P * (v - y)) <= B
    BY Zenon, <1>1, <1>4
  <2>2. LET a == PerpUtils!bnAbs(y)
        IN  a \in Nat /\ P * (v - a) <= B /\ -(P * (v - a)) <= B
    BY Zenon, <1>1, <1>5, <2>1, CloseWithoutSign
  <2> QED BY Zenon, <2>1, <2>2
<1>7. PICK e \in Int : e = expected(q, s) /\ U * e <= w /\ w <= U * e + U - 1
  <2>1. expected(q, s) = PerpUtils!bnDiv(w, U)
    BY Zenon, <1>1, <1>4, <1>6
       DEF expected, PerpUtils!calculateUSDCTransferOut, PerpUtils!toUSDCDecimals
  <2>2. PerpUtils!bnDiv(w, U) = Quotient(w, U) /\ Quotient(w, U) = w \div U
    BY <1>1, PerpDivIsQuotient, QuotientOfSigns
  <2>3. PICK e \in Int : e = w \div U /\ U * e <= w /\ w < U * e + U
    BY <1>1, DivBounds
  <2>4. PICK ue \in Int : ue = U * e
    OBVIOUS
  <2>5. w <= ue + U - 1
    BY <1>1, <2>3, <2>4
  <2> QED BY Zenon, <2>1, <2>2, <2>3, <2>4, <2>5
<1>8. PICK n \in Nat, m \in Nat : n = v * P /\ m = n \div q /\ n <= q * m + q - 1
  <2>1. PICK n \in Nat : n = v * P
    <3>1. v \in Nat /\ P \in Nat
      BY <1>1, <1>5
    <3> QED BY <3>1, ProductOfNat
  <2>2. PICK m \in Nat : m = n \div q
    BY <1>2
  <2>3. n < q * m + q
    BY <1>2, <2>2, DivBounds
  <2>4. PICK qm \in Int : qm = q * m
    BY <1>2
  <2>5. n <= qm + q - 1
    BY <1>2, <2>3, <2>4
  <2> QED BY Zenon, <2>1, <2>2, <2>4, <2>5
<1>9. PICK x \in Nat : x = executePositionTrades(q, FALSE, s) /\ m <= U * x + U - 1
  <2>1. preciseDiv(v, q) = m
    BY Zenon, <1>1, <1>8 DEF preciseDiv
  <2>2. executePositionTrades(q, FALSE, s) = Quotient(m, U)
    BY Zenon, <1>1, <1>4, <1>5, <2>1 DEF valueOut, executePositionTrades, fromPreciseUnitToDecimals
  <2>3. PICK x \in Nat : x = m \div U /\ m < U * x + U
    BY <1>1, DivBounds
  <2>4. Quotient(m, U) = m \div U
    BY <1>1, QuotientOfSigns
  <2>5. PICK ux \in Int : ux = U * x
    OBVIOUS
  <2>6. m <= ux + U - 1
    BY <1>1, <2>3, <2>5
  <2> QED BY Zenon, <2>2, <2>3, <2>4, <2>5, <2>6
<1>10. PICK d \in Nat : d = redeemTransfer(q, s) /\ d = preciseMul(q, x)
  <2>1. preciseMul(q, x) \in Nat
    BY <1>2, AmountType
  <2>2. redeemTransfer(q, s) = preciseMul(q, x)
    BY Zenon, <1>9 DEF redeemTransfer
  <2> QED BY Zenon, <2>1, <2>2
<1>11. q * x <= P * d + P - 1 /\ P * d <= q * x
  <2>1. PICK qx \in Int, pd \in Int : qx = q * x /\ pd = P * d
    BY <1>2
  <2>2. pd <= qx /\ qx < pd + P
    BY <1>1, <1>2, <1>10, <2>1, PreciseMulBounds
  <2>3. qx <= pd + P - 1
    BY <1>1, <2>2
  <2> QED BY Zenon, <2>1, <2>2, <2>3
<1>12. P * (U * d) <= P * v
  <2>1. CASE x > 0
    <3>1. executePositionTrades(q, FALSE, s) > 0
      BY <1>9, <2>1
    <3>2. PRECISE_UNIT * (USDC_FACTOR * redeemTransfer(q, s))
            <= PRECISE_UNIT * accountValueIssued(q, FALSE, s)
      BY Zenon, <1>2, <1>3, <3>1, TransferCoversValue
    <3> QED BY Zenon, <1>1, <1>4, <1>10, <3>2 DEF valueOut
  <2>2. CASE x = 0
    <3>1. q * x = 0
      BY <1>2, <2>2
    <3>2. d = 0
      <4>1. P * d <= 0
        BY <1>11, <3>1
      <4>2. SUFFICES ASSUME d > 0 PROVE FALSE
        OBVIOUS
      <4>3. P * d > 0
        BY <1>1, <4>2
      <4> QED BY <4>1, <4>3
    <3>3. P * (U * d) = 0 /\ P * v > 0
      BY <1>1, <1>5, <3>2
    <3> QED BY <3>3
  <2> QED BY <2>1, <2>2
<1>13. /\ (P * U) * (d - e) <= U * (q + 2 * P) + B
       /\ (P * U) * (e - d) <= U * (q + 2 * P) + B
  <2>1. m \in Int /\ x \in Int /\ d \in Int /\ w \in Int
    OBVIOUS
  <2>2. v * P <= q * m + q - 1
    BY Zenon, <1>8
  <2>3. MovedOut(P, U, q, v, m, x, d, w, e, B)
    BY Zenon, <1>1, <1>2, <1>6, <1>7, <1>9, <1>11, <1>12, <2>1, <2>2 DEF MovedOut
  <2> QED BY Zenon, <2>3, TransferOutClose
<1>14. P * U * abs(d - e) <= U * (q + 2 * P) + B
  <2>1. abs(d - e) = d - e \/ abs(d - e) = e - d
    BY DEF abs
  <2>2. CASE abs(d - e) = d - e
    BY Zenon, <1>13, <2>2
  <2>3. CASE abs(d - e) = e - d
    BY Zenon, <1>13, <2>3
  <2> QED BY Zenon, <2>1, <2>2, <2>3
<1>15. PICK K \in Int : /\ K = SumFunctionOnSet(closing(q), syncPositionList)
                       /\ B = 2 * (q + P) + K
  <2>1. PICK K \in Int : K = SumFunctionOnSet(closings(q), syncPositionList)
    BY Zenon, <1>4
  <2>2. outBound(q) = 2 * (q + PRECISE_UNIT) + K
    BY Zenon, <2>1 DEF outBound
  <2> QED BY Zenon, <1>0, <1>1, <1>6, <2>1, <2>2
<1>16. U * (q + 2 * P) + B = U * (q + 2 * P) + 2 * (q + P) + K
  BY <1>1, <1>2, <1>15
<1>17. P * U * abs(d - e) <= U * (q + 2 * P) + 2 * (q + P) + K
  BY Zenon, <1>14, <1>16
<1> QED BY Zenon, <1>1, <1>7, <1>10, <1>15, <1>17

\* perpV2Utils.ts predicts what the Perp modules do, whatever the markets and the positions:
\* of issues and redemptions while the module's list is in sync.
THEOREM PerpAlwaysPredicted == PerpSpec => []HelpersPredictPerp
<1>1. PerpInv => HelpersPredictPerp
  BY Zenon, TransferInIsPredicted, TransferOutIsPredicted, LeverUpIsAccepted, FundingIsPredicted
     DEF HelpersPredictPerp
<1> QED BY <1>1, PerpTypesAtFirst, PerpTypesKept, PTL DEF PerpSpec
=============================================================================
