---------------------------- MODULE PerpIssuance ----------------------------
(***************************************************************************)
(* PerpV2LeverageModuleV2 and the issuance module that calls its hooks: a  *)
(* set whose collateral is in Perp's vault, with a position in each of     *)
(* several markets.  Issuing and redeeming trade a share of every position *)
(* and write what that came to into the external position unit, for which  *)
(* the issuance module then moves USDC.                                    *)
(*                                                                         *)
(* Perp is external: its clearing house moves base and quote, realizes     *)
(* profit when a position is reduced, settles funding at each interaction  *)
(* and liquidates whom it likes.  A swap costs the spot price and a        *)
(* slippage of its own choice.  Its margin requirements, which can only    *)
(* make a call revert, are left out.                                       *)
(***************************************************************************)
EXTENDS PreciseUnitMath, FiniteSetsExt, Functions

CONSTANTS Market,               \* base tokens
          USDC_FACTOR,          \* 10 ** (18 - decimals of USDC)
          ONE_DAY_IN_SECONDS,   \* over which Perp's premium is paid
          LEVER_UP_SLIPPAGE,    \* of the test helper leverUp
          maxPerpPositionsPerSet,
          SpotPrice,            \* prices a market can have
          PerpQuantity,         \* amounts of sets issued or redeemed at once
          TradeUnits,           \* base units per set a manager trades
          DepositUnits,         \* USDC per set a manager deposits or withdraws
          LeverageRatio,        \* of the test helper leverUp
          Slippage,             \* of a swap, in quote
          PremiumStep,          \* growth of a market's premium
          PerpFee,              \* protocol fees on a trade
          MaxPerpSupply, MaxPerpSteps   \* bounds

ASSUME PerpAssumption ==
    /\ USDC_FACTOR \in Nat \ {0} /\ ONE_DAY_IN_SECONDS \in Nat \ {0}
    /\ SpotPrice \subseteq Nat \ {0} /\ PerpQuantity \subseteq Nat \ {0}
    /\ Slippage \subseteq Nat /\ TradeUnits \subseteq Int /\ PremiumStep \subseteq Int
    /\ DepositUnits \subseteq Nat /\ PerpFee \subseteq Nat /\ LeverageRatio \subseteq Nat
    /\ LEVER_UP_SLIPPAGE \in 0 .. PRECISE_UNIT
    /\ IsFiniteSet(Market)

VARIABLES perpSupply,           \* of the set
          base, quote,          \* Perp: the set's balances, market by market
          collateral,           \* Perp: the set's vault balance, in USDC decimals
          owedRealizedPnl,      \* Perp
          twPremium,            \* Perp: premium each market has accumulated
          lastTwPremium,        \* Perp: and had when the set's position was last settled
          spot,                 \* Perp: price of each market
          markBelowIndex,       \* Perp: which way its premium goes at the moment
          positions,            \* of the module: markets the set has a position in
          external,             \* of the set: external position in USDC, and its unit
          perpSteps

perpVars == <<perpSupply, base, quote, collateral, owedRealizedPnl, twPremium, lastTwPremium,
              spot, markBelowIndex, positions, external, perpSteps>>

\* int256 preciseMul and preciseDiv truncate toward zero.
preciseMulInt(a, b) == Quotient(a * b, PRECISE_UNIT)
preciseDivInt(a, b) == Quotient(a * PRECISE_UNIT, b)
fromPreciseUnitToDecimals(a) == Quotient(a, USDC_FACTOR)

PerpCounted == perpSteps < MaxPerpSteps /\ perpSteps' = perpSteps + 1

-----------------------------------------------------------------------------
(* Perp.                                                                    *)

\* A market's state for the set: what openPosition reads and writes.
MarketState(b) == [base |-> base[b], quote |-> quote[b], owed |-> 0]

\* Quote that a swap of a signed amount of base costs or brings.
SwapQuote(b, amount, slippage) ==
    IF amount > 0 THEN preciseMulCeil(amount, spot[b]) + slippage
    ELSE Max({0, preciseMul(-amount, spot[b]) - slippage})

\* Perp's openPosition on one market: opening adds to base and quote, reducing realizes the
\* closed share of the quote, and going through zero does both.
openPosition(m, amount, deltaQuote) ==
    LET q == IF amount > 0 THEN -deltaQuote ELSE deltaQuote
        reducing == m.base # 0 /\ (m.base > 0) # (amount > 0)
        closed == Quotient(m.quote * abs(amount), abs(m.base))
        closing == Quotient(q * abs(m.base), abs(amount))
    IN  CASE ~ reducing -> [m EXCEPT !.base = @ + amount, !.quote = @ + q]
          [] reducing /\ abs(amount) <= abs(m.base) ->
               [base |-> m.base + amount, quote |-> m.quote - closed, owed |-> m.owed + closed + q]
          [] OTHER ->
               [base |-> m.base + amount, quote |-> q - closing, owed |-> m.owed + m.quote + closing]

\* Funding the set owes in a market.
pendingFunding(b) ==
    Quotient(base[b] * (twPremium[b] - lastTwPremium[b]), ONE_DAY_IN_SECONDS * PRECISE_UNIT)
allPendingFunding == SumFunctionOnSet([b \in Market |-> pendingFunding(b)], Market)

\* Swaps in some markets, each of which settles the funding of its market.
Swaps(amount, slippage) ==
    LET after == [b \in DOMAIN amount |->
                    openPosition(MarketState(b), amount[b], SwapQuote(b, amount[b], slippage))]
        realized == [b \in DOMAIN amount |-> after[b].owed - pendingFunding(b)]
    IN  [base |-> [b \in Market |-> IF b \in DOMAIN amount THEN after[b].base ELSE base[b]],
         quote |-> [b \in Market |-> IF b \in DOMAIN amount THEN after[b].quote ELSE quote[b]],
         realized |-> SumFunctionOnSet(realized, DOMAIN amount)]

SettledPremium(markets) ==
    [b \in Market |-> IF b \in markets THEN twPremium[b] ELSE lastTwPremium[b]]

-----------------------------------------------------------------------------
(* The module.                                                              *)

getAccountInfo(listed) ==
    [collateralBalance |-> collateral * USDC_FACTOR,
     owedRealizedPnl |-> owedRealizedPnl,
     pendingFundingPayments |-> -allPendingFunding,
     netQuoteBalance |-> SumFunctionOnSet(quote, listed)]

hasBaseBalance(balance, supply) == abs(preciseDivInt(balance, supply)) > 1

syncPositionList == {b \in positions : hasBaseBalance(base[b], perpSupply)}

calculatePartialAccountValuePositionUnit(listed) ==
    LET info == getAccountInfo(listed)
    IN  preciseDivInt(info.collateralBalance + info.owedRealizedPnl
                        + info.pendingFundingPayments + info.netQuoteBalance, perpSupply)

\* Base that goes with an amount of sets, in each listed market; sold when redeeming.
shareOf(b, quantity) == preciseMulInt(preciseDivInt(base[b], perpSupply), quantity)
shareTrades(quantity, isIssue) ==
    [b \in syncPositionList |-> IF isIssue THEN shareOf(b, quantity) ELSE -shareOf(b, quantity)]

\* Value of the sets issued or redeemed, with what the swaps really cost or brought.
accountValueIssued(quantity, isIssue, slippage) ==
    LET trades == shareTrades(quantity, isIssue)
        deltaQuote(b) == SwapQuote(b, trades[b], slippage)
        signed == [b \in syncPositionList |->
                      IF shareOf(b, quantity) >= 0 THEN deltaQuote(b) ELSE -deltaQuote(b)]
    IN  preciseMulInt(calculatePartialAccountValuePositionUnit(syncPositionList), quantity)
          + SumFunctionOnSet(signed, syncPositionList)

\* External position unit the hook leaves for the issuance module; a negative value is
\* represented as zero.
executePositionTrades(quantity, isIssue, slippage) ==
    LET value == accountValueIssued(quantity, isIssue, slippage)
    IN  IF value <= 0 THEN 0
        ELSE fromPreciseUnitToDecimals(IF isIssue THEN preciseDivCeil(value, quantity)
                                       ELSE preciseDiv(value, quantity))

\* Perp refuses a swap of nothing, which an amount of sets too small for a position makes.
swapsOK(quantity) == \A b \in syncPositionList : shareOf(b, quantity) # 0

PerpInit ==
    /\ perpSupply \in PerpQuantity
    /\ base = [b \in Market |-> 0] /\ quote = [b \in Market |-> 0]
    /\ collateral = 0 /\ owedRealizedPnl = 0
    /\ twPremium = [b \in Market |-> 0] /\ lastTwPremium = [b \in Market |-> 0]
    /\ spot \in [Market -> SpotPrice] /\ markBelowIndex = [b \in Market |-> FALSE]
    /\ positions = {}
    /\ external = [open |-> FALSE, unit |-> 0]
    /\ perpSteps = 0

issueTransfer(quantity, slippage) ==
    preciseMulCeil(quantity, executePositionTrades(quantity, TRUE, slippage))

\* Faulty: componentIssueHook does not deposit the USDC that was transferred.
issueWithoutDeposit(quantity, slippage) ==
    LET perp == Swaps(shareTrades(quantity, TRUE), slippage)
    IN  /\ perpSupply > 0 /\ external.open
        /\ perpSupply + quantity <= MaxPerpSupply
        /\ swapsOK(quantity)
        /\ positions' = syncPositionList
        /\ base' = perp.base /\ quote' = perp.quote
        /\ owedRealizedPnl' = owedRealizedPnl + perp.realized
        /\ lastTwPremium' = SettledPremium(syncPositionList)
        /\ external' = [external EXCEPT !.unit = executePositionTrades(quantity, TRUE, slippage)]
        /\ perpSupply' = perpSupply + quantity
        /\ PerpCounted
        /\ UNCHANGED <<collateral, twPremium, spot, markBelowIndex>>

\* issue: moduleIssueHook, the transfer of USDC, componentIssueHook, the mint.
PerpIssue(quantity, slippage) ==
    LET trades == shareTrades(quantity, TRUE)
        perp == Swaps(trades, slippage)
    IN  /\ perpSupply > 0 /\ external.open
        /\ perpSupply + quantity <= MaxPerpSupply
        /\ swapsOK(quantity)
        /\ positions' = syncPositionList
        /\ base' = perp.base /\ quote' = perp.quote
        /\ owedRealizedPnl' = owedRealizedPnl + perp.realized
        /\ lastTwPremium' = SettledPremium(syncPositionList)
        /\ collateral' = collateral + issueTransfer(quantity, slippage)
        /\ external' = [external EXCEPT !.unit = executePositionTrades(quantity, TRUE, slippage)]
        /\ perpSupply' = perpSupply + quantity
        /\ PerpCounted
        /\ UNCHANGED <<twPremium, spot, markBelowIndex>>

\* The hooks return early: the set has no external position.
PlainIssue(quantity) ==
    /\ ~ external.open
    /\ perpSupply + quantity <= MaxPerpSupply
    /\ perpSupply' = perpSupply + quantity
    /\ PerpCounted
    /\ UNCHANGED <<base, quote, collateral, owedRealizedPnl, twPremium, lastTwPremium, spot,
                   markBelowIndex, positions, external>>

PlainRedeem(quantity) ==
    /\ ~ external.open
    /\ perpSupply >= quantity
    /\ perpSupply' = perpSupply - quantity
    /\ PerpCounted
    /\ UNCHANGED <<base, quote, collateral, owedRealizedPnl, twPremium, lastTwPremium, spot,
                   markBelowIndex, positions, external>>

\* After the last redemption the position may still be listed.  moduleIssueHook returns
\* early then, and componentIssueHook deposits at the unit that redemption left.
IssueAfterLastRedemption(quantity) ==
    /\ perpSupply = 0 /\ external.open
    /\ perpSupply + quantity <= MaxPerpSupply
    /\ collateral' = collateral + preciseMulCeil(quantity, external.unit)
    /\ perpSupply' = perpSupply + quantity
    /\ PerpCounted
    /\ UNCHANGED <<base, quote, owedRealizedPnl, twPremium, lastTwPremium, spot, markBelowIndex,
                   positions, external>>

redeemTransfer(quantity, slippage) ==
    preciseMul(quantity, executePositionTrades(quantity, FALSE, slippage))

\* Perp's withdraw settles all funding, moves realized profit into the vault, and pays if
\* the vault then has the amount.  A withdrawal of nothing is not made.
Withdrawn(amount, owed, settled) ==
    LET notYet == {b \in Market : b \notin settled}
        due == owed - SumFunctionOnSet([b \in notYet |-> pendingFunding(b)], notYet)
        vault == collateral + fromPreciseUnitToDecimals(due) - amount
    IN  IF amount = 0
        THEN /\ collateral' = collateral /\ owedRealizedPnl' = owed
             /\ lastTwPremium' = SettledPremium(settled)
        ELSE /\ vault >= 0
             /\ collateral' = vault
             /\ owedRealizedPnl' = due - USDC_FACTOR * fromPreciseUnitToDecimals(due)
             /\ lastTwPremium' = twPremium

\* redeem: moduleRedeemHook, componentRedeemHook, the burn.
PerpRedeem(quantity, slippage) ==
    LET perp == Swaps(shareTrades(quantity, FALSE), slippage)
    IN  /\ perpSupply >= quantity /\ external.open
        /\ swapsOK(quantity)
        /\ positions' = syncPositionList
        /\ base' = perp.base /\ quote' = perp.quote
        /\ Withdrawn(redeemTransfer(quantity, slippage), owedRealizedPnl + perp.realized,
                     syncPositionList)
        /\ external' = [external EXCEPT !.unit = executePositionTrades(quantity, FALSE, slippage)]
        /\ perpSupply' = perpSupply - quantity
        /\ PerpCounted
        /\ UNCHANGED <<twPremium, spot, markBelowIndex>>

\* The order of a trade: the exact opposite of the position's unit closes it completely.
baseNotional(b, units) ==
    IF units = -preciseDivInt(base[b], perpSupply) THEN -base[b]
    ELSE preciseMulInt(units, perpSupply)

updatedPositionList(b, newBase) ==
    IF b \notin positions THEN positions \cup {b}
    ELSE IF hasBaseBalance(newBase, perpSupply) THEN positions ELSE positions \ {b}

\* The bound on the quote is a maximum when buying and a minimum when selling.
boundOK(amount, deltaQuote, quoteUnits) ==
    LET bound == preciseMul(quoteUnits, perpSupply)
    IN  IF amount > 0 THEN deltaQuote <= bound ELSE deltaQuote >= bound

\* trade, by the manager.
PerpTrade(b, units, quoteUnits, slippage, fee) ==
    LET amount == baseNotional(b, units)
        deltaQuote == SwapQuote(b, amount, slippage)
        perp == Swaps([x \in {b} |-> amount], slippage)
    IN  /\ perpSupply > 0
        /\ units # 0 /\ amount # 0
        /\ boundOK(amount, deltaQuote, quoteUnits)
        /\ b \notin positions => Cardinality(positions) < maxPerpPositionsPerSet
        /\ base' = perp.base /\ quote' = perp.quote
        /\ Withdrawn(fromPreciseUnitToDecimals(preciseMul(deltaQuote, fee)),
                     owedRealizedPnl + perp.realized, {b})
        /\ positions' = updatedPositionList(b, base'[b])
        /\ PerpCounted
        /\ UNCHANGED <<perpSupply, twPremium, spot, markBelowIndex, external>>

\* editExternalPosition with the vault's balance per set: a unit of zero closes the
\* position, unless its unit was zero already.
UpdateExternalPositionUnit ==
    LET unit == fromPreciseUnitToDecimals(preciseDivInt(collateral' * USDC_FACTOR, perpSupply))
    IN  external' = IF unit # 0 THEN [open |-> TRUE, unit |-> unit]
                    ELSE IF external.unit # 0 THEN [open |-> FALSE, unit |-> 0]
                    ELSE external

\* deposit and withdraw, of USDC the set holds.
PerpDeposit(units) ==
    /\ perpSupply > 0 /\ units > 0
    /\ collateral' = collateral + preciseMul(units, perpSupply)
    /\ UpdateExternalPositionUnit
    /\ PerpCounted
    /\ UNCHANGED <<perpSupply, base, quote, owedRealizedPnl, twPremium, lastTwPremium, spot,
                   markBelowIndex, positions>>

PerpWithdraw(units) ==
    /\ perpSupply > 0 /\ units > 0
    /\ Withdrawn(preciseMulCeil(units, perpSupply), owedRealizedPnl, {})
    /\ UpdateExternalPositionUnit
    /\ PerpCounted
    /\ UNCHANGED <<perpSupply, base, quote, twPremium, spot, markBelowIndex, positions>>

\* The market moves; funding accumulates.
MarketMoves(b, p, premium) ==
    /\ spot' = [spot EXCEPT ![b] = p]
    /\ twPremium' = [twPremium EXCEPT ![b] = @ + premium]
    /\ markBelowIndex' = [markBelowIndex EXCEPT ![b] = premium < 0]
    /\ PerpCounted
    /\ UNCHANGED <<perpSupply, base, quote, collateral, owedRealizedPnl, lastTwPremium, positions,
                   external>>

\* Perp closes a position of the set against its will; the module is not told.
Liquidate(b, slippage) ==
    LET perp == Swaps([x \in {b} |-> -base[b]], slippage)
    IN  /\ base[b] # 0
        /\ base' = perp.base /\ quote' = perp.quote
        /\ owedRealizedPnl' = owedRealizedPnl + perp.realized
        /\ lastTwPremium' = SettledPremium({b})
        /\ PerpCounted
        /\ UNCHANGED <<perpSupply, collateral, twPremium, spot, markBelowIndex, positions, external>>

\* The test suite's helpers.
PerpUtils == INSTANCE PerpV2Utils

\* A trade as the helper leverUp asks for it.
LeverUp(b, ratio, isLong, slippage) ==
    LET ask == PerpUtils!leverUp(collateral * USDC_FACTOR, perpSupply, spot[b], ratio, isLong)
    IN  perpSupply > 0 /\ PerpTrade(b, ask.baseUnit, ask.quoteUnit, slippage, 0)

PerpNext ==
    \/ \E q \in PerpQuantity, s \in Slippage : PerpIssue(q, s) \/ PerpRedeem(q, s)
    \/ \E q \in PerpQuantity : PlainIssue(q) \/ PlainRedeem(q) \/ IssueAfterLastRedemption(q)
    \/ \E b \in Market, u \in TradeUnits, s \in Slippage, f \in PerpFee :
         PerpTrade(b, u, IF u > 0 THEN MaxPerpSupply * PRECISE_UNIT ELSE 0, s, f)
    \/ \E b \in Market, k \in LeverageRatio, isLong \in BOOLEAN, s \in Slippage :
         LeverUp(b, k, isLong, s)
    \/ \E u \in DepositUnits : PerpDeposit(u) \/ PerpWithdraw(u)
    \/ \E b \in Market, p \in SpotPrice, x \in PremiumStep : MarketMoves(b, p, x)
    \/ \E b \in Market, s \in Slippage : Liquidate(b, s)

PerpSpec == PerpInit /\ [][PerpNext]_perpVars

-----------------------------------------------------------------------------
(* Properties.                                                              *)

\* What the set has in a market is worth at the spot price, and the whole account; in
\* parts of PRECISE_UNIT.
marketValue(b) == PRECISE_UNIT * (quote[b] - pendingFunding(b)) + base[b] * spot[b]
accountValue ==
    PRECISE_UNIT * (collateral * USDC_FACTOR + owedRealizedPnl)
      + SumFunctionOnSet([b \in Market |-> marketValue(b)], Market)

\* What rounding may cost the account when an amount of sets is issued or redeemed: a
\* precise unit of value and of base per set, a unit of USDC per set; and what positions
\* too small to be listed would bring, as their funding is charged and they are not traded.
perpRounding(quantity) ==
    LET unlisted == [b \in Market \ syncPositionList |->
                        abs(PRECISE_UNIT * quote[b] + base[b] * spot[b])]
        perUnit == (quantity + PRECISE_UNIT) * (PRECISE_UNIT + SumFunctionOnSet(spot, Market))
    IN  perpSupply * ((perUnit \div PRECISE_UNIT) + 1 + USDC_FACTOR * quantity)
          + quantity * SumFunctionOnSet(unlisted, Market \ syncPositionList)

\* "Slippage is borne by the issuer": whoever issues or redeems, against positions long or
\* short, after price moves, funding and liquidations, leaves the account worth what it was
\* for each of the other sets, up to rounding.  A redemption from an account that has
\* nothing left for it is the exception: the code then represents its share as zero.
SlippageBorneByIssuer ==
    [][perpSupply' # perpSupply /\ perpSupply > 0 /\ external.open
           /\ (perpSupply' < perpSupply => external'.unit > 0) =>
         perpSupply' * accountValue
           <= perpSupply * accountValue' + perpRounding(abs(perpSupply' - perpSupply))]_perpVars

\* What the helpers read of the module: its markets as they are stored, getPositionUnitInfo
\* and getPositionNotionalInfo, and a quote of the swap in each.
Listed == [b \in positions |-> [base |-> base[b], quote |-> quote[b]]]
Quotes(quantity, isIssue, slippage) ==
    [b \in positions |->
        SwapQuote(b, IF isIssue THEN shareOf(b, quantity) ELSE -shareOf(b, quantity), slippage)]

\* The hooks sync the list before they trade; the helpers have to find it in sync.  It is
\* not from a liquidation, or an issue that takes a base unit down to 1, to the next hook.
PositionsInSync == positions = syncPositionList

\* The helpers predict the USDC an issue moves, for any mix of long and short positions in
\* sync, after price moves and funding, and after liquidations once a hook has synced the
\* list: within one unit, and one for each whole set.
HelpersPredictTransferIn ==
    \A q \in PerpQuantity, s \in Slippage :
        LET expected == PerpUtils!calculateUSDCTransferIn(
                getAccountInfo(positions), Listed, perpSupply, q, Quotes(q, TRUE, s), spot)
        IN  perpSupply > 0 /\ PositionsInSync /\ swapsOK(q) =>
              IF accountValueIssued(q, TRUE, s) <= 0 THEN expected <= 0 /\ issueTransfer(q, s) = 0
              ELSE PRECISE_UNIT * abs(issueTransfer(q, s) - expected) <= q + PRECISE_UNIT

\* And the USDC a redemption moves.  Where the contract takes a share of the quote of all
\* markets by the supply, the helper closes each market by its own ratio; and it drops the
\* sign of a value that the contract represents as zero.
HelpersPredictTransferOut ==
    \A q \in PerpQuantity, s \in Slippage :
        LET expected == PerpUtils!calculateUSDCTransferOut(
                getAccountInfo(positions), Listed, perpSupply, q, Quotes(q, FALSE, s))
            \* closing ratio: one part of PRECISE_UNIT, base truncated to whole units, and
            \* then the quote
            closing == [b \in syncPositionList |->
                           abs(quote[b]) + (abs(quote[b]) * (q + PRECISE_UNIT)) \div abs(base[b])
                             + PRECISE_UNIT + 1]
        IN  perpSupply >= q /\ PositionsInSync /\ swapsOK(q) /\ accountValueIssued(q, FALSE, s) > 0 =>
              PRECISE_UNIT * USDC_FACTOR * abs(redeemTransfer(q, s) - expected)
                <= USDC_FACTOR * (q + 2 * PRECISE_UNIT) + 2 * (q + PRECISE_UNIT)
                     + SumFunctionOnSet(closing, syncPositionList)

\* leverUp's bound, for which it always allows two percent, is met by a swap that costs the
\* spot price wherever two percent is more than the rounding of a unit per set, and the
\* market's leverage is then the one asked for or below it.
LeverUpAccepted ==
    \A b \in Market, k \in LeverageRatio, isLong \in BOOLEAN :
        LET notional == k * collateral * USDC_FACTOR
            ask == PerpUtils!leverUp(collateral * USDC_FACTOR, perpSupply, spot[b], k, isLong)
            amount == baseNotional(b, ask.baseUnit)
            rounding == ((perpSupply \div PRECISE_UNIT) + 2) * ((spot[b] \div PRECISE_UNIT) + 1) + 1
        IN  perpSupply > 0 /\ base[b] = 0 /\ ask.baseUnit # 0 /\ amount # 0 =>
              /\ preciseMul(notional, LEVER_UP_SLIPPAGE) >= rounding =>
                   boundOK(amount, SwapQuote(b, amount, 0), ask.quoteUnit)
              /\ abs(amount) * spot[b] <= notional * PRECISE_UNIT

\* In a market the set has not settled since its premium started to grow, and whose premium
\* goes one way, getNetFundingGrowth is the funding the module reports; after a settlement
\* or a change of direction it is not.
FundingPredicted ==
    \A b \in Market :
        LET expected == PerpUtils!getNetFundingGrowth(base[b], twPremium[b], markBelowIndex[b])
        IN  lastTwPremium[b] = 0 /\ (twPremium[b] = 0 \/ markBelowIndex[b] = (twPremium[b] < 0)) =>
              PRECISE_UNIT * abs(expected + pendingFunding(b)) <= abs(base[b]) + PRECISE_UNIT

\* What perpV2Utils.ts expects of issues, redemptions, trades and funding is what the modules
\* do: of issues and redemptions while the module's list is in sync, of the others in every
\* state of a levered set and its markets.
HelpersPredictPerp ==
    HelpersPredictTransferIn /\ HelpersPredictTransferOut /\ LeverUpAccepted /\ FundingPredicted

\* "Returns notional amount of USDC to transfer on redeem. Handles multiple positions, long
\* and short": it has an answer for every redemption that passes.
HelperAnswersRedemptions ==
    \A q \in PerpQuantity :
        perpSupply >= q /\ external.open /\ swapsOK(q) => PerpUtils!calculateUSDCTransferOutOK(Listed)
=============================================================================
