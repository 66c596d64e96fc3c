----------------------------- MODULE NAVIssuance -----------------------------
(***************************************************************************)
(* CustomOracleNavIssuanceModule on a set that BasicIssuanceModule also    *)
(* issues and redeems (contracts/protocol/modules/v1): sets are issued for *)
(* one reserve asset and redeemed into one, at the net asset value that    *)
(* SetValuer computes from the oracle's prices.  Supply changes while the  *)
(* other components stay where they are, so the position multiplier makes  *)
(* up for it, and only the reserve position's unit is written.             *)
(*                                                                         *)
(* The prices are whatever the oracle says next.  Fees and premium are     *)
(* inputs of the step that charges them: the manager (editManagerFee,      *)
(* editPremium) and the Controller's owner may change them between any two *)
(* steps, the manager up to the maxima of initialize.  The minimum a       *)
(* caller asks for, which only makes a call revert, and the manager's      *)
(* hooks are left out; ether is the reserve asset weth.                    *)
(***************************************************************************)
EXTENDS Issuance, FiniteSetsExt

CONSTANTS BaseUnits,            \* 10 ** decimals of each component
          masterQuoteAsset,     \* of the price oracle
          Price,                \* prices in the master quote asset
          ReserveQuantity,      \* amounts of a reserve asset paid at once
          ManagerFee, Premium,  \* up to their maxima, in precise units
          minSetTokenSupply,
          MAX_POSITION_MULTIPLIER,
          MaxNavIssued,         \* bound on the sets ever issued through BasicIssuanceModule
          MaxNavSteps           \* bound on the NAV issues and redemptions

\* What initialize requires of the settings, among others.
ASSUME NavAssumption ==
    /\ ManagerFee \subseteq 0 .. PRECISE_UNIT - 1 /\ Premium \subseteq 0 .. PRECISE_UNIT - 1
    /\ minSetTokenSupply \in Nat \ {0}
    /\ BaseUnits \in [Component -> 1 .. PRECISE_UNIT]
    /\ \A c \in Component : PRECISE_UNIT % BaseUnits[c] = 0   \* both are powers of ten
    /\ masterQuoteAsset \in Component
    /\ Price \subseteq Nat \ {0} /\ ReserveQuantity \subseteq Nat

VARIABLES navInitialized,
          reserveAssets,        \* as a set: the list and isReserveAsset are written together
          price,                \* of the oracle, in the master quote asset
          navIssued,            \* sets ever issued against components (history)
          navSteps              \* NAV issues and redemptions so far

navSettings == <<navInitialized, reserveAssets>>
navVars == <<vars, navSettings, price, navIssued, navSteps>>

\* Bound of the model, on every NAV issue and redemption.
Counted == navSteps < MaxNavSteps /\ navSteps' = navSteps + 1

-----------------------------------------------------------------------------
(* Settings.                                                                *)

NavInitialize(assets) ==
    /\ ~ navInitialized
    /\ assets # {}
    /\ navInitialized' = TRUE
    /\ reserveAssets' = assets
    /\ UNCHANGED <<vars, price, navIssued, navSteps>>

NavRemoveModule ==
    /\ navInitialized
    /\ navInitialized' = FALSE
    /\ reserveAssets' = {}
    /\ UNCHANGED <<vars, price, navIssued, navSteps>>

addReserveAsset(c) ==
    /\ navInitialized
    /\ c \notin reserveAssets
    /\ reserveAssets' = reserveAssets \cup {c}
    /\ UNCHANGED <<vars, navInitialized, price, navIssued, navSteps>>

removeReserveAsset(c) ==
    /\ navInitialized
    /\ c \in reserveAssets
    /\ reserveAssets' = reserveAssets \ {c}
    /\ UNCHANGED <<vars, navInitialized, price, navIssued, navSteps>>

-----------------------------------------------------------------------------
(* Valuation and fees.                                                      *)

calculateSetTokenValuation(quoteAsset) ==
    LET value == [c \in Component |-> preciseMul(preciseDiv(unit(c), BaseUnits[c]), price[c])]
        valuation == SumFunctionOnSet(value, Range(pos.components))
    IN  IF quoteAsset = masterQuoteAsset THEN valuation
        ELSE preciseDiv(valuation, price[quoteAsset])

\* The manager's fee is split with the protocol before it is applied to the quantity, so
\* that the two parts are rounded separately.
getFees(quantity, managerFeePercent, revenueShare, directFee) ==
    LET sharePercentage == preciseMul(revenueShare, managerFeePercent)
        protocolFees == preciseMul(sharePercentage + directFee, quantity)
        managerFee == preciseMul(managerFeePercent - sharePercentage, quantity)
    IN  [protocolFees |-> protocolFees, managerFee |-> managerFee,
         netFlowQuantity |-> quantity - protocolFees - managerFee]

\* SafeMath: neither the manager's part nor what is left may be negative.
getFeesOK(quantity, managerFeePercent, revenueShare, directFee) ==
    /\ preciseMul(revenueShare, managerFeePercent) <= managerFeePercent
    /\ getFees(quantity, managerFeePercent, revenueShare, directFee).netFlowQuantity >= 0

-----------------------------------------------------------------------------
(* Issue.                                                                   *)

\* Value of the supply, and of what the issuer gives beyond what it is credited with.
mintDenominator(reserve, netFlow, premium) ==
    LET premiumValue == preciseMul(netFlow, premium)
    IN  preciseMul(totalSupply, calculateSetTokenValuation(reserve))
          + preciseDiv(netFlow, BaseUnits[reserve])
          - preciseDiv(netFlow - premiumValue, BaseUnits[reserve])

\* Faulty: credits the issuer with the premium as well.
mintWithPremium(reserve, netFlow, premium) ==
    preciseDiv(preciseMul(preciseDiv(netFlow, BaseUnits[reserve]), totalSupply),
               mintDenominator(reserve, netFlow, premium))

getSetTokenMintQuantity(reserve, netFlow, premium) ==
    LET premiumValue == preciseMul(netFlow, premium)
        netFeesAndPremium == preciseDiv(netFlow - premiumValue, BaseUnits[reserve])
    IN  preciseDiv(preciseMul(netFeesAndPremium, totalSupply), mintDenominator(reserve, netFlow, premium))

\* For issue and redeem alike.
getPositionMultiplier(newSupply) == (pos.positionMultiplier * totalSupply) \div newSupply

getIssuePositionUnit(reserve, netFlow, newSupply) ==
    preciseDiv(preciseMul(unit(reserve), totalSupply) + netFlow, newSupply)

\* The multiplier, then the reserve position: the closing writes of both.
StateUpdatesOK(reserve, multiplier, newUnit) ==
    /\ validateNewMultiplier(pos, multiplier)
    /\ editDefaultPositionOK(editPositionMultiplier(pos, multiplier), reserve, newUnit)

\* Faulty: the multiplier stays.
updatedUnitOnly(reserve, multiplier, newUnit) == editDefaultPosition(pos, reserve, newUnit)

\* Faulty: the reserve's unit is written under the old multiplier.
unitBeforeMultiplier(reserve, multiplier, newUnit) ==
    editPositionMultiplier(editDefaultPosition(pos, reserve, newUnit), multiplier)

StateUpdates(reserve, multiplier, newUnit) ==
    editDefaultPosition(editPositionMultiplier(pos, multiplier), reserve, newUnit)

navIssueOK(reserve, quantity, premium, fee, revenueShare, directFee) ==
    LET netFlow == getFees(quantity, fee, revenueShare, directFee).netFlowQuantity
        newSupply == totalSupply + getSetTokenMintQuantity(reserve, netFlow, premium)
    IN  /\ navInitialized
        /\ quantity > 0 /\ reserve \in reserveAssets
        /\ getFeesOK(quantity, fee, revenueShare, directFee)
        /\ mintDenominator(reserve, netFlow, premium) > 0
        /\ totalSupply >= minSetTokenSupply
        /\ StateUpdatesOK(reserve, getPositionMultiplier(newSupply),
                          getIssuePositionUnit(reserve, netFlow, newSupply))

\* issue and issueWithEther: the fees go straight to their recipients.
NavIssue(reserve, quantity, premium, fee, revenueShare, directFee) ==
    LET netFlow == getFees(quantity, fee, revenueShare, directFee).netFlowQuantity
        newSupply == totalSupply + getSetTokenMintQuantity(reserve, netFlow, premium)
    IN  /\ navIssueOK(reserve, quantity, premium, fee, revenueShare, directFee)
        /\ pos' = StateUpdates(reserve, getPositionMultiplier(newSupply),
                               getIssuePositionUnit(reserve, netFlow, newSupply))
        /\ totalSupply' = newSupply
        /\ balance' = [balance EXCEPT ![reserve] = @ + netFlow]
        /\ WithinBounds(totalSupply', balance')
        /\ Counted
        /\ UNCHANGED <<navSettings, price, navIssued>>

-----------------------------------------------------------------------------
(* Redeem.                                                                  *)

getRedeemReserveQuantity(reserve, quantity, premium) ==
    LET prePremium == preciseMul(preciseMul(quantity, calculateSetTokenValuation(reserve)),
                                 BaseUnits[reserve])
    IN  prePremium - preciseMulCeil(prePremium, premium)

\* Reserve asset the positions have for the whole supply.
availableReserve(reserve) == preciseMul(unit(reserve), totalSupply)

getRedeemPositionUnit(reserve, outflow, newSupply) ==
    preciseDiv(availableReserve(reserve) - outflow, newSupply)

\* The redeemer's part and both fees add up to the quantity before fees.
navRedeemOK(reserve, quantity, premium, fee, revenueShare, directFee) ==
    LET outflow == getRedeemReserveQuantity(reserve, quantity, premium)
        newSupply == totalSupply - quantity
    IN  /\ navInitialized
        /\ quantity > 0 /\ reserve \in reserveAssets
        /\ getFeesOK(outflow, fee, revenueShare, directFee)
        /\ newSupply >= minSetTokenSupply /\ newSupply > 0
        /\ getPositionMultiplier(newSupply) <= MAX_POSITION_MULTIPLIER
        /\ availableReserve(reserve) >= outflow
        /\ balance[reserve] >= outflow
        /\ StateUpdatesOK(reserve, getPositionMultiplier(newSupply),
                          getRedeemPositionUnit(reserve, outflow, newSupply))

\* redeem and redeemIntoEther.
NavRedeem(reserve, quantity, premium, fee, revenueShare, directFee) ==
    LET outflow == getRedeemReserveQuantity(reserve, quantity, premium)
        newSupply == totalSupply - quantity
    IN  /\ navRedeemOK(reserve, quantity, premium, fee, revenueShare, directFee)
        /\ totalSupply' = newSupply
        /\ balance' = [balance EXCEPT ![reserve] = @ - outflow]
        /\ pos' = StateUpdates(reserve, getPositionMultiplier(newSupply),
                               getRedeemPositionUnit(reserve, outflow, newSupply))
        /\ Counted
        /\ UNCHANGED <<navSettings, price, navIssued>>

-----------------------------------------------------------------------------

NavInit ==
    /\ Init
    /\ navInitialized = FALSE /\ reserveAssets = {}
    /\ price \in [Component -> Price \cup {PRECISE_UNIT}]
    /\ price[masterQuoteAsset] = PRECISE_UNIT
    /\ navIssued = 0 /\ navSteps = 0

\* The oracle has a new price (external).
OracleUpdate(c, p) ==
    /\ c # masterQuoteAsset
    /\ price' = [price EXCEPT ![c] = p]
    /\ UNCHANGED <<vars, navSettings, navIssued, navSteps>>

BasicIssueSets(quantity) ==
    /\ navIssued + quantity <= MaxNavIssued
    /\ BasicIssue(quantity)
    /\ navIssued' = navIssued + quantity
    /\ UNCHANGED <<navSettings, price, navSteps>>

BasicRedeemSets(quantity) ==
    /\ BasicRedeem(quantity)
    /\ UNCHANGED <<navSettings, price, navIssued, navSteps>>

SettingsStep ==
    \/ \E assets \in SUBSET Component : NavInitialize(assets)
    \/ NavRemoveModule
    \/ \E c \in Component : addReserveAsset(c) \/ removeReserveAsset(c)

NavNext ==
    \/ SettingsStep
    \/ \E c \in Component, p \in Price : OracleUpdate(c, p)
    \/ \E r \in Component, q \in ReserveQuantity, p \in Premium, f \in ManagerFee, s, d \in FeeRate :
         NavIssue(r, q, p, f, s, d)
    \/ \E r \in Component, q \in Quantity, p \in Premium, f \in ManagerFee, s, d \in FeeRate :
         NavRedeem(r, q, p, f, s, d)
    \/ \E q \in Quantity : BasicIssueSets(q) \/ BasicRedeemSets(q)

NavSpec == NavInit /\ [][NavNext]_navVars

-----------------------------------------------------------------------------
(* Properties.                                                              *)

\* What the set owes its holders, unrounded, is there, but for one base unit of a component
\* for each whole set ever issued against components: NAV issues and redemptions, in any
\* reserve asset and at any prices, add nothing to the shortfall.
NavShortfallBounded ==
    \A c \in Component :
        totalSupply * pos.virtualUnit[c] * pos.positionMultiplier
          <= PRECISE_UNIT * (balance[c] * PRECISE_UNIT + navIssued)

\* Value of PRECISE_UNIT base units of a component, whatever its decimals, in parts of a
\* precise unit of the master quote asset.
weight(c) == price[c] * (PRECISE_UNIT \div BaseUnits[c])

\* Value of a set's positions in the master quote asset, unrounded: in parts of
\* PRECISE_UNIT ^ 3.
exactValue ==
    SumFunctionOnSet([c \in Component |->
                        weight(c) * (pos.virtualUnit[c] * pos.positionMultiplier)], Component)

\* What truncation can cost, over the whole supply: in each component one base unit per set
\* before and one after, and one unit each of the virtual unit and of the multiplier.  The
\* sets minted are paid for by a valuation that is itself rounded, once in each component
\* and once in the reserve asset, and by the old supply's, whose last digit counts once for
\* every time they are the old supply: minSetTokenSupply keeps that part small.
truncationLoss(newSupply, newMultiplier) ==
    LET minted == IF newSupply > totalSupply THEN newSupply - totalSupply ELSE 0
        perSet == totalSupply + newSupply + PRECISE_UNIT
                    + 2 * minted + (minted * PRECISE_UNIT) \div totalSupply
    IN  SumFunctionOnSet([c \in Component |->
          weight(c) * (PRECISE_UNIT * perSet + newSupply * (pos.virtualUnit[c] + newMultiplier))
            + minted * (PRECISE_UNIT * PRECISE_UNIT)], Component)

\* Whoever issues or redeems at the net asset value, paying with or receiving any reserve
\* asset, at any premium and fees, leaves the sets of everybody else worth what they were,
\* up to truncation.
NoDilution ==
    [][navSteps' # navSteps =>
         totalSupply' * exactValue
           <= totalSupply' * exactValue' + truncationLoss(totalSupply', pos'.positionMultiplier)]_navVars

\* The test suite's own predictions, which stand in for the contract in its assertions.
TS == INSTANCE NavIssuanceModuleUtils

\* Two roundings of the same unit through a multiplier, one multiplying first and one
\* dividing first: how far apart they can be.
CloseUnits(contract, helper, multiplier) ==
    /\ (contract - helper) * multiplier < PRECISE_UNIT + multiplier
    /\ (helper - contract) * PRECISE_UNIT < PRECISE_UNIT + multiplier

\* The helper rounds the change of the supply first: exact while the multiplier is one, and
\* otherwise below the contract's multiplier by less than the multiplier's own size.
CloseMultipliers(contract, helper) ==
    /\ helper <= contract
    /\ (contract - helper) * PRECISE_UNIT < pos.positionMultiplier + PRECISE_UNIT
    /\ pos.positionMultiplier = PRECISE_UNIT => helper = contract

\* Real unit that is read back after newUnit was written under the multiplier.
UnitAfter(newUnit, multiplier) ==
    LET p == editPositionMultiplier(pos, multiplier)
    IN  convertVirtualToRealUnit(p, convertRealToVirtualUnit(p, newUnit))

\* In every state the system reaches, and not only from the multiplier of one that the
\* tests start at, the helpers of navIssuanceModuleUtils.ts predict an issue: the quantity
\* exactly, multiplier and unit up to their different order of rounding.  They know nothing
\* of the protocol's share of the manager's fee.
HelpersPredictIssue ==
    \A r \in Component, q \in ReserveQuantity, p \in Premium, f \in ManagerFee, d \in FeeRate :
        LET netFlow == getFees(q, f, 0, d).netFlowQuantity
            minted == getSetTokenMintQuantity(r, netFlow, p)
            newSupply == totalSupply + minted
            multiplier == getPositionMultiplier(newSupply)
        IN  navIssueOK(r, q, p, f, 0, d) =>
              /\ minted = TS!getExpectedSetTokenIssueQuantity(
                             calculateSetTokenValuation(r), totalSupply, BaseUnits[r], q, f, d, p)
              /\ CloseMultipliers(multiplier, TS!getExpectedIssuePositionMultiplier(
                             pos.positionMultiplier, totalSupply, newSupply))
              /\ CloseUnits(UnitAfter(getIssuePositionUnit(r, netFlow, newSupply), multiplier),
                            TS!getExpectedIssuePositionUnit(
                              unit(r), q, totalSupply, newSupply, multiplier, f, d),
                            multiplier)

\* And a redemption.  The helper charges premium and fees before it converts to the reserve
\* asset's decimals and the contract afterwards: they agree exactly when it has 18, and
\* otherwise within three base units, as long as the fees together take no more than all of
\* it: two fees and two conversions, each rounded by less than one.
HelpersPredictRedeem ==
    \A r \in Component, q \in Quantity, p \in Premium, f \in ManagerFee, d \in FeeRate :
        LET outflow == getRedeemReserveQuantity(r, q, p)
            received == getFees(outflow, f, 0, d).netFlowQuantity
            valuation == calculateSetTokenValuation(r)
            expected == TS!getExpectedReserveRedeemQuantity(q, valuation, BaseUnits[r], f, d, p)
            newSupply == totalSupply - q
            multiplier == getPositionMultiplier(newSupply)
        IN  navRedeemOK(r, q, p, f, 0, d) =>
              /\ BaseUnits[r] = PRECISE_UNIT => expected = received
              /\ f + d <= PRECISE_UNIT => expected \in received - 3 .. received + 3
              /\ CloseMultipliers(multiplier, TS!getExpectedRedeemPositionMultiplier(
                             pos.positionMultiplier, totalSupply, newSupply))
              /\ BaseUnits[r] = PRECISE_UNIT =>
                   CloseUnits(UnitAfter(getRedeemPositionUnit(r, outflow, newSupply), multiplier),
                              TS!getExpectedRedeemPositionUnit(
                                unit(r), q, valuation, BaseUnits[r], totalSupply, newSupply,
                                multiplier, p),
                              multiplier)

\* What navIssuanceModuleUtils.ts expects of either direction is what the module does.
HelpersPredictNav == HelpersPredictIssue /\ HelpersPredictRedeem
=============================================================================
