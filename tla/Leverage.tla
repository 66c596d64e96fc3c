------------------------------ MODULE Leverage ------------------------------
(***************************************************************************)
(* AaveLeverageModule, its twin AaveV3LeverageModule (the same control on  *)
(* another version of Aave) and the debt side of DebtIssuanceModuleV2, on  *)
(* one SetToken.  The set holds aTokens as default positions and owes Aave *)
(* what its external positions say, in units rounded up.                   *)
(*                                                                         *)
(* A collateral asset is named by its aToken: the underlying only passes   *)
(* through the set between Aave and the exchange.  Aave and the exchange   *)
(* are external.  Aave refuses zero amounts, caps a repayment at the debt, *)
(* and asks its health factor, without the rounding of its own arithmetic, *)
(* of every loan and of all collateral that leaves the set or stops to     *)
(* count: in a withdrawal, in a transfer of aTokens, in the end of its use *)
(* as collateral.  What it asks beyond that needs no guard, since a step   *)
(* need not happen.  The exchange takes at most what it was allowed and    *)
(* gives what it likes.  Between any two steps interest accrues, prices    *)
(* move, anybody repays for the set, or the set is liquidated.             *)
(*                                                                         *)
(* An asset array passed by the manager is one call per element here: the  *)
(* calls in between leave no state a shorter array would not.              *)
(***************************************************************************)
EXTENDS Issuance

CONSTANTS leverageModule,       \* the module's address
          Collateral,           \* aTokens of the assets Aave takes as collateral
          BorrowAsset,          \* assets Aave lends
          AaveValue,            \* prices at Aave, what counts of a collateral's
          ChecksEveryTransfer,  \* Aave V2; V3 checks aTokens in use as collateral
          ControllerMayDisable, \* whether the Controller's owner disables the module
          MaxDebt               \* bound

ASSUME LeverageAssumption ==
    /\ leverageModule \in Module \ UnitWriter
    /\ Collateral \subseteq Component /\ BorrowAsset \subseteq Component
    /\ Collateral \cap BorrowAsset = {}
    /\ AaveValue \subseteq [Component -> Nat \ {0}] /\ AaveValue # {}
    /\ ChecksEveryTransfer \in BOOLEAN
    /\ ControllerMayDisable \in BOOLEAN /\ MaxDebt \in Nat

VARIABLES debt,                 \* variable debt tokens of the set, per asset
          usageAsCollateral,    \* what Aave counts as the set's collateral
          value,                \* the prices of this moment
          moduleState,          \* of the leverage module, on the set
          enabledOnController,  \* controller.isModule(leverageModule)
          isModuleHook,         \* registered with the issuance module
          collateralAssets, borrowAssets,              \* enabledAssets
          collateralAssetEnabled, borrowAssetEnabled

aaveVars == <<debt, usageAsCollateral, value>>
assetVars == <<collateralAssets, borrowAssets, collateralAssetEnabled, borrowAssetEnabled>>
moduleVars == <<moduleState, enabledOnController, isModuleHook, assetVars>>
leverageVars == <<vars, aaveVars, moduleVars>>

LeverageInit ==
    /\ Init
    /\ debt = [b \in BorrowAsset |-> 0]
    /\ usageAsCollateral = {}
    /\ value \in AaveValue
    /\ moduleState = "NONE"
    /\ enabledOnController = TRUE
    /\ isModuleHook = FALSE
    /\ collateralAssets = <<>> /\ borrowAssets = <<>>
    /\ collateralAssetEnabled = {} /\ borrowAssetEnabled = {}

\* Aave starts to count an aToken as collateral when its balance leaves zero,
\* and stops when it returns there.
collateralUse(newBalance) ==
    {a \in Collateral : newBalance[a] > 0 /\ (balance[a] = 0 \/ a \in usageAsCollateral)}

\* The health factor: what is lent is worth no more than what counts as collateral.
collateralValue(newBalance, newUse) ==
    SumFunctionOnSet([a \in Collateral |-> newBalance[a] * value[a]], newUse)
borrowValue(newDebt) ==
    SumFunctionOnSet([b \in BorrowAsset |-> newDebt[b] * value[b]], BorrowAsset)
healthFactorOK(newBalance, newUse, newDebt) ==
    borrowValue(newDebt) <= collateralValue(newBalance, newUse)

\* Balances and debts after a step, within the bounds of the model.
Settle(newBalance, newDebt) ==
    /\ balance' = newBalance /\ debt' = newDebt
    /\ usageAsCollateral' = collateralUse(newBalance)
    /\ value' = value
    /\ WithinBounds(totalSupply', newBalance)
    /\ \A b \in BorrowAsset : newDebt[b] <= MaxDebt

initialized == moduleState = "INITIALIZED"

\* What SetToken's onlyModule asks of the leverage module.
mayWrite == initialized /\ enabledOnController

-----------------------------------------------------------------------------
(* Positions.                                                               *)

getCollateralPosition(newBalance, a) == preciseDiv(newBalance[a], totalSupply)

\* Faulty: debt rounded down.
borrowPositionRoundedDown(newDebt, b) == - preciseDiv(newDebt[b], totalSupply)
getBorrowPosition(newDebt, b) == - preciseDivCeil(newDebt[b], totalSupply)

borrowUnit(p, b) == getExternalPositionRealUnit(p, b, leverageModule)

updateBorrowPosition(p, b, newUnit) == editExternalPosition(p, b, leverageModule, newUnit)
updateBorrowPositionOK(p, b, newUnit) == editExternalPositionOK(p, b, leverageModule, newUnit)

\* Faulty: the borrow position is left as it was.
updateCollateralOnly(p, newBalance, newDebt, a, b) ==
    editDefaultPosition(p, a, getCollateralPosition(newBalance, a))

updateLeverPositions(p, newBalance, newDebt, a, b) ==
    updateBorrowPosition(editDefaultPosition(p, a, getCollateralPosition(newBalance, a)),
                         b, getBorrowPosition(newDebt, b))
updateLeverPositionsOK(p, newBalance, newDebt, a, b) ==
    /\ editDefaultPositionOK(p, a, getCollateralPosition(newBalance, a))
    /\ updateBorrowPositionOK(editDefaultPosition(p, a, getCollateralPosition(newBalance, a)),
                              b, getBorrowPosition(newDebt, b))

\* sync, with the balances and debts of this moment.  It does nothing on a
\* supply of zero, and only writes the units that differ.
collateralStale(a) == getDefaultPositionRealUnit(pos, a) # getCollateralPosition(balance, a)
\* Faulty: only notices a debt that shrank.
borrowOverstated(b) == borrowUnit(pos, b) < getBorrowPosition(debt, b)
borrowStale(b) == borrowUnit(pos, b) # getBorrowPosition(debt, b)

\* Positions once the first i collateral assets are in sync, and then the first i
\* borrow assets.
afterCollateral[i \in 0..Len(collateralAssets)] ==
    IF i = 0 THEN pos
    ELSE IF ~ collateralStale(collateralAssets[i]) THEN afterCollateral[i - 1]
    ELSE editDefaultPosition(afterCollateral[i - 1], collateralAssets[i],
                             getCollateralPosition(balance, collateralAssets[i]))

afterBorrow[i \in 0..Len(borrowAssets)] ==
    IF i = 0 THEN afterCollateral[Len(collateralAssets)]
    ELSE IF ~ borrowStale(borrowAssets[i]) THEN afterBorrow[i - 1]
    ELSE updateBorrowPosition(afterBorrow[i - 1], borrowAssets[i],
                              getBorrowPosition(debt, borrowAssets[i]))

synced == IF totalSupply = 0 THEN pos ELSE afterBorrow[Len(borrowAssets)]

syncOK ==
    /\ initialized
    /\ totalSupply > 0 =>
         /\ \A a \in Range(collateralAssets) : collateralStale(a) =>
              mayWrite /\ editDefaultPositionOK(pos, a, getCollateralPosition(balance, a))
         /\ \A b \in Range(borrowAssets) : borrowStale(b) =>
              mayWrite /\ updateBorrowPositionOK(pos, b, getBorrowPosition(debt, b))

Sync ==
    /\ syncOK
    /\ pos' = synced
    /\ UNCHANGED <<totalSupply, balance, aaveVars, moduleVars>>

-----------------------------------------------------------------------------
(* lever and delever.                                                       *)

validateCommon(a, b, notionalSendQuantity) ==
    a \in collateralAssetEnabled /\ b \in borrowAssetEnabled /\ notionalSendQuantity > 0

\* Borrow, sell, pay the protocol, deposit.  What the exchange leaves of the
\* loan stays with the set.
Lever(b, a, borrowUnits, minReceiveUnits, sent, received, feePercentage) ==
    LET borrowed == preciseMul(borrowUnits, totalSupply)
        deposited == received - preciseMul(received, feePercentage)
        newBalance == [balance EXCEPT ![a] = @ + deposited, ![b] = @ + borrowed - sent]
        newDebt == [debt EXCEPT ![b] = @ + borrowed]
    IN  /\ mayWrite
        /\ validateCommon(a, b, borrowed)
        /\ sent <= borrowed
        /\ received >= preciseMul(minReceiveUnits, totalSupply)
        /\ deposited > 0
        /\ healthFactorOK(balance, usageAsCollateral, newDebt)
        /\ updateLeverPositionsOK(pos, newBalance, newDebt, a, b)
        /\ pos' = updateLeverPositions(pos, newBalance, newDebt, a, b)
        /\ UNCHANGED <<totalSupply, moduleVars>>
        /\ Settle(newBalance, newDebt)

\* _updateDeleverPositions: what exceeds the debt becomes a default position.
repaySurplus(b, newBalance) ==
    IF newBalance[b] = balance[b] THEN pos
    ELSE calculateAndEditDefaultPosition(pos, b, totalSupply, balance[b], newBalance[b])
repaySurplusOK(b, newBalance) ==
    newBalance[b] # balance[b] =>
      calculateAndEditDefaultPositionOK(pos, b, totalSupply, balance[b], newBalance[b])

\* Aave takes no more than the debt.
repaid(b, repay) == IF repay <= debt[b] THEN repay ELSE debt[b]

\* The common end of both delevers: withdrawn collateral was sold, keep is what
\* the trade left of the repay asset, repay what the module hands to Aave.
Repay(a, b, withdrawn, keep, repay) ==
    LET withdrawal == [balance EXCEPT ![a] = @ - withdrawn]
        newBalance == [balance EXCEPT ![a] = @ - withdrawn, ![b] = @ + keep - repaid(b, repay)]
        newDebt == [debt EXCEPT ![b] = @ - repaid(b, repay)]
    IN  /\ mayWrite
        /\ validateCommon(a, b, withdrawn)
        /\ withdrawn <= balance[a]
        /\ repay > 0 /\ debt[b] > 0
        /\ a \in usageAsCollateral => healthFactorOK(withdrawal, collateralUse(withdrawal), debt)
        /\ repaySurplusOK(b, newBalance)
        /\ updateLeverPositionsOK(repaySurplus(b, newBalance), newBalance, newDebt, a, b)
        /\ pos' = updateLeverPositions(repaySurplus(b, newBalance), newBalance, newDebt, a, b)
        /\ UNCHANGED <<totalSupply, moduleVars>>
        /\ Settle(newBalance, newDebt)

\* Withdraw, sell, pay the protocol, repay with the rest.
Delever(a, b, redeemUnits, minRepayUnits, received, feePercentage) ==
    LET repayQuantity == received - preciseMul(received, feePercentage)
    IN  /\ received >= preciseMul(minRepayUnits, totalSupply)
        /\ Repay(a, b, preciseMul(redeemUnits, totalSupply), repayQuantity, repayQuantity)

\* Withdraw, sell for at least the whole debt, repay the debt, keep the rest.
DeleverToZeroBorrowBalance(a, b, redeemUnits, received) ==
    /\ received >= debt[b]
    /\ Repay(a, b, preciseMul(redeemUnits, totalSupply), received, debt[b])

-----------------------------------------------------------------------------
(* The module's life on the set, and the manager's assets.                  *)

AddModule ==
    /\ moduleState = "NONE" /\ enabledOnController
    /\ moduleState' = "PENDING"
    /\ UNCHANGED <<vars, aaveVars, enabledOnController, isModuleHook, assetVars>>

RemovePendingModule ==
    /\ moduleState = "PENDING"
    /\ moduleState' = "NONE"
    /\ UNCHANGED <<vars, aaveVars, enabledOnController, isModuleHook, assetVars>>

\* The issuance module is initialized.  The registration is tried: it fails
\* without a trace when the Controller has disabled the module, or when it is
\* registered already.  Assets follow with AddCollateralAsset and
\* AddBorrowAsset.
Initialize ==
    /\ moduleState = "PENDING"
    /\ moduleState' = "INITIALIZED"
    /\ isModuleHook' = (isModuleHook \/ enabledOnController)
    /\ UNCHANGED <<vars, aaveVars, enabledOnController, assetVars>>

RegisterToModule ==
    /\ mayWrite /\ ~ isModuleHook
    /\ isModuleHook' = TRUE
    /\ UNCHANGED <<vars, aaveVars, moduleState, enabledOnController, assetVars>>

\* _updateUseReserveAsCollateral of one asset, and its need to go through the set.
updateUseReserve(a, useAsCollateral) ==
    IF balance[a] = 0 THEN usageAsCollateral
    ELSE IF useAsCollateral THEN usageAsCollateral \union {a} ELSE usageAsCollateral \ {a}
updateUseReserveOK(a, useAsCollateral) ==
    updateUseReserve(a, useAsCollateral) # usageAsCollateral =>
      /\ mayWrite
      /\ ~ useAsCollateral => healthFactorOK(balance, updateUseReserve(a, useAsCollateral), debt)

\* SetToken.removeModule and the module's removeModule.  Unregistering is tried
\* as registering is.
RemoveModule ==
    /\ syncOK
    /\ \A b \in Range(borrowAssets) : debt[b] = 0
    /\ \A a \in Range(collateralAssets) : updateUseReserveOK(a, FALSE)
    /\ usageAsCollateral' = {a \in usageAsCollateral : ~ contains(collateralAssets, a)}
    /\ usageAsCollateral' # usageAsCollateral => healthFactorOK(balance, usageAsCollateral', debt)
    /\ pos' = synced
    /\ collateralAssets' = <<>> /\ borrowAssets' = <<>>
    /\ collateralAssetEnabled' = collateralAssetEnabled \ Range(collateralAssets)
    /\ borrowAssetEnabled' = borrowAssetEnabled \ Range(borrowAssets)
    /\ isModuleHook' = (isModuleHook /\ ~ enabledOnController)
    /\ moduleState' = "NONE"
    /\ UNCHANGED <<totalSupply, balance, debt, value, enabledOnController>>

AddCollateralAsset(a) ==
    /\ initialized
    /\ a \notin collateralAssetEnabled
    /\ updateUseReserveOK(a, TRUE)
    /\ usageAsCollateral' = updateUseReserve(a, TRUE)
    /\ collateralAssetEnabled' = collateralAssetEnabled \union {a}
    /\ collateralAssets' = Append(collateralAssets, a)
    /\ UNCHANGED <<vars, debt, value, moduleState, enabledOnController, isModuleHook,
                   borrowAssets, borrowAssetEnabled>>

RemoveCollateralAsset(a) ==
    /\ initialized
    /\ a \in collateralAssetEnabled
    /\ updateUseReserveOK(a, FALSE)
    /\ usageAsCollateral' = updateUseReserve(a, FALSE)
    /\ collateralAssetEnabled' = collateralAssetEnabled \ {a}
    /\ collateralAssets' = removeStorage(collateralAssets, a)
    /\ UNCHANGED <<vars, debt, value, moduleState, enabledOnController, isModuleHook,
                   borrowAssets, borrowAssetEnabled>>

AddBorrowAsset(b) ==
    /\ initialized
    /\ b \notin borrowAssetEnabled
    /\ borrowAssetEnabled' = borrowAssetEnabled \union {b}
    /\ borrowAssets' = Append(borrowAssets, b)
    /\ UNCHANGED <<vars, aaveVars, moduleState, enabledOnController, isModuleHook,
                   collateralAssets, collateralAssetEnabled>>

\* The position is not synced: one that is left stays on the set.
RemoveBorrowAsset(b) ==
    /\ initialized
    /\ b \in borrowAssetEnabled
    /\ debt[b] = 0
    /\ borrowAssetEnabled' = borrowAssetEnabled \ {b}
    /\ borrowAssets' = removeStorage(borrowAssets, b)
    /\ UNCHANGED <<vars, aaveVars, moduleState, enabledOnController, isModuleHook,
                   collateralAssets, collateralAssetEnabled>>

\* Controller.addModule and Controller.removeModule.
ToggleOnController ==
    /\ ControllerMayDisable
    /\ enabledOnController' = ~ enabledOnController
    /\ UNCHANGED <<vars, aaveVars, moduleState, isModuleHook, assetVars>>

-----------------------------------------------------------------------------
(* DebtIssuanceModuleV2 with its hooks.                                     *)

\* moduleIssueHook and moduleRedeemHook.
preHookOK == isModuleHook => syncOK
afterPreHook == IF isModuleHook THEN synced ELSE pos

\* Debt units of a component: the leverage module's position, if listed.
debtUnit(p, b) ==
    IF isComponent(p, b) /\ isExternalPositionModule(p, b, leverageModule)
    THEN - borrowUnit(p, b) ELSE 0

\* What the issuer is given for the debt he takes on, and what the redeemer
\* pays.
debtToIssuer(p, quantity, b) == preciseMul(debtUnit(p, b), quantity)
debtFromRedeemer(p, quantity, b) == preciseMulCeil(debtUnit(p, b), quantity)

\* The hooks borrow and repay their own computation of the same amounts.
componentIssueHook(p, quantity, b) == preciseMul(- borrowUnit(p, b), quantity)
\* Faulty: repays rounded down.
redeemHookRoundedDown(p, quantity, b) == preciseMul(- borrowUnit(p, b), quantity)
componentRedeemHook(p, quantity, b) == preciseMulCeil(- borrowUnit(p, b), quantity)

hookOK(p, b) == mayWrite /\ borrowUnit(p, b) < 0

\* Pre-issue hooks, equity in, debt out, fees, mint.
IssueWithHooks(quantity, issueFee, split) ==
    LET fee == calculateTotalFees(quantity, issueFee, split)
        total == quantity + fee.totalFee
        p == afterPreHook
        equity == calculateRequiredComponentIssuanceUnits(p, total, TRUE)
        owed == [b \in BorrowAsset |-> debtToIssuer(p, total, b)]
        borrowed == [b \in BorrowAsset |-> IF owed[b] > 0 THEN componentIssueHook(p, total, b) ELSE 0]
        afterIn == [c \in Component |-> balance[c] + equity[c]]
        newBalance == [c \in Component |->
                         IF c \in BorrowAsset THEN afterIn[c] + borrowed[c] - owed[c] ELSE afterIn[c]]
        newDebt == [b \in BorrowAsset |-> debt[b] + borrowed[b]]
    IN  /\ quantity > 0 /\ calculateTotalFeesOK(fee)
        /\ preHookOK
        /\ \A c \in Component : equity[c] > 0 =>
             validateCollateralizationPostTransferInPreHook(p, c, afterIn[c], totalSupply, equity[c])
        /\ \A b \in BorrowAsset : owed[b] > 0 =>
             /\ hookOK(p, b) /\ healthFactorOK(afterIn, collateralUse(afterIn), newDebt)
             /\ validateCollateralizationPostTransferOut(p, b, newBalance[b], totalSupply + total)
        /\ pos' = p
        /\ totalSupply' = totalSupply + resolveFees(fee) + quantity
        /\ UNCHANGED moduleVars
        /\ Settle(newBalance, newDebt)

\* The amounts a redemption moves.
redemption(quantity, redeemFee, split) ==
    LET fee == calculateTotalFees(quantity, redeemFee, split)
        net == quantity - fee.totalFee
        p == afterPreHook
        equity == calculateRequiredComponentIssuanceUnits(p, net, FALSE)
        paid == [b \in BorrowAsset |-> debtFromRedeemer(p, net, b)]
        repay == [b \in BorrowAsset |-> IF paid[b] > 0 THEN componentRedeemHook(p, net, b) ELSE 0]
        afterDebt == [c \in Component |->
                        IF c \in BorrowAsset THEN balance[c] + paid[c] - repaid(c, repay[c]) ELSE balance[c]]
    IN  [fee |-> fee, net |-> net, p |-> p, equity |-> equity, paid |-> paid, repay |-> repay,
         newDebt |-> [b \in BorrowAsset |-> debt[b] - repaid(b, repay[b])],
         newBalance |-> [c \in Component |-> afterDebt[c] - equity[c]]]

\* Whether Aave asks the health factor of the set when it sends this aToken.
checkedTransfer(a) == ChecksEveryTransfer \/ a \in usageAsCollateral

redeemWithHooksOK(quantity, r) ==
    /\ quantity > 0 /\ quantity <= totalSupply
    /\ calculateTotalFeesOK(r.fee) /\ r.net >= 0
    /\ preHookOK
    /\ \A b \in BorrowAsset : r.paid[b] > 0 =>
         /\ validateCollateralizationPostTransferInPreHook(
               r.p, b, balance[b] + r.paid[b], totalSupply, r.paid[b])
         /\ hookOK(r.p, b)
         /\ r.repay[b] > 0 /\ debt[b] > 0
    /\ \A c \in Component : r.equity[c] > 0 =>
         /\ r.newBalance[c] >= 0
         /\ validateCollateralizationPostTransferOut(r.p, c, r.newBalance[c], totalSupply - r.net)
    /\ (\E a \in Collateral : r.equity[a] > 0 /\ checkedTransfer(a)) =>
         healthFactorOK(r.newBalance, collateralUse(r.newBalance), r.newDebt)

\* Pre-redeem hooks, burn, debt in, equity out, fees.
RedeemWithHooks(quantity, redeemFee, split) ==
    LET r == redemption(quantity, redeemFee, split)
    IN  /\ redeemWithHooksOK(quantity, r)
        /\ pos' = r.p
        /\ totalSupply' = totalSupply - quantity + resolveFees(r.fee)
        /\ UNCHANGED moduleVars
        /\ Settle(r.newBalance, r.newDebt)

-----------------------------------------------------------------------------
(* Aave between the set's transactions.                                     *)

\* Interest on a deposit or a debt.
AccrueOnDeposit(a) ==
    /\ balance[a] > 0
    /\ UNCHANGED <<pos, totalSupply, moduleVars>>
    /\ Settle([balance EXCEPT ![a] = @ + 1], debt)

AccrueOnDebt(b) ==
    /\ debt[b] > 0
    /\ UNCHANGED <<pos, totalSupply, moduleVars>>
    /\ Settle(balance, [debt EXCEPT ![b] = @ + 1])

\* The oracle moves, and with it the worth of collateral and debt.
PriceMoves ==
    /\ value' \in AaveValue
    /\ UNCHANGED <<vars, debt, usageAsCollateral, moduleVars>>

\* A liquidator repays debt of an unhealthy set and takes collateral; a benefactor
\* takes none.
ThirdPartyRepay(b, amount, a, seized) ==
    /\ amount > 0 /\ amount <= debt[b] /\ seized <= balance[a]
    /\ seized > 0 => /\ a \in usageAsCollateral
                     /\ ~ healthFactorOK(balance, usageAsCollateral, debt)
    /\ UNCHANGED <<pos, totalSupply, moduleVars>>
    /\ Settle([balance EXCEPT ![a] = @ - seized], [debt EXCEPT ![b] = @ - amount])

\* Tokens sent to the set's address.
Donate(c, amount) ==
    /\ UNCHANGED <<pos, totalSupply, moduleVars>>
    /\ Settle([balance EXCEPT ![c] = @ + amount], debt)

-----------------------------------------------------------------------------

ManagerStep ==
    \/ \E b \in BorrowAsset, a \in Collateral, x, y \in TradeUnit, s, r \in TokenAmount, f \in FeeRate :
         Lever(b, a, x, y, s, r, f)
    \/ \E b \in BorrowAsset, a \in Collateral, x, y \in TradeUnit, r \in TokenAmount, f \in FeeRate :
         Delever(a, b, x, y, r, f)
    \/ \E b \in BorrowAsset, a \in Collateral, x \in TradeUnit, r \in TokenAmount :
         DeleverToZeroBorrowBalance(a, b, x, r)
    \/ AddModule \/ RemovePendingModule \/ Initialize \/ RegisterToModule \/ RemoveModule
    \/ \E a \in Collateral : AddCollateralAsset(a) \/ RemoveCollateralAsset(a)
    \/ \E b \in BorrowAsset : AddBorrowAsset(b) \/ RemoveBorrowAsset(b)

\* The protocol's share stays below 100%, which the Controller does not ask of it:
\* from there on the fee is charged and not minted (resolveFees), and the set is left
\* with the holders' debt on top.
ProtocolSplit == {s \in FeeRate : s < PRECISE_UNIT}

SupplyStep ==
    \/ \E q \in Quantity, f \in FeeRate, s \in ProtocolSplit : IssueWithHooks(q, f, s)
    \/ \E q \in Quantity, f \in FeeRate, s \in ProtocolSplit : RedeemWithHooks(q, f, s)

AaveStep ==
    \/ \E a \in Collateral : AccrueOnDeposit(a)
    \/ \E b \in BorrowAsset : AccrueOnDebt(b)
    \/ PriceMoves
    \/ \E b \in BorrowAsset, a \in Collateral, r, s \in TokenAmount : ThirdPartyRepay(b, r, a, s)

LeverageNext ==
    \/ ManagerStep
    \/ SupplyStep
    \/ AaveStep
    \/ Sync
    \/ ToggleOnController
    \/ \E c \in Component, n \in TokenAmount : Donate(c, n)

LeverageSpec == LeverageInit /\ [][LeverageNext]_leverageVars

-----------------------------------------------------------------------------
(* Properties.                                                              *)

\* The set's debt in b is within what its holders owe by the tracked unit.
DebtCovered(b) == debt[b] * PRECISE_UNIT <= - borrowUnit(pos, b) * totalSupply

\* Whenever sets are issued or redeemed with the module's hook in place, the
\* holders owe, by the tracked units, at least the whole debt of each enabled
\* asset afterwards, however stale the units were: nobody leaves a part of the
\* debt to the others, and the last redeemer leaves none at all.  Only a debt
\* that outlived the supply, which takes redemptions without the hook, is left.
SupplyChangeCoversDebt ==
    [][totalSupply' # totalSupply /\ isModuleHook =>
         \A b \in Range(borrowAssets) :
             totalSupply > 0 \/ debt[b] = 0 => DebtCovered(b)']_leverageVars

\* No step of the set or its modules, with or without the hook, takes a covered
\* debt out of cover: only Aave's interest does.
OnlyInterestUncoversDebt ==
    [][~ (\E b \in BorrowAsset : AccrueOnDebt(b)) =>
         \A b \in BorrowAsset : DebtCovered(b) => DebtCovered(b)']_leverageVars

\* A debt at Aave is never forgotten: as long as there is one, the set lists the
\* module's position in that asset and issuers and redeemers share in it.
DebtIsTracked ==
    \A b \in BorrowAsset : debt[b] > 0 => isComponent(pos, b) /\ debtUnit(pos, b) > 0

\* The module manages every position it could be called upon for.
WellManaged ==
    /\ mayWrite /\ isModuleHook
    /\ \A b \in BorrowAsset : hasExternalPosition(pos, b) => contains(borrowAssets, b)
    /\ \A a \in Collateral : hasDefaultPosition(pos, a) => contains(collateralAssets, a)

\* Any part of the supply of a well managed set can be redeemed while its health
\* factor holds, and the whole of it always: after interest, price moves,
\* liquidation, a repayment by others or a surplus from delevering, whatever the
\* rounding.  A redemption never takes more of the collateral than of the debt, so
\* Aave has no reason to refuse it.  Below a health factor of 1 the aTokens of a
\* part cannot leave.
HealthyLeverageRedeemable ==
    WellManaged =>
      \A q \in 1..totalSupply, f \in FeeRate, s \in ProtocolSplit :
          /\ f <= PRECISE_UNIT
          /\ healthFactorOK(balance, usageAsCollateral, debt)
               \/ redemption(q, f, s).net = totalSupply
          => redeemWithHooksOK(q, redemption(q, f, s))

\* "SetToken calls removeModule on module itself to confirm it is not needed to
\* manage any remaining positions": a set without the module has no position of
\* the module.
RemovedModuleLeavesNoPosition ==
    ~ initialized => \A b \in BorrowAsset : ~ isExternalPositionModule(pos, b, leverageModule)
=============================================================================
