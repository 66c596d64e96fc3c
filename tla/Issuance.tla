------------------------------ MODULE Issuance ------------------------------
(***************************************************************************)
(* The collateral of one SetToken: its component balances against its      *)
(* supply, under every module that moves default positions in bulk:        *)
(*   - BasicIssuanceModule, DebtIssuanceModule, its V2 and its V3;         *)
(*   - TradeModule (the exchange is external: it takes at most what it was *)
(*     allowed and gives what it likes, never less than the minimum);      *)
(*   - AirdropModule;                                                      *)
(*   - anybody sending component tokens to the set's address.              *)
(*                                                                         *)
(* Permissions are the subject of SetToken.tla: here all these modules are *)
(* initialized and the set is unlocked.  Holders are pooled, so a holder   *)
(* can redeem any part of the supply.  Positions are default positions.    *)
(* Every fee rate is an input of the step that charges it: the manager and *)
(* the Controller's owner may change their rates between any two steps.    *)
(*                                                                         *)
(* Some tokens lose a few wei in a transfer.  BasicIssuanceModule and      *)
(* DebtIssuanceModule reject such a transfer; V2 and V3 accept it and      *)
(* check the collateral afterwards.  The loss is an input of their steps,  *)
(* the same for every component the step moves.                            *)
(***************************************************************************)
EXTENDS Position

CONSTANTS InitialUnit,          \* units a set is created with
          Quantity,             \* amounts of SetToken issued or redeemed at once
          FeeRate,              \* fees and protocol shares, in precise units
          TradeUnit,            \* units per set a manager sells or asks for
          TokenAmount,          \* amounts of a component in one gift or fill
          tokenTransferBuffer,  \* of DebtIssuanceModuleV3
          Loss,                 \* tokens a transfer of a rebasing token can lose
          MaxSupply, MaxBalance \* bounds

ASSUME IssuanceAssumption ==
    /\ InitialUnit \subseteq Nat \ {0} /\ Quantity \subseteq Nat
    /\ FeeRate \subseteq Nat /\ TradeUnit \subseteq Nat
    /\ IsFiniteSet(Component)
    /\ TokenAmount \subseteq Nat /\ tokenTransferBuffer \in Nat
    /\ Loss \subseteq Nat
    /\ MaxSupply \in Nat /\ MaxBalance \in Nat

VARIABLES pos,                  \* positions of the set
          totalSupply,
          balance               \* component tokens the set's address holds

vars == <<pos, totalSupply, balance>>

-----------------------------------------------------------------------------

unit(c) == getDefaultPositionRealUnit(pos, c)

Init ==
    /\ \E components \in ComponentLists, units \in [Component -> InitialUnit] :
         /\ ~ hasDuplicate(components)
         /\ pos = InitialPositions(components, units)
    /\ totalSupply = 0
    /\ balance = [c \in Component |-> 0]

\* Bounds of the model, on every step that mints or brings tokens in.
WithinBounds(newSupply, newBalance) ==
    newSupply <= MaxSupply /\ \A c \in Component : newBalance[c] <= MaxBalance

-----------------------------------------------------------------------------
(* BasicIssuanceModule.                                                     *)

\* Each component, rounded up: the transfer in is exact (ExplicitERC20).
getRequiredComponentUnitsForIssue(quantity) ==
    [c \in Component |-> IF isComponent(pos, c) THEN preciseMulCeil(unit(c), quantity) ELSE 0]

BasicIssue(quantity) ==
    /\ quantity > 0
    /\ \A c \in Component : isComponent(pos, c) => ~ hasExternalPosition(pos, c)
    /\ balance' = [c \in Component |->
                     balance[c] + getRequiredComponentUnitsForIssue(quantity)[c]]
    /\ totalSupply' = totalSupply + quantity
    /\ WithinBounds(totalSupply', balance')
    /\ UNCHANGED pos

\* Each component, rounded down; the transfer out reverts if the set is short.
BasicRedeem(quantity) ==
    LET out == [c \in Component |->
                  IF isComponent(pos, c) THEN preciseMul(quantity, unit(c)) ELSE 0]
    IN  /\ quantity > 0 /\ quantity <= totalSupply
        /\ \A c \in Component :
             /\ isComponent(pos, c) => ~ hasExternalPosition(pos, c)
             /\ out[c] <= balance[c]
        /\ balance' = [c \in Component |-> balance[c] - out[c]]
        /\ totalSupply' = totalSupply - quantity
        /\ UNCHANGED pos

-----------------------------------------------------------------------------
(* DebtIssuanceModule, V2 and V3.                                           *)

\* Fees of an amount at a rate, with the protocol's share split off.
calculateTotalFees(quantity, rate, split) ==
    LET totalFee == preciseMul(rate, quantity)
        protocolFee == preciseMul(totalFee, split)
    IN  [totalFee |-> totalFee, protocolFee |-> protocolFee,
         managerFee |-> totalFee - protocolFee]

\* SafeMath: the protocol's share may not exceed the fee.
calculateTotalFeesOK(fee) == fee.managerFee >= 0

\* The protocol's share is only minted along with a manager fee.
resolveFees(fee) == IF fee.managerFee > 0 THEN fee.totalFee ELSE 0

\* Faulty: rounds down on the way in as well.
requiredUnitsRoundedDown(p, quantity, isIssue) ==
    [c \in Component |-> IF isComponent(p, c)
                         THEN preciseMul(getDefaultPositionRealUnit(p, c), quantity) ELSE 0]

\* Equity a component owes for an amount of sets: up on the way in, down on the
\* way out.
calculateRequiredComponentIssuanceUnits(p, quantity, isIssue) ==
    [c \in Component |->
       IF ~ isComponent(p, c) THEN 0
       ELSE IF isIssue THEN preciseMulCeil(getDefaultPositionRealUnit(p, c), quantity)
       ELSE preciseMul(getDefaultPositionRealUnit(p, c), quantity)]

\* IssuanceValidationUtils, on the balances after the transfer.
validateCollateralizationPostTransferInPreHook(p, c, newBalance, initialSupply, quantity) ==
    newBalance >= preciseMulCeil(initialSupply, getDefaultPositionRealUnit(p, c)) + quantity
\* Faulty: asks for more than full collateral.
validateStrictlyPostTransferOut(p, c, newBalance, finalSupply) ==
    newBalance > preciseMulCeil(finalSupply, getDefaultPositionRealUnit(p, c))
validateCollateralizationPostTransferOut(p, c, newBalance, finalSupply) ==
    newBalance >= preciseMulCeil(finalSupply, getDefaultPositionRealUnit(p, c))

\* The buffer V3 moves on top of, or holds back from, a non-zero transfer.
transferBuffer(version) == IF version = "V3" THEN tokenTransferBuffer ELSE 0

\* V1's transfers check that all of the amount arrives.
transferOK(version, loss) == version = "V1" => loss = 0

\* Faulty: leaves the buffer out.
transferredInWithoutBuffer(version, quantityWithFees, loss) ==
    LET equity == calculateRequiredComponentIssuanceUnits(pos, quantityWithFees, TRUE)
    IN  [c \in Component |-> balance[c] + (IF equity[c] > 0 THEN equity[c] - loss ELSE 0)]

\* Balances after the transfers of an issue, before anything else happens.
transferredIn(version, quantityWithFees, loss) ==
    LET equity == calculateRequiredComponentIssuanceUnits(pos, quantityWithFees, TRUE)
    IN  [c \in Component |-> balance[c] +
           (IF equity[c] > 0 THEN equity[c] + transferBuffer(version) - loss ELSE 0)]

issueOK(version, quantity, fee, loss) ==
    LET equity == calculateRequiredComponentIssuanceUnits(pos, quantity + fee.totalFee, TRUE)
        newBalance == transferredIn(version, quantity + fee.totalFee, loss)
    IN  /\ quantity > 0
        /\ calculateTotalFeesOK(fee)
        /\ transferOK(version, loss)
        /\ version # "V1" => \A c \in Component : equity[c] > 0 =>
             validateCollateralizationPostTransferInPreHook(pos, c, newBalance[c], totalSupply, equity[c])

Issue(version, quantity, issueFee, split, loss) ==
    LET fee == calculateTotalFees(quantity, issueFee, split)
    IN  /\ issueOK(version, quantity, fee, loss)
        /\ balance' = transferredIn(version, quantity + fee.totalFee, loss)
        /\ totalSupply' = totalSupply + resolveFees(fee) + quantity
        /\ WithinBounds(totalSupply', balance')
        /\ UNCHANGED pos

\* Tokens a redemption sends out.  Solidity 0.6 wraps equity - buffer below zero to
\* an amount no set holds, and the transfer reverts.
transferredOut(version, quantityNetFees) ==
    LET equity == calculateRequiredComponentIssuanceUnits(pos, quantityNetFees, FALSE)
    IN  [c \in Component |-> IF equity[c] > 0 THEN equity[c] - transferBuffer(version) ELSE 0]

\* The loss of a transfer out falls on the set.
balanceAfterRedeem(version, quantityNetFees, loss) ==
    LET out == transferredOut(version, quantityNetFees)
    IN  [c \in Component |-> IF out[c] > 0 THEN balance[c] - out[c] - loss ELSE balance[c]]

redeemOK(version, quantity, fee, loss) ==
    LET quantityNetFees == quantity - fee.totalFee
        equity == calculateRequiredComponentIssuanceUnits(pos, quantityNetFees, FALSE)
        out == transferredOut(version, quantityNetFees)
        newBalance == balanceAfterRedeem(version, quantityNetFees, loss)
    IN  /\ quantity > 0 /\ quantity <= totalSupply
        /\ calculateTotalFeesOK(fee)
        /\ quantityNetFees >= 0
        /\ transferOK(version, loss)
        /\ \A c \in Component : 0 <= out[c] /\ 0 <= newBalance[c]
        /\ version # "V1" => \A c \in Component : equity[c] > 0 =>
             validateCollateralizationPostTransferOut(pos, c, newBalance[c], totalSupply - quantityNetFees)

Redeem(version, quantity, redeemFee, split, loss) ==
    LET fee == calculateTotalFees(quantity, redeemFee, split)
    IN  /\ redeemOK(version, quantity, fee, loss)
        /\ balance' = balanceAfterRedeem(version, quantity - fee.totalFee, loss)
        /\ totalSupply' = totalSupply - quantity + resolveFees(fee)
        /\ UNCHANGED pos

-----------------------------------------------------------------------------
(* TradeModule.                                                             *)

\* Sell up to sendUnit of c per set for d: sent and received are the exchange's
\* choice, the protocol fee comes out of what was received.  Nothing forbids
\* c = d, but the closing subtractions then leave no room for a net change.
Trade(c, sendUnit, sent, d, minReceiveUnit, received, feePercentage) ==
    LET totalSendQuantity == getDefaultTotalNotional(totalSupply, sendUnit)
        totalMinReceiveQuantity == getDefaultTotalNotional(totalSupply, minReceiveUnit)
        postTrade == [balance EXCEPT ![c] = @ - sent, ![d] = @ + received]
        exchangedQuantity == postTrade[d] - balance[d]
        newBalance == [postTrade EXCEPT ![d] = @ - preciseMul(exchangedQuantity, feePercentage)]
        afterSend == calculateAndEditDefaultPosition(pos, c, totalSupply, balance[c], newBalance[c])
    IN  /\ totalSendQuantity > 0
        /\ hasSufficientDefaultUnits(pos, c, sendUnit)
        /\ sent <= totalSendQuantity /\ sent <= balance[c]
        /\ exchangedQuantity >= 0 /\ exchangedQuantity >= totalMinReceiveQuantity
        /\ calculateAndEditDefaultPositionOK(pos, c, totalSupply, balance[c], newBalance[c])
        /\ calculateAndEditDefaultPositionOK(afterSend, d, totalSupply, balance[d], newBalance[d])
        /\ newBalance[c] <= balance[c] /\ newBalance[d] >= balance[d]
        /\ pos' = calculateAndEditDefaultPosition(afterSend, d, totalSupply, balance[d], newBalance[d])
        /\ balance' = newBalance
        /\ WithinBounds(totalSupply, balance')
        /\ UNCHANGED totalSupply

-----------------------------------------------------------------------------
(* AirdropModule.                                                           *)

\* Everything the positions do not track becomes position, less the fees.
Absorb(c, airdropFee, split) ==
    LET amountAirdropped == balance[c] - getDefaultTrackedBalance(pos, totalSupply, c)
        totalFees == preciseMul(amountAirdropped, airdropFee)
        protocolTake == preciseMul(totalFees, split)
        newUnit == getDefaultPositionUnit(totalSupply, balance[c] - totalFees)
    IN  /\ airdropFee <= PRECISE_UNIT
        /\ amountAirdropped > 0
        /\ protocolTake <= totalFees
        /\ totalSupply # 0
        /\ editDefaultPositionOK(pos, c, newUnit)
        /\ pos' = editDefaultPosition(pos, c, newUnit)
        /\ balance' = [balance EXCEPT ![c] = @ - totalFees]
        /\ UNCHANGED totalSupply

\* An ERC20 transfer to the set's address by anyone.
Gift(c, amount) ==
    /\ balance' = [balance EXCEPT ![c] = @ + amount]
    /\ WithinBounds(totalSupply, balance')
    /\ UNCHANGED <<pos, totalSupply>>

-----------------------------------------------------------------------------

Version == {"V1", "V2", "V3"}

IssuanceStep ==
    \/ \E q \in Quantity : BasicIssue(q)
    \/ \E q \in Quantity : BasicRedeem(q)
    \/ \E v \in Version, q \in Quantity, f, s \in FeeRate, l \in Loss : Issue(v, q, f, s, l)
    \/ \E v \in Version, q \in Quantity, f, s \in FeeRate, l \in Loss : Redeem(v, q, f, s, l)

PositionStep ==
    \/ \E c, d \in Component, x, y \in TradeUnit, sent, received \in TokenAmount, f \in FeeRate :
         Trade(c, x, sent, d, y, received, f)
    \/ \E c \in Component, f, s \in FeeRate : Absorb(c, f, s)

Next ==
    \/ IssuanceStep
    \/ PositionStep
    \/ \E c \in Component, n \in TokenAmount : Gift(c, n)

Spec == Init /\ [][Next]_vars

-----------------------------------------------------------------------------
(* Properties.                                                              *)

\* The set holds, for its whole supply, the real units its positions promise,
\* rounded up.  No sequence of issues, redemptions, trades and absorptions, at
\* whatever fees and with tokens that lose something on the way, eats into the
\* collateral of the remaining holders.
Collateralized ==
    \A c \in Component : preciseMulCeil(totalSupply, unit(c)) <= balance[c]

\* A redemption never fails for lack of tokens or on the collateral check: any
\* part of the supply can be redeemed through every version, at any fee up to
\* 100%, whoever went first, if no token loses anything; and through V3 even if
\* tokens lose up to the buffer.  V3's one exception is an amount of a component
\* smaller than the buffer it would hold back.
RedemptionNeverBlocked ==
    \A version \in Version, q \in 1..totalSupply, f, s \in FeeRate, loss \in Loss :
        LET fee == calculateTotalFees(q, f, s)
            out == transferredOut(version, q - fee.totalFee)
        IN  /\ f <= PRECISE_UNIT /\ s <= PRECISE_UNIT
            /\ loss <= transferBuffer(version)
            /\ \A c \in Component : out[c] >= 0
            => redeemOK(version, q, fee, loss)

\* Nor does an issue through V3 fail the collateral check while tokens lose no
\* more than the buffer.
BufferCoversLoss ==
    \A version \in Version, q \in Quantity, f, s \in FeeRate, loss \in Loss :
        q > 0 /\ s <= PRECISE_UNIT /\ loss <= transferBuffer(version)
          => issueOK(version, q, calculateTotalFees(q, f, s), loss)
=============================================================================
