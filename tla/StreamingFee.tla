---------------------------- MODULE StreamingFee ----------------------------
(***************************************************************************)
(* StreamingFeeModule on a set that BasicIssuanceModule issues and redeems *)
(* (contracts/protocol/modules/v1/StreamingFeeModule.sol).  Fees accrue by *)
(* inflation: sets are minted to the fee recipients and the position       *)
(* multiplier scales every unit down.                                      *)
(*                                                                         *)
(* Only the time since the last accrual matters, so the state keeps that   *)
(* difference instead of two timestamps.  The module's own state is the    *)
(* fee rate, its maximum and that time; the recipients are left out, as    *)
(* holders are pooled.  The Controller's owner may change the protocol's   *)
(* share at any time, so it is an input of the accrual.                    *)
(***************************************************************************)
EXTENDS Issuance

CONSTANTS ONE_YEAR,             \* ONE_YEAR_IN_SECONDS
          StreamingRate,        \* yearly fees, in precise units
          MaxElapsed,           \* bound on the time between accruals
          MaxIssued             \* bound on the sets ever issued

ASSUME StreamingFeeAssumption ==
    /\ ONE_YEAR \in Nat \ {0} /\ StreamingRate \subseteq Nat
    /\ MaxElapsed \in Nat /\ MaxIssued \in Nat

VARIABLES isInitialized,              \* the set has initialized the module
          streamingFeePercentage,
          maxStreamingFeePercentage,
          timeSinceLastFee,           \* block.timestamp - lastStreamingFeeTimestamp
          issued                      \* sets ever issued against components (history)

feeState == <<isInitialized, streamingFeePercentage, maxStreamingFeePercentage, timeSinceLastFee>>

feeVars == <<vars, feeState, issued>>

-----------------------------------------------------------------------------

FeeInit ==
    /\ Init
    /\ isInitialized = FALSE
    /\ streamingFeePercentage = 0
    /\ maxStreamingFeePercentage = 0
    /\ timeSinceLastFee = 0
    /\ issued = 0

initialize(fee, max) ==
    /\ ~ isInitialized
    /\ max < PRECISE_UNIT
    /\ fee <= max
    /\ isInitialized' = TRUE
    /\ streamingFeePercentage' = fee
    /\ maxStreamingFeePercentage' = max
    /\ timeSinceLastFee' = 0
    /\ UNCHANGED <<vars, issued>>

\* The set removes the module: the fees due are not accrued.
removeModule ==
    /\ isInitialized
    /\ isInitialized' = FALSE
    /\ streamingFeePercentage' = 0
    /\ maxStreamingFeePercentage' = 0
    /\ timeSinceLastFee' = 0
    /\ UNCHANGED <<vars, issued>>

-----------------------------------------------------------------------------
(* Accrual.                                                                 *)

\* The share of the supply that is due, as a part of PRECISE_UNIT.
calculateStreamingFee == (timeSinceLastFee * streamingFeePercentage) \div ONE_YEAR

\* Faulty: rounds up what is minted.
inflationRoundedUp(feePercentage) ==
    (feePercentage * totalSupply) \div (PRECISE_UNIT - feePercentage) + 1

\* Sets to mint so that they make up the share feePercentage of the new supply.
calculateStreamingFeeInflation(feePercentage) ==
    (feePercentage * totalSupply) \div (PRECISE_UNIT - feePercentage)

\* Faulty: leaves the units as they are.
MultiplierUnscaled(inflationFee) == pos.positionMultiplier

NewMultiplier(inflationFee) ==
    preciseMul(pos.positionMultiplier, PRECISE_UNIT - inflationFee)

\* The accrual does not revert: the fee is below 100%, or the subtraction and the
\* division by PRECISE_UNIT - fee fail; the set accepts the new multiplier; and
\* the protocol's share leaves the manager something that is not negative.
accrueFeeOK(protocolFee) ==
    streamingFeePercentage > 0 =>
      LET fee == calculateStreamingFee
      IN  /\ fee < PRECISE_UNIT
          /\ preciseMul(calculateStreamingFeeInflation(fee), protocolFee)
               <= calculateStreamingFeeInflation(fee)
          /\ validateNewMultiplier(pos, NewMultiplier(fee))

\* A call of accrueFee, by anyone or from updateStreamingFee.
Accrual(protocolFee) ==
    /\ isInitialized
    /\ accrueFeeOK(protocolFee)
    /\ IF streamingFeePercentage > 0
       THEN /\ totalSupply' = totalSupply + calculateStreamingFeeInflation(calculateStreamingFee)
            /\ pos' = editPositionMultiplier(pos, NewMultiplier(calculateStreamingFee))
       ELSE UNCHANGED <<totalSupply, pos>>
    /\ timeSinceLastFee' = 0
    /\ WithinBounds(totalSupply', balance)
    /\ UNCHANGED <<balance, isInitialized, maxStreamingFeePercentage, issued>>

accrueFee(protocolFee) ==
    /\ Accrual(protocolFee)
    /\ UNCHANGED streamingFeePercentage

\* Faulty: sets the new rate without accruing at the old one.
updateWithoutAccrual(newFee, protocolFee) ==
    /\ isInitialized
    /\ newFee < maxStreamingFeePercentage
    /\ streamingFeePercentage' = newFee
    /\ UNCHANGED <<vars, isInitialized, maxStreamingFeePercentage, timeSinceLastFee, issued>>

updateStreamingFee(newFee, protocolFee) ==
    /\ newFee < maxStreamingFeePercentage
    /\ Accrual(protocolFee)
    /\ streamingFeePercentage' = newFee

-----------------------------------------------------------------------------

\* Time passes; before the module is initialized it does not count.
Tick ==
    /\ isInitialized
    /\ timeSinceLastFee < MaxElapsed
    /\ timeSinceLastFee' = timeSinceLastFee + 1
    /\ UNCHANGED <<vars, isInitialized, streamingFeePercentage, maxStreamingFeePercentage, issued>>

IssueSets(quantity) ==
    /\ issued + quantity <= MaxIssued
    /\ BasicIssue(quantity)
    /\ issued' = issued + quantity
    /\ UNCHANGED feeState

RedeemSets(quantity) ==
    /\ BasicRedeem(quantity)
    /\ UNCHANGED <<feeState, issued>>

FeeNext ==
    \/ \E f, x \in StreamingRate : initialize(f, x)
    \/ removeModule
    \/ \E s \in FeeRate : accrueFee(s)
    \/ \E f \in StreamingRate, s \in FeeRate : updateStreamingFee(f, s)
    \/ Tick
    \/ \E q \in Quantity : IssueSets(q)
    \/ \E q \in Quantity : RedeemSets(q)

FeeSpec == FeeInit /\ [][FeeNext]_feeVars

-----------------------------------------------------------------------------
(* Properties.                                                              *)

\* accrueFee's comment promises that scaling the units down ensures "full
\* collateralization".  An issue asks for units rounded down by the multiplier, so
\* the set may come to promise more than it holds once accruals and roundings
\* meet; but the shortfall against the unrounded claim of the supply never
\* exceeds one base unit of a component for each whole set ever issued, however
\* many accruals, issues and redemptions there were.
ShortfallBounded ==
    \A c \in Component :
        totalSupply * pos.virtualUnit[c] * pos.positionMultiplier
          <= PRECISE_UNIT * (balance[c] * PRECISE_UNIT + issued)

\* An accrual gives the fee recipients at most the fee due of the supply they end
\* up with, and lowers every holder's claim by at least as much: no sequence of
\* fee changes lets one accrual mint at a rate that was not in force.
FeeShareBounded ==
    [][timeSinceLastFee' = 0 /\ balance' = balance =>
         /\ (totalSupply' - totalSupply) * PRECISE_UNIT <= calculateStreamingFee * totalSupply'
         /\ totalSupply' * pos'.positionMultiplier <= totalSupply * pos.positionMultiplier]_feeVars

\* Once the fee that is due can no longer be accrued, because it has reached 100%
\* or would round a position away, it never can again and the rate cannot be
\* changed either: only removing the module ends it.
BlockedAccrualIsFinal ==
    [][isInitialized /\ isInitialized' /\ ~ accrueFeeOK(0) =>
         ~ accrueFeeOK(0)' /\ UNCHANGED streamingFeePercentage]_feeVars

FeeUtils == INSTANCE FeeModuleUtils

\* Before any accrual that would succeed, the helpers of feeModuleUtils.ts predict what it
\* mints exactly, and the units it leaves exactly while the multiplier is still one, which
\* is all the tests try.  After earlier accruals they truncate in another order than the
\* contract: it may then end up one unit above them, or below by less than the multiplier's
\* own rounding is worth.
HelpersPredictAccrual ==
    isInitialized /\ streamingFeePercentage > 0 /\ accrueFeeOK(0) =>
      LET fee == FeeUtils!getStreamingFee(timeSinceLastFee, streamingFeePercentage)
          after == editPositionMultiplier(pos, NewMultiplier(calculateStreamingFee))
      IN  /\ calculateStreamingFeeInflation(calculateStreamingFee)
               = FeeUtils!getStreamingFeeInflationAmount(fee, totalSupply)
          /\ \A c \in Component :
               LET contract == convertVirtualToRealUnit(after, after.virtualUnit[c])
                   expected == FeeUtils!getPostFeePositionUnit(unit(c), fee)
               IN  /\ pos.positionMultiplier = PRECISE_UNIT => contract = expected
                   /\ contract <= expected + 1
                   /\ (expected - contract) * PRECISE_UNIT < pos.virtualUnit[c] + PRECISE_UNIT
=============================================================================
