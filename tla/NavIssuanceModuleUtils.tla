----------------------- MODULE NavIssuanceModuleUtils -----------------------
(***************************************************************************)
(* utils/common/navIssuanceModuleUtils.ts: what the tests of the NAV       *)
(* issuance module expect of it.  The two reads of the chain in            *)
(* getExpectedSetTokenIssueQuantity (valuation and supply) are parameters. *)
(***************************************************************************)
EXTENDS MathUtils

getExpectedIssuePositionMultiplier(previousPositionMultiplier, previousSupply, currentSupply) ==
    LET inflation == preciseDivCeil(currentSupply - previousSupply, currentSupply)
    IN  preciseMul(previousPositionMultiplier, PRECISE_UNIT - inflation)

getExpectedPostFeeQuantity(quantity, managerFee, protocolFee) ==
    quantity - preciseMul(quantity, managerFee)
             - preciseMul(quantity, protocolFee)

getExpectedSetTokenIssueQuantity(valuation, supply, baseUnits, reserveQuantity, managerFee, protocolFee, premium) ==
    LET subFees == getExpectedPostFeeQuantity(reserveQuantity, managerFee, protocolFee)
        subFeesAndPremium == subFees - preciseMul(subFees, premium)
        normalizedSubFees == preciseDiv(subFees, baseUnits)
        normalizedSubFeesAndPremium == preciseDiv(subFeesAndPremium, baseUnits)
        denominator == preciseMul(supply, valuation)
                         + normalizedSubFees - normalizedSubFeesAndPremium
    IN  preciseDiv(preciseMul(normalizedSubFeesAndPremium, supply), denominator)

\* "Adjust for rounding on the contracts when converting between real and virtual
\* units": it multiplies first and divides afterwards, the contract divides first.
roundedByMultiplier(newPositionUnit, newMultiplier) ==
    preciseDiv(preciseMul(newPositionUnit, newMultiplier), newMultiplier)

getExpectedIssuePositionUnit(previousUnits, issueQuantity, previousSupply, currentSupply, newMultiplier, managerFee, protocolFee) ==
    LET issueQuantitySubFees == getExpectedPostFeeQuantity(issueQuantity, managerFee, protocolFee)
        numerator == preciseMul(previousSupply, previousUnits) + issueQuantitySubFees
    IN  roundedByMultiplier(preciseDiv(numerator, currentSupply), newMultiplier)

\* Value of the sets in the reserve asset, in precise units, less the premium.
redeemValueSubPremium(valuation, redeemQuantity, premium) ==
    LET totalNotional == preciseMul(valuation, redeemQuantity)
    IN  totalNotional - preciseMulCeil(totalNotional, premium)

getExpectedReserveRedeemQuantity(redeemQuantity, valuation, baseUnits, managerFee, protocolFee, premium) ==
    preciseMul(getExpectedPostFeeQuantity(redeemValueSubPremium(valuation, redeemQuantity, premium),
                                          managerFee, protocolFee),
               baseUnits)

getExpectedRedeemPositionMultiplier(previousPositionMultiplier, previousSupply, currentSupply) ==
    LET deflation == preciseDiv(previousSupply - currentSupply, currentSupply)
    IN  preciseMul(previousPositionMultiplier, PRECISE_UNIT + deflation)

getExpectedRedeemPositionUnit(previousUnits, redeemQuantity, valuation, baseUnits, previousSupply, currentSupply, newMultiplier, premium) ==
    LET totalReserveBalance ==
            preciseMul(redeemValueSubPremium(valuation, redeemQuantity, premium), baseUnits)
        numerator == preciseMul(previousSupply, previousUnits) - totalReserveBalance
    IN  roundedByMultiplier(preciseDiv(numerator, currentSupply), newMultiplier)
=============================================================================
