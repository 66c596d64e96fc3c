--------------------------- MODULE FeeModuleUtils ---------------------------
(***************************************************************************)
(* utils/common/feeModuleUtils.ts: what the tests of the streaming fee     *)
(* module expect of it.                                                    *)
(***************************************************************************)
EXTENDS MathUtils

CONSTANT ONE_YEAR           \* ONE_YEAR_IN_SECONDS

getStreamingFee(timeElapsed, accrualRate) == bnDiv(timeElapsed * accrualRate, ONE_YEAR)

\* Faulty: the share of the supply there was, not of the supply there will be.
inflationOfOldSupply(inflationPercent, totalSupply) == preciseMul(inflationPercent, totalSupply)

getStreamingFeeInflationAmount(inflationPercent, totalSupply) ==
    bnDiv(inflationPercent * totalSupply, PRECISE_UNIT - inflationPercent)

\* One of the units; negative units are external debt.
getPostFeePositionUnit(preFeeUnit, inflationPercent) ==
    IF preFeeUnit >= 0 THEN preciseMul(preFeeUnit, PRECISE_UNIT - inflationPercent)
    ELSE preciseMulCeilInt(preFeeUnit, PRECISE_UNIT - inflationPercent)
=============================================================================
