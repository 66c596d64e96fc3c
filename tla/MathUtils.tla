----------------------------- MODULE MathUtils -----------------------------
(***************************************************************************)
(* The fixed-point helpers of utils/common/mathUtils.ts, with which the    *)
(* repository's tests and fixtures predict what the contracts compute.     *)
(* They work on ethers BigNumbers: signed integers of any size, whose div  *)
(* truncates toward zero and whose mod is never negative.                  *)
(*                                                                         *)
(* The contracts' own arithmetic is PreciseUnitMath.  The two are written  *)
(* independently of each other; LibraryProofs relates them.                *)
(***************************************************************************)
EXTENDS Integers

CONSTANT PRECISE_UNIT       \* ether(1) in utils/constants.ts

\* BigNumber.abs, BigNumber.div and BigNumber.mod (by a positive number).
bnAbs(a) == IF a < 0 THEN -a ELSE a
bnDiv(a, b) ==
    IF (a < 0) = (b < 0) THEN bnAbs(a) \div bnAbs(b) ELSE -(bnAbs(a) \div bnAbs(b))
bnMod(a, b) == a % b

preciseMul(a, b) == bnDiv(a * b, PRECISE_UNIT)

preciseMulCeil(a, b) ==
    IF a = 0 \/ b = 0 THEN 0 ELSE bnDiv(a * b - 1, PRECISE_UNIT) + 1

\* Rounds away from zero, whatever the signs.
preciseMulCeilInt(a, b) ==
    CASE a = 0 \/ b = 0 -> 0
      [] (a > 0 /\ b > 0) \/ (a < 0 /\ b < 0) -> bnDiv(a * b - 1, PRECISE_UNIT) + 1
      [] OTHER -> bnDiv(a * b + 1, PRECISE_UNIT) - 1

preciseDiv(a, b) == bnDiv(a * PRECISE_UNIT, b)

\* Unlike the contract, which reverts, it yields 0 when it divides by zero.
preciseDivCeil(a, b) ==
    IF a = 0 \/ b = 0 THEN 0 ELSE bnDiv(a * PRECISE_UNIT - 1, b) + 1

preciseDivCeilInt(a, b) ==
    LET result == bnDiv(a * PRECISE_UNIT, b)
    IN  IF result * b = a * PRECISE_UNIT THEN result
        ELSE IF (a > 0 /\ b > 0) \/ (a < 0 /\ b < 0) THEN result + 1
        ELSE result - 1

divDown(a, b) ==
    IF \/ a < 0 /\ b > 0 /\ bnMod(a, b) # 0
       \/ a > 0 /\ b < 0 /\ bnMod(a, -b) # 0
    THEN bnDiv(a, b) - 1
    ELSE bnDiv(a, b)

min(valueOne, valueTwo) == IF valueOne < valueTwo THEN valueOne ELSE valueTwo
=============================================================================
