-------------------------- MODULE PreciseUnitMath --------------------------
(***************************************************************************)
(* Fixed-point arithmetic of contracts/lib/PreciseUnitMath.sol.  Solidity  *)
(* fixes the precise unit at 10^18; nothing in the code depends on that    *)
(* value, so it is a parameter here and TLC runs use a small one, which    *)
(* makes every rounding case frequent instead of rare.                     *)
(*                                                                         *)
(* Solidity integer division truncates toward zero; TLA+ \div rounds down. *)
(* They agree on the unsigned functions, and Quotient states the signed    *)
(* one.                                                                    *)
(***************************************************************************)
EXTENDS Integers

CONSTANT PRECISE_UNIT     \* 10 ** 18 in the contracts

ASSUME PreciseUnitAssumption == PRECISE_UNIT \in Nat \ {0}

\* uint256 preciseMul and preciseDiv: the result is rounded down.
preciseMul(a, b) == (a * b) \div PRECISE_UNIT
preciseDiv(a, b) == (a * PRECISE_UNIT) \div b

\* The rounding-up counterparts.
preciseMulCeil(a, b) ==
    IF a = 0 \/ b = 0 THEN 0 ELSE ((a * b - 1) \div PRECISE_UNIT) + 1
preciseDivCeil(a, b) ==
    IF a > 0 THEN ((a * PRECISE_UNIT - 1) \div b) + 1 ELSE 0

abs(a) == IF a >= 0 THEN a ELSE -a

\* SignedSafeMath.div: division that truncates toward zero.
Quotient(a, b) ==
    IF (a < 0) = (b < 0) THEN abs(a) \div abs(b) ELSE -(abs(a) \div abs(b))

\* Truncated quotient, corrected by one when the signs differ and the division
\* leaves a remainder.
divDown(a, b) ==
    IF (a < 0) # (b < 0) /\ abs(a) % abs(b) # 0
    THEN Quotient(a, b) - 1
    ELSE Quotient(a, b)

conservativePreciseMul(a, b) == divDown(a * b, PRECISE_UNIT)
conservativePreciseDiv(a, b) == divDown(a * PRECISE_UNIT, b)

\* SafeMath makes b.sub(range) revert when range exceeds b, and && evaluates it
\* only when the first comparison holds: the call reverts exactly when
\* approximatelyEqualsReverts holds.
approximatelyEquals(a, b, range) == a <= b + range /\ a >= b - range
approximatelyEqualsReverts(a, b, range) == a <= b + range /\ b < range
=============================================================================
