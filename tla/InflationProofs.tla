--------------------------- MODULE InflationProofs ---------------------------
(***************************************************************************)
(* Two modules mint or burn sets without moving the components along, and  *)
(* scale the position multiplier to make up for it: StreamingFeeModule and *)
(* CustomOracleNavIssuanceModule.  What is rounded in between is bounded   *)
(* by the sets ever issued, nobody is diluted by the issues and            *)
(* redemptions of others, and the tests' helpers predict both modules, for *)
(* any rates, prices, premiums, quantities and times, and any precise      *)
(* unit.                                                                   *)
(***************************************************************************)
EXTENDS StreamingFee, NAVIssuance, IssuanceProofs

-----------------------------------------------------------------------------
(* The claim of the supply, unrounded.                                      *)

\* The claim of S sets on component c, in parts of PRECISE_UNIT ^ 2, exceeds B tokens by at
\* most one base unit for each of n whole sets.
ClaimBounded(S, p, c, B, n) ==
    S * p.virtualUnit[c] * p.positionMultiplier <= PRECISE_UNIT * (B * PRECISE_UNIT + n)

\* The real unit is the unrounded one, rounded down.
LEMMA RealUnitBounds ==
    ASSUME NEW p, PositionInv(p), NEW c \in Component
    PROVE  LET x == p.virtualUnit[c] * p.positionMultiplier
               u == getDefaultPositionRealUnit(p, c)
           IN  /\ p.virtualUnit[c] \in Nat /\ p.positionMultiplier \in Nat
               /\ p.positionMultiplier > 0
               /\ u \in Nat /\ x \in Nat
               /\ PRECISE_UNIT * u <= x /\ x < PRECISE_UNIT * u + PRECISE_UNIT
<1>1. PRECISE_UNIT \in Int /\ PRECISE_UNIT > 0
  BY PreciseUnitAssumption
<1>2. /\ p.virtualUnit[c] \in Nat /\ p.positionMultiplier \in Nat
      /\ p.positionMultiplier > 0
  BY DEF PositionInv, PositionState, DefaultsReadable
<1>3. PICK x \in Nat : x = p.virtualUnit[c] * p.positionMultiplier
  BY <1>2
<1>4. getDefaultPositionRealUnit(p, c) = x \div PRECISE_UNIT
  BY <1>1, <1>3, DivDownIsFloor
     DEF getDefaultPositionRealUnit, convertVirtualToRealUnit, conservativePreciseMul
<1>5. getDefaultPositionRealUnit(p, c) \in Nat
  BY RealUnits
<1> QED BY <1>1, <1>2, <1>3, <1>4, <1>5, DivBounds

\* An issue for a rounded-up amount of the rounded-down unit adds at most one base unit for
\* each set to the shortfall.
LEMMA IssueArithmetic ==
    ASSUME NEW S \in Nat, NEW q \in Nat, NEW x \in Nat, NEW u \in Nat, NEW B \in Nat,
           NEW in \in Nat, NEW n \in Nat,
           x < PRECISE_UNIT * u + PRECISE_UNIT, q * u <= PRECISE_UNIT * in,
           S * x <= PRECISE_UNIT * (B * PRECISE_UNIT + n)
    PROVE  (S + q) * x <= PRECISE_UNIT * ((B + in) * PRECISE_UNIT + (n + q))
<1>1. PRECISE_UNIT \in Nat /\ PRECISE_UNIT > 0
  BY PreciseUnitAssumption
<1>2. PICK a \in Nat, b \in Nat : a = S * x /\ b = q * x
  OBVIOUS
<1>3. PICK y \in Nat : y = q * u
  OBVIOUS
<1>4. b <= PRECISE_UNIT * y + PRECISE_UNIT * q
  <2>1. PICK z \in Nat : z = PRECISE_UNIT * u + PRECISE_UNIT
    BY <1>1
  <2>2. q * x <= q * z
    BY <2>1
  <2>3. q * z = PRECISE_UNIT * (q * u) + PRECISE_UNIT * q
    BY <1>1, <2>1
  <2> QED BY <1>2, <1>3, <2>2, <2>3
<1>5. PRECISE_UNIT * y <= PRECISE_UNIT * (PRECISE_UNIT * in)
  <2>1. PICK z \in Nat : z = PRECISE_UNIT * in
    BY <1>1
  <2> QED BY <1>1, <1>3, <2>1
<1>6. PRECISE_UNIT * ((B + in) * PRECISE_UNIT + (n + q))
        = PRECISE_UNIT * (B * PRECISE_UNIT + n) + PRECISE_UNIT * (PRECISE_UNIT * in) + PRECISE_UNIT * q
  BY <1>1
<1>7. (S + q) * x = a + b
  BY <1>2
<1>8. PICK k \in Nat, l \in Nat, r \in Nat, t \in Nat :
        /\ k = PRECISE_UNIT * (B * PRECISE_UNIT + n) /\ l = PRECISE_UNIT * (PRECISE_UNIT * in)
        /\ r = PRECISE_UNIT * q /\ t = PRECISE_UNIT * y
  BY <1>1
<1>9. a <= k /\ b <= t + r /\ t <= l
  BY <1>2, <1>4, <1>5, <1>8
<1>10. a + b <= k + l + r
  BY <1>9
<1> QED BY <1>6, <1>7, <1>8, <1>10

\* A redemption for a rounded-down amount takes at most the claim of the sets it burns.
LEMMA RedeemArithmetic ==
    ASSUME NEW S \in Nat, NEW q \in Nat, q <= S, NEW x \in Nat, NEW u \in Nat, NEW B \in Nat,
           NEW out \in Nat, NEW n \in Nat,
           PRECISE_UNIT * u <= x, PRECISE_UNIT * out <= q * u,
           S * x <= PRECISE_UNIT * (B * PRECISE_UNIT + n)
    PROVE  (S - q) * x <= PRECISE_UNIT * ((B - out) * PRECISE_UNIT + n)
<1>1. PRECISE_UNIT \in Nat /\ PRECISE_UNIT > 0
  BY PreciseUnitAssumption
<1>2. PICK a \in Nat, b \in Nat : a = S * x /\ b = q * x
  OBVIOUS
<1>3. PICK y \in Nat : y = q * u
  OBVIOUS
<1>4. PRECISE_UNIT * y <= b
  <2>1. PICK z \in Nat : z = PRECISE_UNIT * u
    BY <1>1
  <2>2. q * z <= q * x
    BY <2>1
  <2>3. q * z = PRECISE_UNIT * (q * u)
    BY <1>1, <2>1
  <2> QED BY <1>2, <1>3, <2>2, <2>3
<1>5. PRECISE_UNIT * (PRECISE_UNIT * out) <= PRECISE_UNIT * y
  <2>1. PICK z \in Nat : z = PRECISE_UNIT * out
    BY <1>1
  <2> QED BY <1>1, <1>3, <2>1
<1>6. PRECISE_UNIT * ((B - out) * PRECISE_UNIT + n)
        = PRECISE_UNIT * (B * PRECISE_UNIT + n) - PRECISE_UNIT * (PRECISE_UNIT * out)
  BY <1>1
<1>7. (S - q) * x = a - b
  BY <1>2
<1>8. PICK k \in Nat, l \in Nat, t \in Nat :
        /\ k = PRECISE_UNIT * (B * PRECISE_UNIT + n) /\ l = PRECISE_UNIT * (PRECISE_UNIT * out)
        /\ t = PRECISE_UNIT * y
  BY <1>1
<1>9. a <= k /\ t <= b /\ l <= t
  BY <1>2, <1>4, <1>5, <1>8
<1>10. a - b <= k - l
  BY <1>9
<1> QED BY <1>6, <1>7, <1>8, <1>10

\* BasicIssuanceModule, seen from the unrounded claim.
LEMMA BasicIssueKeepsClaims ==
    ASSUME PositionInv(pos), totalSupply \in Nat, balance \in [Component -> Nat],
           NEW n \in Nat, NEW q \in Quantity, BasicIssue(q),
           \A c \in Component : ClaimBounded(totalSupply, pos, c, balance[c], n)
    PROVE  /\ totalSupply' \in Nat /\ balance' \in [Component -> Nat]
           /\ \A c \in Component : ClaimBounded(totalSupply', pos, c, balance'[c], n + q)
<1> DEFINE in == getRequiredComponentUnitsForIssue(q)
<1>1. q \in Nat
  BY IssuanceAssumption
<1>2. /\ totalSupply' = totalSupply + q
      /\ balance' = [c \in Component |-> balance[c] + in[c]]
  BY DEF BasicIssue
<1>3. ASSUME NEW c \in Component
      PROVE  in[c] \in Nat /\ q * unit(c) <= PRECISE_UNIT * in[c]
  <2>1. unit(c) \in Nat /\ (~ isComponent(pos, c) => unit(c) = 0)
    BY RealUnits DEF unit
  <2>2. CASE isComponent(pos, c)
    <3>1. in[c] = preciseMulCeil(unit(c), q)
      BY <2>2 DEF getRequiredComponentUnitsForIssue
    <3>2. unit(c) * q = q * unit(c)
      BY <1>1, <2>1
    <3> HIDE DEF in
    <3> QED BY <1>1, <2>1, <3>1, <3>2, MulCeilIsAbove
  <2>3. CASE ~ isComponent(pos, c)
    <3>1. in[c] = 0 /\ unit(c) = 0
      BY <2>1, <2>3 DEF getRequiredComponentUnitsForIssue
    <3> HIDE DEF in
    <3> QED BY <1>1, <3>1, PreciseUnitAssumption
  <2> QED BY <2>2, <2>3
<1> HIDE DEF in
<1>4. totalSupply' \in Nat /\ balance' \in [Component -> Nat]
  BY <1>1, <1>2, <1>3
<1>5. ASSUME NEW c \in Component
      PROVE  ClaimBounded(totalSupply', pos, c, balance'[c], n + q)
  <2>1. PICK v \in Nat, m \in Nat, x \in Nat, u \in Nat :
          /\ v = pos.virtualUnit[c] /\ m = pos.positionMultiplier /\ x = v * m /\ u = unit(c)
          /\ x < PRECISE_UNIT * u + PRECISE_UNIT
    BY RealUnitBounds DEF unit
  <2>2. totalSupply * x <= PRECISE_UNIT * (balance[c] * PRECISE_UNIT + n)
    <3>1. totalSupply * x = totalSupply * v * m
      BY <2>1
    <3> QED BY <2>1, <3>1 DEF ClaimBounded
  <2>3. PICK B \in Nat, a \in Nat : B = balance[c] /\ a = in[c]
    BY <1>3
  <2>4. (totalSupply + q) * x <= PRECISE_UNIT * ((B + a) * PRECISE_UNIT + (n + q))
    BY Zenon, <1>1, <1>3, <2>1, <2>2, <2>3, IssueArithmetic
  <2>5. (totalSupply + q) * x = (totalSupply + q) * v * m
    BY <1>1, <2>1
  <2> QED BY <1>2, <2>1, <2>3, <2>4, <2>5 DEF ClaimBounded
<1> QED BY <1>4, <1>5

LEMMA BasicRedeemKeepsClaims ==
    ASSUME PositionInv(pos), totalSupply \in Nat, balance \in [Component -> Nat],
           NEW n \in Nat, NEW q \in Quantity, BasicRedeem(q),
           \A c \in Component : ClaimBounded(totalSupply, pos, c, balance[c], n)
    PROVE  /\ totalSupply' \in Nat /\ balance' \in [Component -> Nat]
           /\ \A c \in Component : ClaimBounded(totalSupply', pos, c, balance'[c], n)
<1> DEFINE out == [c \in Component |->
                     IF isComponent(pos, c) THEN preciseMul(q, unit(c)) ELSE 0]
<1>1. q \in Nat
  BY IssuanceAssumption
<1>2. /\ q <= totalSupply /\ totalSupply' = totalSupply - q
      /\ \A c \in Component : out[c] <= balance[c]
      /\ balance' = [c \in Component |-> balance[c] - out[c]]
  BY DEF BasicRedeem
<1>3. ASSUME NEW c \in Component
      PROVE  out[c] \in Nat /\ PRECISE_UNIT * out[c] <= q * unit(c)
  <2>1. unit(c) \in Nat /\ (~ isComponent(pos, c) => unit(c) = 0)
    BY RealUnits DEF unit
  <2>2. CASE isComponent(pos, c)
    BY <1>1, <2>1, <2>2, MulIsBelow
  <2>3. CASE ~ isComponent(pos, c)
    <3>1. out[c] = 0 /\ unit(c) = 0
      BY <2>1, <2>3
    <3> HIDE DEF out
    <3> QED BY <1>1, <3>1, PreciseUnitAssumption
  <2> QED BY <2>2, <2>3
<1> HIDE DEF out
<1>4. totalSupply' \in Nat /\ balance' \in [Component -> Nat]
  BY <1>1, <1>2, <1>3
<1>5. ASSUME NEW c \in Component
      PROVE  ClaimBounded(totalSupply', pos, c, balance'[c], n)
  <2>1. PICK v \in Nat, m \in Nat, x \in Nat, u \in Nat :
          /\ v = pos.virtualUnit[c] /\ m = pos.positionMultiplier /\ x = v * m /\ u = unit(c)
          /\ PRECISE_UNIT * u <= x
    BY RealUnitBounds DEF unit
  <2>2. totalSupply * x <= PRECISE_UNIT * (balance[c] * PRECISE_UNIT + n)
    <3>1. totalSupply * x = totalSupply * v * m
      BY <2>1
    <3> QED BY <2>1, <3>1 DEF ClaimBounded
  <2>3. PICK B \in Nat, a \in Nat : B = balance[c] /\ a = out[c]
    BY <1>3
  <2>4. (totalSupply - q) * x <= PRECISE_UNIT * ((B - a) * PRECISE_UNIT + n)
    BY Zenon, <1>1, <1>2, <1>3, <2>1, <2>2, <2>3, RedeemArithmetic
  <2>5. (totalSupply - q) * x = (totalSupply - q) * v * m
    BY <1>1, <2>1
  <2> QED BY <1>2, <2>1, <2>3, <2>4, <2>5 DEF ClaimBounded
<1> QED BY <1>4, <1>5

\* Sets minted at a multiplier scaled down in proportion claim no more than before: S * m does
\* not grow.
LEMMA ScaledClaim ==
    ASSUME NEW S \in Nat, NEW m \in Nat, NEW T \in Nat, NEW k \in Nat, NEW v \in Nat,
           T * k <= S * m
    PROVE  T * v * k <= S * v * m
<1>1. PICK a \in Nat, b \in Nat : a = T * k /\ b = S * m
  OBVIOUS
<1>2. a * v <= b * v
  BY <1>1
<1>3. a * v = T * v * k /\ b * v = S * v * m
  BY <1>1
<1> QED BY <1>2, <1>3

-----------------------------------------------------------------------------
(* StreamingFeeModule: what an accrual mints and how it scales the units.   *)

\* Sets i are minted for a fee f of the supply S, and the multiplier m becomes k.
LEMMA AccrualArithmetic ==
    ASSUME NEW S \in Nat, NEW m \in Nat, NEW f \in Nat, f < PRECISE_UNIT
    PROVE  LET g == PRECISE_UNIT - f
               i == (f * S) \div g
               k == (m * g) \div PRECISE_UNIT
           IN  /\ i \in Nat /\ k \in Nat
               /\ i * PRECISE_UNIT <= f * (S + i)
               /\ (S + i) * k <= S * m
<1>1. PRECISE_UNIT \in Nat /\ PRECISE_UNIT > 0
  BY PreciseUnitAssumption
<1>2. PICK g \in Nat : g = PRECISE_UNIT - f /\ g > 0
  BY <1>1
<1>3. PICK x \in Nat, y \in Nat : x = f * S /\ y = m * g
  OBVIOUS
<1>4. PICK i \in Nat : i = x \div g /\ g * i <= x
  <2>1. x \div g \in Nat /\ g * (x \div g) <= x
    BY <1>2, <1>3, DivBounds
  <2> QED BY Zenon, <2>1
<1>5. PICK k \in Nat : k = y \div PRECISE_UNIT /\ PRECISE_UNIT * k <= y
  <2>1. /\ y \div PRECISE_UNIT \in Nat
        /\ PRECISE_UNIT * (y \div PRECISE_UNIT) <= y
    BY <1>1, <1>3, DivBounds
  <2> QED BY Zenon, <2>1
<1>6. i * PRECISE_UNIT <= f * (S + i)
  <2>1. i * PRECISE_UNIT = g * i + f * i
    <3>1. PRECISE_UNIT = g + f
      BY <1>1, <1>2
    <3> QED BY <1>2, <3>1
  <2>2. f * (S + i) = x + f * i
    BY <1>3
  <2>3. PICK a \in Nat, b \in Nat : a = g * i /\ b = f * i
    BY <1>2
  <2> QED BY <1>4, <2>1, <2>2, <2>3
<1>7. (S + i) * k <= S * m
  <2>1. PICK T \in Nat : T = S + i
    OBVIOUS
  <2>2. T * g <= S * PRECISE_UNIT
    <3>1. T * g = S * g + g * i
      BY <1>2, <2>1
    <3>2. S * PRECISE_UNIT = S * g + f * S
      <4>1. PRECISE_UNIT = g + f
        BY <1>1, <1>2
      <4> QED BY <1>2, <4>1
    <3>3. PICK a \in Nat, b \in Nat : a = g * i /\ b = S * g
      BY <1>2
    <3> QED BY <1>3, <1>4, <3>1, <3>2, <3>3
  <2>3. PRECISE_UNIT * (T * k) <= T * y
    <3>1. T * (PRECISE_UNIT * k) <= T * y
      <4>1. PICK a \in Nat : a = PRECISE_UNIT * k
        BY <1>1
      <4> QED BY <1>5, <4>1
    <3>2. T * (PRECISE_UNIT * k) = PRECISE_UNIT * (T * k)
      BY <1>1
    <3> QED BY <3>1, <3>2
  <2>4. T * y <= PRECISE_UNIT * (S * m)
    <3>1. PICK a \in Nat, b \in Nat : a = T * g /\ b = S * PRECISE_UNIT
      BY <1>1
    <3>2. a * m <= b * m
      BY <2>2, <3>1
    <3>3. a * m = T * y /\ b * m = PRECISE_UNIT * (S * m)
      BY <1>1, <1>3, <3>1
    <3> QED BY <3>2, <3>3
  <2>5. PICK c \in Nat, d \in Nat, e \in Nat : c = T * k /\ d = S * m /\ e = T * y
    OBVIOUS
  <2>6. PRECISE_UNIT * c <= PRECISE_UNIT * d
    <3>1. PRECISE_UNIT * c \in Int /\ PRECISE_UNIT * d \in Int
      BY <1>1
    <3> QED BY <2>3, <2>4, <2>5, <3>1
  <2>7. c <= d
    BY <1>1, <2>6
  <2> QED BY <2>1, <2>5, <2>7
<1> QED BY <1>2, <1>3, <1>4, <1>5, <1>6, <1>7

\* The invariant: the bound on the shortfall, on top of positions that can be read back and
\* a component the set never loses, so that an issue always brings something in.
FeeInv ==
    /\ PositionInv(pos)
    /\ totalSupply \in Nat /\ balance \in [Component -> Nat]
    /\ streamingFeePercentage \in Nat /\ timeSinceLastFee \in Nat /\ issued \in Nat
    /\ \E c \in Component : pos.virtualUnit[c] > 0
    /\ \A c \in Component : ClaimBounded(totalSupply, pos, c, balance[c], issued)

LEMMA FeeInvShortfall == FeeInv => ShortfallBounded
BY DEF FeeInv, ShortfallBounded, ClaimBounded

\* A new set has no supply, and a component.
LEMMA FeeInitFeeInv == FeeInit => FeeInv
<1> SUFFICES ASSUME FeeInit PROVE FeeInv
  OBVIOUS
<1>1. Init /\ streamingFeePercentage = 0 /\ timeSinceLastFee = 0 /\ issued = 0
  BY DEF FeeInit
<1>2. PositionInv(pos) /\ totalSupply = 0 /\ balance \in [Component -> Nat]
  BY <1>1, InitIInv DEF IInv, Init
<1>3. \E c \in Component : pos.virtualUnit[c] > 0
  <2>1. PICK components \in ComponentLists, units \in [Component -> InitialUnit] :
          pos = InitialPositions(components, units)
    BY <1>1 DEF Init
  <2>2. PICK n \in 1..Cardinality(Component) : components \in [1..n -> Component]
    BY DEF ComponentLists
  <2>3. Cardinality(Component) \in Nat
    BY IssuanceAssumption, FS_CardinalityType
  <2>4. n \in Nat /\ 1 \in 1..n
    BY <2>3
  <2>5. components[1] \in Component /\ contains(components, components[1])
    BY <2>2, <2>4 DEF contains, Range
  <2>6. pos.virtualUnit[components[1]] = units[components[1]]
    BY <2>1, <2>5 DEF InitialPositions
  <2>7. units[components[1]] > 0
    <3>1. units[components[1]] \in InitialUnit
      BY <2>5
    <3>2. units[components[1]] \in Nat \ {0}
      BY <3>1, IssuanceAssumption
    <3> QED BY <3>2
  <2> QED BY <2>5, <2>6, <2>7
<1>4. ASSUME NEW c \in Component PROVE ClaimBounded(totalSupply, pos, c, balance[c], issued)
  <2>1. PICK v \in Nat, m \in Nat : v = pos.virtualUnit[c] /\ m = pos.positionMultiplier
    BY <1>2, RealUnitBounds
  <2>2. PICK B \in Nat : B = balance[c]
    BY <1>2
  <2>3. 0 * v * m = 0 /\ PRECISE_UNIT * (B * PRECISE_UNIT + 0) \in Nat
    BY PreciseUnitAssumption
  <2> QED BY <1>1, <1>2, <2>1, <2>2, <2>3 DEF ClaimBounded
<1> QED BY <1>1, <1>2, <1>3, <1>4 DEF FeeInv

\* What is due, as a part of the supply.
LEMMA FeeDue == FeeInv => calculateStreamingFee \in Nat
<1> SUFFICES ASSUME FeeInv PROVE calculateStreamingFee \in Nat
  OBVIOUS
<1>1. PICK x \in Nat : x = timeSinceLastFee * streamingFeePercentage
  BY DEF FeeInv
<1>2. x \div ONE_YEAR \in Int /\ x \div ONE_YEAR >= 0
  BY StreamingFeeAssumption
<1> QED BY <1>1, <1>2 DEF calculateStreamingFee

\* What a call of accrueFee that goes through does.
LEMMA AccrualEffect ==
    ASSUME FeeInv, NEW s \in FeeRate, Accrual(s)
    PROVE  LET f == calculateStreamingFee
           IN  /\ UNCHANGED <<balance, issued>>
               /\ timeSinceLastFee' = 0
               /\ totalSupply' \in Nat
               /\ PositionInv(pos') /\ pos'.virtualUnit = pos.virtualUnit
               /\ (totalSupply' - totalSupply) * PRECISE_UNIT <= f * totalSupply'
               /\ totalSupply' * pos'.positionMultiplier <= totalSupply * pos.positionMultiplier
<1> DEFINE f == calculateStreamingFee
<1>1. /\ UNCHANGED <<balance, issued>> /\ timeSinceLastFee' = 0
      /\ accrueFeeOK(s)
  BY DEF Accrual
<1>2. /\ totalSupply \in Nat /\ PositionInv(pos) /\ f \in Nat
      /\ pos \in PositionState /\ pos.positionMultiplier \in Nat
  BY FeeDue DEF FeeInv, PositionInv, PositionState
<1> HIDE DEF f
<1>3. CASE streamingFeePercentage > 0
  <2> DEFINE k == NewMultiplier(f)
             i == calculateStreamingFeeInflation(f)
  <2>1. f < PRECISE_UNIT /\ validateNewMultiplier(pos, k)
    BY <1>1, <1>3 DEF accrueFeeOK, f
  <2>2. totalSupply' = totalSupply + i /\ pos' = editPositionMultiplier(pos, k)
    BY <1>3 DEF Accrual, f
  <2>3. /\ i \in Nat /\ k \in Nat
        /\ i * PRECISE_UNIT <= f * (totalSupply + i)
        /\ (totalSupply + i) * k <= totalSupply * pos.positionMultiplier
    BY <1>2, <2>1, AccrualArithmetic
       DEF calculateStreamingFeeInflation, NewMultiplier, preciseMul
  <2> HIDE DEF i, k
  <2>4. k \in Int
    BY <2>3
  <2>5. /\ PositionInv(pos') /\ pos'.virtualUnit = pos.virtualUnit
        /\ pos'.positionMultiplier = k
    BY <1>2, <2>1, <2>2, <2>4, EditPositionMultiplierKeepsInv, EditMultiplierFields
  <2>6. totalSupply' \in Nat /\ totalSupply' - totalSupply = i
    BY <1>2, <2>2, <2>3
  <2> QED BY <1>1, <2>2, <2>3, <2>5, <2>6 DEF f
<1>4. CASE ~ (streamingFeePercentage > 0)
  <2>1. UNCHANGED <<totalSupply, pos>>
    BY <1>4 DEF Accrual
  <2>2. totalSupply - totalSupply = 0 /\ f * totalSupply \in Nat
    BY <1>2
  <2>3. 0 * PRECISE_UNIT = 0 /\ totalSupply * pos.positionMultiplier \in Nat
    BY <1>2, PreciseUnitAssumption
  <2> QED BY <1>1, <1>2, <2>1, <2>2, <2>3 DEF f
<1> QED BY <1>3, <1>4

\* An accrual keeps every claim: the supply grows by no more than the units shrink.
LEMMA AccrualKeepsFeeInv ==
    ASSUME FeeInv, NEW s \in FeeRate, Accrual(s), streamingFeePercentage' \in Nat
    PROVE  FeeInv'
<1>1. /\ UNCHANGED <<balance, issued>> /\ timeSinceLastFee' = 0
      /\ totalSupply' \in Nat
      /\ PositionInv(pos') /\ pos'.virtualUnit = pos.virtualUnit
      /\ totalSupply' * pos'.positionMultiplier <= totalSupply * pos.positionMultiplier
  BY AccrualEffect
<1>2. ASSUME NEW c \in Component
      PROVE  ClaimBounded(totalSupply', pos', c, balance[c], issued)
  <2>1. PICK v \in Nat, m \in Nat, k \in Nat :
          v = pos.virtualUnit[c] /\ m = pos.positionMultiplier /\ k = pos'.positionMultiplier
    BY <1>1, RealUnitBounds DEF FeeInv
  <2>2. PICK S \in Nat, T \in Nat : S = totalSupply /\ T = totalSupply'
    BY <1>1 DEF FeeInv
  <2>3. T * v * k <= S * v * m
    BY <1>1, <2>1, <2>2, ScaledClaim
  <2>4. S * v * m <= PRECISE_UNIT * (balance[c] * PRECISE_UNIT + issued)
    BY <2>1, <2>2 DEF FeeInv, ClaimBounded
  <2>5. PICK a \in Int, b \in Int, d \in Int :
          a = T * v * k /\ b = S * v * m /\ d = PRECISE_UNIT * (balance[c] * PRECISE_UNIT + issued)
    BY PreciseUnitAssumption DEF FeeInv
  <2>6. a <= d
    BY <2>3, <2>4, <2>5
  <2> QED BY <1>1, <2>1, <2>2, <2>5, <2>6 DEF ClaimBounded
<1> QED BY <1>1, <1>2 DEF FeeInv

LEMMA FeeNextKeepsFeeInv == FeeInv /\ [FeeNext]_feeVars => FeeInv'
<1> SUFFICES ASSUME FeeInv, [FeeNext]_feeVars PROVE FeeInv'
  OBVIOUS
<1>1. ASSUME NEW f \in StreamingRate, NEW x \in StreamingRate, initialize(f, x) PROVE FeeInv'
  BY <1>1, StreamingFeeAssumption DEF initialize, FeeInv, ClaimBounded, vars
<1>2. CASE removeModule
  BY <1>2 DEF removeModule, FeeInv, ClaimBounded, vars
<1>3. ASSUME NEW s \in FeeRate, accrueFee(s) PROVE FeeInv'
  BY <1>3, AccrualKeepsFeeInv DEF accrueFee, FeeInv
<1>4. ASSUME NEW f \in StreamingRate, NEW s \in FeeRate, updateStreamingFee(f, s) PROVE FeeInv'
  BY <1>4, AccrualKeepsFeeInv, StreamingFeeAssumption DEF updateStreamingFee
<1>5. CASE Tick
  BY <1>5 DEF Tick, FeeInv, ClaimBounded, vars
<1>6. ASSUME NEW q \in Quantity, IssueSets(q) PROVE FeeInv'
  <2>1. BasicIssue(q) /\ issued' = issued + q /\ UNCHANGED <<feeState, pos>> /\ q \in Nat
    BY <1>6, IssuanceAssumption DEF IssueSets, BasicIssue
  <2>2. /\ totalSupply' \in Nat /\ balance' \in [Component -> Nat]
        /\ \A c \in Component : ClaimBounded(totalSupply', pos, c, balance'[c], issued + q)
    BY <2>1, BasicIssueKeepsClaims DEF FeeInv
  <2> QED BY <2>1, <2>2 DEF FeeInv, feeState, ClaimBounded
<1>7. ASSUME NEW q \in Quantity, RedeemSets(q) PROVE FeeInv'
  <2>1. BasicRedeem(q) /\ UNCHANGED <<feeState, issued, pos>>
    BY <1>7 DEF RedeemSets, BasicRedeem
  <2>2. /\ totalSupply' \in Nat /\ balance' \in [Component -> Nat]
        /\ \A c \in Component : ClaimBounded(totalSupply', pos, c, balance'[c], issued)
    BY <2>1, BasicRedeemKeepsClaims DEF FeeInv
  <2> QED BY <2>1, <2>2 DEF FeeInv, feeState, ClaimBounded
<1>8. CASE UNCHANGED feeVars
  BY <1>8 DEF feeVars, feeState, vars, FeeInv, ClaimBounded
<1> QED BY <1>1, <1>2, <1>3, <1>4, <1>5, <1>6, <1>7, <1>8 DEF FeeNext

\* However often fees accrue and at whatever rates, what the set owes its holders, unrounded,
\* exceeds what it holds by no more than one base unit for each whole set ever issued.
THEOREM ShortfallAlwaysBounded == FeeSpec => []ShortfallBounded
<1>1. FeeInit => FeeInv
  BY FeeInitFeeInv
<1>2. FeeInv /\ [FeeNext]_feeVars => FeeInv'
  BY FeeNextKeepsFeeInv
<1>3. FeeInv => ShortfallBounded
  BY FeeInvShortfall
<1> QED BY <1>1, <1>2, <1>3, PTL DEF FeeSpec

\* An issue takes some of each component that the set has a default position in.
LEMMA IssueBringsTokens ==
    ASSUME FeeInv, NEW q \in Quantity, BasicIssue(q)
    PROVE  balance' # balance
<1>1. PICK c \in Component : pos.virtualUnit[c] > 0
  BY DEF FeeInv
<1>2. q \in Nat /\ q > 0
  BY IssuanceAssumption DEF BasicIssue
<1>3. PositionInv(pos) /\ balance[c] \in Nat
  BY DEF FeeInv
<1>4. unit(c) \in Nat /\ unit(c) > 0 /\ isComponent(pos, c)
  BY <1>1, <1>3, RealUnits DEF unit, PositionInv, DefaultsReadable, ComponentsMatch
<1>5. getRequiredComponentUnitsForIssue(q)[c] = preciseMulCeil(unit(c), q)
  BY <1>4 DEF getRequiredComponentUnitsForIssue
<1>6. preciseMulCeil(unit(c), q) \in Nat /\ preciseMulCeil(unit(c), q) # 0
  BY <1>2, <1>4, MulCeilIsAbove
<1>7. balance'[c] = balance[c] + getRequiredComponentUnitsForIssue(q)[c]
  BY DEF BasicIssue
<1> QED BY <1>3, <1>5, <1>6, <1>7

\* No step other than an accrual adds to the supply without tokens, or touches the multiplier.
LEMMA FeeShareStep ==
    ASSUME FeeInv, [FeeNext]_feeVars, timeSinceLastFee' = 0, balance' = balance
    PROVE  /\ (totalSupply' - totalSupply) * PRECISE_UNIT <= calculateStreamingFee * totalSupply'
           /\ totalSupply' * pos'.positionMultiplier <= totalSupply * pos.positionMultiplier
<1> DEFINE Share == /\ (totalSupply' - totalSupply) * PRECISE_UNIT <= calculateStreamingFee * totalSupply'
                    /\ totalSupply' * pos'.positionMultiplier <= totalSupply * pos.positionMultiplier
<1>1. /\ totalSupply \in Nat /\ pos.positionMultiplier \in Nat
      /\ calculateStreamingFee \in Nat
  BY FeeDue DEF FeeInv, PositionInv, PositionState
<1>2. ASSUME totalSupply' \in Nat, totalSupply' <= totalSupply, UNCHANGED pos PROVE Share
  <2>1. PICK S \in Nat, T \in Nat, m \in Nat, f \in Nat :
          /\ S = totalSupply /\ T = totalSupply' /\ T <= S
          /\ m = pos.positionMultiplier /\ f = calculateStreamingFee
    BY <1>1, <1>2
  <2>2. (T - S) * PRECISE_UNIT <= 0 /\ f * T >= 0
    <3>1. S - T \in Nat
      <4>1. T <= S
        BY Zenon, <2>1
      <4> QED BY <4>1
    <3>2. PICK d \in Nat : d = S - T
      BY <3>1
    <3>3. d * PRECISE_UNIT \in Nat /\ f * T \in Nat
      BY PreciseUnitAssumption
    <3>4. (T - S) * PRECISE_UNIT = - (d * PRECISE_UNIT)
      <4>1. T - S = -d
        BY <3>2
      <4> QED BY <4>1, PreciseUnitAssumption
    <3> QED BY <3>3, <3>4
  <2>3. T * m <= S * m
    BY <2>1
  <2>4. (T - S) * PRECISE_UNIT <= f * T
    <3>1. PICK a \in Int, b \in Int : a = (T - S) * PRECISE_UNIT /\ b = f * T
      BY PreciseUnitAssumption
    <3> QED BY <2>2, <3>1
  <2> QED BY <1>2, <2>1, <2>3, <2>4
<1>3. ASSUME NEW f \in StreamingRate, NEW x \in StreamingRate, initialize(f, x) PROVE Share
  BY <1>1, <1>2, <1>3 DEF initialize, vars
<1>4. CASE removeModule
  BY <1>1, <1>2, <1>4 DEF removeModule, vars
<1>5. ASSUME NEW s \in FeeRate, Accrual(s) PROVE Share
  BY <1>5, AccrualEffect
<1>6. CASE Tick
  <2>1. timeSinceLastFee \in Nat /\ timeSinceLastFee' = timeSinceLastFee + 1
    BY <1>6 DEF Tick, FeeInv
  <2> QED BY <2>1
<1>7. ASSUME NEW q \in Quantity, IssueSets(q) PROVE Share
  BY <1>7, IssueBringsTokens DEF IssueSets
<1>8. ASSUME NEW q \in Quantity, RedeemSets(q) PROVE Share
  <2>1. BasicRedeem(q) /\ q \in Nat
    BY <1>8, IssuanceAssumption DEF RedeemSets
  <2>2. totalSupply' = totalSupply - q /\ q <= totalSupply /\ UNCHANGED pos
    BY <2>1 DEF BasicRedeem
  <2> QED BY <1>1, <1>2, <2>1, <2>2
<1>9. CASE UNCHANGED feeVars
  BY <1>1, <1>2, <1>9 DEF feeVars, vars
<1>10. CASE FeeNext
  BY Zenon, <1>3, <1>4, <1>5, <1>6, <1>7, <1>8, <1>10 DEF FeeNext, accrueFee, updateStreamingFee
<1> QED BY <1>9, <1>10

\* No accrual mints more than the fee due, at the rate in force, of the supply it leaves, and
\* each holder's claim shrinks by at least as much.
THEOREM FeeShareAlwaysBounded == FeeSpec => FeeShareBounded
<1>1. FeeInit => FeeInv
  BY FeeInitFeeInv
<1>2. FeeInv /\ [FeeNext]_feeVars => FeeInv'
  BY FeeNextKeepsFeeInv
<1>3. FeeInv /\ [FeeNext]_feeVars =>
        [timeSinceLastFee' = 0 /\ balance' = balance =>
           /\ (totalSupply' - totalSupply) * PRECISE_UNIT <= calculateStreamingFee * totalSupply'
           /\ totalSupply' * pos'.positionMultiplier <= totalSupply * pos.positionMultiplier]_feeVars
  BY FeeShareStep
<1> QED BY <1>1, <1>2, <1>3, PTL DEF FeeSpec, FeeShareBounded

-----------------------------------------------------------------------------
(* StreamingFeeModule: accruals that revert.                                *)

\* Whether the fee for t at a rate can be accrued to positions p: nothing else of the state
\* matters while the protocol takes no share.
Accruable(p, rate, t) ==
    LET fee == (t * rate) \div ONE_YEAR
    IN  rate > 0 => /\ fee < PRECISE_UNIT
                    /\ validateNewMultiplier(p, preciseMul(p.positionMultiplier, PRECISE_UNIT - fee))

\* The protocol's share can only add to what makes an accrual revert.
LEMMA AccruableIfAccrued ==
    ASSUME NEW s, accrueFeeOK(s)
    PROVE  Accruable(pos, streamingFeePercentage, timeSinceLastFee)
BY DEF accrueFeeOK, Accruable, calculateStreamingFee, NewMultiplier

\* A share of zero is no more than the sets minted.
LEMMA NoShare ==
    ASSUME NEW S \in Nat, NEW f \in Nat, f < PRECISE_UNIT
    PROVE  preciseMul((f * S) \div (PRECISE_UNIT - f), 0) <= (f * S) \div (PRECISE_UNIT - f)
<1>1. PICK i \in Nat : i = (f * S) \div (PRECISE_UNIT - f)
  BY AccrualArithmetic
<1>2. PRECISE_UNIT \in Int /\ PRECISE_UNIT > 0 /\ i * 0 = 0
  BY PreciseUnitAssumption
<1>3. preciseMul(i, 0) = 0
  BY <1>2 DEF preciseMul
<1> QED BY <1>1, <1>3

LEMMA AccrueFeeOKIfAccruable ==
    ASSUME FeeInv, Accruable(pos, streamingFeePercentage, timeSinceLastFee)
    PROVE  accrueFeeOK(0)
<1>1. calculateStreamingFee \in Nat /\ totalSupply \in Nat
  BY FeeDue DEF FeeInv
<1>2. calculateStreamingFee < PRECISE_UNIT =>
        preciseMul(calculateStreamingFeeInflation(calculateStreamingFee), 0)
          <= calculateStreamingFeeInflation(calculateStreamingFee)
  BY <1>1, NoShare DEF calculateStreamingFeeInflation
<1> QED BY <1>2 DEF accrueFeeOK, Accruable, calculateStreamingFee, NewMultiplier

\* An accrual that will be possible is possible already: the fee due only grows.
LEMMA AccruableSooner ==
    ASSUME NEW p, PositionInv(p), NEW rate \in Nat, NEW t \in Nat, Accruable(p, rate, t + 1)
    PROVE  Accruable(p, rate, t)
<1>1. CASE rate > 0
  <2>1. PICK x \in Nat, y \in Nat : x = t * rate /\ y = (t + 1) * rate
    OBVIOUS
  <2>2. x <= y
    BY <2>1
  <2>3. PICK f \in Nat, h \in Nat : f = x \div ONE_YEAR /\ h = y \div ONE_YEAR /\ f <= h
    BY <2>2, StreamingFeeAssumption
  <2>4. PICK k \in Nat, l \in Nat, m \in Nat :
          /\ m = p.positionMultiplier
          /\ k = m * (PRECISE_UNIT - h) /\ l = m * (PRECISE_UNIT - f)
          /\ k <= l
    <3>1. p.positionMultiplier \in Nat
      BY DEF PositionInv, PositionState
    <3>2. PICK m \in Nat : m = p.positionMultiplier
      BY <3>1
    <3>3. h < PRECISE_UNIT
      BY <1>1, <2>1, <2>3 DEF Accruable
    <3>4. PICK a \in Nat, b \in Nat : a = PRECISE_UNIT - h /\ b = PRECISE_UNIT - f /\ a <= b
      <4>1. PRECISE_UNIT - h \in Nat /\ PRECISE_UNIT - f \in Nat
            /\ PRECISE_UNIT - h <= PRECISE_UNIT - f
        BY <2>3, <3>3, PreciseUnitAssumption
      <4> QED BY <4>1
    <3>5. m * a \in Nat /\ m * b \in Nat /\ m * a <= m * b
      BY <3>4
    <3> QED BY <3>2, <3>4, <3>5
  <2>5. k \div PRECISE_UNIT \in Int /\ l \div PRECISE_UNIT \in Int
        /\ k \div PRECISE_UNIT <= l \div PRECISE_UNIT
    BY <2>4, PreciseUnitAssumption
  <2>6. h < PRECISE_UNIT /\ validateNewMultiplier(p, k \div PRECISE_UNIT)
    BY <1>1, <2>1, <2>3, <2>4 DEF Accruable, preciseMul
  <2>7. validateNewMultiplier(p, l \div PRECISE_UNIT)
    BY <2>5, <2>6, LargerMultiplierPasses
  <2>8. f < PRECISE_UNIT
    BY <2>3, <2>6, PreciseUnitAssumption
  <2> QED BY <2>1, <2>3, <2>4, <2>7, <2>8 DEF Accruable, preciseMul
<1>2. CASE ~ (rate > 0)
  BY <1>2 DEF Accruable
<1> QED BY <1>1, <1>2

\* No step makes the fee accruable again, or changes its rate, other than removing the module.
LEMMA BlockedStep ==
    ASSUME FeeInv, FeeInv', [FeeNext]_feeVars, isInitialized, isInitialized', ~ accrueFeeOK(0)
    PROVE  ~ accrueFeeOK(0)' /\ UNCHANGED streamingFeePercentage
<1>1. ~ Accruable(pos, streamingFeePercentage, timeSinceLastFee)
  BY AccrueFeeOKIfAccruable
<1>2. ASSUME accrueFeeOK(0)' PROVE Accruable(pos', streamingFeePercentage', timeSinceLastFee')
  BY <1>2 DEF accrueFeeOK, Accruable, calculateStreamingFee, NewMultiplier
<1>3. ASSUME NEW s \in FeeRate, Accrual(s) PROVE FALSE
  BY <1>1, <1>3, AccruableIfAccrued DEF Accrual
<1>4. ASSUME UNCHANGED <<pos, streamingFeePercentage, timeSinceLastFee>>
      PROVE  ~ accrueFeeOK(0)' /\ UNCHANGED streamingFeePercentage
  BY <1>1, <1>2, <1>4
<1>5. ASSUME NEW f \in StreamingRate, NEW x \in StreamingRate, initialize(f, x) PROVE FALSE
  BY <1>5 DEF initialize
<1>6. ~ removeModule
  BY DEF removeModule
<1>7. CASE Tick
  <2>1. /\ UNCHANGED <<pos, streamingFeePercentage>>
        /\ timeSinceLastFee' = timeSinceLastFee + 1
    BY <1>7 DEF Tick, vars
  <2>2. PositionInv(pos) /\ streamingFeePercentage \in Nat /\ timeSinceLastFee \in Nat
    BY DEF FeeInv
  <2>3. ~ Accruable(pos, streamingFeePercentage, timeSinceLastFee + 1)
    BY <1>1, <2>2, AccruableSooner
  <2> QED BY <1>2, <2>1, <2>3
<1>8. ASSUME NEW q \in Quantity, IssueSets(q)
      PROVE  UNCHANGED <<pos, streamingFeePercentage, timeSinceLastFee>>
  BY <1>8 DEF IssueSets, BasicIssue, feeState
<1>9. ASSUME NEW q \in Quantity, RedeemSets(q)
      PROVE  UNCHANGED <<pos, streamingFeePercentage, timeSinceLastFee>>
  BY <1>9 DEF RedeemSets, BasicRedeem, feeState
<1>10. CASE UNCHANGED feeVars
  BY <1>4, <1>10 DEF feeVars, feeState, vars
<1>11. CASE FeeNext
  BY Zenon, <1>3, <1>4, <1>5, <1>6, <1>7, <1>8, <1>9, <1>11
     DEF FeeNext, accrueFee, updateStreamingFee
<1> QED BY <1>10, <1>11

\* A fee that has grown too large to accrue blocks accruals and changes of the rate for as
\* long as the module stays.
THEOREM BlockedAccrualStaysBlocked == FeeSpec => BlockedAccrualIsFinal
<1>1. FeeInit => FeeInv
  BY FeeInitFeeInv
<1>2. FeeInv /\ [FeeNext]_feeVars => FeeInv'
  BY FeeNextKeepsFeeInv
<1>3. FeeInv /\ FeeInv' /\ [FeeNext]_feeVars =>
        [isInitialized /\ isInitialized' /\ ~ accrueFeeOK(0) =>
           ~ accrueFeeOK(0)' /\ UNCHANGED streamingFeePercentage]_feeVars
  BY BlockedStep
<1> QED BY <1>1, <1>2, <1>3, PTL DEF FeeSpec, BlockedAccrualIsFinal

-----------------------------------------------------------------------------
(* StreamingFeeModule: what the test helpers expect of an accrual.          *)

\* BigNumber.div, as the helpers of the fee module have it.
LEMMA FeeUtilsDiv ==
    ASSUME NEW a \in Nat, NEW b \in Nat, b > 0
    PROVE  FeeUtils!bnDiv(a, b) = a \div b
BY DEF FeeUtils!bnDiv, FeeUtils!bnAbs

\* The contract scales the multiplier and then the virtual unit v, the helper the real unit
\* v * m: g is what the fee leaves of a PRECISE_UNIT.
LEMMA ScalingOrder ==
    ASSUME NEW v \in Nat, NEW m \in Nat, NEW g \in Nat, g <= PRECISE_UNIT
    PROVE  LET contract == (v * ((m * g) \div PRECISE_UNIT)) \div PRECISE_UNIT
               expected == (((v * m) \div PRECISE_UNIT) * g) \div PRECISE_UNIT
           IN  /\ m = PRECISE_UNIT => contract = expected
               /\ contract <= expected + 1
               /\ (expected - contract) * PRECISE_UNIT < v + PRECISE_UNIT
<1>1. PRECISE_UNIT \in Nat /\ PRECISE_UNIT > 0
  BY PreciseUnitAssumption
<1>2. PICK y \in Nat, x \in Nat : y = m * g /\ x = v * m
  OBVIOUS
<1>3. PICK k \in Nat : /\ k = y \div PRECISE_UNIT
                       /\ PRECISE_UNIT * k <= y /\ y < PRECISE_UNIT * k + PRECISE_UNIT
  BY <1>1, <1>2, DivBounds
<1>4. PICK u \in Nat : /\ u = x \div PRECISE_UNIT
                       /\ PRECISE_UNIT * u <= x /\ x < PRECISE_UNIT * u + PRECISE_UNIT
  BY <1>1, <1>2, DivBounds
<1>5. PICK a \in Nat, b \in Nat : a = v * k /\ b = u * g
  OBVIOUS
<1>6. PICK c \in Nat : /\ c = a \div PRECISE_UNIT
                       /\ PRECISE_UNIT * c <= a /\ a < PRECISE_UNIT * c + PRECISE_UNIT
  BY <1>1, <1>5, DivBounds
<1>7. PICK e \in Nat : /\ e = b \div PRECISE_UNIT
                       /\ PRECISE_UNIT * e <= b /\ b < PRECISE_UNIT * e + PRECISE_UNIT
  BY <1>1, <1>5, DivBounds
<1>8. PICK w \in Nat : w = v * y /\ w = x * g
  <2>1. v * y = x * g /\ v * y \in Nat
    BY <1>2
  <2> QED BY <2>1
<1>9. PRECISE_UNIT * a <= w /\ w <= PRECISE_UNIT * a + PRECISE_UNIT * v
  <2>1. PICK z \in Nat : z = PRECISE_UNIT * k
    BY <1>1
  <2>2. v * z <= v * y /\ v * y <= v * (z + PRECISE_UNIT)
    <3>1. z <= y /\ y <= z + PRECISE_UNIT
      BY <1>1, <1>3, <2>1
    <3> QED BY <1>1, <3>1
  <2>3. v * z = PRECISE_UNIT * a /\ v * (z + PRECISE_UNIT) = PRECISE_UNIT * a + PRECISE_UNIT * v
    BY <1>1, <1>5, <2>1
  <2> QED BY <1>8, <2>2, <2>3
<1>10. PRECISE_UNIT * b <= w /\ w <= PRECISE_UNIT * b + PRECISE_UNIT * g
  <2>1. PICK z \in Nat : z = PRECISE_UNIT * u
    BY <1>1
  <2>2. z * g <= x * g /\ x * g <= (z + PRECISE_UNIT) * g
    <3>1. z <= x /\ x <= z + PRECISE_UNIT
      BY <1>1, <1>4, <2>1
    <3> QED BY <1>1, <3>1
  <2>3. z * g = PRECISE_UNIT * b /\ (z + PRECISE_UNIT) * g = PRECISE_UNIT * b + PRECISE_UNIT * g
    BY <1>1, <1>5, <2>1
  <2> QED BY <1>8, <2>2, <2>3
<1>11. a <= b + g /\ b <= a + v
  <2>1. PRECISE_UNIT * a <= PRECISE_UNIT * (b + g) /\ PRECISE_UNIT * b <= PRECISE_UNIT * (a + v)
    <3>1. PICK p \in Nat, q \in Nat, r \in Nat, s \in Nat :
            /\ p = PRECISE_UNIT * a /\ q = PRECISE_UNIT * b
            /\ r = PRECISE_UNIT * g /\ s = PRECISE_UNIT * v
      BY <1>1
    <3>2. PRECISE_UNIT * (b + g) = q + r /\ PRECISE_UNIT * (a + v) = p + s
      BY <1>1, <3>1
    <3> QED BY <1>9, <1>10, <3>1, <3>2
  <2> QED BY <1>1, <2>1
<1>12. c <= e + 1
  <2>1. PRECISE_UNIT * (e + 2) = PRECISE_UNIT * e + PRECISE_UNIT + PRECISE_UNIT
    BY <1>1
  <2>2. PICK p \in Nat, q \in Nat, r \in Nat :
          p = PRECISE_UNIT * c /\ q = PRECISE_UNIT * e /\ r = PRECISE_UNIT * (e + 2)
    BY <1>1
  <2>3. p < r
    BY <1>1, <1>6, <1>7, <1>11, <2>1, <2>2
  <2>4. PRECISE_UNIT * c < PRECISE_UNIT * (e + 2)
    BY <2>2, <2>3
  <2>5. c < e + 2
    BY <1>1, <2>4
  <2> QED BY <2>5
<1>13. (e - c) * PRECISE_UNIT < v + PRECISE_UNIT
  <2>1. (e - c) * PRECISE_UNIT = PRECISE_UNIT * e - PRECISE_UNIT * c
    BY <1>1
  <2>2. PICK p \in Nat, q \in Nat : p = PRECISE_UNIT * c /\ q = PRECISE_UNIT * e
    BY <1>1
  <2> QED BY <1>1, <1>6, <1>7, <1>11, <2>1, <2>2
<1>14. ASSUME m = PRECISE_UNIT PROVE c = e
  <2>1. k = g
    <3>1. PRECISE_UNIT * g = y
      BY <1>1, <1>2, <1>14
    <3>2. y \div PRECISE_UNIT = g
      BY <1>1, <3>1, DivUnique
    <3> QED BY <1>3, <3>2
  <2>2. u = v
    <3>1. PRECISE_UNIT * v = x
      BY <1>1, <1>2, <1>14
    <3>2. x \div PRECISE_UNIT = v
      BY <1>1, <3>1, DivUnique
    <3> QED BY <1>4, <3>2
  <2> QED BY <1>5, <1>6, <1>7, <2>1, <2>2
<1> QED BY <1>2, <1>3, <1>4, <1>5, <1>6, <1>7, <1>12, <1>13, <1>14

\* What the helpers say before an accrual that goes through is what it will do.
LEMMA FeeInvPredicts == FeeInv => HelpersPredictAccrual
<1> SUFFICES ASSUME FeeInv, streamingFeePercentage > 0, accrueFeeOK(0)
             PROVE  LET fee == FeeUtils!getStreamingFee(timeSinceLastFee, streamingFeePercentage)
                        after == editPositionMultiplier(pos, NewMultiplier(calculateStreamingFee))
                    IN  /\ calculateStreamingFeeInflation(calculateStreamingFee)
                             = FeeUtils!getStreamingFeeInflationAmount(fee, totalSupply)
                        /\ \A c \in Component :
                             LET contract == convertVirtualToRealUnit(after, after.virtualUnit[c])
                                 expected == FeeUtils!getPostFeePositionUnit(unit(c), fee)
                             IN  /\ pos.positionMultiplier = PRECISE_UNIT => contract = expected
                                 /\ contract <= expected + 1
                                 /\ (expected - contract) * PRECISE_UNIT
                                      < pos.virtualUnit[c] + PRECISE_UNIT
  BY DEF HelpersPredictAccrual
<1> DEFINE f == calculateStreamingFee
           after == editPositionMultiplier(pos, NewMultiplier(f))
<1>1. PRECISE_UNIT \in Nat /\ PRECISE_UNIT > 0
  BY PreciseUnitAssumption
<1>2. f \in Nat /\ totalSupply \in Nat /\ PositionInv(pos)
  BY FeeDue DEF FeeInv
<1>3. f < PRECISE_UNIT
  BY DEF accrueFeeOK
<1>4. FeeUtils!getStreamingFee(timeSinceLastFee, streamingFeePercentage) = f
  <2>1. PICK x \in Nat : x = timeSinceLastFee * streamingFeePercentage
    BY DEF FeeInv
  <2>2. FeeUtils!bnDiv(x, ONE_YEAR) = x \div ONE_YEAR
    BY StreamingFeeAssumption, FeeUtilsDiv
  <2> QED BY <2>1, <2>2 DEF FeeUtils!getStreamingFee, calculateStreamingFee
<1> HIDE DEF f
<1>5. PICK g \in Nat : g = PRECISE_UNIT - f /\ g > 0 /\ g <= PRECISE_UNIT
  <2>1. PRECISE_UNIT - f \in Nat
    BY <1>1, <1>2, <1>3
  <2> QED BY <1>1, <1>2, <1>3, <2>1
<1>6. calculateStreamingFeeInflation(f) = FeeUtils!getStreamingFeeInflationAmount(f, totalSupply)
  <2>1. PICK x \in Nat : x = f * totalSupply
    BY <1>2
  <2>2. FeeUtils!bnDiv(x, g) = x \div g
    BY <1>5, FeeUtilsDiv
  <2> QED BY <1>5, <2>1, <2>2
          DEF FeeUtils!getStreamingFeeInflationAmount, calculateStreamingFeeInflation
<1>7. ASSUME NEW c \in Component
      PROVE  LET contract == convertVirtualToRealUnit(after, after.virtualUnit[c])
                 expected == FeeUtils!getPostFeePositionUnit(unit(c), f)
             IN  /\ pos.positionMultiplier = PRECISE_UNIT => contract = expected
                 /\ contract <= expected + 1
                 /\ (expected - contract) * PRECISE_UNIT < pos.virtualUnit[c] + PRECISE_UNIT
  <2>1. PICK v \in Nat, m \in Nat : v = pos.virtualUnit[c] /\ m = pos.positionMultiplier
    BY <1>2, RealUnitBounds
  <2>2. PICK y \in Nat, x \in Nat : y = m * g /\ x = v * m
    BY <1>5
  <2>3. PICK k \in Nat : k = y \div PRECISE_UNIT
    BY <1>1, <2>2
  <2>4. NewMultiplier(f) = k
    BY <1>5, <2>1, <2>2, <2>3 DEF NewMultiplier, preciseMul
  <2>5. after.virtualUnit[c] = v /\ after.positionMultiplier = k
    <3>1. pos \in PositionState /\ k \in Int
      BY <1>2 DEF PositionInv
    <3> QED BY <2>1, <2>4, <3>1, EditMultiplierFields
  <2> HIDE DEF after
  <2>6. convertVirtualToRealUnit(after, after.virtualUnit[c]) = (v * k) \div PRECISE_UNIT
    <3>1. v * k \in Int
      OBVIOUS
    <3> QED BY <1>1, <2>5, <3>1, DivDownIsFloor
            DEF convertVirtualToRealUnit, conservativePreciseMul
  <2>7. unit(c) = x \div PRECISE_UNIT /\ unit(c) \in Nat
    BY <1>1, <1>2, <2>1, <2>2, DivDownIsFloor, RealUnits
       DEF unit, getDefaultPositionRealUnit, convertVirtualToRealUnit, conservativePreciseMul
  <2>8. FeeUtils!getPostFeePositionUnit(unit(c), f) = (unit(c) * g) \div PRECISE_UNIT
    <3>1. PICK z \in Nat : z = unit(c) * g
      BY <1>5, <2>7
    <3>2. FeeUtils!bnDiv(z, PRECISE_UNIT) = z \div PRECISE_UNIT
      BY <1>1, FeeUtilsDiv
    <3> QED BY <1>5, <2>7, <3>1, <3>2
            DEF FeeUtils!getPostFeePositionUnit, FeeUtils!preciseMul
  <2>9. LET contract == (v * ((m * g) \div PRECISE_UNIT)) \div PRECISE_UNIT
            expected == (((v * m) \div PRECISE_UNIT) * g) \div PRECISE_UNIT
        IN  /\ m = PRECISE_UNIT => contract = expected
            /\ contract <= expected + 1
            /\ (expected - contract) * PRECISE_UNIT < v + PRECISE_UNIT
    <3>1. g <= PRECISE_UNIT
      BY <1>5
    <3> QED BY Zenon, <3>1, ScalingOrder
  <2> QED BY <2>1, <2>2, <2>3, <2>6, <2>7, <2>8, <2>9
<1> QED BY <1>4, <1>6, <1>7 DEF f

\* The helpers of feeModuleUtils.ts predict every accrual within their stated error, for any
\* rate, time, units and history of accruals.
THEOREM AccrualAlwaysPredicted == FeeSpec => []HelpersPredictAccrual
<1>1. FeeInit => FeeInv
  BY FeeInitFeeInv
<1>2. FeeInv /\ [FeeNext]_feeVars => FeeInv'
  BY FeeNextKeepsFeeInv
<1>3. FeeInv => HelpersPredictAccrual
  BY FeeInvPredicts
<1> QED BY <1>1, <1>2, <1>3, PTL DEF FeeSpec

-----------------------------------------------------------------------------
(* Sums over the components.                                                *)


\* A relation that holds of the terms, and in one of them with k to spare, holds of the sums.
LEMMA SumCompares ==
    ASSUME NEW S, IsFiniteSet(S), NEW r \in S,
           NEW e \in [S -> Nat], NEW g \in [S -> Nat], NEW w \in [S -> Nat], NEW h \in [S -> Nat],
           NEW T \in Nat, NEW d \in Int, NEW k \in Int,
           \A c \in S : T * e[c] + (IF c = r THEN k ELSE 0) <= T * g[c] + d * w[c] + h[c]
    PROVE  T * SumFunctionOnSet(e, S) + k
             <= T * SumFunctionOnSet(g, S) + d * SumFunctionOnSet(w, S) + SumFunctionOnSet(h, S)
<1> DEFINE Holds(s) == T * SumFunctionOnSet(e, s) + (IF r \in s THEN k ELSE 0)
                         <= T * SumFunctionOnSet(g, s) + d * SumFunctionOnSet(w, s)
                              + SumFunctionOnSet(h, s)
           B == {s \in SUBSET S : ~ Holds(s)}
<1>1. B = {}
  <2>1. SUFFICES ASSUME B # {} PROVE FALSE
    OBVIOUS
  <2>2. B \in SUBSET SUBSET S
    OBVIOUS
  <2> HIDE DEF B
  <2>3. PICK s \in B : \A c \in s : s \ {c} \notin B
    BY Zenon, <2>1, <2>2, SmallestSet
  <2> USE DEF B
  <2>4. s \in SUBSET S /\ ~ Holds(s)
    OBVIOUS
  <2>5. s # {}
    <3>1. Holds({})
      <4>1. /\ SumFunctionOnSet(e, {}) = 0 /\ SumFunctionOnSet(g, {}) = 0
            /\ SumFunctionOnSet(w, {}) = 0 /\ SumFunctionOnSet(h, {}) = 0
        BY Zenon, <2>4, SumIsNatural
      <4> QED BY <4>1
    <3> QED BY <2>4, <3>1
  <2>6. PICK c \in s : c \in S
    BY <2>4, <2>5
  <2>7. PICK t \in SUBSET S : t = s \ {c}
    BY <2>4
  <2>8. Holds(t)
    BY <2>3, <2>7
  <2>9. PICK e0 \in Nat, g0 \in Nat, w0 \in Nat, h0 \in Nat :
          /\ e0 = SumFunctionOnSet(e, t) /\ g0 = SumFunctionOnSet(g, t)
          /\ w0 = SumFunctionOnSet(w, t) /\ h0 = SumFunctionOnSet(h, t)
    BY SumIsNatural
  <2>10. PICK e1 \in Nat, g1 \in Nat, w1 \in Nat, h1 \in Nat :
          e1 = e[c] /\ g1 = g[c] /\ w1 = w[c] /\ h1 = h[c]
    BY <2>6
  <2>11. /\ SumFunctionOnSet(e, s) = e1 + e0 /\ SumFunctionOnSet(g, s) = g1 + g0
         /\ SumFunctionOnSet(w, s) = w1 + w0 /\ SumFunctionOnSet(h, s) = h1 + h0
    BY <2>4, <2>7, <2>9, <2>10, SumTakes
  <2>12. PICK k0 \in Int, k1 \in Int, k2 \in Int :
           /\ k0 = (IF r \in t THEN k ELSE 0) /\ k1 = (IF c = r THEN k ELSE 0)
           /\ k2 = (IF r \in s THEN k ELSE 0)
           /\ k2 = k0 + k1
    BY <2>6, <2>7
  <2>13. T * e0 + k0 <= T * g0 + d * w0 + h0
    BY <2>8, <2>9, <2>12
  <2>14. T * e1 + k1 <= T * g1 + d * w1 + h1
    BY <2>6, <2>10, <2>12
  <2>15. ~ (T * (e1 + e0) + k2 <= T * (g1 + g0) + d * (w1 + w0) + (h1 + h0))
    BY <2>4, <2>11, <2>12
  <2> HIDE DEF Holds, B
  <2>16. /\ T * (e1 + e0) = T * e1 + T * e0 /\ T * (g1 + g0) = T * g1 + T * g0
         /\ d * (w1 + w0) = d * w1 + d * w0
    OBVIOUS
  <2>17. PICK a0 \in Int, a1 \in Int, b0 \in Int, b1 \in Int, c0 \in Int, c1 \in Int :
           /\ a0 = T * e0 /\ a1 = T * e1 /\ b0 = T * g0 /\ b1 = T * g1
           /\ c0 = d * w0 /\ c1 = d * w1
    OBVIOUS
  <2> QED BY <2>12, <2>13, <2>14, <2>15, <2>16, <2>17
<1>2. Holds(S)
  BY <1>1
<1> QED BY <1>2

-----------------------------------------------------------------------------
(* CustomOracleNavIssuanceModule.                                           *)

\* What the edit of a default position stores: a unit that is worth no more than it was
\* given, and less by no more than the multiplier.
LEMMA StoredByEdit ==
    ASSUME NEW p, PositionInv(p), NEW c \in Component, NEW u \in Nat,
           editDefaultPositionOK(p, c, u)
    PROVE  LET r == editDefaultPosition(p, c, u)
           IN  /\ PositionInv(r)
               /\ r.positionMultiplier = p.positionMultiplier
               /\ r.virtualUnit[c] * p.positionMultiplier <= u * PRECISE_UNIT
               /\ u * PRECISE_UNIT < r.virtualUnit[c] * p.positionMultiplier + p.positionMultiplier
               /\ \A x \in Component \ {c} : r.virtualUnit[x] = p.virtualUnit[x]
<1> DEFINE r == editDefaultPosition(p, c, u)
           v == convertRealToVirtualUnit(p, u)
<1>1. PICK q \in PositionState :
        /\ r = editDefaultPositionUnit(q, c, u)
        /\ q.virtualUnit = p.virtualUnit
        /\ q.positionMultiplier = p.positionMultiplier
  BY ComponentsAfterEditDefault
<1>2. /\ p \in PositionState /\ p.positionMultiplier \in Int /\ p.positionMultiplier > 0
      /\ p.virtualUnit \in [Component -> Int]
  BY PositionFields DEF PositionInv
<1>3. v \in Int
  BY <1>2, ConvertNonNegative DEF editDefaultPositionOK
<1>4. convertRealToVirtualUnit(q, u) = v
  BY <1>1 DEF convertRealToVirtualUnit
<1>5. /\ r.virtualUnit = [p.virtualUnit EXCEPT ![c] = v]
      /\ r.positionMultiplier = p.positionMultiplier
  BY <1>1, <1>3, <1>4, EditDefaultUnitFields
<1>6. PositionInv(r)
  BY EditDefaultPositionKeepsInv
<1>7. /\ v * p.positionMultiplier <= u * PRECISE_UNIT
      /\ u * PRECISE_UNIT < v * p.positionMultiplier + p.positionMultiplier
  <2>1. PICK x \in Int, k \in Int : x = u * PRECISE_UNIT /\ k = p.positionMultiplier /\ k > 0
    BY <1>2, PreciseUnitAssumption
  <2>2. v = x \div k
    BY <2>1, DivDownIsFloor DEF convertRealToVirtualUnit, conservativePreciseDiv
  <2>3. k * (x \div k) <= x /\ x < k * (x \div k) + k /\ x \div k \in Int
    BY <2>1, DivBounds
  <2> QED BY <1>2, <2>1, <2>2, <2>3
<1> HIDE DEF r, v
<1> QED BY <1>2, <1>5, <1>6, <1>7 DEF r

\* The invariant: the bound on the shortfall, on top of positions that can be read back, and
\* prices the oracle can quote.
NavInv ==
    /\ PositionInv(pos)
    /\ totalSupply \in Nat /\ balance \in [Component -> Nat]
    /\ price \in [Component -> Nat \ {0}] /\ price[masterQuoteAsset] = PRECISE_UNIT
    /\ navIssued \in Nat
    /\ \A c \in Component : ClaimBounded(totalSupply, pos, c, balance[c], navIssued)

LEMMA NavInvShortfall == NavInv => NavShortfallBounded
BY DEF NavInv, NavShortfallBounded, ClaimBounded

\* A component's value per set, in the master quote asset.
LEMMA ValueIsNatural ==
    ASSUME NavInv, NEW c \in Component
    PROVE  preciseMul(preciseDiv(unit(c), BaseUnits[c]), price[c]) \in Nat
<1>1. unit(c) \in Nat
  BY RealUnits DEF NavInv, unit
<1>2. BaseUnits[c] \in Nat /\ BaseUnits[c] > 0
  BY NavAssumption, PreciseUnitAssumption
<1>3. preciseDiv(unit(c), BaseUnits[c]) \in Nat
  BY <1>1, <1>2, DivIsBelow
<1>4. price[c] \in Nat
  BY DEF NavInv
<1> QED BY <1>3, <1>4, MulIsBelow

\* The valuation before it is converted to a quote asset, and the values it sums.
baseValue == [c \in Component |-> preciseMul(preciseDiv(unit(c), BaseUnits[c]), price[c])]
baseValuation == SumFunctionOnSet(baseValue, Range(pos.components))

\* Only a finite number of components is summed.
LEMMA ComponentsSummed ==
    ASSUME NavInv
    PROVE  /\ IsFiniteSet(Component) /\ Range(pos.components) \in SUBSET Component
           /\ baseValue \in [Component -> Nat]
<1>1. pos.components \in Seq(Component)
  BY PositionFields DEF NavInv, PositionInv
<1>2. Range(pos.components) \in SUBSET Component
  BY <1>1 DEF Range
<1>3. baseValue \in [Component -> Nat]
  BY ValueIsNatural DEF baseValue
<1> QED BY <1>2, <1>3, IssuanceAssumption

\* The sum of the values is a natural number, and so is its quotient by a price.
LEMMA ValuationIsNatural ==
    ASSUME NavInv, NEW r \in Component
    PROVE  /\ baseValuation \in Nat
           /\ calculateSetTokenValuation(r) \in Nat
           /\ calculateSetTokenValuation(r)
                = IF r = masterQuoteAsset THEN baseValuation
                  ELSE preciseDiv(baseValuation, price[r])
<1>1. baseValuation \in Nat
  BY Zenon, ComponentsSummed, SumIsNatural DEF baseValuation
<1>2. calculateSetTokenValuation(r)
        = IF r = masterQuoteAsset THEN baseValuation ELSE preciseDiv(baseValuation, price[r])
  BY Zenon DEF calculateSetTokenValuation, baseValuation, baseValue
<1>3. price[r] \in Nat /\ price[r] > 0
  BY DEF NavInv
<1>4. preciseDiv(baseValuation, price[r]) \in Nat
  BY <1>1, <1>3, DivIsBelow
<1> QED BY Zenon, <1>1, <1>2, <1>4

\* The new multiplier claims no more for the new supply than the old one for the old, and
\* hardly less.
LEMMA ScaledMultiplier ==
    ASSUME NEW S \in Nat, NEW m \in Nat, NEW T \in Nat, T > 0
    PROVE  /\ (m * S) \div T \in Nat /\ T * ((m * S) \div T) <= S * m
           /\ S * m < T * ((m * S) \div T) + T
<1>1. PICK x \in Nat : x = m * S /\ x = S * m
  <2>1. m * S \in Nat /\ m * S = S * m
    OBVIOUS
  <2> QED BY <2>1
<1>2. x \div T \in Int /\ x \div T >= 0 /\ T * (x \div T) <= x /\ x < T * (x \div T) + T
  BY <1>1, DivBounds
<1> QED BY <1>1, <1>2

\* The reserve's new unit, worth w, claims for T sets no more than was claimed before and what
\* came in (or went out, if d is negative).
LEMMA ReserveArithmetic ==
    ASSUME NEW S \in Nat, NEW T \in Nat, NEW x \in Nat, NEW u \in Nat, NEW B \in Nat,
           NEW n \in Nat, NEW d \in Int, NEW w \in Nat, NEW z \in Int,
           PRECISE_UNIT * u <= x, S * x <= PRECISE_UNIT * (B * PRECISE_UNIT + n),
           T * w <= PRECISE_UNIT * (preciseMul(u, S) + d), z <= w * PRECISE_UNIT
    PROVE  T * z <= PRECISE_UNIT * ((B + d) * PRECISE_UNIT + n)
<1>1. PRECISE_UNIT \in Nat /\ PRECISE_UNIT > 0
  BY PreciseUnitAssumption
<1>2. PICK t \in Nat : t = preciseMul(u, S) /\ PRECISE_UNIT * t <= u * S
  BY MulIsBelow
<1>3. PRECISE_UNIT * (PRECISE_UNIT * t) <= S * x
  <2>1. PICK a \in Nat, b \in Nat : a = PRECISE_UNIT * t /\ b = u * S
    BY <1>1
  <2>2. PRECISE_UNIT * a <= PRECISE_UNIT * b
    BY <1>1, <1>2, <2>1
  <2>3. PICK y \in Nat : y = PRECISE_UNIT * u
    BY <1>1
  <2>4. S * y <= S * x
    BY <2>3
  <2>5. S * y = PRECISE_UNIT * b
    BY <1>1, <2>1, <2>3
  <2>6. PRECISE_UNIT * a \in Int /\ PRECISE_UNIT * b \in Int /\ S * x \in Int
    BY <1>1
  <2> QED BY <2>1, <2>2, <2>4, <2>5, <2>6
<1>4. T * z <= PRECISE_UNIT * (PRECISE_UNIT * (t + d))
  <2>1. PICK y \in Nat : y = w * PRECISE_UNIT
    BY <1>1
  <2>2. T * z <= T * y
    BY <2>1
  <2>3. PICK a \in Nat, b \in Int : a = T * w /\ b = PRECISE_UNIT * (t + d) /\ a <= b
    BY <1>1, <1>2
  <2>4. PRECISE_UNIT * a <= PRECISE_UNIT * b
    BY <1>1, <2>3
  <2>5. T * y = PRECISE_UNIT * a
    BY <1>1, <2>1, <2>3
  <2>6. T * z \in Int /\ PRECISE_UNIT * a \in Int /\ PRECISE_UNIT * b \in Int
    BY <1>1
  <2> QED BY <2>2, <2>3, <2>4, <2>5, <2>6
<1>5. PRECISE_UNIT * (PRECISE_UNIT * (t + d))
        = PRECISE_UNIT * (PRECISE_UNIT * t) + PRECISE_UNIT * (PRECISE_UNIT * d)
  BY <1>1
<1>6. PRECISE_UNIT * ((B + d) * PRECISE_UNIT + n)
        = PRECISE_UNIT * (B * PRECISE_UNIT + n) + PRECISE_UNIT * (PRECISE_UNIT * d)
  BY <1>1
<1>7. PICK a \in Int, b \in Int, c \in Int, e \in Int, h \in Int :
        /\ a = T * z /\ b = PRECISE_UNIT * (PRECISE_UNIT * t) /\ c = S * x
        /\ e = PRECISE_UNIT * (PRECISE_UNIT * d) /\ h = PRECISE_UNIT * (B * PRECISE_UNIT + n)
  BY <1>1
<1>8. a <= b + e /\ b <= c /\ c <= h
  BY <1>3, <1>4, <1>5, <1>7
<1>9. a <= h + e
  BY <1>8
<1> QED BY <1>6, <1>7, <1>9

\* The closing writes of an issue or a redemption, for d more of the reserve and T sets,
\* keep the claims bounded.
LEMMA StateUpdatesKeepClaims ==
    ASSUME NavInv, NEW r \in Component, NEW T \in Nat, T > 0, NEW w \in Nat, NEW d \in Int,
           StateUpdatesOK(r, getPositionMultiplier(T), w),
           T * w <= PRECISE_UNIT * (preciseMul(unit(r), totalSupply) + d)
    PROVE  LET p == StateUpdates(r, getPositionMultiplier(T), w)
           IN  /\ PositionInv(p)
               /\ ClaimBounded(T, p, r, balance[r] + d, navIssued)
               /\ \A c \in Component \ {r} : ClaimBounded(T, p, c, balance[c], navIssued)
<1> DEFINE k == getPositionMultiplier(T)
           q == editPositionMultiplier(pos, k)
           p == editDefaultPosition(q, r, w)
<1>1. /\ PositionInv(pos) /\ totalSupply \in Nat /\ balance \in [Component -> Nat]
      /\ navIssued \in Nat /\ pos \in PositionState /\ pos.positionMultiplier \in Nat
  <2>1. /\ PositionInv(pos) /\ totalSupply \in Nat /\ balance \in [Component -> Nat]
        /\ navIssued \in Nat
    BY Zenon DEF NavInv
  <2>2. pos \in PositionState /\ pos.positionMultiplier \in Nat
    BY <2>1 DEF PositionInv, PositionState
  <2> QED BY <2>1, <2>2
<1>2. k \in Nat /\ T * k <= totalSupply * pos.positionMultiplier
  BY Zenon, <1>1, ScaledMultiplier DEF getPositionMultiplier
<1>3. /\ validateNewMultiplier(pos, k) /\ editDefaultPositionOK(q, r, w)
      /\ p = StateUpdates(r, k, w)
  BY DEF StateUpdatesOK, StateUpdates
<1> HIDE DEF k
<1>4. k \in Int
  BY <1>2
<1>5. PositionInv(q) /\ q.virtualUnit = pos.virtualUnit /\ q.positionMultiplier = k
  BY <1>1, <1>3, <1>4, EditPositionMultiplierKeepsInv, EditMultiplierFields
<1> HIDE DEF q
<1>6. /\ PositionInv(p) /\ p.positionMultiplier = k
      /\ p.virtualUnit[r] * k <= w * PRECISE_UNIT
      /\ \A x \in Component \ {r} : p.virtualUnit[x] = pos.virtualUnit[x]
  BY <1>3, <1>5, StoredByEdit
<1> HIDE DEF p
<1>7. ClaimBounded(T, p, r, balance[r] + d, navIssued)
  <2>1. PICK x \in Nat, u \in Nat, B \in Nat, n \in Nat :
          /\ x = pos.virtualUnit[r] * pos.positionMultiplier /\ u = unit(r)
          /\ B = balance[r] /\ n = navIssued
          /\ PRECISE_UNIT * u <= x
    BY <1>1, RealUnitBounds DEF unit
  <2>2. totalSupply * x <= PRECISE_UNIT * (B * PRECISE_UNIT + n)
    <3>1. pos.virtualUnit[r] \in Nat
      BY <1>1, RealUnitBounds
    <3>2. totalSupply * x = totalSupply * pos.virtualUnit[r] * pos.positionMultiplier
      BY <1>1, <2>1, <3>1
    <3> QED BY <2>1, <3>2 DEF NavInv, ClaimBounded
  <2>3. PICK v \in Nat, z \in Nat : v = p.virtualUnit[r] /\ z = v * k
    BY <1>2, <1>6, RealUnitBounds
  <2>4. z <= w * PRECISE_UNIT
    BY <1>6, <2>3
  <2>5. T * w <= PRECISE_UNIT * (preciseMul(u, totalSupply) + d)
    BY Zenon, <2>1
  <2>6. T * z <= PRECISE_UNIT * ((B + d) * PRECISE_UNIT + n)
    <3>1. z \in Int
      BY <2>3
    <3>2. PRECISE_UNIT * u <= x /\ totalSupply \in Nat
      BY <1>1, <2>1
    <3> QED BY ZenonT(60), <2>2, <2>4, <2>5, <3>1, <3>2, ReserveArithmetic
  <2>7. T * z = T * v * k
    BY <1>2, <2>3
  <2> QED BY <1>6, <2>1, <2>3, <2>6, <2>7 DEF ClaimBounded
<1>8. ASSUME NEW c \in Component \ {r}
      PROVE  ClaimBounded(T, p, c, balance[c], navIssued)
  <2>1. PICK v \in Nat, m \in Nat, S \in Nat :
          v = pos.virtualUnit[c] /\ m = pos.positionMultiplier /\ S = totalSupply
    BY <1>1, RealUnitBounds
  <2>2. T * v * k <= S * v * m
    <3>1. T * k <= S * m
      BY <1>2, <2>1
    <3> QED BY Zenon, <1>2, <3>1, ScaledClaim
  <2>3. S * v * m <= PRECISE_UNIT * (balance[c] * PRECISE_UNIT + navIssued)
    BY <2>1 DEF NavInv, ClaimBounded
  <2>4. PICK a \in Int, b \in Int, e \in Int :
          a = T * v * k /\ b = S * v * m /\ e = PRECISE_UNIT * (balance[c] * PRECISE_UNIT + navIssued)
    BY <1>1, <1>2, PreciseUnitAssumption
  <2>5. a <= e
    BY <2>2, <2>3, <2>4
  <2> QED BY <1>6, <2>1, <2>4, <2>5 DEF ClaimBounded
<1> QED BY <1>3, <1>6, <1>7, <1>8 DEF k

\* A quantity of the reserve left after fees never mints a negative number of sets.
LEMMA MintIsNatural ==
    ASSUME NavInv, NEW r \in Component, NEW n \in Int, n >= 0, NEW premium \in Premium,
           mintDenominator(r, n, premium) > 0
    PROVE  getSetTokenMintQuantity(r, n, premium) \in Nat
<1> DEFINE rest == n - preciseMul(n, premium)
           V == calculateSetTokenValuation(r)
<1>1. n \in Nat /\ totalSupply \in Nat /\ BaseUnits[r] \in Nat /\ BaseUnits[r] > 0
  BY NavAssumption, PreciseUnitAssumption DEF NavInv
<1>2. premium \in Nat /\ premium <= PRECISE_UNIT
  BY NavAssumption, PreciseUnitAssumption
<1>3. rest \in Nat
  <2>1. preciseMul(n, premium) \in Nat /\ preciseMul(n, premium) <= n
    BY <1>1, <1>2, ShareIsPart
  <2> QED BY <1>1, <2>1
<1>4. V \in Nat
  BY ValuationIsNatural
<1>5. mintDenominator(r, n, premium) = preciseMul(totalSupply, V)
                                         + preciseDiv(n, BaseUnits[r]) - preciseDiv(rest, BaseUnits[r])
  BY DEF mintDenominator
<1>6. getSetTokenMintQuantity(r, n, premium)
        = preciseDiv(preciseMul(preciseDiv(rest, BaseUnits[r]), totalSupply),
                     mintDenominator(r, n, premium))
  BY DEF getSetTokenMintQuantity
<1> HIDE DEF rest, V
<1>7. /\ preciseMul(totalSupply, V) \in Nat
      /\ preciseDiv(n, BaseUnits[r]) \in Nat /\ preciseDiv(rest, BaseUnits[r]) \in Nat
  BY <1>1, <1>3, <1>4, MulIsBelow, DivIsBelow
<1>8. mintDenominator(r, n, premium) \in Nat
  BY <1>5, <1>7
<1>9. preciseMul(preciseDiv(rest, BaseUnits[r]), totalSupply) \in Nat
  BY <1>1, <1>7, MulIsBelow
<1> QED BY <1>6, <1>8, <1>9, DivIsBelow

\* A quotient of precise units is less than one unit below what is divided.
LEMMA DivIsClose ==
    ASSUME NEW a \in Nat, NEW s \in Nat, s > 0
    PROVE  /\ preciseDiv(a, s) \in Nat
           /\ s * preciseDiv(a, s) <= PRECISE_UNIT * a
           /\ a * PRECISE_UNIT < s * preciseDiv(a, s) + s
<1>1. PICK x \in Nat : x = a * PRECISE_UNIT
  BY PreciseUnitAssumption
<1>2. x \div s \in Int /\ x < s * (x \div s) + s
  BY <1>1, DivBounds
<1>3. preciseDiv(a, s) = x \div s
  BY <1>1 DEF preciseDiv
<1>4. a * PRECISE_UNIT < s * preciseDiv(a, s) + s
  BY Zenon, <1>1, <1>2, <1>3
<1> QED BY <1>4, DivIsBelow

\* What an issue or a redemption writes, for d more of the reserve and T sets: the reserve's
\* new unit is w.
Updates(r, d, T, w) ==
    /\ pos' = StateUpdates(r, getPositionMultiplier(T), w)
    /\ totalSupply' = T
    /\ balance' = [balance EXCEPT ![r] = @ + d]
    /\ UNCHANGED <<price, navIssued>>
    /\ StateUpdatesOK(r, getPositionMultiplier(T), w)
    /\ balance[r] + d >= 0
    /\ totalSupply > 0
    /\ T * w <= PRECISE_UNIT * (preciseMul(unit(r), totalSupply) + d)
    /\ (preciseMul(unit(r), totalSupply) + d) * PRECISE_UNIT < T * w + T

\* An issue for a reserve asset.
LEMMA NavIssueUpdates ==
    ASSUME NavInv, NEW r \in Component, NEW q \in ReserveQuantity, NEW premium \in Premium,
           NEW f \in ManagerFee, NEW s \in FeeRate, NEW d \in FeeRate,
           NavIssue(r, q, premium, f, s, d)
    PROVE  \E n \in Nat, T \in Nat, w \in Nat :
              /\ T > 0 /\ Updates(r, n, T, w)
              /\ T = totalSupply + getSetTokenMintQuantity(r, n, premium)
              /\ mintDenominator(r, n, premium) > 0
<1> DEFINE n == getFees(q, f, s, d).netFlowQuantity
           T == totalSupply + getSetTokenMintQuantity(r, n, premium)
           w == getIssuePositionUnit(r, n, T)
<1>1. /\ mintDenominator(r, n, premium) > 0 /\ totalSupply >= minSetTokenSupply
      /\ n >= 0
      /\ StateUpdatesOK(r, getPositionMultiplier(T), w)
  BY DEF NavIssue, navIssueOK, getFeesOK
<1>2. /\ pos' = StateUpdates(r, getPositionMultiplier(T), w)
      /\ totalSupply' = T
      /\ balance' = [balance EXCEPT ![r] = @ + n]
      /\ UNCHANGED <<price, navIssued>>
  BY DEF NavIssue
<1>3. /\ totalSupply \in Nat /\ balance \in [Component -> Nat] /\ unit(r) \in Nat
      /\ minSetTokenSupply \in Nat /\ minSetTokenSupply > 0
  BY NavAssumption, RealUnits DEF NavInv, unit
<1>4. n \in Nat
  <2>1. /\ q \in Nat /\ f \in Nat /\ s \in Nat /\ d \in Nat /\ f <= PRECISE_UNIT
    BY IssuanceAssumption, NavAssumption, PreciseUnitAssumption
  <2>2. PICK share \in Nat : share = preciseMul(s, f) /\ share <= f
    <3>1. preciseMul(s, f) <= f
      BY DEF NavIssue, navIssueOK, getFeesOK
    <3> QED BY <2>1, <3>1, MulIsBelow
  <2>3. share + d \in Nat /\ f - share \in Nat
    BY <2>1, <2>2
  <2>4. preciseMul(share + d, q) \in Nat /\ preciseMul(f - share, q) \in Nat
    BY <2>1, <2>3, MulIsBelow
  <2>5. n = q - preciseMul(share + d, q) - preciseMul(f - share, q)
    BY <2>2 DEF getFees
  <2> HIDE DEF n
  <2> QED BY <1>1, <2>1, <2>4, <2>5
<1> HIDE DEF n
<1>5. getSetTokenMintQuantity(r, n, premium) \in Nat
  BY <1>1, <1>4, MintIsNatural
<1>6. T \in Nat /\ T > 0 /\ totalSupply > 0
  BY <1>1, <1>3, <1>5
<1>7. T = totalSupply + getSetTokenMintQuantity(r, n, premium)
  OBVIOUS
<1> HIDE DEF T
<1>8. /\ w \in Nat /\ T * w <= PRECISE_UNIT * (preciseMul(unit(r), totalSupply) + n)
      /\ (preciseMul(unit(r), totalSupply) + n) * PRECISE_UNIT < T * w + T
  <2>1. PICK t \in Nat : t = preciseMul(unit(r), totalSupply)
    BY <1>3, MulIsBelow
  <2>2. PICK y \in Nat : y = t + n /\ w = preciseDiv(y, T)
    BY <1>4, <2>1 DEF getIssuePositionUnit
  <2> HIDE DEF w
  <2>3. w \in Nat /\ T * w <= PRECISE_UNIT * y /\ y * PRECISE_UNIT < T * w + T
    BY Zenon, <1>6, <2>2, DivIsClose
  <2> QED BY Zenon, <2>1, <2>2, <2>3
<1> HIDE DEF w
<1>9. balance[r] + n >= 0
  BY <1>3, <1>4
<1>10. Updates(r, n, T, w)
  BY Zenon, <1>1, <1>2, <1>6, <1>8, <1>9 DEF Updates
<1> QED BY Zenon, <1>1, <1>4, <1>6, <1>7, <1>8, <1>10

\* A redemption into a reserve asset.
LEMMA NavRedeemUpdates ==
    ASSUME NavInv, NEW r \in Component, NEW q \in Quantity, NEW premium \in Premium,
           NEW f \in ManagerFee, NEW s \in FeeRate, NEW d \in FeeRate,
           NavRedeem(r, q, premium, f, s, d)
    PROVE  \E out \in Int, T \in Nat, w \in Nat :
              /\ T > 0 /\ Updates(r, - out, T, w)
              /\ T = totalSupply - q
              /\ out = getRedeemReserveQuantity(r, q, premium)
<1> DEFINE out == getRedeemReserveQuantity(r, q, premium)
           T == totalSupply - q
           w == getRedeemPositionUnit(r, out, T)
<1>1. /\ T > 0 /\ availableReserve(r) >= out /\ balance[r] >= out
      /\ StateUpdatesOK(r, getPositionMultiplier(T), w)
  BY DEF NavRedeem, navRedeemOK
<1>2. /\ pos' = StateUpdates(r, getPositionMultiplier(T), w)
      /\ totalSupply' = T
      /\ balance' = [balance EXCEPT ![r] = @ - out]
      /\ UNCHANGED <<price, navIssued>>
  BY DEF NavRedeem
<1>3. /\ totalSupply \in Nat /\ balance \in [Component -> Nat] /\ unit(r) \in Nat /\ q \in Nat
  BY IssuanceAssumption, RealUnits DEF NavInv, unit
<1>4. out \in Int
  <2>1. /\ BaseUnits[r] \in Nat /\ premium \in Nat
    BY NavAssumption, PreciseUnitAssumption
  <2>2. PICK x \in Nat : x = preciseMul(preciseMul(q, calculateSetTokenValuation(r)), BaseUnits[r])
    BY <1>3, <2>1, ValuationIsNatural, MulIsBelow
  <2>3. preciseMulCeil(x, premium) \in Nat
    BY <2>1, MulCeilIsAbove
  <2> QED BY <2>2, <2>3 DEF getRedeemReserveQuantity
<1>5. T \in Nat /\ totalSupply > 0
  BY <1>1, <1>3
<1>6. T = totalSupply - q /\ out = getRedeemReserveQuantity(r, q, premium)
  OBVIOUS
<1> HIDE DEF T, out
<1>7. /\ w \in Nat /\ T * w <= PRECISE_UNIT * (preciseMul(unit(r), totalSupply) + (- out))
      /\ (preciseMul(unit(r), totalSupply) + (- out)) * PRECISE_UNIT < T * w + T
  <2>1. PICK t \in Nat : t = preciseMul(unit(r), totalSupply)
    BY <1>3, MulIsBelow
  <2>2. PICK y \in Nat : y = t + (- out) /\ w = preciseDiv(y, T)
    <3>1. t - out \in Nat /\ w = preciseDiv(t - out, T) /\ t + (- out) = t - out
      BY <1>1, <1>4, <2>1 DEF getRedeemPositionUnit, availableReserve
    <3> QED BY <3>1
  <2> HIDE DEF w
  <2>3. w \in Nat /\ T * w <= PRECISE_UNIT * y /\ y * PRECISE_UNIT < T * w + T
    BY Zenon, <1>1, <1>5, <2>2, DivIsClose
  <2> QED BY Zenon, <2>1, <2>2, <2>3
<1> HIDE DEF w
<1>8. balance[r] + (- out) >= 0 /\ balance[r] - out = balance[r] + (- out)
  BY <1>1, <1>3, <1>4
<1>9. balance' = [balance EXCEPT ![r] = @ + (- out)]
  BY Zenon, <1>2, <1>8
<1>10. Updates(r, - out, T, w)
  BY Zenon, <1>1, <1>2, <1>5, <1>7, <1>8, <1>9 DEF Updates
<1> QED BY Zenon, <1>1, <1>4, <1>5, <1>6, <1>7, <1>10

\* Either keeps the claims bounded.
LEMMA UpdatesKeepNavInv ==
    ASSUME NavInv, NEW r \in Component, NEW d \in Int, NEW T \in Nat, T > 0, NEW w \in Nat,
           Updates(r, d, T, w)
    PROVE  NavInv'
<1>1. /\ PositionInv(pos')
      /\ ClaimBounded(T, pos', r, balance[r] + d, navIssued)
      /\ \A c \in Component \ {r} : ClaimBounded(T, pos', c, balance[c], navIssued)
  <2>1. LET p == StateUpdates(r, getPositionMultiplier(T), w)
        IN  /\ PositionInv(p)
            /\ ClaimBounded(T, p, r, balance[r] + d, navIssued)
            /\ \A c \in Component \ {r} : ClaimBounded(T, p, c, balance[c], navIssued)
    BY Zenon, StateUpdatesKeepClaims DEF Updates
  <2> QED BY Zenon, <2>1 DEF Updates
<1>2. balance \in [Component -> Nat] /\ balance[r] + d \in Nat
  BY DEF NavInv, Updates
<1>3. balance' \in [Component -> Nat]
  BY <1>2 DEF Updates
<1>4. ASSUME NEW c \in Component PROVE ClaimBounded(T, pos', c, balance'[c], navIssued)
  <2>1. balance'[c] = IF c = r THEN balance[r] + d ELSE balance[c]
    BY <1>2 DEF Updates
  <2> QED BY Zenon, <1>1, <2>1
<1> QED BY <1>1, <1>3, <1>4 DEF NavInv, Updates

LEMMA NavInitNavInv == NavInit => NavInv
<1> SUFFICES ASSUME NavInit PROVE NavInv
  OBVIOUS
<1>1. Init /\ navIssued = 0 /\ price \in [Component -> Price \cup {PRECISE_UNIT}]
  BY DEF NavInit
<1>2. PositionInv(pos) /\ totalSupply = 0 /\ balance \in [Component -> Nat]
  BY <1>1, InitIInv DEF IInv, Init
<1>3. Price \cup {PRECISE_UNIT} \subseteq Nat \ {0}
  BY NavAssumption, PreciseUnitAssumption
<1>4. price \in [Component -> Nat \ {0}]
  BY Zenon, <1>1, <1>3
<1>5. ASSUME NEW c \in Component PROVE ClaimBounded(totalSupply, pos, c, balance[c], navIssued)
  <2>1. PICK v \in Nat, m \in Nat : v = pos.virtualUnit[c] /\ m = pos.positionMultiplier
    BY <1>2, RealUnitBounds
  <2>2. PICK B \in Nat : B = balance[c]
    BY <1>2
  <2>3. 0 * v * m = 0 /\ PRECISE_UNIT * (B * PRECISE_UNIT + 0) \in Nat
    BY PreciseUnitAssumption
  <2> QED BY <1>1, <1>2, <2>1, <2>2, <2>3 DEF ClaimBounded
<1>6. price[masterQuoteAsset] = PRECISE_UNIT
  BY DEF NavInit
<1> QED BY <1>1, <1>2, <1>4, <1>5, <1>6 DEF NavInv

LEMMA NavNextKeepsNavInv == NavInv /\ [NavNext]_navVars => NavInv'
<1> SUFFICES ASSUME NavInv, [NavNext]_navVars PROVE NavInv'
  OBVIOUS
<1>1. ASSUME UNCHANGED <<vars, price, navIssued>> PROVE NavInv'
  BY <1>1 DEF vars, NavInv, ClaimBounded
<1>2. CASE SettingsStep
  BY <1>1, <1>2 DEF SettingsStep, NavInitialize, NavRemoveModule, addReserveAsset, removeReserveAsset
<1>3. ASSUME NEW c \in Component, NEW p \in Price, OracleUpdate(c, p) PROVE NavInv'
  <2>1. price' = [price EXCEPT ![c] = p] /\ c # masterQuoteAsset /\ UNCHANGED <<vars, navIssued>>
    BY <1>3 DEF OracleUpdate
  <2>2. p \in Nat \ {0}
    BY NavAssumption
  <2>3. price' \in [Component -> Nat \ {0}] /\ price'[masterQuoteAsset] = PRECISE_UNIT
    BY <2>1, <2>2, NavAssumption DEF NavInv
  <2> QED BY <2>1, <2>3 DEF vars, NavInv, ClaimBounded
<1>4. ASSUME NEW q \in Quantity, BasicIssueSets(q) PROVE NavInv'
  <2>1. /\ BasicIssue(q) /\ navIssued' = navIssued + q
        /\ UNCHANGED <<price, pos>> /\ q \in Nat
    BY <1>4, IssuanceAssumption DEF BasicIssueSets, BasicIssue
  <2>2. /\ totalSupply' \in Nat /\ balance' \in [Component -> Nat]
        /\ \A c \in Component : ClaimBounded(totalSupply', pos, c, balance'[c], navIssued + q)
    BY <2>1, BasicIssueKeepsClaims DEF NavInv
  <2> QED BY <2>1, <2>2 DEF NavInv, ClaimBounded
<1>5. ASSUME NEW q \in Quantity, BasicRedeemSets(q) PROVE NavInv'
  <2>1. BasicRedeem(q) /\ UNCHANGED <<price, navIssued, pos>>
    BY <1>5 DEF BasicRedeemSets, BasicRedeem
  <2>2. /\ totalSupply' \in Nat /\ balance' \in [Component -> Nat]
        /\ \A c \in Component : ClaimBounded(totalSupply', pos, c, balance'[c], navIssued)
    BY <2>1, BasicRedeemKeepsClaims DEF NavInv
  <2> QED BY <2>1, <2>2 DEF NavInv, ClaimBounded
<1>6. CASE UNCHANGED navVars
  BY <1>1, <1>6 DEF navVars
<1>7. CASE NavNext
  <2>1. ASSUME NEW r \in Component, NEW q \in ReserveQuantity, NEW p \in Premium,
               NEW f \in ManagerFee, NEW s \in FeeRate, NEW d \in FeeRate, NavIssue(r, q, p, f, s, d)
        PROVE  NavInv'
    <3>1. PICK n \in Nat, T \in Nat, w \in Nat : T > 0 /\ Updates(r, n, T, w)
      BY Zenon, <2>1, NavIssueUpdates
    <3>2. n \in Int
      OBVIOUS
    <3> QED BY Zenon, <3>1, <3>2, UpdatesKeepNavInv
  <2>2. ASSUME NEW r \in Component, NEW q \in Quantity, NEW p \in Premium,
               NEW f \in ManagerFee, NEW s \in FeeRate, NEW d \in FeeRate, NavRedeem(r, q, p, f, s, d)
        PROVE  NavInv'
    <3>1. PICK out \in Int, T \in Nat, w \in Nat : T > 0 /\ Updates(r, - out, T, w)
      BY Zenon, <2>2, NavRedeemUpdates
    <3>2. - out \in Int
      OBVIOUS
    <3> QED BY Zenon, <3>1, <3>2, UpdatesKeepNavInv
  <2> QED BY Zenon, <1>2, <1>3, <1>4, <1>5, <1>7, <2>1, <2>2 DEF NavNext
<1> QED BY <1>6, <1>7

\* Sets issued and redeemed at the net asset value, in any reserve asset, at any prices and
\* premiums, add nothing to the shortfall: it stays within one base unit for each whole set
\* ever issued for components.
THEOREM NavShortfallAlwaysBounded == NavSpec => []NavShortfallBounded
<1>1. NavInit => NavInv
  BY NavInitNavInv
<1>2. NavInv /\ [NavNext]_navVars => NavInv'
  BY NavNextKeepsNavInv
<1>3. NavInv => NavShortfallBounded
  BY NavInvShortfall
<1> QED BY <1>1, <1>2, <1>3, PTL DEF NavSpec

-----------------------------------------------------------------------------
(* NAV issuance: what the test helpers expect of an issue or a redemption.  *)

\* The arithmetic of mathUtils.ts as the helpers of the NAV module have it.
LEMMA NavUtilsAgree ==
    ASSUME NEW a \in Nat, NEW b \in Nat
    PROVE  /\ TS!preciseMul(a, b) = preciseMul(a, b)
           /\ TS!preciseMulCeil(a, b) = preciseMulCeil(a, b)
           /\ b > 0 => /\ TS!preciseDiv(a, b) = preciseDiv(a, b)
                       /\ TS!preciseDivCeil(a, b) = preciseDivCeil(a, b)
<1>1. Tests!preciseMul(a, b) = TS!preciseMul(a, b)
  BY DEF Tests!preciseMul, TS!preciseMul, Tests!bnDiv, TS!bnDiv, Tests!bnAbs, TS!bnAbs
<1>2. Tests!preciseMulCeil(a, b) = TS!preciseMulCeil(a, b)
  BY DEF Tests!preciseMulCeil, TS!preciseMulCeil, Tests!bnDiv, TS!bnDiv, Tests!bnAbs, TS!bnAbs
<1>3. Tests!preciseDiv(a, b) = TS!preciseDiv(a, b)
  BY DEF Tests!preciseDiv, TS!preciseDiv, Tests!bnDiv, TS!bnDiv, Tests!bnAbs, TS!bnAbs
<1>4. Tests!preciseDivCeil(a, b) = TS!preciseDivCeil(a, b)
  BY DEF Tests!preciseDivCeil, TS!preciseDivCeil, Tests!bnDiv, TS!bnDiv, Tests!bnAbs, TS!bnAbs
<1> QED BY <1>1, <1>2, <1>3, <1>4, MulAgrees, MulCeilAgrees, DivAgrees, DivCeilAgrees

LEMMA MulCommutes ==
    ASSUME NEW a \in Nat, NEW b \in Nat
    PROVE  preciseMul(a, b) = preciseMul(b, a)
<1>1. a * b = b * a
  OBVIOUS
<1> QED BY <1>1 DEF preciseMul

\* Without a protocol share both charge the two fees alike.
LEMMA FeesAsExpected ==
    ASSUME NEW q \in Nat, NEW f \in Nat, NEW d \in Nat
    PROVE  /\ getFees(q, f, 0, d).netFlowQuantity = q - preciseMul(q, f) - preciseMul(q, d)
           /\ TS!getExpectedPostFeeQuantity(q, f, d) = q - preciseMul(q, f) - preciseMul(q, d)
<1>1. preciseMul(0, f) = 0
  <2>1. 0 * f = 0 /\ PRECISE_UNIT \in Int /\ PRECISE_UNIT > 0
    BY PreciseUnitAssumption
  <2>2. 0 \div PRECISE_UNIT = 0
    BY <2>1
  <2> QED BY <2>1, <2>2 DEF preciseMul
<1>2. 0 + d = d /\ f - 0 = f
  OBVIOUS
<1>3. PICK u \in Nat, v \in Nat :
        /\ u = preciseMul(q, f) /\ u = preciseMul(f, q)
        /\ v = preciseMul(q, d) /\ v = preciseMul(d, q)
  BY MulIsBelow, MulCommutes
<1>4. getFees(q, f, 0, d).netFlowQuantity = q - v - u
  BY Zenon, <1>1, <1>2, <1>3 DEF getFees
<1>5. TS!getExpectedPostFeeQuantity(q, f, d) = q - u - v
  BY <1>3, NavUtilsAgree DEF TS!getExpectedPostFeeQuantity
<1> QED BY <1>3, <1>4, <1>5

\* What two fees leave of a quantity: less than two units above what it would be unrounded.
LEMMA AfterFees ==
    ASSUME NEW a \in Nat, NEW f \in Nat, NEW d \in Nat, NEW e \in Nat, f + d + e = PRECISE_UNIT
    PROVE  LET n == a - preciseMul(a, f) - preciseMul(a, d)
           IN  n \in Nat /\ a * e <= PRECISE_UNIT * n /\ PRECISE_UNIT * n < a * e + 2 * PRECISE_UNIT
<1>1. PRECISE_UNIT \in Nat /\ PRECISE_UNIT > 0
  BY PreciseUnitAssumption
<1>2. PICK x \in Nat, y \in Nat, z \in Nat : x = a * f /\ y = a * d /\ z = a * e
  OBVIOUS
<1>3. PICK u \in Nat : /\ u = preciseMul(a, f) /\ PRECISE_UNIT * u <= x
                       /\ x < PRECISE_UNIT * u + PRECISE_UNIT
  BY <1>1, <1>2, MulIsBelow, DivBounds DEF preciseMul
<1>4. PICK v \in Nat : /\ v = preciseMul(a, d) /\ PRECISE_UNIT * v <= y
                       /\ y < PRECISE_UNIT * v + PRECISE_UNIT
  BY <1>1, <1>2, MulIsBelow, DivBounds DEF preciseMul
<1>5. PRECISE_UNIT * a = x + y + z
  <2>1. a * (f + d + e) = a * f + a * d + a * e
    OBVIOUS
  <2>2. a * PRECISE_UNIT = PRECISE_UNIT * a
    BY <1>1
  <2> QED BY <1>2, <2>1, <2>2
<1>6. PRECISE_UNIT * (a - u - v) = PRECISE_UNIT * a - PRECISE_UNIT * u - PRECISE_UNIT * v
  BY <1>1
<1>7. PICK s \in Nat, t \in Nat, r \in Int :
        s = PRECISE_UNIT * u /\ t = PRECISE_UNIT * v /\ r = PRECISE_UNIT * (a - u - v)
  BY <1>1
<1>8. z <= r /\ r < z + 2 * PRECISE_UNIT
  BY <1>1, <1>3, <1>4, <1>5, <1>6, <1>7
<1>9. a - u - v >= 0
  <2>1. PRECISE_UNIT * (a - u - v) >= 0
    BY <1>7, <1>8
  <2> QED BY <1>1, <2>1
<1> QED BY <1>2, <1>3, <1>4, <1>7, <1>8, <1>9

\* What the premium leaves of a quantity: less than one unit below what it would be unrounded.
LEMMA AfterPremium ==
    ASSUME NEW a \in Nat, NEW p \in Nat, NEW g \in Nat, p + g = PRECISE_UNIT
    PROVE  LET n == a - preciseMulCeil(a, p)
           IN  n \in Nat /\ PRECISE_UNIT * n <= a * g /\ a * g < PRECISE_UNIT * n + PRECISE_UNIT
<1>1. PRECISE_UNIT \in Nat /\ PRECISE_UNIT > 0
  BY PreciseUnitAssumption
<1>2. PICK x \in Nat, z \in Nat : x = a * p /\ z = a * g
  OBVIOUS
<1>3. PICK u \in Nat : /\ u = preciseMulCeil(a, p) /\ x <= PRECISE_UNIT * u
                       /\ PRECISE_UNIT * u < x + PRECISE_UNIT
  BY <1>2, MulCeilIsAbove, MulCeilIsTight
<1>4. PRECISE_UNIT * a = x + z
  <2>1. a * (p + g) = a * p + a * g
    OBVIOUS
  <2>2. a * PRECISE_UNIT = PRECISE_UNIT * a
    BY <1>1
  <2> QED BY <1>2, <2>1, <2>2
<1>5. u <= a
  BY <1>1, <1>2, <1>3, <1>4, MulCeilIsLeast
<1>6. PRECISE_UNIT * (a - u) = PRECISE_UNIT * a - PRECISE_UNIT * u
  BY <1>1
<1>7. PICK s \in Nat, r \in Int : s = PRECISE_UNIT * u /\ r = PRECISE_UNIT * (a - u)
  BY <1>1
<1>8. r <= z /\ z < r + PRECISE_UNIT
  BY <1>1, <1>3, <1>4, <1>6, <1>7
<1> QED BY <1>2, <1>3, <1>5, <1>7, <1>8

\* A quotient scaled twice in one order and in the other: S of N sets remain under the
\* multiplier m.
LEMMA MultiplierOrder ==
    ASSUME NEW S \in Nat, NEW N \in Nat, N > 0, NEW m \in Nat
    PROVE  LET contract == (m * S) \div N
               helper == (m * ((S * PRECISE_UNIT) \div N)) \div PRECISE_UNIT
           IN  /\ helper <= contract
               /\ (contract - helper) * PRECISE_UNIT < m + PRECISE_UNIT
               /\ m = PRECISE_UNIT => helper = contract
<1>1. PRECISE_UNIT \in Nat /\ PRECISE_UNIT > 0
  BY PreciseUnitAssumption
<1>2. PICK x \in Nat, y \in Nat : x = m * S /\ y = S * PRECISE_UNIT
  BY <1>1
<1>3. PICK c \in Nat : c = x \div N /\ N * c <= x /\ x < N * c + N
  BY <1>2, DivBounds
<1>4. PICK g \in Nat : g = y \div N /\ N * g <= y /\ y < N * g + N
  BY <1>2, DivBounds
<1>5. PICK z \in Nat : z = m * g
  OBVIOUS
<1>6. PICK h \in Nat : /\ h = z \div PRECISE_UNIT
                       /\ PRECISE_UNIT * h <= z /\ z < PRECISE_UNIT * h + PRECISE_UNIT
  BY <1>1, <1>5, DivBounds
<1>7. PICK w \in Nat : w = PRECISE_UNIT * x /\ w = m * y
  <2>1. PRECISE_UNIT * (m * S) = m * (S * PRECISE_UNIT) /\ PRECISE_UNIT * (m * S) \in Nat
    BY <1>1
  <2> QED BY <1>2, <2>1
<1>8. N * z <= w /\ w <= N * z + N * m
  <2>1. PICK k \in Nat : k = N * g
    OBVIOUS
  <2>2. m * k <= m * y /\ m * y <= m * (k + N)
    BY <1>4, <2>1
  <2>3. m * k = N * z /\ m * (k + N) = N * z + N * m
    BY <1>5, <2>1
  <2> QED BY <1>7, <2>2, <2>3
<1>9. h <= c
  <2>1. PICK k \in Nat : k = PRECISE_UNIT * h
    BY <1>1
  <2>2. N * k <= N * z
    BY <1>6, <2>1
  <2>3. N * k = PRECISE_UNIT * (N * h)
    BY <1>1, <2>1
  <2>4. N * k \in Nat /\ N * z \in Nat /\ N * h \in Nat
    BY <2>1
  <2>5. PRECISE_UNIT * (N * h) <= PRECISE_UNIT * x
    BY <1>7, <1>8, <2>2, <2>3, <2>4
  <2>6. N * h <= x
    BY <1>1, <2>4, <2>5
  <2>7. N * h < N * (c + 1)
    <3>1. N * (c + 1) = N * c + N /\ N * c \in Nat
      OBVIOUS
    <3> QED BY <1>3, <2>4, <2>6, <3>1
  <2> QED BY <2>7
<1>10. (c - h) * PRECISE_UNIT < m + PRECISE_UNIT
  <2>1. PICK k \in Nat : k = N * c
    OBVIOUS
  <2>2. PRECISE_UNIT * k <= PRECISE_UNIT * x
    BY <1>1, <1>3, <2>1
  <2>3. PRECISE_UNIT * k = N * (PRECISE_UNIT * c) /\ N * z + N * m = N * (z + m)
    BY <1>1, <2>1
  <2>4. PICK s \in Nat : s = PRECISE_UNIT * c
    BY <1>1
  <2>5. N * s <= N * (z + m)
    <3>1. N * s \in Nat /\ N * (z + m) \in Nat /\ PRECISE_UNIT * k \in Nat
      BY <1>1
    <3> QED BY <1>7, <1>8, <2>2, <2>3, <2>4, <3>1
  <2>6. s <= z + m
    BY <2>5
  <2>7. (c - h) * PRECISE_UNIT = PRECISE_UNIT * c - PRECISE_UNIT * h
    BY <1>1
  <2>8. PICK t \in Nat : t = PRECISE_UNIT * h
    BY <1>1
  <2> QED BY <1>1, <1>6, <2>4, <2>6, <2>7, <2>8
<1>11. ASSUME m = PRECISE_UNIT PROVE h = c
  <2>1. x = y /\ c = g
    <3>1. m * S = S * PRECISE_UNIT
      BY <1>1, <1>11
    <3> QED BY <1>2, <1>3, <1>4, <3>1
  <2>2. z \div PRECISE_UNIT = g
    <3>1. PRECISE_UNIT * g = z
      BY <1>1, <1>5, <1>11
    <3> QED BY <1>1, <1>5, <3>1, DivUnique
  <2> QED BY <1>6, <2>1, <2>2
<1> QED BY <1>2, <1>3, <1>4, <1>5, <1>6, <1>9, <1>10, <1>11

\* The helpers' way to what is left of a precise unit, after an issue of the rest of N sets.
LEMMA InflationLeaves ==
    ASSUME NEW S \in Nat, NEW N \in Nat, N > 0, S <= N
    PROVE  /\ (S * PRECISE_UNIT) \div N \in Nat
           /\ PRECISE_UNIT - preciseDivCeil(N - S, N) = (S * PRECISE_UNIT) \div N
<1>1. PRECISE_UNIT \in Nat /\ PRECISE_UNIT > 0
  BY PreciseUnitAssumption
<1>2. PICK y \in Nat : y = S * PRECISE_UNIT
  BY <1>1
<1>3. PICK g \in Nat : g = y \div N /\ N * g <= y /\ y < N * g + N
  BY <1>2, DivBounds
<1>4. CASE N = S
  <2>1. N * PRECISE_UNIT = y
    BY <1>2, <1>4
  <2>2. y \div N = PRECISE_UNIT
    BY <1>1, <2>1, DivUnique
  <2>3. N - S = 0
    BY <1>4
  <2> QED BY <1>1, <1>2, <2>2, <2>3 DEF preciseDivCeil
<1>5. CASE N > S
  <2>1. PICK x \in Int, k \in Nat : /\ x = (N - S) * PRECISE_UNIT - 1 /\ k = N * g
    BY <1>1
  <2>2. x = N * PRECISE_UNIT - y - 1
    <3>1. (N - S) * PRECISE_UNIT = N * PRECISE_UNIT - S * PRECISE_UNIT
      BY <1>1
    <3> QED BY <1>1, <1>2, <2>1, <3>1
  <2>3. N * (PRECISE_UNIT - 1 - g) = N * PRECISE_UNIT - N - k
    BY <1>1, <2>1
  <2>4. PICK t \in Nat, l \in Int : t = N * PRECISE_UNIT /\ l = N * (PRECISE_UNIT - 1 - g)
    BY <1>1
  <2>5. l <= x /\ x < l + N
    BY <1>3, <2>1, <2>2, <2>3, <2>4
  <2>6. x \div N = PRECISE_UNIT - 1 - g
    <3>1. PICK w \in Int : w = PRECISE_UNIT - 1 - g
      BY <1>1
    <3>2. N * w = l
      BY <2>4, <3>1
    <3>3. N \in Int /\ N > 0 /\ N * w <= x /\ x < N * w + N
      BY <1>5, <2>5, <3>2
    <3> QED BY Zenon, <2>1, <3>1, <3>3, DivUnique
  <2>7. preciseDivCeil(N - S, N) = PRECISE_UNIT - g
    <3>1. N - S > 0
      BY <1>5
    <3>2. preciseDivCeil(N - S, N) = (x \div N) + 1
      BY <2>1, <3>1 DEF preciseDivCeil
    <3> QED BY <1>1, <2>6, <3>2
  <2> QED BY <1>1, <1>2, <1>3, <2>7
<1> QED BY <1>4, <1>5

\* And after a redemption of all but T of S sets.
LEMMA DeflationLeaves ==
    ASSUME NEW S \in Nat, NEW T \in Nat, T > 0, T <= S
    PROVE  /\ (S * PRECISE_UNIT) \div T \in Nat
           /\ PRECISE_UNIT + preciseDiv(S - T, T) = (S * PRECISE_UNIT) \div T
<1>1. PRECISE_UNIT \in Nat /\ PRECISE_UNIT > 0
  BY PreciseUnitAssumption
<1>2. PICK y \in Nat, x \in Nat : y = S * PRECISE_UNIT /\ x = (S - T) * PRECISE_UNIT
  <2>1. S - T \in Nat
    OBVIOUS
  <2> QED BY <1>1, <2>1
<1>3. PICK k \in Nat : k = x \div T /\ T * k <= x /\ x < T * k + T
  BY <1>2, DivBounds
<1>4. y = T * PRECISE_UNIT + x
  <2>1. (S - T) * PRECISE_UNIT = S * PRECISE_UNIT - T * PRECISE_UNIT
    BY <1>1
  <2> QED BY <1>1, <1>2, <2>1
<1>5. T * (PRECISE_UNIT + k) = T * PRECISE_UNIT + T * k
  BY <1>1
<1>6. PICK a \in Nat, b \in Nat, c \in Nat :
        a = T * PRECISE_UNIT /\ b = T * k /\ c = T * (PRECISE_UNIT + k)
  BY <1>1
<1>7. c <= y /\ y < c + T
  BY <1>3, <1>4, <1>5, <1>6
<1>8. y \div T = PRECISE_UNIT + k
  BY <1>1, <1>6, <1>7, DivUnique
<1> QED BY <1>1, <1>2, <1>3, <1>8 DEF preciseDiv

\* Multiplied by a over b, and back.
LEMMA ThereAndBack ==
    ASSUME NEW w \in Nat, NEW a \in Nat, a > 0, NEW b \in Nat, b > 0
    PROVE  LET c == (((w * a) \div b) * b) \div a
           IN  c \in Nat /\ c <= w /\ w * a < a * c + a + b
<1>1. PICK x \in Nat : x = w * a
  OBVIOUS
<1>2. PICK y \in Nat : y = x \div b /\ b * y <= x /\ x < b * y + b
  BY <1>1, DivBounds
<1>3. PICK z \in Nat : z = y * b /\ z = b * y
  <2>1. y * b = b * y /\ y * b \in Nat
    OBVIOUS
  <2> QED BY <2>1
<1>4. PICK c \in Nat : c = z \div a /\ a * c <= z /\ z < a * c + a
  BY <1>3, DivBounds
<1>5. PICK k \in Nat : k = a * c
  OBVIOUS
<1>6. x < k + a + b /\ k <= x
  BY <1>2, <1>3, <1>4, <1>5
<1>7. c <= w
  <2>1. a * c <= a * w
    <3>1. w * a = a * w
      OBVIOUS
    <3> QED BY <1>1, <1>5, <1>6, <3>1
  <2> QED BY <2>1
<1> QED BY <1>1, <1>2, <1>3, <1>4, <1>5, <1>6, <1>7

\* A redemption's two conversions and two reductions in both orders: the contract converts the
\* value Y to the reserve asset before premium and fees, the helper afterwards.  Each of the
\* four roundings costs less than one base unit.
LEMMA RedeemOrder ==
    ASSUME NEW Y \in Nat, NEW b \in Nat, b > 0, b <= PRECISE_UNIT, NEW p \in Nat, p <= PRECISE_UNIT,
           NEW f \in Nat, NEW d \in Nat, f + d <= PRECISE_UNIT
    PROVE  LET pre == preciseMul(Y, b)
               O == pre - preciseMulCeil(pre, p)
               R == O - preciseMul(O, f) - preciseMul(O, d)
               X == Y - preciseMulCeil(Y, p)
               E == X - preciseMul(X, f) - preciseMul(X, d)
           IN  E \in Nat /\ R \in Nat /\ preciseMul(E, b) \in R - 3 .. R + 3
<1>1. PRECISE_UNIT \in Nat /\ PRECISE_UNIT > 0
  BY PreciseUnitAssumption
<1>2. PICK U \in Nat : U = PRECISE_UNIT
  BY <1>1
<1>3. PICK g \in Nat, e \in Nat : /\ p + g = PRECISE_UNIT /\ f + d + e = PRECISE_UNIT
                                  /\ g <= U /\ e <= U
  <2>1. PRECISE_UNIT - p \in Nat /\ PRECISE_UNIT - f - d \in Nat
    BY <1>1
  <2>2. /\ p + (PRECISE_UNIT - p) = PRECISE_UNIT /\ f + d + (PRECISE_UNIT - f - d) = PRECISE_UNIT
        /\ PRECISE_UNIT - p <= U /\ PRECISE_UNIT - f - d <= U
    BY <1>1, <1>2
  <2> QED BY Zenon, <2>1, <2>2
<1>4. PICK pre \in Nat : /\ pre = preciseMul(Y, b) /\ U * pre <= Y * b /\ Y * b < U * pre + U
  <2>1. PICK x \in Nat : x = Y * b
    OBVIOUS
  <2>2. x \div PRECISE_UNIT \in Nat
    BY <2>1, MulIsBelow DEF preciseMul
  <2> QED BY <1>1, <1>2, <2>1, <2>2, DivBounds DEF preciseMul
<1>5. PICK O \in Nat : O = pre - preciseMulCeil(pre, p) /\ U * O <= pre * g /\ pre * g < U * O + U
  BY Zenon, <1>2, <1>3, AfterPremium
<1>6. PICK X \in Nat : X = Y - preciseMulCeil(Y, p) /\ U * X <= Y * g /\ Y * g < U * X + U
  BY Zenon, <1>2, <1>3, AfterPremium
<1>7. PICK R \in Nat : /\ R = O - preciseMul(O, f) - preciseMul(O, d)
                       /\ O * e <= U * R /\ U * R < O * e + 2 * U
  BY Zenon, <1>2, <1>3, AfterFees
<1>8. PICK E \in Nat : /\ E = X - preciseMul(X, f) - preciseMul(X, d)
                       /\ X * e <= U * E /\ U * E < X * e + 2 * U
  BY Zenon, <1>2, <1>3, AfterFees
<1>9. PICK H \in Nat : /\ H = preciseMul(E, b) /\ U * H <= E * b /\ E * b < U * H + U
  <2>1. PICK x \in Nat : x = E * b
    OBVIOUS
  <2>2. x \div PRECISE_UNIT \in Nat
    BY <2>1, MulIsBelow DEF preciseMul
  <2> QED BY <1>1, <1>2, <2>1, <2>2, DivBounds DEF preciseMul
<1>10. U > 0 /\ b <= U
  BY <1>1, <1>2
<1>11. U * O <= b * X + b /\ b * X < U * O + U + g
  <2>1. PICK y \in Nat, s \in Nat, t \in Nat : y = Y * b /\ s = pre * g /\ t = Y * g
    OBVIOUS
  <2>2. PICK k \in Nat : k = U * pre /\ k <= y /\ y < k + U
    BY <1>4, <2>1
  <2>3. PICK w \in Nat : w = y * g /\ w = b * t
    <3>1. (Y * b) * g = b * (Y * g) /\ (Y * b) * g \in Nat
      OBVIOUS
    <3> QED BY <2>1, <3>1
  <2>4. U * s <= w /\ w <= U * (s + g)
    <3>1. k * g <= y * g /\ y * g <= (k + U) * g
      BY <2>2
    <3>2. k * g = U * s /\ (k + U) * g = U * (s + g)
      BY <2>1, <2>2
    <3> QED BY <2>3, <3>1, <3>2
  <2>5. PICK x \in Nat : x = U * X /\ x <= t /\ t < x + U
    BY <1>6, <2>1
  <2>6. U * (b * X) <= w /\ w <= U * (b * X + b)
    <3>1. b * x <= b * t /\ b * t <= b * (x + U)
      BY <2>5
    <3>2. b * x = U * (b * X) /\ b * (x + U) = U * (b * X + b)
      BY <2>5
    <3> QED BY <2>3, <3>1, <3>2
  <2>7. PICK z \in Nat : z = b * X
    OBVIOUS
  <2>8. s <= z + b
    <3>1. U * s <= U * (z + b)
      <4>1. U * s \in Nat /\ U * (z + b) \in Nat
        OBVIOUS
      <4> QED BY <2>4, <2>6, <2>7, <4>1
    <3> QED BY <1>10, <3>1
  <2>9. z <= s + g
    <3>1. U * z <= U * (s + g)
      <4>1. U * z \in Nat /\ U * (s + g) \in Nat
        OBVIOUS
      <4> QED BY <2>4, <2>6, <2>7, <4>1
    <3> QED BY <1>10, <3>1
  <2>10. PICK o \in Nat : o = U * O /\ o <= s /\ s < o + U
    BY <1>5, <2>1
  <2>11. o <= z + b /\ z < o + U + g
    BY <2>8, <2>9, <2>10
  <2> QED BY <2>7, <2>10, <2>11
<1>12. R < H + 4
  <2>1. PICK o \in Nat, z \in Nat : o = U * O /\ z = b * X /\ o <= z + b
    BY <1>11
  <2>2. PICK x \in Nat : x = X * e /\ x <= U * E
    BY <1>8
  <2>3. PICK k \in Nat : k = U * E /\ x <= k
    BY <2>2
  <2>4. PICK v \in Nat : v = O * e /\ U * R < v + 2 * U
    BY <1>7
  <2>5. U * v <= U * (b * E) + b * e
    <3>1. o * e <= (z + b) * e
      BY <2>1
    <3>2. o * e = U * v /\ (z + b) * e = b * x + b * e
      BY <2>1, <2>2, <2>4
    <3>3. b * x <= b * k
      BY <2>3
    <3>4. b * k = U * (b * E)
      BY <2>3
    <3>5. PICK a1 \in Nat, a2 \in Nat, a3 \in Nat, a4 \in Nat :
            a1 = U * v /\ a2 = b * x /\ a3 = b * e /\ a4 = U * (b * E)
      OBVIOUS
    <3>6. a1 <= a2 + a3 /\ a2 <= a4
      BY <3>1, <3>2, <3>3, <3>4, <3>5
    <3> QED BY <3>5, <3>6
  <2>6. b * e <= U * U
    <3>1. b * e <= U * e /\ U * e <= U * U
      BY <1>3, <1>10
    <3>2. b * e \in Nat /\ U * e \in Nat /\ U * U \in Nat
      OBVIOUS
    <3> QED BY <3>1, <3>2
  <2>7. PICK l \in Nat : l = b * E /\ l < U * H + U
    <3>1. E * b = b * E /\ b * E \in Nat
      OBVIOUS
    <3> QED BY <1>9, <3>1
  <2>8. v <= l + U
    <3>1. U * v <= U * (l + U)
      <4>1. U * (l + U) = U * l + U * U
        OBVIOUS
      <4>2. PICK a1 \in Nat, a2 \in Nat, a3 \in Nat, a4 \in Nat :
              a1 = U * v /\ a2 = U * l /\ a3 = b * e /\ a4 = U * U
        OBVIOUS
      <4>3. a1 <= a2 + a3 /\ a3 <= a4
        BY <2>5, <2>6, <2>7, <4>2
      <4> QED BY <4>1, <4>2, <4>3
    <3> QED BY <1>10, <3>1
  <2>9. U * R < U * (H + 4)
    <3>1. U * (H + 4) = U * H + 4 * U
      OBVIOUS
    <3>2. PICK a1 \in Nat, a2 \in Nat : a1 = U * R /\ a2 = U * H
      OBVIOUS
    <3>3. a1 < v + 2 * U /\ l < a2 + U
      BY <2>4, <2>7, <3>2
    <3> QED BY <2>8, <3>1, <3>2, <3>3
  <2> QED BY <1>10, <2>9
<1>13. H < R + 4
  <2>1. PICK o \in Nat, z \in Nat : o = U * O /\ z = b * X /\ z < o + U + g
    BY <1>11
  <2>2. PICK x \in Nat : x = X * e /\ U * E < x + 2 * U
    BY <1>8
  <2>3. PICK v \in Nat : v = O * e /\ v <= U * R
    BY <1>7
  <2>4. PICK l \in Nat : l = E * b /\ U * H <= l
    BY <1>9
  <2>5. U * l < b * x + 2 * (U * b)
    <3>1. PICK k \in Nat : k = U * E /\ k < x + 2 * U
      BY <2>2
    <3>2. b * k < b * (x + 2 * U)
      BY <3>1
    <3>3. b * k = U * l /\ b * (x + 2 * U) = b * x + 2 * (U * b)
      BY <2>4, <3>1
    <3> QED BY <3>2, <3>3
  <2>6. b * x <= U * v + U * e + g * e
    <3>1. z * e <= (o + U + g) * e
      BY <2>1
    <3>2. z * e = b * x /\ (o + U + g) * e = U * v + U * e + g * e
      BY <2>1, <2>2, <2>3
    <3> QED BY <3>1, <3>2
  <2>7. U * e <= U * U /\ g * e <= U * U /\ U * b <= U * U
    <3>1. g * e <= U * e /\ U * e <= U * U /\ U * b <= U * U
      BY <1>3, <1>10
    <3>2. g * e \in Nat /\ U * e \in Nat /\ U * U \in Nat
      OBVIOUS
    <3> QED BY <3>1, <3>2
  <2>8. l < v + 4 * U
    <3>1. U * l < U * (v + 4 * U)
      <4>1. U * (v + 4 * U) = U * v + 4 * (U * U)
        OBVIOUS
      <4>2. PICK a1 \in Nat, a2 \in Nat, a3 \in Nat, a4 \in Nat, a5 \in Nat, a6 \in Nat, a7 \in Nat :
              /\ a1 = U * l /\ a2 = b * x /\ a3 = U * b /\ a4 = U * v
              /\ a5 = U * e /\ a6 = g * e /\ a7 = U * U
        OBVIOUS
      <4>3. a1 < a2 + 2 * a3 /\ a2 <= a4 + a5 + a6 /\ a5 <= a7 /\ a6 <= a7 /\ a3 <= a7
        BY <2>5, <2>6, <2>7, <4>2
      <4> QED BY <4>1, <4>2, <4>3
    <3> QED BY <1>10, <3>1
  <2>9. U * H < U * (R + 4)
    <3>1. U * (R + 4) = U * R + 4 * U
      OBVIOUS
    <3>2. PICK a1 \in Nat, a2 \in Nat : a1 = U * R /\ a2 = U * H
      OBVIOUS
    <3>3. v <= a1 /\ a2 <= l
      BY <2>3, <2>4, <3>2
    <3> QED BY <2>8, <3>1, <3>2, <3>3
  <2> QED BY <1>10, <2>9
<1>14. H \in R - 3 .. R + 3
  BY <1>12, <1>13
<1> QED BY <1>4, <1>5, <1>6, <1>7, <1>8, <1>9, <1>14

\* A unit read back after it was written under the multiplier k, against the helper's
\* rounding of it.
LEMMA UnitsClose ==
    ASSUME PositionInv(pos), NEW w \in Nat, NEW k \in Nat, k > 0
    PROVE  CloseUnits(UnitAfter(w, k), TS!roundedByMultiplier(w, k), k)
<1>1. PRECISE_UNIT \in Nat /\ PRECISE_UNIT > 0
  BY PreciseUnitAssumption
<1> DEFINE p == editPositionMultiplier(pos, k)
           contract == (((w * PRECISE_UNIT) \div k) * k) \div PRECISE_UNIT
           helper == (((w * k) \div PRECISE_UNIT) * PRECISE_UNIT) \div k
<1>2. p.positionMultiplier = k
  <2>1. pos \in PositionState /\ k \in Int
    BY DEF PositionInv
  <2> QED BY <2>1, EditMultiplierFields
<1>3. UnitAfter(w, k) = convertVirtualToRealUnit(p, convertRealToVirtualUnit(p, w))
  BY DEF UnitAfter
<1> HIDE DEF p
<1>4. UnitAfter(w, k) = contract
  <2>1. PICK x \in Nat : x = w * PRECISE_UNIT
    BY <1>1
  <2>2. PICK v \in Nat : v = x \div k
    BY <2>1, DivBounds
  <2>3. convertRealToVirtualUnit(p, w) = v
    BY <1>2, <2>1, <2>2, DivDownIsFloor DEF convertRealToVirtualUnit, conservativePreciseDiv
  <2>4. PICK y \in Nat : y = v * k
    OBVIOUS
  <2>5. convertVirtualToRealUnit(p, v) = y \div PRECISE_UNIT
    BY <1>1, <1>2, <2>4, DivDownIsFloor DEF convertVirtualToRealUnit, conservativePreciseMul
  <2> QED BY <1>3, <2>1, <2>2, <2>3, <2>4, <2>5
<1>5. TS!roundedByMultiplier(w, k) = helper
  <2>1. PICK v \in Nat : v = preciseMul(w, k)
    BY MulIsBelow
  <2>2. TS!preciseMul(w, k) = v /\ TS!preciseDiv(v, k) = preciseDiv(v, k)
    BY <2>1, NavUtilsAgree
  <2> QED BY <2>1, <2>2 DEF TS!roundedByMultiplier, preciseMul, preciseDiv
<1>6. contract \in Nat /\ contract <= w /\ w * PRECISE_UNIT < PRECISE_UNIT * contract + PRECISE_UNIT + k
  BY Zenon, <1>1, ThereAndBack
<1>7. helper \in Nat /\ helper <= w /\ w * k < k * helper + k + PRECISE_UNIT
  BY Zenon, <1>1, ThereAndBack
<1> HIDE DEF contract, helper
<1>8. (contract - helper) * k < PRECISE_UNIT + k
  <2>1. PICK a \in Nat, b \in Nat, c \in Nat : a = contract * k /\ b = k * helper /\ c = w * k
    BY <1>6, <1>7
  <2>2. a <= c
    BY <1>6, <2>1
  <2>3. (contract - helper) * k = a - b
    BY <1>6, <1>7, <2>1
  <2> QED BY <1>1, <1>7, <2>1, <2>2, <2>3
<1>9. (helper - contract) * PRECISE_UNIT < PRECISE_UNIT + k
  <2>1. PICK a \in Nat, b \in Nat, c \in Nat :
          a = helper * PRECISE_UNIT /\ b = PRECISE_UNIT * contract /\ c = w * PRECISE_UNIT
    BY <1>1, <1>6, <1>7
  <2>2. a <= c
    BY <1>1, <1>7, <2>1
  <2>3. (helper - contract) * PRECISE_UNIT = a - b
    BY <1>1, <1>6, <1>7, <2>1
  <2> QED BY <1>1, <1>6, <2>1, <2>2, <2>3
<1> QED BY <1>4, <1>5, <1>8, <1>9 DEF CloseUnits

\* The multiplier that the state updates accept.
LEMMA AcceptedMultiplier ==
    ASSUME NavInv, NEW r, NEW T \in Nat, T > 0, NEW w, StateUpdatesOK(r, getPositionMultiplier(T), w)
    PROVE  getPositionMultiplier(T) \in Nat /\ getPositionMultiplier(T) > 0
<1> DEFINE k == getPositionMultiplier(T)
<1>1. /\ PositionInv(pos) /\ totalSupply \in Nat /\ pos \in PositionState
      /\ pos.positionMultiplier \in Nat
  BY DEF NavInv, PositionInv, PositionState
<1>2. k \in Nat
  BY Zenon, <1>1, ScaledMultiplier DEF getPositionMultiplier
<1>3. validateNewMultiplier(pos, k)
  BY DEF StateUpdatesOK
<1> HIDE DEF k
<1>4. k \in Int
  BY <1>2
<1>5. PositionInv(editPositionMultiplier(pos, k)) /\ editPositionMultiplier(pos, k).positionMultiplier = k
  BY <1>1, <1>3, <1>4, EditPositionMultiplierKeepsInv, EditMultiplierFields
<1>6. k > 0
  BY <1>5 DEF PositionInv
<1> QED BY <1>2, <1>6 DEF k

\* What the helper takes for the new multiplier, once it has come to what is left of a
\* precise unit.
LEMMA MultipliersClose ==
    ASSUME NavInv, NEW T \in Nat, T > 0, NEW helper,
           helper = TS!preciseMul(pos.positionMultiplier, (totalSupply * PRECISE_UNIT) \div T)
    PROVE  CloseMultipliers(getPositionMultiplier(T), helper)
<1>1. PICK S \in Nat, m \in Nat : S = totalSupply /\ m = pos.positionMultiplier
  <2>1. totalSupply \in Nat /\ pos.positionMultiplier \in Nat
    BY DEF NavInv, PositionInv, PositionState
  <2> QED BY Zenon, <2>1
<1>2. PICK g \in Nat : g = (S * PRECISE_UNIT) \div T
  <2>1. PICK y \in Nat : y = S * PRECISE_UNIT
    BY PreciseUnitAssumption
  <2> QED BY <2>1, DivBounds
<1>3. helper = (m * ((S * PRECISE_UNIT) \div T)) \div PRECISE_UNIT
  BY <1>1, <1>2, NavUtilsAgree DEF preciseMul
<1>4. LET c == (m * S) \div T
          h == (m * ((S * PRECISE_UNIT) \div T)) \div PRECISE_UNIT
      IN  /\ h <= c
          /\ (c - h) * PRECISE_UNIT < m + PRECISE_UNIT
          /\ m = PRECISE_UNIT => h = c
  BY Zenon, MultiplierOrder
<1> QED BY Zenon, <1>1, <1>3, <1>4 DEF CloseMultipliers, getPositionMultiplier

LEMMA NavInvPredictsIssue == NavInv => HelpersPredictIssue
<1> SUFFICES ASSUME NavInv, NEW r \in Component, NEW q \in ReserveQuantity, NEW p \in Premium,
                    NEW f \in ManagerFee, NEW d \in FeeRate,
                    navIssueOK(r, q, p, f, 0, d)
             PROVE  LET netFlow == getFees(q, f, 0, d).netFlowQuantity
                        minted == getSetTokenMintQuantity(r, netFlow, p)
                        newSupply == totalSupply + minted
                        multiplier == getPositionMultiplier(newSupply)
                    IN  /\ minted = TS!getExpectedSetTokenIssueQuantity(
                             calculateSetTokenValuation(r), totalSupply, BaseUnits[r], q, f, d, p)
                        /\ CloseMultipliers(multiplier, TS!getExpectedIssuePositionMultiplier(
                             pos.positionMultiplier, totalSupply, newSupply))
                        /\ CloseUnits(UnitAfter(getIssuePositionUnit(r, netFlow, newSupply), multiplier),
                             TS!getExpectedIssuePositionUnit(
                               unit(r), q, totalSupply, newSupply, multiplier, f, d),
                             multiplier)
  BY Zenon DEF HelpersPredictIssue
<1> DEFINE n == getFees(q, f, 0, d).netFlowQuantity
           minted == getSetTokenMintQuantity(r, n, p)
           T == totalSupply + minted
           k == getPositionMultiplier(T)
           w == getIssuePositionUnit(r, n, T)
           V == calculateSetTokenValuation(r)
<1>1. /\ mintDenominator(r, n, p) > 0 /\ totalSupply >= minSetTokenSupply /\ n >= 0
      /\ StateUpdatesOK(r, k, w)
  BY DEF navIssueOK, getFeesOK
<1>2. /\ totalSupply \in Nat /\ unit(r) \in Nat /\ PositionInv(pos)
      /\ minSetTokenSupply \in Nat /\ minSetTokenSupply > 0
      /\ BaseUnits[r] \in Nat /\ BaseUnits[r] > 0
      /\ q \in Nat /\ f \in Nat /\ d \in Nat /\ p \in Nat /\ p <= PRECISE_UNIT
      /\ PRECISE_UNIT \in Nat /\ PRECISE_UNIT > 0
  BY IssuanceAssumption, NavAssumption, PreciseUnitAssumption, RealUnits DEF NavInv, unit
<1>3. V \in Nat
  BY ValuationIsNatural
<1>4. n = TS!getExpectedPostFeeQuantity(q, f, d) /\ n \in Nat
  <2>1. /\ n = q - preciseMul(q, f) - preciseMul(q, d)
        /\ TS!getExpectedPostFeeQuantity(q, f, d) = q - preciseMul(q, f) - preciseMul(q, d)
    BY Zenon, <1>2, FeesAsExpected
  <2>2. preciseMul(q, f) \in Nat /\ preciseMul(q, d) \in Nat
    BY <1>2, MulIsBelow
  <2> HIDE DEF n
  <2> QED BY <1>1, <1>2, <2>1, <2>2
<1> HIDE DEF n
<1>5. minted \in Nat
  BY <1>1, <1>4, MintIsNatural
<1>6. T \in Nat /\ T > 0 /\ totalSupply <= T /\ T - totalSupply \in Nat
  <2> HIDE DEF minted
  <2> QED BY <1>1, <1>2, <1>5
<1>7. minted = TS!getExpectedSetTokenIssueQuantity(V, totalSupply, BaseUnits[r], q, f, d, p)
  <2>1. PICK x \in Nat, rest \in Nat : x = preciseMul(n, p) /\ rest = n - x
    <3>1. preciseMul(n, p) \in Nat /\ preciseMul(n, p) <= n
      BY <1>2, <1>4, ShareIsPart
    <3>2. n - preciseMul(n, p) \in Nat
      BY <1>4, <3>1
    <3> QED BY Zenon, <3>1, <3>2
  <2>2. PICK a \in Nat, b \in Nat, v \in Nat :
          /\ a = preciseDiv(n, BaseUnits[r]) /\ b = preciseDiv(rest, BaseUnits[r])
          /\ v = preciseMul(totalSupply, V)
    BY <1>2, <1>3, <1>4, <2>1, MulIsBelow, DivIsBelow
  <2>3. PICK y \in Nat, den \in Nat : /\ y = preciseMul(b, totalSupply)
                                      /\ den = v + a - b /\ den > 0
                                      /\ den = mintDenominator(r, n, p)
    <3>1. preciseMul(b, totalSupply) \in Nat
      BY <1>2, MulIsBelow
    <3>2. mintDenominator(r, n, p) = v + a - b
      BY Zenon, <2>1, <2>2 DEF mintDenominator
    <3>3. v + a - b \in Nat /\ v + a - b > 0
      BY <1>1, <3>2
    <3> QED BY Zenon, <3>1, <3>2, <3>3
  <2>4. minted = preciseDiv(y, den)
    BY Zenon, <2>1, <2>2, <2>3 DEF getSetTokenMintQuantity
  <2>5. /\ TS!preciseMul(n, p) = x /\ TS!preciseDiv(n, BaseUnits[r]) = a
        /\ TS!preciseDiv(rest, BaseUnits[r]) = b /\ TS!preciseMul(totalSupply, V) = v
        /\ TS!preciseMul(b, totalSupply) = y /\ TS!preciseDiv(y, den) = preciseDiv(y, den)
    BY <1>2, <1>3, <1>4, <2>1, <2>2, <2>3, NavUtilsAgree
  <2> HIDE DEF minted, V
  <2> QED BY Zenon, <1>4, <2>1, <2>3, <2>4, <2>5 DEF TS!getExpectedSetTokenIssueQuantity
<1> HIDE DEF minted, T, V
<1>8. k \in Nat /\ k > 0
  BY <1>1, <1>6, AcceptedMultiplier
<1>9. CloseMultipliers(k, TS!getExpectedIssuePositionMultiplier(pos.positionMultiplier, totalSupply, T))
  <2>1. /\ (totalSupply * PRECISE_UNIT) \div T \in Nat
        /\ PRECISE_UNIT - preciseDivCeil(T - totalSupply, T) = (totalSupply * PRECISE_UNIT) \div T
    BY <1>2, <1>6, InflationLeaves
  <2>2. TS!preciseDivCeil(T - totalSupply, T) = preciseDivCeil(T - totalSupply, T)
    BY <1>6, NavUtilsAgree
  <2>3. TS!getExpectedIssuePositionMultiplier(pos.positionMultiplier, totalSupply, T)
          = TS!preciseMul(pos.positionMultiplier, (totalSupply * PRECISE_UNIT) \div T)
    BY Zenon, <2>1, <2>2 DEF TS!getExpectedIssuePositionMultiplier
  <2> QED BY Zenon, <1>6, <2>3, MultipliersClose
<1>10. /\ w \in Nat
       /\ TS!getExpectedIssuePositionUnit(unit(r), q, totalSupply, T, k, f, d) = TS!roundedByMultiplier(w, k)
  <2>1. PICK x \in Nat : /\ x = preciseMul(unit(r), totalSupply)
                         /\ x = TS!preciseMul(totalSupply, unit(r))
    <3>1. preciseMul(unit(r), totalSupply) \in Nat
      BY <1>2, MulIsBelow
    <3>2. TS!preciseMul(totalSupply, unit(r)) = preciseMul(totalSupply, unit(r))
      BY Zenon, <1>2, NavUtilsAgree
    <3>3. preciseMul(totalSupply, unit(r)) = preciseMul(unit(r), totalSupply)
      BY Zenon, <1>2, MulCommutes
    <3> QED BY Zenon, <3>1, <3>2, <3>3
  <2>2. x + n \in Nat
    BY <1>4
  <2>3. TS!preciseDiv(x + n, T) = preciseDiv(x + n, T) /\ preciseDiv(x + n, T) \in Nat
    BY <1>6, <2>2, NavUtilsAgree, DivIsBelow
  <2>4. w = preciseDiv(x + n, T)
    BY Zenon, <2>1 DEF getIssuePositionUnit
  <2> HIDE DEF w, k
  <2> QED BY Zenon, <1>4, <2>1, <2>3, <2>4 DEF TS!getExpectedIssuePositionUnit
<1> HIDE DEF w, k
<1>11. CloseUnits(UnitAfter(w, k), TS!roundedByMultiplier(w, k), k)
  BY <1>2, <1>8, <1>10, UnitsClose
<1> QED BY Zenon, <1>7, <1>9, <1>10, <1>11 DEF n, minted, T, k, w, V

LEMMA NavInvPredictsRedeem == NavInv => HelpersPredictRedeem
<1> SUFFICES ASSUME NavInv, NEW r \in Component, NEW q \in Quantity, NEW p \in Premium,
                    NEW f \in ManagerFee, NEW d \in FeeRate,
                    navRedeemOK(r, q, p, f, 0, d)
             PROVE  LET outflow == getRedeemReserveQuantity(r, q, p)
                        received == getFees(outflow, f, 0, d).netFlowQuantity
                        valuation == calculateSetTokenValuation(r)
                        expected == TS!getExpectedReserveRedeemQuantity(q, valuation, BaseUnits[r], f, d, p)
                        newSupply == totalSupply - q
                        multiplier == getPositionMultiplier(newSupply)
                    IN  /\ BaseUnits[r] = PRECISE_UNIT => expected = received
                        /\ f + d <= PRECISE_UNIT => expected \in received - 3 .. received + 3
                        /\ CloseMultipliers(multiplier, TS!getExpectedRedeemPositionMultiplier(
                             pos.positionMultiplier, totalSupply, newSupply))
                        /\ BaseUnits[r] = PRECISE_UNIT =>
                             CloseUnits(UnitAfter(getRedeemPositionUnit(r, outflow, newSupply), multiplier),
                               TS!getExpectedRedeemPositionUnit(
                                 unit(r), q, valuation, BaseUnits[r], totalSupply, newSupply,
                                 multiplier, p),
                               multiplier)
  BY Zenon DEF HelpersPredictRedeem
<1> DEFINE O == getRedeemReserveQuantity(r, q, p)
           R == getFees(O, f, 0, d).netFlowQuantity
           V == calculateSetTokenValuation(r)
           H == TS!getExpectedReserveRedeemQuantity(q, V, BaseUnits[r], f, d, p)
           T == totalSupply - q
           k == getPositionMultiplier(T)
           w == getRedeemPositionUnit(r, O, T)
           b == BaseUnits[r]
<1>1. /\ q > 0 /\ T > 0 /\ R >= 0 /\ availableReserve(r) >= O
      /\ StateUpdatesOK(r, k, w)
  BY DEF navRedeemOK, getFeesOK
<1>2. /\ totalSupply \in Nat /\ unit(r) \in Nat /\ PositionInv(pos)
      /\ b \in Nat /\ b > 0 /\ b <= PRECISE_UNIT
      /\ q \in Nat /\ f \in Nat /\ d \in Nat /\ p \in Nat /\ p <= PRECISE_UNIT
      /\ PRECISE_UNIT \in Nat /\ PRECISE_UNIT > 0
  BY IssuanceAssumption, NavAssumption, PreciseUnitAssumption, RealUnits DEF NavInv, unit
<1> HIDE DEF b
<1>3. V \in Nat
  BY ValuationIsNatural
<1> HIDE DEF V
\* The value of the sets in the reserve asset, before and after the premium.
<1>4. PICK Y \in Nat : Y = preciseMul(q, V) /\ Y = preciseMul(V, q)
  BY <1>2, <1>3, MulIsBelow, MulCommutes
<1>5. PICK X \in Nat : X = Y - preciseMulCeil(Y, p) /\ X = TS!redeemValueSubPremium(V, q, p)
  <2>1. PRECISE_UNIT - p \in Nat /\ p + (PRECISE_UNIT - p) = PRECISE_UNIT
    BY <1>2
  <2>2. Y - preciseMulCeil(Y, p) \in Nat
    BY Zenon, <1>2, <2>1, AfterPremium
  <2>3. TS!preciseMul(V, q) = Y /\ TS!preciseMulCeil(Y, p) = preciseMulCeil(Y, p)
    BY <1>2, <1>3, <1>4, NavUtilsAgree
  <2> QED BY Zenon, <2>2, <2>3 DEF TS!redeemValueSubPremium
\* The same in base units, as the contract has it.
<1>6. PICK pre \in Nat : pre = preciseMul(Y, b) /\ O = pre - preciseMulCeil(pre, p)
  <2>1. preciseMul(Y, b) \in Nat
    BY <1>2, MulIsBelow
  <2>2. O = preciseMul(Y, b) - preciseMulCeil(preciseMul(Y, b), p)
    BY Zenon, <1>4 DEF getRedeemReserveQuantity, V, b
  <2> QED BY Zenon, <2>1, <2>2
<1>7. O \in Nat
  <2>1. PRECISE_UNIT - p \in Nat /\ p + (PRECISE_UNIT - p) = PRECISE_UNIT
    BY <1>2
  <2>2. pre - preciseMulCeil(pre, p) \in Nat
    BY Zenon, <1>2, <2>1, AfterPremium
  <2> QED BY Zenon, <1>6, <2>2
<1> HIDE DEF O
<1>8. R = O - preciseMul(O, f) - preciseMul(O, d)
  BY Zenon, <1>2, <1>7, FeesAsExpected
<1> HIDE DEF R
<1>9. H = TS!preciseMul(X - preciseMul(X, f) - preciseMul(X, d), b)
  <2>1. TS!getExpectedPostFeeQuantity(X, f, d) = X - preciseMul(X, f) - preciseMul(X, d)
    BY Zenon, <1>2, FeesAsExpected
  <2> QED BY Zenon, <1>5, <2>1 DEF TS!getExpectedReserveRedeemQuantity, b
<1> HIDE DEF H
<1>10. ASSUME f + d <= PRECISE_UNIT PROVE H \in R - 3 .. R + 3
  <2>1. LET a == preciseMul(Y, b)
            o == a - preciseMulCeil(a, p)
            s == o - preciseMul(o, f) - preciseMul(o, d)
            x == Y - preciseMulCeil(Y, p)
            e == x - preciseMul(x, f) - preciseMul(x, d)
        IN  e \in Nat /\ s \in Nat /\ preciseMul(e, b) \in s - 3 .. s + 3
    BY Zenon, <1>2, <1>10, RedeemOrder
  <2>2. PICK E \in Nat : /\ E = X - preciseMul(X, f) - preciseMul(X, d)
                         /\ preciseMul(E, b) \in R - 3 .. R + 3
    BY Zenon, <1>5, <1>6, <1>8, <2>1
  <2>3. TS!preciseMul(E, b) = preciseMul(E, b)
    BY Zenon, <1>2, <2>2, NavUtilsAgree
  <2> QED BY Zenon, <1>9, <2>2, <2>3
\* With 18 decimals the conversion changes nothing.
<1>11. \A a \in Nat : preciseMul(a, PRECISE_UNIT) = a
  <2>1. ASSUME NEW a \in Nat PROVE preciseMul(a, PRECISE_UNIT) = a
    <3>1. a * PRECISE_UNIT = PRECISE_UNIT * a /\ a * PRECISE_UNIT \in Nat
      BY <1>2
    <3>2. (a * PRECISE_UNIT) \div PRECISE_UNIT = a
      BY <1>2, <3>1, DivUnique
    <3> QED BY <3>2 DEF preciseMul
  <2> QED BY <2>1
<1>12. ASSUME b = PRECISE_UNIT PROVE X = O /\ H = R
  <2>1. X = O
    BY Zenon, <1>5, <1>6, <1>11, <1>12
  <2>2. preciseMul(X, f) \in Nat /\ preciseMul(X, d) \in Nat
    BY <1>2, MulIsBelow
  <2>3. R \in Nat
    BY <1>1, <1>7, <1>8, <2>1, <2>2
  <2>4. H = TS!preciseMul(R, PRECISE_UNIT)
    BY Zenon, <1>8, <1>9, <1>12, <2>1
  <2>5. TS!preciseMul(R, PRECISE_UNIT) = R
    BY Zenon, <1>2, <1>11, <2>3, NavUtilsAgree
  <2> QED BY Zenon, <2>1, <2>4, <2>5
<1>13. T \in Nat /\ T > 0 /\ T <= totalSupply /\ totalSupply - T \in Nat
  BY <1>1, <1>2
<1> HIDE DEF T
<1>14. k \in Nat /\ k > 0
  BY <1>1, <1>13, AcceptedMultiplier
<1>15. CloseMultipliers(k, TS!getExpectedRedeemPositionMultiplier(pos.positionMultiplier, totalSupply, T))
  <2>1. /\ (totalSupply * PRECISE_UNIT) \div T \in Nat
        /\ PRECISE_UNIT + preciseDiv(totalSupply - T, T) = (totalSupply * PRECISE_UNIT) \div T
    BY <1>2, <1>13, DeflationLeaves
  <2>2. TS!preciseDiv(totalSupply - T, T) = preciseDiv(totalSupply - T, T)
    BY <1>13, NavUtilsAgree
  <2>3. TS!getExpectedRedeemPositionMultiplier(pos.positionMultiplier, totalSupply, T)
          = TS!preciseMul(pos.positionMultiplier, (totalSupply * PRECISE_UNIT) \div T)
    BY Zenon, <2>1, <2>2 DEF TS!getExpectedRedeemPositionMultiplier
  <2> QED BY Zenon, <1>13, <2>3, MultipliersClose
<1>16. PICK a \in Nat : /\ a = availableReserve(r) /\ a = TS!preciseMul(totalSupply, unit(r))
  <2>1. preciseMul(unit(r), totalSupply) \in Nat
    BY <1>2, MulIsBelow
  <2>2. TS!preciseMul(totalSupply, unit(r)) = preciseMul(totalSupply, unit(r))
    BY Zenon, <1>2, NavUtilsAgree
  <2>3. preciseMul(totalSupply, unit(r)) = preciseMul(unit(r), totalSupply)
    BY Zenon, <1>2, MulCommutes
  <2> QED BY Zenon, <2>1, <2>2, <2>3 DEF availableReserve
<1>17. a - O \in Nat /\ w = preciseDiv(a - O, T)
  <2>1. a - O \in Nat
    BY <1>1, <1>7, <1>16
  <2> QED BY Zenon, <1>16, <2>1 DEF getRedeemPositionUnit
<1>18. w \in Nat
  BY <1>13, <1>17, DivIsBelow
<1>19. ASSUME b = PRECISE_UNIT
       PROVE  TS!getExpectedRedeemPositionUnit(unit(r), q, V, b, totalSupply, T, k, p)
                = TS!roundedByMultiplier(w, k)
  <2>1. TS!preciseMul(X, b) = O
    BY Zenon, <1>2, <1>11, <1>12, <1>19, NavUtilsAgree
  <2>2. TS!preciseDiv(a - O, T) = w
    BY Zenon, <1>13, <1>17, NavUtilsAgree
  <2> HIDE DEF w, k
  <2> QED BY Zenon, <1>5, <1>16, <2>1, <2>2 DEF TS!getExpectedRedeemPositionUnit
<1> HIDE DEF w, k
<1>20. CloseUnits(UnitAfter(w, k), TS!roundedByMultiplier(w, k), k)
  BY <1>2, <1>14, <1>18, UnitsClose
<1> QED BY Zenon, <1>10, <1>12, <1>15, <1>19, <1>20 DEF O, R, V, H, T, k, w, b

\* What navIssuanceModuleUtils.ts expects of an issue or a redemption is what the module does,
\* up to the stated rounding: after any history of issues, redemptions and prices, for any
\* fees, premium, quantity and decimals of the reserve asset.
THEOREM NavAlwaysPredicted == NavSpec => []HelpersPredictNav
<1>1. NavInit => NavInv
  BY NavInitNavInv
<1>2. NavInv /\ [NavNext]_navVars => NavInv'
  BY NavNextKeepsNavInv
<1>3. NavInv => HelpersPredictNav
  BY NavInvPredictsIssue, NavInvPredictsRedeem DEF HelpersPredictNav
<1> QED BY <1>1, <1>2, <1>3, PTL DEF NavSpec

-----------------------------------------------------------------------------
(* CustomOracleNavIssuanceModule: what truncation takes from the others.    *)

\* A factor W makes precise units of base units.
LEMMA DivByBaseUnit ==
    ASSUME NEW b \in Nat, b > 0, NEW W \in Nat, b * W = PRECISE_UNIT, NEW u \in Nat
    PROVE  preciseDiv(u, b) = u * W
<1>1. PICK U \in Nat : U = PRECISE_UNIT /\ U > 0
  BY PreciseUnitAssumption
<1>2. PICK i \in Nat, j \in Nat : i = u * U /\ j = u * W
  OBVIOUS
<1>3. b * j = i
  <2>1. b * (u * W) = u * (b * W)
    OBVIOUS
  <2> QED BY <1>1, <1>2, <2>1
<1>4. b \in Int /\ i \in Int /\ j \in Int /\ b * j <= i /\ i < b * j + b
  BY <1>3
<1>5. i \div b = j
  BY Zenon, <1>4, DivUnique
<1> QED BY <1>1, <1>2, <1>5 DEF preciseDiv

\* What a component's positions are worth per set, a being its weight and x its unit
\* unrounded, against the value that is summed for it.
LEMMA WeightedValue ==
    ASSUME NEW b \in Nat, b > 0, NEW W \in Nat, b * W = PRECISE_UNIT, NEW p \in Nat,
           NEW u \in Nat, NEW x \in Nat, PRECISE_UNIT * u <= x, x < PRECISE_UNIT * u + PRECISE_UNIT,
           NEW a \in Nat, a = p * W
    PROVE  LET y == preciseMul(preciseDiv(u, b), p)
           IN  /\ PRECISE_UNIT * (PRECISE_UNIT * y) <= a * x
               /\ a * x <= PRECISE_UNIT * (PRECISE_UNIT * y) + PRECISE_UNIT * a
                             + PRECISE_UNIT * PRECISE_UNIT
<1>1. PICK U \in Nat : U = PRECISE_UNIT /\ U > 0
  BY PreciseUnitAssumption
<1>2. preciseDiv(u, b) = u * W
  BY Zenon, DivByBaseUnit
<1>3. PICK z \in Nat : z = a * u /\ (u * W) * p = z
  <2>1. (u * W) * p = (p * W) * u
    OBVIOUS
  <2> QED BY <2>1
<1>4. PICK y \in Int : y = preciseMul(preciseDiv(u, b), p) /\ U * y <= z /\ z < U * y + U
  <2>1. preciseMul(preciseDiv(u, b), p) = z \div U
    BY <1>1, <1>2, <1>3 DEF preciseMul
  <2>2. z \div U \in Int /\ U * (z \div U) <= z /\ z < U * (z \div U) + U
    BY <1>1, DivBounds
  <2> QED BY Zenon, <2>1, <2>2
<1>5. U * (U * y) <= a * x
  <2>1. U * (U * y) <= U * z
    <3>1. PICK i \in Int : i = U * y
      OBVIOUS
    <3> QED BY <1>4, <3>1
  <2>2. a * (U * u) <= a * x
    <3>1. PICK i \in Nat : i = U * u /\ i <= x
      BY <1>1
    <3> QED BY <3>1
  <2>3. a * (U * u) = U * z
    BY <1>3
  <2>4. U * (U * y) \in Int /\ U * z \in Int /\ a * x \in Int
    OBVIOUS
  <2> QED BY <2>1, <2>2, <2>3, <2>4
<1>6. a * x <= U * (U * y) + U * a + U * U
  <2>1. a * x <= a * (U * u + U)
    <3>1. PICK i \in Nat : i = U * u /\ x <= i + U
      BY <1>1
    <3> QED BY <3>1
  <2>2. a * (U * u + U) = U * z + U * a
    BY <1>3
  <2>3. U * z <= U * (U * y + U)
    <3>1. PICK i \in Int : i = U * y /\ z <= i + U
      BY <1>4
    <3> QED BY <3>1
  <2>4. U * (U * y + U) = U * (U * y) + U * U
    OBVIOUS
  <2>5. PICK i \in Int, j \in Int, k \in Int, l \in Int, m \in Int :
          i = a * x /\ j = U * z /\ k = U * a /\ l = U * (U * y) /\ m = U * U
    OBVIOUS
  <2> QED BY <2>1, <2>2, <2>3, <2>4, <2>5
<1> QED BY <1>1, <1>4, <1>5, <1>6

\* The reserve's new unit, worth w, claims for T sets what was claimed before and what came
\* in (or went out, if n is negative), but for what was rounded.
LEMMA ReserveLeavesLittle ==
    ASSUME NEW S \in Nat, NEW T \in Nat, NEW u \in Nat, NEW x \in Nat, NEW n \in Int,
           NEW w \in Nat, NEW z \in Nat, NEW k \in Nat, T > 0,
           x < PRECISE_UNIT * u + PRECISE_UNIT,
           (preciseMul(u, S) + n) * PRECISE_UNIT < T * w + T,
           w * PRECISE_UNIT < z + k
    PROVE  S * x + PRECISE_UNIT * (PRECISE_UNIT * n)
             <= T * z + T * k + PRECISE_UNIT * (S + T + PRECISE_UNIT)
<1>1. PICK U \in Nat : U = PRECISE_UNIT /\ U > 0
  BY PreciseUnitAssumption
<1>2. PICK t \in Int : t = preciseMul(u, S) /\ u * S < U * t + U
  <2>1. PICK y \in Nat : y = u * S
    OBVIOUS
  <2>2. y \div U \in Int /\ y < U * (y \div U) + U
    BY <1>1, DivBounds
  <2>3. preciseMul(u, S) = y \div U
    BY <1>1, <2>1 DEF preciseMul
  <2> QED BY Zenon, <2>1, <2>2, <2>3
<1>3. S * x <= U * (U * t) + U * U + U * S
  <2>1. S * x <= S * (U * u + U)
    <3>1. PICK i \in Nat : i = U * u /\ x <= i + U
      BY <1>1
    <3> QED BY <3>1
  <2>2. S * (U * u + U) = U * (u * S) + U * S
    OBVIOUS
  <2>3. U * (u * S) <= U * (U * t + U)
    <3>1. PICK i \in Int, j \in Nat : i = U * t /\ j = u * S /\ j <= i + U
      BY <1>2
    <3> QED BY <3>1
  <2>4. U * (U * t + U) = U * (U * t) + U * U
    OBVIOUS
  <2>5. PICK i \in Int, j \in Int, l \in Int, m \in Int, o \in Int :
          i = S * x /\ j = U * (u * S) /\ l = U * (U * t) /\ m = U * U /\ o = U * S
    OBVIOUS
  <2> QED BY <2>1, <2>2, <2>3, <2>4, <2>5
<1>4. U * (U * (t + n)) <= T * z + T * k + U * T
  <2>1. U * ((t + n) * U) <= U * (T * w + T)
    <3>1. PICK i \in Int, j \in Nat : i = (t + n) * U /\ j = T * w /\ i <= j + T
      BY <1>1, <1>2
    <3> QED BY <3>1
  <2>2. U * (T * w + T) = T * (w * U) + U * T
    OBVIOUS
  <2>3. T * (w * U) <= T * (z + k)
    <3>1. PICK i \in Nat : i = w * U /\ i <= z + k
      BY <1>1
    <3> QED BY <3>1
  <2>4. T * (z + k) = T * z + T * k /\ U * ((t + n) * U) = U * (U * (t + n))
    OBVIOUS
  <2>5. PICK i \in Int, j \in Int, l \in Int, m \in Int, o \in Int :
          i = U * (U * (t + n)) /\ j = T * (w * U) /\ l = U * T /\ m = T * z /\ o = T * k
    OBVIOUS
  <2> QED BY <2>1, <2>2, <2>3, <2>4, <2>5
<1>5. /\ U * (U * (t + n)) = U * (U * t) + U * (U * n)
      /\ U * (S + T + U) = U * S + U * T + U * U
  OBVIOUS
<1>6. PICK i \in Int, j \in Int, l \in Int, m \in Int, o \in Int, p \in Int, q \in Int, r \in Int :
        /\ i = S * x /\ j = U * (U * t) /\ l = U * (U * n) /\ m = U * U
        /\ o = U * S /\ p = U * T /\ q = T * z /\ r = T * k
  OBVIOUS
<1>7. i + l <= q + r + (o + p + m)
  BY <1>3, <1>4, <1>5, <1>6
<1> QED BY <1>1, <1>5, <1>6, <1>7

\* What minted sets are valued at, next to what was paid for them: the value of the old
\* supply, rounded down, is at most a unit short, and so are M sets by M * PRECISE_UNIT \div S.
LEMMA MintedForLess ==
    ASSUME NEW S \in Nat, S > 0, NEW V \in Nat, NEW paid \in Nat, NEW rest \in Nat, rest <= paid,
           preciseMul(S, V) + paid - rest > 0
    PROVE  LET M == preciseDiv(preciseMul(rest, S), preciseMul(S, V) + paid - rest)
           IN  M * V <= PRECISE_UNIT * paid + (M * PRECISE_UNIT) \div S
<1>1. PICK U \in Nat : U = PRECISE_UNIT /\ U > 0
  BY PreciseUnitAssumption
<1>2. PICK A \in Nat : A = preciseMul(S, V) /\ S * V <= U * A + U
  <2>1. PICK y \in Nat : y = S * V
    OBVIOUS
  <2>2. /\ y \div U \in Nat /\ y \div U \in Int
        /\ y < U * (y \div U) + U
    BY <1>1, DivBounds
  <2>3. y <= U * (y \div U) + U
    BY <2>2
  <2>4. preciseMul(S, V) = y \div U
    BY <1>1, <2>1 DEF preciseMul
  <2> QED BY Zenon, <2>1, <2>2, <2>3, <2>4
<1>3. PICK R \in Nat : R = preciseMul(rest, S) /\ U * R <= rest * S
  BY <1>1, MulIsBelow
<1>4. PICK D \in Nat : D = A + paid - rest /\ D > 0
  BY <1>2
<1>5. PICK M \in Nat : M = preciseDiv(R, D) /\ D * M <= U * R
  BY <1>1, <1>4, DivIsBelow
<1>6. M * A <= rest * S
  <2>1. M * A <= M * D
    BY <1>4
  <2>2. M * D = D * M
    OBVIOUS
  <2>3. PICK i \in Int, j \in Int, k \in Int, l \in Int : i = M * A /\ j = D * M /\ k = U * R /\ l = rest * S
    OBVIOUS
  <2> QED BY <1>3, <1>5, <2>1, <2>2, <2>3
<1>7. S * (M * V) <= S * (U * paid) + M * U
  <2>1. M * (S * V) <= M * (U * A + U)
    <3>1. PICK i \in Nat, j \in Nat : i = S * V /\ j = U * A /\ i <= j + U
      BY <1>2
    <3> QED BY <3>1
  <2>2. M * (U * A + U) = U * (M * A) + M * U /\ M * (S * V) = S * (M * V)
    OBVIOUS
  <2>3. U * (M * A) <= U * (paid * S)
    <3>1. rest * S <= paid * S
      OBVIOUS
    <3>2. PICK i \in Nat, j \in Nat, k \in Nat : i = M * A /\ j = paid * S /\ k = rest * S
      OBVIOUS
    <3>3. i <= j
      BY <1>6, <3>1, <3>2
    <3> QED BY <3>2, <3>3
  <2>4. U * (paid * S) = S * (U * paid)
    OBVIOUS
  <2>5. PICK i \in Int, j \in Int, k \in Int, l \in Int :
          i = S * (M * V) /\ j = U * (M * A) /\ k = M * U /\ l = S * (U * paid)
    OBVIOUS
  <2> QED BY <2>1, <2>2, <2>3, <2>4, <2>5
<1>8. PICK Y \in Int : Y = (M * U) \div S /\ M * U < S * Y + S
  <2>1. PICK y \in Nat : y = M * U
    OBVIOUS
  <2>2. y \div S \in Int /\ y < S * (y \div S) + S
    BY <2>1, DivBounds
  <2> QED BY Zenon, <2>1, <2>2
<1>9. M * V <= U * paid + Y
  <2>1. PICK i \in Int, j \in Int : i = M * V /\ j = U * paid
    OBVIOUS
  <2>2. S * i < S * j + S * Y + S
    <3>1. PICK k \in Int, l \in Int, m \in Int, o \in Int : k = S * i /\ l = S * j /\ m = M * U /\ o = S * Y
      OBVIOUS
    <3> QED BY <1>7, <1>8, <2>1, <3>1
  <2>3. S * j + S * Y + S = S * (j + Y + 1)
    OBVIOUS
  <2>4. PICK k \in Int : k = j + Y + 1 /\ S * i < S * k
    BY <2>2, <2>3
  <2>5. i < k
    <3>1. k <= i => S * k <= S * i
      OBVIOUS
    <3> QED BY <2>4, <3>1
  <2> QED BY <2>1, <2>4, <2>5
<1> QED BY <1>1, <1>2, <1>3, <1>4, <1>5, <1>8, <1>9

\* A change of the supply by d sets changes what is claimed by their value, but for the
\* roundings of a valuation that M more of them are issued at.
ChangeIsValued(d, M, a, e, y) ==
    d * e <= d * (PRECISE_UNIT * (PRECISE_UNIT * y)) + M * (PRECISE_UNIT * a)
               + M * (PRECISE_UNIT * PRECISE_UNIT)

LEMMA SupplyChange ==
    ASSUME NEW S \in Nat, NEW T \in Nat, NEW M \in Nat, M = (IF T > S THEN T - S ELSE 0),
           NEW a \in Nat, NEW e \in Nat, NEW y \in Nat,
           PRECISE_UNIT * (PRECISE_UNIT * y) <= e,
           e <= PRECISE_UNIT * (PRECISE_UNIT * y) + PRECISE_UNIT * a + PRECISE_UNIT * PRECISE_UNIT
    PROVE  ChangeIsValued(T - S, M, a, e, y)
<1>0. PICK d \in Int : d = T - S
  OBVIOUS
<1>1. PICK h \in Nat, i \in Nat, j \in Nat :
        /\ h = PRECISE_UNIT * (PRECISE_UNIT * y) /\ i = PRECISE_UNIT * a
        /\ j = PRECISE_UNIT * PRECISE_UNIT /\ h <= e /\ e <= h + i + j
  BY PreciseUnitAssumption
<1>2. h <= e /\ e <= h + i + j
  BY <1>1
<1>3. T > S => d * e <= d * h + M * i + M * j
  <2> SUFFICES ASSUME T > S PROVE d * e <= d * h + M * i + M * j
    OBVIOUS
  <2>1. M * e <= M * (h + i + j)
    BY <1>2
  <2>2. M * (h + i + j) = M * h + M * i + M * j /\ d = M
    BY <1>0
  <2> QED BY <1>2, <2>1, <2>2
<1>4. ~ T > S => d * e <= d * h + M * i + M * j
  <2> SUFFICES ASSUME ~ T > S PROVE d * e <= d * h + M * i + M * j
    OBVIOUS
  <2>1. PICK q \in Nat : q = S - T /\ d = - q /\ M = 0
    BY <1>0
  <2>2. q * h <= q * e
    BY <1>2
  <2>3. d * e = - (q * e) /\ d * h = - (q * h) /\ M * i = 0 /\ M * j = 0
    BY <2>1
  <2> QED BY <1>2, <2>2, <2>3
<1>5. d * e <= d * h + M * i + M * j
  BY <1>3, <1>4
<1> QED BY Zenon, <1>0, <1>1, <1>5 DEF ChangeIsValued

\* A component that stays where it is: a its weight, v its virtual unit, m and k the
\* multiplier before and after, y its value.
LEMMA OtherKeepsValue ==
    ASSUME NEW S \in Nat, NEW T \in Nat, NEW v \in Nat, NEW m \in Nat, NEW k \in Nat,
           NEW a \in Nat, NEW y \in Nat, NEW P \in Nat, NEW M \in Nat, M <= P,
           S * m <= T * k + T,
           ChangeIsValued(T - S, M, a, a * (v * m), y)
    PROVE  T * (a * (v * m))
             <= T * (a * (v * k)) + ((T - S) * (PRECISE_UNIT * PRECISE_UNIT)) * y
                  + (a * (PRECISE_UNIT * P + T * (v + k)) + M * (PRECISE_UNIT * PRECISE_UNIT))
<1>1. PICK U \in Nat : U = PRECISE_UNIT /\ U > 0
  BY PreciseUnitAssumption
<1>2. PICK d \in Int : d = T - S
  OBVIOUS
<1>3. PICK e \in Nat, g \in Nat : e = a * (v * m) /\ g = a * (v * k)
  OBVIOUS
<1>4. S * e <= T * g + a * (T * v)
  <2>1. (a * v) * (S * m) <= (a * v) * (T * k + T)
    <3>1. PICK i \in Nat, j \in Nat, h \in Nat : i = S * m /\ j = T * k + T /\ i <= j /\ h = a * v
      OBVIOUS
    <3> QED BY <3>1
  <2>2. (a * v) * (S * m) = S * (a * (v * m))
    OBVIOUS
  <2>3. (a * v) * (T * k + T) = T * (a * (v * k)) + a * (T * v)
    OBVIOUS
  <2> QED BY <1>3, <2>1, <2>2, <2>3
<1>5. d * e <= d * (U * (U * y)) + M * (U * a) + M * (U * U)
  BY Zenon, <1>1, <1>2, <1>3 DEF ChangeIsValued
<1>6. M * (U * a) <= a * (U * P)
  <2>1. PICK h \in Nat : h = U * a
    OBVIOUS
  <2>2. M * h <= P * h
    OBVIOUS
  <2>3. P * h = a * (U * P)
    BY <2>1
  <2> QED BY <2>1, <2>2, <2>3
<1>7. /\ T * e = S * e + d * e
      /\ (d * (U * U)) * y = d * (U * (U * y))
      /\ a * (U * P + T * (v + k)) = a * (U * P) + a * (T * v) + a * (T * k)
  BY <1>2
<1>8. PICK e0 \in Int, e1 \in Int, e2 \in Int, g0 \in Int, y0 \in Int, i \in Nat, j \in Nat,
           l \in Nat, q \in Nat, r \in Nat :
        /\ e0 = T * e /\ e1 = S * e /\ e2 = d * e /\ g0 = T * g /\ y0 = d * (U * (U * y))
        /\ i = a * (T * v) /\ j = a * (T * k) /\ l = a * (U * P) /\ q = M * (U * a)
        /\ r = M * (U * U)
  OBVIOUS
<1>9. e0 <= g0 + y0 + ((l + i + j) + r)
  BY <1>4, <1>5, <1>6, <1>7, <1>8
<1> QED BY <1>1, <1>2, <1>3, <1>7, <1>8, <1>9

\* The reserve's position, rewritten: z is its new virtual unit times the new multiplier, and
\* n what came in or, if negative, went out.
LEMMA ReserveKeepsValue ==
    ASSUME NEW S \in Nat, NEW T \in Nat, NEW v \in Nat, NEW k \in Nat, NEW x \in Nat, NEW z \in Nat,
           NEW a \in Nat, NEW y \in Nat, NEW Y \in Nat, NEW M \in Nat, NEW n \in Int,
           S * x + PRECISE_UNIT * (PRECISE_UNIT * n)
             <= T * z + T * k + PRECISE_UNIT * (S + T + PRECISE_UNIT),
           ChangeIsValued(T - S, M, a, a * x, y)
    PROVE  T * (a * x) + (a * (PRECISE_UNIT * (PRECISE_UNIT * n)) + a * (PRECISE_UNIT * (M + Y)))
             <= T * (a * z) + ((T - S) * (PRECISE_UNIT * PRECISE_UNIT)) * y
                  + (a * (PRECISE_UNIT * (S + T + PRECISE_UNIT + 2 * M + Y) + T * (v + k))
                       + M * (PRECISE_UNIT * PRECISE_UNIT))
<1>1. PICK U \in Nat : U = PRECISE_UNIT /\ U > 0
  BY PreciseUnitAssumption
<1>2. PICK d \in Int : d = T - S
  OBVIOUS
<1>3. PICK e \in Nat, g \in Nat : e = a * x /\ g = a * z
  OBVIOUS
<1>4. S * e + a * (U * (U * n)) <= T * g + a * (T * k) + a * (U * (S + T + U))
  <2>1. PICK i \in Int, j \in Int : /\ i = S * x + U * (U * n)
                                    /\ j = T * z + T * k + U * (S + T + U) /\ i <= j
    BY <1>1
  <2>2. a * i <= a * j
    BY <2>1
  <2>3. a * (S * x + U * (U * n)) = S * (a * x) + a * (U * (U * n))
    OBVIOUS
  <2>4. a * (T * z + T * k + U * (S + T + U)) = T * (a * z) + a * (T * k) + a * (U * (S + T + U))
    OBVIOUS
  <2> QED BY <1>3, <2>1, <2>2, <2>3, <2>4
<1>5. d * e <= d * (U * (U * y)) + M * (U * a) + M * (U * U)
  BY Zenon, <1>1, <1>2, <1>3 DEF ChangeIsValued
<1>6. /\ T * e = S * e + d * e
      /\ (d * (U * U)) * y = d * (U * (U * y))
      /\ a * (U * (S + T + U + 2 * M + Y) + T * (v + k))
           = a * (U * (S + T + U)) + M * (U * a) + a * (U * (M + Y)) + a * (T * v) + a * (T * k)
  BY <1>2
<1>7. PICK e0 \in Int, e1 \in Int, e2 \in Int, g0 \in Int, y0 \in Int, n0 \in Int, i \in Nat,
           j \in Nat, l \in Nat, q \in Nat, r \in Nat, s \in Nat :
        /\ e0 = T * e /\ e1 = S * e /\ e2 = d * e /\ g0 = T * g /\ y0 = d * (U * (U * y))
        /\ n0 = a * (U * (U * n)) /\ i = a * (T * v) /\ j = a * (T * k)
        /\ l = a * (U * (S + T + U)) /\ q = M * (U * a) /\ r = M * (U * U) /\ s = a * (U * (M + Y))
  OBVIOUS
<1>8. e0 + (n0 + s) <= g0 + y0 + ((l + q + s + i + j) + r)
  BY <1>4, <1>5, <1>6, <1>7
<1> QED BY <1>1, <1>2, <1>3, <1>6, <1>7, <1>8

\* Sets minted for n of the reserve, at a price p and a weight a of it: their share of the
\* valuation V0, in the reserve asset V, is paid for.
LEMMA MintedArePaidFor ==
    ASSUME NEW p \in Nat, NEW W \in Nat, W > 0, NEW a \in Nat, a = p * W,
           NEW n \in Nat, NEW M \in Nat, NEW Y \in Nat, NEW V \in Nat, NEW V0 \in Nat,
           PRECISE_UNIT * V0 <= (V + 1) * p,
           M * V <= PRECISE_UNIT * (n * W) + Y
    PROVE  (M * (PRECISE_UNIT * PRECISE_UNIT)) * V0
             <= a * (PRECISE_UNIT * (PRECISE_UNIT * n)) + a * (PRECISE_UNIT * (M + Y))
<1>1. PICK U \in Nat : U = PRECISE_UNIT /\ U > 0
  BY PreciseUnitAssumption
<1>2. (M * (U * U)) * V0 <= (U * p) * (M * V + M)
  <2>1. PICK i \in Nat, j \in Nat, h \in Nat : i = U * V0 /\ j = (V + 1) * p /\ i <= j /\ h = M * U
    BY <1>1
  <2>2. h * i <= h * j
    BY <2>1
  <2>3. (M * U) * (U * V0) = (M * (U * U)) * V0
    OBVIOUS
  <2>4. (M * U) * ((V + 1) * p) = (U * p) * (M * V + M)
    OBVIOUS
  <2> QED BY <2>1, <2>2, <2>3, <2>4
<1>3. (U * p) * (M * V + M) <= (U * p) * (U * (n * W) + (M + Y))
  <2>1. PICK i \in Nat, j \in Nat, h \in Nat : /\ i = M * V + M /\ j = U * (n * W) + (M + Y)
                                               /\ i <= j /\ h = U * p
    BY <1>1
  <2> QED BY <2>1
<1>4. (U * p) * (U * (n * W) + (M + Y)) = a * (U * (U * n)) + p * (U * (M + Y))
  <2>1. (U * p) * (U * (n * W) + (M + Y)) = (p * W) * (U * (U * n)) + p * (U * (M + Y))
    OBVIOUS
  <2> QED BY <2>1
<1>5. p * (U * (M + Y)) <= a * (U * (M + Y))
  <2>1. p <= a
    <3>1. p * 1 <= p * W
      OBVIOUS
    <3> QED BY <3>1
  <2>2. PICK i \in Nat : i = U * (M + Y)
    OBVIOUS
  <2> QED BY <2>1, <2>2
<1>6. PICK i \in Int, j \in Int, h \in Int, l \in Int, m \in Int, o \in Int :
        /\ i = (M * (U * U)) * V0 /\ j = (U * p) * (M * V + M)
        /\ h = (U * p) * (U * (n * W) + (M + Y)) /\ l = a * (U * (U * n))
        /\ m = p * (U * (M + Y)) /\ o = a * (U * (M + Y))
  OBVIOUS
<1>7. i <= l + o
  BY <1>2, <1>3, <1>4, <1>5, <1>6
<1> QED BY <1>1, <1>6, <1>7

\* No more is paid out for q sets than their share of the valuation.
LEMMA RedeemedForLess ==
    ASSUME NEW p \in Nat, NEW b \in Nat, b > 0, NEW W \in Nat, b * W = PRECISE_UNIT,
           NEW a \in Nat, a = p * W, NEW q \in Nat, NEW V \in Nat, NEW V0 \in Nat, NEW out \in Int,
           V * p <= PRECISE_UNIT * V0,
           out <= preciseMul(preciseMul(q, V), b)
    PROVE  a * (PRECISE_UNIT * (PRECISE_UNIT * out)) <= (q * (PRECISE_UNIT * PRECISE_UNIT)) * V0
<1>1. PICK U \in Nat : U = PRECISE_UNIT /\ U > 0
  BY PreciseUnitAssumption
<1>2. PICK g \in Nat : g = preciseMul(q, V) /\ U * g <= q * V
  BY <1>1, MulIsBelow
<1>3. PICK f \in Nat : f = preciseMul(g, b) /\ U * f <= g * b /\ out <= f
  BY <1>1, <1>2, MulIsBelow
<1>4. U * (out * W) <= q * V
  <2>1. W * (U * out) <= W * (g * b)
    <3>1. U * out <= U * f
      BY <1>3
    <3>2. PICK i \in Int, j \in Nat, h \in Nat : i = U * out /\ j = g * b /\ h = U * f
      OBVIOUS
    <3>3. i <= j
      BY <1>3, <3>1, <3>2
    <3> QED BY <3>2, <3>3
  <2>2. W * (g * b) = U * g
    <3>1. W * (g * b) = (b * W) * g
      OBVIOUS
    <3> QED BY <1>1, <3>1
  <2>3. W * (U * out) = U * (out * W)
    OBVIOUS
  <2>4. PICK i \in Int, j \in Int, h \in Int : i = U * (out * W) /\ j = U * g /\ h = q * V
    OBVIOUS
  <2> QED BY <1>2, <2>1, <2>2, <2>3, <2>4
<1>5. (p * U) * (U * (out * W)) <= (p * U) * (q * V)
  <2>1. PICK i \in Int, j \in Nat, h \in Nat : i = U * (out * W) /\ j = q * V /\ h = p * U /\ i <= j
    BY <1>4
  <2> QED BY <2>1
<1>6. (q * U) * (V * p) <= (q * U) * (U * V0)
  <2>1. PICK i \in Nat, j \in Nat, h \in Nat : i = V * p /\ j = U * V0 /\ h = q * U /\ i <= j
    BY <1>1
  <2> QED BY <2>1
<1>7. /\ (p * U) * (U * (out * W)) = (p * W) * (U * (U * out))
      /\ (p * U) * (q * V) = (q * U) * (V * p)
      /\ (q * U) * (U * V0) = (q * (U * U)) * V0
  OBVIOUS
<1>8. PICK i \in Int, j \in Int, h \in Int : i = a * (U * (U * out)) /\ j = (q * U) * (V * p)
                                             /\ h = (q * (U * U)) * V0
  OBVIOUS
<1>9. i <= h
  BY <1>5, <1>6, <1>7, <1>8
<1> QED BY <1>1, <1>8, <1>9

-----------------------------------------------------------------------------
(* CustomOracleNavIssuanceModule: nobody is diluted.                        *)

\* The weight of a component, with the factor between its decimals and a precise unit's.
LEMMA WeightIsNatural ==
    ASSUME NavInv, NEW c \in Component
    PROVE  \E W \in Nat :
              /\ W > 0 /\ BaseUnits[c] \in Nat /\ BaseUnits[c] > 0 /\ BaseUnits[c] * W = PRECISE_UNIT
              /\ price[c] \in Nat /\ price[c] > 0
              /\ weight(c) \in Nat /\ weight(c) = price[c] * W
<1>1. PICK U \in Nat : U = PRECISE_UNIT /\ U > 0
  BY PreciseUnitAssumption
<1>2. PICK b \in Nat : b = BaseUnits[c] /\ b > 0 /\ U % b = 0
  BY <1>1, NavAssumption
<1>3. PICK W \in Int : W = U \div b /\ U = b * W
  <2>1. U = b * (U \div b) + (U % b) /\ U \div b \in Int
    BY <1>1, <1>2, ModBounds, DivBounds
  <2> QED BY <1>2, <2>1
<1>4. W \in Nat /\ W > 0
  <2>1. W <= 0 => b * W <= 0
    BY <1>2
  <2> QED BY <1>1, <1>3, <2>1
<1>5. PICK p \in Nat : p = price[c] /\ p > 0
  BY DEF NavInv
<1>6. weight(c) = p * W /\ p * W \in Nat
  BY <1>1, <1>2, <1>3, <1>4, <1>5 DEF weight
<1> QED BY Zenon, <1>1, <1>2, <1>3, <1>4, <1>5, <1>6

\* The value of every component, also of those that are not among the positions.
LEMMA SummedValues ==
    ASSUME NavInv
    PROVE  baseValuation = SumFunctionOnSet(baseValue, Component)
<1>1. ASSUME NEW c \in Component \ Range(pos.components) PROVE baseValue[c] = 0
  <2>1. /\ pos.virtualUnit[c] \in Nat /\ unit(c) \in Nat
        /\ PRECISE_UNIT * unit(c) <= pos.virtualUnit[c] * pos.positionMultiplier
        /\ pos.positionMultiplier \in Nat
    BY RealUnitBounds DEF NavInv, unit
  <2>2. ~ (pos.virtualUnit[c] > 0)
    BY <1>1 DEF NavInv, PositionInv, ComponentsMatch, isComponent, contains
  <2>3. PRECISE_UNIT * unit(c) <= 0
    BY <2>1, <2>2
  <2>4. unit(c) = 0
    BY <2>1, <2>3, PreciseUnitAssumption
  <2>5. PICK b \in Nat, p \in Nat : b = BaseUnits[c] /\ b > 0 /\ p = price[c]
    BY WeightIsNatural
  <2>6. preciseDiv(0, b) = 0
    BY <2>5, PreciseUnitAssumption DEF preciseDiv
  <2>7. preciseMul(0, p) = 0
    BY <2>5, PreciseUnitAssumption DEF preciseMul
  <2> QED BY Zenon, <2>4, <2>5, <2>6, <2>7 DEF baseValue
<1> QED BY <1>1, ComponentsSummed, SumOutside DEF baseValuation

\* A valuation in the reserve asset, against the one it is converted from.
LEMMA ReserveValuation ==
    ASSUME NavInv, NEW r \in Component
    PROVE  LET V == calculateSetTokenValuation(r)
           IN  /\ V * price[r] <= PRECISE_UNIT * baseValuation
               /\ PRECISE_UNIT * baseValuation <= (V + 1) * price[r]
<1>1. PICK U \in Nat : U = PRECISE_UNIT /\ U > 0
  BY PreciseUnitAssumption
<1>2. PICK p \in Nat, V \in Nat, V0 \in Nat :
        /\ p = price[r] /\ p > 0 /\ V = calculateSetTokenValuation(r) /\ V0 = baseValuation
        /\ V = IF r = masterQuoteAsset THEN V0 ELSE preciseDiv(V0, p)
        /\ r = masterQuoteAsset => p = U
  <2>1. price[r] \in Nat /\ price[r] > 0
    BY WeightIsNatural
  <2>2. r = masterQuoteAsset => price[r] = U
    BY <1>1 DEF NavInv
  <2> QED BY Zenon, <2>1, <2>2, ValuationIsNatural
<1>3. CASE r = masterQuoteAsset
  <2>1. V * p <= U * V0 /\ U * V0 <= (V + 1) * p
    <3>1. V = V0 /\ p = U
      BY <1>2, <1>3
    <3>2. (V0 + 1) * U = U * V0 + U /\ V0 * U = U * V0 /\ U * V0 \in Nat
      OBVIOUS
    <3> QED BY <3>1, <3>2
  <2> QED BY Zenon, <1>1, <1>2, <2>1
<1>4. CASE r # masterQuoteAsset
  <2>1. /\ p * V <= U * V0
        /\ V0 * U < p * V + p
    BY Zenon, <1>1, <1>2, <1>4, DivIsClose
  <2>2. V * p <= U * V0 /\ U * V0 <= (V + 1) * p
    <3>1. (V + 1) * p = p * V + p /\ V * p = p * V /\ U * V0 = V0 * U /\ p * V \in Nat /\ V0 * U \in Nat
      OBVIOUS
    <3> QED BY <2>1, <3>1
  <2> QED BY Zenon, <1>1, <1>2, <2>2
<1> QED BY <1>3, <1>4

\* The positions an issue or a redemption leaves.
LEMMA UpdatedPosition ==
    ASSUME NavInv, NEW r \in Component, NEW d \in Int, NEW T \in Nat, T > 0, NEW w \in Nat,
           Updates(r, d, T, w)
    PROVE  LET k == pos'.positionMultiplier
           IN  /\ PositionInv(pos') /\ k \in Nat
               /\ totalSupply * pos.positionMultiplier <= T * k + T
               /\ w * PRECISE_UNIT < pos'.virtualUnit[r] * k + k
               /\ \A c \in Component \ {r} : pos'.virtualUnit[c] = pos.virtualUnit[c]
<1> DEFINE k == getPositionMultiplier(T)
           q == editPositionMultiplier(pos, k)
           p == editDefaultPosition(q, r, w)
<1>1. PositionInv(pos) /\ totalSupply \in Nat
  BY Zenon DEF NavInv
<1>2. pos \in PositionState /\ pos.positionMultiplier \in Nat
  BY <1>1 DEF PositionInv, PositionState
<1>3. k \in Nat /\ totalSupply * pos.positionMultiplier < T * k + T
  BY Zenon, <1>1, <1>2, ScaledMultiplier DEF getPositionMultiplier
<1>4. /\ validateNewMultiplier(pos, k) /\ editDefaultPositionOK(q, r, w)
      /\ p = pos'
  BY Zenon DEF Updates, StateUpdatesOK, StateUpdates
<1> HIDE DEF k
<1>5. k \in Int
  BY <1>3
<1>6. PositionInv(q) /\ q.positionMultiplier = k /\ q.virtualUnit = pos.virtualUnit
  BY <1>2, <1>4, <1>5, <1>1, EditPositionMultiplierKeepsInv, EditMultiplierFields
<1> HIDE DEF q
<1>7. /\ PositionInv(p) /\ p.positionMultiplier = k
      /\ w * PRECISE_UNIT < p.virtualUnit[r] * k + k
      /\ \A c \in Component \ {r} : p.virtualUnit[c] = pos.virtualUnit[c]
  BY <1>4, <1>6, StoredByEdit
<1> HIDE DEF p
<1>8. totalSupply * pos.positionMultiplier <= T * k + T
  <2>1. PICK i \in Int, j \in Int : i = totalSupply * pos.positionMultiplier /\ j = T * k + T
    BY <1>1, <1>2, <1>3
  <2> QED BY <1>3, <2>1
<1> QED BY Zenon, <1>3, <1>4, <1>7, <1>8

\* Sets by which the supply grows, and how often they are the old supply, in precise units.
grown(T) == IF T > totalSupply THEN T - totalSupply ELSE 0
carried(T) == (grown(T) * PRECISE_UNIT) \div totalSupply

\* An issue or a redemption whose change of the supply has its share of the valuation paid in
\* or out dilutes nobody.
LEMMA UpdatesKeepValue ==
    ASSUME NavInv, NEW r \in Component, NEW n \in Int, NEW T \in Nat, T > 0, NEW w \in Nat,
           Updates(r, n, T, w),
           ((T - totalSupply) * (PRECISE_UNIT * PRECISE_UNIT)) * baseValuation
             <= weight(r) * (PRECISE_UNIT * (PRECISE_UNIT * n))
                  + weight(r) * (PRECISE_UNIT * (grown(T) + carried(T)))
    PROVE  totalSupply' * exactValue
             <= totalSupply' * exactValue' + truncationLoss(totalSupply', pos'.positionMultiplier)
<1> DEFINE M == grown(T)
           Y == carried(T)
           k == pos'.positionMultiplier
           e == [c \in Component |-> weight(c) * (pos.virtualUnit[c] * pos.positionMultiplier)]
           g == [c \in Component |-> weight(c) * (pos'.virtualUnit[c] * pos'.positionMultiplier)]
           h == [c \in Component |->
                   weight(c) * (PRECISE_UNIT * (totalSupply + T + PRECISE_UNIT + 2 * M + Y)
                                  + T * (pos.virtualUnit[c] + k))
                     + M * (PRECISE_UNIT * PRECISE_UNIT)]
           K == weight(r) * (PRECISE_UNIT * (PRECISE_UNIT * n)) + weight(r) * (PRECISE_UNIT * (M + Y))
           D == (T - totalSupply) * (PRECISE_UNIT * PRECISE_UNIT)
<1>1. exactValue = SumFunctionOnSet(e, Component)
  BY Zenon DEF exactValue
<1>2. exactValue' = SumFunctionOnSet(g, Component)
  <2>1. ASSUME NEW c \in Component PROVE weight(c)' = weight(c)
    BY DEF weight, Updates
  <2>2. [c \in Component |-> weight(c)' * (pos'.virtualUnit[c] * pos'.positionMultiplier)] = g
    BY <2>1
  <2> HIDE DEF g
  <2> QED BY Zenon, <2>2 DEF exactValue
<1>3. truncationLoss(T, k) = SumFunctionOnSet(h, Component)
  BY Zenon DEF truncationLoss, grown, carried
<1>4. totalSupply' = T
  BY DEF Updates
<1>5. PICK U \in Nat, S \in Nat : U = PRECISE_UNIT /\ U > 0 /\ S = totalSupply /\ S > 0
  BY PreciseUnitAssumption DEF Updates, NavInv
<1>6. M \in Nat /\ M = (IF T > S THEN T - S ELSE 0)
  BY <1>5 DEF grown
<1>7. Y \in Nat
  <2>1. PICK y \in Nat : y = M * U
    BY <1>5, <1>6
  <2>2. y \div S \in Nat
    BY <1>5
  <2> QED BY <1>5, <2>1, <2>2 DEF carried
<1> HIDE DEF M, Y
<1>8. /\ PositionInv(pos) /\ PositionInv(pos') /\ k \in Nat
      /\ totalSupply * pos.positionMultiplier <= T * k + T
      /\ w * PRECISE_UNIT < pos'.virtualUnit[r] * k + k
      /\ \A c \in Component \ {r} : pos'.virtualUnit[c] = pos.virtualUnit[c]
  BY Zenon, UpdatedPosition DEF NavInv
<1>9. ASSUME NEW c \in Component
      PROVE  /\ weight(c) \in Nat /\ pos.virtualUnit[c] \in Nat /\ pos.positionMultiplier \in Nat
             /\ pos'.virtualUnit[c] \in Nat /\ unit(c) \in Nat /\ baseValue[c] \in Nat
             /\ pos.virtualUnit[c] * pos.positionMultiplier < PRECISE_UNIT * unit(c) + PRECISE_UNIT
             /\ PRECISE_UNIT * (PRECISE_UNIT * baseValue[c])
                  <= weight(c) * (pos.virtualUnit[c] * pos.positionMultiplier)
             /\ weight(c) * (pos.virtualUnit[c] * pos.positionMultiplier)
                  <= PRECISE_UNIT * (PRECISE_UNIT * baseValue[c]) + PRECISE_UNIT * weight(c)
                       + PRECISE_UNIT * PRECISE_UNIT
  <2>1. PICK W \in Nat :
          /\ W > 0 /\ BaseUnits[c] \in Nat /\ BaseUnits[c] > 0 /\ BaseUnits[c] * W = PRECISE_UNIT
          /\ price[c] \in Nat /\ price[c] > 0
          /\ weight(c) \in Nat /\ weight(c) = price[c] * W
    BY Zenon, WeightIsNatural
  <2>2. PICK x \in Nat :
          /\ x = pos.virtualUnit[c] * pos.positionMultiplier
          /\ pos.virtualUnit[c] \in Nat /\ pos.positionMultiplier \in Nat
          /\ unit(c) \in Nat
          /\ PRECISE_UNIT * unit(c) <= x /\ x < PRECISE_UNIT * unit(c) + PRECISE_UNIT
    BY Zenon, <1>8, RealUnitBounds DEF unit
  <2>3. pos'.virtualUnit[c] \in Nat
    BY Zenon, <1>8, RealUnitBounds
  <2>4. baseValue[c] \in Nat /\ baseValue[c] = preciseMul(preciseDiv(unit(c), BaseUnits[c]), price[c])
    BY ValueIsNatural DEF baseValue
  <2>5. LET y == preciseMul(preciseDiv(unit(c), BaseUnits[c]), price[c])
        IN  /\ PRECISE_UNIT * (PRECISE_UNIT * y) <= weight(c) * x
            /\ weight(c) * x <= PRECISE_UNIT * (PRECISE_UNIT * y) + PRECISE_UNIT * weight(c)
                                  + PRECISE_UNIT * PRECISE_UNIT
    BY Zenon, <2>1, <2>2, WeightedValue
  <2> QED BY Zenon, <2>1, <2>2, <2>3, <2>4, <2>5
<1>10. /\ e \in [Component -> Nat] /\ g \in [Component -> Nat] /\ h \in [Component -> Nat]
       /\ K \in Int /\ D \in Int
  <2>1. ASSUME NEW c \in Component
        PROVE  /\ weight(c) * (pos.virtualUnit[c] * pos.positionMultiplier) \in Nat
               /\ weight(c) * (pos'.virtualUnit[c] * pos'.positionMultiplier) \in Nat
               /\ weight(c) * (PRECISE_UNIT * (totalSupply + T + PRECISE_UNIT + 2 * M + Y)
                                 + T * (pos.virtualUnit[c] + k))
                    + M * (PRECISE_UNIT * PRECISE_UNIT) \in Nat
    <3>1. PICK a \in Nat, v \in Nat, m \in Nat, z \in Nat, l \in Nat :
            /\ a = weight(c) /\ v = pos.virtualUnit[c] /\ m = pos.positionMultiplier
            /\ z = pos'.virtualUnit[c] /\ l = k
      BY Zenon, <1>8, <1>9
    <3>2. /\ a * (v * m) \in Nat /\ a * (z * l) \in Nat
          /\ a * (U * (S + T + U + 2 * M + Y) + T * (v + l)) + M * (U * U) \in Nat
      BY <1>6, <1>7
    <3> QED BY Zenon, <1>5, <3>1, <3>2
  <2>2. K \in Int
    <3>1. weight(r) \in Nat /\ M + Y \in Nat
      BY <1>6, <1>7, <1>9
    <3> QED BY <1>5, <3>1
  <2>3. D \in Int
    BY <1>5
  <2> QED BY <2>1, <2>2, <2>3
<1>11. ASSUME NEW c \in Component
       PROVE  T * e[c] + (IF c = r THEN K ELSE 0) <= T * g[c] + D * baseValue[c] + h[c]
  <2>1. PICK a \in Nat, v \in Nat, m \in Nat, z \in Nat, l \in Nat, y \in Nat, x \in Nat, u \in Nat :
          /\ a = weight(c) /\ v = pos.virtualUnit[c] /\ m = pos.positionMultiplier
          /\ z = pos'.virtualUnit[c] /\ l = k /\ y = baseValue[c] /\ u = unit(c)
          /\ x = v * m /\ x < PRECISE_UNIT * u + PRECISE_UNIT
          /\ PRECISE_UNIT * (PRECISE_UNIT * y) <= a * x
          /\ a * x <= PRECISE_UNIT * (PRECISE_UNIT * y) + PRECISE_UNIT * a
                        + PRECISE_UNIT * PRECISE_UNIT
    <3>1. pos.virtualUnit[c] * pos.positionMultiplier \in Nat
      BY <1>9
    <3> QED BY Zenon, <1>8, <1>9, <3>1
  <2>0. ChangeIsValued(T - S, M, a, a * x, y)
    <3>1. a * x \in Nat
      OBVIOUS
    <3> QED BY Zenon, <1>6, <2>1, <3>1, SupplyChange
  <2>2. /\ e[c] = a * (v * m) /\ g[c] = a * (z * l)
        /\ h[c] = a * (PRECISE_UNIT * (S + T + PRECISE_UNIT + 2 * M + Y) + T * (v + l))
                    + M * (PRECISE_UNIT * PRECISE_UNIT)
        /\ D = (T - S) * (PRECISE_UNIT * PRECISE_UNIT)
    BY Zenon, <1>5, <2>1
  <2>3. CASE c # r
    <3>1. z = v
      BY <1>8, <2>1, <2>3
    <3>2. PICK P \in Nat : P = S + T + PRECISE_UNIT + 2 * M + Y /\ M <= P
      BY <1>5, <1>6, <1>7
    <3>3. S * m <= T * l + T
      BY Zenon, <1>5, <1>8, <2>1
    <3>4. T * (a * (v * m))
            <= T * (a * (v * l)) + ((T - S) * (PRECISE_UNIT * PRECISE_UNIT)) * y
                 + (a * (PRECISE_UNIT * P + T * (v + l)) + M * (PRECISE_UNIT * PRECISE_UNIT))
      <4>1. M \in Nat /\ M <= P
        BY Zenon, <1>6, <3>2
      <4>2. ChangeIsValued(T - S, M, a, a * (v * m), y)
        BY Zenon, <2>1, <2>0
      <4> QED BY ZenonT(30), <3>3, <4>1, <4>2, OtherKeepsValue
    <3>5. T * e[c] <= T * g[c] + D * y + h[c]
      BY Zenon, <2>2, <3>1, <3>2, <3>4
    <3>6. T * e[c] \in Int /\ T * e[c] + 0 = T * e[c]
      BY <2>2
    <3> HIDE DEF e, g, h, D, K
    <3> QED BY Zenon, <2>1, <2>3, <3>5, <3>6
  <2>4. CASE c = r
    <3>1. (preciseMul(u, S) + n) * PRECISE_UNIT < T * w + T
      BY Zenon, <1>5, <2>1, <2>4 DEF Updates
    <3>2. PICK i \in Nat : i = z * l /\ w * PRECISE_UNIT < i + l
      <4>1. z * l \in Nat
        OBVIOUS
      <4> QED BY Zenon, <1>8, <2>1, <2>4, <4>1
    <3>3. S * x + PRECISE_UNIT * (PRECISE_UNIT * n)
            <= T * i + T * l + PRECISE_UNIT * (S + T + PRECISE_UNIT)
      BY Zenon, <2>1, <3>1, <3>2, ReserveLeavesLittle
    <3>4. T * (a * x) + (a * (PRECISE_UNIT * (PRECISE_UNIT * n)) + a * (PRECISE_UNIT * (M + Y)))
            <= T * (a * i) + ((T - S) * (PRECISE_UNIT * PRECISE_UNIT)) * y
                 + (a * (PRECISE_UNIT * (S + T + PRECISE_UNIT + 2 * M + Y) + T * (v + l))
                      + M * (PRECISE_UNIT * PRECISE_UNIT))
      <4>1. M \in Nat
        BY Zenon, <1>6
      <4> QED BY ZenonT(30), <1>7, <2>0, <3>3, <4>1, ReserveKeepsValue
    <3>5. K = a * (PRECISE_UNIT * (PRECISE_UNIT * n)) + a * (PRECISE_UNIT * (M + Y))
      BY Zenon, <2>1, <2>4
    <3>6. T * e[c] + K <= T * g[c] + D * y + h[c]
      BY Zenon, <2>1, <2>2, <3>2, <3>4, <3>5
    <3> HIDE DEF e, g, h, D, K
    <3> QED BY Zenon, <2>1, <2>4, <3>6
  <2> QED BY <2>3, <2>4
<1>12. D * baseValuation <= K
  BY Zenon DEF M, Y
<1> HIDE DEF e, g, h, D, K, k
<1>13. T * SumFunctionOnSet(e, Component) + K
         <= T * SumFunctionOnSet(g, Component) + D * SumFunctionOnSet(baseValue, Component)
              + SumFunctionOnSet(h, Component)
  BY ZenonT(30), <1>10, <1>11, ComponentsSummed, SumCompares
<1>14. PICK E \in Nat, G \in Nat, H \in Nat, V \in Nat :
         /\ E = SumFunctionOnSet(e, Component) /\ G = SumFunctionOnSet(g, Component)
         /\ H = SumFunctionOnSet(h, Component) /\ V = SumFunctionOnSet(baseValue, Component)
  <2>1. Component \in SUBSET Component /\ IsFiniteSet(Component) /\ baseValue \in [Component -> Nat]
    BY ComponentsSummed
  <2> QED BY <1>10, <2>1, SumIsNatural
<1>15. D * V <= K
  BY Zenon, <1>12, <1>14, SummedValues
<1>16. T * E + K <= T * G + D * V + H
  BY Zenon, <1>13, <1>14
<1>17. T * E <= T * G + H
  <2>1. PICK i \in Int, j \in Int, o \in Int : i = T * E /\ j = T * G /\ o = D * V
    BY <1>10
  <2> QED BY <1>10, <1>15, <1>16, <2>1
<1> QED BY Zenon, <1>1, <1>2, <1>3, <1>4, <1>14, <1>17 DEF k

\* An issue for a reserve asset.
LEMMA IssueDilutesNobody ==
    ASSUME NavInv, NEW r \in Component, NEW q \in ReserveQuantity, NEW premium \in Premium,
           NEW f \in ManagerFee, NEW s \in FeeRate, NEW d \in FeeRate,
           NavIssue(r, q, premium, f, s, d)
    PROVE  totalSupply' * exactValue
             <= totalSupply' * exactValue' + truncationLoss(totalSupply', pos'.positionMultiplier)
<1>1. PICK n \in Nat, T \in Nat, w \in Nat :
        /\ T > 0 /\ Updates(r, n, T, w)
        /\ T = totalSupply + getSetTokenMintQuantity(r, n, premium)
        /\ mintDenominator(r, n, premium) > 0
  BY Zenon, NavIssueUpdates
<1>2. PICK W \in Nat :
        /\ W > 0 /\ BaseUnits[r] \in Nat /\ BaseUnits[r] > 0 /\ BaseUnits[r] * W = PRECISE_UNIT
        /\ price[r] \in Nat /\ price[r] > 0
        /\ weight(r) \in Nat /\ weight(r) = price[r] * W
  BY Zenon, WeightIsNatural
<1>3. PICK S \in Nat : S = totalSupply /\ S > 0
  BY <1>1 DEF Updates, NavInv
<1>4. PICK V \in Nat, V0 \in Nat :
        /\ V = calculateSetTokenValuation(r) /\ V0 = baseValuation
        /\ PRECISE_UNIT * V0 <= (V + 1) * price[r]
  BY Zenon, ValuationIsNatural, ReserveValuation
<1>5. PICK left \in Nat : left = n - preciseMul(n, premium) /\ left <= n
  <2>1. premium \in Nat /\ premium <= PRECISE_UNIT
    BY NavAssumption, PreciseUnitAssumption
  <2>2. preciseMul(n, premium) \in Nat /\ preciseMul(n, premium) <= n
    BY <2>1, ShareIsPart
  <2> QED BY <2>2
<1>6. PICK paid \in Nat, rest \in Nat :
        /\ paid = preciseDiv(n, BaseUnits[r]) /\ rest = preciseDiv(left, BaseUnits[r])
        /\ paid = n * W /\ rest <= paid
  <2>1. preciseDiv(n, BaseUnits[r]) = n * W /\ preciseDiv(left, BaseUnits[r]) = left * W
    <3>1. ASSUME NEW x \in Nat PROVE preciseDiv(x, BaseUnits[r]) = x * W
      BY <1>2, DivByBaseUnit
    <3> QED BY Zenon, <3>1
  <2>2. left * W <= n * W /\ left * W \in Nat /\ n * W \in Nat
    BY <1>5
  <2> QED BY Zenon, <2>1, <2>2
<1>7. /\ mintDenominator(r, n, premium) = preciseMul(S, V) + paid - rest
      /\ getSetTokenMintQuantity(r, n, premium)
           = preciseDiv(preciseMul(rest, S), mintDenominator(r, n, premium))
  BY Zenon, <1>3, <1>4, <1>5, <1>6 DEF mintDenominator, getSetTokenMintQuantity
<1>8. PICK M \in Nat : M = getSetTokenMintQuantity(r, n, premium)
  BY <1>1, MintIsNatural
<1>9. M * V <= PRECISE_UNIT * paid + (M * PRECISE_UNIT) \div S
  <2>1. preciseMul(S, V) + paid - rest > 0
    BY Zenon, <1>1, <1>7
  <2>2. M = preciseDiv(preciseMul(rest, S), preciseMul(S, V) + paid - rest)
    BY Zenon, <1>7, <1>8
  <2>3. LET m == preciseDiv(preciseMul(rest, S), preciseMul(S, V) + paid - rest)
        IN  m * V <= PRECISE_UNIT * paid + (m * PRECISE_UNIT) \div S
    BY Zenon, <1>3, <1>6, <2>1, MintedForLess
  <2> QED BY Zenon, <2>2, <2>3
<1>10. T = S + M /\ T - totalSupply = M /\ grown(T) = M
  BY <1>1, <1>3, <1>8 DEF grown
<1>11. PICK Y \in Nat : Y = (M * PRECISE_UNIT) \div S /\ carried(T) = Y
  <2>1. PICK y \in Nat : y = M * PRECISE_UNIT
    BY PreciseUnitAssumption
  <2>2. y \div S \in Nat
    BY <1>3
  <2> QED BY Zenon, <1>3, <1>10, <2>1, <2>2 DEF carried
<1>12. (M * (PRECISE_UNIT * PRECISE_UNIT)) * V0
         <= weight(r) * (PRECISE_UNIT * (PRECISE_UNIT * n)) + weight(r) * (PRECISE_UNIT * (M + Y))
  <2>1. M * V <= PRECISE_UNIT * (n * W) + Y
    BY Zenon, <1>6, <1>9, <1>11
  <2>2. PICK p \in Nat, a \in Nat : p = price[r] /\ a = weight(r)
    BY <1>2
  <2>3. W > 0 /\ a = p * W /\ PRECISE_UNIT * V0 <= (V + 1) * p
    BY Zenon, <1>2, <1>4, <2>2
  <2>4. (M * (PRECISE_UNIT * PRECISE_UNIT)) * V0
          <= a * (PRECISE_UNIT * (PRECISE_UNIT * n)) + a * (PRECISE_UNIT * (M + Y))
    BY ZenonT(30), <2>1, <2>3, MintedArePaidFor
  <2> QED BY Zenon, <2>2, <2>4
<1>13. ((T - totalSupply) * (PRECISE_UNIT * PRECISE_UNIT)) * baseValuation
         <= weight(r) * (PRECISE_UNIT * (PRECISE_UNIT * n))
              + weight(r) * (PRECISE_UNIT * (grown(T) + carried(T)))
  BY Zenon, <1>4, <1>10, <1>11, <1>12
<1>14. n \in Int
  OBVIOUS
<1> QED BY Zenon, <1>1, <1>13, <1>14, UpdatesKeepValue

\* A redemption into a reserve asset.
LEMMA RedeemDilutesNobody ==
    ASSUME NavInv, NEW r \in Component, NEW q \in Quantity, NEW premium \in Premium,
           NEW f \in ManagerFee, NEW s \in FeeRate, NEW d \in FeeRate,
           NavRedeem(r, q, premium, f, s, d)
    PROVE  totalSupply' * exactValue
             <= totalSupply' * exactValue' + truncationLoss(totalSupply', pos'.positionMultiplier)
<1>1. PICK out \in Int, T \in Nat, w \in Nat :
        /\ T > 0 /\ Updates(r, - out, T, w)
        /\ T = totalSupply - q
        /\ out = getRedeemReserveQuantity(r, q, premium)
  BY Zenon, NavRedeemUpdates
<1>2. PICK W \in Nat :
        /\ W > 0 /\ BaseUnits[r] \in Nat /\ BaseUnits[r] > 0 /\ BaseUnits[r] * W = PRECISE_UNIT
        /\ price[r] \in Nat /\ price[r] > 0
        /\ weight(r) \in Nat /\ weight(r) = price[r] * W
  BY Zenon, WeightIsNatural
<1>3. PICK S \in Nat : S = totalSupply /\ S > 0
  BY <1>1 DEF Updates, NavInv
<1>4. PICK V \in Nat, V0 \in Nat :
        /\ V = calculateSetTokenValuation(r) /\ V0 = baseValuation
        /\ V * price[r] <= PRECISE_UNIT * V0
  BY Zenon, ValuationIsNatural, ReserveValuation
<1>5. q \in Nat /\ premium \in Nat
  BY IssuanceAssumption, NavAssumption, PreciseUnitAssumption
<1>6. out <= preciseMul(preciseMul(q, V), BaseUnits[r])
  <2>1. PICK x \in Nat : x = preciseMul(preciseMul(q, V), BaseUnits[r])
    BY <1>2, <1>5, MulIsBelow
  <2>2. preciseMulCeil(x, premium) \in Nat
    BY <1>5, MulCeilIsAbove
  <2>3. out = x - preciseMulCeil(x, premium)
    BY Zenon, <1>1, <1>4, <2>1 DEF getRedeemReserveQuantity
  <2> QED BY <2>1, <2>2, <2>3
<1>7. weight(r) * (PRECISE_UNIT * (PRECISE_UNIT * out)) <= (q * (PRECISE_UNIT * PRECISE_UNIT)) * V0
  BY ZenonT(30), <1>2, <1>4, <1>5, <1>6, RedeemedForLess
<1>8. T = S - q /\ ~ (T > S) /\ T - totalSupply = - q /\ grown(T) = 0
  BY <1>1, <1>3, <1>5 DEF grown
<1>9. carried(T) = 0
  <2>1. 0 * PRECISE_UNIT = 0 /\ 0 \div S = 0
    BY <1>3, PreciseUnitAssumption
  <2> QED BY Zenon, <1>3, <1>8, <2>1 DEF carried
<1>10. ((- q) * (PRECISE_UNIT * PRECISE_UNIT)) * V0
         <= weight(r) * (PRECISE_UNIT * (PRECISE_UNIT * (- out)))
              + weight(r) * (PRECISE_UNIT * (0 + 0))
  <2>1. PICK U \in Nat, a \in Nat : U = PRECISE_UNIT /\ a = weight(r)
    BY <1>2, PreciseUnitAssumption
  <2>2. /\ ((- q) * (U * U)) * V0 = - ((q * (U * U)) * V0)
        /\ a * (U * (U * (- out))) = - (a * (U * (U * out)))
        /\ a * (U * (0 + 0)) = 0
    BY <1>5
  <2>3. PICK i \in Int, j \in Int : i = (q * (U * U)) * V0 /\ j = a * (U * (U * out)) /\ j <= i
    BY <1>5, <1>7, <2>1
  <2> QED BY <2>1, <2>2, <2>3
<1>11. ((T - totalSupply) * (PRECISE_UNIT * PRECISE_UNIT)) * baseValuation
         <= weight(r) * (PRECISE_UNIT * (PRECISE_UNIT * (- out)))
              + weight(r) * (PRECISE_UNIT * (grown(T) + carried(T)))
  BY Zenon, <1>4, <1>8, <1>9, <1>10
<1>12. - out \in Int
  OBVIOUS
<1> QED BY Zenon, <1>1, <1>11, <1>12, UpdatesKeepValue

\* Whoever issues or redeems at the net asset value, in any reserve asset, at any prices,
\* premium and fees, leaves the sets of everybody else worth what they were, up to what the
\* module's own truncations cost.
THEOREM NobodyDiluted == NavSpec => NoDilution
<1>1. NavInit => NavInv
  BY NavInitNavInv
<1>2. NavInv /\ [NavNext]_navVars => NavInv'
  BY NavNextKeepsNavInv
<1>3. NavInv /\ [NavNext]_navVars =>
        [navSteps' # navSteps =>
           totalSupply' * exactValue
             <= totalSupply' * exactValue'
                  + truncationLoss(totalSupply', pos'.positionMultiplier)]_navVars
  <2> SUFFICES ASSUME NavInv, [NavNext]_navVars, navSteps' # navSteps
               PROVE  totalSupply' * exactValue
                        <= totalSupply' * exactValue'
                             + truncationLoss(totalSupply', pos'.positionMultiplier)
    OBVIOUS
  <2>1. NavNext
    BY DEF navVars
  <2>2. ~ SettingsStep
    BY DEF SettingsStep, NavInitialize, NavRemoveModule, addReserveAsset, removeReserveAsset
  <2>3. \A c \in Component, p \in Price : ~ OracleUpdate(c, p)
    BY DEF OracleUpdate
  <2>4. \A q \in Quantity : ~ (BasicIssueSets(q) \/ BasicRedeemSets(q))
    BY DEF BasicIssueSets, BasicRedeemSets
  <2> QED BY Zenon, <2>1, <2>2, <2>3, <2>4, IssueDilutesNobody, RedeemDilutesNobody DEF NavNext
<1> QED BY <1>1, <1>2, <1>3, PTL DEF NavSpec, NoDilution
=============================================================================
