--------------------------- MODULE IssuanceProofs ---------------------------
(***************************************************************************)
(* A set stays collateralized through any sequence of issues, redemptions, *)
(* trades, absorptions and gifts, for any units, quantities, fees, losses  *)
(* and buffer, and any precise unit.                                       *)
(***************************************************************************)
EXTENDS Issuance, LibraryProofs

-----------------------------------------------------------------------------
(* Products and roundings.                                                  *)

\* A rounded-down product is no more than the exact one.
LEMMA MulIsBelow ==
    ASSUME NEW a \in Nat, NEW b \in Nat
    PROVE  preciseMul(a, b) \in Nat /\ PRECISE_UNIT * preciseMul(a, b) <= a * b
<1>1. PRECISE_UNIT \in Int /\ PRECISE_UNIT > 0
  BY PreciseUnitAssumption
<1>2. PICK x \in Nat : x = a * b
  OBVIOUS
<1>3. x \div PRECISE_UNIT \in Int /\ x \div PRECISE_UNIT >= 0
  BY <1>1, <1>2
<1>4. PRECISE_UNIT * (x \div PRECISE_UNIT) <= x
  BY <1>1, <1>2, DivBounds
<1> QED BY <1>2, <1>3, <1>4 DEF preciseMul

\* A rounded-up product is no less than the exact one, and zero only if that is.
LEMMA MulCeilIsAbove ==
    ASSUME NEW a \in Nat, NEW b \in Nat
    PROVE  /\ preciseMulCeil(a, b) \in Nat
           /\ a * b <= PRECISE_UNIT * preciseMulCeil(a, b)
           /\ preciseMulCeil(a, b) = 0 => a = 0 \/ b = 0
<1>1. PRECISE_UNIT \in Int /\ PRECISE_UNIT > 0
  BY PreciseUnitAssumption
<1>2. CASE a = 0 \/ b = 0
  BY <1>1, <1>2 DEF preciseMulCeil
<1>3. CASE a > 0 /\ b > 0
  <2>1. PICK x \in Int : x = a * b - 1
    OBVIOUS
  <2>2. x >= 0
    BY <1>3, <2>1
  <2>3. PICK q \in Int : q = x \div PRECISE_UNIT
    BY <1>1, DivBounds
  <2>4. q >= 0 /\ x < PRECISE_UNIT * (q + 1)
    BY <1>1, <2>2, <2>3, DivBounds
  <2>5. preciseMulCeil(a, b) = q + 1
    BY <1>3, <2>1, <2>3 DEF preciseMulCeil
  <2>6. PICK y \in Int : y = PRECISE_UNIT * (q + 1)
    BY <1>1
  <2>7. a * b <= y
    BY <2>1, <2>4, <2>6
  <2> QED BY <2>4, <2>5, <2>6, <2>7
<1> QED BY <1>2, <1>3

\* And it is the least such number.
LEMMA MulCeilIsLeast ==
    ASSUME NEW a \in Nat, NEW b \in Nat, NEW n \in Nat, a * b <= PRECISE_UNIT * n
    PROVE  preciseMulCeil(a, b) <= n
<1>1. PRECISE_UNIT \in Int /\ PRECISE_UNIT > 0
  BY PreciseUnitAssumption
<1>2. CASE a = 0 \/ b = 0
  BY <1>2 DEF preciseMulCeil
<1>3. CASE a > 0 /\ b > 0
  <2>1. PICK x \in Int : x = a * b - 1
    OBVIOUS
  <2>2. PICK q \in Int : q = x \div PRECISE_UNIT
    BY <1>1, DivBounds
  <2>3. PRECISE_UNIT * q <= x
    BY <1>1, <2>2, DivBounds
  <2>4. PRECISE_UNIT * q < PRECISE_UNIT * n
    BY <1>1, <2>1, <2>3
  <2>5. q < n
    BY <1>1, <2>4
  <2>6. preciseMulCeil(a, b) = q + 1
    BY <1>3, <2>1, <2>2 DEF preciseMulCeil
  <2> QED BY <2>5, <2>6
<1> QED BY <1>2, <1>3

\* It exceeds the exact one by less than one.
LEMMA MulCeilIsTight ==
    ASSUME NEW a \in Nat, NEW b \in Nat
    PROVE  /\ preciseMulCeil(a, b) \in Nat
           /\ PRECISE_UNIT * preciseMulCeil(a, b) < a * b + PRECISE_UNIT
<1>1. PRECISE_UNIT \in Int /\ PRECISE_UNIT > 0
  BY PreciseUnitAssumption
<1>2. CASE a = 0 \/ b = 0
  BY <1>1, <1>2 DEF preciseMulCeil
<1>3. CASE a > 0 /\ b > 0
  <2>1. PICK x \in Int : x = a * b - 1
    OBVIOUS
  <2>2. PICK q \in Int : q = x \div PRECISE_UNIT /\ PRECISE_UNIT * q <= x
    BY <1>1, DivBounds
  <2>3. preciseMulCeil(a, b) = q + 1
    BY <1>3, <2>1, <2>2 DEF preciseMulCeil
  <2>4. PRECISE_UNIT * (q + 1) = PRECISE_UNIT * q + PRECISE_UNIT
    BY <1>1
  <2>5. PICK y \in Int : y = PRECISE_UNIT * q
    BY <1>1
  <2> QED BY <1>1, <2>1, <2>2, <2>3, <2>4, <2>5, MulCeilIsAbove
<1> QED BY <1>2, <1>3

\* A unit per set, multiplied back, is no more than the notional it came from.
LEMMA DivIsBelow ==
    ASSUME NEW a \in Nat, NEW s \in Nat, s > 0
    PROVE  preciseDiv(a, s) \in Nat /\ s * preciseDiv(a, s) <= PRECISE_UNIT * a
<1>1. PRECISE_UNIT \in Int /\ PRECISE_UNIT > 0
  BY PreciseUnitAssumption
<1>2. PICK x \in Nat : x = a * PRECISE_UNIT
  BY <1>1
<1>3. x \div s \in Int /\ x \div s >= 0 /\ s * (x \div s) <= x
  BY <1>2, DivBounds
<1> QED BY <1>1, <1>2, <1>3 DEF preciseDiv

\* Minting q sets for n tokens, or burning them for n.
LEMMA Minted ==
    ASSUME NEW S \in Nat, NEW q \in Nat, NEW u \in Nat, NEW B \in Int, NEW n \in Int,
           S * u <= PRECISE_UNIT * B, q * u <= PRECISE_UNIT * n
    PROVE  (S + q) * u <= PRECISE_UNIT * (B + n)
BY PreciseUnitAssumption

LEMMA Burned ==
    ASSUME NEW S \in Nat, NEW q \in Nat, NEW u \in Nat, NEW B \in Int, NEW n \in Int,
           S * u <= PRECISE_UNIT * B, PRECISE_UNIT * n <= q * u
    PROVE  (S - q) * u <= PRECISE_UNIT * (B - n)
BY PreciseUnitAssumption

\* More tokens, or fewer sets, back the same unit.
LEMMA Fewer ==
    ASSUME NEW S \in Int, NEW T \in Int, NEW u \in Nat, T <= S
    PROVE  T * u <= S * u
OBVIOUS

LEMMA MoreTokens ==
    ASSUME NEW B \in Int, NEW C \in Int, B <= C
    PROVE  PRECISE_UNIT * B <= PRECISE_UNIT * C
BY PreciseUnitAssumption

\* A share of at most 100% of an amount is no more than the amount.
LEMMA ShareIsPart ==
    ASSUME NEW a \in Nat, NEW s \in Nat, s <= PRECISE_UNIT
    PROVE  /\ preciseMul(a, s) \in Nat /\ preciseMul(a, s) <= a
           /\ preciseMul(s, a) \in Nat /\ preciseMul(s, a) <= a
<1>1. PRECISE_UNIT \in Int /\ PRECISE_UNIT > 0
  BY PreciseUnitAssumption
<1>2. a * s \in Nat /\ s * a = a * s /\ a * s <= PRECISE_UNIT * a
  <2>1. s * a <= PRECISE_UNIT * a
    BY <1>1, Fewer
  <2> QED BY <2>1
<1>3. preciseMul(a, s) \in Nat /\ PRECISE_UNIT * preciseMul(a, s) <= a * s
  BY MulIsBelow
<1>4. preciseMul(s, a) = preciseMul(a, s)
  BY <1>2 DEF preciseMul
<1>5. PICK x \in Nat : x = preciseMul(a, s)
  BY <1>3
<1>6. PRECISE_UNIT * x <= PRECISE_UNIT * a
  BY <1>1, <1>2, <1>3, <1>5
<1>7. x <= a
  BY <1>1, <1>5, <1>6
<1> QED BY <1>4, <1>5, <1>7

-----------------------------------------------------------------------------
(* Units.                                                                   *)

\* A readable position state has a natural real unit for each component, which is zero
\* for what is no component.
LEMMA RealUnits ==
    ASSUME NEW p, PositionInv(p), NEW c \in Component
    PROVE  /\ getDefaultPositionRealUnit(p, c) \in Nat
           /\ ~ isComponent(p, c) => getDefaultPositionRealUnit(p, c) = 0
<1>1. p.virtualUnit[c] \in Int /\ p.virtualUnit[c] >= 0 /\ p.positionMultiplier \in Int
      /\ p.positionMultiplier > 0
  BY DEF PositionInv, PositionState, DefaultsReadable
<1>2. getDefaultPositionRealUnit(p, c) \in Int
  BY <1>1, ConservativeMulSign DEF getDefaultPositionRealUnit, convertVirtualToRealUnit
<1>3. p.virtualUnit[c] = 0 => getDefaultPositionRealUnit(p, c) = 0
  BY HasDefaultPositionIffStored
<1>4. p.virtualUnit[c] > 0 => getDefaultPositionRealUnit(p, c) > 0
  BY DEF PositionInv, DefaultsReadable
<1>5. ~ isComponent(p, c) => ~ (p.virtualUnit[c] > 0)
  BY DEF PositionInv, ComponentsMatch
<1> QED BY <1>1, <1>2, <1>3, <1>4, <1>5

\* An edit through the library leaves the component with at most the unit it was given, at
\* most one less, and the others with the unit they had.
LEMMA UnitsAfterEdit ==
    ASSUME NEW p, PositionInv(p), NEW c \in Component, NEW u \in Nat,
           editDefaultPositionOK(p, c, u)
    PROVE  LET r == editDefaultPosition(p, c, u)
           IN  /\ PositionInv(r)
               /\ r.positionMultiplier = p.positionMultiplier
               /\ getDefaultPositionRealUnit(r, c) <= u
               /\ p.positionMultiplier <= PRECISE_UNIT => getDefaultPositionRealUnit(r, c) >= u - 1
               /\ \A x \in Component \ {c} :
                    getDefaultPositionRealUnit(r, x) = getDefaultPositionRealUnit(p, x)
<1> DEFINE r == editDefaultPosition(p, c, u)
           v == convertRealToVirtualUnit(p, u)
<1>1. PICK q \in PositionState :
        /\ r = editDefaultPositionUnit(q, c, u)
        /\ q.virtualUnit = p.virtualUnit
        /\ q.positionMultiplier = p.positionMultiplier
  BY ComponentsAfterEditDefault
<1>2. /\ p \in PositionState /\ p.positionMultiplier \in Int /\ p.positionMultiplier > 0
      /\ p.virtualUnit \in [Component -> Int]
  BY PositionFields DEF PositionInv
<1>3. v \in Int
  BY <1>2, ConvertNonNegative DEF editDefaultPositionOK
<1>4. convertRealToVirtualUnit(q, u) = v
  BY <1>1 DEF convertRealToVirtualUnit
<1>5. /\ r.virtualUnit = [p.virtualUnit EXCEPT ![c] = v]
      /\ r.positionMultiplier = p.positionMultiplier
  BY <1>1, <1>3, <1>4, EditDefaultUnitFields
<1>6. PositionInv(r)
  BY EditDefaultPositionKeepsInv
<1>7. /\ convertVirtualToRealUnit(p, v) <= u
      /\ p.positionMultiplier <= PRECISE_UNIT => convertVirtualToRealUnit(p, v) >= u - 1
  BY <1>2, RoundTripConservative, RoundTripLosesOne
     DEF convertVirtualToRealUnit, convertRealToVirtualUnit
<1> HIDE DEF r, v
<1>8. getDefaultPositionRealUnit(r, c) = convertVirtualToRealUnit(p, v)
  BY <1>2, <1>5 DEF getDefaultPositionRealUnit, convertVirtualToRealUnit
<1>9. \A x \in Component \ {c} :
        getDefaultPositionRealUnit(r, x) = getDefaultPositionRealUnit(p, x)
  BY <1>2, <1>5 DEF getDefaultPositionRealUnit, convertVirtualToRealUnit
<1> QED BY <1>5, <1>6, <1>7, <1>8, <1>9 DEF r

\* The unit that a balance moving from pre to cur leaves: what was tracked moves along, and at
\* most one unit is lost in the conversion; nothing is left of an empty balance.
FollowsBalance(S, oldUnit, pre, cur, newUnit) ==
    LET tracked == preciseMul(S, oldUnit) + cur - pre
    IN  IF cur = 0 THEN newUnit = 0
        ELSE /\ S # 0 /\ tracked \in Nat
             /\ preciseDiv(tracked, S) - 1 <= newUnit /\ newUnit <= preciseDiv(tracked, S)

\* calculateAndEditDefaultPosition never gives a component a unit that its new balance
\* does not back, however its balance changed and whatever was untracked before.
LEMMA EditedToBalance ==
    ASSUME NEW p, PositionInv(p), NEW c \in Component, NEW S \in Nat,
           NEW pre \in Nat, NEW cur \in Nat,
           calculateAndEditDefaultPositionOK(p, c, S, pre, cur)
    PROVE  LET r == calculateAndEditDefaultPosition(p, c, S, pre, cur)
               R(q, z) == getDefaultPositionRealUnit(q, z)
           IN  /\ PositionInv(r)
               /\ S * R(r, c) <= PRECISE_UNIT * cur
               /\ \A x \in Component \ {c} : R(r, x) = R(p, x)
               /\ r.positionMultiplier = p.positionMultiplier
               /\ p.positionMultiplier <= PRECISE_UNIT => FollowsBalance(S, R(p, c), pre, cur, R(r, c))
<1> DEFINE R(q, z) == getDefaultPositionRealUnit(q, z)
           u == R(p, c)
           untracked == AirdroppedAmount(S, pre, u)
           newUnit == IF cur > 0 THEN calculateDefaultEditPositionUnit(S, pre, cur, u) ELSE 0
           r == editDefaultPosition(p, c, newUnit)
<1>1. PRECISE_UNIT \in Int /\ PRECISE_UNIT > 0
  BY PreciseUnitAssumption
<1>2. u \in Nat
  BY RealUnits
<1>3. r = calculateAndEditDefaultPosition(p, c, S, pre, cur)
  BY DEF calculateAndEditDefaultPosition
<1>4. cur > 0 => /\ S # 0 /\ preciseMul(S, u) + cur - pre \in Nat
                 /\ preciseMul(S, u) + cur - pre <= cur
                 /\ newUnit = preciseDiv(preciseMul(S, u) + cur - pre, S)
  <2>1. SUFFICES ASSUME cur > 0
        PROVE /\ S # 0 /\ preciseMul(S, u) + cur - pre \in Nat
              /\ preciseMul(S, u) + cur - pre <= cur
              /\ newUnit = preciseDiv(preciseMul(S, u) + cur - pre, S)
    OBVIOUS
  <2>2. calculateDefaultEditPositionUnitOK(S, pre, cur, u)
    BY <2>1 DEF calculateAndEditDefaultPositionOK
  <2>3. 0 <= untracked /\ untracked <= cur /\ S # 0
    BY <2>2 DEF calculateDefaultEditPositionUnitOK
  <2>4. preciseMul(u, S) = preciseMul(S, u) /\ preciseMul(S, u) \in Nat
    <3>1. u * S = S * u
      BY <1>2
    <3> QED BY <1>2, <3>1, MulIsBelow DEF preciseMul
  <2>5. untracked = pre - preciseMul(S, u)
    BY <2>4 DEF AirdroppedAmount
  <2>6. newUnit = preciseDiv(cur - untracked, S)
    BY <2>1 DEF calculateDefaultEditPositionUnit
  <2> HIDE DEF untracked, newUnit, u
  <2>7. cur - untracked = preciseMul(S, u) + cur - pre /\ cur - untracked \in Nat
        /\ cur - untracked <= cur
    BY <2>3, <2>4, <2>5
  <2> QED BY <2>3, <2>6, <2>7
<1>5. ~ (cur > 0) => newUnit = 0
  OBVIOUS
<1>6. editDefaultPositionOK(p, c, newUnit)
  BY DEF calculateAndEditDefaultPositionOK
<1> HIDE DEF newUnit, untracked, u
<1>7. newUnit \in Nat /\ S * newUnit <= PRECISE_UNIT * cur
  <2>1. CASE cur > 0
    <3>1. PICK n \in Nat : n = preciseMul(S, u) + cur - pre /\ n <= cur
      BY <1>4, <2>1
    <3>2. newUnit \in Nat /\ S * newUnit <= PRECISE_UNIT * n
      BY <1>4, <2>1, <3>1, DivIsBelow
    <3>3. PRECISE_UNIT * n <= PRECISE_UNIT * cur
      BY <3>1, MoreTokens
    <3>4. S * newUnit \in Int /\ PRECISE_UNIT * n \in Int /\ PRECISE_UNIT * cur \in Int
      BY <1>1, <3>1, <3>2
    <3> QED BY <3>2, <3>3, <3>4
  <2>2. CASE ~ (cur > 0)
    BY <1>1, <1>5, <2>2
  <2> QED BY <2>1, <2>2
<1>8. /\ PositionInv(r)
      /\ r.positionMultiplier = p.positionMultiplier
      /\ R(r, c) <= newUnit
      /\ p.positionMultiplier <= PRECISE_UNIT => R(r, c) >= newUnit - 1
      /\ \A x \in Component \ {c} : R(r, x) = R(p, x)
  BY <1>6, <1>7, UnitsAfterEdit
<1> HIDE DEF r
<1>9. R(r, c) \in Nat
  BY <1>8, RealUnits
<1> HIDE DEF R
<1>10. S * R(r, c) <= PRECISE_UNIT * cur
  <2>1. S * R(r, c) <= S * newUnit
    BY <1>7, <1>8, <1>9
  <2> QED BY <1>1, <1>7, <1>9, <2>1
<1>11. p.positionMultiplier <= PRECISE_UNIT => FollowsBalance(S, u, pre, cur, R(r, c))
  BY <1>4, <1>5, <1>7, <1>8, <1>9 DEF FollowsBalance
<1> QED BY <1>3, <1>8, <1>10, <1>11 DEF R, u

-----------------------------------------------------------------------------
(* The invariant and the steps that keep it.                                *)

\* For component c, B tokens back S sets.
Backs(p, c, S, B) == S * getDefaultPositionRealUnit(p, c) <= PRECISE_UNIT * B

\* Collateralized without its rounding, which makes it inductive, on top of positions that
\* can be read back.
IInv ==
    /\ PositionInv(pos)
    /\ totalSupply \in Nat
    /\ balance \in [Component -> Nat]
    /\ \A c \in Component : Backs(pos, c, totalSupply, balance[c])

\* The invariant's form that divides is the property the runs check.
LEMMA IInvCollateralized == IInv => Collateralized
<1> SUFFICES ASSUME IInv, NEW c \in Component
             PROVE  preciseMulCeil(totalSupply, unit(c)) <= balance[c]
  BY DEF Collateralized
<1>1. unit(c) \in Nat /\ totalSupply \in Nat /\ balance[c] \in Nat
  BY RealUnits DEF IInv, unit
<1>2. totalSupply * unit(c) <= PRECISE_UNIT * balance[c]
  BY DEF IInv, Backs, unit
<1> QED BY <1>1, <1>2, MulCeilIsLeast

\* A new set has no supply, and positions that can be read back.
LEMMA InitIInv == Init => IInv
<1> SUFFICES ASSUME Init PROVE IInv
  OBVIOUS
<1>1. PICK components \in ComponentLists, units \in [Component -> InitialUnit] :
        ~ hasDuplicate(components) /\ pos = InitialPositions(components, units)
  BY DEF Init
<1>2. components \in Seq(Component)
  BY IssuanceAssumption, ComponentListsAreSequences
<1>3. units \in [Component -> {u \in Int : u > 0}]
  <2>1. InitialUnit \subseteq Nat \ {0}
    BY IssuanceAssumption
  <2>2. ASSUME NEW n \in InitialUnit PROVE n \in {u \in Int : u > 0}
    BY <2>1
  <2>3. InitialUnit \subseteq {u \in Int : u > 0}
    BY <2>2
  <2> QED BY Zenon, <2>3
<1>4. PositionInv(pos)
  BY <1>1, <1>2, <1>3, InitialPositionsInv
<1>5. totalSupply = 0 /\ balance = [c \in Component |-> 0]
  BY DEF Init
<1>6. ASSUME NEW c \in Component PROVE Backs(pos, c, totalSupply, balance[c])
  <2>1. getDefaultPositionRealUnit(pos, c) \in Nat
    BY <1>4, RealUnits
  <2> QED BY <1>5, <2>1, PreciseUnitAssumption DEF Backs
<1> QED BY <1>4, <1>5, <1>6 DEF IInv

\* What the equity of an issue or a redemption is worth.
LEMMA Equity ==
    ASSUME IInv, NEW c \in Component, NEW q \in Nat
    PROVE  LET in == calculateRequiredComponentIssuanceUnits(pos, q, TRUE)[c]
               out == calculateRequiredComponentIssuanceUnits(pos, q, FALSE)[c]
           IN  /\ in \in Nat /\ out \in Nat /\ unit(c) \in Nat
               /\ q * unit(c) <= PRECISE_UNIT * in
               /\ PRECISE_UNIT * out <= q * unit(c)
<1>1. unit(c) \in Nat /\ (~ isComponent(pos, c) => unit(c) = 0)
  BY RealUnits DEF IInv, unit
<1>2. PRECISE_UNIT \in Int
  BY PreciseUnitAssumption
<1>3. q * unit(c) = unit(c) * q
  BY <1>1
<1>4. CASE isComponent(pos, c)
  <2>1. /\ calculateRequiredComponentIssuanceUnits(pos, q, TRUE)[c] = preciseMulCeil(unit(c), q)
        /\ calculateRequiredComponentIssuanceUnits(pos, q, FALSE)[c] = preciseMul(unit(c), q)
    BY <1>4 DEF calculateRequiredComponentIssuanceUnits, unit
  <2> QED BY <1>1, <1>3, <2>1, MulIsBelow, MulCeilIsAbove
<1>5. CASE ~ isComponent(pos, c)
  <2>1. /\ calculateRequiredComponentIssuanceUnits(pos, q, TRUE)[c] = 0
        /\ calculateRequiredComponentIssuanceUnits(pos, q, FALSE)[c] = 0
    BY <1>5 DEF calculateRequiredComponentIssuanceUnits
  <2>2. unit(c) = 0
    BY <1>1, <1>5
  <2>3. q * 0 = 0 /\ PRECISE_UNIT * 0 = 0 /\ 0 <= 0 /\ 0 \in Nat
    BY <1>2
  <2> QED BY Zenon, <2>1, <2>2, <2>3
<1> QED BY <1>4, <1>5

\* A step that leaves the positions alone needs only a new supply and balances that back it.
LEMMA SamePositions ==
    ASSUME IInv, UNCHANGED pos, totalSupply' \in Nat, balance' \in [Component -> Nat],
           \A c \in Component : totalSupply' * unit(c) <= PRECISE_UNIT * balance'[c]
    PROVE  IInv'
BY Zenon DEF IInv, Backs, unit

\* BasicIssuanceModule.issue brings in each component rounded up.
LEMMA BasicIssueKeepsIInv ==
    ASSUME IInv, NEW q \in Quantity, BasicIssue(q)
    PROVE  IInv'
<1> DEFINE in == getRequiredComponentUnitsForIssue(q)
<1>1. q \in Nat /\ totalSupply \in Nat /\ balance \in [Component -> Nat]
  BY IssuanceAssumption DEF IInv
<1>2. ASSUME NEW c \in Component
      PROVE  /\ in[c] = calculateRequiredComponentIssuanceUnits(pos, q, TRUE)[c]
             /\ in[c] \in Nat
             /\ (totalSupply + q) * unit(c) <= PRECISE_UNIT * (balance[c] + in[c])
  <2>1. in[c] = calculateRequiredComponentIssuanceUnits(pos, q, TRUE)[c]
    BY DEF getRequiredComponentUnitsForIssue, calculateRequiredComponentIssuanceUnits, unit
  <2>2. in[c] \in Nat /\ unit(c) \in Nat /\ q * unit(c) <= PRECISE_UNIT * in[c]
    BY <1>1, <2>1, Equity
  <2>3. totalSupply * unit(c) <= PRECISE_UNIT * balance[c] /\ balance[c] \in Int
    BY <1>1 DEF IInv, Backs, unit
  <2> HIDE DEF in
  <2>4. in[c] \in Int
    BY <2>2
  <2> QED BY Zenon, <1>1, <2>1, <2>2, <2>3, <2>4, Minted
<1>3. /\ totalSupply' = totalSupply + q /\ UNCHANGED pos
      /\ balance' = [c \in Component |-> balance[c] + in[c]]
  BY DEF BasicIssue
<1> HIDE DEF in
<1>4. totalSupply' \in Nat /\ balance' \in [Component -> Nat]
  <2>1. \A c \in Component : in[c] \in Nat
    BY <1>2
  <2> QED BY <1>1, <1>3, <2>1
<1>5. \A c \in Component : totalSupply' * unit(c) <= PRECISE_UNIT * balance'[c]
  BY <1>2, <1>3
<1> QED BY <1>3, <1>4, <1>5, SamePositions

\* BasicIssuanceModule.redeem sends out each component rounded down.
LEMMA BasicRedeemKeepsIInv ==
    ASSUME IInv, NEW q \in Quantity, BasicRedeem(q)
    PROVE  IInv'
<1> DEFINE out == [c \in Component |->
                     IF isComponent(pos, c) THEN preciseMul(q, unit(c)) ELSE 0]
<1>1. q \in Nat /\ totalSupply \in Nat /\ balance \in [Component -> Nat]
  BY IssuanceAssumption DEF IInv
<1>2. /\ q <= totalSupply /\ totalSupply' = totalSupply - q /\ UNCHANGED pos
      /\ \A c \in Component : out[c] <= balance[c]
      /\ balance' = [c \in Component |-> balance[c] - out[c]]
  BY DEF BasicRedeem
<1>3. ASSUME NEW c \in Component
      PROVE  /\ out[c] \in Nat
             /\ (totalSupply - q) * unit(c) <= PRECISE_UNIT * (balance[c] - out[c])
  <2>1. unit(c) \in Nat
    BY RealUnits DEF IInv, unit
  <2>2. out[c] \in Nat /\ PRECISE_UNIT * out[c] <= q * unit(c)
    <3>1. CASE isComponent(pos, c)
      BY <1>1, <2>1, <3>1, MulIsBelow
    <3>2. CASE ~ isComponent(pos, c)
      BY <1>1, <2>1, <3>2, PreciseUnitAssumption
    <3> QED BY <3>1, <3>2
  <2>3. totalSupply * unit(c) <= PRECISE_UNIT * balance[c] /\ balance[c] \in Int
    BY <1>1 DEF IInv, Backs, unit
  <2> HIDE DEF out
  <2>4. out[c] \in Int
    BY <2>2
  <2> QED BY Zenon, <1>1, <2>1, <2>2, <2>3, <2>4, Burned
<1> HIDE DEF out
<1>4. totalSupply' \in Nat /\ balance' \in [Component -> Nat]
  BY <1>1, <1>2, <1>3
<1>5. \A c \in Component : totalSupply' * unit(c) <= PRECISE_UNIT * balance'[c]
  BY <1>2, <1>3
<1> QED BY <1>2, <1>4, <1>5, SamePositions

\* The sets minted as fees are no more than the fee that was charged.
LEMMA FeesMinted ==
    ASSUME NEW q \in Nat, NEW f \in Nat, NEW s \in Nat,
           calculateTotalFeesOK(calculateTotalFees(q, f, s))
    PROVE  LET fee == calculateTotalFees(q, f, s)
           IN  /\ fee.totalFee \in Nat /\ resolveFees(fee) \in Nat
               /\ resolveFees(fee) <= fee.totalFee
<1> DEFINE fee == calculateTotalFees(q, f, s)
<1>1. fee.totalFee \in Nat
  BY MulIsBelow DEF calculateTotalFees
<1>2. resolveFees(fee) = 0 \/ resolveFees(fee) = fee.totalFee
  BY Zenon DEF resolveFees
<1> HIDE DEF fee
<1>3. resolveFees(fee) \in Nat /\ resolveFees(fee) <= fee.totalFee
  BY <1>1, <1>2
<1> QED BY <1>1, <1>3 DEF fee

\* DebtIssuanceModule.issue: V1 takes exactly what is owed, V2 and V3 check what is there.
LEMMA IssueKeepsIInv ==
    ASSUME IInv, NEW v \in Version, NEW q \in Quantity, NEW f \in FeeRate, NEW s \in FeeRate,
           NEW l \in Loss, Issue(v, q, f, s, l)
    PROVE  IInv'
<1> DEFINE fee == calculateTotalFees(q, f, s)
           equity == calculateRequiredComponentIssuanceUnits(pos, q + fee.totalFee, TRUE)
           newBalance == transferredIn(v, q + fee.totalFee, l)
<1>1. /\ q \in Nat /\ f \in Nat /\ s \in Nat /\ l \in Nat
      /\ totalSupply \in Nat /\ balance \in [Component -> Nat]
  BY IssuanceAssumption DEF IInv
<1>2. /\ issueOK(v, q, fee, l) /\ balance' = newBalance /\ UNCHANGED pos
      /\ totalSupply' = totalSupply + resolveFees(fee) + q
  BY DEF Issue
<1>3. /\ calculateTotalFeesOK(fee)
      /\ v = "V1" => l = 0
      /\ v # "V1" => \A c \in Component : equity[c] > 0 =>
           newBalance[c] >= preciseMulCeil(totalSupply, unit(c)) + equity[c]
  BY <1>2 DEF issueOK, transferOK, validateCollateralizationPostTransferInPreHook, unit
<1>4. fee.totalFee \in Nat /\ resolveFees(fee) \in Nat /\ resolveFees(fee) <= fee.totalFee
  BY <1>1, <1>3, FeesMinted
<1>5. newBalance = [c \in Component |-> balance[c] +
                      (IF equity[c] > 0 THEN equity[c] + transferBuffer(v) - l ELSE 0)]
  BY DEF transferredIn
<1> HIDE DEF fee, newBalance
<1>6. ASSUME NEW c \in Component
      PROVE  /\ newBalance[c] \in Nat
             /\ (totalSupply + resolveFees(fee) + q) * unit(c) <= PRECISE_UNIT * newBalance[c]
  <2>1. q + fee.totalFee \in Nat
    BY <1>1, <1>4
  <2>2. /\ equity[c] \in Nat /\ unit(c) \in Nat
        /\ (q + fee.totalFee) * unit(c) <= PRECISE_UNIT * equity[c]
    BY <2>1, Equity
  <2>3. totalSupply * unit(c) <= PRECISE_UNIT * balance[c] /\ balance[c] \in Nat
    BY <1>1 DEF IInv, Backs, unit
  <2>4. newBalance[c] = balance[c] +
                      (IF equity[c] > 0 THEN equity[c] + transferBuffer(v) - l ELSE 0)
    BY <1>5
  <2> HIDE DEF equity
  <2>5. transferBuffer(v) \in Nat /\ (v = "V1" => transferBuffer(v) = 0)
    BY IssuanceAssumption DEF transferBuffer
  <2>6. PICK B \in Nat : /\ totalSupply * unit(c) <= PRECISE_UNIT * B
                         /\ newBalance[c] \in Int /\ newBalance[c] >= B + equity[c]
    <3>1. CASE v = "V1" \/ ~ (equity[c] > 0)
      BY <1>1, <1>3, <2>2, <2>3, <2>4, <2>5, <3>1
    <3>2. CASE v # "V1" /\ equity[c] > 0
      <4>1. /\ preciseMulCeil(totalSupply, unit(c)) \in Nat
            /\ totalSupply * unit(c) <= PRECISE_UNIT * preciseMulCeil(totalSupply, unit(c))
        BY <1>1, <2>2, MulCeilIsAbove
      <4>2. newBalance[c] >= preciseMulCeil(totalSupply, unit(c)) + equity[c]
        BY <1>3, <3>2
      <4>3. newBalance[c] \in Int
        BY <1>1, <2>2, <2>3, <2>4, <2>5, <3>2
      <4> QED BY <4>1, <4>2, <4>3
    <3> QED BY <3>1, <3>2
  <2>7. (totalSupply + (q + fee.totalFee)) * unit(c) <= PRECISE_UNIT * (B + equity[c])
    <3>1. B \in Int /\ equity[c] \in Int
      BY <2>2
    <3> QED BY Zenon, <1>1, <2>1, <2>2, <2>6, <3>1, Minted
  <2>8. PRECISE_UNIT * (B + equity[c]) <= PRECISE_UNIT * newBalance[c]
    BY <2>2, <2>6, MoreTokens
  <2>9. (totalSupply + resolveFees(fee) + q) * unit(c) <= (totalSupply + (q + fee.totalFee)) * unit(c)
    BY <1>1, <1>4, <2>2, Fewer
  <2>10. /\ (totalSupply + (q + fee.totalFee)) * unit(c) \in Int
         /\ (totalSupply + resolveFees(fee) + q) * unit(c) \in Int
         /\ PRECISE_UNIT * (B + equity[c]) \in Int /\ PRECISE_UNIT * newBalance[c] \in Int
    BY <1>1, <1>4, <2>2, <2>6, PreciseUnitAssumption
  <2> QED BY <2>2, <2>6, <2>7, <2>8, <2>9, <2>10
<1>7. totalSupply' \in Nat
  BY <1>1, <1>2, <1>4
<1>8. balance' \in [Component -> Nat]
  BY <1>2, <1>5, <1>6
<1>9. \A c \in Component : totalSupply' * unit(c) <= PRECISE_UNIT * balance'[c]
  BY <1>2, <1>6
<1> QED BY <1>2, <1>7, <1>8, <1>9, SamePositions

\* DebtIssuanceModule.redeem: V1 sends exactly what is owed, V2 and V3 check what is left.
LEMMA RedeemKeepsIInv ==
    ASSUME IInv, NEW v \in Version, NEW q \in Quantity, NEW f \in FeeRate, NEW s \in FeeRate,
           NEW l \in Loss, Redeem(v, q, f, s, l)
    PROVE  IInv'
<1> DEFINE fee == calculateTotalFees(q, f, s)
           net == q - fee.totalFee
           equity == calculateRequiredComponentIssuanceUnits(pos, net, FALSE)
           out == transferredOut(v, net)
           newBalance == balanceAfterRedeem(v, net, l)
<1>1. /\ q \in Nat /\ f \in Nat /\ s \in Nat /\ l \in Nat
      /\ totalSupply \in Nat /\ balance \in [Component -> Nat]
  BY IssuanceAssumption DEF IInv
<1>2. /\ redeemOK(v, q, fee, l) /\ balance' = newBalance /\ UNCHANGED pos
      /\ totalSupply' = totalSupply - q + resolveFees(fee)
  BY DEF Redeem
<1>3. /\ calculateTotalFeesOK(fee) /\ q <= totalSupply /\ net >= 0
      /\ v = "V1" => l = 0
      /\ \A c \in Component : 0 <= out[c] /\ 0 <= newBalance[c]
      /\ v # "V1" => \A c \in Component : equity[c] > 0 =>
           newBalance[c] >= preciseMulCeil(totalSupply - net, unit(c))
  BY <1>2 DEF redeemOK, transferOK, validateCollateralizationPostTransferOut, unit
<1>4. fee.totalFee \in Nat /\ resolveFees(fee) \in Nat /\ resolveFees(fee) <= fee.totalFee
  BY <1>1, <1>3, FeesMinted
<1>5. newBalance = [c \in Component |-> IF out[c] > 0 THEN balance[c] - out[c] - l ELSE balance[c]]
  BY DEF balanceAfterRedeem
<1>6. out = [c \in Component |-> IF equity[c] > 0 THEN equity[c] - transferBuffer(v) ELSE 0]
  BY DEF transferredOut
<1>7. PICK n \in Nat : n = net /\ totalSupply - n \in Nat /\ totalSupply' <= totalSupply - n
  BY <1>1, <1>2, <1>3, <1>4
<1>8. totalSupply' \in Nat
  BY <1>1, <1>2, <1>3, <1>4
<1> HIDE DEF fee, newBalance, out, net
<1>9. ASSUME NEW c \in Component
      PROVE  newBalance[c] \in Nat /\ totalSupply' * unit(c) <= PRECISE_UNIT * newBalance[c]
  <2>1. /\ equity[c] \in Nat /\ unit(c) \in Nat
        /\ PRECISE_UNIT * equity[c] <= n * unit(c)
    BY <1>7, Equity
  <2>2. totalSupply * unit(c) <= PRECISE_UNIT * balance[c] /\ balance[c] \in Nat
    BY <1>1 DEF IInv, Backs, unit
  <2>3. /\ newBalance[c] = IF out[c] > 0 THEN balance[c] - out[c] - l ELSE balance[c]
        /\ out[c] = IF equity[c] > 0 THEN equity[c] - transferBuffer(v) ELSE 0
    BY <1>5, <1>6
  <2>4. /\ v # "V1" /\ equity[c] > 0 => newBalance[c] >= preciseMulCeil(totalSupply - n, unit(c))
        /\ 0 <= newBalance[c]
    BY <1>3, <1>7
  <2> HIDE DEF equity
  <2>5. transferBuffer(v) \in Nat /\ (v = "V1" => transferBuffer(v) = 0)
    BY IssuanceAssumption DEF transferBuffer
  <2>6. newBalance[c] \in Nat
    BY <1>1, <2>1, <2>2, <2>3, <2>4, <2>5
  <2>7. (totalSupply - n) * unit(c) <= PRECISE_UNIT * newBalance[c]
    <3>1. CASE v = "V1" \/ ~ (equity[c] > 0)
      <4>1. newBalance[c] = balance[c] - equity[c]
        BY <1>1, <1>3, <2>1, <2>2, <2>3, <2>5, <3>1
      <4>2. balance[c] \in Int /\ equity[c] \in Int
        BY <2>1, <2>2
      <4>3. (totalSupply - n) * unit(c) <= PRECISE_UNIT * (balance[c] - equity[c])
        BY Zenon, <1>1, <1>7, <2>1, <2>2, <4>2, Burned
      <4> QED BY Zenon, <4>1, <4>3
    <3>2. CASE v # "V1" /\ equity[c] > 0
      <4>1. /\ preciseMulCeil(totalSupply - n, unit(c)) \in Nat
            /\ (totalSupply - n) * unit(c) <= PRECISE_UNIT * preciseMulCeil(totalSupply - n, unit(c))
        BY <1>7, <2>1, MulCeilIsAbove
      <4>2. PRECISE_UNIT * preciseMulCeil(totalSupply - n, unit(c)) <= PRECISE_UNIT * newBalance[c]
        BY <2>4, <2>6, <3>2, <4>1, MoreTokens
      <4>3. /\ (totalSupply - n) * unit(c) \in Int /\ PRECISE_UNIT * newBalance[c] \in Int
            /\ PRECISE_UNIT * preciseMulCeil(totalSupply - n, unit(c)) \in Int
        BY <1>7, <2>1, <2>6, <4>1, PreciseUnitAssumption
      <4> QED BY <4>1, <4>2, <4>3
    <3> QED BY <3>1, <3>2
  <2>8. totalSupply' * unit(c) <= (totalSupply - n) * unit(c)
    BY <1>7, <1>8, <2>1, Fewer
  <2>9. /\ totalSupply' * unit(c) \in Int /\ (totalSupply - n) * unit(c) \in Int
        /\ PRECISE_UNIT * newBalance[c] \in Int
    BY <1>7, <1>8, <2>1, <2>6, PreciseUnitAssumption
  <2> QED BY <2>6, <2>7, <2>8, <2>9
<1>10. balance' \in [Component -> Nat]
  BY <1>2, <1>5, <1>9
<1>11. \A c \in Component : totalSupply' * unit(c) <= PRECISE_UNIT * balance'[c]
  BY <1>2, <1>9
<1> QED BY <1>2, <1>8, <1>10, <1>11, SamePositions

\* Tokens sent to the set's address only add to what backs it.
LEMMA GiftKeepsIInv ==
    ASSUME IInv, NEW d \in Component, NEW n \in TokenAmount, Gift(d, n)
    PROVE  IInv'
<1>1. n \in Nat /\ totalSupply \in Nat /\ balance \in [Component -> Nat]
  BY IssuanceAssumption DEF IInv
<1>2. UNCHANGED <<pos, totalSupply>> /\ balance' = [balance EXCEPT ![d] = @ + n]
  BY DEF Gift
<1>3. balance' \in [Component -> Nat]
  BY <1>1, <1>2
<1>4. ASSUME NEW c \in Component
      PROVE  totalSupply * unit(c) <= PRECISE_UNIT * balance'[c]
  <2>1. unit(c) \in Nat /\ totalSupply * unit(c) <= PRECISE_UNIT * balance[c]
    BY RealUnits DEF IInv, Backs, unit
  <2>2. balance[c] \in Int /\ balance'[c] \in Int /\ balance[c] <= balance'[c]
    BY <1>1, <1>2
  <2>3. PRECISE_UNIT * balance[c] <= PRECISE_UNIT * balance'[c]
    BY <2>2, MoreTokens
  <2>4. /\ totalSupply * unit(c) \in Int /\ PRECISE_UNIT * balance[c] \in Int
        /\ PRECISE_UNIT * balance'[c] \in Int
    BY <1>1, <2>1, <2>2, PreciseUnitAssumption
  <2> QED BY <2>1, <2>3, <2>4
<1> QED BY <1>1, <1>2, <1>3, <1>4, SamePositions

\* A step that edits positions but not the supply.
LEMMA EditedPositions ==
    ASSUME IInv, PositionInv(pos'), UNCHANGED totalSupply, balance' \in [Component -> Nat],
           \A c \in Component :
             totalSupply * getDefaultPositionRealUnit(pos', c) <= PRECISE_UNIT * balance'[c]
    PROVE  IInv'
<1>1. totalSupply' = totalSupply /\ totalSupply \in Nat
  BY DEF IInv
<1>2. \A c \in Component : Backs(pos', c, totalSupply', balance'[c])
  BY <1>1 DEF Backs
<1> QED BY <1>1, <1>2 DEF IInv

\* What every trade ends with: the token sent and the token received each get the position
\* their new balance backs.
LEMMA TradedPositions ==
    ASSUME IInv, NEW s \in Component, NEW r \in Component, NEW new \in [Component -> Nat],
           \A z \in Component \ {s, r} : new[z] = balance[z],
           calculateAndEditDefaultPositionOK(pos, s, totalSupply, balance[s], new[s]),
           calculateAndEditDefaultPositionOK(
             calculateAndEditDefaultPosition(pos, s, totalSupply, balance[s], new[s]),
             r, totalSupply, balance[r], new[r]),
           pos' = calculateAndEditDefaultPosition(
             calculateAndEditDefaultPosition(pos, s, totalSupply, balance[s], new[s]),
             r, totalSupply, balance[r], new[r]),
           balance' = new, UNCHANGED totalSupply
    PROVE  /\ IInv'
           /\ pos'.positionMultiplier = pos.positionMultiplier
           /\ s # r /\ pos.positionMultiplier <= PRECISE_UNIT =>
                \A z \in {s, r} : FollowsBalance(totalSupply, unit(z), balance[z], new[z], unit(z)')
<1> DEFINE afterSend == calculateAndEditDefaultPosition(pos, s, totalSupply, balance[s], new[s])
           R(p, z) == getDefaultPositionRealUnit(p, z)
<1>1. totalSupply \in Nat /\ balance \in [Component -> Nat] /\ PositionInv(pos)
  BY DEF IInv
<1>2. /\ PositionInv(afterSend)
      /\ totalSupply * R(afterSend, s) <= PRECISE_UNIT * new[s]
      /\ \A z \in Component \ {s} : R(afterSend, z) = R(pos, z)
      /\ afterSend.positionMultiplier = pos.positionMultiplier
      /\ pos.positionMultiplier <= PRECISE_UNIT =>
           FollowsBalance(totalSupply, R(pos, s), balance[s], new[s], R(afterSend, s))
  BY <1>1, EditedToBalance
<1> HIDE DEF afterSend
<1>3. /\ PositionInv(pos')
      /\ totalSupply * R(pos', r) <= PRECISE_UNIT * new[r]
      /\ \A z \in Component \ {r} : R(pos', z) = R(afterSend, z)
      /\ pos'.positionMultiplier = afterSend.positionMultiplier
      /\ afterSend.positionMultiplier <= PRECISE_UNIT =>
           FollowsBalance(totalSupply, R(afterSend, r), balance[r], new[r], R(pos', r))
  BY <1>1, <1>2, EditedToBalance DEF afterSend
<1>4. ASSUME NEW z \in Component
      PROVE  totalSupply * R(pos', z) <= PRECISE_UNIT * new[z]
  <2>1. CASE z = r
    BY <1>3, <2>1
  <2>2. CASE z = s /\ z # r
    BY <1>2, <1>3, <2>2
  <2>3. CASE z # s /\ z # r
    <3>1. R(pos', z) = R(pos, z) /\ new[z] = balance[z]
      BY <1>2, <1>3, <2>3
    <3>2. totalSupply * R(pos, z) <= PRECISE_UNIT * balance[z]
      BY DEF IInv, Backs
    <3> QED BY <3>1, <3>2
  <2> QED BY <2>1, <2>2, <2>3
<1>5. ASSUME s # r, pos.positionMultiplier <= PRECISE_UNIT, NEW z \in {s, r}
      PROVE  FollowsBalance(totalSupply, unit(z), balance[z], new[z], unit(z)')
  <2>1. CASE z = s
    BY <1>2, <1>3, <1>5, <2>1 DEF unit
  <2>2. CASE z = r
    BY <1>2, <1>3, <1>5, <2>2 DEF unit
  <2> QED BY <1>5, <2>1, <2>2
<1>6. IInv'
  BY <1>3, <1>4, EditedPositions
<1> QED BY <1>2, <1>3, <1>5, <1>6

\* TradeModule.trade sets each of the two positions to what its new balance backs.
LEMMA TradeKeepsIInv ==
    ASSUME IInv, NEW c \in Component, NEW d \in Component,
           NEW x \in TradeUnit, NEW y \in TradeUnit,
           NEW sent \in TokenAmount, NEW received \in TokenAmount, NEW f \in FeeRate,
           Trade(c, x, sent, d, y, received, f)
    PROVE  IInv'
<1> DEFINE postTrade == [balance EXCEPT ![c] = @ - sent, ![d] = @ + received]
           exchanged == postTrade[d] - balance[d]
           new == [postTrade EXCEPT ![d] = @ - preciseMul(exchanged, f)]
           afterSend == calculateAndEditDefaultPosition(pos, c, totalSupply, balance[c], new[c])
<1>1. /\ sent \in Nat /\ received \in Nat /\ f \in Nat
      /\ totalSupply \in Nat /\ balance \in [Component -> Nat] /\ PositionInv(pos)
  BY IssuanceAssumption DEF IInv
<1>2. /\ sent <= balance[c] /\ exchanged >= 0
      /\ calculateAndEditDefaultPositionOK(pos, c, totalSupply, balance[c], new[c])
      /\ calculateAndEditDefaultPositionOK(afterSend, d, totalSupply, balance[d], new[d])
      /\ new[d] >= balance[d]
      /\ pos' = calculateAndEditDefaultPosition(afterSend, d, totalSupply, balance[d], new[d])
      /\ balance' = new /\ UNCHANGED totalSupply
  BY DEF Trade
<1>3. exchanged \in Nat
  BY <1>1, <1>2
<1>4. preciseMul(exchanged, f) \in Nat
  BY <1>1, <1>3, MulIsBelow
<1>5. /\ new \in [Component -> Int]
      /\ new[c] \in Nat /\ new[d] \in Nat
      /\ \A z \in Component \ {c, d} : new[z] = balance[z]
  <2>1. postTrade \in [Component -> Int]
    BY <1>1
  <2>2. c # d => postTrade[c] = balance[c] - sent
    BY <1>1
  <2>3. \A z \in Component \ {c, d} : postTrade[z] = balance[z]
    BY <1>1
  <2> HIDE DEF postTrade, exchanged
  <2>4. new \in [Component -> Int]
    BY <1>4, <2>1
  <2>5. new[d] \in Nat
    BY <1>1, <1>2, <2>4
  <2>6. new[c] \in Nat
    <3>1. c # d => new[c] = balance[c] - sent
      BY <2>1, <2>2
    <3> HIDE DEF new
    <3> QED BY <1>1, <1>2, <2>5, <3>1
  <2>7. \A z \in Component \ {c, d} : new[z] = balance[z]
    BY <2>1, <2>3
  <2> QED BY <2>4, <2>5, <2>6, <2>7
<1> HIDE DEF postTrade, exchanged, new
<1>6. new \in [Component -> Nat]
  <2>1. \A z \in Component : new[z] \in Nat
    BY <1>1, <1>5
  <2> QED BY <1>5, <2>1
<1> QED BY <1>2, <1>5, <1>6, TradedPositions

\* AirdropModule.absorb sets the position to what the balance, less the fees, backs.
LEMMA AbsorbKeepsIInv ==
    ASSUME IInv, NEW c \in Component, NEW f \in FeeRate, NEW s \in FeeRate, Absorb(c, f, s)
    PROVE  IInv'
<1> DEFINE amount == balance[c] - getDefaultTrackedBalance(pos, totalSupply, c)
           fees == preciseMul(amount, f)
           kept == balance[c] - fees
           newUnit == getDefaultPositionUnit(totalSupply, kept)
           R(p, z) == getDefaultPositionRealUnit(p, z)
<1>1. /\ f \in Nat /\ totalSupply \in Nat /\ balance \in [Component -> Nat]
      /\ PositionInv(pos) /\ PRECISE_UNIT \in Nat /\ PRECISE_UNIT > 0
  BY IssuanceAssumption, PreciseUnitAssumption DEF IInv
<1>2. /\ f <= PRECISE_UNIT /\ amount > 0 /\ totalSupply # 0
      /\ editDefaultPositionOK(pos, c, newUnit)
      /\ pos' = editDefaultPosition(pos, c, newUnit)
      /\ balance' = [balance EXCEPT ![c] = kept]
      /\ UNCHANGED totalSupply
  BY <1>1 DEF Absorb
<1>3. getDefaultTrackedBalance(pos, totalSupply, c) \in Nat
  <2>1. R(pos, c) \in Nat
    BY <1>1, RealUnits
  <2> QED BY <1>1, <2>1, MulIsBelow DEF getDefaultTrackedBalance
<1>4. amount \in Nat /\ amount <= balance[c]
  BY <1>1, <1>2, <1>3
<1> HIDE DEF amount
<1>5. fees \in Nat /\ fees <= amount
  <2>1. fees \in Nat /\ PRECISE_UNIT * fees <= amount * f
    BY <1>1, <1>4, MulIsBelow
  <2>2. f * amount <= PRECISE_UNIT * amount
    BY <1>1, <1>2, <1>4, Fewer
  <2> HIDE DEF fees
  <2>3. PRECISE_UNIT * fees <= PRECISE_UNIT * amount
    BY <1>1, <1>4, <2>1, <2>2
  <2> QED BY <1>1, <1>4, <2>1, <2>3
<1> HIDE DEF fees
<1>6. kept \in Nat
  BY <1>1, <1>4, <1>5
<1> HIDE DEF kept
<1>7. newUnit \in Nat /\ totalSupply * newUnit <= PRECISE_UNIT * kept
  BY <1>1, <1>2, <1>6, DivIsBelow DEF getDefaultPositionUnit
<1> HIDE DEF newUnit
<1>8. /\ PositionInv(pos') /\ R(pos', c) <= newUnit
      /\ \A z \in Component \ {c} : R(pos', z) = R(pos, z)
  BY <1>1, <1>2, <1>7, UnitsAfterEdit
<1>9. ASSUME NEW z \in Component
      PROVE  totalSupply * R(pos', z) <= PRECISE_UNIT * balance'[z]
  <2>1. CASE z = c
    <3>1. R(pos', c) \in Nat
      BY <1>8, RealUnits
    <3>2. totalSupply * R(pos', c) <= totalSupply * newUnit
      BY <1>1, <1>7, <1>8, <3>1
    <3>3. balance'[c] = kept
      BY <1>1, <1>2
    <3>4. /\ totalSupply * R(pos', c) \in Int /\ totalSupply * newUnit \in Int
          /\ PRECISE_UNIT * kept \in Int
      BY <1>1, <1>6, <1>7, <3>1
    <3> HIDE DEF R
    <3> QED BY <1>7, <2>1, <3>2, <3>3, <3>4
  <2>2. CASE z # c
    <3>1. R(pos', z) = R(pos, z) /\ balance'[z] = balance[z]
      BY <1>1, <1>2, <1>8, <2>2
    <3>2. totalSupply * R(pos, z) <= PRECISE_UNIT * balance[z]
      BY DEF IInv, Backs
    <3> QED BY <3>1, <3>2
  <2> QED BY <2>1, <2>2
<1>10. balance' \in [Component -> Nat]
  BY <1>1, <1>2, <1>6
<1> QED BY <1>2, <1>8, <1>9, <1>10, EditedPositions

\* A smaller multiplier promises each holder less of every component.
LEMMA UnitsUnderSmallerMultiplier ==
    ASSUME NEW p, PositionInv(p), NEW k \in Int, k < p.positionMultiplier,
           validateNewMultiplier(p, k), NEW c \in Component
    PROVE  getDefaultPositionRealUnit(editPositionMultiplier(p, k), c)
             <= getDefaultPositionRealUnit(p, c)
<1> DEFINE r == editPositionMultiplier(p, k)
<1>1. /\ p \in PositionState /\ p.positionMultiplier \in Int /\ p.positionMultiplier > 0
      /\ p.virtualUnit[c] \in Int /\ p.virtualUnit[c] >= 0
  BY DEF PositionInv, PositionState, DefaultsReadable
<1>2. r.virtualUnit = p.virtualUnit /\ r.positionMultiplier = k
  BY <1>1, EditMultiplierFields
<1>3. k > 0
  <2>1. PositionInv(r)
    BY EditPositionMultiplierKeepsInv
  <2> HIDE DEF r
  <2> QED BY <1>2, <2>1 DEF PositionInv
<1> HIDE DEF r
<1>4. PICK v \in Int : v = p.virtualUnit[c] /\ v >= 0
  BY <1>1
<1>5. PICK m \in Int : m = p.positionMultiplier /\ m > 0 /\ k < m
  BY <1>1
<1>6. conservativePreciseMul(v, k) <= conservativePreciseMul(v, m)
  <2>1. CASE v = 0
    BY <1>3, <1>5, <2>1, ConservativeMulSign
  <2>2. CASE v > 0
    <3>1. conservativePreciseMul(k, v) <= conservativePreciseMul(m, v)
      BY <1>5, <2>2, ConservativeMulMonotone
    <3>2. v * k = k * v /\ v * m = m * v
      OBVIOUS
    <3> QED BY <3>1, <3>2 DEF conservativePreciseMul
  <2> QED BY <1>4, <2>1, <2>2
<1> QED BY <1>2, <1>4, <1>5, <1>6 DEF getDefaultPositionRealUnit, convertVirtualToRealUnit, r

\* A module that takes a fee by scaling the multiplier down keeps the invariant.
LEMMA SmallerMultiplierKeepsIInv ==
    ASSUME IInv, NEW k \in Int, k < pos.positionMultiplier, validateNewMultiplier(pos, k),
           pos' = editPositionMultiplier(pos, k), UNCHANGED <<totalSupply, balance>>
    PROVE  IInv'
<1>1. /\ PositionInv(pos) /\ totalSupply \in Nat /\ balance \in [Component -> Nat]
  BY DEF IInv
<1>2. PositionInv(pos')
  BY <1>1, EditPositionMultiplierKeepsInv
<1>3. ASSUME NEW c \in Component
      PROVE  totalSupply * getDefaultPositionRealUnit(pos', c) <= PRECISE_UNIT * balance'[c]
  <2> DEFINE u == getDefaultPositionRealUnit(pos, c)
             w == getDefaultPositionRealUnit(pos', c)
  <2>1. u \in Nat /\ w \in Nat
    BY <1>1, <1>2, RealUnits
  <2>2. w <= u
    BY <1>1, UnitsUnderSmallerMultiplier
  <2>3. totalSupply * u <= PRECISE_UNIT * balance[c]
    BY DEF IInv, Backs
  <2>4. balance'[c] = balance[c] /\ PRECISE_UNIT * balance[c] \in Int
    BY <1>1, PreciseUnitAssumption
  <2> HIDE DEF u, w
  <2>5. w * totalSupply <= u * totalSupply
    BY <1>1, <2>1, <2>2, Fewer
  <2>6. totalSupply * w <= totalSupply * u /\ totalSupply * w \in Int /\ totalSupply * u \in Int
    BY <1>1, <2>1, <2>5
  <2>7. totalSupply * w <= PRECISE_UNIT * balance'[c]
    BY <2>3, <2>4, <2>6
  <2> QED BY <2>7 DEF w
<1> QED BY <1>1, <1>2, <1>3, EditedPositions

-----------------------------------------------------------------------------
(* Where a trade towards a target unit ends up.                             *)

\* A sale of at most what the rounded notionals leave above the target keeps the target, but
\* for one unit of rounding.
LEMMA SaleStopsAtTarget ==
    ASSUME NEW S \in Nat, S > 0, NEW u \in Nat, NEW t \in Nat, NEW B \in Nat, NEW N \in Nat,
           NEW w \in Nat, S * u <= PRECISE_UNIT * B,
           B - N <= preciseMul(S, u) - preciseMulCeil(S, t),
           FollowsBalance(S, u, B, N, w)
    PROVE  w >= t - 1
<1>1. PRECISE_UNIT \in Int /\ PRECISE_UNIT > 0
  BY PreciseUnitAssumption
<1>2. PICK cur \in Nat : cur = preciseMul(S, u) /\ PRECISE_UNIT * cur <= S * u
  BY MulIsBelow
<1>3. PICK goal \in Nat : /\ goal = preciseMulCeil(S, t) /\ S * t <= PRECISE_UNIT * goal
                          /\ goal = 0 => t = 0
  <2>1. S # 0
    OBVIOUS
  <2> QED BY Zenon, <2>1, MulCeilIsAbove
<1>4. cur <= B
  <2>1. PRECISE_UNIT * cur <= PRECISE_UNIT * B
    BY <1>1, <1>2
  <2> QED BY <1>1, <2>1
<1>5. CASE N = 0
  <2>1. goal = 0
    BY <1>2, <1>3, <1>4, <1>5
  <2> QED BY <1>3, <2>1
<1>6. CASE N # 0
  <2>1. PICK n \in Nat : n = cur + N - B /\ goal <= n
    BY <1>2, <1>3, <1>6 DEF FollowsBalance
  <2>2. preciseDiv(n, S) - 1 <= w
    BY <1>2, <1>6, <2>1 DEF FollowsBalance
  <2>3. t <= preciseDiv(n, S)
    <3>1. S * t <= PRECISE_UNIT * n
      <4>1. PRECISE_UNIT * goal <= PRECISE_UNIT * n
        BY <1>1, <2>1
      <4> QED BY <1>1, <1>3, <2>1, <4>1
    <3>2. PICK x \in Nat : x = n * PRECISE_UNIT /\ S * t <= x
      BY <1>1, <3>1
    <3>3. PICK q \in Int : q = x \div S /\ x < S * (q + 1)
      BY DivBounds
    <3>4. S * t < S * (q + 1)
      BY <3>2, <3>3
    <3>5. t < q + 1
      BY <3>4
    <3> QED BY <3>2, <3>3, <3>5 DEF preciseDiv
  <2>4. preciseDiv(n, S) \in Nat
    BY DivIsBelow
  <2> QED BY <2>2, <2>3, <2>4
<1> QED BY <1>5, <1>6

\* A purchase of at most what they leave below the target ends less than 1 / supply above it.
LEMMA PurchaseStopsAtTarget ==
    ASSUME NEW S \in Nat, NEW u \in Nat, NEW t \in Nat, NEW B \in Nat, NEW N \in Nat,
           NEW w \in Nat,
           N - B <= preciseMulCeil(S, t) - preciseMul(S, u),
           FollowsBalance(S, u, B, N, w)
    PROVE  (w - t) * S < PRECISE_UNIT
<1>1. PRECISE_UNIT \in Int /\ PRECISE_UNIT > 0
  BY PreciseUnitAssumption
<1>2. preciseMul(S, u) \in Nat
  BY MulIsBelow
<1>3. PICK goal \in Nat : goal = preciseMulCeil(S, t) /\ PRECISE_UNIT * goal < S * t + PRECISE_UNIT
  BY MulCeilIsTight
<1>4. CASE N = 0
  <2>1. w = 0
    BY <1>4 DEF FollowsBalance
  <2>2. (w - t) * S = -(S * t)
    BY <2>1
  <2>3. PICK x \in Nat : x = S * t
    OBVIOUS
  <2> QED BY <1>1, <2>2, <2>3
<1>5. CASE N # 0
  <2>1. PICK n \in Nat : n = preciseMul(S, u) + N - B /\ n <= goal
    BY <1>2, <1>3, <1>5 DEF FollowsBalance
  <2>2. S > 0 /\ w <= preciseDiv(n, S)
    BY <1>5, <2>1 DEF FollowsBalance
  <2>3. PICK d \in Nat : d = preciseDiv(n, S) /\ S * d <= PRECISE_UNIT * n
    BY <2>2, DivIsBelow
  <2>4. S * w <= S * d
    BY <2>2, <2>3
  <2>5. PRECISE_UNIT * n <= PRECISE_UNIT * goal
    BY <1>1, <2>1
  <2>6. PICK a \in Int, b \in Int : a = S * w /\ b = S * t
    OBVIOUS
  <2>7. a < b + PRECISE_UNIT
    BY <1>1, <1>3, <2>1, <2>3, <2>4, <2>5, <2>6
  <2>8. (w - t) * S = a - b
    BY <2>6
  <2> QED BY <1>1, <2>6, <2>7, <2>8
<1> QED BY <1>4, <1>5

\* With at least one whole set, a trade of exactly what they leave ends at the target, but for
\* one unit of rounding, and exactly there if the target is zero.
LEMMA ExactTradeMeetsTarget ==
    ASSUME NEW S \in Nat, S >= PRECISE_UNIT, NEW u \in Nat, NEW t \in Nat, NEW B \in Nat,
           NEW N \in Nat, NEW w \in Nat, S * u <= PRECISE_UNIT * B,
           N - B = preciseMulCeil(S, t) - preciseMul(S, u),
           FollowsBalance(S, u, B, N, w)
    PROVE  t - 1 <= w /\ w <= t
<1>1. PRECISE_UNIT \in Int /\ PRECISE_UNIT > 0 /\ S > 0
  BY PreciseUnitAssumption
<1>2. preciseMulCeil(S, t) \in Nat /\ preciseMul(S, u) \in Nat
  BY MulIsBelow, MulCeilIsAbove
<1>3. /\ B - N <= preciseMul(S, u) - preciseMulCeil(S, t)
      /\ N - B <= preciseMulCeil(S, t) - preciseMul(S, u)
  BY <1>2
<1>4. w >= t - 1
  BY Zenon, <1>1, <1>3, SaleStopsAtTarget
<1>5. (w - t) * S < PRECISE_UNIT
  BY Zenon, <1>3, PurchaseStopsAtTarget
<1>6. w <= t
  <2>1. SUFFICES ASSUME w - t >= 1 PROVE FALSE
    OBVIOUS
  <2>2. PICK k \in Nat : k = w - t /\ k >= 1
    BY <2>1
  <2>3. k * S >= S
    BY <2>2
  <2>4. k * S < PRECISE_UNIT
    BY <1>5, <2>2
  <2>5. k * S \in Int
    BY <2>2
  <2> QED BY <1>1, <2>3, <2>4, <2>5
<1> QED BY <1>4, <1>6

\* What is left of a purchase once the fee is taken: a purchase enlarged by the fee leaves
\* exactly what it was meant to, and a smaller one no more.
LEMMA NetOfFee ==
    ASSUME NEW X \in Nat, NEW f \in Nat, f < PRECISE_UNIT, NEW n \in Nat,
           n <= preciseDiv(X, PRECISE_UNIT - f)
    PROVE  /\ n - preciseMul(n, f) \in Nat
           /\ n - preciseMul(n, f) <= X
           /\ n = preciseDiv(X, PRECISE_UNIT - f) => n - preciseMul(n, f) = X
<1>1. PRECISE_UNIT \in Int /\ PRECISE_UNIT > 0
  BY PreciseUnitAssumption
<1>2. PICK g \in Nat : g = PRECISE_UNIT - f /\ g > 0
  BY <1>1
<1>3. PICK d \in Nat : /\ d = preciseDiv(X, g) /\ g * d <= PRECISE_UNIT * X
                       /\ PRECISE_UNIT * X < g * d + g
  <2>1. PICK x \in Nat : x = X * PRECISE_UNIT
    BY <1>1
  <2>2. /\ x \div g \in Int /\ x \div g >= 0
        /\ g * (x \div g) <= x /\ x < g * (x \div g) + g
    BY <1>2, <2>1, DivBounds
  <2>3. PRECISE_UNIT * X = x
    BY <1>1, <2>1
  <2> QED BY <2>1, <2>2, <2>3 DEF preciseDiv
<1>4. PICK fee \in Nat : fee = preciseMul(n, f) /\ fee <= n
  <2>1. f <= PRECISE_UNIT
    BY <1>1
  <2> QED BY Zenon, <2>1, ShareIsPart
<1>5. PICK y \in Int : y = n * f /\ PRECISE_UNIT * fee <= y /\ y < PRECISE_UNIT * fee + PRECISE_UNIT
  <2>1. PICK y \in Int : y = n * f
    OBVIOUS
  <2>2. fee = y \div PRECISE_UNIT
    BY <1>4, <2>1 DEF preciseMul
  <2> QED BY <1>1, <2>1, <2>2, DivBounds
<1>6. PICK z \in Int : z = g * n /\ y = PRECISE_UNIT * n - z
  <2>1. n * f = PRECISE_UNIT * n - g * n
    <3>1. f = PRECISE_UNIT - g
      BY <1>1, <1>2
    <3> QED BY <1>1, <3>1
  <2> QED BY <1>5, <2>1
<1>7. n - fee \in Nat
  BY <1>4
<1>8. PICK k \in Nat : k = n - fee
  BY <1>7
<1>9. PRECISE_UNIT * k = PRECISE_UNIT * n - PRECISE_UNIT * fee
  BY <1>1, <1>8
<1>10. PICK a \in Int, b \in Int, e \in Int :
         a = PRECISE_UNIT * n /\ b = PRECISE_UNIT * fee /\ e = PRECISE_UNIT * X
  BY <1>1
<1>11. PICK h \in Int : h = g * d
  OBVIOUS
<1>12. z <= h
  BY <1>2, <1>3, <1>6, <1>11
<1>13. PRECISE_UNIT * k = a - b /\ b > a - z - PRECISE_UNIT /\ b <= a - z
  BY <1>1, <1>5, <1>6, <1>9, <1>10
<1>14. PRECISE_UNIT * k < e + PRECISE_UNIT
  BY <1>1, <1>3, <1>10, <1>11, <1>12, <1>13
<1>15. k <= X
  <2>1. PRECISE_UNIT * k < PRECISE_UNIT * (X + 1)
    BY <1>1, <1>10, <1>14
  <2> QED BY <1>1, <2>1
<1>16. ASSUME n = d PROVE k = X
  <2>1. z = h
    BY <1>6, <1>11, <1>16
  <2>2. PRECISE_UNIT * k >= z
    BY <1>6, <1>10, <1>13
  <2>3. e < h + g /\ g <= PRECISE_UNIT
    BY <1>1, <1>2, <1>3, <1>10, <1>11
  <2>4. e < PRECISE_UNIT * k + PRECISE_UNIT
    BY <1>1, <2>1, <2>2, <2>3
  <2>5. PRECISE_UNIT * X < PRECISE_UNIT * (k + 1)
    BY <1>1, <1>10, <2>4
  <2>6. X < k + 1
    BY <1>1, <2>5
  <2> QED BY <1>15, <2>6
<1> QED BY <1>2, <1>3, <1>4, <1>7, <1>8, <1>15, <1>16

-----------------------------------------------------------------------------
(* What follows for holders and issuers from the invariant.                 *)

\* Fees of at most 100%, shared at most in full, never revert and never exceed the amount.
LEMMA FeesOfShares ==
    ASSUME NEW q \in Nat, NEW f \in Nat, NEW s \in Nat, s <= PRECISE_UNIT
    PROVE  LET fee == calculateTotalFees(q, f, s)
           IN  /\ fee.totalFee \in Nat /\ calculateTotalFeesOK(fee)
               /\ f <= PRECISE_UNIT => fee.totalFee <= q
<1> DEFINE fee == calculateTotalFees(q, f, s)
<1>1. /\ fee.totalFee = preciseMul(f, q)
      /\ fee.managerFee = fee.totalFee - preciseMul(fee.totalFee, s)
  BY DEF calculateTotalFees
<1> HIDE DEF fee
<1>2. fee.totalFee \in Nat
  BY <1>1, MulIsBelow
<1>3. fee.managerFee >= 0
  BY <1>1, <1>2, ShareIsPart
<1>4. f <= PRECISE_UNIT => fee.totalFee <= q
  BY <1>1, ShareIsPart
<1> QED BY <1>2, <1>3, <1>4 DEF calculateTotalFeesOK, fee

\* A loss within the buffer of a version that checks nothing in advance is no loss in V1.
LEMMA LossWithinBuffer ==
    ASSUME NEW v \in Version, NEW l \in Loss, l <= transferBuffer(v)
    PROVE  /\ l \in Nat /\ transferBuffer(v) \in Nat
           /\ transferOK(v, l)
BY IssuanceAssumption DEF transferBuffer, transferOK, Version

\* Of the collateral of n sets, redeemed, at least what the other sets need is left.
LEMMA RestIsBacked ==
    ASSUME IInv, NEW c \in Component, NEW n \in Nat, n <= totalSupply
    PROVE  LET out == calculateRequiredComponentIssuanceUnits(pos, n, FALSE)[c]
           IN  /\ out \in Nat /\ out <= balance[c]
               /\ preciseMulCeil(totalSupply - n, unit(c)) <= balance[c] - out
<1> DEFINE out == calculateRequiredComponentIssuanceUnits(pos, n, FALSE)[c]
           rest == preciseMulCeil(totalSupply - n, unit(c))
<1>1. out \in Nat /\ unit(c) \in Nat /\ PRECISE_UNIT * out <= n * unit(c)
  BY Equity
<1>2. /\ totalSupply * unit(c) <= PRECISE_UNIT * balance[c]
      /\ balance[c] \in Nat /\ totalSupply \in Nat /\ totalSupply - n \in Nat
  BY DEF IInv, Backs, unit
<1> HIDE DEF out
<1>3. (totalSupply - n) * unit(c) <= PRECISE_UNIT * (balance[c] - out)
  <2>1. balance[c] \in Int /\ out \in Int
    BY <1>1, <1>2
  <2> QED BY Zenon, <1>1, <1>2, <2>1, Burned
<1>4. balance[c] - out >= 0
  <2>1. PICK x \in Int : x = balance[c] - out
    BY <1>1, <1>2
  <2>2. (totalSupply - n) * unit(c) >= 0
    BY <1>1, <1>2
  <2>3. (totalSupply - n) * unit(c) \in Int
    BY <1>1, <1>2
  <2>4. PRECISE_UNIT * x >= 0
    BY <1>3, <2>1, <2>2, <2>3, PreciseUnitAssumption
  <2> QED BY <2>1, <2>4, PreciseUnitAssumption
<1>5. rest <= balance[c] - out
  <2>1. totalSupply - n \in Nat /\ balance[c] - out \in Nat
    BY <1>1, <1>2, <1>4
  <2>2. PICK T \in Nat, B \in Nat : T = totalSupply - n /\ B = balance[c] - out
    BY Zenon, <2>1
  <2>3. T * unit(c) <= PRECISE_UNIT * B
    BY Zenon, <1>3, <2>2
  <2>4. preciseMulCeil(T, unit(c)) <= B
    BY <1>1, <2>3, MulCeilIsLeast
  <2> QED BY <2>2, <2>4
<1>6. out <= balance[c]
  BY <1>1, <1>2, <1>4
<1> QED BY Zenon, <1>1, <1>5, <1>6 DEF out

\* The set has the tokens of any redemption, and passes the check after it.
LEMMA IInvRedeemable == IInv => RedemptionNeverBlocked
<1> SUFFICES ASSUME IInv, NEW v \in Version, NEW q \in 1..totalSupply, NEW f \in FeeRate,
                    NEW s \in FeeRate, NEW l \in Loss,
                    f <= PRECISE_UNIT, s <= PRECISE_UNIT, l <= transferBuffer(v),
                    \A c \in Component :
                      transferredOut(v, q - calculateTotalFees(q, f, s).totalFee)[c] >= 0
             PROVE  redeemOK(v, q, calculateTotalFees(q, f, s), l)
  BY DEF RedemptionNeverBlocked
<1> DEFINE fee == calculateTotalFees(q, f, s)
           net == q - fee.totalFee
           equity == calculateRequiredComponentIssuanceUnits(pos, net, FALSE)
           out == transferredOut(v, net)
           newBalance == balanceAfterRedeem(v, net, l)
<1>1. /\ totalSupply \in Nat /\ q \in Nat /\ q > 0 /\ q <= totalSupply
      /\ f \in Nat /\ s \in Nat /\ balance \in [Component -> Nat]
  BY IssuanceAssumption DEF IInv
<1>2. fee.totalFee \in Nat /\ calculateTotalFeesOK(fee) /\ fee.totalFee <= q
  BY <1>1, FeesOfShares
<1>3. l \in Nat /\ transferBuffer(v) \in Nat /\ transferOK(v, l)
  BY LossWithinBuffer
<1> HIDE DEF fee
<1>4. net \in Nat /\ net <= totalSupply
  BY <1>1, <1>2
<1> HIDE DEF net
<1>5. ASSUME NEW c \in Component
      PROVE  /\ 0 <= out[c] /\ 0 <= newBalance[c]
             /\ newBalance[c] >= preciseMulCeil(totalSupply - net, unit(c))
  <2>1. /\ out[c] = IF equity[c] > 0 THEN equity[c] - transferBuffer(v) ELSE 0
        /\ newBalance[c] = IF out[c] > 0 THEN balance[c] - out[c] - l ELSE balance[c]
    BY DEF balanceAfterRedeem, transferredOut
  <2>2. /\ equity[c] \in Nat /\ equity[c] <= balance[c]
        /\ preciseMulCeil(totalSupply - net, unit(c)) <= balance[c] - equity[c]
    BY <1>4, RestIsBacked
  <2>3. preciseMulCeil(totalSupply - net, unit(c)) \in Nat
    <3>1. unit(c) \in Nat
      BY RealUnits DEF IInv, unit
    <3>2. totalSupply - net \in Nat
      BY <1>1, <1>4
    <3> QED BY <3>1, <3>2, MulCeilIsAbove
  <2>4. 0 <= out[c]
    BY DEF net, fee
  <2> HIDE DEF equity, out, newBalance
  <2>5. balance[c] \in Nat
    BY <1>1
  <2>6. newBalance[c] >= balance[c] - equity[c] /\ newBalance[c] \in Int
    BY <1>3, <2>1, <2>2, <2>5
  <2> QED BY <2>2, <2>3, <2>4, <2>5, <2>6
<1>6. redeemOK(v, q, fee, l)
  <2>1. net >= 0
    BY <1>4
  <2> QED BY Zenon, <1>1, <1>2, <1>3, <1>5, <2>1
          DEF redeemOK, net, validateCollateralizationPostTransferOut, unit
<1> QED BY <1>6 DEF fee

\* Every version's issue passes its check if no more is lost than it transfers on top.
LEMMA IInvIssuable == IInv => BufferCoversLoss
<1> SUFFICES ASSUME IInv, NEW v \in Version, NEW q \in Quantity, NEW f \in FeeRate,
                    NEW s \in FeeRate, NEW l \in Loss,
                    q > 0, s <= PRECISE_UNIT, l <= transferBuffer(v)
             PROVE  issueOK(v, q, calculateTotalFees(q, f, s), l)
  BY DEF BufferCoversLoss
<1> DEFINE fee == calculateTotalFees(q, f, s)
           equity == calculateRequiredComponentIssuanceUnits(pos, q + fee.totalFee, TRUE)
           newBalance == transferredIn(v, q + fee.totalFee, l)
<1>1. /\ q \in Nat /\ f \in Nat /\ s \in Nat
      /\ totalSupply \in Nat /\ balance \in [Component -> Nat]
  BY IssuanceAssumption DEF IInv
<1>2. fee.totalFee \in Nat /\ calculateTotalFeesOK(fee)
  BY <1>1, FeesOfShares
<1>3. l \in Nat /\ transferBuffer(v) \in Nat /\ transferOK(v, l)
  BY LossWithinBuffer
<1> HIDE DEF fee
<1>4. ASSUME NEW c \in Component, equity[c] > 0
      PROVE  newBalance[c] >= preciseMulCeil(totalSupply, unit(c)) + equity[c]
  <2>1. newBalance[c] = balance[c] + equity[c] + transferBuffer(v) - l
    <3>1. newBalance[c] = balance[c] +
                      (IF equity[c] > 0 THEN equity[c] + transferBuffer(v) - l ELSE 0)
      BY DEF transferredIn
    <3>2. q + fee.totalFee \in Nat
      BY <1>1, <1>2
    <3>3. equity[c] \in Nat /\ balance[c] \in Nat
      BY <1>1, <3>2, Equity
    <3> HIDE DEF equity, newBalance
    <3> QED BY <1>3, <1>4, <3>1, <3>3
  <2>2. preciseMulCeil(totalSupply, unit(c)) <= balance[c]
    BY IInvCollateralized DEF Collateralized
  <2>3. unit(c) \in Nat
    BY RealUnits DEF IInv, unit
  <2>4. /\ equity[c] \in Nat /\ balance[c] \in Nat
        /\ preciseMulCeil(totalSupply, unit(c)) \in Nat
    <3>1. q + fee.totalFee \in Nat
      BY <1>1, <1>2
    <3> QED BY <1>1, <2>3, <3>1, Equity, MulCeilIsAbove
  <2> HIDE DEF equity, newBalance
  <2> QED BY <1>3, <2>1, <2>2, <2>4
<1>5. issueOK(v, q, fee, l)
  BY <1>2, <1>3, <1>4
     DEF issueOK, validateCollateralizationPostTransferInPreHook, unit
<1> QED BY <1>5 DEF fee

-----------------------------------------------------------------------------
(* The theorems.                                                            *)

\* Every step, and stuttering, keeps the invariant.
LEMMA NextKeepsIInv == IInv /\ [Next]_vars => IInv'
<1> SUFFICES ASSUME IInv, [Next]_vars PROVE IInv'
  OBVIOUS
<1>1. CASE IssuanceStep
  BY <1>1, BasicIssueKeepsIInv, BasicRedeemKeepsIInv, IssueKeepsIInv, RedeemKeepsIInv
     DEF IssuanceStep
<1>2. CASE PositionStep
  BY <1>2, TradeKeepsIInv, AbsorbKeepsIInv DEF PositionStep
<1>3. CASE \E c \in Component, n \in TokenAmount : Gift(c, n)
  BY <1>3, GiftKeepsIInv
<1>4. CASE UNCHANGED vars
  BY <1>4 DEF vars, IInv, Backs
<1> QED BY <1>1, <1>2, <1>3, <1>4 DEF Next

\* The set always holds what its positions promise its holders: issues, redemptions,
\* trades, absorptions and gifts, in any order and number, at any fees, units and supply,
\* and with tokens that lose any amount on the way, leave Collateralized true.
THEOREM AlwaysCollateralized == Spec => []Collateralized
<1>1. Init => IInv
  BY InitIInv
<1>2. IInv /\ [Next]_vars => IInv'
  BY NextKeepsIInv
<1>3. IInv => Collateralized
  BY IInvCollateralized
<1> QED BY <1>1, <1>2, <1>3, PTL DEF Spec

\* Any holder can always redeem, whoever went before: no redemption fails for lack of tokens
\* or on the collateral check, through any version, at any fee up to 100%, as long as the
\* tokens lose no more than the version's buffer.
THEOREM AlwaysRedeemable == Spec => []RedemptionNeverBlocked
<1>1. Init => IInv
  BY InitIInv
<1>2. IInv /\ [Next]_vars => IInv'
  BY NextKeepsIInv
<1>3. IInv => RedemptionNeverBlocked
  BY IInvRedeemable
<1> QED BY <1>1, <1>2, <1>3, PTL DEF Spec

\* Any amount can always be issued under the same conditions: the buffer that V3 takes on
\* top is enough for its own check.
THEOREM BufferAlwaysCoversLoss == Spec => []BufferCoversLoss
<1>1. Init => IInv
  BY InitIInv
<1>2. IInv /\ [Next]_vars => IInv'
  BY NextKeepsIInv
<1>3. IInv => BufferCoversLoss
  BY IInvIssuable
<1> QED BY <1>1, <1>2, <1>3, PTL DEF Spec
=============================================================================
