--------------------------- MODULE LeverageProofs ---------------------------
(***************************************************************************)
(* For any assets, prices, rates, fees and amounts, any number of          *)
(* collateral and borrow assets and any precise unit: what the set owes    *)
(* Aave is tracked, every issue and redemption with the module's hook      *)
(* leaves the whole debt to the holders by the tracked units, only         *)
(* interest takes a debt out of cover, and a well managed set can be       *)
(* redeemed at any time.                                                   *)
(***************************************************************************)
EXTENDS Leverage, IssuanceProofs

-----------------------------------------------------------------------------
(* Edits of one position.                                                   *)

\* A multiplier of one stores and reads back a unit as it is.
LEMMA ExactRoundTrip ==
    ASSUME NEW r \in Int
    PROVE  /\ conservativePreciseDiv(r, PRECISE_UNIT) = r
           /\ conservativePreciseMul(r, PRECISE_UNIT) = r
<1>1. PRECISE_UNIT \in Int /\ PRECISE_UNIT > 0
  BY PreciseUnitAssumption
<1>2. PICK n \in Int : n = r * PRECISE_UNIT
  BY <1>1
<1>3. PRECISE_UNIT * r = n
  BY <1>1, <1>2
<1>4. PRECISE_UNIT * r <= n /\ n < PRECISE_UNIT * r + PRECISE_UNIT
  BY <1>1, <1>2, <1>3
<1>5. n \div PRECISE_UNIT = r
  BY Zenon, <1>1, <1>2, <1>4, DivUnique
<1>6. divDown(n, PRECISE_UNIT) = r
  BY <1>1, <1>2, <1>5, DivDownIsFloor
<1> QED BY <1>2, <1>6 DEF conservativePreciseDiv, conservativePreciseMul

\* So at that multiplier no unit vanishes.
LEMMA NoUnitVanishes ==
    ASSUME NEW p, p.positionMultiplier = PRECISE_UNIT, NEW r \in Int
    PROVE  convertRealToVirtualUnitOK(p, r)
BY ExactRoundTrip DEF convertRealToVirtualUnitOK, convertRealToVirtualUnit, convertVirtualToRealUnit

\* editDefaultPosition reverts for nothing but a unit that vanishes.
LEMMA DefaultEditPasses ==
    ASSUME NEW p, PositionInv(p), NEW c \in Component, NEW u \in Nat,
           convertRealToVirtualUnitOK(p, u)
    PROVE  editDefaultPositionOK(p, c, u)
<1>1. hasDefaultPosition(p, c) <=> p.virtualUnit[c] > 0
  BY HasDefaultPositionIffStored
<1>2. isComponent(p, c) <=> p.virtualUnit[c] > 0 \/ hasExternalPosition(p, c)
  BY DEF PositionInv, ComponentsMatch
<1> QED BY <1>1, <1>2 DEF editDefaultPositionOK, OpensComponent, ClosesComponent,
              addComponentOK, removeComponentOK

\* A module that keeps to editExternalPosition is listed exactly while it has a unit, and then
\* the token is a component.
LEMMA ListedWithUnit ==
    ASSUME NEW p, PositionInv(p), NEW c \in Component, NEW m \in Module \ UnitWriter
    PROVE  /\ getExternalPositionRealUnit(p, c, m) \in Int
           /\ isExternalPositionModule(p, c, m) <=> getExternalPositionRealUnit(p, c, m) # 0
           /\ isExternalPositionModule(p, c, m) => isComponent(p, c)
<1>1. /\ p.externalVirtualUnit[c][m] \in Int
      /\ p.positionMultiplier \in Int /\ p.positionMultiplier > 0
      /\ p.externalPositionModules[c] \in Seq(Module)
  BY PositionFields DEF PositionInv
<1>2. /\ isExternalPositionModule(p, c, m) <=> p.externalVirtualUnit[c][m] # 0
      /\ p.externalVirtualUnit[c][m] # 0 => getExternalPositionRealUnit(p, c, m) # 0
  BY DEF PositionInv, ExternalsMatch
<1>3. /\ getExternalPositionRealUnit(p, c, m) \in Int
      /\ p.externalVirtualUnit[c][m] = 0 => getExternalPositionRealUnit(p, c, m) = 0
  BY <1>1, ConservativeMulSign DEF getExternalPositionRealUnit, convertVirtualToRealUnit
<1>4. isExternalPositionModule(p, c, m) => hasExternalPosition(p, c)
  BY <1>1 DEF isExternalPositionModule, hasExternalPosition, contains, Range
<1>5. hasExternalPosition(p, c) => isComponent(p, c)
  BY DEF PositionInv, ComponentsMatch
<1> QED BY <1>2, <1>3, <1>4, <1>5

\* Nor does editExternalPosition.
LEMMA ExternalEditPasses ==
    ASSUME NEW p, PositionInv(p), NEW c \in Component, NEW m \in Module \ UnitWriter,
           NEW u \in Int, convertRealToVirtualUnitOK(p, u)
    PROVE  editExternalPositionOK(p, c, m, u)
<1>1. /\ isExternalPositionModule(p, c, m) <=> getExternalPositionRealUnit(p, c, m) # 0
      /\ isExternalPositionModule(p, c, m) => isComponent(p, c)
  BY ListedWithUnit
<1>2. p.externalPositionModules[c] \in Seq(Module)
  BY PositionFields DEF PositionInv
<1>3. isExternalPositionModule(p, c, m) /\ Len(p.externalPositionModules[c]) = 1
        => p.externalPositionModules[c][1] = m
  BY <1>2 DEF isExternalPositionModule, contains, Range
<1> QED BY <1>1, <1>3 DEF editExternalPositionOK, ClosesLastPosition, removeComponentOK

\* What editDefaultPosition does to units other than by rounding down.
LEMMA UnitsAfterDefaultEdit ==
    ASSUME NEW p, PositionInv(p), NEW c \in Component, NEW u \in Nat,
           editDefaultPositionOK(p, c, u)
    PROVE  LET r == editDefaultPosition(p, c, u)
           IN  /\ \A x \in Component, m \in Module :
                    getExternalPositionRealUnit(r, x, m) = getExternalPositionRealUnit(p, x, m)
               /\ p.positionMultiplier = PRECISE_UNIT => getDefaultPositionRealUnit(r, c) = u
<1> DEFINE r == editDefaultPosition(p, c, u)
           v == convertRealToVirtualUnit(p, u)
<1>1. PICK q \in PositionState :
        /\ r = editDefaultPositionUnit(q, c, u)
        /\ q.virtualUnit = p.virtualUnit
        /\ q.externalVirtualUnit = p.externalVirtualUnit
        /\ q.positionMultiplier = p.positionMultiplier
  BY ComponentsAfterEditDefault
<1>2. /\ p \in PositionState /\ p.positionMultiplier \in Int /\ p.positionMultiplier > 0
      /\ p.virtualUnit \in [Component -> Int]
  BY PositionFields DEF PositionInv
<1>3. v \in Int
  BY <1>2, ConvertNonNegative DEF editDefaultPositionOK
<1>4. convertRealToVirtualUnit(q, u) = v
  BY <1>1 DEF convertRealToVirtualUnit
<1>5. /\ r.virtualUnit = [p.virtualUnit EXCEPT ![c] = v]
      /\ r.externalVirtualUnit = p.externalVirtualUnit
      /\ r.positionMultiplier = p.positionMultiplier
  BY <1>1, <1>3, <1>4, EditDefaultUnitFields
<1>6. p.positionMultiplier = PRECISE_UNIT => convertVirtualToRealUnit(p, v) = u
  BY ExactRoundTrip DEF convertVirtualToRealUnit, convertRealToVirtualUnit
<1> HIDE DEF r, v
<1>7. getDefaultPositionRealUnit(r, c) = convertVirtualToRealUnit(p, v)
  BY <1>2, <1>5 DEF getDefaultPositionRealUnit, convertVirtualToRealUnit
<1>8. \A x \in Component, m \in Module :
        getExternalPositionRealUnit(r, x, m) = getExternalPositionRealUnit(p, x, m)
  BY <1>5 DEF getExternalPositionRealUnit, convertVirtualToRealUnit
<1> QED BY <1>6, <1>7, <1>8 DEF r

\* The fields editExternalPosition writes.
LEMMA FieldsAfterExternalEdit ==
    ASSUME NEW p, PositionInv(p), NEW c \in Component, NEW m \in Module, NEW u \in Int,
           editExternalPositionOK(p, c, m, u),
           u # 0 \/ getExternalPositionRealUnit(p, c, m) # 0
    PROVE  LET r == editExternalPosition(p, c, m, u)
               v == IF u = 0 THEN 0 ELSE convertRealToVirtualUnit(p, u)
           IN  /\ r.virtualUnit = p.virtualUnit
               /\ r.externalVirtualUnit =
                    [p.externalVirtualUnit EXCEPT ![c] = [p.externalVirtualUnit[c] EXCEPT ![m] = v]]
               /\ r.positionMultiplier = p.positionMultiplier
<1>1. /\ p \in PositionState /\ p.positionMultiplier \in Int /\ p.positionMultiplier > 0
      /\ p.components \in Seq(Component) /\ ~ hasDuplicate(p.components)
      /\ p.externalPositionModules[c] \in Seq(Module)
      /\ ~ hasDuplicate(p.externalPositionModules[c])
  BY PositionFields DEF PositionInv, ComponentsMatch, ExternalsMatch
<1>2. CASE u # 0
  <2>1. PICK q \in PositionState :
          /\ q = IF isComponent(p, c) THEN p ELSE addComponent(p, c)
          /\ q.virtualUnit = p.virtualUnit
          /\ q.externalVirtualUnit = p.externalVirtualUnit
          /\ q.positionMultiplier = p.positionMultiplier
    BY <1>1, AddComponentFields
  <2>2. PICK r \in PositionState :
          /\ r = IF isExternalPositionModule(q, c, m) THEN q ELSE addExternalPositionModule(q, c, m)
          /\ r.virtualUnit = p.virtualUnit
          /\ r.externalVirtualUnit = p.externalVirtualUnit
          /\ r.positionMultiplier = p.positionMultiplier
    <3>1. CASE isExternalPositionModule(q, c, m)
      BY <2>1, <3>1
    <3>2. CASE ~ isExternalPositionModule(q, c, m)
      <4> DEFINE r == addExternalPositionModule(q, c, m)
      <4>1. /\ r \in PositionState
            /\ r.virtualUnit = q.virtualUnit
            /\ r.externalVirtualUnit = q.externalVirtualUnit
            /\ r.positionMultiplier = q.positionMultiplier
        BY AddExternalModuleFields
      <4> HIDE DEF r
      <4>2. /\ r.virtualUnit = p.virtualUnit
            /\ r.externalVirtualUnit = p.externalVirtualUnit
            /\ r.positionMultiplier = p.positionMultiplier
        BY <2>1, <4>1
      <4>3. r = addExternalPositionModule(q, c, m)
        BY DEF r
      <4> QED BY Zenon, <3>2, <4>1, <4>2, <4>3
    <3> QED BY <3>1, <3>2
  <2>3. editExternalPosition(p, c, m, u) = editExternalPositionUnit(r, c, m, u)
    BY <1>2, <2>1, <2>2 DEF editExternalPosition
  <2>4. convertRealToVirtualUnit(r, u) = convertRealToVirtualUnit(p, u)
    BY <2>2 DEF convertRealToVirtualUnit
  <2>5. convertRealToVirtualUnit(p, u) \in Int
    BY <1>1, <1>2, ConvertSigned DEF editExternalPositionOK
  <2>6. LET s == editExternalPositionUnit(r, c, m, u)
        IN  /\ s.components = r.components
            /\ s.virtualUnit = r.virtualUnit
            /\ s.externalPositionModules = r.externalPositionModules
            /\ s.externalVirtualUnit =
                 [r.externalVirtualUnit EXCEPT
                    ![c] = [r.externalVirtualUnit[c] EXCEPT ![m] = convertRealToVirtualUnit(r, u)]]
            /\ s.positionMultiplier = r.positionMultiplier
            /\ s \in PositionState
    <3>1. convertRealToVirtualUnit(r, u) \in Int
      BY Zenon, <2>4, <2>5
    <3> QED BY <3>1, EditExternalUnitFields
  <2> QED BY Zenon, <1>2, <2>2, <2>3, <2>4, <2>6
<1>3. CASE u = 0
  <2>1. contains(p.externalPositionModules[c], m)
    BY <1>3 DEF editExternalPositionOK, isExternalPositionModule
  <2>2. removeStorage(p.externalPositionModules[c], m) \in Seq(Module)
    BY <1>1, <2>1, RemoveStorageFacts
  <2>3. PICK q \in PositionState :
          /\ q = IF ClosesLastPosition(p, c) THEN removeComponent(p, c) ELSE p
          /\ q.virtualUnit = p.virtualUnit
          /\ q.externalPositionModules = p.externalPositionModules
          /\ q.externalVirtualUnit = p.externalVirtualUnit
          /\ q.positionMultiplier = p.positionMultiplier
    <3>1. CASE ClosesLastPosition(p, c)
      <4>1. contains(p.components, c)
        BY <1>3, <3>1 DEF editExternalPositionOK, removeComponentOK, isComponent
      <4>2. removeStorage(p.components, c) \in Seq(Component)
        BY <1>1, <4>1, RemoveStorageFacts
      <4> QED BY <1>1, <3>1, <4>2, RemoveComponentFields
    <3>2. CASE ~ ClosesLastPosition(p, c)
      BY <1>1, <3>2
    <3> QED BY <3>1, <3>2
  <2>4. editExternalPosition(p, c, m, u) = removeExternalPositionModule(q, c, m)
    BY <1>3, <2>3 DEF editExternalPosition
  <2>5. removeStorage(q.externalPositionModules[c], m) \in Seq(Module)
    BY <2>2, <2>3
  <2>6. LET s == removeExternalPositionModule(q, c, m)
        IN  /\ s.virtualUnit = q.virtualUnit
            /\ s.externalVirtualUnit =
                 [q.externalVirtualUnit EXCEPT
                    ![c] = [q.externalVirtualUnit[c] EXCEPT ![m] = 0]]
            /\ s.positionMultiplier = q.positionMultiplier
    <3>1. q \in PositionState /\ c \in Component /\ m \in Module
      BY <2>3
    <3>2. LET s == removeExternalPositionModule(q, c, m)
          IN  /\ s.components = q.components
              /\ s.virtualUnit = q.virtualUnit
              /\ s.externalPositionModules =
                   [q.externalPositionModules EXCEPT
                      ![c] = removeStorage(q.externalPositionModules[c], m)]
              /\ s.externalVirtualUnit =
                   [q.externalVirtualUnit EXCEPT
                      ![c] = [q.externalVirtualUnit[c] EXCEPT ![m] = 0]]
              /\ s.positionMultiplier = q.positionMultiplier
              /\ s \in PositionState
      BY Zenon, <2>5, <3>1, RemoveExternalModuleFields
    <3> QED BY Zenon, <3>2
  <2> QED BY Zenon, <1>3, <2>3, <2>4, <2>6
<1> QED BY <1>2, <1>3

\* A unit written by editExternalPosition is read back rounded down, which for a debt is
\* away from zero; no other unit changes.
LEMMA UnitsAfterExternalEdit ==
    ASSUME NEW p, PositionInv(p), NEW c \in Component, NEW m \in Module \ UnitWriter,
           NEW u \in Int, editExternalPositionOK(p, c, m, u)
    PROVE  LET r == editExternalPosition(p, c, m, u)
               X(q, x) == getExternalPositionRealUnit(q, x, m)
           IN  /\ PositionInv(r)
               /\ r.positionMultiplier = p.positionMultiplier
               /\ X(r, c) <= u
               /\ p.positionMultiplier = PRECISE_UNIT => X(r, c) = u
               /\ \A x \in Component \ {c} : X(r, x) = X(p, x)
               /\ \A x \in Component : getDefaultPositionRealUnit(r, x) = getDefaultPositionRealUnit(p, x)
<1> DEFINE r == editExternalPosition(p, c, m, u)
           X(q, x) == getExternalPositionRealUnit(q, x, m)
           v == IF u = 0 THEN 0 ELSE convertRealToVirtualUnit(p, u)
<1>1. PositionInv(r)
  BY EditExternalPositionKeepsInv
<1>2. /\ p.externalVirtualUnit \in [Component -> [Module -> Int]]
      /\ p.positionMultiplier \in Int /\ p.positionMultiplier > 0
  BY PositionFields DEF PositionInv
<1>3. CASE u = 0 /\ X(p, c) = 0
  <2>1. r = p
    BY <1>3 DEF editExternalPosition
  <2> QED BY <1>1, <1>3, <2>1
<1>4. CASE u # 0 \/ X(p, c) # 0
  <2>1. /\ r.virtualUnit = p.virtualUnit
        /\ r.externalVirtualUnit =
             [p.externalVirtualUnit EXCEPT ![c] = [p.externalVirtualUnit[c] EXCEPT ![m] = v]]
        /\ r.positionMultiplier = p.positionMultiplier
    BY <1>4, FieldsAfterExternalEdit
  <2>2. /\ convertVirtualToRealUnit(p, v) <= u
        /\ p.positionMultiplier = PRECISE_UNIT => convertVirtualToRealUnit(p, v) = u
    <3>1. CASE u = 0
      <4>1. 0 \in Int
        OBVIOUS
      <4>2. conservativePreciseMul(0, p.positionMultiplier) = 0
        BY Zenon, <1>2, <4>1, ConservativeMulSign
      <4> QED BY <3>1, <4>2 DEF convertVirtualToRealUnit
    <3>2. CASE u # 0
      BY <1>2, <3>2, RoundTripConservative, ExactRoundTrip
         DEF convertVirtualToRealUnit, convertRealToVirtualUnit
    <3> QED BY <3>1, <3>2
  <2> HIDE DEF r, v
  <2>3. r.externalVirtualUnit[c][m] = v
    BY <1>2, <2>1
  <2>4. X(r, c) = convertVirtualToRealUnit(p, v)
    BY <2>1, <2>3 DEF getExternalPositionRealUnit, convertVirtualToRealUnit
  <2>5. \A x \in Component \ {c} : X(r, x) = X(p, x)
    BY <1>2, <2>1 DEF getExternalPositionRealUnit, convertVirtualToRealUnit
  <2>6. \A x \in Component : getDefaultPositionRealUnit(r, x) = getDefaultPositionRealUnit(p, x)
    BY <2>1 DEF getDefaultPositionRealUnit, convertVirtualToRealUnit
  <2> QED BY <1>1, <2>1, <2>2, <2>4, <2>5, <2>6 DEF r
<1> QED BY <1>3, <1>4

-----------------------------------------------------------------------------
(* Debts.                                                                   *)

\* What getBorrowPosition writes covers the debt, and is a debt if there is one.
LEMMA BorrowPositionCovers ==
    ASSUME NEW d \in Nat, NEW S \in Nat, S > 0
    PROVE  /\ preciseDivCeil(d, S) \in Nat
           /\ d * PRECISE_UNIT <= preciseDivCeil(d, S) * S
           /\ preciseDivCeil(d, S) > 0 <=> d > 0
<1>1. PRECISE_UNIT \in Nat /\ PRECISE_UNIT > 0
  BY PreciseUnitAssumption
<1>2. CASE d = 0
  <2>1. preciseDivCeil(d, S) = 0
    BY <1>2 DEF preciseDivCeil
  <2> QED BY <1>1, <1>2, <2>1
<1>3. CASE d # 0
  <2>1. d * PRECISE_UNIT \in Nat /\ d * PRECISE_UNIT > 0
    BY <1>1, <1>3, ProductOfNat
  <2>2. PICK n \in Nat : n = d * PRECISE_UNIT /\ n > 0
    BY <2>1
  <2>3. PICK k \in Int : k = (n - 1) \div S
    BY DivBounds
  <2>4. S * k <= n - 1 /\ n - 1 < (S * k) + S
    BY <2>3, DivBounds
  <2>5. k >= 0
    <3>1. ASSUME k <= -1 PROVE FALSE
      <4>1. k * S <= (-1) * S
        BY <2>3, <3>1, Fewer
      <4>2. k * S = S * k /\ (-1) * S = - S
        BY <2>3
      <4>3. PICK l \in Int : l = S * k
        BY <2>3
      <4> QED BY <2>2, <2>4, <4>1, <4>2, <4>3
    <3> QED BY <3>1
  <2>6. preciseDivCeil(d, S) = k + 1
    BY <1>3, <2>2, <2>3 DEF preciseDivCeil
  <2>7. (k + 1) * S = S * k + S
    BY <2>5
  <2>8. n <= (k + 1) * S
    BY <2>2, <2>4, <2>7
  <2> QED BY <1>3, <2>2, <2>5, <2>6, <2>8
<1> QED BY <1>2, <1>3

\* An issue borrows, rounded down, what its holders owe on top.
LEMMA BorrowedOnTop ==
    ASSUME NEW d \in Nat, NEW S \in Nat, NEW t \in Nat, NEW w \in Nat, NEW n \in Nat,
           d * PRECISE_UNIT <= w * S, PRECISE_UNIT * n <= w * t
    PROVE  (d + n) * PRECISE_UNIT <= w * (S + t)
<1>1. PRECISE_UNIT \in Int
  BY PreciseUnitAssumption
<1>2. (d + n) * PRECISE_UNIT = d * PRECISE_UNIT + PRECISE_UNIT * n
  BY <1>1
<1>3. w * (S + t) = w * S + w * t
  OBVIOUS
<1>4. /\ d * PRECISE_UNIT \in Int /\ PRECISE_UNIT * n \in Int
      /\ w * S \in Int /\ w * t \in Int
  BY <1>1
<1> QED BY <1>2, <1>3, <1>4

\* A redemption repays, rounded up, what its holders owed, or all there is.
LEMMA RepaidOffTop ==
    ASSUME NEW d \in Nat, NEW S \in Nat, NEW t \in Nat, t <= S, NEW w \in Nat, NEW n \in Nat,
           d * PRECISE_UNIT <= w * S, w * t <= PRECISE_UNIT * n
    PROVE  n <= d => (d - n) * PRECISE_UNIT <= w * (S - t)
<1>1. PRECISE_UNIT \in Int
  BY PreciseUnitAssumption
<1>2. (d - n) * PRECISE_UNIT = d * PRECISE_UNIT - PRECISE_UNIT * n
  BY <1>1
<1>3. w * (S - t) = w * S - w * t
  OBVIOUS
<1>4. /\ d * PRECISE_UNIT \in Int /\ PRECISE_UNIT * n \in Int
      /\ w * S \in Int /\ w * t \in Int
  BY <1>1
<1> QED BY <1>2, <1>3, <1>4

-----------------------------------------------------------------------------
(* The invariant.                                                           *)

\* An array of assets against the mapping that says which are enabled.
AssetsMatch(assets, enabled, Asset) ==
    /\ assets \in Seq(Asset)
    /\ ~ hasDuplicate(assets)
    /\ \A x : contains(assets, x) <=> x \in enabled

\* Positions nobody scales: no step here edits the multiplier.
Unscaled == {p \in PositionState : PositionInv(p) /\ p.positionMultiplier = PRECISE_UNIT}

\* The sign of a tracked unit.
OwedByUnit(b) == borrowUnit(pos, b) <= 0 /\ (debt[b] > 0 => borrowUnit(pos, b) < 0)

\* Collateral may be liquidated, so only the other components have their backing for good.
LInv ==
    /\ pos \in Unscaled
    /\ totalSupply \in Nat
    /\ balance \in [Component -> Nat]
    /\ debt \in [BorrowAsset -> Nat]
    /\ AssetsMatch(collateralAssets, collateralAssetEnabled, Collateral)
    /\ AssetsMatch(borrowAssets, borrowAssetEnabled, BorrowAsset)
    /\ \A b \in BorrowAsset : OwedByUnit(b)
    /\ \A c \in Component \ Collateral : Backs(pos, c, totalSupply, balance[c])

\* Edits of unscaled positions.
LEMMA UnscaledDefaultEdit ==
    ASSUME NEW p \in Unscaled, NEW c \in Component, NEW u \in Nat
    PROVE  LET r == editDefaultPosition(p, c, u)
           IN  /\ editDefaultPositionOK(p, c, u)
               /\ r \in Unscaled
               /\ getDefaultPositionRealUnit(r, c) = u
               /\ \A x \in Component \ {c} :
                    getDefaultPositionRealUnit(r, x) = getDefaultPositionRealUnit(p, x)
               /\ \A x \in Component : borrowUnit(r, x) = borrowUnit(p, x)
<1> DEFINE r == editDefaultPosition(p, c, u)
<1>1. PositionInv(p) /\ p.positionMultiplier = PRECISE_UNIT
  BY DEF Unscaled
<1>2. editDefaultPositionOK(p, c, u)
  BY <1>1, NoUnitVanishes, DefaultEditPasses
<1>3. /\ PositionInv(r)
      /\ r.positionMultiplier = p.positionMultiplier
      /\ \A x \in Component \ {c} :
           getDefaultPositionRealUnit(r, x) = getDefaultPositionRealUnit(p, x)
  BY <1>1, <1>2, UnitsAfterEdit
<1>4. /\ \A x \in Component, m \in Module :
           getExternalPositionRealUnit(r, x, m) = getExternalPositionRealUnit(p, x, m)
      /\ getDefaultPositionRealUnit(r, c) = u
  BY <1>1, <1>2, UnitsAfterDefaultEdit
<1>5. leverageModule \in Module
  BY LeverageAssumption
<1> HIDE DEF r
<1>6. r \in Unscaled
  BY <1>1, <1>3 DEF Unscaled, PositionInv
<1>7. \A x \in Component : borrowUnit(r, x) = borrowUnit(p, x)
  BY <1>4, <1>5 DEF borrowUnit
<1> QED BY <1>2, <1>3, <1>4, <1>6, <1>7 DEF r

LEMMA UnscaledBorrowEdit ==
    ASSUME NEW p \in Unscaled, NEW b \in Component, NEW u \in Int
    PROVE  LET r == updateBorrowPosition(p, b, u)
           IN  /\ updateBorrowPositionOK(p, b, u)
               /\ r \in Unscaled
               /\ borrowUnit(r, b) = u
               /\ \A x \in Component \ {b} : borrowUnit(r, x) = borrowUnit(p, x)
               /\ \A x \in Component :
                    getDefaultPositionRealUnit(r, x) = getDefaultPositionRealUnit(p, x)
<1> DEFINE r == updateBorrowPosition(p, b, u)
<1>1. PositionInv(p) /\ p.positionMultiplier = PRECISE_UNIT
  BY DEF Unscaled
<1>2. leverageModule \in Module \ UnitWriter
  BY LeverageAssumption
<1>3. updateBorrowPositionOK(p, b, u)
  BY <1>1, <1>2, NoUnitVanishes, ExternalEditPasses DEF updateBorrowPositionOK
<1>4. /\ PositionInv(r)
      /\ r.positionMultiplier = p.positionMultiplier
      /\ borrowUnit(r, b) = u
      /\ \A x \in Component \ {b} : borrowUnit(r, x) = borrowUnit(p, x)
      /\ \A x \in Component : getDefaultPositionRealUnit(r, x) = getDefaultPositionRealUnit(p, x)
  BY <1>1, <1>2, <1>3, UnitsAfterExternalEdit
     DEF updateBorrowPosition, updateBorrowPositionOK, borrowUnit
<1> HIDE DEF r
<1>5. r \in Unscaled
  BY <1>1, <1>4 DEF Unscaled, PositionInv
<1> QED BY <1>3, <1>4, <1>5 DEF r

\* What an issuer or redeemer is charged for is what the module's position says.
LEMMA DebtUnits ==
    ASSUME NEW p \in Unscaled, NEW b \in Component
    PROVE  /\ borrowUnit(p, b) \in Int
           /\ debtUnit(p, b) = - borrowUnit(p, b)
           /\ borrowUnit(p, b) # 0 => isComponent(p, b)
           /\ getDefaultPositionRealUnit(p, b) \in Nat
           /\ ~ isComponent(p, b) => getDefaultPositionRealUnit(p, b) = 0
<1>1. PositionInv(p)
  BY DEF Unscaled
<1>2. leverageModule \in Module \ UnitWriter
  BY LeverageAssumption
<1>3. /\ borrowUnit(p, b) \in Int
      /\ isExternalPositionModule(p, b, leverageModule) <=> borrowUnit(p, b) # 0
      /\ isExternalPositionModule(p, b, leverageModule) => isComponent(p, b)
  BY <1>1, <1>2, ListedWithUnit DEF borrowUnit
<1>4. PICK w \in Int : w = borrowUnit(p, b)
  BY <1>3
<1>5. debtUnit(p, b) = - borrowUnit(p, b)
  <2>1. - w = 0 - w
    OBVIOUS
  <2>2. w = 0 => 0 - w = 0
    OBVIOUS
  <2>3. borrowUnit(p, b) = 0 => - borrowUnit(p, b) = 0
    BY Zenon, <1>4, <2>1, <2>2
  <2> QED BY <1>3, <2>3 DEF debtUnit
<1> QED BY <1>1, <1>3, <1>5, RealUnits

-----------------------------------------------------------------------------
(* sync.                                                                    *)

\* The quantities sync writes.
LEMMA SyncedQuantities ==
    ASSUME LInv, totalSupply > 0
    PROVE  /\ \A i \in 1..Len(collateralAssets) :
                /\ collateralAssets[i] \in Component
                /\ getCollateralPosition(balance, collateralAssets[i]) \in Nat
           /\ \A i \in 1..Len(borrowAssets) :
                /\ borrowAssets[i] \in Component
                /\ getBorrowPosition(debt, borrowAssets[i]) \in Int
<1>1. Collateral \subseteq Component /\ BorrowAsset \subseteq Component
  BY LeverageAssumption
<1>2. ASSUME NEW i \in 1..Len(collateralAssets)
      PROVE  /\ collateralAssets[i] \in Component
             /\ getCollateralPosition(balance, collateralAssets[i]) \in Nat
  <2>1. collateralAssets[i] \in Component
    BY <1>1 DEF LInv, AssetsMatch
  <2>2. balance[collateralAssets[i]] \in Nat /\ totalSupply \in Nat
    BY <2>1 DEF LInv
  <2> QED BY <2>1, <2>2, DivIsBelow DEF getCollateralPosition
<1>3. ASSUME NEW i \in 1..Len(borrowAssets)
      PROVE  /\ borrowAssets[i] \in Component
             /\ getBorrowPosition(debt, borrowAssets[i]) \in Int
  <2>1. borrowAssets[i] \in BorrowAsset
    BY DEF LInv, AssetsMatch
  <2>2. debt[borrowAssets[i]] \in Nat /\ totalSupply \in Nat
    BY <2>1 DEF LInv
  <2>3. preciseDivCeil(debt[borrowAssets[i]], totalSupply) \in Nat
    BY <2>2, BorrowPositionCovers
  <2> QED BY <1>1, <2>1, <2>3 DEF getBorrowPosition
<1> QED BY <1>2, <1>3

\* The loop over the collateral assets takes its steps, within unscaled positions.
LEMMA CollateralLoop ==
    ASSUME LInv, totalSupply > 0
    PROVE  afterCollateral =
             [i \in 0..Len(collateralAssets) |->
                IF i = 0 THEN pos
                ELSE IF ~ collateralStale(collateralAssets[i]) THEN afterCollateral[i - 1]
                ELSE editDefaultPosition(afterCollateral[i - 1], collateralAssets[i],
                                         getCollateralPosition(balance, collateralAssets[i]))]
<1>1. pos \in Unscaled
  BY DEF LInv
<1>n. PICK n \in Nat : n = Len(collateralAssets)
  BY DEF LInv, AssetsMatch
<1> DEFINE step == [i \in 1..n |-> [q \in Unscaled |->
                      IF ~ collateralStale(collateralAssets[i]) THEN q
                      ELSE editDefaultPosition(q, collateralAssets[i],
                                               getCollateralPosition(balance, collateralAssets[i]))]]
<1>2. ASSUME NEW i \in 1..n, NEW q \in Unscaled
      PROVE  editDefaultPosition(q, collateralAssets[i],
                                 getCollateralPosition(balance, collateralAssets[i])) \in Unscaled
  BY <1>n, SyncedQuantities, UnscaledDefaultEdit
<1>3. step \in [1..n -> [Unscaled -> Unscaled]]
  BY <1>2
<1> HIDE DEF step
<1>4. PICK f \in [0..n -> Unscaled] : TakesSteps(f, n, pos, step)
  BY Zenon, <1>1, <1>n, <1>3, StepsExist
<1>5. ASSUME NEW i \in 0..n, i # 0
      PROVE  step[i][f[i - 1]] = IF ~ collateralStale(collateralAssets[i]) THEN f[i - 1]
                      ELSE editDefaultPosition(f[i - 1], collateralAssets[i],
                                               getCollateralPosition(balance, collateralAssets[i]))
  <2>1. i \in 1..n /\ i - 1 \in 0..n
    BY <1>1, <1>5
  <2>2. f[i - 1] \in Unscaled
    BY <2>1
  <2> QED BY <2>1, <2>2 DEF step
<1>6. f = [i \in 0..n |->
             IF i = 0 THEN pos
             ELSE IF ~ collateralStale(collateralAssets[i]) THEN f[i - 1]
             ELSE editDefaultPosition(f[i - 1], collateralAssets[i],
                                      getCollateralPosition(balance, collateralAssets[i]))]
  BY Zenon, <1>4, <1>5 DEF TakesSteps
<1> QED BY Zenon, <1>n, <1>6 DEF afterCollateral

\* After it every collateral asset in the array has the unit of the balance, every other
\* component the unit it had, and no debt changed.
LEMMA CollateralSynced ==
    ASSUME LInv, totalSupply > 0
    PROVE  LET q == afterCollateral[Len(collateralAssets)]
           IN  /\ q \in Unscaled
               /\ \A x \in Component :
                    /\ getDefaultPositionRealUnit(q, x) =
                         IF contains(collateralAssets, x) THEN getCollateralPosition(balance, x)
                         ELSE getDefaultPositionRealUnit(pos, x)
                    /\ borrowUnit(q, x) = borrowUnit(pos, x)
<1>1. pos \in Unscaled
  BY DEF LInv
<1>n. PICK n \in Nat : n = Len(collateralAssets)
  BY DEF LInv, AssetsMatch
<1> DEFINE Done(i, x) == \E j \in 1..i : collateralAssets[j] = x
           Synced(i, q) ==
             /\ q \in Unscaled
             /\ \A x \in Component :
                  /\ getDefaultPositionRealUnit(q, x) =
                       IF Done(i, x) THEN getCollateralPosition(balance, x)
                       ELSE getDefaultPositionRealUnit(pos, x)
                  /\ borrowUnit(q, x) = borrowUnit(pos, x)
           P == [i \in 0..n |-> Synced(i, afterCollateral[i])]
<1>2. afterCollateral[0] = pos
  BY <1>n, CollateralLoop
<1>3. ASSUME NEW i \in 1..n
      PROVE  /\ i - 1 \in 0..n /\ i \in 0..n
             /\ afterCollateral[i] =
                  IF ~ collateralStale(collateralAssets[i]) THEN afterCollateral[i - 1]
                  ELSE editDefaultPosition(afterCollateral[i - 1], collateralAssets[i],
                                           getCollateralPosition(balance, collateralAssets[i]))
  <2>1. i - 1 \in 0..n /\ i \in 0..n /\ i # 0
    BY <1>3
  <2> QED BY <1>n, <2>1, CollateralLoop
<1>4. Synced(0, pos)
  <2>1. \A x : ~ Done(0, x)
    OBVIOUS
  <2> QED BY <1>1, <2>1
<1>5. ASSUME NEW i \in 1..n, Synced(i - 1, afterCollateral[i - 1])
      PROVE  Synced(i, afterCollateral[i])
  <2>1. PICK q \in Unscaled : q = afterCollateral[i - 1]
    BY <1>5
  <2>2. PICK a \in Component : a = collateralAssets[i] /\ getCollateralPosition(balance, a) \in Nat
    BY <1>n, SyncedQuantities
  <2>3. \A x : Done(i, x) <=> Done(i - 1, x) \/ x = a
    <3>1. \A j \in 1..i : j \in 1..(i - 1) \/ j = i
      BY <1>5
    <3>2. \A j \in 1..(i - 1) : j \in 1..i
      BY <1>5
    <3>3. i \in 1..i
      BY <1>5
    <3> QED BY <2>2, <3>1, <3>2, <3>3
  <2>4. \A x \in Component :
          /\ getDefaultPositionRealUnit(q, x) =
               IF Done(i - 1, x) THEN getCollateralPosition(balance, x)
               ELSE getDefaultPositionRealUnit(pos, x)
          /\ borrowUnit(q, x) = borrowUnit(pos, x)
    BY Zenon, <1>5, <2>1
  <2> HIDE DEF Done
  <2>5. CASE ~ collateralStale(a)
    <3>1. afterCollateral[i] = q
      BY <1>3, <2>1, <2>2, <2>5
    <3>2. getDefaultPositionRealUnit(pos, a) = getCollateralPosition(balance, a)
      BY <2>5 DEF collateralStale
    <3> QED BY <2>1, <2>3, <2>4, <3>1, <3>2
  <2>6. CASE collateralStale(a)
    <3>1. PICK r : r = editDefaultPosition(q, a, getCollateralPosition(balance, a))
      OBVIOUS
    <3>2. afterCollateral[i] = r
      BY <1>3, <2>1, <2>2, <2>6, <3>1
    <3>3. /\ r \in Unscaled
          /\ getDefaultPositionRealUnit(r, a) = getCollateralPosition(balance, a)
          /\ \A x \in Component \ {a} :
               getDefaultPositionRealUnit(r, x) = getDefaultPositionRealUnit(q, x)
          /\ \A x \in Component : borrowUnit(r, x) = borrowUnit(q, x)
      BY <2>2, <3>1, UnscaledDefaultEdit
    <3> QED BY <2>3, <2>4, <3>2, <3>3
  <2> QED BY <2>5, <2>6
<1> HIDE DEF Synced
<1>6. P \in [0..n -> BOOLEAN]
  BY DEF Synced
<1>7. P[0]
  <2>1. 0 \in 0..n
    OBVIOUS
  <2> QED BY Zenon, <1>2, <1>4, <2>1
<1>8. ASSUME NEW i \in 1..n, P[i - 1] PROVE P[i]
  BY Zenon, <1>3, <1>5, <1>8
<1> HIDE DEF P
<1>9. \A i \in 0..n : P[i]
  BY Zenon, <1>n, <1>6, <1>7, <1>8, BoundedInduction
<1>10. Synced(n, afterCollateral[n])
  <2>1. n \in 0..n
    OBVIOUS
  <2> QED BY Zenon, <1>9, <2>1 DEF P
<1>11. \A x : Done(n, x) <=> contains(collateralAssets, x)
  <2>1. collateralAssets \in Seq(Collateral)
    BY DEF LInv, AssetsMatch
  <2>2. DOMAIN collateralAssets = 1..n
    BY <1>n, <2>1
  <2> QED BY Zenon, <2>2 DEF contains, Range
<1> HIDE DEF Done
<1> QED BY <1>n, <1>10, <1>11 DEF Synced

\* The loop over the borrow assets.
LEMMA BorrowLoop ==
    ASSUME LInv, totalSupply > 0
    PROVE  afterBorrow =
             [i \in 0..Len(borrowAssets) |->
                IF i = 0 THEN afterCollateral[Len(collateralAssets)]
                ELSE IF ~ borrowStale(borrowAssets[i]) THEN afterBorrow[i - 1]
                ELSE updateBorrowPosition(afterBorrow[i - 1], borrowAssets[i],
                                          getBorrowPosition(debt, borrowAssets[i]))]
<1>1. PICK q0 \in Unscaled : q0 = afterCollateral[Len(collateralAssets)]
  BY CollateralSynced
<1>n. PICK n \in Nat : n = Len(borrowAssets)
  BY DEF LInv, AssetsMatch
<1> DEFINE step == [i \in 1..n |-> [q \in Unscaled |->
                      IF ~ borrowStale(borrowAssets[i]) THEN q
                      ELSE updateBorrowPosition(q, borrowAssets[i],
                                                getBorrowPosition(debt, borrowAssets[i]))]]
<1>2. ASSUME NEW i \in 1..n, NEW q \in Unscaled
      PROVE  updateBorrowPosition(q, borrowAssets[i],
                                  getBorrowPosition(debt, borrowAssets[i])) \in Unscaled
  BY <1>n, SyncedQuantities, UnscaledBorrowEdit
<1>3. step \in [1..n -> [Unscaled -> Unscaled]]
  BY <1>2
<1> HIDE DEF step
<1>4. PICK f \in [0..n -> Unscaled] : TakesSteps(f, n, q0, step)
  BY Zenon, <1>1, <1>n, <1>3, StepsExist
<1>5. ASSUME NEW i \in 0..n, i # 0
      PROVE  step[i][f[i - 1]] = IF ~ borrowStale(borrowAssets[i]) THEN f[i - 1]
                      ELSE updateBorrowPosition(f[i - 1], borrowAssets[i],
                                                getBorrowPosition(debt, borrowAssets[i]))
  <2>1. i \in 1..n /\ i - 1 \in 0..n
    BY <1>1, <1>5
  <2>2. f[i - 1] \in Unscaled
    BY <2>1
  <2> QED BY <2>1, <2>2 DEF step
<1>6. f = [i \in 0..n |->
             IF i = 0 THEN afterCollateral[Len(collateralAssets)]
             ELSE IF ~ borrowStale(borrowAssets[i]) THEN f[i - 1]
             ELSE updateBorrowPosition(f[i - 1], borrowAssets[i],
                                       getBorrowPosition(debt, borrowAssets[i]))]
  BY Zenon, <1>1, <1>4, <1>5 DEF TakesSteps
<1> QED BY Zenon, <1>n, <1>6 DEF afterBorrow

\* What sync leaves, on a supply: exactly what the balances and debts of the moment make of
\* the units of the assets in the arrays, and every other unit as it was.
LEMMA SyncedUnits ==
    ASSUME LInv, totalSupply > 0
    PROVE  /\ synced \in Unscaled
           /\ \A x \in Component :
                /\ getDefaultPositionRealUnit(synced, x) =
                     IF contains(collateralAssets, x) THEN getCollateralPosition(balance, x)
                     ELSE getDefaultPositionRealUnit(pos, x)
                /\ borrowUnit(synced, x) =
                     IF contains(borrowAssets, x) THEN getBorrowPosition(debt, x)
                     ELSE borrowUnit(pos, x)
<1>1. PICK q0 \in Unscaled :
        /\ q0 = afterCollateral[Len(collateralAssets)]
        /\ \A x \in Component :
             /\ getDefaultPositionRealUnit(q0, x) =
                  IF contains(collateralAssets, x) THEN getCollateralPosition(balance, x)
                  ELSE getDefaultPositionRealUnit(pos, x)
             /\ borrowUnit(q0, x) = borrowUnit(pos, x)
  BY CollateralSynced
<1>n. PICK n \in Nat : n = Len(borrowAssets)
  BY DEF LInv, AssetsMatch
<1> DEFINE Done(i, x) == \E j \in 1..i : borrowAssets[j] = x
           Synced(i, q) ==
             /\ q \in Unscaled
             /\ \A x \in Component :
                  /\ getDefaultPositionRealUnit(q, x) = getDefaultPositionRealUnit(q0, x)
                  /\ borrowUnit(q, x) = IF Done(i, x) THEN getBorrowPosition(debt, x)
                                        ELSE borrowUnit(pos, x)
           P == [i \in 0..n |-> Synced(i, afterBorrow[i])]
<1>2. afterBorrow[0] = q0
  BY <1>1, <1>n, BorrowLoop
<1>3. ASSUME NEW i \in 1..n
      PROVE  /\ i - 1 \in 0..n /\ i \in 0..n
             /\ afterBorrow[i] =
                  IF ~ borrowStale(borrowAssets[i]) THEN afterBorrow[i - 1]
                  ELSE updateBorrowPosition(afterBorrow[i - 1], borrowAssets[i],
                                            getBorrowPosition(debt, borrowAssets[i]))
  <2>1. i - 1 \in 0..n /\ i \in 0..n /\ i # 0
    BY <1>3
  <2> QED BY <1>n, <2>1, BorrowLoop
<1>4. Synced(0, q0)
  <2>1. \A x : ~ Done(0, x)
    OBVIOUS
  <2> QED BY <1>1, <2>1
<1>5. ASSUME NEW i \in 1..n, Synced(i - 1, afterBorrow[i - 1])
      PROVE  Synced(i, afterBorrow[i])
  <2>1. PICK q \in Unscaled : q = afterBorrow[i - 1]
    BY <1>5
  <2>2. PICK b \in Component : b = borrowAssets[i] /\ getBorrowPosition(debt, b) \in Int
    BY <1>n, SyncedQuantities
  <2>3. \A x : Done(i, x) <=> Done(i - 1, x) \/ x = b
    <3>1. \A j \in 1..i : j \in 1..(i - 1) \/ j = i
      BY <1>5
    <3>2. \A j \in 1..(i - 1) : j \in 1..i
      BY <1>5
    <3>3. i \in 1..i
      BY <1>5
    <3> QED BY <2>2, <3>1, <3>2, <3>3
  <2>4. \A x \in Component :
          /\ getDefaultPositionRealUnit(q, x) = getDefaultPositionRealUnit(q0, x)
          /\ borrowUnit(q, x) = IF Done(i - 1, x) THEN getBorrowPosition(debt, x)
                                ELSE borrowUnit(pos, x)
    BY Zenon, <1>5, <2>1
  <2> HIDE DEF Done
  <2>5. CASE ~ borrowStale(b)
    <3>1. afterBorrow[i] = q
      BY <1>3, <2>1, <2>2, <2>5
    <3>2. borrowUnit(pos, b) = getBorrowPosition(debt, b)
      BY <2>5 DEF borrowStale
    <3> QED BY <2>1, <2>3, <2>4, <3>1, <3>2
  <2>6. CASE borrowStale(b)
    <3>1. PICK r : r = updateBorrowPosition(q, b, getBorrowPosition(debt, b))
      OBVIOUS
    <3>2. afterBorrow[i] = r
      BY <1>3, <2>1, <2>2, <2>6, <3>1
    <3>3. /\ r \in Unscaled
          /\ borrowUnit(r, b) = getBorrowPosition(debt, b)
          /\ \A x \in Component \ {b} : borrowUnit(r, x) = borrowUnit(q, x)
          /\ \A x \in Component :
               getDefaultPositionRealUnit(r, x) = getDefaultPositionRealUnit(q, x)
      BY <2>2, <3>1, UnscaledBorrowEdit
    <3> QED BY <2>3, <2>4, <3>2, <3>3
  <2> QED BY <2>5, <2>6
<1> HIDE DEF Synced
<1>6. P \in [0..n -> BOOLEAN]
  BY DEF Synced
<1>7. P[0]
  <2>1. 0 \in 0..n
    OBVIOUS
  <2> QED BY Zenon, <1>2, <1>4, <2>1
<1>8. ASSUME NEW i \in 1..n, P[i - 1] PROVE P[i]
  BY Zenon, <1>3, <1>5, <1>8
<1> HIDE DEF P
<1>9. \A i \in 0..n : P[i]
  BY Zenon, <1>n, <1>6, <1>7, <1>8, BoundedInduction
<1>10. Synced(n, afterBorrow[n])
  <2>1. n \in 0..n
    OBVIOUS
  <2> QED BY Zenon, <1>9, <2>1 DEF P
<1>11. \A x : Done(n, x) <=> contains(borrowAssets, x)
  <2>1. borrowAssets \in Seq(BorrowAsset)
    BY DEF LInv, AssetsMatch
  <2>2. DOMAIN borrowAssets = 1..n
    BY <1>n, <2>1
  <2> QED BY Zenon, <2>2 DEF contains, Range
<1> HIDE DEF Done
<1>12. PICK q \in Unscaled :
         /\ q = afterBorrow[n]
         /\ \A x \in Component :
              /\ getDefaultPositionRealUnit(q, x) = getDefaultPositionRealUnit(q0, x)
              /\ borrowUnit(q, x) = IF contains(borrowAssets, x) THEN getBorrowPosition(debt, x)
                                    ELSE borrowUnit(pos, x)
  BY <1>10, <1>11 DEF Synced
<1>13. totalSupply # 0
  BY DEF LInv
<1>14. synced = q
  BY <1>n, <1>12, <1>13 DEF synced
<1> QED BY <1>1, <1>12, <1>14

\* DebtCovered for any positions, supply and debt.
Covers(p, b, S, d) == d * PRECISE_UNIT <= (- borrowUnit(p, b)) * S

LEMMA CoverForms ==
    ASSUME NEW p \in Unscaled, NEW b \in Component, NEW S \in Nat, NEW d
    PROVE  Covers(p, b, S, d) <=> d * PRECISE_UNIT <= - borrowUnit(p, b) * S
<1>1. PICK u \in Int : u = borrowUnit(p, b)
  BY DebtUnits
<1>2. (- u) * S = - u * S
  OBVIOUS
<1>3. (- borrowUnit(p, b)) * S = - borrowUnit(p, b) * S
  BY Zenon, <1>1, <1>2
<1> QED BY Zenon, <1>3 DEF Covers

\* A unit that stands for the whole debt covers it.
LEMMA WrittenUnitCovers ==
    ASSUME NEW p \in Unscaled, NEW b \in Component, NEW S \in Nat, S > 0, NEW d \in Nat,
           borrowUnit(p, b) = - preciseDivCeil(d, S)
    PROVE  Covers(p, b, S, d) /\ borrowUnit(p, b) <= 0 /\ (d > 0 <=> borrowUnit(p, b) < 0)
<1>1. PICK k \in Nat : /\ k = preciseDivCeil(d, S)
                       /\ d * PRECISE_UNIT <= k * S
                       /\ k > 0 <=> d > 0
  BY BorrowPositionCovers
<1>2. borrowUnit(p, b) = - k
  BY Zenon, <1>1
<1>3. PICK u \in Int : u = borrowUnit(p, b)
  BY DebtUnits
<1>4. - u = k /\ u <= 0 /\ (k > 0 <=> u < 0)
  BY <1>2, <1>3
<1>5. (- borrowUnit(p, b)) * S = k * S
  BY Zenon, <1>3, <1>4
<1>6. Covers(p, b, S, d)
  BY Zenon, <1>1, <1>5 DEF Covers
<1> QED BY <1>1, <1>3, <1>4, <1>6

\* sync covers the debts in the array, and takes no other out of cover.
LEMMA SyncedDebts ==
    ASSUME LInv, NEW b \in BorrowAsset
    PROVE  /\ synced \in Unscaled
           /\ borrowUnit(synced, b) <= 0 /\ (debt[b] > 0 => borrowUnit(synced, b) < 0)
           /\ contains(borrowAssets, b) /\ (totalSupply > 0 \/ debt[b] = 0)
                => Covers(synced, b, totalSupply, debt[b])
           /\ Covers(pos, b, totalSupply, debt[b]) => Covers(synced, b, totalSupply, debt[b])
<1>1. /\ totalSupply \in Nat /\ debt[b] \in Nat /\ pos \in Unscaled /\ OwedByUnit(b)
      /\ b \in Component
  BY LeverageAssumption DEF LInv
<1>2. CASE totalSupply = 0
  <2>1. synced = pos
    BY <1>2 DEF synced
  <2>2. debt[b] = 0 => Covers(pos, b, totalSupply, debt[b])
    <3>1. PICK u \in Int : u = borrowUnit(pos, b)
      BY <1>1, DebtUnits
    <3>2. 0 * PRECISE_UNIT <= (- u) * 0
      BY PreciseUnitAssumption
    <3> QED BY <1>2, <3>1, <3>2 DEF Covers
  <2> QED BY <1>1, <1>2, <2>1, <2>2 DEF OwedByUnit
<1>3. CASE totalSupply > 0
  <2>1. /\ synced \in Unscaled
        /\ borrowUnit(synced, b) = IF contains(borrowAssets, b) THEN getBorrowPosition(debt, b)
                                   ELSE borrowUnit(pos, b)
    BY <1>1, <1>3, SyncedUnits
  <2>2. CASE contains(borrowAssets, b)
    <3>1. borrowUnit(synced, b) = - preciseDivCeil(debt[b], totalSupply)
      BY <2>1, <2>2 DEF getBorrowPosition
    <3> QED BY <1>1, <1>3, <2>1, <3>1, WrittenUnitCovers
  <2>3. CASE ~ contains(borrowAssets, b)
    <3>1. borrowUnit(synced, b) = borrowUnit(pos, b)
      BY <2>1, <2>3
    <3> QED BY <1>1, <2>1, <2>3, <3>1 DEF OwedByUnit, Covers
  <2> QED BY <2>2, <2>3
<1> QED BY <1>1, <1>2, <1>3

\* sync leaves the units of everything but collateral alone.
LEMMA SyncedElsewhere ==
    ASSUME LInv, NEW c \in Component \ Collateral
    PROVE  getDefaultPositionRealUnit(synced, c) = getDefaultPositionRealUnit(pos, c)
<1>1. totalSupply \in Nat /\ ~ contains(collateralAssets, c)
  BY DEF LInv, AssetsMatch, contains, Range
<1>2. CASE totalSupply = 0
  BY <1>2 DEF synced
<1>3. CASE totalSupply > 0
  BY <1>1, <1>3, SyncedUnits
<1> QED BY <1>1, <1>2, <1>3

-----------------------------------------------------------------------------
(* The steps that keep the invariant, and which debts they keep covered.    *)

KeepsCovered(b) == Covers(pos, b, totalSupply, debt[b]) => Covers(pos', b, totalSupply', debt'[b])

LEMMA InitLInv == LeverageInit => LInv
<1> SUFFICES ASSUME LeverageInit PROVE LInv
  OBVIOUS
<1>1. IInv
  BY InitIInv DEF LeverageInit
<1>2. PICK components \in ComponentLists, units \in [Component -> InitialUnit] :
        pos = InitialPositions(components, units)
  BY DEF LeverageInit, Init
<1>3. pos.positionMultiplier = PRECISE_UNIT
  BY <1>2 DEF InitialPositions
<1>4. pos \in Unscaled
  BY <1>1, <1>3 DEF IInv, Unscaled, PositionInv
<1>5. ASSUME NEW b \in BorrowAsset PROVE OwedByUnit(b)
  <2>1. b \in Component /\ leverageModule \in Module
    BY LeverageAssumption
  <2>2. pos.externalVirtualUnit[b][leverageModule] = 0
    BY <1>2, <2>1 DEF InitialPositions
  <2>3. conservativePreciseMul(0, PRECISE_UNIT) = 0
    BY ExactRoundTrip
  <2>4. borrowUnit(pos, b) = 0
    BY <1>3, <2>2, <2>3 DEF borrowUnit, getExternalPositionRealUnit, convertVirtualToRealUnit
  <2>5. debt[b] = 0
    BY DEF LeverageInit
  <2> QED BY <2>4, <2>5 DEF OwedByUnit
<1>6. ASSUME NEW Asset PROVE AssetsMatch(<<>>, {}, Asset)
  BY DEF AssetsMatch, hasDuplicate, IsInjective, contains, Range
<1>7. \A c \in Component \ Collateral : Backs(pos, c, totalSupply, balance[c])
  BY <1>1 DEF IInv
<1>8. debt \in [BorrowAsset -> Nat]
  BY DEF LeverageInit
<1>9. totalSupply \in Nat /\ balance \in [Component -> Nat]
  BY <1>1 DEF IInv
<1>10. /\ collateralAssets = <<>> /\ borrowAssets = <<>>
       /\ collateralAssetEnabled = {} /\ borrowAssetEnabled = {}
  BY DEF LeverageInit
<1>11. /\ AssetsMatch(collateralAssets, collateralAssetEnabled, Collateral)
       /\ AssetsMatch(borrowAssets, borrowAssetEnabled, BorrowAsset)
  BY Zenon, <1>6, <1>10
<1> QED BY <1>4, <1>5, <1>7, <1>8, <1>9, <1>11 DEF LInv

\* updateLeverPositions writes the two units of the assets of the trade.
LEMMA LeverUnits ==
    ASSUME NEW p \in Unscaled, NEW a \in Collateral, NEW b \in BorrowAsset,
           totalSupply \in Nat, totalSupply > 0, NEW B, NEW D, B[a] \in Nat, D[b] \in Nat
    PROVE  LET r == updateLeverPositions(p, B, D, a, b)
           IN  /\ r \in Unscaled
               /\ borrowUnit(r, b) = - preciseDivCeil(D[b], totalSupply)
               /\ \A x \in Component \ {b} : borrowUnit(r, x) = borrowUnit(p, x)
               /\ \A x \in Component \ Collateral :
                    getDefaultPositionRealUnit(r, x) = getDefaultPositionRealUnit(p, x)
<1>1. a \in Component /\ b \in Component
  BY LeverageAssumption
<1>2. getCollateralPosition(B, a) \in Nat
  BY DivIsBelow DEF getCollateralPosition
<1>3. /\ getBorrowPosition(D, b) = - preciseDivCeil(D[b], totalSupply)
      /\ getBorrowPosition(D, b) \in Int
  <2>1. preciseDivCeil(D[b], totalSupply) \in Nat
    BY BorrowPositionCovers
  <2> QED BY <2>1 DEF getBorrowPosition
<1>4. PICK q \in Unscaled :
        /\ q = editDefaultPosition(p, a, getCollateralPosition(B, a))
        /\ \A x \in Component \ {a} :
             getDefaultPositionRealUnit(q, x) = getDefaultPositionRealUnit(p, x)
        /\ \A x \in Component : borrowUnit(q, x) = borrowUnit(p, x)
  BY <1>1, <1>2, UnscaledDefaultEdit
<1>5. PICK r : r = updateBorrowPosition(q, b, getBorrowPosition(D, b))
  OBVIOUS
<1>6. r = updateLeverPositions(p, B, D, a, b)
  BY <1>4, <1>5 DEF updateLeverPositions
<1>7. /\ r \in Unscaled
      /\ borrowUnit(r, b) = getBorrowPosition(D, b)
      /\ \A x \in Component \ {b} : borrowUnit(r, x) = borrowUnit(q, x)
      /\ \A x \in Component : getDefaultPositionRealUnit(r, x) = getDefaultPositionRealUnit(q, x)
  BY <1>1, <1>3, <1>5, UnscaledBorrowEdit
<1> QED BY <1>3, <1>4, <1>6, <1>7

\* The common end of lever and both delevers.
LEMMA LeveredKeepsLInv ==
    ASSUME LInv, totalSupply > 0, NEW a \in Collateral, NEW b \in BorrowAsset,
           NEW p \in Unscaled, \A x \in BorrowAsset : borrowUnit(p, x) = borrowUnit(pos, x),
           NEW B \in [Component -> Nat], NEW d \in Nat,
           \A c \in Component \ Collateral : Backs(p, c, totalSupply, B[c]),
           pos' = updateLeverPositions(p, B, [debt EXCEPT ![b] = d], a, b),
           balance' = B, debt' = [debt EXCEPT ![b] = d], UNCHANGED <<totalSupply, assetVars>>
    PROVE  LInv' /\ \A x \in BorrowAsset : KeepsCovered(x)
<1>1. /\ totalSupply \in Nat /\ debt \in [BorrowAsset -> Nat]
      /\ BorrowAsset \subseteq Component
      /\ \A x \in BorrowAsset : OwedByUnit(x)
  BY LeverageAssumption DEF LInv
<1>2. PICK D \in [BorrowAsset -> Nat] : D = debt' /\ D = [debt EXCEPT ![b] = d]
  BY <1>1
<1>3. D[b] = d /\ \A x \in BorrowAsset \ {b} : D[x] = debt[x]
  BY <1>1, <1>2
<1>4. B[a] \in Nat
  BY LeverageAssumption
<1>5. PICK r \in Unscaled :
        /\ r = pos'
        /\ borrowUnit(r, b) = - preciseDivCeil(d, totalSupply)
        /\ \A x \in Component \ {b} : borrowUnit(r, x) = borrowUnit(p, x)
        /\ \A x \in Component \ Collateral :
             getDefaultPositionRealUnit(r, x) = getDefaultPositionRealUnit(p, x)
  <2>1. D[b] \in Nat
    OBVIOUS
  <2>2. PICK r : r = updateLeverPositions(p, B, D, a, b)
    OBVIOUS
  <2>3. /\ r \in Unscaled
        /\ borrowUnit(r, b) = - preciseDivCeil(D[b], totalSupply)
        /\ \A x \in Component \ {b} : borrowUnit(r, x) = borrowUnit(p, x)
        /\ \A x \in Component \ Collateral :
             getDefaultPositionRealUnit(r, x) = getDefaultPositionRealUnit(p, x)
    BY <1>1, <1>4, <2>1, <2>2, LeverUnits
  <2>4. r = pos'
    BY <1>2, <2>2
  <2> QED BY <1>3, <2>3, <2>4
<1>6. Covers(r, b, totalSupply, d) /\ borrowUnit(r, b) <= 0 /\ (d > 0 <=> borrowUnit(r, b) < 0)
  BY <1>1, <1>5, WrittenUnitCovers
<1>7. ASSUME NEW x \in BorrowAsset
      PROVE  /\ borrowUnit(r, x) <= 0 /\ (D[x] > 0 => borrowUnit(r, x) < 0)
             /\ Covers(pos, x, totalSupply, debt[x]) => Covers(r, x, totalSupply, D[x])
  <2>1. CASE x = b
    BY <1>3, <1>6, <2>1
  <2>2. CASE x # b
    <3>1. borrowUnit(r, x) = borrowUnit(pos, x) /\ D[x] = debt[x]
      BY <1>1, <1>3, <1>5, <2>2
    <3> QED BY <1>1, <3>1 DEF OwedByUnit, Covers
  <2> QED BY <2>1, <2>2
<1>8. ASSUME NEW c \in Component \ Collateral PROVE Backs(r, c, totalSupply, B[c])
  BY <1>5 DEF Backs
<1>9. \A x \in BorrowAsset : OwedByUnit(x)'
  BY <1>2, <1>5, <1>7 DEF OwedByUnit
<1>10. \A c \in Component \ Collateral : Backs(pos', c, totalSupply', balance'[c])
  BY <1>5, <1>8
<1>11. /\ AssetsMatch(collateralAssets', collateralAssetEnabled', Collateral)
       /\ AssetsMatch(borrowAssets', borrowAssetEnabled', BorrowAsset)
  BY DEF LInv, assetVars
<1>12. LInv'
  BY <1>1, <1>2, <1>5, <1>9, <1>10, <1>11 DEF LInv, Backs
<1> QED BY <1>2, <1>5, <1>7, <1>12 DEF KeepsCovered

\* Nothing is levered or delevered on a supply of zero.
LEMMA NothingOnNoSupply ==
    ASSUME totalSupply \in Nat, NEW x \in Nat, preciseMul(x, totalSupply) > 0
    PROVE  totalSupply > 0
<1>1. PRECISE_UNIT \in Nat /\ PRECISE_UNIT > 0
  BY PreciseUnitAssumption
<1>2. CASE totalSupply = 0
  <2>1. x * 0 = 0
    OBVIOUS
  <2>2. 0 \div PRECISE_UNIT = 0
    BY <1>1
  <2>3. preciseMul(x, totalSupply) = 0
    BY Zenon, <1>2, <2>1, <2>2 DEF preciseMul
  <2> QED BY <2>3
<1> QED BY <1>2

LEMMA LeverKeepsLInv ==
    ASSUME LInv, NEW b \in BorrowAsset, NEW a \in Collateral,
           NEW x \in TradeUnit, NEW y \in TradeUnit,
           NEW s \in TokenAmount, NEW g \in TokenAmount, NEW f \in FeeRate,
           Lever(b, a, x, y, s, g, f)
    PROVE  LInv' /\ \A z \in BorrowAsset : KeepsCovered(z)
<1> DEFINE borrowed == preciseMul(x, totalSupply)
           deposited == g - preciseMul(g, f)
           B == [balance EXCEPT ![a] = @ + deposited, ![b] = @ + borrowed - s]
           d == debt[b] + borrowed
<1>1. /\ x \in Nat /\ s \in Nat /\ g \in Nat /\ f \in Nat
      /\ totalSupply \in Nat /\ pos \in Unscaled
      /\ balance \in [Component -> Nat] /\ debt \in [BorrowAsset -> Nat]
      /\ a \in Component /\ b \in Component /\ a # b
      /\ Collateral \subseteq Component
  BY IssuanceAssumption, LeverageAssumption DEF LInv
<1>2. borrowed \in Nat /\ preciseMul(g, f) \in Nat
  BY <1>1, MulIsBelow
<1>3. /\ borrowed > 0 /\ s <= borrowed /\ deposited > 0
      /\ pos' = updateLeverPositions(pos, B, [debt EXCEPT ![b] = d], a, b)
      /\ UNCHANGED <<totalSupply, moduleVars>>
      /\ Settle(B, [debt EXCEPT ![b] = d])
  BY Zenon DEF Lever, validateCommon
<1>4. totalSupply > 0
  BY <1>1, <1>3, NothingOnNoSupply
<1> HIDE DEF borrowed
<1>5. deposited \in Nat
  BY <1>1, <1>2, <1>3
<1> HIDE DEF deposited
<1>6. B \in [Component -> Nat] /\ d \in Nat
  BY <1>1, <1>2, <1>3, <1>5
<1>7. \A c \in Component \ Collateral : B[c] \in Nat /\ balance[c] <= B[c]
  BY <1>1, <1>2, <1>3, <1>5
<1> HIDE DEF B, d
<1>8. ASSUME NEW c \in Component \ Collateral PROVE Backs(pos, c, totalSupply, B[c])
  <2>1. getDefaultPositionRealUnit(pos, c) \in Nat /\ balance[c] \in Nat
    BY <1>1, DebtUnits
  <2>2. totalSupply * getDefaultPositionRealUnit(pos, c) <= PRECISE_UNIT * balance[c]
    BY DEF LInv, Backs
  <2>3. PRECISE_UNIT * balance[c] <= PRECISE_UNIT * B[c]
    BY <1>7, <2>1, MoreTokens
  <2>4. /\ totalSupply * getDefaultPositionRealUnit(pos, c) \in Int
        /\ PRECISE_UNIT * balance[c] \in Int /\ PRECISE_UNIT * B[c] \in Int
    BY <1>1, <1>7, <2>1, PreciseUnitAssumption
  <2> QED BY <2>2, <2>3, <2>4 DEF Backs
<1>9. balance' = B /\ debt' = [debt EXCEPT ![b] = d] /\ UNCHANGED <<totalSupply, assetVars>>
  BY Zenon, <1>3 DEF Settle, moduleVars
<1>10. \A z \in BorrowAsset : borrowUnit(pos, z) = borrowUnit(pos, z)
  OBVIOUS
<1> QED BY Zenon, <1>1, <1>3, <1>4, <1>6, <1>8, <1>9, <1>10, LeveredKeepsLInv

\* A surplus from delevering becomes a default position the balance backs.
LEMMA SurplusUnits ==
    ASSUME LInv, NEW b \in BorrowAsset, NEW B \in [Component -> Nat], repaySurplusOK(b, B)
    PROVE  LET p == repaySurplus(b, B)
           IN  /\ p \in Unscaled
               /\ \A x \in BorrowAsset : borrowUnit(p, x) = borrowUnit(pos, x)
               /\ \A c \in Component \ {b} :
                    getDefaultPositionRealUnit(p, c) = getDefaultPositionRealUnit(pos, c)
               /\ Backs(p, b, totalSupply, B[b])
<1>1. /\ pos \in Unscaled /\ totalSupply \in Nat /\ b \in Component
      /\ balance[b] \in Nat /\ B[b] \in Nat /\ BorrowAsset \subseteq Component
      /\ b \notin Collateral
  BY LeverageAssumption DEF LInv
<1>2. CASE B[b] = balance[b]
  <2>1. repaySurplus(b, B) = pos
    BY <1>2 DEF repaySurplus
  <2>2. Backs(pos, b, totalSupply, balance[b])
    BY <1>1 DEF LInv
  <2> QED BY <1>1, <1>2, <2>1, <2>2
<1>3. CASE B[b] # balance[b]
  <2> DEFINE p == calculateAndEditDefaultPosition(pos, b, totalSupply, balance[b], B[b])
             old == getDefaultPositionRealUnit(pos, b)
             new == IF B[b] > 0
                    THEN calculateDefaultEditPositionUnit(totalSupply, balance[b], B[b], old) ELSE 0
  <2>1. repaySurplus(b, B) = p
    BY <1>3 DEF repaySurplus
  <2>2. calculateAndEditDefaultPositionOK(pos, b, totalSupply, balance[b], B[b])
    BY <1>3 DEF repaySurplusOK
  <2>3. p = editDefaultPosition(pos, b, new)
    BY DEF calculateAndEditDefaultPosition
  <2>4. PositionInv(pos)
    BY <1>1 DEF Unscaled
  <2>5. /\ totalSupply * getDefaultPositionRealUnit(p, b) <= PRECISE_UNIT * B[b]
        /\ \A c \in Component \ {b} :
             getDefaultPositionRealUnit(p, c) = getDefaultPositionRealUnit(pos, c)
    BY <1>1, <2>2, <2>4, EditedToBalance
  <2>6. new \in Nat
    <3>1. CASE B[b] > 0
      <4>1. PICK m \in Int : m = AirdroppedAmount(totalSupply, balance[b], old)
        <5>1. old \in Nat
          BY <1>1, DebtUnits
        <5>2. preciseMul(old, totalSupply) \in Nat
          BY <1>1, <5>1, MulIsBelow
        <5> QED BY <1>1, <5>2 DEF AirdroppedAmount
      <4>2. m <= B[b] /\ totalSupply # 0
        BY <2>2, <3>1, <4>1
           DEF calculateAndEditDefaultPositionOK, calculateDefaultEditPositionUnitOK
      <4>3. B[b] - m \in Nat /\ totalSupply > 0
        BY <1>1, <4>1, <4>2
      <4>4. preciseDiv(B[b] - m, totalSupply) \in Nat
        BY <1>1, <4>3, DivIsBelow
      <4>5. new = preciseDiv(B[b] - m, totalSupply)
        BY <3>1, <4>1 DEF calculateDefaultEditPositionUnit
      <4> QED BY <4>4, <4>5
    <3>2. CASE ~ (B[b] > 0)
      BY <3>2
    <3> QED BY <3>1, <3>2
  <2> HIDE DEF new, old, p
  <2>7. p \in Unscaled /\ \A x \in Component : borrowUnit(p, x) = borrowUnit(pos, x)
    BY <1>1, <2>3, <2>6, UnscaledDefaultEdit
  <2> QED BY <1>1, <2>1, <2>5, <2>7 DEF Backs
<1> QED BY <1>2, <1>3

\* Delever and deleverToZeroBorrowBalance.
LEMMA RepayKeepsLInv ==
    ASSUME LInv, NEW b \in BorrowAsset, NEW a \in Collateral, NEW x \in TradeUnit,
           NEW keep \in Int, NEW repay \in Int, repay <= keep,
           Repay(a, b, preciseMul(x, totalSupply), keep, repay)
    PROVE  LInv' /\ \A z \in BorrowAsset : KeepsCovered(z)
<1>1. /\ x \in Nat /\ totalSupply \in Nat /\ pos \in Unscaled
      /\ balance \in [Component -> Nat] /\ debt \in [BorrowAsset -> Nat]
      /\ a \in Component /\ b \in Component /\ a # b /\ b \notin Collateral
      /\ Collateral \subseteq Component
  BY IssuanceAssumption, LeverageAssumption DEF LInv
<1>2. PICK w \in Nat : w = preciseMul(x, totalSupply)
  BY <1>1, MulIsBelow
<1>3. PICK k : k = repaid(b, repay)
  OBVIOUS
<1> DEFINE B == [balance EXCEPT ![a] = @ - w, ![b] = @ + keep - k]
           d == debt[b] - k
           p == repaySurplus(b, B)
<1>4. /\ w > 0 /\ w <= balance[a] /\ repay > 0
      /\ repaySurplusOK(b, B)
      /\ pos' = updateLeverPositions(p, B, [debt EXCEPT ![b] = d], a, b)
      /\ UNCHANGED <<totalSupply, moduleVars>>
      /\ Settle(B, [debt EXCEPT ![b] = d])
  BY Zenon, <1>2, <1>3 DEF Repay, validateCommon
<1>5. totalSupply > 0
  BY <1>1, <1>2, <1>4, NothingOnNoSupply
<1>6. k \in Nat /\ k <= keep /\ k <= debt[b] /\ debt[b] \in Nat
  BY <1>1, <1>3, <1>4 DEF repaid
<1>7. B \in [Component -> Nat] /\ d \in Nat
  BY <1>1, <1>4, <1>6
<1>8. \A c \in Component \ Collateral : c # b => B[c] = balance[c]
  BY <1>1
<1> HIDE DEF B, d
<1>9. /\ p \in Unscaled
      /\ \A z \in BorrowAsset : borrowUnit(p, z) = borrowUnit(pos, z)
      /\ \A c \in Component \ {b} :
           getDefaultPositionRealUnit(p, c) = getDefaultPositionRealUnit(pos, c)
      /\ Backs(p, b, totalSupply, B[b])
  BY <1>4, <1>7, SurplusUnits
<1> HIDE DEF p
<1>10. ASSUME NEW c \in Component \ Collateral PROVE Backs(p, c, totalSupply, B[c])
  <2>1. CASE c = b
    BY <1>9, <2>1
  <2>2. CASE c # b
    <3>1. Backs(pos, c, totalSupply, balance[c])
      BY DEF LInv
    <3> QED BY <1>8, <1>9, <2>2, <3>1 DEF Backs
  <2> QED BY <2>1, <2>2
<1>11. balance' = B /\ debt' = [debt EXCEPT ![b] = d] /\ UNCHANGED <<totalSupply, assetVars>>
  BY Zenon, <1>4 DEF Settle, moduleVars
<1> QED BY Zenon, <1>4, <1>5, <1>7, <1>9, <1>10, <1>11, LeveredKeepsLInv

LEMMA DeleverKeepsLInv ==
    ASSUME LInv, NEW b \in BorrowAsset, NEW a \in Collateral,
           NEW x \in TradeUnit, NEW y \in TradeUnit, NEW g \in TokenAmount, NEW f \in FeeRate,
           Delever(a, b, x, y, g, f)
    PROVE  LInv' /\ \A z \in BorrowAsset : KeepsCovered(z)
<1>1. g \in Nat /\ f \in Nat
  BY IssuanceAssumption
<1>2. PICK n \in Int : n = g - preciseMul(g, f)
  BY <1>1, MulIsBelow
<1>3. Repay(a, b, preciseMul(x, totalSupply), n, n)
  BY Zenon, <1>2 DEF Delever
<1>4. n <= n
  BY <1>2
<1> QED BY Zenon, <1>2, <1>3, <1>4, RepayKeepsLInv

LEMMA DeleverToZeroKeepsLInv ==
    ASSUME LInv, NEW b \in BorrowAsset, NEW a \in Collateral,
           NEW x \in TradeUnit, NEW g \in TokenAmount, DeleverToZeroBorrowBalance(a, b, x, g)
    PROVE  LInv' /\ \A z \in BorrowAsset : KeepsCovered(z)
<1>1. debt[b] <= g /\ g \in Int /\ debt[b] \in Int
  BY IssuanceAssumption DEF LInv, DeleverToZeroBorrowBalance
<1>2. Repay(a, b, preciseMul(x, totalSupply), g, debt[b])
  BY Zenon DEF DeleverToZeroBorrowBalance
<1> QED BY Zenon, <1>1, <1>2, RepayKeepsLInv

\* Arrays and mappings of assets stay together.
LEMMA AssetAdded ==
    ASSUME NEW X, NEW A, NEW E, AssetsMatch(A, E, X), NEW a \in X, a \notin E
    PROVE  AssetsMatch(Append(A, a), E \union {a}, X)
<1>1. /\ Append(A, a) \in Seq(X)
      /\ \A x : contains(Append(A, a), x) <=> contains(A, x) \/ x = a
      /\ ~ hasDuplicate(A) /\ ~ contains(A, a) => ~ hasDuplicate(Append(A, a))
  BY AppendFacts DEF AssetsMatch
<1> QED BY <1>1 DEF AssetsMatch

LEMMA AssetRemoved ==
    ASSUME NEW X, NEW A, NEW E, AssetsMatch(A, E, X), NEW a \in E
    PROVE  AssetsMatch(removeStorage(A, a), E \ {a}, X)
<1>1. /\ removeStorage(A, a) \in Seq(X)
      /\ \A x : contains(removeStorage(A, a), x) <=> contains(A, x) /\ x # a
      /\ ~ hasDuplicate(removeStorage(A, a))
  BY RemoveStorageFacts DEF AssetsMatch
<1> QED BY <1>1 DEF AssetsMatch

LEMMA AssetsCleared ==
    ASSUME NEW X, NEW A, NEW E, AssetsMatch(A, E, X)
    PROVE  AssetsMatch(<<>>, E \ Range(A), X)
BY DEF AssetsMatch, hasDuplicate, IsInjective, contains, Range

\* More of a component backs what less of it did.
LEMMA MoreStillBacks ==
    ASSUME NEW p \in Unscaled, NEW q \in Unscaled, NEW c \in Component,
           getDefaultPositionRealUnit(q, c) = getDefaultPositionRealUnit(p, c),
           NEW S \in Nat, NEW n \in Nat, NEW m \in Nat, n <= m, Backs(p, c, S, n)
    PROVE  Backs(q, c, S, m)
<1>1. PICK u \in Nat : u = getDefaultPositionRealUnit(p, c) /\ u = getDefaultPositionRealUnit(q, c)
  BY DebtUnits
<1>2. S * u <= PRECISE_UNIT * n
  BY <1>1 DEF Backs
<1>3. PRECISE_UNIT * n <= PRECISE_UNIT * m
  BY MoreTokens
<1>4. S * u \in Int /\ PRECISE_UNIT * n \in Int /\ PRECISE_UNIT * m \in Int
  BY PreciseUnitAssumption
<1>5. S * u <= PRECISE_UNIT * m
  BY <1>2, <1>3, <1>4
<1> QED BY <1>1, <1>5 DEF Backs

\* Aave's steps and everything that moves no position.
LEMMA SameUnitsKeepLInv ==
    ASSUME LInv, UNCHANGED <<pos, totalSupply>>,
           balance' \in [Component -> Nat], debt' \in [BorrowAsset -> Nat],
           \A c \in Component \ Collateral : balance[c] <= balance'[c],
           \A b \in BorrowAsset : debt'[b] <= debt[b] \/ debt[b] > 0,
           AssetsMatch(collateralAssets', collateralAssetEnabled', Collateral),
           AssetsMatch(borrowAssets', borrowAssetEnabled', BorrowAsset)
    PROVE  /\ LInv'
           /\ \A b \in BorrowAsset : debt'[b] <= debt[b] => KeepsCovered(b)
<1>1. /\ pos \in Unscaled /\ totalSupply \in Nat /\ balance \in [Component -> Nat]
      /\ debt \in [BorrowAsset -> Nat] /\ BorrowAsset \subseteq Component
      /\ \A b \in BorrowAsset : OwedByUnit(b)
      /\ \A c \in Component \ Collateral : Backs(pos, c, totalSupply, balance[c])
  BY LeverageAssumption DEF LInv
<1>2. ASSUME NEW c \in Component \ Collateral PROVE Backs(pos, c, totalSupply, balance'[c])
  BY <1>1, MoreStillBacks
<1>3. ASSUME NEW b \in BorrowAsset PROVE OwedByUnit(b)'
  <2>1. debt[b] \in Nat /\ debt'[b] \in Nat /\ borrowUnit(pos', b) = borrowUnit(pos, b)
    BY <1>1 DEF borrowUnit
  <2> QED BY <1>1, <2>1 DEF OwedByUnit
<1>4. LInv'
  BY <1>1, <1>2, <1>3 DEF LInv, Backs
<1>5. ASSUME NEW b \in BorrowAsset, debt'[b] <= debt[b] PROVE KeepsCovered(b)
  <2>1. PICK k \in Int : k = (- borrowUnit(pos, b)) * totalSupply
    <3>1. borrowUnit(pos, b) \in Int
      BY <1>1, DebtUnits
    <3> QED BY <1>1, <3>1
  <2>2. debt[b] \in Nat /\ debt'[b] \in Nat
    BY <1>1
  <2>3. PRECISE_UNIT * debt'[b] <= PRECISE_UNIT * debt[b]
    BY <1>5, <2>2, MoreTokens
  <2>4. debt[b] * PRECISE_UNIT = PRECISE_UNIT * debt[b]
    BY <2>2, PreciseUnitAssumption
  <2>5. debt'[b] * PRECISE_UNIT = PRECISE_UNIT * debt'[b]
    BY <2>2, PreciseUnitAssumption
  <2>6. PRECISE_UNIT * debt[b] \in Int /\ PRECISE_UNIT * debt'[b] \in Int
    BY <2>2, PreciseUnitAssumption
  <2>7. debt[b] * PRECISE_UNIT <= k => debt'[b] * PRECISE_UNIT <= k
    BY <2>1, <2>3, <2>4, <2>5, <2>6
  <2> QED BY <2>1, <2>7 DEF KeepsCovered, Covers
<1> QED BY <1>4, <1>5

LEMMA UntouchedKeepsLInv ==
    ASSUME LInv, UNCHANGED <<vars, debt>>,
           AssetsMatch(collateralAssets', collateralAssetEnabled', Collateral),
           AssetsMatch(borrowAssets', borrowAssetEnabled', BorrowAsset)
    PROVE  LInv' /\ \A b \in BorrowAsset : KeepsCovered(b)
<1>1. /\ balance \in [Component -> Nat] /\ debt \in [BorrowAsset -> Nat]
      /\ UNCHANGED <<pos, totalSupply>> /\ balance' = balance /\ debt' = debt
  BY DEF LInv, vars
<1>2. \A c \in Component : balance[c] <= balance'[c]
  BY <1>1
<1>3. \A b \in BorrowAsset : debt'[b] <= debt[b]
  BY <1>1
<1> QED BY <1>1, <1>2, <1>3, SameUnitsKeepLInv

\* The module's life and the manager's assets.
LEMMA LifeKeepsLInv ==
    ASSUME LInv,
           \/ AddModule \/ RemovePendingModule \/ Initialize \/ RegisterToModule
           \/ ToggleOnController
           \/ \E a \in Collateral : AddCollateralAsset(a) \/ RemoveCollateralAsset(a)
           \/ \E b \in BorrowAsset : AddBorrowAsset(b) \/ RemoveBorrowAsset(b)
    PROVE  LInv' /\ \A b \in BorrowAsset : KeepsCovered(b)
<1>1. /\ AssetsMatch(collateralAssets, collateralAssetEnabled, Collateral)
      /\ AssetsMatch(borrowAssets, borrowAssetEnabled, BorrowAsset)
  BY DEF LInv
<1>2. CASE \/ AddModule \/ RemovePendingModule \/ Initialize \/ RegisterToModule
           \/ ToggleOnController
  <2>1. UNCHANGED <<vars, debt>> /\ UNCHANGED assetVars
    BY <1>2 DEF AddModule, RemovePendingModule, Initialize, RegisterToModule,
                ToggleOnController, aaveVars, assetVars
  <2> QED BY <1>1, <2>1, UntouchedKeepsLInv DEF assetVars
<1>3. ASSUME NEW a \in Collateral, AddCollateralAsset(a)
      PROVE  LInv' /\ \A b \in BorrowAsset : KeepsCovered(b)
  <2>1. /\ a \notin collateralAssetEnabled
        /\ collateralAssetEnabled' = collateralAssetEnabled \union {a}
        /\ collateralAssets' = Append(collateralAssets, a)
        /\ UNCHANGED <<vars, debt, borrowAssets, borrowAssetEnabled>>
    BY <1>3 DEF AddCollateralAsset
  <2>2. AssetsMatch(collateralAssets', collateralAssetEnabled', Collateral)
    BY <1>1, <2>1, AssetAdded
  <2> QED BY <1>1, <2>1, <2>2, UntouchedKeepsLInv
<1>4. ASSUME NEW a \in Collateral, RemoveCollateralAsset(a)
      PROVE  LInv' /\ \A b \in BorrowAsset : KeepsCovered(b)
  <2>1. /\ a \in collateralAssetEnabled
        /\ collateralAssetEnabled' = collateralAssetEnabled \ {a}
        /\ collateralAssets' = removeStorage(collateralAssets, a)
        /\ UNCHANGED <<vars, debt, borrowAssets, borrowAssetEnabled>>
    BY <1>4 DEF RemoveCollateralAsset
  <2>2. AssetsMatch(collateralAssets', collateralAssetEnabled', Collateral)
    BY <1>1, <2>1, AssetRemoved
  <2> QED BY <1>1, <2>1, <2>2, UntouchedKeepsLInv
<1>5. ASSUME NEW b \in BorrowAsset, AddBorrowAsset(b)
      PROVE  LInv' /\ \A z \in BorrowAsset : KeepsCovered(z)
  <2>1. /\ b \notin borrowAssetEnabled
        /\ borrowAssetEnabled' = borrowAssetEnabled \union {b}
        /\ borrowAssets' = Append(borrowAssets, b)
        /\ UNCHANGED <<vars, debt, collateralAssets, collateralAssetEnabled>>
    BY <1>5 DEF AddBorrowAsset, aaveVars
  <2>2. AssetsMatch(borrowAssets', borrowAssetEnabled', BorrowAsset)
    BY <1>1, <2>1, AssetAdded
  <2> QED BY <1>1, <2>1, <2>2, UntouchedKeepsLInv
<1>6. ASSUME NEW b \in BorrowAsset, RemoveBorrowAsset(b)
      PROVE  LInv' /\ \A z \in BorrowAsset : KeepsCovered(z)
  <2>1. /\ b \in borrowAssetEnabled
        /\ borrowAssetEnabled' = borrowAssetEnabled \ {b}
        /\ borrowAssets' = removeStorage(borrowAssets, b)
        /\ UNCHANGED <<vars, debt, collateralAssets, collateralAssetEnabled>>
    BY <1>6 DEF RemoveBorrowAsset, aaveVars
  <2>2. AssetsMatch(borrowAssets', borrowAssetEnabled', BorrowAsset)
    BY <1>1, <2>1, AssetRemoved
  <2> QED BY <1>1, <2>1, <2>2, UntouchedKeepsLInv
<1> QED BY <1>2, <1>3, <1>4, <1>5, <1>6

\* sync, alone or on the module's way out.
LEMMA SyncKeepsLInv ==
    ASSUME LInv, Sync \/ RemoveModule
    PROVE  LInv' /\ \A b \in BorrowAsset : KeepsCovered(b)
<1>1. /\ pos \in Unscaled /\ totalSupply \in Nat /\ balance \in [Component -> Nat]
      /\ debt \in [BorrowAsset -> Nat]
      /\ AssetsMatch(collateralAssets, collateralAssetEnabled, Collateral)
      /\ AssetsMatch(borrowAssets, borrowAssetEnabled, BorrowAsset)
      /\ \A c \in Component \ Collateral : Backs(pos, c, totalSupply, balance[c])
  BY DEF LInv
<1>2. pos' = synced /\ UNCHANGED <<totalSupply, balance, debt>>
  BY DEF Sync, RemoveModule, aaveVars
<1>3. /\ AssetsMatch(collateralAssets', collateralAssetEnabled', Collateral)
      /\ AssetsMatch(borrowAssets', borrowAssetEnabled', BorrowAsset)
  <2>1. CASE Sync
    <3>1. UNCHANGED <<collateralAssets, collateralAssetEnabled, borrowAssets, borrowAssetEnabled>>
      BY <2>1 DEF Sync, aaveVars, moduleVars, assetVars
    <3> QED BY <1>1, <3>1 DEF AssetsMatch
  <2>2. CASE RemoveModule
    BY <1>1, <2>2, AssetsCleared DEF RemoveModule
  <2> QED BY <2>1, <2>2
<1>4. ASSUME NEW b \in BorrowAsset
      PROVE  /\ pos' \in Unscaled /\ OwedByUnit(b)' /\ KeepsCovered(b)
  BY <1>2, SyncedDebts DEF OwedByUnit, KeepsCovered
<1>5. pos' \in Unscaled
  <2>1. totalSupply = 0 => synced = pos
    BY DEF synced
  <2> QED BY <1>1, <1>2, <2>1, SyncedUnits
<1>6. ASSUME NEW c \in Component \ Collateral PROVE Backs(pos', c, totalSupply, balance[c])
  BY <1>1, <1>2, SyncedElsewhere DEF Backs
<1>7. LInv'
  BY <1>1, <1>2, <1>3, <1>4, <1>5, <1>6 DEF LInv, Backs
<1> QED BY <1>4, <1>7

\* Between the set's transactions.
LEMMA AaveKeepsLInv ==
    ASSUME LInv,
           \/ AaveStep
           \/ \E c \in Component, n \in TokenAmount : Donate(c, n)
    PROVE  /\ LInv'
           /\ ~ (\E b \in BorrowAsset : AccrueOnDebt(b)) => \A b \in BorrowAsset : KeepsCovered(b)
<1>1. /\ balance \in [Component -> Nat] /\ debt \in [BorrowAsset -> Nat]
      /\ Collateral \subseteq Component /\ Collateral \cap BorrowAsset = {}
      /\ TokenAmount \subseteq Nat
      /\ AssetsMatch(collateralAssets, collateralAssetEnabled, Collateral)
      /\ AssetsMatch(borrowAssets, borrowAssetEnabled, BorrowAsset)
  BY IssuanceAssumption, LeverageAssumption DEF LInv
<1>2. ASSUME UNCHANGED <<pos, totalSupply, moduleVars>>
      PROVE  /\ UNCHANGED <<pos, totalSupply>>
             /\ AssetsMatch(collateralAssets', collateralAssetEnabled', Collateral)
             /\ AssetsMatch(borrowAssets', borrowAssetEnabled', BorrowAsset)
  BY <1>1, <1>2 DEF moduleVars, assetVars
<1>3. ASSUME NEW a \in Collateral, AccrueOnDeposit(a)
      PROVE  LInv' /\ \A b \in BorrowAsset : KeepsCovered(b)
  <2>1. /\ balance' = [balance EXCEPT ![a] = @ + 1] /\ debt' = debt
        /\ UNCHANGED <<pos, totalSupply, moduleVars>>
    BY <1>3 DEF AccrueOnDeposit, Settle
  <2>2. balance' \in [Component -> Nat] /\ \A c \in Component : balance[c] <= balance'[c]
    BY <1>1, <2>1
  <2>3. \A b \in BorrowAsset : debt'[b] <= debt[b]
    BY <1>1, <2>1
  <2> QED BY <1>1, <1>2, <2>1, <2>2, <2>3, SameUnitsKeepLInv
<1>4. ASSUME NEW b \in BorrowAsset, AccrueOnDebt(b)
      PROVE  LInv'
  <2>1. /\ balance' = balance /\ debt' = [debt EXCEPT ![b] = @ + 1] /\ debt[b] > 0
        /\ UNCHANGED <<pos, totalSupply, moduleVars>>
    BY <1>4 DEF AccrueOnDebt, Settle
  <2>2. balance' \in [Component -> Nat] /\ \A c \in Component : balance[c] <= balance'[c]
    BY <1>1, <2>1
  <2>3. /\ debt' \in [BorrowAsset -> Nat]
        /\ \A z \in BorrowAsset : debt'[z] <= debt[z] \/ debt[z] > 0
    BY <1>1, <2>1
  <2> QED BY <1>1, <1>2, <2>1, <2>2, <2>3, SameUnitsKeepLInv
<1>5. ASSUME NEW b \in BorrowAsset, NEW a \in Collateral, NEW r \in TokenAmount,
             NEW s \in TokenAmount, ThirdPartyRepay(b, r, a, s)
      PROVE  LInv' /\ \A z \in BorrowAsset : KeepsCovered(z)
  <2>1. /\ balance' = [balance EXCEPT ![a] = @ - s] /\ s <= balance[a]
        /\ debt' = [debt EXCEPT ![b] = @ - r] /\ r <= debt[b]
        /\ UNCHANGED <<pos, totalSupply, moduleVars>>
    BY <1>5 DEF ThirdPartyRepay, Settle
  <2>2. r \in Nat /\ s \in Nat
    BY <1>1
  <2>3. /\ balance' \in [Component -> Nat]
        /\ \A c \in Component \ Collateral : balance[c] <= balance'[c]
    BY <1>1, <2>1, <2>2
  <2>4. debt' \in [BorrowAsset -> Nat] /\ \A z \in BorrowAsset : debt'[z] <= debt[z]
    BY <1>1, <2>1, <2>2
  <2> QED BY <1>1, <1>2, <2>1, <2>3, <2>4, SameUnitsKeepLInv
<1>6. ASSUME NEW c \in Component, NEW n \in TokenAmount, Donate(c, n)
      PROVE  LInv' /\ \A b \in BorrowAsset : KeepsCovered(b)
  <2>1. /\ balance' = [balance EXCEPT ![c] = @ + n] /\ debt' = debt
        /\ UNCHANGED <<pos, totalSupply, moduleVars>>
    BY <1>6 DEF Donate, Settle
  <2>2. n \in Nat
    BY <1>1
  <2>3. balance' \in [Component -> Nat] /\ \A x \in Component : balance[x] <= balance'[x]
    BY <1>1, <2>1, <2>2
  <2>4. \A b \in BorrowAsset : debt'[b] <= debt[b]
    BY <1>1, <2>1
  <2> QED BY <1>1, <1>2, <2>1, <2>3, <2>4, SameUnitsKeepLInv
<1>7. CASE PriceMoves
  <2>1. UNCHANGED <<vars, debt>> /\ UNCHANGED moduleVars
    BY <1>7 DEF PriceMoves
  <2> QED BY <1>1, <2>1, UntouchedKeepsLInv DEF moduleVars, assetVars
<1> QED BY <1>3, <1>4, <1>5, <1>6, <1>7 DEF AaveStep

-----------------------------------------------------------------------------
(* Issues and redemptions with the hooks.                                   *)

\* Below a protocol share of 100% the whole fee is minted.
LEMMA WholeFeeMinted ==
    ASSUME NEW q \in Nat, NEW f \in Nat, NEW s \in Nat, s < PRECISE_UNIT
    PROVE  LET fee == calculateTotalFees(q, f, s)
           IN  fee.totalFee \in Nat /\ resolveFees(fee) = fee.totalFee
<1>1. PRECISE_UNIT \in Nat /\ PRECISE_UNIT > 0
  BY PreciseUnitAssumption
<1>2. PICK t \in Nat : t = preciseMul(f, q)
  BY MulIsBelow
<1>3. PICK k \in Nat : k = preciseMul(t, s) /\ PRECISE_UNIT * k <= t * s
  BY <1>2, MulIsBelow
<1>4. t > 0 => k < t
  <2> SUFFICES ASSUME t > 0, t <= k PROVE FALSE
    BY <1>3
  <2>1. PRECISE_UNIT * t <= PRECISE_UNIT * k
    BY <1>3, MoreTokens
  <2>2. t * s < t * PRECISE_UNIT
    <3>1. PICK e \in Nat : PRECISE_UNIT = s + e /\ e > 0
      <4>1. PRECISE_UNIT - s \in Nat /\ PRECISE_UNIT - s > 0
        BY <1>1
      <4>2. PRECISE_UNIT = s + (PRECISE_UNIT - s)
        BY <1>1
      <4> QED BY <4>1, <4>2
    <3>2. t * (s + e) = t * s + t * e
      OBVIOUS
    <3>3. t * e > 0 /\ t * e \in Nat
      BY <3>1, ProductOfNat
    <3>4. t * s \in Int
      OBVIOUS
    <3> QED BY <3>1, <3>2, <3>3, <3>4
  <2>3. t * PRECISE_UNIT = PRECISE_UNIT * t
    BY <1>1
  <2>4. PRECISE_UNIT * t \in Int /\ PRECISE_UNIT * k \in Int /\ t * s \in Int
    BY <1>1, <1>3
  <2> QED BY <1>3, <2>1, <2>2, <2>3, <2>4
<1>5. calculateTotalFees(q, f, s) = [totalFee |-> t, protocolFee |-> k, managerFee |-> t - k]
  BY <1>2, <1>3 DEF calculateTotalFees
<1>6. t - k > 0 \/ t = 0
  BY <1>3, <1>4
<1>7. t = 0 => ~ (t - k > 0)
  BY <1>3
<1> QED BY <1>2, <1>5, <1>6, <1>7 DEF resolveFees

\* The positions the amounts are computed from.
LEMMA PreHookPositions ==
    ASSUME LInv
    PROVE  /\ afterPreHook \in Unscaled
           /\ \A b \in BorrowAsset :
                /\ borrowUnit(afterPreHook, b) <= 0
                /\ debt[b] > 0 => borrowUnit(afterPreHook, b) < 0
                /\ isModuleHook /\ contains(borrowAssets, b) /\ (totalSupply > 0 \/ debt[b] = 0)
                     => Covers(afterPreHook, b, totalSupply, debt[b])
                /\ Covers(pos, b, totalSupply, debt[b])
                     => Covers(afterPreHook, b, totalSupply, debt[b])
           /\ \A c \in Component \ Collateral :
                Backs(afterPreHook, c, totalSupply, balance[c])
<1>1. /\ pos \in Unscaled /\ totalSupply \in Nat
      /\ \A b \in BorrowAsset : OwedByUnit(b)
      /\ \A c \in Component \ Collateral : Backs(pos, c, totalSupply, balance[c])
  BY DEF LInv
<1>2. CASE isModuleHook
  <2>1. afterPreHook = synced
    BY <1>2 DEF afterPreHook
  <2>2. synced \in Unscaled
    <3>1. totalSupply = 0 => synced = pos
      BY DEF synced
    <3> QED BY <1>1, <3>1, SyncedUnits
  <2>3. ASSUME NEW c \in Component \ Collateral PROVE Backs(synced, c, totalSupply, balance[c])
    BY <1>1, SyncedElsewhere DEF Backs
  <2> QED BY <2>1, <2>2, <2>3, SyncedDebts
<1>3. CASE ~ isModuleHook
  <2>1. afterPreHook = pos
    BY <1>3 DEF afterPreHook
  <2> QED BY <1>1, <1>3, <2>1 DEF OwedByUnit
<1> QED BY <1>2, <1>3

\* Equity in and debt out, and the other way around.
LEMMA HookedEquity ==
    ASSUME NEW p \in Unscaled, NEW n \in Nat, NEW c \in Component
    PROVE  LET in == calculateRequiredComponentIssuanceUnits(p, n, TRUE)[c]
               out == calculateRequiredComponentIssuanceUnits(p, n, FALSE)[c]
               u == getDefaultPositionRealUnit(p, c)
           IN  /\ in \in Nat /\ out \in Nat /\ u \in Nat
               /\ n * u <= PRECISE_UNIT * in
               /\ PRECISE_UNIT * out <= n * u
<1>1. PICK u \in Nat : u = getDefaultPositionRealUnit(p, c)
  BY DebtUnits
<1>2. ~ isComponent(p, c) => u = 0
  BY <1>1, DebtUnits
<1>3. /\ preciseMulCeil(u, n) \in Nat /\ u * n <= PRECISE_UNIT * preciseMulCeil(u, n)
      /\ preciseMul(u, n) \in Nat /\ PRECISE_UNIT * preciseMul(u, n) <= u * n
  BY MulCeilIsAbove, MulIsBelow
<1>4. u * n = n * u /\ n * 0 = 0 /\ PRECISE_UNIT * 0 = 0
  BY PreciseUnitAssumption
<1>5. CASE isComponent(p, c)
  BY <1>1, <1>3, <1>4, <1>5 DEF calculateRequiredComponentIssuanceUnits
<1>6. CASE ~ isComponent(p, c)
  BY <1>1, <1>2, <1>4, <1>6 DEF calculateRequiredComponentIssuanceUnits
<1> QED BY <1>5, <1>6

\* What the module computes for itself is what the issuer is given and the redeemer pays.
LEMMA HookedDebt ==
    ASSUME NEW p \in Unscaled, NEW n \in Nat, NEW b \in BorrowAsset, borrowUnit(p, b) <= 0
    PROVE  \E w \in Nat :
             /\ w = - borrowUnit(p, b) /\ (w > 0 <=> borrowUnit(p, b) < 0)
             /\ debtToIssuer(p, n, b) = preciseMul(w, n)
             /\ componentIssueHook(p, n, b) = preciseMul(w, n)
             /\ preciseMul(w, n) \in Nat /\ PRECISE_UNIT * preciseMul(w, n) <= w * n
             /\ debtFromRedeemer(p, n, b) = preciseMulCeil(w, n)
             /\ componentRedeemHook(p, n, b) = preciseMulCeil(w, n)
             /\ preciseMulCeil(w, n) \in Nat /\ w * n <= PRECISE_UNIT * preciseMulCeil(w, n)
             /\ preciseMulCeil(w, n) > 0 => w > 0
<1>1. b \in Component
  BY LeverageAssumption
<1>2. borrowUnit(p, b) \in Int /\ debtUnit(p, b) = - borrowUnit(p, b)
  BY <1>1, DebtUnits
<1>3. PICK w \in Nat : w = - borrowUnit(p, b) /\ (w > 0 <=> borrowUnit(p, b) < 0)
  BY <1>2
<1>4. /\ preciseMul(w, n) \in Nat /\ PRECISE_UNIT * preciseMul(w, n) <= w * n
      /\ preciseMulCeil(w, n) \in Nat /\ w * n <= PRECISE_UNIT * preciseMulCeil(w, n)
  BY MulIsBelow, MulCeilIsAbove
<1>5. preciseMulCeil(w, n) > 0 => w > 0
  BY DEF preciseMulCeil
<1>6. /\ debtToIssuer(p, n, b) = preciseMul(w, n)
      /\ componentIssueHook(p, n, b) = preciseMul(w, n)
      /\ debtFromRedeemer(p, n, b) = preciseMulCeil(w, n)
      /\ componentRedeemHook(p, n, b) = preciseMulCeil(w, n)
  BY Zenon, <1>2, <1>3 DEF debtToIssuer, componentIssueHook, debtFromRedeemer, componentRedeemHook
<1> QED BY Zenon, <1>3, <1>4, <1>5, <1>6

LEMMA IssueWithHooksKeepsLInv ==
    ASSUME LInv, NEW q \in Quantity, NEW f \in FeeRate, NEW s \in ProtocolSplit,
           IssueWithHooks(q, f, s)
    PROVE  /\ LInv'
           /\ \A b \in BorrowAsset :
                Covers(afterPreHook, b, totalSupply, debt[b])
                  => Covers(pos', b, totalSupply', debt'[b])
<1> DEFINE fee == calculateTotalFees(q, f, s)
<1>1. /\ totalSupply \in Nat /\ balance \in [Component -> Nat] /\ debt \in [BorrowAsset -> Nat]
      /\ q \in Nat /\ f \in Nat /\ s \in Nat /\ s < PRECISE_UNIT
      /\ BorrowAsset \subseteq Component /\ Collateral \cap BorrowAsset = {}
  BY IssuanceAssumption, LeverageAssumption DEF LInv, ProtocolSplit
<1>2. fee.totalFee \in Nat /\ resolveFees(fee) = fee.totalFee
  BY <1>1, WholeFeeMinted
<1> HIDE DEF fee
<1>3. PICK t \in Nat : t = q + fee.totalFee
  BY <1>1, <1>2
<1>4. PICK p \in Unscaled : p = afterPreHook
  BY PreHookPositions
<1> DEFINE equity == calculateRequiredComponentIssuanceUnits(p, t, TRUE)
           owed == [b \in BorrowAsset |-> debtToIssuer(p, t, b)]
           borrowed == [b \in BorrowAsset |-> IF owed[b] > 0 THEN componentIssueHook(p, t, b) ELSE 0]
           afterIn == [c \in Component |-> balance[c] + equity[c]]
           B == [c \in Component |->
                   IF c \in BorrowAsset THEN afterIn[c] + borrowed[c] - owed[c] ELSE afterIn[c]]
           D == [b \in BorrowAsset |-> debt[b] + borrowed[b]]
<1>5. /\ \A b \in BorrowAsset : owed[b] > 0 => hookOK(p, b)
      /\ pos' = p
      /\ totalSupply' = totalSupply + resolveFees(fee) + q
      /\ UNCHANGED moduleVars
      /\ Settle(B, D)
  BY Zenon, <1>3, <1>4 DEF IssueWithHooks, fee
<1>6. totalSupply' = totalSupply + t
  BY <1>1, <1>2, <1>3, <1>5
<1>7. balance' = B /\ debt' = D
  BY Zenon, <1>5 DEF Settle
<1>8. \A c \in Component : equity[c] \in Nat
  BY HookedEquity
<1>9. ASSUME NEW b \in BorrowAsset
      PROVE  /\ borrowed[b] = owed[b] /\ borrowed[b] \in Nat
             /\ borrowUnit(p, b) <= 0
             /\ D[b] \in Nat /\ (D[b] > 0 => borrowUnit(p, b) < 0)
             /\ Covers(p, b, totalSupply, debt[b]) => Covers(p, b, totalSupply + t, D[b])
  <2>1. borrowUnit(p, b) <= 0 /\ (debt[b] > 0 => borrowUnit(p, b) < 0)
    BY <1>4, PreHookPositions
  <2>2. PICK w \in Nat :
          /\ w = - borrowUnit(p, b)
          /\ debtToIssuer(p, t, b) = preciseMul(w, t)
          /\ componentIssueHook(p, t, b) = preciseMul(w, t)
          /\ preciseMul(w, t) \in Nat /\ PRECISE_UNIT * preciseMul(w, t) <= w * t
    BY <2>1, HookedDebt
  <2>3. PICK n \in Nat : n = preciseMul(w, t) /\ PRECISE_UNIT * n <= w * t
    BY <2>2
  <2>4. owed[b] = n /\ (n > 0 => borrowUnit(p, b) < 0)
    BY <1>5, <2>2, <2>3 DEF hookOK
  <2>5. borrowed[b] = n
    BY <2>2, <2>3, <2>4
  <2>6. debt[b] \in Nat /\ D[b] = debt[b] + n
    BY <1>1, <2>5
  <2>7. debt[b] * PRECISE_UNIT <= w * totalSupply
          => (debt[b] + n) * PRECISE_UNIT <= w * (totalSupply + t)
    BY <1>1, <2>3, <2>6, BorrowedOnTop
  <2> HIDE DEF D, borrowed, owed
  <2>8. D[b] \in Nat /\ (D[b] > 0 => borrowUnit(p, b) < 0)
    BY <2>1, <2>4, <2>6
  <2>9. Covers(p, b, totalSupply, debt[b]) => Covers(p, b, totalSupply + t, D[b])
    BY Zenon, <2>2, <2>6, <2>7 DEF Covers
  <2> QED BY <2>1, <2>4, <2>5, <2>8, <2>9
<1>10. ASSUME NEW c \in Component PROVE B[c] \in Nat /\ B[c] = balance[c] + equity[c]
  <2> HIDE DEF equity
  <2>1. balance[c] \in Nat /\ equity[c] \in Nat
    BY <1>1, <1>8
  <2>2. CASE c \in BorrowAsset
    <3>1. PICK n \in Nat : n = borrowed[c] /\ n = owed[c]
      BY <1>9, <2>2
    <3> HIDE DEF borrowed, owed
    <3>2. B[c] = balance[c] + equity[c] + n - n
      BY <2>2, <3>1
    <3> QED BY <2>1, <3>2
  <2>3. CASE c \notin BorrowAsset
    BY <2>1, <2>3
  <2> QED BY <2>2, <2>3
<1>11. ASSUME NEW c \in Component \ Collateral PROVE Backs(p, c, totalSupply + t, B[c])
  <2>1. PICK u \in Nat : u = getDefaultPositionRealUnit(p, c)
    BY HookedEquity
  <2>2. PICK n \in Nat : n = equity[c] /\ t * u <= PRECISE_UNIT * n
    BY <2>1, HookedEquity
  <2> HIDE DEF equity, owed, borrowed, afterIn, B, D
  <2>3. PICK z \in Nat : z = balance[c]
    BY <1>1
  <2>4. totalSupply * u <= PRECISE_UNIT * z
    BY <1>4, <2>1, <2>3, PreHookPositions DEF Backs
  <2>5. (totalSupply + t) * u <= PRECISE_UNIT * (z + n)
    <3>1. z \in Int /\ n \in Int
      BY <2>2, <2>3
    <3> QED BY Zenon, <1>1, <1>3, <2>1, <2>2, <2>4, <3>1, Minted
  <2>6. B[c] = z + n
    BY Zenon, <1>10, <2>2, <2>3
  <2> QED BY Zenon, <2>1, <2>5, <2>6 DEF Backs
<1>12. B \in [Component -> Nat] /\ D \in [BorrowAsset -> Nat]
  <2>1. B = [c \in Component |-> B[c]] /\ D = [b \in BorrowAsset |-> D[b]]
    BY Zenon
  <2> HIDE DEF B, D
  <2> QED BY <1>9, <1>10, <2>1
<1> HIDE DEF B, D
<1>13. totalSupply + t \in Nat
  BY <1>1
<1>14. \A b \in BorrowAsset : OwedByUnit(b)'
  BY <1>5, <1>7, <1>9 DEF OwedByUnit, borrowUnit
<1>15. /\ AssetsMatch(collateralAssets', collateralAssetEnabled', Collateral)
       /\ AssetsMatch(borrowAssets', borrowAssetEnabled', BorrowAsset)
  BY <1>5 DEF LInv, moduleVars, assetVars
<1>16. LInv'
  BY <1>5, <1>6, <1>7, <1>11, <1>12, <1>13, <1>14, <1>15 DEF LInv, Backs
<1> QED BY <1>4, <1>5, <1>6, <1>7, <1>9, <1>16

\* The equity a redemption of n sets takes out.
equityOut(p, n, c) == calculateRequiredComponentIssuanceUnits(p, n, FALSE)[c]

\* The amounts of a redemption, of n sets net of fees.
LEMMA RedemptionAmounts ==
    ASSUME LInv, NEW q \in Nat, NEW f \in Nat, NEW s \in Nat,
           NEW n \in Nat, n = q - calculateTotalFees(q, f, s).totalFee
    PROVE  LET r == redemption(q, f, s)
           IN  /\ r.fee = calculateTotalFees(q, f, s) /\ r.net = n /\ r.p = afterPreHook
               /\ \A c \in Component :
                    /\ r.equity[c] = equityOut(afterPreHook, n, c)
                    /\ r.equity[c] \in Nat
                    /\ r.newBalance[c] \in Int
                    /\ balance[c] - r.equity[c] <= r.newBalance[c]
                    /\ c \notin BorrowAsset => r.newBalance[c] = balance[c] - r.equity[c]
               /\ \A b \in BorrowAsset :
                    /\ r.paid[b] = preciseMulCeil(- borrowUnit(afterPreHook, b), n)
                    /\ r.repay[b] = r.paid[b]
                    /\ r.newDebt[b] = debt[b] - repaid(b, r.paid[b])
               /\ r.newBalance \in [Component -> Int]
               /\ r.newDebt \in [BorrowAsset -> Int]
<1>1. /\ balance \in [Component -> Nat] /\ debt \in [BorrowAsset -> Nat]
      /\ BorrowAsset \subseteq Component
  BY LeverageAssumption DEF LInv
<1>2. PICK p \in Unscaled : p = afterPreHook
  BY PreHookPositions
<1> DEFINE equity == calculateRequiredComponentIssuanceUnits(p, n, FALSE)
           paid == [b \in BorrowAsset |-> debtFromRedeemer(p, n, b)]
           repay == [b \in BorrowAsset |-> IF paid[b] > 0 THEN componentRedeemHook(p, n, b) ELSE 0]
           afterDebt == [c \in Component |->
                           IF c \in BorrowAsset THEN balance[c] + paid[c] - repaid(c, repay[c])
                           ELSE balance[c]]
           D == [b \in BorrowAsset |-> debt[b] - repaid(b, repay[b])]
           B == [c \in Component |-> afterDebt[c] - equity[c]]
           r == [fee |-> calculateTotalFees(q, f, s), net |-> n, p |-> p, equity |-> equity,
                 paid |-> paid, repay |-> repay, newDebt |-> D, newBalance |-> B]
<1>3. redemption(q, f, s) = r
  BY Zenon, <1>2 DEF redemption
<1>4. ASSUME NEW b \in BorrowAsset
      PROVE  /\ paid[b] = preciseMulCeil(- borrowUnit(p, b), n) /\ paid[b] \in Nat
             /\ repay[b] = paid[b]
  <2>1. borrowUnit(p, b) <= 0
    BY <1>2, PreHookPositions
  <2>2. PICK w \in Nat :
          /\ w = - borrowUnit(p, b)
          /\ debtFromRedeemer(p, n, b) = preciseMulCeil(w, n)
          /\ componentRedeemHook(p, n, b) = preciseMulCeil(w, n)
          /\ preciseMulCeil(w, n) \in Nat
    BY <2>1, HookedDebt
  <2>3. PICK m \in Nat : m = preciseMulCeil(w, n)
    BY <2>2
  <2>4. paid[b] = m
    BY <2>2, <2>3
  <2>5. repay[b] = m
    BY <2>2, <2>3, <2>4
  <2> HIDE DEF paid, repay
  <2> QED BY <2>2, <2>3, <2>4, <2>5
<1>5. \A c \in Component : equity[c] \in Nat /\ equity[c] = equityOut(p, n, c)
  BY HookedEquity DEF equityOut
<1> HIDE DEF equity, paid, repay
<1>6. ASSUME NEW b \in BorrowAsset
      PROVE  repaid(b, repay[b]) \in Nat /\ repaid(b, repay[b]) <= paid[b]
  BY <1>1, <1>4 DEF repaid
<1>7. ASSUME NEW c \in Component
      PROVE  /\ B[c] \in Int /\ balance[c] - equity[c] <= B[c]
             /\ c \notin BorrowAsset => B[c] = balance[c] - equity[c]
  BY <1>1, <1>4, <1>5, <1>6
<1>8. \A b \in BorrowAsset : D[b] = debt[b] - repaid(b, paid[b])
  BY <1>4
<1>9. B \in [Component -> Int] /\ D \in [BorrowAsset -> Int]
  <2>1. B = [c \in Component |-> B[c]] /\ D = [b \in BorrowAsset |-> D[b]]
    BY Zenon
  <2>2. \A b \in BorrowAsset : D[b] \in Int
    BY <1>1, <1>6
  <2> HIDE DEF B, D
  <2> QED BY <1>7, <2>1, <2>2
<1> HIDE DEF B, D
<1>10. /\ r.fee = calculateTotalFees(q, f, s) /\ r.net = n /\ r.p = p /\ r.equity = equity
       /\ r.paid = paid /\ r.repay = repay /\ r.newDebt = D /\ r.newBalance = B
  OBVIOUS
<1> HIDE DEF r
<1> QED BY Zenon, <1>2, <1>3, <1>4, <1>5, <1>7, <1>8, <1>9, <1>10

\* Equity of a redemption never exceeds the backing, and the rest stays backed.
LEMMA EquityOut ==
    ASSUME NEW p \in Unscaled, NEW c \in Component, NEW S \in Nat, NEW n \in Nat, n <= S,
           NEW z \in Nat, Backs(p, c, S, z), NEW B \in Int,
           z - equityOut(p, n, c) <= B
    PROVE  /\ B \in Nat
           /\ Backs(p, c, S - n, B)
           /\ preciseMulCeil(S - n, getDefaultPositionRealUnit(p, c)) <= B
<1>1. PICK u \in Nat : u = getDefaultPositionRealUnit(p, c)
  BY HookedEquity
<1>2. PICK e \in Nat :
        /\ e = equityOut(p, n, c)
        /\ PRECISE_UNIT * e <= n * u
  BY <1>1, HookedEquity DEF equityOut
<1>3. S * u <= PRECISE_UNIT * z
  BY <1>1 DEF Backs
<1>4. (S - n) * u <= PRECISE_UNIT * (z - e)
  <2>1. z \in Int /\ e \in Int
    BY <1>2
  <2> QED BY Zenon, <1>1, <1>2, <1>3, <2>1, Burned
<1>5. PRECISE_UNIT * (z - e) <= PRECISE_UNIT * B
  <2>1. z - e \in Int /\ z - e <= B
    BY <1>2
  <2> QED BY <2>1, MoreTokens
<1>6. e <= z
  <2> SUFFICES ASSUME z + 1 <= e PROVE FALSE
    OBVIOUS
  <2>1. n * u <= S * u
    BY Fewer
  <2>2. PRECISE_UNIT * (z + 1) <= PRECISE_UNIT * e
    BY MoreTokens
  <2>3. PRECISE_UNIT * (z + 1) = PRECISE_UNIT * z + PRECISE_UNIT
    BY PreciseUnitAssumption
  <2>4. /\ PRECISE_UNIT * e \in Int /\ PRECISE_UNIT * z \in Int
        /\ n * u \in Int /\ S * u \in Int /\ PRECISE_UNIT \in Int /\ PRECISE_UNIT > 0
    BY PreciseUnitAssumption
  <2> QED BY <1>2, <1>3, <2>1, <2>2, <2>3, <2>4
<1>7. B \in Nat
  BY <1>2, <1>6
<1>8. PICK t \in Nat : t = S - n
  OBVIOUS
<1>9. t * u <= PRECISE_UNIT * B
  <2>1. t * u \in Int /\ PRECISE_UNIT * (z - e) \in Int /\ PRECISE_UNIT * B \in Int
    BY PreciseUnitAssumption
  <2> QED BY <1>4, <1>5, <1>8, <2>1
<1>10. preciseMulCeil(t, u) <= B
  BY <1>7, <1>9, MulCeilIsLeast
<1> QED BY <1>1, <1>7, <1>8, <1>9, <1>10 DEF Backs

LEMMA RedeemWithHooksKeepsLInv ==
    ASSUME LInv, NEW q \in Quantity, NEW f \in FeeRate, NEW s \in ProtocolSplit,
           RedeemWithHooks(q, f, s)
    PROVE  /\ LInv'
           /\ \A b \in BorrowAsset :
                Covers(afterPreHook, b, totalSupply, debt[b])
                  => Covers(pos', b, totalSupply', debt'[b])
<1> DEFINE fee == calculateTotalFees(q, f, s)
           R == redemption(q, f, s)
<1>1. /\ totalSupply \in Nat /\ balance \in [Component -> Nat] /\ debt \in [BorrowAsset -> Nat]
      /\ q \in Nat /\ f \in Nat /\ s \in Nat /\ s < PRECISE_UNIT
      /\ BorrowAsset \subseteq Component
  BY IssuanceAssumption, LeverageAssumption DEF LInv, ProtocolSplit
<1>2. fee.totalFee \in Nat /\ resolveFees(fee) = fee.totalFee
  BY <1>1, WholeFeeMinted
<1> HIDE DEF fee
<1>3. R.fee = fee /\ R.net = q - fee.totalFee
  BY DEF redemption, fee
<1> HIDE DEF R
<1>4. /\ redeemWithHooksOK(q, R)
      /\ pos' = R.p
      /\ totalSupply' = totalSupply - q + resolveFees(R.fee)
      /\ UNCHANGED moduleVars
      /\ Settle(R.newBalance, R.newDebt)
  BY Zenon DEF RedeemWithHooks, R
<1>5. R.net >= 0 /\ q <= totalSupply
  BY Zenon, <1>4 DEF redeemWithHooksOK
<1>6. PICK n \in Nat : n = q - fee.totalFee /\ n <= totalSupply
  BY <1>1, <1>2, <1>3, <1>5
<1>7. totalSupply' = totalSupply - n
  BY <1>1, <1>2, <1>3, <1>4, <1>6
<1>8. PICK p \in Unscaled : p = afterPreHook
  BY PreHookPositions
<1>9. /\ R.p = p
      /\ \A c \in Component :
           /\ R.equity[c] = equityOut(p, n, c)
           /\ R.newBalance[c] \in Int
           /\ balance[c] - R.equity[c] <= R.newBalance[c]
      /\ \A b \in BorrowAsset :
           /\ R.paid[b] = preciseMulCeil(- borrowUnit(p, b), n)
           /\ R.newDebt[b] = debt[b] - repaid(b, R.paid[b])
      /\ R.newBalance \in [Component -> Int]
      /\ R.newDebt \in [BorrowAsset -> Int]
  <2>1. n = q - calculateTotalFees(q, f, s).totalFee
    BY <1>6 DEF fee
  <2>2. LET r == redemption(q, f, s)
            IN  /\ r.fee = calculateTotalFees(q, f, s) /\ r.net = n /\ r.p = afterPreHook
                /\ \A c \in Component :
                     /\ r.equity[c] = equityOut(afterPreHook, n, c)
                     /\ r.equity[c] \in Nat
                     /\ r.newBalance[c] \in Int
                     /\ balance[c] - r.equity[c] <= r.newBalance[c]
                     /\ c \notin BorrowAsset => r.newBalance[c] = balance[c] - r.equity[c]
                /\ \A b \in BorrowAsset :
                     /\ r.paid[b] = preciseMulCeil(- borrowUnit(afterPreHook, b), n)
                     /\ r.repay[b] = r.paid[b]
                     /\ r.newDebt[b] = debt[b] - repaid(b, r.paid[b])
                /\ r.newBalance \in [Component -> Int]
                /\ r.newDebt \in [BorrowAsset -> Int]
    BY Zenon, <1>1, <1>6, <2>1, RedemptionAmounts
  <2> QED BY Zenon, <1>8, <2>2 DEF R
<1>10. PICK B : B = R.newBalance
  OBVIOUS
<1>11. PICK D : D = R.newDebt
  OBVIOUS
<1>12. balance' = B /\ debt' = D /\ pos' = p
  BY Zenon, <1>4, <1>9, <1>10, <1>11 DEF Settle
<1>13. ASSUME NEW c \in Component
       PROVE  /\ B[c] \in Nat
              /\ Backs(p, c, totalSupply, balance[c]) => Backs(p, c, totalSupply - n, B[c])
  <2>1. PICK e \in Nat : e = equityOut(p, n, c)
    BY HookedEquity DEF equityOut
  <2>2. B[c] \in Int /\ balance[c] - e <= B[c] /\ R.equity[c] = e
    BY <1>9, <1>10, <2>1
  <2>3. balance[c] \in Nat
    BY <1>1
  <2>4. e > 0 => B[c] >= 0
    BY <1>4, <1>10, <2>2 DEF redeemWithHooksOK
  <2>5. B[c] \in Nat
    BY <2>1, <2>2, <2>3, <2>4
  <2>6. PICK z \in Nat : z = balance[c]
    BY <2>3
  <2>7. PICK y \in Int : y = B[c]
    BY <2>2
  <2>8. z - equityOut(p, n, c) <= y
    BY <2>1, <2>2, <2>6, <2>7
  <2>9. Backs(p, c, totalSupply, z) => Backs(p, c, totalSupply - n, y)
    BY <1>1, <1>6, <2>8, EquityOut
  <2> QED BY <2>5, <2>6, <2>7, <2>9
<1>14. ASSUME NEW b \in BorrowAsset
       PROVE  /\ borrowUnit(p, b) <= 0
              /\ D[b] \in Nat /\ (D[b] > 0 => borrowUnit(p, b) < 0)
              /\ Covers(p, b, totalSupply, debt[b]) => Covers(p, b, totalSupply - n, D[b])
  <2>1. borrowUnit(p, b) <= 0 /\ (debt[b] > 0 => borrowUnit(p, b) < 0)
    BY <1>8, PreHookPositions
  <2>2. PICK w \in Nat :
          /\ w = - borrowUnit(p, b)
          /\ preciseMulCeil(w, n) \in Nat /\ w * n <= PRECISE_UNIT * preciseMulCeil(w, n)
    BY <2>1, HookedDebt
  <2>3. PICK m \in Nat : m = preciseMulCeil(w, n) /\ w * n <= PRECISE_UNIT * m
    BY <2>2
  <2>4. PICK d \in Nat : d = debt[b]
    BY <1>1
  <2>5. R.paid[b] = m
    BY Zenon, <1>9, <2>2, <2>3
  <2>6. D[b] = IF m <= d THEN d - m ELSE 0
    <3>1. D[b] = debt[b] - repaid(b, m)
      BY <1>9, <1>11, <2>5
    <3>2. repaid(b, m) = IF m <= d THEN m ELSE d
      BY <2>4 DEF repaid
    <3> QED BY <2>4, <3>1, <3>2
  <2>7. D[b] \in Nat /\ (D[b] > 0 => borrowUnit(p, b) < 0)
    BY <2>1, <2>4, <2>6
  <2>8. d * PRECISE_UNIT <= w * totalSupply => D[b] * PRECISE_UNIT <= w * (totalSupply - n)
    <3>1. CASE m <= d
      <4>1. d * PRECISE_UNIT <= w * totalSupply => (d - m) * PRECISE_UNIT <= w * (totalSupply - n)
        BY <1>1, <1>6, <2>3, <3>1, RepaidOffTop
      <4> QED BY <2>6, <3>1, <4>1
    <3>2. CASE ~ (m <= d)
      <4>1. D[b] = 0
        BY <2>6, <3>2
      <4>2. PICK t \in Nat : t = totalSupply - n
        BY <1>1, <1>6
      <4>3. w * t \in Nat /\ 0 * PRECISE_UNIT = 0
        BY ProductOfNat, PreciseUnitAssumption
      <4> QED BY <4>1, <4>2, <4>3
    <3> QED BY <3>1, <3>2
  <2>9. Covers(p, b, totalSupply, debt[b]) => Covers(p, b, totalSupply - n, D[b])
    BY Zenon, <2>2, <2>4, <2>8 DEF Covers
  <2> QED BY <2>1, <2>7, <2>9
<1>15. B \in [Component -> Nat] /\ D \in [BorrowAsset -> Nat]
  BY <1>9, <1>10, <1>11, <1>13, <1>14
<1>16. totalSupply - n \in Nat
  BY <1>1, <1>6
<1>17. \A b \in BorrowAsset : OwedByUnit(b)'
  BY <1>12, <1>14 DEF OwedByUnit, borrowUnit
<1>18. \A c \in Component \ Collateral : Backs(pos', c, totalSupply', balance'[c])
  BY <1>7, <1>8, <1>12, <1>13, PreHookPositions
<1>19. /\ AssetsMatch(collateralAssets', collateralAssetEnabled', Collateral)
       /\ AssetsMatch(borrowAssets', borrowAssetEnabled', BorrowAsset)
  BY <1>4 DEF LInv, moduleVars, assetVars
<1>20. LInv'
  BY <1>7, <1>12, <1>15, <1>16, <1>17, <1>18, <1>19 DEF LInv, Backs
<1> QED BY <1>7, <1>8, <1>12, <1>14, <1>20

-----------------------------------------------------------------------------
(* The theorems.                                                            *)

\* Issues and redemptions cover after the step what the pre-hook left covered.
LEMMA SupplyStepKeepsLInv ==
    ASSUME LInv, SupplyStep
    PROVE  /\ LInv'
           /\ \A b \in BorrowAsset :
                Covers(afterPreHook, b, totalSupply, debt[b])
                  => Covers(pos', b, totalSupply', debt'[b])
BY IssueWithHooksKeepsLInv, RedeemWithHooksKeepsLInv DEF SupplyStep

\* Every other step but interest, or none.
LEMMA OtherStepKeepsLInv ==
    ASSUME LInv, [LeverageNext]_leverageVars, ~ SupplyStep
    PROVE  /\ LInv'
           /\ ~ (\E b \in BorrowAsset : AccrueOnDebt(b)) => \A b \in BorrowAsset : KeepsCovered(b)
<1>1. CASE UNCHANGED leverageVars
  <2>1. UNCHANGED <<vars, debt>> /\ UNCHANGED assetVars
    BY <1>1 DEF leverageVars, aaveVars, moduleVars
  <2>2. /\ AssetsMatch(collateralAssets', collateralAssetEnabled', Collateral)
        /\ AssetsMatch(borrowAssets', borrowAssetEnabled', BorrowAsset)
    BY <2>1 DEF LInv, assetVars
  <2> QED BY <2>1, <2>2, UntouchedKeepsLInv
<1>2. CASE AaveStep \/ \E c \in Component, n \in TokenAmount : Donate(c, n)
  BY <1>2, AaveKeepsLInv
<1>3. CASE Sync \/ ToggleOnController
  BY <1>3, SyncKeepsLInv, LifeKeepsLInv
<1>4. CASE ManagerStep
  <2>1. ASSUME NEW b \in BorrowAsset, NEW a \in Collateral, NEW x \in TradeUnit, NEW y \in TradeUnit,
               NEW r \in TokenAmount, NEW f \in FeeRate,
               \/ \E s \in TokenAmount : Lever(b, a, x, y, s, r, f)
               \/ Delever(a, b, x, y, r, f)
        PROVE  LInv' /\ \A z \in BorrowAsset : KeepsCovered(z)
    BY Zenon, <2>1, LeverKeepsLInv, DeleverKeepsLInv
  <2>2. ASSUME NEW b \in BorrowAsset, NEW a \in Collateral, NEW x \in TradeUnit,
               NEW r \in TokenAmount, DeleverToZeroBorrowBalance(a, b, x, r)
        PROVE  LInv' /\ \A z \in BorrowAsset : KeepsCovered(z)
    BY Zenon, <2>2, DeleverToZeroKeepsLInv
  <2> QED BY Zenon, <1>4, <2>1, <2>2, LifeKeepsLInv, SyncKeepsLInv DEF ManagerStep
<1> QED BY <1>1, <1>2, <1>3, <1>4 DEF LeverageNext

\* Nothing else mints or burns.
LEMMA OnlySupplyStepsMoveSupply ==
    ASSUME [LeverageNext]_leverageVars, totalSupply' # totalSupply
    PROVE  SupplyStep
<1>1. UNCHANGED leverageVars => totalSupply' = totalSupply
  BY DEF leverageVars, vars
<1>2. ManagerStep => totalSupply' = totalSupply
  <2>1. ASSUME NEW b, NEW a, NEW x, NEW y, NEW s, NEW r, NEW f, Lever(b, a, x, y, s, r, f)
        PROVE  totalSupply' = totalSupply
    BY Zenon, <2>1 DEF Lever
  <2>2. ASSUME NEW b, NEW a, NEW w, NEW k, NEW r, Repay(a, b, w, k, r)
        PROVE  totalSupply' = totalSupply
    BY Zenon, <2>2 DEF Repay
  <2>3. ASSUME NEW b, NEW a, NEW x, NEW y, NEW r, NEW f,
               Delever(a, b, x, y, r, f) \/ DeleverToZeroBorrowBalance(a, b, x, r)
        PROVE  totalSupply' = totalSupply
    BY Zenon, <2>2, <2>3 DEF Delever, DeleverToZeroBorrowBalance
  <2>4. \/ AddModule \/ RemovePendingModule \/ Initialize \/ RegisterToModule
        => totalSupply' = totalSupply
    BY DEF AddModule, RemovePendingModule, Initialize, RegisterToModule, vars
  <2>5. RemoveModule => totalSupply' = totalSupply
    BY DEF RemoveModule
  <2>6. ASSUME NEW a, AddCollateralAsset(a) \/ RemoveCollateralAsset(a)
        PROVE  totalSupply' = totalSupply
    BY <2>6 DEF AddCollateralAsset, RemoveCollateralAsset, vars
  <2>7. ASSUME NEW b, AddBorrowAsset(b) \/ RemoveBorrowAsset(b)
        PROVE  totalSupply' = totalSupply
    BY <2>7 DEF AddBorrowAsset, RemoveBorrowAsset, vars
  <2> QED BY Zenon, <2>1, <2>3, <2>4, <2>5, <2>6, <2>7 DEF ManagerStep
<1>3. AaveStep \/ (\E c \in Component, n \in TokenAmount : Donate(c, n)) => totalSupply' = totalSupply
  BY DEF AaveStep, AccrueOnDeposit, AccrueOnDebt, PriceMoves, ThirdPartyRepay, Donate, vars
<1>4. Sync \/ ToggleOnController => totalSupply' = totalSupply
  BY DEF Sync, ToggleOnController, vars
<1> QED BY <1>1, <1>2, <1>3, <1>4 DEF LeverageNext

LEMMA NextKeepsLInv == LInv /\ [LeverageNext]_leverageVars => LInv'
BY SupplyStepKeepsLInv, OtherStepKeepsLInv

LEMMA SpecLInv == LeverageSpec => []LInv
<1> QED BY InitLInv, NextKeepsLInv, PTL DEF LeverageSpec

\* No debt at Aave is ever without a position of the module on the set, whoever levers,
\* delevers, issues, redeems, removes the asset or the module.
THEOREM DebtAlwaysTracked == LeverageSpec => []DebtIsTracked
<1>1. ASSUME LInv, NEW b \in BorrowAsset, debt[b] > 0
      PROVE  isComponent(pos, b) /\ debtUnit(pos, b) > 0
  <2>1. b \in Component /\ pos \in Unscaled /\ OwedByUnit(b)
    BY <1>1, LeverageAssumption DEF LInv
  <2>2. /\ borrowUnit(pos, b) \in Int /\ debtUnit(pos, b) = - borrowUnit(pos, b)
        /\ borrowUnit(pos, b) # 0 => isComponent(pos, b)
    BY <2>1, DebtUnits
  <2> QED BY <1>1, <2>1, <2>2 DEF OwedByUnit
<1>2. LInv => DebtIsTracked
  BY <1>1 DEF DebtIsTracked
<1> QED BY <1>2, SpecLInv, PTL

\* What the property calls covered.
LEMMA CoveredBefore ==
    ASSUME LInv, NEW b \in BorrowAsset
    PROVE  DebtCovered(b) <=> Covers(pos, b, totalSupply, debt[b])
BY CoverForms, LeverageAssumption DEF LInv, DebtCovered

LEMMA CoveredAfter ==
    ASSUME LInv', NEW b \in BorrowAsset
    PROVE  DebtCovered(b)' <=> Covers(pos', b, totalSupply', debt'[b])
<1>1. pos' \in Unscaled /\ totalSupply' \in Nat /\ b \in Component
  BY LeverageAssumption DEF LInv
<1>2. PICK p \in Unscaled : p = pos'
  BY <1>1
<1>3. PICK S \in Nat : S = totalSupply'
  BY <1>1
<1>4. Covers(p, b, S, debt'[b]) <=> debt'[b] * PRECISE_UNIT <= - borrowUnit(p, b) * S
  BY Zenon, <1>1, <1>2, <1>3, CoverForms
<1> QED BY Zenon, <1>2, <1>3, <1>4 DEF DebtCovered, borrowUnit

\* With the hook in place no issue or redemption leaves a part of an enabled asset's debt to
\* anybody but the holders, however stale the units were.
THEOREM SupplyChangesCoverDebt == LeverageSpec => SupplyChangeCoversDebt
<1>1. ASSUME LInv, [LeverageNext]_leverageVars, totalSupply' # totalSupply /\ isModuleHook,
             NEW b \in Range(borrowAssets), totalSupply > 0 \/ debt[b] = 0
      PROVE  DebtCovered(b)'
  <2>1. contains(borrowAssets, b) /\ b \in BorrowAsset
    BY <1>1 DEF contains, LInv, AssetsMatch, Range
  <2>2. Covers(afterPreHook, b, totalSupply, debt[b])
    BY <1>1, <2>1, PreHookPositions
  <2>3. SupplyStep
    BY <1>1, OnlySupplyStepsMoveSupply
  <2>4. LInv' /\ Covers(pos', b, totalSupply', debt'[b])
    BY <1>1, <2>1, <2>2, <2>3, SupplyStepKeepsLInv
  <2> QED BY <2>1, <2>4, CoveredAfter
<1>2. LInv /\ [LeverageNext]_leverageVars =>
        [totalSupply' # totalSupply /\ isModuleHook =>
           \A b \in Range(borrowAssets) :
               totalSupply > 0 \/ debt[b] = 0 => DebtCovered(b)']_leverageVars
  BY Zenon, <1>1
<1> QED BY <1>2, SpecLInv, PTL DEF LeverageSpec, SupplyChangeCoversDebt

\* Of all steps only Aave's interest takes a covered debt out of cover.
THEOREM CoverLostToInterestOnly == LeverageSpec => OnlyInterestUncoversDebt
<1>1. ASSUME LInv, [LeverageNext]_leverageVars, ~ (\E b \in BorrowAsset : AccrueOnDebt(b)),
             NEW b \in BorrowAsset, DebtCovered(b)
      PROVE  DebtCovered(b)'
  <2>1. Covers(pos, b, totalSupply, debt[b])
    BY <1>1, CoveredBefore
  <2>2. LInv' /\ Covers(pos', b, totalSupply', debt'[b])
    <3>1. CASE SupplyStep
      <4>1. Covers(afterPreHook, b, totalSupply, debt[b])
        BY <1>1, <2>1, PreHookPositions
      <4> QED BY <1>1, <3>1, <4>1, SupplyStepKeepsLInv
    <3>2. CASE ~ SupplyStep
      BY <1>1, <2>1, <3>2, OtherStepKeepsLInv DEF KeepsCovered
    <3> QED BY <3>1, <3>2
  <2> QED BY <2>2, CoveredAfter
<1>2. LInv /\ [LeverageNext]_leverageVars =>
        [~ (\E b \in BorrowAsset : AccrueOnDebt(b)) =>
           \A b \in BorrowAsset : DebtCovered(b) => DebtCovered(b)']_leverageVars
  BY Zenon, <1>1
<1> QED BY <1>2, SpecLInv, PTL DEF LeverageSpec, OnlyInterestUncoversDebt

\* In sync, a well managed set backs every unit it has, those of its collateral included.
LEMMA WellManagedIsBacked ==
    ASSUME LInv, WellManaged, totalSupply > 0, NEW c \in Component
    PROVE  Backs(synced, c, totalSupply, balance[c])
<1>1. /\ totalSupply \in Nat /\ balance[c] \in Nat /\ pos \in Unscaled
  BY DEF LInv
<1>2. CASE c \notin Collateral
  BY <1>1, <1>2, SyncedElsewhere DEF LInv, Backs
<1>3. CASE c \in Collateral /\ contains(collateralAssets, c)
  <2>1. getDefaultPositionRealUnit(synced, c) = preciseDiv(balance[c], totalSupply)
    BY <1>3, SyncedUnits DEF getCollateralPosition
  <2>2. totalSupply * preciseDiv(balance[c], totalSupply) <= PRECISE_UNIT * balance[c]
    BY <1>1, DivIsBelow
  <2> QED BY Zenon, <2>1, <2>2 DEF Backs
<1>4. CASE c \in Collateral /\ ~ contains(collateralAssets, c)
  <2>1. getDefaultPositionRealUnit(synced, c) = getDefaultPositionRealUnit(pos, c)
    BY <1>4, SyncedUnits
  <2>2. ~ hasDefaultPosition(pos, c)
    BY <1>4 DEF WellManaged
  <2>3. getDefaultPositionRealUnit(pos, c) \in Nat
    BY <1>1, DebtUnits
  <2>4. getDefaultPositionRealUnit(synced, c) = 0
    BY <2>1, <2>2, <2>3 DEF hasDefaultPosition
  <2>5. totalSupply * 0 <= PRECISE_UNIT * balance[c]
    <3>1. PRECISE_UNIT * balance[c] \in Nat
      BY <1>1, PreciseUnitAssumption, ProductOfNat
    <3> QED BY <1>1, <3>1
  <2> QED BY Zenon, <2>4, <2>5 DEF Backs
<1> QED BY <1>2, <1>3, <1>4

\* sync never reverts for a module that may write.
LEMMA SyncPasses ==
    ASSUME LInv, mayWrite
    PROVE  syncOK
<1>1. pos \in Unscaled /\ totalSupply \in Nat
  BY DEF LInv
<1>2. ASSUME totalSupply > 0, NEW a \in Range(collateralAssets)
      PROVE  editDefaultPositionOK(pos, a, getCollateralPosition(balance, a))
  <2>1. a \in Component /\ getCollateralPosition(balance, a) \in Nat
    BY <1>2, SyncedQuantities DEF Range, LInv, AssetsMatch
  <2> QED BY <1>1, <2>1, UnscaledDefaultEdit
<1>3. ASSUME totalSupply > 0, NEW b \in Range(borrowAssets)
      PROVE  updateBorrowPositionOK(pos, b, getBorrowPosition(debt, b))
  <2>1. b \in Component /\ getBorrowPosition(debt, b) \in Int
    BY <1>3, SyncedQuantities DEF Range, LInv, AssetsMatch
  <2> QED BY <1>1, <2>1, UnscaledBorrowEdit
<1> QED BY <1>2, <1>3 DEF syncOK, mayWrite

\* After it, the module has a debt unit only where there is a debt to repay.
LEMMA UnitMeansDebt ==
    ASSUME LInv, WellManaged, totalSupply > 0, NEW b \in BorrowAsset, borrowUnit(synced, b) < 0
    PROVE  debt[b] > 0
<1>1. b \in Component /\ pos \in Unscaled /\ totalSupply \in Nat /\ debt[b] \in Nat
  BY LeverageAssumption DEF LInv
<1>2. CASE contains(borrowAssets, b)
  <2>1. synced \in Unscaled /\ borrowUnit(synced, b) = - preciseDivCeil(debt[b], totalSupply)
    BY <1>1, <1>2, SyncedUnits DEF getBorrowPosition
  <2> QED BY <1>1, <2>1, WrittenUnitCovers
<1>3. CASE ~ contains(borrowAssets, b)
  <2>1. borrowUnit(pos, b) = borrowUnit(synced, b)
    BY <1>1, <1>3, SyncedUnits
  <2>2. PositionInv(pos) /\ pos.externalPositionModules[b] \in Seq(Module)
    BY <1>1, PositionFields DEF Unscaled, PositionInv
  <2>3. isExternalPositionModule(pos, b, leverageModule)
    BY <1>1, <2>1, <2>2, ListedWithUnit, LeverageAssumption DEF borrowUnit
  <2>4. hasExternalPosition(pos, b)
    BY <2>2, <2>3 DEF isExternalPositionModule, hasExternalPosition, contains, Range
  <2> QED BY <1>3, <2>4 DEF WellManaged
<1> QED BY <1>2, <1>3

-----------------------------------------------------------------------------
(* The health factor of a redemption.                                       *)

\* What Aave counts as the set's collateral is collateral, and everything has a price.
AaveInv == usageAsCollateral \subseteq Collateral /\ value \in [Component -> Nat]

LEMMA SpecAaveInv == LeverageSpec => []AaveInv
<1>1. LeverageInit => AaveInv
  BY LeverageAssumption DEF LeverageInit, AaveInv
<1>2. ASSUME NEW B, NEW D, Settle(B, D)
      PROVE  usageAsCollateral' \subseteq Collateral /\ value' = value
  BY <1>2 DEF Settle, collateralUse
<1>3. ASSUME AaveInv, [LeverageNext]_leverageVars
      PROVE  AaveInv'
  <2>1. CASE UNCHANGED leverageVars
    BY <1>3, <2>1 DEF AaveInv, leverageVars, aaveVars
  <2>2. ASSUME NEW b \in BorrowAsset, NEW a \in Collateral, NEW x, NEW y, NEW r, NEW t, NEW f,
               \/ Lever(b, a, x, y, t, r, f) \/ Repay(a, b, x, y, r)
        PROVE  AaveInv'
    BY Zenon, <1>2, <1>3, <2>2 DEF AaveInv, Lever, Repay
  <2>3. ASSUME NEW q \in Quantity, NEW f \in FeeRate, NEW t \in ProtocolSplit,
               IssueWithHooks(q, f, t) \/ RedeemWithHooks(q, f, t)
        PROVE  AaveInv'
    <3>1. CASE IssueWithHooks(q, f, t)
      <4>1. PICK B, D : Settle(B, D)
        BY Zenon, <3>1 DEF IssueWithHooks
      <4> QED BY <1>2, <1>3, <4>1 DEF AaveInv
    <3>2. CASE RedeemWithHooks(q, f, t)
      <4>1. PICK B, D : Settle(B, D)
        BY Zenon, <3>2 DEF RedeemWithHooks
      <4> QED BY <1>2, <1>3, <4>1 DEF AaveInv
    <3> QED BY Zenon, <2>3, <3>1, <3>2
  <2>4. CASE AaveStep \/ \E c \in Component, n \in TokenAmount : Donate(c, n)
    <3>1. CASE PriceMoves
      BY <1>3, <3>1, LeverageAssumption DEF AaveInv, PriceMoves
    <3> QED BY Zenon, <1>2, <1>3, <2>4, <3>1
            DEF AaveInv, AaveStep, AccrueOnDeposit, AccrueOnDebt, ThirdPartyRepay, Donate
  <2>5. CASE \/ Sync \/ ToggleOnController \/ AddModule \/ RemovePendingModule \/ Initialize
             \/ RegisterToModule \/ \E b \in BorrowAsset : AddBorrowAsset(b) \/ RemoveBorrowAsset(b)
    <3>1. UNCHANGED aaveVars
      BY <2>5 DEF Sync, ToggleOnController, AddModule, RemovePendingModule, Initialize,
                  RegisterToModule, AddBorrowAsset, RemoveBorrowAsset
    <3> QED BY <1>3, <3>1 DEF AaveInv, aaveVars
  <2>6. CASE RemoveModule
    BY <1>3, <2>6 DEF AaveInv, RemoveModule
  <2>7. ASSUME NEW a \in Collateral, AddCollateralAsset(a) \/ RemoveCollateralAsset(a)
        PROVE  AaveInv'
    BY <1>3, <2>7 DEF AaveInv, AddCollateralAsset, RemoveCollateralAsset, updateUseReserve
  <2> QED BY Zenon, <1>3, <2>1, <2>2, <2>3, <2>4, <2>5, <2>6, <2>7
          DEF LeverageNext, ManagerStep, SupplyStep, Delever, DeleverToZeroBorrowBalance
<1> QED BY <1>1, <1>3, PTL DEF LeverageSpec

\* Of terms in proportion the sums are in proportion.
LEMMA SumScales ==
    ASSUME NEW S, IsFiniteSet(S), NEW s \in SUBSET S, NEW e \in [S -> Int], NEW f \in [S -> Int],
           NEW k \in Int, NEW l \in Int, \A x \in s : k * e[x] <= l * f[x]
    PROVE  k * SumFunctionOnSet(e, s) <= l * SumFunctionOnSet(f, s)
<1> DEFINE g == [x \in S |-> k * e[x]]
           h == [x \in S |-> l * f[x]]
<1>1. g \in [S -> Int] /\ h \in [S -> Int]
  OBVIOUS
<1>2. \A x \in s : g[x] = k * e[x] /\ h[x] = l * f[x] /\ e[x] \in Int /\ f[x] \in Int
  OBVIOUS
<1> HIDE DEF g, h
<1>3. /\ Combines(g, k, e, 0, e, 0, e, s) /\ Combines(h, l, f, 0, f, 0, f, s)
      /\ StaysBelow(g, h, s)
  BY <1>2 DEF Combines, StaysBelow
<1>4. PICK x \in Int, y \in Int : x = SumFunctionOnSet(e, s) /\ y = SumFunctionOnSet(f, s)
  BY SumIsInteger
<1>5. SumFunctionOnSet(g, s) = k * SumFunctionOnSet(e, s) + 0 * SumFunctionOnSet(e, s)
                                   + 0 * SumFunctionOnSet(e, s)
  <2>1. 0 \in Int
    OBVIOUS
  <2> QED BY <1>1, <1>3, <2>1, SumCombines
<1>6. SumFunctionOnSet(h, s) = l * SumFunctionOnSet(f, s) + 0 * SumFunctionOnSet(f, s)
                                   + 0 * SumFunctionOnSet(f, s)
  <2>1. 0 \in Int
    OBVIOUS
  <2> QED BY <1>1, <1>3, <2>1, SumCombines
<1>7. SumFunctionOnSet(g, s) <= SumFunctionOnSet(h, s)
  BY Zenon, <1>1, <1>3, SumStaysBelow
<1> QED BY <1>4, <1>5, <1>6, <1>7

\* What leaves of a backed component is no more than its share.
LEMMA ShareOut ==
    ASSUME NEW S \in Nat, NEW n \in Nat, NEW u \in Nat, NEW z \in Nat, NEW e \in Nat,
           S * u <= PRECISE_UNIT * z, PRECISE_UNIT * e <= n * u
    PROVE  (S - n) * z <= S * (z - e)
<1>1. PICK P \in Nat : P = PRECISE_UNIT /\ P > 0
  BY PreciseUnitAssumption
<1>2. S * (P * e) <= S * (n * u)
  <2>1. P * e \in Int /\ n * u \in Int
    BY <1>1
  <2> QED BY <1>1, <2>1, KeepOrder
<1>3. n * (S * u) <= n * (P * z)
  <2>1. S * u \in Int /\ P * z \in Int
    BY <1>1
  <2> QED BY <1>1, <2>1, KeepOrder
<1>4. S * (n * u) = n * (S * u) /\ S * (P * e) = P * (S * e) /\ n * (P * z) = P * (n * z)
  BY <1>1
<1>5. P * (S * e) <= P * (n * z)
  <2>1. /\ S * (n * u) \in Int /\ S * (P * e) \in Int /\ n * (P * z) \in Int
        /\ n * (S * u) \in Int
    BY <1>1
  <2> QED BY <1>2, <1>3, <1>4, <2>1
<1>6. S * e <= n * z
  <2>1. S * e \in Int /\ n * z \in Int
    OBVIOUS
  <2> QED BY <1>1, <1>5, <2>1, CancelFactor
<1>7. (S - n) * z = S * z - n * z /\ S * (z - e) = S * z - S * e
  OBVIOUS
<1> QED BY <1>6, <1>7

\* What is repaid of a covered debt is no less than its share, or all of it.
LEMMA ShareRepaid ==
    ASSUME NEW S \in Nat, NEW n \in Nat, n <= S, NEW w \in Nat, NEW d \in Nat, NEW m \in Nat,
           d * PRECISE_UNIT <= w * S, w * n <= PRECISE_UNIT * m
    PROVE  S * (IF m <= d THEN d - m ELSE 0) <= (S - n) * d
<1>1. PICK P \in Nat : P = PRECISE_UNIT /\ P > 0
  BY PreciseUnitAssumption
<1>2. n * (d * P) <= n * (w * S)
  <2>1. d * P \in Int /\ w * S \in Int
    BY <1>1
  <2> QED BY <1>1, <2>1, KeepOrder
<1>3. S * (w * n) <= S * (P * m)
  <2>1. w * n \in Int /\ P * m \in Int
    BY <1>1
  <2> QED BY <1>1, <2>1, KeepOrder
<1>4. n * (w * S) = S * (w * n) /\ n * (d * P) = P * (n * d) /\ S * (P * m) = P * (S * m)
  BY <1>1
<1>5. P * (n * d) <= P * (S * m)
  <2>1. /\ n * (d * P) \in Int /\ n * (w * S) \in Int /\ S * (w * n) \in Int
        /\ S * (P * m) \in Int
    BY <1>1
  <2> QED BY <1>2, <1>3, <1>4, <2>1
<1>6. n * d <= S * m
  <2>1. n * d \in Int /\ S * m \in Int
    OBVIOUS
  <2> QED BY <1>1, <1>5, <2>1, CancelFactor
<1>7. (S - n) * d = S * d - n * d /\ S * (d - m) = S * d - S * m
  OBVIOUS
<1>8. n * d <= S * d /\ S * 0 = 0
  OBVIOUS
<1> QED BY <1>6, <1>7, <1>8

\* A redemption in sync leaves of each collateral at least, and of each debt at most, the
\* share of the holders that stay, and so of the worth of all collateral and all debt.
LEMMA HealthKept ==
    ASSUME LInv, AaveInv, NEW n \in Nat, n <= totalSupply, totalSupply > 0,
           NEW B \in [Component -> Nat], NEW D \in [BorrowAsset -> Nat],
           \A a \in Collateral : B[a] <= balance[a],
           \A a \in Collateral : (totalSupply - n) * balance[a] <= totalSupply * B[a],
           \A b \in BorrowAsset : totalSupply * D[b] <= (totalSupply - n) * debt[b],
           healthFactorOK(balance, usageAsCollateral, debt) \/ n = totalSupply
    PROVE  healthFactorOK(B, collateralUse(B), D)
<1>1. PICK S \in Nat, r \in Nat : S = totalSupply /\ r = totalSupply - n /\ S > 0
  BY DEF LInv
<1>2. /\ balance \in [Component -> Nat] /\ debt \in [BorrowAsset -> Nat]
      /\ value \in [Component -> Nat] /\ usageAsCollateral \in SUBSET Collateral
      /\ Collateral \subseteq Component /\ BorrowAsset \subseteq Component
      /\ BorrowAsset \in SUBSET BorrowAsset
      /\ IsFiniteSet(Collateral) /\ IsFiniteSet(BorrowAsset)
  <2>1. Collateral \subseteq Component /\ BorrowAsset \subseteq Component /\ IsFiniteSet(Component)
    BY LeverageAssumption, IssuanceAssumption
  <2>2. IsFiniteSet(Collateral) /\ IsFiniteSet(BorrowAsset)
    BY <2>1, FS_Subset
  <2> QED BY <2>1, <2>2 DEF LInv, AaveInv
<1> DEFINE x == [a \in Collateral |-> balance[a] * value[a]]
           X == [a \in Collateral |-> B[a] * value[a]]
           y == [b \in BorrowAsset |-> debt[b] * value[b]]
           Y == [b \in BorrowAsset |-> D[b] * value[b]]
<1>3. /\ x \in [Collateral -> Int] /\ X \in [Collateral -> Int]
      /\ y \in [BorrowAsset -> Int] /\ Y \in [BorrowAsset -> Int]
  <2>1. \A a \in Collateral : balance[a] * value[a] \in Int /\ B[a] * value[a] \in Int
    BY <1>2
  <2>2. \A b \in BorrowAsset : debt[b] * value[b] \in Int /\ D[b] * value[b] \in Int
    BY <1>2
  <2> QED BY Zenon, <2>1, <2>2
<1>4. ASSUME NEW a \in Collateral
      PROVE  r * x[a] <= S * X[a]
  <2>1. PICK v \in Nat, z \in Nat, t \in Nat : v = value[a] /\ z = balance[a] /\ t = B[a]
    BY <1>2
  <2>2. r * z <= S * t
    BY <1>1, <2>1
  <2>3. r * z \in Int /\ S * t \in Int
    OBVIOUS
  <2>4. v * (r * z) <= v * (S * t)
    BY <2>2, <2>3, KeepOrder
  <2>5. v * (r * z) = r * (z * v) /\ v * (S * t) = S * (t * v)
    OBVIOUS
  <2>6. x[a] = z * v /\ X[a] = t * v
    BY <2>1
  <2> HIDE DEF x, X
  <2> QED BY <2>4, <2>5, <2>6
<1>5. ASSUME NEW b \in BorrowAsset
      PROVE  S * Y[b] <= r * y[b]
  <2>1. PICK v \in Nat, z \in Nat, t \in Nat : v = value[b] /\ z = debt[b] /\ t = D[b]
    BY <1>2
  <2>2. S * t <= r * z
    BY <1>1, <2>1
  <2>3. r * z \in Int /\ S * t \in Int
    OBVIOUS
  <2>4. v * (S * t) <= v * (r * z)
    BY <2>2, <2>3, KeepOrder
  <2>5. v * (r * z) = r * (z * v) /\ v * (S * t) = S * (t * v)
    OBVIOUS
  <2>6. y[b] = z * v /\ Y[b] = t * v
    BY <2>1
  <2> HIDE DEF y, Y
  <2> QED BY <2>4, <2>5, <2>6
<1>6. collateralUse(B) \in SUBSET usageAsCollateral
      /\ \A a \in usageAsCollateral \ collateralUse(B) : X[a] = 0
  <2>1. ASSUME NEW a \in collateralUse(B) PROVE a \in usageAsCollateral
    <3>1. a \in Collateral /\ B[a] > 0 /\ (balance[a] = 0 \/ a \in usageAsCollateral)
      BY <2>1 DEF collateralUse
    <3>2. B[a] <= balance[a] /\ B[a] \in Nat
      BY <1>2, <3>1
    <3> QED BY <3>1, <3>2
  <2>2. ASSUME NEW a \in usageAsCollateral \ collateralUse(B) PROVE X[a] = 0
    <3>1. a \in Collateral /\ B[a] = 0 /\ value[a] \in Nat
      BY <1>2, <2>2 DEF collateralUse
    <3> QED BY <3>1
  <2> QED BY <2>1, <2>2
<1>7. PICK z \in [Collateral -> Int] :
        \A a \in Collateral : z[a] = IF a \in usageAsCollateral THEN X[a] ELSE 0
  <2>1. [a \in Collateral |-> IF a \in usageAsCollateral THEN X[a] ELSE 0] \in [Collateral -> Int]
    BY <1>3
  <2> HIDE DEF X
  <2> QED BY <2>1
<1>8. /\ collateralValue(B, collateralUse(B)) = SumFunctionOnSet(X, collateralUse(B))
      /\ collateralValue(balance, usageAsCollateral) = SumFunctionOnSet(x, usageAsCollateral)
      /\ borrowValue(D) = SumFunctionOnSet(Y, BorrowAsset)
      /\ borrowValue(debt) = SumFunctionOnSet(y, BorrowAsset)
  BY Zenon DEF collateralValue, borrowValue
<1> HIDE DEF x, X, y, Y
<1>9. collateralUse(B) \in SUBSET Collateral
  BY DEF collateralUse
<1>10. SumFunctionOnSet(z, usageAsCollateral) <= SumFunctionOnSet(X, collateralUse(B))
  <2>1. SumFunctionOnSet(z, Collateral) = SumFunctionOnSet(z, usageAsCollateral)
    <3>1. \A a \in Collateral \ usageAsCollateral : z[a] = 0
      BY <1>7
    <3> QED BY <1>2, <3>1, SumOutside
  <2>2. SumFunctionOnSet(z, Collateral) = SumFunctionOnSet(z, collateralUse(B))
    <3>1. \A a \in Collateral \ collateralUse(B) : z[a] = 0
      BY <1>6, <1>7
    <3> QED BY <1>2, <1>9, <3>1, SumOutside
  <2>3. SumFunctionOnSet(z, collateralUse(B)) <= SumFunctionOnSet(X, collateralUse(B))
    <3>1. StaysBelow(z, X, collateralUse(B))
      <4>1. ASSUME NEW a \in collateralUse(B) PROVE z[a] <= X[a]
        <5>1. z[a] = X[a] /\ X[a] \in Int
          BY <1>3, <1>6, <1>7, <1>9
        <5> QED BY <5>1
      <4> QED BY <4>1 DEF StaysBelow
    <3> QED BY Zenon, <1>2, <1>3, <1>9, <3>1, SumStaysBelow
  <2> QED BY <2>1, <2>2, <2>3
<1>11. r * SumFunctionOnSet(x, usageAsCollateral) <= S * SumFunctionOnSet(z, usageAsCollateral)
  <2>1. \A a \in usageAsCollateral : r * x[a] <= S * z[a]
    BY <1>2, <1>4, <1>7
  <2>2. r \in Int /\ S \in Int
    OBVIOUS
  <2> QED BY Zenon, <1>2, <1>3, <1>7, <2>1, <2>2, SumScales
<1>12. S * SumFunctionOnSet(Y, BorrowAsset) <= r * SumFunctionOnSet(y, BorrowAsset)
  <2>1. r \in Int /\ S \in Int
    OBVIOUS
  <2> QED BY Zenon, <1>2, <1>3, <1>5, <2>1, SumScales
<1>13. PICK vx \in Int, vz \in Int, vX \in Int, vy \in Int, vY \in Int :
         /\ vx = SumFunctionOnSet(x, usageAsCollateral) /\ vz = SumFunctionOnSet(z, usageAsCollateral)
         /\ vX = SumFunctionOnSet(X, collateralUse(B))
         /\ vy = SumFunctionOnSet(y, BorrowAsset) /\ vY = SumFunctionOnSet(Y, BorrowAsset)
  BY <1>2, <1>3, <1>7, <1>9, SumIsInteger
<1>14. r * vy <= r * vx
  <2>1. CASE vy <= vx
    BY <2>1, KeepOrder
  <2>2. CASE n = totalSupply
    <3>1. r = 0
      BY <1>1, <2>2
    <3> QED BY <3>1
  <2> QED BY <1>8, <1>13, <2>1, <2>2 DEF healthFactorOK
<1>15. S * vY <= S * vX
  <2>1. S * vz <= S * vX
    BY <1>10, <1>13, KeepOrder
  <2>2. r * vx <= S * vz /\ S * vY <= r * vy
    BY <1>11, <1>12, <1>13
  <2>3. /\ S * vY \in Int /\ S * vX \in Int /\ S * vz \in Int
        /\ r * vx \in Int /\ r * vy \in Int
    OBVIOUS
  <2> QED BY <1>14, <2>1, <2>2, <2>3
<1>16. vY <= vX
  BY <1>1, <1>15, CancelFactor
<1> QED BY <1>8, <1>13, <1>16 DEF healthFactorOK

\* After it, the units cover every debt of a well managed set.
LEMMA ManagedDebtCovered ==
    ASSUME LInv, WellManaged, totalSupply > 0, NEW b \in BorrowAsset
    PROVE  Covers(afterPreHook, b, totalSupply, debt[b]) /\ borrowUnit(afterPreHook, b) <= 0
<1>1. /\ b \in Component /\ pos \in Unscaled /\ totalSupply \in Nat /\ debt[b] \in Nat
      /\ borrowUnit(afterPreHook, b) <= 0
      /\ OwedByUnit(b)
  BY LeverageAssumption, PreHookPositions DEF LInv
<1>2. CASE contains(borrowAssets, b)
  BY <1>1, <1>2, PreHookPositions DEF WellManaged
<1>3. CASE debt[b] = 0
  <2>1. Covers(pos, b, totalSupply, debt[b])
    <3>1. borrowUnit(pos, b) <= 0 /\ borrowUnit(pos, b) \in Int
      BY <1>1, DebtUnits DEF OwedByUnit
    <3>2. PICK w \in Nat, S \in Nat : w = - borrowUnit(pos, b) /\ S = totalSupply
      BY <1>1, <3>1
    <3>3. w * S \in Nat /\ PRECISE_UNIT \in Nat
      BY ProductOfNat, PreciseUnitAssumption
    <3>4. 0 * PRECISE_UNIT <= w * S
      BY <3>3
    <3> QED BY <1>3, <3>2, <3>4 DEF Covers
  <2> QED BY <1>1, <2>1, PreHookPositions
<1>4. CASE debt[b] > 0 /\ ~ contains(borrowAssets, b)
  <2>1. PositionInv(pos) /\ pos.externalPositionModules[b] \in Seq(Module)
    BY <1>1, PositionFields DEF Unscaled, PositionInv
  <2>2. isExternalPositionModule(pos, b, leverageModule)
    BY <1>1, <1>4, <2>1, ListedWithUnit, LeverageAssumption DEF borrowUnit, OwedByUnit
  <2>3. hasExternalPosition(pos, b)
    BY <2>1, <2>2 DEF isExternalPositionModule, hasExternalPosition, contains, Range
  <2> QED BY <1>4, <2>3 DEF WellManaged
<1> QED BY <1>1, <1>2, <1>3, <1>4

\* Any part of the supply of a well managed set can be redeemed while its health factor
\* holds, and all of it always, whatever interest, prices, liquidation, gifts and rounding
\* did before.
THEOREM HealthyAlwaysRedeemable == LeverageSpec => []HealthyLeverageRedeemable
<1>1. ASSUME LInv, AaveInv, WellManaged, NEW q \in 1..totalSupply, NEW f \in FeeRate,
             NEW s \in ProtocolSplit, f <= PRECISE_UNIT,
             healthFactorOK(balance, usageAsCollateral, debt)
               \/ redemption(q, f, s).net = totalSupply
      PROVE  redeemWithHooksOK(q, redemption(q, f, s))
  <2> DEFINE fee == calculateTotalFees(q, f, s)
             R == redemption(q, f, s)
  <2>1. /\ totalSupply \in Nat /\ balance \in [Component -> Nat] /\ debt \in [BorrowAsset -> Nat]
        /\ BorrowAsset \subseteq Component /\ Collateral \cap BorrowAsset = {}
        /\ f \in Nat /\ s \in Nat /\ s <= PRECISE_UNIT
        /\ mayWrite /\ isModuleHook
    BY <1>1, IssuanceAssumption, LeverageAssumption, PreciseUnitAssumption
       DEF LInv, ProtocolSplit, WellManaged
  <2>2. q \in Nat /\ q > 0 /\ q <= totalSupply /\ totalSupply > 0
    BY <2>1
  <2>3. fee.totalFee \in Nat /\ fee.totalFee <= q /\ calculateTotalFeesOK(fee)
    BY <1>1, <2>1, <2>2, FeesOfShares
  <2> HIDE DEF fee
  <2>4. PICK n \in Nat : n = q - fee.totalFee /\ n <= totalSupply
    BY <2>1, <2>2, <2>3
  <2>5. LET r == redemption(q, f, s)
        IN  /\ r.fee = calculateTotalFees(q, f, s) /\ r.net = n /\ r.p = afterPreHook
            /\ \A c \in Component :
                 /\ r.equity[c] = equityOut(afterPreHook, n, c)
                 /\ r.equity[c] \in Nat
                 /\ r.newBalance[c] \in Int
                 /\ balance[c] - r.equity[c] <= r.newBalance[c]
                 /\ c \notin BorrowAsset => r.newBalance[c] = balance[c] - r.equity[c]
            /\ \A b \in BorrowAsset :
                 /\ r.paid[b] = preciseMulCeil(- borrowUnit(afterPreHook, b), n)
                 /\ r.repay[b] = r.paid[b]
                 /\ r.newDebt[b] = debt[b] - repaid(b, r.paid[b])
            /\ r.newBalance \in [Component -> Int]
            /\ r.newDebt \in [BorrowAsset -> Int]
    <3>1. n = q - calculateTotalFees(q, f, s).totalFee
      BY <2>4 DEF fee
    <3> QED BY Zenon, <1>1, <2>1, <2>2, <2>4, <3>1, RedemptionAmounts
  <2>6. PICK p \in Unscaled : p = synced /\ p = afterPreHook
    BY <1>1, <2>1, PreHookPositions DEF afterPreHook
  <2>7. /\ R.fee = fee /\ R.net = n /\ R.p = p
        /\ \A c \in Component :
             /\ R.equity[c] = equityOut(p, n, c)
             /\ R.equity[c] \in Nat
             /\ R.newBalance[c] \in Int
             /\ balance[c] - R.equity[c] <= R.newBalance[c]
             /\ c \notin BorrowAsset => R.newBalance[c] = balance[c] - R.equity[c]
        /\ \A b \in BorrowAsset :
             /\ R.paid[b] = preciseMulCeil(- borrowUnit(p, b), n)
             /\ R.repay[b] = R.paid[b]
             /\ R.newDebt[b] = debt[b] - repaid(b, R.paid[b])
        /\ R.newBalance \in [Component -> Int]
        /\ R.newDebt \in [BorrowAsset -> Int]
        /\ healthFactorOK(balance, usageAsCollateral, debt) \/ n = totalSupply
    BY Zenon, <1>1, <2>5, <2>6 DEF R, fee
  <2> HIDE DEF R
  <2>8. ASSUME NEW c \in Component PROVE Backs(p, c, totalSupply, balance[c])
    BY Zenon, <1>1, <2>2, <2>6, WellManagedIsBacked
  <2>9. ASSUME NEW b \in BorrowAsset, R.paid[b] > 0
        PROVE  /\ validateCollateralizationPostTransferInPreHook(
                     R.p, b, balance[b] + R.paid[b], totalSupply, R.paid[b])
               /\ hookOK(R.p, b)
               /\ R.repay[b] > 0 /\ debt[b] > 0
    <3>1. borrowUnit(p, b) <= 0
      BY <1>1, <2>6, PreHookPositions
    <3>2. PICK m \in Nat : m = R.paid[b] /\ m > 0 /\ borrowUnit(p, b) < 0
      <4>1. PICK w \in Nat :
              /\ w = - borrowUnit(p, b) /\ (w > 0 <=> borrowUnit(p, b) < 0)
              /\ preciseMulCeil(w, n) \in Nat
              /\ preciseMulCeil(w, n) > 0 => w > 0
        BY <3>1, HookedDebt
      <4>2. R.paid[b] = preciseMulCeil(w, n)
        BY Zenon, <2>7, <4>1
      <4> QED BY <2>9, <4>1, <4>2
    <3>3. debt[b] > 0
      BY <1>1, <2>2, <2>6, <3>2, UnitMeansDebt
    <3>4. PICK u \in Nat : u = getDefaultPositionRealUnit(p, b)
      BY <2>1, DebtUnits
    <3>5. PICK z \in Nat : z = balance[b]
      BY <2>1
    <3>6. totalSupply * u <= PRECISE_UNIT * z
      BY <2>1, <2>8, <3>4, <3>5 DEF Backs
    <3>7. preciseMulCeil(totalSupply, u) <= z /\ preciseMulCeil(totalSupply, u) \in Nat
      BY <2>1, <3>6, MulCeilIsLeast, MulCeilIsTight
    <3>8. z + m >= preciseMulCeil(totalSupply, u) + m
      BY <3>7
    <3>9. validateCollateralizationPostTransferInPreHook(
            R.p, b, balance[b] + R.paid[b], totalSupply, R.paid[b])
      BY Zenon, <2>7, <3>2, <3>4, <3>5, <3>8 DEF validateCollateralizationPostTransferInPreHook
    <3> QED BY <2>1, <2>7, <2>9, <3>2, <3>3, <3>9 DEF hookOK
  <2>10. ASSUME NEW c \in Component
         PROVE  /\ R.newBalance[c] >= 0
                /\ validateCollateralizationPostTransferOut(
                     R.p, c, R.newBalance[c], totalSupply - R.net)
    <3>1. PICK z \in Nat : z = balance[c]
      BY <2>1
    <3>2. PICK y \in Int : y = R.newBalance[c]
      BY <2>7
    <3>3. z - equityOut(p, n, c) <= y /\ Backs(p, c, totalSupply, z)
      BY <2>7, <2>8, <3>1, <3>2
    <3>4. y \in Nat /\ preciseMulCeil(totalSupply - n, getDefaultPositionRealUnit(p, c)) <= y
      BY <2>1, <2>4, <3>3, EquityOut
    <3>5. preciseMulCeil(totalSupply - n, getDefaultPositionRealUnit(p, c)) \in Nat
      <4>1. PICK u \in Nat : u = getDefaultPositionRealUnit(p, c)
        BY DebtUnits
      <4>2. PICK t \in Nat : t = totalSupply - n
        BY <2>1, <2>4
      <4>3. preciseMulCeil(t, u) \in Nat
        BY MulCeilIsTight
      <4> QED BY <4>1, <4>2, <4>3
    <3> QED BY <2>7, <3>2, <3>4, <3>5 DEF validateCollateralizationPostTransferOut
  <2>11. syncOK
    BY <1>1, <2>1, SyncPasses
  <2>12. R.net >= 0
    BY <2>4, <2>7
  <2>13. R.newBalance \in [Component -> Nat]
    BY <2>7, <2>10
  <2>14. ASSUME NEW a \in Collateral
         PROVE  /\ R.newBalance[a] <= balance[a]
                /\ (totalSupply - n) * balance[a] <= totalSupply * R.newBalance[a]
    <3>1. a \in Component /\ a \notin BorrowAsset
      BY <2>1, LeverageAssumption
    <3>2. PICK S \in Nat, z \in Nat, e \in Nat :
            S = totalSupply /\ z = balance[a] /\ e = R.equity[a]
      BY <2>1, <2>7, <3>1
    <3>3. PICK u \in Nat : u = getDefaultPositionRealUnit(p, a)
      BY <3>1, HookedEquity
    <3>4. S * u <= PRECISE_UNIT * z
      BY <2>8, <3>1, <3>2, <3>3 DEF Backs
    <3>5. PRECISE_UNIT * e <= n * u
      BY <2>7, <3>1, <3>2, <3>3, HookedEquity DEF equityOut
    <3>6. (S - n) * z <= S * (z - e)
      BY <3>4, <3>5, ShareOut
    <3>7. R.newBalance[a] = z - e
      BY <2>7, <3>1, <3>2
    <3> QED BY <3>2, <3>6, <3>7
  <2>15. ASSUME NEW b \in BorrowAsset
         PROVE  /\ R.newDebt[b] \in Nat
                /\ totalSupply * R.newDebt[b] <= (totalSupply - n) * debt[b]
    <3>1. Covers(p, b, totalSupply, debt[b]) /\ borrowUnit(p, b) <= 0
      BY <1>1, <2>1, <2>2, <2>6, ManagedDebtCovered
    <3>2. PICK S \in Nat, d \in Nat : S = totalSupply /\ d = debt[b] /\ n <= S
      BY <2>1, <2>4
    <3>3. PICK w \in Nat : w = - borrowUnit(p, b) /\ preciseMulCeil(w, n) \in Nat
      BY <3>1, HookedDebt
    <3>4. PICK m \in Nat : m = preciseMulCeil(w, n) /\ w * n <= PRECISE_UNIT * m
      BY <3>3, MulCeilIsAbove
    <3>5. d * PRECISE_UNIT <= w * S
      BY <3>1, <3>2, <3>3 DEF Covers
    <3>6. S * (IF m <= d THEN d - m ELSE 0) <= (S - n) * d
      BY <3>2, <3>4, <3>5, ShareRepaid
    <3>7. R.newDebt[b] = IF m <= d THEN d - m ELSE 0
      BY <2>7, <3>2, <3>3, <3>4 DEF repaid
    <3>8. R.newDebt[b] \in Nat
      BY <3>7
    <3> QED BY <3>2, <3>6, <3>7, <3>8
  <2>16. R.newDebt \in [BorrowAsset -> Nat]
    BY <2>7, <2>15
  <2>17. healthFactorOK(R.newBalance, collateralUse(R.newBalance), R.newDebt)
    BY <1>1, <2>2, <2>4, <2>7, <2>13, <2>14, <2>15, <2>16, HealthKept
  <2> QED BY <2>2, <2>3, <2>7, <2>9, <2>10, <2>11, <2>12, <2>17
          DEF redeemWithHooksOK, preHookOK, R
<1>2. LInv /\ AaveInv => HealthyLeverageRedeemable
  BY <1>1 DEF HealthyLeverageRedeemable
<1> QED BY <1>2, SpecLInv, SpecAaveInv, PTL
=============================================================================
