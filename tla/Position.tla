------------------------------ MODULE Position ------------------------------
(***************************************************************************)
(* The position storage of one SetToken (contracts/protocol/SetToken.sol)  *)
(* and the library every module edits it through                           *)
(* (contracts/protocol/lib/Position.sol).                                  *)
(*                                                                         *)
(* A position state p is the record PositionState; an operation op(p, ...) *)
(* yields the state after the call and opOK(p, ...) says that the call     *)
(* does not revert.  Because a revert undoes the whole transaction, every  *)
(* action of the modules below takes opOK as its guard.                    *)
(*                                                                         *)
(* The bytes attached to an external position are left out: every caller   *)
(* in the repository passes the empty string.                              *)
(***************************************************************************)
EXTENDS PreciseUnitMath, AddressArrayUtils, FiniteSets

CONSTANTS Component,      \* token addresses that can be components
          Module,         \* module addresses
          UnitWriter      \* the modules that also write external units directly

ASSUME UnitWriterAssumption == UnitWriter \subseteq Module

PositionState ==
    [components : Seq(Component),
     virtualUnit : [Component -> Int],
     externalPositionModules : [Component -> Seq(Module)],
     externalVirtualUnit : [Component -> [Module -> Int]],
     positionMultiplier : Int]

\* What the constructor stores for the components of a new set.
InitialPositions(components, units) ==
    [components |-> components,
     virtualUnit |-> [c \in Component |-> IF contains(components, c) THEN units[c] ELSE 0],
     externalPositionModules |-> [c \in Component |-> <<>>],
     externalVirtualUnit |-> [c \in Component |-> [m \in Module |-> 0]],
     positionMultiplier |-> PRECISE_UNIT]

ComponentLists == UNION {[1..n -> Component] : n \in 1..Cardinality(Component)}

-----------------------------------------------------------------------------
(* SetToken: unit conversion and getters.                                   *)

convertVirtualToRealUnit(p, v) == conservativePreciseMul(v, p.positionMultiplier)

convertRealToVirtualUnit(p, r) == conservativePreciseDiv(r, p.positionMultiplier)

\* The two reverts of _convertRealToVirtualUnit: a positive real unit may not
\* vanish in the virtual unit, nor on the way back.
convertRealToVirtualUnitOK(p, r) ==
    LET v == convertRealToVirtualUnit(p, r)
    IN  r > 0 => v # 0 /\ convertVirtualToRealUnit(p, v) # 0

getDefaultPositionRealUnit(p, c) == convertVirtualToRealUnit(p, p.virtualUnit[c])

getExternalPositionRealUnit(p, c, m) ==
    convertVirtualToRealUnit(p, p.externalVirtualUnit[c][m])

isComponent(p, c) == contains(p.components, c)

isExternalPositionModule(p, c, m) == contains(p.externalPositionModules[c], m)

-----------------------------------------------------------------------------
(* SetToken: the low-level writes.                                          *)

addComponent(p, c) == [p EXCEPT !.components = Append(@, c)]
addComponentOK(p, c) == ~ isComponent(p, c)

removeComponent(p, c) == [p EXCEPT !.components = removeStorage(@, c)]
removeComponentOK(p, c) == isComponent(p, c)

editDefaultPositionUnit(p, c, r) ==
    [p EXCEPT !.virtualUnit[c] = convertRealToVirtualUnit(p, r)]

addExternalPositionModule(p, c, m) ==
    [p EXCEPT !.externalPositionModules[c] = Append(@, m)]

\* Removes the module and deletes the position it had.
removeExternalPositionModule(p, c, m) ==
    [p EXCEPT !.externalPositionModules[c] = removeStorage(@, m),
              !.externalVirtualUnit[c][m] = 0]

editExternalPositionUnit(p, c, m, r) ==
    [p EXCEPT !.externalVirtualUnit[c][m] = convertRealToVirtualUnit(p, r)]

\* Absolute virtual units of the positions the set tracks.
TrackedVirtualUnits(p) ==
    {p.virtualUnit[c] : c \in Range(p.components)}
      \union UNION {{abs(p.externalVirtualUnit[c][m]) :
                        m \in Range(p.externalPositionModules[c])} :
                    c \in Range(p.components)}

\* Faulty: the scan for the smallest unit leaves out external positions.
validateDefaultUnitsOnly(p, newMultiplier) ==
    \A c \in Range(p.components) :
        p.virtualUnit[c] > 0 => conservativePreciseMul(p.virtualUnit[c], newMultiplier) > 0

\* The smallest non-zero tracked unit must stay positive under the new
\* multiplier.  With no position at all the code converts 2^256 - 1 to int256
\* and reverts, which is the \E failing here.
validateNewMultiplier(p, newMultiplier) ==
    \E minimumUnit \in TrackedVirtualUnits(p) \ {0} :
        /\ \A v \in TrackedVirtualUnits(p) \ {0} : minimumUnit <= v
        /\ conservativePreciseMul(minimumUnit, newMultiplier) > 0

editPositionMultiplier(p, newMultiplier) ==
    [p EXCEPT !.positionMultiplier = newMultiplier]

-----------------------------------------------------------------------------
(* Position library.                                                        *)

hasDefaultPosition(p, c) == getDefaultPositionRealUnit(p, c) > 0
hasExternalPosition(p, c) == p.externalPositionModules[c] # <<>>

\* Which of the three branches of editDefaultPosition runs.
OpensComponent(p, c, newUnit) ==
    ~ hasDefaultPosition(p, c) /\ newUnit > 0 /\ ~ hasExternalPosition(p, c)
\* Faulty: forgets the external positions.
ClosesComponentAlways(p, c, newUnit) == hasDefaultPosition(p, c) /\ newUnit = 0
ClosesComponent(p, c, newUnit) ==
    hasDefaultPosition(p, c) /\ newUnit = 0 /\ ~ hasExternalPosition(p, c)

editDefaultPositionOK(p, c, newUnit) ==
    /\ OpensComponent(p, c, newUnit) => addComponentOK(p, c)
    /\ ClosesComponent(p, c, newUnit) => removeComponentOK(p, c)
    /\ convertRealToVirtualUnitOK(p, newUnit)

editDefaultPosition(p, c, newUnit) ==
    LET q == CASE OpensComponent(p, c, newUnit) -> addComponent(p, c)
               [] ClosesComponent(p, c, newUnit) -> removeComponent(p, c)
               [] OTHER -> p
    IN  editDefaultPositionUnit(q, c, newUnit)

\* The component goes with its last external position when there is no default
\* position either.
ClosesLastPosition(p, c) ==
    getDefaultPositionRealUnit(p, c) = 0 /\ Len(p.externalPositionModules[c]) = 1

editExternalPositionOK(p, c, m, newUnit) ==
    IF newUnit # 0
    THEN /\ ~ isComponent(p, c) => ~ isExternalPositionModule(p, c, m)
         /\ convertRealToVirtualUnitOK(p, newUnit)
    ELSE getExternalPositionRealUnit(p, c, m) # 0 =>
           /\ isExternalPositionModule(p, c, m)
           /\ ClosesLastPosition(p, c) =>
                /\ p.externalPositionModules[c][1] = m
                /\ removeComponentOK(p, c)

editExternalPosition(p, c, m, newUnit) ==
    IF newUnit # 0
    THEN LET q == IF isComponent(p, c) THEN p ELSE addComponent(p, c)
             r == IF isExternalPositionModule(q, c, m) THEN q
                  ELSE addExternalPositionModule(q, c, m)
         IN  editExternalPositionUnit(r, c, m, newUnit)
    ELSE IF getExternalPositionRealUnit(p, c, m) = 0 THEN p
    ELSE LET q == IF ClosesLastPosition(p, c) THEN removeComponent(p, c) ELSE p
         IN  removeExternalPositionModule(q, c, m)

-----------------------------------------------------------------------------
(* Position library: notional amounts of default positions.                 *)

hasSufficientDefaultUnits(p, c, unit) == getDefaultPositionRealUnit(p, c) >= unit

getDefaultTotalNotional(supply, unit) == preciseMul(supply, unit)

getDefaultPositionUnit(supply, notional) == preciseDiv(notional, supply)

getDefaultTrackedBalance(p, supply, c) ==
    preciseMul(supply, getDefaultPositionRealUnit(p, c))

\* The part of the balance that was not tracked before stays untracked.
AirdroppedAmount(supply, preTotalNotional, preUnit) ==
    preTotalNotional - preciseMul(preUnit, supply)

\* Faulty: rounds the new unit up.
editPositionUnitRoundedUp(supply, preTotalNotional, postTotalNotional, preUnit) ==
    preciseDivCeil(postTotalNotional - AirdroppedAmount(supply, preTotalNotional, preUnit), supply)

calculateDefaultEditPositionUnit(supply, preTotalNotional, postTotalNotional, preUnit) ==
    preciseDiv(postTotalNotional - AirdroppedAmount(supply, preTotalNotional, preUnit), supply)

\* SafeMath reverts when the tracked amount exceeds the previous balance, when
\* the untracked amount exceeds the new one, and on a supply of zero.
calculateDefaultEditPositionUnitOK(supply, preTotalNotional, postTotalNotional, preUnit) ==
    LET airdropped == AirdroppedAmount(supply, preTotalNotional, preUnit)
    IN  0 <= airdropped /\ airdropped <= postTotalNotional /\ supply # 0

calculateAndEditDefaultPositionOK(p, c, supply, preBalance, currentBalance) ==
    LET unit == getDefaultPositionRealUnit(p, c)
    IN  IF currentBalance > 0
        THEN /\ calculateDefaultEditPositionUnitOK(supply, preBalance, currentBalance, unit)
             /\ editDefaultPositionOK(p, c,
                   calculateDefaultEditPositionUnit(supply, preBalance, currentBalance, unit))
        ELSE editDefaultPositionOK(p, c, 0)

calculateAndEditDefaultPosition(p, c, supply, preBalance, currentBalance) ==
    LET unit == getDefaultPositionRealUnit(p, c)
    IN  editDefaultPosition(p, c,
            IF currentBalance > 0
            THEN calculateDefaultEditPositionUnit(supply, preBalance, currentBalance, unit)
            ELSE 0)
=============================================================================
