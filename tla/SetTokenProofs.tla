--------------------------- MODULE SetTokenProofs ---------------------------
(***************************************************************************)
(* The safety properties of SetToken for every set of components, modules  *)
(* and managers, every precise unit, and every unit or multiplier a module *)
(* may write.                                                              *)
(***************************************************************************)
EXTENDS SetToken, LibraryProofs

\* The inductive invariant: PositionInv strengthens ComponentsExact and
\* PositionsVisible to virtual units, the other parts stand as they are.
IInv ==
    /\ TypeOK
    /\ PositionInv(pos)
    /\ ModuleListExact
    /\ LockerStaysInitialized

\* A set as SetTokenCreator makes it satisfies the invariant.
LEMMA InitEstablishesIInv == Init => IInv
<1> SUFFICES ASSUME Init PROVE IInv
  OBVIOUS
<1>1. PositionInv(pos)
  <2>1. PICK components \in ComponentLists, units \in [Component -> {u \in RealUnit : u > 0}] :
          ~ hasDuplicate(components) /\ pos = InitialPositions(components, units)
    BY DEF Init
  <2>2. components \in Seq(Component)
    BY <2>1, ComponentListsAreSequences, SetTokenAssumption
  <2>3. units \in [Component -> {u \in Int : u > 0}]
    BY <2>1, SetTokenAssumption
  <2> QED BY <2>1, <2>2, <2>3, InitialPositionsInv
<1>2. TypeOK
  <2>1. PICK pending \in SUBSET isModule :
          moduleStates = [m \in Module |-> IF m \in pending THEN "PENDING" ELSE "NONE"]
    BY Zenon DEF Init
  <2>2. modules \in Seq(Module) /\ totalSupply \in 0..MaxSupply /\ isLocked \in BOOLEAN
    <3>1. modules = <<>> /\ totalSupply = 0 /\ isLocked = FALSE
      BY DEF Init
    <3>2. MaxSupply \in Nat
      BY SetTokenAssumption
    <3>3. <<>> \in Seq(Module) /\ 0 \in 0..MaxSupply
      BY <3>2
    <3> QED BY <3>1, <3>3, Zenon
  <2>3. /\ pos \in PositionState
        /\ locker \in Module \union {NULL}
        /\ manager \in Manager \union {NULL}
        /\ isModule \in SUBSET Module
    BY <1>1 DEF Init, PositionInv
  <2>4. moduleStates \in [Module -> {"NONE", "PENDING", "INITIALIZED"}]
    BY <2>1
  <2> QED BY <2>2, <2>3, <2>4 DEF TypeOK
<1>3. ModuleListExact
  <2>1. ~ hasDuplicate(<<>>) /\ \A m : ~ contains(<<>>, m)
    BY DEF hasDuplicate, IsInjective, contains, Range
  <2> QED BY <2>1 DEF Init, ModuleListExact
<1>4. LockerStaysInitialized
  BY DEF Init, LockerStaysInitialized
<1> QED BY <1>1, <1>2, <1>3, <1>4 DEF IInv

\* Every call of a module, the manager or the owner keeps the invariant.
LEMMA NextKeepsIInv == IInv /\ [Next]_vars => IInv'
<1> SUFFICES ASSUME IInv, [Next]_vars PROVE IInv'
  OBVIOUS
<1> USE SetTokenAssumption
\* An edit of the positions leaves every other variable alone.
<1>1. ASSUME PositionInv(pos'), UNCHANGED <<modules, moduleStates, isLocked, locker, manager,
                                            totalSupply, isModule>>
      PROVE  IInv'
  BY <1>1 DEF IInv, TypeOK, PositionInv, ModuleListExact, LockerStaysInitialized
<1>2. ASSUME NEW m \in Module, NEW c \in Component, NEW u \in RealUnit, u >= 0,
             EditDefaultPosition(m, c, u)
      PROVE  IInv'
  <2>1. PositionInv(pos')
    BY <1>2, EditDefaultPositionKeepsInv DEF EditDefaultPosition, IInv
  <2> QED BY <1>1, <1>2, <2>1 DEF EditDefaultPosition
<1>3. ASSUME NEW m \in Module, NEW c \in Component, NEW u \in RealUnit,
             EditExternalPosition(m, c, u)
      PROVE  IInv'
  <2>1. PositionInv(pos')
    BY <1>3, EditExternalPositionKeepsInv DEF EditExternalPosition, IInv
  <2> QED BY <1>1, <1>3, <2>1 DEF EditExternalPosition
<1>4. ASSUME NEW m \in Module, NEW c \in Component, NEW u \in RealUnit,
              WriteExternalUnit(m, c, u)
       PROVE  IInv'
  <2>1. PositionInv(pos')
    BY <1>4, WriteExternalUnitKeepsInv DEF WriteExternalUnit, IInv
  <2> QED BY <1>1, <1>4, <2>1 DEF WriteExternalUnit
<1>5. ASSUME NEW m \in Module, NEW k \in Multiplier, EditPositionMultiplier(m, k)
      PROVE  IInv'
  <2>1. PositionInv(pos')
    BY <1>5, EditPositionMultiplierKeepsInv DEF EditPositionMultiplier, IInv
  <2> QED BY <1>1, <1>5, <2>1 DEF EditPositionMultiplier
\* The other steps leave the positions alone.
<1>6. ASSUME NEW m \in Module, NEW q \in Quantity, Mint(m, q) PROVE IInv'
  BY <1>6 DEF Mint, IInv, TypeOK, ModuleListExact, LockerStaysInitialized
<1>7. ASSUME NEW m \in Module, NEW q \in Quantity, Burn(m, q) PROVE IInv'
  BY <1>7 DEF Burn, IInv, TypeOK, ModuleListExact, LockerStaysInitialized
<1>8. ASSUME NEW m \in Module, Lock(m) PROVE IInv'
  BY <1>8 DEF Lock, onlyModule, IInv, TypeOK, ModuleListExact, LockerStaysInitialized
<1>9. ASSUME NEW m \in Module, Unlock(m) PROVE IInv'
  BY <1>9 DEF Unlock, IInv, TypeOK, ModuleListExact, LockerStaysInitialized
<1>10. ASSUME NEW m \in Module, InitializeModule(m) PROVE IInv'
  <2>1. /\ modules \in Seq(Module) /\ ~ hasDuplicate(modules) /\ ~ contains(modules, m)
        /\ \A x \in Module : contains(modules, x) <=> moduleStates[x] = "INITIALIZED"
        /\ moduleStates \in [Module -> {"NONE", "PENDING", "INITIALIZED"}]
    BY <1>10 DEF InitializeModule, IInv, TypeOK, ModuleListExact
  <2>2. /\ Append(modules, m) \in Seq(Module)
        /\ ~ hasDuplicate(Append(modules, m))
        /\ \A x : contains(Append(modules, m), x) <=> contains(modules, x) \/ x = m
    BY <2>1, AppendFacts
  <2>3. ModuleListExact'
    BY <1>10, <2>1, <2>2 DEF InitializeModule, ModuleListExact
  <2>4. TypeOK'
    BY <1>10, <2>1, <2>2 DEF InitializeModule, IInv, TypeOK
  <2>5. LockerStaysInitialized' /\ PositionInv(pos)'
    BY <1>10 DEF InitializeModule, IInv, LockerStaysInitialized
  <2> QED BY <2>3, <2>4, <2>5 DEF IInv
<1>11. ASSUME NEW a \in Manager, NEW m \in Module, AddModule(a, m) PROVE IInv'
  BY <1>11 DEF AddModule, IInv, TypeOK, ModuleListExact, LockerStaysInitialized
<1>12. ASSUME NEW a \in Manager, NEW m \in Module, RemoveModule(a, m) PROVE IInv'
  <2>1. /\ modules \in Seq(Module) /\ ~ hasDuplicate(modules) /\ contains(modules, m)
        /\ \A x \in Module : contains(modules, x) <=> moduleStates[x] = "INITIALIZED"
        /\ moduleStates \in [Module -> {"NONE", "PENDING", "INITIALIZED"}]
    BY <1>12 DEF RemoveModule, IInv, TypeOK, ModuleListExact
  <2>2. /\ removeStorage(modules, m) \in Seq(Module)
        /\ ~ hasDuplicate(removeStorage(modules, m))
        /\ \A x : contains(removeStorage(modules, m), x) <=> contains(modules, x) /\ x # m
    BY <2>1, RemoveStorageFacts
  <2>3. ModuleListExact'
    BY <1>12, <2>1, <2>2 DEF RemoveModule, ModuleListExact
  <2>4. TypeOK'
    BY <1>12, <2>1, <2>2 DEF RemoveModule, IInv, TypeOK
  <2>5. LockerStaysInitialized' /\ PositionInv(pos)'
    BY <1>12 DEF RemoveModule, IInv, LockerStaysInitialized
  <2> QED BY <2>3, <2>4, <2>5 DEF IInv
<1>13. ASSUME NEW a \in Manager, NEW m \in Module, RemovePendingModule(a, m) PROVE IInv'
  BY <1>13 DEF RemovePendingModule, IInv, TypeOK, ModuleListExact, LockerStaysInitialized
<1>14. ASSUME NEW a \in Manager, NEW b \in Manager \union {NULL}, SetManager(a, b) PROVE IInv'
  BY <1>14 DEF SetManager, IInv, TypeOK, ModuleListExact, LockerStaysInitialized
<1>15. ASSUME NEW m \in Module, ControllerAddModule(m) \/ ControllerRemoveModule(m) PROVE IInv'
  BY <1>15 DEF ControllerAddModule, ControllerRemoveModule, IInv, TypeOK,
               ModuleListExact, LockerStaysInitialized
<1>16. CASE UNCHANGED vars
  BY <1>16 DEF vars, IInv, TypeOK, ModuleListExact, LockerStaysInitialized
<1> QED BY <1>2, <1>3, <1>4, <1>5, <1>6, <1>7, <1>8, <1>9, <1>10, <1>11, <1>12, <1>13, <1>14,
           <1>15, <1>16 DEF Next, ModuleCall, ManagerCall, OwnerCall

\* What the position invariant says in the terms of the properties.
LEMMA PositionInvImplies ==
    ASSUME PositionInv(pos)
    PROVE  ComponentsExact /\ PositionsVisible
<1>1. pos \in PositionState /\ pos.positionMultiplier \in Int
      /\ pos.externalVirtualUnit \in [Component -> [Module -> Int]]
  BY PositionFields DEF PositionInv
<1>2. ASSUME NEW c \in Component, NEW m \in Module \ UnitWriter, pos.externalVirtualUnit[c][m] = 0
      PROVE  getExternalPositionRealUnit(pos, c, m) = 0
  BY <1>1, <1>2, ConservativeMulSign
     DEF PositionInv, getExternalPositionRealUnit, convertVirtualToRealUnit
<1>3. ComponentsExact
  BY DEF PositionInv, ComponentsMatch, ComponentsExact
<1>4. PositionsVisible
  BY <1>2 DEF PositionInv, DefaultsReadable, ExternalsMatch, PositionsVisible
<1> QED BY <1>3, <1>4

\* The invariant holds in every reachable state.
LEMMA SpecIInv == Spec => []IInv
BY InitEstablishesIInv, NextKeepsIInv, PTL DEF Spec

\* Type correctness of every behaviour of a SetToken.
THEOREM TypeCorrect == Spec => []TypeOK
<1>1. IInv => TypeOK
  BY DEF IInv
<1> QED BY <1>1, SpecIInv, PTL

\* The components array and the stored positions agree, whatever modules write.
THEOREM ComponentsAlwaysExact == Spec => []ComponentsExact
<1>1. IInv => ComponentsExact
  BY PositionInvImplies DEF IInv
<1> QED BY <1>1, SpecIInv, PTL

\* No stored position reads as zero, at any multiplier the set can reach.
THEOREM PositionsAlwaysVisible == Spec => []PositionsVisible
<1>1. IInv => PositionsVisible
  BY PositionInvImplies DEF IInv
<1> QED BY <1>1, SpecIInv, PTL

\* The modules array lists exactly the initialized modules.
THEOREM ModuleListAlwaysExact == Spec => []ModuleListExact
<1>1. IInv => ModuleListExact
  BY DEF IInv
<1> QED BY <1>1, SpecIInv, PTL

\* The locker of a locked set is never removed.
THEOREM LockerAlwaysInitialized == Spec => []LockerStaysInitialized
<1>1. IInv => LockerStaysInitialized
  BY DEF IInv
<1> QED BY <1>1, SpecIInv, PTL

\* A set whose locker is disabled on the Controller is frozen.
THEOREM FrozenUntilLockerEnabled == Spec => FrozenWithoutLocker
<1>1. ASSUME [Next]_vars, isLocked, locker \notin isModule
      PROVE  UNCHANGED <<pos, totalSupply, isLocked, locker, manager, modules>>
  BY <1>1 DEF Next, ModuleCall, ManagerCall, OwnerCall, EditDefaultPosition,
     EditExternalPosition, WriteExternalUnit, EditPositionMultiplier, Mint, Burn, Lock, Unlock,
     InitializeModule, AddModule, RemoveModule, RemovePendingModule, SetManager,
     ControllerAddModule, ControllerRemoveModule, onlyModule, whenLockedOnlyLocker, vars
<1>2. [Next]_vars => [isLocked /\ locker \notin isModule =>
         UNCHANGED <<pos, totalSupply, isLocked, locker, manager, modules>>]_vars
  BY <1>1
<1> QED BY <1>2, PTL DEF Spec, FrozenWithoutLocker
=============================================================================
