------------------------------ MODULE SetToken ------------------------------
(***************************************************************************)
(* One SetToken (contracts/protocol/SetToken.sol) as SetTokenCreator makes *)
(* it, with the module registry of the Controller it asks for permission.  *)
(*                                                                         *)
(* A module edits the token's positions through the Position library: an   *)
(* edit is one call of the library, whose low-level calls run in one       *)
(* transaction and revert together.  The one exception are the issuance    *)
(* hooks of the PerpV2 modules, which write the unit of their collateral   *)
(* position and leave the lists alone: UnitWriter holds those modules, and *)
(* the action WriteExternalUnit is that write.  The caller of every        *)
(* operation is a parameter of its action.                                 *)
(*                                                                         *)
(* removeModule calls back into the module, which may revert, may call     *)
(* third parties, or may sync its positions first.  The first two are the  *)
(* choice not to take the step, the third is an edit by the still          *)
(* initialized module just before it.                                      *)
(***************************************************************************)
EXTENDS Position

CONSTANTS Manager,        \* addresses that can be the manager
          NULL,           \* address(0)
          RealUnit,       \* real units modules write; negative for debt
          Multiplier,     \* multipliers modules write
          Quantity,       \* amounts of SetToken minted or burnt at once
          MaxSupply       \* bound on the supply

ASSUME SetTokenAssumption ==
    /\ IsFiniteSet(Component) /\ IsFiniteSet(Module)
    /\ NULL \notin Module /\ NULL \notin Manager
    /\ RealUnit \subseteq Int /\ Multiplier \subseteq Int
    /\ Quantity \subseteq Nat /\ MaxSupply \in Nat

VARIABLES pos,            \* components and componentPositions, positionMultiplier
          modules,        \* initialized modules, in storage order
          moduleStates,   \* NONE, PENDING or INITIALIZED
          isLocked, locker,
          manager,
          totalSupply,
          isModule        \* the modules enabled on the Controller

vars == <<pos, modules, moduleStates, isLocked, locker, manager, totalSupply, isModule>>

-----------------------------------------------------------------------------
(* The constructor, with what SetTokenCreator.create has checked.           *)

Init ==
    /\ \E components \in ComponentLists, units \in [Component -> {u \in RealUnit : u > 0}] :
         /\ ~ hasDuplicate(components)
         /\ pos = InitialPositions(components, units)
    /\ isModule \in SUBSET Module
    /\ \E pending \in SUBSET isModule :
         /\ pending # {}
         /\ moduleStates = [m \in Module |-> IF m \in pending THEN "PENDING" ELSE "NONE"]
    /\ modules = <<>>
    /\ isLocked = FALSE
    /\ locker = NULL
    /\ manager \in Manager
    /\ totalSupply = 0

-----------------------------------------------------------------------------
(* The modifiers.                                                           *)

\* Faulty: does not ask the Controller.
onlyInitialized(m) == moduleStates[m] = "INITIALIZED"
onlyModule(m) == moduleStates[m] = "INITIALIZED" /\ m \in isModule

onlyManager(a) == manager = a

whenLockedOnlyLocker(m) == isLocked => locker = m

-----------------------------------------------------------------------------
(* Calls of a module m.                                                     *)

EditDefaultPosition(m, c, newUnit) ==
    /\ onlyModule(m)
    /\ whenLockedOnlyLocker(m)
    /\ editDefaultPositionOK(pos, c, newUnit)
    /\ pos' = editDefaultPosition(pos, c, newUnit)
    /\ UNCHANGED <<modules, moduleStates, isLocked, locker, manager, totalSupply, isModule>>

EditExternalPosition(m, c, newUnit) ==
    /\ onlyModule(m)
    /\ whenLockedOnlyLocker(m)
    /\ editExternalPositionOK(pos, c, m, newUnit)
    /\ pos' = editExternalPosition(pos, c, m, newUnit)
    /\ UNCHANGED <<modules, moduleStates, isLocked, locker, manager, totalSupply, isModule>>

\* The hook runs only while SOME module has an external position in c, and may
\* write any unit, zero included: the value of the perpetual account.
WriteExternalUnit(m, c, newUnit) ==
    /\ m \in UnitWriter
    /\ onlyModule(m)
    /\ whenLockedOnlyLocker(m)
    /\ hasExternalPosition(pos, c)
    /\ convertRealToVirtualUnitOK(pos, newUnit)
    /\ pos' = editExternalPositionUnit(pos, c, m, newUnit)
    /\ UNCHANGED <<modules, moduleStates, isLocked, locker, manager, totalSupply, isModule>>

EditPositionMultiplier(m, newMultiplier) ==
    /\ onlyModule(m)
    /\ whenLockedOnlyLocker(m)
    /\ validateNewMultiplier(pos, newMultiplier)
    /\ pos' = editPositionMultiplier(pos, newMultiplier)
    /\ UNCHANGED <<modules, moduleStates, isLocked, locker, manager, totalSupply, isModule>>

Mint(m, quantity) ==
    /\ onlyModule(m)
    /\ whenLockedOnlyLocker(m)
    /\ totalSupply + quantity <= MaxSupply
    /\ totalSupply' = totalSupply + quantity
    /\ UNCHANGED <<pos, modules, moduleStates, isLocked, locker, manager, isModule>>

\* Faulty: burns more than there is.
BurnUnchecked(m, quantity) ==
    /\ onlyModule(m)
    /\ whenLockedOnlyLocker(m)
    /\ totalSupply' = totalSupply - quantity
    /\ UNCHANGED <<pos, modules, moduleStates, isLocked, locker, manager, isModule>>

Burn(m, quantity) ==
    /\ onlyModule(m)
    /\ whenLockedOnlyLocker(m)
    /\ quantity <= totalSupply
    /\ totalSupply' = totalSupply - quantity
    /\ UNCHANGED <<pos, modules, moduleStates, isLocked, locker, manager, isModule>>

Lock(m) ==
    /\ onlyModule(m)
    /\ ~ isLocked
    /\ locker' = m
    /\ isLocked' = TRUE
    /\ UNCHANGED <<pos, modules, moduleStates, manager, totalSupply, isModule>>

Unlock(m) ==
    /\ onlyModule(m)
    /\ isLocked
    /\ locker = m
    /\ locker' = NULL
    /\ isLocked' = FALSE
    /\ UNCHANGED <<pos, modules, moduleStates, manager, totalSupply, isModule>>

\* Asks only for PENDING: the Controller is not consulted again.
InitializeModule(m) ==
    /\ ~ isLocked
    /\ moduleStates[m] = "PENDING"
    /\ moduleStates' = [moduleStates EXCEPT ![m] = "INITIALIZED"]
    /\ modules' = Append(modules, m)
    /\ UNCHANGED <<pos, isLocked, locker, manager, totalSupply, isModule>>

-----------------------------------------------------------------------------
(* Calls of the manager a.                                                  *)

AddModule(a, m) ==
    /\ onlyManager(a)
    /\ moduleStates[m] = "NONE"
    /\ m \in isModule
    /\ moduleStates' = [moduleStates EXCEPT ![m] = "PENDING"]
    /\ UNCHANGED <<pos, modules, isLocked, locker, manager, totalSupply, isModule>>

\* Faulty: removes a module while the set is locked, or leaves it in the array.
RemoveModuleWhileLocked(a, m) ==
    /\ onlyManager(a)
    /\ moduleStates[m] = "INITIALIZED"
    /\ moduleStates' = [moduleStates EXCEPT ![m] = "NONE"]
    /\ modules' = removeStorage(modules, m)
    /\ UNCHANGED <<pos, isLocked, locker, manager, totalSupply, isModule>>
RemoveModuleKeepingEntry(a, m) ==
    /\ onlyManager(a)
    /\ ~ isLocked
    /\ moduleStates[m] = "INITIALIZED"
    /\ moduleStates' = [moduleStates EXCEPT ![m] = "NONE"]
    /\ UNCHANGED <<pos, modules, isLocked, locker, manager, totalSupply, isModule>>

RemoveModule(a, m) ==
    /\ onlyManager(a)
    /\ ~ isLocked
    /\ moduleStates[m] = "INITIALIZED"
    /\ contains(modules, m)
    /\ moduleStates' = [moduleStates EXCEPT ![m] = "NONE"]
    /\ modules' = removeStorage(modules, m)
    /\ UNCHANGED <<pos, isLocked, locker, manager, totalSupply, isModule>>

RemovePendingModule(a, m) ==
    /\ onlyManager(a)
    /\ ~ isLocked
    /\ moduleStates[m] = "PENDING"
    /\ moduleStates' = [moduleStates EXCEPT ![m] = "NONE"]
    /\ UNCHANGED <<pos, modules, isLocked, locker, manager, totalSupply, isModule>>

SetManager(a, newManager) ==
    /\ onlyManager(a)
    /\ ~ isLocked
    /\ manager' = newManager
    /\ UNCHANGED <<pos, modules, moduleStates, isLocked, locker, totalSupply, isModule>>

-----------------------------------------------------------------------------
(* Calls of the Controller's owner.                                         *)

ControllerAddModule(m) ==
    /\ m \notin isModule
    /\ isModule' = isModule \union {m}
    /\ UNCHANGED <<pos, modules, moduleStates, isLocked, locker, manager, totalSupply>>

ControllerRemoveModule(m) ==
    /\ m \in isModule
    /\ isModule' = isModule \ {m}
    /\ UNCHANGED <<pos, modules, moduleStates, isLocked, locker, manager, totalSupply>>

-----------------------------------------------------------------------------

ModuleCall(m) ==
    \/ \E c \in Component, u \in RealUnit : u >= 0 /\ EditDefaultPosition(m, c, u)
    \/ \E c \in Component, u \in RealUnit : EditExternalPosition(m, c, u)
    \/ \E c \in Component, u \in RealUnit : WriteExternalUnit(m, c, u)
    \/ \E k \in Multiplier : EditPositionMultiplier(m, k)
    \/ \E q \in Quantity : Mint(m, q)
    \/ \E q \in Quantity : Burn(m, q)
    \/ Lock(m)
    \/ Unlock(m)
    \/ InitializeModule(m)

ManagerCall(a) ==
    \/ \E m \in Module : AddModule(a, m)
    \/ \E m \in Module : RemoveModule(a, m)
    \/ \E m \in Module : RemovePendingModule(a, m)
    \/ \E b \in Manager \union {NULL} : SetManager(a, b)

OwnerCall ==
    \E m \in Module : ControllerAddModule(m) \/ ControllerRemoveModule(m)

Next ==
    \/ \E m \in Module : ModuleCall(m)
    \/ \E a \in Manager : ManagerCall(a)
    \/ OwnerCall

Spec == Init /\ [][Next]_vars

-----------------------------------------------------------------------------
(* Properties.                                                              *)

\* Every variable has the type of its storage slot.
TypeOK ==
    /\ pos \in PositionState
    /\ modules \in Seq(Module)
    /\ moduleStates \in [Module -> {"NONE", "PENDING", "INITIALIZED"}]
    /\ isLocked \in BOOLEAN
    /\ locker \in Module \union {NULL}
    /\ manager \in Manager \union {NULL}
    /\ totalSupply \in 0..MaxSupply
    /\ isModule \in SUBSET Module

\* The components array lists every token the set has a position in, exactly
\* once, and no other: addComponent and removeComponent are called by the
\* library on conditions over real units, and neither a rounding of the
\* multiplier nor any order of edits by several modules lets the list and the
\* positions drift apart.
ComponentsExact ==
    /\ ~ hasDuplicate(pos.components)
    /\ \A c \in Component :
         isComponent(pos, c) <=> pos.virtualUnit[c] > 0 \/ hasExternalPosition(pos, c)

\* A stored position never vanishes when it is read: its real unit is zero only
\* if its virtual unit is, at every multiplier the set can reach, and a module
\* is listed under a component exactly while it has a unit there.  The second
\* part leaves out the modules that write units past the library; their writes
\* do not disturb it for the others.
PositionsVisible ==
    /\ pos.positionMultiplier > 0
    /\ \A c \in Component :
         /\ pos.virtualUnit[c] >= 0
         /\ pos.virtualUnit[c] > 0 => getDefaultPositionRealUnit(pos, c) > 0
         /\ ~ hasDuplicate(pos.externalPositionModules[c])
         /\ \A m \in Module \ UnitWriter :
              isExternalPositionModule(pos, c, m) <=> getExternalPositionRealUnit(pos, c, m) # 0

\* The modules array lists the initialized modules, each once: removeStorage
\* never meets a missing module, so removeModule cannot be blocked by it.
ModuleListExact ==
    /\ ~ hasDuplicate(modules)
    /\ \A m \in Module : contains(modules, m) <=> moduleStates[m] = "INITIALIZED"

\* A locked set has a locker, and that module is still initialized: no order of
\* removals takes away the one module that can unlock it.
LockerStaysInitialized ==
    /\ isLocked <=> locker # NULL
    /\ isLocked => moduleStates[locker] = "INITIALIZED"

\* While the locker of a set is disabled on the Controller nothing of the set
\* moves but the list of pending modules: no other module, nor the manager,
\* can touch positions, supply, lock, manager or initialized modules until the
\* Controller enables the locker again.
FrozenWithoutLocker ==
    [][isLocked /\ locker \notin isModule =>
         UNCHANGED <<pos, totalSupply, isLocked, locker, manager, modules>>]_vars

=============================================================================
