SPECIFICATION Spec
CONSTANTS
    PRECISE_UNIT = 4
    Component = {c1}
    Module = {m1, m2}
    UnitWriter = {m2}
    Manager = {alice}
    NULL = NULL
    RealUnit <- SignedUnits
    Multiplier = {1, 3, 5}
    Quantity = {1}
    MaxSupply = 1
SYMMETRY Symmetry
INVARIANTS TypeOK ComponentsExact PositionsVisible ModuleListExact LockerStaysInitialized
PROPERTIES FrozenWithoutLocker
CHECK_DEADLOCK FALSE
