\* Every constraint a descriptor may hold, and what an accepted one enforces.
CONSTANTS
    Absent = Absent
    Constraints <- AnyConstraint
    CapabilitySets <- AnyCapabilities
    Probes <- Values
SPECIFICATION Spec
CHECK_DEADLOCK FALSE
INVARIANTS
    RepairsPaired
    DeclaredIsEnforced
