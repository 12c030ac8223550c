\* Every pair of four-bit fractions under every operation.
CONSTANTS
    MaxNum = 7
SPECIFICATION Spec
CHECK_DEADLOCK FALSE
INVARIANTS
    ResultExact
    RefusedOnlyIfNeeded
PROPERTIES
    Terminates
