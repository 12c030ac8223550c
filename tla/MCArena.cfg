\* Three blocks of the least size fit, or a large one; 17 + 4 and 4 * 6 wrap.
CONSTANTS
    Null = Null
    SizeMax = 19
    Header = 2
    BlockMin = 3
    MallocAlign = 2
    MaxAlign = 2
    Requests <- ArenaRequests
    ArrayRequests <- ArenaArrays
SPECIFICATION Spec
CHECK_DEADLOCK FALSE
INVARIANTS
    TypeOK
    AllocationsHeld
    AllocationsDisjoint
    EverythingFreed
