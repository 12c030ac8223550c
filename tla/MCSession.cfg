\* Files of no byte up to more than the largest input; reports of at most four pieces.
CONSTANTS
    FirstCap = 1
    MaxInput = 4
    FirstReserve = 2
    Slot = 2
    SizeMax = 7
    Sizes = {0, 1, 2, 3, 4, 5}
    Pieces <- ReportPieces
    MaxPieces = 4
SPECIFICATION Spec
CHECK_DEADLOCK FALSE
INVARIANTS
    InputsWhole
    ReportWhole
    ExitClean
PROPERTIES
    Terminates
