\* The checker against a QICK board, row by row.
CONSTANTS
    Absent = Absent
    Device <- RowsDevice
    Channels <- RowsChannels
    FrameDefs <- RowsFrames
    Waveforms <- RowsWaveforms
    Budgets <- NoBudgets
    AmplitudeRounding = "nearest_even"
    MaxInt = 1000
    MaxRat = 1000
    ElementSet <- RowsElements
    LowerableElements <- RowsElements
    MaxElements = 3
    Library = "qick"
    Board <- RowsBoard
    Behaviors <- RowsBehaviors
    Turn = 24
    FloatStep = 2
    Steps = Steps
    FullScale = 1
    LongestPlay = 1
    ClosingPlay = 1
    Never = Never
    MaxSteps = 1
SPECIFICATION DSpec
INVARIANTS
    NothingMissed
    SilentMoveFiled
    RepairsExact
    PlaysKeepTheirValues
    UnusedUpdatesUnseen
PROPERTIES
    LoweringKeepsTime
