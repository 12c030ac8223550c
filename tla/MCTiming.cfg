\* Alignment, rounding, the program end and the budgets.
CONSTANTS
    Absent = Absent
    Device <- TimingDevice
    Channels <- TimingChannels
    FrameDefs <- TimingFrames
    Waveforms <- TimingWaveforms
    Budgets <- TimingBudgets
    AmplitudeRounding = "nearest_even"
    MaxInt = 11
    MaxRat = 11
    ElementSet <- TimingElements
    MaxElements = 4
SPECIFICATION HSpec
INVARIANTS
    TypeOK
    GridRejectionsExact
    ReportOrdered
    BudgetsHonest
PROPERTIES
    KeepsTime
