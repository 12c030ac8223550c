\* Rejections of one rule against the order of the program.
CONSTANTS
    Absent = Absent
    Device <- SpacingDevice
    Channels <- SpacingChannels
    FrameDefs <- SpacingFrames
    Waveforms <- SpacingWaveforms
    Budgets <- SpacingBudgets
    AmplitudeRounding = "nearest_even"
    MaxInt = 1000
    MaxRat = 1000
    ElementSet <- SpacingElements
    MaxElements = 3
SPECIFICATION HSpec
INVARIANT
    FileOrder
