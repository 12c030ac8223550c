\* The spacing rules over every pair of operations.
CONSTANTS
    Absent = Absent
    Device <- SpacingDevice
    Channels <- SpacingChannels
    FrameDefs <- SpacingFrames
    Waveforms <- SpacingWaveforms
    Budgets <- SpacingBudgets
    AmplitudeRounding = "nearest_even"
    MaxInt = 1000
    MaxRat = 1000
    ElementSet <- SpacingElements
    MaxElements = 5
SPECIFICATION HSpec
INVARIANTS
    StartsSpaced
    StartRejectionsJustified
    EndMarginKept
    RepeatsSpaced
    SlotsKept
    CaptureLengthsUniform
