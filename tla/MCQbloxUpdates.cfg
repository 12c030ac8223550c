\* The checker against a Qblox cluster, row by row: updates without an output after them.
CONSTANTS
    Absent = Absent
    Device <- ClusterDevice
    Channels <- ClusterChannels
    FrameDefs <- ClusterFrames
    Waveforms <- ClusterWaveforms
    Budgets <- NoBudgets
    AmplitudeRounding = "nearest_even"
    MaxInt = 1000
    MaxRat = 1000
    ElementSet <- ClusterElements
    LowerableElements <- ClusterElements
    MaxElements = 2
    Library = "qblox"
    Board <- ClusterBoard
    Behaviors <- NoBehaviors
    Turn = 8
    FloatStep = 1
    Steps <- ClusterSteps
    FullScale = 8
    LongestPlay = 5
    ClosingPlay = 2
    Never = Never
    MaxSteps = 100
SPECIFICATION DSpec
INVARIANTS
    UnusedUpdatesUnseen
