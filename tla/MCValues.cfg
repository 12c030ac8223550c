\* The lazily checked values, tone tables and envelope memory.
CONSTANTS
    Absent = Absent
    Device <- ValuesDevice
    Channels <- ValuesChannels
    FrameDefs <- ValuesFrames
    Waveforms <- ValuesWaveforms
    Budgets <- ValuesBudgets
    AmplitudeRounding = "trunc_toward_zero"
    MaxInt = 1000
    MaxRat = 1000
    ElementSet <- ValuesElements
    MaxElements = 4
SPECIFICATION HSpec
INVARIANTS
    CarriersChecked
    PhasesChecked
    TonesChecked
    EnvelopeMemoryExact
