\* From the surveys and the configs to a tested descriptor.
CONSTANTS
    Absent = Absent
    Boards <- MCBoards
    Surveys <- MCSurveys
    Toolchains <- MCToolchains
    FullScale = 115200
    Turn = 32
    TickRate = 24
    DdsSteps = 1024
    PhaseSteps = 8
    MaxCycles = 999
    MuxMaxCycles = 9999
    Nanosecond = 2
    NcoFreqStep = 2
    NcoFreqLimit = 1000
    NcoPhaseStep = 2
    GainLevels = 256
    WaveformMemory = 32
    Instructions <- MCInstructions
    MaxAcquisition = 16000
    PulseCounts <- MCPulseCounts
    QickPulses <- MCQickPulses
    QickLoops = {2, 6}
    Spare = 1
    MaxInt = 1000000000
    MaxRat = 1000000000
    MaxDrawn = 2
    Generated = {"cluster", "testbench"}
    Sources = {"plain", "mixed"}
    Unbuildable <- MCUnbuildable
    Names <- MCNames
    MaxRuns = 2
SPECIFICATION Spec
INVARIANTS
    OneGeneration
    CorpusOnTarget
    FaultsSeen
    GateComparesLikeWithLike
\* The last fault has no successor.
CHECK_DEADLOCK FALSE
