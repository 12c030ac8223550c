--------------------------- MODULE QbloxDescriptor ---------------------------
(***************************************************************************)
(* build of src/tools/descriptor/build_qblox.py: the capability descriptor *)
(* of a Qblox cluster from its connectivity graph.  The numbers are those  *)
(* of the toolchain's constants; the ones that are large are parameters.   *)
(* Only the citations of the budgets are kept: the others are text, and    *)
(* their one check is that some row of the catalog matches it.             *)
(*                                                                         *)
(* A config is [name, edges], with edges a sequence of [name, path,        *)
(* module, type]: the channel name, complex_output or complex_input, the   *)
(* module and its type.                                                    *)
(***************************************************************************)
EXTENDS MCDevices, Survey, SequencesExt

CONSTANTS
    Nanosecond,         \* ticks of NS
    NcoFreqStep, NcoFreqLimit, NcoPhaseStep,
    FullScale,          \* steps of amplitude at full scale
    GainLevels,         \* 32768: full scale in gain steps
    WaveformMemory,     \* samples per sequencer
    Instructions,       \* module type -> instructions per sequencer
    MaxAcquisition      \* ns

StartSpacing == 4

FrequencyUpdateSpacing == 4

CaptureSpacing == 300

MinAcquisition == 4

ProgramOverhead == 10

InstructionsPerOutput == 2

PerElementMax == 10

GainStep == FullScale \div GainLevels

TimingConstraints ==
    << Units("pulse_length_grid", "fatal"), Units("schedule_grid", "fatal"),
       [UnitsFrom("start_spacing", StartSpacing) EXCEPT !.initialPhaseUpdate = TRUE],
       UnitsFrom("frequency_update_spacing", FrequencyUpdateSpacing) >>

CarrierConstraints ==
    << [NoLimits("frequency_range", "fatal", "range_resolution")
           EXCEPT !.min = -NcoFreqLimit, !.max = NcoFreqLimit, !.resolution = NcoFreqStep],
       [NoLimits("phase_resolution", "vendor_repairable", "range_resolution")
           EXCEPT !.resolution = NcoPhaseStep] >>

(* Positive full scale is clamped to one step below it. *)
OutputConstraints ==
    << UnitsFrom("pulse_length_range", 1),
       [NoLimits("amplitude_range", "fatal", "range_resolution")
           EXCEPT !.min = -FullScale, !.max = FullScale, !.resolution = GainStep,
                  !.saturateMax = FullScale - GainStep],
       [NoLimits("envelope_sample_grid", "fatal", "grid_samples") EXCEPT !.grid = 1],
       Units("envelope_duration_exact", "fatal"),
       [NoLimits("envelope_amplitude", "fatal", "range_resolution")
           EXCEPT !.min = -GainLevels, !.max = GainLevels, !.resolution = 1,
                  !.saturateMax = GainLevels - 1] >>

CaptureConstraints ==
    << [UnitsFrom("readout_length_range", MinAcquisition) EXCEPT !.maxUnits = MaxAcquisition],
       UnitsFrom("capture_spacing", CaptureSpacing),
       UnitsFrom("capture_slot", StartSpacing),
       Units("capture_length_uniform", "fatal") >>

OutputCapabilities ==
    [NoCapabilities EXCEPT !.memory = WaveformMemory, !.memoryPerFrame = TRUE,
                           !.sampleGrid = 1, !.maxAbs = GainLevels]

IsOutput(edge) == edge.path = "complex_output"

PortChannel(edge) ==
    LET kind == IF IsOutput(edge) THEN "drive" ELSE "readout"
        own  == IF IsOutput(edge) THEN OutputConstraints ELSE CaptureConstraints
        base == Channel(kind, Nanosecond, 1, 1, TimingConstraints \o CarrierConstraints \o own)
    IN  [type |-> edge.path, module |-> edge.module, sampleUnit |-> Nanosecond]
        @@ IF IsOutput(edge) THEN [base EXCEPT !.capabilities = OutputCapabilities] ELSE base

(* One instruction budget per module type, for the channels on it, and the *)
(* rows that bracket its limit.                                            *)
Bracket(type) ==
    CASE type = "QCM" -> << "over on the drive port", "fits on the drive port" >>
      [] type = "QRM" -> << "over on the readout port", "fits on the readout port" >>

ModuleBudget(cfg, type) ==
    LET Counts(note, outcome) == Cites(cfg.name, "budget_instr", note, outcome)
        Costs(note) == Cites(cfg.name, "cost", note, "accept")
    IN  [id |-> "pmem_words", limit |-> Instructions[type], perItem |-> InstructionsPerOutput,
         overhead |-> ProgramOverhead, perElementMax |-> PerElementMax, perFrame |-> TRUE,
         channels |-> {edge.name : edge \in {e \in ToSet(cfg.edges) : e.type = type}},
         evidence |-> {Counts(Bracket(type)[1], "reject"), Counts(Bracket(type)[2], "accept"),
                       Counts("pulses on two clocks of one port", "accept"),
                       Costs("one long acquisition"), Costs("one pulse")}]

QbloxDescriptor(cfg) ==
    LET names == [i \in DOMAIN cfg.edges |-> cfg.edges[i].name]
        types == SelectSeq(<< "QCM", "QRM" >>, LAMBDA t : \E e \in ToSet(cfg.edges) : e.type = t)
        EdgeOf(c) == CHOOSE e \in ToSet(cfg.edges) : e.name = c
    IN  [config   |-> cfg.name,
         order    |-> names,
         channels |-> [c \in ToSet(names) |-> PortChannel(EdgeOf(c))],
         amplitudeRounding |-> "nearest_even",
         budgets  |-> [i \in DOMAIN types |-> ModuleBudget(cfg, types[i])]]
=============================================================================
