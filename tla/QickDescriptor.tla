---------------------------- MODULE QickDescriptor ----------------------------
(***************************************************************************)
(* build of src/tools/descriptor/build_qick.py: the capability descriptor  *)
(* of a QICK board from its config.  Of the citations only the budgets'    *)
(* are kept, as in QbloxDescriptor.                                        *)
(*                                                                         *)
(* A config is [name, gens, readouts, timeClock, pmem, wmem, registers];   *)
(* clocks are whole numbers that divide TickRate, the ticks of a second.   *)
(***************************************************************************)
EXTENDS MCDevices, Survey, SequencesExt

CONSTANTS
    TickRate,
    FullScale,      \* steps of amplitude at full scale
    Turn,           \* steps of phase in a turn
    DdsSteps,       \* frequency steps of f_dds: 2 ** B_DDS
    PhaseSteps,     \* phase steps of a turn: 2 ** B_PHASE
    MaxCycles,      \* the length register of a generator: 2 ** 16 - 1
    MuxMaxCycles    \* the time immediate that bounds a muxed one: 2 ** 31 - 1

(* time_unit: one tick of both clocks.  A channel cycle is durationGrid    *)
(* units and a tProc tick scheduleGrid units.                              *)
CommonRate(f, g) == CHOOSE r \in 1 .. f * g :
    /\ Divides(f, r) /\ Divides(g, r)
    /\ \A s \in 1 .. r - 1 : ~(Divides(f, s) /\ Divides(g, s))

TimeBase(kind, clock, timeClock) ==
    LET rate == CommonRate(clock, timeClock)
    IN  Channel(kind, TickRate \div rate, rate \div clock, rate \div timeClock, << >>)

Band(severity, min, max, resolution, postMixer) ==
    [NoLimits("frequency_range", severity, "range_resolution")
        EXCEPT !.min = min, !.max = max, !.resolution = resolution, !.postMixer = postMixer]

PhaseStep ==
    [NoLimits("phase_resolution", "vendor_repairable", "range_resolution")
        EXCEPT !.resolution = Turn \div PhaseSteps]

Amplitude(resolution) ==
    [NoLimits("amplitude_range", "vendor_repairable", "range_resolution")
        EXCEPT !.min = -FullScale, !.max = FullScale, !.resolution = resolution]

Length(id, grid, cycles) ==
    [UnitsFrom(id, 3 * grid) EXCEPT !.maxUnits = cycles * grid]

IsMuxType(g) == g.type = "axis_sg_mixmux8_v1"

(* The upper edge of an interpolated band is one step inside f_dds/2: the  *)
(* vendor subtracts the mixer in floating point and refuses the edge.      *)
FrequencyConstraint(g) ==
    LET half == g.dds \div 2
        step == g.dds \div DdsSteps
    IN  IF IsMuxType(g) THEN Band("fatal", -half, half, step, TRUE)
        ELSE IF g.interpolation # 1 THEN Band("fatal", -half, half - step, step, TRUE)
        ELSE Band("vendor_repairable", -half, half, step, FALSE)

(* The gain register truncates gain * maxv * maxv_scale on a plain         *)
(* generator and rounds gain * maxv on a muxed one.                        *)
GainStep(g) ==
    IF IsMuxType(g) THEN FullScale \div g.maxv
    ELSE (FullScale * g.scale.den) \div (g.maxv * g.scale.num)

EnvelopeConstraints(g) ==
    << [NoLimits("envelope_sample_grid", "fatal", "grid_samples")
           EXCEPT !.grid = g.samplesPerClock],
       [NoLimits("envelope_amplitude", "fatal", "range_resolution")
           EXCEPT !.min = -g.maxv, !.max = g.maxv, !.resolution = 1] >>

MuxConstraints == << Units("mux_tone_mask", "fatal"), Units("mux_tone_count", "fatal") >>

GenChannel(g, timeClock) ==
    LET base == TimeBase("drive", g.clock, timeClock)
        common ==
            << Length("pulse_length_range", base.durationGrid,
                      IF IsMuxType(g) THEN MuxMaxCycles ELSE MaxCycles),
               Units("pulse_length_grid", "vendor_repairable"),
               FrequencyConstraint(g), PhaseStep, Amplitude(GainStep(g)) >>
        plain == [base EXCEPT !.constraints = common,
                              !.capabilities.nTones = IF IsMuxType(g) THEN g.nTones ELSE Absent]
        loaded == [plain EXCEPT !.constraints = @ \o EnvelopeConstraints(g),
                                !.capabilities.memory = g.memory,
                                !.capabilities.sampleGrid = g.samplesPerClock,
                                !.capabilities.maxAbs = g.maxv]
    IN  [type |-> g.type, module |-> Absent,
         sampleUnit |-> IF IsMuxType(g) \/ g.memory = Absent THEN Absent
                        ELSE TickRate \div (g.clock * g.samplesPerClock)]
        @@ IF IsMuxType(g) THEN [plain EXCEPT !.constraints = @ \o MuxConstraints]
           ELSE IF g.memory = Absent THEN plain ELSE loaded

(* A static readout was not surveyed and declares nothing. *)
ReadoutChannel(r, timeClock) ==
    LET base == TimeBase("readout", r.clock, timeClock)
    IN  [type |-> r.type, module |-> Absent, sampleUnit |-> Absent]
        @@ IF ~r.dynamic THEN base
           ELSE [base EXCEPT !.constraints =
                    << Length("readout_length_range", base.durationGrid, MaxCycles),
                       Units("pulse_length_grid", "vendor_repairable") >>]

GenNames == << "gen0", "gen1", "gen2", "gen3" >>

ReadoutNames == << "ro0", "ro1", "ro2", "ro3" >>

PmemOverhead == 14

(* Every board cites the rows of one. *)
EvidenceBoard == "zcu216-testbench"

QickBudget(id, limit, overhead, axis, note) ==
    [evidence |-> {Cites(EvidenceBoard, axis, note, "reject")}]
    @@ ProgramBudget(id, limit, overhead)

QickDescriptor(cfg) ==
    LET Gen(c) == CHOOSE i \in DOMAIN cfg.gens : GenNames[i] = c
        Ro(c)  == CHOOSE i \in DOMAIN cfg.readouts : ReadoutNames[i] = c
        names  == SubSeq(GenNames, 1, Len(cfg.gens))
                  \o SubSeq(ReadoutNames, 1, Len(cfg.readouts))
    IN  [config   |-> cfg.name,
         order    |-> names,
         channels |-> [c \in ToSet(names) |->
                          IF c \in ToSet(GenNames)
                          THEN GenChannel(cfg.gens[Gen(c)], cfg.timeClock)
                          ELSE ReadoutChannel(cfg.readouts[Ro(c)], cfg.timeClock)],
         amplitudeRounding |-> "trunc_toward_zero",
         budgets  |->
             << QickBudget("pmem_words", cfg.pmem, PmemOverhead, "budget_pmem", "program memory"),
                QickBudget("wmem_words", cfg.wmem, 0, "budget_wmem", "waveform memory"),
                QickBudget("loop_registers", cfg.registers, 0, "budget_regs", "data registers") >>]
=============================================================================
