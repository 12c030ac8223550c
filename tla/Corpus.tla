-------------------------------- MODULE Corpus --------------------------------
(***************************************************************************)
(* build_corpus of src/tools/differential/corpus.py: the programs that     *)
(* probe a descriptor.  A ladder walks one declared limit: values far      *)
(* below, just below, at, just above and far above it.  A family of cases  *)
(* is one such sequence of rungs and the program it builds of each value.  *)
(*                                                                         *)
(* Device[c] carries two fields the checker does not read: sampleUnit, and *)
(* type, the hardware behind the channel.  Amplitudes are in FullScale-ths *)
(* of full scale and phases in Turn-ths of a turn; "rat" is exact in both. *)
(* Every declared unit and resolution is an even number of steps, so half  *)
(* of one is a value too.                                                  *)
(***************************************************************************)
EXTENDS MCDevices, SequencesExt

CONSTANTS
    Order,          \* the names of the channels, as the descriptor lists them
    MixerSetting,   \* board config: channel -> mixer frequency or Absent
    FullScale,
    Turn

HalfScale == FullScale \div 2

(* "declared": the constraint is there and has the field. *)
Has(c, id, field) == Declared(c, id) /\ Constraint(c, id)[field] # Absent

FieldOr(c, id, field, default) ==
    IF Has(c, id, field) THEN Constraint(c, id)[field] ELSE default

-----------------------------------------------------------------------------
(* Rungs. *)
Rung(rung, value) == [end |-> "", rung |-> rung, value |-> value]

Ladder(limit, step, span) ==
    << Rung("far_below", limit - span * step), Rung("just_below", limit - step),
       Rung("at", limit),
       Rung("just_above", limit + step), Rung("far_above", limit + span * step) >>

Around(m, grid) ==
    << Rung("just_below", m - grid), Rung("at", m), Rung("just_above", m + grid) >>

OddMultiple == 3

Steps(res) ==
    << Rung("on_resolution", 100 * res), Rung("three_steps", OddMultiple * res),
       Rung("half_step_off", res \div 2) >>

PhasesAround(res) ==
    << Rung("on_resolution", 1000 * res), Rung("three_steps", OddMultiple * res),
       Rung("half_step_off", res \div 2), Rung("one_and_half_steps", (3 * res) \div 2) >>

OffGrid(grid) ==
    << Rung("on_grid", 0), Rung("one_unit_off", 1), Rung("half_grid_off", grid \div 2),
       Rung("odd_grid", grid) >>

NotNegative(rungs) == SelectSeq(rungs, LAMBDA r : r.value >= 0)

(* A length ladder, in whole grids, for a limit that is declared. *)
Lengths(limit, grid) ==
    IF limit = Absent THEN << >> ELSE NotNegative(Ladder(limit, grid, 3))

(* The two ends of a band; without a resolution the rungs are one apart. *)
Ends(k, offset) ==
    LET step == IF k.resolution = Absent THEN 1 ELSE k.resolution
        End(which, limit) ==
            IF limit = Absent THEN << >>
            ELSE LET ladder == Ladder(limit + offset, step, 3)
                 IN  [i \in DOMAIN ladder |-> [ladder[i] EXCEPT !.end = which]]
    IN  End("min", k.min) \o End("max", k.max)

(* One program per rung, named for the channel, the family and the rung.   *)
Family(name, rungs, Build(_)) ==
    [i \in DOMAIN rungs |-> [name |-> << "", name, rungs[i].end, rungs[i].rung >>,
                             program |-> Build(rungs[i].value)]]

-----------------------------------------------------------------------------
(* Programs.  Frame 1 is on the drive channel, frame 2 on the readout.     *)
Drives == SelectSeq(Order, LAMBDA c : Device[c].kind = "drive")

Readouts == SelectSeq(Order, LAMBDA c : Device[c].kind = "readout")

(* One channel per distinct record, the first of each. *)
FirstsOf(names) ==
    LET First(c) == \A i, j \in DOMAIN names :
                       names[j] = c /\ i < j => Device[names[i]] # Device[c]
    IN  SelectSeq(names, First)

IsMux(c) == Device[c].capabilities.nTones \notin {Absent, 0}

(* _mixer_hz: only where a post_mixer band needs it. *)
Mixer(c) ==
    IF /\ Device[c].kind = "drive"
       /\ \E i \in DOMAIN Device[c].constraints : Device[c].constraints[i].postMixer
    THEN MixerSetting[c] ELSE Absent

MixerOrZero(c) == IF Mixer(c) = Absent THEN 0 ELSE Mixer(c)

(* mixer_offset: a post_mixer ladder walks what the device sees. *)
\* Fault: the ladder walks the band as it is declared.
MixerOffsetNone(c) == 0

MixerOffset(c) ==
    IF Constraint(c, "frequency_range").postMixer THEN MixerOrZero(c) ELSE 0

Base(c) == [ProgramChannel(Unit(c)) EXCEPT !.mixer = Mixer(c)]

On(c, phase) == [channel |-> c, frequency |-> 0, phase |-> phase]

Const(amplitude) == [kind |-> "const", amplitude |-> amplitude]

Program(channels, frames, waveforms, elements) ==
    [channels |-> channels, frames |-> frames, waveforms |-> waveforms, elements |-> elements]

HalfWave == [w0 |-> Const(HalfScale)]

GenProgram(g, elements) == Program(g :> Base(g), << On(g, 0) >>, HalfWave, elements)

ReadoutProgram(g, r, elements) ==
    Program(g :> Base(g) @@ r :> ProgramChannel(Unit(r)), << On(g, 0), On(r, 0) >>,
            HalfWave, elements)

Nominal(g) == 60 * Device[g].durationGrid

(* A play of the nominal length, after what leads up to it. *)
PlaysLast(g) == Plays(1, Nominal(g), "w0")

Lead(duration) == IF duration = 0 THEN << >> ELSE << Waits(1, duration) >>

-----------------------------------------------------------------------------
(* mux_cases: a channel with a tone table and mask plays. *)
ToneProgram(g, tones, lead, elements) ==
    Program(g :> [Base(g) EXCEPT !.tones = tones], << On(g, 0) >>, << >>,
            Lead(lead) \o elements)

Tone(frequency, phase, amplitude) ==
    [frequency |-> frequency, phase |-> phase, amplitude |-> amplitude]

MuxCases(g) ==
    LET mixer  == MixerOrZero(g)
        ok     == Tone(mixer, 0, HalfScale)
        nTones == Device[g].capabilities.nTones
        grid   == Device[g].durationGrid
        sgrid  == Device[g].scheduleGrid
        Lasts(duration) == ToneProgram(g, << ok >>, 0, << Sounds(1, duration, << 0 >>) >>)
        Starts(lead)    == ToneProgram(g, << ok >>, lead, << Sounds(1, Nominal(g), << 0 >>) >>)
        Sings(tones, mask) == ToneProgram(g, tones, 0, << Sounds(1, Nominal(g), mask) >>)
        OneTone(tone)   == Sings(<< tone >>, << 0 >>)
        Bounded(id, Case(_)) == IF Declared(g, id) THEN Case(Constraint(g, id)) ELSE << >>
        Stepped(id, Case(_)) ==
            IF Has(g, id, "resolution") THEN Case(Constraint(g, id).resolution) ELSE << >>
    IN  Bounded("pulse_length_range", LAMBDA k :
                   Family("mux_pulse_length_range_min", Lengths(k.minUnits, grid), Lasts)
                   \o Family("mux_pulse_length_range_max", Lengths(k.maxUnits, grid), Lasts))
        \o Family("mux_pulse_length_grid", OffGrid(grid), LAMBDA v : Lasts(Nominal(g) + v))
        \o Family("mux_schedule_grid", OffGrid(sgrid), LAMBDA v : Starts(4 * sgrid + v))
        \o Family("mux_negative_duration", << Rung("", -grid) >>, Lasts)
        \o Bounded("frequency_range", LAMBDA k :
                   Family("mux_tone_frequency", Ends(k, mixer),
                          LAMBDA v : OneTone(Tone(v, 0, HalfScale))))
        \o Stepped("frequency_range", LAMBDA res :
                   Family("mux_tone_frequency_resolution", Steps(res),
                          LAMBDA v : OneTone(Tone(mixer + v, 0, HalfScale))))
        \o Stepped("phase_resolution", LAMBDA res :
                   Family("mux_tone_phase_resolution", Steps(res),
                          LAMBDA v : OneTone(Tone(mixer, v, HalfScale))))
        \o Bounded("amplitude_range", LAMBDA k :
                   Family("mux_tone_amplitude", Ends(k, 0), LAMBDA v : OneTone(Tone(mixer, 0, v))))
        \o Stepped("amplitude_range", LAMBDA res :
                   Family("mux_tone_amplitude_resolution", Steps(res),
                          LAMBDA v : OneTone(Tone(mixer, 0, v))))
        \o Family("mux_tone_count",
                  SelectSeq(<< Rung("under", nTones - 1), Rung("at", nTones),
                               Rung("over", nTones + 1) >>, LAMBDA r : r.value >= 1),
                  LAMBDA k : Sings([i \in 1 .. k |-> ok], << 0 >>))
        \o Family("mux_tone_mask",
                  << Rung("first", << 0 >>), Rung("last", << nTones - 1 >>),
                     Rung("two", << 0, nTones - 1 >>), Rung("duplicate", << 0, 0 >>),
                     Rung("at_count", << nTones >>), Rung("past_count", << nTones + 3 >>) >>,
                  LAMBDA mask : Sings([i \in 1 .. nTones |-> ok], mask))

-----------------------------------------------------------------------------
(* The ladders of a drive channel. *)
LengthCases(g) ==
    LET grid == Device[g].durationGrid
        Lasts(duration) == GenProgram(g, << Plays(1, duration, "w0") >>)
        Limited(field) ==
            Lengths(FieldOr(g, "pulse_length_range", field, Absent), grid)
    IN  Family("pulse_length_range_min", Limited("minUnits"), Lasts)
        \o Family("pulse_length_range_max", Limited("maxUnits"), Lasts)
        \o Family("pulse_length_grid",
                  OffGrid(grid) \o << Rung("one_below_next", grid - 1) >>,
                  LAMBDA v : Lasts(Nominal(g) + v))

ScheduleCases(g) ==
    LET grid == Device[g].scheduleGrid
    IN  Family("schedule_grid", OffGrid(grid),
               LAMBDA v : GenProgram(g, << Waits(1, 4 * grid + v), PlaysLast(g) >>))

FrequencyCases(g) ==
    LET k == Constraint(g, "frequency_range")
        Tuned(v) == GenProgram(g, << Retunes(1, v), PlaysLast(g) >>)
    IN  IF ~Declared(g, "frequency_range") THEN << >>
        ELSE Family("frequency_range", Ends(k, MixerOffset(g)), Tuned)
             \o Family("frequency_resolution",
                       IF k.resolution = Absent THEN << >> ELSE Steps(k.resolution), Tuned)

PhaseCases(g) ==
    IF ~Has(g, "phase_resolution", "resolution") THEN << >>
    ELSE Family("phase_resolution", PhasesAround(Constraint(g, "phase_resolution").resolution),
                LAMBDA v : GenProgram(g, << Shifts(1, v), PlaysLast(g) >>))

(* Without a resolution the ladder walks in thousandths of full scale. *)
AmplitudeCases(g) ==
    LET k    == Constraint(g, "amplitude_range")
        step == IF k.resolution = Absent THEN FullScale \div 1000 ELSE k.resolution
        Loud(v) == Program(g :> Base(g), << On(g, 0) >>, [w0 |-> Const(v)], << PlaysLast(g) >>)
    IN  IF ~Declared(g, "amplitude_range") THEN << >>
        ELSE Family("amplitude_range", Ends([k EXCEPT !.resolution = step], 0), Loud)
             \o Family("amplitude_resolution", Steps(step), Loud)

NegativeCases(g) ==
    Family("negative_duration",
           << Rung("negative_duration", -Device[g].durationGrid), Rung("zero_duration", 0) >>,
           LAMBDA v : GenProgram(g, << Plays(1, v, "w0") >>))

(* cases_offlattice: a grid of one unit can only be missed by half a unit. *)
HalfUnits(g, elements) ==
    [GenProgram(g, elements) EXCEPT !.channels[g].unit = Unit(g) \div 2]

OffLatticeCases(g) ==
    LET step == Later(60, 2 * FieldOr(g, "start_spacing", "minUnits", 0))
        rungs == << Rung("on_lattice", 0), Rung("half_unit_off", 1) >>
    IN  IF Device[g].durationGrid # 1 /\ Device[g].scheduleGrid # 1 THEN << >>
        ELSE Family("offlattice_duration", rungs, LAMBDA v :
                    HalfUnits(g, << Plays(1, step + v, "w0"), Waits(1, step),
                                    Plays(1, step, "w0") >>))
             \o Family("offlattice_start", rungs, LAMBDA v :
                       HalfUnits(g, << Waits(1, step + v), Plays(1, step, "w0") >>))

-----------------------------------------------------------------------------
(* cases_spacing *)
TwoTunings(gap, last) == << Retunes(1, 0) >> \o Lead(gap) \o << Retunes(1, 0), last >>

SpacingCases(g) ==
    LET grid  == Device[g].durationGrid
        start == Constraint(g, "start_spacing")
        m     == Constraint(g, "frequency_update_spacing").minUnits
        Turned(elements) == [GenProgram(g, elements) EXCEPT !.frames[1].phase = Turn \div 4]
    IN  (IF ~Declared(g, "start_spacing") THEN << >>
         ELSE Family("start_spacing", Around(start.minUnits, grid), LAMBDA gap :
                     GenProgram(g, << Plays(1, gap, "w0"), PlaysLast(g) >>))
              \o IF ~start.initialPhaseUpdate THEN << >>
                 ELSE Family("initial_phase_update",
                             << Rung("same_time", 0), Rung("just_below", start.minUnits - grid),
                                Rung("at", start.minUnits) >>,
                             LAMBDA gap : Turned(Lead(gap) \o << PlaysLast(g) >>)))
        \o (IF ~Declared(g, "frequency_update_spacing") THEN << >>
            ELSE Family("frequency_update_spacing", << Rung("same_time", 0) >> \o Around(m, grid),
                        LAMBDA gap : GenProgram(g, TwoTunings(gap, PlaysLast(g)))))

-----------------------------------------------------------------------------
(* cases_envelope.  Where the duration is exact a play lasts as long as    *)
(* its samples; build_corpus gives up when they miss the channel's unit.   *)
Exact(g) == Declared(g, "envelope_duration_exact")

SampleUnit(g) == IF Device[g].sampleUnit = Absent THEN Unit(g) ELSE Device[g].sampleUnit

SampleTime(g, n) == (n * SampleUnit(g)) \div Unit(g)

EnvelopeProgram(g, n, amplitude, duration) ==
    Program(g :> [Base(g) EXCEPT !.sampleUnit = SampleUnit(g)], << On(g, 0) >>,
            [e0 |-> [kind |-> "samples", i |-> [k \in 1 .. n |-> amplitude],
                     q |-> [k \in 1 .. n |-> 0]]],
            << Plays(1, duration, "e0") >>)

EnvelopeDuration(g, n) == IF Exact(g) THEN SampleTime(g, n) ELSE Nominal(g)

EnvelopeLengths(g) ==
    LET grid == Device[g].capabilities.sampleGrid
        mem  == Device[g].capabilities.memory
    IN  << Rung("on_grid", 8 * grid), Rung("one_sample_over", 8 * grid + 1),
           Rung("one_sample_under", 8 * grid - 1) >>
        \o IF mem = Absent THEN << >>
           ELSE << Rung("at_memory", (mem \div grid) * grid),
                   Rung("over_memory", (mem \div grid + 1) * grid) >>

EnvelopeCases(g) ==
    LET grid   == Device[g].capabilities.sampleGrid
        maxAbs == Device[g].capabilities.maxAbs
        safe   == IF maxAbs \in {Absent, 0} THEN 1000 ELSE maxAbs \div 2
    IN  IF grid = Absent THEN << >>
        ELSE Family("envelope_length", EnvelopeLengths(g), LAMBDA n :
                    EnvelopeProgram(g, n, safe, EnvelopeDuration(g, n)))
             \o Family("envelope_amplitude",
                       IF maxAbs = Absent THEN << >> ELSE NotNegative(Ladder(maxAbs, 1, 2)),
                       LAMBDA v : EnvelopeProgram(g, 8 * grid, v, EnvelopeDuration(g, 8 * grid)))
             \o IF ~Exact(g) THEN << >>
                ELSE Family("envelope_duration", << Rung("one_sample_long", 8 * grid + 1) >>,
                            LAMBDA n : EnvelopeProgram(g, 8 * grid, safe, SampleTime(g, n)))

OffTheUnit(g) ==
    /\ Device[g].capabilities.sampleGrid # Absent
    /\ Exact(g)
    /\ \E i \in DOMAIN EnvelopeLengths(g) :
          ~Divides(Unit(g), EnvelopeLengths(g)[i].value * SampleUnit(g))

-----------------------------------------------------------------------------
(* The ladders of a readout, under a play of the drive channel. *)
CaptureLength(r) ==
    LET least == FieldOr(r, "readout_length_range", "minUnits", 0)
    IN  IF least = 0 THEN Device[r].durationGrid ELSE least

AfterPlay(g, r, elements) ==
    ReadoutProgram(g, r, << PlaysLast(g), Aligns(<< >>) >> \o elements)

TwoCaptures(g, r, gap, second) ==
    LET first == CaptureLength(r)
    IN  ReadoutProgram(g, r, << PlaysLast(g), Captures(2, first), Waits(2, gap - first),
                                Captures(2, second) >>)

CaptureCases(g, r) ==
    LET k     == Constraint(r, "readout_length_range")
        grid  == Device[r].durationGrid
        sgrid == Device[r].scheduleGrid
        dur   == CaptureLength(r)
        far   == FieldOr(r, "capture_spacing", "minUnits", 4 * grid)
        Lasts(v) == AfterPlay(g, r, << Captures(2, v) >>)
    IN  IF ~Declared(r, "readout_length_range") THEN << >>
        ELSE Family("readout_length_range_min", Lengths(k.minUnits, grid), Lasts)
             \o Family("readout_length_range_max", Lengths(k.maxUnits, grid), Lasts)
             \o Family("readout_schedule_grid", OffGrid(sgrid), LAMBDA v :
                       ReadoutProgram(g, r, << PlaysLast(g), Waits(2, 4 * sgrid + v),
                                               Captures(2, dur) >>))
             \o Family("readout_pulse_length_grid", OffGrid(grid), LAMBDA v : Lasts(60 * grid + v))
             \o (IF ~Declared(r, "capture_spacing") THEN << >>
                 ELSE Family("capture_spacing",
                             SelectSeq(Ladder(far, grid, 1), LAMBDA rung : rung.value >= dur),
                             LAMBDA gap : TwoCaptures(g, r, gap, dur)))
             \o (IF ~Declared(r, "capture_length_uniform") THEN << >>
                 ELSE Family("capture_length_uniform",
                             << Rung("same", dur), Rung("differs", dur + grid) >>,
                             LAMBDA second : TwoCaptures(g, r, 2 * far, second)))

CarrierCases(g, r) ==
    LET k     == Constraint(r, "frequency_range")
        grid  == Device[r].durationGrid
        Updated(elements) == AfterPlay(g, r, elements \o << Captures(2, CaptureLength(r)) >>)
        Tuned(v) == Updated(<< Retunes(2, v) >>)
        OnReadout(elements) == [i \in DOMAIN elements |-> [elements[i] EXCEPT !.frame = 2]]
    IN  (IF ~Declared(r, "frequency_range") THEN << >>
         ELSE Family("readout_frequency_range", Ends(k, MixerOffset(r)), Tuned)
              \o Family("readout_frequency_resolution",
                        IF k.resolution = Absent THEN << >> ELSE Steps(k.resolution), Tuned))
        \o (IF ~Has(r, "phase_resolution", "resolution") THEN << >>
            ELSE Family("readout_phase_resolution",
                        PhasesAround(Constraint(r, "phase_resolution").resolution),
                        LAMBDA v : Updated(<< Shifts(2, v) >>)))
        \o (IF ~Declared(r, "frequency_update_spacing") THEN << >>
            ELSE Family("readout_frequency_update_spacing",
                        << Rung("same_time", 0) >>
                            \o Around(Constraint(r, "frequency_update_spacing").minUnits, grid),
                        LAMBDA gap : Updated(OnReadout(<< Retunes(1, 0) >> \o Lead(gap)
                                                           \o << Retunes(1, 0) >>))))

CaptureOffLatticeCases(g, r) ==
    LET rungs == << Rung("on_lattice", 0), Rung("half_unit_off", 1) >>
        Half(elements) == [AfterPlay(g, r, elements) EXCEPT !.channels[r].unit = Unit(r) \div 2]
    IN  IF Device[r].durationGrid # 1 /\ Device[r].scheduleGrid # 1 THEN << >>
        ELSE Family("readout_offlattice_duration", rungs, LAMBDA v :
                    Half(<< Captures(2, 240 + v) >>))
             \o Family("readout_offlattice_start", rungs, LAMBDA v :
                       Half(<< Waits(2, 120 + v), Captures(2, 240) >>))

-----------------------------------------------------------------------------
(* cases_budgets: as many plays, or waveforms, as the limit and one more.  *)
\* Fault: the programs fall well inside and well outside the limit.
AroundLimitFar(limit, more) ==
    << Rung("half_limit", limit \div 2), Rung("over_limit", limit + more) >>

AroundLimit(limit, more) ==
    << Rung("half_limit", limit \div 2), Rung("at_limit", limit),
       Rung("one_over", limit + 1), Rung("over_limit", limit + more) >>

LoadedStep(g) ==
    Later(3 * Device[g].durationGrid, FieldOr(g, "start_spacing", "minUnits", 0))

BudgetCases(g, b) ==
    CASE b.id = "pmem_words" ->
             Family("pmem_words", AroundLimit((b.limit - b.overhead) \div b.perItem, 8), LAMBDA n :
                    GenProgram(g, [i \in 1 .. Later(n, 1) |-> Plays(1, LoadedStep(g), "w0")]))
      [] b.id = "wmem_words" ->
             Family("wmem_words", AroundLimit(b.limit, 4), LAMBDA n :
                    Program(g :> Base(g), << On(g, 0) >>,
                            [i \in 1 .. Later(n, 1) |->
                                Const(((((i - 1) % 32) + 1) * FullScale) \div 64)],
                            [i \in 1 .. Later(n, 1) |-> Plays(1, 3 * Device[g].durationGrid, i)]))
      [] OTHER -> << >>

(* Keyed by id, the last declaration of an id wins. *)
LastOfItsId(i) == \A j \in DOMAIN Budgets : j > i => Budgets[j].id # Budgets[i].id

Scoped == \E i \in DOMAIN Budgets : Budgets[i].channels # {}

MixedBudgets == Scoped /\ \E i \in DOMAIN Budgets : Budgets[i].channels = {}

OwnerOf(b) == SelectSeq(Drives, LAMBDA c : c \in b.channels)[1]

Tagged(g, cases) == [i \in DOMAIN cases |-> [cases[i] EXCEPT !.name[1] = g]]

AllBudgetCases(g) ==
    FlattenSeq([i \in DOMAIN Budgets |->
        IF Scoped THEN Tagged(OwnerOf(Budgets[i]), BudgetCases(OwnerOf(Budgets[i]), Budgets[i]))
        ELSE IF LastOfItsId(i) THEN BudgetCases(g, Budgets[i]) ELSE << >>])

UnconstrainedCases(g) ==
    LET free == SelectSeq(Order, LAMBDA c : Device[c].constraints = << >>)
    IN  Family("unconstrained_channel",
               [i \in 1 .. Cardinality({1} \cap DOMAIN free) |-> Rung("bound", free[1])],
               LAMBDA r : AfterPlay(g, r, << Captures(2, 10 * Device[r].durationGrid) >>))

-----------------------------------------------------------------------------
(* random_cases and the random part of mux_cases.  What the generator      *)
(* draws is a set: every value it can draw is possible, of which the       *)
(* limits and both their sides are kept and the rest is represented: two   *)
(* steps from a limit are as good as one.                                  *)
NearLimit(limit, step) == {limit + i * step : i \in -1 .. 1}

DrawnAmplitudes(g) ==
    IF Has(g, "amplitude_range", "max") /\ Has(g, "amplitude_range", "resolution")
    THEN LET k == Constraint(g, "amplitude_range")
         IN  {sign * v : sign \in {1, -1}, v \in NearLimit(k.max, k.resolution)}
    ELSE {0, (100 * FullScale) \div 128}

DrawnDurations(g) ==
    LET grid   == Device[g].durationGrid
        least  == FieldOr(g, "pulse_length_range", "minUnits", grid)
        most   == FieldOr(g, "pulse_length_range", "maxUnits", 4000 * grid)
        inside == {n * grid + off : n \in {1, 200}, off \in {0, 1, grid \div 2}}
    IN  {Later(v, 0) : v \in NearLimit(least, grid) \cup NearLimit(most, grid) \cup inside}

DrawnWaits(g) ==
    {n * Device[g].scheduleGrid + off : n \in {1, 50}, off \in {0, 1}}

DrawnFrequencies(g) ==
    IF ~Has(g, "frequency_range", "max") THEN {}
    ELSE LET k == Constraint(g, "frequency_range")
         IN  {sign * v + MixerOffset(g) : sign \in {1, -1},
                  v \in NearLimit(k.max, IF k.resolution = Absent THEN 1 ELSE k.resolution)}

DrawnPhases == {0, 1, Turn - 1}

DrawnElements(g) ==
    {Plays(1, duration, "w0") : duration \in DrawnDurations(g)}
    \cup {Waits(1, duration) : duration \in DrawnWaits(g)}
    \cup {Retunes(1, v) : v \in DrawnFrequencies(g)}
    \cup {Shifts(1, v) : v \in DrawnPhases}

(* A program without a play gets one. *)
RandomProgram(g, amplitude, elements) ==
    Program(g :> Base(g), << On(g, 0) >>, [w0 |-> Const(amplitude)],
            IF \E i \in DOMAIN elements : elements[i].kind = "play" THEN elements
            ELSE Append(elements, PlaysLast(g)))

(* At most four tones, one neighbourhood for all of a table. *)
DrawnTables(g) ==
    LET n == Device[g].capabilities.nTones
        most == IF n < 4 THEN n ELSE 4
        Stepped(id) == Has(g, id, "resolution")
        Step(id)    == Constraint(g, id).resolution
        NearOr(id, limit, otherwise) ==
            IF Stepped(id) THEN NearLimit(limit, Step(id)) ELSE {otherwise}
    IN  {[i \in 1 .. k |-> Tone(MixerOrZero(g) + f, p, a)] :
             k \in 1 .. most,
             f \in NearOr("frequency_range", FieldOr(g, "frequency_range", "max", 0), 0),
             p \in NearOr("phase_resolution", Turn, 0),
             a \in NearOr("amplitude_range", FullScale, HalfScale)}

DrawnToneElements(g, n) ==
    {Sounds(1, k * Device[g].durationGrid, SetToSortSeq(mask, <)) :
         k \in {1, 200}, mask \in SUBSET (0 .. n - 1) \ {{}}}
    \cup {Waits(1, k * Device[g].scheduleGrid) : k \in {0, 10}}

RandomToneProgram(g, tones, elements) == ToneProgram(g, tones, 0, elements)

-----------------------------------------------------------------------------
(* build_corpus *)
GeneratorCases(g) ==
    LET ros == FirstsOf(Readouts)
    IN  IF IsMux(g) THEN MuxCases(g)
        ELSE LengthCases(g) \o ScheduleCases(g) \o FrequencyCases(g) \o PhaseCases(g)
             \o AmplitudeCases(g) \o EnvelopeCases(g) \o NegativeCases(g)
             \o OffLatticeCases(g) \o SpacingCases(g)
             \o FlattenSeq([i \in DOMAIN ros |-> CaptureCases(g, ros[i]) \o CarrierCases(g, ros[i])
                                                 \o CaptureOffLatticeCases(g, ros[i])])

Generators == FirstsOf(Drives)

CannotBuild ==
    MixedBudgets \/ \E g \in ToSet(Generators) : ~IsMux(g) /\ OffTheUnit(g)

Cases ==
    FlattenSeq([i \in DOMAIN Generators |-> Tagged(Generators[i], GeneratorCases(Generators[i]))])
    \o AllBudgetCases(Generators[1]) \o UnconstrainedCases(Generators[1])
=============================================================================
