----------------------------- MODULE Capability -----------------------------
(***************************************************************************)
(* The two inputs of check(): the capability descriptor of a device        *)
(* (src/src/capability.h) and the static part of a pulse program           *)
(* (src/src/ir.h), as CONSTANTS, with the lookups and the rejection        *)
(* records every rule shares.                                              *)
(*                                                                         *)
(* Times are in ticks (see TickMath), frequencies, phases and amplitudes   *)
(* in whole steps of one scale.  The program binds its channels to the     *)
(* descriptor's by name, so both are functions of the channel name.        *)
(***************************************************************************)
EXTENDS TickMath, Sequences, FiniteSets

CONSTANTS
    Absent,             \* an optional field that is not there (has_x = false)
    Device,             \* descriptor: channel name -> CapChannel
    Channels,           \* program: channel name -> IrChannel
    FrameDefs,          \* program: the sequence of frames
    Waveforms,          \* program: waveform name -> waveform
    Budgets,            \* descriptor: the sequence of budgets
    AmplitudeRounding,  \* descriptor: rounding.amplitude
    MaxInt,             \* stands for INT64_MAX
    MaxRat              \* stands for the largest numerator a Rat holds

Frames == DOMAIN FrameDefs

ChannelOf(f) == FrameDefs[f].channel

RuleIds ==
    << "pulse_length_range", "pulse_length_grid", "readout_length_range",
       "frequency_range", "frequency_resolution", "phase_resolution",
       "amplitude_range", "amplitude_resolution", "envelope_sample_grid",
       "envelope_amplitude", "envelope_memory", "schedule_grid",
       "negative_duration", "negative_time", "mux_tone_mask",
       "mux_tone_count", "start_spacing", "frequency_update_spacing",
       "capture_spacing", "capture_length_uniform",
       "envelope_duration_exact", "capture_slot" >>

CoverageClasses ==
    RuleIds \o << "pmem_words", "wmem_words", "loop_registers",
                  "unconstrained_channel" >>

Classes == {CoverageClasses[i] : i \in DOMAIN CoverageClasses}

Statuses == {"checked", "not_applicable", "unchecked", "indeterminate"}

Severities == {"fatal", "vendor_repairable"}

-----------------------------------------------------------------------------
(* find_constraint: the first constraint of the channel with this id. *)
Declarations(c, id) ==
    {i \in DOMAIN Device[c].constraints : Device[c].constraints[i].id = id}

Declared(c, id) == Declarations(c, id) # {}

Constraint(c, id) ==
    Device[c].constraints[CHOOSE i \in Declarations(c, id) :
                              \A j \in Declarations(c, id) : i <= j]

Unit(c) == Device[c].unit

HasTones(c) == Channels[c].tones # << >>

(* A Rat that overflows and an int64_t that overflows: the checker refuses *)
(* to answer rather than answer from a wrapped value.                      *)
RatFits(v) == -MaxRat <= v /\ v <= MaxRat

IntFits(n) == -(MaxInt + 1) <= n /\ n <= MaxInt

-----------------------------------------------------------------------------
(* A rejection, without the value and the limit it quotes. *)
NoRepair == "none"

Rejection(rule, severity, repair, element) ==
    [rule |-> rule, severity |-> severity, repair |-> repair,
     element |-> element]

Fatal(rule, element) == Rejection(rule, "fatal", NoRepair, element)

Repairable(rule, repair, element) ==
    Rejection(rule, "vendor_repairable", repair, element)

(* The rules whose severity the descriptor chooses: the repair is reported *)
(* exactly when the chosen severity is vendor_repairable.                  *)
EitherWay(rule, severity, repair, element) ==
    Rejection(rule, severity,
              IF severity = "vendor_repairable" THEN repair ELSE NoRepair,
              element)

(* The rules that report the declared severity and never a repair. *)
AsDeclared(c, rule, element) ==
    Rejection(rule, Constraint(c, rule).severity, NoRepair, element)

When(condition, rejection) == IF condition THEN << rejection >> ELSE << >>

ScheduleSeverity(c) ==
    IF Declared(c, "schedule_grid")
    THEN Constraint(c, "schedule_grid").severity
    ELSE "vendor_repairable"
=============================================================================
