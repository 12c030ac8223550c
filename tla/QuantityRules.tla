---------------------------- MODULE QuantityRules ----------------------------
(***************************************************************************)
(* The rules of check.c that look at a value and not at the time it is     *)
(* used: frequency, phase, amplitude, the tone table and the mask of a     *)
(* muxed generator, and the sampled envelopes.  Each rule is up to three   *)
(* operators:                                                              *)
(*   XRejections   what it appends to the sink, in order                   *)
(*   XClasses      the coverage classes it marks checked                   *)
(*   XRefused      when it gives up with a tool error                      *)
(***************************************************************************)
EXTENDS Capability, SequencesExt

Below(k, v) == k.min # Absent /\ v < k.min

Above(k, v) == k.max # Absent /\ v > k.max

(* rat_div moves the sign of a divisor to the quotient. *)
Quantum(k) == Magnitude(k.resolution)

OffStep(k, v) == k.resolution # Absent /\ ~Divides(Quantum(k), v)

(* rat_div refuses a zero divisor. *)
ZeroStep(k) == k.resolution = 0

-----------------------------------------------------------------------------
(* Frequency.  A post_mixer band is compared with what the device sees.    *)
NoMixer(c) == Constraint(c, "frequency_range").postMixer /\ Channels[c].mixer = Absent

BandFrequency(c, v) ==
    IF Constraint(c, "frequency_range").postMixer THEN v - Channels[c].mixer ELSE v

FrequencyRefused(c, v) ==
    /\ Declared(c, "frequency_range")
    /\ \/ NoMixer(c)
       \/ ~RatFits(BandFrequency(c, v))
       \/ ZeroStep(Constraint(c, "frequency_range"))

FrequencyRejections(c, v, e) ==
    IF ~Declared(c, "frequency_range") THEN << >>
    ELSE LET k    == Constraint(c, "frequency_range")
             band == BandFrequency(c, v)
         IN  When(Below(k, band) \/ Above(k, band),
                  EitherWay("frequency_range", k.severity, "alias_mod_f_dds", e))
             \o When(OffStep(k, v),
                     Repairable("frequency_resolution", "quantize_frequency", e))

FrequencyClasses(c) ==
    IF ~Declared(c, "frequency_range") THEN {}
    ELSE {"frequency_range"} \cup
         IF Constraint(c, "frequency_range").resolution = Absent
         THEN {} ELSE {"frequency_resolution"}

-----------------------------------------------------------------------------
(* Phase. *)
PhaseChecks(c) ==
    /\ Declared(c, "phase_resolution")
    /\ Constraint(c, "phase_resolution").resolution # Absent

PhaseRefused(c) == PhaseChecks(c) /\ ZeroStep(Constraint(c, "phase_resolution"))

PhaseRejections(c, v, e) ==
    IF ~PhaseChecks(c) THEN << >>
    ELSE LET k == Constraint(c, "phase_resolution")
         IN  When(OffStep(k, v),
                  Rejection("phase_resolution", k.severity, "quantize_phase", e))

PhaseClasses(c) == IF PhaseChecks(c) THEN {"phase_resolution"} ELSE {}

-----------------------------------------------------------------------------
(* Amplitude.  The clamp acts on the value rounded to the resolution.      *)
Rounded(k, v) ==
    IF k.resolution = Absent THEN v
    ELSE Quantum(k) * RoundNearestEven(v, Quantum(k))

Saturates(k, v) ==
    k.saturateMax # Absent /\ ~Above(k, v) /\ Rounded(k, v) > k.saturateMax

AmplitudeRefused(c) ==
    Declared(c, "amplitude_range") /\ ZeroStep(Constraint(c, "amplitude_range"))

StepRepair ==
    IF AmplitudeRounding = "trunc_toward_zero" THEN "trunc_gain" ELSE "quantize_gain"

AmplitudeRejections(c, v, e) ==
    IF ~Declared(c, "amplitude_range") THEN << >>
    ELSE LET k == Constraint(c, "amplitude_range")
         IN  When(Saturates(k, v), Repairable("amplitude_range", "saturate_gain", e))
             \o When(Below(k, v) \/ Above(k, v),
                     EitherWay("amplitude_range", k.severity, "trunc_gain", e))
             \o When(OffStep(k, v), Repairable("amplitude_resolution", StepRepair, e))

AmplitudeClasses(c) ==
    IF ~Declared(c, "amplitude_range") THEN {}
    ELSE {"amplitude_range"} \cup
         IF Constraint(c, "amplitude_range").resolution = Absent
         THEN {} ELSE {"amplitude_resolution"}

-----------------------------------------------------------------------------
(* A muxed generator: check_tones sends every tone of the channel's table  *)
(* through the three rules above, check_mask looks up the tones of a play. *)
CountChecked(c) ==
    Declared(c, "mux_tone_count") /\ Device[c].capabilities.nTones # Absent

ToneRefused(c) ==
    \E t \in DOMAIN Channels[c].tones :
        LET tone == Channels[c].tones[t]
        IN  FrequencyRefused(c, tone.frequency) \/ PhaseRefused(c) \/ AmplitudeRefused(c)

ToneRejections(c, e) ==
    LET tones == Channels[c].tones
        OfTone(t) == FrequencyRejections(c, tones[t].frequency, e)
                     \o PhaseRejections(c, tones[t].phase, e)
                     \o AmplitudeRejections(c, tones[t].amplitude, e)
    IN  When(CountChecked(c) /\ Len(tones) > Device[c].capabilities.nTones,
             AsDeclared(c, "mux_tone_count", e))
        \o FlattenSeq([t \in DOMAIN tones |-> OfTone(t)])

ToneClasses(c) ==
    FrequencyClasses(c) \cup PhaseClasses(c) \cup AmplitudeClasses(c)
        \cup IF CountChecked(c) THEN {"mux_tone_count"} ELSE {}

BeyondTable(c, index) == index >= Len(Channels[c].tones)

MaskRejections(c, mask, e) ==
    IF ~Declared(c, "mux_tone_mask") THEN << >>
    ELSE FlattenSeq([n \in DOMAIN mask |->
                        When(BeyondTable(c, mask[n]), AsDeclared(c, "mux_tone_mask", e))])

MaskClasses(c) == IF Declared(c, "mux_tone_mask") THEN {"mux_tone_mask"} ELSE {}

-----------------------------------------------------------------------------
(* A sampled envelope: duration, sample grid and amplitude.  Its memory is *)
(* state of the check and is with the play in module Check.                *)
Samples(w) == Len(Waveforms[w].i)

(* envelope_peak: the first sample of largest magnitude, 0 if none. *)
EnvelopePeak(s) ==
    LET Largest == {n \in DOMAIN s : \A m \in DOMAIN s : Magnitude(s[m]) <= Magnitude(s[n])}
    IN  IF s = << >> THEN 0 ELSE s[CHOOSE n \in Largest : \A m \in Largest : n <= m]

WaveformPeak(w) ==
    Later(Magnitude(EnvelopePeak(Waveforms[w].i)), Magnitude(EnvelopePeak(Waveforms[w].q)))

GridChecked(c) ==
    Device[c].capabilities.sampleGrid # Absent /\ Declared(c, "envelope_sample_grid")

AmplitudeChecked(c) ==
    Device[c].capabilities.maxAbs # Absent /\ Declared(c, "envelope_amplitude")

(* A peak of I or Q, as a fraction of max_abs, in steps of envelope_amplitude's *)
(* resolution 1/max_abs: the rounding to the resolution is then exact.          *)
PeakSaturates(c, s) ==
    /\ EnvelopePeak(s) > 0
    /\ EnvelopePeak(s) > Constraint(c, "envelope_amplitude").saturateMax

EnvelopeAmplitudeRejections(c, w, e) ==
    IF WaveformPeak(w) > Device[c].capabilities.maxAbs
    THEN << AsDeclared(c, "envelope_amplitude", e) >>
    ELSE IF Constraint(c, "envelope_amplitude").saturateMax = Absent THEN << >>
    ELSE When(PeakSaturates(c, Waveforms[w].i),
              Repairable("envelope_amplitude", "saturate_gain", e))
         \o When(PeakSaturates(c, Waveforms[w].q),
                 Repairable("envelope_amplitude", "saturate_gain", e))

EnvelopeRefused(c, w, units) ==
    \/ /\ Declared(c, "envelope_duration_exact")
       /\ \/ Channels[c].sampleUnit = Absent
          \/ ~RatFits(units * Unit(c))
          \/ ~RatFits(Samples(w) * Channels[c].sampleUnit)
    \/ AmplitudeChecked(c) /\ WaveformPeak(w) > MaxInt

EnvelopeRejections(c, w, units, e) ==
    When(/\ Declared(c, "envelope_duration_exact")
         /\ units * Unit(c) # Samples(w) * Channels[c].sampleUnit,
         AsDeclared(c, "envelope_duration_exact", e))
    \o When(GridChecked(c) /\ ~Divides(Device[c].capabilities.sampleGrid, Samples(w)),
            AsDeclared(c, "envelope_sample_grid", e))
    \o IF AmplitudeChecked(c) THEN EnvelopeAmplitudeRejections(c, w, e) ELSE << >>

EnvelopeClasses(c) ==
    (IF Declared(c, "envelope_duration_exact") THEN {"envelope_duration_exact"} ELSE {})
    \cup (IF GridChecked(c) THEN {"envelope_sample_grid"} ELSE {})
    \cup (IF AmplitudeChecked(c) THEN {"envelope_amplitude"} ELSE {})
    \cup (IF Device[c].capabilities.memory # Absent THEN {"envelope_memory"} ELSE {})

(* The capability is there and the constraint is not: marked unchecked.    *)
(* The memory rule has no constraint: without the capability it is         *)
(* unchecked on every sampled play.                                        *)
EnvelopeUncheckedClasses(c) ==
    (IF Device[c].capabilities.sampleGrid # Absent /\ ~Declared(c, "envelope_sample_grid")
     THEN {"envelope_sample_grid"} ELSE {})
    \cup (IF Device[c].capabilities.maxAbs # Absent /\ ~Declared(c, "envelope_amplitude")
          THEN {"envelope_amplitude"} ELSE {})
    \cup (IF Device[c].capabilities.memory = Absent THEN {"envelope_memory"} ELSE {})
=============================================================================
