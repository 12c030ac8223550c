---------------------------- MODULE QbloxLowering -----------------------------
(***************************************************************************)
(* build_plan of src/tools/oracle/qblox/lower.py: a pulse program as the   *)
(* operations of a qblox-scheduler Schedule, each at its absolute time.    *)
(* One frame on one channel is one port-clock, which is one sequencer; a   *)
(* frame that neither plays nor captures has none, and its updates are not *)
(* lowered.                                                                *)
(***************************************************************************)
EXTENDS Oracle

CONSTANTS
    Steps,              \* NS, FREQ_STEP, PHASE_STEP, GAIN_STEP: quantity -> step
    FullScale           \* amplitude 1, in the scale of amplitudes

(* bind: the port a hardware path is wired to must be one. *)
QbloxUnbound(c) ==
    \/ c \notin DOMAIN Device
    \/ Board[c].ports # 1
    \/ Channels[c].sampleUnit # Absent /\ Channels[c].sampleUnit # Steps["total_length"]

(* An operation, with what it should show: the exact value asked for.  The *)
(* Schedule holds doubles and is in time order, ties in program order.     *)
Operation(kind, f, t, asked, duration, element) ==
    [kind |-> kind, frame |-> f, t |-> t, asked |-> asked,
     duration |-> duration, element |-> element]

WithOperation(plan, op) == [plan EXCEPT !.ops = Append(@, op)]

(* The frames that have a sequencer start with their initial frequency;    *)
(* the device drops an initial phase, so it is an update at time 0.        *)
InitialLost(f) ==
    Lost("frequency", 0, FrameDefs[f].frequency, Steps["freq"])
    \cup IF FrameDefs[f].phase = 0 THEN {}
         ELSE Lost("phase", 0, FrameDefs[f].phase, Steps["phase"])

InitialPhases(used) ==
    LET turned == SetToSortSeq({f \in used : FrameDefs[f].phase # 0}, <)
    IN  [i \in DOMAIN turned |->
            Operation("phase", turned[i], 0, FrameDefs[turned[i]].phase, 0, 0)]

QbloxPrologue(used) ==
    [lost |-> UNION {InitialLost(f) : f \in used}, roundings |-> {}, clocks |-> used,
     ops |-> InitialPhases(used)]

-----------------------------------------------------------------------------
At(walk, f) == Seconds(f, walk[f].clock)

(* shift_phase and set_frequency: lowered on a frame that has a sequencer, *)
(* wherever they are.                                                      *)
UpdateOperation(walk, el, element) ==
    IF el.kind = "shift_phase"
    THEN Operation("phase", el.frame, At(walk, el.frame), el.phase, 0, element)
    ELSE Operation("freq", el.frame, At(walk, el.frame), el.frequency, 0, element)

QbloxUpdated(walk, plan, el, element) ==
    LET op == UpdateOperation(walk, el, element)
    IN  IF el.frame \notin plan.clocks THEN plan
        ELSE WithOperation(WithLost(plan, Lost(op.kind, element, op.asked, Steps[op.kind])), op)

QbloxTimesLost(walk, el, element) ==
    Lost("start", element, At(walk, el.frame), Steps["total_length"])
    \cup Lost("duration", element, Seconds(el.frame, el.duration), Steps["total_length"])

QbloxCaptureRefused(el) == Device[ChannelOf(el.frame)].kind # "readout"

QbloxCaptured(walk, plan, el, element) ==
    WithOperation(WithLost(plan, QbloxTimesLost(walk, el, element)),
                  Operation("capture", el.frame, At(walk, el.frame), 0,
                            Seconds(el.frame, el.duration), element))

(* A sampled waveform is not padded: it plays for its sample count. *)
SampleCount(el) == Len(Waveforms[el.waveform].i)

ScaleOf(el) == Device[ChannelOf(el.frame)].capabilities.maxAbs

Sampled(el) == Waveforms[el.waveform].kind = "samples"

QbloxPlayRefused(el) ==
    \/ Device[ChannelOf(el.frame)].kind # "drive"
    \/ /\ Sampled(el)
       /\ \/ Seconds(el.frame, el.duration) # SampleCount(el) * Steps["total_length"]
          \/ ScaleOf(el) \in {Absent, 0}

(* envelope_scale: the first sample of largest magnitude, with its sign.   *)
(* FullScale is a multiple of every max_abs, so the quotient is exact.     *)
EnvelopeScale(el) ==
    LET s == Waveforms[el.waveform].i
        Largest == {n \in DOMAIN s : \A m \in DOMAIN s : Magnitude(s[m]) <= Magnitude(s[n])}
    IN  IF s = << >> THEN 0 ELSE s[Min(Largest)] * (FullScale \div ScaleOf(el))

Gain(el) == IF Sampled(el) THEN EnvelopeScale(el) ELSE Waveforms[el.waveform].amplitude

GainLost(el, element) ==
    IF Sampled(el) THEN {} ELSE Lost("amplitude", element, Gain(el), Steps["gain"])

QbloxPlayed(walk, plan, el, element) ==
    WithOperation(WithLost(plan, QbloxTimesLost(walk, el, element) \cup GainLost(el, element)),
                  Operation("play", el.frame, At(walk, el.frame), Gain(el),
                            Seconds(el.frame, el.duration), element))

(* Nothing plays and nothing captures: there is nothing to compile. *)
NothingToCompile(plan) == plan.ops = << >>

-----------------------------------------------------------------------------
(* What the oracle cannot read back: the initial frequency of a sequencer  *)
(* that is off the step, and phase updates merged at one time.             *)
MergedPhase(plan) ==
    \E i, j \in DOMAIN plan.ops :
        /\ i # j /\ plan.ops[i].kind = "phase" /\ plan.ops[j].kind = "phase"
        /\ plan.ops[i].frame = plan.ops[j].frame /\ plan.ops[i].t = plan.ops[j].t

QbloxUnobservable(plan) ==
    {q \in {"freq"} : \E f \in plan.clocks : ~Divides(Steps["freq"], FrameDefs[f].frequency)}
    \cup {q \in {"phase"} : MergedPhase(plan)}
=============================================================================
