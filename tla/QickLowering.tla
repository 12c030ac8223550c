----------------------------- MODULE QickLowering -----------------------------
(***************************************************************************)
(* build_plan of src/tools/oracle/qick/lower.py: a pulse program as asm_v2 *)
(* calls.  Frames are compiled away: each play carries the frequency and   *)
(* phase its frame has at that moment, as a pulse of its own, defined once *)
(* and replayed when everything that makes it distinct is the same.        *)
(***************************************************************************)
EXTENDS Oracle

Muxed(c) == Board[c].mux

(* The step the vendor quantizes a quantity to, where the descriptor       *)
(* declares one: the last resolution under either id.                      *)
ResolutionUnder(c, ids) ==
    LET given == {i \in DOMAIN Device[c].constraints :
                     /\ Device[c].constraints[i].id \in ids
                     /\ Device[c].constraints[i].resolution # Absent}
    IN  IF given = {} THEN Absent ELSE Device[c].constraints[Max(given)].resolution

DurationStep(c) == Device[c].durationGrid * Unit(c)

ScheduleStep(c) == Device[c].scheduleGrid * Unit(c)

QickStep(c, quantity) ==
    CASE quantity = "freq"  -> ResolutionUnder(c, {"frequency_range", "frequency_resolution"})
      [] quantity = "phase" -> ResolutionUnder(c, {"phase_resolution"})
      [] quantity = "gain"  -> ResolutionUnder(c, {"amplitude_range", "amplitude_resolution"})
      [] quantity = "total_length" -> DurationStep(c)

-----------------------------------------------------------------------------
(* The channels: bound by name to the descriptor and to the config, and    *)
(* the tone tables declared with the generators.                           *)
QickUnbound(c) ==
    \/ c \notin DOMAIN Device
    \/ c \notin DOMAIN Board
    \/ ~Board[c].asDescribed
    \/ Device[c].kind = "drive" /\ Muxed(c) /\ ~HasTones(c)

ToneAsked(c, t) ==
    LET tone == Channels[c].tones[t]
    IN  [freq |-> tone.frequency, phase |-> tone.phase, gain |-> tone.amplitude]

ToneLost(c, t) ==
    Lost("tone_frequency", 0, ToneAsked(c, t).freq, QickStep(c, "freq"))
    \cup Lost("tone_phase", 0, ToneAsked(c, t).phase, QickStep(c, "phase"))
    \cup Lost("tone_amplitude", 0, ToneAsked(c, t).gain, QickStep(c, "gain"))

TonesLost(c) == UNION {ToneLost(c, t) : t \in DOMAIN Channels[c].tones}

Generators == {c \in DOMAIN Channels : Device[c].kind = "drive"}

(* pulses: what add_pulse and add_readoutconfig define.  outputs: what is  *)
(* played or triggered, with the start asked for and the start passed.     *)
QickPrologue ==
    [lost |-> UNION {TonesLost(c) : c \in Generators}, roundings |-> {},
     envelopes |-> {}, pulses |-> << >>, outputs |-> << >>]

-----------------------------------------------------------------------------
Pulse(c, shape, asked, readable) ==
    [channel |-> c, shape |-> shape,
     passed |-> [q \in DOMAIN asked |-> AsFloat(asked[q])],
     asked |-> [q \in readable |-> asked[q]]]

(* The key that makes a pulse distinct: the channel, the waveform or the   *)
(* mask, and the values passed.                                            *)
\* Fault: the phase is left out of the key.
SamePulseButPhase(p, q) ==
    /\ p.channel = q.channel /\ p.shape = q.shape /\ DOMAIN p.passed = DOMAIN q.passed
    /\ \A k \in DOMAIN p.passed \ {"phase"} : p.passed[k] = q.passed[k]

SamePulse(p, q) ==
    p.channel = q.channel /\ p.shape = q.shape /\ p.passed = q.passed

Defined(plan, pulse) == {i \in DOMAIN plan.pulses : SamePulse(plan.pulses[i], pulse)}

Output(c, kind, pulse, start) ==
    [channel |-> c, kind |-> kind, pulse |-> pulse,
     asked |-> start, passed |-> AsFloat(start)]

(* Play the pulse, defining it unless it is defined. *)
Replayed(plan, pulse, start) ==
    LET known == Defined(plan, pulse)
    IN  IF known # {}
        THEN [plan EXCEPT !.outputs = Append(@, Output(pulse.channel, "gen", Min(known), start))]
        ELSE [plan EXCEPT !.pulses  = Append(@, pulse),
                          !.outputs = Append(@, Output(pulse.channel, "gen",
                                                       Len(plan.pulses) + 1, start))]

StartOf(walk, f) == Seconds(f, walk[f].clock)

(* What a play and a capture lose before anything else is looked at. *)
TimesLost(walk, el, element) ==
    LET c == ChannelOf(el.frame)
    IN  Lost("start", element, StartOf(walk, el.frame), ScheduleStep(c))
        \cup Lost("duration", element, Seconds(el.frame, el.duration), DurationStep(c))

(* A capture: a readout config of its own.  A static readout has none. *)
QickCaptureRefused(el) ==
    LET c == ChannelOf(el.frame)
    IN  Device[c].kind # "readout" \/ ~Board[c].dynamic

\* Fault: the length of a capture is not read back.
CapturePulseUnread(walk, el, element) ==
    Pulse(ChannelOf(el.frame), << "readout", element >>,
          [freq |-> walk[el.frame].frequency, total_length |-> Seconds(el.frame, el.duration)],
          {})

CapturePulse(walk, el, element) ==
    Pulse(ChannelOf(el.frame), << "readout", element >>,
          [freq |-> walk[el.frame].frequency, total_length |-> Seconds(el.frame, el.duration)],
          {"total_length"})

QickCaptured(walk, plan, el, element) ==
    LET taken == WithLost(plan, TimesLost(walk, el, element))
    IN  [taken EXCEPT !.pulses  = Append(@, CapturePulse(walk, el, element)),
                      !.outputs = Append(@, Output(ChannelOf(el.frame), "ro",
                                                   Len(plan.pulses) + 1,
                                                   StartOf(walk, el.frame)))]

(* A play: of tones on a muxed generator, of a waveform elsewhere.  A      *)
(* sampled one is passed no length and full gain, and neither is read.     *)
QickPlayRefused(el) == Device[ChannelOf(el.frame)].kind # "drive"

IsConst(el) == Waveforms[el.waveform].kind = "const"

PlayAsked(walk, el) ==
    LET st     == walk[el.frame]
        length == Seconds(el.frame, el.duration)
    IN  IF Muxed(ChannelOf(el.frame))
        THEN [total_length |-> length]
        ELSE IF IsConst(el)
        THEN [freq |-> st.frequency, phase |-> st.phase,
              gain |-> Waveforms[el.waveform].amplitude, total_length |-> length]
        ELSE [freq |-> st.frequency, phase |-> st.phase]

PlayShape(el) ==
    IF Muxed(ChannelOf(el.frame)) THEN << "mask", el.mask >> ELSE << "wave", el.waveform >>

PlayPulse(walk, el) ==
    Pulse(ChannelOf(el.frame), PlayShape(el), PlayAsked(walk, el),
          DOMAIN PlayAsked(walk, el))

ValuesLost(walk, el, element) ==
    LET c     == ChannelOf(el.frame)
        asked == PlayAsked(walk, el)
        Of(kind, q) == IF q \in DOMAIN asked THEN Lost(kind, element, asked[q], QickStep(c, q))
                       ELSE {}
    IN  Of("frequency", "freq") \cup Of("phase", "phase") \cup Of("amplitude", "gain")

EnvelopesOf(el) ==
    IF Muxed(ChannelOf(el.frame)) THEN {}
    ELSE IF IsConst(el) THEN {} ELSE {<< ChannelOf(el.frame), el.waveform >>}

QickPlayed(walk, plan, el, element) ==
    LET spent == WithLost(plan, TimesLost(walk, el, element) \cup ValuesLost(walk, el, element))
    IN  Replayed([spent EXCEPT !.envelopes = @ \cup EnvelopesOf(el)],
                 PlayPulse(walk, el), StartOf(walk, el.frame))

(* shift_phase and set_frequency change the frame and call nothing. *)
QickUpdated(walk, el) ==
    IF el.kind = "shift_phase"
    THEN [walk EXCEPT ![el.frame].phase = @ + el.phase]
    ELSE [walk EXCEPT ![el.frame].frequency = el.frequency]
=============================================================================
