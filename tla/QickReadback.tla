----------------------------- MODULE QickReadback -----------------------------
(***************************************************************************)
(* src/tools/oracle/qick/observe.py: what asm_v2 did to a compiled plan.   *)
(* Pulse and tone values are compared with what was asked for; start times *)
(* are recovered from the compiled instruction stream.                     *)
(*                                                                         *)
(* asm_v2 itself is external: it quantizes each value it is passed to the  *)
(* nearest step, and emits one instruction per output after a reference    *)
(* increment, in ticks of the tProcessor.                                  *)
(***************************************************************************)
EXTENDS QickLowering

(* External: the register a value passed to the vendor ends in. *)
Register(step, passed) ==
    IF step = Absent \/ step = 0 THEN passed ELSE step * RoundNearestEven(passed, step)

(* External: the stream.  `late` is the position of an output the vendor   *)
(* moves by a tick, 0 for none; `again` that of an output in front of      *)
(* which the reference is moved once more.                                 *)
Tick(plan, i, late) ==
    RoundNearestEven(plan.outputs[i].passed, ScheduleStep(plan.outputs[i].channel))
    + (IF i = late THEN 1 ELSE 0)

Increment(ticks) == [cmd |-> "inc_ref", ticks |-> ticks]

Emitted(plan, i, late, again) ==
    LET out == plan.outputs[i]
        At(ticks) == [cmd |-> "output", key |-> << out.channel, out.kind >>, ticks |-> ticks]
    IN  IF again # 0 /\ i >= again
        THEN (IF i = again THEN << Increment(1) >> ELSE << >>)
             \o << At(Tick(plan, i, late) - 1) >>
        ELSE << At(Tick(plan, i, late)) >>

Stream(plan, lead, late, again) ==
    << Increment(lead) >>
    \o FlattenSeq([i \in DOMAIN plan.outputs |-> Emitted(plan, i, late, again)])

-----------------------------------------------------------------------------
(* scheduled_times: the ticks of every output from the program origin.     *)
(* The reference accumulated before the first output is the origin.        *)
RefBefore(stream, n) ==
    FoldFunctionOnSet(LAMBDA ins, sum : IF ins.cmd = "inc_ref" THEN sum + ins.ticks ELSE sum,
                      0, stream, 1 .. n - 1)

OutputPositions(stream) == {n \in DOMAIN stream : stream[n].cmd = "output"}

Baseline(stream) == RefBefore(stream, Min(OutputPositions(stream)))

ScheduledTimes(stream, key) ==
    LET mine == SelectSeq([n \in DOMAIN stream |-> n],
                          LAMBDA n : stream[n].cmd = "output" /\ stream[n].key = key)
    IN  [i \in DOMAIN mine |->
            RefBefore(stream, mine[i]) + stream[mine[i]].ticks - Baseline(stream)]

(* start_time_changes: the i-th output of a channel against the i-th tick. *)
Ordinal(plan, n) ==
    Cardinality({m \in 1 .. n : /\ plan.outputs[m].channel = plan.outputs[n].channel
                                /\ plan.outputs[m].kind = plan.outputs[n].kind})

StartMoved(plan, stream, n) ==
    LET out   == plan.outputs[n]
        step  == ScheduleStep(out.channel)
        ticks == ScheduledTimes(stream, << out.channel, out.kind >>)
        i     == Ordinal(plan, n)
    IN  /\ i <= Len(ticks)
        /\ step > 0
        /\ ~Divides(step, out.asked) \/ RoundNearestEven(out.asked, step) # ticks[i]

(* readback_outcome: every quantity of every pulse that can be read.  A    *)
(* register the vendor moves by one more step is << pulse, quantity >>.    *)
ReadValue(plan, p, q, moved) ==
    LET pulse == plan.pulses[p]
        step  == QickStep(pulse.channel, q)
    IN  Register(step, pulse.passed[q])
        + (IF moved = << p, q >> THEN (IF step \in {Absent, 0} THEN 1 ELSE step) ELSE 0)

\* Fault: the pulses are read back and the readout configs are not.
PulseChangesOnly(plan, moved) ==
    {q \in Quantities :
        \E p \in DOMAIN plan.pulses :
            /\ plan.pulses[p].shape[1] # "readout"
            /\ q \in DOMAIN plan.pulses[p].asked
            /\ ~SameGridCell(plan.pulses[p].asked[q], ReadValue(plan, p, q, moved),
                             QickStep(plan.pulses[p].channel, q), q)}

PulseChanges(plan, moved) ==
    {q \in Quantities :
        \E p \in DOMAIN plan.pulses :
            /\ q \in DOMAIN plan.pulses[p].asked
            /\ ~SameGridCell(plan.pulses[p].asked[q], ReadValue(plan, p, q, moved),
                             QickStep(plan.pulses[p].channel, q), q)}

(* tone_changes: a mux pulse carries no register of its own; the tones are *)
(* read from the table, where the board has the field.                     *)
ToneReadable(c) ==
    {"freq"} \cup (IF Board[c].hasPhase THEN {"phase"} ELSE {})
             \cup (IF Board[c].hasGain THEN {"gain"} ELSE {})

ToneMoved(c, q) ==
    /\ q \in ToneReadable(c)
    /\ \E t \in DOMAIN Channels[c].tones :
          LET asked == ToneAsked(c, t)[q]
              step  == QickStep(c, q)
          IN  ~SameGridCell(asked, Register(step, AsFloat(asked)), step, q)

ToneChanges(generators) ==
    {q \in Quantities : \E c \in generators : Muxed(c) /\ ToneMoved(c, q)}

(* observe *)
QickChanges(plan, stream, moved) ==
    PulseChanges(plan, moved) \cup ToneChanges(Generators)
    \cup {q \in {"start_time"} : \E n \in DOMAIN plan.outputs : StartMoved(plan, stream, n)}
=============================================================================
