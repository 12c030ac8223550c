---------------------------- MODULE QbloxReadback -----------------------------
(***************************************************************************)
(* src/tools/oracle/qblox/observe.py and portclocks of toolchain.py: what  *)
(* the toolchain changed, read from the timeline of each sequencer.        *)
(*                                                                         *)
(* The scheduler and the assembler are external: Assembled is the program  *)
(* they make of the operations of a frame, with the updates of one time    *)
(* merged, a long square as an offset with a closing play, the first delay *)
(* folded into the preamble, and long waits as loops.                      *)
(***************************************************************************)
EXTENDS QbloxLowering

CONSTANTS
    LongestPlay,        \* a longer square is an offset with a closing play
    ClosingPlay         \* samples of the closing play

Ns == Steps["total_length"]

NsOf(t) == RoundNearestEven(t, Ns)

(* The multiple of its step a value passed to the vendor becomes. *)
Multiple(quantity, asked) == RoundNearestEven(AsFloat(asked), Steps[quantity])

-----------------------------------------------------------------------------
(* External: the operations of a frame as one sequencer's program.         *)
OpsOf(plan, f) == SelectSeq(plan.ops, LAMBDA op : op.frame = f)

OpsAt(plan, f, t) == SelectSeq(OpsOf(plan, f), LAMBDA op : NsOf(op.t) = t)

LongSquares(plan, f) ==
    {i \in DOMAIN OpsOf(plan, f) :
        LET op == OpsOf(plan, f)[i]
        IN  op.kind = "play" /\ Multiple("gain", op.asked) # 0 /\ op.duration > LongestPlay * Ns}

ClosingTimes(plan, f) ==
    {NsOf(OpsOf(plan, f)[i].t + OpsOf(plan, f)[i].duration) - ClosingPlay :
        i \in LongSquares(plan, f)}

Times(plan, f) ==
    {NsOf(OpsOf(plan, f)[i].t) : i \in DOMAIN OpsOf(plan, f)} \cup ClosingTimes(plan, f)

Instruction(op, value, time) ==
    [label |-> 0, op |-> op, value |-> value, time |-> time, to |-> "none"]

Marked(label, instruction) == [instruction EXCEPT !.label = label]

Jump(op, value, to) == [Instruction(op, value, 0) EXCEPT !.to = to]

(* What is set at one time, before the instruction that takes time. *)
SumOf(ops) == FoldFunction(LAMBDA op, sum : op.asked + sum, 0, ops)

SettingsAt(plan, f, t) ==
    LET here   == OpsAt(plan, f, t)
        phases == SelectSeq(here, LAMBDA op : op.kind = "phase")
        freqs  == SelectSeq(here, LAMBDA op : op.kind = "freq")
        plays  == SelectSeq(here, LAMBDA op : op.kind = "play" /\ Multiple("gain", op.asked) # 0)
        Setting(op) == IF op.duration > LongestPlay * Ns THEN "set_awg_offs" ELSE "set_awg_gain"
    IN  (IF phases = << >> THEN << >>
         ELSE << Instruction("set_ph_delta", Multiple("phase", SumOf(phases)), 0) >>)
        \o [i \in DOMAIN freqs |-> Instruction("set_freq", Multiple("freq", freqs[i].asked), 0)]
        \o (IF t \in ClosingTimes(plan, f) THEN << Instruction("set_awg_offs", 0, 0) >> ELSE << >>)
        \o [i \in DOMAIN plays |->
               Instruction(Setting(plays[i]), Multiple("gain", plays[i].asked), 0)]

(* The instruction that takes time; the value of a play is its samples.    *)
ActionAt(plan, f, t) ==
    LET here    == OpsAt(plan, f, t)
        taken   == SelectSeq(here, LAMBDA op :
                                 \/ op.kind = "capture"
                                 \/ op.kind = "play" /\ Multiple("gain", op.asked) # 0
                                    /\ op.duration <= LongestPlay * Ns)
    IN  IF taken # << >>
        THEN IF taken[1].kind = "capture" THEN Instruction("acquire", 0, 1)
             ELSE Instruction("play", NsOf(taken[1].duration), 1)
        ELSE IF t \in ClosingTimes(plan, f) THEN Instruction("play", ClosingPlay, 1)
        ELSE Instruction("upd_param", 0, 1)

(* The rest of the time to the next instruction, in a loop. *)
WaitLoop(label, rest) ==
    IF rest <= 0 THEN << >>
    ELSE << Jump("move", rest, "R1"), Marked(label, Instruction("wait", 0, 1)),
            Jump("loop", "R1", label) >>

Assembled(plan, f) ==
    LET ordered == SetToSortSeq(Times(plan, f), <)
        NextTime(i) == IF i = Len(ordered) THEN ordered[i] + 1 ELSE ordered[i + 1]
        Slot(i) == SettingsAt(plan, f, ordered[i]) \o << ActionAt(plan, f, ordered[i]) >>
                 \o WaitLoop(i + 1, NextTime(i) - ordered[i] - 1)
    IN  << Instruction("wait_sync", 0, 4), Jump("move", 1, "R0"),
           Marked(1, Instruction("reset_ph", 0, 0)),
           Instruction("upd_param", 0, 4 + ordered[1]) >>
        \o FlattenSeq([i \in DOMAIN ordered |-> Slot(i)])
        \o << Jump("loop", "R0", 1), Instruction("stop", 0, 0) >>

(* External: integration_length_acq, one setting of the sequencer. *)
IntegrationLength(plan, f) ==
    LET captures == SelectSeq(OpsOf(plan, f), LAMBDA op : op.kind = "capture")
    IN  NsOf(captures[1].duration) * Ns

-----------------------------------------------------------------------------
(* frame_changes: each operation of the frame against the events at its    *)
(* time.  Phase updates of one time are expected as their sum.             *)
Here(evs, t) == SelectSeq(evs, LAMBDA e : e.t = t)

With(evs, ops) == SelectSeq(evs, LAMBDA e : e.op \in ops)

\* Fault: a merged update is compared with the first of the phases asked for.
PhaseMovedFirst(plan, f, op, evs) ==
    LET got == With(Here(evs, NsOf(op.t)), {"set_ph_delta"})
    IN  ~SameGridCell(op.asked, IF got = << >> THEN 0 ELSE got[1].value * Steps["phase"],
                      Steps["phase"], "phase")

PhaseMoved(plan, f, op, evs) ==
    LET got  == With(Here(evs, NsOf(op.t)), {"set_ph_delta"})
        want == SumOf(SelectSeq(OpsAt(plan, f, NsOf(op.t)), LAMBDA o : o.kind = "phase"))
    IN  ~SameGridCell(want, IF got = << >> THEN 0 ELSE got[1].value * Steps["phase"],
                      Steps["phase"], "phase")

FreqMoved(op, evs) ==
    LET got == With(Here(evs, NsOf(op.t)), {"set_freq"})
    IN  IF got = << >> THEN TRUE
        ELSE ~SameGridCell(op.asked, got[1].value * Steps["freq"], Steps["freq"], "freq")

CaptureChanges(plan, f, op, evs) ==
    IF With(Here(evs, NsOf(op.t)), {"acquire"}) = << >> THEN {"start_time"}
    ELSE {q \in {"total_length"} :
             ~SameGridCell(op.duration, IntegrationLength(plan, f), Ns, "total_length")}

(* play_length: the samples of the waveform, or from the offset to the end *)
(* of the play that closes it.                                             *)
PlayLength(evs, t) ==
    LET here  == With(Here(evs, t), {"play"})
        tails == SelectSeq(evs, LAMBDA e : e.op = "play" /\ e.t >= t)
        tail  == tails[CHOOSE i \in DOMAIN tails : \A j \in DOMAIN tails :
                           tails[i].t < tails[j].t \/ (tails[i].t = tails[j].t /\ i <= j)]
    IN  IF here # << >> THEN here[1].value * Ns
        ELSE IF tails = << >> THEN Absent
        ELSE (tail.t - t + tail.value) * Ns

(* play_changes *)
PlayChanges(op, evs) ==
    LET t      == NsOf(op.t)
        here   == Here(evs, t)
        sounds == With(here, {"play"}) \o SelectSeq(here, LAMBDA e : e.op = "set_awg_offs"
                                                                    /\ e.value # 0)
        gains  == With(here, {"set_awg_gain", "set_awg_offs"})
        length == PlayLength(evs, t)
    IN  IF /\ RoundNearestEven(op.asked, Steps["gain"]) = 0
           /\ With(here, {"play", "set_awg_offs"}) = << >>
        THEN {q \in {"gain"} : op.asked # 0}
        ELSE IF sounds = << >> THEN {"start_time"}
        ELSE {q \in {"gain"} :
                 /\ gains # << >>
                 /\ ~SameGridCell(op.asked, gains[1].value * Steps["gain"], Steps["gain"], "gain")}
             \cup {q \in {"total_length"} :
                      /\ length # Absent
                      /\ ~SameGridCell(op.duration, length, Ns, "total_length")}

OperationChanges(plan, f, op, evs) ==
    CASE op.kind = "phase"   -> {q \in {"phase"} : PhaseMoved(plan, f, op, evs)}
      [] op.kind = "freq"    -> {q \in {"freq"} : FreqMoved(op, evs)}
      [] op.kind = "capture" -> CaptureChanges(plan, f, op, evs)
      [] op.kind = "play"    -> PlayChanges(op, evs)

FrameChanges(plan, f, evs) ==
    UNION {OperationChanges(plan, f, op, evs) : op \in ToSet(OpsOf(plan, f))}
=============================================================================
