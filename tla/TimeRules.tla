------------------------------ MODULE TimeRules ------------------------------
(***************************************************************************)
(* The rules of check.c that look at when and how long: the first use of a *)
(* frame, the schedule grid, the spacing of operations (note_event), the   *)
(* length of an output (advance) and the length of captures.  They read    *)
(* the FrameState of a frame, st, and never another frame's.               *)
(***************************************************************************)
EXTENDS QuantityRules

(* The channel of a frame. *)
FrameUnit(f) == Unit(ChannelOf(f))

FrameDeclares(f, id) == Declared(ChannelOf(f), id)

FrameConstraint(f, id) == Constraint(ChannelOf(f), id)

ToTicks(f, units) == units * FrameUnit(f)

-----------------------------------------------------------------------------
(* note_event: an operation on a frame at the frame's clock.  kind is      *)
(* "output", "capture", "frequency" or "phase".                            *)

(* check_capture_slot: from a capture to what follows it is exactly one    *)
(* slot or at least two.                                                   *)
\* Fault: the open capture is measured against an operation at its own time.
SettlesSlotAlways(f, st) == st.openCapture # Absent /\ FrameDeclares(f, "capture_slot")

SettlesSlot(f, st) ==
    /\ st.openCapture # Absent
    /\ FrameDeclares(f, "capture_slot")
    /\ st.clock # st.openCapture

(* The gap is in ticks: at the program end it need not be a whole number   *)
(* of the frame's units.                                                   *)
SlotBroken(f, gap) ==
    LET slot == ToTicks(f, FrameConstraint(f, "capture_slot").minUnits)
    IN  gap # slot /\ gap < 2 * slot

SlotRejections(f, st) ==
    When(SettlesSlot(f, st) /\ SlotBroken(f, ToTicks(f, st.clock - st.openCapture)),
         Fatal("capture_slot", st.openCaptureElement))

(* With initial_phase_update a frame whose initial phase is not zero has   *)
(* had an operation at time 0.                                             *)
InitialPhaseUpdate(f) ==
    /\ FrameDeclares(f, "start_spacing")
    /\ FrameConstraint(f, "start_spacing").initialPhaseUpdate
    /\ FrameDefs[f].phase # 0

\* Fault: every frame is taken to have had an operation at time 0.
PreviousEventZero(f, st) == IF st.lastEvent = Absent THEN 0 ELSE st.lastEvent

PreviousEvent(f, st) ==
    IF st.lastEvent = Absent /\ InitialPhaseUpdate(f) THEN 0 ELSE st.lastEvent

Crowds(f, id, st, since) ==
    /\ FrameDeclares(f, id)
    /\ since # Absent
    /\ st.clock - since < FrameConstraint(f, id).minUnits

StartRejections(f, st, e) ==
    LET since == PreviousEvent(f, st)
    IN  When(Crowds(f, "start_spacing", st, since) /\ st.clock # since,
             Fatal("start_spacing", e))

KindRejections(f, st, e, kind) ==
    CASE kind = "frequency" ->
             When(Crowds(f, "frequency_update_spacing", st, st.lastFreqUpdate),
                  Fatal("frequency_update_spacing", e))
      [] kind = "capture" ->
             When(Crowds(f, "capture_spacing", st, st.lastCapture),
                  Fatal("capture_spacing", e))
      [] OTHER -> << >>

NoteRejections(f, st, e, kind) ==
    SlotRejections(f, st) \o StartRejections(f, st, e) \o KindRejections(f, st, e, kind)

NoteClasses(f, st, kind) ==
    (IF SettlesSlot(f, st) THEN {"capture_slot"} ELSE {})
    \cup (IF FrameDeclares(f, "start_spacing") THEN {"start_spacing"} ELSE {})
    \cup (IF kind = "frequency" /\ FrameDeclares(f, "frequency_update_spacing")
          THEN {"frequency_update_spacing"} ELSE {})
    \cup (IF kind = "capture" /\ FrameDeclares(f, "capture_spacing")
          THEN {"capture_spacing"} ELSE {})

\* Fault: a frequency or phase update does not count as an operation.
NotedOutputsOnly(f, st, e, kind) ==
    [st EXCEPT
        !.lastEvent          = IF kind \in {"output", "capture"} THEN st.clock ELSE @,
        !.lastEventElement   = e,
        !.lastFreqUpdate     = IF kind = "frequency" THEN st.clock ELSE @,
        !.lastCapture        = IF kind = "capture" THEN st.clock ELSE @,
        !.openCapture        = IF kind = "capture" THEN st.clock
                               ELSE IF SettlesSlot(f, st) THEN Absent ELSE @,
        !.openCaptureElement = IF kind = "capture" THEN e ELSE @]

\* Fault: a repeat is compared with the first of its kind, not the last.
NotedFirstRepeat(f, st, e, kind) ==
    [st EXCEPT
        !.lastEvent          = st.clock,
        !.lastEventElement   = e,
        !.lastFreqUpdate     = IF kind = "frequency" /\ @ = Absent THEN st.clock ELSE @,
        !.lastCapture        = IF kind = "capture" /\ @ = Absent THEN st.clock ELSE @,
        !.openCapture        = IF kind = "capture" THEN st.clock
                               ELSE IF SettlesSlot(f, st) THEN Absent ELSE @,
        !.openCaptureElement = IF kind = "capture" THEN e ELSE @]

Noted(f, st, e, kind) ==
    [st EXCEPT
        !.lastEvent          = st.clock,
        !.lastEventElement   = e,
        !.lastFreqUpdate     = IF kind = "frequency" THEN st.clock ELSE @,
        !.lastCapture        = IF kind = "capture" THEN st.clock ELSE @,
        !.openCapture        = IF kind = "capture" THEN st.clock
                               ELSE IF SettlesSlot(f, st) THEN Absent ELSE @,
        !.openCaptureElement = IF kind = "capture" THEN e ELSE @]

(* The time of the operation, two slots, or the limit a rejection quotes,  *)
(* cannot be represented.                                                  *)
UnitsFit(f, units) == RatFits(ToTicks(f, units))

TwoSlotsFit(f) == UnitsFit(f, 2 * FrameConstraint(f, "capture_slot").minUnits)

Crowding(f, st, e, kind) == ToSet(StartRejections(f, st, e) \o KindRejections(f, st, e, kind))

NoteRefused(f, st, e, kind) ==
    \/ ~UnitsFit(f, st.clock)
    \/ SettlesSlot(f, st) /\ ~TwoSlotsFit(f)
    \/ \E r \in Crowding(f, st, e, kind) : ~UnitsFit(f, FrameConstraint(f, r.rule).minUnits)

-----------------------------------------------------------------------------
(* advance: a duration in program units becomes descriptor units and moves *)
(* the clock.  timed is true for play and capture, false for delay.        *)
DurationTicks(f, duration) == duration * Channels[ChannelOf(f)].unit

OnLattice(f, duration) == Divides(FrameUnit(f), DurationTicks(f, duration))

DurationUnits(f, duration) ==
    IF duration < 0 THEN 0
    ELSE IF OnLattice(f, duration) THEN DurationTicks(f, duration) \div FrameUnit(f)
    ELSE RoundNearestEven(DurationTicks(f, duration), FrameUnit(f))

LengthRule(f) ==
    IF Device[ChannelOf(f)].kind = "drive" THEN "pulse_length_range"
    ELSE "readout_length_range"

TooShort(f, units) ==
    LET k == FrameConstraint(f, LengthRule(f))
    IN  FrameDeclares(f, LengthRule(f)) /\ k.minUnits # Absent /\ units < k.minUnits

TooLong(f, units) ==
    LET k == FrameConstraint(f, LengthRule(f))
    IN  FrameDeclares(f, LengthRule(f)) /\ k.maxUnits # Absent /\ units > k.maxUnits

LengthRejections(f, units, e) ==
    When(TooShort(f, units) \/ TooLong(f, units),
         AsDeclared(ChannelOf(f), LengthRule(f), e))

TimedRejections(f, duration, e) ==
    LET units == DurationUnits(f, duration)
    IN  When(/\ FrameDeclares(f, "pulse_length_grid")
             /\ \/ ~OnLattice(f, duration)
                \/ ~Divides(Device[ChannelOf(f)].durationGrid, units),
             EitherWay("pulse_length_grid",
                       FrameConstraint(f, "pulse_length_grid").severity,
                       "quantize_duration", e))
        \o LengthRejections(f, units, e)

DelayRejections(f, duration, e) ==
    When(~OnLattice(f, duration),
         EitherWay("schedule_grid", ScheduleSeverity(ChannelOf(f)), "quantize_time", e))

AdvanceRejections(f, duration, e, timed) ==
    IF duration < 0 THEN << Fatal("negative_duration", e) >>
    ELSE IF timed THEN TimedRejections(f, duration, e)
    ELSE DelayRejections(f, duration, e)

AdvanceClasses(f, duration, timed) ==
    {"negative_duration"} \cup
    IF duration < 0 \/ ~timed THEN {}
    ELSE {id \in {"pulse_length_grid", LengthRule(f)} : FrameDeclares(f, id)}

AdvanceUncheckedClasses(f, duration, timed) ==
    IF duration >= 0 /\ timed /\ ~FrameDeclares(f, "pulse_length_grid")
    THEN {"pulse_length_grid"} ELSE {}

Advanced(f, st, duration) == [st EXCEPT !.clock = @ + DurationUnits(f, duration)]

LengthLimit(f, units) ==
    LET k == FrameConstraint(f, LengthRule(f))
    IN  IF TooShort(f, units) THEN k.minUnits ELSE k.maxUnits

\* Fault: the sum is not looked at before it is stored.
ClockFitsAlways(st, units) == TRUE

ClockFits(st, units) == IntFits(st.clock + units)

AdvanceRefused(f, st, duration, timed) ==
    LET ch    == Device[ChannelOf(f)]
        units == DurationUnits(f, duration)
    IN  \/ ~RatFits(DurationTicks(f, duration))
        \/ duration >= 0 /\ ~UnitsFit(f, IF timed THEN ch.durationGrid ELSE ch.scheduleGrid)
        \/ /\ duration >= 0 /\ timed
           /\ TooShort(f, units) \/ TooLong(f, units)
           /\ ~UnitsFit(f, LengthLimit(f, units))
        \/ ~ClockFits(st, units)

-----------------------------------------------------------------------------
(* What a play or capture looks at before it is noted. *)

\* Fault: the initial frequency and phase of a frame are never looked at.
FirstUseUnchecked(f, st) == FALSE

ChecksFrequency(f, st) == ~HasTones(ChannelOf(f)) /\ ~st.freqChecked

ChecksPhase(f, st) == ~HasTones(ChannelOf(f)) /\ ~st.phaseChecked

FirstUseRejections(f, st, e) ==
    (IF ChecksFrequency(f, st) THEN FrequencyRejections(ChannelOf(f), st.frequency, e)
     ELSE << >>)
    \o (IF ChecksPhase(f, st) THEN PhaseRejections(ChannelOf(f), st.phase, e) ELSE << >>)

FirstUseClasses(f, st) ==
    (IF ChecksFrequency(f, st) THEN FrequencyClasses(ChannelOf(f)) ELSE {})
    \cup (IF ChecksPhase(f, st) THEN PhaseClasses(ChannelOf(f)) ELSE {})

FirstUse(f, st) ==
    IF HasTones(ChannelOf(f)) THEN st
    ELSE [st EXCEPT !.freqChecked = TRUE, !.phaseChecked = TRUE]

\* Fault: the start of an output is compared with the duration grid.
OffScheduleDuration(f, st) == ~Divides(Device[ChannelOf(f)].durationGrid, st.clock)

OffSchedule(f, st) == ~Divides(Device[ChannelOf(f)].scheduleGrid, st.clock)

StartGridRejections(f, st, e) ==
    When(OffSchedule(f, st),
         EitherWay("schedule_grid", ScheduleSeverity(ChannelOf(f)), "quantize_time", e))

-----------------------------------------------------------------------------
(* check_capture_length: the first capture on a frame fixes the length.    *)
CaptureLengthRejections(f, st, units, e) ==
    When(/\ FrameDeclares(f, "capture_length_uniform")
         /\ st.captureLength # Absent
         /\ units # st.captureLength,
         Fatal("capture_length_uniform", e))

CaptureLengthClasses(f) ==
    IF FrameDeclares(f, "capture_length_uniform") THEN {"capture_length_uniform"} ELSE {}

\* Fault: every capture replaces the length the next one is compared with.
FixesLengthAgain(f, st) == FrameDeclares(f, "capture_length_uniform")

FixesLength(f, st) ==
    FrameDeclares(f, "capture_length_uniform") /\ st.captureLength = Absent
=============================================================================
