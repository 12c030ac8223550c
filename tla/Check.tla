-------------------------------- MODULE Check --------------------------------
(***************************************************************************)
(* check() of src/src/check.c: one pass over the elements of a pulse       *)
(* program that keeps a clock and a history per frame, appends rejections  *)
(* to a sink and coverage statuses to a table, then closes the open        *)
(* captures, the start spacing and the budgets, and sorts the sink into a  *)
(* report.                                                                 *)
(*                                                                         *)
(* The program is not fixed in advance: each step of the element loop      *)
(* reads any element of ElementSet, so every program of at most            *)
(* MaxElements elements is explored.  Element ids are positions, from 1.   *)
(***************************************************************************)
EXTENDS ProgramRules, Descriptor

CONSTANTS
    ElementSet,         \* the elements a program is made of
    MaxElements         \* bound on the length of the program

VARIABLES
    phase,              \* where in check() the run is
    prog,               \* the elements checked so far
    states,             \* FrameState of every frame
    sink,               \* the rejections, in the order they were added
    coverage,           \* coverage class -> status
    programEnd,         \* end of the last operation of the program, in ticks
    envSeen,            \* <<owner, waveform>> pairs already loaded
    envUsed,            \* owner -> samples loaded
    wfPlayed,           \* waveforms played
    tonesChecked,       \* channels whose tone table was checked
    outputs,            \* n_plays + n_captures
    nextBudget,         \* index of the next budget
    results,            \* the budget results
    report              \* Absent until the report is built

progVars == << prog, states, programEnd >>
envVars == << envSeen, envUsed, wfPlayed, tonesChecked, outputs >>
budgetVars == << nextBudget, results >>
vars == << phase, progVars, sink, coverage, envVars, budgetVars, report >>

-----------------------------------------------------------------------------
(* The device and program constants: what parse.c lets through.            *)
FrameRecord ==
    [clock: Nat, frequency: Int, phase: Int, freqChecked: BOOLEAN, phaseChecked: BOOLEAN,
     lastEvent: Int \cup {Absent}, lastEventElement: Nat,
     lastFreqUpdate: Int \cup {Absent}, lastCapture: Int \cup {Absent},
     captureLength: Int \cup {Absent},
     openCapture: Int \cup {Absent}, openCaptureElement: Nat,
     nElements: Nat, nOutputs: Nat]

ASSUME AbsentAssumption == Absent \notin Int

ASSUME FrameAssumption ==
    FrameDefs \in Seq([channel: DOMAIN Channels, frequency: Int, phase: Int])

\* INT64_MAX twice: of an integer, and of the numerator of a Rat.  What the
\* parser reads fits.
ASSUME WidthAssumption ==
    /\ MaxInt \in Nat /\ MaxRat \in Nat
    /\ \A f \in Frames : RatFits(FrameDefs[f].phase)

ASSUME UnitAssumption ==
    /\ \A c \in DOMAIN Channels : Channels[c].unit \in Nat \ {0}
    /\ \A c \in DOMAIN Device : Device[c].unit \in Nat \ {0}

(* A constraint, as the parser leaves it: what is optional may be absent.  *)
ConstraintRecord ==
    LET Optional == Int \cup {Absent}
    IN  [id: Classes, severity: Severities,
         shape: {"range_units", "range_resolution", "grid_samples"},
         minUnits: Optional, maxUnits: Optional, min: Optional, max: Optional,
         resolution: Optional, saturateMax: Optional, grid: Optional,
         postMixer: BOOLEAN, initialPhaseUpdate: BOOLEAN]

ASSUME ConstraintAssumption ==
    \A c \in DOMAIN Device : Device[c].constraints \in Seq(ConstraintRecord)

\* The parser takes any integer for the size of an envelope memory.
ASSUME MemoryAssumption ==
    \A c \in DOMAIN Device : Device[c].capabilities.memory \in Int \cup {Absent}

ASSUME ToneAssumption ==
    \A c \in DOMAIN Channels :
        Channels[c].tones \in Seq([frequency: Int, phase: Int, amplitude: Int])

ASSUME BudgetAssumption ==
    /\ DOMAIN Budgets = 1 .. Len(Budgets) /\ Len(Budgets) \in Nat
    /\ \A n \in 1 .. Len(Budgets) :
          /\ Budgets[n].id \in {"pmem_words", "wmem_words", "loop_registers"}
          /\ {Budgets[n].perItem, Budgets[n].overhead, Budgets[n].limit} \subseteq Int
          /\ Budgets[n].perElementMax \in Int \cup {Absent}
          /\ Budgets[n].perFrame \in BOOLEAN

ASSUME WaveformAssumption ==
    \A w \in DOMAIN Waveforms :
        Waveforms[w].kind = "samples" =>
            Waveforms[w].i \in Seq(Int) /\ Waveforms[w].q \in Seq(Int)

ASSUME ElementAssumption ==
    /\ MaxElements \in Nat
    /\ \A el \in ElementSet :
          IF el.kind = "barrier" THEN el.frames \in Seq(Frames)
          ELSE /\ el.frame \in Frames
               /\ el.kind \in {"play", "capture", "delay"} => el.duration \in Int
               /\ el.kind = "shift_phase" => el.phase \in Int
               /\ el.kind = "set_frequency" => el.frequency \in Int
               /\ el.kind = "play" => IF HasTones(ChannelOf(el.frame))
                                      THEN el.mask \in Seq(Nat)
                                      ELSE el.waveform \in DOMAIN Waveforms

-----------------------------------------------------------------------------
(* Small vocabulary of the element handlers. *)
Element == Len(prog) + 1        \* the id of the element being read

LastElement == Len(prog)        \* last_element: 0 for an empty program

Cover(table, classes, status) ==
    [k \in DOMAIN table |-> IF k \in classes THEN status ELSE table[k]]

Init ==
    /\ phase = "start"
    /\ prog = << >>
    /\ states = [f \in Frames |-> InitialState(f)]
    /\ sink = << >>
    /\ coverage = [k \in Classes |-> "not_applicable"]
    /\ programEnd = 0
    /\ envSeen = {}
    /\ envUsed = [o \in Owners |-> 0]
    /\ wfPlayed = {}
    /\ tonesChecked = {}
    /\ outputs = 0
    /\ nextBudget = 1
    /\ results = << >>
    /\ report = Absent

(* check() gives up: there is no report.  What a refused element would     *)
(* still have written is of no use to anyone and is left out.              *)
ToolError ==
    /\ phase' = "tool_error"
    /\ UNCHANGED << progVars, sink, coverage, envVars, budgetVars, report >>

(* The descriptor is validated and the program is bound: every program     *)
(* channel must name a descriptor channel, and one that declares no        *)
(* constraint is declared and not checked.                                 *)
Unbound == DOMAIN Channels \ DOMAIN Device

Unconstrained == \E c \in DOMAIN Channels : Device[c].constraints = << >>

(* The factor of a channel, its unit in the program over its unit on the   *)
(* device, is a Rat.                                                       *)
RatioFits(n, d) == \E p, q \in 1 .. MaxRat : n * q = p * d

FactorsFit ==
    \A c \in DOMAIN Channels \cap DOMAIN Device : RatioFits(Channels[c].unit, Unit(c))

Bind ==
    /\ phase = "start"
    /\ IF ~ValidDescriptor \/ Unbound # {} \/ ~FactorsFit
       THEN ToolError
       ELSE /\ phase' = "elements"
            /\ coverage' = Cover(coverage,
                                 IF Unconstrained THEN {"unconstrained_channel"} ELSE {},
                                 "unchecked")
            /\ UNCHANGED << progVars, sink, envVars, budgetVars, report >>

-----------------------------------------------------------------------------
(* The element loop.  Reads(el, kind) is the loop head. *)
Reads(el, kind) ==
    /\ phase = "elements"
    /\ Len(prog) < MaxElements
    /\ el.kind = kind

Counted(st) == [st EXCEPT !.nElements = @ + 1]

StateAfter(f, st) == [states EXCEPT ![f] = st]

(* EL_BARRIER: the members line up with the latest of them. *)
MemberSet(el) == {Members(el)[i] : i \in DOMAIN Members(el)}

MemberTimes(el) == {0} \cup {ToTicks(f, states[f].clock) : f \in MemberSet(el)}

IsLatest(t, el) == t \in MemberTimes(el) /\ \A u \in MemberTimes(el) : u <= t

\* Fault: a member that misses the lattice is rounded down.
AlignedDown(f, t) == t \div FrameUnit(f)

Aligned(f, t) ==
    IF Divides(FrameUnit(f), t) THEN t \div FrameUnit(f)
    ELSE RoundNearestEven(t, FrameUnit(f))

OffLattice(el, t) == {f \in MemberSet(el) : ~Divides(FrameUnit(f), t)}

BarrierRejections(el, t) ==
    LET Moves(f) == EitherWay("schedule_grid", ScheduleSeverity(ChannelOf(f)),
                              "quantize_time", Element)
    IN  FlattenSeq([i \in DOMAIN Members(el) |->
                       When(Members(el)[i] \in OffLattice(el, t), Moves(Members(el)[i]))])

(* A frame named twice in the list is counted twice. *)
Joined(f, el, t) ==
    [states[f] EXCEPT
        !.clock     = Aligned(f, t),
        !.nElements = @ + Cardinality({i \in DOMAIN Members(el) : Members(el)[i] = f})]

BarrierRefused(el) ==
    \/ \E f \in MemberSet(el) : ~RatFits(ToTicks(f, states[f].clock))
    \/ \E t \in MemberTimes(el) :
          /\ IsLatest(t, el)
          /\ \E f \in MemberSet(el) :
                \/ ~IntFits(Aligned(f, t))
                \/ /\ ~Divides(FrameUnit(f), t)
                   /\ ~UnitsFit(f, Device[ChannelOf(f)].scheduleGrid)

Barrier(el) ==
    /\ Reads(el, "barrier")
    /\ IF BarrierRefused(el)
       THEN ToolError
       ELSE \E t \in MemberTimes(el) :
            /\ IsLatest(t, el)
            /\ prog' = Append(prog, el)
            /\ states' = [f \in Frames |-> IF f \in MemberSet(el) THEN Joined(f, el, t)
                                           ELSE states[f]]
            /\ sink' = sink \o BarrierRejections(el, t)
            /\ coverage' = Cover(coverage,
                                 IF OffLattice(el, t) = {} THEN {} ELSE {"schedule_grid"},
                                 "checked")
            /\ UNCHANGED << phase, programEnd, envVars, budgetVars, report >>

-----------------------------------------------------------------------------
(* EL_SHIFT_PHASE and EL_SET_FREQUENCY.  A channel with a tone table has   *)
(* nothing to retune (mux_frame_is_retunable).  A phase shift is checked   *)
(* by itself; the accumulated phase is kept for the first output.          *)
ShiftRefused(el) ==
    LET f == el.frame
    IN  \/ HasTones(ChannelOf(f))
        \/ NoteRefused(f, states[f], Element, "phase")
        \/ ~RatFits(states[f].phase + el.phase)
        \/ PhaseRefused(ChannelOf(f))

ShiftPhase(el) ==
    /\ Reads(el, "shift_phase")
    /\ LET f  == el.frame
           st == Counted(states[f])
       IN  IF ShiftRefused(el)
           THEN ToolError
           ELSE /\ prog' = Append(prog, el)
                /\ states' = StateAfter(f, [Noted(f, st, Element, "phase")
                                               EXCEPT !.phase = @ + el.phase])
                /\ sink' = sink \o NoteRejections(f, st, Element, "phase")
                                \o PhaseRejections(ChannelOf(f), el.phase, Element)
                /\ coverage' = Cover(coverage,
                                     NoteClasses(f, st, "phase") \cup PhaseClasses(ChannelOf(f)),
                                     "checked")
                /\ programEnd' = Later(programEnd, ToTicks(f, st.clock))
                /\ UNCHANGED << phase, envVars, budgetVars, report >>

Retuned(f, st, v) == [st EXCEPT !.frequency = v, !.freqChecked = TRUE]

SetFrequencyRefused(el) ==
    LET f == el.frame
    IN  \/ HasTones(ChannelOf(f))
        \/ NoteRefused(f, states[f], Element, "frequency")
        \/ FrequencyRefused(ChannelOf(f), el.frequency)

SetFrequency(el) ==
    /\ Reads(el, "set_frequency")
    /\ LET f  == el.frame
           st == Counted(states[f])
       IN  IF SetFrequencyRefused(el)
           THEN ToolError
           ELSE /\ prog' = Append(prog, el)
                /\ states' = StateAfter(f, Retuned(f, Noted(f, st, Element, "frequency"),
                                                   el.frequency))
                /\ sink' = sink \o NoteRejections(f, st, Element, "frequency")
                                \o FrequencyRejections(ChannelOf(f), el.frequency, Element)
                /\ coverage' = Cover(coverage,
                                     NoteClasses(f, st, "frequency")
                                         \cup FrequencyClasses(ChannelOf(f)),
                                     "checked")
                /\ programEnd' = Later(programEnd, ToTicks(f, st.clock))
                /\ UNCHANGED << phase, envVars, budgetVars, report >>

(* EL_DELAY.  It is no operation: note_event and extend_end are not called. *)
Delay(el) ==
    /\ Reads(el, "delay")
    /\ LET f == el.frame
           st == Counted(states[f])
       IN  IF AdvanceRefused(f, st, el.duration, FALSE)
           THEN ToolError
           ELSE /\ prog' = Append(prog, el)
                /\ states' = StateAfter(f, Advanced(f, st, el.duration))
                /\ sink' = sink \o AdvanceRejections(f, el.duration, Element, FALSE)
                /\ coverage' = Cover(coverage, AdvanceClasses(f, el.duration, FALSE), "checked")
                /\ UNCHANGED << phase, programEnd, envVars, budgetVars, report >>

-----------------------------------------------------------------------------
(* EL_PLAY and EL_CAPTURE: what the two share. *)

OutputRejections(el, st, kind) ==
    FirstUseRejections(el.frame, st, Element)
    \o StartGridRejections(el.frame, st, Element)
    \o NoteRejections(el.frame, st, Element, kind)
    \o AdvanceRejections(el.frame, el.duration, Element, TRUE)

OutputClasses(el, st, kind) ==
    FirstUseClasses(el.frame, st) \cup {"schedule_grid"}
        \cup NoteClasses(el.frame, st, kind) \cup AdvanceClasses(el.frame, el.duration, TRUE)

OutputState(el, kind) ==
    LET f  == el.frame
        st == [Counted(states[f]) EXCEPT !.nOutputs = @ + 1]
    IN  Advanced(f, Noted(f, FirstUse(f, st), Element, kind), el.duration)

OutputEnd(el) ==
    LET f == el.frame
    IN  Later(Later(programEnd, ToTicks(f, states[f].clock)),
              ToTicks(f, states[f].clock + DurationUnits(f, el.duration)))

OutputRefused(el, kind) ==
    LET f  == el.frame
        st == states[f]
    IN  \/ ChecksFrequency(f, st) /\ FrequencyRefused(ChannelOf(f), st.frequency)
        \/ ChecksPhase(f, st) /\ PhaseRefused(ChannelOf(f))
        \/ OffSchedule(f, st) /\ ~UnitsFit(f, Device[ChannelOf(f)].scheduleGrid)
        \/ NoteRefused(f, st, Element, kind)
        \/ AdvanceRefused(f, st, el.duration, TRUE)
        \/ ~UnitsFit(f, st.clock + DurationUnits(f, el.duration))

-----------------------------------------------------------------------------
(* EL_CAPTURE *)
Capture(el) ==
    /\ Reads(el, "capture")
    /\ LET f     == el.frame
           st    == states[f]
           units == DurationUnits(f, el.duration)
           after == OutputState(el, "capture")
       IN  IF OutputRefused(el, "capture")
           THEN ToolError
           ELSE /\ prog' = Append(prog, el)
                /\ states' = StateAfter(f, IF FixesLength(f, st)
                                           THEN [after EXCEPT !.captureLength = units]
                                           ELSE after)
                /\ sink' = sink \o OutputRejections(el, st, "capture")
                                \o CaptureLengthRejections(f, st, units, Element)
                /\ coverage' = Cover(Cover(coverage,
                                           OutputClasses(el, st, "capture")
                                               \cup CaptureLengthClasses(f),
                                           "checked"),
                                     AdvanceUncheckedClasses(f, el.duration, TRUE),
                                     "unchecked")
                /\ programEnd' = OutputEnd(el)
                /\ outputs' = outputs + 1
                /\ UNCHANGED << phase, envSeen, envUsed, wfPlayed, tonesChecked,
                                budgetVars, report >>
-----------------------------------------------------------------------------
(* EL_PLAY.  On a channel with a tone table the play names tones with a    *)
(* mask; on any other it names a waveform.                                 *)
\* Fault: an envelope is loaded again by every play that uses it.
LoadsEveryTime(f, w) ==
    IsSampled(w) /\ Device[ChannelOf(f)].capabilities.memory # Absent

Loads(f, w) ==
    /\ IsSampled(w)
    /\ Device[ChannelOf(f)].capabilities.memory # Absent
    /\ << Owner(f), w >> \notin envSeen

MemoryRejections(f, w, e) ==
    LET memory == Device[ChannelOf(f)].capabilities.memory
        before == envUsed[Owner(f)]
    IN  IF ~Loads(f, w) THEN << >>
        ELSE When(before <= memory /\ before + Samples(w) > memory,
                  Fatal("envelope_memory", e))

WaveformRejections(f, w, units, e) ==
    IF IsSampled(w)
    THEN EnvelopeRejections(ChannelOf(f), w, units, e) \o MemoryRejections(f, w, e)
    ELSE AmplitudeRejections(ChannelOf(f), Waveforms[w].amplitude, e)

WaveformClasses(f, w) ==
    IF IsSampled(w) THEN EnvelopeClasses(ChannelOf(f)) ELSE AmplitudeClasses(ChannelOf(f))

WaveformUncheckedClasses(f, w) ==
    IF IsSampled(w) THEN EnvelopeUncheckedClasses(ChannelOf(f)) ELSE {}

WaveformRefused(f, w, units) ==
    IF IsSampled(w)
    THEN \/ EnvelopeRefused(ChannelOf(f), w, units)
         \/ Loads(f, w) /\ ~IntFits(envUsed[Owner(f)] + Samples(w))
    ELSE AmplitudeRefused(ChannelOf(f))

PlayWaveform(el) ==
    LET f     == el.frame
        w     == el.waveform
        units == DurationUnits(f, el.duration)
    IN  /\ ~HasTones(ChannelOf(f))
        /\ IF OutputRefused(el, "output") \/ WaveformRefused(f, w, units)
           THEN ToolError
           ELSE /\ prog' = Append(prog, el)
                /\ states' = StateAfter(f, OutputState(el, "output"))
                /\ sink' = sink \o OutputRejections(el, states[f], "output")
                                \o WaveformRejections(f, w, units, Element)
                /\ coverage' = Cover(Cover(coverage,
                                           OutputClasses(el, states[f], "output")
                                               \cup WaveformClasses(f, w),
                                           "checked"),
                                     AdvanceUncheckedClasses(f, el.duration, TRUE)
                                         \cup WaveformUncheckedClasses(f, w),
                                     "unchecked")
                /\ programEnd' = OutputEnd(el)
                /\ outputs' = outputs + 1
                /\ wfPlayed' = wfPlayed \cup {w}
                /\ envSeen' = IF Loads(f, w) THEN envSeen \cup {<< Owner(f), w >>} ELSE envSeen
                /\ envUsed' = IF Loads(f, w) THEN [envUsed EXCEPT ![Owner(f)] = @ + Samples(w)]
                              ELSE envUsed
                /\ UNCHANGED << phase, tonesChecked, budgetVars, report >>

\* Fault: the tone table is checked again by every play.
ChecksTonesAlways(c) == TRUE

ChecksTones(c) == c \notin tonesChecked

PlayTones(el) ==
    LET f     == el.frame
        c     == ChannelOf(f)
        first == ChecksTones(c)
    IN  /\ HasTones(c)
        /\ IF OutputRefused(el, "output") \/ (first /\ ToneRefused(c))
           THEN ToolError
           ELSE /\ prog' = Append(prog, el)
                /\ states' = StateAfter(f, OutputState(el, "output"))
                /\ sink' = sink \o OutputRejections(el, states[f], "output")
                                \o (IF first THEN ToneRejections(c, Element) ELSE << >>)
                                \o MaskRejections(c, el.mask, Element)
                /\ coverage' = Cover(Cover(coverage,
                                           OutputClasses(el, states[f], "output")
                                               \cup (IF first THEN ToneClasses(c) ELSE {})
                                               \cup MaskClasses(c),
                                           "checked"),
                                     AdvanceUncheckedClasses(f, el.duration, TRUE),
                                     "unchecked")
                /\ programEnd' = OutputEnd(el)
                /\ outputs' = outputs + 1
                /\ tonesChecked' = tonesChecked \cup {c}
                /\ UNCHANGED << phase, envSeen, envUsed, wfPlayed, budgetVars, report >>

Play(el) ==
    /\ Reads(el, "play")
    /\ PlayWaveform(el) \/ PlayTones(el)

EndOfProgram ==
    /\ phase = "elements"
    /\ phase' = "slots"
    /\ UNCHANGED << progVars, sink, coverage, envVars, budgetVars, report >>

-----------------------------------------------------------------------------
(* After the loop: the captures nothing followed, against the program end. *)
SettlesAtEnd(f) ==
    states[f].openCapture # Absent /\ FrameDeclares(f, "capture_slot")

EndGap(f) == programEnd - ToTicks(f, states[f].openCapture)

BreaksSlotAtEnd(f) == SettlesAtEnd(f) /\ SlotBroken(f, EndGap(f))

SlotsRefused == \E f \in Frames : SettlesAtEnd(f) /\ ~TwoSlotsFit(f)

CloseSlots ==
    /\ phase = "slots"
    /\ IF SlotsRefused
       THEN ToolError
       ELSE /\ phase' = "spacing"
            /\ sink' = sink \o FlattenSeq([f \in Frames |->
                                  When(BreaksSlotAtEnd(f),
                                       Fatal("capture_slot", states[f].openCaptureElement))])
            /\ coverage' = Cover(coverage,
                                 IF \E f \in Frames : SettlesAtEnd(f)
                                 THEN {"capture_slot"} ELSE {},
                                 "checked")
            /\ states' = [f \in Frames |-> IF SettlesAtEnd(f)
                                           THEN [states[f] EXCEPT !.openCapture = Absent]
                                           ELSE states[f]]
            /\ UNCHANGED << prog, programEnd, envVars, budgetVars, report >>

(* The last operation of a frame starts min_units before the program ends. *)
HasMargin(f) == states[f].lastEvent # Absent /\ FrameDeclares(f, "start_spacing")

Due(f) == states[f].lastEvent + FrameConstraint(f, "start_spacing").minUnits

\* Fault: the margin is measured against the frame's own clock.
LateOnOwnClock(f) == HasMargin(f) /\ Due(f) > states[f].clock

Late(f) == HasMargin(f) /\ ToTicks(f, Due(f)) > programEnd

CloseSpacing ==
    /\ phase = "spacing"
    /\ IF \E f \in Frames : HasMargin(f) /\ (~IntFits(Due(f)) \/ ~RatFits(ToTicks(f, Due(f))))
       THEN ToolError
       ELSE /\ phase' = "budgets"
            /\ sink' = sink \o FlattenSeq([f \in Frames |->
                                  When(Late(f), Fatal("start_spacing",
                                                      states[f].lastEventElement))])
            /\ UNCHANGED << progVars, coverage, envVars, budgetVars, report >>

-----------------------------------------------------------------------------
(* Budgets, one per step. *)
(* frame_budget *)
Applies(b, f) ==
    (b.channels = {} \/ ChannelOf(f) \in b.channels) /\ states[f].nElements > 0

Applicable(b) == {f \in Frames : Applies(b, f)}

MostItems(b, f) ==
    IF b.perElementMax # Absent THEN states[f].nElements ELSE 2 * states[f].nElements

FrameBounds(b) ==
    Bounds(Max({Cost(b.perItem, states[f].nOutputs, b.overhead) : f \in Applicable(b)}),
           Max({Cost(PerElement(b), MostItems(b, f), b.overhead) : f \in Applicable(b)}))

FrameBoundsFit(b) ==
    \A f \in Applicable(b) :
        /\ CostFits(b.perItem, states[f].nOutputs, b.overhead)
        /\ CostFits(PerElement(b), MostItems(b, f), b.overhead)

Skipped(b) == b.id = "loop_registers" \/ (b.perFrame /\ Applicable(b) = {})

BudgetBounds(b) ==
    CASE b.id = "wmem_words" ->
             LET cost == Cost(b.perItem, Cardinality(wfPlayed), b.overhead)
             IN  Bounds(cost, cost)
      [] b.perFrame -> FrameBounds(b)
      [] OTHER -> Bounds(Cost(b.perItem, outputs, b.overhead),
                         Cost(b.perItem, 2 * Len(prog), b.overhead))

BudgetRefused(b) ==
    CASE b.id = "wmem_words" -> ~CostFits(b.perItem, Cardinality(wfPlayed), b.overhead)
      [] b.perFrame -> ~FrameBoundsFit(b)
      [] OTHER -> \/ ~CostFits(b.perItem, outputs, b.overhead)
                  \/ ~CostFits(b.perItem, 2 * Len(prog), b.overhead)

(* An indeterminate class stays so whatever its other budgets say. *)
\* Fault: the last budget of the class decides.
BudgetStatusLast(id, verdict) ==
    IF verdict = "indeterminate" THEN "indeterminate" ELSE "checked"

BudgetStatus(id, verdict) ==
    IF coverage[id] = "indeterminate" \/ verdict = "indeterminate"
    THEN "indeterminate" ELSE "checked"

SkipBudget ==
    /\ phase = "budgets"
    /\ nextBudget <= Len(Budgets)
    /\ Skipped(Budgets[nextBudget])
    /\ nextBudget' = nextBudget + 1
    /\ coverage' = Cover(coverage,
                         {"loop_registers"} \cap {Budgets[nextBudget].id},
                         "not_applicable")
    /\ UNCHANGED << phase, progVars, sink, envVars, results, report >>

CountBudget ==
    /\ phase = "budgets"
    /\ nextBudget <= Len(Budgets)
    /\ ~Skipped(Budgets[nextBudget])
    /\ LET b       == Budgets[nextBudget]
           bounds  == BudgetBounds(b)
           verdict == BudgetVerdict(bounds, b.limit)
       IN  IF BudgetRefused(b)
           THEN ToolError
           ELSE /\ nextBudget' = nextBudget + 1
                /\ coverage' = Cover(coverage, {b.id}, BudgetStatus(b.id, verdict))
                /\ sink' = sink \o When(verdict = "violates", Fatal(b.id, LastElement))
                /\ results' = Append(results,
                                     [id |-> b.id, verdict |-> verdict, lower |-> bounds.lower,
                                      upper |-> bounds.upper, limit |-> b.limit])
                /\ UNCHANGED << phase, progVars, envVars, report >>

-----------------------------------------------------------------------------
(* The report: the sink in registry order, in the order of addition inside *)
(* a rule (compare_entries), and the verdict.                              *)
\* Fault: what was added last stands first inside a rule.
UnderLastFirst(rule) ==
    Reverse(FlattenSeq([n \in DOMAIN sink |-> When(sink[n].rule = rule, sink[n])]))

Under(rule) == FlattenSeq([n \in DOMAIN sink |-> When(sink[n].rule = rule, sink[n])])

SortedSink == FlattenSeq([i \in DOMAIN CoverageClasses |-> Under(CoverageClasses[i])])

AnyFatal == \E i \in DOMAIN sink : sink[i].severity = "fatal"

Verdict ==
    IF AnyFatal THEN "fail" ELSE IF sink # << >> THEN "pass_with_repairs" ELSE "pass"

Finish ==
    /\ phase = "budgets"
    /\ nextBudget > Len(Budgets)
    /\ phase' = "done"
    /\ report' = [verdict |-> Verdict, rejections |-> SortedSink]
    /\ UNCHANGED << progVars, sink, coverage, envVars, budgetVars >>

(* check() has returned. *)
Returned == phase \in {"done", "tool_error"}

Idle == Returned /\ UNCHANGED vars

ReadElement(el) ==
    \/ Barrier(el)
    \/ ShiftPhase(el)
    \/ SetFrequency(el)
    \/ Delay(el)
    \/ Capture(el)
    \/ Play(el)

Next ==
    \/ Bind
    \/ \E el \in ElementSet : ReadElement(el)
    \/ EndOfProgram
    \/ CloseSlots
    \/ CloseSpacing
    \/ SkipBudget
    \/ CountBudget
    \/ Finish
    \/ Idle

Spec == Init /\ [][Next]_vars
=============================================================================
