------------------------------ MODULE CheckPass ------------------------------
(***************************************************************************)
(* check() of src/src/check.c as a function: what it answers about one     *)
(* whole program.  The rules are those of module Check, which runs them    *)
(* one element at a time; here an element folds over p, the state of the   *)
(* pass, so that a program can be judged against several descriptors (the  *)
(* module is instantiated with each).  A pass that was refused is a tool   *)
(* error and reads no further element.  The refusals for want of integer   *)
(* width after the element loop are left to module Check.                  *)
(***************************************************************************)
EXTENDS ProgramRules, Descriptor

Start ==
    [n |-> 0, refused |-> FALSE, states |-> [f \in Frames |-> InitialState(f)],
     sink |-> << >>, end |-> 0, loaded |-> {}, used |-> [o \in Owners |-> 0],
     played |-> {}, tonesChecked |-> {}]

Refuse(p) == [p EXCEPT !.refused = TRUE]

Found(p, rejections) == [p EXCEPT !.sink = @ \o rejections]

Counts(st) == [st EXCEPT !.nElements = @ + 1]

-----------------------------------------------------------------------------
(* The elements that only move or prepare a frame. *)
BarrierTimes(p, el) ==
    {0} \cup {ToTicks(f, p.states[f].clock) : f \in ToSet(Members(el))}

OnLatticeOf(f, t) ==
    IF Divides(FrameUnit(f), t) THEN t \div FrameUnit(f) ELSE RoundNearestEven(t, FrameUnit(f))

Barrier(p, el, e) ==
    LET t       == Max(BarrierTimes(p, el))
        misses  == SelectSeq(Members(el), LAMBDA f : ~Divides(FrameUnit(f), t))
        Named(f) == Cardinality({i \in DOMAIN Members(el) : Members(el)[i] = f})
        Moves(i) == EitherWay("schedule_grid", ScheduleSeverity(ChannelOf(misses[i])),
                              "quantize_time", e)
    IN  Found([p EXCEPT !.states =
                  [f \in Frames |-> IF f \notin ToSet(Members(el)) THEN @[f]
                                    ELSE [@[f] EXCEPT !.clock = OnLatticeOf(f, t),
                                                      !.nElements = @ + Named(f)]]],
              [i \in DOMAIN misses |-> Moves(i)])

Shift(p, el, e) ==
    LET f  == el.frame
        st == Counts(p.states[f])
    IN  IF HasTones(ChannelOf(f)) \/ NoteRefused(f, st, e, "phase") \/ PhaseRefused(ChannelOf(f))
        THEN Refuse(p)
        ELSE Found([p EXCEPT !.states[f] = [Noted(f, st, e, "phase") EXCEPT !.phase = @ + el.phase],
                             !.end = Later(@, ToTicks(f, st.clock))],
                   NoteRejections(f, st, e, "phase")
                       \o PhaseRejections(ChannelOf(f), el.phase, e))

Retune(p, el, e) ==
    LET f  == el.frame
        st == Counts(p.states[f])
    IN  IF \/ HasTones(ChannelOf(f))
           \/ NoteRefused(f, st, e, "frequency")
           \/ FrequencyRefused(ChannelOf(f), el.frequency)
        THEN Refuse(p)
        ELSE Found([p EXCEPT !.states[f] = [Noted(f, st, e, "frequency")
                                               EXCEPT !.frequency = el.frequency,
                                                      !.freqChecked = TRUE],
                             !.end = Later(@, ToTicks(f, st.clock))],
                   NoteRejections(f, st, e, "frequency")
                       \o FrequencyRejections(ChannelOf(f), el.frequency, e))

Wait(p, el, e) ==
    LET f  == el.frame
        st == Counts(p.states[f])
    IN  IF AdvanceRefused(f, st, el.duration, FALSE) THEN Refuse(p)
        ELSE Found([p EXCEPT !.states[f] = Advanced(f, st, el.duration)],
                   AdvanceRejections(f, el.duration, e, FALSE))

-----------------------------------------------------------------------------
(* A play or a capture, and what each adds to the other. *)
OutputRefused(f, st, duration, e, kind) ==
    \/ ChecksFrequency(f, st) /\ FrequencyRefused(ChannelOf(f), st.frequency)
    \/ ChecksPhase(f, st) /\ PhaseRefused(ChannelOf(f))
    \/ OffSchedule(f, st) /\ ~UnitsFit(f, Device[ChannelOf(f)].scheduleGrid)
    \/ NoteRefused(f, st, e, kind)
    \/ AdvanceRefused(f, st, duration, TRUE)
    \/ ~UnitsFit(f, st.clock + DurationUnits(f, duration))

Output(p, f, duration, e, kind) ==
    LET st    == [Counts(p.states[f]) EXCEPT !.nOutputs = @ + 1]
        after == Advanced(f, Noted(f, FirstUse(f, st), e, kind), duration)
    IN  Found([p EXCEPT !.states[f] = after,
                        !.end = Later(@, Later(ToTicks(f, st.clock), ToTicks(f, after.clock)))],
              FirstUseRejections(f, st, e) \o StartGridRejections(f, st, e)
                  \o NoteRejections(f, st, e, kind) \o AdvanceRejections(f, duration, e, TRUE))

Capture(p, el, e) ==
    LET f     == el.frame
        st    == p.states[f]
        units == DurationUnits(f, el.duration)
        after == Found(Output(p, f, el.duration, e, "capture"),
                       CaptureLengthRejections(f, st, units, e))
    IN  IF OutputRefused(f, st, el.duration, e, "capture") THEN Refuse(p)
        ELSE IF FixesLength(f, st) THEN [after EXCEPT !.states[f].captureLength = units]
        ELSE after

PlayConstant(p, el, e) ==
    LET c == ChannelOf(el.frame)
    IN  IF AmplitudeRefused(c) THEN Refuse(p)
        ELSE Found(Output(p, el.frame, el.duration, e, "output"),
                   AmplitudeRejections(c, Waveforms[el.waveform].amplitude, e))

(* The samples are loaded once per owner of the memory. *)
PlaySamples(p, el, e) ==
    LET f      == el.frame
        w      == el.waveform
        memory == Device[ChannelOf(f)].capabilities.memory
        units  == DurationUnits(f, el.duration)
        load   == memory # Absent /\ << Owner(f), w >> \notin p.loaded
        before == p.used[Owner(f)]
        after  == before + Samples(w)
    IN  IF EnvelopeRefused(ChannelOf(f), w, units) THEN Refuse(p)
        ELSE Found([Output(p, f, el.duration, e, "output")
                       EXCEPT !.loaded = IF load THEN @ \cup {<< Owner(f), w >>} ELSE @,
                              !.used = IF load THEN [@ EXCEPT ![Owner(f)] = after] ELSE @],
                   EnvelopeRejections(ChannelOf(f), w, units, e)
                       \o When(load /\ before <= memory /\ after > memory,
                               Fatal("envelope_memory", e)))

PlayTones(p, el, e) ==
    LET c     == ChannelOf(el.frame)
        first == c \notin p.tonesChecked
    IN  IF first /\ ToneRefused(c) THEN Refuse(p)
        ELSE [Found(Output(p, el.frame, el.duration, e, "output"),
                    (IF first THEN ToneRejections(c, e) ELSE << >>) \o MaskRejections(c, el.mask, e))
                 EXCEPT !.tonesChecked = @ \cup {c}]

Play(p, el, e) ==
    IF OutputRefused(el.frame, p.states[el.frame], el.duration, e, "output") THEN Refuse(p)
    ELSE IF HasTones(ChannelOf(el.frame)) THEN PlayTones(p, el, e)
    ELSE LET q == [p EXCEPT !.played = @ \cup {el.waveform}]
         IN  IF IsSampled(el.waveform) THEN PlaySamples(q, el, e) ELSE PlayConstant(q, el, e)

ReadElement(p, el, e) ==
    CASE el.kind = "barrier"       -> Barrier(p, el, e)
      [] el.kind = "shift_phase"   -> Shift(p, el, e)
      [] el.kind = "set_frequency" -> Retune(p, el, e)
      [] el.kind = "delay"         -> Wait(p, el, e)
      [] el.kind = "capture"       -> Capture(p, el, e)
      [] el.kind = "play"          -> Play(p, el, e)

Read(p, el) ==
    IF p.refused THEN p ELSE [ReadElement(p, el, p.n + 1) EXCEPT !.n = @ + 1]

-----------------------------------------------------------------------------
(* The checks at the program end and the budgets. *)
EndSlots(p) ==
    LET Open(f)  == p.states[f].openCapture # Absent /\ FrameDeclares(f, "capture_slot")
        Gap(f)   == p.end - ToTicks(f, p.states[f].openCapture)
        broken   == SelectSeq(FrameOrder, LAMBDA f : Open(f) /\ SlotBroken(f, Gap(f)))
    IN  [i \in DOMAIN broken |-> Fatal("capture_slot", p.states[broken[i]].openCaptureElement)]

EndSpacing(p) ==
    LET Margin(f) == p.states[f].lastEvent # Absent /\ FrameDeclares(f, "start_spacing")
        Due(f)    == p.states[f].lastEvent + FrameConstraint(f, "start_spacing").minUnits
        late      == SelectSeq(FrameOrder, LAMBDA f : Margin(f) /\ ToTicks(f, Due(f)) > p.end)
    IN  [i \in DOMAIN late |-> Fatal("start_spacing", p.states[late[i]].lastEventElement)]

Outputs(p) == MapThenSumSet(LAMBDA f : p.states[f].nOutputs, Frames)

BudgetOf(p, b) ==
    LET counted == {f \in Frames : /\ b.channels = {} \/ ChannelOf(f) \in b.channels
                                   /\ p.states[f].nElements > 0}
        Most(f) == IF b.perElementMax # Absent THEN p.states[f].nElements
                   ELSE 2 * p.states[f].nElements
    IN  CASE b.id = "wmem_words" ->
                 LET cost == Cost(b.perItem, Cardinality(p.played), b.overhead)
                 IN  Bounds(cost, cost)
          [] b.perFrame ->
                 Bounds(Max({Cost(b.perItem, p.states[f].nOutputs, b.overhead) : f \in counted}),
                        Max({Cost(PerElement(b), Most(f), b.overhead) : f \in counted}))
          [] OTHER -> Bounds(Cost(b.perItem, Outputs(p), b.overhead),
                             Cost(b.perItem, 2 * p.n, b.overhead))

Counted(p, b) ==
    /\ b.id # "loop_registers"
    /\ b.perFrame => \E f \in Frames : /\ b.channels = {} \/ ChannelOf(f) \in b.channels
                                       /\ p.states[f].nElements > 0

EndBudgets(p) ==
    LET over == SelectSeq(Budgets, LAMBDA b :
                    Counted(p, b) /\ BudgetVerdict(BudgetOf(p, b), b.limit) = "violates")
    IN  [i \in DOMAIN over |-> Fatal(over[i].id, p.n)]

-----------------------------------------------------------------------------
(* The answer run.py keeps of a report: the verdict, the rules that fired  *)
(* and the elements a fatal rejection points at.                           *)
ToolError == [verdict |-> "tool_error", rules |-> {}, fatal |-> {}]

Verdict(sink) ==
    LET fatal == {r \in sink : r.severity = "fatal"}
    IN  [verdict |-> IF fatal # {} THEN "fail"
                     ELSE IF sink # {} THEN "pass_with_repairs" ELSE "pass",
         rules   |-> {r.rule : r \in sink},
         fatal   |-> {r.element : r \in fatal}]

Ended(p) ==
    IF p.refused THEN ToolError
    ELSE Verdict(ToSet(p.sink \o EndSlots(p) \o EndSpacing(p) \o EndBudgets(p)))

Answer(program) ==
    IF ~ValidDescriptor \/ ~(DOMAIN Channels \subseteq DOMAIN Device) THEN ToolError
    ELSE Ended(FoldLeft(Read, Start, program))
=============================================================================
