--------------------------- MODULE CheckProperties ---------------------------
(***************************************************************************)
(* The properties of check() that the runs over programs check.            *)
(***************************************************************************)
EXTENDS Check

(* The checker keeps only the last operation of each frame; the properties *)
(* look at every pair of operations of the program as it was read, so they *)
(* need to know when each element started: before[i] is the clock of every *)
(* frame when element i was reached.  A history variable, it constrains    *)
(* nothing.                                                                *)
VARIABLE before

HInit == Init /\ before = << >>

HNext ==
    /\ Next
    /\ before' = IF prog' = prog THEN before
                 ELSE Append(before, [f \in Frames |-> states[f].clock])

HSpec == HInit /\ [][HNext]_<< vars, before >>

-----------------------------------------------------------------------------
(* The program as it was read. *)
Outputs == {"play", "capture"}

Operations == Outputs \cup {"shift_phase", "set_frequency"}

On(f, kinds) == {i \in DOMAIN prog : prog[i].kind \in kinds /\ prog[i].frame = f}

Start(i) == before[i][prog[i].frame]

StartTicks(i) == ToTicks(prog[i].frame, Start(i))

EndTicks(i) ==
    StartTicks(i) + ToTicks(prog[i].frame, DurationUnits(prog[i].frame, prog[i].duration))

Cited(rule, elements) ==
    {n \in DOMAIN sink : sink[n].rule = rule /\ sink[n].element \in elements}

Between(i, j) == (i + 1) .. j

(* The loop has just ended: every program that is not refused passes here  *)
(* once, before the checks that look at its end add to the sink.           *)
ProgramRead == phase = "slots"

-----------------------------------------------------------------------------
(* The variables of check(), their integers unbounded: a frame clock is    *)
(* never negative, which is why nothing emits the retired rule             *)
(* negative_time.                                                          *)
Typed ==
    /\ phase \in {"start", "elements", "slots", "spacing", "budgets", "done", "tool_error"}
    /\ prog \in Seq(ElementSet)
    /\ Len(prog) <= MaxElements
    /\ states \in [Frames -> FrameRecord]
    /\ coverage \in [Classes -> Statuses]
    /\ programEnd \in Nat
    /\ envSeen \subseteq Owners \X DOMAIN Waveforms
    /\ envUsed \in [Owners -> Nat]
    /\ wfPlayed \subseteq DOMAIN Waveforms
    /\ tonesChecked \subseteq DOMAIN Channels
    /\ outputs \in Nat
    /\ nextBudget \in 1 .. Len(Budgets) + 1

(* No sum or product of what the input holds has outgrown its integer: not *)
(* a clock, an accumulated phase, the end of the program, the samples in a *)
(* memory or the bounds of a budget.                                       *)
WithinWidth ==
    /\ \A f \in Frames : IntFits(states[f].clock) /\ RatFits(states[f].phase)
    /\ RatFits(programEnd)
    /\ \A o \in Owners : IntFits(envUsed[o])
    /\ \A n \in DOMAIN results : IntFits(results[n].lower) /\ IntFits(results[n].upper)

(* Every variable of check() has a value its C type can hold: what would   *)
(* overflow is refused before it is stored, wherever it is computed.       *)
TypeOK == Typed /\ WithinWidth

-----------------------------------------------------------------------------
(* Time. *)

(* check() keeps time as Timeline says: an element moves only the clocks   *)
(* of its own frames, never back, and a barrier brings its members to the  *)
(* latest of them within half a unit.  A channel the descriptor does not   *)
(* know has no unit; the run then ends before a clock moves.               *)
UnitOf(f) == IF ChannelOf(f) \in DOMAIN Device THEN FrameUnit(f) ELSE 1

TimeUnits == [f \in Frames |-> UnitOf(f)]

Clocks == [f \in Frames |-> states[f].clock]

AlignedBy(el) == IF el.kind = "barrier" THEN MemberSet(el) ELSE {}

Alignments == [i \in DOMAIN prog |-> AlignedBy(prog[i])]

Shared == INSTANCE Timeline
          WITH TicksPer <- TimeUnits, clock <- Clocks, aligned <- Alignments

KeepsTime == Shared!Spec

(* The end of the program: the latest start of an operation or end of an   *)
(* output on any frame; a trailing delay does not move it.                 *)
EndOfAll ==
    Max({0} \cup UNION {
        {StartTicks(i) : i \in On(f, Operations)}
            \cup {EndTicks(i) : i \in On(f, Outputs)} : f \in Frames})

(* A program without a schedule_grid rejection starts every output on its  *)
(* schedule grid, lines up every barrier exactly, and delays by whole      *)
(* units; a rejection cites an element that fails to.                      *)
LatestAt(i) ==
    Max({0} \cup {ToTicks(f, before[i][f]) : f \in MemberSet(prog[i])})

OffGrid(i) ==
    CASE prog[i].kind \in Outputs ->
             ~Divides(Device[ChannelOf(prog[i].frame)].scheduleGrid, Start(i))
      [] prog[i].kind = "barrier" ->
             \E f \in MemberSet(prog[i]) : ~Divides(FrameUnit(f), LatestAt(i))
      [] prog[i].kind = "delay" ->
             prog[i].duration > 0 /\ ~OnLattice(prog[i].frame, prog[i].duration)
      [] OTHER -> FALSE

GridRejectionsExact ==
    ProgramRead => \A i \in DOMAIN prog : OffGrid(i) <=> Cited("schedule_grid", {i}) # {}

-----------------------------------------------------------------------------
(* Spacing.  The checker compares an operation with the one before it; the *)
(* rule speaks of every two.                                               *)

(* start_spacing: any two operations of a frame that start at different    *)
(* times less than min_units apart are reported, at an operation after the *)
(* first and not after the second, and so is an operation too soon after   *)
(* the update at time 0 that a non-zero initial phase stands for.          *)
TooSoon(f, id, gap) == gap < FrameConstraint(f, id).minUnits

StartsSpaced ==
    ProgramRead => \A f \in Frames : FrameDeclares(f, "start_spacing") =>
        LET operations == On(f, Operations)
            close(gap) == gap # 0 /\ TooSoon(f, "start_spacing", gap)
        IN  /\ \A i, j \in operations : i < j /\ close(Start(j) - Start(i)) =>
                  Cited("start_spacing", operations \cap Between(i, j)) # {}
            /\ InitialPhaseUpdate(f) => \A j \in operations : close(Start(j)) =>
                  Cited("start_spacing", operations \cap (1 .. j)) # {}

(* A start_spacing rejection is never spurious: the element it cites       *)
(* starts too soon after an operation of its frame (or after time 0), or   *)
(* too close to the end of the program.                                    *)
StartRejectionsJustified ==
    phase = "done" => \A n \in DOMAIN sink : sink[n].rule = "start_spacing" =>
        LET j == sink[n].element
            f == prog[j].frame
        IN  \/ \E i \in On(f, Operations) : /\ i < j /\ Start(i) < Start(j)
                                            /\ TooSoon(f, "start_spacing", Start(j) - Start(i))
            \/ InitialPhaseUpdate(f) /\ TooSoon(f, "start_spacing", Start(j))
            \/ EndOfAll - StartTicks(j)
                   < ToTicks(f, FrameConstraint(f, "start_spacing").minUnits)

(* The end margin: once the checks after the loop are done, every frame's  *)
(* last operation starts min_units before the end of the whole program or  *)
(* is cited.                                                               *)
EndMarginKept ==
    phase = "done" => \A f \in Frames :
        FrameDeclares(f, "start_spacing") /\ On(f, Operations) # {} =>
            LET last == Max(On(f, Operations))
            IN  \/ StartTicks(last) + ToTicks(f, FrameConstraint(f, "start_spacing").minUnits)
                       <= EndOfAll
                \/ Cited("start_spacing", {last}) # {}

(* frequency_update_spacing and capture_spacing: two set_frequency (two    *)
(* captures) of a frame less than min_units apart are reported, equal      *)
(* times included, whatever stands between them.                           *)
RepeatsSpaced ==
    ProgramRead => \A f \in Frames :
        \A rule \in {"frequency_update_spacing", "capture_spacing"} :
            FrameDeclares(f, rule) =>
                LET repeated == On(f, IF rule = "capture_spacing" THEN {"capture"}
                                      ELSE {"set_frequency"})
                IN  \A i, j \in repeated :
                        i < j /\ TooSoon(f, rule, Start(j) - Start(i))
                            => Cited(rule, repeated \cap Between(i, j)) # {}

(* capture_slot: what follows a capture, the next operation at a later     *)
(* time or else the end of the program, comes exactly one slot after it or *)
(* at least two; each capture time that breaks this is cited once.         *)
Followers(f, i) == {StartTicks(k) : k \in {k \in On(f, Operations) : k > i /\ Start(k) # Start(i)}}

Follows(f, i) == IF Followers(f, i) = {} THEN EndOfAll ELSE Min(Followers(f, i))

CapturesAt(f, i) == {k \in On(f, {"capture"}) : Start(k) = Start(i)}

SlotsKept ==
    phase = "done" => \A f \in Frames : FrameDeclares(f, "capture_slot") =>
        \A i \in On(f, {"capture"}) :
            Cardinality(Cited("capture_slot", CapturesAt(f, i)))
                = IF SlotBroken(f, Follows(f, i) - StartTicks(i)) THEN 1 ELSE 0

(* capture_length_uniform: a capture is cited exactly when its length is   *)
(* not that of the first capture of its frame.                             *)
CaptureLengthsUniform ==
    ProgramRead => \A f \in Frames : FrameDeclares(f, "capture_length_uniform") =>
        \A j \in On(f, {"capture"}) :
            LET length(i) == DurationUnits(f, prog[i].duration)
            IN  Cited("capture_length_uniform", {j}) # {}
                    <=> length(j) # length(Min(On(f, {"capture"})))

-----------------------------------------------------------------------------
(* Values.  Frequency and phase are checked lazily, at the first output.   *)

SetBefore(f, i) == {k \in On(f, {"set_frequency"}) : k < i}

FrequencyAt(f, i) ==
    IF SetBefore(f, i) = {} THEN FrameDefs[f].frequency
    ELSE prog[Max(SetBefore(f, i))].frequency

(* No output sounds at a frequency that was not looked at: if the carrier  *)
(* of an output breaks the band, an element of its frame up to the output, *)
(* and not before the update that set the carrier, is cited.               *)
CarriersChecked ==
    ProgramRead => \A f \in Frames : ~HasTones(ChannelOf(f)) =>
        \A i \in On(f, Outputs) :
            LET since == IF SetBefore(f, i) = {} THEN 1 ELSE Max(SetBefore(f, i))
                carrier == On(f, Outputs \cup {"set_frequency"}) \cap (since .. i)
                broken  == FrequencyRejections(ChannelOf(f), FrequencyAt(f, i), 0)
            IN  \A n \in DOMAIN broken : Cited(broken[n].rule, carrier) # {}

ShiftsBefore(f, i) == {k \in On(f, {"shift_phase"}) : k < i}

PhaseAt(f, i) == FrameDefs[f].phase + SumFunction([k \in ShiftsBefore(f, i) |-> prog[k].phase])

(* The phase of a frame accumulates, and the accumulated value is checked  *)
(* only once: an output whose phase is off the resolution is nevertheless  *)
(* never silent, because the initial phase or one of the shifts was cited. *)
PhasesChecked ==
    ProgramRead => \A f \in Frames : ~HasTones(ChannelOf(f)) =>
        \A i \in On(f, Outputs) :
            PhaseRejections(ChannelOf(f), PhaseAt(f, i), 0) # << >>
                => Cited("phase_resolution", On(f, Operations) \cap (1 .. i)) # {}

(* A tone table belongs to a channel: it is checked at the first play that *)
(* sounds it, so its length is reported once however many plays follow.    *)
SoundedBy(c) == {i \in DOMAIN prog : prog[i].kind = "play" /\ ChannelOf(prog[i].frame) = c}

ToneTablesCheckedOnce ==
    ProgramRead => \A c \in DOMAIN Channels : HasTones(c) /\ SoundedBy(c) # {} =>
        \A rule \in Classes \ {"mux_tone_mask"} :
            LET first    == Min(SoundedBy(c))
                table    == ToneRejections(c, first)
                expected == {n \in DOMAIN table : table[n].rule = rule}
            IN  rule \in ToneClasses(c) =>
                    /\ Cardinality(Cited(rule, SoundedBy(c))) = Cardinality(expected)
                    /\ Cited(rule, SoundedBy(c)) = Cited(rule, {first})

(* A mask names tones of the table only, or its play is cited once for     *)
(* each tone that is not there.                                            *)
MasksNameTones ==
    ProgramRead => \A c \in DOMAIN Channels : HasTones(c) /\ Declared(c, "mux_tone_mask") =>
        \A i \in SoundedBy(c) :
            LET stray == {n \in DOMAIN prog[i].mask :
                              prog[i].mask[n] + 1 \notin DOMAIN Channels[c].tones}
            IN  Cardinality(Cited("mux_tone_mask", {i})) = Cardinality(stray)

(* What a muxed play sounds was looked at once, and is in the table. *)
TonesChecked == ToneTablesCheckedOnce /\ MasksNameTones

(* Envelope memory: a waveform occupies the memory of its owner once       *)
(* however many plays use it, and a memory that overflows is reported      *)
(* exactly once, at the first play that does not fit.  Below no memory at  *)
(* all there is nothing to overflow: a negative size is never reported.    *)
Loaders(o) == {i \in DOMAIN prog : /\ prog[i].kind = "play"
                                   /\ ~HasTones(ChannelOf(prog[i].frame))
                                   /\ Owner(prog[i].frame) = o
                                   /\ IsSampled(prog[i].waveform)}

LoadedBy(o, i) ==
    SumFunction([w \in {prog[k].waveform : k \in {k \in Loaders(o) : k <= i}} |-> Samples(w)])

Memory(i) == Device[ChannelOf(prog[i].frame)].capabilities.memory

EnvelopeMemoryExact ==
    ProgramRead => \A o \in Owners :
        LET full == {i \in Loaders(o) : Memory(i) \in Nat /\ LoadedBy(o, i) > Memory(i)}
        IN  /\ Cardinality(Cited("envelope_memory", Loaders(o))) = IF full = {} THEN 0 ELSE 1
            /\ full # {} => Cited("envelope_memory", {Min(full)}) # {}

-----------------------------------------------------------------------------
(* The report. *)

(* The report is the sink sorted by rule and, inside a rule, in the order  *)
(* of addition: each rejection stands after those of smaller rules and     *)
(* those of its own rule that were added before it, so nothing is lost,    *)
(* doubled or reordered.  The verdict is the worst severity, and the rule  *)
(* that is retired is never in it.                                         *)
Rank(rule) == CHOOSE i \in DOMAIN CoverageClasses : CoverageClasses[i] = rule

NotAfter(m, n) ==
    \/ Rank(sink[m].rule) < Rank(sink[n].rule)
    \/ Rank(sink[m].rule) = Rank(sink[n].rule) /\ m <= n

PlaceInReport(n) == Cardinality({m \in DOMAIN sink : NotAfter(m, n)})

ReportOrdered ==
    phase = "done" =>
        LET rejections == report.rejections
        IN  /\ \A n \in DOMAIN sink : sink[n].rule \in Classes \ {"negative_time"}
            /\ Len(rejections) = Len(sink)
            /\ \A n \in DOMAIN sink : rejections[PlaceInReport(n)] = sink[n]
            /\ report.verdict =
                  CASE \E n \in DOMAIN rejections : rejections[n].severity = "fatal" -> "fail"
                    [] rejections = << >> -> "pass"
                    [] OTHER -> "pass_with_repairs"

(* Two budgets can share a class: an indeterminate one is never masked by  *)
(* another, and each that is exceeded whichever bound is taken is reported *)
(* once.                                                                   *)
BudgetsNotMasked ==
    phase = "done" => \A id \in {"pmem_words", "wmem_words"} :
        LET counted == {n \in DOMAIN results : results[n].id = id}
            within(n) == results[n].lower <= results[n].limit
            beyond(n) == results[n].upper > results[n].limit
        IN  /\ coverage[id] = "indeterminate" <=> \E n \in counted : within(n) /\ beyond(n)
            /\ Cardinality({n \in DOMAIN sink : sink[n].rule = id})
                   = Cardinality({n \in counted : ~within(n) /\ beyond(n)})

(* What the budgets count, in the program as it was read. *)
FramesOf(el) == IF el.kind = "barrier" THEN Members(el) ELSE << el.frame >>

Mentions(f) ==
    UNION {{i} \X {j \in DOMAIN FramesOf(prog[i]) : FramesOf(prog[i])[j] = f} : i \in DOMAIN prog}

AllOutputs == {i \in DOMAIN prog : prog[i].kind \in Outputs}

WaveformsPlayed ==
    {prog[i].waveform : i \in {i \in DOMAIN prog : /\ prog[i].kind = "play"
                                                 /\ ~HasTones(ChannelOf(prog[i].frame))}}

FramesCounted(b) ==
    {f \in Frames : (b.channels = {} \/ ChannelOf(f) \in b.channels) /\ Mentions(f) # {}}

(* A budget that bounds nothing the program has gets no result. *)
Answered(b) == b.id # "loop_registers" /\ (b.perFrame => FramesCounted(b) # {})

Answer(m) == results[Cardinality({k \in 1 .. m : Answered(Budgets[k])})]

(* Every other budget is answered, in the order of the descriptor, by its  *)
(* own bounds.  One counted per frame speaks of one frame at a time: it    *)
(* fits when no frame that the program uses can exceed the limit, and is   *)
(* violated when some frame must.                                          *)
BudgetsAnswered ==
    phase = "done" => \A m \in DOMAIN Budgets : Answered(Budgets[m]) =>
        LET b        == Budgets[m]
            doubled  == b.perElementMax = Absent
            cost(n)  == Cost(b.perItem, n, b.overhead)
            least(f) == cost(Cardinality(On(f, Outputs)))
            most(f)  == LET n == Cardinality(Mentions(f))
                        IN  Cost(PerElement(b), IF doubled THEN 2 * n ELSE n, b.overhead)
        IN  /\ Answer(m).id = b.id /\ Answer(m).limit = b.limit
            /\ b.id = "wmem_words" =>
                  {Answer(m).lower, Answer(m).upper} = {cost(Cardinality(WaveformsPlayed))}
            /\ b.id = "pmem_words" /\ ~b.perFrame =>
                  /\ Answer(m).lower = cost(Cardinality(AllOutputs))
                  /\ Answer(m).upper = cost(2 * Len(prog))
            /\ b.perFrame =>
                  /\ Answer(m).verdict = "fits" <=> \A f \in FramesCounted(b) : most(f) <= b.limit
                  /\ Answer(m).verdict = "violates" <=>
                         /\ \E f \in FramesCounted(b) : least(f) > b.limit
                         /\ \E f \in FramesCounted(b) : most(f) > b.limit

(* A budget's answer is about what it bounds, whichever frame and whatever *)
(* other budget of its class is counted next to it.                        *)
BudgetsHonest == BudgetsNotMasked /\ BudgetsAnswered

-----------------------------------------------------------------------------
(* Statements of the documents that the code does not keep.                *)

(* report-format-v0: "Inside one rule, elements appear in file order."     *)
(* compare_entries orders a rule by the moment of the rejection, and the   *)
(* checks after the loop reject earlier elements, in frame order.          *)
FileOrder ==
    phase = "done" => \A m, n \in DOMAIN report.rejections :
        m < n /\ report.rejections[m].rule = report.rejections[n].rule
            => report.rejections[m].element <= report.rejections[n].element
=============================================================================
