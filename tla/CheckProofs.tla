----------------------------- MODULE CheckProofs -----------------------------
(***************************************************************************)
(* Proofs about check() for every program, device and bound: its variables *)
(* keep their types, it keeps time as Timeline says, and what it reports.  *)
(*                                                                         *)
(* The inductive invariant adds to Typed that the elements are read only   *)
(* when every channel of the program is one of the device: without it the  *)
(* unit of a frame is not known to be a positive number.                   *)
(*                                                                         *)
(* Then what one element does, as lemmas: what it reports under each rule  *)
(* about time, at which element, and what its frame remembers of it.       *)
(*                                                                         *)
(* The checker compares an element with what it remembers of its frame:    *)
(* the last operation, the last update, the last capture.  The rules speak *)
(* of all the elements before it.  The invariant that closes the gap says  *)
(* what a frame state remembers, in terms of the program as it was read    *)
(* and of the times at which its elements started.  On it stand the        *)
(* theorems of this module, on spacing, the grid, the end of the program   *)
(* and the carriers, and those of module ProgramProofs.                    *)
(***************************************************************************)
EXTENDS CheckProperties, DataProofs, SequenceTheorems, FiniteSetTheorems

ChannelsBound == phase = "elements" => DOMAIN Channels \subseteq DOMAIN Device

IInv == Typed /\ ChannelsBound

-----------------------------------------------------------------------------
(* The constants. *)
LEMMA FrameChannel ==
    ASSUME NEW f \in Frames
    PROVE  /\ ChannelOf(f) \in DOMAIN Channels
           /\ FrameDefs[f].frequency \in Int /\ FrameDefs[f].phase \in Int
<1> DEFINE Frame == [channel: DOMAIN Channels, frequency: Int, phase: Int]
<1>1. f \in 1 .. Len(FrameDefs) /\ FrameDefs \in Seq(Frame)
  BY FrameAssumption, LenProperties DEF Frames
<1>2. FrameDefs[f] \in Frame
  <2> HIDE DEF Frame
  <2> QED BY <1>1, ElementOfSeq
<1> QED BY <1>2 DEF ChannelOf

(* A bound frame counts its time in a positive number of ticks. *)
LEMMA UnitPositive ==
    ASSUME NEW f \in Frames, DOMAIN Channels \subseteq DOMAIN Device
    PROVE  FrameUnit(f) \in Nat \ {0}
  BY FrameChannel, UnitAssumption DEF FrameUnit, Unit

(* Every element but a barrier belongs to one frame. *)
LEMMA ElementFrame ==
    ASSUME NEW el \in ElementSet, el.kind # "barrier"
    PROVE  el.frame \in Frames
  BY ElementAssumption

(* A duration becomes a count of units, and a negative one becomes none. *)
LEMMA DurationNatural ==
    ASSUME NEW f \in Frames, DOMAIN Channels \subseteq DOMAIN Device, NEW n \in Int
    PROVE  DurationUnits(f, n) \in Nat
<1>1. CASE n < 0
  BY <1>1 DEF DurationUnits
<1>2. CASE n >= 0
  <2> DEFINE ticks == DurationTicks(f, n)
  <2>1. Channels[ChannelOf(f)].unit \in Nat
    BY FrameChannel, UnitAssumption
  <2>2. ticks \in Nat
    BY <2>1, <1>2 DEF DurationTicks
  <2>3. FrameUnit(f) \in Nat \ {0}
    BY UnitPositive
  <2> HIDE DEF ticks
  <2>4. ticks \div FrameUnit(f) \in Nat
    BY <2>2, <2>3
  <2>5. RoundNearestEven(ticks, FrameUnit(f)) \in Nat
    BY <2>2, <2>3, RoundNatural
  <2> QED BY <2>4, <2>5, <1>2 DEF DurationUnits, ticks
<1> QED BY <1>1, <1>2

-----------------------------------------------------------------------------
(* Barriers: their members are frames of the program. *)
LEMMA MembersAreFrames ==
    ASSUME NEW el \in ElementSet, el.kind = "barrier"
    PROVE  MemberSet(el) \subseteq Frames
<1>1. el.frames \in Seq(Frames)
  BY ElementAssumption
<1>2. \A i \in DOMAIN el.frames : el.frames[i] \in Frames
  BY <1>1, LenProperties, ElementOfSeq
<1> QED BY <1>2 DEF MemberSet, Members

(* The times a barrier compares are natural numbers. *)
LEMMA MemberTimesNatural ==
    ASSUME Typed, DOMAIN Channels \subseteq DOMAIN Device,
           NEW el \in ElementSet, el.kind = "barrier"
    PROVE  /\ MemberTimes(el) \subseteq Nat
           /\ \A f \in MemberSet(el) : states[f].clock \in Nat
<1>1. \A f \in MemberSet(el) : states[f].clock \in Nat
  BY MembersAreFrames DEF Typed, FrameRecord
<1>2. ASSUME NEW f \in MemberSet(el) PROVE ToTicks(f, states[f].clock) \in Nat
  BY <1>1, MembersAreFrames, UnitPositive DEF ToTicks
<1> QED BY <1>1, <1>2 DEF MemberTimes

(* A barrier sets a clock to the count nearest to its time. *)
LEMMA AlignedNearest ==
    ASSUME NEW f \in Frames, DOMAIN Channels \subseteq DOMAIN Device, NEW t \in Nat
    PROVE  /\ Aligned(f, t) \in Nat
           /\ 2 * Magnitude(Aligned(f, t) * FrameUnit(f) - t) <= FrameUnit(f)
<1>1. FrameUnit(f) \in Nat \ {0}
  BY UnitPositive
<1>2. CASE Divides(FrameUnit(f), t)
  <2>1. Aligned(f, t) = t \div FrameUnit(f)
    BY <1>2 DEF Aligned
  <2>2. Aligned(f, t) \in Nat
    BY <2>1, <1>1
  <2>3. Aligned(f, t) * FrameUnit(f) = t
    BY <2>1, <1>1, <1>2, ExactQuotient
  <2> QED BY <2>2, <2>3, <1>1 DEF Magnitude
<1>3. CASE ~Divides(FrameUnit(f), t)
  BY <1>1, <1>3, RoundWithinHalf, RoundNatural DEF Aligned
<1> QED BY <1>2, <1>3

-----------------------------------------------------------------------------
(* The pieces of a step.  Marking classes keeps the coverage table typed. *)
LEMMA CoverType ==
    ASSUME NEW table \in [Classes -> Statuses], NEW classes, NEW status \in Statuses
    PROVE  Cover(table, classes, status) \in [Classes -> Statuses]
  BY DEF Cover

(* The same of the current table. *)
LEMMA CoveredType ==
    ASSUME Typed, NEW classes, NEW status \in Statuses
    PROVE  Cover(coverage, classes, status) \in [Classes -> Statuses]
  BY CoverType DEF Typed

(* Reading an element keeps the program within its bound. *)
LEMMA ProgramGrows ==
    ASSUME Typed, NEW el \in ElementSet, Len(prog) < MaxElements
    PROVE  /\ Append(prog, el) \in Seq(ElementSet)
           /\ Len(Append(prog, el)) <= MaxElements
<1>1. prog \in Seq(ElementSet)
  BY DEF Typed
<1>2. Len(Append(prog, el)) = Len(prog) + 1 /\ Len(prog) \in Nat
  BY <1>1, AppendProperties, LenProperties
<1> QED BY <1>1, <1>2, AppendProperties, ElementAssumption

(* The id of the element being read is a natural number. *)
LEMMA ElementId ==
    ASSUME Typed PROVE Element \in Nat
  BY LenProperties DEF Typed, Element

(* Counting an element leaves a frame its clock. *)
LEMMA CountedRecord ==
    ASSUME NEW st \in FrameRecord
    PROVE  Counted(st) \in FrameRecord /\ Counted(st).clock = st.clock
  BY DEF Counted, FrameRecord

(* A barrier moves a frame to a natural number of units. *)
LEMMA JoinedRecord ==
    ASSUME NEW st \in FrameRecord, NEW units \in Nat, NEW n \in Nat
    PROVE  [st EXCEPT !.clock = units, !.nElements = @ + n] \in FrameRecord
<1>1. PICK total \in Nat : total = st.nElements + n
  BY DEF FrameRecord
<1>2. [st EXCEPT !.clock = units, !.nElements = total] \in FrameRecord
  BY DEF FrameRecord
<1> QED BY <1>1, <1>2

(* note_event remembers an operation and moves no clock. *)
LEMMA NotedRecord ==
    ASSUME NEW f, NEW st \in FrameRecord, NEW e \in Nat, NEW kind
    PROVE  Noted(f, st, e, kind) \in FrameRecord /\ Noted(f, st, e, kind).clock = st.clock
<1> DEFINE freqUpdate == IF kind = "frequency" THEN st.clock ELSE st.lastFreqUpdate
           capture    == IF kind = "capture" THEN st.clock ELSE st.lastCapture
           open       == IF kind = "capture" THEN st.clock
                         ELSE IF SettlesSlot(f, st) THEN Absent ELSE st.openCapture
           opener     == IF kind = "capture" THEN e ELSE st.openCaptureElement
<1>1. /\ {freqUpdate, capture, open} \subseteq Int \cup {Absent}
      /\ opener \in Nat
      /\ st.clock \in Int
  BY DEF FrameRecord
<1>2. Noted(f, st, e, kind) =
          [st EXCEPT !.lastEvent = st.clock, !.lastEventElement = e,
                     !.lastFreqUpdate = freqUpdate, !.lastCapture = capture,
                     !.openCapture = open, !.openCaptureElement = opener]
  BY DEF Noted
<1> HIDE DEF freqUpdate, capture, open, opener
<1> QED BY <1>1, <1>2 DEF FrameRecord

(* advance adds the units of the duration to the clock. *)
LEMMA AdvancedRecord ==
    ASSUME NEW f \in Frames, DOMAIN Channels \subseteq DOMAIN Device,
           NEW st \in FrameRecord, NEW n \in Int
    PROVE  /\ Advanced(f, st, n) \in FrameRecord
           /\ Advanced(f, st, n).clock = st.clock + DurationUnits(f, n)
<1>1. DurationUnits(f, n) \in Nat
  BY DurationNatural
<1> QED BY <1>1 DEF Advanced, FrameRecord

(* The first use of a frame moves no clock. *)
LEMMA FirstUseRecord ==
    ASSUME NEW f, NEW st \in FrameRecord
    PROVE  FirstUse(f, st) \in FrameRecord /\ FirstUse(f, st).clock = st.clock
  BY DEF FirstUse, FrameRecord

(* What an output does to the state and the clock of its frame. *)
LEMMA OutputStateRecord ==
    ASSUME Typed, DOMAIN Channels \subseteq DOMAIN Device, NEW kind,
           NEW el \in ElementSet, el.kind \in {"play", "capture"}
    PROVE  /\ OutputState(el, kind) \in FrameRecord
           /\ OutputState(el, kind).clock
                  = states[el.frame].clock + DurationUnits(el.frame, el.duration)
<1> DEFINE f  == el.frame
           s1 == [Counted(states[f]) EXCEPT !.nOutputs = @ + 1]
           s2 == FirstUse(f, s1)
           s3 == Noted(f, s2, Element, kind)
<1>1. f \in Frames /\ el.duration \in Int
  BY ElementAssumption
<1>2. states[f] \in FrameRecord
  BY <1>1 DEF Typed
<1>3. s1 \in FrameRecord /\ s1.clock = states[f].clock
  <2>1. Counted(states[f]) \in FrameRecord /\ Counted(states[f]).clock = states[f].clock
    BY <1>2, CountedRecord
  <2> QED BY <2>1 DEF FrameRecord
<1> HIDE DEF s1
<1>4. s2 \in FrameRecord /\ s2.clock = states[f].clock
  BY <1>3, FirstUseRecord
<1> HIDE DEF s2
<1>5. s3 \in FrameRecord /\ s3.clock = states[f].clock
  BY <1>4, ElementId, NotedRecord
<1> HIDE DEF s3
<1>6. /\ Advanced(f, s3, el.duration) \in FrameRecord
      /\ Advanced(f, s3, el.duration).clock = states[f].clock + DurationUnits(f, el.duration)
  BY <1>1, <1>5, AdvancedRecord
<1> QED BY <1>6 DEF OutputState, s1, s2, s3

-----------------------------------------------------------------------------
(* Every step keeps IInv: one lemma per action, and giving up first. *)
LEMMA ToolErrorStep ==
    ASSUME IInv, ToolError PROVE IInv'
  BY DEF IInv, Typed, ChannelsBound, ToolError, progVars, envVars, budgetVars

(* The conjuncts of Typed an element cannot disturb, and what is left. *)
LEMMA ElementStep ==
    ASSUME IInv, phase = "elements", NEW el \in ElementSet, Len(prog) < MaxElements,
           prog' = Append(prog, el),
           UNCHANGED << phase, budgetVars >>,
           states' \in [Frames -> FrameRecord],
           coverage' \in [Classes -> Statuses],
           programEnd' \in Nat,
           envSeen' \subseteq Owners \X DOMAIN Waveforms,
           envUsed' \in [Owners -> Nat],
           wfPlayed' \subseteq DOMAIN Waveforms,
           tonesChecked' \subseteq DOMAIN Channels,
           outputs' \in Nat
    PROVE  IInv'
<1>1. prog' \in Seq(ElementSet) /\ Len(prog') <= MaxElements
  BY ProgramGrows DEF IInv
<1> QED BY <1>1 DEF IInv, Typed, ChannelsBound, budgetVars

(* Binding makes every program channel a descriptor channel. *)
LEMMA BindStep ==
    ASSUME IInv, Bind PROVE IInv'
<1>1. CASE ~ValidDescriptor \/ Unbound # {} \/ ~FactorsFit
  BY <1>1, ToolErrorStep DEF Bind
<1>2. CASE ~(~ValidDescriptor \/ Unbound # {} \/ ~FactorsFit)
  <2>1. coverage' \in [Classes -> Statuses]
    BY <1>2, CoverType DEF Bind, IInv, Typed, Statuses
  <2>2. ChannelsBound'
    BY <1>2 DEF Bind, Unbound, ChannelsBound
  <2> QED BY <1>2, <2>1, <2>2 DEF Bind, IInv, Typed, progVars, envVars, budgetVars
<1> QED BY <1>1, <1>2

(* A barrier, refused or not, keeps IInv. *)
LEMMA BarrierStep ==
    ASSUME IInv, NEW el \in ElementSet, Barrier(el) PROVE IInv'
<1>1. CASE BarrierRefused(el)
  BY <1>1, ToolErrorStep DEF Barrier
<1>2. CASE ~BarrierRefused(el)
  <2>1. PICK t \in MemberTimes(el) :
           /\ prog' = Append(prog, el)
           /\ states' = [f \in Frames |-> IF f \in MemberSet(el) THEN Joined(f, el, t)
                                          ELSE states[f]]
           /\ coverage' = Cover(coverage,
                                IF OffLattice(el, t) = {} THEN {} ELSE {"schedule_grid"},
                                "checked")
           /\ UNCHANGED << phase, programEnd, envVars, budgetVars, report >>
    BY <1>2 DEF Barrier
  <2>2. /\ Typed /\ DOMAIN Channels \subseteq DOMAIN Device /\ el.kind = "barrier"
        /\ phase = "elements" /\ Len(prog) < MaxElements
    BY DEF Barrier, Reads, IInv, ChannelsBound
  <2>3. t \in Nat
    BY <2>2, MemberTimesNatural
  <2>4. ASSUME NEW f \in Frames PROVE Joined(f, el, t) \in FrameRecord
    <3> DEFINE named == Cardinality({i \in DOMAIN Members(el) : Members(el)[i] = f})
    <3>1. Aligned(f, t) \in Nat
      BY <2>2, <2>3, AlignedNearest
    <3>2. named \in Nat
      <4>1. IsFiniteSet(DOMAIN Members(el))
        <5>1. Members(el) \in Seq(Frames)
          <6>1. el.frames \in Seq(Frames)
            BY <2>2, ElementAssumption
          <6>2. [g \in Frames |-> g] \in Seq(Frames)
            <7>1. Frames = 1 .. Len(FrameDefs) /\ Len(FrameDefs) \in Nat
              BY FrameAssumption, LenProperties DEF Frames
            <7> QED BY <7>1, SeqDef
          <6> QED BY <6>1, <6>2 DEF Members
        <5>2. DOMAIN Members(el) = 1 .. Len(Members(el)) /\ Len(Members(el)) \in Nat
          BY <5>1, LenProperties
        <5> QED BY <5>2, FS_Interval
      <4>2. IsFiniteSet({i \in DOMAIN Members(el) : Members(el)[i] = f})
        BY <4>1, FS_Subset
      <4> QED BY <4>2, FS_CardinalityType
    <3>3. states[f] \in FrameRecord
      BY <2>2 DEF Typed
    <3>4. Joined(f, el, t)
              = [states[f] EXCEPT !.clock = Aligned(f, t), !.nElements = @ + named]
      BY DEF Joined
    <3> HIDE DEF named
    <3> QED BY <3>1, <3>2, <3>3, <3>4, JoinedRecord
  <2>5. states' \in [Frames -> FrameRecord]
    BY <2>1, <2>2, <2>4 DEF Typed
  <2>6. coverage' \in [Classes -> Statuses]
    BY <2>1, <2>2, CoverType DEF Typed, Statuses
  <2> QED BY <2>1, <2>2, <2>5, <2>6, ElementStep DEF Typed, envVars
<1> QED BY <1>1, <1>2

(* An element of one frame replaces the state of that frame. *)
LEMMA FrameReplaced ==
    ASSUME Typed, NEW f, NEW st \in FrameRecord, states' = StateAfter(f, st)
    PROVE  states' \in [Frames -> FrameRecord]
  BY DEF Typed, StateAfter

(* A natural number of units is a natural number of ticks. *)
LEMMA TimeIsNatural ==
    ASSUME Typed, DOMAIN Channels \subseteq DOMAIN Device, NEW f \in Frames, NEW n \in Nat
    PROVE  ToTicks(f, n) \in Nat
<1>1. FrameUnit(f) \in Nat
  BY UnitPositive
<1> QED BY <1>1 DEF ToTicks

(* What holds when an element is read, whatever its kind. *)
LEMMA Reading ==
    ASSUME IInv, NEW el \in ElementSet, NEW kind, Reads(el, kind), kind # "barrier"
    PROVE  /\ Typed /\ phase = "elements" /\ Len(prog) < MaxElements
           /\ DOMAIN Channels \subseteq DOMAIN Device
           /\ el.frame \in Frames /\ el.kind = kind
           /\ states[el.frame] \in FrameRecord
           /\ Counted(states[el.frame]) \in FrameRecord
           /\ Counted(states[el.frame]).clock = states[el.frame].clock
           /\ states[el.frame].clock \in Nat
           /\ Element \in Nat
           /\ kind \in {"play", "capture", "delay"} => el.duration \in Int
<1>1. Typed /\ el.frame \in Frames /\ el.kind = kind
  BY ElementAssumption DEF IInv, Reads
<1>2. states[el.frame] \in FrameRecord /\ states[el.frame].clock \in Nat
  BY <1>1 DEF Typed, FrameRecord
<1> QED BY <1>1, <1>2, CountedRecord, ElementId, ElementAssumption
        DEF IInv, ChannelsBound, Reads

(* What an element that loads no waveform leaves as it was. *)
LEMMA OthersKept ==
    ASSUME Typed, UNCHANGED envVars
    PROVE  /\ envSeen' \subseteq Owners \X DOMAIN Waveforms
           /\ envUsed' \in [Owners -> Nat]
           /\ wfPlayed' \subseteq DOMAIN Waveforms
           /\ tonesChecked' \subseteq DOMAIN Channels
           /\ outputs' \in Nat
  BY DEF Typed, envVars

(* A delay of any duration, negative ones too, keeps IInv. *)
LEMMA DelayStep ==
    ASSUME IInv, NEW el \in ElementSet, Delay(el) PROVE IInv'
<1> DEFINE f  == el.frame
           st == Counted(states[f])
<1>1. CASE AdvanceRefused(f, st, el.duration, FALSE)
  BY <1>1, ToolErrorStep DEF Delay
<1>2. CASE ~AdvanceRefused(f, st, el.duration, FALSE)
  <2>1. Reads(el, "delay")
    BY DEF Delay
  <2>2. states' \in [Frames -> FrameRecord]
    <3>1. Advanced(f, st, el.duration) \in FrameRecord
      BY <2>1, Reading, AdvancedRecord
    <3> QED BY <1>2, <2>1, <3>1, Reading, FrameReplaced DEF Delay
  <2>3. coverage' \in [Classes -> Statuses]
    <3>1. PICK classes : coverage' = Cover(coverage, classes, "checked")
      BY <1>2 DEF Delay
    <3> QED BY <3>1, CoveredType DEF IInv, Statuses
  <2>4. /\ prog' = Append(prog, el)
        /\ UNCHANGED << phase, budgetVars >> /\ UNCHANGED envVars
    BY <1>2 DEF Delay
  <2>5. Typed /\ phase = "elements" /\ Len(prog) < MaxElements /\ programEnd' \in Nat
    BY <1>2, <2>1, Reading DEF Delay, Typed
  <2> QED BY <2>2, <2>3, <2>4, <2>5, OthersKept, ElementStep
<1> QED BY <1>1, <1>2

(* A phase shift keeps IInv. *)
LEMMA ShiftPhaseStep ==
    ASSUME IInv, NEW el \in ElementSet, ShiftPhase(el) PROVE IInv'
<1> DEFINE f     == el.frame
           noted == Noted(f, Counted(states[f]), Element, "phase")
<1>1. CASE ShiftRefused(el)
  BY <1>1, ToolErrorStep DEF ShiftPhase
<1>2. CASE ~ShiftRefused(el)
  <2>1. Reads(el, "shift_phase")
    BY DEF ShiftPhase
  <2>2. states' \in [Frames -> FrameRecord]
    <3>1. noted \in FrameRecord
      BY <2>1, Reading, NotedRecord
    <3>2. el.phase \in Int
      BY <2>1, ElementAssumption DEF Reads
    <3>3. [noted EXCEPT !.phase = @ + el.phase] \in FrameRecord
      <4> HIDE DEF noted
      <4> QED BY <3>1, <3>2 DEF FrameRecord
    <3> QED BY <1>2, <2>1, <3>3, Reading, FrameReplaced DEF ShiftPhase
  <2>3. coverage' \in [Classes -> Statuses]
    <3>1. PICK classes : coverage' = Cover(coverage, classes, "checked")
      BY <1>2 DEF ShiftPhase
    <3> QED BY <3>1, CoveredType DEF IInv, Statuses
  <2>4. programEnd' \in Nat
    <3>1. ToTicks(f, Counted(states[f]).clock) \in Nat
      BY <2>1, Reading, TimeIsNatural
    <3> QED BY <1>2, <3>1 DEF ShiftPhase, Later, IInv, Typed
  <2>5. /\ prog' = Append(prog, el)
        /\ UNCHANGED << phase, budgetVars >> /\ UNCHANGED envVars
    BY <1>2 DEF ShiftPhase
  <2>6. Typed /\ phase = "elements" /\ Len(prog) < MaxElements
    BY <1>2, <2>1, Reading DEF Typed
  <2> QED BY <2>2, <2>3, <2>4, <2>5, <2>6, OthersKept, ElementStep
<1> QED BY <1>1, <1>2

(* A frequency update keeps IInv. *)
LEMMA SetFrequencyStep ==
    ASSUME IInv, NEW el \in ElementSet, SetFrequency(el) PROVE IInv'
<1> DEFINE f     == el.frame
           noted == Noted(f, Counted(states[f]), Element, "frequency")
<1>1. CASE SetFrequencyRefused(el)
  BY <1>1, ToolErrorStep DEF SetFrequency
<1>2. CASE ~SetFrequencyRefused(el)
  <2>1. Reads(el, "set_frequency")
    BY DEF SetFrequency
  <2>2. states' \in [Frames -> FrameRecord]
    <3>1. noted \in FrameRecord
      BY <2>1, Reading, NotedRecord
    <3>2. el.frequency \in Int
      BY <2>1, ElementAssumption DEF Reads
    <3>3. Retuned(f, noted, el.frequency) \in FrameRecord
      <4> HIDE DEF noted
      <4> QED BY <3>1, <3>2 DEF FrameRecord, Retuned
    <3> QED BY <1>2, <2>1, <3>3, Reading, FrameReplaced DEF SetFrequency
  <2>3. coverage' \in [Classes -> Statuses]
    <3>1. PICK classes : coverage' = Cover(coverage, classes, "checked")
      BY <1>2 DEF SetFrequency
    <3> QED BY <3>1, CoveredType DEF IInv, Statuses
  <2>4. programEnd' \in Nat
    <3>1. ToTicks(f, Counted(states[f]).clock) \in Nat
      BY <2>1, Reading, TimeIsNatural
    <3> QED BY <1>2, <3>1 DEF SetFrequency, Later, IInv, Typed
  <2>5. /\ prog' = Append(prog, el)
        /\ UNCHANGED << phase, budgetVars >> /\ UNCHANGED envVars
    BY <1>2 DEF SetFrequency
  <2>6. Typed /\ phase = "elements" /\ Len(prog) < MaxElements
    BY <1>2, <2>1, Reading DEF Typed
  <2> QED BY <2>2, <2>3, <2>4, <2>5, <2>6, OthersKept, ElementStep
<1> QED BY <1>1, <1>2

-----------------------------------------------------------------------------
(* Outputs. *)
LEMMA OutputEndNatural ==
    ASSUME IInv, NEW el \in ElementSet, NEW kind \in {"play", "capture"}, Reads(el, kind)
    PROVE  OutputEnd(el) \in Nat
<1> DEFINE f     == el.frame
           start == states[f].clock
           units == DurationUnits(f, el.duration)
<1>1. start \in Nat /\ units \in Nat /\ programEnd \in Nat
  BY Reading, DurationNatural DEF Typed
<1>2. start + units \in Nat
  BY <1>1
<1>3. ToTicks(f, start) \in Nat /\ ToTicks(f, start + units) \in Nat
  BY <1>1, <1>2, Reading, TimeIsNatural
<1> QED BY <1>1, <1>3 DEF OutputEnd, Later

(* An output marks classes checked and others unchecked. *)
LEMMA CoveredTwice ==
    ASSUME Typed, NEW some, NEW others
    PROVE  Cover(Cover(coverage, some, "checked"), others, "unchecked")
               \in [Classes -> Statuses]
<1>1. Cover(coverage, some, "checked") \in [Classes -> Statuses]
  BY CoveredType DEF Statuses
<1> QED BY <1>1, CoverType DEF Statuses

(* A capture keeps IInv. *)
LEMMA CaptureStep ==
    ASSUME IInv, NEW el \in ElementSet, Capture(el) PROVE IInv'
<1> DEFINE f     == el.frame
           units == DurationUnits(f, el.duration)
           after == OutputState(el, "capture")
<1>1. CASE OutputRefused(el, "capture")
  BY <1>1, ToolErrorStep DEF Capture
<1>2. CASE ~OutputRefused(el, "capture")
  <2>1. Reads(el, "capture")
    BY DEF Capture
  <2>2. states' \in [Frames -> FrameRecord]
    <3>1. after \in FrameRecord /\ units \in Nat
      BY <2>1, Reading, OutputStateRecord, DurationNatural
    <3>2. [after EXCEPT !.captureLength = units] \in FrameRecord
      <4> HIDE DEF after, units
      <4> QED BY <3>1 DEF FrameRecord
    <3>3. PICK st \in FrameRecord : states' = StateAfter(f, st)
      BY <1>2, <3>1, <3>2 DEF Capture
    <3> QED BY <2>1, <3>3, Reading, FrameReplaced
  <2>3. coverage' \in [Classes -> Statuses]
    <3>1. PICK some, others :
             coverage' = Cover(Cover(coverage, some, "checked"), others, "unchecked")
      BY <1>2 DEF Capture
    <3> QED BY <3>1, CoveredTwice DEF IInv
  <2>4. programEnd' \in Nat
    BY <1>2, <2>1, OutputEndNatural DEF Capture
  <2>5. /\ prog' = Append(prog, el) /\ outputs' = outputs + 1
        /\ UNCHANGED << phase, budgetVars >>
        /\ UNCHANGED << envSeen, envUsed, wfPlayed, tonesChecked >>
    BY <1>2 DEF Capture
  <2>6. Typed /\ phase = "elements" /\ Len(prog) < MaxElements
    BY <2>1, Reading
  <2>7. /\ envSeen' \subseteq Owners \X DOMAIN Waveforms
        /\ envUsed' \in [Owners -> Nat]
        /\ wfPlayed' \subseteq DOMAIN Waveforms
        /\ tonesChecked' \subseteq DOMAIN Channels
        /\ outputs' \in Nat
    BY <2>5, <2>6 DEF Typed
  <2> QED BY <2>2, <2>3, <2>4, <2>5, <2>6, <2>7, ElementStep
<1> QED BY <1>1, <1>2

(* Loading a waveform keeps the memory table of its type. *)
LEMMA MemoryType ==
    ASSUME IInv, NEW el \in ElementSet, Reads(el, "play"), ~HasTones(ChannelOf(el.frame))
    PROVE  /\ el.waveform \in DOMAIN Waveforms
           /\ Owner(el.frame) \in Owners
           /\ IsSampled(el.waveform) => Samples(el.waveform) \in Nat
<1>1. el.waveform \in DOMAIN Waveforms /\ el.frame \in Frames
  BY ElementAssumption DEF Reads
<1>2. Owner(el.frame) \in Owners
  BY <1>1, FrameChannel DEF Owner, Owners
<1>3. IsSampled(el.waveform) => Samples(el.waveform) \in Nat
  BY <1>1, WaveformAssumption, LenProperties DEF IsSampled, Samples
<1> QED BY <1>1, <1>2, <1>3

(* A play of a waveform keeps IInv. *)
LEMMA PlayWaveformStep ==
    ASSUME IInv, NEW el \in ElementSet, Reads(el, "play"), PlayWaveform(el) PROVE IInv'
<1> DEFINE f     == el.frame
           w     == el.waveform
           units == DurationUnits(f, el.duration)
<1>1. CASE OutputRefused(el, "output") \/ WaveformRefused(f, w, units)
  BY <1>1, ToolErrorStep DEF PlayWaveform
<1>2. CASE ~(OutputRefused(el, "output") \/ WaveformRefused(f, w, units))
  <2>1. states' \in [Frames -> FrameRecord]
    <3>1. OutputState(el, "output") \in FrameRecord
      BY Reading, OutputStateRecord
    <3>2. states' = StateAfter(f, OutputState(el, "output"))
      BY <1>2 DEF PlayWaveform
    <3> QED BY <3>1, <3>2, Reading, FrameReplaced
  <2>2. coverage' \in [Classes -> Statuses]
    <3>1. PICK some, others :
             coverage' = Cover(Cover(coverage, some, "checked"), others, "unchecked")
      BY <1>2 DEF PlayWaveform
    <3> QED BY <3>1, CoveredTwice DEF IInv
  <2>3. programEnd' \in Nat
    BY <1>2, OutputEndNatural DEF PlayWaveform
  <2>4. /\ prog' = Append(prog, el) /\ outputs' = outputs + 1
        /\ UNCHANGED << phase, budgetVars >> /\ tonesChecked' = tonesChecked
        /\ wfPlayed' = wfPlayed \cup {w}
        /\ envSeen' = IF Loads(f, w) THEN envSeen \cup {<< Owner(f), w >>} ELSE envSeen
        /\ envUsed' = IF Loads(f, w) THEN [envUsed EXCEPT ![Owner(f)] = @ + Samples(w)]
                      ELSE envUsed
    BY <1>2 DEF PlayWaveform
  <2>5. Typed /\ phase = "elements" /\ Len(prog) < MaxElements
    BY Reading
  <2>6. w \in DOMAIN Waveforms /\ Owner(f) \in Owners /\ (Loads(f, w) => Samples(w) \in Nat)
    BY MemoryType DEF PlayWaveform, Loads
  <2>7. envUsed' \in [Owners -> Nat]
    BY <2>4, <2>5, <2>6 DEF Typed
  <2>8. /\ envSeen' \subseteq Owners \X DOMAIN Waveforms
        /\ wfPlayed' \subseteq DOMAIN Waveforms
        /\ tonesChecked' \subseteq DOMAIN Channels
        /\ outputs' \in Nat
    BY <2>4, <2>5, <2>6 DEF Typed
  <2> QED BY <2>1, <2>2, <2>3, <2>4, <2>5, <2>7, <2>8, ElementStep
<1> QED BY <1>1, <1>2

(* A play of a tone mask keeps IInv. *)
LEMMA PlayTonesStep ==
    ASSUME IInv, NEW el \in ElementSet, Reads(el, "play"), PlayTones(el) PROVE IInv'
<1> DEFINE f == el.frame
           c == ChannelOf(f)
<1>1. CASE OutputRefused(el, "output") \/ (ChecksTones(c) /\ ToneRefused(c))
  BY <1>1, ToolErrorStep DEF PlayTones
<1>2. CASE ~(OutputRefused(el, "output") \/ (ChecksTones(c) /\ ToneRefused(c)))
  <2>1. states' \in [Frames -> FrameRecord]
    <3>1. OutputState(el, "output") \in FrameRecord
      BY Reading, OutputStateRecord
    <3>2. states' = StateAfter(f, OutputState(el, "output"))
      BY <1>2 DEF PlayTones
    <3> QED BY <3>1, <3>2, Reading, FrameReplaced
  <2>2. coverage' \in [Classes -> Statuses]
    <3>1. PICK some, others :
             coverage' = Cover(Cover(coverage, some, "checked"), others, "unchecked")
      BY <1>2 DEF PlayTones
    <3> QED BY <3>1, CoveredTwice DEF IInv
  <2>3. programEnd' \in Nat
    BY <1>2, OutputEndNatural DEF PlayTones
  <2>4. /\ prog' = Append(prog, el) /\ outputs' = outputs + 1
        /\ UNCHANGED << phase, budgetVars >> /\ tonesChecked' = tonesChecked \cup {c}
        /\ UNCHANGED << envSeen, envUsed, wfPlayed >>
    BY <1>2 DEF PlayTones
  <2>5. Typed /\ phase = "elements" /\ Len(prog) < MaxElements /\ c \in DOMAIN Channels
    BY Reading, FrameChannel
  <2>6. /\ envSeen' \subseteq Owners \X DOMAIN Waveforms
        /\ envUsed' \in [Owners -> Nat]
        /\ wfPlayed' \subseteq DOMAIN Waveforms
        /\ tonesChecked' \subseteq DOMAIN Channels
        /\ outputs' \in Nat
    BY <2>4, <2>5 DEF Typed
  <2> QED BY <2>1, <2>2, <2>3, <2>4, <2>5, <2>6, ElementStep
<1> QED BY <1>1, <1>2

(* So every element keeps IInv. *)
LEMMA ElementKeepsIInv ==
    ASSUME IInv, NEW el \in ElementSet, ReadElement(el) PROVE IInv'
<1>1. CASE Barrier(el)
  BY <1>1, BarrierStep
<1>2. CASE ShiftPhase(el)
  BY <1>2, ShiftPhaseStep
<1>3. CASE SetFrequency(el)
  BY <1>3, SetFrequencyStep
<1>4. CASE Delay(el)
  BY <1>4, DelayStep
<1>5. CASE Capture(el)
  BY <1>5, CaptureStep
<1>6. CASE Play(el)
  BY <1>6, PlayWaveformStep, PlayTonesStep DEF Play
<1> QED BY <1>1, <1>2, <1>3, <1>4, <1>5, <1>6 DEF ReadElement

-----------------------------------------------------------------------------
(* After the elements, starting with the end of the program. *)
LEMMA EndOfProgramStep ==
    ASSUME IInv, EndOfProgram PROVE IInv'
  BY DEF EndOfProgram, IInv, Typed, ChannelsBound, progVars, envVars, budgetVars

(* Closing the open captures keeps IInv. *)
LEMMA CloseSlotsStep ==
    ASSUME IInv, CloseSlots PROVE IInv'
<1>1. CASE SlotsRefused
  BY <1>1, ToolErrorStep DEF CloseSlots
<1>2. CASE ~SlotsRefused
  <2>1. states' \in [Frames -> FrameRecord]
    <3>1. ASSUME NEW st \in FrameRecord
          PROVE  [st EXCEPT !.openCapture = Absent] \in FrameRecord
      BY DEF FrameRecord
    <3>2. \A f \in Frames : states[f] \in FrameRecord
      BY DEF IInv, Typed
    <3> QED BY <1>2, <3>1, <3>2 DEF CloseSlots
  <2>2. coverage' \in [Classes -> Statuses]
    <3>1. PICK classes : coverage' = Cover(coverage, classes, "checked")
      BY <1>2 DEF CloseSlots
    <3> QED BY <3>1, CoveredType DEF IInv, Statuses
  <2>3. phase' = "spacing" /\ UNCHANGED << prog, programEnd, envVars, budgetVars >>
    BY <1>2 DEF CloseSlots
  <2> QED BY <2>1, <2>2, <2>3 DEF IInv, Typed, ChannelsBound, envVars, budgetVars
<1> QED BY <1>1, <1>2

(* The end margins keep IInv. *)
LEMMA CloseSpacingStep ==
    ASSUME IInv, CloseSpacing PROVE IInv'
<1> DEFINE refused ==
        \E f \in Frames : HasMargin(f) /\ (~IntFits(Due(f)) \/ ~RatFits(ToTicks(f, Due(f))))
<1>1. CASE refused
  BY <1>1, ToolErrorStep DEF CloseSpacing
<1>2. CASE ~refused
  <2>1. phase' = "budgets" /\ UNCHANGED << progVars, coverage, envVars, budgetVars >>
    BY <1>2 DEF CloseSpacing
  <2> QED BY <2>1 DEF IInv, Typed, ChannelsBound, progVars, envVars, budgetVars
<1> QED BY <1>1, <1>2

(* What the two ways through a budget have in common. *)
LEMMA BudgetStep ==
    ASSUME IInv, phase = "budgets", nextBudget <= Len(Budgets), nextBudget' = nextBudget + 1,
           coverage' \in [Classes -> Statuses], UNCHANGED << phase, progVars, envVars >>
    PROVE  IInv'
<1>1. nextBudget' \in 1 .. Len(Budgets) + 1
  BY BudgetAssumption DEF IInv, Typed
<1> QED BY <1>1 DEF IInv, Typed, ChannelsBound, progVars, envVars

(* A budget without a channel of the program keeps IInv. *)
LEMMA SkipBudgetStep ==
    ASSUME IInv, SkipBudget PROVE IInv'
<1>1. coverage' \in [Classes -> Statuses]
  BY CoveredType DEF SkipBudget, IInv, Statuses
<1> QED BY <1>1, BudgetStep DEF SkipBudget

(* A counted budget keeps IInv. *)
LEMMA CountBudgetStep ==
    ASSUME IInv, CountBudget PROVE IInv'
<1> DEFINE b == Budgets[nextBudget]
<1>1. CASE BudgetRefused(b)
  BY <1>1, ToolErrorStep DEF CountBudget
<1>2. CASE ~BudgetRefused(b)
  <2>1. PICK verdict : coverage' = Cover(coverage, {b.id}, BudgetStatus(b.id, verdict))
    BY <1>2 DEF CountBudget
  <2>2. coverage' \in [Classes -> Statuses]
    BY <2>1, CoveredType DEF BudgetStatus, IInv, Statuses
  <2>3. /\ phase = "budgets" /\ nextBudget <= Len(Budgets) /\ nextBudget' = nextBudget + 1
        /\ UNCHANGED << phase, progVars, envVars >>
    BY <1>2 DEF CountBudget
  <2> QED BY <2>2, <2>3, BudgetStep
<1> QED BY <1>1, <1>2

(* Sorting the sink keeps IInv. *)
LEMMA FinishStep ==
    ASSUME IInv, Finish PROVE IInv'
<1>1. phase' = "done" /\ UNCHANGED << progVars, coverage, envVars, budgetVars >>
  BY DEF Finish
<1> QED BY <1>1 DEF IInv, Typed, ChannelsBound, progVars, envVars, budgetVars

-----------------------------------------------------------------------------
(* check() starts in IInv: nothing is bound and no clock has moved. *)
LEMMA InitIInv == Init => IInv
<1> SUFFICES ASSUME Init PROVE IInv
  OBVIOUS
<1>1. \A f \in Frames : InitialState(f) \in FrameRecord
  BY FrameChannel DEF InitialState, FrameRecord
<1>2. prog \in Seq(ElementSet) /\ Len(prog) <= MaxElements
  BY ElementAssumption, EmptySeq DEF Init
<1>3. coverage \in [Classes -> Statuses]
  BY DEF Init, Statuses
<1>4. nextBudget \in 1 .. Len(Budgets) + 1
  BY BudgetAssumption DEF Init
<1> QED BY <1>1, <1>2, <1>3, <1>4 DEF Init, IInv, Typed, ChannelsBound

(* No step of check() leaves IInv. *)
LEMMA StepIInv == IInv /\ [Next]_vars => IInv'
<1> SUFFICES ASSUME IInv, [Next]_vars PROVE IInv'
  OBVIOUS
<1>1. CASE Bind
  BY <1>1, BindStep
<1>2. CASE \E el \in ElementSet : ReadElement(el)
  BY <1>2, ElementKeepsIInv
<1>3. CASE EndOfProgram
  BY <1>3, EndOfProgramStep
<1>4. CASE CloseSlots
  BY <1>4, CloseSlotsStep
<1>5. CASE CloseSpacing
  BY <1>5, CloseSpacingStep
<1>6. CASE SkipBudget
  BY <1>6, SkipBudgetStep
<1>7. CASE CountBudget
  BY <1>7, CountBudgetStep
<1>8. CASE Finish
  BY <1>8, FinishStep
<1>9. CASE UNCHANGED vars
  BY <1>9 DEF vars, progVars, envVars, budgetVars, IInv, Typed, ChannelsBound
<1>10. CASE Idle
  BY <1>9, <1>10 DEF Idle
<1> QED BY <1>1, <1>2, <1>3, <1>4, <1>5, <1>6, <1>7, <1>8, <1>9, <1>10 DEF Next

-----------------------------------------------------------------------------
(* check() implements Timeline: every step of the checker is, of the       *)
(* clocks, an element of one frame, a barrier or nothing.                  *)

(* Reading an element adds its barrier, if any, to the alignments. *)
LEMMA OneMoreAlignment ==
    ASSUME Typed, NEW el, prog' = Append(prog, el)
    PROVE  Alignments' = Append(Alignments, AlignedBy(el))
<1>1. Len(prog) \in Nat /\ DOMAIN prog = 1 .. Len(prog)
  BY LenProperties DEF Typed
<1>2. /\ DOMAIN prog' = 1 .. Len(prog) + 1
      /\ \A i \in 1 .. Len(prog) + 1 :
            prog'[i] = IF i = Len(prog) + 1 THEN el ELSE prog[i]
  BY <1>1 DEF Typed
<1>3. Alignments' = [i \in DOMAIN prog' |-> AlignedBy(prog'[i])]
  BY DEF Alignments, AlignedBy, MemberSet, Members
<1>4. Alignments' = [i \in 1 .. Len(prog) + 1 |->
                        IF i = Len(prog) + 1 THEN AlignedBy(el) ELSE AlignedBy(prog[i])]
  BY <1>1, <1>2, <1>3
<1>5. Len(Alignments) = Len(prog)
  BY <1>1 DEF Alignments
<1> QED BY <1>1, <1>4, <1>5 DEF Alignments

(* The abstract clocks are the counts of the frame states. *)
LEMMA ClocksType ==
    ASSUME Typed PROVE Clocks \in [Frames -> Nat] /\ \A f \in Frames : Clocks[f] = states[f].clock
  BY DEF Typed, FrameRecord, Clocks

(* An element of one frame. *)
LEMMA FrameAdvances ==
    ASSUME Typed, NEW el \in ElementSet, el.kind # "barrier", prog' = Append(prog, el),
           NEW st \in FrameRecord, states' = StateAfter(el.frame, st),
           st.clock >= states[el.frame].clock
    PROVE  Shared!Next
<1> DEFINE f == el.frame
<1>1. f \in Frames
  BY ElementFrame
<1>2. states' \in [Frames -> FrameRecord] /\ states'[f] = st
      /\ \A g \in Frames \ {f} : states'[g] = states[g]
  BY <1>1 DEF StateAfter, Typed
<1>3. Clocks' \in [Frames -> Nat]
  BY <1>2 DEF Clocks, FrameRecord
<1>4. Clocks'[f] >= Clocks[f] /\ \A g \in Frames \ {f} : Clocks'[g] = Clocks[g]
  BY <1>1, <1>2 DEF Clocks
<1>5. Alignments' = Append(Alignments, {})
  BY OneMoreAlignment DEF AlignedBy
<1> QED BY <1>1, <1>3, <1>4, <1>5 DEF Shared!Next, Shared!Advance

(* A barrier: t, the latest time of a member, is the time of one of them,  *)
(* unless it has none.                                                     *)
LEMMA BarrierAligns ==
    ASSUME IInv, NEW el \in ElementSet, Barrier(el), ~BarrierRefused(el)
    PROVE  Shared!Next
<1> DEFINE S == MemberSet(el)
<1>1. PICK t \in MemberTimes(el) :
         /\ IsLatest(t, el)
         /\ prog' = Append(prog, el)
         /\ states' = [f \in Frames |-> IF f \in MemberSet(el) THEN Joined(f, el, t)
                                        ELSE states[f]]
  BY DEF Barrier
<1>2. /\ Typed /\ DOMAIN Channels \subseteq DOMAIN Device /\ el.kind = "barrier"
  BY DEF Barrier, Reads, IInv, ChannelsBound
<1>3. t \in Nat /\ S \subseteq Frames
  BY <1>2, MemberTimesNatural, MembersAreFrames
<1>4. \A f \in Frames : TimeUnits[f] = FrameUnit(f)
  BY <1>2, FrameChannel DEF TimeUnits, UnitOf
<1>5. \A f \in Frames : f \in S => Clocks'[f] = Aligned(f, t)
  <2>1. ASSUME NEW f \in Frames PROVE Joined(f, el, t).clock = Aligned(f, t)
    <3>1. states[f] \in FrameRecord
      BY <1>2 DEF Typed
    <3> QED BY <3>1 DEF Joined, FrameRecord
  <2> QED BY <1>1, <2>1 DEF Clocks
<1>6. \A f \in Frames \ S : Clocks'[f] = Clocks[f]
  BY <1>1 DEF Clocks
<1>7. Clocks' \in [Frames -> Nat]
  <2>1. ASSUME NEW f \in Frames PROVE Clocks'[f] \in Nat
    <3>1. CASE f \in S
      BY <3>1, <1>2, <1>3, <1>5, AlignedNearest
    <3>2. CASE f \notin S
      BY <3>2, <1>2, <1>6, ClocksType
    <3> QED BY <3>1, <3>2
  <2> QED BY <2>1 DEF Clocks
<1>8. ASSUME S # {}
      PROVE  \E l \in S : \A f \in S :
                 /\ Shared!Ticks(f, Clocks[f]) <= Shared!Ticks(l, Clocks[l])
                 /\ Shared!Nearest(f, Clocks'[f], Shared!Ticks(l, Clocks[l]))
  <2>1. \A f \in S : Shared!Ticks(f, Clocks[f]) = ToTicks(f, states[f].clock)
    BY <1>3, <1>4 DEF Shared!Ticks, ToTicks, Clocks
  <2>2. \A f \in S : ToTicks(f, states[f].clock) \in Nat /\ ToTicks(f, states[f].clock) <= t
    BY <1>1, <1>2, MemberTimesNatural DEF IsLatest, MemberTimes
  <2>3. PICK l \in S : ToTicks(l, states[l].clock) = t
    <3>1. CASE t = 0
      BY <3>1, <1>8, <2>2
    <3>2. CASE t # 0
      BY <3>2 DEF MemberTimes
    <3> QED BY <3>1, <3>2
  <2>4. ASSUME NEW f \in S PROVE Shared!Nearest(f, Clocks'[f], t)
    <3>1. 2 * Magnitude(Aligned(f, t) * FrameUnit(f) - t) <= FrameUnit(f)
      BY <1>2, <1>3, AlignedNearest
    <3> QED BY <3>1, <1>3, <1>4, <1>5 DEF Shared!Nearest, Shared!Ticks, Shared!Magnitude, Magnitude
  <2> QED BY <2>1, <2>2, <2>3, <2>4
<1>9. Alignments' = Append(Alignments, S)
  BY <1>1, <1>2, OneMoreAlignment DEF AlignedBy
<1>10. Shared!Align(S)
  BY <1>6, <1>7, <1>8, <1>9 DEF Shared!Align
<1> QED BY <1>3, <1>10 DEF Shared!Next

(* Every step. *)
LEMMA TimeStands ==
    ASSUME UNCHANGED << prog, states >> PROVE UNCHANGED << Clocks, Alignments >>
  BY DEF Clocks, Alignments, AlignedBy, MemberSet, Members

(* Giving up moves no clock. *)
LEMMA ToolErrorStands ==
    ASSUME ToolError PROVE UNCHANGED << Clocks, Alignments >>
  BY TimeStands DEF ToolError, progVars

(* An element is an Advance, an Align or a stutter of Timeline. *)
LEMMA ElementKeepsTime ==
    ASSUME IInv, NEW el \in ElementSet, ReadElement(el)
    PROVE  Shared!Next \/ UNCHANGED << Clocks, Alignments >>
<1> DEFINE f == el.frame
<1>1. CASE ToolError
  BY <1>1, ToolErrorStands
<1>2. CASE ~ToolError /\ Barrier(el)
  BY <1>2, BarrierAligns DEF Barrier
<1>3. ASSUME NEW kind, kind # "barrier", Reads(el, kind), NEW st \in FrameRecord,
             prog' = Append(prog, el), states' = StateAfter(f, st),
             st.clock >= states[f].clock
      PROVE  Shared!Next
  BY <1>3, Reading, FrameAdvances
<1>4. CASE ~ToolError /\ ShiftPhase(el)
  <2> DEFINE noted   == Noted(f, Counted(states[f]), Element, "phase")
             shifted == [noted EXCEPT !.phase = @ + el.phase]
  <2>1. Reads(el, "shift_phase") /\ prog' = Append(prog, el)
        /\ states' = StateAfter(f, shifted)
    BY <1>4 DEF ShiftPhase
  <2>2. noted \in FrameRecord /\ noted.clock = states[f].clock /\ noted.clock \in Nat
    BY <2>1, Reading, NotedRecord
  <2>3. el.phase \in Int
    BY <2>1, ElementAssumption DEF Reads
  <2>4. shifted \in FrameRecord /\ shifted.clock = noted.clock
    <3> HIDE DEF noted
    <3> QED BY <2>2, <2>3 DEF FrameRecord
  <2>5. shifted.clock >= states[f].clock
    <3> HIDE DEF noted, shifted
    <3> QED BY <2>2, <2>4
  <2> HIDE DEF noted, shifted
  <2> QED BY <2>1, <2>4, <2>5, <1>3
<1>5. CASE ~ToolError /\ SetFrequency(el)
  <2> DEFINE noted == Noted(f, Counted(states[f]), Element, "frequency")
  <2>1. Reads(el, "set_frequency") /\ prog' = Append(prog, el)
        /\ states' = StateAfter(f, Retuned(f, noted, el.frequency))
    BY <1>5 DEF SetFrequency
  <2>2. noted \in FrameRecord /\ noted.clock = states[f].clock /\ noted.clock \in Nat
    BY <2>1, Reading, NotedRecord
  <2>3. el.frequency \in Int
    BY <2>1, ElementAssumption DEF Reads
  <2> HIDE DEF noted
  <2>4. /\ Retuned(f, noted, el.frequency) \in FrameRecord
        /\ Retuned(f, noted, el.frequency).clock = noted.clock
    BY <2>2, <2>3 DEF FrameRecord, Retuned
  <2> QED BY <2>1, <2>2, <2>4, <1>3
<1>6. CASE ~ToolError /\ Delay(el)
  <2> DEFINE after == Advanced(f, Counted(states[f]), el.duration)
  <2>1. Reads(el, "delay") /\ prog' = Append(prog, el) /\ states' = StateAfter(f, after)
    BY <1>6 DEF Delay
  <2>2. /\ after \in FrameRecord /\ states[f].clock \in Nat
        /\ after.clock = states[f].clock + DurationUnits(f, el.duration)
    <3>1. /\ f \in Frames /\ el.duration \in Int /\ DOMAIN Channels \subseteq DOMAIN Device
          /\ Counted(states[f]) \in FrameRecord /\ states[f].clock \in Nat
          /\ Counted(states[f]).clock = states[f].clock
      BY <2>1, Reading
    <3> QED BY <3>1, AdvancedRecord
  <2>3. DurationUnits(f, el.duration) \in Nat
    BY <2>1, Reading, DurationNatural
  <2> HIDE DEF after
  <2> QED BY <2>1, <2>2, <2>3, <1>3
<1>7. ASSUME NEW kind \in {"play", "capture"}, Reads(el, kind), NEW how
      PROVE  /\ OutputState(el, how) \in FrameRecord
             /\ OutputState(el, how).clock >= states[f].clock
  <2>1. /\ OutputState(el, how) \in FrameRecord /\ states[f].clock \in Nat
        /\ OutputState(el, how).clock = states[f].clock + DurationUnits(f, el.duration)
    BY <1>7, Reading, OutputStateRecord
  <2>2. DurationUnits(f, el.duration) \in Nat
    BY <1>7, Reading, DurationNatural
  <2> QED BY <2>1, <2>2
<1>8. CASE ~ToolError /\ Capture(el)
  <2> DEFINE after == OutputState(el, "capture")
             units == DurationUnits(f, el.duration)
  <2>1. Reads(el, "capture") /\ prog' = Append(prog, el)
        /\ states' = StateAfter(f, IF FixesLength(f, states[f])
                                   THEN [after EXCEPT !.captureLength = units] ELSE after)
    BY <1>8 DEF Capture
  <2>2. after \in FrameRecord /\ after.clock >= states[f].clock
    BY <2>1, <1>7
  <2>3. units \in Nat
    BY <2>1, Reading, DurationNatural
  <2> HIDE DEF after, units
  <2>4. /\ [after EXCEPT !.captureLength = units] \in FrameRecord
        /\ [after EXCEPT !.captureLength = units].clock = after.clock
    BY <2>2, <2>3 DEF FrameRecord
  <2>5. PICK st \in FrameRecord : states' = StateAfter(f, st) /\ st.clock >= states[f].clock
    BY <2>1, <2>2, <2>4
  <2> QED BY <2>1, <2>5, <1>3
<1>9. CASE ~ToolError /\ Play(el)
  <2>1. Reads(el, "play") /\ prog' = Append(prog, el)
        /\ states' = StateAfter(f, OutputState(el, "output"))
    BY <1>9 DEF Play, PlayWaveform, PlayTones
  <2> QED BY <2>1, <1>7, <1>3
<1> QED BY <1>1, <1>2, <1>4, <1>5, <1>6, <1>8, <1>9 DEF ReadElement

(* So is every step of check(). *)
LEMMA StepKeepsTime ==
    IInv /\ [Next]_vars => [Shared!Next]_<< Clocks, Alignments >>
<1> SUFFICES ASSUME IInv, [Next]_vars PROVE [Shared!Next]_<< Clocks, Alignments >>
  OBVIOUS
<1>1. CASE \E el \in ElementSet : ReadElement(el)
  BY <1>1, ElementKeepsTime
<1>2. CASE CloseSlots /\ ~ToolError
  <2>1. prog' = prog
    BY <1>2 DEF CloseSlots
  <2>2. Clocks' = Clocks
    <3>1. \A f \in Frames : states[f] \in FrameRecord
      BY DEF IInv, Typed
    <3>2. \A f \in Frames : states'[f] = [states[f] EXCEPT !.openCapture = Absent]
                              \/ states'[f] = states[f]
      BY <1>2 DEF CloseSlots
    <3>3. \A f \in Frames : states'[f].clock = states[f].clock
      BY <3>1, <3>2 DEF FrameRecord
    <3> QED BY <3>3 DEF Clocks
  <2> QED BY <2>1, <2>2 DEF Alignments, AlignedBy, MemberSet, Members
<1>3. CASE UNCHANGED << prog, states >>
  BY <1>3, TimeStands
<1>4. CASE Bind \/ EndOfProgram \/ CloseSpacing \/ SkipBudget \/ CountBudget \/ Finish
  <2>1. UNCHANGED progVars
    BY <1>4 DEF Bind, EndOfProgram, CloseSpacing, SkipBudget, CountBudget, Finish, ToolError
  <2> QED BY <2>1, <1>3 DEF progVars
<1>5. CASE Idle \/ UNCHANGED vars
  BY <1>3, <1>5 DEF Idle, vars, progVars
<1>6. CASE ToolError
  BY <1>6, ToolErrorStands
<1> QED BY <1>1, <1>2, <1>4, <1>5, <1>6 DEF Next

(* check() keeps time as Timeline says, whatever the device, the program   *)
(* and the bounds: an element moves only the clock of its frame and never  *)
(* back, and a barrier brings every member to the latest time, within half *)
(* a unit of that member's channel.                                        *)
THEOREM TimeRefinement == Spec => KeepsTime
<1>1. Init => Shared!Init
  BY DEF Init, Shared!Init, Clocks, Alignments, InitialState
<1>2. Spec => []IInv
  BY InitIInv, StepIInv, PTL DEF Spec
<1> QED BY <1>1, <1>2, StepKeepsTime, PTL DEF Spec, KeepsTime, Shared!Spec

-----------------------------------------------------------------------------
(* Rejections: the sequence s names an element of elements under rule. *)
Names(s, rule, elements) ==
    \E r \in ToSet(s) : r.rule = rule /\ r.element \in elements

(* Rejections of some rules at some elements. *)
Repairs ==
    {"alias_mod_f_dds", "quantize_frequency", "quantize_phase", "quantize_time",
     "quantize_duration", "quantize_gain", "saturate_gain", "trunc_gain"}

(* A repair is named when, and only when, the vendor repairs.              *)
Paired(r) == r.repair # NoRepair <=> r.severity = "vendor_repairable"

Of(rules, elements) ==
    {r \in [rule: rules, severity: Severities, repair: Repairs \cup {NoRepair},
            element: elements] : ValidDescriptor => Paired(r)}

(* Nothing emits the retired rule. *)
Rejected == Of(Classes \ {"negative_time"}, Nat)

(* A sequence over a set is one over any larger set.                       *)
LEMMA SeqWiden ==
    ASSUME NEW S, NEW T, S \subseteq T, NEW s \in Seq(S)
    PROVE  s \in Seq(T)
  BY SeqDef

(* The properties speak of places of the sink, the proofs of its members. *)
LEMMA CitedNames ==
    ASSUME NEW rule, NEW elements
    PROVE  Cited(rule, elements) # {} <=> Names(sink, rule, elements)
  BY DEF Cited, Names, ToSet

(* Nothing is named by no rejections.                                      *)
LEMMA NamesNone ==
    ASSUME NEW rule, NEW elements PROVE ~Names(<< >>, rule, elements)
  BY DEF Names, ToSet

(* A concatenation names what either part names.                           *)
LEMMA NamesConcat ==
    ASSUME NEW S, NEW s \in Seq(S), NEW t \in Seq(S), NEW rule, NEW elements
    PROVE  Names(s \o t, rule, elements)
               <=> Names(s, rule, elements) \/ Names(t, rule, elements)
<1>1. ToSet(s \o t) = ToSet(s) \cup ToSet(t)
  BY ConcatSet
<1> QED BY <1>1 DEF Names

(* A conditional rejection is there or not. *)
LEMMA WhenNames ==
    ASSUME NEW S, NEW condition, NEW r, condition => r \in S, NEW rule, NEW elements
    PROVE  /\ When(condition, r) \in Seq(S)
           /\ Names(When(condition, r), rule, elements)
                  <=> condition /\ r.rule = rule /\ r.element \in elements
<1>1. CASE condition
  <2>1. When(condition, r) = << r >>
    BY <1>1 DEF When
  <2>2. << r >> \in Seq(S) /\ ToSet(<< r >>) = {r}
    BY <1>1, SeqDef DEF ToSet
  <2> QED BY <1>1, <2>1, <2>2 DEF Names
<1>2. CASE ~condition
  <2>1. When(condition, r) = << >>
    BY <1>2 DEF When
  <2> QED BY <1>2, <2>1, NamesNone, EmptySeq
<1> QED BY <1>1, <1>2

(* Rejections of some rules name no other rule and no other element. *)
LEMMA NamesOnly ==
    ASSUME NEW rules, NEW some, NEW s \in Seq(Of(rules, some)), NEW rule, NEW elements,
           Names(s, rule, elements)
    PROVE  rule \in rules /\ elements \cap some # {}
<1>1. PICK n \in DOMAIN s : s[n].rule = rule /\ s[n].element \in elements
  BY DEF Names, ToSet
<1>2. s[n] \in Of(rules, some)
  BY <1>1, LenProperties, ElementOfSeq
<1> QED BY <1>1, <1>2 DEF Of

(* A rejection names the one element it is about. *)
LEMMA NamesAt ==
    ASSUME NEW rules, NEW e, NEW s \in Seq(Of(rules, {e})), NEW rule, NEW elements
    PROVE  Names(s, rule, elements) <=> Names(s, rule, {e}) /\ e \in elements
<1>1. \A r \in ToSet(s) : r \in Of(rules, {e})
  BY LenProperties, ElementOfSeq DEF ToSet
<1> QED BY <1>1 DEF Names, Of

(* A rule names an element of elements at most once. *)
Lone(s, rule, elements) ==
    \A m, n \in DOMAIN s : /\ s[m].rule = rule /\ s[m].element \in elements
                           /\ s[n].rule = rule /\ s[n].element \in elements
                           => m = n

(* What names nothing names nothing twice.                                 *)
LEMMA LoneSilent ==
    ASSUME NEW s, NEW rule, NEW elements, ~Names(s, rule, elements)
    PROVE  Lone(s, rule, elements)
  BY DEF Lone, Names, ToSet

(* A conditional rejection is at most one.                                 *)
LEMMA LoneWhen ==
    ASSUME NEW condition, NEW r, NEW rule, NEW elements
    PROVE  Lone(When(condition, r), rule, elements)
<1>1. When(condition, r) \in {<< >>, << r >>}
  BY DEF When
<1>2. \A m, n \in DOMAIN << r >> : m = n
  OBVIOUS
<1> QED BY <1>1, <1>2 DEF Lone

(* Of two parts that name a thing at most once, one is silent about it.    *)
LEMMA LoneConcat ==
    ASSUME NEW S, NEW s \in Seq(S), NEW t \in Seq(S), NEW rule, NEW elements,
           Lone(s, rule, elements), Lone(t, rule, elements),
           ~Names(s, rule, elements) \/ ~Names(t, rule, elements)
    PROVE  Lone(s \o t, rule, elements)
<1> DEFINE u == s \o t
           hit(x) == x.rule = rule /\ x.element \in elements
<1>1. /\ DOMAIN u = 1 .. Len(s) + Len(t)
      /\ DOMAIN s = 1 .. Len(s) /\ DOMAIN t = 1 .. Len(t)
      /\ Len(s) \in Nat /\ Len(t) \in Nat
      /\ \A i \in 1 .. Len(s) + Len(t) :
             u[i] = IF i <= Len(s) THEN s[i] ELSE t[i - Len(s)]
  BY ConcatProperties, LenProperties
<1> HIDE DEF u
<1>2. ASSUME NEW m \in DOMAIN u, hit(u[m])
      PROVE  \/ m \in DOMAIN s /\ hit(s[m]) /\ Names(s, rule, elements)
             \/ m - Len(s) \in DOMAIN t /\ hit(t[m - Len(s)]) /\ Names(t, rule, elements)
  <2>1. CASE m <= Len(s)
    <3>1. m \in DOMAIN s /\ u[m] = s[m]
      BY <1>1, <2>1
    <3> QED BY <1>2, <3>1 DEF Names, ToSet
  <2>2. CASE ~(m <= Len(s))
    <3>1. m - Len(s) \in DOMAIN t /\ u[m] = t[m - Len(s)]
      BY <1>1, <2>2
    <3> QED BY <1>2, <3>1 DEF Names, ToSet
  <2> QED BY <2>1, <2>2
<1>3. ASSUME NEW m \in DOMAIN u, NEW n \in DOMAIN u, hit(u[m]), hit(u[n])
      PROVE  m = n
  <2>1. CASE ~Names(t, rule, elements)
    <3>1. m \in DOMAIN s /\ hit(s[m]) /\ n \in DOMAIN s /\ hit(s[n])
      BY <1>2, <1>3, <2>1
    <3> QED BY <3>1 DEF Lone
  <2>2. CASE ~Names(s, rule, elements)
    <3>1. /\ m - Len(s) \in DOMAIN t /\ hit(t[m - Len(s)])
          /\ n - Len(s) \in DOMAIN t /\ hit(t[n - Len(s)])
      BY <1>2, <1>3, <2>2
    <3>2. m - Len(s) = n - Len(s)
      BY <3>1 DEF Lone
    <3> QED BY <1>1, <3>2
  <2> QED BY <2>1, <2>2
<1>4. Lone(u, rule, elements)
  BY <1>3 DEF Lone
<1> QED BY <1>4 DEF u

(* capture_slot names no capture twice, nor does anything that is silent   *)
(* about it.                                                               *)
Once(s) == \A elements : Lone(s, "capture_slot", elements)

Silent(s) == \A elements : ~Names(s, "capture_slot", elements)

(* What is silent about captures names none twice.                         *)
LEMMA OnceSilent ==
    ASSUME NEW s, Silent(s) PROVE Once(s)
  BY LoneSilent DEF Once, Silent

(* Two parts, one of them silent, still name no capture twice.             *)
LEMMA OnceMore ==
    ASSUME NEW S, NEW s \in Seq(S), NEW t \in Seq(S), Once(s), Once(t), Silent(s) \/ Silent(t)
    PROVE  Once(s \o t)
  BY LoneConcat DEF Once, Silent

(* Two silent parts are silent.                                            *)
LEMMA SilentMore ==
    ASSUME NEW S, NEW s \in Seq(S), NEW t \in Seq(S), Silent(s), Silent(t)
    PROVE  Silent(s \o t)
  BY NamesConcat DEF Silent

-----------------------------------------------------------------------------
(* What the parser and validate_descriptor leave: a declared constraint is *)
(* one of the channel's, and a spacing rule has its distance.              *)
Bound == DOMAIN Channels \subseteq DOMAIN Device

(* The constraint of a declared rule is one of the list, with its          *)
(* identifier.                                                             *)
LEMMA DeclaredConstraint ==
    ASSUME NEW c \in DOMAIN Device, NEW id, Declared(c, id)
    PROVE  /\ Constraint(c, id) \in ConstraintRecord
           /\ Constraint(c, id).id = id
           /\ \E i \in DOMAIN Device[c].constraints :
                 Constraint(c, id) = Device[c].constraints[i]
<1> DEFINE D == Declarations(c, id)
<1>1. Device[c].constraints \in Seq(ConstraintRecord)
  BY ConstraintAssumption
<1>2. DOMAIN Device[c].constraints = 1 .. Len(Device[c].constraints)
      /\ Len(Device[c].constraints) \in Nat
  BY <1>1, LenProperties
<1>3. D \in SUBSET Nat /\ D # {}
  BY <1>2 DEF Declarations, Declared
<1>4. \E i \in D : \A j \in D : i <= j
  <2> HIDE DEF D
  <2> QED BY <1>3, LeastElement
<1>5. PICK i \in D : Constraint(c, id) = Device[c].constraints[i]
  BY <1>4 DEF Constraint
<1>6. i \in DOMAIN Device[c].constraints /\ Device[c].constraints[i].id = id
  BY DEF Declarations
<1> HIDE DEF D
<1>7. Device[c].constraints[i] \in ConstraintRecord
  BY <1>1, <1>2, <1>6, ElementOfSeq
<1> QED BY <1>5, <1>6, <1>7

(* The distance of a declared spacing rule is a number of units. *)
LEMMA SpacingDistance ==
    ASSUME ValidDescriptor, Bound, NEW f \in Frames, NEW id \in SpacingRules,
           FrameDeclares(f, id)
    PROVE  FrameConstraint(f, id).minUnits \in Nat
<1> DEFINE c == ChannelOf(f)
           k == Constraint(c, id)
<1>1. c \in DOMAIN Device
  BY FrameChannel DEF Bound
<1>2. Declared(c, id)
  BY DEF FrameDeclares
<1>3. k \in ConstraintRecord /\ k.id = id
      /\ \E i \in DOMAIN Device[c].constraints : k = Device[c].constraints[i]
  BY <1>1, <1>2, DeclaredConstraint
<1> HIDE DEF k, c
<1>4. SpacingComplete(k)
  BY <1>1, <1>3 DEF ValidDescriptor, ValidChannel, ValidConstraint
<1>5. k.minUnits \in Int \cup {Absent} /\ k.minUnits # Absent /\ k.minUnits >= 0
  BY <1>3, <1>4 DEF SpacingComplete, ConstraintRecord
<1>6. k.minUnits \in Nat
  BY <1>5
<1> QED BY <1>6 DEF FrameConstraint, k, c

(* The declared severity of a rule, and that of the schedule grid. *)
LEMMA DeclaredSeverity ==
    ASSUME NEW c \in DOMAIN Device
    PROVE  /\ \A id : Declared(c, id) => Constraint(c, id).severity \in Severities
           /\ ScheduleSeverity(c) \in Severities
<1>1. ASSUME NEW id, Declared(c, id) PROVE Constraint(c, id).severity \in Severities
  <2>1. Constraint(c, id) \in ConstraintRecord
    BY <1>1, DeclaredConstraint
  <2> QED BY <2>1 DEF ConstraintRecord
<1> QED BY <1>1 DEF ScheduleSeverity, Severities

(* The severity of an accepted constraint is one the rule can express.     *)
LEMMA AcceptedSeverity ==
    ASSUME NEW c \in DOMAIN Device, NEW id, Declared(c, id), ValidDescriptor
    PROVE  Constraint(c, id).severity \in SeverityRule(id)
<1> DEFINE k == Constraint(c, id)
<1>1. k.id = id /\ \E i \in DOMAIN Device[c].constraints : k = Device[c].constraints[i]
  BY DeclaredConstraint
<1> HIDE DEF k
<1>2. k.severity \in SeverityRule(k.id)
  BY <1>1 DEF ValidDescriptor, ValidChannel, ValidConstraint
<1> QED BY <1>1, <1>2 DEF k

(* The constructors of rejections. *)
LEMMA RejectionTypes ==
    ASSUME NEW rules, NEW rule \in rules, NEW e, NEW severity \in Severities,
           NEW repair \in Repairs
    PROVE  /\ EitherWay(rule, severity, repair, e) \in Of(rules, {e})
           /\ Fatal(rule, e) \in Of(rules, {e})
           /\ Repairable(rule, repair, e) \in Of(rules, {e})
  BY DEF Of, Paired, Rejection, EitherWay, Fatal, Repairable, Repairs, NoRepair, Severities

(* A declared rule can be rejected by its own severity: it names no repair, *)
(* and validate_descriptor accepts no severity but the fatal one.           *)
LEMMA DeclaredRejection ==
    ASSUME NEW c \in DOMAIN Device, NEW rules, NEW rule \in rules, NEW e, Declared(c, rule),
           SeverityRule(rule) = {"fatal"}
    PROVE  AsDeclared(c, rule, e) \in Of(rules, {e})
<1>1. Constraint(c, rule).severity \in Severities
  BY DeclaredSeverity
<1>2. ValidDescriptor => Constraint(c, rule).severity = "fatal"
  BY AcceptedSeverity
<1> QED BY <1>1, <1>2 DEF AsDeclared, Of, Paired, Rejection, Severities

(* The rules that are rejected so.                                         *)
LEMMA DeclaredFatal ==
    \A rule \in {"pulse_length_range", "readout_length_range", "envelope_sample_grid",
                 "envelope_amplitude", "envelope_duration_exact", "mux_tone_mask",
                 "mux_tone_count"} :
        SeverityRule(rule) = {"fatal"}
  BY DEF SeverityRule

-----------------------------------------------------------------------------
(* The rules about values reject under their own names, at the element     *)
(* they are given.                                                         *)
PlainRules ==
    {"frequency_range", "frequency_resolution", "phase_resolution",
     "amplitude_range", "amplitude_resolution", "mux_tone_count",
     "envelope_duration_exact", "envelope_sample_grid", "envelope_amplitude"}

ValueRules == PlainRules \cup {"mux_tone_mask", "envelope_memory"}

(* Rejections of some of them are of the value rules. *)
LEMMA ValueOf ==
    ASSUME NEW e, NEW s
    PROVE  /\ s \in Seq(Of(PlainRules, {e})) => s \in Seq(Of(ValueRules, {e}))
           /\ s \in Seq(Of({"mux_tone_mask"}, {e})) => s \in Seq(Of(ValueRules, {e}))
<1>1. /\ Of(PlainRules, {e}) \subseteq Of(ValueRules, {e})
      /\ Of({"mux_tone_mask"}, {e}) \subseteq Of(ValueRules, {e})
  BY DEF Of, ValueRules, PlainRules
<1> QED BY <1>1, SeqWiden

(* Frequency rejections are of these rules, at the element being read. *)
LEMMA FrequencyOf ==
    ASSUME NEW c \in DOMAIN Device, NEW v, NEW e
    PROVE  FrequencyRejections(c, v, e) \in Seq(Of(PlainRules, {e}))
<1> DEFINE S == Of(PlainRules, {e})
           k == Constraint(c, "frequency_range")
           first  == EitherWay("frequency_range", k.severity, "alias_mod_f_dds", e)
           second == Repairable("frequency_resolution", "quantize_frequency", e)
<1>1. CASE Declared(c, "frequency_range")
  <2>1. k.severity \in Severities
    BY <1>1, DeclaredSeverity
  <2>2. first \in S /\ second \in S
    BY <2>1, RejectionTypes DEF PlainRules, Repairs
  <2> HIDE DEF first, second, S
  <2>3. \A condition : When(condition, first) \in Seq(S) /\ When(condition, second) \in Seq(S)
    BY <2>2, WhenNames
  <2>4. PICK one, two : FrequencyRejections(c, v, e) = When(one, first) \o When(two, second)
    BY <1>1 DEF FrequencyRejections, first, second, k
  <2>5. FrequencyRejections(c, v, e) \in Seq(S)
    BY <2>3, <2>4, ConcatProperties
  <2> QED BY <2>5 DEF S
<1>2. CASE ~Declared(c, "frequency_range")
  BY <1>2, EmptySeq DEF FrequencyRejections
<1> QED BY <1>1, <1>2

(* Phase rejections likewise.                                              *)
LEMMA PhaseOf ==
    ASSUME NEW c \in DOMAIN Device, NEW v, NEW e
    PROVE  PhaseRejections(c, v, e) \in Seq(Of(PlainRules, {e}))
<1> DEFINE S == Of(PlainRules, {e})
           k == Constraint(c, "phase_resolution")
           one == Rejection("phase_resolution", k.severity, "quantize_phase", e)
<1>1. CASE PhaseChecks(c)
  <2>1. k.severity \in Severities
    BY <1>1, DeclaredSeverity DEF PhaseChecks
  <2>2. one \in S
    <3>1. ValidDescriptor => k.severity = "vendor_repairable"
      BY <1>1, AcceptedSeverity DEF PhaseChecks, SeverityRule, SpacingRules
    <3> HIDE DEF k
    <3> QED
      BY <2>1, <3>1 DEF Of, Paired, Rejection, PlainRules, Repairs, NoRepair
  <2> HIDE DEF one, S
  <2>3. \A condition : When(condition, one) \in Seq(S)
    BY <2>2, WhenNames
  <2>4. PICK condition : PhaseRejections(c, v, e) = When(condition, one)
    BY <1>1 DEF PhaseRejections, one, k
  <2>5. PhaseRejections(c, v, e) \in Seq(S)
    BY <2>3, <2>4
  <2> QED BY <2>5 DEF S
<1>2. CASE ~PhaseChecks(c)
  BY <1>2, EmptySeq DEF PhaseRejections
<1> QED BY <1>1, <1>2

(* Amplitude rejections likewise.                                          *)
LEMMA AmplitudeOf ==
    ASSUME NEW c \in DOMAIN Device, NEW v, NEW e
    PROVE  AmplitudeRejections(c, v, e) \in Seq(Of(PlainRules, {e}))
<1> DEFINE S == Of(PlainRules, {e})
           k == Constraint(c, "amplitude_range")
           first  == Repairable("amplitude_range", "saturate_gain", e)
           second == EitherWay("amplitude_range", k.severity, "trunc_gain", e)
           third  == Repairable("amplitude_resolution", StepRepair, e)
<1>1. CASE Declared(c, "amplitude_range")
  <2>1. k.severity \in Severities /\ StepRepair \in Repairs
    BY <1>1, DeclaredSeverity DEF StepRepair, Repairs
  <2>2. first \in S /\ second \in S /\ third \in S
    BY <2>1, RejectionTypes DEF PlainRules, Repairs
  <2> HIDE DEF first, second, third, S
  <2>3. \A condition : /\ When(condition, first) \in Seq(S)
                       /\ When(condition, second) \in Seq(S)
                       /\ When(condition, third) \in Seq(S)
    BY <2>2, WhenNames
  <2>4. PICK one, two, three :
           AmplitudeRejections(c, v, e) = When(one, first) \o When(two, second) \o When(three, third)
    BY <1>1 DEF AmplitudeRejections, first, second, third, k
  <2>5. AmplitudeRejections(c, v, e) \in Seq(S)
    BY <2>3, <2>4, ConcatProperties
  <2> QED BY <2>5 DEF S
<1>2. CASE ~Declared(c, "amplitude_range")
  BY <1>2, EmptySeq DEF AmplitudeRejections
<1> QED BY <1>1, <1>2

(* Flattening: what one of the pieces names, and nothing else. *)
LEMMA FlattenNames ==
    ASSUME NEW S, NEW n \in Nat, NEW ss \in [1 .. n -> Seq(S)]
    PROVE  /\ FlattenSeq(ss) \in Seq(S)
           /\ \A rule, elements :
                 Names(FlattenSeq(ss), rule, elements)
                     <=> \E i \in 1 .. n : Names(ss[i], rule, elements)
<1>1. ss \in Seq(Seq(S)) /\ Len(ss) = n
  BY SeqDef
<1>2. FlattenSeq(ss) \in Seq(S)
  BY <1>1, FlattenType
<1>3. ASSUME NEW x
      PROVE  x \in ToSet(FlattenSeq(ss)) <=> \E i \in 1 .. n : x \in ToSet(ss[i])
  BY <1>1, FlattenElements
<1> QED BY <1>2, <1>3 DEF Names

(* Joined sequences of which one at most names it, and once. *)
LEMMA LoneFlatten ==
    ASSUME NEW S, NEW m \in Nat, NEW ss \in [1 .. m -> Seq(S)], NEW rule, NEW elements,
           \A i \in 1 .. m : Lone(ss[i], rule, elements),
           \A i, j \in 1 .. m : Names(ss[i], rule, elements) /\ Names(ss[j], rule, elements)
                                    => i = j
    PROVE  Lone(FlattenSeq(ss), rule, elements)
<1>1. CASE m = 0
  <2>1. ss = << >>
    BY <1>1, EmptySeq, SeqDef
  <2> QED BY <2>1, FlattenEmpty, NamesNone, LoneSilent
<1>2. CASE m # 0
  <2>1. Len(ss) = m /\ Len(ss) \in Nat \ {0}
    BY <1>2
  <2>2. PICK g : Joins(g, ss, Len(ss)) /\ FlattenSeq(ss) = g[Len(ss)]
    BY <2>1, FlattenJoins
  <2> DEFINE Good(n) == /\ g[n] \in Seq(S) /\ Lone(g[n], rule, elements)
                        /\ Names(g[n], rule, elements)
                               => \E i \in 1 .. n : Names(ss[i], rule, elements)
             P == {n \in Nat : n \in 1 .. m => Good(n)}
  <2>3. 0 \in P
    OBVIOUS
  <2>4. ASSUME NEW n \in P PROVE n + 1 \in P
    <3> SUFFICES ASSUME n + 1 \in 1 .. m PROVE Good(n + 1)
      OBVIOUS
    <3>1. CASE n = 0
      <4>1. g[1] = ss[1] /\ 1 \in 1 .. m /\ 1 \in 1 .. 1
        BY <2>1, <2>2, <3>1 DEF Joins
      <4>2. Good(1)
        BY <4>1
      <4> QED BY <3>1, <4>2
    <3>2. CASE n # 0
      <4>1. n \in 1 .. m /\ Good(n) /\ n \in Nat \ {0} /\ n + 1 \in 1 .. Len(ss)
        BY <2>1, <2>4, <3>2
      <4>2. g[n + 1] = g[n] \o ss[n + 1]
        <5>1. Joins(g, ss, Len(ss)) /\ Len(ss) \in Nat
          BY <2>1, <2>2
        <5> HIDE DEF P, Good
        <5> QED BY <4>1, <5>1, JoinStep
      <4>3. ~Names(g[n], rule, elements) \/ ~Names(ss[n + 1], rule, elements)
        <5> SUFFICES ASSUME Names(g[n], rule, elements), Names(ss[n + 1], rule, elements)
                     PROVE  FALSE
          OBVIOUS
        <5>1. PICK i \in 1 .. n : Names(ss[i], rule, elements)
          BY <4>1
        <5>2. i \in 1 .. m /\ i # n + 1
          BY <4>1
        <5> QED BY <5>1, <5>2
      <4>4. ss[n + 1] \in Seq(S) /\ Lone(ss[n + 1], rule, elements)
        OBVIOUS
      <4>5. g[n + 1] \in Seq(S)
        BY <4>1, <4>2, <4>4, ConcatProperties
      <4>6. Lone(g[n + 1], rule, elements)
        BY <4>1, <4>2, <4>3, <4>4, LoneConcat
      <4>7. Names(g[n + 1], rule, elements)
                => Names(g[n], rule, elements) \/ Names(ss[n + 1], rule, elements)
        BY <4>1, <4>2, <4>4, NamesConcat
      <4>8. Names(g[n], rule, elements) => \E i \in 1 .. n + 1 : Names(ss[i], rule, elements)
        BY <4>1
      <4>9. n + 1 \in 1 .. n + 1
        BY <4>1
      <4> QED BY <4>5, <4>6, <4>7, <4>8, <4>9
    <3> QED BY <3>1, <3>2
  <2>5. P = Nat
    <3>1. P \in SUBSET Nat
      OBVIOUS
    <3> HIDE DEF P
    <3> QED BY <2>3, <2>4, <3>1, SetInduction
  <2>6. m \in P /\ m \in 1 .. m
    <3> HIDE DEF P
    <3> QED BY <1>2, <2>5
  <2>7. Good(m)
    BY <2>6
  <2> QED BY <2>1, <2>2, <2>7
<1> QED BY <1>1, <1>2

(* The rejections of a tone table likewise.                                *)
LEMMA ToneOf ==
    ASSUME NEW c \in DOMAIN Channels, Bound, NEW e
    PROVE  ToneRejections(c, e) \in Seq(Of(PlainRules, {e}))
<1> DEFINE S == Of(PlainRules, {e})
           tones == Channels[c].tones
           one(t) == FrequencyRejections(c, tones[t].frequency, e)
                         \o PhaseRejections(c, tones[t].phase, e)
                         \o AmplitudeRejections(c, tones[t].amplitude, e)
           all == [t \in DOMAIN tones |-> one(t)]
           many == AsDeclared(c, "mux_tone_count", e)
           more == CountChecked(c) /\ Len(tones) > Device[c].capabilities.nTones
<1>1. c \in DOMAIN Device
  BY DEF Bound
<1>2. DOMAIN tones = 1 .. Len(tones) /\ Len(tones) \in Nat
  BY ToneAssumption, LenProperties
<1>3. ASSUME NEW t PROVE one(t) \in Seq(S)
  <2>1. /\ FrequencyRejections(c, tones[t].frequency, e) \in Seq(S)
        /\ PhaseRejections(c, tones[t].phase, e) \in Seq(S)
        /\ AmplitudeRejections(c, tones[t].amplitude, e) \in Seq(S)
    BY <1>1, FrequencyOf, PhaseOf, AmplitudeOf
  <2> HIDE DEF S
  <2> QED BY <2>1, ConcatProperties
<1>4. FlattenSeq(all) \in Seq(S)
  <2>1. all \in [1 .. Len(tones) -> Seq(S)]
    <3> HIDE DEF one, S
    <3> QED BY <1>2, <1>3
  <2> HIDE DEF all, S
  <2> QED BY <2>1, <1>2, FlattenNames
<1>5. When(more, many) \in Seq(S)
  <2>1. more => many \in S
    BY <1>1, DeclaredRejection, DeclaredFatal DEF CountChecked, PlainRules
  <2> HIDE DEF more, many, S
  <2> QED BY <2>1, WhenNames
<1>6. ToneRejections(c, e) = When(more, many) \o FlattenSeq(all)
  BY DEF ToneRejections
<1> HIDE DEF S, all, more, many
<1>7. ToneRejections(c, e) \in Seq(S)
  BY <1>4, <1>5, <1>6, ConcatProperties
<1> QED BY <1>7 DEF S

(* The rejections of a tone mask likewise.                                 *)
LEMMA MaskOf ==
    ASSUME NEW c \in DOMAIN Channels, Bound, NEW e, NEW mask \in Seq(Nat)
    PROVE  MaskRejections(c, mask, e) \in Seq(Of({"mux_tone_mask"}, {e}))
<1> DEFINE S == Of({"mux_tone_mask"}, {e})
           stray == AsDeclared(c, "mux_tone_mask", e)
           all == [n \in DOMAIN mask |-> When(BeyondTable(c, mask[n]), stray)]
<1>1. CASE Declared(c, "mux_tone_mask")
  <2>1. stray \in S
    BY <1>1, DeclaredRejection, DeclaredFatal DEF Bound
  <2>2. DOMAIN mask = 1 .. Len(mask) /\ Len(mask) \in Nat
    BY LenProperties
  <2>3. all \in [1 .. Len(mask) -> Seq(S)]
    <3> HIDE DEF stray, S
    <3>1. \A n \in DOMAIN mask : When(BeyondTable(c, mask[n]), stray) \in Seq(S)
      BY <2>1, WhenNames
    <3> QED BY <2>2, <3>1
  <2>4. MaskRejections(c, mask, e) = FlattenSeq(all)
    BY <1>1 DEF MaskRejections
  <2> HIDE DEF all, S
  <2>5. MaskRejections(c, mask, e) \in Seq(S)
    BY <2>2, <2>3, <2>4, FlattenNames
  <2> QED BY <2>5 DEF S
<1>2. CASE ~Declared(c, "mux_tone_mask")
  BY <1>2, EmptySeq DEF MaskRejections
<1> QED BY <1>1, <1>2

(* The rejections of an envelope likewise.                                 *)
LEMMA EnvelopeOf ==
    ASSUME NEW c \in DOMAIN Device, NEW w, NEW units, NEW e
    PROVE  EnvelopeRejections(c, w, units, e) \in Seq(Of(PlainRules, {e}))
<1> DEFINE S == Of(PlainRules, {e})
           length == AsDeclared(c, "envelope_duration_exact", e)
           grid   == AsDeclared(c, "envelope_sample_grid", e)
           high   == AsDeclared(c, "envelope_amplitude", e)
           clip   == Repairable("envelope_amplitude", "saturate_gain", e)
           inexact == /\ Declared(c, "envelope_duration_exact")
                      /\ units * Unit(c) # Samples(w) * Channels[c].sampleUnit
           off     == GridChecked(c) /\ ~Divides(Device[c].capabilities.sampleGrid, Samples(w))
           amplitude == IF AmplitudeChecked(c) THEN EnvelopeAmplitudeRejections(c, w, e) ELSE << >>
<1>1. /\ inexact => length \in S
      /\ off => grid \in S
      /\ AmplitudeChecked(c) => high \in S
      /\ clip \in S
  BY DeclaredRejection, DeclaredFatal, RejectionTypes
     DEF GridChecked, AmplitudeChecked, PlainRules, Repairs, Severities
<1>2. amplitude \in Seq(S)
  <2>1. << >> \in Seq(S)
    BY EmptySeq
  <2>2. ASSUME AmplitudeChecked(c) PROVE EnvelopeAmplitudeRejections(c, w, e) \in Seq(S)
    <3>1. << high >> \in Seq(S)
      BY <1>1, <2>2, SeqDef
    <3>2. \A condition : When(condition, clip) \in Seq(S)
      BY <1>1, WhenNames
    <3>3. \/ EnvelopeAmplitudeRejections(c, w, e) = << high >>
          \/ EnvelopeAmplitudeRejections(c, w, e) = << >>
          \/ \E one, two : EnvelopeAmplitudeRejections(c, w, e) = When(one, clip) \o When(two, clip)
      BY DEF EnvelopeAmplitudeRejections
    <3> HIDE DEF S, high, clip
    <3> QED BY <2>1, <3>1, <3>2, <3>3, ConcatProperties
  <2> QED BY <2>1, <2>2
<1>3. When(inexact, length) \in Seq(S) /\ When(off, grid) \in Seq(S)
  <2> HIDE DEF S, inexact, length, off, grid
  <2> QED BY <1>1, WhenNames
<1>4. EnvelopeRejections(c, w, units, e) = When(inexact, length) \o When(off, grid) \o amplitude
  BY DEF EnvelopeRejections
<1> HIDE DEF S, inexact, length, off, grid, amplitude
<1>5. EnvelopeRejections(c, w, units, e) \in Seq(S)
  BY <1>2, <1>3, <1>4, ConcatProperties
<1> QED BY <1>5 DEF S

(* The rejections of a waveform likewise, sampled or constant.             *)
LEMMA WaveformOf ==
    ASSUME NEW f \in Frames, Bound, NEW w, NEW units, NEW e
    PROVE  WaveformRejections(f, w, units, e) \in Seq(Of(ValueRules, {e}))
<1> DEFINE S == Of(ValueRules, {e})
           c == ChannelOf(f)
           full == Fatal("envelope_memory", e)
<1>1. c \in DOMAIN Device
  BY FrameChannel DEF Bound
<1>2. /\ EnvelopeRejections(c, w, units, e) \in Seq(S)
      /\ AmplitudeRejections(c, Waveforms[w].amplitude, e) \in Seq(S)
  BY <1>1, EnvelopeOf, AmplitudeOf, ValueOf
<1>3. MemoryRejections(f, w, e) \in Seq(S)
  <2>1. full \in S
    BY RejectionTypes DEF ValueRules, PlainRules, Severities, Repairs
  <2>2. << >> \in Seq(S)
    BY EmptySeq
  <2>3. \A condition : When(condition, full) \in Seq(S)
    BY <2>1, WhenNames
  <2>4. MemoryRejections(f, w, e) = << >>
        \/ \E condition : MemoryRejections(f, w, e) = When(condition, full)
    BY DEF MemoryRejections
  <2> HIDE DEF S, full
  <2> QED BY <2>2, <2>3, <2>4
<1> HIDE DEF S
<1>4. WaveformRejections(f, w, units, e) \in Seq(S)
  BY <1>2, <1>3, ConcatProperties DEF WaveformRejections
<1> QED BY <1>4 DEF S

(* The rejections of the first use of a frame likewise.                    *)
LEMMA FirstUseOf ==
    ASSUME NEW f \in Frames, Bound, NEW st, NEW e
    PROVE  FirstUseRejections(f, st, e) \in Seq(Of(PlainRules, {e}))
<1> DEFINE S == Of(PlainRules, {e})
<1>1. /\ FrequencyRejections(ChannelOf(f), st.frequency, e) \in Seq(S)
      /\ PhaseRejections(ChannelOf(f), st.phase, e) \in Seq(S)
  BY FrameChannel, FrequencyOf, PhaseOf DEF Bound
<1>2. << >> \in Seq(S)
  BY EmptySeq
<1> HIDE DEF S
<1>3. FirstUseRejections(f, st, e) \in Seq(S)
  BY <1>1, <1>2, ConcatProperties DEF FirstUseRejections
<1> QED BY <1>3 DEF S

-----------------------------------------------------------------------------
(* The rules about time: when each of them rejects. *)
SpacingIds == {"start_spacing", "frequency_update_spacing", "capture_spacing"}

DurationRules ==
    {"negative_duration", "pulse_length_grid", "pulse_length_range", "readout_length_range"}

(* A rule that rejects at most once. *)
LEMMA OneRejection ==
    ASSUME NEW rule, NEW e, NEW condition, NEW r, condition => r \in Of({rule}, {e})
    PROVE  /\ When(condition, r) \in Seq(Of({rule}, {e}))
           /\ Names(When(condition, r), rule, {e}) <=> condition
<1> DEFINE S == Of({rule}, {e})
<1>1. condition => r.rule = rule /\ r.element \in {e}
  BY DEF Of
<1>2. condition => r \in S
  OBVIOUS
<1> HIDE DEF S
<1>3. /\ When(condition, r) \in Seq(S)
      /\ Names(When(condition, r), rule, {e})
             <=> condition /\ r.rule = rule /\ r.element \in {e}
  BY <1>2, WhenNames
<1> QED BY <1>1, <1>3 DEF S

(* capture_slot names the open capture when the operation breaks its slot. *)
LEMMA SlotNames ==
    ASSUME NEW f, NEW st
    PROVE  LET s == SlotRejections(f, st)
           IN  /\ s \in Seq(Of({"capture_slot"}, {st.openCaptureElement}))
               /\ Names(s, "capture_slot", {st.openCaptureElement})
                      <=> /\ SettlesSlot(f, st)
                          /\ SlotBroken(f, ToTicks(f, st.clock - st.openCapture))
<1> DEFINE r == Fatal("capture_slot", st.openCaptureElement)
<1>1. r \in Of({"capture_slot"}, {st.openCaptureElement})
  BY RejectionTypes DEF Severities, Repairs
<1> HIDE DEF r
<1> QED BY <1>1, OneRejection DEF SlotRejections, r

(* start_spacing looks back at the operation before, or at time 0. *)
Crowded(f, st) ==
    LET since == PreviousEvent(f, st)
    IN  Crowds(f, "start_spacing", st, since) /\ st.clock # since

(* start_spacing names the operation that crowds the one before.           *)
LEMMA StartNames ==
    ASSUME NEW f, NEW st, NEW e
    PROVE  LET s == StartRejections(f, st, e)
           IN  /\ s \in Seq(Of({"start_spacing"}, {e}))
               /\ Names(s, "start_spacing", {e}) <=> Crowded(f, st)
<1> DEFINE r == Fatal("start_spacing", e)
<1>1. r \in Of({"start_spacing"}, {e})
  BY RejectionTypes DEF Severities, Repairs
<1> HIDE DEF r
<1>2. StartRejections(f, st, e) = When(Crowded(f, st), r)
  BY DEF StartRejections, Crowded, r
<1>3. /\ When(Crowded(f, st), r) \in Seq(Of({"start_spacing"}, {e}))
      /\ Names(When(Crowded(f, st), r), "start_spacing", {e}) <=> Crowded(f, st)
  BY <1>1, OneRejection DEF Crowded
<1> QED BY <1>2, <1>3

(* The spacing of repeats looks back at the last one of the same kind. *)
Repeats(f, st, kind, rule) ==
    \/ /\ kind = "frequency" /\ rule = "frequency_update_spacing"
       /\ Crowds(f, rule, st, st.lastFreqUpdate)
    \/ /\ kind = "capture" /\ rule = "capture_spacing"
       /\ Crowds(f, rule, st, st.lastCapture)

RepeatRules == {"frequency_update_spacing", "capture_spacing"}

(* A repeat rule names the repeat that is too close.                       *)
LEMMA KindNames ==
    ASSUME NEW f, NEW st, NEW e, NEW kind
    PROVE  LET s == KindRejections(f, st, e, kind)
           IN  /\ s \in Seq(Of(RepeatRules, {e}))
               /\ \A rule \in RepeatRules : Names(s, rule, {e}) <=> Repeats(f, st, kind, rule)
<1> DEFINE S == Of(RepeatRules, {e})
           s == KindRejections(f, st, e, kind)
           update  == Fatal("frequency_update_spacing", e)
           capture == Fatal("capture_spacing", e)
<1>1. update \in S /\ capture \in S
  BY RejectionTypes DEF Severities, Repairs, RepeatRules
<1>2. update.rule = "frequency_update_spacing" /\ capture.rule = "capture_spacing"
      /\ update.element = e /\ capture.element = e
  BY DEF Fatal, Rejection
<1>3. CASE kind = "frequency"
  <2>1. s = When(Crowds(f, "frequency_update_spacing", st, st.lastFreqUpdate), update)
    BY <1>3 DEF KindRejections
  <2> HIDE DEF S, update, s
  <2>2. s \in Seq(S)
    BY <1>1, <2>1, WhenNames
  <2>3. ASSUME NEW rule \in RepeatRules PROVE Names(s, rule, {e}) <=> Repeats(f, st, kind, rule)
    BY <1>1, <1>2, <1>3, <2>1, WhenNames DEF Repeats
  <2> QED BY <2>2, <2>3 DEF S, s
<1>4. CASE kind = "capture"
  <2>1. s = When(Crowds(f, "capture_spacing", st, st.lastCapture), capture)
    BY <1>4 DEF KindRejections
  <2> HIDE DEF S, capture, s
  <2>2. s \in Seq(S)
    BY <1>1, <2>1, WhenNames
  <2>3. ASSUME NEW rule \in RepeatRules PROVE Names(s, rule, {e}) <=> Repeats(f, st, kind, rule)
    BY <1>1, <1>2, <1>4, <2>1, WhenNames DEF Repeats
  <2> QED BY <2>2, <2>3 DEF S, s
<1>5. CASE kind \notin {"frequency", "capture"}
  <2>1. s = << >>
    BY <1>5 DEF KindRejections
  <2> QED BY <1>5, <2>1, EmptySeq, NamesNone DEF Repeats
<1> QED BY <1>3, <1>4, <1>5

(* schedule_grid names an output that starts off the grid.                 *)
LEMMA StartGridNames ==
    ASSUME NEW f \in Frames, Bound, NEW st, NEW e
    PROVE  LET s == StartGridRejections(f, st, e)
           IN  /\ s \in Seq(Of({"schedule_grid"}, {e}))
               /\ Names(s, "schedule_grid", {e}) <=> OffSchedule(f, st)
<1> DEFINE r == EitherWay("schedule_grid", ScheduleSeverity(ChannelOf(f)), "quantize_time", e)
<1>1. ScheduleSeverity(ChannelOf(f)) \in Severities
  BY FrameChannel, DeclaredSeverity DEF Bound
<1>2. r \in Of({"schedule_grid"}, {e})
  BY <1>1, RejectionTypes DEF Repairs
<1> HIDE DEF r
<1>3. /\ When(OffSchedule(f, st), r) \in Seq(Of({"schedule_grid"}, {e}))
      /\ Names(When(OffSchedule(f, st), r), "schedule_grid", {e}) <=> OffSchedule(f, st)
  BY <1>2, OneRejection DEF OffSchedule
<1> QED BY <1>3 DEF StartGridRejections, r

(* What a delay reports: a length that is not whole units.                 *)
LEMMA DelayNames ==
    ASSUME NEW f \in Frames, Bound, NEW duration, NEW e
    PROVE  LET s == DelayRejections(f, duration, e)
           IN  /\ s \in Seq(Of({"schedule_grid"}, {e}))
               /\ Names(s, "schedule_grid", {e}) <=> ~OnLattice(f, duration)
<1> DEFINE r == EitherWay("schedule_grid", ScheduleSeverity(ChannelOf(f)), "quantize_time", e)
<1>1. ScheduleSeverity(ChannelOf(f)) \in Severities
  BY FrameChannel, DeclaredSeverity DEF Bound
<1>2. r \in Of({"schedule_grid"}, {e})
  BY <1>1, RejectionTypes DEF Repairs
<1> HIDE DEF r
<1> QED BY <1>2, OneRejection DEF DelayRejections, r

(* What an output reports of its length is of the duration rules.          *)
LEMMA TimedOf ==
    ASSUME NEW f \in Frames, Bound, NEW duration, NEW e
    PROVE  TimedRejections(f, duration, e) \in Seq(Of(DurationRules, {e}))
<1> DEFINE S == Of(DurationRules, {e})
           c == ChannelOf(f)
           units == DurationUnits(f, duration)
           grid == EitherWay("pulse_length_grid",
                             FrameConstraint(f, "pulse_length_grid").severity,
                             "quantize_duration", e)
           length == AsDeclared(c, LengthRule(f), e)
           off  == /\ FrameDeclares(f, "pulse_length_grid")
                   /\ \/ ~OnLattice(f, duration)
                      \/ ~Divides(Device[ChannelOf(f)].durationGrid, units)
           out  == TooShort(f, units) \/ TooLong(f, units)
<1>1. c \in DOMAIN Device
  BY FrameChannel DEF Bound
<1>2. off => grid \in S
  <2>1. off => FrameConstraint(f, "pulse_length_grid").severity \in Severities
    BY <1>1, DeclaredSeverity DEF FrameDeclares, FrameConstraint
  <2> QED BY <2>1, RejectionTypes DEF DurationRules, Repairs
<1>3. out => length \in S
  <2>1. LengthRule(f) \in DurationRules
    BY DEF LengthRule, DurationRules
  <2>2. out => Declared(c, LengthRule(f))
    BY DEF TooShort, TooLong, FrameDeclares
  <2>3. SeverityRule(LengthRule(f)) = {"fatal"}
    BY DeclaredFatal DEF LengthRule
  <2> QED BY <1>1, <2>1, <2>2, <2>3, DeclaredRejection
<1>4. TimedRejections(f, duration, e) = When(off, grid) \o When(out, length)
  BY DEF TimedRejections, LengthRejections
<1> HIDE DEF S, off, out, grid, length
<1>5. When(off, grid) \in Seq(S) /\ When(out, length) \in Seq(S)
  BY <1>2, <1>3, WhenNames
<1>6. TimedRejections(f, duration, e) \in Seq(S)
  BY <1>4, <1>5, ConcatProperties
<1> QED BY <1>6 DEF S

(* A delay is off the grid when it is no whole number of units; an output's *)
(* duration is the business of other rules.                                 *)
LEMMA AdvanceNames ==
    ASSUME NEW f \in Frames, Bound, NEW duration \in Int, NEW e, NEW timed \in BOOLEAN
    PROVE  LET s == AdvanceRejections(f, duration, e, timed)
           IN  /\ s \in Seq(Of(DurationRules \cup {"schedule_grid"}, {e}))
               /\ timed => s \in Seq(Of(DurationRules, {e}))
               /\ Names(s, "schedule_grid", {e})
                      <=> duration >= 0 /\ ~timed /\ ~OnLattice(f, duration)
<1> DEFINE s == AdvanceRejections(f, duration, e, timed)
           negative == Fatal("negative_duration", e)
<1>1. /\ Of(DurationRules, {e}) \subseteq Of(DurationRules \cup {"schedule_grid"}, {e})
      /\ Of({"schedule_grid"}, {e}) \subseteq Of(DurationRules \cup {"schedule_grid"}, {e})
  BY DEF Of
<1>2. CASE s \in Seq(Of(DurationRules, {e})) /\ (duration < 0 \/ timed)
  <2>1. ~Names(s, "schedule_grid", {e})
    BY <1>2, NamesOnly DEF DurationRules
  <2>2. s \in Seq(Of(DurationRules \cup {"schedule_grid"}, {e}))
    BY <1>1, <1>2, SeqWiden
  <2> QED BY <1>2, <2>1, <2>2
<1>3. CASE duration < 0
  <2>1. s = << negative >>
    BY <1>3 DEF AdvanceRejections
  <2>2. negative \in Of(DurationRules, {e})
    BY RejectionTypes DEF DurationRules, Severities, Repairs
  <2>3. s \in Seq(Of(DurationRules, {e}))
    BY <2>1, <2>2, SeqDef
  <2> QED BY <1>2, <1>3, <2>3
<1>4. CASE ~(duration < 0) /\ timed
  <2>1. s = TimedRejections(f, duration, e)
    BY <1>4 DEF AdvanceRejections
  <2> QED BY <1>2, <1>4, <2>1, TimedOf
<1>5. CASE ~(duration < 0) /\ ~timed
  <2>1. s = DelayRejections(f, duration, e) /\ duration >= 0
    BY <1>5 DEF AdvanceRejections
  <2>2. s \in Seq(Of({"schedule_grid"}, {e}))
        /\ (Names(s, "schedule_grid", {e}) <=> ~OnLattice(f, duration))
    BY <2>1, DelayNames
  <2>3. s \in Seq(Of(DurationRules \cup {"schedule_grid"}, {e}))
    BY <1>1, <2>2, SeqWiden
  <2> QED BY <1>5, <2>1, <2>2, <2>3
<1> QED BY <1>3, <1>4, <1>5

(* capture_length_uniform names a capture of another length than the       *)
(* first.                                                                  *)
LEMMA CaptureLengthNames ==
    ASSUME NEW f, NEW st, NEW units, NEW e
    PROVE  LET s == CaptureLengthRejections(f, st, units, e)
           IN  /\ s \in Seq(Of({"capture_length_uniform"}, {e}))
               /\ Names(s, "capture_length_uniform", {e})
                      <=> /\ FrameDeclares(f, "capture_length_uniform")
                          /\ st.captureLength # Absent
                          /\ units # st.captureLength
<1> DEFINE r == Fatal("capture_length_uniform", e)
<1>1. r \in Of({"capture_length_uniform"}, {e})
  BY RejectionTypes DEF Severities, Repairs
<1> HIDE DEF r
<1> QED BY <1>1, OneRejection DEF CaptureLengthRejections, r

-----------------------------------------------------------------------------
(* What the rules about time report of an element of one frame: under      *)
(* which of them, and at which element.  capture_slot looks back at the    *)
(* open capture and names that one.                                        *)
TimeIds == {"start_spacing", "schedule_grid", "capture_slot", "capture_length_uniform"}
               \cup RepeatRules

NotedAs(el) ==
    CASE el.kind = "play" -> "output"
      [] el.kind = "capture" -> "capture"
      [] el.kind = "set_frequency" -> "frequency"
      [] el.kind = "shift_phase" -> "phase"
      [] OTHER -> "none"

NoteFires(f, st, e, kind, rule, elements) ==
    \/ rule = "start_spacing" /\ e \in elements /\ Crowded(f, st)
    \/ rule \in RepeatRules /\ e \in elements /\ Repeats(f, st, kind, rule)
    \/ /\ rule = "capture_slot" /\ st.openCaptureElement \in elements
       /\ SettlesSlot(f, st) /\ SlotBroken(f, ToTicks(f, st.clock - st.openCapture))

OffGridHere(el) ==
    \/ el.kind \in Outputs /\ OffSchedule(el.frame, states[el.frame])
    \/ el.kind = "delay" /\ el.duration >= 0 /\ ~OnLattice(el.frame, el.duration)

OddLength(el) ==
    LET f == el.frame
    IN  /\ el.kind = "capture" /\ FrameDeclares(f, "capture_length_uniform")
        /\ states[f].captureLength # Absent
        /\ DurationUnits(f, el.duration) # states[f].captureLength

Fires(el, rule, elements) ==
    \/ /\ el.kind \in Operations
       /\ NoteFires(el.frame, states[el.frame], Element, NotedAs(el), rule, elements)
    \/ rule = "schedule_grid" /\ Element \in elements /\ OffGridHere(el)
    \/ rule = "capture_length_uniform" /\ Element \in elements /\ OddLength(el)

(* The rules an element is checked against, unlike a budget's. *)
ElementRules == TimeIds \cup ValueRules \cup DurationRules

Flagged == Of(ElementRules, Nat)

Reports(el, s) ==
    /\ s \in Seq(Flagged) /\ Once(s)
    /\ \A rule \in TimeIds : \A elements : Names(s, rule, elements) <=> Fires(el, rule, elements)

(* The rules are coverage classes. *)
LEMMA RulesAreClasses ==
    ElementRules \subseteq Classes \ {"negative_time"}
<1>1. \A i \in 1 .. 22 : CoverageClasses[i] = RuleIds[i] /\ i \in DOMAIN CoverageClasses
  BY DEF CoverageClasses, RuleIds
<1>2. \A i \in 1 .. 22 : RuleIds[i] \in Classes
  BY <1>1 DEF Classes
<1>3. /\ RuleIds[1] = "pulse_length_range" /\ RuleIds[2] = "pulse_length_grid"
      /\ RuleIds[3] = "readout_length_range" /\ RuleIds[4] = "frequency_range"
      /\ RuleIds[5] = "frequency_resolution" /\ RuleIds[6] = "phase_resolution"
      /\ RuleIds[7] = "amplitude_range" /\ RuleIds[8] = "amplitude_resolution"
      /\ RuleIds[9] = "envelope_sample_grid" /\ RuleIds[10] = "envelope_amplitude"
      /\ RuleIds[11] = "envelope_memory" /\ RuleIds[12] = "schedule_grid"
      /\ RuleIds[13] = "negative_duration"
      /\ RuleIds[15] = "mux_tone_mask" /\ RuleIds[16] = "mux_tone_count"
      /\ RuleIds[17] = "start_spacing" /\ RuleIds[18] = "frequency_update_spacing"
      /\ RuleIds[19] = "capture_spacing" /\ RuleIds[20] = "capture_length_uniform"
      /\ RuleIds[21] = "envelope_duration_exact" /\ RuleIds[22] = "capture_slot"
  BY DEF RuleIds
<1> HIDE DEF Classes
<1> QED BY <1>2, <1>3 DEF ElementRules, TimeIds, RepeatRules, ValueRules, PlainRules, DurationRules

(* What an element is rejected for is a rejection. *)
LEMMA FlaggedRejected ==
    ASSUME NEW s \in Seq(Flagged) PROVE s \in Seq(Rejected)
<1>1. Flagged \subseteq Rejected
  BY RulesAreClasses DEF Of, Rejected, Flagged
<1> QED BY <1>1, SeqWiden

(* Rejections of an element's rules at a place of the program.             *)
LEMMA OfIsFlagged ==
    ASSUME NEW rules \in SUBSET ElementRules, NEW e \in Nat,
           NEW s \in Seq(Of(rules, {e}))
    PROVE  s \in Seq(Flagged)
<1>1. Of(rules, {e}) \subseteq Flagged
  BY DEF Of, Flagged
<1> QED BY <1>1, SeqWiden

(* Counting an element changes nothing a rule looks at. *)
LEMMA CountedLooksSame ==
    ASSUME NEW f, NEW st \in FrameRecord, NEW e, NEW kind, NEW rule, NEW elements
    PROVE  NoteFires(f, Counted(st), e, kind, rule, elements)
               <=> NoteFires(f, st, e, kind, rule, elements)
<1> DEFINE n == Counted(st)
<1>1. /\ n.clock = st.clock /\ n.lastEvent = st.lastEvent
      /\ n.lastFreqUpdate = st.lastFreqUpdate /\ n.lastCapture = st.lastCapture
      /\ n.openCapture = st.openCapture /\ n.openCaptureElement = st.openCaptureElement
  BY DEF Counted, FrameRecord
<1> HIDE DEF n
<1> QED BY <1>1 DEF n, NoteFires, Crowded, Repeats, PreviousEvent, Crowds, SettlesSlot

(* note_event reports the rules that fire for it, and a capture once.      *)
LEMMA NoteNames ==
    ASSUME NEW f, NEW st \in FrameRecord, NEW e \in Nat, NEW kind
    PROVE  LET s == NoteRejections(f, st, e, kind)
           IN  /\ s \in Seq(Flagged) /\ Once(s)
               /\ \A rule \in TimeIds : \A elements :
                     Names(s, rule, elements) <=> NoteFires(f, st, e, kind, rule, elements)
<1> DEFINE slot   == SlotRejections(f, st)
           start  == StartRejections(f, st, e)
           repeat == KindRejections(f, st, e, kind)
           older  == st.openCaptureElement
           broken == SettlesSlot(f, st) /\ SlotBroken(f, ToTicks(f, st.clock - st.openCapture))
<1>1. older \in Nat
  BY DEF FrameRecord
<1>2. /\ slot \in Seq(Of({"capture_slot"}, {older}))
      /\ Names(slot, "capture_slot", {older}) <=> broken
  BY SlotNames
<1>3. /\ start \in Seq(Of({"start_spacing"}, {e}))
      /\ Names(start, "start_spacing", {e}) <=> Crowded(f, st)
  BY StartNames
<1>4. /\ repeat \in Seq(Of(RepeatRules, {e}))
      /\ \A rule \in RepeatRules : Names(repeat, rule, {e}) <=> Repeats(f, st, kind, rule)
  BY KindNames
<1>5. slot \in Seq(Flagged) /\ start \in Seq(Flagged) /\ repeat \in Seq(Flagged)
  <2>1. /\ {"capture_slot"} \subseteq TimeIds /\ {"start_spacing"} \subseteq TimeIds
        /\ RepeatRules \subseteq TimeIds
    BY DEF TimeIds
  <2> HIDE DEF slot, start, repeat, older
  <2> QED BY <1>1, <1>2, <1>3, <1>4, <2>1, OfIsFlagged DEF ElementRules
<1>6. ASSUME NEW rule \in TimeIds, NEW elements
      PROVE  /\ Names(slot, rule, elements)
                    <=> rule = "capture_slot" /\ broken /\ older \in elements
             /\ Names(start, rule, elements)
                    <=> rule = "start_spacing" /\ Crowded(f, st) /\ e \in elements
             /\ Names(repeat, rule, elements)
                    <=> rule \in RepeatRules /\ Repeats(f, st, kind, rule) /\ e \in elements
  <2> HIDE DEF slot, start, repeat, older, broken
  <2>1. /\ Names(slot, rule, elements) => rule \in {"capture_slot"}
        /\ Names(start, rule, elements) => rule \in {"start_spacing"}
        /\ Names(repeat, rule, elements) => rule \in RepeatRules
    BY <1>2, <1>3, <1>4, NamesOnly
  <2>2. /\ Names(slot, rule, elements) <=> Names(slot, rule, {older}) /\ older \in elements
        /\ Names(start, rule, elements) <=> Names(start, rule, {e}) /\ e \in elements
        /\ Names(repeat, rule, elements) <=> Names(repeat, rule, {e}) /\ e \in elements
    BY <1>2, <1>3, <1>4, NamesAt
  <2> QED BY <1>2, <1>3, <1>4, <2>1, <2>2
<1>7. NoteRejections(f, st, e, kind) = slot \o start \o repeat
  BY DEF NoteRejections
<1>10. Once(slot)
  BY LoneWhen DEF SlotRejections, Once
<1> HIDE DEF slot, start, repeat
<1>11. Silent(start) /\ Silent(repeat)
  <2>1. "capture_slot" \in TimeIds /\ "capture_slot" \notin RepeatRules
    BY DEF TimeIds, RepeatRules
  <2> QED BY <1>6, <2>1 DEF Silent
<1>8. slot \o start \in Seq(Flagged) /\ slot \o start \o repeat \in Seq(Flagged)
  BY <1>5, ConcatProperties
<1>9. ASSUME NEW rule \in TimeIds, NEW elements
      PROVE  Names(slot \o start \o repeat, rule, elements)
                 <=> NoteFires(f, st, e, kind, rule, elements)
  <2>1. Names(slot \o start, rule, elements)
            <=> Names(slot, rule, elements) \/ Names(start, rule, elements)
    BY <1>5, NamesConcat
  <2>2. Names(slot \o start \o repeat, rule, elements)
            <=> Names(slot \o start, rule, elements) \/ Names(repeat, rule, elements)
    <3> DEFINE upTo == slot \o start
    <3>1. upTo \in Seq(Flagged) /\ repeat \in Seq(Flagged)
      BY <1>5, <1>8
    <3> HIDE DEF upTo
    <3>2. Names(upTo \o repeat, rule, elements)
              <=> Names(upTo, rule, elements) \/ Names(repeat, rule, elements)
      BY <3>1, NamesConcat
    <3> QED BY <3>2 DEF upTo
  <2> QED BY <1>6, <2>1, <2>2 DEF NoteFires
<1>12. Once(slot \o start \o repeat)
  <2> DEFINE upTo == slot \o start
  <2>1. Once(upTo)
    BY <1>5, <1>10, <1>11, OnceSilent, OnceMore
  <2>2. upTo \in Seq(Flagged)
    BY <1>8
  <2> HIDE DEF upTo
  <2>3. Once(upTo \o repeat)
    BY <1>5, <1>11, <2>1, <2>2, OnceSilent, OnceMore
  <2> QED BY <2>3 DEF upTo
<1> QED BY <1>7, <1>8, <1>9, <1>12

(* A sequence about other rules adds nothing to what those of time say. *)
LEMMA OthersSilent ==
    ASSUME NEW rules \in SUBSET (ValueRules \cup DurationRules), NEW e \in Nat,
           NEW s \in Seq(Of(rules, {e}))
    PROVE  /\ s \in Seq(Flagged) /\ Silent(s)
           /\ \A rule \in TimeIds : \A elements : ~Names(s, rule, elements)
<1>1. rules \in SUBSET ElementRules /\ rules \cap TimeIds = {}
  BY DEF ElementRules, TimeIds, RepeatRules, ValueRules, PlainRules, DurationRules
<1>2. s \in Seq(Flagged)
  BY <1>1, OfIsFlagged
<1>3. ASSUME NEW rule \in TimeIds, NEW elements PROVE ~Names(s, rule, elements)
  BY <1>1, NamesOnly
<1>4. "capture_slot" \in TimeIds
  BY DEF TimeIds
<1> QED BY <1>2, <1>3, <1>4 DEF Silent

(* What every play and capture reports, its values and envelope apart. *)
LEMMA OutputNames ==
    ASSUME IInv, NEW el \in ElementSet, NEW kind \in Outputs, Reads(el, kind)
    PROVE  LET s == OutputRejections(el, states[el.frame], NotedAs(el))
           IN  /\ s \in Seq(Flagged) /\ Once(s)
               /\ \A rule \in TimeIds : \A elements :
                     Names(s, rule, elements)
                         <=> Fires(el, rule, elements) /\ rule # "capture_length_uniform"
<1> DEFINE f  == el.frame
           st == states[f]
           e  == Element
           first == FirstUseRejections(f, st, e)
           grid  == StartGridRejections(f, st, e)
           note  == NoteRejections(f, st, e, NotedAs(el))
           moves == AdvanceRejections(f, el.duration, e, TRUE)
<1>1. /\ f \in Frames /\ st \in FrameRecord /\ e \in Nat /\ Bound /\ el.kind = kind
      /\ el.duration \in Int
  BY Reading DEF Outputs, Bound
<1>2. first \in Seq(Of(ValueRules, {e}))
  BY <1>1, FirstUseOf, ValueOf
<1>3. /\ grid \in Seq(Of({"schedule_grid"}, {e}))
      /\ Names(grid, "schedule_grid", {e}) <=> OffSchedule(f, st)
  BY <1>1, StartGridNames
<1>4. /\ note \in Seq(Flagged) /\ Once(note)
      /\ \A rule \in TimeIds : \A elements :
            Names(note, rule, elements) <=> NoteFires(f, st, e, NotedAs(el), rule, elements)
  BY <1>1, NoteNames
<1>5. moves \in Seq(Of(DurationRules, {e}))
  BY <1>1, AdvanceNames
<1>6. /\ first \in Seq(Flagged) /\ moves \in Seq(Flagged) /\ Silent(first) /\ Silent(moves)
      /\ \A rule \in TimeIds : \A elements : ~Names(first, rule, elements) /\ ~Names(moves, rule, elements)
  <2> HIDE DEF first, moves, e
  <2> QED BY <1>1, <1>2, <1>5, OthersSilent
<1>7. /\ grid \in Seq(Flagged)
      /\ \A rule \in TimeIds : \A elements :
            Names(grid, rule, elements)
                <=> rule = "schedule_grid" /\ OffSchedule(f, st) /\ e \in elements
  <2> HIDE DEF grid, e, f, st
  <2>1. {"schedule_grid"} \in SUBSET ElementRules
    BY DEF ElementRules, TimeIds
  <2>2. grid \in Seq(Flagged)
    BY <1>1, <1>3, <2>1, OfIsFlagged
  <2>3. ASSUME NEW rule \in TimeIds, NEW elements
        PROVE  Names(grid, rule, elements)
                   <=> rule = "schedule_grid" /\ OffSchedule(f, st) /\ e \in elements
    <3>1. Names(grid, rule, elements) => rule \in {"schedule_grid"}
      BY <1>3, NamesOnly
    <3>2. Names(grid, rule, elements) <=> Names(grid, rule, {e}) /\ e \in elements
      BY <1>3, NamesAt
    <3> QED BY <1>3, <3>1, <3>2
  <2> QED BY <2>2, <2>3
<1>8. OutputRejections(el, st, NotedAs(el)) = first \o grid \o note \o moves
  BY DEF OutputRejections
<1> HIDE DEF first, grid, note, moves
<1>9. /\ first \o grid \in Seq(Flagged)
      /\ first \o grid \o note \in Seq(Flagged)
      /\ first \o grid \o note \o moves \in Seq(Flagged)
  BY <1>4, <1>6, <1>7, ConcatProperties
<1>10. ASSUME NEW rule \in TimeIds, NEW elements
       PROVE  Names(first \o grid \o note \o moves, rule, elements)
                  <=> Fires(el, rule, elements) /\ rule # "capture_length_uniform"
  <2>1. Names(first \o grid \o note \o moves, rule, elements)
            <=> \/ Names(first, rule, elements) \/ Names(grid, rule, elements)
                \/ Names(note, rule, elements) \/ Names(moves, rule, elements)
    <3>1. Names(first \o grid, rule, elements)
              <=> Names(first, rule, elements) \/ Names(grid, rule, elements)
      BY <1>6, <1>7, NamesConcat
    <3>2. Names(first \o grid \o note, rule, elements)
              <=> Names(first \o grid, rule, elements) \/ Names(note, rule, elements)
      <4> DEFINE upTo == first \o grid
      <4>1. upTo \in Seq(Flagged) /\ note \in Seq(Flagged)
        BY <1>4, <1>9
      <4> HIDE DEF upTo
      <4>2. Names(upTo \o note, rule, elements)
                <=> Names(upTo, rule, elements) \/ Names(note, rule, elements)
        BY <4>1, NamesConcat
      <4> QED BY <4>2 DEF upTo
    <3>3. Names(first \o grid \o note \o moves, rule, elements)
              <=> Names(first \o grid \o note, rule, elements) \/ Names(moves, rule, elements)
      <4> DEFINE upTo == first \o grid \o note
      <4>1. upTo \in Seq(Flagged) /\ moves \in Seq(Flagged)
        BY <1>6, <1>9
      <4> HIDE DEF upTo
      <4>2. Names(upTo \o moves, rule, elements)
                <=> Names(upTo, rule, elements) \/ Names(moves, rule, elements)
        BY <4>1, NamesConcat
      <4> QED BY <4>2 DEF upTo
    <3> QED BY <3>1, <3>2, <3>3
  <2>2. Names(first \o grid \o note \o moves, rule, elements)
            <=> \/ rule = "schedule_grid" /\ OffSchedule(f, st) /\ e \in elements
                \/ NoteFires(f, st, e, NotedAs(el), rule, elements)
    BY <1>4, <1>6, <1>7, <2>1
  <2>3. el.kind \in Outputs /\ el.kind \in Operations /\ el.kind # "delay"
    BY <1>1 DEF Outputs, Operations
  <2>4. OffGridHere(el) <=> OffSchedule(f, st)
    BY <2>3 DEF OffGridHere
  <2>5. NoteFires(f, st, e, NotedAs(el), rule, elements) => rule # "capture_length_uniform"
    BY DEF NoteFires, RepeatRules
  <2> QED BY <2>2, <2>3, <2>4, <2>5 DEF Fires
<1>11. Once(first \o grid \o note \o moves)
  <2>1. Silent(grid)
    <3>1. "capture_slot" \in TimeIds
      BY DEF TimeIds
    <3>2. \A elements : ~Names(grid, "capture_slot", elements)
      <4> HIDE DEF grid
      <4> QED BY <1>7, <3>1
    <3> HIDE DEF grid
    <3> QED BY <3>2 DEF Silent
  <2> DEFINE look == first \o grid
             upTo == look \o note
  <2>2. look \in Seq(Flagged) /\ Silent(look)
    BY <1>6, <1>7, <2>1, SilentMore, ConcatProperties
  <2> HIDE DEF look
  <2>3. upTo \in Seq(Flagged) /\ Once(upTo)
    BY <1>4, <2>2, OnceSilent, OnceMore, ConcatProperties
  <2> HIDE DEF upTo
  <2>4. Once(upTo \o moves)
    BY <1>6, <2>3, OnceSilent, OnceMore
  <2> QED BY <2>4 DEF upTo, look
<1> QED BY <1>8, <1>9, <1>10, <1>11

(* The members of a barrier are listed. *)
LEMMA MembersSequence ==
    ASSUME NEW el \in ElementSet, el.kind = "barrier"
    PROVE  Members(el) \in Seq(Frames)
<1>1. el.frames \in Seq(Frames)
  BY ElementAssumption
<1>2. [g \in Frames |-> g] \in Seq(Frames)
  <2>1. Frames = 1 .. Len(FrameDefs) /\ Len(FrameDefs) \in Nat
    BY FrameAssumption, LenProperties DEF Frames
  <2> QED BY <2>1, SeqDef
<1> QED BY <1>1, <1>2 DEF Members

(* Appending in parts is appending the whole. *)
LEMMA SinkGrows ==
    ASSUME NEW k \in Seq(Rejected), NEW s \in Seq(Flagged), NEW t \in Seq(Flagged)
    PROVE  k \o s \o t = k \o (s \o t) /\ s \o t \in Seq(Flagged)
<1>1. s \in Seq(Rejected) /\ t \in Seq(Rejected)
  BY FlaggedRejected
<1> QED BY <1>1, ConcatAssociative, ConcatProperties

(* Silent additions leave a report what it says. *)
LEMMA ReportsMore ==
    ASSUME NEW el, NEW s \in Seq(Flagged), NEW t \in Seq(Flagged), Once(s), Silent(t),
           \A rule \in TimeIds : \A elements :
               Names(s, rule, elements) \/ Names(t, rule, elements) <=> Fires(el, rule, elements)
    PROVE  Reports(el, s \o t)
<1>1. s \o t \in Seq(Flagged) /\ Once(s \o t)
  BY OnceSilent, OnceMore, ConcatProperties
<1>2. \A rule, elements : Names(s \o t, rule, elements)
                              <=> Names(s, rule, elements) \/ Names(t, rule, elements)
  BY NamesConcat
<1> QED BY <1>1, <1>2 DEF Reports

(* A capture reports what its rules say.                                   *)
LEMMA CaptureReports ==
    ASSUME IInv, NEW el \in ElementSet, Capture(el), ~ToolError, sink \in Seq(Rejected)
    PROVE  \E s : Reports(el, s) /\ sink' = sink \o s
<1> DEFINE f == el.frame
           s == OutputRejections(el, states[f], "capture")
           t == CaptureLengthRejections(f, states[f], DurationUnits(f, el.duration), Element)
<1>1. Reads(el, "capture") /\ sink' = sink \o s \o t
  BY DEF Capture
<1>2. el.kind = "capture" /\ Element \in Nat /\ NotedAs(el) = "capture"
  BY <1>1, Reading DEF NotedAs
<1>3. /\ s \in Seq(Flagged) /\ Once(s)
      /\ \A rule \in TimeIds : \A elements :
            Names(s, rule, elements)
                <=> Fires(el, rule, elements) /\ rule # "capture_length_uniform"
  <2> HIDE DEF s
  <2> QED BY <1>1, <1>2, OutputNames DEF Outputs, s
<1>4. /\ t \in Seq(Of({"capture_length_uniform"}, {Element}))
      /\ Names(t, "capture_length_uniform", {Element}) <=> OddLength(el)
  BY <1>2, CaptureLengthNames DEF OddLength
<1> HIDE DEF s, t
<1>5. t \in Seq(Flagged)
  <2>1. {"capture_length_uniform"} \in SUBSET ElementRules
    BY DEF ElementRules, TimeIds
  <2> QED BY <1>2, <1>4, <2>1, OfIsFlagged
<1>6. ASSUME NEW rule \in TimeIds, NEW elements
      PROVE  Names(s, rule, elements) \/ Names(t, rule, elements) <=> Fires(el, rule, elements)
  <2>1. Names(t, rule, elements) => rule \in {"capture_length_uniform"}
    BY <1>4, NamesOnly
  <2>2. Names(t, rule, elements) <=> Names(t, rule, {Element}) /\ Element \in elements
    BY <1>4, NamesAt
  <2>3. rule = "capture_length_uniform" =>
            (Fires(el, rule, elements) <=> Element \in elements /\ OddLength(el))
    BY DEF Fires, NoteFires, RepeatRules
  <2> QED BY <1>3, <1>4, <2>1, <2>2, <2>3
<1>7. Reports(el, s \o t)
  <2>1. Silent(t)
    BY <1>4, NamesOnly DEF Silent
  <2> QED BY <1>3, <1>5, <1>6, <2>1, ReportsMore
<1>8. sink' = sink \o (s \o t)
  BY <1>1, <1>3, <1>5, SinkGrows
<1> QED BY <1>7, <1>8

(* A play reports what its rules say.                                      *)
LEMMA PlayReports ==
    ASSUME IInv, NEW el \in ElementSet, Play(el), ~ToolError, sink \in Seq(Rejected)
    PROVE  \E s : Reports(el, s) /\ sink' = sink \o s
<1> DEFINE f == el.frame
           s == OutputRejections(el, states[f], "output")
<1>1. Reads(el, "play") /\ (PlayWaveform(el) \/ PlayTones(el))
  BY DEF Play
<1>2. /\ el.kind = "play" /\ Element \in Nat /\ f \in Frames /\ Bound
      /\ NotedAs(el) = "output"
  BY <1>1, Reading DEF NotedAs, Bound
<1>3. /\ s \in Seq(Flagged) /\ Once(s)
      /\ \A rule \in TimeIds : \A elements :
            Names(s, rule, elements)
                <=> Fires(el, rule, elements) /\ rule # "capture_length_uniform"
  <2> HIDE DEF s
  <2> QED BY <1>1, <1>2, OutputNames DEF Outputs, s
<1>4. ASSUME NEW rule \in TimeIds, NEW elements
      PROVE  Names(s, rule, elements) <=> Fires(el, rule, elements)
  <2>1. ~Fires(el, "capture_length_uniform", elements)
    BY <1>2 DEF Fires, NoteFires, RepeatRules, OddLength
  <2> HIDE DEF s
  <2> QED BY <1>3, <2>1
<1>5. ASSUME NEW t \in Seq(Of(ValueRules, {Element})), sink' = sink \o s \o t
      PROVE  \E u : Reports(el, u) /\ sink' = sink \o u
  <2> HIDE DEF s
  <2>1. t \in Seq(Flagged) /\ Silent(t) /\ \A rule \in TimeIds : \A elements : ~Names(t, rule, elements)
    BY <1>2, <1>5, OthersSilent
  <2>2. Reports(el, s \o t)
    BY <1>3, <1>4, <2>1, ReportsMore
  <2>3. sink' = sink \o (s \o t)
    BY <1>3, <1>5, <2>1, SinkGrows
  <2> QED BY <2>2, <2>3
<1>6. CASE PlayWaveform(el)
  <2> DEFINE t == WaveformRejections(f, el.waveform, DurationUnits(f, el.duration), Element)
  <2>1. sink' = sink \o s \o t
    BY <1>6 DEF PlayWaveform
  <2>2. t \in Seq(Of(ValueRules, {Element}))
    BY <1>2, WaveformOf
  <2> HIDE DEF s, t
  <2> QED BY <1>5, <2>1, <2>2
<1>7. CASE PlayTones(el)
  <2> DEFINE S == Of(ValueRules, {Element})
             table == IF ChecksTones(ChannelOf(f)) THEN ToneRejections(ChannelOf(f), Element)
                      ELSE << >>
             mask == MaskRejections(ChannelOf(f), el.mask, Element)
  <2>1. sink' = sink \o s \o table \o mask /\ HasTones(ChannelOf(f))
    BY <1>7 DEF PlayTones
  <2>2. ChannelOf(f) \in DOMAIN Channels /\ el.mask \in Seq(Nat)
    BY <1>2, <2>1, FrameChannel, ElementAssumption
  <2>3. table \in Seq(S)
    BY <1>2, <2>2, ToneOf, ValueOf, EmptySeq
  <2>4. mask \in Seq(S)
    BY <1>2, <2>2, MaskOf, ValueOf
  <2> HIDE DEF s, table, mask
  <2>5. table \o mask \in Seq(S)
    <3> HIDE DEF S
    <3> QED BY <2>3, <2>4, ConcatProperties
  <2>6. table \in Seq(Flagged) /\ mask \in Seq(Flagged)
    BY <1>2, <2>3, <2>4, OthersSilent
  <2>7. sink \o s \in Seq(Rejected)
    BY <1>3, ConcatProperties, FlaggedRejected
  <2>8. sink' = sink \o s \o (table \o mask)
    BY <2>1, <2>6, <2>7, SinkGrows
  <2> QED BY <1>5, <2>5, <2>8
<1> QED BY <1>1, <1>6, <1>7

(* A delay reports what its rules say.                                     *)
LEMMA DelayReports ==
    ASSUME IInv, NEW el \in ElementSet, Delay(el), ~ToolError, sink \in Seq(Rejected)
    PROVE  \E s : Reports(el, s) /\ sink' = sink \o s
<1> DEFINE f == el.frame
           s == AdvanceRejections(f, el.duration, Element, FALSE)
<1>1. Reads(el, "delay") /\ sink' = sink \o s
  BY DEF Delay
<1>2. /\ el.kind = "delay" /\ Element \in Nat /\ f \in Frames /\ Bound
      /\ el.duration \in Int
  BY <1>1, Reading DEF Bound
<1>3. /\ s \in Seq(Of(DurationRules \cup {"schedule_grid"}, {Element}))
      /\ Names(s, "schedule_grid", {Element})
             <=> el.duration >= 0 /\ ~OnLattice(f, el.duration)
  BY <1>2, AdvanceNames
<1> HIDE DEF s
<1>4. s \in Seq(Flagged)
  <2>1. DurationRules \cup {"schedule_grid"} \in SUBSET ElementRules
    BY DEF ElementRules, TimeIds
  <2> QED BY <1>2, <1>3, <2>1, OfIsFlagged
<1>5. ASSUME NEW rule \in TimeIds, NEW elements
      PROVE  Names(s, rule, elements) <=> Fires(el, rule, elements)
  <2>1. Names(s, rule, elements) => rule \in DurationRules \cup {"schedule_grid"}
    BY <1>3, NamesOnly
  <2>2. Names(s, rule, elements) <=> Names(s, rule, {Element}) /\ Element \in elements
    BY <1>3, NamesAt
  <2>3. rule \notin DurationRules
    BY DEF TimeIds, RepeatRules, DurationRules
  <2>4. Fires(el, rule, elements)
            <=> /\ rule = "schedule_grid" /\ Element \in elements
                /\ el.duration >= 0 /\ ~OnLattice(f, el.duration)
    BY <1>2 DEF Fires, OffGridHere, OddLength, Operations, Outputs
  <2> QED BY <1>3, <2>1, <2>2, <2>3, <2>4
<1>6. Silent(s)
  BY <1>3, NamesOnly DEF Silent, DurationRules
<1> QED BY <1>1, <1>4, <1>5, <1>6, OnceSilent DEF Reports

(* An update of a frame's phase or frequency is noted and checked. *)
LEMMA UpdateReports ==
    ASSUME IInv, NEW el \in ElementSet, NEW kind \in {"shift_phase", "set_frequency"},
           Reads(el, kind), sink \in Seq(Rejected), NEW t \in Seq(Of(ValueRules, {Element})),
           sink' = sink \o NoteRejections(el.frame, Counted(states[el.frame]), Element, NotedAs(el))
                        \o t
    PROVE  \E s : Reports(el, s) /\ sink' = sink \o s
<1> DEFINE f == el.frame
           st == states[f]
           s == NoteRejections(f, Counted(st), Element, NotedAs(el))
<1>1. /\ el.kind = kind /\ Element \in Nat /\ st \in FrameRecord
      /\ Counted(st) \in FrameRecord
  BY Reading
<1>2. /\ s \in Seq(Flagged) /\ Once(s)
      /\ \A rule \in TimeIds : \A elements :
            Names(s, rule, elements)
                <=> NoteFires(f, Counted(st), Element, NotedAs(el), rule, elements)
  BY <1>1, NoteNames
<1>3. t \in Seq(Flagged) /\ Silent(t) /\ \A rule \in TimeIds : \A elements : ~Names(t, rule, elements)
  BY <1>1, OthersSilent
<1>4. ASSUME NEW rule \in TimeIds, NEW elements
      PROVE  Names(s, rule, elements) \/ Names(t, rule, elements) <=> Fires(el, rule, elements)
  <2>1. NoteFires(f, Counted(st), Element, NotedAs(el), rule, elements)
            <=> NoteFires(f, st, Element, NotedAs(el), rule, elements)
    BY <1>1, CountedLooksSame
  <2>2. ~OffGridHere(el) /\ ~OddLength(el) /\ el.kind \in Operations
    BY <1>1 DEF OffGridHere, OddLength, Outputs, Operations
  <2> HIDE DEF s
  <2> QED BY <1>2, <1>3, <2>1, <2>2 DEF Fires
<1> HIDE DEF s
<1>5. Reports(el, s \o t)
  BY <1>2, <1>3, <1>4, ReportsMore
<1>6. sink' = sink \o (s \o t)
  BY <1>2, <1>3, SinkGrows DEF s
<1> QED BY <1>5, <1>6

(* Every element of one frame reports what its rules say. *)
LEMMA ElementReports ==
    ASSUME IInv, NEW el \in ElementSet, ReadElement(el), el.kind # "barrier", ~ToolError,
           sink \in Seq(Rejected)
    PROVE  \E s : Reports(el, s) /\ sink' = sink \o s
<1> DEFINE f == el.frame
<1>1. CASE ShiftPhase(el)
  <2>1. /\ Reads(el, "shift_phase")
        /\ sink' = sink \o NoteRejections(f, Counted(states[f]), Element, "phase")
                        \o PhaseRejections(ChannelOf(f), el.phase, Element)
    BY <1>1 DEF ShiftPhase
  <2>2. NotedAs(el) = "phase" /\ ChannelOf(f) \in DOMAIN Device
    BY <2>1, Reading, FrameChannel DEF NotedAs
  <2>3. PhaseRejections(ChannelOf(f), el.phase, Element) \in Seq(Of(ValueRules, {Element}))
    BY <2>2, PhaseOf, ValueOf
  <2> QED BY <2>1, <2>2, <2>3, UpdateReports
<1>2. CASE SetFrequency(el)
  <2>1. /\ Reads(el, "set_frequency")
        /\ sink' = sink \o NoteRejections(f, Counted(states[f]), Element, "frequency")
                        \o FrequencyRejections(ChannelOf(f), el.frequency, Element)
    BY <1>2 DEF SetFrequency
  <2>2. NotedAs(el) = "frequency" /\ ChannelOf(f) \in DOMAIN Device
    BY <2>1, Reading, FrameChannel DEF NotedAs
  <2>3. FrequencyRejections(ChannelOf(f), el.frequency, Element) \in Seq(Of(ValueRules, {Element}))
    BY <2>2, FrequencyOf, ValueOf
  <2> QED BY <2>1, <2>2, <2>3, UpdateReports
<1>3. CASE Barrier(el)
  BY <1>3 DEF Barrier, Reads
<1> QED BY <1>1, <1>2, <1>3, DelayReports, CaptureReports, PlayReports DEF ReadElement

(* A barrier that misses the lattice of a member is reported once for each *)
(* mention of such a member.                                               *)
LEMMA BarrierReports ==
    ASSUME IInv, NEW el \in ElementSet, el.kind = "barrier", Bound, NEW t
    PROVE  LET s == BarrierRejections(el, t)
           IN  /\ s \in Seq(Flagged)
               /\ \A rule, elements :
                     Names(s, rule, elements)
                         <=> /\ rule = "schedule_grid" /\ Element \in elements
                             /\ \E f \in MemberSet(el) : ~Divides(FrameUnit(f), t)
<1> DEFINE S == Of({"schedule_grid"}, {Element})
           n == Len(Members(el))
           moves(f) == EitherWay("schedule_grid", ScheduleSeverity(ChannelOf(f)),
                                 "quantize_time", Element)
           off(i) == Members(el)[i] \in OffLattice(el, t)
           ss == [i \in DOMAIN Members(el) |-> When(off(i), moves(Members(el)[i]))]
<1>1. DOMAIN Members(el) = 1 .. n /\ n \in Nat
  BY MembersSequence, LenProperties
<1>2. ASSUME NEW i \in 1 .. n PROVE moves(Members(el)[i]) \in S
  <2>1. Members(el)[i] \in Frames
    BY <1>1, <1>2, MembersAreFrames DEF MemberSet
  <2>2. ScheduleSeverity(ChannelOf(Members(el)[i])) \in Severities
    BY <2>1, FrameChannel, DeclaredSeverity DEF Bound
  <2> QED BY <2>2, RejectionTypes DEF Repairs
<1>3. ASSUME NEW i \in 1 .. n, NEW rule, NEW elements
      PROVE  /\ ss[i] \in Seq(S)
             /\ Names(ss[i], rule, elements)
                    <=> off(i) /\ rule = "schedule_grid" /\ Element \in elements
  <2> DEFINE r == moves(Members(el)[i])
  <2>1. r.rule = "schedule_grid" /\ r.element = Element
    BY DEF EitherWay, Rejection
  <2>2. r \in S
    BY <1>2
  <2>3. ss[i] = When(off(i), r)
    BY <1>1
  <2> HIDE DEF r, S, ss
  <2>4. /\ When(off(i), r) \in Seq(S)
        /\ Names(When(off(i), r), rule, elements)
               <=> off(i) /\ r.rule = rule /\ r.element \in elements
    BY <2>2, WhenNames
  <2> QED BY <2>1, <2>3, <2>4
<1>4. ss \in [1 .. n -> Seq(S)]
  <2>1. DOMAIN ss = 1 .. n
    BY <1>1
  <2> HIDE DEF S
  <2>2. \A i \in 1 .. n : ss[i] \in Seq(S)
    BY <1>3
  <2>3. ss = [i \in 1 .. n |-> ss[i]]
    BY <1>1
  <2> HIDE DEF ss
  <2> QED BY <2>1, <2>2, <2>3
<1>5. BarrierRejections(el, t) = FlattenSeq(ss)
  BY DEF BarrierRejections
<1>6. ASSUME NEW rule, NEW elements
      PROVE  Names(FlattenSeq(ss), rule, elements)
                 <=> /\ rule = "schedule_grid" /\ Element \in elements
                     /\ \E i \in 1 .. n : off(i)
  <2>1. Names(FlattenSeq(ss), rule, elements) <=> \E i \in 1 .. n : Names(ss[i], rule, elements)
    <3> HIDE DEF ss, n, S
    <3> QED BY <1>1, <1>4, FlattenNames
  <2> HIDE DEF ss
  <2> QED BY <2>1, <1>3
<1>7. (\E i \in 1 .. n : off(i)) <=> \E f \in MemberSet(el) : ~Divides(FrameUnit(f), t)
  BY <1>1 DEF OffLattice, MemberSet
<1>8. FlattenSeq(ss) \in Seq(Flagged)
  <2>1. FlattenSeq(ss) \in Seq(S)
    <3> HIDE DEF ss, n, S
    <3> QED BY <1>1, <1>4, FlattenNames
  <2>2. {"schedule_grid"} \in SUBSET ElementRules
    BY DEF ElementRules, TimeIds
  <2>3. Element \in Nat
    BY ElementId DEF IInv
  <2> HIDE DEF ss
  <2> QED BY <2>1, <2>2, <2>3, OfIsFlagged
<1> QED BY <1>5, <1>6, <1>7, <1>8

-----------------------------------------------------------------------------
(* What a frame remembers of its elements: the state st, read when el      *)
(* comes, becomes after.                                                   *)
Recalls(el, st, after) ==
    /\ after.lastEvent = IF el.kind \in Operations THEN st.clock ELSE st.lastEvent
    /\ after.lastEventElement = IF el.kind \in Operations THEN Element
                                ELSE st.lastEventElement
    /\ after.lastFreqUpdate = IF el.kind = "set_frequency" THEN st.clock
                              ELSE st.lastFreqUpdate
    /\ after.lastCapture = IF el.kind = "capture" THEN st.clock ELSE st.lastCapture
    /\ after.openCapture = IF el.kind = "capture" THEN st.clock
                           ELSE IF el.kind \in Operations /\ SettlesSlot(el.frame, st)
                                THEN Absent
                           ELSE st.openCapture
    /\ after.openCaptureElement = IF el.kind = "capture" THEN Element
                                  ELSE st.openCaptureElement
    /\ after.captureLength = IF el.kind = "capture" /\ FixesLength(el.frame, st)
                             THEN DurationUnits(el.frame, el.duration)
                             ELSE st.captureLength

Remembers(el, st, after) ==
    /\ after \in FrameRecord
    /\ after.clock >= st.clock
    /\ Recalls(el, st, after)
    /\ after.frequency = IF el.kind = "set_frequency" THEN el.frequency ELSE st.frequency
    /\ after.freqChecked <=> \/ st.freqChecked
                             \/ el.kind = "set_frequency"
                             \/ el.kind \in Outputs /\ ~HasTones(ChannelOf(el.frame))

(* Two states that differ in what is counted or was looked at. *)
Alike(st, other) ==
    /\ other.clock = st.clock /\ other.frequency = st.frequency
    /\ other.lastEvent = st.lastEvent /\ other.lastEventElement = st.lastEventElement
    /\ other.lastFreqUpdate = st.lastFreqUpdate /\ other.lastCapture = st.lastCapture
    /\ other.openCapture = st.openCapture
    /\ other.openCaptureElement = st.openCaptureElement
    /\ other.captureLength = st.captureLength

(* Counting an element leaves a state alike.                               *)
LEMMA CountedAlike ==
    ASSUME NEW st \in FrameRecord
    PROVE  LET counted == Counted(st)
               output  == [Counted(st) EXCEPT !.nOutputs = @ + 1]
           IN  /\ counted \in FrameRecord /\ Alike(st, counted)
               /\ counted.freqChecked = st.freqChecked
               /\ output \in FrameRecord /\ Alike(st, output)
               /\ output.freqChecked = st.freqChecked
<1> DEFINE counted == Counted(st)
<1>1. counted \in FrameRecord /\ Alike(st, counted) /\ counted.freqChecked = st.freqChecked
  BY DEF Counted, FrameRecord, Alike
<1>2. PICK n \in Nat : n = counted.nOutputs + 1
  BY <1>1 DEF FrameRecord
<1> HIDE DEF counted
<1>3. LET output == [counted EXCEPT !.nOutputs = n]
      IN  output \in FrameRecord /\ Alike(counted, output)
          /\ output.freqChecked = counted.freqChecked
  BY <1>1 DEF FrameRecord, Alike
<1>4. [counted EXCEPT !.nOutputs = @ + 1] = [counted EXCEPT !.nOutputs = n]
  BY <1>2
<1> QED BY <1>1, <1>3, <1>4 DEF Alike, counted

(* So does the first use of a frame.                                       *)
LEMMA FirstUseAlike ==
    ASSUME NEW f, NEW st \in FrameRecord
    PROVE  /\ FirstUse(f, st) \in FrameRecord /\ Alike(st, FirstUse(f, st))
           /\ FirstUse(f, st).freqChecked <=> st.freqChecked \/ ~HasTones(ChannelOf(f))
  BY DEF FirstUse, FrameRecord, Alike

(* What note_event remembers. *)
LEMMA NotedRemembers ==
    ASSUME NEW f, NEW st \in FrameRecord, NEW e \in Nat, NEW kind
    PROVE  LET n == Noted(f, st, e, kind)
           IN  /\ n \in FrameRecord
               /\ n.clock = st.clock /\ n.frequency = st.frequency
               /\ n.lastEvent = st.clock /\ n.lastEventElement = e
               /\ n.lastFreqUpdate = IF kind = "frequency" THEN st.clock ELSE st.lastFreqUpdate
               /\ n.lastCapture = IF kind = "capture" THEN st.clock ELSE st.lastCapture
               /\ n.openCapture = IF kind = "capture" THEN st.clock
                                  ELSE IF SettlesSlot(f, st) THEN Absent ELSE st.openCapture
               /\ n.openCaptureElement = IF kind = "capture" THEN e ELSE st.openCaptureElement
               /\ n.captureLength = st.captureLength
               /\ n.freqChecked = st.freqChecked /\ n.phase = st.phase
<1> DEFINE freqUpdate == IF kind = "frequency" THEN st.clock ELSE st.lastFreqUpdate
           capture    == IF kind = "capture" THEN st.clock ELSE st.lastCapture
           open       == IF kind = "capture" THEN st.clock
                         ELSE IF SettlesSlot(f, st) THEN Absent ELSE st.openCapture
           opener     == IF kind = "capture" THEN e ELSE st.openCaptureElement
<1>1. Noted(f, st, e, kind) =
          [st EXCEPT !.lastEvent = st.clock, !.lastEventElement = e,
                     !.lastFreqUpdate = freqUpdate, !.lastCapture = capture,
                     !.openCapture = open, !.openCaptureElement = opener]
  BY DEF Noted
<1>2. Noted(f, st, e, kind) \in FrameRecord
  BY NotedRecord
<1> HIDE DEF freqUpdate, capture, open, opener
<1>3. LET n == Noted(f, st, e, kind)
      IN  /\ n.clock = st.clock /\ n.frequency = st.frequency
          /\ n.lastEvent = st.clock /\ n.lastEventElement = e
          /\ n.lastFreqUpdate = freqUpdate /\ n.lastCapture = capture
          /\ n.openCapture = open /\ n.openCaptureElement = opener
          /\ n.captureLength = st.captureLength
          /\ n.freqChecked = st.freqChecked /\ n.phase = st.phase
  BY <1>1 DEF FrameRecord
<1> QED BY <1>2, <1>3 DEF freqUpdate, capture, open, opener

(* An operation of a frame whose state looks like that one. *)
LEMMA NotedAlike ==
    ASSUME NEW el, el.kind \in Operations, NEW st \in FrameRecord, NEW other \in FrameRecord,
           Alike(st, other), Element \in Nat
    PROVE  LET n == Noted(el.frame, other, Element, NotedAs(el))
           IN  /\ n \in FrameRecord
               /\ n.clock = st.clock /\ n.frequency = st.frequency
               /\ n.lastEvent = st.clock /\ n.lastEventElement = Element
               /\ n.lastFreqUpdate = IF el.kind = "set_frequency" THEN st.clock
                                     ELSE st.lastFreqUpdate
               /\ n.lastCapture = IF el.kind = "capture" THEN st.clock ELSE st.lastCapture
               /\ n.openCapture = IF el.kind = "capture" THEN st.clock
                                  ELSE IF SettlesSlot(el.frame, st) THEN Absent
                                  ELSE st.openCapture
               /\ n.openCaptureElement = IF el.kind = "capture" THEN Element
                                         ELSE st.openCaptureElement
               /\ n.captureLength = st.captureLength
               /\ n.freqChecked = other.freqChecked /\ n.phase = other.phase
<1>1. /\ NotedAs(el) = "frequency" <=> el.kind = "set_frequency"
      /\ NotedAs(el) = "capture" <=> el.kind = "capture"
  BY DEF NotedAs, Operations, Outputs
<1>2. SettlesSlot(el.frame, other) <=> SettlesSlot(el.frame, st)
  BY DEF SettlesSlot, Alike
<1> QED BY <1>1, <1>2, NotedRemembers DEF Alike

(* A phase or frequency update of a frame, before its value is stored. *)
LEMMA UpdateRemembers ==
    ASSUME NEW el, el.kind \in {"shift_phase", "set_frequency"}, NEW st \in FrameRecord,
           Element \in Nat
    PROVE  LET n == Noted(el.frame, Counted(st), Element, NotedAs(el))
           IN  /\ n \in FrameRecord
               /\ n.clock = st.clock /\ n.frequency = st.frequency
               /\ n.freqChecked = st.freqChecked
               /\ Recalls(el, st, n)
<1> DEFINE counted == Counted(st)
           n == Noted(el.frame, counted, Element, NotedAs(el))
<1>1. counted \in FrameRecord /\ Alike(st, counted) /\ counted.freqChecked = st.freqChecked
  BY CountedAlike
<1> HIDE DEF counted
<1>2. el.kind \in Operations /\ el.kind # "capture"
  BY DEF Operations
<1>3. /\ n \in FrameRecord
      /\ n.clock = st.clock /\ n.frequency = st.frequency
      /\ n.lastEvent = st.clock /\ n.lastEventElement = Element
      /\ n.lastFreqUpdate = IF el.kind = "set_frequency" THEN st.clock
                            ELSE st.lastFreqUpdate
      /\ n.lastCapture = st.lastCapture
      /\ n.openCapture = IF SettlesSlot(el.frame, st) THEN Absent ELSE st.openCapture
      /\ n.openCaptureElement = st.openCaptureElement
      /\ n.captureLength = st.captureLength
      /\ n.freqChecked = counted.freqChecked
  BY <1>1, <1>2, NotedAlike
<1> HIDE DEF n
<1>4. Recalls(el, st, n)
  BY <1>2, <1>3 DEF Recalls
<1> QED BY <1>1, <1>3, <1>4 DEF counted, n

(* The state of an output, before the length of a capture is fixed. *)
LEMMA OutputRemembers ==
    ASSUME IInv, NEW el \in ElementSet, NEW kind \in Outputs, Reads(el, kind)
    PROVE  LET f     == el.frame
               st    == states[f]
               after == OutputState(el, NotedAs(el))
           IN  /\ after \in FrameRecord /\ after.clock >= st.clock
               /\ after.frequency = st.frequency
               /\ after.lastEvent = st.clock /\ after.lastEventElement = Element
               /\ after.lastFreqUpdate = st.lastFreqUpdate
               /\ after.lastCapture = IF el.kind = "capture" THEN st.clock ELSE st.lastCapture
               /\ after.openCapture = IF el.kind = "capture" THEN st.clock
                                      ELSE IF SettlesSlot(f, st) THEN Absent
                                      ELSE st.openCapture
               /\ after.openCaptureElement = IF el.kind = "capture" THEN Element
                                             ELSE st.openCaptureElement
               /\ after.captureLength = st.captureLength
               /\ after.freqChecked <=> st.freqChecked \/ ~HasTones(ChannelOf(f))
<1> DEFINE f  == el.frame
           st == states[f]
           s1 == [Counted(st) EXCEPT !.nOutputs = @ + 1]
           s2 == FirstUse(f, s1)
           s3 == Noted(f, s2, Element, NotedAs(el))
<1>1. /\ f \in Frames /\ st \in FrameRecord /\ Element \in Nat /\ el.kind = kind
      /\ el.duration \in Int /\ Bound
  BY Reading DEF Outputs, Bound
<1>2. s1 \in FrameRecord /\ Alike(st, s1) /\ s1.freqChecked = st.freqChecked
  BY <1>1, CountedAlike
<1> HIDE DEF s1
<1>3. /\ s2 \in FrameRecord /\ Alike(s1, s2)
      /\ s2.freqChecked <=> s1.freqChecked \/ ~HasTones(ChannelOf(f))
  BY <1>2, FirstUseAlike
<1> HIDE DEF s2
<1>4. Alike(st, s2)
  BY <1>2, <1>3 DEF Alike
<1>5. el.kind \in Operations /\ el.kind # "set_frequency"
  BY <1>1 DEF Outputs, Operations
<1>6. /\ s3 \in FrameRecord
      /\ s3.clock = st.clock /\ s3.frequency = st.frequency
      /\ s3.lastEvent = st.clock /\ s3.lastEventElement = Element
      /\ s3.lastFreqUpdate = st.lastFreqUpdate
      /\ s3.lastCapture = IF el.kind = "capture" THEN st.clock ELSE st.lastCapture
      /\ s3.openCapture = IF el.kind = "capture" THEN st.clock
                          ELSE IF SettlesSlot(f, st) THEN Absent
                          ELSE st.openCapture
      /\ s3.openCaptureElement = IF el.kind = "capture" THEN Element
                                 ELSE st.openCaptureElement
      /\ s3.captureLength = st.captureLength
      /\ s3.freqChecked = s2.freqChecked
  BY <1>1, <1>3, <1>4, <1>5, NotedAlike
<1> HIDE DEF s3
<1>7. PICK units \in Nat : units = DurationUnits(f, el.duration)
  BY <1>1, DurationNatural DEF Bound
<1>8. OutputState(el, NotedAs(el)) = [s3 EXCEPT !.clock = @ + units]
  BY <1>7 DEF OutputState, Advanced, s1, s2, s3
<1>9. PICK clock \in Nat : clock = s3.clock + units /\ clock >= st.clock
  <2>1. s3.clock \in Nat
    BY <1>6 DEF FrameRecord
  <2> QED BY <1>6, <2>1
<1>10. OutputState(el, NotedAs(el)) = [s3 EXCEPT !.clock = clock]
  BY <1>8, <1>9
<1>11. LET after == [s3 EXCEPT !.clock = clock]
       IN  /\ after \in FrameRecord /\ after.clock = clock
           /\ after.frequency = s3.frequency
           /\ after.lastEvent = s3.lastEvent /\ after.lastEventElement = s3.lastEventElement
           /\ after.lastFreqUpdate = s3.lastFreqUpdate /\ after.lastCapture = s3.lastCapture
           /\ after.openCapture = s3.openCapture
           /\ after.openCaptureElement = s3.openCaptureElement
           /\ after.captureLength = s3.captureLength
           /\ after.freqChecked = s3.freqChecked
  BY <1>6 DEF FrameRecord
<1> QED BY <1>2, <1>3, <1>6, <1>9, <1>10, <1>11

(* Every element of one frame leaves the state Remembers says. *)
LEMMA ElementRemembers ==
    ASSUME IInv, NEW el \in ElementSet, ReadElement(el), el.kind # "barrier", ~ToolError
    PROVE  /\ el.frame \in Frames /\ phase = "elements" /\ phase' = phase
           /\ prog' = Append(prog, el)
           /\ \E after : /\ Remembers(el, states[el.frame], after)
                        /\ states' = StateAfter(el.frame, after)
<1> DEFINE f  == el.frame
           st == states[f]
           Goal == \E after : Remembers(el, st, after) /\ states' = StateAfter(f, after)
<1>1. CASE ShiftPhase(el)
  <2> DEFINE noted == Noted(f, Counted(st), Element, NotedAs(el))
             after == [noted EXCEPT !.phase = @ + el.phase]
  <2>1. Reads(el, "shift_phase")
    BY <1>1 DEF ShiftPhase
  <2>2. /\ f \in Frames /\ st \in FrameRecord /\ Element \in Nat
        /\ el.kind = "shift_phase" /\ el.phase \in Int /\ phase = "elements"
    BY <2>1, Reading, ElementAssumption
  <2>3. /\ prog' = Append(prog, el) /\ phase' = phase /\ states' = StateAfter(f, after)
    BY <1>1, <2>2 DEF ShiftPhase, NotedAs
  <2>4. el.kind \in Operations /\ el.kind \notin Outputs
    BY <2>2 DEF Operations, Outputs
  <2>5. /\ noted \in FrameRecord /\ noted.clock = st.clock
        /\ noted.frequency = st.frequency /\ noted.freqChecked = st.freqChecked
        /\ Recalls(el, st, noted)
    BY <2>2, UpdateRemembers
  <2>6. PICK v \in Int : v = noted.phase + el.phase
    <3>1. noted.phase \in Int
      BY <2>5 DEF FrameRecord
    <3> QED BY <2>2, <3>1
  <2> HIDE DEF noted
  <2>7. after = [noted EXCEPT !.phase = v]
    BY <2>6
  <2> HIDE DEF after
  <2>8. /\ after \in FrameRecord /\ after.clock = noted.clock
        /\ after.frequency = noted.frequency
        /\ after.lastEvent = noted.lastEvent /\ after.lastEventElement = noted.lastEventElement
        /\ after.lastFreqUpdate = noted.lastFreqUpdate /\ after.lastCapture = noted.lastCapture
        /\ after.openCapture = noted.openCapture
        /\ after.openCaptureElement = noted.openCaptureElement
        /\ after.captureLength = noted.captureLength
        /\ after.freqChecked = noted.freqChecked
    BY <2>5, <2>7 DEF FrameRecord
  <2>9. st.clock \in Nat
    BY <2>2 DEF FrameRecord
  <2>10. Remembers(el, st, after)
    <3>1. after.clock >= st.clock /\ after.freqChecked \in BOOLEAN
      BY <2>5, <2>8, <2>9 DEF FrameRecord
    <3>2. Recalls(el, st, after)
      BY <2>5, <2>8 DEF Recalls
    <3> QED BY <2>2, <2>4, <2>5, <2>8, <3>1, <3>2 DEF Remembers
  <2> QED BY <2>2, <2>3, <2>10
<1>2. CASE SetFrequency(el)
  <2> DEFINE noted == Noted(f, Counted(st), Element, NotedAs(el))
             after == Retuned(f, noted, el.frequency)
  <2>1. Reads(el, "set_frequency")
    BY <1>2 DEF SetFrequency
  <2>2. /\ f \in Frames /\ st \in FrameRecord /\ Element \in Nat
        /\ el.kind = "set_frequency" /\ el.frequency \in Int /\ phase = "elements"
    BY <2>1, Reading, ElementAssumption
  <2>3. /\ prog' = Append(prog, el) /\ phase' = phase /\ states' = StateAfter(f, after)
    BY <1>2, <2>2 DEF SetFrequency, NotedAs
  <2>4. el.kind \in Operations /\ el.kind \notin Outputs
    BY <2>2 DEF Operations, Outputs
  <2>5. /\ noted \in FrameRecord /\ noted.clock = st.clock
        /\ noted.frequency = st.frequency /\ noted.freqChecked = st.freqChecked
        /\ Recalls(el, st, noted)
    BY <2>2, UpdateRemembers
  <2> HIDE DEF noted
  <2>8. /\ after \in FrameRecord /\ after.clock = noted.clock
        /\ after.frequency = el.frequency
        /\ after.lastEvent = noted.lastEvent /\ after.lastEventElement = noted.lastEventElement
        /\ after.lastFreqUpdate = noted.lastFreqUpdate /\ after.lastCapture = noted.lastCapture
        /\ after.openCapture = noted.openCapture
        /\ after.openCaptureElement = noted.openCaptureElement
        /\ after.captureLength = noted.captureLength
        /\ after.freqChecked = TRUE
    BY <2>2, <2>5 DEF FrameRecord, Retuned
  <2> HIDE DEF after
  <2>9. st.clock \in Nat
    BY <2>2 DEF FrameRecord
  <2>10. Remembers(el, st, after)
    <3>1. after.clock >= st.clock /\ after.freqChecked \in BOOLEAN
      BY <2>5, <2>8, <2>9 DEF FrameRecord
    <3>2. Recalls(el, st, after)
      BY <2>5, <2>8 DEF Recalls
    <3> QED BY <2>2, <2>4, <2>5, <2>8, <3>1, <3>2 DEF Remembers
  <2> QED BY <2>2, <2>3, <2>10
<1>3. CASE Delay(el)
  <2> DEFINE counted == Counted(st)
             after == Advanced(f, counted, el.duration)
  <2>1. Reads(el, "delay")
    BY <1>3 DEF Delay
  <2>2. /\ f \in Frames /\ st \in FrameRecord /\ Element \in Nat
        /\ el.kind = "delay" /\ el.duration \in Int /\ phase = "elements" /\ Bound
    BY <2>1, Reading DEF Bound
  <2>3. /\ prog' = Append(prog, el) /\ phase' = phase /\ states' = StateAfter(f, after)
    BY <1>3, <2>2 DEF Delay
  <2>4. counted \in FrameRecord /\ Alike(st, counted) /\ counted.freqChecked = st.freqChecked
    BY <2>2, CountedAlike
  <2> HIDE DEF counted
  <2>5. PICK units \in Nat : units = DurationUnits(f, el.duration)
    BY <2>2, DurationNatural DEF Bound
  <2>6. PICK clock \in Nat : clock = counted.clock + units /\ clock >= st.clock
    <3>1. counted.clock \in Nat
      BY <2>4 DEF FrameRecord
    <3>2. counted.clock = st.clock
      BY <2>4 DEF Alike
    <3> QED BY <3>1, <3>2, <2>5
  <2>7. after = [counted EXCEPT !.clock = clock]
    BY <2>5, <2>6 DEF Advanced
  <2> HIDE DEF after
  <2>8. /\ after \in FrameRecord /\ after.clock = clock
        /\ after.frequency = counted.frequency
        /\ after.lastEvent = counted.lastEvent /\ after.lastEventElement = counted.lastEventElement
        /\ after.lastFreqUpdate = counted.lastFreqUpdate /\ after.lastCapture = counted.lastCapture
        /\ after.openCapture = counted.openCapture
        /\ after.openCaptureElement = counted.openCaptureElement
        /\ after.captureLength = counted.captureLength
        /\ after.freqChecked = counted.freqChecked
    BY <2>4, <2>7 DEF FrameRecord
  <2>9. Remembers(el, st, after)
    BY <2>2, <2>4, <2>6, <2>8 DEF Remembers, Recalls, Operations, Outputs, Alike
  <2> QED BY <2>2, <2>3, <2>9
<1>4. ASSUME NEW kind \in Outputs, Reads(el, kind)
      PROVE  /\ f \in Frames /\ st \in FrameRecord /\ phase = "elements" /\ el.kind = kind
             /\ el.kind \in Operations /\ el.kind # "set_frequency" /\ Bound /\ el.duration \in Int
  BY <1>4, Reading DEF Outputs, Operations, Bound
<1>5. CASE Capture(el)
  <2> DEFINE output == OutputState(el, "capture")
             units  == DurationUnits(f, el.duration)
             after  == IF FixesLength(f, st) THEN [output EXCEPT !.captureLength = units]
                       ELSE output
  <2>1. Reads(el, "capture")
    BY <1>5 DEF Capture
  <2>2. /\ f \in Frames /\ st \in FrameRecord /\ el.kind = "capture" /\ phase = "elements"
        /\ NotedAs(el) = "capture" /\ Bound /\ el.duration \in Int
    BY <2>1, <1>4 DEF NotedAs, Outputs
  <2>3. prog' = Append(prog, el) /\ phase' = phase /\ states' = StateAfter(f, after)
    BY <1>5 DEF Capture
  <2>4. /\ output \in FrameRecord /\ output.clock >= st.clock
        /\ output.frequency = st.frequency
        /\ output.lastEvent = st.clock /\ output.lastEventElement = Element
        /\ output.lastFreqUpdate = st.lastFreqUpdate /\ output.lastCapture = st.clock
        /\ output.openCapture = st.clock /\ output.openCaptureElement = Element
        /\ output.captureLength = st.captureLength
        /\ output.freqChecked <=> st.freqChecked \/ ~HasTones(ChannelOf(f))
    BY <2>1, <2>2, OutputRemembers DEF Outputs
  <2>5. units \in Nat
    BY <2>2, DurationNatural DEF Bound
  <2> HIDE DEF output, units
  <2>6. /\ after \in FrameRecord /\ after.clock = output.clock
        /\ after.frequency = output.frequency
        /\ after.lastEvent = output.lastEvent /\ after.lastEventElement = output.lastEventElement
        /\ after.lastFreqUpdate = output.lastFreqUpdate /\ after.lastCapture = output.lastCapture
        /\ after.openCapture = output.openCapture
        /\ after.openCaptureElement = output.openCaptureElement
        /\ after.captureLength = IF FixesLength(f, st) THEN units ELSE output.captureLength
        /\ after.freqChecked = output.freqChecked
    BY <2>4, <2>5 DEF FrameRecord
  <2> HIDE DEF after
  <2>7. Remembers(el, st, after)
    BY <2>2, <2>4, <2>6 DEF Remembers, Recalls, Operations, Outputs, units
  <2> QED BY <2>2, <2>3, <2>7
<1>6. CASE Play(el)
  <2> DEFINE after == OutputState(el, "output")
  <2>1. /\ Reads(el, "play") /\ prog' = Append(prog, el) /\ phase' = phase
        /\ states' = StateAfter(f, after)
    BY <1>6 DEF Play, PlayWaveform, PlayTones
  <2>2. /\ f \in Frames /\ el.kind = "play" /\ phase = "elements" /\ NotedAs(el) = "output"
    BY <2>1, <1>4 DEF NotedAs, Outputs
  <2>3. Remembers(el, st, after)
    BY <2>1, <2>2, OutputRemembers DEF Outputs, Operations, Remembers, Recalls
  <2> QED BY <2>1, <2>2, <2>3
<1>7. CASE Barrier(el)
  BY <1>7 DEF Barrier, Reads
<1> QED BY <1>1, <1>2, <1>3, <1>5, <1>6, <1>7 DEF ReadElement

-----------------------------------------------------------------------------
(* The history of a program p: b holds the clocks each element of p        *)
(* started at, c the clocks after the last one.  Clocks never go back.     *)
Placed(p, f, kinds) == {i \in DOMAIN p : p[i].kind \in kinds /\ p[i].frame = f}

History(p, b, c) ==
    /\ p \in Seq(ElementSet)
    /\ b \in Seq([Frames -> Nat])
    /\ Len(b) = Len(p)
    /\ c \in [Frames -> Nat]
    /\ \A f \in Frames : \A i, j \in 1 .. Len(p) : i <= j => b[i][f] <= b[j][f]
    /\ \A f \in Frames : \A i \in 1 .. Len(p) : b[i][f] <= c[f]

(* The parts of a history.                                                 *)
LEMMA HistoryTypes ==
    ASSUME NEW p, NEW b, NEW c, History(p, b, c)
    PROVE  /\ Len(p) \in Nat /\ DOMAIN p = 1 .. Len(p) /\ DOMAIN b = 1 .. Len(p)
           /\ \A f \in Frames : c[f] \in Nat
           /\ \A f \in Frames : \A i \in 1 .. Len(p) : b[i][f] \in Nat
<1>1. Len(p) \in Nat /\ DOMAIN p = 1 .. Len(p) /\ DOMAIN b = 1 .. Len(p)
  BY LenProperties DEF History
<1>2. \A i \in 1 .. Len(p) : b[i] \in [Frames -> Nat]
  BY <1>1, ElementOfSeq DEF History
<1> QED BY <1>1, <1>2 DEF History

(* Reading one more element. *)
LEMMA OneMore ==
    ASSUME NEW S, NEW s \in Seq(S), NEW x \in S
    PROVE  /\ Append(s, x) \in Seq(S)
           /\ Len(Append(s, x)) = Len(s) + 1 /\ Len(s) \in Nat
           /\ DOMAIN Append(s, x) = 1 .. Len(s) + 1
           /\ \A i \in 1 .. Len(s) : Append(s, x)[i] = s[i]
           /\ Append(s, x)[Len(s) + 1] = x
  BY AppendProperties, LenProperties

(* Where elements of a kind are, after one more.                           *)
LEMMA PlacedGrows ==
    ASSUME NEW p \in Seq(ElementSet), NEW el \in ElementSet, NEW f, NEW kinds
    PROVE  /\ Placed(p, f, kinds) \subseteq 1 .. Len(p)
           /\ Placed(Append(p, el), f, kinds)
                  = Placed(p, f, kinds) \cup IF el.kind \in kinds /\ el.frame = f
                                             THEN {Len(p) + 1} ELSE {}
<1>1. DOMAIN p = 1 .. Len(p)
  BY LenProperties
<1> QED BY <1>1, OneMore DEF Placed

(* A history extended by an element that takes no clock back.              *)
LEMMA HistoryGrows ==
    ASSUME NEW p, NEW b, NEW c, History(p, b, c), NEW el \in ElementSet,
           NEW d \in [Frames -> Nat], \A f \in Frames : c[f] <= d[f]
    PROVE  History(Append(p, el), Append(b, c), d)
<1> DEFINE q == Append(p, el)
           bb == Append(b, c)
<1>1. /\ q \in Seq(ElementSet) /\ Len(q) = Len(p) + 1 /\ Len(p) \in Nat
      /\ bb \in Seq([Frames -> Nat]) /\ Len(bb) = Len(p) + 1
      /\ \A i \in 1 .. Len(p) : bb[i] = b[i]
      /\ bb[Len(p) + 1] = c
  BY OneMore DEF History
<1>2. /\ \A f \in Frames : c[f] \in Nat /\ d[f] \in Nat
      /\ \A f \in Frames : \A i \in 1 .. Len(p) : b[i][f] \in Nat
      /\ \A f \in Frames : \A i, j \in 1 .. Len(p) : i <= j => b[i][f] <= b[j][f]
      /\ \A f \in Frames : \A i \in 1 .. Len(p) : b[i][f] <= c[f]
  BY HistoryTypes DEF History
<1> HIDE DEF q, bb
<1>3. ASSUME NEW f \in Frames, NEW i \in 1 .. Len(q), NEW j \in 1 .. Len(q), i <= j
      PROVE  bb[i][f] <= bb[j][f] /\ bb[i][f] <= d[f]
  <2>1. CASE j \in 1 .. Len(p)
    <3>1. i \in 1 .. Len(p)
      BY <1>1, <1>3, <2>1
    <3>2. bb[i] = b[i] /\ bb[j] = b[j]
      BY <1>1, <2>1, <3>1
    <3>3. b[i][f] <= b[j][f] /\ b[i][f] <= c[f] /\ c[f] <= d[f]
          /\ b[i][f] \in Nat /\ c[f] \in Nat /\ d[f] \in Nat
      BY <1>2, <1>3, <2>1, <3>1
    <3> QED BY <3>2, <3>3
  <2>2. CASE j = Len(p) + 1 /\ i \in 1 .. Len(p)
    <3>1. b[i][f] <= c[f] /\ c[f] <= d[f]
          /\ b[i][f] \in Nat /\ c[f] \in Nat /\ d[f] \in Nat
      BY <1>2, <2>2
    <3> QED BY <1>1, <2>2, <3>1
  <2>3. CASE j = Len(p) + 1 /\ i = Len(p) + 1
    BY <1>1, <1>2, <2>3
  <2> QED BY <1>1, <1>3, <2>1, <2>2, <2>3
<1> QED BY <1>1, <1>3 DEF History, q, bb

-----------------------------------------------------------------------------
(* time is when the last element of f of one of the kinds started; Absent  *)
(* when there is none.                                                     *)
Latest(p, b, f, kinds, time) ==
    IF Placed(p, f, kinds) = {} THEN time = Absent
    ELSE \E l \in Placed(p, f, kinds) :
             (\A i \in Placed(p, f, kinds) : i <= l) /\ time = b[l][f]

(* The last start of a kind, after one more element.                       *)
LEMMA LatestGrows ==
    ASSUME NEW p, NEW b, NEW c, History(p, b, c), NEW el \in ElementSet, NEW f, NEW kinds,
           NEW time, Latest(p, b, f, kinds, time)
    PROVE  Latest(Append(p, el), Append(b, c), f, kinds,
                  IF el.kind \in kinds /\ el.frame = f THEN c[f] ELSE time)
<1> DEFINE q == Append(p, el)
           bb == Append(b, c)
<1>1. /\ Placed(p, f, kinds) \subseteq 1 .. Len(p) /\ Len(p) \in Nat
      /\ Placed(q, f, kinds) = Placed(p, f, kinds) \cup IF el.kind \in kinds /\ el.frame = f
                                                        THEN {Len(p) + 1} ELSE {}
      /\ \A i \in 1 .. Len(p) : bb[i] = b[i]
      /\ bb[Len(p) + 1] = c
  <2>1. p \in Seq(ElementSet) /\ b \in Seq([Frames -> Nat]) /\ Len(b) = Len(p)
        /\ c \in [Frames -> Nat] /\ Len(p) \in Nat
    BY HistoryTypes DEF History
  <2> QED BY <2>1, PlacedGrows, OneMore
<1> HIDE DEF q, bb
<1>2. CASE el.kind \in kinds /\ el.frame = f
  <2>1. Len(p) + 1 \in Placed(q, f, kinds) /\ \A i \in Placed(q, f, kinds) : i <= Len(p) + 1
    BY <1>1, <1>2
  <2> QED BY <1>1, <1>2, <2>1 DEF Latest, q, bb
<1>3. CASE ~(el.kind \in kinds /\ el.frame = f)
  <2>1. Placed(q, f, kinds) = Placed(p, f, kinds)
    BY <1>1, <1>3
  <2> QED BY <1>1, <1>3, <2>1 DEF Latest, q, bb
<1> QED BY <1>2, <1>3

-----------------------------------------------------------------------------
(* Two elements of a frame that start too soon after one another.          *)
Close(f, rule, gap) == TooSoon(f, rule, gap) /\ (rule = "start_spacing" => gap # 0)

(* The sink k names, under rule, an element after the first of any two     *)
(* elements of f that are close, and not after the second.                 *)
Apart(p, b, k, f, kinds, rule) ==
    \A i, j \in Placed(p, f, kinds) :
        i < j /\ Close(f, rule, b[j][f] - b[i][f])
            => Names(k, rule, Placed(p, f, kinds) \cap Between(i, j))

(* What is named stays named, among more elements and in a longer sink.    *)
LEMMA NamesWiden ==
    ASSUME NEW S, NEW k \in Seq(S), NEW s \in Seq(S), NEW rule, NEW some, NEW more,
           Names(k, rule, some), some \subseteq more
    PROVE  Names(k \o s, rule, more)
<1>1. Names(k, rule, more)
  BY DEF Names
<1> QED BY <1>1, NamesConcat

(* The gap to the first of three times is as close as to the second only   *)
(* when those two coincide.                                                *)
LEMMA SameTime ==
    ASSUME NEW x \in Nat, NEW y \in Nat, NEW z \in Nat, NEW min \in Nat, NEW apart,
           x <= y, y <= z, z - x < min, apart => z - x # 0,
           ~(z - y < min /\ (apart => z - y # 0))
    PROVE  apart /\ y = z /\ y - x < min /\ x # y /\ y - x # 0
<1>1. z - y < min
  OBVIOUS
<1>2. apart /\ z - y = 0
  BY <1>1
<1> QED BY <1>2

(* To compare with the last one is to compare with every one before it: a  *)
(* longer gap that is close is close to the last one, or the last one      *)
(* started at the same time and was close itself.                          *)
LEMMA ApartGrows ==
    ASSUME NEW p, NEW b, NEW c, History(p, b, c), NEW el \in ElementSet, NEW f \in Frames,
           NEW kinds, NEW rule, FrameConstraint(f, rule).minUnits \in Nat,
           NEW k \in Seq(Rejected), NEW s \in Seq(Rejected),
           Apart(p, b, k, f, kinds, rule),
           NEW time, Latest(p, b, f, kinds, time),
           el.kind \in kinds /\ el.frame = f /\ time # Absent /\ Close(f, rule, c[f] - time)
               => Names(s, rule, {Len(p) + 1})
    PROVE  Apart(Append(p, el), Append(b, c), k \o s, f, kinds, rule)
<1> DEFINE q == Append(p, el)
           bb == Append(b, c)
           n == Len(p) + 1
           P == Placed(p, f, kinds)
           Q == Placed(q, f, kinds)
<1>1. /\ p \in Seq(ElementSet) /\ b \in Seq([Frames -> Nat]) /\ Len(b) = Len(p)
      /\ c \in [Frames -> Nat] /\ Len(p) \in Nat
  BY HistoryTypes DEF History
<1>2. /\ P \subseteq 1 .. Len(p)
      /\ Q = P \cup IF el.kind \in kinds /\ el.frame = f THEN {n} ELSE {}
      /\ \A i \in 1 .. Len(p) : bb[i] = b[i]
      /\ bb[n] = c
  <2>1. /\ P \subseteq 1 .. Len(p)
        /\ Q = P \cup IF el.kind \in kinds /\ el.frame = f THEN {n} ELSE {}
    BY <1>1, PlacedGrows
  <2>2. (\A i \in 1 .. Len(p) : bb[i] = b[i]) /\ bb[n] = c
    BY <1>1, OneMore
  <2> QED BY <2>1, <2>2
<1>3. /\ c[f] \in Nat
      /\ \A i \in P : b[i][f] \in Nat
      /\ \A i, j \in P : i <= j => b[i][f] <= b[j][f]
      /\ \A i \in P : b[i][f] <= c[f]
  BY <1>2, HistoryTypes DEF History
<1> HIDE DEF q, bb, P, Q
<1>4. ASSUME NEW i \in Q, NEW j \in Q, i < j, Close(f, rule, bb[j][f] - bb[i][f])
      PROVE  Names(k \o s, rule, Q \cap Between(i, j))
  <2>1. CASE j \in P
    <3>1. i \in P
      BY <1>1, <1>2, <1>4, <2>1
    <3>2. bb[i] = b[i] /\ bb[j] = b[j]
      BY <1>2, <2>1, <3>1
    <3>3. Names(k, rule, P \cap Between(i, j))
      BY <1>4, <2>1, <3>1, <3>2 DEF Apart, P
    <3>4. P \cap Between(i, j) \subseteq Q \cap Between(i, j)
      BY <1>2
    <3> QED BY <3>3, <3>4, NamesWiden
  <2>2. CASE j \notin P
    <3>1. el.kind \in kinds /\ el.frame = f /\ j = n /\ i \in P
      BY <1>1, <1>2, <1>4, <2>2
    <3>2. PICK l \in P : (\A m \in P : m <= l) /\ time = b[l][f]
      BY <3>1 DEF Latest, P
    <3>7. Absent # b[l][f] /\ time # Absent
      BY <1>3, <3>2, AbsentAssumption
    <3>3. /\ i <= l /\ l < n /\ n \in Q
          /\ b[i][f] \in Nat /\ b[l][f] \in Nat /\ b[i][f] <= b[l][f] /\ b[l][f] <= c[f]
          /\ i \in Nat /\ l \in Nat
      BY <1>1, <1>2, <1>3, <3>1, <3>2
    <3>4. Close(f, rule, c[f] - b[i][f])
      BY <1>2, <1>4, <3>1
    <3>5. CASE Close(f, rule, c[f] - b[l][f])
      <4>1. Names(s, rule, {n})
        BY <3>1, <3>2, <3>7, <3>5
      <4>2. n \in Q \cap Between(i, j)
        BY <1>1, <3>1, <3>3, <1>4 DEF Between
      <4>3. Names(s, rule, Q \cap Between(i, j))
        BY <4>1, <4>2 DEF Names
      <4> QED BY <4>3, NamesConcat
    <3>6. CASE ~Close(f, rule, c[f] - b[l][f])
      <4> DEFINE min == FrameConstraint(f, rule).minUnits
      <4>1. min \in Nat
        OBVIOUS
      <4>2. c[f] - b[i][f] < min /\ (rule = "start_spacing" => c[f] - b[i][f] # 0)
        BY <3>4 DEF Close, TooSoon
      <4>3. ~(c[f] - b[l][f] < min /\ (rule = "start_spacing" => c[f] - b[l][f] # 0))
        BY <3>6 DEF Close, TooSoon
      <4>4. (rule = "start_spacing" => b[l][f] # b[i][f]) /\ b[l][f] - b[i][f] < min
            /\ rule = "start_spacing" /\ b[l][f] = c[f]
        <5> HIDE DEF min
        <5>1. c[f] \in Nat /\ b[i][f] \in Nat /\ b[l][f] \in Nat
              /\ b[i][f] <= b[l][f] /\ b[l][f] <= c[f]
          BY <1>3, <3>3
        <5> QED BY <5>1, <4>1, <4>2, <4>3, SameTime
      <4>5. i < l /\ Close(f, rule, b[l][f] - b[i][f])
        <5>1. i # l
          BY <4>4
        <5>2. i < l
          BY <5>1, <3>3
        <5>3. b[l][f] - b[i][f] # 0
          BY <4>4, <3>3
        <5> QED BY <5>2, <5>3, <4>4 DEF Close, TooSoon
      <4>6. Names(k, rule, P \cap Between(i, l))
        BY <3>1, <3>2, <4>5 DEF Apart, P
      <4>7. P \cap Between(i, l) \subseteq Q \cap Between(i, j)
        BY <1>1, <1>2, <3>1, <3>3 DEF Between
      <4> QED BY <4>6, <4>7, NamesWiden
    <3> QED BY <3>5, <3>6
  <2> QED BY <2>1, <2>2
<1> QED BY <1>4 DEF Apart, q, bb, Q

(* The same of one element and the update at time 0 that an initial phase  *)
(* stands for.                                                             *)
Clear(p, b, k, f, kinds, rule) ==
    \A j \in Placed(p, f, kinds) :
        Close(f, rule, b[j][f]) => Names(k, rule, Placed(p, f, kinds) \cap (1 .. j))

(* The same comparison, with the update at time 0.                         *)
LEMMA ClearGrows ==
    ASSUME NEW p, NEW b, NEW c, History(p, b, c), NEW el \in ElementSet, NEW f \in Frames,
           NEW kinds, NEW rule, FrameConstraint(f, rule).minUnits \in Nat,
           NEW k \in Seq(Rejected), NEW s \in Seq(Rejected),
           Clear(p, b, k, f, kinds, rule),
           NEW time, Latest(p, b, f, kinds, time),
           el.kind \in kinds /\ el.frame = f
           /\ Close(f, rule, c[f] - (IF time = Absent THEN 0 ELSE time))
               => Names(s, rule, {Len(p) + 1})
    PROVE  Clear(Append(p, el), Append(b, c), k \o s, f, kinds, rule)
<1> DEFINE q == Append(p, el)
           bb == Append(b, c)
           n == Len(p) + 1
           P == Placed(p, f, kinds)
           Q == Placed(q, f, kinds)
<1>1. /\ p \in Seq(ElementSet) /\ b \in Seq([Frames -> Nat]) /\ Len(b) = Len(p)
      /\ c \in [Frames -> Nat] /\ Len(p) \in Nat
  BY HistoryTypes DEF History
<1>2. /\ P \subseteq 1 .. Len(p)
      /\ Q = P \cup IF el.kind \in kinds /\ el.frame = f THEN {n} ELSE {}
      /\ \A i \in 1 .. Len(p) : bb[i] = b[i]
      /\ bb[n] = c
  <2>1. /\ P \subseteq 1 .. Len(p)
        /\ Q = P \cup IF el.kind \in kinds /\ el.frame = f THEN {n} ELSE {}
    BY <1>1, PlacedGrows
  <2>2. (\A i \in 1 .. Len(p) : bb[i] = b[i]) /\ bb[n] = c
    BY <1>1, OneMore
  <2> QED BY <2>1, <2>2
<1>3. /\ c[f] \in Nat
      /\ \A i \in P : b[i][f] \in Nat /\ b[i][f] <= c[f]
  BY <1>2, HistoryTypes DEF History
<1> HIDE DEF q, bb, P, Q
<1>4. ASSUME NEW j \in Q, Close(f, rule, bb[j][f])
      PROVE  Names(k \o s, rule, Q \cap (1 .. j))
  <2>1. CASE j \in P
    <3>1. Names(k, rule, P \cap (1 .. j))
      BY <1>2, <1>4, <2>1 DEF Clear, P
    <3>2. P \cap (1 .. j) \subseteq Q \cap (1 .. j)
      BY <1>2
    <3> QED BY <3>1, <3>2, NamesWiden
  <2>2. CASE j \notin P
    <3>1. el.kind \in kinds /\ el.frame = f /\ j = n
      BY <1>1, <1>2, <1>4, <2>2
    <3>2. Close(f, rule, c[f])
      BY <1>2, <1>4, <3>1
    <3>3. n \in Q \cap (1 .. j)
      BY <1>1, <3>1, <1>4
    <3>4. CASE Names(s, rule, {n})
      <4>1. Names(s, rule, Q \cap (1 .. j))
        BY <3>3, <3>4 DEF Names
      <4> QED BY <4>1, NamesConcat
    <3>5. CASE ~Names(s, rule, {n})
      <4>1. ~Close(f, rule, c[f] - (IF time = Absent THEN 0 ELSE time))
        BY <3>1, <3>5
      <4>2. time # Absent
        <5>1. c[f] - 0 = c[f]
          BY <1>3
        <5> QED BY <3>2, <4>1, <5>1
      <4>3. PICK l \in P : time = b[l][f]
        BY <4>2 DEF Latest, P
      <4> DEFINE min == FrameConstraint(f, rule).minUnits
      <4>4. /\ min \in Nat /\ c[f] \in Nat /\ b[l][f] \in Nat
            /\ 0 <= b[l][f] /\ b[l][f] <= c[f]
        BY <1>3
      <4>5. c[f] < min /\ (rule = "start_spacing" => c[f] # 0)
        BY <3>2 DEF Close, TooSoon
      <4>6. ~(c[f] - b[l][f] < min /\ (rule = "start_spacing" => c[f] - b[l][f] # 0))
        BY <4>1, <4>2, <4>3 DEF Close, TooSoon
      <4>7. b[l][f] < min /\ b[l][f] # 0
        <5> HIDE DEF min
        <5>1. c[f] - 0 = c[f] /\ b[l][f] - 0 = b[l][f]
          BY <4>4
        <5>2. c[f] - 0 < min /\ (rule = "start_spacing" => c[f] - 0 # 0)
          BY <4>5, <5>1
        <5>3. b[l][f] - 0 < min /\ b[l][f] - 0 # 0
          BY <4>4, <4>6, <5>2, SameTime
        <5> QED BY <5>1, <5>3
      <4>8. Close(f, rule, b[l][f])
        BY <4>7 DEF Close, TooSoon
      <4>9. Names(k, rule, P \cap (1 .. l))
        BY <4>8 DEF Clear, P
      <4>10. P \cap (1 .. l) \subseteq Q \cap (1 .. j)
        BY <1>1, <1>2, <3>1
      <4> QED BY <4>9, <4>10, NamesWiden
    <3> QED BY <3>4, <3>5
  <2> QED BY <2>1, <2>2
<1> QED BY <1>4 DEF Clear, q, bb, Q

-----------------------------------------------------------------------------
(* The length of the first capture of f, Absent when there is none; and    *)
(* the captures that are cited are those of another length.                *)
LengthOf(p, f, i) == DurationUnits(f, p[i].duration)

FirstLength(p, f, length) ==
    LET captures == Placed(p, f, {"capture"})
    IN  IF captures = {} THEN length = Absent
        ELSE \E m \in captures : (\A i \in captures : m <= i) /\ length = LengthOf(p, f, m)

Uniform(p, k, f, length) ==
    \A j \in Placed(p, f, {"capture"}) :
        Names(k, "capture_length_uniform", {j}) <=> LengthOf(p, f, j) # length

(* The length of a capture is a count of units.                            *)
LEMMA LengthNatural ==
    ASSUME NEW p \in Seq(ElementSet), NEW f \in Frames, Bound,
           NEW i \in Placed(p, f, {"capture"})
    PROVE  LengthOf(p, f, i) \in Nat
<1>1. p[i] \in ElementSet /\ p[i].kind = "capture"
  BY LenProperties, ElementOfSeq DEF Placed
<1>2. p[i].duration \in Int
  BY <1>1, ElementAssumption
<1> QED BY <1>2, DurationNatural DEF LengthOf, Bound

(* The length of the first capture, after one more element.                *)
LEMMA FirstLengthGrows ==
    ASSUME NEW p \in Seq(ElementSet), NEW el \in ElementSet, NEW f \in Frames,
           NEW length, FirstLength(p, f, length), Bound
    PROVE  FirstLength(Append(p, el), f,
                       IF el.kind = "capture" /\ el.frame = f /\ length = Absent
                       THEN DurationUnits(f, el.duration) ELSE length)
<1> DEFINE q == Append(p, el)
           n == Len(p) + 1
           P == Placed(p, f, {"capture"})
           Q == Placed(q, f, {"capture"})
<1>1. /\ P \subseteq 1 .. Len(p)
      /\ Q = P \cup IF el.kind = "capture" /\ el.frame = f THEN {n} ELSE {}
      /\ \A i \in P : LengthOf(q, f, i) = LengthOf(p, f, i)
      /\ LengthOf(q, f, n) = DurationUnits(f, el.duration)
      /\ Len(p) \in Nat
  <2>1. P \subseteq 1 .. Len(p)
        /\ Q = P \cup IF el.kind \in {"capture"} /\ el.frame = f THEN {n} ELSE {}
    BY PlacedGrows
  <2>2. /\ \A i \in 1 .. Len(p) : q[i] = p[i]
        /\ q[n] = el /\ Len(p) \in Nat
    BY OneMore
  <2> QED BY <2>1, <2>2 DEF LengthOf
<1> HIDE DEF q, P, Q
<1>2. CASE ~(el.kind = "capture" /\ el.frame = f)
  BY <1>1, <1>2 DEF FirstLength, P, Q, q
<1>3. CASE el.kind = "capture" /\ el.frame = f /\ P = {}
  <2>1. Q = {n} /\ length = Absent
    BY <1>1, <1>3 DEF FirstLength, P
  <2>2. n \in Q /\ \A i \in Q : n <= i
    BY <1>1, <2>1
  <2> QED BY <1>1, <1>3, <2>1, <2>2 DEF FirstLength, Q, q
<1>4. CASE el.kind = "capture" /\ el.frame = f /\ P # {}
  <2>1. PICK m \in P : (\A i \in P : m <= i) /\ length = LengthOf(p, f, m)
    BY <1>4 DEF FirstLength, P
  <2>2. m \in Q /\ \A i \in Q : m <= i
    BY <1>1, <1>4, <2>1
  <2>3. length # Absent
    <3>1. LengthOf(p, f, m) \in Nat
      BY <1>4, <2>1, LengthNatural DEF P
    <3> QED BY <2>1, <3>1, AbsentAssumption
  <2> QED BY <1>1, <1>4, <2>1, <2>2, <2>3 DEF FirstLength, Q, q
<1> QED BY <1>2, <1>3, <1>4

(* Nothing is cited under rule before it is read. *)
NoneAhead(p, k, rule) == \A e \in Nat : e > Len(p) => ~Names(k, rule, {e})

(* A rule that looks only at the element being read: the sink gains it or  *)
(* not, and no other element is touched.                                   *)
LEMMA OneMoreCited ==
    ASSUME NEW p \in Seq(ElementSet), NEW el \in ElementSet, NEW rule,
           NEW k \in Seq(Rejected), NEW s \in Seq(Rejected), NEW fires,
           NoneAhead(p, k, rule),
           \A elements : Names(s, rule, elements) <=> Len(p) + 1 \in elements /\ fires
    PROVE  /\ NoneAhead(Append(p, el), k \o s, rule)
           /\ \A i \in 1 .. Len(p) : Names(k \o s, rule, {i}) <=> Names(k, rule, {i})
           /\ Names(k \o s, rule, {Len(p) + 1}) <=> fires
<1>1. Len(p) \in Nat /\ Len(Append(p, el)) = Len(p) + 1
  BY OneMore
<1>2. \A e : Names(k \o s, rule, {e}) <=> Names(k, rule, {e}) \/ Names(s, rule, {e})
  BY NamesConcat
<1>3. \A e : Names(s, rule, {e}) <=> e = Len(p) + 1 /\ fires
  OBVIOUS
<1>4. ASSUME NEW e \in Nat, e > Len(Append(p, el)) PROVE ~Names(k \o s, rule, {e})
  <2>1. e > Len(p) /\ e # Len(p) + 1
    BY <1>1, <1>4
  <2> QED BY <2>1, <1>2, <1>3 DEF NoneAhead
<1>5. ~Names(k, rule, {Len(p) + 1})
  <2>1. Len(p) + 1 \in Nat /\ Len(p) + 1 > Len(p)
    BY <1>1
  <2> QED BY <2>1 DEF NoneAhead
<1>6. ASSUME NEW i \in 1 .. Len(p) PROVE Names(k \o s, rule, {i}) <=> Names(k, rule, {i})
  <2>1. i # Len(p) + 1
    BY <1>1
  <2> QED BY <2>1, <1>2, <1>3
<1>7. NoneAhead(Append(p, el), k \o s, rule)
  BY <1>4 DEF NoneAhead
<1> QED BY <1>2, <1>3, <1>5, <1>6, <1>7

(* What the sink says of capture lengths, after one more element.          *)
LEMMA UniformGrows ==
    ASSUME NEW p \in Seq(ElementSet), NEW el \in ElementSet, NEW f \in Frames, Bound,
           NEW k \in Seq(Rejected), NEW s \in Seq(Rejected), NEW length,
           FirstLength(p, f, length), Uniform(p, k, f, length),
           NEW fires,
           NoneAhead(p, k, "capture_length_uniform"),
           \A elements : Names(s, "capture_length_uniform", elements)
                             <=> Len(p) + 1 \in elements /\ fires,
           el.kind = "capture" /\ el.frame = f
               => (fires <=> length # Absent /\ DurationUnits(f, el.duration) # length)
    PROVE  Uniform(Append(p, el), k \o s, f,
                   IF el.kind = "capture" /\ el.frame = f /\ length = Absent
                   THEN DurationUnits(f, el.duration) ELSE length)
<1> DEFINE q == Append(p, el)
           n == Len(p) + 1
           P == Placed(p, f, {"capture"})
           Q == Placed(q, f, {"capture"})
           rule == "capture_length_uniform"
           later == IF el.kind = "capture" /\ el.frame = f /\ length = Absent
                    THEN DurationUnits(f, el.duration) ELSE length
<1>1. /\ P \subseteq 1 .. Len(p)
      /\ Q = P \cup IF el.kind = "capture" /\ el.frame = f THEN {n} ELSE {}
  <2>1. P \subseteq 1 .. Len(p)
        /\ Q = P \cup IF el.kind \in {"capture"} /\ el.frame = f THEN {n} ELSE {}
    BY PlacedGrows
  <2> QED BY <2>1
<1>2. /\ \A i \in P : LengthOf(q, f, i) = LengthOf(p, f, i)
      /\ LengthOf(q, f, n) = DurationUnits(f, el.duration)
  <2>1. (\A i \in 1 .. Len(p) : q[i] = p[i]) /\ q[n] = el
    BY OneMore
  <2> QED BY <1>1, <2>1 DEF LengthOf
<1>3. /\ \A i \in 1 .. Len(p) : Names(k \o s, rule, {i}) <=> Names(k, rule, {i})
      /\ Names(k \o s, rule, {n}) <=> fires
  BY OneMoreCited
<1>4. P # {} => length # Absent
  <2>1. ASSUME NEW m \in P PROVE LengthOf(p, f, m) \in Nat
    BY LengthNatural
  <2> QED BY <2>1, AbsentAssumption DEF FirstLength
<1> HIDE DEF q, P, Q, later
<1>5. ASSUME NEW j \in Q PROVE Names(k \o s, rule, {j}) <=> LengthOf(q, f, j) # later
  <2>1. CASE j \in P
    <3>1. later = length
      BY <1>4, <2>1 DEF later
    <3>2. Names(k, rule, {j}) <=> LengthOf(p, f, j) # length
      BY <2>1 DEF Uniform, P
    <3> QED BY <1>1, <1>2, <1>3, <2>1, <3>1, <3>2
  <2>2. CASE j \notin P
    <3>1. j = n /\ el.kind = "capture" /\ el.frame = f
      BY <1>1, <2>2
    <3> QED BY <1>2, <1>3, <3>1 DEF later
  <2> QED BY <2>1, <2>2
<1> QED BY <1>5 DEF Uniform, q, Q, later

-----------------------------------------------------------------------------
(* An element off the schedule grid, from its start times x.               *)
MemberTicks(el, x) == {0} \cup {ToTicks(f, x[f]) : f \in MemberSet(el)}

Missed(el, x) ==
    CASE el.kind \in Outputs -> ~Divides(Device[ChannelOf(el.frame)].scheduleGrid, x[el.frame])
      [] el.kind = "barrier" ->
             \E f \in MemberSet(el) : ~Divides(FrameUnit(f), Max(MemberTicks(el, x)))
      [] el.kind = "delay" -> el.duration > 0 /\ ~OnLattice(el.frame, el.duration)
      [] OTHER -> FALSE

OnGrid(p, b, k) ==
    \A i \in 1 .. Len(p) : Missed(p[i], b[i]) <=> Names(k, "schedule_grid", {i})

(* What the sink says of the grid, after one more element.                 *)
LEMMA OnGridGrows ==
    ASSUME NEW p, NEW b, NEW c, History(p, b, c), NEW el \in ElementSet,
           NEW k \in Seq(Rejected), NEW s \in Seq(Rejected), OnGrid(p, b, k),
           NoneAhead(p, k, "schedule_grid"),
           \A elements : Names(s, "schedule_grid", elements)
                             <=> Len(p) + 1 \in elements /\ Missed(el, c)
    PROVE  OnGrid(Append(p, el), Append(b, c), k \o s)
<1> DEFINE q == Append(p, el)
           bb == Append(b, c)
           n == Len(p) + 1
<1>1. /\ p \in Seq(ElementSet) /\ b \in Seq([Frames -> Nat]) /\ Len(b) = Len(p)
      /\ c \in [Frames -> Nat] /\ Len(p) \in Nat
  BY HistoryTypes DEF History
<1>2. /\ \A i \in 1 .. Len(p) : q[i] = p[i]
      /\ q[n] = el /\ Len(q) = n
  BY <1>1, OneMore
<1>3. /\ \A i \in 1 .. Len(p) : bb[i] = b[i]
      /\ bb[n] = c
  BY <1>1, OneMore
<1>4. /\ \A i \in 1 .. Len(p) : Names(k \o s, "schedule_grid", {i})
                                    <=> Names(k, "schedule_grid", {i})
      /\ Names(k \o s, "schedule_grid", {n}) <=> Missed(el, c)
  BY <1>1, OneMoreCited
<1> HIDE DEF q, bb
<1>5. ASSUME NEW i \in 1 .. Len(q)
      PROVE  Missed(q[i], bb[i]) <=> Names(k \o s, "schedule_grid", {i})
  <2>1. CASE i \in 1 .. Len(p)
    BY <1>2, <1>3, <1>4, <2>1 DEF OnGrid
  <2>2. CASE i = n
    BY <1>2, <1>3, <1>4, <2>2
  <2> QED BY <1>1, <1>2, <2>1, <2>2
<1> QED BY <1>5 DEF OnGrid, q, bb

-----------------------------------------------------------------------------
(* The last element of f of one of the kinds. *)
Newest(p, f, kinds, e) ==
    Placed(p, f, kinds) # {} =>
        e \in Placed(p, f, kinds) /\ \A i \in Placed(p, f, kinds) : i <= e

(* The last element of a kind, after one more.                             *)
LEMMA NewestGrows ==
    ASSUME NEW p \in Seq(ElementSet), NEW el \in ElementSet, NEW f, NEW kinds, NEW e,
           Newest(p, f, kinds, e)
    PROVE  Newest(Append(p, el), f, kinds,
                  IF el.kind \in kinds /\ el.frame = f THEN Len(p) + 1 ELSE e)
<1>1. /\ Placed(p, f, kinds) \subseteq 1 .. Len(p) /\ Len(p) \in Nat
      /\ Placed(Append(p, el), f, kinds)
             = Placed(p, f, kinds) \cup IF el.kind \in kinds /\ el.frame = f
                                        THEN {Len(p) + 1} ELSE {}
  BY PlacedGrows, OneMore
<1>2. CASE el.kind \in kinds /\ el.frame = f
  <2>1. /\ Len(p) + 1 \in Placed(Append(p, el), f, kinds)
        /\ \A i \in Placed(Append(p, el), f, kinds) : i <= Len(p) + 1
    BY <1>1, <1>2
  <2> QED BY <1>2, <2>1 DEF Newest
<1>3. CASE ~(el.kind \in kinds /\ el.frame = f)
  BY <1>1, <1>3 DEF Newest
<1> QED BY <1>2, <1>3

(* When operations start and outputs end; end is the latest of them all.   *)
StartOf(el, x) == ToTicks(el.frame, x[el.frame])

EndOf(el, x) ==
    StartOf(el, x) + ToTicks(el.frame, DurationUnits(el.frame, el.duration))

TimesOf(el, x) ==
    {t \in Nat : \/ el.kind \in Operations /\ t = StartOf(el, x)
                 \/ el.kind \in Outputs /\ t = EndOf(el, x)}

Moments(p, b) == {0} \cup UNION {TimesOf(p[i], b[i]) : i \in 1 .. Len(p)}

Ends(p, b, end) == end \in Moments(p, b) /\ \A t \in Moments(p, b) : t <= end

(* The end of the program, after one more element.                         *)
LEMMA EndsGrows ==
    ASSUME NEW p, NEW b, NEW c, History(p, b, c), NEW el \in ElementSet,
           NEW end, Ends(p, b, end), NEW later \in {end} \cup TimesOf(el, c),
           \A t \in {end} \cup TimesOf(el, c) : t <= later
    PROVE  Ends(Append(p, el), Append(b, c), later)
<1> DEFINE q == Append(p, el)
           bb == Append(b, c)
           n == Len(p) + 1
<1>1. /\ p \in Seq(ElementSet) /\ b \in Seq([Frames -> Nat]) /\ Len(b) = Len(p)
      /\ c \in [Frames -> Nat] /\ Len(p) \in Nat
  BY HistoryTypes DEF History
<1>2. /\ \A i \in 1 .. Len(p) : q[i] = p[i]
      /\ q[n] = el /\ Len(q) = n
  BY <1>1, OneMore
<1>3. /\ \A i \in 1 .. Len(p) : bb[i] = b[i]
      /\ bb[n] = c
  BY <1>1, OneMore
<1> HIDE DEF q, bb
<1>4. Moments(q, bb) = Moments(p, b) \cup TimesOf(el, c)
  <2>1. 1 .. Len(q) = (1 .. Len(p)) \cup {n}
    BY <1>1, <1>2
  <2>2. \A t : t \in Moments(q, bb)
                <=> t = 0 \/ \E i \in 1 .. Len(q) : t \in TimesOf(q[i], bb[i])
    BY DEF Moments
  <2>3. \A t : t \in Moments(p, b)
                <=> t = 0 \/ \E i \in 1 .. Len(p) : t \in TimesOf(p[i], b[i])
    BY DEF Moments
  <2>4. ASSUME NEW t
        PROVE  (\E i \in 1 .. Len(q) : t \in TimesOf(q[i], bb[i]))
                   <=> \/ \E i \in 1 .. Len(p) : t \in TimesOf(p[i], b[i])
                       \/ t \in TimesOf(el, c)
    BY <1>2, <1>3, <2>1
  <2> QED BY <2>2, <2>3, <2>4
<1>5. Moments(p, b) \subseteq Nat /\ TimesOf(el, c) \subseteq Nat
  BY DEF Moments, TimesOf
<1>6. later \in Moments(q, bb)
  BY <1>4 DEF Ends
<1>7. ASSUME NEW t \in Moments(q, bb) PROVE t <= later
  <2>1. CASE t \in Moments(p, b)
    <3>1. t <= end /\ end <= later /\ t \in Nat /\ end \in Nat /\ later \in Nat
      BY <1>5, <2>1 DEF Ends
    <3> QED BY <3>1
  <2>2. CASE t \in TimesOf(el, c)
    BY <2>2
  <2> QED BY <1>4, <2>1, <2>2
<1> QED BY <1>6, <1>7 DEF Ends, q, bb

-----------------------------------------------------------------------------
(* A step, in the terms of the history.  What a frame keeps when no        *)
(* element of its own is read.                                             *)
Unmoved(st, after) ==
    /\ after \in FrameRecord
    /\ after.clock >= st.clock
    /\ after.lastEvent = st.lastEvent /\ after.lastEventElement = st.lastEventElement
    /\ after.lastFreqUpdate = st.lastFreqUpdate /\ after.lastCapture = st.lastCapture
    /\ after.captureLength = st.captureLength
    /\ after.frequency = st.frequency /\ after.freqChecked = st.freqChecked

OpenKept(st, after) ==
    after.openCapture = st.openCapture /\ after.openCaptureElement = st.openCaptureElement

(* What an element adds to the sink. *)
Adds(el, s) ==
    /\ s \in Seq(Flagged) /\ s \in Seq(Rejected) /\ Once(s)
    /\ \A elements : Names(s, "schedule_grid", elements)
                         <=> Element \in elements /\ Missed(el, Clocks)
    /\ \A rule \in TimeIds \ {"schedule_grid"} : \A elements :
           Names(s, rule, elements) <=> Fires(el, rule, elements)

(* A barrier takes no clock back and leaves the rest of a frame alone.     *)
LEMMA BarrierMoves ==
    ASSUME IInv, NEW el \in ElementSet, Barrier(el), ~ToolError
    PROVE  \A f \in Frames : /\ Unmoved(states[f], states'[f])
                             /\ OpenKept(states[f], states'[f])
<1>1. PICK t \in MemberTimes(el) :
         /\ IsLatest(t, el)
         /\ states' = [f \in Frames |-> IF f \in MemberSet(el) THEN Joined(f, el, t)
                                        ELSE states[f]]
  BY DEF Barrier
<1>2. /\ Typed /\ Bound /\ el.kind = "barrier"
  BY DEF Barrier, Reads, IInv, ChannelsBound, Bound
<1>3. t \in Nat
  BY <1>2, MemberTimesNatural DEF Bound
<1>4. IInv'
  BY BarrierStep
<1> SUFFICES ASSUME NEW f \in Frames
             PROVE  Unmoved(states[f], states'[f]) /\ OpenKept(states[f], states'[f])
  OBVIOUS
<1>5. states[f] \in FrameRecord /\ states[f].clock \in Nat /\ states'[f] \in FrameRecord
  BY <1>2, <1>4 DEF Typed, IInv, FrameRecord
<1>6. CASE f \notin MemberSet(el)
  <2>1. states'[f] = states[f]
    BY <1>1, <1>6
  <2> QED BY <1>5, <2>1 DEF Unmoved, OpenKept
<1>7. CASE f \in MemberSet(el)
  <2>1. states'[f] = Joined(f, el, t)
    BY <1>1, <1>7
  <2>2. /\ states'[f].clock = Aligned(f, t)
        /\ states'[f].lastEvent = states[f].lastEvent
        /\ states'[f].lastEventElement = states[f].lastEventElement
        /\ states'[f].lastFreqUpdate = states[f].lastFreqUpdate
        /\ states'[f].lastCapture = states[f].lastCapture
        /\ states'[f].captureLength = states[f].captureLength
        /\ states'[f].frequency = states[f].frequency
        /\ states'[f].freqChecked = states[f].freqChecked
        /\ states'[f].openCapture = states[f].openCapture
        /\ states'[f].openCaptureElement = states[f].openCaptureElement
    BY <1>5, <2>1 DEF Joined, FrameRecord
  <2>3. /\ Aligned(f, t) \in Nat
        /\ 2 * Magnitude(Aligned(f, t) * FrameUnit(f) - t) <= FrameUnit(f)
        /\ FrameUnit(f) \in Nat \ {0}
    BY <1>2, <1>3, AlignedNearest, UnitPositive DEF Bound
  <2>4. states[f].clock * FrameUnit(f) <= t
    BY <1>1, <1>7 DEF IsLatest, MemberTimes, ToTicks
  <2>5. states[f].clock <= Aligned(f, t)
    BY <1>3, <1>5, <2>3, <2>4, NearestNotBefore
  <2> QED BY <1>5, <2>2, <2>3, <2>5 DEF Unmoved, OpenKept
<1> QED BY <1>6, <1>7

(* A barrier reports exactly the members its time misses. *)
LEMMA BarrierAdds ==
    ASSUME IInv, NEW el \in ElementSet, Barrier(el), ~ToolError
    PROVE  \E s : Adds(el, s) /\ sink' = sink \o s
<1>1. PICK t \in MemberTimes(el) : IsLatest(t, el) /\ sink' = sink \o BarrierRejections(el, t)
  BY DEF Barrier
<1>2. /\ Typed /\ Bound /\ el.kind = "barrier" /\ MemberSet(el) \subseteq Frames
  BY MembersAreFrames DEF Barrier, Reads, IInv, ChannelsBound, Bound
<1>3. MemberTicks(el, Clocks) = MemberTimes(el)
  <2>1. \A f \in MemberSet(el) : Clocks[f] = states[f].clock
    BY <1>2 DEF Clocks
  <2> QED BY <2>1 DEF MemberTicks, MemberTimes
<1>4. Max(MemberTimes(el)) = t
  <2>1. MemberTimes(el) \in SUBSET Int
    BY <1>2, MemberTimesNatural DEF Bound
  <2> QED BY <1>1, <2>1, MaxIs DEF IsLatest
<1>5. Missed(el, Clocks) <=> \E f \in MemberSet(el) : ~Divides(FrameUnit(f), t)
  BY <1>2, <1>3, <1>4 DEF Missed, Outputs
<1> DEFINE s == BarrierRejections(el, t)
<1>6. /\ s \in Seq(Flagged)
      /\ \A rule, elements :
             Names(s, rule, elements)
                 <=> /\ rule = "schedule_grid" /\ Element \in elements
                     /\ \E f \in MemberSet(el) : ~Divides(FrameUnit(f), t)
  BY <1>2, BarrierReports
<1> HIDE DEF s
<1>7. \A rule, elements : rule # "schedule_grid" => ~Fires(el, rule, elements)
  BY <1>2 DEF Fires, OddLength, Operations, Outputs
<1>8. Adds(el, s)
  <2>1. Once(s)
    BY <1>6, OnceSilent DEF Silent
  <2> QED BY <1>5, <1>6, <1>7, <2>1, FlaggedRejected DEF Adds
<1> QED BY <1>1, <1>8 DEF s

(* So does every other element, and what else it reports is what Fires. *)
LEMMA ElementAdds ==
    ASSUME IInv, NEW el \in ElementSet, ReadElement(el), ~ToolError, sink \in Seq(Rejected)
    PROVE  \E s : Adds(el, s) /\ sink' = sink \o s
<1>1. CASE Barrier(el)
  BY <1>1, BarrierAdds
<1>2. CASE ~Barrier(el)
  <2>1. PICK kind : Reads(el, kind) /\ kind # "barrier"
    <3>1. \/ Reads(el, "shift_phase") \/ Reads(el, "set_frequency") \/ Reads(el, "delay")
          \/ Reads(el, "capture") \/ Reads(el, "play")
      BY <1>2 DEF ReadElement, ShiftPhase, SetFrequency, Delay, Capture, Play
    <3> QED BY <3>1
  <2>2. /\ el.kind = kind /\ el.frame \in Frames /\ Bound
        /\ el.kind \in {"play", "capture", "delay"} => el.duration \in Int
    BY <2>1, Reading DEF Bound
  <2>3. PICK s : Reports(el, s) /\ sink' = sink \o s
    BY <2>1, <2>2, ElementReports
  <2>4. Clocks[el.frame] = states[el.frame].clock
    BY <2>2 DEF Clocks
  <2>5. OffGridHere(el) <=> Missed(el, Clocks)
    <3>1. CASE el.kind = "delay"
      <4>1. FrameUnit(el.frame) \in Nat \ {0} /\ Channels[ChannelOf(el.frame)].unit \in Nat
        BY <2>2, UnitPositive, FrameChannel, UnitAssumption DEF Bound
      <4>2. OnLattice(el.frame, 0)
        BY <4>1 DEF OnLattice, DurationTicks, Divides
      <4>3. el.duration >= 0 /\ ~OnLattice(el.frame, el.duration)
                <=> el.duration > 0 /\ ~OnLattice(el.frame, el.duration)
        BY <2>2, <3>1, <4>2
      <4> QED BY <3>1, <4>3 DEF OffGridHere, Missed, Outputs
    <3>2. CASE el.kind # "delay"
      BY <2>1, <2>2, <2>4, <3>2 DEF OffGridHere, Missed, OffSchedule
    <3> QED BY <3>1, <3>2
  <2>6. \A elements : Fires(el, "schedule_grid", elements)
                          <=> Element \in elements /\ OffGridHere(el)
    BY DEF Fires, NoteFires, RepeatRules
  <2>7. Adds(el, s)
    BY <2>3, <2>5, <2>6, FlaggedRejected DEF Adds, Reports, TimeIds
  <2> QED BY <2>3, <2>7
<1> QED BY <1>1, <1>2

(* An element of a frame moves that frame and no other; a barrier moves    *)
(* its members and forgets nothing of them.                                *)
Moves(el, f) ==
    IF el.kind # "barrier" /\ f = el.frame THEN Remembers(el, states[f], states'[f])
    ELSE Unmoved(states[f], states'[f]) /\ OpenKept(states[f], states'[f])

(* A frame that does not change does not move.                             *)
LEMMA Standing ==
    ASSUME NEW st \in FrameRecord PROVE Unmoved(st, st) /\ OpenKept(st, st)
<1>1. st.clock \in Nat
  BY DEF FrameRecord
<1> QED BY <1>1 DEF Unmoved, OpenKept

(* Every element moves frames so.                                          *)
LEMMA ElementMoves ==
    ASSUME IInv, NEW el \in ElementSet, ReadElement(el), ~ToolError
    PROVE  /\ phase = "elements" /\ phase' = phase /\ prog' = Append(prog, el)
           /\ \A f \in Frames : Moves(el, f)
<1>1. CASE Barrier(el)
  <2>1. phase = "elements" /\ phase' = phase /\ prog' = Append(prog, el) /\ el.kind = "barrier"
    BY <1>1 DEF Barrier, Reads
  <2> QED BY <1>1, <2>1, BarrierMoves DEF Moves
<1>2. CASE ~Barrier(el)
  <2>1. el.kind # "barrier"
    BY <1>2 DEF ReadElement, ShiftPhase, SetFrequency, Delay, Capture, Play, Reads
  <2>2. PICK after : /\ Remembers(el, states[el.frame], after)
                     /\ states' = StateAfter(el.frame, after)
    BY <2>1, ElementRemembers
  <2>3. /\ el.frame \in Frames /\ phase = "elements" /\ phase' = phase
        /\ prog' = Append(prog, el)
    BY <2>1, ElementRemembers
  <2>4. states \in [Frames -> FrameRecord]
    BY DEF IInv, Typed
  <2>5. ASSUME NEW f \in Frames PROVE Moves(el, f)
    <3>1. CASE f = el.frame
      <4>1. states'[f] = after
        BY <2>2, <2>3, <2>4, <3>1 DEF StateAfter
      <4> QED BY <2>1, <2>2, <3>1, <4>1 DEF Moves
    <3>2. CASE f # el.frame
      <4>1. states'[f] = states[f]
        BY <2>2, <2>4, <3>2 DEF StateAfter
      <4> QED BY <2>4, <3>2, <4>1, Standing DEF Moves
    <3> QED BY <3>1, <3>2
  <2> QED BY <2>3, <2>5
<1> QED BY <1>1, <1>2

(* The end of the program follows the starts of operations and the ends of *)
(* outputs.                                                                *)
LEMMA ElementExtends ==
    ASSUME IInv, NEW el \in ElementSet, ReadElement(el), ~ToolError
    PROVE  /\ programEnd' \in {programEnd} \cup TimesOf(el, Clocks)
           /\ \A t \in {programEnd} \cup TimesOf(el, Clocks) : t <= programEnd'
<1> DEFINE f == el.frame
           start == ToTicks(f, states[f].clock)
<1>1. programEnd \in Nat
  BY DEF IInv, Typed
<1>2. CASE Barrier(el) \/ Delay(el)
  <2>1. programEnd' = programEnd /\ el.kind \notin Operations /\ el.kind \notin Outputs
    BY <1>2 DEF Barrier, Delay, Reads, Operations, Outputs
  <2> QED BY <1>1, <2>1 DEF TimesOf
<1>3. ASSUME NEW kind, kind # "barrier", Reads(el, kind)
      PROVE  /\ f \in Frames /\ Bound /\ el.kind = kind /\ start \in Nat
             /\ StartOf(el, Clocks) = start /\ states[f].clock \in Nat
  <2>1. /\ f \in Frames /\ Bound /\ el.kind = kind /\ states[f].clock \in Nat /\ Typed
    BY <1>3, Reading DEF Bound
  <2>2. start \in Nat
    BY <2>1, TimeIsNatural DEF Bound
  <2> QED BY <2>1, <2>2 DEF StartOf, Clocks
<1>4. CASE ShiftPhase(el) \/ SetFrequency(el)
  <2>1. PICK kind \in {"shift_phase", "set_frequency"} : Reads(el, kind)
    BY <1>4 DEF ShiftPhase, SetFrequency
  <2>2. /\ f \in Frames /\ el.kind = kind /\ start \in Nat /\ StartOf(el, Clocks) = start
    BY <1>3, <2>1
  <2>3. Counted(states[f]).clock = states[f].clock
    BY <2>1, Reading
  <2>4. programEnd' = Later(programEnd, start)
    BY <1>4, <2>3 DEF ShiftPhase, SetFrequency
  <2>5. el.kind \in Operations /\ el.kind \notin Outputs
    BY <2>1, <2>2 DEF Operations, Outputs
  <2>6. TimesOf(el, Clocks) = {start}
    BY <2>2, <2>5 DEF TimesOf
  <2> HIDE DEF start
  <2> QED BY <1>1, <2>2, <2>4, <2>6 DEF Later
<1>5. CASE Capture(el) \/ Play(el)
  <2>1. PICK kind \in {"capture", "play"} : Reads(el, kind)
    BY <1>5 DEF Capture, Play
  <2>2. /\ f \in Frames /\ el.kind = kind /\ start \in Nat /\ StartOf(el, Clocks) = start
        /\ states[f].clock \in Nat /\ Bound
    BY <1>3, <2>1
  <2>3. PICK units \in Nat : units = DurationUnits(f, el.duration)
    <3>1. el.duration \in Int
      BY <2>1, <2>2, Reading
    <3> QED BY <2>2, <3>1, DurationNatural DEF Bound
  <2>4. PICK u \in Nat \ {0} : u = FrameUnit(f)
    BY <2>2, UnitPositive DEF Bound
  <2> DEFINE last == ToTicks(f, states[f].clock + units)
  <2>5. last = start + ToTicks(f, units) /\ last \in Nat
    <3>1. (states[f].clock + units) * u = states[f].clock * u + units * u
          /\ (states[f].clock + units) * u \in Nat
      BY <2>2, <2>3
    <3> QED BY <2>4, <3>1 DEF ToTicks
  <2>6. programEnd' = Later(Later(programEnd, start), last)
    BY <1>5, <2>3 DEF Capture, Play, PlayWaveform, PlayTones, OutputEnd
  <2>7. EndOf(el, Clocks) = last
    BY <2>2, <2>3, <2>5 DEF EndOf
  <2>8. el.kind \in Operations /\ el.kind \in Outputs
    BY <2>1, <2>2 DEF Operations, Outputs
  <2> HIDE DEF start, last
  <2>9. TimesOf(el, Clocks) = {start, last}
    BY <2>2, <2>5, <2>7, <2>8 DEF TimesOf
  <2> QED BY <1>1, <2>2, <2>5, <2>6, <2>9 DEF Later
<1> QED BY <1>2, <1>4, <1>5 DEF ReadElement

-----------------------------------------------------------------------------
(* The steps that read no element: they add rejections, if anything, and   *)
(* forget nothing of a frame but its open capture.                         *)
OneOf(F, r, elements) ==
    \A f, g \in F : r[f].element \in elements /\ r[g].element \in elements => f = g

(* Rejections collected frame by frame: what they name, and how often.     *)
LEMMA PerFrame ==
    ASSUME NEW F \in SUBSET Frames, NEW r \in [Frames -> Rejected]
    PROVE  LET s == FlattenSeq([f \in Frames |-> When(f \in F, r[f])])
           IN  /\ s \in Seq(Rejected)
               /\ \A rule, elements :
                     Names(s, rule, elements)
                         <=> \E f \in F : r[f].rule = rule /\ r[f].element \in elements
               /\ \A rule, elements : OneOf(F, r, elements) => Lone(s, rule, elements)
<1> DEFINE n == Len(FrameDefs)
           ss == [f \in Frames |-> When(f \in F, r[f])]
<1>1. Frames = 1 .. n /\ n \in Nat
  BY FrameAssumption, LenProperties DEF Frames
<1>2. ASSUME NEW f \in Frames, NEW rule, NEW elements
      PROVE  /\ ss[f] \in Seq(Rejected)
             /\ Names(ss[f], rule, elements)
                    <=> f \in F /\ r[f].rule = rule /\ r[f].element \in elements
  <2>1. PICK x \in Rejected : x = r[f]
    OBVIOUS
  <2>2. ss[f] = When(f \in F, x)
    BY <2>1
  <2> HIDE DEF ss
  <2>3. /\ When(f \in F, x) \in Seq(Rejected)
        /\ Names(When(f \in F, x), rule, elements)
               <=> f \in F /\ x.rule = rule /\ x.element \in elements
    BY WhenNames
  <2> QED BY <2>1, <2>2, <2>3
<1>3. ss \in [1 .. n -> Seq(Rejected)]
  <2>1. ss = [f \in Frames |-> ss[f]]
    OBVIOUS
  <2> HIDE DEF ss
  <2> QED BY <1>1, <1>2, <2>1
<1> HIDE DEF ss, n
<1>4. /\ FlattenSeq(ss) \in Seq(Rejected)
      /\ \A rule, elements :
            Names(FlattenSeq(ss), rule, elements) <=> \E f \in 1 .. n : Names(ss[f], rule, elements)
  BY <1>1, <1>3, FlattenNames
<1>5. ASSUME NEW rule, NEW elements
      PROVE  Names(FlattenSeq(ss), rule, elements)
                 <=> \E f \in F : r[f].rule = rule /\ r[f].element \in elements
  <2>1. Names(FlattenSeq(ss), rule, elements) <=> \E f \in Frames : Names(ss[f], rule, elements)
    BY <1>1, <1>4
  <2>2. \A f \in Frames : Names(ss[f], rule, elements)
                              <=> f \in F /\ r[f].rule = rule /\ r[f].element \in elements
    BY <1>2
  <2> QED BY <2>1, <2>2
<1>6. ASSUME NEW rule, NEW elements, OneOf(F, r, elements)
      PROVE  Lone(FlattenSeq(ss), rule, elements)
  <2>1. \A f, g \in 1 .. n : Names(ss[f], rule, elements) /\ Names(ss[g], rule, elements)
                                 => f = g
    BY <1>1, <1>2, <1>6 DEF OneOf
  <2>2. \A f \in 1 .. n : Lone(ss[f], rule, elements)
    BY <1>1, LoneWhen DEF ss
  <2> QED BY <1>1, <1>3, <2>1, <2>2, LoneFlatten
<1> QED BY <1>4, <1>5, <1>6 DEF ss


(* A fatal rejection is a rejection, of its rule and element.              *)
LEMMA FatalRejected ==
    ASSUME NEW rule \in Classes \ {"negative_time"}, NEW e \in Nat
    PROVE  /\ Fatal(rule, e) \in Rejected
           /\ Fatal(rule, e).rule = rule /\ Fatal(rule, e).element = e
  BY DEF Fatal, Rejection, Rejected, Of, Paired, Severities, NoRepair

(* CloseSlots cites the captures of the frames whose open one breaks it.   *)
OneBreaks(elements) ==
    \A f, g \in Frames :
        /\ BreaksSlotAtEnd(f) /\ states[f].openCaptureElement \in elements
        /\ BreaksSlotAtEnd(g) /\ states[g].openCaptureElement \in elements
        => f = g

(* CloseSlots adds those rejections and no others.                         *)
LEMMA SlotsAdd ==
    ASSUME IInv, CloseSlots, ~ToolError, sink \in Seq(Rejected)
    PROVE  /\ \E s \in Seq(Rejected) :
                  /\ sink' = sink \o s
                  /\ \A rule, elements : Names(s, rule, elements) => rule = "capture_slot"
                  /\ \A elements :
                         Names(s, "capture_slot", elements)
                             <=> \E f \in Frames : /\ BreaksSlotAtEnd(f)
                                                   /\ states[f].openCaptureElement \in elements
                  /\ \A elements : OneBreaks(elements) => Lone(s, "capture_slot", elements)
           /\ \A f \in Frames : Unmoved(states[f], states'[f])
<1> DEFINE r == [f \in Frames |-> Fatal("capture_slot", states[f].openCaptureElement)]
           F == {f \in Frames : BreaksSlotAtEnd(f)}
<1>1. \A f \in Frames : states[f] \in FrameRecord /\ states[f].openCaptureElement \in Nat
                            /\ states[f].clock \in Nat
  BY DEF IInv, Typed, FrameRecord
<1>2. r \in [Frames -> Rejected] 
      /\ \A f \in Frames : r[f].rule = "capture_slot"
                               /\ r[f].element = states[f].openCaptureElement
  <2>1. "capture_slot" \in Classes \ {"negative_time"}
    BY RulesAreClasses DEF ElementRules, TimeIds
  <2> QED BY <1>1, <2>1, FatalRejected
<1>3. [f \in Frames |-> When(BreaksSlotAtEnd(f),
                             Fatal("capture_slot", states[f].openCaptureElement))]
          = [f \in Frames |-> When(f \in F, r[f])]
  BY DEF When
<1> DEFINE s == FlattenSeq([f \in Frames |-> When(f \in F, r[f])])
<1>4. /\ s \in Seq(Rejected)
      /\ \A rule, elements : Names(s, rule, elements) => rule = "capture_slot"
      /\ \A elements :
             Names(s, "capture_slot", elements)
                 <=> \E f \in Frames : /\ BreaksSlotAtEnd(f)
                                       /\ states[f].openCaptureElement \in elements
      /\ \A elements : OneBreaks(elements) => Lone(s, "capture_slot", elements)
  <2> HIDE DEF r, F
  <2>1. F \in SUBSET Frames
    BY DEF F
  <2>2. /\ s \in Seq(Rejected)
        /\ \A rule, elements :
               Names(s, rule, elements)
                   <=> \E f \in F : r[f].rule = rule /\ r[f].element \in elements
        /\ \A rule, elements : OneOf(F, r, elements) => Lone(s, rule, elements)
    BY <1>2, <2>1, PerFrame
  <2> HIDE DEF s
  <2>3. \A rule, elements : Names(s, rule, elements) => rule = "capture_slot"
    BY <1>2, <2>1, <2>2
  <2>4. ASSUME NEW elements
        PROVE  Names(s, "capture_slot", elements)
                   <=> \E f \in Frames : /\ BreaksSlotAtEnd(f)
                                         /\ states[f].openCaptureElement \in elements
    <3>1. Names(s, "capture_slot", elements)
              <=> \E f \in F : r[f].rule = "capture_slot" /\ r[f].element \in elements
      BY <2>2
    <3> QED BY <1>2, <3>1 DEF F
  <2>5. ASSUME NEW elements, OneBreaks(elements) PROVE Lone(s, "capture_slot", elements)
    <3>1. OneOf(F, r, elements)
      BY <1>2, <2>5 DEF OneOf, OneBreaks, F
    <3> QED BY <2>2, <3>1
  <2> QED BY <2>2, <2>3, <2>4, <2>5
<1>5. ASSUME NEW f \in Frames PROVE Unmoved(states[f], states'[f])
  <2>1. states'[f] = [states[f] EXCEPT !.openCapture = Absent] \/ states'[f] = states[f]
    BY DEF CloseSlots
  <2>2. states[f] \in FrameRecord /\ states[f].clock \in Nat
    BY <1>1
  <2>3. CASE states'[f] = states[f]
    BY <2>2, <2>3, Standing
  <2>4. CASE states'[f] = [states[f] EXCEPT !.openCapture = Absent]
    <3>1. PICK st \in FrameRecord : st = states[f]
      BY <2>2
    <3> DEFINE after == [st EXCEPT !.openCapture = Absent]
    <3>2. after \in FrameRecord /\ after.clock = st.clock
      BY DEF FrameRecord
    <3>3. /\ after.lastEvent = st.lastEvent /\ after.lastEventElement = st.lastEventElement
          /\ after.lastFreqUpdate = st.lastFreqUpdate /\ after.lastCapture = st.lastCapture
          /\ after.captureLength = st.captureLength
          /\ after.frequency = st.frequency /\ after.freqChecked = st.freqChecked
      BY DEF FrameRecord
    <3>4. states'[f] = after
      BY <2>4, <3>1
    <3> HIDE DEF after
    <3> QED BY <2>2, <3>1, <3>2, <3>3, <3>4 DEF Unmoved
  <2> QED BY <2>1, <2>3, <2>4
<1>6. sink' = sink \o s
  BY <1>3 DEF CloseSlots
<1> HIDE DEF s
<1> QED BY <1>4, <1>5, <1>6

(* CloseSpacing cites the last operation of every frame it is late for.    *)
LEMMA SpacingAdds ==
    ASSUME IInv, CloseSpacing, ~ToolError, sink \in Seq(Rejected)
    PROVE  \E s \in Seq(Rejected) :
               /\ sink' = sink \o s
               /\ \A elements :
                     Names(s, "start_spacing", elements)
                         <=> \E f \in Frames : Late(f) /\ states[f].lastEventElement \in elements
               /\ \A rule, elements : Names(s, rule, elements) => rule = "start_spacing"
<1> DEFINE r == [f \in Frames |-> Fatal("start_spacing", states[f].lastEventElement)]
           F == {f \in Frames : Late(f)}
           s == FlattenSeq([f \in Frames |-> When(f \in F, r[f])])
<1>1. \A f \in Frames : states[f].lastEventElement \in Nat
  BY DEF IInv, Typed, FrameRecord
<1>2. /\ r \in [Frames -> Rejected]
      /\ \A f \in Frames : r[f].rule = "start_spacing"
                               /\ r[f].element = states[f].lastEventElement
  <2>1. "start_spacing" \in Classes \ {"negative_time"}
    BY RulesAreClasses DEF ElementRules, TimeIds
  <2> QED BY <1>1, <2>1, FatalRejected
<1>3. [f \in Frames |-> When(Late(f), Fatal("start_spacing", states[f].lastEventElement))]
          = [f \in Frames |-> When(f \in F, r[f])]
  BY DEF When
<1>4. sink' = sink \o s
  BY <1>3 DEF CloseSpacing
<1>5. /\ s \in Seq(Rejected)
      /\ \A rule, elements :
             Names(s, rule, elements)
                 <=> \E f \in F : r[f].rule = rule /\ r[f].element \in elements
  <2> HIDE DEF r, F
  <2>1. F \in SUBSET Frames
    BY DEF F
  <2> QED BY <1>2, <2>1, PerFrame
<1> HIDE DEF s, r
<1>6. \A rule, elements : Names(s, rule, elements) => rule = "start_spacing"
  BY <1>2, <1>5
<1>7. ASSUME NEW elements
      PROVE  Names(s, "start_spacing", elements)
                 <=> \E f \in Frames : Late(f) /\ states[f].lastEventElement \in elements
  <2>1. Names(s, "start_spacing", elements)
            <=> \E f \in F : r[f].rule = "start_spacing" /\ r[f].element \in elements
    BY <1>5
  <2> QED BY <1>2, <2>1
<1> QED BY <1>4, <1>5, <1>6, <1>7

(* A budget has a coverage class.                                          *)
LEMMA BudgetClass ==
    ASSUME NEW n \in 1 .. Len(Budgets) PROVE Budgets[n].id \in Classes \ {"negative_time"}
<1>1. \A i \in {23, 24, 25} :
         /\ i \in DOMAIN CoverageClasses
         /\ CoverageClasses[i] = << "pmem_words", "wmem_words", "loop_registers",
                                    "unconstrained_channel" >>[i - 22]
  BY DEF CoverageClasses, RuleIds
<1>2. \A i \in {23, 24, 25} : CoverageClasses[i] \in Classes
  BY <1>1 DEF Classes
<1>3. /\ CoverageClasses[23] = "pmem_words" /\ CoverageClasses[24] = "wmem_words"
      /\ CoverageClasses[25] = "loop_registers"
  BY <1>1
<1> HIDE DEF Classes
<1> QED BY <1>2, <1>3, BudgetAssumption

(* A budget adds rejections under its own name only.                       *)
LEMMA BudgetAdds ==
    ASSUME IInv, CountBudget, ~ToolError, sink \in Seq(Rejected)
    PROVE  \E s \in Seq(Rejected) :
               /\ sink' = sink \o s
               /\ \A rule, elements :
                      Names(s, rule, elements) => rule = Budgets[nextBudget].id
<1> DEFINE b == Budgets[nextBudget]
           r == Fatal(b.id, LastElement)
           verdict == BudgetVerdict(BudgetBounds(b), b.limit)
<1>1. sink' = sink \o When(verdict = "violates", r)
  BY DEF CountBudget
<1>2. b.id \in Classes \ {"negative_time"}
  <2>1. nextBudget \in 1 .. Len(Budgets)
    BY BudgetAssumption DEF CountBudget, IInv, Typed
  <2> QED BY <2>1, BudgetClass
<1>3. r \in Rejected
  <2>1. LastElement \in Nat
    BY LenProperties DEF IInv, Typed, LastElement
  <2> QED BY <1>2, <2>1, FatalRejected
<1> HIDE DEF r, b, verdict
<1>4. /\ When(verdict = "violates", r) \in Seq(Rejected)
      /\ \A rule, elements :
             Names(When(verdict = "violates", r), rule, elements) => r.rule = rule
  BY <1>3, WhenNames
<1>5. r.rule = b.id
  BY DEF r, Fatal, Rejection
<1> QED BY <1>1, <1>4, <1>5 DEF b

Loop == {"start", "elements", "slots"}

(* Every other step leaves the program, its end and what frames remember.  *)
LEMMA OtherSteps ==
    ASSUME IInv, sink \in Seq(Rejected), [Next]_vars,
           ~\E el \in ElementSet : ReadElement(el) /\ ~ToolError
    PROVE  /\ prog' = prog /\ programEnd' = programEnd
           /\ \A f \in Frames : Unmoved(states[f], states'[f])
           /\ \E s \in Seq(Rejected) : sink' = sink \o s
           /\ phase' \in Loop => phase \in Loop /\ sink' = sink
<1>1. \A f \in Frames : states[f] \in FrameRecord
  BY DEF IInv, Typed
<1>2. ASSUME states' = states PROVE \A f \in Frames : Unmoved(states[f], states'[f])
  BY <1>1, <1>2, Standing
<1>3. << >> \in Seq(Rejected) /\ sink \o << >> = sink
  BY EmptySeq, ConcatProperties
<1>4. CASE sink' = sink /\ UNCHANGED progVars /\ (phase' \in Loop => phase \in Loop)
  BY <1>2, <1>3, <1>4 DEF progVars
<1>5. CASE ToolError
  BY <1>4, <1>5 DEF ToolError, Loop
<1>6. CASE Bind
  BY <1>4, <1>5, <1>6 DEF Bind, Loop
<1>7. CASE EndOfProgram
  BY <1>4, <1>7 DEF EndOfProgram, Loop
<1>8. CASE CloseSlots /\ ~ToolError
  <2>1. phase' = "spacing" /\ prog' = prog /\ programEnd' = programEnd
    BY <1>8 DEF CloseSlots
  <2> QED BY <1>8, <2>1, SlotsAdd DEF Loop
<1>9. CASE CloseSpacing /\ ~ToolError
  <2>1. phase' = "budgets" /\ UNCHANGED progVars
    BY <1>9 DEF CloseSpacing
  <2>2. \E s \in Seq(Rejected) : sink' = sink \o s
    BY <1>9, SpacingAdds
  <2> QED BY <1>2, <2>1, <2>2 DEF Loop, progVars
<1>10. CASE SkipBudget
  BY <1>4, <1>10 DEF SkipBudget, Loop
<1>11. CASE CountBudget /\ ~ToolError
  <2>1. phase' = "budgets" /\ UNCHANGED progVars
    BY <1>11 DEF CountBudget
  <2>2. \E s \in Seq(Rejected) : sink' = sink \o s
    BY <1>11, BudgetAdds
  <2> QED BY <1>2, <2>1, <2>2 DEF Loop, progVars
<1>12. CASE Finish \/ Idle \/ UNCHANGED vars
  BY <1>4, <1>12 DEF Finish, Idle, vars, Loop
<1> QED BY <1>5, <1>6, <1>7, <1>8, <1>9, <1>10, <1>11, <1>12 DEF Next

-----------------------------------------------------------------------------
(* The inductive invariant.  A frame state remembers the last operation,   *)
(* the last update and the last capture of the program as it was read.     *)
Remembered(f) ==
    /\ Latest(prog, before, f, Operations, states[f].lastEvent)
    /\ Latest(prog, before, f, {"set_frequency"}, states[f].lastFreqUpdate)
    /\ Latest(prog, before, f, {"capture"}, states[f].lastCapture)
    /\ Newest(prog, f, Operations, states[f].lastEventElement)
    /\ FrameDeclares(f, "capture_length_uniform")
           => FirstLength(prog, f, states[f].captureLength)

(* What it remembers was enough: any two operations, updates or captures   *)
(* that are too close are in the sink, and so is what is too close to the  *)
(* update at time 0.                                                       *)
KindsOf(rule) == IF rule = "capture_spacing" THEN {"capture"} ELSE {"set_frequency"}

SpacingReported(f) ==
    /\ FrameDeclares(f, "start_spacing")
           => Apart(prog, before, sink, f, Operations, "start_spacing")
    /\ InitialPhaseUpdate(f)
           => Clear(prog, before, sink, f, Operations, "start_spacing")
    /\ \A rule \in RepeatRules : FrameDeclares(f, rule)
           => Apart(prog, before, sink, f, KindsOf(rule), rule)

(* While the loop runs, the rules that look at one element cite exactly    *)
(* the elements that break them.                                           *)
LoopReported ==
    /\ NoneAhead(prog, sink, "schedule_grid")
    /\ NoneAhead(prog, sink, "capture_length_uniform")
    /\ OnGrid(prog, before, sink)
    /\ \A f \in Frames : FrameDeclares(f, "capture_length_uniform")
           => Uniform(prog, sink, f, states[f].captureLength)

HInv ==
    /\ IInv
    /\ sink \in Seq(Rejected)
    /\ History(prog, before, Clocks)
    /\ Ends(prog, before, programEnd)
    /\ phase \notin {"start", "tool_error"} => ValidDescriptor /\ Bound
    /\ \A f \in Frames : Remembered(f)
    /\ \A f \in Frames : SpacingReported(f)
    /\ phase \in Loop => LoopReported

(* What a frame remembers after an element, whichever it is. *)
LEMMA MovesRecall ==
    ASSUME NEW el, NEW f \in Frames, Moves(el, f)
    PROVE  LET own(kinds) == el.kind \in kinds /\ el.frame = f
               after == states'[f]
           IN  /\ after.lastEvent = IF own(Operations) THEN Clocks[f] ELSE states[f].lastEvent
               /\ after.lastEventElement = IF own(Operations) THEN Element
                                           ELSE states[f].lastEventElement
               /\ after.lastFreqUpdate = IF own({"set_frequency"}) THEN Clocks[f]
                                         ELSE states[f].lastFreqUpdate
               /\ after.lastCapture = IF own({"capture"}) THEN Clocks[f]
                                      ELSE states[f].lastCapture
               /\ FrameDeclares(f, "capture_length_uniform")
                      => after.captureLength
                             = IF /\ el.kind = "capture" /\ el.frame = f
                                  /\ states[f].captureLength = Absent
                               THEN DurationUnits(f, el.duration)
                               ELSE states[f].captureLength
<1>1. Clocks[f] = states[f].clock
  BY DEF Clocks
<1>2. CASE el.kind # "barrier" /\ f = el.frame
  BY <1>1, <1>2 DEF Moves, Remembers, Recalls, FixesLength
<1>3. CASE ~(el.kind # "barrier" /\ f = el.frame)
  <2>1. ~(el.kind \in Operations /\ el.frame = f)
    BY <1>3 DEF Operations, Outputs
  <2>2. el.kind \in {"capture", "set_frequency"} => el.kind \in Operations
    BY DEF Operations, Outputs
  <2> QED BY <1>3, <2>1, <2>2 DEF Moves, Unmoved
<1> QED BY <1>2, <1>3

(* An element keeps the memory of every frame true.                        *)
LEMMA ElementRemembered ==
    ASSUME HInv, NEW el \in ElementSet, ReadElement(el), ~ToolError,
           before' = Append(before, Clocks), NEW f \in Frames
    PROVE  Remembered(f)'
<1> DEFINE st == states[f]
           after == states'[f]
<1>1. /\ prog' = Append(prog, el) /\ Moves(el, f) /\ Bound
      /\ History(prog, before, Clocks) /\ prog \in Seq(ElementSet)
      /\ Remembered(f)
  BY ElementMoves DEF HInv, History
<1>2. /\ Latest(prog', before', f, Operations,
                IF el.kind \in Operations /\ el.frame = f THEN Clocks[f] ELSE st.lastEvent)
      /\ Latest(prog', before', f, {"set_frequency"},
                IF el.kind \in {"set_frequency"} /\ el.frame = f THEN Clocks[f]
                ELSE st.lastFreqUpdate)
      /\ Latest(prog', before', f, {"capture"},
                IF el.kind \in {"capture"} /\ el.frame = f THEN Clocks[f] ELSE st.lastCapture)
  BY <1>1, LatestGrows DEF Remembered
<1>3. Newest(prog', f, Operations,
             IF el.kind \in Operations /\ el.frame = f THEN Element ELSE st.lastEventElement)
  BY <1>1, NewestGrows DEF Remembered, Element
<1>4. FrameDeclares(f, "capture_length_uniform")
          => FirstLength(prog', f,
                         IF el.kind = "capture" /\ el.frame = f /\ st.captureLength = Absent
                         THEN DurationUnits(f, el.duration) ELSE st.captureLength)
  BY <1>1, FirstLengthGrows DEF Remembered
<1> HIDE DEF st, after
<1>5. /\ after.lastEvent = IF el.kind \in Operations /\ el.frame = f THEN Clocks[f]
                           ELSE st.lastEvent
      /\ after.lastEventElement = IF el.kind \in Operations /\ el.frame = f THEN Element
                                  ELSE st.lastEventElement
      /\ after.lastFreqUpdate = IF el.kind \in {"set_frequency"} /\ el.frame = f
                                THEN Clocks[f] ELSE st.lastFreqUpdate
      /\ after.lastCapture = IF el.kind \in {"capture"} /\ el.frame = f THEN Clocks[f]
                             ELSE st.lastCapture
      /\ FrameDeclares(f, "capture_length_uniform")
             => after.captureLength
                    = IF el.kind = "capture" /\ el.frame = f /\ st.captureLength = Absent
                      THEN DurationUnits(f, el.duration) ELSE st.captureLength
  BY <1>1, MovesRecall DEF st, after
<1>6. /\ Latest(prog', before', f, Operations, after.lastEvent)
      /\ Latest(prog', before', f, {"set_frequency"}, after.lastFreqUpdate)
      /\ Latest(prog', before', f, {"capture"}, after.lastCapture)
      /\ Newest(prog', f, Operations, after.lastEventElement)
  BY <1>2, <1>3, <1>5
<1>7. FrameDeclares(f, "capture_length_uniform")
          => FirstLength(prog', f, after.captureLength)
  BY <1>4, <1>5
<1> QED BY <1>6, <1>7 DEF Remembered, after

(* An element of f that starts too soon is reported at once.               *)
LEMMA StartsReported ==
    ASSUME IInv, NEW el \in ElementSet, el.kind \in Operations, NEW f \in Frames, el.frame = f,
           NEW s, Adds(el, s), FrameDeclares(f, "start_spacing"),
           NEW last, last = states[f].lastEvent
    PROVE  /\ last # Absent /\ Close(f, "start_spacing", Clocks[f] - last)
                  => Names(s, "start_spacing", {Element})
           /\ InitialPhaseUpdate(f)
              /\ Close(f, "start_spacing", Clocks[f] - (IF last = Absent THEN 0 ELSE last))
                  => Names(s, "start_spacing", {Element})
<1> DEFINE st == states[f]
           since == PreviousEvent(f, st)
<1>1. /\ st \in FrameRecord /\ st.clock \in Nat /\ last \in Int \cup {Absent}
      /\ Clocks[f] = st.clock
  BY DEF IInv, Typed, FrameRecord, Clocks
<1>2. Crowded(f, st) => Names(s, "start_spacing", {Element})
  <2>1. Names(s, "start_spacing", {Element}) <=> Fires(el, "start_spacing", {Element})
    BY DEF Adds, TimeIds
  <2> QED BY <2>1 DEF Fires, NoteFires
<1>3. ASSUME since \in Int, Close(f, "start_spacing", st.clock - since) PROVE Crowded(f, st)
  <2> HIDE DEF since
  <2>1. /\ st.clock - since # 0
        /\ TooSoon(f, "start_spacing", st.clock - since)
    BY <1>3 DEF Close
  <2>2. since # Absent /\ st.clock # since
    BY <1>1, <1>3, <2>1, AbsentAssumption
  <2> QED BY <2>1, <2>2 DEF Crowded, Crowds, TooSoon, since
<1>4. last # Absent => since = last /\ since \in Int
  BY <1>1 DEF PreviousEvent
<1>5. InitialPhaseUpdate(f)
          => since = (IF last = Absent THEN 0 ELSE last) /\ since \in Int
  BY <1>1 DEF PreviousEvent
<1> HIDE DEF since, st
<1>6. ASSUME last # Absent, Close(f, "start_spacing", Clocks[f] - last)
      PROVE  Names(s, "start_spacing", {Element})
  BY <1>1, <1>2, <1>3, <1>4, <1>6
<1>7. ASSUME InitialPhaseUpdate(f),
             Close(f, "start_spacing", Clocks[f] - (IF last = Absent THEN 0 ELSE last))
      PROVE  Names(s, "start_spacing", {Element})
  <2>1. Close(f, "start_spacing", st.clock - since)
    BY <1>1, <1>5, <1>7
  <2> QED BY <1>2, <1>3, <1>5, <1>7, <2>1
<1> QED BY <1>6, <1>7

(* What the sink says of repeats, after an element.                        *)
LEMMA RepeatsReported ==
    ASSUME IInv, NEW el \in ElementSet, NEW f \in Frames, el.frame = f,
           NEW s, Adds(el, s), NEW rule \in RepeatRules, FrameDeclares(f, rule),
           el.kind \in KindsOf(rule)
    PROVE  LET last == IF rule = "capture_spacing" THEN states[f].lastCapture
                       ELSE states[f].lastFreqUpdate
           IN  last # Absent /\ Close(f, rule, Clocks[f] - last) => Names(s, rule, {Element})
<1> DEFINE st == states[f]
<1>1. Clocks[f] = st.clock
  BY DEF Clocks
<1>2. el.kind \in Operations
  BY DEF KindsOf, Operations, Outputs
<1>3. Names(s, rule, {Element}) <=> Fires(el, rule, {Element})
  BY DEF Adds, TimeIds, RepeatRules
<1>4. Repeats(f, st, NotedAs(el), rule) => Names(s, rule, {Element})
  BY <1>2, <1>3 DEF Fires, NoteFires
<1>5. CASE rule = "capture_spacing"
  <2>1. NotedAs(el) = "capture"
    BY <1>5 DEF NotedAs, KindsOf
  <2> QED BY <1>1, <1>4, <1>5, <2>1 DEF Repeats, Crowds, Close, TooSoon
<1>6. CASE rule # "capture_spacing"
  <2>1. rule = "frequency_update_spacing" /\ NotedAs(el) = "frequency"
    BY <1>6 DEF NotedAs, KindsOf, RepeatRules
  <2> QED BY <1>1, <1>4, <2>1 DEF Repeats, Crowds, Close, TooSoon
<1> QED BY <1>5, <1>6

(* An element keeps the spacing rules reported.                            *)
LEMMA ElementSpaced ==
    ASSUME HInv, NEW el \in ElementSet, ReadElement(el), ~ToolError,
           before' = Append(before, Clocks), NEW s, Adds(el, s), sink' = sink \o s,
           NEW f \in Frames
    PROVE  SpacingReported(f)'
<1>1. /\ prog' = Append(prog, el) /\ Bound /\ ValidDescriptor /\ IInv
      /\ History(prog, before, Clocks) /\ prog \in Seq(ElementSet)
      /\ Remembered(f) /\ SpacingReported(f) /\ sink \in Seq(Rejected)
      /\ s \in Seq(Rejected)
  BY ElementMoves DEF HInv, History, Adds
<1>2. \A rule \in SpacingRules : FrameDeclares(f, rule)
          => FrameConstraint(f, rule).minUnits \in Nat
  BY <1>1, SpacingDistance
<1>3. {"start_spacing"} \cup RepeatRules \subseteq SpacingRules
  BY DEF SpacingRules, RepeatRules
<1>4. ASSUME FrameDeclares(f, "start_spacing")
      PROVE  Apart(prog', before', sink', f, Operations, "start_spacing")
  <2>1. el.kind \in Operations /\ el.frame = f /\ states[f].lastEvent # Absent
        /\ Close(f, "start_spacing", Clocks[f] - states[f].lastEvent)
            => Names(s, "start_spacing", {Len(prog) + 1})
    BY <1>1, <1>4, StartsReported DEF Element
  <2>2. Apart(prog, before, sink, f, Operations, "start_spacing")
        /\ Latest(prog, before, f, Operations, states[f].lastEvent)
        /\ FrameConstraint(f, "start_spacing").minUnits \in Nat
    BY <1>1, <1>2, <1>3, <1>4 DEF SpacingReported, Remembered
  <2> QED BY <1>1, <2>1, <2>2, ApartGrows
<1>5. ASSUME InitialPhaseUpdate(f)
      PROVE  Clear(prog', before', sink', f, Operations, "start_spacing")
  <2>1. FrameDeclares(f, "start_spacing")
    BY <1>5 DEF InitialPhaseUpdate
  <2>2. el.kind \in Operations /\ el.frame = f
        /\ Close(f, "start_spacing",
                 Clocks[f] - (IF states[f].lastEvent = Absent THEN 0 ELSE states[f].lastEvent))
            => Names(s, "start_spacing", {Len(prog) + 1})
    BY <1>1, <1>5, <2>1, StartsReported DEF Element
  <2>3. Clear(prog, before, sink, f, Operations, "start_spacing")
        /\ Latest(prog, before, f, Operations, states[f].lastEvent)
        /\ FrameConstraint(f, "start_spacing").minUnits \in Nat
    BY <1>1, <1>2, <1>3, <1>5, <2>1 DEF SpacingReported, Remembered
  <2> QED BY <1>1, <2>2, <2>3, ClearGrows
<1>6. ASSUME NEW rule \in RepeatRules, FrameDeclares(f, rule)
      PROVE  Apart(prog', before', sink', f, KindsOf(rule), rule)
  <2> DEFINE last == IF rule = "capture_spacing" THEN states[f].lastCapture
                     ELSE states[f].lastFreqUpdate
  <2>1. el.kind \in KindsOf(rule) /\ el.frame = f /\ last # Absent
        /\ Close(f, rule, Clocks[f] - last)
            => Names(s, rule, {Len(prog) + 1})
    BY <1>1, <1>6, RepeatsReported DEF Element
  <2>2. Latest(prog, before, f, KindsOf(rule), last)
    BY <1>1 DEF Remembered, KindsOf
  <2>3. Apart(prog, before, sink, f, KindsOf(rule), rule)
        /\ FrameConstraint(f, rule).minUnits \in Nat
    BY <1>1, <1>2, <1>3, <1>6 DEF SpacingReported
  <2> HIDE DEF last
  <2> QED BY <1>1, <2>1, <2>2, <2>3, ApartGrows
<1> QED BY <1>4, <1>5, <1>6 DEF SpacingReported

(* An element keeps the rules about one element exact.                     *)
LEMMA ElementLoopReported ==
    ASSUME HInv, LoopReported, NEW el \in ElementSet, ReadElement(el), ~ToolError,
           before' = Append(before, Clocks), NEW s, Adds(el, s), sink' = sink \o s
    PROVE  LoopReported'
<1>1. /\ prog' = Append(prog, el) /\ Bound /\ \A f \in Frames : Moves(el, f)
      /\ History(prog, before, Clocks) /\ prog \in Seq(ElementSet)
      /\ sink \in Seq(Rejected) /\ s \in Seq(Rejected)
      /\ \A f \in Frames : Remembered(f)
  BY ElementMoves DEF HInv, History, Adds
<1>2. \A elements : Names(s, "schedule_grid", elements)
                        <=> Len(prog) + 1 \in elements /\ Missed(el, Clocks)
  BY DEF Adds, Element
<1>3. \A elements : Names(s, "capture_length_uniform", elements)
                        <=> Len(prog) + 1 \in elements /\ OddLength(el)
  <2>1. "capture_length_uniform" \in TimeIds \ {"schedule_grid"}
    BY DEF TimeIds
  <2>2. \A elements : Fires(el, "capture_length_uniform", elements)
                          <=> Element \in elements /\ OddLength(el)
    BY DEF Fires, NoteFires, RepeatRules
  <2> QED BY <2>1, <2>2 DEF Adds, Element
<1>4. /\ NoneAhead(prog, sink, "schedule_grid")
      /\ NoneAhead(prog, sink, "capture_length_uniform")
      /\ OnGrid(prog, before, sink)
  BY DEF LoopReported
<1>5. NoneAhead(prog', sink', "schedule_grid")
  BY <1>1, <1>2, <1>4, OneMoreCited
<1>6. NoneAhead(prog', sink', "capture_length_uniform")
  BY <1>1, <1>3, <1>4, OneMoreCited
<1>7. OnGrid(prog', before', sink')
  BY <1>1, <1>2, <1>4, OnGridGrows
<1>8. ASSUME NEW f \in Frames, FrameDeclares(f, "capture_length_uniform")
      PROVE  Uniform(prog', sink', f, states'[f].captureLength)
  <2> DEFINE length == states[f].captureLength
             later == IF el.kind = "capture" /\ el.frame = f /\ length = Absent
                      THEN DurationUnits(f, el.duration) ELSE length
  <2>1. FirstLength(prog, f, length) /\ Uniform(prog, sink, f, length)
    BY <1>1, <1>8 DEF Remembered, LoopReported
  <2>2. states'[f].captureLength = later
    BY <1>1, <1>8, MovesRecall
  <2>3. el.kind = "capture" /\ el.frame = f
            => (OddLength(el) <=> length # Absent /\ DurationUnits(f, el.duration) # length)
    BY <1>8 DEF OddLength
  <2> HIDE DEF length
  <2>4. Uniform(Append(prog, el), sink \o s, f, later)
    BY <1>1, <1>3, <1>4, <2>1, <2>3, UniformGrows
  <2> QED BY <1>1, <2>2, <2>4
<1> QED BY <1>5, <1>6, <1>7, <1>8 DEF LoopReported

(* An element keeps the invariant.                                         *)
LEMMA ElementKeepsHInv ==
    ASSUME HInv, NEW el \in ElementSet, ReadElement(el), ~ToolError,
           before' = Append(before, Clocks), IInv'
    PROVE  HInv'
<1>1. /\ IInv /\ sink \in Seq(Rejected) /\ Ends(prog, before, programEnd)
      /\ History(prog, before, Clocks) /\ ValidDescriptor /\ Bound
      /\ phase = "elements" /\ phase' = phase /\ prog' = Append(prog, el)
      /\ \A f \in Frames : Moves(el, f)
  BY ElementMoves DEF HInv
<1>2. PICK s : Adds(el, s) /\ sink' = sink \o s
  BY <1>1, ElementAdds
<1>3. sink' \in Seq(Rejected)
  BY <1>1, <1>2, ConcatProperties DEF Adds
<1>4. History(prog', before', Clocks')
  <2>1. Clocks' \in [Frames -> Nat]
    BY DEF IInv, Typed, FrameRecord, Clocks
  <2>2. \A f \in Frames : Clocks[f] <= Clocks'[f]
    <3>1. ASSUME NEW f \in Frames PROVE states[f].clock <= states'[f].clock
      <4>1. states[f].clock \in Nat /\ states'[f].clock \in Nat
        BY <1>1 DEF IInv, Typed, FrameRecord
      <4>2. states'[f].clock >= states[f].clock
        BY <1>1 DEF Moves, Unmoved, Remembers, Recalls
      <4> QED BY <4>1, <4>2
    <3> QED BY <3>1 DEF Clocks
  <2> QED BY <1>1, <2>1, <2>2, HistoryGrows
<1>5. Ends(prog', before', programEnd')
  BY <1>1, ElementExtends, EndsGrows
<1>6. \A f \in Frames : Remembered(f)'
  BY ElementRemembered
<1>7. \A f \in Frames : SpacingReported(f)'
  BY <1>2, ElementSpaced
<1>8. LoopReported'
  <2>1. LoopReported
    BY <1>1 DEF HInv, Loop
  <2> QED BY <1>2, <2>1, ElementLoopReported
<1> QED BY <1>1, <1>3, <1>4, <1>5, <1>6, <1>7, <1>8 DEF HInv

(* The other steps read nothing, and a rejection that was made stays.      *)
LEMMA SinkKeepsSpacing ==
    ASSUME HInv, NEW s \in Seq(Rejected), sink' = sink \o s, prog' = prog, before' = before,
           NEW f \in Frames
    PROVE  SpacingReported(f)'
<1>1. \A rule, elements : Names(sink, rule, elements) => Names(sink', rule, elements)
  BY NamesConcat DEF HInv
<1>2. \A kinds, rule : Apart(prog, before, sink, f, kinds, rule)
                           => Apart(prog', before', sink', f, kinds, rule)
  BY <1>1 DEF Apart
<1>3. \A kinds, rule : Clear(prog, before, sink, f, kinds, rule)
                           => Clear(prog', before', sink', f, kinds, rule)
  BY <1>1 DEF Clear
<1>4. SpacingReported(f)
  BY DEF HInv
<1> QED BY <1>2, <1>3, <1>4 DEF SpacingReported

(* A run leaves its start with a descriptor that is valid and bound. *)
LEMMA LeavesStart ==
    ASSUME [Next]_vars, phase' \notin {"start", "tool_error"}
    PROVE  phase \notin {"start", "tool_error"} \/ (ValidDescriptor /\ Bound)
<1>1. CASE Bind
  BY <1>1 DEF Bind, ToolError, Unbound, Bound
<1>2. ASSUME NEW el \in ElementSet, ReadElement(el) PROVE phase = "elements"
  BY <1>2 DEF ReadElement, Barrier, ShiftPhase, SetFrequency, Delay, Capture, Play, Reads
<1>3. CASE EndOfProgram \/ CloseSlots \/ CloseSpacing \/ SkipBudget \/ CountBudget \/ Finish
  BY <1>3 DEF EndOfProgram, CloseSlots, CloseSpacing, SkipBudget, CountBudget, Finish
<1>4. CASE Idle \/ UNCHANGED vars
  BY <1>4 DEF Idle, vars
<1> QED BY <1>1, <1>2, <1>3, <1>4 DEF Next

(* So does every other step.                                               *)
LEMMA OtherKeepsHInv ==
    ASSUME HInv, [Next]_vars, ~\E el \in ElementSet : ReadElement(el) /\ ~ToolError,
           before' = before, IInv'
    PROVE  HInv'
<1>1. /\ prog' = prog /\ programEnd' = programEnd
      /\ \A f \in Frames : Unmoved(states[f], states'[f])
      /\ phase' \in Loop => phase \in Loop /\ sink' = sink
  BY OtherSteps DEF HInv
<1>2. PICK s \in Seq(Rejected) : sink' = sink \o s
  BY OtherSteps DEF HInv
<1>3. sink' \in Seq(Rejected)
  BY <1>2, ConcatProperties DEF HInv
<1>4. History(prog', before', Clocks')
  <2>1. Clocks' \in [Frames -> Nat]
    BY DEF IInv, Typed, FrameRecord, Clocks
  <2>2. \A f \in Frames : Clocks[f] <= Clocks'[f]
    <3>1. ASSUME NEW f \in Frames PROVE states[f].clock <= states'[f].clock
      <4>1. states[f].clock \in Nat /\ states'[f].clock \in Nat
        BY DEF HInv, IInv, Typed, FrameRecord
      <4> QED BY <1>1, <4>1 DEF Unmoved
    <3> QED BY <3>1 DEF Clocks
  <2>3. History(prog, before, Clocks)
    BY DEF HInv
  <2>4. \A f \in Frames : \A i \in 1 .. Len(prog) : before[i][f] <= Clocks'[f]
    <3>1. ASSUME NEW f \in Frames, NEW i \in 1 .. Len(prog)
          PROVE  before[i][f] <= Clocks'[f]
      <4>1. before[i][f] <= Clocks[f] /\ before[i][f] \in Nat /\ Clocks[f] \in Nat
        BY <2>3, HistoryTypes DEF History
      <4>2. Clocks'[f] \in Nat /\ Clocks[f] <= Clocks'[f]
        BY <2>1, <2>2
      <4> HIDE DEF Clocks
      <4> QED BY <4>1, <4>2
    <3> QED BY <3>1
  <2> QED BY <1>1, <2>1, <2>3, <2>4 DEF History
<1>5. Ends(prog', before', programEnd')
  BY <1>1 DEF HInv
<1>6. phase' \notin {"start", "tool_error"} => ValidDescriptor /\ Bound
  BY LeavesStart DEF HInv
<1>7. \A f \in Frames : Remembered(f)'
  BY <1>1 DEF HInv, Remembered, Unmoved
<1>8. \A f \in Frames : SpacingReported(f)'
  BY <1>1, <1>2, SinkKeepsSpacing
<1>9. phase' \in Loop => LoopReported'
  BY <1>1 DEF HInv, LoopReported, Unmoved
<1> QED BY <1>3, <1>4, <1>5, <1>6, <1>7, <1>8, <1>9 DEF HInv

(* It holds before the program is read.                                    *)
LEMMA InitHInv ==
    ASSUME HInit PROVE HInv
<1>1. /\ prog = << >> /\ before = << >> /\ sink = << >> /\ programEnd = 0 /\ phase = "start"
      /\ states = [f \in Frames |-> InitialState(f)]
  BY DEF HInit, Init
<1>2. Len(prog) = 0 /\ Len(before) = 0 /\ DOMAIN prog = {} /\ 1 .. Len(prog) = {}
      /\ prog \in Seq(ElementSet) /\ before \in Seq([Frames -> Nat]) /\ sink \in Seq(Rejected)
  BY <1>1, EmptySeq
<1>3. \A f, kinds : Placed(prog, f, kinds) = {}
  BY <1>2 DEF Placed
<1>4. IInv
  BY InitIInv DEF HInit
<1>5. History(prog, before, Clocks)
  <2>1. Clocks \in [Frames -> Nat]
    BY <1>4 DEF IInv, Typed, FrameRecord, Clocks
  <2> QED BY <1>2, <2>1 DEF History
<1>6. Ends(prog, before, programEnd)
  <2>1. Moments(prog, before) = {0}
    BY <1>2 DEF Moments
  <2> QED BY <1>1, <2>1 DEF Ends
<1>7. \A rule, elements : ~Names(sink, rule, elements)
  BY <1>1, NamesNone
<1>8. ASSUME NEW f \in Frames PROVE Remembered(f)
  <2>1. /\ states[f].lastEvent = Absent /\ states[f].lastFreqUpdate = Absent
        /\ states[f].lastCapture = Absent /\ states[f].captureLength = Absent
    BY <1>1 DEF InitialState
  <2> QED BY <1>3, <2>1 DEF Remembered, Latest, Newest, FirstLength
<1>9. \A f \in Frames : SpacingReported(f)
  BY <1>3 DEF SpacingReported, Apart, Clear
<1>10. LoopReported
  BY <1>2, <1>3, <1>7 DEF LoopReported, NoneAhead, OnGrid, Uniform
<1> QED BY <1>1, <1>2, <1>4, <1>5, <1>6, <1>8, <1>9, <1>10 DEF HInv

(* The history grows with every element that is read, and only then. *)
LEMMA ElementRecorded ==
    ASSUME HInv, [HNext]_<< vars, before >>, NEW el \in ElementSet, ReadElement(el), ~ToolError
    PROVE  before' = Append(before, Clocks)
<1>1. prog' = Append(prog, el) /\ prog \in Seq(ElementSet)
  BY ElementMoves DEF HInv, History
<1>2. prog' # prog
  BY <1>1, OneMore
<1> QED BY <1>2 DEF HNext, vars, progVars, Clocks

(* A step that reads nothing records nothing.                              *)
LEMMA OtherRecorded ==
    ASSUME HInv, [HNext]_<< vars, before >>,
           ~\E el \in ElementSet : ReadElement(el) /\ ~ToolError
    PROVE  before' = before
<1>1. prog' = prog
  BY OtherSteps DEF HInv, HNext
<1> QED BY <1>1 DEF HNext

(* Every step keeps the invariant.                                         *)
LEMMA StepHInv ==
    ASSUME HInv, [HNext]_<< vars, before >> PROVE HInv'
<1>1. [Next]_vars
  BY DEF HNext
<1>2. IInv'
  BY <1>1, StepIInv DEF HInv
<1>3. CASE \E el \in ElementSet : ReadElement(el) /\ ~ToolError
  BY <1>2, <1>3, ElementRecorded, ElementKeepsHInv
<1>4. CASE ~\E el \in ElementSet : ReadElement(el) /\ ~ToolError
  BY <1>1, <1>2, <1>4, OtherRecorded, OtherKeepsHInv
<1> QED BY <1>3, <1>4

(* The invariant holds of every run of the checker.                        *)
THEOREM HistoryTheorem == HSpec => []HInv
<1>1. HInit => HInv
  BY InitHInv
<1>2. HInv /\ [HNext]_<< vars, before >> => HInv'
  BY StepHInv
<1> QED BY <1>1, <1>2, PTL DEF HSpec

-----------------------------------------------------------------------------
(* The rules, at the end of the program. *)
LEMMA OnIsPlaced ==
    ASSUME NEW f, NEW kinds
    PROVE  /\ On(f, kinds) = Placed(prog, f, kinds)
           /\ \A i \in On(f, kinds) : Start(i) = before[i][f]
  BY DEF On, Placed, Start

(* start_spacing: of any two operations of a frame that start at different *)
(* times too close together, one is in the sink, though only the last      *)
(* operation was remembered.                                               *)
THEOREM StartsSpacedTheorem == HSpec => []StartsSpaced
<1>1. ASSUME HInv PROVE StartsSpaced
  <2> SUFFICES ASSUME NEW f \in Frames, FrameDeclares(f, "start_spacing")
               PROVE  /\ \A i, j \in On(f, Operations) :
                             /\ i < j /\ Start(j) - Start(i) # 0
                             /\ TooSoon(f, "start_spacing", Start(j) - Start(i))
                             => Cited("start_spacing", On(f, Operations) \cap Between(i, j)) # {}
                      /\ InitialPhaseUpdate(f) => \A j \in On(f, Operations) :
                             Start(j) # 0 /\ TooSoon(f, "start_spacing", Start(j))
                             => Cited("start_spacing", On(f, Operations) \cap (1 .. j)) # {}
    BY DEF StartsSpaced
  <2>1. SpacingReported(f)
    BY <1>1 DEF HInv
  <2>2. ASSUME NEW i \in On(f, Operations), NEW j \in On(f, Operations), i < j,
               Start(j) - Start(i) # 0, TooSoon(f, "start_spacing", Start(j) - Start(i))
        PROVE  Cited("start_spacing", On(f, Operations) \cap Between(i, j)) # {}
    <3>1. Close(f, "start_spacing", before[j][f] - before[i][f])
      BY <2>2, OnIsPlaced DEF Close
    <3>2. Names(sink, "start_spacing", On(f, Operations) \cap Between(i, j))
      BY <2>1, <2>2, <3>1, OnIsPlaced DEF SpacingReported, Apart
    <3> QED BY <3>2, CitedNames
  <2>3. ASSUME InitialPhaseUpdate(f), NEW j \in On(f, Operations),
               Start(j) # 0, TooSoon(f, "start_spacing", Start(j))
        PROVE  Cited("start_spacing", On(f, Operations) \cap (1 .. j)) # {}
    <3>1. Close(f, "start_spacing", before[j][f])
      BY <2>3, OnIsPlaced DEF Close
    <3>2. Names(sink, "start_spacing", On(f, Operations) \cap (1 .. j))
      BY <2>1, <2>3, <3>1, OnIsPlaced DEF SpacingReported, Clear
    <3> QED BY <3>2, CitedNames
  <2> QED BY <2>2, <2>3
<1> QED BY <1>1, HistoryTheorem, PTL

(* frequency_update_spacing and capture_spacing: likewise for any two      *)
(* updates and any two captures, at equal times too.                       *)
THEOREM RepeatsSpacedTheorem == HSpec => []RepeatsSpaced
<1>1. ASSUME HInv PROVE RepeatsSpaced
  <2> SUFFICES ASSUME NEW f \in Frames, NEW rule \in RepeatRules, FrameDeclares(f, rule),
                      NEW i \in On(f, KindsOf(rule)), NEW j \in On(f, KindsOf(rule)),
                      i < j, TooSoon(f, rule, Start(j) - Start(i))
               PROVE  Cited(rule, On(f, KindsOf(rule)) \cap Between(i, j)) # {}
    BY DEF RepeatsSpaced, RepeatRules, KindsOf
  <2>1. Apart(prog, before, sink, f, KindsOf(rule), rule)
    BY <1>1 DEF HInv, SpacingReported
  <2>2. Close(f, rule, before[j][f] - before[i][f])
    BY OnIsPlaced DEF Close, RepeatRules
  <2>3. Names(sink, rule, On(f, KindsOf(rule)) \cap Between(i, j))
    BY <2>1, <2>2, OnIsPlaced DEF Apart
  <2> QED BY <2>3, CitedNames
<1> QED BY <1>1, HistoryTheorem, PTL

(* capture_length_uniform cites exactly the captures whose length is not   *)
(* that of the first of their frame.                                       *)
THEOREM CaptureLengthsTheorem == HSpec => []CaptureLengthsUniform
<1>1. ASSUME HInv PROVE CaptureLengthsUniform
  <2> SUFFICES ASSUME ProgramRead, NEW f \in Frames,
                      FrameDeclares(f, "capture_length_uniform"), NEW j \in On(f, {"capture"})
               PROVE  Cited("capture_length_uniform", {j}) # {}
                          <=> DurationUnits(f, prog[j].duration)
                                  # DurationUnits(f, prog[Min(On(f, {"capture"}))].duration)
    BY DEF CaptureLengthsUniform
  <2>1. Remembered(f) /\ LoopReported /\ prog \in Seq(ElementSet)
    BY <1>1 DEF HInv, ProgramRead, Loop, History
  <2>2. On(f, {"capture"}) = Placed(prog, f, {"capture"})
    BY OnIsPlaced
  <2>3. PICK m \in On(f, {"capture"}) :
            /\ \A i \in On(f, {"capture"}) : m <= i
            /\ states[f].captureLength = LengthOf(prog, f, m)
    BY <2>1, <2>2 DEF Remembered, FirstLength
  <2>4. Min(On(f, {"capture"})) = m
    <3>1. On(f, {"capture"}) \in SUBSET Int
      BY <2>1, <2>2, PlacedGrows, LenProperties DEF Placed
    <3> QED BY <2>3, <3>1, MinIs
  <2>5. Names(sink, "capture_length_uniform", {j})
            <=> LengthOf(prog, f, j) # states[f].captureLength
    BY <2>1, <2>2 DEF LoopReported, Uniform
  <2> QED BY <2>3, <2>4, <2>5, CitedNames DEF LengthOf
<1> QED BY <1>1, HistoryTheorem, PTL

(* schedule_grid cites exactly the elements that are off their grid.       *)
THEOREM GridRejectionsTheorem == HSpec => []GridRejectionsExact
<1>1. ASSUME HInv PROVE GridRejectionsExact
  <2> SUFFICES ASSUME ProgramRead, NEW i \in DOMAIN prog
               PROVE  OffGrid(i) <=> Cited("schedule_grid", {i}) # {}
    BY DEF GridRejectionsExact
  <2>1. LoopReported /\ prog \in Seq(ElementSet)
    BY <1>1 DEF HInv, ProgramRead, Loop, History
  <2>2. OffGrid(i) <=> Missed(prog[i], before[i])
    BY DEF OffGrid, Missed, Start, LatestAt, MemberTicks
  <2>3. Missed(prog[i], before[i]) <=> Names(sink, "schedule_grid", {i})
    BY <2>1, LenProperties DEF LoopReported, OnGrid
  <2> QED BY <2>2, <2>3, CitedNames
<1> QED BY <1>1, HistoryTheorem, PTL

-----------------------------------------------------------------------------
(* start_spacing, the other way: what is cited is too close to something.  *)
(* Element e follows an operation of its frame, or the update at time 0,   *)
(* too closely.                                                            *)
Premature(p, b, e) ==
    LET f == p[e].frame
    IN  /\ e \in DOMAIN p
        /\ \/ \E i \in Placed(p, f, Operations) :
                  i < e /\ b[i][f] < b[e][f] /\ TooSoon(f, "start_spacing", b[e][f] - b[i][f])
           \/ InitialPhaseUpdate(f) /\ TooSoon(f, "start_spacing", b[e][f])

(* It starts too close to the end of the program. *)
TooNearEnd(p, b, end, e) ==
    LET f == p[e].frame
    IN  end - StartOf(p[e], b[e]) < ToTicks(f, FrameConstraint(f, "start_spacing").minUnits)

Justified(e) ==
    \/ Premature(prog, before, e)
    \/ phase \notin Loop \cup {"spacing"} /\ TooNearEnd(prog, before, programEnd, e)

StartsJustified ==
    \A e : Names(sink, "start_spacing", {e}) => Justified(e)

(* After the check of the end margin, what is too late for it is cited.    *)
MarginReported ==
    phase \in {"budgets", "done"} => \A f \in Frames :
        Late(f) => Names(sink, "start_spacing", {states[f].lastEventElement})

MInv == HInv /\ StartsJustified /\ MarginReported

(* An operation that was premature stays so.                               *)
LEMMA PrematureGrows ==
    ASSUME NEW p, NEW b, NEW c, History(p, b, c), NEW el \in ElementSet,
           NEW e, Premature(p, b, e)
    PROVE  Premature(Append(p, el), Append(b, c), e)
<1> DEFINE q == Append(p, el)
           bb == Append(b, c)
           f == p[e].frame
<1>1. /\ p \in Seq(ElementSet) /\ b \in Seq([Frames -> Nat]) /\ Len(b) = Len(p)
      /\ c \in [Frames -> Nat] /\ Len(p) \in Nat /\ DOMAIN p = 1 .. Len(p)
  BY HistoryTypes DEF History
<1>2. /\ \A i \in 1 .. Len(p) : q[i] = p[i] /\ bb[i] = b[i]
      /\ DOMAIN q = 1 .. Len(p) + 1
  BY <1>1, OneMore
<1>3. /\ Placed(p, f, Operations) \subseteq 1 .. Len(p)
      /\ Placed(p, f, Operations) \subseteq Placed(q, f, Operations)
  BY <1>1, PlacedGrows
<1> HIDE DEF q, bb
<1>4. e \in 1 .. Len(p) /\ q[e].frame = f /\ bb[e] = b[e] /\ e \in DOMAIN q
  BY <1>1, <1>2 DEF Premature
<1>5. CASE InitialPhaseUpdate(f) /\ TooSoon(f, "start_spacing", b[e][f])
  BY <1>4, <1>5 DEF Premature, q, bb
<1>6. CASE \E i \in Placed(p, f, Operations) :
               i < e /\ b[i][f] < b[e][f] /\ TooSoon(f, "start_spacing", b[e][f] - b[i][f])
  <2>1. PICK i \in Placed(p, f, Operations) :
               i < e /\ b[i][f] < b[e][f] /\ TooSoon(f, "start_spacing", b[e][f] - b[i][f])
    BY <1>6
  <2>2. i \in Placed(q, f, Operations) /\ bb[i] = b[i]
    BY <1>2, <1>3, <2>1
  <2> QED BY <1>4, <2>1, <2>2 DEF Premature, q, bb
<1> QED BY <1>5, <1>6 DEF Premature

(* What the checker finds too close to what it remembers is premature.     *)
LEMMA CrowdedPremature ==
    ASSUME NEW p, NEW b, NEW c, History(p, b, c), NEW el \in ElementSet,
           NEW f \in Frames, f = el.frame, el.kind \in Operations,
           NEW st \in FrameRecord, c[f] = st.clock,
           Latest(p, b, f, Operations, st.lastEvent), Crowded(f, st)
    PROVE  Premature(Append(p, el), Append(b, c), Len(p) + 1)
<1> DEFINE q == Append(p, el)
           bb == Append(b, c)
           n == Len(p) + 1
           since == PreviousEvent(f, st)
<1>1. /\ p \in Seq(ElementSet) /\ b \in Seq([Frames -> Nat]) /\ Len(b) = Len(p)
      /\ c \in [Frames -> Nat] /\ Len(p) \in Nat
  BY HistoryTypes DEF History
<1>2. /\ \A i \in 1 .. Len(p) : q[i] = p[i] /\ bb[i] = b[i]
      /\ DOMAIN q = 1 .. n /\ q[n] = el /\ bb[n] = c
  BY <1>1, OneMore
<1>3. /\ Placed(p, f, Operations) \subseteq 1 .. Len(p)
      /\ Placed(p, f, Operations) \subseteq Placed(q, f, Operations)
  BY <1>1, PlacedGrows
<1>4. n \in DOMAIN q /\ q[n].frame = f /\ bb[n][f] = st.clock /\ st.clock \in Nat
  BY <1>1, <1>2 DEF FrameRecord
<1>5. /\ since # Absent /\ st.clock # since
      /\ TooSoon(f, "start_spacing", st.clock - since)
  BY DEF Crowded, Crowds, TooSoon
<1> HIDE DEF q, bb
<1>6. CASE st.lastEvent = Absent
  <2>1. since = 0 /\ InitialPhaseUpdate(f)
    BY <1>5, <1>6 DEF PreviousEvent
  <2> HIDE DEF since
  <2>2. st.clock - since = st.clock
    BY <1>4, <2>1
  <2> QED BY <1>4, <1>5, <2>1, <2>2 DEF Premature, q, bb
<1>7. CASE st.lastEvent # Absent
  <2>1. since = st.lastEvent
    BY <1>7 DEF PreviousEvent
  <2>2. PICK l \in Placed(p, f, Operations) : st.lastEvent = b[l][f]
    BY <1>7 DEF Latest
  <2>3. /\ l \in 1 .. Len(p) /\ l \in Placed(q, f, Operations) /\ bb[l] = b[l]
        /\ l < n
    BY <1>1, <1>2, <1>3, <2>2
  <2>4. b[l][f] \in Nat /\ b[l][f] <= c[f]
    BY <2>3, HistoryTypes DEF History
  <2>5. bb[l][f] < st.clock
    BY <1>4, <1>5, <2>1, <2>2, <2>3, <2>4
  <2> HIDE DEF since
  <2> QED BY <1>4, <1>5, <2>1, <2>2, <2>3, <2>5 DEF Premature, q, bb
<1> QED BY <1>6, <1>7

(* An element cites only what is premature.                                *)
LEMMA ElementKeepsMInv ==
    ASSUME MInv, NEW el \in ElementSet, ReadElement(el), ~ToolError,
           before' = Append(before, Clocks), HInv'
    PROVE  MInv'
<1>1. /\ IInv /\ sink \in Seq(Rejected) /\ History(prog, before, Clocks)
      /\ phase = "elements" /\ phase' = phase /\ prog' = Append(prog, el)
      /\ \A f \in Frames : Remembered(f)
  BY ElementMoves DEF HInv, MInv
<1>2. PICK s : Adds(el, s) /\ sink' = sink \o s
  BY <1>1, ElementAdds
<1>3. ASSUME NEW e, Names(sink', "start_spacing", {e}) PROVE Premature(prog', before', e)
  <2>1. CASE Names(sink, "start_spacing", {e})
    <3>1. Premature(prog, before, e)
      BY <1>1, <2>1 DEF MInv, StartsJustified, Justified, Loop
    <3> QED BY <1>1, <3>1, PrematureGrows
  <2>2. CASE Names(s, "start_spacing", {e})
    <3> DEFINE f == el.frame
    <3>1. Fires(el, "start_spacing", {e})
      BY <1>2, <2>2 DEF Adds, TimeIds
    <3>2. e = Len(prog) + 1 /\ el.kind \in Operations /\ Crowded(f, states[f])
      BY <3>1 DEF Fires, NoteFires, RepeatRules, Element
    <3>3. f \in Frames
      BY <3>2, ElementFrame DEF Operations, Outputs
    <3>4. states[f] \in FrameRecord /\ Clocks[f] = states[f].clock
      BY <1>1, <3>3 DEF IInv, Typed, Clocks
    <3>5. Latest(prog, before, f, Operations, states[f].lastEvent)
      BY <1>1, <3>3 DEF Remembered
    <3> QED BY <1>1, <3>2, <3>3, <3>4, <3>5, CrowdedPremature
  <2>3. Names(sink, "start_spacing", {e}) \/ Names(s, "start_spacing", {e})
    BY <1>1, <1>2, <1>3, NamesConcat DEF Adds
  <2> QED BY <2>1, <2>2, <2>3
<1> QED BY <1>1, <1>3 DEF MInv, StartsJustified, Justified, MarginReported

(* The operation a frame remembers is its last, and when it started.       *)
LEMMA LastOperation ==
    ASSUME HInv, NEW f \in Frames
    PROVE  LET e == states[f].lastEventElement
           IN  /\ On(f, Operations) = {} <=> states[f].lastEvent = Absent
               /\ states[f].lastEvent # Absent =>
                      /\ e \in On(f, Operations) /\ \A i \in On(f, Operations) : i <= e
                      /\ before[e][f] = states[f].lastEvent /\ states[f].lastEvent \in Nat
                      /\ e \in 1 .. Len(prog) /\ prog[e].frame = f
<1> DEFINE e == states[f].lastEventElement
           P == Placed(prog, f, Operations)
<1>1. /\ Latest(prog, before, f, Operations, states[f].lastEvent)
      /\ Newest(prog, f, Operations, e) /\ On(f, Operations) = P
      /\ prog \in Seq(ElementSet) /\ History(prog, before, Clocks)
  BY OnIsPlaced DEF HInv, Remembered, History
<1>2. P \subseteq 1 .. Len(prog) /\ Len(prog) \in Nat /\ \A i \in P : prog[i].frame = f
  BY <1>1, LenProperties DEF Placed
<1> HIDE DEF P, e
<1>3. CASE P = {}
  BY <1>1, <1>3 DEF Latest, P, e
<1>4. CASE P # {}
  <2>1. e \in P /\ \A i \in P : i <= e
    BY <1>1, <1>4 DEF Newest, P
  <2>2. PICK l \in P : (\A i \in P : i <= l) /\ states[f].lastEvent = before[l][f]
    BY <1>1, <1>4 DEF Latest, P
  <2>3. l = e
    BY <1>2, <2>1, <2>2
  <2>4. before[e][f] \in Nat
    BY <1>1, <1>2, <2>1, HistoryTypes
  <2> QED BY <1>1, <1>2, <1>4, <2>1, <2>2, <2>3, <2>4, AbsentAssumption DEF e
<1> QED BY <1>3, <1>4

(* programEnd is the end of the program.                                   *)
LEMMA EndIsEnd ==
    ASSUME HInv, Bound PROVE EndOfAll = programEnd
<1> DEFINE T == {0} \cup UNION {{StartTicks(i) : i \in On(f, Operations)}
                                    \cup {EndTicks(i) : i \in On(f, Outputs)} : f \in Frames}
<1>1. /\ prog \in Seq(ElementSet) /\ History(prog, before, Clocks)
      /\ Ends(prog, before, programEnd) /\ DOMAIN prog = 1 .. Len(prog) /\ Typed
  BY HistoryTypes DEF HInv, History, IInv
<1>2. ASSUME NEW i \in 1 .. Len(prog), prog[i].kind \in Operations
      PROVE  /\ prog[i].frame \in Frames
             /\ StartTicks(i) = StartOf(prog[i], before[i]) /\ StartTicks(i) \in Nat
             /\ prog[i].kind \in Outputs =>
                    EndTicks(i) = EndOf(prog[i], before[i]) /\ EndTicks(i) \in Nat
  <2>1. prog[i] \in ElementSet
    BY <1>1, ElementOfSeq
  <2>2. prog[i].frame \in Frames
    BY <1>2, <2>1, ElementFrame DEF Operations, Outputs
  <2>3. before[i][prog[i].frame] \in Nat
    BY <1>1, <2>2, HistoryTypes
  <2>4. StartTicks(i) = StartOf(prog[i], before[i]) /\ StartTicks(i) \in Nat
    BY <1>1, <2>2, <2>3, TimeIsNatural DEF StartTicks, Start, StartOf, Bound
  <2>5. ASSUME prog[i].kind \in Outputs
        PROVE  EndTicks(i) = EndOf(prog[i], before[i]) /\ EndTicks(i) \in Nat
    <3>1. prog[i].duration \in Int
      BY <2>1, <2>5, ElementAssumption DEF Outputs
    <3>2. DurationUnits(prog[i].frame, prog[i].duration) \in Nat
      BY <2>2, <3>1, DurationNatural DEF Bound
    <3>3. ToTicks(prog[i].frame, DurationUnits(prog[i].frame, prog[i].duration)) \in Nat
      BY <1>1, <2>2, <3>2, TimeIsNatural DEF Bound
    <3> QED BY <2>4, <3>3 DEF EndTicks, EndOf
  <2> QED BY <2>2, <2>4, <2>5
<1>3. \A t : t \in T <=> \/ t = 0
                          \/ \E i \in 1 .. Len(prog) :
                                \/ prog[i].kind \in Operations /\ t = StartTicks(i)
                                \/ prog[i].kind \in Outputs /\ t = EndTicks(i)
  <2>1. Outputs \subseteq Operations
    BY DEF Operations
  <2>2. \A t : t \in T <=> \/ t = 0
                            \/ \E f \in Frames : \/ \E i \in On(f, Operations) : t = StartTicks(i)
                                                 \/ \E i \in On(f, Outputs) : t = EndTicks(i)
    OBVIOUS
  <2> HIDE DEF T
  <2> QED BY <1>1, <1>2, <2>1, <2>2 DEF On
<1>4. \A t : t \in Moments(prog, before)
                 <=> \/ t = 0
                     \/ \E i \in 1 .. Len(prog) :
                           \/ prog[i].kind \in Operations /\ t = StartTicks(i)
                           \/ prog[i].kind \in Outputs /\ t = EndTicks(i)
  <2>1. Outputs \subseteq Operations
    BY DEF Operations
  <2>2. \A t : t \in Moments(prog, before)
                   <=> t = 0 \/ \E i \in 1 .. Len(prog) : t \in TimesOf(prog[i], before[i])
    BY DEF Moments
  <2>3. ASSUME NEW i \in 1 .. Len(prog), NEW t
        PROVE  t \in TimesOf(prog[i], before[i])
                   <=> \/ prog[i].kind \in Operations /\ t = StartTicks(i)
                       \/ prog[i].kind \in Outputs /\ t = EndTicks(i)
    BY <1>2, <2>1 DEF TimesOf
  <2> QED BY <2>2, <2>3
<1>5. T = Moments(prog, before)
  BY <1>3, <1>4
<1>6. Moments(prog, before) \in SUBSET Int
  BY DEF Moments, TimesOf
<1>7. EndOfAll = Max(T)
  BY DEF EndOfAll
<1> HIDE DEF T
<1> QED BY <1>1, <1>5, <1>6, <1>7, MaxIs DEF Ends

(* What CloseSpacing finds late is too near the end.                       *)
LEMMA LateIsTooNear ==
    ASSUME HInv, Bound, ValidDescriptor, NEW f \in Frames, Late(f),
           NEW e, e = states[f].lastEventElement
    PROVE  TooNearEnd(prog, before, programEnd, e)
<1> DEFINE min == FrameConstraint(f, "start_spacing").minUnits
<1>1. /\ states[f].lastEvent # Absent /\ FrameDeclares(f, "start_spacing")
      /\ (states[f].lastEvent + min) * FrameUnit(f) > programEnd
  BY DEF Late, HasMargin, Due, ToTicks
<1>2. /\ prog[e].frame = f /\ before[e][f] = states[f].lastEvent
      /\ states[f].lastEvent \in Nat
  BY <1>1, LastOperation
<1>3. min \in Nat
  BY <1>1, SpacingDistance DEF SpacingRules
<1>4. FrameUnit(f) \in Nat /\ programEnd \in Nat
  BY UnitPositive DEF Bound, HInv, IInv, Typed
<1>5. PICK x \in Nat, u \in Nat, m \in Nat, end \in Nat :
          x = states[f].lastEvent /\ u = FrameUnit(f) /\ m = min /\ end = programEnd
  BY <1>2, <1>3, <1>4
<1>6. (x + m) * u = x * u + m * u /\ x * u \in Nat /\ m * u \in Nat /\ (x + m) * u > end
  BY <1>1, <1>5
<1>7. end - x * u < m * u
  BY <1>6
<1> QED BY <1>2, <1>5, <1>7 DEF TooNearEnd, StartOf, ToTicks

(* The other steps cite only what is too near the end.                     *)
LEMMA OtherKeepsMInv ==
    ASSUME MInv, [Next]_vars, ~\E el \in ElementSet : ReadElement(el) /\ ~ToolError,
           before' = before, HInv'
    PROVE  MInv'
<1> DEFINE early == Loop \cup {"spacing"}
<1>1. /\ HInv /\ IInv /\ sink \in Seq(Rejected)
      /\ prog' = prog /\ programEnd' = programEnd
  BY OtherSteps DEF MInv, HInv
<1>2. ASSUME sink' = sink, states' = states, phase' \in early => phase \in early,
             phase' \in {"budgets", "done"} => phase \in {"budgets", "done"}
      PROVE  MInv'
  <2>1. \A f \in Frames : Late(f)' <=> Late(f)
    BY <1>1, <1>2 DEF Late, HasMargin, Due
  <2> QED BY <1>1, <1>2, <2>1 DEF MInv, StartsJustified, Justified, MarginReported
<1>3. CASE ToolError
  BY <1>2, <1>3 DEF ToolError, progVars, Loop
<1>4. CASE Bind
  BY <1>2, <1>3, <1>4 DEF Bind, progVars, Loop
<1>5. CASE EndOfProgram
  BY <1>2, <1>5 DEF EndOfProgram, progVars, Loop
<1>6. CASE CloseSlots /\ ~ToolError
  <2>1. phase = "slots" /\ phase' = "spacing"
    BY <1>6 DEF CloseSlots
  <2>2. PICK s \in Seq(Rejected) :
            /\ sink' = sink \o s
            /\ \A rule, elements : Names(s, rule, elements) => rule = "capture_slot"
    BY <1>1, <1>6, SlotsAdd
  <2>3. \A e : Names(sink', "start_spacing", {e}) => Names(sink, "start_spacing", {e})
    BY <1>1, <2>2, NamesConcat
  <2>4. StartsJustified'
    BY <1>1, <2>1, <2>3 DEF MInv, StartsJustified, Justified, Loop
  <2> QED BY <2>1, <2>4 DEF MInv, MarginReported
<1>7. CASE CloseSpacing /\ ~ToolError
  <2>1. phase = "spacing" /\ phase' = "budgets" /\ states' = states
    BY <1>7 DEF CloseSpacing, progVars
  <2>2. PICK s \in Seq(Rejected) :
            /\ sink' = sink \o s
            /\ \A elements :
                   Names(s, "start_spacing", elements)
                       <=> \E f \in Frames : Late(f) /\ states[f].lastEventElement \in elements
    BY <1>1, <1>7, SpacingAdds
  <2>3. \A e : Names(sink', "start_spacing", {e})
                   <=> Names(sink, "start_spacing", {e}) \/ Names(s, "start_spacing", {e})
    BY <1>1, <2>2, NamesConcat
  <2>4. ASSUME NEW e, Names(sink', "start_spacing", {e}) PROVE Justified(e)'
    <3>1. CASE Names(sink, "start_spacing", {e})
      BY <1>1, <2>1, <3>1 DEF MInv, StartsJustified, Justified
    <3>2. CASE Names(s, "start_spacing", {e})
      <4>1. PICK f \in Frames : Late(f) /\ e = states[f].lastEventElement
        BY <2>2, <3>2
      <4>2. Bound /\ ValidDescriptor
        BY <1>1, <2>1 DEF HInv
      <4>3. TooNearEnd(prog, before, programEnd, e)
        BY <1>1, <4>1, <4>2, LateIsTooNear
      <4> QED BY <1>1, <2>1, <4>3 DEF Justified, Loop
    <3> QED BY <2>3, <2>4, <3>1, <3>2
  <2>5. ASSUME NEW f \in Frames, Late(f)'
        PROVE  Names(sink', "start_spacing", {states'[f].lastEventElement})
    <3>1. Late(f)
      BY <1>1, <2>1, <2>5 DEF Late, HasMargin, Due
    <3>2. Names(s, "start_spacing", {states[f].lastEventElement})
      BY <2>2, <3>1
    <3> QED BY <2>1, <2>3, <3>2
  <2> QED BY <2>4, <2>5 DEF MInv, StartsJustified, MarginReported
<1>8. CASE SkipBudget
  BY <1>2, <1>8 DEF SkipBudget, progVars, Loop
<1>9. CASE CountBudget /\ ~ToolError
  <2>1. phase = "budgets" /\ phase' = "budgets" /\ states' = states
    BY <1>9 DEF CountBudget, progVars
  <2>2. PICK s \in Seq(Rejected) :
            /\ sink' = sink \o s
            /\ \A rule, elements : Names(s, rule, elements) => rule = Budgets[nextBudget].id
    BY <1>1, <1>9, BudgetAdds
  <2>3. Budgets[nextBudget].id # "start_spacing"
    <3>1. nextBudget \in 1 .. Len(Budgets)
      BY <1>1, <1>9, BudgetAssumption DEF CountBudget, IInv, Typed
    <3> QED BY <3>1, BudgetAssumption
  <2>4. \A e : Names(sink', "start_spacing", {e}) <=> Names(sink, "start_spacing", {e})
    BY <1>1, <2>2, <2>3, NamesConcat
  <2>5. \A f \in Frames : Late(f)' <=> Late(f)
    BY <1>1, <2>1 DEF Late, HasMargin, Due
  <2>6. StartsJustified'
    BY <1>1, <2>1, <2>4 DEF MInv, StartsJustified, Justified
  <2>7. MarginReported'
    BY <1>1, <2>1, <2>4, <2>5 DEF MInv, MarginReported
  <2> QED BY <2>6, <2>7 DEF MInv
<1>10. CASE Finish \/ Idle \/ UNCHANGED vars
  BY <1>2, <1>10 DEF Finish, Idle, vars, progVars, Loop
<1> QED BY <1>3, <1>4, <1>5, <1>6, <1>7, <1>8, <1>9, <1>10 DEF Next

(* What is cited under start_spacing is so for a reason, and what is late  *)
(* is cited.                                                               *)
THEOREM MarginTheorem == HSpec => []MInv
<1>1. HInit => MInv
  <2> SUFFICES ASSUME HInit PROVE MInv
    OBVIOUS
  <2>1. HInv
    BY InitHInv
  <2>2. sink = << >> /\ phase = "start"
    BY DEF HInit, Init
  <2> QED BY <2>1, <2>2, NamesNone DEF MInv, StartsJustified, MarginReported
<1>2. MInv /\ [HNext]_<< vars, before >> => MInv'
  <2> SUFFICES ASSUME MInv, [HNext]_<< vars, before >> PROVE MInv'
    OBVIOUS
  <2>1. HInv /\ HInv' /\ [Next]_vars
    BY StepHInv DEF MInv, HNext
  <2>2. CASE \E el \in ElementSet : ReadElement(el) /\ ~ToolError
    <3>1. PICK el \in ElementSet : ReadElement(el) /\ ~ToolError
      BY <2>2
    <3>2. before' = Append(before, Clocks)
      BY <2>1, <3>1, ElementRecorded
    <3> QED BY <2>1, <3>1, <3>2, ElementKeepsMInv
  <2>3. CASE ~\E el \in ElementSet : ReadElement(el) /\ ~ToolError
    BY <2>1, <2>3, OtherRecorded, OtherKeepsMInv
  <2> QED BY <2>2, <2>3
<1> QED BY <1>1, <1>2, PTL DEF HSpec

(* The end margin: the last operation of every frame starts min_units      *)
(* before the end of the whole program, which an output of another frame   *)
(* may set, or it is cited.                                                *)
THEOREM EndMarginTheorem == HSpec => []EndMarginKept
<1>1. ASSUME MInv PROVE EndMarginKept
  <2> SUFFICES ASSUME phase = "done", NEW f \in Frames, FrameDeclares(f, "start_spacing"),
                      On(f, Operations) # {}
               PROVE  LET last == Max(On(f, Operations))
                      IN  \/ StartTicks(last)
                                 + ToTicks(f, FrameConstraint(f, "start_spacing").minUnits)
                                     <= EndOfAll
                          \/ Cited("start_spacing", {last}) # {}
    BY DEF EndMarginKept
  <2> DEFINE e == states[f].lastEventElement
             min == FrameConstraint(f, "start_spacing").minUnits
  <2>1. HInv /\ Bound /\ ValidDescriptor
    BY <1>1 DEF MInv, HInv
  <2>2. /\ e \in On(f, Operations) /\ \A i \in On(f, Operations) : i <= e
        /\ before[e][f] = states[f].lastEvent /\ states[f].lastEvent \in Nat
        /\ states[f].lastEvent # Absent /\ prog[e].frame = f
    BY <2>1, LastOperation
  <2>3. Max(On(f, Operations)) = e
    <3>1. On(f, Operations) \in SUBSET Int
      BY <2>1, LenProperties DEF On, HInv, History
    <3> QED BY <2>2, <3>1, MaxIs
  <2>4. EndOfAll = programEnd
    BY <2>1, EndIsEnd
  <2>5. CASE Late(f)
    BY <1>1, <2>3, <2>5, CitedNames DEF MInv, MarginReported
  <2>6. CASE ~Late(f)
    <3>1. ~((states[f].lastEvent + min) * FrameUnit(f) > programEnd)
      BY <2>2, <2>6 DEF Late, HasMargin, Due, ToTicks
    <3>2. min \in Nat /\ FrameUnit(f) \in Nat /\ programEnd \in Nat
      BY <2>1, SpacingDistance, UnitPositive DEF SpacingRules, Bound, HInv, IInv, Typed
    <3>3. PICK x \in Nat, u \in Nat, m \in Nat, end \in Nat :
              x = states[f].lastEvent /\ u = FrameUnit(f) /\ m = min /\ end = programEnd
      BY <2>2, <3>2
    <3>4. (x + m) * u = x * u + m * u /\ x * u \in Nat /\ m * u \in Nat /\ ~((x + m) * u > end)
      BY <3>1, <3>3
    <3>5. x * u + m * u <= end
      BY <3>4
    <3>6. StartTicks(e) = x * u
      BY <2>2, <3>3 DEF StartTicks, Start, ToTicks
    <3> QED BY <2>3, <2>4, <3>3, <3>5, <3>6 DEF ToTicks
  <2> QED BY <2>5, <2>6
<1> QED BY <1>1, MarginTheorem, PTL

(* No start_spacing rejection is spurious.                                 *)
THEOREM StartRejectionsTheorem == HSpec => []StartRejectionsJustified
<1>1. ASSUME MInv PROVE StartRejectionsJustified
  <2> SUFFICES ASSUME phase = "done", NEW n \in DOMAIN sink, sink[n].rule = "start_spacing",
                      NEW j, j = sink[n].element, NEW f, f = prog[j].frame
               PROVE  \/ \E i \in On(f, Operations) :
                             /\ i < j /\ Start(i) < Start(j)
                             /\ TooSoon(f, "start_spacing", Start(j) - Start(i))
                      \/ InitialPhaseUpdate(f) /\ TooSoon(f, "start_spacing", Start(j))
                      \/ EndOfAll - StartTicks(j)
                             < ToTicks(f, FrameConstraint(f, "start_spacing").minUnits)
    BY DEF StartRejectionsJustified
  <2>1. HInv /\ Bound
    BY <1>1 DEF MInv, HInv
  <2>2. Names(sink, "start_spacing", {j})
    BY DEF Names, ToSet
  <2>3. Justified(j)
    BY <1>1, <2>2 DEF MInv, StartsJustified
  <2>4. Start(j) = before[j][f]
    BY DEF Start
  <2>5. CASE Premature(prog, before, j)
    BY <2>4, <2>5, OnIsPlaced DEF Premature
  <2>6. CASE TooNearEnd(prog, before, programEnd, j)
    BY <2>1, <2>6, EndIsEnd DEF TooNearEnd, StartOf, StartTicks, Start
  <2> QED BY <2>3, <2>5, <2>6 DEF Justified
<1> QED BY <1>1, MarginTheorem, PTL

-----------------------------------------------------------------------------
(* Values.  What the frequency rules say of a frequency, whichever element *)
(* they are asked at.                                                      *)
FrequencyBreaks(c, v, rule) ==
    LET k    == Constraint(c, "frequency_range")
        band == BandFrequency(c, v)
    IN  /\ Declared(c, "frequency_range")
        /\ \/ rule = "frequency_range" /\ (Below(k, band) \/ Above(k, band))
           \/ rule = "frequency_resolution" /\ OffStep(k, v)

(* The frequency rules name the element at which a value breaks them.      *)
LEMMA FrequencyNames ==
    ASSUME NEW c \in DOMAIN Device, NEW v, NEW e, NEW rule
    PROVE  Names(FrequencyRejections(c, v, e), rule, {e}) <=> FrequencyBreaks(c, v, rule)
<1> DEFINE S == Of(ValueRules, {e})
           k == Constraint(c, "frequency_range")
           first  == EitherWay("frequency_range", k.severity, "alias_mod_f_dds", e)
           second == Repairable("frequency_resolution", "quantize_frequency", e)
           outside == Below(k, BandFrequency(c, v)) \/ Above(k, BandFrequency(c, v))
           off     == OffStep(k, v)
<1>1. CASE Declared(c, "frequency_range")
  <2>1. k.severity \in Severities
    BY <1>1, DeclaredSeverity
  <2>2. first \in S /\ second \in S
    BY <2>1, RejectionTypes DEF ValueRules, PlainRules, Repairs
  <2>3. /\ first.rule = "frequency_range" /\ first.element = e
        /\ second.rule = "frequency_resolution" /\ second.element = e
    BY DEF EitherWay, Repairable, Rejection
  <2>4. FrequencyRejections(c, v, e) = When(outside, first) \o When(off, second)
    BY <1>1 DEF FrequencyRejections
  <2>5. FrequencyBreaks(c, v, rule)
            <=> \/ rule = "frequency_range" /\ outside
                \/ rule = "frequency_resolution" /\ off
    BY <1>1 DEF FrequencyBreaks
  <2> HIDE DEF first, second, S, outside, off
  <2>6. /\ When(outside, first) \in Seq(S)
        /\ Names(When(outside, first), rule, {e})
               <=> outside /\ first.rule = rule /\ first.element \in {e}
    BY <2>2, WhenNames
  <2>7. /\ When(off, second) \in Seq(S)
        /\ Names(When(off, second), rule, {e})
               <=> off /\ second.rule = rule /\ second.element \in {e}
    BY <2>2, WhenNames
  <2>8. Names(When(outside, first) \o When(off, second), rule, {e})
            <=> Names(When(outside, first), rule, {e}) \/ Names(When(off, second), rule, {e})
    BY <2>6, <2>7, NamesConcat
  <2> QED BY <2>3, <2>4, <2>5, <2>6, <2>7, <2>8
<1>2. CASE ~Declared(c, "frequency_range")
  BY <1>2, NamesNone DEF FrequencyRejections, FrequencyBreaks
<1> QED BY <1>1, <1>2

(* What a part of a sequence names, the whole names. *)
LEMMA NamesWithin ==
    ASSUME NEW S, NEW s \in Seq(S), NEW t \in Seq(S), NEW u \in Seq(S), NEW rule, NEW elements
    PROVE  /\ Names(s, rule, elements) => Names(s \o t \o u, rule, elements)
           /\ Names(t, rule, elements) => Names(s \o t \o u, rule, elements)
           /\ Names(u, rule, elements) => Names(s \o t \o u, rule, elements)
<1>1. Names(s \o t, rule, elements) <=> Names(s, rule, elements) \/ Names(t, rule, elements)
  BY NamesConcat
<1> DEFINE upTo == s \o t
<1>2. upTo \in Seq(S)
  BY ConcatProperties
<1> HIDE DEF upTo
<1>3. Names(upTo \o u, rule, elements) <=> Names(upTo, rule, elements) \/ Names(u, rule, elements)
  BY <1>2, NamesConcat
<1> QED BY <1>1, <1>3 DEF upTo

(* The frequency an element leaves its frame at, and whether the element   *)
(* looks at it.                                                            *)
Tuned(el, st) == IF el.kind = "set_frequency" THEN el.frequency ELSE st.frequency

LooksAt(el, st) ==
    \/ el.kind = "set_frequency"
    \/ el.kind \in Outputs /\ ~HasTones(ChannelOf(el.frame)) /\ ~st.freqChecked

(* So does the first output of a frame, of the frequency the frame has.    *)
LEMMA FirstOutputNames ==
    ASSUME IInv, NEW el \in ElementSet, NEW kind \in Outputs, Reads(el, kind),
           LooksAt(el, states[el.frame]), NEW rule,
           FrequencyBreaks(ChannelOf(el.frame), states[el.frame].frequency, rule)
    PROVE  Names(OutputRejections(el, states[el.frame], NotedAs(el)), rule, {Element})
<1> DEFINE f  == el.frame
           c  == ChannelOf(f)
           st == states[f]
           e  == Element
           carrier == FrequencyRejections(c, st.frequency, e)
           turn  == IF ChecksPhase(f, st) THEN PhaseRejections(c, st.phase, e) ELSE << >>
           grid  == StartGridRejections(f, st, e)
           note  == NoteRejections(f, st, e, NotedAs(el))
           moves == AdvanceRejections(f, el.duration, e, TRUE)
<1>1. /\ f \in Frames /\ st \in FrameRecord /\ e \in Nat /\ Bound /\ el.kind = kind
      /\ el.duration \in Int /\ c \in DOMAIN Device
  BY Reading, FrameChannel DEF Outputs, Bound
<1>2. ChecksFrequency(f, st)
  BY <1>1 DEF LooksAt, Outputs, ChecksFrequency
<1>3. FirstUseRejections(f, st, e) = carrier \o turn
  BY <1>2 DEF FirstUseRejections
<1>4. Names(carrier, rule, {e})
  BY <1>1, FrequencyNames
<1>5. carrier \in Seq(Of(ValueRules, {e})) /\ turn \in Seq(Of(ValueRules, {e}))
  BY <1>1, FrequencyOf, PhaseOf, ValueOf, EmptySeq
<1>6. grid \in Seq(Of({"schedule_grid"}, {e}))
  BY <1>1, StartGridNames
<1>7. note \in Seq(Flagged)
  BY <1>1, NoteNames
<1>8. moves \in Seq(Of(DurationRules, {e}))
  BY <1>1, AdvanceNames
<1>9. OutputRejections(el, st, NotedAs(el)) = (carrier \o turn) \o grid \o note \o moves
  BY <1>3 DEF OutputRejections
<1> HIDE DEF carrier, turn, grid, note, moves, e
<1>10. /\ carrier \in Seq(Flagged) /\ turn \in Seq(Flagged) /\ grid \in Seq(Flagged)
       /\ moves \in Seq(Flagged)
  BY <1>1, <1>5, <1>6, <1>8, OfIsFlagged DEF ElementRules, TimeIds
<1>11. carrier \o turn \in Seq(Flagged) /\ Names(carrier \o turn, rule, {e})
  BY <1>4, <1>10, NamesConcat, ConcatProperties
<1> DEFINE first == carrier \o turn
<1>12. first \in Seq(Flagged) /\ Names(first, rule, {e})
  BY <1>11
<1> HIDE DEF first
<1>13. first \o grid \o note \in Seq(Flagged) /\ Names(first \o grid \o note, rule, {e})
  BY <1>7, <1>10, <1>12, NamesWithin, ConcatProperties
<1> DEFINE upTo == first \o grid \o note
<1>14. upTo \in Seq(Flagged) /\ Names(upTo, rule, {e})
  BY <1>13
<1> HIDE DEF upTo
<1>15. Names(upTo \o moves, rule, {e})
  BY <1>10, <1>14, NamesConcat
<1> QED BY <1>9, <1>15 DEF upTo, first, e

(* A frequency that breaks a rule is cited at the element that looks at it. *)
LEMMA CarrierCited ==
    ASSUME IInv, sink \in Seq(Rejected), NEW el \in ElementSet, ReadElement(el), ~ToolError,
           LooksAt(el, states[el.frame]), NEW rule,
           FrequencyBreaks(ChannelOf(el.frame), Tuned(el, states[el.frame]), rule)
    PROVE  Names(sink', rule, {Element})
<1> DEFINE f == el.frame
           st == states[f]
           s(kind) == OutputRejections(el, st, kind)
<1>1. CASE SetFrequency(el)
  <2> DEFINE note == NoteRejections(f, Counted(st), Element, "frequency")
             looked == FrequencyRejections(ChannelOf(f), el.frequency, Element)
  <2>1. Reads(el, "set_frequency") /\ sink' = sink \o note \o looked
    BY <1>1 DEF SetFrequency
  <2>2. /\ el.kind = "set_frequency" /\ Element \in Nat /\ Counted(st) \in FrameRecord
        /\ ChannelOf(f) \in DOMAIN Device
    BY <2>1, Reading, FrameChannel
  <2>3. note \in Seq(Flagged)
    BY <2>2, NoteNames
  <2>4. looked \in Seq(Flagged)
    BY <2>2, FrequencyOf, ValueOf, OthersSilent
  <2>5. Names(looked, rule, {Element})
    BY <2>2, FrequencyNames DEF Tuned
  <2> HIDE DEF note, looked
  <2> QED BY <2>1, <2>3, <2>4, <2>5, NamesWithin, FlaggedRejected
<1>2. ASSUME NEW kind \in Outputs, Reads(el, kind)
      PROVE  /\ s(NotedAs(el)) \in Seq(Flagged) /\ Names(s(NotedAs(el)), rule, {Element})
             /\ f \in Frames /\ Bound /\ Element \in Nat /\ el.kind = kind
             /\ ChannelOf(f) \in DOMAIN Channels
  <2>1. el.kind = kind /\ f \in Frames /\ Bound /\ Element \in Nat
    BY <1>2, Reading DEF Outputs, Bound
  <2>2. Tuned(el, st) = st.frequency
    BY <2>1 DEF Tuned, Outputs
  <2>3. s(NotedAs(el)) \in Seq(Flagged)
    BY <1>2, OutputNames
  <2>4. Names(s(NotedAs(el)), rule, {Element})
    BY <1>2, <2>2, FirstOutputNames
  <2> QED BY <2>1, <2>3, <2>4, FrameChannel
<1>3. CASE Capture(el)
  <2> DEFINE length == CaptureLengthRejections(f, st, DurationUnits(f, el.duration), Element)
  <2>1. Reads(el, "capture") /\ sink' = sink \o s("capture") \o length
    BY <1>3 DEF Capture
  <2>2. /\ el.kind = "capture" /\ Element \in Nat
        /\ s(NotedAs(el)) \in Seq(Flagged) /\ Names(s(NotedAs(el)), rule, {Element})
    BY <1>2, <2>1 DEF Outputs
  <2>3. NotedAs(el) = "capture"
    BY <2>2 DEF NotedAs
  <2>4. length \in Seq(Flagged)
    <3>1. length \in Seq(Of({"capture_length_uniform"}, {Element}))
      BY CaptureLengthNames
    <3> HIDE DEF length
    <3> QED BY <2>2, <3>1, OfIsFlagged DEF ElementRules, TimeIds
  <2> HIDE DEF s, length
  <2> QED BY <2>1, <2>2, <2>3, <2>4, NamesWithin, FlaggedRejected
<1>4. CASE Play(el)
  <2>1. Reads(el, "play") /\ (PlayWaveform(el) \/ PlayTones(el))
    BY <1>4 DEF Play
  <2>2. /\ el.kind = "play" /\ Element \in Nat /\ f \in Frames /\ Bound
        /\ s(NotedAs(el)) \in Seq(Flagged) /\ Names(s(NotedAs(el)), rule, {Element})
        /\ ChannelOf(f) \in DOMAIN Channels
    BY <1>2, <2>1 DEF Outputs
  <2>3. NotedAs(el) = "output"
    BY <2>2 DEF NotedAs
  <2>4. CASE PlayWaveform(el)
    <3> DEFINE t == WaveformRejections(f, el.waveform, DurationUnits(f, el.duration), Element)
    <3>1. sink' = sink \o s("output") \o t
      BY <2>4 DEF PlayWaveform
    <3>2. t \in Seq(Flagged)
      BY <2>2, WaveformOf, OthersSilent
    <3> HIDE DEF s, t
    <3> QED BY <2>2, <2>3, <3>1, <3>2, NamesWithin, FlaggedRejected
  <2>5. CASE PlayTones(el)
    <3>1. ~LooksAt(el, st)
      BY <2>2, <2>5 DEF PlayTones, LooksAt
    <3> QED BY <3>1
  <2> QED BY <2>1, <2>4, <2>5
<1>5. CASE Barrier(el) \/ ShiftPhase(el) \/ Delay(el)
  <2>1. el.kind \in {"barrier", "shift_phase", "delay"}
    BY <1>5 DEF Barrier, ShiftPhase, Delay, Reads
  <2> QED BY <2>1 DEF LooksAt, Outputs
<1> QED BY <1>1, <1>3, <1>4, <1>5 DEF ReadElement

-----------------------------------------------------------------------------
(* v is the carrier of frame f when element i of the program p is reached, *)
(* set at since: by the last update before i, or at the beginning.         *)
Sets(p, f, i) == {k \in Placed(p, f, {"set_frequency"}) : k < i}

Carried(p, f, i, since, v) ==
    IF Sets(p, f, i) = {} THEN since = 1 /\ v = FrameDefs[f].frequency
    ELSE /\ since \in Sets(p, f, i) /\ \A k \in Sets(p, f, i) : k <= since
         /\ v = p[since].frequency

(* The sink k tells of every rule that v breaks, at an element from since  *)
(* to i that sets the carrier of f or sounds it.                           *)
Sounded == Outputs \cup {"set_frequency"}

Told(p, k, f, i, since, v) ==
    \A rule : FrequencyBreaks(ChannelOf(f), v, rule)
                  => Names(k, rule, Placed(p, f, Sounded) \cap (since .. i))

ToldAt(k, f, e, v) ==
    \A rule : FrequencyBreaks(ChannelOf(f), v, rule) => Names(k, rule, {e})

(* What a frame knows of its carrier, and what the sink tells of its       *)
(* outputs.                                                                *)
CarrierKnown(p, k, f, v, checked) ==
    \E since : /\ Carried(p, f, Len(p) + 1, since, v)
               /\ checked => Told(p, k, f, Len(p), since, v)

OutputsTold(p, k, f) ==
    \A i \in Placed(p, f, Outputs) : \E since, v :
        Carried(p, f, i, since, v) /\ Told(p, k, f, i, since, v)

(* Reading el at a frame whose carrier is v: if it is set anew, or sounded *)
(* for the first time, the sink is told of it.                             *)
LEMMA CarrierGrows ==
    ASSUME NEW p \in Seq(ElementSet), NEW el \in ElementSet, NEW f,
           NEW k \in Seq(Rejected), NEW s \in Seq(Rejected), NEW v, NEW checked \in BOOLEAN,
           CarrierKnown(p, k, f, v, checked), OutputsTold(p, k, f),
           NEW w, NEW looked \in BOOLEAN,
           w = IF el.kind = "set_frequency" /\ el.frame = f THEN el.frequency ELSE v,
           looked => el.kind \in Sounded /\ el.frame = f /\ ToldAt(k \o s, f, Len(p) + 1, w),
           el.kind = "set_frequency" /\ el.frame = f => looked,
           el.kind \in Outputs /\ el.frame = f => checked \/ looked
    PROVE  /\ CarrierKnown(Append(p, el), k \o s, f, w, checked \/ looked)
           /\ OutputsTold(Append(p, el), k \o s, f)
<1> DEFINE q == Append(p, el)
           n == Len(p) + 1
           sets == el.kind = "set_frequency" /\ el.frame = f
<1>1. /\ Len(p) \in Nat /\ Len(q) = n /\ q[n] = el /\ \A i \in 1 .. Len(p) : q[i] = p[i]
  BY OneMore
<1>2. /\ Placed(p, f, {"set_frequency"}) \subseteq 1 .. Len(p)
      /\ Placed(q, f, {"set_frequency"})
             = Placed(p, f, {"set_frequency"}) \cup IF sets THEN {n} ELSE {}
  BY PlacedGrows
<1>3. /\ Placed(p, f, Sounded) \subseteq Placed(q, f, Sounded)
      /\ el.kind \in Sounded /\ el.frame = f => n \in Placed(q, f, Sounded)
  BY PlacedGrows
<1>4. /\ Placed(p, f, Outputs) \subseteq 1 .. Len(p)
      /\ Placed(q, f, Outputs)
             = Placed(p, f, Outputs) \cup IF el.kind \in Outputs /\ el.frame = f THEN {n} ELSE {}
  BY PlacedGrows
<1> HIDE DEF q
<1>5. ASSUME NEW i \in 1 .. n PROVE Sets(q, f, i) = Sets(p, f, i)
  BY <1>1, <1>2 DEF Sets
<1>6. /\ Sets(p, f, n) = Placed(p, f, {"set_frequency"})
      /\ Sets(q, f, n + 1) = Placed(q, f, {"set_frequency"})
  BY <1>1, <1>2 DEF Sets
<1>7. ASSUME NEW i \in 1 .. n, NEW since, NEW x, Carried(p, f, i, since, x)
      PROVE  Carried(q, f, i, since, x) /\ since \in 1 .. n
  <2>1. CASE Sets(p, f, i) = {}
    BY <1>1, <1>5, <1>7, <2>1 DEF Carried
  <2>2. CASE Sets(p, f, i) # {}
    <3>1. since \in 1 .. Len(p)
      BY <1>2, <1>7, <2>2 DEF Carried, Sets
    <3> QED BY <1>1, <1>5, <1>7, <2>2, <3>1 DEF Carried
  <2> QED BY <2>1, <2>2
<1>8. ASSUME NEW i \in Int, NEW j \in Int, i <= j, NEW since \in Int, NEW x,
             Told(p, k, f, i, since, x)
      PROVE  Told(q, k \o s, f, j, since, x)
  <2>1. Placed(p, f, Sounded) \cap (since .. i) \subseteq Placed(q, f, Sounded) \cap (since .. j)
    BY <1>3, <1>8
  <2> QED BY <1>8, <2>1, NamesWiden DEF Told
<1>9. ASSUME looked, NEW since \in 1 .. n
      PROVE  Told(q, k \o s, f, n, since, w)
  <2>1. {n} \subseteq Placed(q, f, Sounded) \cap (since .. n)
    BY <1>1, <1>3, <1>9
  <2> QED BY <1>9, <2>1 DEF Told, ToldAt, Names
<1>10. PICK since : /\ Carried(p, f, n, since, v)
                    /\ checked => Told(p, k, f, Len(p), since, v)
  BY DEF CarrierKnown
<1>11. n \in 1 .. n /\ Carried(q, f, n, since, v) /\ since \in 1 .. n
  BY <1>1, <1>7, <1>10
<1>12. CASE sets
  <2>1. n \in Sets(q, f, n + 1) /\ \A i \in Sets(q, f, n + 1) : i <= n
    BY <1>1, <1>2, <1>6, <1>12
  <2>2. Carried(q, f, n + 1, n, w)
    BY <1>1, <1>12, <2>1 DEF Carried
  <2>3. Told(q, k \o s, f, n, n, w)
    BY <1>9, <1>11, <1>12
  <2>4. el.kind \notin Outputs
    BY <1>12 DEF Outputs
  <2>5. CarrierKnown(q, k \o s, f, w, checked \/ looked)
    BY <1>1, <2>2, <2>3 DEF CarrierKnown
  <2>6. ASSUME NEW i \in Placed(q, f, Outputs)
        PROVE  \E b, x : Carried(q, f, i, b, x) /\ Told(q, k \o s, f, i, b, x)
    <3>1. i \in Placed(p, f, Outputs) /\ i \in 1 .. n /\ i \in Int
      BY <1>1, <1>4, <2>4
    <3>2. PICK b, x : Carried(p, f, i, b, x) /\ Told(p, k, f, i, b, x)
      BY <3>1 DEF OutputsTold
    <3> QED BY <1>7, <1>8, <3>1, <3>2
  <2> QED BY <2>5, <2>6 DEF OutputsTold, q
<1>13. CASE ~sets
  <2>1. w = v
    BY <1>13
  <2>2. Sets(q, f, n + 1) = Sets(q, f, n)
    BY <1>1, <1>2, <1>5, <1>6, <1>13
  <2>3. Carried(q, f, n + 1, since, w)
    BY <1>11, <2>1, <2>2 DEF Carried
  <2>4. checked \/ looked => Told(q, k \o s, f, n, since, w)
    <3>1. CASE checked
      <4>1. Len(p) \in Int /\ n \in Int /\ Len(p) <= n /\ since \in Int
        BY <1>1, <1>11
      <4> QED BY <1>8, <1>10, <2>1, <3>1, <4>1
    <3>2. CASE looked
      BY <1>9, <1>11, <3>2
    <3> QED BY <3>1, <3>2
  <2>5. CarrierKnown(q, k \o s, f, w, checked \/ looked)
    BY <1>1, <2>3, <2>4 DEF CarrierKnown
  <2>6. ASSUME NEW i \in Placed(q, f, Outputs)
        PROVE  \E b, x : Carried(q, f, i, b, x) /\ Told(q, k \o s, f, i, b, x)
    <3>1. CASE i \in Placed(p, f, Outputs)
      <4>1. i \in 1 .. n /\ i \in Int
        BY <1>1, <1>4, <3>1
      <4>2. PICK b, x : Carried(p, f, i, b, x) /\ Told(p, k, f, i, b, x)
        BY <3>1 DEF OutputsTold
      <4> QED BY <1>7, <1>8, <4>1, <4>2
    <3>2. CASE i = n /\ el.kind \in Outputs /\ el.frame = f
      BY <1>11, <2>1, <2>4, <3>2
    <3> QED BY <1>4, <3>1, <3>2
  <2> QED BY <2>5, <2>6 DEF OutputsTold, q
<1> QED BY <1>12, <1>13

(* The carriers of the frames that can be retuned. *)
CarriersTold ==
    \A f \in Frames : ~HasTones(ChannelOf(f)) =>
        /\ CarrierKnown(prog, sink, f, states[f].frequency, states[f].freqChecked)
        /\ OutputsTold(prog, sink, f)

CInv == HInv /\ CarriersTold

(* An element keeps the carriers told.                                     *)
LEMMA ElementKeepsCarriers ==
    ASSUME CInv, NEW el \in ElementSet, ReadElement(el), ~ToolError
    PROVE  CarriersTold'
<1>1. /\ IInv /\ sink \in Seq(Rejected) /\ prog \in Seq(ElementSet)
      /\ phase = "elements" /\ prog' = Append(prog, el)
      /\ \A f \in Frames : Moves(el, f)
      /\ \A f \in Frames : states[f] \in FrameRecord
  BY ElementMoves DEF CInv, HInv, IInv, Typed
<1>2. PICK s \in Seq(Rejected) : sink' = sink \o s
  <2>1. Bound
    BY <1>1 DEF CInv, HInv
  <2> QED BY <1>1, <2>1, ElementAdds DEF Adds
<1> SUFFICES ASSUME NEW f \in Frames, ~HasTones(ChannelOf(f))
             PROVE  /\ CarrierKnown(prog', sink', f, states'[f].frequency, states'[f].freqChecked)
                    /\ OutputsTold(prog', sink', f)
  BY DEF CarriersTold
<1> DEFINE st == states[f]
           v == st.frequency
           w == IF el.kind = "set_frequency" /\ el.frame = f THEN el.frequency ELSE v
           looked == el.kind # "barrier" /\ el.frame = f /\ LooksAt(el, st)
<1>3. /\ CarrierKnown(prog, sink, f, v, st.freqChecked) /\ OutputsTold(prog, sink, f)
      /\ st.freqChecked \in BOOLEAN
  BY <1>1 DEF CInv, CarriersTold, FrameRecord
<1>4. states'[f].frequency = w /\ (states'[f].freqChecked <=> st.freqChecked \/ looked)
  <2>1. CASE el.kind # "barrier" /\ el.frame = f
    <3>1. Remembers(el, st, states'[f])
      BY <1>1, <2>1 DEF Moves
    <3> QED BY <2>1, <3>1 DEF Remembers, LooksAt
  <2>2. CASE ~(el.kind # "barrier" /\ el.frame = f)
    <3>1. Unmoved(st, states'[f])
      BY <1>1, <2>2 DEF Moves
    <3>2. ~(el.kind = "set_frequency" /\ el.frame = f)
      BY <2>2
    <3> QED BY <2>2, <3>1, <3>2 DEF Unmoved
  <2> QED BY <2>1, <2>2
<1>5. ASSUME looked
      PROVE  el.kind \in Sounded /\ el.frame = f /\ ToldAt(sink', f, Len(prog) + 1, w)
  <2>1. LooksAt(el, states[el.frame]) /\ el.frame = f
    BY <1>5
  <2>2. el.kind \in Sounded
    BY <2>1 DEF LooksAt, Sounded
  <2>3. w = Tuned(el, states[el.frame])
    BY <2>1 DEF Tuned
  <2> HIDE DEF w
  <2> QED BY <1>1, <2>1, <2>2, <2>3, CarrierCited DEF ToldAt, Element
<1>6. el.kind = "set_frequency" /\ el.frame = f => looked
  BY DEF LooksAt
<1>7. el.kind \in Outputs /\ el.frame = f => st.freqChecked \/ looked
  BY DEF LooksAt, Outputs
<1>8. states'[f].freqChecked \in BOOLEAN /\ looked \in BOOLEAN
  <2>1. states'[f] \in FrameRecord
    BY <1>1 DEF Moves, Remembers, Unmoved
  <2> QED BY <2>1 DEF FrameRecord, LooksAt
<1>9. w = IF el.kind = "set_frequency" /\ el.frame = f THEN el.frequency ELSE v
  OBVIOUS
<1> HIDE DEF w, v, looked, st
<1>10. /\ CarrierKnown(Append(prog, el), sink \o s, f, w, st.freqChecked \/ looked)
       /\ OutputsTold(Append(prog, el), sink \o s, f)
  <2>1. looked => /\ el.kind \in Sounded /\ el.frame = f
                  /\ ToldAt(sink \o s, f, Len(prog) + 1, w)
    BY <1>2, <1>5
  <2> QED BY <1>1, <1>2, <1>3, <1>6, <1>7, <1>8, <1>9, <2>1, CarrierGrows
<1>11. states'[f].freqChecked = (st.freqChecked \/ looked)
  BY <1>4, <1>8
<1> QED BY <1>1, <1>2, <1>4, <1>10, <1>11

(* So does every other step.                                               *)
LEMMA OtherKeepsCarriers ==
    ASSUME CInv, [Next]_vars, ~\E el \in ElementSet : ReadElement(el) /\ ~ToolError
    PROVE  CarriersTold'
<1>1. /\ prog' = prog /\ sink \in Seq(Rejected)
      /\ \A f \in Frames : Unmoved(states[f], states'[f])
      /\ \E s \in Seq(Rejected) : sink' = sink \o s
  BY OtherSteps DEF CInv, HInv
<1>2. ASSUME NEW rule, NEW elements, Names(sink, rule, elements)
      PROVE  Names(sink', rule, elements)
  BY <1>1, <1>2, NamesConcat
<1>3. ASSUME NEW f, NEW i, NEW since, NEW v, Told(prog, sink, f, i, since, v)
      PROVE  Told(prog', sink', f, i, since, v)
  BY <1>1, <1>2, <1>3 DEF Told
<1>4. ASSUME NEW f \in Frames, ~HasTones(ChannelOf(f))
      PROVE  /\ CarrierKnown(prog', sink', f, states'[f].frequency, states'[f].freqChecked)
             /\ OutputsTold(prog', sink', f)
  <2>1. /\ CarrierKnown(prog, sink, f, states[f].frequency, states[f].freqChecked)
        /\ OutputsTold(prog, sink, f)
    BY <1>4 DEF CInv, CarriersTold
  <2>2. /\ states'[f].frequency = states[f].frequency
        /\ states'[f].freqChecked = states[f].freqChecked
    BY <1>1 DEF Unmoved
  <2> QED BY <1>1, <1>3, <2>1, <2>2 DEF CarrierKnown, OutputsTold
<1> QED BY <1>4 DEF CarriersTold

(* They are told before the program is read.                               *)
LEMMA InitCarriers ==
    ASSUME HInit PROVE CarriersTold
<1>1. /\ prog = << >> /\ states = [f \in Frames |-> InitialState(f)]
  BY DEF HInit, Init
<1>2. Len(prog) = 0 /\ \A f, kinds : Placed(prog, f, kinds) = {}
  BY <1>1 DEF Placed
<1>3. ASSUME NEW f \in Frames
      PROVE  /\ CarrierKnown(prog, sink, f, states[f].frequency, states[f].freqChecked)
             /\ OutputsTold(prog, sink, f)
  <2>1. states[f].frequency = FrameDefs[f].frequency /\ states[f].freqChecked = FALSE
    BY <1>1 DEF InitialState
  <2>2. Carried(prog, f, Len(prog) + 1, 1, states[f].frequency)
    BY <1>2, <2>1 DEF Carried, Sets
  <2> QED BY <1>2, <2>1, <2>2 DEF CarrierKnown, OutputsTold
<1> QED BY <1>3 DEF CarriersTold

(* No output sounds at a frequency that was not looked at, though a        *)
(* frequency is looked at when it is set and the first time it sounds.     *)
THEOREM CarriersTheorem == HSpec => []CarriersChecked
<1>1. HInit => CInv
  BY InitHInv, InitCarriers DEF CInv
<1>2. CInv /\ [HNext]_<< vars, before >> => CInv'
  <2> SUFFICES ASSUME CInv, [HNext]_<< vars, before >> PROVE CInv'
    OBVIOUS
  <2>1. HInv' /\ [Next]_vars
    BY StepHInv DEF CInv, HNext
  <2>2. CarriersTold'
    BY <2>1, ElementKeepsCarriers, OtherKeepsCarriers
  <2> QED BY <2>1, <2>2 DEF CInv
<1>3. ASSUME CInv PROVE CarriersChecked
  <2> SUFFICES ASSUME ProgramRead, NEW f \in Frames, ~HasTones(ChannelOf(f)), NEW i \in On(f, Outputs)
               PROVE  LET since == IF SetBefore(f, i) = {} THEN 1 ELSE Max(SetBefore(f, i))
                          carrier == On(f, Outputs \cup {"set_frequency"}) \cap (since .. i)
                          broken  == FrequencyRejections(ChannelOf(f), FrequencyAt(f, i), 0)
                      IN  \A n \in DOMAIN broken : Cited(broken[n].rule, carrier) # {}
    BY DEF CarriersChecked
  <2> DEFINE c == ChannelOf(f)
             first == IF SetBefore(f, i) = {} THEN 1 ELSE Max(SetBefore(f, i))
             broken == FrequencyRejections(c, FrequencyAt(f, i), 0)
  <2>1. prog \in Seq(ElementSet) /\ c \in DOMAIN Device
    BY <1>3, FrameChannel DEF CInv, HInv, IInv, Typed, Bound, ProgramRead
  <2>2. /\ SetBefore(f, i) = Sets(prog, f, i)
        /\ On(f, Sounded) = Placed(prog, f, Sounded)
        /\ i \in Placed(prog, f, Outputs)
    BY OnIsPlaced DEF SetBefore, Sets
  <2>3. PICK since, v : Carried(prog, f, i, since, v) /\ Told(prog, sink, f, i, since, v)
    BY <1>3, <2>2 DEF CInv, CarriersTold, OutputsTold
  <2>4. since = first /\ v = FrequencyAt(f, i)
    <3>1. CASE Sets(prog, f, i) = {}
      BY <2>2, <2>3, <3>1 DEF Carried, FrequencyAt
    <3>2. CASE Sets(prog, f, i) # {}
      <4>1. Sets(prog, f, i) \in SUBSET Int
        BY <2>1, PlacedGrows DEF Sets, Placed
      <4>2. since \in Sets(prog, f, i) /\ \A k \in Sets(prog, f, i) : k <= since
        BY <2>3, <3>2 DEF Carried
      <4>3. Max(Sets(prog, f, i)) = since
        BY <4>1, <4>2, MaxIs
      <4> QED BY <2>2, <2>3, <3>2, <4>3 DEF Carried, FrequencyAt
    <3> QED BY <3>1, <3>2
  <2> HIDE DEF first, broken
  <2>5. ASSUME NEW n \in DOMAIN broken
        PROVE  Cited(broken[n].rule, On(f, Outputs \cup {"set_frequency"}) \cap (first .. i)) # {}
    <3>1. broken \in Seq(Of(ValueRules, {0}))
      BY <2>1, FrequencyOf, ValueOf DEF broken
    <3>2. broken[n] \in ToSet(broken) /\ broken[n] \in Of(ValueRules, {0})
      BY <3>1, LenProperties, ElementOfSeq DEF ToSet
    <3>3. Names(broken, broken[n].rule, {0})
      BY <3>2 DEF Names, Of
    <3>4. FrequencyBreaks(c, v, broken[n].rule)
      BY <2>1, <2>4, <3>3, FrequencyNames DEF broken
    <3>5. Names(sink, broken[n].rule, On(f, Sounded) \cap (first .. i))
      BY <2>2, <2>3, <2>4, <3>4 DEF Told
    <3> QED BY <3>5, CitedNames DEF Sounded
  <2> QED BY <2>5 DEF first, broken
<1> QED BY <1>1, <1>2, <1>3, PTL DEF HSpec

-----------------------------------------------------------------------------
(* Envelopes.                                                              *)

(* What envelope_peak finds is a sample of largest magnitude.              *)
LEMMA PeakIs ==
    ASSUME NEW s \in Seq(Int)
    PROVE  /\ EnvelopePeak(s) \in Int
           /\ \A n \in DOMAIN s : Magnitude(s[n]) <= Magnitude(EnvelopePeak(s))
           /\ s # << >> => \E n \in DOMAIN s : EnvelopePeak(s) = s[n]
           /\ s = << >> => EnvelopePeak(s) = 0
<1>1. /\ DOMAIN s = 1 .. Len(s) /\ Len(s) \in Nat
      /\ \A n \in DOMAIN s : s[n] \in Int /\ Magnitude(s[n]) \in Nat
  BY LenProperties, ElementOfSeq, MagnitudeOf
<1>2. CASE s = << >>
  <2>1. DOMAIN s = {} /\ EnvelopePeak(s) = 0
    BY <1>2 DEF EnvelopePeak
  <2> QED BY <1>2, <2>1
<1>3. CASE s # << >>
  <2> DEFINE Largest == {n \in DOMAIN s : \A m \in DOMAIN s : Magnitude(s[m]) <= Magnitude(s[n])}
             sizes == [n \in DOMAIN s |-> Magnitude(s[n])]
             least == CHOOSE n \in Largest : \A m \in Largest : n <= m
  <2>1. Len(s) \in Nat \ {0} /\ \A n \in 1 .. Len(s) : sizes[n] \in Int
    <3>1. Len(s) # 0
      BY <1>3, EmptySeq
    <3> QED BY <1>1, <3>1
  <2>2. PICK n \in 1 .. Len(s) : \A m \in 1 .. Len(s) : sizes[m] <= sizes[n]
    <3> HIDE DEF sizes
    <3> QED BY <2>1, LargestPlace
  <2>3. n \in DOMAIN s /\ \A m \in DOMAIN s : Magnitude(s[m]) <= Magnitude(s[n])
    BY <1>1, <2>2
  <2>4. n \in Largest
    BY <2>3
  <2>5. Largest \in SUBSET Nat /\ Largest # {}
    BY <1>1, <2>4
  <2> HIDE DEF Largest
  <2>6. \E i \in Largest : \A j \in Largest : i <= j
    BY <2>5, LeastElement
  <2>7. least \in Largest
    BY <2>6
  <2>8. EnvelopePeak(s) = s[least]
    BY <1>3 DEF EnvelopePeak, Largest
  <2> HIDE DEF least
  <2>9. least \in DOMAIN s /\ \A m \in DOMAIN s : Magnitude(s[m]) <= Magnitude(s[least])
    BY <2>7 DEF Largest
  <2> QED BY <1>1, <1>3, <2>8, <2>9
<1> QED BY <1>2, <1>3

(* A conditional rejection is the only one, or none.                       *)
LEMMA WhenSet ==
    ASSUME NEW condition, NEW r, NEW S, r \in S
    PROVE  /\ When(condition, r) \in Seq(S)
           /\ \A t : t \in ToSet(When(condition, r)) <=> condition /\ t = r
<1>1. CASE condition
  <2>1. When(condition, r) = << r >>
    BY <1>1 DEF When
  <2>2. << r >> \in Seq(S) /\ ToSet(<< r >>) = {r}
    BY SeqDef DEF ToSet
  <2> QED BY <1>1, <2>1, <2>2
<1>2. CASE ~condition
  <2>1. When(condition, r) = << >>
    BY <1>2 DEF When
  <2>2. << >> \in Seq(S) /\ ToSet(<< >>) = {}
    BY EmptySeq DEF ToSet
  <2> QED BY <1>2, <2>1, <2>2
<1> QED BY <1>1, <1>2

(* An accepted constraint agrees with the capability it repeats.           *)
LEMMA AcceptedAgrees ==
    ASSUME NEW c \in DOMAIN Device, NEW id, Declared(c, id), ValidDescriptor
    PROVE  /\ EnvelopeAgrees(Constraint(c, id), Device[c].capabilities)
           /\ Constraint(c, id).id = id
<1> DEFINE k == Constraint(c, id)
<1>1. k.id = id /\ \E i \in DOMAIN Device[c].constraints : k = Device[c].constraints[i]
  BY DeclaredConstraint
<1> HIDE DEF k
<1>2. EnvelopeAgrees(k, Device[c].capabilities)
  BY <1>1 DEF ValidDescriptor, ValidChannel, ValidConstraint
<1> QED BY <1>1, <1>2 DEF k

(* A sample outside the limits of a constraint.                            *)
Outside(k, s) == \E n \in DOMAIN s : s[n] < k.min \/ s[n] > k.max

(* The peak passes limits that are alike on both sides with some sample.   *)
LEMMA PeakOutside ==
    ASSUME NEW s \in Seq(Int), NEW k, NEW maxAbs \in Int, maxAbs > 0,
           k.min = -maxAbs, k.max = maxAbs
    PROVE  /\ Magnitude(EnvelopePeak(s)) \in Nat
           /\ Magnitude(EnvelopePeak(s)) > maxAbs <=> Outside(k, s)
<1> DEFINE peak == EnvelopePeak(s)
<1>1. /\ peak \in Int
      /\ \A n \in DOMAIN s : Magnitude(s[n]) <= Magnitude(peak)
      /\ s # << >> => \E n \in DOMAIN s : peak = s[n]
      /\ s = << >> => peak = 0
  BY PeakIs
<1> HIDE DEF peak
<1>2. Magnitude(peak) \in Nat
  BY <1>1, MagnitudeOf
<1>3. \A n \in DOMAIN s : s[n] \in Int
  BY LenProperties, ElementOfSeq
<1>4. ASSUME NEW v \in Int
      PROVE  Magnitude(v) \in Nat /\ (Magnitude(v) > maxAbs <=> v < k.min \/ v > k.max)
  BY DEF Magnitude
<1>5. CASE s = << >>
  <2>1. Magnitude(peak) = 0 /\ DOMAIN s = {}
    BY <1>1, <1>5, MagnitudeOf
  <2> QED BY <1>2, <2>1 DEF Outside, peak
<1>6. CASE s # << >>
  <2>1. PICK n \in DOMAIN s : peak = s[n]
    BY <1>1, <1>6
  <2>2. ASSUME Magnitude(peak) > maxAbs PROVE Outside(k, s)
    <3>1. peak < k.min \/ peak > k.max
      BY <1>1, <1>4, <2>2
    <3> QED BY <2>1, <3>1 DEF Outside
  <2>3. ASSUME Outside(k, s) PROVE Magnitude(peak) > maxAbs
    <3>1. PICK m \in DOMAIN s : s[m] < k.min \/ s[m] > k.max
      BY <2>3 DEF Outside
    <3>2. Magnitude(s[m]) > maxAbs /\ Magnitude(s[m]) \in Nat
      BY <1>3, <1>4, <3>1
    <3> QED BY <1>1, <1>2, <3>2
  <2> QED BY <1>2, <2>2, <2>3 DEF peak
<1> QED BY <1>5, <1>6

(* A sampled envelope of an accepted descriptor is held against what the   *)
(* two constraints declare, although the rules read the capabilities: off  *)
(* the declared grid it is cited, and a sample of I or Q outside the       *)
(* declared limits, the negative one included, is fatal, and nothing else  *)
(* is (validate_descriptor and check_envelope).                            *)
THEOREM EnvelopeLimitsTheorem ==
    ASSUME ValidDescriptor, NEW c \in DOMAIN Device, NEW units, NEW e,
           NEW w \in DOMAIN Waveforms, Waveforms[w].kind = "samples"
    PROVE  LET said == ToSet(EnvelopeRejections(c, w, units, e))
               grid == Constraint(c, "envelope_sample_grid")
               size == Constraint(c, "envelope_amplitude")
           IN  /\ Declared(c, "envelope_sample_grid") =>
                      ((\E r \in said : r.rule = "envelope_sample_grid")
                           <=> ~Divides(grid.grid, Samples(w)))
               /\ Declared(c, "envelope_amplitude") =>
                      ((\E r \in said : r.rule = "envelope_amplitude" /\ r.severity = "fatal")
                           <=> Outside(size, Waveforms[w].i) \/ Outside(size, Waveforms[w].q))
<1> DEFINE length == AsDeclared(c, "envelope_duration_exact", e)
           onGrid == AsDeclared(c, "envelope_sample_grid", e)
           high   == AsDeclared(c, "envelope_amplitude", e)
           clip   == Repairable("envelope_amplitude", "saturate_gain", e)
           inexact == /\ Declared(c, "envelope_duration_exact")
                      /\ units * Unit(c) # Samples(w) * Channels[c].sampleUnit
           off     == GridChecked(c) /\ ~Divides(Device[c].capabilities.sampleGrid, Samples(w))
           amplitude == IF AmplitudeChecked(c) THEN EnvelopeAmplitudeRejections(c, w, e) ELSE << >>
           first  == When(inexact, length)
           second == When(off, onGrid)
           all == EnvelopeRejections(c, w, units, e)
<1>1. /\ length.rule = "envelope_duration_exact" /\ onGrid.rule = "envelope_sample_grid"
      /\ high.rule = "envelope_amplitude" /\ clip.rule = "envelope_amplitude"
      /\ high.severity = Constraint(c, "envelope_amplitude").severity
      /\ clip.severity = "vendor_repairable"
  BY DEF AsDeclared, Repairable, Rejection
<1>2. /\ ToSet(all) = ToSet(first) \cup ToSet(second) \cup ToSet(amplitude)
      /\ \A r : r \in ToSet(first) => r = length
      /\ \A r : r \in ToSet(second) <=> off /\ r = onGrid
      /\ \A r : r \in ToSet(amplitude) => r = high \/ r = clip
      /\ clip # high =>
             (high \in ToSet(amplitude)
                  <=> AmplitudeChecked(c) /\ WaveformPeak(w) > Device[c].capabilities.maxAbs)
  <2> DEFINE S == {length, onGrid, high, clip}
  <2>1. /\ first \in Seq(S) /\ second \in Seq(S)
        /\ \A r : r \in ToSet(first) <=> inexact /\ r = length
        /\ \A r : r \in ToSet(second) <=> off /\ r = onGrid
    <3> HIDE DEF inexact, off, length, onGrid, high, clip
    <3> QED BY WhenSet
  <2>2. /\ amplitude \in Seq(S)
        /\ \A r : r \in ToSet(amplitude) => r = high \/ r = clip
        /\ clip # high =>
               (high \in ToSet(amplitude)
                    <=> AmplitudeChecked(c) /\ WaveformPeak(w) > Device[c].capabilities.maxAbs)
    <3> DEFINE over == WaveformPeak(w) > Device[c].capabilities.maxAbs
               one == PeakSaturates(c, Waveforms[w].i)
               two == PeakSaturates(c, Waveforms[w].q)
    <3>1. \/ AmplitudeChecked(c) /\ over /\ amplitude = << high >>
          \/ ~(AmplitudeChecked(c) /\ over) /\ amplitude = << >>
          \/ ~(AmplitudeChecked(c) /\ over) /\ amplitude = When(one, clip) \o When(two, clip)
      BY DEF EnvelopeAmplitudeRejections
    <3> HIDE DEF over, one, two, amplitude, high, clip, length, onGrid
    <3>2. /\ When(one, clip) \in Seq({clip}) /\ When(two, clip) \in Seq({clip})
          /\ \A r : r \in ToSet(When(one, clip)) => r = clip
          /\ \A r : r \in ToSet(When(two, clip)) => r = clip
      BY WhenSet
    <3>3. /\ ToSet(When(one, clip) \o When(two, clip))
                 = ToSet(When(one, clip)) \cup ToSet(When(two, clip))
          /\ When(one, clip) \o When(two, clip) \in Seq({clip})
      BY <3>2, ConcatSet, ConcatProperties
    <3>4. {clip} \subseteq S /\ << high >> \in Seq(S) /\ << >> \in Seq(S)
      BY EmptySeq, SeqDef
    <3>5. When(one, clip) \o When(two, clip) \in Seq(S)
      <4> HIDE DEF S
      <4> QED BY <3>3, <3>4, SeqWiden
    <3>6. ToSet(<< high >>) = {high} /\ ToSet(<< >>) = {}
      BY DEF ToSet
    <3>7. CASE AmplitudeChecked(c) /\ over /\ amplitude = << high >>
      BY <3>4, <3>6, <3>7 DEF over
    <3>8. CASE ~(AmplitudeChecked(c) /\ over) /\ amplitude = << >>
      BY <3>4, <3>6, <3>8 DEF over
    <3>9. CASE ~(AmplitudeChecked(c) /\ over) /\ amplitude = When(one, clip) \o When(two, clip)
      <4>1. \A r \in ToSet(amplitude) : r = clip
        BY <3>2, <3>3, <3>9
      <4>2. ~(AmplitudeChecked(c) /\ WaveformPeak(w) > Device[c].capabilities.maxAbs)
        BY <3>9 DEF over
      <4> QED BY <3>5, <3>9, <4>1, <4>2
    <3> QED BY <3>1, <3>7, <3>8, <3>9
  <2>3. all = first \o second \o amplitude
    BY DEF EnvelopeRejections
  <2> HIDE DEF S, all, first, second, amplitude
  <2>4. first \o second \in Seq(S) /\ ToSet(first \o second) = ToSet(first) \cup ToSet(second)
    BY <2>1, ConcatSet, ConcatProperties
  <2>5. ToSet(all) = ToSet(first \o second) \cup ToSet(amplitude)
    <3> DEFINE pair == first \o second
    <3>1. pair \in Seq(S) /\ all = pair \o amplitude
      BY <2>3, <2>4
    <3> HIDE DEF pair
    <3>2. ToSet(pair \o amplitude) = ToSet(pair) \cup ToSet(amplitude)
      BY <2>2, <3>1, ConcatSet
    <3> QED BY <3>1, <3>2 DEF pair
  <2> QED BY <2>1, <2>2, <2>4, <2>5
<1> HIDE DEF all, first, second, amplitude, length, onGrid, high, clip, inexact
<1>3. ASSUME Declared(c, "envelope_sample_grid")
      PROVE  (\E r \in ToSet(all) : r.rule = "envelope_sample_grid")
                 <=> ~Divides(Constraint(c, "envelope_sample_grid").grid, Samples(w))
  <2> DEFINE k == Constraint(c, "envelope_sample_grid")
  <2>1. EnvelopeAgrees(k, Device[c].capabilities) /\ k.id = "envelope_sample_grid"
    BY <1>3, AcceptedAgrees
  <2>2. Device[c].capabilities.sampleGrid # Absent /\ k.grid = Device[c].capabilities.sampleGrid
    BY <2>1 DEF EnvelopeAgrees
  <2>3. off <=> ~Divides(k.grid, Samples(w))
    BY <1>3, <2>2 DEF GridChecked
  <2> HIDE DEF off, k
  <2>4. (\E r \in ToSet(all) : r.rule = "envelope_sample_grid") <=> off
    BY <1>1, <1>2
  <2> QED BY <2>3, <2>4 DEF k
<1>4. ASSUME Declared(c, "envelope_amplitude")
      PROVE  (\E r \in ToSet(all) : r.rule = "envelope_amplitude" /\ r.severity = "fatal")
                 <=> \/ Outside(Constraint(c, "envelope_amplitude"), Waveforms[w].i)
                     \/ Outside(Constraint(c, "envelope_amplitude"), Waveforms[w].q)
  <2> DEFINE k == Constraint(c, "envelope_amplitude")
             maxAbs == Device[c].capabilities.maxAbs
             over == WaveformPeak(w) > maxAbs
  <2>1. EnvelopeAgrees(k, Device[c].capabilities) /\ k.id = "envelope_amplitude"
        /\ k \in ConstraintRecord /\ k.severity = "fatal"
    <3>1. SeverityRule("envelope_amplitude") = {"fatal"}
      BY DeclaredFatal
    <3> QED BY <1>4, <3>1, AcceptedAgrees, AcceptedSeverity, DeclaredConstraint
  <2>2. /\ maxAbs # Absent /\ maxAbs > 0 /\ k.min = -maxAbs /\ k.max = maxAbs
        /\ k.max \in Int \cup {Absent}
    BY <2>1 DEF EnvelopeAgrees, ConstraintRecord
  <2>3. maxAbs \in Int /\ maxAbs > 0 /\ k.min = -maxAbs /\ k.max = maxAbs
    BY <2>2
  <2>4. AmplitudeChecked(c)
    BY <1>4, <2>2 DEF AmplitudeChecked
  <2>5. over <=> Outside(k, Waveforms[w].i) \/ Outside(k, Waveforms[w].q)
    <3>1. Waveforms[w].i \in Seq(Int) /\ Waveforms[w].q \in Seq(Int)
      BY WaveformAssumption
    <3> HIDE DEF k, maxAbs
    <3>2. ASSUME NEW s \in Seq(Int)
          PROVE  /\ Magnitude(EnvelopePeak(s)) \in Nat
                 /\ Magnitude(EnvelopePeak(s)) > maxAbs <=> Outside(k, s)
      BY <2>3, PeakOutside
    <3>3. WaveformPeak(w) = Later(Magnitude(EnvelopePeak(Waveforms[w].i)),
                                  Magnitude(EnvelopePeak(Waveforms[w].q)))
      BY DEF WaveformPeak
    <3>4. ASSUME NEW a \in Nat, NEW b \in Nat PROVE Later(a, b) > maxAbs <=> a > maxAbs \/ b > maxAbs
      BY <2>3 DEF Later
    <3>5. /\ Magnitude(EnvelopePeak(Waveforms[w].i)) \in Nat
          /\ Magnitude(EnvelopePeak(Waveforms[w].q)) \in Nat
          /\ Magnitude(EnvelopePeak(Waveforms[w].i)) > maxAbs <=> Outside(k, Waveforms[w].i)
          /\ Magnitude(EnvelopePeak(Waveforms[w].q)) > maxAbs <=> Outside(k, Waveforms[w].q)
      BY <3>1, <3>2
    <3> QED BY <3>3, <3>4, <3>5
  <2> HIDE DEF over
  <2>6. high.severity = "fatal" /\ high # clip
    BY <1>1, <2>1
  <2>7. high \in ToSet(amplitude) <=> over
    BY <1>2, <2>4, <2>6 DEF over
  <2> HIDE DEF k
  <2>8. (\E r \in ToSet(all) : r.rule = "envelope_amplitude" /\ r.severity = "fatal")
            <=> high \in ToSet(amplitude)
    BY <1>1, <1>2, <2>6
  <2> QED BY <2>5, <2>7, <2>8 DEF k
<1> QED BY <1>3, <1>4 DEF all
=============================================================================
