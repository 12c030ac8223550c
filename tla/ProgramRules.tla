----------------------------- MODULE ProgramRules -----------------------------
(***************************************************************************)
(* What check() reads of a program as a whole: the state a frame starts    *)
(* in, the members of a barrier, who owns the envelope memory a play uses, *)
(* and the arithmetic of a budget.                                         *)
(***************************************************************************)
EXTENDS TimeRules

(* The frame state at binding time. *)
InitialState(f) ==
    [clock |-> 0, frequency |-> FrameDefs[f].frequency, phase |-> FrameDefs[f].phase,
     freqChecked |-> FALSE, phaseChecked |-> FALSE,
     lastEvent |-> Absent, lastEventElement |-> 0,
     lastFreqUpdate |-> Absent, lastCapture |-> Absent, captureLength |-> Absent,
     openCapture |-> Absent, openCaptureElement |-> 0,
     nElements |-> 0, nOutputs |-> 0]

FrameOrder == [f \in Frames |-> f]

(* The frames a barrier names; none named is all of them. *)
Members(el) == IF el.frames = << >> THEN [f \in Frames |-> f] ELSE el.frames

-----------------------------------------------------------------------------
(* A sampled waveform occupies the memory of its channel or of its frame. *)
IsSampled(w) == Waveforms[w].kind = "samples"

Owner(f) ==
    IF Device[ChannelOf(f)].capabilities.memoryPerFrame THEN << "frame", f >>
    ELSE << "channel", ChannelOf(f) >>

Owners == {<< "channel", c >> : c \in DOMAIN Channels} \cup {<< "frame", f >> : f \in Frames}

-----------------------------------------------------------------------------
(* Budgets. *)
CostFits(perItem, count, overhead) ==
    IntFits(perItem * count) /\ IntFits(perItem * count + overhead)

Cost(perItem, count, overhead) == perItem * count + overhead

Bounds(lower, upper) == [lower |-> lower, upper |-> upper]

PerElement(b) == IF b.perElementMax # Absent THEN b.perElementMax ELSE b.perItem

BudgetVerdict(bounds, limit) ==
    IF bounds.upper <= limit THEN "fits"
    ELSE IF bounds.lower > limit THEN "violates" ELSE "indeterminate"
=============================================================================
