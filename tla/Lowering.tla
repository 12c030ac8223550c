------------------------------- MODULE Lowering -------------------------------
(***************************************************************************)
(* The walk of build_plan over the elements of one program, for both       *)
(* backends: they share the clocks and the barriers, and each makes its    *)
(* own calls.  A LoweringError ends the walk without a plan: the harness   *)
(* cannot ask the question.                                                *)
(***************************************************************************)
EXTENDS QickLowering, QbloxLowering, Triage

CONSTANTS
    LowerableElements   \* the elements a program is made of

VARIABLES
    source,             \* the program
    read,               \* elements lowered so far
    walk,               \* the clock, frequency and phase of every frame
    plan,               \* the calls so far; Absent before and without a plan
    lowering            \* "idle", "walking", "planned" or "not_lowerable"

lowerVars == << source, read, walk, plan, lowering >>

(* What the parser lets through (as the assumptions of module Check). *)
ASSUME LoweredFrameAssumption ==
    /\ FrameDefs \in Seq([channel: DOMAIN Channels, frequency: Int, phase: Int])
    /\ \A c \in DOMAIN Channels : Channels[c].unit \in Nat \ {0}

ASSUME LowerableAssumption ==
    \A el \in LowerableElements :
        IF el.kind = "barrier" THEN el.frames \in Seq(Frames)
        ELSE /\ el.frame \in Frames
             /\ el.kind \in {"play", "capture", "delay"} => el.duration \in Int
             /\ el.kind = "shift_phase" => el.phase \in Int
             /\ el.kind = "set_frequency" => el.frequency \in Int

Qick == Library = "qick"

LInit ==
    /\ source = << >>
    /\ read = 0
    /\ walk = InitialWalk
    /\ plan = Absent
    /\ lowering = "idle"

(* raise LoweringError *)
NotLowerable ==
    /\ lowering' = "not_lowerable"
    /\ plan' = Absent
    /\ UNCHANGED << source, read, walk >>

Unbindable ==
    \E c \in DOMAIN Channels : IF Qick THEN QickUnbound(c) ELSE QbloxUnbound(c)

BeginLowering(p) ==
    /\ lowering = "idle"
    /\ IF Unbindable
       THEN NotLowerable
       ELSE /\ lowering' = "walking"
            /\ source' = p
            /\ plan' = IF Qick THEN QickPrologue ELSE QbloxPrologue(UsedFrames(p))
            /\ UNCHANGED << read, walk >>

-----------------------------------------------------------------------------
(* One element.  Its id is its position. *)
ElementId == read + 1

NextIs(kinds) ==
    /\ lowering = "walking"
    /\ read < Len(source)
    /\ source[read + 1].kind \in kinds

Lowered(walkAfter, planAfter) ==
    /\ read' = read + 1
    /\ walk' = walkAfter
    /\ plan' = planAfter
    /\ UNCHANGED << source, lowering >>

LowerBarrier ==
    /\ NextIs({"barrier"})
    /\ LET el == source[read + 1]
       IN  \E t \in JoiningTimes(walk, el) :
              /\ LatestJoining(walk, el, t)
              /\ Lowered(JoinedAt(walk, el, t), WithRoundings(plan, el, t, ElementId))

LowerDelay ==
    /\ NextIs({"delay"})
    /\ Lowered(Waited(walk, source[read + 1]), plan)

LowerUpdate ==
    /\ NextIs(Updating)
    /\ LET el == source[read + 1]
       IN  IF Qick THEN Lowered(QickUpdated(walk, el), plan)
           ELSE Lowered(walk, QbloxUpdated(walk, plan, el, ElementId))

LowerCapture ==
    /\ NextIs({"capture"})
    /\ LET el == source[read + 1]
       IN  IF IF Qick THEN QickCaptureRefused(el) ELSE QbloxCaptureRefused(el)
           THEN NotLowerable
           ELSE Lowered(Waited(walk, el),
                        IF Qick THEN QickCaptured(walk, plan, el, ElementId)
                        ELSE QbloxCaptured(walk, plan, el, ElementId))

LowerPlay ==
    /\ NextIs({"play"})
    /\ LET el == source[read + 1]
       IN  IF IF Qick THEN QickPlayRefused(el) ELSE QbloxPlayRefused(el)
           THEN NotLowerable
           ELSE Lowered(Waited(walk, el),
                        IF Qick THEN QickPlayed(walk, plan, el, ElementId)
                        ELSE QbloxPlayed(walk, plan, el, ElementId))

EndLowering ==
    /\ lowering = "walking"
    /\ read = Len(source)
    /\ IF ~Qick /\ NothingToCompile(plan)
       THEN NotLowerable
       ELSE /\ lowering' = "planned"
            /\ UNCHANGED << source, read, walk, plan >>

LowerStep ==
    \/ LowerBarrier
    \/ LowerDelay
    \/ LowerUpdate
    \/ LowerCapture
    \/ LowerPlay
    \/ EndLowering

LNext == (\E p \in Seq(LowerableElements) : BeginLowering(p)) \/ LowerStep

LSpec == LInit /\ [][LNext]_lowerVars

-----------------------------------------------------------------------------
(* The lowering keeps time as the checker does (KeepsTime): an element     *)
(* moves only the clocks of its own frames, never back, and a barrier      *)
(* brings its members to the latest of them within half a unit.            *)
LoweredUnits == [f \in Frames |-> ProgramUnit(f)]

LoweredClocks == [f \in Frames |-> walk[f].clock]

JoinedBy(el) == IF el.kind = "barrier" THEN JoiningSet(el) ELSE {}

LoweredAlignments == [i \in 1 .. read |-> JoinedBy(source[i])]

LoweredTime == INSTANCE Timeline
               WITH TicksPer <- LoweredUnits, clock <- LoweredClocks,
                    aligned <- LoweredAlignments

LoweringKeepsTime == LoweredTime!Spec

-----------------------------------------------------------------------------
(* Every output of a QICK plan is passed the frequency, phase, gain and    *)
(* length its frame has at that point of the program, although frames are  *)
(* compiled away and pulses are defined once and replayed; and there is    *)
(* one call for every play and capture, on its channel, in their order.    *)
OutputsAmong(p, m) == {i \in 1 .. m : p[i].kind \in Outputting}

UpdatesAmong(p, f, m, kind) == {k \in 1 .. m : p[k].kind = kind /\ p[k].frame = f}

FrequencyDue(p, f, m) ==
    LET set == UpdatesAmong(p, f, m, "set_frequency")
    IN  IF set = {} THEN FrameDefs[f].frequency ELSE p[Max(set)].frequency

PhaseDue(p, f, m) ==
    FrameDefs[f].phase
    + SumFunction([k \in UpdatesAmong(p, f, m, "shift_phase") |-> p[k].phase])

PassesItsValues(p, i, channel, passed) ==
    LET el == p[i]
    IN  /\ channel = ChannelOf(el.frame)
        /\ "freq" \in DOMAIN passed => passed.freq = AsFloat(FrequencyDue(p, el.frame, i))
        /\ "phase" \in DOMAIN passed => passed.phase = AsFloat(PhaseDue(p, el.frame, i))
        /\ "gain" \in DOMAIN passed => passed.gain = AsFloat(Waveforms[el.waveform].amplitude)
        /\ "total_length" \in DOMAIN passed =>
               passed.total_length = AsFloat(Seconds(el.frame, el.duration))

KeepsItsValues(p, calls, i) ==
    LET call == calls.outputs[Cardinality(OutputsAmong(p, i))]
    IN  PassesItsValues(p, i, call.channel, calls.pulses[call.pulse].passed)

PlaysKeepTheirValues ==
    lowering = "planned" /\ Qick =>
        /\ Len(plan.outputs) = Cardinality(OutputsAmong(source, Len(source)))
        /\ \A i \in OutputsAmong(source, Len(source)) : KeepsItsValues(source, plan, i)

-----------------------------------------------------------------------------
(* run.py: "an update reaches the vendor only through a later play or      *)
(* capture on the same frame", which is what makes a "conservative" row    *)
(* proven: without the updates unused_frame_updates lists, the plan would  *)
(* be the same, call by call, and would have lost and rounded the same.    *)
(* Elements keep their ids when others are left out.                       *)
JoinTime(w, el) == CHOOSE t \in JoiningTimes(w, el) : LatestJoining(w, el, t)

After(at, el, id) ==
    CASE el.kind = "barrier" ->
             [walk |-> JoinedAt(at.walk, el, JoinTime(at.walk, el)),
              plan |-> WithRoundings(at.plan, el, JoinTime(at.walk, el), id)]
      [] el.kind = "delay" -> [walk |-> Waited(at.walk, el), plan |-> at.plan]
      [] el.kind \in Updating ->
             IF Qick THEN [walk |-> QickUpdated(at.walk, el), plan |-> at.plan]
             ELSE [walk |-> at.walk, plan |-> QbloxUpdated(at.walk, at.plan, el, id)]
      [] el.kind = "capture" ->
             [walk |-> Waited(at.walk, el),
              plan |-> IF Qick THEN QickCaptured(at.walk, at.plan, el, id)
                       ELSE QbloxCaptured(at.walk, at.plan, el, id)]
      [] el.kind = "play" ->
             [walk |-> Waited(at.walk, el),
              plan |-> IF Qick THEN QickPlayed(at.walk, at.plan, el, id)
                       ELSE QbloxPlayed(at.walk, at.plan, el, id)]

FirstStage(p) ==
    [walk |-> InitialWalk,
     plan |-> IF Qick THEN QickPrologue ELSE QbloxPrologue(UsedFrames(p))]

(* What the walk has after every element of p, some of them left out.      *)
StagesWithout(p, elements) ==
    LET at[n \in 0 .. Len(p)] ==
            IF n = 0 THEN FirstStage(p)
            ELSE IF n \in elements THEN at[n - 1] ELSE After(at[n - 1], p[n], n)
    IN  at

PlanWithout(p, elements) == StagesWithout(p, elements)[Len(p)].plan

UnusedUpdatesUnseen ==
    lowering = "planned" => plan = PlanWithout(source, UnusedFrameUpdates(source))
=============================================================================
