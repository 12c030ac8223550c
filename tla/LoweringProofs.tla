---------------------------- MODULE LoweringProofs ----------------------------
(***************************************************************************)
(* build_plan implements Timeline, as check() does (CheckProofs): two      *)
(* programs in two languages that promise the same of every clock.  The    *)
(* checker rounds at every element and counts in units of the device, the  *)
(* lowering only at barriers and in units of the program.                  *)
(*                                                                         *)
(* The lowering adds a negative duration as it stands, where the checker   *)
(* rejects the program and leaves the clock, so that theorem is about      *)
(* programs without one.                                                   *)
(*                                                                         *)
(* A QICK plan passes every output what its frame has at that point of the *)
(* program (PlayValuesTheorem).  The plan alone does not show it: what has *)
(* to hold at every element is that the walk carries the frequency and the *)
(* phase due to every frame, also to one no call names yet, and that every *)
(* call so far names a pulse that is defined.                              *)
(*                                                                         *)
(* The updates unused_frame_updates lists are the ones that set no         *)
(* output's values (UnusedUpdatesTheorem), and without them QICK is given  *)
(* the same plan (UnseenTheorem).  Two walks are followed side by side:    *)
(* the one that leaves them out has the same clocks, and the same          *)
(* frequency and phase of every frame whose value an output still uses.    *)
(***************************************************************************)
EXTENDS Lowering, DataProofs, SequenceTheorems

DurationsForward ==
    \A el \in LowerableElements :
        el.kind \in {"play", "capture", "delay"} => el.duration \in Nat

WalkRecord == [clock: Nat, frequency: Int, phase: Int]

(* The clocks count, and nothing is read before the walk begins. *)
LInv ==
    /\ walk \in [Frames -> WalkRecord]
    /\ source \in Seq(LowerableElements)
    /\ read \in Nat
    /\ lowering = "idle" => read = 0

-----------------------------------------------------------------------------
(* The frames, their units and the members of a barrier. *)
LEMMA FrameUnits ==
    ASSUME NEW f \in Frames
    PROVE  /\ ProgramUnit(f) \in Nat \ {0}
           /\ FrameDefs[f].frequency \in Int /\ FrameDefs[f].phase \in Int
<1> DEFINE Declaration == [channel: DOMAIN Channels, frequency: Int, phase: Int]
<1>1. f \in 1 .. Len(FrameDefs) /\ FrameDefs \in Seq(Declaration)
  BY LoweredFrameAssumption, LenProperties DEF Frames
<1>2. FrameDefs[f] \in Declaration
  <2> HIDE DEF Declaration
  <2> QED BY <1>1, ElementOfSeq
<1> QED BY <1>2, LoweredFrameAssumption DEF ChannelOf, ProgramUnit

LEMMA JoiningFrames ==
    ASSUME NEW el \in LowerableElements, el.kind = "barrier"
    PROVE  JoiningSet(el) \subseteq Frames
<1>1. el.frames \in Seq(Frames)
  BY LowerableAssumption
<1>2. CASE el.frames = << >>
  BY <1>2 DEF JoiningSet, Joining
<1>3. CASE el.frames # << >>
  <2>1. \A i \in DOMAIN el.frames : el.frames[i] \in Frames
    BY <1>1
  <2> QED BY <1>3, <2>1 DEF JoiningSet, Joining
<1> QED BY <1>2, <1>3

(* The time of a clock is a natural number of ticks. *)
LEMMA SecondsNatural ==
    ASSUME walk \in [Frames -> WalkRecord], NEW f \in Frames
    PROVE  Seconds(f, walk[f].clock) \in Nat
<1>1. walk[f].clock \in Nat /\ ProgramUnit(f) \in Nat
  BY FrameUnits DEF WalkRecord
<1> QED BY <1>1 DEF Seconds

-----------------------------------------------------------------------------
(* What each kind of element makes of the walk. *)
LEMMA WaitedForward ==
    ASSUME DurationsForward, walk \in [Frames -> WalkRecord],
           NEW el \in LowerableElements, el.kind \in {"play", "capture", "delay"}
    PROVE  /\ el.frame \in Frames
           /\ Waited(walk, el) \in [Frames -> WalkRecord]
           /\ Waited(walk, el)[el.frame].clock >= walk[el.frame].clock
           /\ \A g \in Frames \ {el.frame} : Waited(walk, el)[g] = walk[g]
<1>1. el.frame \in Frames /\ el.duration \in Nat
  BY LowerableAssumption DEF DurationsForward
<1> DEFINE was   == walk[el.frame]
           after == [was EXCEPT !.clock = @ + el.duration]
<1>2. was \in WalkRecord
  BY <1>1
<1>3. after \in WalkRecord /\ after.clock = was.clock + el.duration /\ was.clock \in Nat
  <2> HIDE DEF was
  <2> QED BY <1>1, <1>2 DEF WalkRecord
<1>4. Waited(walk, el) = [walk EXCEPT ![el.frame] = after]
  BY DEF Waited
<1> HIDE DEF after
<1>5. after.clock >= was.clock
  BY <1>1, <1>3
<1> QED BY <1>1, <1>3, <1>4, <1>5

LEMMA UpdatedStands ==
    ASSUME walk \in [Frames -> WalkRecord],
           NEW el \in LowerableElements, el.kind \in Updating
    PROVE  /\ el.frame \in Frames
           /\ QickUpdated(walk, el) \in [Frames -> WalkRecord]
           /\ \A g \in Frames : QickUpdated(walk, el)[g].clock = walk[g].clock
<1>1. el.frame \in Frames
  BY LowerableAssumption DEF Updating
<1> DEFINE was == walk[el.frame]
<1>2. was \in WalkRecord
  BY <1>1
<1>3. CASE el.kind = "shift_phase"
  <2> DEFINE after == [was EXCEPT !.phase = @ + el.phase]
  <2>1. el.phase \in Int
    BY <1>3, LowerableAssumption
  <2>2. after \in WalkRecord /\ after.clock = was.clock
    <3> HIDE DEF was
    <3> QED BY <1>2, <2>1 DEF WalkRecord
  <2>3. QickUpdated(walk, el) = [walk EXCEPT ![el.frame] = after]
    BY <1>3 DEF QickUpdated
  <2> HIDE DEF after
  <2> QED BY <1>1, <2>2, <2>3
<1>4. CASE el.kind # "shift_phase"
  <2> DEFINE after == [was EXCEPT !.frequency = el.frequency]
  <2>1. el.frequency \in Int
    BY <1>4, LowerableAssumption DEF Updating
  <2>2. after \in WalkRecord /\ after.clock = was.clock
    <3> HIDE DEF was
    <3> QED BY <1>2, <2>1 DEF WalkRecord
  <2>3. QickUpdated(walk, el) = [walk EXCEPT ![el.frame] = after]
    BY <1>4 DEF QickUpdated
  <2> HIDE DEF after
  <2> QED BY <1>1, <2>2, <2>3
<1> QED BY <1>3, <1>4

(* Every member of a barrier ends within half a unit of the latest time,   *)
(* and not before time 0.                                                  *)
LEMMA JoinedNearest ==
    ASSUME walk \in [Frames -> WalkRecord], NEW el \in LowerableElements, NEW t \in Nat,
           NEW f \in Frames
    PROVE  /\ JoinedAt(walk, el, t)[f] \in WalkRecord
           /\ f \notin JoiningSet(el) => JoinedAt(walk, el, t)[f] = walk[f]
           /\ f \in JoiningSet(el) =>
                  /\ JoinedAt(walk, el, t)[f].clock = RoundNearestEven(t, ProgramUnit(f))
                  /\ 2 * Magnitude(RoundNearestEven(t, ProgramUnit(f)) * ProgramUnit(f) - t)
                        <= ProgramUnit(f)
<1> DEFINE n     == RoundNearestEven(t, ProgramUnit(f))
           was   == walk[f]
           after == [was EXCEPT !.clock = n]
<1>1. n \in Nat /\ 2 * Magnitude(n * ProgramUnit(f) - t) <= ProgramUnit(f)
  <2>1. ProgramUnit(f) \in Nat \ {0} /\ t \in Int
    BY FrameUnits
  <2>2. n \in Nat
    BY <2>1, RoundNatural
  <2>3. 2 * Magnitude(n * ProgramUnit(f) - t) <= ProgramUnit(f)
    BY <2>1, RoundWithinHalf
  <2> QED BY <2>2, <2>3
<1>2. was \in WalkRecord
  OBVIOUS
<1>3. after \in WalkRecord /\ after.clock = n
  <2> HIDE DEF n, was
  <2> QED BY <1>1, <1>2 DEF WalkRecord
<1>4. JoinedAt(walk, el, t)[f] = IF f \in JoiningSet(el) THEN after ELSE walk[f]
  BY DEF JoinedAt
<1> HIDE DEF after
<1> QED BY <1>1, <1>2, <1>3, <1>4

-----------------------------------------------------------------------------
(* Reading one element adds its barrier, if any, to the alignments. *)
LEMMA OneMoreLowered ==
    ASSUME LInv, read' = read + 1, source' = source
    PROVE  LoweredAlignments' = Append(LoweredAlignments, JoinedBy(source[read + 1]))
<1>1. LoweredAlignments' = [i \in 1 .. read + 1 |-> JoinedBy(source[i])]
  BY DEF LoweredAlignments, JoinedBy, JoiningSet, Joining
<1>2. Len(LoweredAlignments) = read /\ read \in Nat
  BY DEF LoweredAlignments, LInv
<1> QED BY <1>1, <1>2 DEF LoweredAlignments

(* The element read is one of the program. *)
LEMMA NextElement ==
    ASSUME LInv, NEW kinds, NextIs(kinds)
    PROVE  source[read + 1] \in LowerableElements /\ source[read + 1].kind \in kinds
  BY ElementOfSeq DEF LInv, NextIs

(* An element of one frame, or one that touches no clock. *)
LEMMA ElementAdvances ==
    ASSUME LInv, NEW f \in Frames, NEW w \in [Frames -> WalkRecord],
           source[read + 1].kind # "barrier",
           read' = read + 1, source' = source, walk' = w,
           w[f].clock >= walk[f].clock,
           \A g \in Frames \ {f} : w[g].clock = walk[g].clock
    PROVE  LoweredTime!Next
<1>1. LoweredClocks' \in [Frames -> Nat] /\ \A g \in Frames : LoweredClocks'[g] = w[g].clock
  BY DEF LoweredClocks, WalkRecord
<1>2. \A g \in Frames : LoweredClocks[g] = walk[g].clock
  BY DEF LoweredClocks
<1>3. LoweredAlignments' = Append(LoweredAlignments, {})
  BY OneMoreLowered DEF JoinedBy
<1>4. LoweredTime!Advance(f)
  BY <1>1, <1>2, <1>3 DEF LoweredTime!Advance
<1> QED BY <1>4 DEF LoweredTime!Next

(* A barrier. *)
LEMMA LoweredBarrierAligns ==
    ASSUME LInv, LowerBarrier
    PROVE  walk' \in [Frames -> WalkRecord] /\ LoweredTime!Next
<1> DEFINE el == source[read + 1]
           S  == JoiningSet(el)
<1>1. el \in LowerableElements /\ el.kind = "barrier"
  BY NextElement DEF LowerBarrier
<1>2. S \subseteq Frames
  BY <1>1, JoiningFrames
<1>3. PICK t \in JoiningTimes(walk, el) :
         /\ LatestJoining(walk, el, t)
         /\ read' = read + 1 /\ source' = source
         /\ walk' = JoinedAt(walk, el, t)
  BY DEF LowerBarrier, Lowered
<1>4. PICK l \in S : t = Seconds(l, walk[l].clock)
  BY <1>3 DEF JoiningTimes
<1>5. t \in Nat
  BY <1>2, <1>4, SecondsNatural DEF LInv
<1>6. ASSUME NEW f \in Frames
      PROVE  /\ walk'[f] \in WalkRecord
             /\ f \notin S => walk'[f] = walk[f]
             /\ f \in S => 2 * Magnitude(walk'[f].clock * ProgramUnit(f) - t) <= ProgramUnit(f)
  BY <1>1, <1>3, <1>5, <1>6, JoinedNearest DEF LInv
<1>7. walk' \in [Frames -> WalkRecord]
  <2>1. walk' = [f \in Frames |-> walk'[f]]
    BY <1>3 DEF JoinedAt
  <2> QED BY <1>6, <2>1
<1> HIDE DEF el, S
<1>8. /\ LoweredClocks' \in [Frames -> Nat]
      /\ \A f \in Frames : LoweredClocks'[f] = walk'[f].clock /\ LoweredClocks[f] = walk[f].clock
  BY <1>7 DEF LoweredClocks, WalkRecord
<1>9. \A f \in Frames : LoweredUnits[f] = ProgramUnit(f)
  BY DEF LoweredUnits
<1>10. \A f \in S : LoweredTime!Ticks(f, LoweredClocks[f]) <= LoweredTime!Ticks(l, LoweredClocks[l])
  <2>1. \A f \in S : Seconds(f, walk[f].clock) <= t
    BY <1>3 DEF LatestJoining, JoiningTimes, S
  <2>2. \A f \in S : LoweredTime!Ticks(f, LoweredClocks[f]) = Seconds(f, walk[f].clock)
    BY <1>2, <1>8, <1>9 DEF LoweredTime!Ticks, Seconds
  <2> QED BY <1>4, <2>1, <2>2
<1>11. \A f \in S : LoweredTime!Nearest(f, LoweredClocks'[f], LoweredTime!Ticks(l, LoweredClocks[l]))
  <2>1. LoweredTime!Ticks(l, LoweredClocks[l]) = t
    BY <1>2, <1>4, <1>8, <1>9 DEF LoweredTime!Ticks, Seconds
  <2> QED BY <1>2, <1>6, <1>8, <1>9, <2>1
        DEF LoweredTime!Nearest, LoweredTime!Ticks, LoweredTime!Magnitude, Magnitude
<1>12. LoweredAlignments' = Append(LoweredAlignments, S)
  BY <1>1, <1>3, OneMoreLowered DEF JoinedBy, el, S
<1>13. LoweredTime!Align(S)
  BY <1>4, <1>6, <1>8, <1>10, <1>11, <1>12 DEF LoweredTime!Align
<1> QED BY <1>2, <1>7, <1>13 DEF LoweredTime!Next

-----------------------------------------------------------------------------
(* Every step keeps the invariant and is a step of Timeline or none. *)
LEMMA LoweredStands ==
    ASSUME UNCHANGED << source, read, walk >>
    PROVE  UNCHANGED << LoweredClocks, LoweredAlignments >>
  BY DEF LoweredClocks, LoweredAlignments, JoinedBy, JoiningSet, Joining

LEMMA LowerInit == LInit => LInv /\ LoweredTime!Init
<1> SUFFICES ASSUME LInit PROVE LInv /\ LoweredTime!Init
  OBVIOUS
<1>1. walk \in [Frames -> WalkRecord]
  <2>1. \A f \in Frames : FrameDefs[f].frequency \in Int /\ FrameDefs[f].phase \in Int
    BY FrameUnits
  <2> QED BY <2>1 DEF LInit, InitialWalk, WalkRecord
<1>2. LoweredTime!Init
  BY DEF LInit, InitialWalk, LoweredTime!Init, LoweredClocks, LoweredAlignments
<1> QED BY <1>1, <1>2 DEF LInv, LInit

(* One step of the walk. *)
LEMMA ElementLowered ==
    ASSUME DurationsForward, LInv, LowerStep
    PROVE  LInv' /\ (LoweredTime!Next \/ UNCHANGED << LoweredClocks, LoweredAlignments >>)
<1> DEFINE el == source[read + 1]
<1>1. ASSUME UNCHANGED << source, read, walk >>, lowering' # "idle"
      PROVE  LInv' /\ UNCHANGED << LoweredClocks, LoweredAlignments >>
  BY <1>1, LoweredStands DEF LInv
<1>2. ASSUME NotLowerable
      PROVE  LInv' /\ UNCHANGED << LoweredClocks, LoweredAlignments >>
  BY <1>1, <1>2 DEF NotLowerable
<1>3. ASSUME NEW w \in [Frames -> WalkRecord], NEW q, Lowered(w, q), lowering = "walking"
      PROVE  LInv' /\ read' = read + 1 /\ source' = source /\ walk' = w
  BY <1>3 DEF Lowered, LInv
<1>4. CASE LowerBarrier
  <2>1. walk' \in [Frames -> WalkRecord] /\ LoweredTime!Next
    BY <1>4, LoweredBarrierAligns
  <2>2. read' = read + 1 /\ source' = source /\ lowering' = "walking"
    BY <1>4 DEF LowerBarrier, Lowered, NextIs
  <2> QED BY <2>1, <2>2 DEF LInv
<1>5. ASSUME NEW kind \in {"play", "capture", "delay"}, NextIs({kind}), NEW q,
             Lowered(Waited(walk, el), q)
      PROVE  LInv' /\ LoweredTime!Next
  <2>1. el \in LowerableElements /\ el.kind = kind
    BY <1>5, NextElement
  <2>2. /\ el.frame \in Frames
        /\ Waited(walk, el) \in [Frames -> WalkRecord]
        /\ Waited(walk, el)[el.frame].clock >= walk[el.frame].clock
        /\ \A g \in Frames \ {el.frame} : Waited(walk, el)[g] = walk[g]
    BY <2>1, WaitedForward DEF LInv
  <2>3. LInv' /\ read' = read + 1 /\ source' = source /\ walk' = Waited(walk, el)
    BY <1>3, <1>5, <2>2 DEF NextIs
  <2> QED BY <2>1, <2>2, <2>3, ElementAdvances
<1>6. CASE LowerDelay
  BY <1>5, <1>6 DEF LowerDelay
<1>7. CASE LowerCapture
  BY <1>2, <1>5, <1>7 DEF LowerCapture
<1>8. CASE LowerPlay
  BY <1>2, <1>5, <1>8 DEF LowerPlay
<1>9. CASE LowerUpdate
  <2>1. el \in LowerableElements /\ el.kind \in Updating /\ lowering = "walking"
    BY <1>9, NextElement DEF LowerUpdate, NextIs
  <2>2. /\ el.frame \in Frames
        /\ QickUpdated(walk, el) \in [Frames -> WalkRecord]
        /\ \A g \in Frames : QickUpdated(walk, el)[g].clock = walk[g].clock
    BY <2>1, UpdatedStands DEF LInv
  <2>3. PICK w \in {walk, QickUpdated(walk, el)} :
           read' = read + 1 /\ source' = source /\ walk' = w /\ lowering' = lowering
    BY <1>9 DEF LowerUpdate, Lowered
  <2>4. w \in [Frames -> WalkRecord] /\ \A g \in Frames : w[g].clock = walk[g].clock
    BY <2>2, <2>3 DEF LInv
  <2>5. walk[el.frame].clock \in Nat
    BY <2>2 DEF LInv, WalkRecord
  <2>6. LoweredTime!Next
    BY <2>1, <2>2, <2>3, <2>4, <2>5, ElementAdvances DEF Updating
  <2> QED BY <2>1, <2>3, <2>4, <2>6 DEF LInv
<1>10. CASE EndLowering
  BY <1>1, <1>2, <1>10 DEF EndLowering
<1> QED BY <1>4, <1>6, <1>7, <1>8, <1>9, <1>10 DEF LowerStep

LEMMA LoweringStep ==
    ASSUME DurationsForward, LInv, [LNext]_lowerVars
    PROVE  LInv' /\ [LoweredTime!Next]_<< LoweredClocks, LoweredAlignments >>
<1>1. CASE LowerStep
  BY <1>1, ElementLowered
<1>2. ASSUME NEW p \in Seq(LowerableElements), BeginLowering(p)
      PROVE  LInv' /\ UNCHANGED << LoweredClocks, LoweredAlignments >>
  <2>1. CASE NotLowerable
    BY <2>1, LoweredStands DEF NotLowerable, LInv
  <2>2. CASE ~NotLowerable
    <3>1. /\ source' = p /\ read' = read /\ walk' = walk /\ lowering' = "walking"
          /\ read = 0
      BY <1>2, <2>2 DEF BeginLowering, LInv
    <3>2. LoweredAlignments = << >> /\ LoweredAlignments' = << >>
      BY <3>1 DEF LoweredAlignments
    <3>3. LoweredClocks' = LoweredClocks
      BY <3>1 DEF LoweredClocks
    <3> QED BY <1>2, <3>1, <3>2, <3>3 DEF LInv
  <2> QED BY <2>1, <2>2
<1>3. CASE UNCHANGED lowerVars
  BY <1>3, LoweredStands DEF lowerVars, LInv
<1> QED BY <1>1, <1>2, <1>3 DEF LNext

(* The lowering keeps time as Timeline says, whatever the channels, the    *)
(* frames and the program, of either library: a play, a capture or a delay *)
(* moves only the clock of its frame and never back, and a barrier brings  *)
(* every member to the latest time, within half a unit of the program.     *)
THEOREM LoweringTime == ASSUME DurationsForward PROVE LSpec => LoweringKeepsTime
<1>1. LInit => LInv /\ LoweredTime!Init
  BY LowerInit
<1>2. LInv /\ [LNext]_lowerVars =>
          LInv' /\ [LoweredTime!Next]_<< LoweredClocks, LoweredAlignments >>
  BY LoweringStep
<1> QED BY <1>1, <1>2, PTL DEF LSpec, LoweringKeepsTime, LoweredTime!Spec
-----------------------------------------------------------------------------
(* What a QICK plan is passed.  The calls are a list, of whatever records. *)
Listed(s) == \E S : s \in Seq(S)

LEMMA ListedAppend ==
    ASSUME NEW s, NEW x, Listed(s)
    PROVE  /\ Listed(Append(s, x))
           /\ Len(s) \in Nat /\ DOMAIN s = 1 .. Len(s)
           /\ Len(Append(s, x)) = Len(s) + 1
           /\ DOMAIN Append(s, x) = 1 .. Len(s) + 1
           /\ \A i \in 1 .. Len(s) : Append(s, x)[i] = s[i]
           /\ Append(s, x)[Len(s) + 1] = x
<1>1. PICK S : s \in Seq(S)
  BY DEF Listed
<1>2. s \in Seq(S \cup {x})
  <2>1. Len(s) \in Nat /\ s \in [1 .. Len(s) -> S]
    BY <1>1, LenProperties
  <2> QED BY <2>1
<1>3. Append(s, x) \in Seq(S \cup {x})
  BY <1>2, AppendProperties
<1> QED BY <1>2, <1>3, AppendProperties, LenProperties DEF Listed

(* Reading one element: the updates among those read, and what a frame is  *)
(* due after it.                                                           *)
LEMMA UpdatesGrow ==
    ASSUME NEW p, NEW f, NEW m \in Nat, NEW kind
    PROVE  /\ UpdatesAmong(p, f, m, kind) \subseteq 1 .. m
           /\ UpdatesAmong(p, f, m + 1, kind)
                  = UpdatesAmong(p, f, m, kind)
                    \cup IF p[m + 1].kind = kind /\ p[m + 1].frame = f THEN {m + 1} ELSE {}
<1>1. 1 .. m + 1 = (1 .. m) \cup {m + 1}
  OBVIOUS
<1> QED BY <1>1 DEF UpdatesAmong

LEMMA FrequencyGrows ==
    ASSUME NEW p, NEW f, NEW m \in Nat
    PROVE  FrequencyDue(p, f, m + 1)
               = IF p[m + 1].kind = "set_frequency" /\ p[m + 1].frame = f
                 THEN p[m + 1].frequency ELSE FrequencyDue(p, f, m)
<1> DEFINE S == UpdatesAmong(p, f, m, "set_frequency")
           D == UpdatesAmong(p, f, m + 1, "set_frequency")
           sets == p[m + 1].kind = "set_frequency" /\ p[m + 1].frame = f
<1>1. S \subseteq 1 .. m /\ D = S \cup IF sets THEN {m + 1} ELSE {}
  BY UpdatesGrow
<1> HIDE DEF S, D
<1>2. CASE sets
  <2>0. D = S \cup {m + 1}
    BY <1>1, <1>2
  <2>1. D \in SUBSET Int /\ m + 1 \in D /\ \A y \in D : y <= m + 1
    BY <1>1, <2>0
  <2>2. Max(D) = m + 1
    BY <2>1, MaxIs
  <2> QED BY <1>2, <2>1, <2>2 DEF FrequencyDue, D
<1>3. CASE ~sets
  <2>1. D = S
    BY <1>1, <1>3
  <2> QED BY <1>3, <2>1 DEF FrequencyDue, D, S
<1> QED BY <1>2, <1>3

(* A shift of the phase by a member of the program is an integer. *)
LEMMA PhaseTurns ==
    ASSUME NEW p \in Seq(LowerableElements), NEW f \in Frames, NEW m \in Nat, m < Len(p)
    PROVE  PhaseDue(p, f, m + 1)
               = IF p[m + 1].kind = "shift_phase" /\ p[m + 1].frame = f
                 THEN PhaseDue(p, f, m) + p[m + 1].phase ELSE PhaseDue(p, f, m)
<1> DEFINE S == UpdatesAmong(p, f, m, "shift_phase")
           D == UpdatesAmong(p, f, m + 1, "shift_phase")
           g == [k \in S |-> p[k].phase]
           h == [k \in D |-> p[k].phase]
           shifts == p[m + 1].kind = "shift_phase" /\ p[m + 1].frame = f
<1>1. S \subseteq 1 .. m /\ D = S \cup IF shifts THEN {m + 1} ELSE {}
  BY UpdatesGrow
<1>2. Len(p) \in Nat /\ \A k \in 1 .. Len(p) : p[k] \in LowerableElements
  BY ElementOfSeq
<1>3. \A k \in D : p[k].phase \in Int
  <2>1. ASSUME NEW k \in D PROVE p[k] \in LowerableElements /\ p[k].kind = "shift_phase"
    BY <1>2 DEF UpdatesAmong
  <2> QED BY <2>1, LowerableAssumption
<1>4. FrameDefs[f].phase \in Int
  BY FrameUnits
<1>5. PhaseDue(p, f, m) = FrameDefs[f].phase + SumFunction(g)
      /\ PhaseDue(p, f, m + 1) = FrameDefs[f].phase + SumFunction(h)
  BY DEF PhaseDue
<1> HIDE DEF S, D
<1>6. CASE shifts
  <2>1. IsFiniteSet(S)
    <3>1. IsFiniteSet(1 .. m)
      BY FS_Interval
    <3> QED BY <1>1, <3>1, FS_Subset
  <2>2. D = S \cup {m + 1} /\ m + 1 \notin S
    BY <1>1, <1>6
  <2>3. g \in [S -> Int] /\ h \in [S \cup {m + 1} -> Int] /\ \A k \in S : h[k] = g[k]
    BY <1>3, <2>2
  <2>4. h[m + 1] = p[m + 1].phase /\ h[m + 1] \in Int
    BY <1>3, <2>2
  <2> HIDE DEF g, h
  <2>5. OneMoreTerm(S, m + 1, g, h)
    BY <2>1, <2>2, <2>3 DEF OneMoreTerm
  <2>6. SumFunction(g) \in Int /\ SumFunction(h) = SumFunction(g) + h[m + 1]
    BY <2>5, SumGrows
  <2> QED BY <1>4, <1>5, <1>6, <2>4, <2>6
<1>7. CASE ~shifts
  <2>1. D = S
    BY <1>1, <1>7
  <2> QED BY <1>5, <1>7, <2>1
<1> QED BY <1>6, <1>7

(* The walk carries the frequency and the phase of every frame. *)
Carries(p, w, m) ==
    /\ DOMAIN w = Frames
    /\ \A f \in Frames :
          /\ DOMAIN w[f] = {"clock", "frequency", "phase"}
          /\ w[f].frequency = FrequencyDue(p, f, m)
          /\ w[f].phase = PhaseDue(p, f, m)

(* An element that updates nothing leaves them. *)
StandsAt(w, v) ==
    /\ DOMAIN v = Frames
    /\ \A f \in Frames : /\ DOMAIN v[f] = {"clock", "frequency", "phase"}
                         /\ v[f].frequency = w[f].frequency
                         /\ v[f].phase = w[f].phase

LEMMA CarriesOn ==
    ASSUME NEW p \in Seq(LowerableElements), NEW m \in Nat, m < Len(p),
           p[m + 1].kind \notin Updating, NEW w, NEW v, Carries(p, w, m), StandsAt(w, v)
    PROVE  Carries(p, v, m + 1)
<1> SUFFICES ASSUME NEW f \in Frames
             PROVE  /\ FrequencyDue(p, f, m + 1) = FrequencyDue(p, f, m)
                    /\ PhaseDue(p, f, m + 1) = PhaseDue(p, f, m)
  BY DEF Carries, StandsAt
<1>1. p[m + 1].kind # "set_frequency" /\ p[m + 1].kind # "shift_phase"
  BY DEF Updating
<1> QED BY <1>1, FrequencyGrows, PhaseTurns

(* What a wait, a barrier and an update make of a walk: a lemma for each   *)
(* says what becomes of every field of every frame.                        *)
WalkFields(w) ==
    DOMAIN w = Frames /\ \A f \in Frames : DOMAIN w[f] = {"clock", "frequency", "phase"}

LEMMA WaitedFields ==
    ASSUME NEW el \in LowerableElements, el.kind \in {"play", "capture", "delay"},
           NEW w, WalkFields(w)
    PROVE  /\ WalkFields(Waited(w, el)) /\ StandsAt(w, Waited(w, el))
           /\ \A f \in Frames :
                 Waited(w, el)[f].clock
                     = IF f = el.frame THEN w[f].clock + el.duration ELSE w[f].clock
<1> DEFINE g == el.frame
           after == [w[g] EXCEPT !.clock = @ + el.duration]
           v  == Waited(w, el)
<1>1. g \in Frames
  BY LowerableAssumption
<1>2. DOMAIN w = Frames /\ \A f \in Frames : DOMAIN w[f] = {"clock", "frequency", "phase"}
  BY DEF WalkFields
<1>3. /\ DOMAIN after = {"clock", "frequency", "phase"}
      /\ after.frequency = w[g].frequency /\ after.phase = w[g].phase
      /\ after.clock = w[g].clock + el.duration
  BY <1>1, <1>2
<1>4. v = [w EXCEPT ![g] = after]
  BY DEF Waited
<1> HIDE DEF after
<1>5. v[g] = after /\ DOMAIN v = Frames /\ \A f \in Frames \ {g} : v[f] = w[f]
  BY <1>1, <1>2, <1>4
<1> HIDE DEF v, g
<1>6. WalkFields(v) /\ StandsAt(w, v)
  BY <1>1, <1>2, <1>3, <1>5 DEF StandsAt, WalkFields
<1>7. \A f \in Frames : v[f].clock = IF f = g THEN w[f].clock + el.duration ELSE w[f].clock
  BY <1>1, <1>3, <1>5
<1> QED BY <1>6, <1>7 DEF v, g

JoinMoves(w, x, el, t) ==
    /\ WalkFields(x) /\ StandsAt(w, x)
    /\ \A f \in Frames :
          x[f].clock = IF f \in JoiningSet(el) THEN RoundNearestEven(t, ProgramUnit(f))
                       ELSE w[f].clock

LEMMA JoinedFields ==
    ASSUME NEW el, NEW w, WalkFields(w), NEW t
    PROVE  JoinMoves(w, JoinedAt(w, el, t), el, t)
<1> DEFINE v == JoinedAt(w, el, t)
<1>1. ASSUME NEW f \in Frames
      PROVE  /\ DOMAIN v[f] = {"clock", "frequency", "phase"}
             /\ v[f].frequency = w[f].frequency /\ v[f].phase = w[f].phase
             /\ v[f].clock = IF f \in JoiningSet(el) THEN RoundNearestEven(t, ProgramUnit(f))
                             ELSE w[f].clock
  <2> DEFINE n     == RoundNearestEven(t, ProgramUnit(f))
             after == [w[f] EXCEPT !.clock = n]
  <2>1. DOMAIN w[f] = {"clock", "frequency", "phase"}
    BY DEF WalkFields
  <2>2. /\ DOMAIN after = {"clock", "frequency", "phase"} /\ after.clock = n
        /\ after.frequency = w[f].frequency /\ after.phase = w[f].phase
    <3> HIDE DEF n
    <3> QED BY <2>1
  <2>3. v[f] = IF f \in JoiningSet(el) THEN after ELSE w[f]
    BY DEF JoinedAt
  <2> HIDE DEF after, v, n
  <2> QED BY <2>1, <2>2, <2>3 DEF n
<1>2. DOMAIN v = Frames
  BY DEF JoinedAt
<1> HIDE DEF v
<1>3. WalkFields(v) /\ StandsAt(w, v)
  BY <1>1, <1>2 DEF StandsAt, WalkFields
<1> QED BY <1>1, <1>3 DEF v, JoinMoves

LEMMA UpdatedFields ==
    ASSUME NEW el \in LowerableElements, el.kind \in Updating, NEW w, WalkFields(w)
    PROVE  LET v == QickUpdated(w, el)
           IN  /\ WalkFields(v)
               /\ \A f \in Frames :
                     /\ v[f].clock = w[f].clock
                     /\ v[f].frequency = IF f = el.frame /\ el.kind = "set_frequency"
                                         THEN el.frequency ELSE w[f].frequency
                     /\ v[f].phase = IF f = el.frame /\ el.kind = "shift_phase"
                                     THEN w[f].phase + el.phase ELSE w[f].phase
<1> DEFINE g == el.frame
           v == QickUpdated(w, el)
<1>1. g \in Frames
  BY LowerableAssumption DEF Updating
<1>2. DOMAIN w = Frames /\ \A f \in Frames : DOMAIN w[f] = {"clock", "frequency", "phase"}
  BY DEF WalkFields
<1>3. CASE el.kind = "shift_phase"
  <2> DEFINE after == [w[g] EXCEPT !.phase = @ + el.phase]
  <2>1. /\ DOMAIN after = {"clock", "frequency", "phase"} /\ after.clock = w[g].clock
        /\ after.frequency = w[g].frequency /\ after.phase = w[g].phase + el.phase
    BY <1>1, <1>2
  <2>2. v = [w EXCEPT ![g] = after]
    BY <1>3 DEF QickUpdated
  <2> HIDE DEF after
  <2>3. v[g] = after /\ DOMAIN v = Frames /\ \A f \in Frames \ {g} : v[f] = w[f]
    BY <1>1, <1>2, <2>2
  <2> HIDE DEF v
  <2>4. WalkFields(v)
    BY <1>1, <1>2, <2>1, <2>3 DEF WalkFields
  <2> QED BY <1>1, <1>3, <2>1, <2>3, <2>4 DEF v
<1>4. CASE el.kind = "set_frequency"
  <2> DEFINE after == [w[g] EXCEPT !.frequency = el.frequency]
  <2>1. /\ DOMAIN after = {"clock", "frequency", "phase"} /\ after.clock = w[g].clock
        /\ after.frequency = el.frequency /\ after.phase = w[g].phase
    BY <1>1, <1>2
  <2>2. v = [w EXCEPT ![g] = after]
    BY <1>4 DEF QickUpdated
  <2> HIDE DEF after
  <2>3. v[g] = after /\ DOMAIN v = Frames /\ \A f \in Frames \ {g} : v[f] = w[f]
    BY <1>1, <1>2, <2>2
  <2> HIDE DEF v
  <2>4. WalkFields(v)
    BY <1>1, <1>2, <2>1, <2>3 DEF WalkFields
  <2> QED BY <1>1, <1>4, <2>1, <2>3, <2>4 DEF v
<1> QED BY <1>3, <1>4 DEF Updating

LEMMA CarriesUpdate ==
    ASSUME NEW p \in Seq(LowerableElements), NEW m \in Nat, m < Len(p),
           p[m + 1].kind \in Updating, NEW w, Carries(p, w, m)
    PROVE  Carries(p, QickUpdated(w, p[m + 1]), m + 1)
<1> DEFINE el == p[m + 1]
           v  == QickUpdated(w, el)
<1>1. el \in LowerableElements
  BY ElementOfSeq
<1>2. WalkFields(w)
  BY DEF Carries, WalkFields
<1>3. /\ WalkFields(v)
      /\ \A f \in Frames :
            /\ v[f].clock = w[f].clock
            /\ v[f].frequency = IF f = el.frame /\ el.kind = "set_frequency"
                                THEN el.frequency ELSE w[f].frequency
            /\ v[f].phase = IF f = el.frame /\ el.kind = "shift_phase"
                            THEN w[f].phase + el.phase ELSE w[f].phase
  BY <1>1, <1>2, UpdatedFields
<1>4. ASSUME NEW f \in Frames
      PROVE  /\ w[f].frequency = FrequencyDue(p, f, m)
             /\ w[f].phase = PhaseDue(p, f, m)
             /\ FrequencyDue(p, f, m + 1)
                    = IF el.kind = "set_frequency" /\ el.frame = f THEN el.frequency
                      ELSE FrequencyDue(p, f, m)
             /\ PhaseDue(p, f, m + 1)
                    = IF el.kind = "shift_phase" /\ el.frame = f
                      THEN PhaseDue(p, f, m) + el.phase ELSE PhaseDue(p, f, m)
  BY <1>4, FrequencyGrows, PhaseTurns DEF Carries
<1> HIDE DEF el, v
<1>5. Carries(p, v, m + 1)
  BY <1>3, <1>4 DEF Carries, WalkFields
<1> QED BY <1>5 DEF v, el

(* A delay, a play and a capture move a clock, a barrier several. *)
LEMMA WaitedCarries ==
    ASSUME NEW p \in Seq(LowerableElements), NEW m \in Nat, m < Len(p),
           p[m + 1].kind \in {"play", "capture", "delay"}, NEW w, Carries(p, w, m)
    PROVE  Carries(p, Waited(w, p[m + 1]), m + 1)
<1>1. p[m + 1] \in LowerableElements /\ p[m + 1].kind \notin Updating
  BY ElementOfSeq DEF Updating
<1>2. StandsAt(w, Waited(w, p[m + 1]))
  BY <1>1, WaitedFields DEF Carries, WalkFields
<1> QED BY <1>1, <1>2, CarriesOn

LEMMA JoinedCarries ==
    ASSUME NEW p \in Seq(LowerableElements), NEW m \in Nat, m < Len(p),
           p[m + 1].kind = "barrier", NEW w, Carries(p, w, m), NEW t
    PROVE  Carries(p, JoinedAt(w, p[m + 1], t), m + 1)
<1>1. p[m + 1].kind \notin Updating
  BY DEF Updating
<1>2. WalkFields(w)
  BY DEF Carries, WalkFields
<1>3. StandsAt(w, JoinedAt(w, p[m + 1], t))
  BY <1>2, JoinedFields DEF JoinMoves
<1> QED BY <1>1, <1>3, CarriesOn

LEMMA CarriesFirst ==
    ASSUME NEW p PROVE Carries(p, InitialWalk, 0)
<1> SUFFICES ASSUME NEW f \in Frames
             PROVE  /\ FrequencyDue(p, f, 0) = FrameDefs[f].frequency
                    /\ PhaseDue(p, f, 0) = FrameDefs[f].phase
  BY DEF Carries, InitialWalk
<1>1. \A kind : UpdatesAmong(p, f, 0, kind) = {}
  BY DEF UpdatesAmong
<1>2. FrequencyDue(p, f, 0) = FrameDefs[f].frequency
  BY <1>1 DEF FrequencyDue
<1> DEFINE none == [k \in {} |-> p[k].phase]
<1>3. SumFunction(none) = 0
  <2>1. DOMAIN none = {}
    OBVIOUS
  <2>2. SumFunction(none) = SumFunctionOnSet(none, {})
    BY <2>1, Zenon DEF SumFunction
  <2> QED BY <2>2, SumEmpty
<1>4. FrameDefs[f].phase \in Int
  BY FrameUnits
<1>5. PhaseDue(p, f, 0) = FrameDefs[f].phase + SumFunction(none)
  BY <1>1 DEF PhaseDue
<1> QED BY <1>2, <1>3, <1>4, <1>5

-----------------------------------------------------------------------------
(* The calls: one for every output among the first m elements, each of a   *)
(* pulse that is defined and is passed what it is due.                     *)
Called(p, q, i) ==
    /\ Cardinality(OutputsAmong(p, i)) \in DOMAIN q.outputs
    /\ q.outputs[Cardinality(OutputsAmong(p, i))].pulse \in DOMAIN q.pulses
    /\ KeepsItsValues(p, q, i)

KeepsCalls(p, q, m) ==
    /\ DOMAIN q = {"lost", "roundings", "envelopes", "pulses", "outputs"}
    /\ Listed(q.pulses) /\ Listed(q.outputs)
    /\ Len(q.outputs) = Cardinality(OutputsAmong(p, m))
    /\ \A i \in OutputsAmong(p, m) : Called(p, q, i)

LEMMA OutputsGrow ==
    ASSUME NEW p, NEW m \in Nat
    PROVE  /\ OutputsAmong(p, m) \subseteq 1 .. m
           /\ OutputsAmong(p, m + 1)
                  = OutputsAmong(p, m) \cup IF p[m + 1].kind \in Outputting THEN {m + 1} ELSE {}
           /\ Cardinality(OutputsAmong(p, m)) \in Nat
           /\ p[m + 1].kind \in Outputting =>
                  Cardinality(OutputsAmong(p, m + 1)) = Cardinality(OutputsAmong(p, m)) + 1
<1> DEFINE S == OutputsAmong(p, m)
           D == OutputsAmong(p, m + 1)
<1>1. 1 .. m + 1 = (1 .. m) \cup {m + 1}
  OBVIOUS
<1>2. S \subseteq 1 .. m /\ D = S \cup IF p[m + 1].kind \in Outputting THEN {m + 1} ELSE {}
  BY <1>1 DEF OutputsAmong
<1>3. IsFiniteSet(S) /\ Cardinality(S) \in Nat
  <2>1. IsFiniteSet(1 .. m)
    BY FS_Interval
  <2>2. S \subseteq 1 .. m
    BY <1>2
  <2> HIDE DEF S
  <2> QED BY <2>1, <2>2, FS_Subset, FS_CardinalityType
<1> HIDE DEF S, D
<1>4. ASSUME p[m + 1].kind \in Outputting PROVE Cardinality(D) = Cardinality(S) + 1
  <2>1. D = S \cup {m + 1} /\ m + 1 \notin S
    BY <1>2, <1>4
  <2> QED BY <1>3, <2>1, FS_AddElement
<1> QED BY <1>2, <1>3, <1>4 DEF S, D

(* Elements that call nothing. *)
LEMMA CallsStand ==
    ASSUME NEW p, NEW m \in Nat, NEW q, NEW r, KeepsCalls(p, q, m),
           p[m + 1].kind \notin Outputting,
           DOMAIN r = DOMAIN q, r.pulses = q.pulses, r.outputs = q.outputs
    PROVE  KeepsCalls(p, r, m + 1)
<1>1. OutputsAmong(p, m + 1) = OutputsAmong(p, m)
  <2>1. OutputsAmong(p, m + 1) = OutputsAmong(p, m) \cup {}
    BY OutputsGrow
  <2> QED BY <2>1
<1>2. \A i \in OutputsAmong(p, m) : Called(p, r, i)
  BY DEF KeepsCalls, Called, KeepsItsValues
<1> QED BY <1>1, <1>2 DEF KeepsCalls

(* A play or a capture: one more call, of a pulse that was there or is     *)
(* defined with it.                                                        *)
MoreCalls(q, r, o) ==
    /\ DOMAIN r = DOMAIN q
    /\ Listed(r.pulses)
    /\ \A n \in DOMAIN q.pulses : n \in DOMAIN r.pulses /\ r.pulses[n] = q.pulses[n]
    /\ r.outputs = Append(q.outputs, o)
    /\ o.pulse \in DOMAIN r.pulses

LEMMA CallsGrow ==
    ASSUME NEW p, NEW m \in Nat, NEW q, NEW r, NEW o, KeepsCalls(p, q, m),
           p[m + 1].kind \in Outputting, MoreCalls(q, r, o),
           PassesItsValues(p, m + 1, o.channel, r.pulses[o.pulse].passed)
    PROVE  KeepsCalls(p, r, m + 1)
<1> DEFINE N == Cardinality(OutputsAmong(p, m))
           M == Cardinality(OutputsAmong(p, m + 1))
<1>1. /\ OutputsAmong(p, m) \subseteq 1 .. m
      /\ OutputsAmong(p, m + 1) = OutputsAmong(p, m) \cup {m + 1}
      /\ N \in Nat /\ M = N + 1
  BY OutputsGrow
<1> HIDE DEF N, M
<1>2. /\ Listed(r.outputs)
      /\ DOMAIN q.outputs = 1 .. N /\ DOMAIN r.outputs = 1 .. N + 1
      /\ Len(r.outputs) = N + 1
      /\ \A n \in 1 .. N : r.outputs[n] = q.outputs[n]
      /\ r.outputs[N + 1] = o
  <2>1. Listed(q.outputs) /\ Len(q.outputs) = N /\ r.outputs = Append(q.outputs, o)
    BY DEF KeepsCalls, MoreCalls, N
  <2> QED BY <2>1, ListedAppend
<1>3. ASSUME NEW i \in OutputsAmong(p, m) PROVE Called(p, r, i)
  <2> DEFINE n == Cardinality(OutputsAmong(p, i))
  <2>1. /\ n \in DOMAIN q.outputs /\ q.outputs[n].pulse \in DOMAIN q.pulses
        /\ PassesItsValues(p, i, q.outputs[n].channel, q.pulses[q.outputs[n].pulse].passed)
    BY <1>3 DEF KeepsCalls, Called, KeepsItsValues
  <2> HIDE DEF n
  <2>2. n \in DOMAIN r.outputs /\ r.outputs[n] = q.outputs[n]
    BY <1>1, <1>2, <2>1
  <2>3. /\ r.outputs[n].pulse \in DOMAIN r.pulses
        /\ r.pulses[r.outputs[n].pulse] = q.pulses[q.outputs[n].pulse]
    BY <2>1, <2>2 DEF MoreCalls
  <2> QED BY <2>1, <2>2, <2>3 DEF Called, KeepsItsValues, n
<1>4. Called(p, r, m + 1)
  <2>1. M \in DOMAIN r.outputs /\ r.outputs[M] = o
    BY <1>1, <1>2
  <2>2. o.pulse \in DOMAIN r.pulses
    BY DEF MoreCalls
  <2> QED BY <2>1, <2>2 DEF Called, KeepsItsValues, M
<1>5. /\ DOMAIN r = {"lost", "roundings", "envelopes", "pulses", "outputs"} /\ Listed(r.pulses)
      /\ Len(r.outputs) = M
  BY <1>1, <1>2 DEF KeepsCalls, MoreCalls
<1> QED BY <1>1, <1>2, <1>3, <1>4, <1>5 DEF KeepsCalls, M

(* The record of a plan with its calls changed. *)
PlanFields == {"lost", "roundings", "envelopes", "pulses", "outputs"}

LEMMA PlanChanges ==
    ASSUME NEW q, DOMAIN q = PlanFields, NEW x
    PROVE  /\ \A l : /\ DOMAIN WithLost(q, l) = PlanFields
                     /\ WithLost(q, l).pulses = q.pulses /\ WithLost(q, l).outputs = q.outputs
           /\ \A el, t, e :
                 /\ DOMAIN WithRoundings(q, el, t, e) = PlanFields
                 /\ WithRoundings(q, el, t, e).pulses = q.pulses
                 /\ WithRoundings(q, el, t, e).outputs = q.outputs
           /\ LET r == [q EXCEPT !.envelopes = x]
              IN  DOMAIN r = PlanFields /\ r.pulses = q.pulses /\ r.outputs = q.outputs
  BY DEF PlanFields, WithLost, WithRoundings

(* What a pulse is passed, of a play and of a capture. *)
LEMMA PlayPasses ==
    ASSUME NEW p \in Seq(LowerableElements), NEW m \in Nat, m < Len(p),
           p[m + 1].kind = "play", NEW w, Carries(p, w, m)
    PROVE  PassesItsValues(p, m + 1, PlayPulse(w, p[m + 1]).channel, PlayPulse(w, p[m + 1]).passed)
<1> DEFINE el == p[m + 1]
           f  == el.frame
           asked  == PlayAsked(w, el)
           passed == [k \in DOMAIN asked |-> AsFloat(asked[k])]
<1>1. el \in LowerableElements /\ f \in Frames
  <2>1. el \in LowerableElements
    BY ElementOfSeq
  <2> QED BY <2>1, LowerableAssumption
<1>2. /\ w[f].frequency = FrequencyDue(p, f, m + 1)
      /\ w[f].phase = PhaseDue(p, f, m + 1)
  BY <1>1, FrequencyGrows, PhaseTurns DEF Carries
<1>3. PlayPulse(w, el).channel = ChannelOf(f) /\ PlayPulse(w, el).passed = passed
  BY DEF PlayPulse, Pulse
<1>4. /\ "freq" \in DOMAIN asked => asked.freq = w[f].frequency
      /\ "phase" \in DOMAIN asked => asked.phase = w[f].phase
      /\ "gain" \in DOMAIN asked => asked.gain = Waveforms[el.waveform].amplitude
      /\ "total_length" \in DOMAIN asked => asked.total_length = Seconds(f, el.duration)
  BY DEF PlayAsked
<1> HIDE DEF el, f, asked
<1>5. /\ "freq" \in DOMAIN passed => passed.freq = AsFloat(w[f].frequency)
      /\ "phase" \in DOMAIN passed => passed.phase = AsFloat(w[f].phase)
      /\ "gain" \in DOMAIN passed => passed.gain = AsFloat(Waveforms[el.waveform].amplitude)
      /\ "total_length" \in DOMAIN passed => passed.total_length = AsFloat(Seconds(f, el.duration))
  BY <1>4
<1> HIDE DEF passed
<1> QED BY <1>2, <1>3, <1>5 DEF PassesItsValues, el, f

LEMMA CapturePasses ==
    ASSUME NEW p \in Seq(LowerableElements), NEW m \in Nat, m < Len(p),
           p[m + 1].kind = "capture", NEW w, Carries(p, w, m), NEW e
    PROVE  PassesItsValues(p, m + 1, ChannelOf(p[m + 1].frame), CapturePulse(w, p[m + 1], e).passed)
<1> DEFINE el == p[m + 1]
           f  == el.frame
           asked  == [freq |-> w[f].frequency, total_length |-> Seconds(f, el.duration)]
           passed == [k \in DOMAIN asked |-> AsFloat(asked[k])]
<1>1. el \in LowerableElements /\ f \in Frames
  <2>1. el \in LowerableElements
    BY ElementOfSeq
  <2> QED BY <2>1, LowerableAssumption
<1>2. w[f].frequency = FrequencyDue(p, f, m + 1)
  BY <1>1, FrequencyGrows DEF Carries
<1>3. CapturePulse(w, el, e).passed = passed
  BY DEF CapturePulse, Pulse
<1>4. DOMAIN asked = {"freq", "total_length"} /\ asked.freq = w[f].frequency
      /\ asked.total_length = Seconds(f, el.duration)
  OBVIOUS
<1> HIDE DEF el, f, asked
<1>5. /\ DOMAIN passed = {"freq", "total_length"}
      /\ passed.freq = AsFloat(w[f].frequency)
      /\ passed.total_length = AsFloat(Seconds(f, el.duration))
  BY <1>4
<1> HIDE DEF passed
<1> QED BY <1>2, <1>3, <1>5 DEF PassesItsValues, el, f

(* A capture defines its own readout and triggers it. *)
LEMMA CaptureCalls ==
    ASSUME NEW p \in Seq(LowerableElements), NEW m \in Nat, m < Len(p),
           p[m + 1].kind = "capture", NEW w, Carries(p, w, m), NEW q, KeepsCalls(p, q, m), NEW e
    PROVE  KeepsCalls(p, QickCaptured(w, q, p[m + 1], e), m + 1)
<1> DEFINE el    == p[m + 1]
           c     == ChannelOf(el.frame)
           start == StartOf(w, el.frame)
           taken == WithLost(q, TimesLost(w, el, e))
           pulse == CapturePulse(w, el, e)
           o     == Output(c, "ro", Len(q.pulses) + 1, start)
           r     == QickCaptured(w, q, el, e)
<1>1. DOMAIN taken = PlanFields /\ taken.pulses = q.pulses /\ taken.outputs = q.outputs
  BY PlanChanges DEF KeepsCalls, PlanFields
<1>2. r = [taken EXCEPT !.pulses = Append(@, pulse), !.outputs = Append(@, o)]
  BY DEF QickCaptured
<1>3. o.channel = c /\ o.pulse = Len(q.pulses) + 1
  BY DEF Output
<1>4. PassesItsValues(p, m + 1, c, pulse.passed)
  BY CapturePasses
<1> HIDE DEF o, r, pulse, taken
<1>5. /\ DOMAIN r = PlanFields
      /\ r.pulses = Append(q.pulses, pulse) /\ r.outputs = Append(q.outputs, o)
  BY <1>1, <1>2 DEF PlanFields
<1>6. /\ Listed(r.pulses)
      /\ Len(q.pulses) \in Nat /\ DOMAIN q.pulses = 1 .. Len(q.pulses)
      /\ DOMAIN r.pulses = 1 .. Len(q.pulses) + 1
      /\ \A n \in 1 .. Len(q.pulses) : r.pulses[n] = q.pulses[n]
      /\ r.pulses[Len(q.pulses) + 1] = pulse
  BY <1>5, ListedAppend DEF KeepsCalls
<1>7. MoreCalls(q, r, o)
  BY <1>3, <1>5, <1>6 DEF MoreCalls, PlanFields, KeepsCalls
<1>8. r.pulses[o.pulse] = pulse
  BY <1>3, <1>6
<1>9. el.kind \in Outputting
  BY DEF Outputting
<1>10. KeepsCalls(p, r, m + 1)
  BY <1>3, <1>4, <1>7, <1>8, <1>9, CallsGrow
<1> QED BY <1>10 DEF r

(* A play plays a pulse that is the same or one it defines. *)
LEMMA ReplayCalls ==
    ASSUME NEW q, DOMAIN q = PlanFields, Listed(q.pulses), NEW pulse, NEW start
    PROVE  \E o : /\ MoreCalls(q, Replayed(q, pulse, start), o)
                  /\ o.channel = pulse.channel
                  /\ Replayed(q, pulse, start).pulses[o.pulse].passed = pulse.passed
<1> DEFINE known == Defined(q, pulse)
           r     == Replayed(q, pulse, start)
<1>0. \A s : Output(pulse.channel, "gen", s, start).pulse = s
             /\ Output(pulse.channel, "gen", s, start).channel = pulse.channel
  BY DEF Output
<1>1. /\ Len(q.pulses) \in Nat /\ DOMAIN q.pulses = 1 .. Len(q.pulses)
      /\ Listed(Append(q.pulses, pulse))
      /\ DOMAIN Append(q.pulses, pulse) = 1 .. Len(q.pulses) + 1
      /\ \A n \in 1 .. Len(q.pulses) : Append(q.pulses, pulse)[n] = q.pulses[n]
      /\ Append(q.pulses, pulse)[Len(q.pulses) + 1] = pulse
  BY ListedAppend
<1>2. CASE known # {}
  <2> DEFINE k == Min(known)
             o == Output(pulse.channel, "gen", k, start)
  <2>1. k \in known
    <3>1. known \in SUBSET Nat
      BY <1>1 DEF Defined
    <3> HIDE DEF known
    <3>2. \E x \in known : \A y \in known : x <= y
      BY <1>2, <3>1, LeastElement
    <3> QED BY <3>2 DEF Min
  <2>2. k \in DOMAIN q.pulses /\ q.pulses[k].passed = pulse.passed
    BY <2>1 DEF Defined, SamePulse
  <2>3. r = [q EXCEPT !.outputs = Append(@, o)]
    BY <1>2 DEF Replayed
  <2>4. o.pulse = k /\ o.channel = pulse.channel
    BY <1>0
  <2> HIDE DEF o, k, r, known
  <2>5. DOMAIN r = PlanFields /\ r.pulses = q.pulses /\ r.outputs = Append(q.outputs, o)
    BY <2>3 DEF PlanFields
  <2>6. MoreCalls(q, r, o) /\ r.pulses[o.pulse].passed = pulse.passed
    BY <2>2, <2>4, <2>5 DEF MoreCalls
  <2> QED BY <2>4, <2>6 DEF r
<1>3. CASE known = {}
  <2> DEFINE o == Output(pulse.channel, "gen", Len(q.pulses) + 1, start)
  <2>3. r = [q EXCEPT !.pulses = Append(@, pulse), !.outputs = Append(@, o)]
    BY <1>3 DEF Replayed
  <2>4. o.pulse = Len(q.pulses) + 1 /\ o.channel = pulse.channel
    BY <1>0
  <2> HIDE DEF o, r, known
  <2>5. /\ DOMAIN r = PlanFields /\ r.pulses = Append(q.pulses, pulse)
        /\ r.outputs = Append(q.outputs, o)
    BY <2>3 DEF PlanFields
  <2>6. MoreCalls(q, r, o) /\ r.pulses[o.pulse].passed = pulse.passed
    BY <1>1, <2>4, <2>5 DEF MoreCalls
  <2> QED BY <2>4, <2>6 DEF r
<1> QED BY <1>2, <1>3

LEMMA PlayCalls ==
    ASSUME NEW p \in Seq(LowerableElements), NEW m \in Nat, m < Len(p),
           p[m + 1].kind = "play", NEW w, Carries(p, w, m), NEW q, KeepsCalls(p, q, m), NEW e
    PROVE  KeepsCalls(p, QickPlayed(w, q, p[m + 1], e), m + 1)
<1> DEFINE el    == p[m + 1]
           spent == WithLost(q, TimesLost(w, el, e) \cup ValuesLost(w, el, e))
           kept  == [spent EXCEPT !.envelopes = @ \cup EnvelopesOf(el)]
           pulse == PlayPulse(w, el)
           start == StartOf(w, el.frame)
           r     == Replayed(kept, pulse, start)
<1>1. DOMAIN spent = PlanFields /\ spent.pulses = q.pulses /\ spent.outputs = q.outputs
  BY PlanChanges DEF KeepsCalls, PlanFields
<1>2. QickPlayed(w, q, el, e) = r
  BY DEF QickPlayed
<1>3. PassesItsValues(p, m + 1, pulse.channel, pulse.passed)
  BY PlayPasses
<1> HIDE DEF spent, pulse, start
<1>4. DOMAIN kept = PlanFields /\ kept.pulses = q.pulses /\ kept.outputs = q.outputs
  BY <1>1, PlanChanges
<1> HIDE DEF kept
<1>5. Listed(kept.pulses)
  BY <1>4 DEF KeepsCalls
<1>6. PICK o : MoreCalls(kept, r, o) /\ o.channel = pulse.channel
               /\ r.pulses[o.pulse].passed = pulse.passed
  BY <1>4, <1>5, ReplayCalls
<1> HIDE DEF r
<1>7. MoreCalls(q, r, o)
  BY <1>4, <1>6 DEF MoreCalls, KeepsCalls, PlanFields
<1>8. el.kind \in Outputting
  BY DEF Outputting
<1>9. KeepsCalls(p, r, m + 1)
  BY <1>3, <1>6, <1>7, <1>8, CallsGrow
<1> QED BY <1>2, <1>9

-----------------------------------------------------------------------------
(* A QICK plan that is being made, or is made, keeps every value so far. *)
PlanInv ==
    /\ source \in Seq(LowerableElements)
    /\ read \in 0 .. Len(source)
    /\ lowering = "idle" => read = 0 /\ walk = InitialWalk
    /\ lowering = "planned" => read = Len(source)
    /\ lowering \in {"walking", "planned"} =>
           Carries(source, walk, read) /\ KeepsCalls(source, plan, read)

LEMMA PrologueCalls ==
    ASSUME NEW p PROVE KeepsCalls(p, QickPrologue, 0)
<1>1. OutputsAmong(p, 0) = {} /\ Cardinality({}) = 0
  BY FS_EmptySet DEF OutputsAmong
<1>2. Listed(<< >>) /\ Len(<< >>) = 0
  BY EmptySeq DEF Listed
<1> QED BY <1>1, <1>2 DEF KeepsCalls, QickPrologue

LEMMA BeginKeeps ==
    ASSUME Qick, PlanInv, NEW p \in Seq(LowerableElements), BeginLowering(p)
    PROVE  PlanInv'
<1>1. CASE NotLowerable
  BY <1>1 DEF NotLowerable, PlanInv
<1>2. CASE ~NotLowerable
  <2>1. /\ source' = p /\ read' = 0 /\ walk' = InitialWalk /\ plan' = QickPrologue
        /\ lowering' = "walking"
    BY <1>2 DEF BeginLowering, PlanInv
  <2>2. 0 \in 0 .. Len(p)
    BY LenProperties
  <2>3. Carries(p, InitialWalk, 0) /\ KeepsCalls(p, QickPrologue, 0)
    BY CarriesFirst, PrologueCalls
  <2> QED BY <2>1, <2>2, <2>3 DEF PlanInv
<1> QED BY <1>1, <1>2

LEMMA LoweredKeeps ==
    ASSUME Qick, PlanInv, LowerStep PROVE PlanInv'
<1> DEFINE el == source[read + 1]
<1>1. ASSUME NotLowerable PROVE PlanInv'
  BY <1>1 DEF NotLowerable, PlanInv
<1>2. ASSUME NEW w, NEW q, Lowered(w, q), lowering = "walking", read < Len(source),
             Carries(source, w, read + 1), KeepsCalls(source, q, read + 1)
      PROVE  PlanInv'
  <2>1. source' = source /\ lowering' = "walking" /\ read' = read + 1 /\ walk' = w /\ plan' = q
    BY <1>2 DEF Lowered
  <2>2. source \in Seq(LowerableElements) /\ read + 1 \in 0 .. Len(source)
    BY <1>2, LenProperties DEF PlanInv
  <2> QED BY <1>2, <2>1, <2>2 DEF PlanInv
<1>3. ASSUME NEW kinds, NextIs(kinds)
      PROVE  /\ source \in Seq(LowerableElements) /\ read \in Nat /\ read < Len(source)
             /\ lowering = "walking" /\ el.kind \in kinds
             /\ Carries(source, walk, read) /\ KeepsCalls(source, plan, read)
  BY <1>3 DEF NextIs, PlanInv
<1>4. CASE LowerBarrier
  <2>1. /\ source \in Seq(LowerableElements) /\ read \in Nat /\ read < Len(source)
        /\ lowering = "walking" /\ el.kind = "barrier"
        /\ Carries(source, walk, read) /\ KeepsCalls(source, plan, read)
    BY <1>3, <1>4 DEF LowerBarrier
  <2>2. PICK t : Lowered(JoinedAt(walk, el, t), WithRoundings(plan, el, t, ElementId))
    BY <1>4 DEF LowerBarrier
  <2>3. Carries(source, JoinedAt(walk, el, t), read + 1)
    BY <2>1, JoinedCarries
  <2> DEFINE q == WithRoundings(plan, el, t, ElementId)
  <2>4. DOMAIN q = DOMAIN plan /\ q.pulses = plan.pulses /\ q.outputs = plan.outputs
    BY <2>1, PlanChanges DEF KeepsCalls, PlanFields
  <2> HIDE DEF q
  <2>5. KeepsCalls(source, q, read + 1)
    BY <2>1, <2>4, CallsStand DEF Outputting
  <2> QED BY <1>2, <2>1, <2>2, <2>3, <2>5 DEF q
<1>5. CASE LowerDelay
  <2>1. /\ source \in Seq(LowerableElements) /\ read \in Nat /\ read < Len(source)
        /\ lowering = "walking" /\ el.kind = "delay"
        /\ Carries(source, walk, read) /\ KeepsCalls(source, plan, read)
    BY <1>3, <1>5 DEF LowerDelay
  <2>2. Lowered(Waited(walk, el), plan)
    BY <1>5 DEF LowerDelay
  <2>3. Carries(source, Waited(walk, el), read + 1)
    BY <2>1, WaitedCarries
  <2>4. KeepsCalls(source, plan, read + 1)
    BY <2>1, CallsStand DEF Outputting
  <2> QED BY <1>2, <2>1, <2>2, <2>3, <2>4
<1>6. CASE LowerUpdate
  <2>1. /\ source \in Seq(LowerableElements) /\ read \in Nat /\ read < Len(source)
        /\ lowering = "walking" /\ el.kind \in Updating
        /\ Carries(source, walk, read) /\ KeepsCalls(source, plan, read)
    BY <1>3, <1>6 DEF LowerUpdate
  <2>2. Lowered(QickUpdated(walk, el), plan)
    BY <1>6 DEF LowerUpdate
  <2>3. Carries(source, QickUpdated(walk, el), read + 1)
    BY <2>1, CarriesUpdate
  <2>4. KeepsCalls(source, plan, read + 1)
    BY <2>1, CallsStand DEF Outputting, Updating
  <2> QED BY <1>2, <2>1, <2>2, <2>3, <2>4
<1>7. CASE LowerCapture
  <2>1. /\ source \in Seq(LowerableElements) /\ read \in Nat /\ read < Len(source)
        /\ lowering = "walking" /\ el.kind = "capture"
        /\ Carries(source, walk, read) /\ KeepsCalls(source, plan, read)
    BY <1>3, <1>7 DEF LowerCapture
  <2>2. NotLowerable \/ Lowered(Waited(walk, el), QickCaptured(walk, plan, el, ElementId))
    BY <1>7 DEF LowerCapture
  <2>3. Carries(source, Waited(walk, el), read + 1)
    BY <2>1, WaitedCarries
  <2>4. KeepsCalls(source, QickCaptured(walk, plan, el, ElementId), read + 1)
    BY <2>1, CaptureCalls
  <2> QED BY <1>1, <1>2, <2>1, <2>2, <2>3, <2>4
<1>8. CASE LowerPlay
  <2>1. /\ source \in Seq(LowerableElements) /\ read \in Nat /\ read < Len(source)
        /\ lowering = "walking" /\ el.kind = "play"
        /\ Carries(source, walk, read) /\ KeepsCalls(source, plan, read)
    BY <1>3, <1>8 DEF LowerPlay
  <2>2. NotLowerable \/ Lowered(Waited(walk, el), QickPlayed(walk, plan, el, ElementId))
    BY <1>8 DEF LowerPlay
  <2>3. Carries(source, Waited(walk, el), read + 1)
    BY <2>1, WaitedCarries
  <2>4. KeepsCalls(source, QickPlayed(walk, plan, el, ElementId), read + 1)
    BY <2>1, PlayCalls
  <2> QED BY <1>1, <1>2, <2>1, <2>2, <2>3, <2>4
<1>9. CASE EndLowering
  BY <1>1, <1>9 DEF EndLowering, PlanInv
<1> QED BY <1>4, <1>5, <1>6, <1>7, <1>8, <1>9 DEF LowerStep

(* Every output of a QICK plan is passed what its frame has at that point  *)
(* of the program, and there is one call for every play and capture, in    *)
(* their order: whatever the channels, the frames, the resolution of a     *)
(* double and the program, although pulses are replayed.                   *)
THEOREM PlayValuesTheorem == LSpec => []PlaysKeepTheirValues
<1>1. CASE Qick
  <2>1. ASSUME LInit PROVE PlanInv
    <3>1. source \in Seq(LowerableElements) /\ Len(source) = 0
      BY <2>1, EmptySeq DEF LInit
    <3> QED BY <2>1, <3>1 DEF LInit, PlanInv
  <2>2. ASSUME PlanInv, [LNext]_lowerVars PROVE PlanInv'
    <3>1. CASE UNCHANGED lowerVars
      BY <2>2, <3>1 DEF lowerVars, PlanInv
    <3> QED BY <1>1, <2>2, <3>1, BeginKeeps, LoweredKeeps DEF LNext
  <2>3. ASSUME PlanInv PROVE PlaysKeepTheirValues
    BY <2>3 DEF PlanInv, KeepsCalls, Called, PlaysKeepTheirValues
  <2> QED BY <2>1, <2>2, <2>3, PTL DEF LSpec
<1>2. CASE ~Qick
  <2>1. PlaysKeepTheirValues
    BY <1>2 DEF PlaysKeepTheirValues
  <2> QED BY <2>1, PTL
<1> QED BY <1>1, <1>2

-----------------------------------------------------------------------------
(* The updates triage.py calls unused.  The update that sets the frequency *)
(* of an output is the last one before it, and every shift before it adds  *)
(* to its phase: what FrequencyDue and PhaseDue read of the program.       *)
DueUpdates(p, i) ==
    LET f   == p[i].frame
        set == UpdatesAmong(p, f, i, "set_frequency")
    IN  UpdatesAmong(p, f, i, "shift_phase") \cup IF set = {} THEN {} ELSE {Max(set)}

(* A set of places has a greatest and a least one.                         *)
LEMMA EndsOfPlaces ==
    ASSUME NEW n \in Nat, NEW S \in SUBSET (1 .. n), S # {}
    PROVE  /\ Max(S) \in S /\ \A y \in S : y <= Max(S)
           /\ Min(S) \in S /\ \A y \in S : Min(S) <= y
<1>1. S \in SUBSET Nat /\ S \in SUBSET Int
  OBVIOUS
<1>2. PICK x \in S : \A y \in S : x <= y
  BY <1>1, LeastElement
<1>3. Min(S) = x
  BY <1>1, <1>2, MinIs
<1> DEFINE T == {n - x1 : x1 \in S}
<1>4. T \in SUBSET Nat /\ T # {}
  <2>1. n - x \in T
    OBVIOUS
  <2>2. \A y \in S : n - y \in Nat
    OBVIOUS
  <2> QED BY <2>1, <2>2
<1>5. PICK t \in T : \A y \in T : t <= y
  <2> HIDE DEF T
  <2> QED BY <1>4, LeastElement
<1>6. PICK z \in S : t = n - z
  OBVIOUS
<1>7. \A y \in S : y <= z
  <2> SUFFICES ASSUME NEW y \in S PROVE y <= z
    OBVIOUS
  <2>1. n - y \in T
    OBVIOUS
  <2>2. n - z <= n - y
    BY <1>5, <1>6, <2>1
  <2> QED BY <1>1, <2>2
<1>8. Max(S) = z
  BY <1>1, <1>7, MaxIs
<1> QED BY <1>2, <1>3, <1>7, <1>8

(* An update is on the list of unused_frame_updates (run.py), which        *)
(* triage.py asks for, exactly when no output takes its frequency or its   *)
(* phase from it.                                                          *)
THEOREM UnusedUpdatesTheorem ==
    ASSUME NEW S, NEW p \in Seq(S), NEW k \in DOMAIN p, p[k].kind \in Updating
    PROVE  k \in UnusedFrameUpdates(p)
               <=> ~\E i \in OutputsAmong(p, Len(p)) : k \in DueUpdates(p, i)
<1> DEFINE f == p[k].frame
           n == Len(p)
           uses == OnFrame(p, f, Outputting, (k + 1) .. n)
           next == OnFrame(p, f, {"set_frequency"}, (k + 1) .. n)
<1>1. n \in Nat /\ DOMAIN p = 1 .. n /\ k \in 1 .. n
  BY LenProperties
<1>2. /\ uses \in SUBSET (1 .. n) /\ next \in SUBSET (1 .. n)
      /\ \A j : j \in uses <=> /\ j \in (k + 1) .. n /\ p[j].kind \in Outputting
                               /\ p[j].frame = f
      /\ \A j : j \in next <=> /\ j \in (k + 1) .. n /\ p[j].kind = "set_frequency"
                               /\ p[j].frame = f
  BY <1>1 DEF OnFrame
<1>3. k \in UnusedFrameUpdates(p)
          <=> \/ uses = {}
              \/ p[k].kind = "set_frequency" /\ next # {} /\ Min(next) < Min(uses)
  BY DEF UnusedFrameUpdates, UpdateUnused
<1>4. p[k].kind \in {"shift_phase", "set_frequency"} /\ Outputting = {"play", "capture"}
  BY DEF Updating, Outputting
<1> HIDE DEF uses, next, n
<1>5. ASSUME NEW i \in OutputsAmong(p, n)
      PROVE  LET set == UpdatesAmong(p, p[i].frame, i, "set_frequency")
             IN  /\ i \in 1 .. n /\ p[i].kind \in Outputting
                 /\ set \in SUBSET (1 .. i) /\ set \in SUBSET (1 .. n)
                 /\ \A j : j \in set <=> /\ j \in 1 .. i /\ p[j].kind = "set_frequency"
                                         /\ p[j].frame = p[i].frame
                 /\ k \in DueUpdates(p, i)
                        <=> \/ /\ k \in 1 .. i /\ p[k].kind = "shift_phase"
                               /\ f = p[i].frame
                            \/ set # {} /\ k = Max(set)
  BY <1>1 DEF OutputsAmong, UpdatesAmong, DueUpdates
<1>6. ASSUME k \in UnusedFrameUpdates(p), NEW i \in OutputsAmong(p, n), k \in DueUpdates(p, i)
      PROVE  FALSE
  <2> DEFINE set == UpdatesAmong(p, p[i].frame, i, "set_frequency")
  <2>1. /\ i \in 1 .. n /\ p[i].kind \in Outputting
        /\ set \in SUBSET (1 .. n)
        /\ \A j : j \in set <=> /\ j \in 1 .. i /\ p[j].kind = "set_frequency"
                                /\ p[j].frame = p[i].frame
        /\ \/ /\ k \in 1 .. i /\ p[k].kind = "shift_phase" /\ f = p[i].frame
           \/ set # {} /\ k = Max(set)
    BY <1>5, <1>6
  <2> HIDE DEF set
  <2>2. set # {} => Max(set) \in set /\ \A j \in set : j <= Max(set)
    BY <1>1, <2>1, EndsOfPlaces
  <2>3. k \in 1 .. i /\ f = p[i].frame
    BY <2>1, <2>2
  <2>4. i \in uses
    <3>1. i # k
      BY <1>4, <2>1
    <3> QED BY <1>1, <1>2, <2>1, <2>3, <3>1
  <2>5. p[k].kind = "set_frequency" /\ next # {} /\ Min(next) < Min(uses)
    BY <1>3, <1>6, <2>4
  <2>6. /\ Min(next) \in next /\ Min(uses) \in uses /\ Min(uses) <= i
    BY <1>1, <1>2, <2>4, <2>5, EndsOfPlaces
  <2>7. Min(next) \in set /\ Min(next) > k
    BY <1>1, <1>2, <2>1, <2>3, <2>5, <2>6
  <2>8. set # {} /\ k = Max(set)
    BY <2>1, <2>5
  <2> QED BY <1>1, <2>1, <2>2, <2>7, <2>8
<1>7. ASSUME k \notin UnusedFrameUpdates(p)
      PROVE  \E i \in OutputsAmong(p, n) : k \in DueUpdates(p, i)
  <2>1. uses # {}
    BY <1>3, <1>7
  <2> DEFINE u == Min(uses)
             set == UpdatesAmong(p, p[u].frame, u, "set_frequency")
  <2>2. u \in uses /\ \A j \in uses : u <= j
    BY <1>1, <1>2, <2>1, EndsOfPlaces
  <2>3. u \in 1 .. n /\ k < u /\ p[u].kind \in Outputting /\ p[u].frame = f
    BY <1>1, <1>2, <2>2
  <2> HIDE DEF u
  <2>4. u \in OutputsAmong(p, n)
    BY <2>3 DEF OutputsAmong
  <2>5. CASE p[k].kind = "shift_phase"
    <3>1. k \in DueUpdates(p, u)
      BY <1>1, <1>5, <2>3, <2>4, <2>5
    <3> QED BY <2>4, <3>1
  <2>6. CASE p[k].kind = "set_frequency"
    <3>1. /\ set \in SUBSET (1 .. n)
          /\ \A j : j \in set <=> /\ j \in 1 .. u /\ p[j].kind = "set_frequency"
                                  /\ p[j].frame = p[u].frame
      BY <1>5, <2>4
    <3>2. k \in set
      BY <1>1, <2>3, <2>6, <3>1
    <3>3. ASSUME NEW j \in set PROVE j <= k
      <4> SUFFICES ASSUME j > k PROVE FALSE
        BY <1>1, <3>1
      <4>1. /\ j \in 1 .. u /\ j # u
        BY <1>4, <2>3, <3>1
      <4>2. j \in next
        BY <1>1, <1>2, <2>3, <3>1
      <4>3. Min(next) <= j /\ Min(next) \in next
        BY <1>1, <1>2, <4>2, EndsOfPlaces
      <4>4. Min(next) < u
        BY <1>1, <1>2, <2>3, <4>1, <4>3
      <4> QED BY <1>3, <1>7, <2>6, <4>2, <4>4 DEF u
    <3>4. Max(set) = k
      <4>1. set \in SUBSET Int
        BY <3>1
      <4> HIDE DEF set
      <4> QED BY <3>2, <3>3, <4>1, MaxIs
    <3>5. k \in DueUpdates(p, u)
      BY <1>5, <2>4, <3>2, <3>4
    <3> QED BY <2>4, <3>5
  <2> QED BY <1>4, <2>5, <2>6
<1> QED BY <1>6, <1>7 DEF n

-----------------------------------------------------------------------------
(* The walk without the updates triage.py calls unused, beside the walk    *)
(* that is made.  First, that StagesWithout is defined: its stages over    *)
(* the first m elements.                                                   *)
Stages(g, p, elements, m) ==
    g = [n \in 0 .. m |-> IF n = 0 THEN FirstStage(p)
                          ELSE IF n \in elements THEN g[n - 1]
                          ELSE After(g[n - 1], p[n], n)]

(* There are such stages, of every length. *)
LEMMA StagesExist ==
    ASSUME NEW p, NEW elements, NEW n \in Nat
    PROVE  \E g : Stages(g, p, elements, n)
<1> DEFINE P == {m \in Nat : \E g : Stages(g, p, elements, m)}
<1>1. 0 \in P
  <2> DEFINE g == [m \in 0 .. 0 |-> FirstStage(p)]
  <2>1. ASSUME NEW m \in 0 .. 0
        PROVE  g[m] = IF m = 0 THEN FirstStage(p)
                      ELSE IF m \in elements THEN g[m - 1]
                      ELSE After(g[m - 1], p[m], m)
    OBVIOUS
  <2>2. g = [m \in 0 .. 0 |-> g[m]]
    OBVIOUS
  <2> HIDE DEF g
  <2>3. Stages(g, p, elements, 0)
    BY <2>1, <2>2 DEF Stages
  <2> QED BY <2>3
<1>2. ASSUME NEW m \in P PROVE m + 1 \in P
  <2>1. PICK g : Stages(g, p, elements, m)
    OBVIOUS
  <2> DEFINE more == IF m + 1 \in elements THEN g[m] ELSE After(g[m], p[m + 1], m + 1)
             h == [k \in 0 .. m + 1 |-> IF k = m + 1 THEN more ELSE g[k]]
  <2>2. m \in Nat /\ \A k \in 0 .. m : h[k] = g[k] /\ h[m + 1] = more
    OBVIOUS
  <2>3. DOMAIN h = 0 .. m + 1 /\ h = [k \in 0 .. m + 1 |-> h[k]]
    OBVIOUS
  <2> HIDE DEF h
  <2>4. ASSUME NEW k \in 0 .. m + 1
        PROVE  h[k] = IF k = 0 THEN FirstStage(p)
                      ELSE IF k \in elements THEN h[k - 1]
                      ELSE After(h[k - 1], p[k], k)
    <3>1. CASE k = m + 1
      <4>1. k # 0 /\ k - 1 = m /\ h[k - 1] = g[m] /\ h[k] = more
        BY <2>2, <3>1
      <4> QED BY <3>1, <4>1
    <3>2. CASE k \in 1 .. m
      <4>1. k # 0 /\ k - 1 \in 0 .. m /\ k \in 0 .. m
        BY <2>2, <3>2
      <4>2. g[k] = IF k \in elements THEN g[k - 1] ELSE After(g[k - 1], p[k], k)
        BY <2>1, <4>1 DEF Stages
      <4>3. h[k] = g[k] /\ h[k - 1] = g[k - 1]
        BY <2>2, <4>1
      <4> QED BY <4>1, <4>2, <4>3
    <3>3. CASE k = 0
      <4>1. 0 \in 0 .. m
        BY <2>2
      <4>2. g[0] = FirstStage(p)
        BY <2>1, <4>1 DEF Stages
      <4> QED BY <2>2, <3>3, <4>1, <4>2
    <3> QED BY <2>2, <3>1, <3>2, <3>3
  <2>5. Stages(h, p, elements, m + 1)
    BY <2>3, <2>4 DEF Stages
  <2> QED BY <2>2, <2>5
<1> HIDE DEF P
<1>3. P = Nat
  <2>1. P \in SUBSET Nat
    BY DEF P
  <2> QED BY <1>1, <1>2, <2>1, SetInduction
<1> QED BY <1>3 DEF P

(* One stage after the other. *)
LEMMA StageSteps ==
    ASSUME NEW S, NEW p \in Seq(S), NEW elements
    PROVE  LET at == StagesWithout(p, elements)
           IN  /\ at[0] = FirstStage(p)
               /\ \A n \in Nat : n < Len(p) =>
                      at[n + 1] = IF n + 1 \in elements THEN at[n]
                                  ELSE After(at[n], p[n + 1], n + 1)
<1> DEFINE g[n \in 0 .. Len(p)] ==
               IF n = 0 THEN FirstStage(p)
               ELSE IF n \in elements THEN g[n - 1] ELSE After(g[n - 1], p[n], n)
           at == StagesWithout(p, elements)
<1>1. Len(p) \in Nat
  BY LenProperties
<1>2. Stages(at, p, elements, Len(p))
  <2>1. \E h : Stages(h, p, elements, Len(p))
    BY <1>1, StagesExist
  <2>2. \E h : h = [n \in 0 .. Len(p) |->
                       IF n = 0 THEN FirstStage(p)
                       ELSE IF n \in elements THEN h[n - 1] ELSE After(h[n - 1], p[n], n)]
    BY <2>1 DEF Stages
  <2>3. g = [n \in 0 .. Len(p) |->
                       IF n = 0 THEN FirstStage(p)
                       ELSE IF n \in elements THEN g[n - 1] ELSE After(g[n - 1], p[n], n)]
    BY <2>2, Zenon
  <2>4. Stages(g, p, elements, Len(p))
    BY <2>3 DEF Stages
  <2>5. at = g
    BY DEF StagesWithout
  <2> QED BY <2>4, <2>5
<1> HIDE DEF at
<1>3. at[0] = FirstStage(p)
  <2>1. 0 \in 0 .. Len(p)
    BY <1>1
  <2> QED BY <1>2, <2>1 DEF Stages
<1>4. ASSUME NEW n \in Nat, n < Len(p)
      PROVE  at[n + 1] = IF n + 1 \in elements THEN at[n] ELSE After(at[n], p[n + 1], n + 1)
  <2>1. n + 1 \in 0 .. Len(p) /\ n + 1 # 0 /\ (n + 1) - 1 = n
    BY <1>1, <1>4
  <2>2. at[n + 1] = IF n + 1 = 0 THEN FirstStage(p)
                    ELSE IF n + 1 \in elements THEN at[(n + 1) - 1]
                    ELSE After(at[(n + 1) - 1], p[n + 1], n + 1)
    BY <1>2, <2>1 DEF Stages
  <2> QED BY <2>1, <2>2
<1> QED BY <1>3, <1>4 DEF at

-----------------------------------------------------------------------------
(* After the first m elements of p an output still takes the frequency of  *)
(* f as it is, or its phase and what is added to it.                       *)
FrequencyUsed(p, f, m) ==
    \E j \in (m + 1) .. Len(p) :
        /\ p[j].kind \in Outputting /\ p[j].frame = f
        /\ \A k \in (m + 1) .. j : ~(p[k].kind = "set_frequency" /\ p[k].frame = f)

PhaseUsed(p, f, m) ==
    \E j \in (m + 1) .. Len(p) : p[j].kind \in Outputting /\ p[j].frame = f

(* What is used after an element was used before it, unless it is set.     *)
LEMMA UsedBefore ==
    ASSUME NEW S, NEW p \in Seq(S), NEW m \in Nat, m < Len(p), NEW f
    PROVE  /\ FrequencyUsed(p, f, m + 1)
              /\ ~(p[m + 1].kind = "set_frequency" /\ p[m + 1].frame = f)
                  => FrequencyUsed(p, f, m)
           /\ PhaseUsed(p, f, m + 1) => PhaseUsed(p, f, m)
<1>1. Len(p) \in Nat
  BY LenProperties
<1>2. ASSUME FrequencyUsed(p, f, m + 1),
             ~(p[m + 1].kind = "set_frequency" /\ p[m + 1].frame = f)
      PROVE  FrequencyUsed(p, f, m)
  <2>1. PICK j \in (m + 1) + 1 .. Len(p) :
           /\ p[j].kind \in Outputting /\ p[j].frame = f
           /\ \A k \in (m + 1) + 1 .. j : ~(p[k].kind = "set_frequency" /\ p[k].frame = f)
    BY <1>2 DEF FrequencyUsed
  <2>2. j \in (m + 1) .. Len(p)
    BY <1>1
  <2>3. ASSUME NEW k \in (m + 1) .. j PROVE ~(p[k].kind = "set_frequency" /\ p[k].frame = f)
    <3>1. k = m + 1 \/ k \in (m + 1) + 1 .. j
      OBVIOUS
    <3> QED BY <1>2, <2>1, <3>1
  <2> QED BY <2>1, <2>2, <2>3 DEF FrequencyUsed
<1>3. ASSUME PhaseUsed(p, f, m + 1) PROVE PhaseUsed(p, f, m)
  <2>1. PICK j \in (m + 1) + 1 .. Len(p) : p[j].kind \in Outputting /\ p[j].frame = f
    BY <1>3 DEF PhaseUsed
  <2>2. j \in (m + 1) .. Len(p)
    BY <1>1
  <2> QED BY <2>1, <2>2 DEF PhaseUsed
<1> QED BY <1>2, <1>3

(* An output uses the frequency and the phase its frame has. *)
LEMMA OutputUses ==
    ASSUME NEW S, NEW p \in Seq(S), NEW m \in Nat, m < Len(p), p[m + 1].kind \in Outputting
    PROVE  FrequencyUsed(p, p[m + 1].frame, m) /\ PhaseUsed(p, p[m + 1].frame, m)
<1>1. m + 1 \in (m + 1) .. Len(p)
  BY LenProperties
<1>2. ASSUME NEW k \in (m + 1) .. m + 1 PROVE p[k].kind # "set_frequency"
  <2>1. k = m + 1
    OBVIOUS
  <2> QED BY <2>1 DEF Outputting
<1> QED BY <1>1, <1>2 DEF FrequencyUsed, PhaseUsed

(* What triage.py calls unused is not used. *)
LEMMA UnusedNotUsed ==
    ASSUME NEW S, NEW p \in Seq(S), NEW m \in Nat, m < Len(p),
           m + 1 \in UnusedFrameUpdates(p)
    PROVE  /\ p[m + 1].kind \in Updating
           /\ ~FrequencyUsed(p, p[m + 1].frame, m + 1)
           /\ p[m + 1].kind = "shift_phase" => ~PhaseUsed(p, p[m + 1].frame, m + 1)
<1> DEFINE f    == p[m + 1].frame
           n    == Len(p)
           uses == OnFrame(p, f, Outputting, ((m + 1) + 1) .. n)
           next == OnFrame(p, f, {"set_frequency"}, ((m + 1) + 1) .. n)
<1>1. n \in Nat
  BY LenProperties
<1>2. /\ uses \in SUBSET (1 .. n) /\ next \in SUBSET (1 .. n)
      /\ \A j : j \in uses <=> /\ j \in ((m + 1) + 1) .. n /\ p[j].kind \in Outputting
                               /\ p[j].frame = f
      /\ \A j : j \in next <=> /\ j \in ((m + 1) + 1) .. n /\ p[j].kind = "set_frequency"
                               /\ p[j].frame = f
  BY <1>1 DEF OnFrame
<1>3. /\ p[m + 1].kind \in Updating
      /\ \/ uses = {}
         \/ p[m + 1].kind = "set_frequency" /\ next # {} /\ Min(next) < Min(uses)
  BY DEF UnusedFrameUpdates, UpdateUnused
<1> HIDE DEF uses, next, n, f
<1>4. uses = {} => ~PhaseUsed(p, f, m + 1) /\ ~FrequencyUsed(p, f, m + 1)
  BY <1>2 DEF PhaseUsed, FrequencyUsed, n
<1>5. ASSUME uses # {}, next # {}, Min(next) < Min(uses), FrequencyUsed(p, f, m + 1)
      PROVE  FALSE
  <2>1. PICK j \in (m + 1) + 1 .. n :
           /\ p[j].kind \in Outputting /\ p[j].frame = f
           /\ \A k \in (m + 1) + 1 .. j : ~(p[k].kind = "set_frequency" /\ p[k].frame = f)
    BY <1>5 DEF FrequencyUsed, n
  <2>2. j \in uses
    BY <1>2, <2>1
  <2>3. Min(uses) \in uses /\ Min(uses) <= j
    BY <1>1, <1>2, <2>2, EndsOfPlaces
  <2>4. Min(next) \in next
    BY <1>1, <1>2, <1>5, EndsOfPlaces
  <2>5. Min(next) \in (m + 1) + 1 .. n /\ Min(uses) \in 1 .. n
    BY <1>2, <2>3, <2>4
  <2>6. Min(next) \in (m + 1) + 1 .. j
    BY <1>1, <1>5, <2>1, <2>3, <2>5
  <2> QED BY <1>2, <2>1, <2>4, <2>6
<1> QED BY <1>3, <1>4, <1>5 DEF Updating, f

-----------------------------------------------------------------------------
(* v, the walk without the unused updates, stands for w: the clocks are    *)
(* the same, and every value an output still uses.                         *)
StandsFor(p, w, v, m) ==
    /\ WalkFields(w) /\ WalkFields(v)
    /\ \A f \in Frames :
          /\ v[f].clock = w[f].clock
          /\ FrequencyUsed(p, f, m) => v[f].frequency = w[f].frequency
          /\ PhaseUsed(p, f, m) => v[f].phase = w[f].phase

(* An element that updates nothing, walked by both. *)
LEMMA StandsOn ==
    ASSUME NEW p \in Seq(LowerableElements), NEW m \in Nat, m < Len(p),
           p[m + 1].kind \notin Updating, NEW w, NEW v, StandsFor(p, w, v, m),
           NEW x, NEW y, WalkFields(x), WalkFields(y), StandsAt(w, x), StandsAt(v, y),
           \A f \in Frames : y[f].clock = x[f].clock
    PROVE  StandsFor(p, x, y, m + 1)
<1>1. p[m + 1].kind # "set_frequency"
  BY DEF Updating
<1> SUFFICES ASSUME NEW f \in Frames
             PROVE  /\ FrequencyUsed(p, f, m + 1) => y[f].frequency = x[f].frequency
                    /\ PhaseUsed(p, f, m + 1) => y[f].phase = x[f].phase
  BY DEF StandsFor
<1>2. /\ FrequencyUsed(p, f, m + 1) => FrequencyUsed(p, f, m)
      /\ PhaseUsed(p, f, m + 1) => PhaseUsed(p, f, m)
  BY <1>1, UsedBefore
<1> QED BY <1>2 DEF StandsFor, StandsAt

(* An update walked by both, and one walked by w alone. *)
LEMMA StandsUpdated ==
    ASSUME NEW p \in Seq(LowerableElements), NEW m \in Nat, m < Len(p),
           p[m + 1].kind \in Updating, NEW w, NEW v, StandsFor(p, w, v, m)
    PROVE  /\ StandsFor(p, QickUpdated(w, p[m + 1]), QickUpdated(v, p[m + 1]), m + 1)
           /\ m + 1 \in UnusedFrameUpdates(p) =>
                  StandsFor(p, QickUpdated(w, p[m + 1]), v, m + 1)
<1> DEFINE el == p[m + 1]
           x  == QickUpdated(w, el)
           y  == QickUpdated(v, el)
<1>1. el \in LowerableElements
  BY ElementOfSeq
<1>2. WalkFields(w) /\ WalkFields(v)
  BY DEF StandsFor
<1>3. /\ WalkFields(x)
      /\ \A f \in Frames :
            /\ x[f].clock = w[f].clock
            /\ x[f].frequency = IF f = el.frame /\ el.kind = "set_frequency"
                                THEN el.frequency ELSE w[f].frequency
            /\ x[f].phase = IF f = el.frame /\ el.kind = "shift_phase"
                            THEN w[f].phase + el.phase ELSE w[f].phase
  BY <1>1, <1>2, UpdatedFields
<1>4. /\ WalkFields(y)
      /\ \A f \in Frames :
            /\ y[f].clock = v[f].clock
            /\ y[f].frequency = IF f = el.frame /\ el.kind = "set_frequency"
                                THEN el.frequency ELSE v[f].frequency
            /\ y[f].phase = IF f = el.frame /\ el.kind = "shift_phase"
                            THEN v[f].phase + el.phase ELSE v[f].phase
  BY <1>1, <1>2, UpdatedFields
<1>5. \A f \in Frames :
         /\ FrequencyUsed(p, f, m + 1) /\ ~(el.kind = "set_frequency" /\ el.frame = f)
                => FrequencyUsed(p, f, m)
         /\ PhaseUsed(p, f, m + 1) => PhaseUsed(p, f, m)
  BY UsedBefore
<1>6. m + 1 \in UnusedFrameUpdates(p) =>
          /\ ~FrequencyUsed(p, el.frame, m + 1)
          /\ el.kind = "shift_phase" => ~PhaseUsed(p, el.frame, m + 1)
  BY UnusedNotUsed
<1> HIDE DEF x, y, el
<1>7. StandsFor(p, x, y, m + 1)
  BY <1>3, <1>4, <1>5 DEF StandsFor
<1>8. m + 1 \in UnusedFrameUpdates(p) => StandsFor(p, x, v, m + 1)
  BY <1>2, <1>3, <1>5, <1>6 DEF StandsFor
<1> QED BY <1>7, <1>8 DEF x, y, el

-----------------------------------------------------------------------------
(* An output calls the same of two walks that agree about its frame. *)
AgreeAt(w, v, f) ==
    /\ v[f].clock = w[f].clock /\ v[f].frequency = w[f].frequency
    /\ v[f].phase = w[f].phase

LEMMA OutputAgrees ==
    ASSUME NEW p \in Seq(LowerableElements), NEW m \in Nat, m < Len(p),
           p[m + 1].kind \in Outputting, NEW w, NEW v, StandsFor(p, w, v, m)
    PROVE  AgreeAt(w, v, p[m + 1].frame)
<1>1. p[m + 1] \in LowerableElements /\ p[m + 1].kind # "barrier"
  BY ElementOfSeq DEF Outputting
<1>2. p[m + 1].frame \in Frames
  BY <1>1, LowerableAssumption
<1>3. FrequencyUsed(p, p[m + 1].frame, m) /\ PhaseUsed(p, p[m + 1].frame, m)
  BY OutputUses
<1> QED BY <1>2, <1>3 DEF StandsFor, AgreeAt

LEMMA SameCalls ==
    ASSUME NEW w, NEW v, NEW el, AgreeAt(w, v, el.frame), NEW q, NEW e
    PROVE  /\ QickCaptured(v, q, el, e) = QickCaptured(w, q, el, e)
           /\ QickPlayed(v, q, el, e) = QickPlayed(w, q, el, e)
<1>1. StartOf(v, el.frame) = StartOf(w, el.frame)
  BY DEF AgreeAt, StartOf
<1>2. TimesLost(v, el, e) = TimesLost(w, el, e)
  BY <1>1 DEF TimesLost
<1>3. CapturePulse(v, el, e) = CapturePulse(w, el, e)
  BY DEF AgreeAt, CapturePulse
<1>4. PlayAsked(v, el) = PlayAsked(w, el)
  BY DEF AgreeAt, PlayAsked
<1>5. PlayPulse(v, el) = PlayPulse(w, el)
  BY <1>4 DEF PlayPulse
<1>6. ValuesLost(v, el, e) = ValuesLost(w, el, e)
  BY <1>4 DEF ValuesLost
<1>7. QickCaptured(v, q, el, e) = QickCaptured(w, q, el, e)
  BY <1>1, <1>2, <1>3 DEF QickCaptured
<1>8. QickPlayed(v, q, el, e) = QickPlayed(w, q, el, e)
  BY <1>1, <1>2, <1>5, <1>6 DEF QickPlayed
<1> QED BY <1>7, <1>8

(* Both walks join a barrier at the same time. *)
LEMMA SameJoin ==
    ASSUME NEW el \in LowerableElements, el.kind = "barrier", NEW w, NEW v,
           \A f \in Frames : v[f].clock = w[f].clock,
           \A f \in Frames : w[f].clock \in Int,
           NEW t, LatestJoining(w, el, t)
    PROVE  JoinTime(v, el) = t
<1>1. JoiningSet(el) \subseteq Frames
  BY JoiningFrames
<1>2. JoiningTimes(v, el) = JoiningTimes(w, el)
  BY <1>1 DEF JoiningTimes
<1>3. \A u \in JoiningTimes(w, el) : u \in Int
  BY <1>1, FrameUnits DEF JoiningTimes, Seconds
<1>4. \A u : LatestJoining(v, el, u) <=> LatestJoining(w, el, u)
  BY <1>2 DEF LatestJoining
<1>5. ASSUME NEW u \in JoiningTimes(v, el), LatestJoining(v, el, u) PROVE u = t
  <2>1. LatestJoining(w, el, u)
    BY <1>4, <1>5
  <2>2. u \in Int /\ t \in Int /\ u <= t /\ t <= u
    BY <1>3, <2>1 DEF LatestJoining
  <2> QED BY <2>2
<1>6. t \in JoiningTimes(v, el) /\ LatestJoining(v, el, t)
  BY <1>2, <1>4 DEF LatestJoining
<1> QED BY <1>5, <1>6 DEF JoinTime

-----------------------------------------------------------------------------
(* One more element: what the walk has then, and what the walk without the *)
(* unused updates has.                                                     *)
CountsClocks(w) == \A f \in Frames : w[f].clock \in Int

Beside(p, m, w, q) ==
    LET at == StagesWithout(p, UnusedFrameUpdates(p))[m]
    IN  at.plan = q /\ StandsFor(p, w, at.walk, m) /\ CountsClocks(w)

(* Only an update is left out. *)
LEMMA NextStage ==
    ASSUME NEW p \in Seq(LowerableElements), NEW m \in Nat, m < Len(p)
    PROVE  LET at  == StagesWithout(p, UnusedFrameUpdates(p))
               nxt == After(at[m], p[m + 1], m + 1)
           IN  /\ p[m + 1].kind \notin Updating => at[m + 1] = nxt
               /\ at[m + 1] = IF m + 1 \in UnusedFrameUpdates(p) THEN at[m] ELSE nxt
<1> DEFINE unused == UnusedFrameUpdates(p)
<1>1. m + 1 \in unused => p[m + 1].kind \in Updating
  BY DEF UnusedFrameUpdates
<1> HIDE DEF unused
<1>2. LET at == StagesWithout(p, unused)
      IN  at[m + 1] = IF m + 1 \in unused THEN at[m] ELSE After(at[m], p[m + 1], m + 1)
  BY StageSteps
<1> QED BY <1>1, <1>2 DEF unused

LEMMA BesideWaits ==
    ASSUME Qick, NEW p \in Seq(LowerableElements), NEW m \in Nat, m < Len(p),
           NEW w, NEW q, Beside(p, m, w, q), p[m + 1].kind \in {"play", "capture", "delay"}
    PROVE  Beside(p, m + 1, Waited(w, p[m + 1]),
                  CASE p[m + 1].kind = "delay" -> q
                    [] p[m + 1].kind = "capture" -> QickCaptured(w, q, p[m + 1], m + 1)
                    [] p[m + 1].kind = "play" -> QickPlayed(w, q, p[m + 1], m + 1))
<1> DEFINE at  == StagesWithout(p, UnusedFrameUpdates(p))
           el  == p[m + 1]
           v   == at[m].walk
           x   == Waited(w, el)
           y   == Waited(v, el)
           r   == CASE el.kind = "delay" -> q
                    [] el.kind = "capture" -> QickCaptured(w, q, el, m + 1)
                    [] el.kind = "play" -> QickPlayed(w, q, el, m + 1)
<1>1. el \in LowerableElements /\ el.kind \notin Updating
  BY ElementOfSeq DEF Updating
<1>2. el.duration \in Int /\ el.frame \in Frames
  BY <1>1, LowerableAssumption
<1>3. at[m].plan = q /\ StandsFor(p, w, v, m) /\ CountsClocks(w)
  BY DEF Beside
<1>4. at[m + 1] = After(at[m], el, m + 1)
  BY <1>1, NextStage
<1>5. WalkFields(w) /\ WalkFields(v) /\ \A f \in Frames : v[f].clock = w[f].clock
  BY <1>3 DEF StandsFor
<1>6. /\ WalkFields(x) /\ StandsAt(w, x)
      /\ \A f \in Frames :
            x[f].clock = IF f = el.frame THEN w[f].clock + el.duration ELSE w[f].clock
  BY <1>1, <1>5, WaitedFields
<1>7. /\ WalkFields(y) /\ StandsAt(v, y)
      /\ \A f \in Frames :
            y[f].clock = IF f = el.frame THEN v[f].clock + el.duration ELSE v[f].clock
  BY <1>1, <1>5, WaitedFields
<1>8. at[m + 1].walk = y /\ at[m + 1].plan = r
  <2>1. CASE el.kind = "delay"
    BY <1>3, <1>4, <2>1 DEF After, Updating
  <2>2. CASE el.kind = "capture"
    <3>1. AgreeAt(w, v, el.frame)
      BY <1>3, <2>2, OutputAgrees DEF Outputting
    <3>2. QickCaptured(v, q, el, m + 1) = QickCaptured(w, q, el, m + 1)
      BY <3>1, SameCalls
    <3>3. /\ at[m + 1].walk = y
          /\ at[m + 1].plan = QickCaptured(v, q, el, m + 1)
      BY <1>3, <1>4, <2>2 DEF After, Updating
    <3> QED BY <2>2, <3>2, <3>3
  <2>3. CASE el.kind = "play"
    <3>1. AgreeAt(w, v, el.frame)
      BY <1>3, <2>3, OutputAgrees DEF Outputting
    <3>2. QickPlayed(v, q, el, m + 1) = QickPlayed(w, q, el, m + 1)
      BY <3>1, SameCalls
    <3>3. /\ at[m + 1].walk = y
          /\ at[m + 1].plan = QickPlayed(v, q, el, m + 1)
      BY <1>3, <1>4, <2>3 DEF After, Updating
    <3> QED BY <2>3, <3>2, <3>3
  <2> QED BY <2>1, <2>2, <2>3
<1> HIDE DEF at, el, v, x, y, r
<1>9. \A f \in Frames : y[f].clock = x[f].clock /\ x[f].clock \in Int
  BY <1>2, <1>3, <1>5, <1>6, <1>7 DEF CountsClocks
<1>10. StandsFor(p, x, y, m + 1)
  BY <1>1, <1>3, <1>6, <1>7, <1>9, StandsOn DEF el
<1>11. Beside(p, m + 1, x, r)
  BY <1>8, <1>9, <1>10 DEF Beside, at, CountsClocks
<1> QED BY <1>11 DEF x, r, el

LEMMA JoinsAfter ==
    ASSUME NEW at, NEW el, el.kind = "barrier", NEW id, NEW t, JoinTime(at.walk, el) = t
    PROVE  /\ After(at, el, id).walk = JoinedAt(at.walk, el, t)
           /\ After(at, el, id).plan = WithRoundings(at.plan, el, t, id)
  BY DEF After, Updating

LEMMA BesideJoins ==
    ASSUME NEW p \in Seq(LowerableElements), NEW m \in Nat, m < Len(p),
           NEW w, NEW q, Beside(p, m, w, q), p[m + 1].kind = "barrier",
           NEW t, LatestJoining(w, p[m + 1], t)
    PROVE  Beside(p, m + 1, JoinedAt(w, p[m + 1], t), WithRoundings(q, p[m + 1], t, m + 1))
<1> DEFINE at  == StagesWithout(p, UnusedFrameUpdates(p))
           el  == p[m + 1]
           v   == at[m].walk
           x   == JoinedAt(w, el, t)
           y   == JoinedAt(v, el, t)
           r   == WithRoundings(q, el, t, m + 1)
<1>1. el \in LowerableElements /\ el.kind \notin Updating
  BY ElementOfSeq DEF Updating
<1>2. at[m].plan = q /\ StandsFor(p, w, v, m) /\ CountsClocks(w)
  BY DEF Beside
<1>3. at[m + 1] = After(at[m], el, m + 1)
  BY <1>1, NextStage
<1>4. /\ WalkFields(w) /\ WalkFields(v)
      /\ \A f \in Frames : v[f].clock = w[f].clock
      /\ \A f \in Frames : w[f].clock \in Int
  BY <1>2 DEF StandsFor, CountsClocks
<1>5. JoinTime(v, el) = t
  <2> HIDE DEF v
  <2> QED BY <1>1, <1>4, SameJoin
<1> HIDE DEF at, v
<1>6. at[m + 1].walk = y /\ at[m + 1].plan = r
  <2>1. el.kind = "barrier"
    OBVIOUS
  <2> HIDE DEF el
  <2> QED BY <1>2, <1>3, <1>5, <2>1, JoinsAfter DEF v
<1>7. JoinMoves(w, x, el, t) /\ JoinMoves(v, y, el, t)
  BY <1>4, JoinedFields
<1>8. t \in Int
  <2>1. JoiningSet(el) \subseteq Frames
    BY <1>1, JoiningFrames
  <2>2. PICK f \in Frames : t = Seconds(f, w[f].clock)
    BY <2>1 DEF LatestJoining, JoiningTimes
  <2> QED BY <1>4, <2>2, FrameUnits DEF Seconds
<1>9. \A f \in Frames : RoundNearestEven(t, ProgramUnit(f)) \in Int
  BY <1>8, FrameUnits, RoundWithinHalf
<1> HIDE DEF at, el, v, x, y, r
<1>10. \A f \in Frames : y[f].clock = x[f].clock /\ x[f].clock \in Int
  BY <1>4, <1>7, <1>9 DEF JoinMoves
<1>11. StandsFor(p, x, y, m + 1)
  BY <1>1, <1>2, <1>7, <1>10, StandsOn DEF el, JoinMoves
<1>12. Beside(p, m + 1, x, r)
  BY <1>6, <1>10, <1>11 DEF Beside, at, CountsClocks
<1> QED BY <1>12 DEF x, r, el

LEMMA BesideUpdates ==
    ASSUME Qick, NEW p \in Seq(LowerableElements), NEW m \in Nat, m < Len(p),
           NEW w, NEW q, Beside(p, m, w, q), p[m + 1].kind \in Updating
    PROVE  Beside(p, m + 1, QickUpdated(w, p[m + 1]), q)
<1> DEFINE at  == StagesWithout(p, UnusedFrameUpdates(p))
           el  == p[m + 1]
           v   == at[m].walk
           x   == QickUpdated(w, el)
           y   == QickUpdated(v, el)
<1>1. at[m].plan = q /\ StandsFor(p, w, v, m) /\ CountsClocks(w)
  BY DEF Beside
<1>2. at[m + 1] = IF m + 1 \in UnusedFrameUpdates(p) THEN at[m]
                  ELSE After(at[m], el, m + 1)
  BY NextStage
<1>3. After(at[m], el, m + 1).walk = y /\ After(at[m], el, m + 1).plan = q
  BY <1>1 DEF After, Updating
<1>4. /\ StandsFor(p, x, y, m + 1)
      /\ m + 1 \in UnusedFrameUpdates(p) => StandsFor(p, x, v, m + 1)
  BY <1>1, StandsUpdated
<1>5. CountsClocks(x)
  <2>1. el \in LowerableElements /\ WalkFields(w)
    BY <1>1, ElementOfSeq DEF StandsFor
  <2>2. \A f \in Frames : x[f].clock = w[f].clock
    BY <2>1, UpdatedFields
  <2> QED BY <1>1, <2>2 DEF CountsClocks
<1>6. CASE m + 1 \in UnusedFrameUpdates(p)
  <2>1. at[m + 1].plan = q /\ at[m + 1].walk = v
    BY <1>1, <1>2, <1>6
  <2> QED BY <1>4, <1>5, <1>6, <2>1 DEF Beside
<1>7. CASE m + 1 \notin UnusedFrameUpdates(p)
  <2>1. at[m + 1].plan = q /\ at[m + 1].walk = y
    BY <1>2, <1>3, <1>7
  <2> QED BY <1>4, <1>5, <2>1 DEF Beside
<1> QED BY <1>6, <1>7

(* The walk that is made and the one without the unused updates are side   *)
(* by side from the first element on.                                      *)
UnseenInv == lowering \in {"walking", "planned"} => Beside(source, read, walk, plan)

LEMMA BeginUnseen ==
    ASSUME Qick, PlanInv, NEW p \in Seq(LowerableElements), BeginLowering(p)
    PROVE  UnseenInv'
<1>1. CASE NotLowerable
  BY <1>1 DEF NotLowerable, UnseenInv
<1>2. CASE ~NotLowerable
  <2>1. /\ source' = p /\ read' = 0 /\ walk' = InitialWalk /\ plan' = QickPrologue
        /\ lowering' = "walking"
    BY <1>2 DEF BeginLowering, PlanInv
  <2> DEFINE unused == UnusedFrameUpdates(p)
  <2>2. StagesWithout(p, unused)[0] = FirstStage(p)
    <3> HIDE DEF unused
    <3> QED BY StageSteps
  <2>3. /\ WalkFields(InitialWalk) /\ CountsClocks(InitialWalk)
        /\ StandsFor(p, InitialWalk, InitialWalk, 0)
    BY DEF InitialWalk, WalkFields, CountsClocks, StandsFor
  <2>4. Beside(p, 0, InitialWalk, QickPrologue)
    BY <2>2, <2>3 DEF Beside, FirstStage
  <2> QED BY <2>1, <2>4 DEF UnseenInv
<1> QED BY <1>1, <1>2

LEMMA StepUnseen ==
    ASSUME Qick, PlanInv, UnseenInv, LowerStep PROVE UnseenInv'
<1> DEFINE el == source[read + 1]
<1>1. ASSUME NotLowerable PROVE UnseenInv'
  BY <1>1 DEF NotLowerable, UnseenInv
<1>2. ASSUME NEW w, NEW q, Lowered(w, q), Beside(source, read + 1, w, q)
      PROVE  UnseenInv'
  BY <1>2 DEF Lowered, UnseenInv
<1>3. ASSUME NEW kinds, NextIs(kinds)
      PROVE  /\ source \in Seq(LowerableElements) /\ read \in Nat /\ read < Len(source)
             /\ el.kind \in kinds /\ Beside(source, read, walk, plan)
  BY <1>3 DEF NextIs, PlanInv, UnseenInv
<1>4. CASE LowerBarrier
  <2>1. PICK t : /\ LatestJoining(walk, el, t)
                 /\ Lowered(JoinedAt(walk, el, t), WithRoundings(plan, el, t, ElementId))
    BY <1>4 DEF LowerBarrier
  <2>2. NextIs({"barrier"})
    BY <1>4 DEF LowerBarrier
  <2>3. Beside(source, read + 1, JoinedAt(walk, el, t), WithRoundings(plan, el, t, read + 1))
    BY <1>3, <2>1, <2>2, BesideJoins
  <2> QED BY <1>2, <2>1, <2>3 DEF ElementId
<1>5. CASE LowerDelay
  <2>1. NextIs({"delay"}) /\ Lowered(Waited(walk, el), plan)
    BY <1>5 DEF LowerDelay
  <2>2. Beside(source, read + 1, Waited(walk, el), plan)
    BY <1>3, <2>1, BesideWaits
  <2> QED BY <1>2, <2>1, <2>2
<1>6. CASE LowerUpdate
  <2>1. NextIs(Updating) /\ Lowered(QickUpdated(walk, el), plan)
    BY <1>6 DEF LowerUpdate
  <2>2. Beside(source, read + 1, QickUpdated(walk, el), plan)
    BY <1>3, <2>1, BesideUpdates
  <2> QED BY <1>2, <2>1, <2>2
<1>7. CASE LowerCapture
  <2>1. /\ NextIs({"capture"})
        /\ NotLowerable \/ Lowered(Waited(walk, el), QickCaptured(walk, plan, el, ElementId))
    BY <1>7 DEF LowerCapture
  <2>2. Beside(source, read + 1, Waited(walk, el), QickCaptured(walk, plan, el, read + 1))
    BY <1>3, <2>1, BesideWaits
  <2> QED BY <1>1, <1>2, <2>1, <2>2 DEF ElementId
<1>8. CASE LowerPlay
  <2>1. /\ NextIs({"play"})
        /\ NotLowerable \/ Lowered(Waited(walk, el), QickPlayed(walk, plan, el, ElementId))
    BY <1>8 DEF LowerPlay
  <2>2. Beside(source, read + 1, Waited(walk, el), QickPlayed(walk, plan, el, read + 1))
    BY <1>3, <2>1, BesideWaits
  <2> QED BY <1>1, <1>2, <2>1, <2>2 DEF ElementId
<1>9. CASE EndLowering
  BY <1>1, <1>9 DEF EndLowering, UnseenInv
<1> QED BY <1>4, <1>5, <1>6, <1>7, <1>8, <1>9 DEF LowerStep

(* On QICK, the plan of a program is the plan of the program without the   *)
(* updates unused_frame_updates lists: the same pulses, played at the same *)
(* times, that lost and rounded the same.  So a vendor's answer on a       *)
(* "conservative" row is its answer to the program without the rejected    *)
(* elements.  Of the Qblox plan this is false (run qblox_updates).         *)
THEOREM UnseenTheorem == ASSUME Qick PROVE LSpec => []UnusedUpdatesUnseen
<1>1. ASSUME LInit PROVE PlanInv /\ UnseenInv
  <2>1. source \in Seq(LowerableElements) /\ Len(source) = 0
    BY <1>1, EmptySeq DEF LInit
  <2> QED BY <1>1, <2>1 DEF LInit, PlanInv, UnseenInv
<1>2. ASSUME PlanInv, UnseenInv, [LNext]_lowerVars PROVE (PlanInv /\ UnseenInv)'
  <2>1. CASE UNCHANGED lowerVars
    BY <1>2, <2>1 DEF lowerVars, PlanInv, UnseenInv
  <2>2. CASE LNext
    <3>1. PlanInv'
      BY <1>2, <2>2, BeginKeeps, LoweredKeeps DEF LNext
    <3>2. UnseenInv'
      BY <1>2, <2>2, BeginUnseen, StepUnseen DEF LNext
    <3> QED BY <3>1, <3>2
  <2> QED BY <1>2, <2>1, <2>2
<1>3. PlanInv /\ UnseenInv => UnusedUpdatesUnseen
  BY DEF PlanInv, UnseenInv, Beside, PlanWithout, UnusedUpdatesUnseen
<1> QED BY <1>1, <1>2, <1>3, PTL DEF LSpec
=============================================================================
