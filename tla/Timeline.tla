------------------------------- MODULE Timeline -------------------------------
(***************************************************************************)
(* What the frames of a program promise about time, without what a device  *)
(* allows: every frame has a clock that counts whole units of its channel; *)
(* an element of one frame leaves the other frames alone and never takes   *)
(* its frame back; a barrier brings all its members to the time of the     *)
(* latest of them, each as close as whole units come.                      *)
(***************************************************************************)
EXTENDS DataProofs, Sequences

CONSTANTS
    Frames,     \* the frames of the program
    TicksPer    \* frame -> ticks per unit

VARIABLES
    clock,      \* frame -> units
    aligned     \* for each element, the frames it aligned: {} unless a barrier

Ticks(f, n) == n * TicksPer[f]

Init ==
    /\ clock = [f \in Frames |-> 0]
    /\ aligned = << >>

(* Within half a unit of t. *)
Nearest(f, n, t) == 2 * Magnitude(Ticks(f, n) - t) <= TicksPer[f]

Advance(f) ==
    /\ clock' \in [Frames -> Nat]
    /\ clock'[f] >= clock[f]
    /\ \A g \in Frames \ {f} : clock'[g] = clock[g]
    /\ aligned' = Append(aligned, {})

Align(S) ==
    /\ clock' \in [Frames -> Nat]
    /\ S # {} => \E l \in S : \A f \in S :
           /\ Ticks(f, clock[f]) <= Ticks(l, clock[l])
           /\ Nearest(f, clock'[f], Ticks(l, clock[l]))
    /\ \A g \in Frames \ S : clock'[g] = clock[g]
    /\ aligned' = Append(aligned, S)

Next ==
    \/ \E f \in Frames : Advance(f)
    \/ \E S \in SUBSET Frames : Align(S)

Spec == Init /\ [][Next]_<< clock, aligned >>

-----------------------------------------------------------------------------
(* "Frame clocks only move forward" (note_event): neither an element nor   *)
(* the rounding of a barrier takes a clock back.                           *)
NeverBack == [][\A f \in Frames : clock'[f] >= clock[f]]_<< clock, aligned >>

PositiveUnits == TicksPer \in [Frames -> Nat \ {0}]

ClockType == clock \in [Frames -> Nat]

(* On a Timeline no frame is ever before time 0. *)
THEOREM ClocksAreCounts == Spec => []ClockType
<1>1. Init => ClockType
  BY DEF Init, ClockType
<1>2. ClockType /\ [Next]_<< clock, aligned >> => ClockType'
  BY DEF ClockType, Next, Advance, Align
<1> QED
  BY <1>1, <1>2, PTL DEF Spec

(* "Frame clocks only move forward": the rounding of a barrier included. *)
THEOREM StepsForward ==
    ASSUME PositiveUnits, ClockType, Next PROVE \A f \in Frames : clock'[f] >= clock[f]
<1> USE DEF ClockType
<1>1. CASE \E f \in Frames : Advance(f)
  BY <1>1 DEF Advance
<1>2. ASSUME NEW S \in SUBSET Frames, Align(S), NEW f \in Frames
      PROVE  clock'[f] >= clock[f]
  <2>1. CASE f \notin S
    BY <2>1, <1>2 DEF Align
  <2>2. CASE f \in S
    <3>1. PICK l \in S : /\ Ticks(f, clock[f]) <= Ticks(l, clock[l])
                         /\ Nearest(f, clock'[f], Ticks(l, clock[l]))
      BY <2>2, <1>2 DEF Align
    <3> DEFINE t == Ticks(l, clock[l])
    <3>2. /\ clock[f] \in Int /\ clock'[f] \in Int
          /\ TicksPer[f] \in Nat \ {0} /\ TicksPer[l] \in Nat \ {0} /\ clock[l] \in Int
      BY <1>2 DEF Align, PositiveUnits
    <3>3. t \in Int
      BY <3>2 DEF Ticks
    <3>4. clock[f] * TicksPer[f] <= t /\ 2 * Magnitude(clock'[f] * TicksPer[f] - t) <= TicksPer[f]
      BY <3>1 DEF Ticks, Nearest
    <3>5. clock[f] <= clock'[f]
      <4> HIDE DEF t
      <4> QED BY <3>2, <3>3, <3>4, NearestNotBefore
    <3> QED BY <3>2, <3>5
  <2> QED BY <2>1, <2>2
<1> QED BY <1>1, <1>2 DEF Next

(* No behaviour of Timeline takes a clock back. *)
THEOREM NeverBackTheorem ==
    ASSUME PositiveUnits PROVE Spec => NeverBack
<1>1. ClockType /\ [Next]_<< clock, aligned >>
          => [\A f \in Frames : clock'[f] >= clock[f]]_<< clock, aligned >>
  BY StepsForward
<1> QED
  BY <1>1, ClocksAreCounts, PTL DEF Spec, NeverBack
=============================================================================
