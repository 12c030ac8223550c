-------------------------------- MODULE Oracle --------------------------------
(***************************************************************************)
(* What every oracle backend of the differential driver shares             *)
(* (src/tools/oracle/base.py and __init__.py): the conversion of an exact  *)
(* value to a vendor's double and the record of what it lost, the grid     *)
(* cell a readback is judged by, and the walk of the frames both lowerings *)
(* make.                                                                   *)
(*                                                                         *)
(* A double is a multiple of FloatStep: float() of an exact value is the   *)
(* nearest of them, which may be another value, in another grid cell.  A   *)
(* lowering keeps its clocks in units of the program, not of the device.   *)
(***************************************************************************)
EXTENDS Capability, SequencesExt

CONSTANTS
    Library,            \* the library the descriptor names: "qick" or "qblox"
    Board,              \* the vendor's config: channel name -> BoardChannel
    Behaviors,          \* descriptor: channel name -> ids of its vendor_behavior
    Turn,               \* the steps of one turn of phase
    FloatStep           \* the distance of two neighbouring doubles

(* The quantities a readback compares, in the vocabulary of triage. *)
Quantities == {"freq", "phase", "gain", "total_length"}

(* float(v): the nearest double. *)
AsFloat(v) == FloatStep * RoundNearestEven(v, FloatStep)

(* same_grid_cell: was the request on the step, and did the readback land  *)
(* on the same multiple.  Phase is reduced to one turn first.              *)
SameGridCell(requested, got, step, quantity) ==
    LET InTurn(v) == IF quantity = "phase" THEN v % Turn ELSE v
    IN  IF step # Absent /\ step > 0
        THEN /\ Divides(step, InTurn(requested))
             /\ RoundNearestEven(InTurn(requested), step) = RoundNearestEven(InTurn(got), step)
        ELSE InTurn(requested) = InTurn(got)

(* Loss: the element whose value the conversion moved to another cell. *)
\* Fault: no conversion is ever held to have lost anything.
NothingLost(kind, element, exact, grid) == {}

Lost(kind, element, exact, grid) ==
    LET kept == IF grid = Absent \/ grid = 0
                THEN exact = AsFloat(exact)
                ELSE RoundNearestEven(exact, grid) = RoundNearestEven(AsFloat(exact), grid)
    IN  IF kept THEN {} ELSE {[kind |-> kind, element |-> element]}

-----------------------------------------------------------------------------
(* The walk: the clock, frequency and phase of every frame. *)
ProgramUnit(f) == Channels[ChannelOf(f)].unit

Seconds(f, units) == units * ProgramUnit(f)

InitialWalk ==
    [f \in Frames |-> [clock |-> 0, frequency |-> FrameDefs[f].frequency,
                       phase |-> FrameDefs[f].phase]]

Waited(walk, el) == [walk EXCEPT ![el.frame].clock = @ + el.duration]

(* A barrier: `el.get("frames") or list(frames)`. *)
Joining(el) == IF el.frames = << >> THEN [f \in Frames |-> f] ELSE el.frames

JoiningSet(el) == {Joining(el)[i] : i \in DOMAIN Joining(el)}

JoiningTimes(walk, el) == {Seconds(f, walk[f].clock) : f \in JoiningSet(el)}

LatestJoining(walk, el, t) ==
    /\ t \in JoiningTimes(walk, el)
    /\ \A u \in JoiningTimes(walk, el) : u <= t

\* Fault: a clock off the lattice is rounded up.
JoinedUp(walk, el, t) ==
    [f \in Frames |->
        IF f \in JoiningSet(el)
        THEN [walk[f] EXCEPT !.clock = -((-t) \div ProgramUnit(f))]
        ELSE walk[f]]

JoinedAt(walk, el, t) ==
    [f \in Frames |->
        IF f \in JoiningSet(el)
        THEN [walk[f] EXCEPT !.clock = RoundNearestEven(t, ProgramUnit(f))]
        ELSE walk[f]]

Roundings(el, t, element) ==
    {[element |-> element, frame |-> f] :
        f \in {g \in JoiningSet(el) : ~Divides(ProgramUnit(g), t)}}

-----------------------------------------------------------------------------
(* Plan: a backend adds its calls to what the conversions lost and what    *)
(* the barriers rounded, which the driver reads from every plan.           *)
WithLost(plan, lost) == [plan EXCEPT !.lost = @ \cup lost]

WithRoundings(plan, el, t, element) ==
    [plan EXCEPT !.roundings = @ \cup Roundings(el, t, element)]

Outputting == {"play", "capture"}

Updating == {"shift_phase", "set_frequency"}

UsedFrames(p) == {p[i].frame : i \in {j \in DOMAIN p : p[j].kind \in Outputting}}

(* rule_to_behavior: which documented behavior of a vendor explains that a *)
(* rule fires and the vendor compiles.  Only QICK links any.               *)
RuleToBehavior(rule) ==
    CASE rule = "frequency_range" -> {"frequency_alias_mod_f_dds", "mux_tone_nyquist_image_fold"}
      [] rule = "amplitude_range" -> {"gain_over_full_scale"}
      [] rule = "envelope_memory" -> {"envelope_memory_overflow_unchecked"}
      [] rule = "mux_tone_count"  -> {"mux_tone_count_unchecked"}
      [] OTHER -> {}
=============================================================================
