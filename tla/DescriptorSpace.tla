--------------------------- MODULE DescriptorSpace ---------------------------
(***************************************************************************)
(* validate_descriptor against the rules that read what it lets through.   *)
(* A descriptor of one channel with one constraint is loaded, validated,   *)
(* and single values are checked against it: the constraint is a variable, *)
(* so the rules of the checker are instantiated with the descriptor that   *)
(* is being loaded as the device.                                          *)
(***************************************************************************)
EXTENDS TickMath, Sequences

CONSTANTS
    Absent,
    Constraints,    \* the constraints a descriptor may hold, valid or not
    CapabilitySets, \* the capabilities of its channel
    Probes          \* the integers that are checked as a value of any kind

VARIABLES
    step,           \* "loaded", "refused", "accepted" or "checked"
    constraint,
    caps,
    probe,          \* the value that was checked
    found           \* the rejections it got

vars == << step, constraint, caps, probe, found >>

-----------------------------------------------------------------------------
(* One channel, one program of one frame on it. *)
TheDevice ==
    [ch |-> [kind |-> "drive", unit |-> 2, durationGrid |-> 2, scheduleGrid |-> 2,
             constraints |-> << constraint >>, capabilities |-> caps]]

(* An envelope of level v, as long as any grid wants, and one of v samples. *)
TheWaves(v) ==
    [level |-> [kind |-> "samples", i |-> [n \in 1 .. 6 |-> v], q |-> << >>],
     run   |-> [kind |-> "samples", i |-> [n \in 1 .. Later(0, v) |-> 0], q |-> << >>]]

Rules(v) == INSTANCE TimeRules
    WITH Device <- TheDevice,
         Channels <- [ch |-> [unit |-> 1, sampleUnit |-> 1, mixer |-> 0, tones |-> << >>]],
         FrameDefs <- << [channel |-> "ch", frequency |-> 0, phase |-> 1] >>,
         Waveforms <- TheWaves(v),
         Budgets <- << >>, AmplitudeRounding <- "nearest_even",
         MaxInt <- 1000, MaxRat <- 1000

Load == INSTANCE Descriptor
    WITH Device <- TheDevice,
         Channels <- << >>, FrameDefs <- << >>, Waveforms <- << >>,
         Budgets <- << >>, AmplitudeRounding <- "nearest_even",
         MaxInt <- 1000, MaxRat <- 1000

(* A frame whose last operation, update and capture were at time 0. *)
FrameAt(v) ==
    [clock |-> v, lastEvent |-> 0, lastFreqUpdate |-> 0, lastCapture |-> 0,
     openCapture |-> 0, openCaptureElement |-> 1, captureLength |-> 1]

(* All the checker has to say of the integer v: as a frequency, a phase,   *)
(* an amplitude, a sample, a number of samples, a duration, a delay and    *)
(* the time of an operation.                                               *)
RejectionsOf(v) ==
    LET st       == FrameAt(v)
        As(kind) == Rules(v)!NoteRejections(1, st, 2, kind)
    IN  Rules(v)!FrequencyRejections("ch", v, 1)
        \o Rules(v)!PhaseRejections("ch", v, 1)
        \o Rules(v)!AmplitudeRejections("ch", v, 1)
        \o Rules(v)!AdvanceRejections(1, v, 1, TRUE)
        \o Rules(v)!AdvanceRejections(1, v, 1, FALSE)
        \o Rules(v)!EnvelopeRejections("ch", "level", v, 1)
        \o Rules(v)!EnvelopeRejections("ch", "run", v, 1)
        \o Rules(v)!StartGridRejections(1, st, 1)
        \o Rules(v)!CaptureLengthRejections(1, st, v, 2)
        \o As("frequency") \o As("capture")

Init ==
    /\ step = "loaded"
    /\ constraint \in Constraints
    /\ caps \in CapabilitySets
    /\ probe = 0
    /\ found = << >>

Validate ==
    /\ step = "loaded"
    /\ step' = IF Load!ValidChannel(TheDevice["ch"]) THEN "accepted" ELSE "refused"
    /\ UNCHANGED << constraint, caps, probe, found >>

CheckValue(v) ==
    /\ step = "accepted"
    /\ step' = "checked"
    /\ probe' = v
    /\ found' = RejectionsOf(v)
    /\ UNCHANGED << constraint, caps >>

Next ==
    \/ Validate
    \/ \E v \in Probes : CheckValue(v)

Spec == Init /\ [][Next]_vars

-----------------------------------------------------------------------------
Found(rule) == {n \in DOMAIN found : found[n].rule = rule}

(* report-format-v0: "repair: present when, and only when, severity is     *)
(* vendor_repairable", for every descriptor the checker accepts.  The      *)
(* severities validate_descriptor allows must be the ones each emit site   *)
(* can express.                                                            *)
RepairsPaired ==
    \A n \in DOMAIN found : found[n].repair # "none" <=> found[n].severity = "vendor_repairable"

(* The two envelope constraints restate a capability, and the rule reads   *)
(* the capability: in an accepted descriptor the limit that is written in  *)
(* the constraint is the limit that is enforced.                           *)
DeclaredIsEnforced ==
    step = "checked" =>
        /\ constraint.id = "envelope_sample_grid" /\ probe >= 0 =>
               /\ constraint.grid # Absent
               /\ probe % constraint.grid # 0 <=> Found("envelope_sample_grid") # {}
        /\ constraint.id = "envelope_amplitude" =>
               /\ constraint.min # Absent /\ constraint.max # Absent
               /\ (probe < constraint.min \/ probe > constraint.max)
                    <=> \E n \in Found("envelope_amplitude") : found[n].severity = "fatal"
=============================================================================
