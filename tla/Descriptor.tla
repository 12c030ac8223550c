----------------------------- MODULE Descriptor -----------------------------
(***************************************************************************)
(* validate_descriptor of src/src/check.c: what check() requires of a      *)
(* capability descriptor before it reads the program.  The parser has      *)
(* already made every field well typed and every unit positive.            *)
(***************************************************************************)
EXTENDS Capability

SpacingRules ==
    {"start_spacing", "frequency_update_spacing", "capture_spacing", "capture_slot"}

(* severity_rule_for: which severities the emit sites of a rule can express. *)
\* Fault: phase_resolution may be declared with either severity.
SeverityRulePhaseEither(id) ==
    CASE id \in {"pulse_length_range", "readout_length_range", "envelope_sample_grid",
                 "envelope_amplitude", "mux_tone_mask", "mux_tone_count",
                 "capture_length_uniform", "envelope_duration_exact"} \cup SpacingRules
             -> {"fatal"}
      [] id \in {"pulse_length_grid", "schedule_grid", "frequency_range",
                 "amplitude_range", "phase_resolution"} -> Severities
      [] OTHER -> {}

SeverityRule(id) ==
    CASE id \in {"pulse_length_range", "readout_length_range", "envelope_sample_grid",
                 "envelope_amplitude", "mux_tone_mask", "mux_tone_count",
                 "capture_length_uniform", "envelope_duration_exact"} \cup SpacingRules
             -> {"fatal"}
      [] id = "phase_resolution" -> {"vendor_repairable"}
      [] id \in {"pulse_length_grid", "schedule_grid", "frequency_range",
                 "amplitude_range"} -> Severities
      [] OTHER -> {}

(* The rules whose limit comes from outside the constraint. *)
Parameterless ==
    {"pulse_length_grid", "schedule_grid", "capture_length_uniform",
     "envelope_duration_exact", "mux_tone_mask", "mux_tone_count"}

ShapeComplete(k) ==
    CASE k.shape = "range_units" ->
             k.minUnits # Absent \/ k.maxUnits # Absent \/ k.id \in Parameterless
      [] k.shape = "range_resolution" ->
             k.min # Absent \/ k.max # Absent \/ k.resolution # Absent
      [] k.shape = "grid_samples" -> k.grid # Absent /\ k.grid > 0

SpacingComplete(k) ==
    k.id \in SpacingRules =>
        k.shape = "range_units" /\ k.minUnits # Absent /\ k.minUnits >= 0

SaturationPlaced(k) ==
    k.saturateMax # Absent =>
        /\ k.id \in {"amplitude_range", "envelope_amplitude"}
        /\ k.max # Absent /\ k.saturateMax < k.max
        /\ k.min # Absent => k.saturateMax >= k.min

PhaseUpdatePlaced(k) == k.initialPhaseUpdate => k.id = "start_spacing"

(* The two envelope constraints repeat a capability and must agree with it. *)
\* Fault: the constraint's grid is not compared with the capability's.
EnvelopeAgreesUnread(k, caps) == TRUE

EnvelopeAgrees(k, caps) ==
    /\ k.id = "envelope_sample_grid" =>
           caps.sampleGrid # Absent /\ k.grid = caps.sampleGrid
    /\ k.id = "envelope_amplitude" =>
           /\ caps.maxAbs # Absent /\ caps.maxAbs > 0
           /\ k.min = -caps.maxAbs /\ k.max = caps.maxAbs /\ k.resolution = 1

ValidConstraint(k, caps) ==
    /\ ShapeComplete(k)
    /\ SpacingComplete(k)
    /\ SaturationPlaced(k)
    /\ PhaseUpdatePlaced(k)
    /\ k.severity \in SeverityRule(k.id)
    /\ EnvelopeAgrees(k, caps)

ValidChannel(ch) ==
    /\ ch.unit > 0 /\ ch.durationGrid > 0 /\ ch.scheduleGrid > 0
    /\ \A i \in DOMAIN ch.constraints : ValidConstraint(ch.constraints[i], ch.capabilities)
    /\ ch.capabilities.sampleGrid # Absent => ch.capabilities.sampleGrid > 0

(* b.perFrame: only the program-memory count is kept per frame. *)
ValidBudget(b) ==
    /\ b.limit >= 0
    /\ b.perElementMax # Absent => b.perElementMax >= 0
    /\ b.perFrame => b.id = "pmem_words"
    /\ b.channels # {} => b.perFrame
    /\ b.channels \subseteq DOMAIN Device

ValidDescriptor ==
    /\ \A c \in DOMAIN Device : ValidChannel(Device[c])
    /\ \A i \in DOMAIN Budgets : ValidBudget(Budgets[i])
=============================================================================
