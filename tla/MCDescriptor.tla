---------------------------- MODULE MCDescriptor ----------------------------
(***************************************************************************)
(* Every rule id, severity and shape, with each field absent or present.   *)
(***************************************************************************)
EXTENDS DescriptorSpace

Ids == {"pulse_length_range", "pulse_length_grid", "readout_length_range",
        "frequency_range", "frequency_resolution", "phase_resolution",
        "amplitude_range", "amplitude_resolution", "envelope_sample_grid",
        "envelope_amplitude", "envelope_memory", "schedule_grid",
        "negative_duration", "mux_tone_mask", "start_spacing",
        "frequency_update_spacing", "capture_spacing", "capture_length_uniform",
        "envelope_duration_exact", "capture_slot"}

AnyConstraint ==
    [id : Ids, severity : {"fatal", "vendor_repairable"},
     shape : {"range_units", "range_resolution", "grid_samples"},
     minUnits : {Absent, 2}, maxUnits : {Absent}, min : {-2}, max : {Absent, 2, 3},
     resolution : {Absent, 1, 2}, saturateMax : {Absent, 1}, grid : {Absent, 2, 3},
     postMixer : {FALSE}, initialPhaseUpdate : BOOLEAN]

AnyCapabilities ==
    [nTones : {Absent}, memory : {Absent}, memoryPerFrame : {FALSE},
     sampleGrid : {Absent, 2}, maxAbs : {Absent, 2}]

Values == -4 .. 4
=============================================================================
