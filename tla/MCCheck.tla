------------------------------- MODULE MCCheck --------------------------------
(***************************************************************************)
(* The devices and programs of the runs of check().                        *)
(***************************************************************************)
EXTENDS MCDevices, CheckProperties

-----------------------------------------------------------------------------
(* Two channels whose units do not divide one another, 2 and 3 ticks, and  *)
(* a program that counts the first in single ticks: durations, delays and  *)
(* barriers miss the lattice and are rounded, to even on a tie.  Budgets   *)
(* of every kind, per program and per frame, share a class.                *)
TimingDevice ==
    [drive   |-> Channel("drive", 2, 2, 3,
                         << Units("pulse_length_grid", "vendor_repairable"),
                            [Units("pulse_length_range", "fatal") EXCEPT !.minUnits = 1,
                                                                         !.maxUnits = 2] >>),
     readout |-> Channel("readout", 3, 1, 2,
                         << Units("schedule_grid", "fatal"),
                            UnitsFrom("readout_length_range", 1) >>)]

TimingChannels == [drive |-> ProgramChannel(1), readout |-> ProgramChannel(3)]

TimingFrames ==
    << [channel |-> "drive", frequency |-> 0, phase |-> 0],
       [channel |-> "readout", frequency |-> 0, phase |-> 0] >>

TimingWaveforms == [flat |-> ConstantWave]

FrameBudget(limit, most, channels) ==
    [ProgramBudget("pmem_words", limit, 1) EXCEPT
        !.perFrame = TRUE, !.perElementMax = most, !.channels = channels]

\* Budgets of one class, as a device with several kinds of module has.
TimingBudgets ==
    << ProgramBudget("pmem_words", 5, 0), ProgramBudget("loop_registers", 0, 0),
       FrameBudget(3, Absent, {"readout"}), FrameBudget(4, 2, {}),
       ProgramBudget("wmem_words", 1, 1), ProgramBudget("pmem_words", 2, 0) >>

TimingElements ==
    {Plays(1, 4, "flat"), Plays(1, 3, "flat"), Waits(1, -3), Waits(1, 5), Waits(1, 11),
     Waits(2, 1), Captures(2, 1), Aligns(<< >>), Aligns(<< 2, 2 >>), Shifts(2, 1)}

-----------------------------------------------------------------------------
(* A sequencer-per-carrier device: every spacing rule at once.  Frame 1    *)
(* drives with a non-zero initial phase, frame 2 captures; the unit of the *)
(* first is two of the second, so the end of the program need not be a     *)
(* whole number of units of the first.                                     *)
SpacingDevice ==
    [drive |-> Channel("drive", 2, 1, 1,
                       << [UnitsFrom("start_spacing", 2) EXCEPT !.initialPhaseUpdate = TRUE],
                          UnitsFrom("frequency_update_spacing", 3) >>),
     readout |-> Channel("readout", 1, 1, 1,
                         << UnitsFrom("start_spacing", 2),
                            UnitsFrom("capture_spacing", 3),
                            UnitsFrom("capture_slot", 2),
                            Units("capture_length_uniform", "fatal") >>)]

SpacingChannels == [drive |-> ProgramChannel(2), readout |-> ProgramChannel(1)]

SpacingFrames ==
    << [channel |-> "drive", frequency |-> 0, phase |-> 1],
       [channel |-> "readout", frequency |-> 0, phase |-> 0] >>

SpacingWaveforms == [flat |-> ConstantWave]

SpacingBudgets == << >>

SpacingElements ==
    {Retunes(1, 1), Plays(1, 1, "flat"), Shifts(2, 1),
     Captures(2, 1), Captures(2, 0), Waits(2, 1), Aligns(<< >>)}

-----------------------------------------------------------------------------
(* A channel with a mixer and sampled envelopes, used by two frames, and a *)
(* muxed channel with a tone table.  One step of a value is one resolution *)
(* step or half of one, so values on and off the resolution both occur.    *)
Values(id, severity) == NoLimits(id, severity, "range_resolution")

Band(severity, min, max, postMixer) ==
    [Values("frequency_range", severity) EXCEPT
        !.min = min, !.max = max, !.resolution = 2, !.postMixer = postMixer]

DriveLimits ==
    << Band("vendor_repairable", 0, 3, TRUE),
       [Values("phase_resolution", "vendor_repairable") EXCEPT !.resolution = 2],
       [Values("amplitude_range", "fatal") EXCEPT
           !.min = -4, !.max = 4, !.resolution = 2, !.saturateMax = 3],
       [NoLimits("envelope_sample_grid", "fatal", "grid_samples") EXCEPT !.grid = 2],
       [Values("envelope_amplitude", "fatal") EXCEPT
           !.min = -3, !.max = 3, !.resolution = 1, !.saturateMax = 2],
       Units("envelope_duration_exact", "fatal") >>

MuxLimits ==
    << Band("fatal", 0, 4, FALSE),
       [Values("phase_resolution", "vendor_repairable") EXCEPT !.resolution = 2],
       Units("mux_tone_mask", "fatal"), Units("mux_tone_count", "fatal") >>

ValuesDevice ==
    [drive |-> [Channel("drive", 1, 1, 1, DriveLimits) EXCEPT
                   !.capabilities = [NoCapabilities EXCEPT
                       !.memory = 4, !.sampleGrid = 2, !.maxAbs = 3]],
     mux   |-> [Channel("drive", 1, 1, 1, MuxLimits) EXCEPT
                   !.capabilities = [NoCapabilities EXCEPT !.nTones = 1]]]

ValuesChannels ==
    [drive |-> [ProgramChannel(1) EXCEPT !.sampleUnit = 1, !.mixer = 2],
     mux   |-> [ProgramChannel(1) EXCEPT
                   !.tones = << [frequency |-> 2, phase |-> 1, amplitude |-> 1],
                                [frequency |-> 5, phase |-> 0, amplitude |-> 1] >>]]

ValuesFrames ==
    << [channel |-> "drive", frequency |-> 1, phase |-> 1],
       [channel |-> "drive", frequency |-> 4, phase |-> 0],
       [channel |-> "mux", frequency |-> 0, phase |-> 0] >>

ValuesWaveforms ==
    [short |-> [kind |-> "samples", i |-> << 1, 3 >>, q |-> << 0, 0 >>],
     long  |-> [kind |-> "samples", i |-> << 1, -4, 2 >>, q |-> << 0, 0, 0 >>],
     flat  |-> [kind |-> "const", amplitude |-> 3]]

ValuesBudgets == << ProgramBudget("wmem_words", 2, 0) >>

ValuesElements ==
    {Plays(1, 2, "short"), Plays(1, 3, "long"), Plays(2, 2, "short"), Plays(2, 1, "flat"),
     Sounds(3, 1, << 0, 2 >>), Sounds(3, 1, << 1 >>), Captures(1, 1),
     Shifts(1, 1), Shifts(1, 2), Retunes(1, 4), Retunes(1, 6), Retunes(3, 1)}
=============================================================================
