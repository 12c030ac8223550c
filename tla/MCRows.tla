-------------------------------- MODULE MCRows --------------------------------
(***************************************************************************)
(* The rows of a differential run: programs of three elements for a QICK   *)
(* board and for a Qblox cluster.                                          *)
(***************************************************************************)
EXTENDS MCDevices, DifferentialProperties

Values(id, severity, resolution) ==
    [NoLimits(id, severity, "range_resolution") EXCEPT !.resolution = resolution]

-----------------------------------------------------------------------------
(* The rows of a QICK board: a generator and a dynamic readout whose units *)
(* do not divide one another but share the tick of the tProcessor, and a   *)
(* muxed generator with a tone whose gain is off its step.  Doubles are    *)
(* even, so odd values are lost or not depending on the step they are      *)
(* judged by.                                                              *)

LengthGrid == Units("pulse_length_grid", "vendor_repairable")

RowsDevice ==
    [gen0 |-> Channel("drive", 4, 2, 3,
                      << LengthGrid,
                         Values("phase_resolution", "vendor_repairable", 3),
                         [Values("frequency_range", "fatal", 1) EXCEPT !.max = 5] >>),
     gen1 |-> Channel("drive", 4, 1, 3,
                      << LengthGrid, Values("amplitude_range", "vendor_repairable", 4) >>),
     ro0  |-> Channel("readout", 6, 2, 2, << LengthGrid >>)]

RowsChannels ==
    [gen0 |-> ProgramChannel(4), ro0 |-> ProgramChannel(6),
     gen1 |-> [ProgramChannel(4) EXCEPT
                  !.tones = << [frequency |-> 6, phase |-> 0, amplitude |-> 6] >>]]

Wired(mux) == [mux |-> mux, dynamic |-> TRUE, asDescribed |-> TRUE, hasGain |-> TRUE,
               hasPhase |-> TRUE, ports |-> 1]

RowsBoard == [gen0 |-> Wired(FALSE), ro0 |-> Wired(FALSE), gen1 |-> Wired(TRUE)]

RowsBehaviors == [gen1 |-> {"mux_tone_nyquist_image_fold"}]

RowsFrames ==
    << [channel |-> "gen0", frequency |-> 2, phase |-> 0],
       [channel |-> "ro0", frequency |-> 2, phase |-> 0],
       [channel |-> "gen1", frequency |-> 0, phase |-> 0] >>

RowsWaveforms ==
    [flat |-> ConstantWave, curve |-> [kind |-> "samples", i |-> << 1 >>, q |-> << 0 >>]]

RowsElements ==
    {Plays(1, 6, "flat"), Plays(1, 3, "flat"), Plays(1, 6, "curve"), Shifts(1, 3), Shifts(1, 5),
     Retunes(1, 6), Retunes(1, 3), Captures(2, 2), Captures(2, 3), Waits(2, 1),
     Sounds(3, 3, << 0 >>), Aligns(<< >>), Aligns(<< 1, 2 >>)}

-----------------------------------------------------------------------------
(* The rows of a Qblox cluster: an output with an initial phase and a      *)
(* readout, in whole nanoseconds.  A square longer than LongestPlay is an  *)
(* offset with a closing play, phases may be halves of a step, and every   *)
(* wait is a loop of the sequencer.                                        *)

ClusterDevice ==
    [out |-> [Channel("drive", 1, 1, 1,
                      << Units("pulse_length_grid", "fatal"),
                         Values("frequency_range", "fatal", 2),
                         Values("phase_resolution", "vendor_repairable", 2),
                         Values("amplitude_range", "fatal", 2) >>)
                EXCEPT !.capabilities = [NoCapabilities EXCEPT !.maxAbs = 4]],
     res |-> Channel("readout", 1, 1, 1,
                     << Units("pulse_length_grid", "fatal"),
                        Values("frequency_range", "fatal", 2),
                        Units("capture_length_uniform", "fatal") >>)]

ClusterChannels ==
    [out |-> [ProgramChannel(1) EXCEPT !.sampleUnit = 1], res |-> ProgramChannel(1)]

Port == [mux |-> FALSE, dynamic |-> TRUE, asDescribed |-> TRUE, hasGain |-> FALSE,
         hasPhase |-> FALSE, ports |-> 1]

ClusterBoard == [out |-> Port, res |-> Port]

NoBehaviors == << >>

ClusterFrames ==
    << [channel |-> "out", frequency |-> 2, phase |-> 2],
       [channel |-> "res", frequency |-> 3, phase |-> 0] >>

ClusterWaveforms ==
    [flat |-> [kind |-> "const", amplitude |-> 3],
     curve |-> [kind |-> "samples", i |-> << 1, -2 >>, q |-> << 0, 0 >>]]

ClusterElements ==
    {Plays(1, 3, "flat"), Plays(1, 8, "flat"), Plays(1, 2, "curve"),
     Shifts(1, 1), Shifts(1, 2), Retunes(1, 4), Retunes(1, 5),
     Captures(2, 3), Aligns(<< >>)}

ClusterSteps == [freq |-> 2, phase |-> 2, gain |-> 2, total_length |-> 1]
=============================================================================
