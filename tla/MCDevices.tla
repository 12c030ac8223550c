------------------------------ MODULE MCDevices ------------------------------
(***************************************************************************)
(* Constructors the model-checking instances share: a constraint, the      *)
(* capabilities of a channel, a budget and the elements of a program with  *)
(* everything optional absent.                                             *)
(***************************************************************************)
EXTENDS Capability

NoLimits(id, severity, shape) ==
    [id |-> id, severity |-> severity, shape |-> shape,
     minUnits |-> Absent, maxUnits |-> Absent,
     min |-> Absent, max |-> Absent, resolution |-> Absent, saturateMax |-> Absent,
     grid |-> Absent, postMixer |-> FALSE, initialPhaseUpdate |-> FALSE]

Units(id, severity) == NoLimits(id, severity, "range_units")

UnitsFrom(id, min) == [Units(id, "fatal") EXCEPT !.minUnits = min]

NoCapabilities ==
    [nTones |-> Absent, memory |-> Absent, memoryPerFrame |-> FALSE,
     sampleGrid |-> Absent, maxAbs |-> Absent]

Channel(kind, unit, durationGrid, scheduleGrid, constraints) ==
    [kind |-> kind, unit |-> unit, durationGrid |-> durationGrid,
     scheduleGrid |-> scheduleGrid, constraints |-> constraints,
     capabilities |-> NoCapabilities]

ProgramChannel(unit) ==
    [unit |-> unit, sampleUnit |-> Absent, mixer |-> Absent, tones |-> << >>]

ProgramBudget(id, limit, overhead) ==
    [id |-> id, limit |-> limit, perItem |-> 1, overhead |-> overhead,
     perElementMax |-> Absent, perFrame |-> FALSE, channels |-> {}]

NoBudgets == << >>

Waits(f, units) == [kind |-> "delay", frame |-> f, duration |-> units]

Plays(f, units, w) == [kind |-> "play", frame |-> f, duration |-> units, waveform |-> w]

Sounds(f, units, mask) == [kind |-> "play", frame |-> f, duration |-> units, mask |-> mask]

Captures(f, units) == [kind |-> "capture", frame |-> f, duration |-> units]

Aligns(frames) == [kind |-> "barrier", frames |-> frames]

Shifts(f, v) == [kind |-> "shift_phase", frame |-> f, phase |-> v]

Retunes(f, v) == [kind |-> "set_frequency", frame |-> f, frequency |-> v]

ConstantWave == [kind |-> "const", amplitude |-> 0]
=============================================================================
