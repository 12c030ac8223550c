-------------------------------- MODULE Survey --------------------------------
(***************************************************************************)
(* The rows of the device surveys that speak of budgets: programs with     *)
(* more and more pulses, waveforms or loops, compiled with the vendor's    *)
(* toolchain (src/tools/survey/).  The toolchain itself is external: it    *)
(* is a record that says what a program costs and how much fits.           *)
(***************************************************************************)
EXTENDS Integers, Sequences

CONSTANTS
    PulseCounts,    \* of a Qblox survey: [few, fits, over, readoutFits, readoutOver]
    QickPulses,     \* of a QICK survey: the numbers of pulses
    QickLoops,      \* and of loops
    Spare           \* waveforms to either side of the memory: 8

(* A citation of the catalog: the config, the axis and a text that a note  *)
(* of the row contains.  Notes with one such text in common have one name. *)
Cites(config, axis, note, outcome) ==
    [config |-> config, axis |-> axis, note |-> note, outcome |-> outcome]

Probe(axis, param, requested, note, module, memory) ==
    [axis |-> axis, param |-> param, requested |-> requested, note |-> note,
     module |-> module, memory |-> memory]

-----------------------------------------------------------------------------
(* The drive port is on module 1, a QCM, and the readout port on module 2, *)
(* a QRM.  Each of the two clocks of a port is a sequencer of its own.     *)
DriveModule == 1

ReadoutModule == 2

QbloxBudgetProbes(samples) ==
    LET Drive(n, note) == Probe("budget_instr", "n_pulses", n, note, DriveModule, "QCM")
        Readout(n, note) == Probe("budget_instr", "n_pulses", n, note, ReadoutModule, "QRM")
    IN  {Drive(PulseCounts.few, "few on the drive port"),
         Drive(PulseCounts.fits, "fits on the drive port"),
         Drive(PulseCounts.over, "over on the drive port"),
         Readout(PulseCounts.readoutFits, "fits on the readout port"),
         Readout(PulseCounts.readoutOver, "over on the readout port"),
         Drive(PulseCounts.fits, "pulses on two clocks of one port"),
         Probe("budget_instr", "samples", samples, "a waveform on two clocks of one port",
               DriveModule, "samples")}

(* The probes of what one element costs that a budget cites.  They measure *)
(* and request no number; 1 is the one element they compile.               *)
QbloxCostProbes ==
    {Probe("cost", "instructions", 1, "one pulse", DriveModule, "QCM"),
     Probe("cost", "instructions", 1, "one long acquisition", ReadoutModule, "QRM")}

QickBudgetProbes(wmem, noModule) ==
    {Probe("budget_wmem", "n_waveforms", n, "waveform memory", noModule, "wmem") :
         n \in {Spare, wmem - Spare, wmem + Spare}}
    \cup {Probe("budget_pmem", "n_pulses", n, "program memory", noModule, "pmem") :
              n \in QickPulses}
    \cup {Probe("budget_regs", "n_loops", n, "data registers", noModule, "registers") :
              n \in QickLoops}

-----------------------------------------------------------------------------
(* A toolchain: per memory, what n items cost and how much fits.  It       *)
(* refuses what does not fit with an error that names the module.          *)
Refuses(vendor, probe) ==
    LET memory == vendor[probe.memory]
    IN  memory.perItem * probe.requested + memory.overhead > memory.limit

(* run_probe and classify: the readback of a budget probe that compiled is *)
(* as many items as it asked for.                                          *)
Row(config, vendor, probe) ==
    [config |-> config, axis |-> probe.axis, param |-> probe.param,
     requested |-> probe.requested, note |-> probe.note, module |-> probe.module,
     outcome |-> IF Refuses(vendor, probe) THEN "reject" ELSE "accept"]

Rows(config, vendor, probes) == {Row(config, vendor, probe) : probe \in probes}
=============================================================================
