------------------------------ MODULE MCEvidence ------------------------------
(***************************************************************************)
(* A Qblox cluster of a QCM and a QRM, and two QICK boards with a plain,   *)
(* an interpolated and a muxed generator, with memories small enough that  *)
(* the programs which fill them are short.                                 *)
(***************************************************************************)
EXTENDS EvidenceProperties

Edge(name, path, module, type) == [name |-> name, path |-> path, module |-> module, type |-> type]

Cluster ==
    [name  |-> "qcm-qrm",
     edges |-> << Edge("drive", "complex_output", 1, "QCM"),
                  Edge("readout_out", "complex_output", 2, "QRM"),
                  Edge("readout", "complex_input", 2, "QRM") >>]

Gen(type, interpolation, scale) ==
    [type |-> type, clock |-> 2, dds |-> 4096, interpolation |-> interpolation, maxv |-> 200,
     scale |-> scale, memory |-> 32, samplesPerClock |-> 2, nTones |-> 2]

Readout(type, dynamic) == [type |-> type, clock |-> 2, dynamic |-> dynamic]

Testbench ==
    [name |-> "zcu216-testbench",
     gens |-> << Gen("axis_signal_gen_v6", 1, [num |-> 10, den |-> 10]),
                 Gen("axis_sg_int4_v2", 4, [num |-> 9, den |-> 10]),
                 Gen("axis_sg_mixmux8_v1", 4, [num |-> 10, den |-> 10]) >>,
     readouts |-> << Readout("axis_dyn_readout_v1", TRUE), Readout("axis_pfb_readout_v4", FALSE) >>,
     timeClock |-> 3, pmem |-> 18, wmem |-> 5, registers |-> 4]

OtherBoard == [Testbench EXCEPT !.name = "zcu216-rb-r27", !.pmem = 20]

MCBoards ==
    ("cluster" :> [library |-> "qblox", config |-> Cluster, mixer |-> Absent])
    @@ ("testbench" :> [library |-> "qick", config |-> Testbench, mixer |-> 40])
    @@ ("other" :> [library |-> "qick", config |-> OtherBoard, mixer |-> 40])

(* Qblox: 2 n + 10 instructions, so 5 pulses fit the QCM and 3 the QRM.    *)
MCPulseCounts == [few |-> 1, fits |-> 4, over |-> 6, readoutFits |-> 2, readoutOver |-> 4]

MCInstructions == [QCM |-> 20, QRM |-> 16]

MCQickPulses == {1, 3, 5, 8}

QickProbes == QB!QickBudgetProbes(5, Absent)

MCSurveys ==
    ("cluster" :> ("qcm-qrm" :> QB!QbloxBudgetProbes(32) \cup QB!QbloxCostProbes))
    @@ ("testbench" :> ("zcu216-testbench" :> QickProbes))
    @@ ("other" :> ("zcu216-testbench" :> QickProbes @@ "zcu216-rb-r27" :> QickProbes))

Cost(perItem, overhead, limit) == [perItem |-> perItem, overhead |-> overhead, limit |-> limit]

ClusterToolchains ==
    {[QCM |-> Cost(n, o, 20), QRM |-> Cost(n, o, limit), samples |-> Cost(1, 0, 32)] :
         n \in 1 .. 3, o \in {8, 10}, limit \in {12, 14, 16, 18, 20}}

BoardToolchains(pmems) ==
    {[pmem |-> Cost(n, 14, limit), wmem |-> Cost(1, 0, wmem), registers |-> Cost(1, 0, 4)] :
         n \in 1 .. 2, limit \in pmems, wmem \in {5, 6}}

MCToolchains ==
    ("cluster" :> {"qcm-qrm" :> t : t \in ClusterToolchains})
    @@ ("testbench" :> {"zcu216-testbench" :> t : t \in BoardToolchains(15 .. 22)})
    @@ ("other" :> {"zcu216-testbench" :> t @@ "zcu216-rb-r27" :> u :
                       t \in BoardToolchains({18}), u \in BoardToolchains({16, 20})})

(* The second run has other programs and more of them. *)
MCNames == << {"a", "b"}, {"a", "b", "c"} >>

MCUnbuildable ==
    {s \in {"mixed"} : \A b \in DOMAIN MCBoards :
        Cor(Mixed(Descriptors[b]), MCBoards[b].mixer)!CannotBuild}
=============================================================================
