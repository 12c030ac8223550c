------------------------ MODULE DifferentialProperties ------------------------
(***************************************************************************)
(* What the rows of a differential run are evidence of.  The checker and   *)
(* the lowering are two programs in two languages that keep the same       *)
(* clocks; the readback is a third.  A row is worth something only where   *)
(* the three agree about a vendor that does exactly what it is told.       *)
(***************************************************************************)
EXTENDS Differential

-----------------------------------------------------------------------------
(* What an exact vendor changed is what had to be rounded. *)
Exact ==
    /\ vendor # Absent
    /\ vendor.late = 0 /\ vendor.register = NoRegister /\ vendor.without = 0

Judged == stage = "filed" /\ row.outcome \in {"accept", "accept_round"}

(* missed_repair is the checker's miss and nothing else: on a vendor that  *)
(* rounds what it is given to the nearest step, no accepted program is     *)
(* filed as one, however the doubles, the barriers and the reference of    *)
(* the instruction stream shifted what was compared.  The one exception is *)
(* a tone table that no play sounds: the vendor rounds it when it is       *)
(* declared, and the checker looks at tones when they are played.          *)
Silent == ChangedQuantities(row) \ PredictedQuantities(row)

Unsounded ==
    {c \in Generators : ~\E i \in DOMAIN program :
                           program[i].kind = "play" /\ ChannelOf(program[i].frame) = c}

NothingMissed ==
    Judged /\ Exact /\ Disposition(row) = "missed_repair"
        => Silent # {} /\ Silent \subseteq ToneChanges(Unsounded)

(* A vendor that moves one start or one register of a program the checker  *)
(* passed clean is seen to, whichever output and quantity it was, and the  *)
(* row is the checker's miss.                                              *)
SilentMoveFiled ==
    Judged /\ row.verdict = "pass" /\ row.lost = {} =>
        /\ vendor.late # 0 => "start_time" \in row.changed
        /\ vendor.register # NoRegister => vendor.register[2] \in row.changed
        /\ row.changed # {} => Disposition(row) = "missed_repair"

(* Quantity by quantity, on an exact vendor: start times change exactly    *)
(* where the checker reports the schedule grid, lengths exactly where it   *)
(* reports the length grid, however clocks and barriers got there.  A      *)
(* sampled play has no length to read.                                     *)
Constant(el) == el.kind # "play" \/ Muxed(ChannelOf(el.frame)) \/ IsConst(el)

TimesPredicted ==
    /\ "schedule_grid" \in row.rules <=> "start_time" \in ChangedQuantities(row)
    /\ (\A i \in DOMAIN program : Constant(program[i])) =>
           ("pulse_length_grid" \in row.rules <=> "total_length" \in ChangedQuantities(row))

RepairsExact ==
    Judged /\ Exact /\ row.lost = {} /\ row.verdict \in Accepted => TimesPredicted

-----------------------------------------------------------------------------
(* Every program ends in a row, unless the vendor's assembly holds an      *)
(* instruction whose duration the readback will not guess: no loop of a    *)
(* compiled program keeps the interpreter from its end.                    *)
RowFiled == <>(stage = "filed" \/ (stage = "stopped" /\ vendor.strange # "nothing"))
=============================================================================
