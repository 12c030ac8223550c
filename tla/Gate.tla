--------------------------------- MODULE Gate ---------------------------------
(***************************************************************************)
(* src/tools/descriptor/check_descriptor.py: the gate between a built      *)
(* descriptor and the catalog of survey rows it cites.  A citation must    *)
(* match a row, and the cost model of a budget must predict every counted  *)
(* row that was measured on the hardware the budget describes.  A catalog  *)
(* is a set of rows (module Survey), a descriptor the record of module     *)
(* QbloxDescriptor or QickDescriptor.  The schema check is left out, and   *)
(* so are the citations of constraints, which are resolved like these.     *)
(***************************************************************************)
EXTENDS Integers, Sequences, SequencesExt, FiniteSetsExt

CONSTANT Absent

RowsFor(catalog, cited) ==
    {row \in catalog : row.config = cited.config /\ row.axis = cited.axis}

Resolves(catalog, cited) ==
    \E row \in RowsFor(catalog, cited) : row.note = cited.note /\ row.outcome = cited.outcome

(* The modules the channels of a budget live on: none on a QICK board.     *)
BudgetModules(doc, b) ==
    LET names == IF b.channels = {} THEN DOMAIN doc.channels ELSE b.channels
    IN  {doc.channels[c].module : c \in names} \ {Absent}

\* Fault: a row judges every budget that cites it.
OnItsHardwareAny(doc, b, row) == TRUE

OnItsHardware(doc, b, row) ==
    \/ BudgetModules(doc, b) = {}
    \/ row.module = Absent
    \/ row.module \in BudgetModules(doc, b)

(* The code asks whether the name of the descriptor ends with the cited    *)
(* config.  A descriptor is named after its config, and no config ends     *)
(* with the name of another, so this is the config it was built from.      *)
DecisiveRows(catalog, doc, b, cited) ==
    IF doc.config # cited.config THEN {}
    ELSE {row \in RowsFor(catalog, cited) :
             /\ row.note = cited.note
             /\ row.param = "n_pulses"
             /\ OnItsHardware(doc, b, row)}

Predicted(b, n) == IF b.perItem * n + b.overhead > b.limit THEN "reject" ELSE "accept"

(* The band of a budget of registers is not a linear cost. *)
IsLinear(b) == b.id # "loop_registers"

(* check_cost_model: the rows that judge b, once per citation. *)
Judged(catalog, doc, b) ==
    IF IsLinear(b) THEN UNION {DecisiveRows(catalog, doc, b, cited) : cited \in b.evidence}
    ELSE {}

Predicts(catalog, doc, b) ==
    \A row \in Judged(catalog, doc, b) : Predicted(b, row.requested) = row.outcome

(* check: whether doc passes, and whether any row judged it. *)
CheckDescriptor(catalog, doc) ==
    LET budgets == ToSet(doc.budgets)
    IN  [passed |-> \A b \in budgets : /\ \A cited \in b.evidence : Resolves(catalog, cited)
                                       /\ Predicts(catalog, doc, b),
         judged |-> \E b \in budgets : Judged(catalog, doc, b) # {}]
=============================================================================
