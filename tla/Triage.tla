-------------------------------- MODULE Triage --------------------------------
(***************************************************************************)
(* disposition and attribution of src/tools/differential/triage.py, and    *)
(* unused_frame_updates of run.py: what the checker's answer and the       *)
(* vendor's say together about one program.                                *)
(*                                                                         *)
(* A row is what run.py writes: [channels, verdict, rules, fatals, unused, *)
(* outcome, changed, unobservable, lost, roundings].                       *)
(***************************************************************************)
EXTENDS Oracle

Accepted == {"pass", "pass_with_repairs"}

Refused == {"reject", "crash"}

Dispositions ==
    {"agree", "vendor_lenient", "conservative", "unobserved", "over_predicted",
     "missed_repair", "harness", "open", "unsound"}

(* The quantity each repairing rule predicts a change to. *)
RuleToQuantity ==
    [frequency_range |-> "freq", frequency_resolution |-> "freq",
     phase_resolution |-> "phase",
     amplitude_range |-> "gain", amplitude_resolution |-> "gain", envelope_amplitude |-> "gain",
     pulse_length_grid |-> "total_length", schedule_grid |-> "start_time"]

(* unused_frame_updates: no later play or capture of the frame, and for a  *)
(* frequency none before the next set_frequency of the frame.              *)
OnFrame(p, f, kinds, positions) ==
    {j \in positions : p[j].kind \in kinds /\ p[j].frame = f}

\* Fault: a phase shift is also taken to be replaced by the next one.
UpdateUnusedReplaced(p, i) ==
    LET f    == p[i].frame
        rest == (i + 1) .. Len(p)
        uses == OnFrame(p, f, Outputting, rest)
        next == OnFrame(p, f, {p[i].kind}, rest)
    IN  uses = {} \/ (next # {} /\ Min(next) < Min(uses))

UpdateUnused(p, i) ==
    LET f    == p[i].frame
        rest == (i + 1) .. Len(p)
        uses == OnFrame(p, f, Outputting, rest)
        next == OnFrame(p, f, {"set_frequency"}, rest)
    IN  \/ uses = {}
        \/ p[i].kind = "set_frequency" /\ next # {} /\ Min(next) < Min(uses)

UnusedFrameUpdates(p) ==
    {i \in DOMAIN p : p[i].kind \in Updating /\ UpdateUnused(p, i)}

-----------------------------------------------------------------------------
(* attribution: the repairs the checker predicted against the quantities   *)
(* the vendor changed.                                                     *)
DeclaredBehaviors(row) ==
    UNION {IF c \in DOMAIN Behaviors THEN Behaviors[c] ELSE {} : c \in row.channels}

PredictedQuantities(row) == {RuleToQuantity[r] : r \in row.rules \cap DOMAIN RuleToQuantity}

UnreadableQuantities(row) ==
    {RuleToQuantity[r] : r \in {s \in row.rules \cap DOMAIN RuleToQuantity :
                                   RuleToBehavior(s) \cap DeclaredBehaviors(row) # {}}}
    \cup row.unobservable

ChangedQuantities(row) ==
    row.changed \cup (IF row.roundings = {} THEN {} ELSE {"start_time"})

Attribution(row) ==
    IF ~(ChangedQuantities(row) \subseteq PredictedQuantities(row)) THEN "missed_repair"
    ELSE IF ~(PredictedQuantities(row)
                  \subseteq ChangedQuantities(row) \cup UnreadableQuantities(row))
    THEN "over_predicted"
    ELSE "agree"

(* disposition.  UNOBSERVABLE_RULES is empty, so no row is "unobserved".   *)
Documented(row) ==
    \E r \in row.rules : RuleToBehavior(r) \cap DeclaredBehaviors(row) # {}

UpdatesOnly(row) == row.fatals # {} /\ row.fatals \subseteq row.unused

FailAccepted(row) ==
    IF Documented(row) THEN "vendor_lenient"
    ELSE IF UpdatesOnly(row) THEN "conservative" ELSE "open"

RepairsUnmoved(row) ==
    IF row.rules = {"schedule_grid"} /\ row.roundings # {} THEN "agree"
    ELSE IF Documented(row) THEN "vendor_lenient" ELSE "open"

Disposition(row) ==
    IF row.outcome = "not_lowerable" \/ row.lost # {} \/ row.verdict = "tool_error"
    THEN "harness"
    ELSE CASE row.verdict \in Accepted /\ row.outcome \in Refused -> "unsound"
           [] row.verdict = "fail" /\ row.outcome \in Refused -> "agree"
           [] row.verdict = "fail" /\ row.outcome \notin Refused -> FailAccepted(row)
           [] row.verdict = "pass" /\ row.outcome = "accept_round" -> "missed_repair"
           [] row.verdict = "pass" /\ row.outcome = "accept" -> "agree"
           [] row.verdict = "pass_with_repairs" /\ row.outcome = "accept_round" ->
                  Attribution(row)
           [] row.verdict = "pass_with_repairs" /\ row.outcome = "accept" ->
                  RepairsUnmoved(row)
=============================================================================
