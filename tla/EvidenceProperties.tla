-------------------------- MODULE EvidenceProperties --------------------------
(***************************************************************************)
(* What makes the evidence for a descriptor worth having.                  *)
(***************************************************************************)
EXTENDS Evidence

(* The families that walk a limit: the rule at stake and, where the rung   *)
(* does not say it, the end of the range.                                  *)
Walks ==
    [pulse_length_range_min           |-> << "pulse_length_range", "min" >>,
     pulse_length_range_max           |-> << "pulse_length_range", "max" >>,
     mux_pulse_length_range_min       |-> << "pulse_length_range", "min" >>,
     mux_pulse_length_range_max       |-> << "pulse_length_range", "max" >>,
     readout_length_range_min         |-> << "readout_length_range", "min" >>,
     readout_length_range_max         |-> << "readout_length_range", "max" >>,
     frequency_range                  |-> << "frequency_range", "" >>,
     readout_frequency_range          |-> << "frequency_range", "" >>,
     mux_tone_frequency               |-> << "frequency_range", "" >>,
     amplitude_range                  |-> << "amplitude_range", "" >>,
     mux_tone_amplitude               |-> << "amplitude_range", "" >>,
     envelope_amplitude               |-> << "envelope_amplitude", "max" >>,
     start_spacing                    |-> << "start_spacing", "min" >>,
     initial_phase_update             |-> << "start_spacing", "min" >>,
     frequency_update_spacing         |-> << "frequency_update_spacing", "min" >>,
     readout_frequency_update_spacing |-> << "frequency_update_spacing", "min" >>,
     capture_spacing                  |-> << "capture_spacing", "min" >>,
     mux_tone_count                   |-> << "mux_tone_count", "max" >>,
     pmem_words                       |-> << "pmem_words", "max" >>,
     wmem_words                       |-> << "wmem_words", "max" >>]

RuleOf(name) == Walks[name[2]][1]

EndOf(name) == IF name[3] = "" THEN Walks[name[2]][2] ELSE name[3]

Below == {"far_below", "just_below"}

Above == {"just_above", "far_above", "over", "one_over", "over_limit"}

(* A maximum that saturates is moved itself.                               *)
Saturates(name) ==
    /\ EndOf(name) = "max"
    /\ name[1] \in DOMAIN Doc.channels
    /\ \E k \in ToSet(Doc.channels[name[1]].constraints) :
          k.id = RuleOf(name) /\ k.saturateMax # Absent

(* Two updates of the frequency at one time are too close, where two other *)
(* starts are one start.                                                   *)
Outside(name) ==
    LET rung == name[4]
    IN  IF EndOf(name) = "min"
        THEN \/ rung \in Below
             \/ rung = "same_time" /\ RuleOf(name) = "frequency_update_spacing"
        ELSE \/ rung \in Above
             \/ rung = "at" /\ Saturates(name)

(* A program of a ladder tests the limit it is named for: the checker      *)
(* names the rule on every rung outside the limit and on none within, as   *)
(* the channel, its mixer, its grid and its unit make the device see it;   *)
(* what a maximum clamps is repaired and only what is past it refused,     *)
(* although both are reported under one rule (check.c saturates);          *)
(* and no program of the corpus, designed or drawn, is one the checker     *)
(* cannot answer (corpus.py build_corpus, random_cases).                   *)
CorpusOnTarget ==
    step = "building" /\ source = "plain" =>
        IF draft # Absent THEN AnswerOf(Doc, DraftProgram).verdict # "tool_error"
        ELSE \A case \in ToSet(Corpora[board]) :
                LET name   == case.name
                    answer == AnswerOf(Doc, case.program)
                IN  /\ answer.verdict # "tool_error"
                    /\ name[2] \in DOMAIN Walks =>
                          /\ RuleOf(name) \in answer.rules <=> Outside(name)
                          /\ Saturates(name) =>
                                (answer.verdict = "fail" <=> name[4] \in Above)

-----------------------------------------------------------------------------
(* A wrong declaration is seen: some program of the corpus is answered     *)
(* otherwise than with the correct descriptor.  A wrong value is even seen *)
(* by the corpus that is generated from it, although that corpus puts its  *)
(* rungs around the wrong limit; a missing declaration takes its ladder    *)
(* with it, so only the corpus of the correct descriptor can tell          *)
(* (run.py:20-23, corpus.py:48-72 and class_key).                          *)
FaultsSeen ==
    shipped # Absent =>
        /\ Tells(Corpora[board], shipped)
        /\ shipped \in DF!WithWrongValue(Doc) => Tells(CorpusOf(board, shipped), shipped)

-----------------------------------------------------------------------------
(* The counted probes of a budget's own hardware. *)
OwnProbes(b) ==
    {probe \in UNION {Surveys[board][c] : c \in DOMAIN Surveys[board] \cap {Doc.config}} :
        /\ probe.param = "n_pulses"
        /\ \/ b.channels = {}
           \/ \E c \in b.channels : Doc.channels[c].module = probe.module}

Counted == {b \in ToSet(Doc.budgets) : b.id = "pmem_words"}

(* The gate compares like with like.  A descriptor that passes with rows   *)
(* judged predicts every counted probe of every module its budgets are     *)
(* for, cited or not; and one that predicts them all is not held back by   *)
(* the rows of another module (check_descriptor.py decisive_rows).         *)
GateComparesLikeWithLike ==
    gate # Absent =>
        LET Right(b) ==
                \A probe \in OwnProbes(b) :
                    \E row \in catalog :
                        /\ row.config = Doc.config
                        /\ row.note = probe.note
                        /\ row.requested = probe.requested
                        /\ row.outcome = Predicted(b, probe.requested)
            right == \A b \in Counted : Right(b)
            found == \A b \in ToSet(Doc.budgets) : \A cited \in b.evidence :
                        Resolves(catalog, cited)
        IN  /\ gate.passed /\ gate.judged => right
            /\ right /\ found => gate.passed
=============================================================================
