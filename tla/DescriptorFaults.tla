--------------------------- MODULE DescriptorFaults ---------------------------
(***************************************************************************)
(* Descriptors with one wrong declaration, as fault injection makes them   *)
(* (run.py: "Fault injection passes a mutant as the first and the correct  *)
(* descriptor as the second"; the injector itself is in another            *)
(* repository).  A value is wrong by one step, or a declaration missing.   *)
(*                                                                         *)
(* Left alone is what no rule reads: the grids of a channel that declares  *)
(* no constraint, an envelope grid of one sample, a budget of registers.   *)
(***************************************************************************)
EXTENDS Capability, SequencesExt

OneStepOff(v, step) == {v - step, v + step}

(* The step of a limit: its resolution, or the duration grid of a length.  *)
StepOf(ch, k) == IF k.resolution = Absent THEN ch.durationGrid ELSE k.resolution

LimitFields == {"minUnits", "maxUnits", "min", "max", "saturateMax"}

WrongConstraints(ch, k) ==
    UNION {{[k EXCEPT ![field] = v] : v \in OneStepOff(k[field], StepOf(ch, k))} :
               field \in {x \in LimitFields : k[x] # Absent}}
    \cup (IF k.resolution = Absent THEN {} ELSE {[k EXCEPT !.resolution = 2 * @]})
    \cup (IF k.id = "frequency_range" THEN {[k EXCEPT !.postMixer = ~@]} ELSE {})

WrongCapabilities(caps) ==
    (IF caps.memory = Absent THEN {}
     ELSE {[caps EXCEPT !.memory = v] : v \in OneStepOff(caps.memory, caps.sampleGrid)})
    \cup (IF caps.nTones = Absent THEN {}
          ELSE {[caps EXCEPT !.nTones = v] : v \in OneStepOff(caps.nTones, 1)})

WrongChannels(ch) ==
    {[ch EXCEPT !.durationGrid = 2 * @], [ch EXCEPT !.scheduleGrid = 2 * @]}
    \cup {[ch EXCEPT !.capabilities = caps] : caps \in WrongCapabilities(ch.capabilities)}
    \cup UNION {{[ch EXCEPT !.constraints[i] = k] :
                     k \in WrongConstraints(ch, ch.constraints[i])} :
                    i \in DOMAIN ch.constraints}

(* A missing constraint, or a missing initial_phase_update.  Only a drive  *)
(* channel's is taken away: no program of the corpus gives a frame of a    *)
(* readout an initial phase.                                               *)
LesserChannels(ch) ==
    {[ch EXCEPT !.constraints = RemoveAt(@, i)] :
         i \in {j \in DOMAIN ch.constraints : ch.constraints[j].grid # 1}}
    \cup {[ch EXCEPT !.constraints[i].initialPhaseUpdate = FALSE] :
              i \in {j \in DOMAIN ch.constraints : /\ ch.kind = "drive"
                                                   /\ ch.constraints[j].initialPhaseUpdate}}

WrongBudgets(b) ==
    {[b EXCEPT !.limit = v] : v \in OneStepOff(b.limit, b.perItem)}
    \cup {[b EXCEPT !.overhead = v] : v \in OneStepOff(b.overhead, b.perItem)}
    \cup {[b EXCEPT !.perItem = @ + 1]}

-----------------------------------------------------------------------------
(* d is a descriptor [channels, budgets, ...]. *)
Constrained(d) == {c \in DOMAIN d.channels : d.channels[c].constraints # << >>}

WithWrongValue(d) ==
    UNION {{[d EXCEPT !.channels[c] = ch] : ch \in WrongChannels(d.channels[c])} :
               c \in Constrained(d)}
    \cup UNION {{[d EXCEPT !.budgets[i] = b] : b \in WrongBudgets(d.budgets[i])} :
                    i \in {j \in DOMAIN d.budgets : d.budgets[j].id # "loop_registers"}}

WithoutDeclaration(d) ==
    UNION {{[d EXCEPT !.channels[c] = ch] : ch \in LesserChannels(d.channels[c])} :
               c \in Constrained(d)}
=============================================================================
