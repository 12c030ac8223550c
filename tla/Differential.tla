----------------------------- MODULE Differential -----------------------------
(***************************************************************************)
(* One program through the loop of src/tools/differential/run.py: the      *)
(* checker reads it, the oracle of the descriptor's library lowers it,     *)
(* compiles it and reads back what the vendor changed, and the two answers *)
(* become a row that Triage disposes of.                                   *)
(*                                                                         *)
(* The vendor is external: it may refuse any plan, move any one start or   *)
(* register of it, or leave it as it is.  Nothing else is left to chance.  *)
(***************************************************************************)
EXTENDS Check, Lowering, QickReadback, QbloxReadback, Q1Timeline, Triage

VARIABLES
    program,            \* the case of the corpus
    stage,              \* "checking", "lowering", "compiling", "observing",
                        \* "filed" or "stopped"
    vendor,             \* the vendor's answer; Absent before it answers
    unread,             \* Qblox: the frames whose sequencer is to be read
    moved,              \* Qblox: the quantities found changed so far
    row                 \* the row of the case; Absent until it is written

driverVars == << program, stage, vendor, unread, moved, row >>

allVars == << vars, lowerVars, timelineVars, driverVars >>

Programs == SeqOf(ElementSet, MaxElements)

DInit ==
    /\ Init
    /\ LInit
    /\ TInit
    /\ program \in Programs
    /\ stage = "checking"
    /\ vendor = Absent
    /\ unread = {}
    /\ moved = {}
    /\ row = Absent

-----------------------------------------------------------------------------
(* run_qconform: the checker on the whole program, to its exit. *)
ReadNext == Len(prog) < Len(program) /\ ReadElement(program[Len(prog) + 1])

ReadAll == Len(prog) = Len(program) /\ EndOfProgram

CheckStep ==
    \/ Bind
    \/ ReadNext
    \/ ReadAll
    \/ CloseSlots
    \/ CloseSpacing
    \/ SkipBudget
    \/ CountBudget
    \/ Finish

Checking ==
    /\ stage = "checking"
    /\ CheckStep
    /\ stage' = IF phase' \in {"done", "tool_error"} THEN "lowering" ELSE stage
    /\ UNCHANGED << lowerVars, timelineVars, program, vendor, unread, moved, row >>

-----------------------------------------------------------------------------
(* The row.  A tool error has no report: no rules, no elements. *)
Reported == IF report = Absent THEN {} ELSE ToSet(report.rejections)

FiredRules == {r.rule : r \in Reported}

FatalElements == {r.element : r \in {s \in Reported : s.severity = "fatal"}}

RowOf(outcome, changed, unobservable, lost, roundings) ==
    [channels |-> DOMAIN Channels,
     verdict |-> IF report = Absent THEN "tool_error" ELSE report.verdict,
     rules |-> FiredRules, fatals |-> FatalElements,
     unused |-> UnusedFrameUpdates(program), outcome |-> outcome, changed |-> changed,
     unobservable |-> unobservable, lost |-> lost, roundings |-> roundings]

File(r) == stage' = "filed" /\ row' = r

(* vendor.plan: a program that cannot be lowered is a row of its own.      *)
Plans ==
    /\ stage = "lowering"
    /\ BeginLowering(program) \/ LowerStep
    /\ CASE lowering' = "not_lowerable" -> File(RowOf("not_lowerable", {}, {}, {}, {}))
         [] lowering' = "planned" -> stage' = "compiling" /\ UNCHANGED row
         [] OTHER -> UNCHANGED << stage, row >>
    /\ UNCHANGED << vars, timelineVars, program, vendor, unread, moved >>

-----------------------------------------------------------------------------
(* External: the vendor's answer.  lead is the reference before the first  *)
(* output, again an output before which it moves once more; late and       *)
(* register are what it changed for no reason of the plan; without is the  *)
(* frame it gave no sequencer, 0 when each has one; strange says what the  *)
(* readback cannot read in its assembly: an instruction it does not know,  *)
(* a duration held by a register, or nothing.                              *)
NoRegister == << 0, "none" >>

Faultless ==
    [outcome |-> "compiled", lead |-> 0, again |-> 0, late |-> 0, register |-> NoRegister,
     without |-> 0, strange |-> "nothing"]

Faithful == {[Faultless EXCEPT !.lead = 2]}

Restarts ==
    {[Faultless EXCEPT !.lead = 2, !.again = n] :
        n \in {m \in 2 .. Len(plan.outputs) :
                  \A i \in m .. Len(plan.outputs) : Tick(plan, i, 0) >= 1}}

Delays == {[Faultless EXCEPT !.late = n] : n \in 2 .. Len(plan.outputs)}

Registers ==
    UNION {{[Faultless EXCEPT !.register = << p, q >>] : q \in DOMAIN plan.pulses[p].asked} :
              p \in DOMAIN plan.pulses}

Refusals == {[Faultless EXCEPT !.outcome = refused] : refused \in Refused}

Strange == {[Faultless EXCEPT !.strange = what] : what \in {"instruction", "duration"}}

Missing == {[Faultless EXCEPT !.without = f] : f \in plan.clocks}

Answers ==
    Faithful \cup Refusals
    \cup IF Qick THEN Restarts \cup Delays \cup Registers ELSE Strange \cup Missing

Compiles ==
    /\ stage = "compiling"
    /\ \E answer \in Answers :
          /\ vendor' = answer
          /\ IF answer.outcome \in Refused
             THEN /\ File(RowOf(answer.outcome, {}, {}, plan.lost, plan.roundings))
                  /\ UNCHANGED unread
             ELSE /\ stage' = "observing"
                  /\ unread' = IF Qick THEN {} ELSE plan.clocks
                  /\ UNCHANGED row
    /\ UNCHANGED << vars, lowerVars, timelineVars, program, moved >>

-----------------------------------------------------------------------------
(* vendor.observe *)
Observed(changed, unobservable) ==
    File(RowOf(IF changed = {} THEN "accept" ELSE "accept_round", changed, unobservable,
               plan.lost, plan.roundings))

ObserveQick ==
    /\ stage = "observing" /\ Qick
    /\ Observed(QickChanges(plan, Stream(plan, vendor.lead, vendor.late, vendor.again),
                            vendor.register), {})
    /\ UNCHANGED << vars, lowerVars, timelineVars, program, vendor, unread, moved >>

(* One sequencer after another, in the order of the frames; the first that *)
(* cannot be read ends the whole run.                                      *)
Reading == Min(unread)

Text ==
    CASE vendor.strange = "instruction" -> << Marked(1, Instruction("asr", 0, 0)) >>
      [] vendor.strange = "duration" ->
             << Marked(1, Instruction("reset_ph", 0, 0)), Instruction("wait", 0, Never) >>
      [] OTHER -> Assembled(plan, Reading)

AtSequencer == stage = "observing" /\ ~Qick /\ unread # {} /\ reader = "idle"

(* A frame whose key is not among the portclocks has changed its starts,   *)
(* and there is nothing else of it to read.                                *)
MissSequencer ==
    /\ AtSequencer
    /\ Reading = vendor.without
    /\ moved' = moved \cup {"start_time"}
    /\ unread' = unread \ {Reading}
    /\ UNCHANGED << vars, lowerVars, timelineVars, program, stage, vendor, row >>

OpenSequencer ==
    /\ AtSequencer
    /\ Reading # vendor.without
    /\ Load(Text)
    /\ UNCHANGED << vars, lowerVars, driverVars >>

RunSequencer ==
    /\ stage = "observing" /\ ~Qick
    /\ TimelineStep
    /\ UNCHANGED << vars, lowerVars, driverVars >>

CompareSequencer ==
    /\ stage = "observing" /\ ~Qick /\ reader = "finished"
    /\ moved' = moved \cup FrameChanges(plan, Reading, events)
    /\ unread' = unread \ {Reading}
    /\ reader' = "idle"
    /\ UNCHANGED << vars, lowerVars, text, pc, regs, now, events, steps,
                    program, stage, vendor, row >>

ObserveQblox ==
    /\ stage = "observing" /\ ~Qick /\ unread = {}
    /\ Observed(moved, QbloxUnobservable(plan))
    /\ UNCHANGED << vars, lowerVars, timelineVars, program, vendor, unread, moved >>

(* A readback that raises: no row of any program is written. *)
Stops ==
    /\ stage = "observing" /\ reader = "raised"
    /\ stage' = "stopped"
    /\ UNCHANGED << vars, lowerVars, timelineVars, program, vendor, unread, moved, row >>

Over == stage \in {"filed", "stopped"}

Proceeds ==
    \/ Checking
    \/ Plans
    \/ Compiles
    \/ ObserveQick
    \/ MissSequencer
    \/ OpenSequencer
    \/ RunSequencer
    \/ CompareSequencer
    \/ ObserveQblox
    \/ Stops

DNext == Proceeds \/ (Over /\ UNCHANGED allVars)

(* One process, which goes on as long as it can. *)
DSpec == DInit /\ [][DNext]_allVars /\ WF_allVars(Proceeds)
=============================================================================
