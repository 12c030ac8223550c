------------------------------ MODULE Q1Timeline ------------------------------
(***************************************************************************)
(* timeline() of src/tools/oracle/qblox/toolchain.py: the interpreter that *)
(* runs a compiled Q1ASM program as the sequencer would and notes when     *)
(* each instruction of the schedule body is executed.                      *)
(*                                                                         *)
(* An instruction is [label, op, value, time, to]: value is the argument   *)
(* it sets or counts, time the argument that holds its duration, Never     *)
(* when that is a register, to the register it writes or the label it      *)
(* jumps to.                                                               *)
(***************************************************************************)
EXTENDS Integers, Sequences, FiniteSets, FiniteSetsExt

CONSTANTS
    Never,              \* the clock before the repetition loop is entered
    MaxSteps            \* MAX_STEPS

VARIABLES
    text,               \* the program
    pc,                 \* the line to be executed
    regs,               \* the registers written so far: name -> value
    now,                \* ns of schedule time, Never during the setup
    events,             \* [op, value, t] of every instruction in the body
    steps,              \* lines executed
    reader              \* "idle", "running", "finished" or "raised"

timelineVars == << text, pc, regs, now, events, steps, reader >>

Timed == {"upd_param", "play", "acquire", "wait"}

Untimed == {"set_freq", "set_ph_delta", "set_awg_gain", "set_awg_offs", "reset_ph",
            "move", "add", "sub", "loop", "stop", "wait_sync"}

Lines == DOMAIN text

LineOf(label) == CHOOSE n \in Lines : text[n].label = label

(* The first label opens the repetition loop. *)
LoopStart == Min({n \in Lines : text[n].label # 0})

Line == text[pc]

Clock == IF pc = LoopStart THEN 0 ELSE now

TInit ==
    /\ text = << >>
    /\ pc = 1
    /\ regs = << >>
    /\ now = Never
    /\ events = << >>
    /\ steps = 0
    /\ reader = "idle"

Load(program) ==
    /\ text' = program
    /\ pc' = 1
    /\ regs' = << >>
    /\ now' = Never
    /\ events' = << >>
    /\ steps' = 0
    /\ reader' = "running"

(* The head of the interpreter loop: a line there is, known, in time. *)
Executes(ops) ==
    /\ reader = "running"
    /\ steps < MaxSteps
    /\ pc <= Len(text)
    /\ Line.op \in ops
    /\ steps' = steps + 1
    /\ UNCHANGED text

(* The program is over, or the readback will not guess: a line that is not *)
(* known, or more steps than any compiled schedule takes.                  *)
RanOut == pc > Len(text) \/ (pc <= Len(text) /\ Line.op = "stop")

Known == RanOut \/ Line.op \in Timed \cup Untimed

Halt ==
    /\ reader = "running"
    /\ steps = MaxSteps \/ RanOut \/ ~Known
    /\ reader' = IF steps < MaxSteps /\ RanOut THEN "finished" ELSE "raised"
    /\ UNCHANGED << text, pc, regs, now, events, steps >>

(* move, and the arithmetic on the register that is written. *)
Written ==
    CASE Line.op = "move" -> Line.value
      [] Line.op = "add"  -> regs[Line.to] + Line.value
      [] Line.op = "sub"  -> regs[Line.to] - Line.value

SetRegister ==
    /\ Executes({"move", "add", "sub"})
    /\ regs' = [r \in DOMAIN regs \cup {Line.to} |-> IF r = Line.to THEN Written ELSE regs[r]]
    /\ now' = Clock
    /\ pc' = pc + 1
    /\ UNCHANGED << events, reader >>

(* loop: the register counts down; the way back to the first label is not  *)
(* taken once it is 0, which ends the one pass that is read.               *)
\* Fault: the loop jumps back without counting down.
LoopUncounted ==
    /\ Executes({"loop"})
    /\ LET left   == regs[Line.value]
           target == LineOf(Line.to)
       IN  /\ IF target = LoopStart /\ left = 0
              THEN reader' = "finished" /\ UNCHANGED pc
              ELSE pc' = (IF left = 0 THEN pc + 1 ELSE target) /\ UNCHANGED reader
    /\ now' = Clock
    /\ UNCHANGED << regs, events >>

Loop ==
    /\ Executes({"loop"})
    /\ LET left   == regs[Line.value] - 1
           target == LineOf(Line.to)
       IN  /\ regs' = [regs EXCEPT ![Line.value] = left]
           /\ IF target = LoopStart /\ left = 0
              THEN reader' = "finished" /\ UNCHANGED pc
              ELSE pc' = (IF left = 0 THEN pc + 1 ELSE target) /\ UNCHANGED reader
    /\ now' = Clock
    /\ UNCHANGED events

(* Before the repetition loop nothing is schedule time. *)
Bodied == (Timed \cup Untimed) \ {"move", "add", "sub", "loop", "stop"}

Setup ==
    /\ Executes(Bodied)
    /\ Clock = Never
    /\ pc' = pc + 1
    /\ UNCHANGED << regs, now, events, reader >>

(* reset_ph and upd_param N open the loop: the clock then reads N - 4, the *)
(* delay the scheduler folded into the instruction.                        *)
PreambleTime == 4

PreambleHere ==
    /\ events = << >>
    /\ Line.op = "reset_ph"
    /\ pc < Len(text)
    /\ text[pc + 1].op = "upd_param"

(* A duration held by a register would be a guess, and is refused. *)
Literal(n) == text[n].op \in Timed => text[n].time # Never

Guessed == ~Literal(pc) \/ (PreambleHere /\ ~Literal(pc + 1))

OpensBody == PreambleHere /\ ~Guessed /\ text[pc + 1].time >= PreambleTime

Preamble ==
    /\ Executes(Bodied)
    /\ Clock # Never
    /\ OpensBody
    /\ now' = text[pc + 1].time - PreambleTime
    /\ pc' = pc + 2
    /\ UNCHANGED << regs, events, reader >>

Body ==
    /\ Executes(Bodied)
    /\ Clock # Never
    /\ ~OpensBody
    /\ events' = Append(events, [op |-> Line.op, value |-> Line.value, t |-> Clock])
    /\ now' = IF Line.op \in Timed /\ ~Guessed THEN Clock + Line.time ELSE Clock
    /\ reader' = IF Guessed THEN "raised" ELSE reader
    /\ pc' = pc + 1
    /\ UNCHANGED regs

TimelineStep ==
    \/ Halt
    \/ SetRegister
    \/ Loop
    \/ Setup
    \/ Preamble
    \/ Body
=============================================================================
