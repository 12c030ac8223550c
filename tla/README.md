# qconform in TLA+

qconform reads a capability descriptor of a quantum control device and a pulse
program, both JSON, and reports every place where the program asks for something
the device, or its toolchain, will refuse or silently change.  The checker is a
single C99 process without persistent state.  Around it stand Python tools that
build the descriptors from a board's config, hold them against surveys of the
vendors' toolchains, generate a corpus of programs from them, and compare, program
by program, what the checker says with what the vendor's toolchain does.

What makes the checker hard to test is long sequences of legal elements on several
frames whose units do not divide one another, values that are checked lazily and
once, rules that compare only neighbours but promise something of every pair,
limits measured against an end other frames still move, and exact arithmetic that
must refuse rather than wrap.  What makes the tools hard to test is that they are
the test: a clock kept differently by the lowering, a lost value of a readback, a
ladder that misses its limit or a corpus of two generations gives a green table and
no evidence.

This directory models the checker core (`src/src/check.c`), the arithmetic and the
memory under it (`rational.c`, `arena.c`), the command around it (`main.c` and the
buffer of `report.c`), and the tools: the lowerings, the readbacks, the driver and
its triage, the descriptor builders, the gate, and the corpus generator.

## Inventory

| part | source | state | operations | in this project |
|---|---|---|---|---|
| element loop and closing checks | `check.c` 313-1536 | clock and history per frame, sink, coverage table, program end, envelope memory, budget results | one handler per element kind, end checks, budgets, report | `Check` and the modules under it; `CheckPass` as a function |
| descriptor validation | `check.c` 79-310 | none | `validate_descriptor` | `Descriptor`, `DescriptorSpace` |
| input records | `capability.h`, `ir.h`, `enums.h` | constants of a run | lookups | `Capability` |
| exact rationals | `rational.c`, `intmath.h` | none | reduce, add, mul, div, round | `TickMath`, `Rational` |
| parser | `parse.c` | name tables while parsing | `parse_program`, `parse_descriptor` | its guarantees are ASSUMEs of `Check` |
| JSON reader | `json.c` | a cursor, a depth | recursive descent over bytes | not modelled |
| report writer | `report.c` | a growing buffer | `render_report` | the buffer in `Session`, the verdict and the counts in `Check`; the text is not modelled |
| arena | `arena.c` | a list of blocks | bump allocation | `Arena` |
| command line | `main.c` | none | read, parse, check, render, write, exit status | `Session` |
| lowerings | `tools/oracle/base.py`, `qick/lower.py`, `qblox/lower.py` | clock, frequency and phase per frame, the plan | `build_plan`, element by element | `Oracle`, `QickLowering`, `QbloxLowering`, `Lowering` |
| readbacks | `qick/observe.py`, `qblox/observe.py`, `qblox/toolchain.py` | counters of the instruction stream; registers of the interpreter | `observe`, `timeline` | `QickReadback`, `Q1Timeline`, `QbloxReadback` |
| differential driver | `tools/differential/run.py`, `triage.py` | one row per program | check, lower, compile, observe, file, dispose | `Differential`, `Triage` |
| surveys | `tools/survey/` | rows of a catalog | probes, runners | `Survey`: the budget probes |
| descriptor builders | `tools/descriptor/build_qick.py`, `build_qblox.py` | none | config to descriptor | `QickDescriptor`, `QbloxDescriptor` |
| gate | `tools/descriptor/check_descriptor.py` | none | citations and cost models against rows | `Gate` |
| corpus generator | `tools/differential/corpus.py` | a directory of programs and its index | ladders, random programs, `main` | `Corpus`, `CorpusFiles`, `Evidence` |
| exporters, format validation, preflight | `tools/exporter/`, `tools/format/`, `preflight.py` | none | conversion, schema | not modelled |

Inside the command the parts form a pipeline: `main` reads two files into the
arena, `parse.c` turns the JSON trees into a `Descriptor` and an `IrProgram`,
`check` walks the elements once and fills a `Report`, `report.c` prints it, and the
exit status is the verdict.  Inside `check` everything interacts through the
`FrameState` of each frame, the sink, the coverage table and the end of the
program.  Each stage may give up with a *tool error*, and then there is no report.

The tools form a second pipeline, over files: a builder writes a descriptor, the
gate reads it with the catalog of the surveys, `corpus.py` writes programs made
from it into a directory, and `run.py` reads that directory, calls the command and
the oracle of the descriptor's library on every program, and writes a row each;
`triage.py` disposes of the rows.  The vendors' toolchains are external.

What makes each part correct:

* element loop: frame clocks count whole units and never go back; barriers align
  all members to the latest; a clean report means that every rule holds of every
  operation, not only of neighbours; a rejection is never spurious; what is
  checked once (tone table, carrier, envelope load) is checked at the right
  moment and not twice;
* closing checks: margins are taken against the end of the whole program;
* budgets: a fatal rejection only from a proven lower bound, an indeterminate
  class never masked;
* report: the sorted sink, nothing lost, the verdict its worst severity, repairs
  exactly on repairable rejections;
* validation: what it accepts is what the rules can express and enforce;
* arena: allocations are aligned, inside their block and disjoint, sizes near
  `SIZE_MAX` are refused and not wrapped, every block is freed;
* command: what is parsed is the whole file, a report is written whole or not at
  all, and the exit status is the verdict exactly when nothing failed;
* lowering: it keeps the checker's clocks, and every output is passed the values
  its frame has at that point, although frames are compiled away;
* readback and triage: `missed_repair` names a miss of the checker and nothing the
  tools did themselves, and no single move of the vendor goes unseen;
* corpus: each ladder crosses the limit it is named for, a wrong declaration
  changes the answer to some program, and a row is about one corpus;
* gate: a descriptor passes exactly when its cost models predict the rows measured
  on its own hardware.

## Modules

    TickMath              floor division, divisibility, round-half-to-even
      Capability          descriptor and program as CONSTANTS, rejection records
        QuantityRules     rules about a value: frequency, phase, amplitude, tones, envelopes
          TimeRules       rules about time: first use, schedule grid, spacing, length
            ProgramRules  the initial state, barriers, owners of memory, budget arithmetic
              Check       check(): one action per element kind and per closing stage
                CheckProperties  a history of starts, and the properties over programs
                  MCCheck        three devices and their programs (with MCDevices)
              CheckPass   check() as a function of a whole program
        Descriptor        validate_descriptor (extended by Check and CheckPass)
        MCDevices         constructors for constraints, channels, elements
        DescriptorFaults  descriptors with one wrong declaration
        Corpus            the programs that probe a descriptor
        Oracle            what both oracle backends share: doubles, grid cells, the walk
          QickLowering    plays as pulses defined once and replayed
            QickReadback  values and start times from the instruction stream
          QbloxLowering   the operations of a schedule
            QbloxReadback what the scheduler makes of them, read from a timeline
          Lowering        the walk over one program, with and without some updates; refines Timeline
          Triage          the disposition of a row
    Q1Timeline            the interpreter of Q1ASM, step by step
    Differential          Check, Lowering, both readbacks, Q1Timeline and Triage: one program to its row
      DifferentialProperties, MCRows
    Survey, QickDescriptor, QbloxDescriptor, Gate
    CorpusFiles           the corpus directory, its writer killed anywhere, its reader
      Evidence            builders, surveys, gate, corpora and faults; CheckPass per descriptor
        EvidenceProperties, MCEvidence
    DescriptorSpace       Descriptor and TimeRules with the descriptor being loaded; MCDescriptor
    Timeline              abstract: what frames promise about time on any device
    Rational              one call of rational.c, from its operands to its result or refusal
    Arena                 arena.c between calloc and the callers; MCArena
    Session               main.c and the buffer of report.c, every call of which may fail; MCSession
    DataProofs            lemmas about data that have nothing to do with the code
    CheckProofs, ProgramProofs, LoweringProofs, ArenaProofs, and SessionProofs, which
                          also proves CorpusFiles; Timeline and Rational hold their own theorems

`Timeline` is the abstract specification of time.  `Check` implements it in units of
the device and rounds at every element; `Lowering` implements it in units of the
program and rounds at barriers only.  Both refinements are checked (`KeepsTime`,
`LoweringKeepsTime`) and proved.

### How Check corresponds to check()

`phase` is the place in the function: `start` (validation and binding),
`elements` (the loop), `slots` and `spacing` (the two loops after it),
`budgets`, and `done` or `tool_error`.  The program is not fixed in advance.
Each step of the loop reads any element of `ElementSet`, so a run explores every
program of at most `MaxElements` elements, and `EndOfProgram` may come after any
of them.  One `case` of the switch is one action, with every call it makes:
`Barrier`, `ShiftPhase`, `SetFrequency`, `Delay`, `Capture`, `Play` (which is
`PlayWaveform` or `PlayTones`).  `CloseSlots`, `CloseSpacing`, `SkipBudget`,
`CountBudget` and `Finish` are the code after the loop.

Each rule of the source is up to three operators: `XRejections`, what it appends
to the sink in order; `XClasses`, the coverage classes it marks; `XRefused`, when
it gives up.  An action whose guards meet a refusal becomes `ToolError`.

The data is abstracted so:

* time is in *ticks*, a common divisor of all units of program and device, so a
  rational number of seconds is an integer and a unit is a positive number of
  ticks; frequencies, phases, amplitudes and samples are integers in steps of
  one scale, with resolutions of more than one step so that values off the
  resolution occur;
* the two overflow limits, of an `int64_t` and of the numerator of a `Rat`, are
  `MaxInt` and `MaxRat`.  What a step would take past them it refuses before it
  stores it, and so does binding when the factor between the two units of a channel
  is not a `Rat` (`FactorsFit`).  Of a sum of times only the value is compared: one on
  different denominators may overflow in C where the value alone would fit;
* element ids are positions.  Real ids are any distinct non-negative integers;
  only `FileOrder` reads their order, and file order is position;
* a rejection is its rule, severity, repair and element.  The quoted value and
  limit are left out, but the overflows of computing them are not;
* memory exhaustion is left out of `Check` (it ends in the same tool error);
* what the parser guarantees (units are positive, every name resolves, a play has
  a mask on a channel with tones and a waveform otherwise) is ASSUMEd, and TLC
  evaluates the assumptions on every instance.

### How Rational corresponds to rational.c

A behaviour of `Rational` is one call.  `Form` computes the 128-bit numerator and
denominator, `Euclid` is one turn of the loop of `gcd_u128`, `Reduce` divides,
tests the width and places the sign, `Round` is `rat_round_nearest_even`, and
`DivideByZero` the early return of `rat_div`.  The width is a constant, so that
TLC can enumerate every operand and a theorem can speak of 64 bits.  `Check`
does not use it: there a time is in ticks and the overflow is `MaxRat`.

### How Arena corresponds to arena.c

`heap` is what `calloc` gave and `free` has not taken back: the address of a
`Block` to its `next`, `used` and `cap`.  An address is a number, so a byte may
belong to two things and a sum may pass the last address.  `calloc` is external:
it takes any free, aligned place, or fails.  `Bump`, `Grow` and `Fail` are the
three ways out of `arena_alloc`; `FreeBlock` is one turn of the loop of
`arena_destroy`.  `given` remembers what callers were promised (for an array,
`count * size` before any wrap) and constrains nothing.  Contents are left out:
a block is zeroed by `calloc`, and that memory is zeroed when it is handed out is
the statement that no byte is handed out twice.

### How Session corresponds to main.c and report.c

`pc` is the place in `main`.  `read_file` is `OpenFile`, `FirstBuffer`, `GrowBuffer`,
`Read` and `EndOfFile`, with the buffer it doubles and the error `fread` leaves on
the stream; the parsers and `check` give a result or fail.  `Put` is one call of
`puts_n` or `putf` on the writer `W`, with the outcomes of `w_reserve`; `JoinFails`
the early failure of the version string.  `Write`, `Flush` and `Rendered` are the
end of `main`.  The standard library is external: `fread` may give fewer bytes and
an error, `fwrite` and `fflush` may fail with any part of the report already out.
What stdio still writes when a process exits after such a failure is left open.
A byte is its position in its file, or the number of its piece of the report.
The buffer sizes, `MAX_INPUT` and `SIZE_MAX` are constants; `Doubled` looks at up to
eight doublings, more than the width of the instance has.

### How the lowering modules correspond to tools/oracle

`Lowering` is the loop of `build_plan` over one program; `walk` is `state`, `plan`
what is returned, and each element kind is an action.  A `LoweringError` ends in
`not_lowerable`.  The two backends are selected by `Library`, as `vendor_backend`
does, and each contributes operators: for QICK the pulses with the key under which
they are replayed (`SamePulse`), for Qblox the operations with their absolute times.
`Oracle` has `float()` and the `Loss` records: a double is a multiple of `FloatStep`,
so an exact value may move to another one, and to another grid cell.  A lowering
counts in units of the program, a descriptor in its own.  Replaying a plan into the
vendor's objects (`LoweredProgram`, `build_schedule`) only hands the values over.

### How the readback modules correspond to observe.py and toolchain.py

What the vendor compiles is external: `Stream` for asm_v2 and `Assembled` for the
qblox-scheduler and its assembler, written from what the readbacks expect of them
(reference increments anywhere in the stream; merged updates, folded delays, long
squares with a closing play, waits as loops).  The readbacks are the code:
`ScheduledTimes`, `PulseChanges`, `ToneChanges` in `QickReadback`; `FrameChanges` with
its helpers in `QbloxReadback`; and `Q1Timeline`, which runs a program instruction by
instruction with registers, two loops and `MaxSteps`, and raises where the code does:
on an instruction it does not know, a duration that is a register, too many steps.
`portclocks` gives a frame its sequencer; the vendor may leave one frame without, whose
starts then count as moved (`MissSequencer`).

### How Differential and Triage correspond to run.py and triage.py

`program` is a case and `stage` the place in the body of `main`.  `Checking` runs the
actions of `Check` over the program, `Plans` those of `Lowering`, `Compiles` is the
vendor: exact, refusing, moving any one start or register, giving a frame no sequencer,
or assembly that the readback cannot follow; `ObserveQick`, or `MissSequencer`,
`OpenSequencer`, `RunSequencer`, `CompareSequencer` and `ObserveQblox`, are `observe`; and
`File` writes the row.  A readback that raises ends the run (`Stops`).  `Triage` has
`unused_frame_updates`, the attribution and the whole decision table of `disposition`.
The coverage counts and tables that `triage.py` prints only summarize the rows.

### How the builders, Survey and Gate correspond to tools/descriptor and tools/survey

`QickDescriptor(config)` and `QbloxDescriptor(config)` are `build`: a record with every
channel, constraint, capability and budget of the file.  Numbers that are large in the
code (2 ** 32 steps, 65535 cycles) are constants.  Of the citations only those of the
budgets are kept: the others are text that is resolved the same way.  `Survey` has the
budget probes of both vendors and their rows on a toolchain that is a linear cost and
a limit per memory, and the two rows of the cost of an instruction that a Qblox budget
cites too, which must resolve and judge nothing; `Gate` has `resolves`, `decisive_rows`
and `check_cost_model`.  A configuration there is a value: that the descriptor's name
ends with it is that they are the same, no configuration being the end of another.

### How Corpus and CorpusFiles correspond to corpus.py

`Cases` is `build_corpus`: each `XCases` operator is a `cases_x`, a `Family` is a ladder of
rungs and the program built of each.  The random programs are drawn one value at a
time (`DraftWave`, `DraftTones`, `DraftElement` of `Evidence`): the limits and the values one
step to either side (the code goes two), representatives of the others, and the tones of
one table alike.
`CorpusFiles` is `main`, which unlinks, builds, writes and writes the index last, one
file per step, and may be killed at every one (`Crash`) and started again, with `run.py`
(`RunDriver`) at any time between.  The suffix that tells two cases of one name apart
is left out: no two have one.

`Evidence` composes them: boards, their descriptors, the surveys and the gate, the
corpora, and `InjectFault`, which puts one of the descriptors of `DescriptorFaults` in the
place of the correct one.  The answers come from `CheckPass`, the rules of `Check` folded
over a whole program and instantiated with each descriptor.

## Runs

| run | bounds | what it shows |
|---|---|---|
| `check_timing` | 4 elements from 10; units 2 and 3 ticks, program unit 1; `MaxInt` and `MaxRat` 11 | `TypeOK`, which includes that no clock, end, memory or bound outgrows its integer; refinement of `Timeline` (`KeepsTime`); grid rejections exactly where a start, a barrier or a delay misses (`GridRejectionsExact`); the place of every rejection in the report, within a rule too (`ReportOrdered`); six budgets, two of them per frame (`BudgetsHonest`) |
| `check_spacing` | 5 elements from 7; all five spacing rules, two frames, initial phase update | `StartsSpaced`, `StartRejectionsJustified`, `EndMarginKept`, `RepeatsSpaced`, `SlotsKept`, `CaptureLengthsUniform` |
| `check_values` | 4 elements from 12; mixer, clamp, tone table, memory 4, two frames on one channel | `CarriersChecked`, `PhasesChecked`, `TonesChecked`, `EnvelopeMemoryExact` |
| `descriptor` | every constraint over 20 ids, 2 severities, 3 shapes, each field absent or one or two values; 9 probes | `RepairsPaired`, `DeclaredIsEnforced` |
| `rational` | every pair of canonical 4-bit fractions under four operations | `ResultExact`, `RefusedOnlyIfNeeded`, `Terminates` |
| `arena` | 19 addresses, a header of 2 and blocks of at least 3 bytes, requests of 0 to 19 bytes, one product that wraps | `TypeOK` (no difference wraps), `AllocationsHeld`, `AllocationsDisjoint`, `EverythingFreed` |
| `session` | two files of 0 to 5 bytes, an input buffer of 1 growing to 4, a report of 4 pieces, `SizeMax` 7 | `InputsWhole`, `ReportWhole`, `ExitClean`, `Terminates` |
| `rows_qick` | 3 elements from 13 on three frames; units of 4 and 6 ticks on grids of 2 and 3; doubles are even; a vendor that is exact, restarts its reference, refuses, or moves any one start or register | `NothingMissed`, `SilentMoveFiled`, `RepairsExact`, `PlaysKeepTheirValues`, `UnusedUpdatesUnseen`, `LoweringKeepsTime` |
| `rows_qblox` | 3 elements from 9 on two frames; squares over 5 samples split; an initial phase; at most 100 interpreted steps; a vendor that is exact, refuses, leaves out a sequencer or gives assembly the readback cannot follow | `NothingMissed`, `RowFiled` |
| `evidence` | three boards, 2 to 3 program names, 2 runs of `corpus.py`, one of a descriptor it cannot build from; random programs of 2 elements; toolchains with costs on either side of the declared ones | `OneGeneration`, `CorpusOnTarget`, `FaultsSeen`, `GateComparesLikeWithLike` |
| `file_order` | 3 elements | violated: see findings |
| `qblox_updates` | 2 elements | violated: see findings |

Why the bounds are enough.  The units 2 and 3 with a program unit of 1 give every
case of a conversion: exact, rounded down, rounded up, and a tie.  A width of 11
is reached by a few durations, by the delay of 11 ticks in one step, so each action's
refusal fires and a dropped one breaks `TypeOK`; the limit of 1000 in the other runs is
never reached.  A spacing rule keeps at most one earlier operation
of each kind, so a hole between neighbours needs three operations and something in
between; five elements leave room for a delay or a barrier as well.  The memory of
4 samples is passed by the second distinct envelope of 3 and 2 samples and the
same waveform can come back after that.  The tone table of two on a generator of
one is rejected, and can be sounded three more times.  Four-bit fractions reach
every case of a reduction: the smallest integer on either side, products and sums
that fit only after the gcd is divided out, both signs, and ties of a rounding.
Nineteen addresses hold three blocks of the least size, or a large one between
others, so a block can be placed before, after and between older ones; 17 bytes
aligned to 4, and 4 times 6, pass the last address.  The input buffer doubles
twice, so a file may end before, on and after each boundary and beyond the
largest; the report's buffer doubles once and its next double does not fit.

A pulse that is defined, an update, and a second play under the key of the first is
the shortest program that a replayed pulse can be wrong in: three elements.  So are a
play and a capture that end apart and a barrier between their units.  Two updates of
one time and an output show a merged update, and a square of 8 samples with its
closing play the offset; every wait of a compiled program is a loop.  The corpora are
whole: every ladder of every family of both kinds of board, with memories small enough
that the programs which fill them are short.  Two runs of `corpus.py` are what a
mixture takes, and the second has a name more, so a file may be old, new or missing.

Fairness.  `Rational` and `Session` assume `WF_vars(Next)`: a sequential program
runs on until it returns, and the calls into the operating system return.
`Terminates` then says that the loop of `gcd_u128` does not keep a call forever,
and that `read_file` ends on an input that does not: on a read error, on the size
limit, or at the end.  `Differential` assumes `WF_allVars(Proceeds)` for the same
reason: one process that judges one program after another and never waits for
another one; `RowFiled` says that no loop of a compiled program keeps the interpreter
from its end.  `Check` alone assumes none and claims no liveness: its loops
are over a finite program, and every state that is not final has a step (deadlock
is checked on the runs over programs; `Idle` is the state after the return).
`Evidence` assumes none either: it is killed and restarted, and claims safety.  The
runs `descriptor`, `rational`, `arena`, `session` and `evidence` stop after their one
call, the destroyed arena, the exit or the last fault, so they do not check deadlock.

Every property of a passing run has a mutant: an operator marked `Fault:` beside
the definition it could replace, a plausible bug that the run must catch.

## Findings

Two sentences of the repository are checked and violated; `PROJECT.json` quotes them.

* `FileOrder`: the report is not in file order inside one rule, because the checks
  after the element loop add rejections of earlier elements last.
* `UnusedUpdatesUnseen` on Qblox: an update without an output after it does reach the
  vendor's schedule, although `run.py` says that no update does and `triage.py` excuses
  checker rejections of such updates on that ground.  On QICK the sentence holds and
  is a property of `rows_qick`.

Seen in the code while modelling, and left as prose:

* `documentation/report-format-v0.txt:106` says that `not_applicable` marks a class the
  program does not exercise; a delay off the unit lattice is rejected under
  `schedule_grid` (`check.c:1031`) without marking the class, which then reads
  `not_applicable` beside the rejection.
* `documentation/spec-v0.txt:159` says that under `unchecked` the checker verified
  nothing; a class has one status for all channels and the last write wins
  (`check.c:1043`), so a class with a rejection on one channel can read `unchecked`
  because another channel does not constrain it.
* `tests/unit/test_rational.c:148` says that no arithmetic can use `INT64_MIN`;
  `rational.c:19` tests the magnitude after the gcd is divided out, so `INT64_MIN` times
  1/2 is returned.  The result is exact (`ResultExact`).  `RefusedOnlyIfNeeded` is about
  operands that are not the smallest integer, so it does not decide between the two.
* A tone table that no play sounds is rounded by the vendor when it is declared and
  never looked at by the checker: the one exception of `NothingMissed`.
* The lowering adds a negative duration as it stands and so takes the clock back,
  where the checker rejects the element and leaves the clock.
* The parser takes a negative `envelope_memory_samples` (`parse.c:734`), under which no
  load is reported, because `check.c:793` asks for a memory that was not over before;
  `EnvelopeMemoryExact` is about the sizes that are not negative.

What the corpus cannot see, found with `FaultsSeen` and `CorpusOnTarget`:

* a declaration that is *missing* takes its ladder with it, so a corpus generated from
  the faulty descriptor does not tell; the corpus of the correct one does;
* no program gives a frame of a readout an initial phase, so a readout's
  `initial_phase_update` switched off is unseen;
* no program is made for `loop_registers`, and the grids of a channel without
  constraints are read by no rule;
* the budgets of QICK boards other than the testbench cite rows of the testbench
  (`build_qick.py:364`), which the gate sets aside, so no row judges them though rows of
  their own are in the catalog; rows of waveform memory count `n_waveforms` and are
  never judged.

## Proofs

TLAPS proves, for all devices, programs and bounds that meet the assumptions:

* `ProgramProofs!TypeCorrect`: `Spec => []TypeOK`.  `TypeOK` is `Typed` and `WithinWidth`,
  and neither is inductive alone.  For `Typed`: a clock is a natural number because the
  unit it is divided by is one, and the unit of a frame exists only once binding has
  found its channel in the descriptor.  `IInv` adds `ChannelsBound` (in the element loop
  every program channel is a descriptor channel) and is proved in `CheckProofs`, one
  lemma per action; the arithmetic is in `DurationNatural`, `AlignedNearest` and
  `DataProofs`.  For `WithinWidth`: `FitInv` adds that the counters are those of the program
  (`CountsRight`) and that the descriptor is one that `validate_descriptor` accepted
  (`Described`).  Each sum is refused before it is stored; that the bounds of a per-frame
  budget fit follows from the frames the largest of them came from (`BudgetFits`).
  The end of `CheckProofs` says for each step which rules it cites and what it remembers
  of a frame (`ElementReports`, `BarrierReports`, `ElementRemembers`).
* `CheckProofs!TimeRefinement`: `Spec => KeepsTime`.  Every element maps to
  `Advance` or `Align` of `Timeline` and everything else to a stutter.
* All thirteen properties of whole programs that the runs check, each as `HSpec => []P`
  (`HSpec` is `Spec` with `before`, a history of the times at which elements started).  In
  `CheckProofs`: `StartsSpaced`, `RepeatsSpaced`, `CaptureLengthsUniform`,
  `GridRejectionsExact` (from `HistoryTheorem`), `EndMarginKept` and
  `StartRejectionsJustified` (from `MarginTheorem`), and `CarriersChecked`.  In
  `ProgramProofs`: `SlotsKept`, `ReportOrdered`, `BudgetsHonest`, `PhasesChecked`,
  `TonesChecked` and `EnvelopeMemoryExact`.
  The checker remembers the last operation of a frame; the properties speak of every
  pair, or of whatever comes later.  The argument has eleven parts.
    - *What is reported.*  `ElementReports`, `BarrierReports`, `SlotsAdd`, `SpacingAdds`
      and `BudgetAdds` say for each step which rules it cites and at which element
      (`Fires`), whatever the other rules of the element add in between.
    - *What is remembered.*  `ElementRemembers` and `BarrierMoves` say what becomes of
      the fields of a frame.  `HInv` relates them to the program as it was read:
      `lastEvent`, `lastFreqUpdate` and `lastCapture` are the start of the latest element of
      their kind (`Latest`), `captureLength` is the length of the first capture, and
      `programEnd` is the latest of all starts and ends (`Ends`).
    - *From neighbours to pairs.*  If i and j are too close, so are j and the latest
      operation before j, since clocks do not go back; if that one starts when j does
      the pair was found earlier, and otherwise the step of j reports it
      (`ApartGrows`; `ClearGrows` is the operation at time 0).  This needs in `HInv` that
      starts in `before` are ordered and not after the clock (`History`).
    - *The end of the program.*  It is known only after the loop.  `MInv` adds to `HInv`
      that every citation of `start_spacing` is justified by the program (`Justified`), and
      that from the end of the checks on every late frame is cited (`MarginReported`).
    - *Carriers.*  `CInv` adds that the frequency of a retunable frame is that of its last
      `set_frequency`, or the declared one, and that when `freqChecked` holds every rule it
      breaks was cited at an element since then: the flag is worth what it claims.
    - *Slots.*  `VInv` adds that a capture nothing followed yet is the open one of its
      frame and the sink does not know it, and that a capture something followed is
      settled: cited exactly if the earliest later start breaks its slot, and once.
      `SlotsGrow` and `SlotsSettled` carry this over an element, `CloseSlots` settles the
      rest against the end of the program.
    - *The report.*  It is made once, of the sink as it is then (`ReportMade`).  `Tally`
      counts the places of a sequence that hold a member of a set.  A part of the report
      is the rejections of one rule in the order of the sink; joined, the place of each
      is what the parts before it hold and its place in its own (`FlattenAt`,
      `FlattenMarked`), which is the number of rejections that come before it by rule, or
      by rule and order (`RankParts`, `SortedIs`).
    - *Budgets.*  `BInv` adds that the counters of a frame and of the program are the
      mentions, outputs and waveforms of the program as it was read (`CountsRight`), that
      the sink and the coverage table say of a class what its results say (`NotMasked`),
      and that the budgets gone past have their results in order (`AnsweredSoFar`).
      `FramesDecide` takes the largest bounds apart into the frames they came from.
      The comment at `check.c:1088` says that a per-frame budget fits when no frame can
      exceed the limit and is violated when some frame must; the second holds as it
      stands only if `per_element_max` is not below `per_item`, which `validate_descriptor`
      does not ask for, so the property states both bounds.
    - *Phases.*  A phase accumulates and is looked at once.  `PInv` adds that the phase of
      a frame is the declared one and its shifts (`PhaseIn`, a sum over a set), and that
      if it is off the step once `phaseChecked` holds, some element so far was cited: steps
      add up to steps (`OnStepSum`), so a phase leaves the step only by a shift that is off
      it, which the step of that shift reports (`PhaseKnown`, `PhaseToldGrows`).
    - *Tones.*  `Tells` says of an element which value rules it is cited under and that it
      is cited for nothing else's values; `Sent` says how often.  `TInv` adds that a play
      was cited for its mask, and for the tone table if it is the first on its channel
      (`TonesSaid`), and that `tonesChecked` is the set of channels that sounded.
    - *Memory.*  `EInv` adds that `envSeen` and `envUsed` are the waveforms an owner was
      given so far and what they add up to (`LoadedRight`), and that a play is cited
      exactly if the sum crosses the size there (`Crosses`).  The sum never falls
      (`LoadMonotone`), so it crosses once, at the first play that does not fit
      (`CrossesOnce`).  Frames that share a memory are of one channel (`OneOwner`).
* `SessionProofs`: `InputsWholeTheorem`, `ReportWholeTheorem` and `ExitCleanTheorem`, by the
  one invariant `SInv`: the buffer is the file up to the position (`BufferIsPrefix`), files
  that are done were read to their ends and are below the limit (`InputsComplete`), a
  failure that did not end the run is noted where it will end it (`FaultsNoted`), and
  without one the text is the report of the pieces put so far (`TextIsReport`).
* `SessionProofs!OneGenerationTheorem`, of `CorpusFiles`.  The property is about a reader, the invariant
  about the disk: an index names exactly the programs of its run, and only files of that
  run are beside it (`IndexOfItsFiles`); while programs are replaced there is none
  (`CleanStart`).  A kill is possible at every step.
* `LoweringProofs!LoweringTime`: `LSpec => LoweringKeepsTime`, for both libraries, if no
  duration is negative.  `LInv` says that clocks count and that nothing is read before
  the walk begins (so that taking up a program moves no clock and aligns nothing);
  `JoinedNearest` is the rounding of a barrier, `ElementLowered` the step of an element.
* `LoweringProofs!PlayValuesTheorem`: `LSpec => []PlaysKeepTheirValues`.  The property counts the
  frequency and the phase due to an output from the program alone (`FrequencyDue`,
  `PhaseDue`), and the plan reaches a pulse through the key it is replayed under.  `PlanInv`
  says that the walk carries what is due to every frame (`Carries`) and that every
  call so far names a pulse that was defined with what its play is due (`KeepsCalls`);
  a pulse once defined is not changed (`Replayed` only appends), and two plays share a
  key only if they ask for the same.
* `Rational!ResultExactTheorem` and `RefusedTheorem`, for every width.  `RInv` says of the
  loop of `gcd_u128` that its two numbers are divisible by what divides the two
  magnitudes and are themselves made of them (`Combines`), so when one of them is 0 the
  other is a common divisor with nothing left to divide out (`ReduceLowers`,
  `LowestCanonical`); that what an operation forms fits twice the width (`Formed`); and
  that no fraction with room for it equals a result that was refused (`EqualHasRoom`).
  The invariant says the last of all operands (`Refused`), the property only of those
  that are not the smallest integer.
* `Timeline!NeverBackTheorem`: `Timeline` never takes a clock back.  For a barrier this
  rests on `NearestNotBefore`: the count nearest to a time is not below a count whose
  time has been reached.
* `LoweringProofs!UnseenTheorem`: for QICK, `LSpec => []UnusedUpdatesUnseen`.  The property
  compares the plan with the plan of the program without the updates that
  `unused_frame_updates` lists.  `UnseenInv` follows two walks side by side, the one that is
  made and the one that leaves them out (`Beside`): they have made the same plan, their
  clocks agree, and a frame has the same frequency and phase in both where an output still
  uses them (`FrequencyUsed`, `PhaseUsed`).  An output uses the values of its frame
  (`OutputUses`), an update that is left out changes what no output uses any more
  (`UnusedNotUsed`), and any other element keeps the agreement (`StandsOn`).
  `StagesWithout` is recursive: `StagesExist` shows, by induction on a set of numbers, that
  there is a function its definition can choose.
* `LoweringProofs!UnusedUpdatesTheorem`: the list is exact.  An update is on it exactly if no
  output takes its frequency or phase from it (`DueUpdates`: the last `set_frequency`
  before the output, every `shift_phase` before it).
* `ProgramProofs!ReportPairedTheorem`: under an accepted descriptor a rejection of the report
  names a repair exactly if the vendor makes one.  The pairing is part of what the lemmas of
  `CheckProofs` call a rejection (`Of`, `Paired`); most rules fix severity and repair where they
  are cited, and for those that take the severity from the descriptor `AcceptedSeverity`
  says which one `validate_descriptor` lets through.
* `CheckProofs!EnvelopeLimitsTheorem`: the rules on envelopes read the capabilities of a
  channel, and in an accepted descriptor enforce the grid and the limits that its
  constraints declare.  The rule compares magnitudes; that the two declared limits are one
  magnitude is what `AcceptedAgrees` takes from `validate_descriptor`.
* `DataProofs`: `RoundWithinHalf` (round-half-to-even is within half a unit),
  `NearestNotBefore`, what a turn of Euclid's loop keeps, the greatest and the least of a
  set of numbers (`MaxIs`, `MinIs`), what joining sequences does to their members, their numbers and
  their places (`FlattenElements`, `TallyFlatten`, `FlattenAt`, `FlattenMarked`), and sums over finite
  sets (`SumTakes`: a sum is any member's term and the sum over the others).  The joins
  and sums are recursive in the library: `JoinExists` and `SumsExist` show, by induction
  on a set of numbers, that there is one function they can be.
* `ArenaProofs!TypeCorrect`, `HeldTheorem`, `DisjointTheorem`, `FreedTheorem`: the four
  invariants of `Arena`.  None is inductive alone.  `IInv` adds that blocks do not
  overlap and end in the address space, that an allocation lies in the *used*
  part of a block (so that what is bumped off later lies behind it), and that a
  rank, one less at each `next`, numbers the blocks from the head to the end: the
  reason why `arena_destroy` meets every block once.  `BumpStep`, `GrowStep` and
  `FreeBlockStep` are the steps that change the heap; `PaddingAligns` is the
  arithmetic of the padding and `ProductFits` of the overflow test of `arena_array`.

They rest on the named ASSUMEs: in `Check` and `Lowering` what the parser lets through
(types of the fields, `ConstraintAssumption`, `ToneAssumption` and `MemoryAssumption`
among them, known rule ids and budget ids, and that what it reads fits its integer,
`WidthAssumption` of `Check`); in `Arena` that a header and a block fit the address space, which
the null pointer is not in, and that alignments are positive; in `Session` that some
powers of two of the first buffer meet `MAX_INPUT` exactly (`CapsMeetLimit`; 64 KiB and
64 MiB in the source) and that a formatted piece fits the slot `putf` reserves; in
`Rational` that there is a positive integer (`WidthAssumption`).  Some
hypotheses are explicit: `PositiveUnits` of `NeverBackTheorem` and `DurationsForward` of
`LoweringTime`, as the lowering takes a clock back otherwise; `UnseenTheorem` is about
QICK, as the property is false of Qblox, and `EnvelopeLimitsTheorem` about an accepted descriptor.

Model-checked only:

* `RepairsPaired` and `DeclaredIsEnforced`: a finite space of descriptors, the refused ones
  too, and of probes put to single rules, which TLC enumerates whole.  `ReportPairedTheorem`
  and `EnvelopeLimitsTheorem` say the same of every accepted descriptor and program;
* `NothingMissed`, `SilentMoveFiled` and `RepairsExact`: they compare a run of
  `Check`, one of `Lowering` and the answer of a vendor of which only an instance is
  assumed; the parts of them that are this repository's alone are proved, the clocks and
  the values of the lowering and what the checker reports;
* `CorpusOnTarget`, `FaultsSeen` and `GateComparesLikeWithLike`: about the boards and ladders of
  the instance, and about `CheckPass`, which folds operators over whole programs;
* liveness (`Terminates`, `RowFiled`), which this prover cannot do.

## Plan

1. (done) Check, its rules, Descriptor, Timeline; first theorems.
2. (done) Rational and its findings; Arena and its theorems; Session.
3. (done) The oracles, the driver and its triage; the builders, the gate, the corpus
   and its files; `LoweringTime`.
4. (done) The theorems about whole programs, `Session` and `CorpusFiles`.
5. (done) The order of the report, the budgets, and the values: phases, tones, memory.
6. (done) `Rational` for every width, and the values of the QICK lowering.
7. (done) Reports and envelopes of every accepted descriptor; that the updates `triage.py`
   calls unused reach no call of a QICK plan.
8. Open: the rows and the evidence for every board (`NothingMissed`, `FaultsSeen`), which
   needs a statement of what a vendor may do to a value.

## Not modelled

* The parser.  It resolves names and rejects duplicates, one field after another,
  from a JSON tree that it does not change; what the rest relies on is stated as
  ASSUMEs of `Check` and `Lowering`, and a model of it would restate the schema.
* The JSON reader: a grammar over bytes.  Strings, escapes and numbers are data that
  no property here tells apart.
* Diagnostics, JSON text and layout of the report; the generated tables of `enums.h`.
* The vendors' toolchains (external, modelled from how the readbacks use them), and
  the survey probes of axes that no budget cites: lists of values for them.
* `preflight.py`, the exporters and `format/validate.py`: straight-line conversions and
  comparisons of the vendors' output, with no state and no decision of their own.
* `loop_registers` is a band and not a linear cost; the gate leaves it aside, and so
  does `Gate`.
