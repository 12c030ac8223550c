------------------------------- MODULE Evidence -------------------------------
(***************************************************************************)
(* How the repository comes to trust a descriptor: it is built from a      *)
(* config, its budgets are held against the surveys (module Gate),         *)
(* programs are generated from it (Corpus) into a directory (CorpusFiles), *)
(* and wrong descriptors are put in its place to see whether the programs  *)
(* tell.  The surveys and the corpus share no state, so a behaviour takes  *)
(* one of the two ways.                                                    *)
(***************************************************************************)
EXTENDS CorpusFiles, Integers, Sequences, SequencesExt

CONSTANTS
    Boards,             \* name -> [library, config, mixer]
    Surveys,            \* name -> (surveyed config -> its probes)
    Toolchains,         \* name -> the toolchains the surveys may have run on,
                        \* each a function of the surveyed config
    FullScale, Turn, TickRate, DdsSteps, PhaseSteps, MaxCycles, MuxMaxCycles,
    Nanosecond, NcoFreqStep, NcoFreqLimit, NcoPhaseStep, GainLevels,
    WaveformMemory, Instructions, MaxAcquisition,
    PulseCounts, QickPulses, QickLoops, Spare, MaxInt, MaxRat,
    MaxDrawn,           \* bound: elements of a random program
    Generated           \* bound: the boards whose corpora are generated

INSTANCE Gate

(* The builders and the injector read no program and no descriptor. *)
Nothing == << >>

QB == INSTANCE QbloxDescriptor WITH
          Device <- Nothing, Channels <- Nothing, FrameDefs <- Nothing, Waveforms <- Nothing,
          Budgets <- Nothing, AmplitudeRounding <- Nothing

QK == INSTANCE QickDescriptor WITH
          Device <- Nothing, Channels <- Nothing, FrameDefs <- Nothing, Waveforms <- Nothing,
          Budgets <- Nothing, AmplitudeRounding <- Nothing

DF == INSTANCE DescriptorFaults WITH
          Device <- Nothing, Channels <- Nothing, FrameDefs <- Nothing, Waveforms <- Nothing,
          Budgets <- Nothing, AmplitudeRounding <- Nothing

Cor(d, mixer) == INSTANCE Corpus WITH
          Device <- d.channels, Order <- d.order, Budgets <- d.budgets,
          MixerSetting <- [c \in DOMAIN d.channels |-> mixer],
          AmplitudeRounding <- d.amplitudeRounding,
          Channels <- Nothing, FrameDefs <- Nothing, Waveforms <- Nothing

CP(d, program) == INSTANCE CheckPass WITH
          Device <- d.channels, Budgets <- d.budgets,
          AmplitudeRounding <- d.amplitudeRounding,
          Channels <- program.channels, FrameDefs <- program.frames,
          Waveforms <- program.waveforms

VARIABLES
    board,              \* the board at hand
    catalog,            \* the rows of its surveys; Absent before them
    gate,               \* what the gate says of its descriptor; or Absent
    draft,              \* a random program in the making; or Absent
    shipped             \* the wrong descriptor in its place; or Absent

vars == << filesVars, board, catalog, gate, draft, shipped >>

-----------------------------------------------------------------------------
(* main of the builders, for every board. *)
Descriptors ==
    [b \in DOMAIN Boards |->
        IF Boards[b].library = "qblox" THEN QB!QbloxDescriptor(Boards[b].config)
        ELSE QK!QickDescriptor(Boards[b].config)]

(* A descriptor by hand that mixes the two forms of a budget. *)
Mixed(d) ==
    LET b == d.budgets[1]
    IN  [d EXCEPT !.budgets = Append(@, [b EXCEPT !.channels = IF @ = {} THEN DOMAIN d.channels
                                                               ELSE {}])]

CorpusOf(b, d) == Cor(d, Boards[b].mixer)!Cases

(* What corpus.py makes of the descriptors as they are built. *)
Corpora == [b \in DOMAIN Boards |-> CorpusOf(b, Descriptors[b])]

(* run_qconform, and what a row keeps of it. *)
AnswerOf(d, program) == CP(d, program)!Answer(program.elements)

Init ==
    /\ FInit
    /\ board \in DOMAIN Boards
    /\ catalog = Absent
    /\ gate = Absent
    /\ draft = Absent
    /\ shipped = Absent

-----------------------------------------------------------------------------
(* The two runners, one file of rows after the other. *)
Survey ==
    /\ run = 0
    /\ catalog = Absent
    /\ \E toolchain \in Toolchains[board] :
          catalog' = UNION {QB!Rows(c, toolchain[c], Surveys[board][c]) :
                                c \in DOMAIN Surveys[board]}
    /\ UNCHANGED << filesVars, board, gate, draft, shipped >>

RunGate ==
    /\ catalog # Absent
    /\ gate = Absent
    /\ gate' = CheckDescriptor(catalog, Descriptors[board])
    /\ UNCHANGED << filesVars, board, catalog, draft, shipped >>

-----------------------------------------------------------------------------
(* build_corpus draws random programs for each generator, one value after  *)
(* another.  The first run of corpus.py draws, one program at a time.      *)
Doc == Descriptors[board]

Mixer == Boards[board].mixer

Draws == step = "building" /\ run = 1 /\ source = "plain"

Generators == Cor(Doc, Mixer)!Generators

Muxed(g) == Cor(Doc, Mixer)!IsMux(g)

Drafted(g, amplitude, tones) ==
    [generator |-> g, amplitude |-> amplitude, tones |-> tones, elements |-> << >>]

DraftWave ==
    /\ Draws
    /\ draft = Absent
    /\ \E g \in ToSet(Generators) :
          /\ ~Muxed(g)
          /\ \E amplitude \in Cor(Doc, Mixer)!DrawnAmplitudes(g) :
                draft' = Drafted(g, amplitude, << >>)
    /\ UNCHANGED << filesVars, board, catalog, gate, shipped >>

DraftTones ==
    /\ Draws
    /\ draft = Absent
    /\ \E g \in ToSet(Generators) :
          /\ Muxed(g)
          /\ \E tones \in Cor(Doc, Mixer)!DrawnTables(g) :
                draft' = Drafted(g, Absent, tones)
    /\ UNCHANGED << filesVars, board, catalog, gate, shipped >>

(* b.add *)
DraftElement ==
    /\ Draws
    /\ draft # Absent
    /\ Len(draft.elements) < MaxDrawn
    /\ LET g == draft.generator
       IN  \E el \in IF Muxed(g)
                     THEN Cor(Doc, Mixer)!DrawnToneElements(g, Len(draft.tones))
                     ELSE Cor(Doc, Mixer)!DrawnElements(g) :
              draft' = [draft EXCEPT !.elements = Append(@, el)]
    /\ UNCHANGED << filesVars, board, catalog, gate, shipped >>

DraftProgram ==
    IF Muxed(draft.generator)
    THEN Cor(Doc, Mixer)!RandomToneProgram(draft.generator, draft.tones, draft.elements)
    ELSE Cor(Doc, Mixer)!RandomProgram(draft.generator, draft.amplitude, draft.elements)

-----------------------------------------------------------------------------
(* run.py with a wrong descriptor for the checker and the correct one for  *)
(* the lowering, over the last corpus of the correct descriptor.           *)
Settled ==
    /\ run = MaxRuns
    /\ step = "written"
    /\ source = "plain"
    /\ rows # Absent
    /\ rows.index = run

InjectFault ==
    /\ Settled
    /\ shipped = Absent
    /\ \E d \in DF!WithWrongValue(Doc) \cup DF!WithoutDeclaration(Doc) : shipped' = d
    /\ UNCHANGED << filesVars, board, catalog, gate, draft >>

(* What the injector sees: a program of a corpus that is answered          *)
(* differently.                                                            *)
Tells(corpus, d) ==
    \E i \in DOMAIN corpus :
        AnswerOf(d, corpus[i].program) # AnswerOf(Doc, corpus[i].program)

-----------------------------------------------------------------------------
(* A step of corpus.py or of run.py; the draft goes into the corpus.       *)
CorpusStep ==
    /\ board \in Generated
    /\ catalog = Absent
    /\ shipped = Absent
    /\ FNext
    /\ draft' = Absent
    /\ UNCHANGED << board, catalog, gate, shipped >>

Next == Survey \/ RunGate \/ DraftWave \/ DraftTones \/ DraftElement \/ CorpusStep \/ InjectFault

Spec == Init /\ [][Next]_vars
=============================================================================
