------------------------------- MODULE Session -------------------------------
(***************************************************************************)
(* One run of the command, src/src/main.c: read two files, parse, check,   *)
(* render into the growing buffer of src/src/report.c, write, and exit     *)
(* with the verdict or with 3.  Every call that can fail may fail here:    *)
(* opening, reading, allocating, writing, flushing.                        *)
(*                                                                         *)
(* A byte is the place it has in its file, or the number of the piece of   *)
(* the report it belongs to: the properties ask whether bytes are lost,    *)
(* not what they are.                                                      *)
(***************************************************************************)
EXTENDS Naturals, Sequences, SequencesExt

CONSTANTS
    FirstCap,           \* the first buffer of read_file
    MaxInput,           \* MAX_INPUT
    FirstReserve,       \* the first buffer of w_reserve
    Slot,               \* what putf reserves
    SizeMax,            \* SIZE_MAX
    Sizes,              \* the sizes a file may have
    Pieces,             \* what is put into a report: [by, bytes]
    MaxPieces           \* bound: the pieces of a report

(* Doubling the first buffer again and again meets MAX_INPUT.              *)
CapsMeetLimit(caps) ==
    /\ FirstCap \in caps
    /\ \A c \in caps : c < MaxInput => 2 * c \in caps

ASSUME BufferAssumption ==
    /\ FirstCap \in Nat \ {0} /\ MaxInput \in Nat
    /\ \E caps \in SUBSET (1 .. MaxInput) : CapsMeetLimit(caps)
    /\ FirstReserve \in Nat \ {0} /\ Slot \in Nat \ {0} /\ SizeMax \in Nat
    /\ Sizes \subseteq Nat /\ MaxPieces \in Nat

(* A text that is formatted is a few names and numbers. *)
ASSUME PieceAssumption ==
    /\ Pieces \subseteq [by : {"put", "putf", "joined"}, bytes : Nat]
    /\ \A p \in Pieces : p.by = "putf" => p.bytes < Slot

Files == {1, 2}         \* the descriptor and the program

ExitCode == [pass |-> 0, fail |-> 1, pass_with_repairs |-> 2]

VARIABLES
    pc,                 \* the place in main()
    file,               \* the file that is read
    size,               \* how long each file is
    open,               \* whether it is open
    pos,                \* the position in it
    error,              \* ferror
    buf, cap,           \* the buffer of read_file: its bytes, its length
    inputs,             \* what the parsers are given
    arena,              \* "none", "live" or "destroyed"
    verdict,
    text, wcap, failed, \* the W of render_report
    pieces,             \* the pieces of the report so far
    sent, delivered,    \* the bytes stdout accepted, and those it wrote
    status,             \* the exit status
    fault               \* whether something outside the program failed

fileVars   == << file, open, pos, error, buf, cap, inputs >>
reportVars == << verdict, text, wcap, failed, pieces >>
outVars    == << sent, delivered >>
vars == << pc, size, arena, status, fault, fileVars, reportVars, outVars >>

-----------------------------------------------------------------------------
NoStatus == 99

Init ==
    /\ pc = "start"
    /\ size \in [Files -> Sizes]
    /\ file = 1 /\ open = FALSE /\ pos = 0 /\ error = FALSE
    /\ buf = << >> /\ cap = 0
    /\ inputs = << >>
    /\ arena = "none"
    /\ verdict = "pass"
    /\ text = << >> /\ wcap = 0 /\ failed = FALSE
    /\ pieces = << >>
    /\ sent = 0 /\ delivered = 0
    /\ status = NoStatus
    /\ fault = FALSE

(* arena_destroy and tool_error: every failure of main() ends so. *)
Abandon ==
    /\ pc' = "exited"
    /\ status' = 3
    /\ arena' = IF arena = "live" THEN "destroyed" ELSE arena
    /\ UNCHANGED size

Continue(place) == pc' = place /\ UNCHANGED << size, arena, status, fault >>

(* Wrong arguments, or no memory for the arena. *)
Start ==
    /\ pc = "start"
    /\ \/ /\ pc' = "opening" /\ arena' = "live"
          /\ UNCHANGED << size, status, fault >>
       \/ fault' = TRUE /\ Abandon
    /\ UNCHANGED << fileVars, reportVars, outVars >>

-----------------------------------------------------------------------------
(* read_file *)
OpenFile ==
    /\ pc = "opening"
    /\ \/ /\ open' = TRUE /\ pos' = 0 /\ error' = FALSE
          /\ Continue("allocating")
       \/ /\ fault' = TRUE /\ Abandon
          /\ UNCHANGED << open, pos, error >>
    /\ UNCHANGED << file, buf, cap, inputs, reportVars, outVars >>

FirstBuffer ==
    /\ pc = "allocating"
    /\ \/ /\ buf' = << >> /\ cap' = FirstCap
          /\ Continue("reading")
          /\ UNCHANGED open
       \/ /\ open' = FALSE
          /\ fault' = TRUE /\ Abandon
          /\ UNCHANGED << buf, cap >>
    /\ UNCHANGED << file, pos, error, inputs, reportVars, outVars >>

\* Fault: the new buffer starts empty.
MovedNothing == << >>

Moved == buf

TooLarge == cap >= MaxInput

(* The buffer is full: twice as much, up to MAX_INPUT. *)
GrowBuffer ==
    /\ pc = "reading"
    /\ Len(buf) = cap
    /\ \/ /\ TooLarge
          /\ open' = FALSE
          /\ Abandon
          /\ UNCHANGED << buf, cap, fault >>
       \/ /\ ~TooLarge
          /\ buf' = Moved /\ cap' = 2 * cap
          /\ Continue("reading")
          /\ UNCHANGED open
       \/ /\ ~TooLarge
          /\ open' = FALSE
          /\ fault' = TRUE /\ Abandon
          /\ UNCHANGED << buf, cap >>
    /\ UNCHANGED << file, pos, error, inputs, reportVars, outVars >>

\* Fault: the loop waits for the end of the file, which an error hides.
StopsAtEof(got) == got = 0 /\ ~error'

Stops(got) == got = 0

(* fread: all there is up to the end of the buffer, or less and an error.  *)
(* An error does not hinder a later fread, and stays noted.                *)
Fread(got) ==
    LET room == cap - Len(buf)
        rest == size[file] - pos
    IN  \/ /\ got = IF rest < room THEN rest ELSE room
           /\ UNCHANGED << error, fault >>
        \/ /\ got < room /\ got <= rest
           /\ error' = TRUE /\ fault' = TRUE

Read ==
    /\ pc = "reading"
    /\ Len(buf) < cap
    /\ \E got \in 0 .. cap :
           /\ Fread(got)
           /\ buf' = buf \o [i \in 1 .. got |-> pos + i]
           /\ pos' = pos + got
           /\ pc' = IF Stops(got) THEN "read" ELSE "reading"
    /\ UNCHANGED << size, arena, status, file, open, cap, inputs, reportVars, outVars >>

\* Fault: the end of the file and an error are not told apart.
ReadFailedNever == FALSE

ReadFailed == error

EndOfFile ==
    /\ pc = "read"
    /\ open' = FALSE
    /\ IF ReadFailed
       THEN Abandon /\ UNCHANGED << fault, file, inputs >>
       ELSE /\ inputs' = Append(inputs, buf)
            /\ IF file = 1 THEN file' = 2 /\ Continue("opening")
               ELSE UNCHANGED file /\ Continue("parsing")
    /\ UNCHANGED << pos, error, buf, cap, reportVars, outVars >>

-----------------------------------------------------------------------------
(* parse_descriptor, then parse_program: either may refuse its input. *)
Parse ==
    /\ pc = "parsing"
    /\ \/ Continue("checking")
       \/ fault' = TRUE /\ Abandon
    /\ UNCHANGED << fileVars, reportVars, outVars >>

(* check: a verdict, or a tool error. *)
Check ==
    /\ pc = "checking"
    /\ \/ /\ verdict' \in DOMAIN ExitCode
          /\ Continue("rendering")
       \/ /\ fault' = TRUE /\ Abandon
          /\ UNCHANGED verdict
    /\ UNCHANGED << text, wcap, failed, pieces, fileVars, outVars >>

-----------------------------------------------------------------------------
(* render_report.  w_reserve doubles until the rest of the buffer takes    *)
(* `extra` bytes, or finds that a size_t cannot hold the double (need is   *)
(* more than half of SizeMax).                                             *)
Doubled ==
    {(IF wcap = 0 THEN FirstReserve ELSE wcap) * 2 ^ k : k \in 0 .. SizeMax} \cap (0 .. SizeMax)

Enough(extra) ==
    {need \in Doubled : /\ need - Len(text) >= extra
                        /\ \A less \in Doubled : less < need => less - Len(text) < extra}

(* The outcomes of w_reserve: the buffer there is, a larger one, failure.  *)
Reserve(extra) ==
    \/ /\ extra <= wcap - Len(text)
       /\ UNCHANGED << wcap, failed, fault >>
    \/ /\ extra > wcap - Len(text)
       /\ wcap' \in Enough(extra)
       /\ UNCHANGED << failed, fault >>
    \/ /\ extra > wcap - Len(text)
       /\ failed' = TRUE /\ fault' = TRUE
       /\ UNCHANGED wcap

Bytes(p, n) == [i \in 1 .. p.bytes |-> n]

(* puts_n reserves what it copies; putf a slot, which is longer than what  *)
(* it prints.  After a failure both do nothing.                            *)
Wanted(p) == IF p.by = "putf" THEN Slot ELSE p.bytes

Put(p) ==
    /\ pc = "rendering"
    /\ Len(pieces) < MaxPieces
    /\ pieces' = Append(pieces, p)
    /\ IF failed THEN UNCHANGED << wcap, failed, fault >> ELSE Reserve(Wanted(p))
    /\ text' = IF failed' THEN text ELSE text \o Bytes(p, Len(pieces'))
    /\ UNCHANGED << pc, size, arena, status, verdict, fileVars, outVars >>

(* The joined version string needs memory of its own, or there is no report. *)
JoinFails(p) ==
    /\ pc = "rendering"
    /\ Len(pieces) < MaxPieces
    /\ p.by = "joined"
    /\ fault' = TRUE /\ Abandon
    /\ UNCHANGED << fileVars, reportVars, outVars >>

\* Fault: a piece that found no room is forgotten at the end.
RenderFailedNever == FALSE

RenderFailed == failed

Rendered ==
    /\ pc = "rendering"
    /\ IF RenderFailed THEN Abandon /\ UNCHANGED fault ELSE Continue("writing")
    /\ UNCHANGED << fileVars, reportVars, outVars >>

-----------------------------------------------------------------------------
(* fwrite takes all the bytes or fails; some may already be out.  What     *)
(* stdio may still write on exit, after a failure, is left open.           *)
Write ==
    /\ pc = "writing"
    /\ sent' \in 0 .. Len(text)
    /\ delivered' \in 0 .. sent'
    /\ IF sent' = Len(text) THEN Continue("flushing") ELSE fault' = TRUE /\ Abandon
    /\ UNCHANGED << fileVars, reportVars >>

Flush ==
    /\ pc = "flushing"
    /\ delivered' \in delivered .. sent
    /\ \/ /\ delivered' = sent
          /\ pc' = "exited"
          /\ status' = ExitCode[verdict]
          /\ arena' = "destroyed"
          /\ UNCHANGED << size, fault >>
       \/ fault' = TRUE /\ Abandon
    /\ UNCHANGED << sent, fileVars, reportVars >>

Next ==
    \/ Start
    \/ OpenFile \/ FirstBuffer \/ GrowBuffer \/ Read \/ EndOfFile
    \/ Parse \/ Check
    \/ \E p \in Pieces : Put(p) \/ JoinFails(p)
    \/ Rendered \/ Write \/ Flush

(* The calls of a sequential program return. *)
Spec == Init /\ [][Next]_vars /\ WF_vars(Next)

-----------------------------------------------------------------------------
(* No buffer passes its limit, however long the input or the report is.    *)
TypeOK ==
    /\ pc \in {"start", "opening", "allocating", "reading", "read", "parsing", "checking",
               "rendering", "writing", "flushing", "exited"}
    /\ file \in Files /\ size \in [Files -> Sizes]
    /\ open \in BOOLEAN /\ error \in BOOLEAN /\ failed \in BOOLEAN /\ fault \in BOOLEAN
    /\ cap \in 0 .. MaxInput /\ Len(buf) <= cap /\ (open => pos \in 0 .. size[file])
    /\ Len(inputs) <= 2
    /\ arena \in {"none", "live", "destroyed"}
    /\ verdict \in DOMAIN ExitCode
    /\ wcap \in 0 .. SizeMax /\ Len(text) <= wcap
    /\ sent \in 0 .. Len(text) /\ delivered \in 0 .. sent
    /\ status \in {0, 1, 2, 3, NoStatus}

(* What is parsed is the whole file, in order: no byte is lost or doubled  *)
(* when the buffer moves, when a read is short, or at a boundary, and the  *)
(* buffer stays within MAX_INPUT.                                          *)
InputsWhole ==
    /\ TypeOK
    /\ \A f \in DOMAIN inputs : inputs[f] = [i \in 1 .. size[f] |-> i]

(* The bytes of a report of these pieces. *)
Report == FlattenSeq([n \in DOMAIN pieces |-> Bytes(pieces[n], n)])

(* A report is written whole or not at all: a piece that did not fit is    *)
(* never left out of the middle.                                           *)
ReportWhole == pc \in {"writing", "flushing"} => text = Report

(* README: "Exit 0, 1, and 2 are answers about the device.  Exit 3 means   *)
(* the tool could not answer."  The status is the verdict exactly when     *)
(* nothing failed, the whole report is out and no file reaches MAX_INPUT;  *)
(* an early failure is never forgotten by a later success.                 *)
ExitHonest ==
    pc = "exited" =>
        IF status = 3
        THEN fault \/ \E f \in Files : size[f] >= MaxInput
        ELSE /\ ~fault
             /\ status = ExitCode[verdict]
             /\ delivered = Len(Report)
             /\ \A f \in Files : size[f] < MaxInput

(* Every way out also closes the file and destroys the arena. *)
Released == pc = "exited" => ~open /\ arena # "live"

(* Whatever fails, the command leaves with an honest status and nothing    *)
(* left open.                                                              *)
ExitClean == ExitHonest /\ Released

(* The command ends, on an input without an end too. *)
Terminates == <>(pc = "exited")
=============================================================================
