---------------------------- MODULE SessionProofs ----------------------------
(***************************************************************************)
(* Proofs about what the programs read and write.  Of one run of the       *)
(* command, for files and reports of every length and every choice of      *)
(* failures: what is parsed is what the files hold, a report is written    *)
(* whole or not at all, and the exit status tells the truth.  Of the       *)
(* corpus directory, for every number of runs, each killed anywhere: what  *)
(* is read from it is one corpus.                                          *)
(***************************************************************************)
EXTENDS Session, CorpusFiles, DataProofs

(* The lengths the buffer of read_file grows through. *)
Caps == CHOOSE caps \in SUBSET (1 .. MaxInput) : CapsMeetLimit(caps)

(* What the variables hold, beside what TypeOK says of them. *)
Shapes ==
    /\ pos \in Nat
    /\ buf \in Seq(Nat)
    /\ inputs \in Seq(Seq(Nat))
    /\ text \in Seq(Nat)
    /\ pieces \in Seq(Pieces)

(* The file that is read is the one after those that are done. *)
Reading == pc \in {"opening", "allocating", "reading", "read"}

FileInTurn ==
    /\ pc = "start" => inputs = << >> /\ file = 1
    /\ Reading => file = Len(inputs) + 1
    /\ pc \in {"parsing", "checking", "rendering", "writing", "flushing"} => Len(inputs) = 2
    /\ open => pc \in {"allocating", "reading", "read"}
    /\ pc \in {"allocating", "reading", "read"} => open

(* The buffer holds the file up to the position. *)
BufferIsPrefix ==
    /\ pc = "allocating" => pos = 0
    /\ pc \in {"reading", "read"} =>
           /\ cap \in Caps
           /\ buf = [i \in 1 .. pos |-> i]
    /\ pc = "read" /\ ~error => pos = size[file] /\ pos < cap

(* The files that are done were read to their ends, within MAX_INPUT. *)
InputsComplete ==
    \A f \in DOMAIN inputs : inputs[f] = [i \in 1 .. size[f] |-> i] /\ size[f] < MaxInput

(* A failure that did not end the run is noted where it will: by ferror    *)
(* while a file is read, by the W while the report is rendered.            *)
FaultsNoted ==
    /\ pc # "exited" => (fault <=> error \/ failed)
    /\ error => pc \in {"reading", "read", "exited"}
    /\ failed => pc \in {"rendering", "exited"}

(* Unless a piece failed, the text is the report of the pieces. *)
TextIsReport == ~failed => text = Report

(* A report that was sent was sent whole. *)
SentWhole == pc = "flushing" => sent = Len(text)

SInv ==
    /\ TypeOK /\ Shapes
    /\ FileInTurn /\ BufferIsPrefix /\ InputsComplete
    /\ FaultsNoted /\ TextIsReport /\ SentWhole
    /\ ExitClean

-----------------------------------------------------------------------------
(* The buffer. *)
LEMMA CapsExist == Caps \in SUBSET (1 .. MaxInput) /\ CapsMeetLimit(Caps)
  BY BufferAssumption DEF Caps

LEMMA CapsDouble ==
    ASSUME NEW c \in Caps
    PROVE  /\ FirstCap \in Caps
           /\ c \in 1 .. MaxInput
           /\ ~(c >= MaxInput) => 2 * c \in Caps
  BY CapsExist, BufferAssumption DEF CapsMeetLimit

(* What is read next to a prefix makes a longer one. *)
LEMMA PrefixGrows ==
    ASSUME NEW p \in Nat, NEW got \in Nat
    PROVE  [i \in 1 .. p |-> i] \o [i \in 1 .. got |-> p + i] = [i \in 1 .. p + got |-> i]
<1> DEFINE a == [i \in 1 .. p |-> i]
           b == [i \in 1 .. got |-> p + i]
           c == [i \in 1 .. p + got |-> i]
<1>1. a \in Seq(Nat) /\ b \in Seq(Nat) /\ c \in Seq(Nat)
  OBVIOUS
<1>2. Len(a) = p /\ Len(b) = got /\ Len(c) = p + got
  OBVIOUS
<1>3. /\ a \o b \in Seq(Nat) /\ Len(a \o b) = p + got
      /\ \A i \in 1 .. p + got : (a \o b)[i] = IF i <= p THEN a[i] ELSE b[i - p]
  BY <1>1, <1>2, ConcatProperties
<1>4. ASSUME NEW i \in 1 .. p + got PROVE (a \o b)[i] = c[i]
  BY <1>3
<1> HIDE DEF a, b, c
<1>5. a \o b = c
  BY <1>1, <1>2, <1>3, <1>4, SeqEqual
<1> QED BY <1>5 DEF a, b, c

(* The numbers of read_file. *)
LEMMA Numbers ==
    ASSUME TypeOK, Shapes
    PROVE  /\ file \in Files /\ size[file] \in Nat
           /\ pos \in Nat /\ cap \in Nat /\ MaxInput \in Nat /\ cap <= MaxInput
<1>1. file \in Files /\ size[file] \in Nat
  BY BufferAssumption DEF TypeOK
<1>2. pos \in Nat /\ cap \in 0 .. MaxInput /\ MaxInput \in Nat
  BY BufferAssumption DEF TypeOK, Shapes
<1> QED BY <1>1, <1>2

(* w_reserve makes room for what it is asked, within a size_t. *)
LEMMA ReserveMakesRoom ==
    ASSUME TypeOK, Shapes, ~failed, NEW extra \in Nat, Reserve(extra)
    PROVE  /\ wcap' \in 0 .. SizeMax /\ Len(text) <= wcap'
           /\ failed' \in BOOLEAN /\ fault' \in BOOLEAN
           /\ ~failed' => Len(text) + extra <= wcap'
           /\ fault' <=> fault \/ failed'
<1>1. /\ wcap \in 0 .. SizeMax /\ Len(text) \in Nat /\ Len(text) <= wcap
      /\ SizeMax \in Nat /\ fault \in BOOLEAN /\ failed \in BOOLEAN
  BY BufferAssumption, LenProperties DEF TypeOK, Shapes
<1>2. CASE extra <= wcap - Len(text) /\ UNCHANGED << wcap, failed, fault >>
  BY <1>1, <1>2
<1>3. CASE wcap' \in Enough(extra) /\ UNCHANGED << failed, fault >>
  <2>1. wcap' \in 0 .. SizeMax /\ wcap' - Len(text) >= extra
    BY <1>3 DEF Enough, Doubled
  <2> QED BY <1>1, <1>3, <2>1
<1>4. CASE failed' = TRUE /\ fault' = TRUE /\ UNCHANGED wcap
  BY <1>1, <1>4
<1> QED BY <1>2, <1>3, <1>4 DEF Reserve

-----------------------------------------------------------------------------
(* The text of a piece is some of its number. *)
LEMMA BytesOfPiece ==
    ASSUME NEW p \in Pieces, NEW n \in Nat
    PROVE  /\ Bytes(p, n) \in Seq(Nat) /\ Len(Bytes(p, n)) = p.bytes
           /\ p.bytes \in Nat /\ Wanted(p) \in Nat /\ p.bytes <= Wanted(p)
<1>1. p.bytes \in Nat /\ Slot \in Nat /\ (p.by = "putf" => p.bytes < Slot)
  BY PieceAssumption, BufferAssumption
<1> QED BY <1>1 DEF Bytes, Wanted

(* The report of one piece more. *)
LEMMA ReportGrows ==
    ASSUME pieces \in Seq(Pieces), NEW p \in Pieces, pieces' = Append(pieces, p)
    PROVE  Report \in Seq(Nat) /\ Report' = Report \o Bytes(p, Len(pieces'))
<1> DEFINE n == Len(pieces)
           parts == [i \in DOMAIN pieces |-> Bytes(pieces[i], i)]
           more == [i \in DOMAIN pieces' |-> Bytes(pieces'[i], i)]
<1>1. /\ n \in Nat /\ DOMAIN pieces = 1 .. n /\ \A i \in 1 .. n : pieces[i] \in Pieces
      /\ Len(pieces') = n + 1 /\ DOMAIN pieces' = 1 .. n + 1
      /\ \A i \in 1 .. n : pieces'[i] = pieces[i]
      /\ pieces'[n + 1] = p
  BY AppendProperties, LenProperties, ElementOfSeq
<1>2. parts \in Seq(Seq(Nat)) /\ Len(parts) = n
  BY <1>1, BytesOfPiece
<1>3. more \in Seq(Seq(Nat)) /\ Len(more) = n + 1
  <2>1. \A i \in 1 .. n + 1 : pieces'[i] \in Pieces
    BY <1>1
  <2>2. ASSUME NEW i \in 1 .. n + 1 PROVE Bytes(pieces'[i], i) \in Seq(Nat)
    <3>1. pieces'[i] \in Pieces /\ i \in Nat
      BY <1>1, <2>1
    <3> QED BY <3>1, BytesOfPiece
  <2> QED BY <1>1, <2>2
<1>4. Bytes(p, n + 1) \in Seq(Nat)
  BY <1>1, BytesOfPiece
<1>5. more = Append(parts, Bytes(p, n + 1))
  <2> DEFINE appended == Append(parts, Bytes(p, n + 1))
  <2>1. /\ appended \in Seq(Seq(Nat)) /\ Len(appended) = n + 1
        /\ \A i \in 1 .. n : appended[i] = parts[i]
        /\ appended[n + 1] = Bytes(p, n + 1)
    BY <1>2, <1>4, AppendProperties
  <2>2. \A i \in 1 .. n + 1 : more[i] = appended[i]
    BY <1>1, <2>1
  <2> HIDE DEF appended, more
  <2>3. more = appended
    BY <1>3, <2>1, <2>2, SeqEqual
  <2> QED BY <2>3 DEF appended
<1>6. Report = FlattenSeq(parts) /\ Report' = FlattenSeq(more)
  BY DEF Report, Bytes
<1> HIDE DEF parts, more
<1> QED BY <1>1, <1>2, <1>4, <1>5, <1>6, FlattenType, FlattenAppend

(* Every way out of a run that could not answer. *)
LEMMA AbandonStep ==
    ASSUME SInv, Abandon, open' = FALSE, fault' \in BOOLEAN,
           fault' \/ \E f \in Files : size[f] >= MaxInput,
           UNCHANGED << file, pos, error, buf, cap, inputs, reportVars >>,
           sent' \in 0 .. Len(text), delivered' \in 0 .. sent'
    PROVE  SInv'
<1> USE DEF SInv
<1>1. /\ pc' = "exited" /\ status' = 3 /\ size' = size
      /\ arena' \in {"none", "live", "destroyed"} /\ arena' # "live"
  BY DEF Abandon, TypeOK
<1>2. TypeOK'
  BY <1>1 DEF TypeOK, reportVars
<1>3. Shapes'
  BY DEF Shapes, reportVars
<1>4. FileInTurn' /\ BufferIsPrefix'
  BY <1>1 DEF FileInTurn, BufferIsPrefix, Reading
<1>5. InputsComplete' /\ FaultsNoted' /\ SentWhole'
  BY <1>1 DEF InputsComplete, FaultsNoted, SentWhole, reportVars
<1>6. TextIsReport'
  BY DEF TextIsReport, Report, Bytes, reportVars
<1>7. ExitClean'
  BY <1>1 DEF ExitClean, ExitHonest, Released
<1> QED BY <1>2, <1>3, <1>4, <1>5, <1>6, <1>7

(* Going on with what was read and written as it is. *)
LEMMA ExitNotYet ==
    ASSUME pc' # "exited" PROVE ExitClean'
  BY DEF ExitClean, ExitHonest, Released

LEMMA ReportKept ==
    ASSUME SInv, UNCHANGED reportVars PROVE TextIsReport'
  BY DEF SInv, TextIsReport, Report, Bytes, reportVars

LEMMA OutputKept ==
    ASSUME SInv, UNCHANGED << outVars >>
    PROVE  sent' \in 0 .. Len(text) /\ delivered' \in 0 .. sent'
  BY DEF SInv, TypeOK, outVars

-----------------------------------------------------------------------------
(* One lemma per action. *)
LEMMA StartStep == SInv /\ Start => SInv'
<1> SUFFICES ASSUME SInv, Start PROVE SInv'
  OBVIOUS
<1> USE DEF SInv
<1>0. pc = "start" /\ UNCHANGED << fileVars, reportVars, outVars, size >>
  BY DEF Start, Abandon
<1>1. CASE pc' = "opening" /\ arena' = "live" /\ UNCHANGED << status, fault >>
  <2>1. TypeOK'
    BY <1>0, <1>1 DEF TypeOK, fileVars, reportVars, outVars
  <2>2. Shapes'
    BY <1>0 DEF Shapes, fileVars, reportVars
  <2>3. FileInTurn' /\ BufferIsPrefix'
    BY <1>0, <1>1 DEF FileInTurn, BufferIsPrefix, Reading, fileVars
  <2>4. InputsComplete' /\ FaultsNoted' /\ SentWhole'
    BY <1>0, <1>1 DEF InputsComplete, FaultsNoted, SentWhole, fileVars, reportVars
  <2> QED BY <1>0, <1>1, <2>1, <2>2, <2>3, <2>4, ReportKept, ExitNotYet
<1>2. CASE fault' = TRUE /\ Abandon
  <2>1. open' = FALSE
    BY <1>0 DEF FileInTurn, TypeOK, fileVars
  <2> QED BY <1>0, <1>2, <2>1, AbandonStep, OutputKept DEF fileVars
<1> QED BY <1>1, <1>2 DEF Start

LEMMA OpenFileStep == SInv /\ OpenFile => SInv'
<1> SUFFICES ASSUME SInv, OpenFile PROVE SInv'
  OBVIOUS
<1> USE DEF SInv
<1>0. pc = "opening" /\ UNCHANGED << file, buf, cap, inputs, reportVars, outVars, size >>
  BY DEF OpenFile, Abandon, Continue
<1>1. CASE open' = TRUE /\ pos' = 0 /\ error' = FALSE /\ Continue("allocating")
  <2>1. TypeOK'
    <3>1. pos' \in 0 .. size'[file']
      <4>1. size[file] \in Nat
        BY Numbers
      <4> QED BY <1>0, <1>1, <4>1
    <3> QED BY <1>0, <1>1, <3>1 DEF TypeOK, Continue, reportVars, outVars
  <2>2. Shapes'
    BY <1>0, <1>1 DEF Shapes, reportVars
  <2>3. FileInTurn' /\ BufferIsPrefix'
    BY <1>0, <1>1 DEF Continue, FileInTurn, BufferIsPrefix, Reading
  <2>4. InputsComplete' /\ FaultsNoted' /\ SentWhole'
    BY <1>0, <1>1 DEF Continue, InputsComplete, FaultsNoted, SentWhole, reportVars
  <2> QED BY <1>0, <1>1, <2>1, <2>2, <2>3, <2>4, ReportKept, ExitNotYet DEF Continue
<1>2. CASE fault' = TRUE /\ Abandon /\ UNCHANGED << open, pos, error >>
  <2>1. open' = FALSE
    BY <1>0, <1>2 DEF FileInTurn, TypeOK
  <2> QED BY <1>0, <1>2, <2>1, AbandonStep, OutputKept
<1> QED BY <1>1, <1>2 DEF OpenFile

LEMMA FirstBufferStep == SInv /\ FirstBuffer => SInv'
<1> SUFFICES ASSUME SInv, FirstBuffer PROVE SInv'
  OBVIOUS
<1> USE DEF SInv
<1>0. /\ pc = "allocating"
      /\ UNCHANGED << file, pos, error, inputs, reportVars, outVars, size >>
  BY DEF FirstBuffer, Abandon, Continue
<1>1. CASE buf' = << >> /\ cap' = FirstCap /\ Continue("reading") /\ UNCHANGED open
  <2>0. cap' \in Caps /\ cap' \in 0 .. MaxInput /\ pos = 0
    <3>1. FirstCap \in Caps /\ FirstCap \in 1 .. MaxInput
      BY CapsExist DEF CapsMeetLimit
    <3> QED BY <1>0, <1>1, <3>1 DEF BufferIsPrefix
  <2>1. TypeOK'
    BY <1>0, <1>1, <2>0 DEF TypeOK, Continue, reportVars, outVars
  <2>2. Shapes'
    BY <1>0, <1>1 DEF Shapes, reportVars
  <2>3. FileInTurn' /\ BufferIsPrefix'
    BY <1>0, <1>1, <2>0 DEF Continue, FileInTurn, BufferIsPrefix, Reading
  <2>4. InputsComplete' /\ FaultsNoted' /\ SentWhole'
    BY <1>0, <1>1 DEF Continue, InputsComplete, FaultsNoted, SentWhole, reportVars
  <2> QED BY <1>0, <1>1, <2>1, <2>2, <2>3, <2>4, ReportKept, ExitNotYet DEF Continue
<1>2. CASE open' = FALSE /\ fault' = TRUE /\ Abandon /\ UNCHANGED << buf, cap >>
  BY <1>0, <1>2, AbandonStep, OutputKept
<1> QED BY <1>1, <1>2 DEF FirstBuffer

LEMMA GrowBufferStep == SInv /\ GrowBuffer => SInv'
<1> SUFFICES ASSUME SInv, GrowBuffer PROVE SInv'
  OBVIOUS
<1> USE DEF SInv
<1>0. /\ pc = "reading" /\ Len(buf) = cap
      /\ UNCHANGED << file, pos, error, inputs, reportVars, outVars, size >>
  BY DEF GrowBuffer, Abandon, Continue
<1>1. CASE TooLarge /\ open' = FALSE /\ Abandon /\ UNCHANGED << buf, cap, fault >>
  <2>1. size[file] >= MaxInput /\ file \in Files
    <3>1. pos = cap
      <4>1. buf = [i \in 1 .. pos |-> i] /\ pos \in Nat
        BY <1>0 DEF BufferIsPrefix, Shapes
      <4> QED BY <1>0, <4>1
    <3>2. file \in Files /\ size[file] \in Nat
      BY Numbers
    <3>3. pos \in 0 .. size[file]
      BY <1>0 DEF TypeOK, FileInTurn
    <3> QED BY <1>1, <3>1, <3>2, <3>3, BufferAssumption DEF TooLarge, Shapes
  <2> QED BY <1>0, <1>1, <2>1, AbandonStep, OutputKept DEF TypeOK
<1>2. CASE ~TooLarge /\ buf' = Moved /\ cap' = 2 * cap /\ Continue("reading") /\ UNCHANGED open
  <2>0. cap' \in Caps /\ cap' \in 0 .. MaxInput /\ cap <= cap' /\ buf' = buf
    BY <1>0, <1>2, CapsDouble DEF BufferIsPrefix, TooLarge, Moved
  <2>1. TypeOK'
    <3>1. Len(buf') <= cap'
      BY <1>0, <2>0
    <3> QED BY <1>0, <1>2, <2>0, <3>1 DEF TypeOK, Continue, reportVars, outVars
  <2>2. Shapes'
    BY <1>0, <2>0 DEF Shapes, reportVars
  <2>3. FileInTurn' /\ BufferIsPrefix'
    BY <1>0, <1>2, <2>0 DEF Continue, FileInTurn, BufferIsPrefix, Reading
  <2>4. InputsComplete' /\ FaultsNoted' /\ SentWhole'
    BY <1>0, <1>2 DEF Continue, InputsComplete, FaultsNoted, SentWhole, reportVars
  <2> QED BY <1>0, <1>2, <2>1, <2>2, <2>3, <2>4, ReportKept, ExitNotYet DEF Continue
<1>3. CASE open' = FALSE /\ fault' = TRUE /\ Abandon /\ UNCHANGED << buf, cap >>
  BY <1>0, <1>3, AbandonStep, OutputKept
<1> QED BY <1>1, <1>2, <1>3 DEF GrowBuffer

LEMMA ReadStep == SInv /\ Read => SInv'
<1> SUFFICES ASSUME SInv, Read PROVE SInv'
  OBVIOUS
<1> USE DEF SInv
<1>0. /\ pc = "reading" /\ Len(buf) < cap
      /\ UNCHANGED << size, arena, status, file, open, cap, inputs, reportVars, outVars >>
  BY DEF Read
<1>1. PICK got \in 0 .. cap :
          /\ Fread(got)
          /\ buf' = buf \o [i \in 1 .. got |-> pos + i]
          /\ pos' = pos + got
          /\ pc' = IF Stops(got) THEN "read" ELSE "reading"
  BY DEF Read
<1>2. /\ pos \in Nat /\ cap \in Nat /\ got \in Nat /\ size[file] \in Nat
      /\ cap <= MaxInput /\ MaxInput \in Nat
  BY <1>1, Numbers
<1>3. open /\ pos \in 0 .. size[file] /\ cap \in Caps /\ buf = [i \in 1 .. pos |-> i]
  BY <1>0 DEF FileInTurn, BufferIsPrefix, TypeOK
<1>4. Len(buf) = pos /\ pos < cap
  BY <1>0, <1>2, <1>3
<1>5. buf' = [i \in 1 .. pos' |-> i]
  BY <1>1, <1>2, <1>3, PrefixGrows
<1>6. /\ pos' \in 0 .. size[file] /\ pos' <= cap
      /\ error' \in BOOLEAN /\ fault' \in BOOLEAN
      /\ (fault' <=> error' \/ failed)
      /\ got = 0 /\ ~error' => pos' = size[file]
  <2>1. CASE got = (IF size[file] - pos < cap - Len(buf) THEN size[file] - pos ELSE cap - Len(buf))
             /\ UNCHANGED << error, fault >>
    <3>1. UNCHANGED << error, fault >> /\ (fault <=> error \/ failed)
          /\ error \in BOOLEAN /\ fault \in BOOLEAN
      BY <1>0, <2>1 DEF FaultsNoted, TypeOK
    <3>2. pos' \in 0 .. size[file] /\ pos' <= cap /\ (got = 0 => pos' = size[file])
      BY <1>1, <1>2, <1>3, <1>4, <2>1
    <3> QED BY <3>1, <3>2
  <2>2. CASE got < cap - Len(buf) /\ got <= size[file] - pos /\ error' = TRUE /\ fault' = TRUE
    BY <1>1, <1>2, <1>3, <1>4, <2>2
  <2> QED BY <1>1, <2>1, <2>2 DEF Fread
<1>7. Len(buf') = pos' /\ pos' \in Nat /\ buf' \in Seq(Nat)
  <2>1. pos' \in Nat
    BY <1>1, <1>2
  <2> QED BY <1>5, <2>1
<1>8. pc' \in {"read", "reading"} /\ (pc' = "read" => got = 0)
  BY <1>1 DEF Stops
<1>9. TypeOK'
  BY <1>0, <1>6, <1>7, <1>8 DEF TypeOK, reportVars, outVars
<1>10. Shapes'
  BY <1>0, <1>7 DEF Shapes, reportVars
<1>11. FileInTurn'
  BY <1>0, <1>8 DEF FileInTurn, Reading
<1>12. BufferIsPrefix'
  BY <1>0, <1>1, <1>2, <1>3, <1>4, <1>5, <1>6, <1>8 DEF BufferIsPrefix
<1>13. InputsComplete' /\ FaultsNoted' /\ SentWhole'
  BY <1>0, <1>6, <1>8 DEF InputsComplete, FaultsNoted, SentWhole, reportVars
<1> QED BY <1>0, <1>8, <1>9, <1>10, <1>11, <1>12, <1>13, ReportKept, ExitNotYet

LEMMA EndOfFileStep == SInv /\ EndOfFile => SInv'
<1> SUFFICES ASSUME SInv, EndOfFile PROVE SInv'
  OBVIOUS
<1> USE DEF SInv
<1>0. /\ pc = "read" /\ open' = FALSE
      /\ UNCHANGED << pos, error, buf, cap, reportVars, outVars, size >>
  BY DEF EndOfFile, Abandon, Continue
<1>1. CASE ReadFailed /\ Abandon /\ UNCHANGED << fault, file, inputs >>
  <2>1. fault' = TRUE
    BY <1>0, <1>1 DEF FaultsNoted, ReadFailed, TypeOK
  <2> QED BY <1>0, <1>1, <2>1, AbandonStep, OutputKept
<1>2. CASE /\ ~ReadFailed
           /\ inputs' = Append(inputs, buf)
           /\ IF file = 1 THEN file' = 2 /\ Continue("opening")
              ELSE UNCHANGED file /\ Continue("parsing")
  <2>1. /\ ~error /\ pos = size[file] /\ pos < cap /\ cap <= MaxInput
        /\ buf = [i \in 1 .. size[file] |-> i]
        /\ file = Len(inputs) + 1 /\ size[file] \in Nat /\ cap \in Nat /\ MaxInput \in Nat
    <3>1. size[file] \in Nat /\ cap \in Nat /\ MaxInput \in Nat /\ cap <= MaxInput
      BY Numbers
    <3> QED BY <1>0, <1>2, <3>1 DEF BufferIsPrefix, FileInTurn, Reading, ReadFailed
  <2>2. /\ inputs' \in Seq(Seq(Nat)) /\ Len(inputs') = Len(inputs) + 1
        /\ \A f \in 1 .. Len(inputs) : inputs'[f] = inputs[f]
        /\ inputs'[Len(inputs) + 1] = buf
        /\ Len(inputs) \in Nat /\ DOMAIN inputs = 1 .. Len(inputs)
        /\ DOMAIN inputs' = 1 .. Len(inputs) + 1
    BY <1>2, AppendProperties, LenProperties DEF Shapes
  <2>3. /\ pc' \in {"opening", "parsing"} /\ file' \in Files
        /\ UNCHANGED << size, arena, status, fault >>
        /\ pc' = "opening" => Len(inputs) = 0 /\ file' = 2
        /\ pc' = "parsing" => Len(inputs) = 1
        /\ Len(inputs') = IF pc' = "opening" THEN 1 ELSE 2
    BY <1>2, <2>1, <2>2 DEF Continue, TypeOK, Files
  <2>4. TypeOK'
    <3>1. Len(inputs') <= 2
      BY <2>3
    <3> QED BY <1>0, <2>3, <3>1 DEF TypeOK, reportVars, outVars
  <2>5. Shapes'
    BY <1>0, <2>2 DEF Shapes, reportVars
  <2>6. FileInTurn' /\ BufferIsPrefix'
    BY <1>0, <2>3 DEF FileInTurn, BufferIsPrefix, Reading
  <2>7. InputsComplete'
    BY <2>1, <2>2, <2>3 DEF InputsComplete
  <2>8. FaultsNoted' /\ SentWhole'
    BY <1>0, <2>1, <2>3 DEF FaultsNoted, SentWhole, reportVars
  <2> QED BY <1>0, <2>3, <2>4, <2>5, <2>6, <2>7, <2>8, ReportKept, ExitNotYet
<1> QED BY <1>1, <1>2 DEF EndOfFile

LEMMA ParseStep == SInv /\ Parse => SInv'
<1> SUFFICES ASSUME SInv, Parse PROVE SInv'
  OBVIOUS
<1> USE DEF SInv
<1>0. pc = "parsing" /\ UNCHANGED << fileVars, reportVars, outVars, size >>
  BY DEF Parse, Abandon, Continue
<1>1. CASE Continue("checking")
  <2>1. TypeOK'
    BY <1>0, <1>1 DEF TypeOK, Continue, fileVars, reportVars, outVars
  <2>2. Shapes'
    BY <1>0 DEF Shapes, fileVars, reportVars
  <2>3. FileInTurn' /\ BufferIsPrefix'
    BY <1>0, <1>1 DEF Continue, FileInTurn, BufferIsPrefix, Reading, fileVars
  <2>4. InputsComplete' /\ FaultsNoted' /\ SentWhole'
    BY <1>0, <1>1 DEF Continue, InputsComplete, FaultsNoted, SentWhole, fileVars, reportVars
  <2> QED BY <1>0, <1>1, <2>1, <2>2, <2>3, <2>4, ReportKept, ExitNotYet DEF Continue
<1>2. CASE fault' = TRUE /\ Abandon
  <2>1. open' = FALSE
    BY <1>0 DEF FileInTurn, TypeOK, fileVars
  <2> QED BY <1>0, <1>2, <2>1, AbandonStep, OutputKept DEF fileVars
<1> QED BY <1>1, <1>2 DEF Parse

LEMMA CheckStep == SInv /\ Check => SInv'
<1> SUFFICES ASSUME SInv, Check PROVE SInv'
  OBVIOUS
<1> USE DEF SInv
<1>0. /\ pc = "checking"
      /\ UNCHANGED << text, wcap, failed, pieces, fileVars, outVars, size >>
  BY DEF Check, Abandon, Continue
<1>1. CASE verdict' \in DOMAIN ExitCode /\ Continue("rendering")
  <2>1. TypeOK'
    BY <1>0, <1>1 DEF TypeOK, Continue, fileVars, outVars
  <2>2. Shapes'
    BY <1>0 DEF Shapes, fileVars
  <2>3. FileInTurn' /\ BufferIsPrefix'
    BY <1>0, <1>1 DEF Continue, FileInTurn, BufferIsPrefix, Reading, fileVars
  <2>4. InputsComplete' /\ FaultsNoted' /\ SentWhole'
    BY <1>0, <1>1 DEF Continue, InputsComplete, FaultsNoted, SentWhole, fileVars
  <2>5. TextIsReport'
    BY <1>0 DEF TextIsReport, Report, Bytes
  <2> QED BY <1>0, <1>1, <2>1, <2>2, <2>3, <2>4, <2>5, ExitNotYet DEF Continue
<1>2. CASE fault' = TRUE /\ Abandon /\ UNCHANGED verdict
  <2>1. open' = FALSE
    BY <1>0 DEF FileInTurn, TypeOK, fileVars
  <2> QED BY <1>0, <1>2, <2>1, AbandonStep, OutputKept DEF fileVars, reportVars
<1> QED BY <1>1, <1>2 DEF Check

LEMMA PutStep == ASSUME NEW p \in Pieces PROVE SInv /\ Put(p) => SInv'
<1> SUFFICES ASSUME SInv, Put(p) PROVE SInv'
  OBVIOUS
<1> USE DEF SInv
<1>0. /\ pc = "rendering" /\ pc' = pc /\ pieces' = Append(pieces, p)
      /\ UNCHANGED << size, arena, status, verdict, fileVars, outVars >>
  BY DEF Put
<1> DEFINE bytes == Bytes(p, Len(pieces'))
<1>1. /\ pieces' \in Seq(Pieces) /\ Len(pieces') \in Nat
      /\ bytes \in Seq(Nat) /\ Len(bytes) = p.bytes
      /\ p.bytes \in Nat /\ Wanted(p) \in Nat /\ p.bytes <= Wanted(p)
  <2>1. pieces' \in Seq(Pieces) /\ Len(pieces') \in Nat
    BY <1>0, AppendProperties, LenProperties DEF Shapes
  <2> QED BY <2>1, BytesOfPiece
<1>2. /\ wcap' \in 0 .. SizeMax /\ Len(text) <= wcap'
      /\ failed' \in BOOLEAN /\ fault' \in BOOLEAN
      /\ ~failed' => ~failed /\ Len(text) + Wanted(p) <= wcap'
      /\ fault' <=> error \/ failed'
  <2>1. (fault <=> error \/ failed) /\ ~error
    BY <1>0 DEF FaultsNoted
  <2>2. CASE failed /\ UNCHANGED << wcap, failed, fault >>
    BY <2>1, <2>2 DEF TypeOK
  <2>3. CASE ~failed /\ Reserve(Wanted(p))
    BY <1>1, <2>1, <2>3, ReserveMakesRoom
  <2> QED BY <2>2, <2>3 DEF Put, TypeOK
<1>3. text' = IF failed' THEN text ELSE text \o bytes
  BY DEF Put
<1> HIDE DEF bytes
<1>4. /\ text' \in Seq(Nat) /\ Len(text') \in Nat
      /\ Len(text) <= Len(text') /\ Len(text') <= wcap'
  <2>1. text \in Seq(Nat) /\ Len(text) \in Nat /\ SizeMax \in Nat
    BY LenProperties, BufferAssumption DEF Shapes
  <2>2. CASE failed'
    BY <1>2, <1>3, <2>1, <2>2
  <2>3. CASE ~failed'
    <3>1. text' = text \o bytes
      BY <1>3, <2>3
    <3>2. text \o bytes \in Seq(Nat) /\ Len(text \o bytes) = Len(text) + Len(bytes)
      BY <1>1, <2>1, ConcatProperties
    <3> QED BY <1>1, <1>2, <2>1, <2>3, <3>1, <3>2
  <2> QED BY <2>2, <2>3
<1>5. TypeOK'
  <2>1. sent' \in 0 .. Len(text') /\ delivered' \in 0 .. sent'
    BY <1>0, <1>4, LenProperties DEF TypeOK, Shapes, outVars
  <2> QED BY <1>0, <1>2, <1>4, <2>1 DEF TypeOK, fileVars
<1>6. Shapes'
  BY <1>0, <1>1, <1>4 DEF Shapes, fileVars
<1>7. FileInTurn' /\ BufferIsPrefix'
  BY <1>0 DEF FileInTurn, BufferIsPrefix, Reading, fileVars
<1>8. InputsComplete' /\ SentWhole'
  BY <1>0 DEF InputsComplete, SentWhole, fileVars
<1>9. FaultsNoted'
  BY <1>0, <1>2 DEF FaultsNoted, fileVars
<1>10. TextIsReport'
  BY <1>0, <1>2, <1>3, ReportGrows DEF TextIsReport, Shapes, bytes
<1> QED BY <1>0, <1>5, <1>6, <1>7, <1>8, <1>9, <1>10, ExitNotYet

LEMMA JoinFailsStep == ASSUME NEW p \in Pieces PROVE SInv /\ JoinFails(p) => SInv'
<1> SUFFICES ASSUME SInv, JoinFails(p) PROVE SInv'
  OBVIOUS
<1> USE DEF SInv
<1>1. open' = FALSE
  BY DEF JoinFails, FileInTurn, TypeOK, fileVars
<1> QED BY <1>1, AbandonStep, OutputKept DEF JoinFails, fileVars

LEMMA RenderedStep == SInv /\ Rendered => SInv'
<1> SUFFICES ASSUME SInv, Rendered PROVE SInv'
  OBVIOUS
<1> USE DEF SInv
<1>0. pc = "rendering" /\ UNCHANGED << fileVars, reportVars, outVars, size >>
  BY DEF Rendered, Abandon, Continue
<1>1. CASE RenderFailed /\ Abandon /\ UNCHANGED fault
  <2>1. fault' = TRUE /\ open' = FALSE
    BY <1>0, <1>1 DEF FaultsNoted, RenderFailed, FileInTurn, TypeOK, fileVars
  <2> QED BY <1>0, <1>1, <2>1, AbandonStep, OutputKept DEF fileVars
<1>2. CASE ~RenderFailed /\ Continue("writing")
  <2>1. TypeOK'
    BY <1>0, <1>2 DEF TypeOK, Continue, fileVars, reportVars, outVars
  <2>2. Shapes'
    BY <1>0 DEF Shapes, fileVars, reportVars
  <2>3. FileInTurn' /\ BufferIsPrefix'
    BY <1>0, <1>2 DEF Continue, FileInTurn, BufferIsPrefix, Reading, fileVars
  <2>4. InputsComplete' /\ FaultsNoted' /\ SentWhole'
    BY <1>0, <1>2 DEF Continue, RenderFailed, InputsComplete, FaultsNoted, SentWhole, fileVars,
                      reportVars
  <2> QED BY <1>0, <1>2, <2>1, <2>2, <2>3, <2>4, ReportKept, ExitNotYet DEF Continue
<1> QED BY <1>1, <1>2 DEF Rendered

LEMMA WriteStep == SInv /\ Write => SInv'
<1> SUFFICES ASSUME SInv, Write PROVE SInv'
  OBVIOUS
<1> USE DEF SInv
<1>0. /\ pc = "writing" /\ UNCHANGED << fileVars, reportVars, size >>
      /\ sent' \in 0 .. Len(text) /\ delivered' \in 0 .. sent'
  BY DEF Write, Abandon, Continue
<1>1. CASE sent' = Len(text) /\ Continue("flushing")
  <2>1. TypeOK'
    BY <1>0, <1>1 DEF TypeOK, Continue, fileVars, reportVars
  <2>2. Shapes'
    BY <1>0 DEF Shapes, fileVars, reportVars
  <2>3. FileInTurn' /\ BufferIsPrefix'
    BY <1>0, <1>1 DEF Continue, FileInTurn, BufferIsPrefix, Reading, fileVars
  <2>4. InputsComplete' /\ FaultsNoted' /\ SentWhole'
    BY <1>0, <1>1 DEF Continue, InputsComplete, FaultsNoted, SentWhole, fileVars, reportVars
  <2> QED BY <1>0, <1>1, <2>1, <2>2, <2>3, <2>4, ReportKept, ExitNotYet DEF Continue
<1>2. CASE fault' = TRUE /\ Abandon
  <2>1. open' = FALSE
    BY <1>0 DEF FileInTurn, TypeOK, fileVars
  <2> QED BY <1>0, <1>2, <2>1, AbandonStep DEF fileVars
<1> QED BY <1>1, <1>2 DEF Write

LEMMA FlushStep == SInv /\ Flush => SInv'
<1> SUFFICES ASSUME SInv, Flush PROVE SInv'
  OBVIOUS
<1> USE DEF SInv
<1>0. /\ pc = "flushing" /\ UNCHANGED << sent, fileVars, reportVars, size >>
      /\ delivered' \in 0 .. sent' /\ sent' \in 0 .. Len(text)
      /\ open' = FALSE
  <2>1. delivered' \in delivered .. sent /\ sent \in 0 .. Len(text) /\ delivered \in 0 .. sent
    BY DEF Flush, TypeOK
  <2>2. Len(text) \in Nat
    BY LenProperties DEF Shapes
  <2>3. pc = "flushing" /\ UNCHANGED << sent, fileVars, reportVars, size >>
    BY DEF Flush, Abandon
  <2>4. open' = FALSE
    BY <2>3 DEF FileInTurn, TypeOK, fileVars
  <2> QED BY <2>1, <2>2, <2>3, <2>4
<1>1. CASE /\ delivered' = sent
           /\ pc' = "exited"
           /\ status' = ExitCode[verdict]
           /\ arena' = "destroyed"
           /\ UNCHANGED << size, fault >>
  <2>1. status' \in {0, 1, 2} /\ status' # 3
    BY <1>1 DEF TypeOK, ExitCode
  <2>2. TypeOK'
    BY <1>0, <1>1, <2>1 DEF TypeOK, fileVars, reportVars
  <2>3. Shapes'
    BY <1>0 DEF Shapes, fileVars, reportVars
  <2>4. FileInTurn' /\ BufferIsPrefix'
    BY <1>0, <1>1 DEF FileInTurn, BufferIsPrefix, Reading, fileVars
  <2>5. InputsComplete' /\ FaultsNoted' /\ SentWhole'
    BY <1>0, <1>1 DEF InputsComplete, FaultsNoted, SentWhole, fileVars, reportVars
  <2>6. ExitHonest'
    <3>1. ~fault' /\ ~failed
      BY <1>0, <1>1 DEF FaultsNoted
    <3>2. delivered' = Len(Report')
      <4>1. Report' = Report /\ Report = text
        BY <1>0, <3>1 DEF TextIsReport, Report, Bytes, reportVars
      <4> QED BY <1>0, <1>1, <4>1 DEF SentWhole
    <3>3. \A f \in Files : size'[f] < MaxInput
      <4>1. DOMAIN inputs = {1, 2}
        <5>1. Len(inputs) = 2
          BY <1>0 DEF FileInTurn
        <5> QED BY <5>1, LenProperties DEF Shapes
      <4> QED BY <1>0, <4>1 DEF InputsComplete, Files
    <3>4. status' = ExitCode[verdict']
      BY <1>0, <1>1 DEF reportVars
    <3> QED BY <2>1, <3>1, <3>2, <3>3, <3>4 DEF ExitHonest
  <2>7. Released'
    BY <1>0, <1>1 DEF Released
  <2> QED BY <1>0, <2>2, <2>3, <2>4, <2>5, <2>6, <2>7, ReportKept DEF ExitClean
<1>2. CASE fault' = TRUE /\ Abandon
  BY <1>0, <1>2, AbandonStep DEF fileVars
<1> QED BY <1>1, <1>2 DEF Flush

-----------------------------------------------------------------------------
LEMMA InitSInv == Init => SInv
<1> SUFFICES ASSUME Init PROVE SInv
  OBVIOUS
<1> USE DEF Init
<1>1. TypeOK
  <2>1. cap \in 0 .. MaxInput /\ wcap \in 0 .. SizeMax /\ sent \in 0 .. Len(text)
        /\ delivered \in 0 .. sent /\ Len(buf) <= cap /\ Len(text) <= wcap /\ Len(inputs) <= 2
    BY BufferAssumption
  <2>2. verdict \in DOMAIN ExitCode
    BY DEF ExitCode
  <2> QED BY <2>1, <2>2 DEF TypeOK, NoStatus, Files
<1>2. Shapes
  BY DEF Shapes
<1>3. FileInTurn /\ BufferIsPrefix /\ InputsComplete /\ FaultsNoted /\ SentWhole
  BY DEF FileInTurn, BufferIsPrefix, InputsComplete, FaultsNoted, SentWhole, Reading
<1>4. TextIsReport
  <2>1. DOMAIN pieces = {}
    OBVIOUS
  <2>2. [n \in DOMAIN pieces |-> Bytes(pieces[n], n)] = << >>
    BY <2>1
  <2> QED BY <2>2, FlattenEmpty DEF TextIsReport, Report
<1>5. ExitClean
  BY DEF ExitClean, ExitHonest, Released
<1> QED BY <1>1, <1>2, <1>3, <1>4, <1>5 DEF SInv

LEMMA StepSInv == SInv /\ [Next]_vars => SInv'
<1>1. CASE UNCHANGED vars
  <2> SUFFICES ASSUME SInv PROVE SInv'
    OBVIOUS
  <2> USE <1>1 DEF SInv, vars, fileVars, reportVars, outVars
  <2>1. TypeOK' /\ Shapes'
    BY DEF TypeOK, Shapes
  <2>2. FileInTurn' /\ BufferIsPrefix'
    BY DEF FileInTurn, BufferIsPrefix, Reading
  <2>3. InputsComplete' /\ FaultsNoted' /\ SentWhole'
    BY DEF InputsComplete, FaultsNoted, SentWhole
  <2>4. TextIsReport' /\ ExitClean'
    BY DEF TextIsReport, ExitClean, ExitHonest, Released, Report, Bytes
  <2> QED BY <2>1, <2>2, <2>3, <2>4
<1> QED
  BY <1>1, StartStep, OpenFileStep, FirstBufferStep, GrowBufferStep, ReadStep, EndOfFileStep,
     ParseStep, CheckStep, PutStep, JoinFailsStep, RenderedStep, WriteStep, FlushStep DEF Next

(* What holds in every state of every run of the command. *)
LEMMA SInvHolds == Spec => []SInv
<1> QED BY InitSInv, StepSInv, PTL DEF Spec

(* What is parsed is the whole file, in order, and no larger than          *)
(* MAX_INPUT: whatever the lengths of the files, of the first buffer and   *)
(* of the reads (read_file of src/src/main.c).                             *)
THEOREM InputsWholeTheorem == Spec => []InputsWhole
<1>1. SInv => InputsWhole
  BY DEF SInv, InputsWhole, InputsComplete
<1> QED BY <1>1, SInvHolds, PTL

(* A report is written whole or not at all, whatever its pieces and        *)
(* wherever memory runs out (w_reserve of src/src/report.c).               *)
THEOREM ReportWholeTheorem == Spec => []ReportWhole
<1>1. SInv => ReportWhole
  BY DEF SInv, ReportWhole, TextIsReport, FaultsNoted
<1> QED BY <1>1, SInvHolds, PTL

(* The exit status is the verdict exactly when nothing failed and the      *)
(* whole report is out, and every way out closes the file and destroys     *)
(* the arena (main of src/src/main.c).                                     *)
THEOREM ExitCleanTheorem == Spec => []ExitClean
<1>1. SInv => ExitClean
  BY DEF SInv
<1> QED BY <1>1, SInvHolds, PTL

-----------------------------------------------------------------------------
(* A directory never mixes two runs of corpus.py, however they are killed  *)
(* and started again: main of corpus.py removes everything before it       *)
(* writes, and writes the index last.                                      *)
THEOREM OneGenerationTheorem == FSpec => []OneGeneration
<1>1. FInit => FInv
  BY DEF FInit, FInv, OneGeneration, IndexOfItsFiles, CleanStart
<1>2. FInv /\ [FNext]_filesVars => FInv'
  <2> SUFFICES ASSUME FInv, [FNext]_filesVars PROVE FInv'
    OBVIOUS
  <2> USE DEF FInv, OneGeneration, IndexOfItsFiles, CleanStart
  <2>1. ASSUME NEW d \in Sources, StartCorpus(d) PROVE FInv'
    BY <2>1 DEF StartCorpus
  <2>2. ASSUME NEW name \in Stale, Unlink(name) PROVE FInv'
    BY <2>2 DEF Unlink
  <2>3. CASE StartBuilding
    BY <2>3 DEF StartBuilding, Stale
  <2>4. CASE GiveUp
    BY <2>4 DEF GiveUp
  <2>5. CASE StartWriting
    BY <2>5 DEF StartWriting
  <2>6. ASSUME NEW name, WriteProgram(name) PROVE FInv'
    BY <2>6 DEF WriteProgram
  <2>7. CASE WriteIndex
    BY <2>7 DEF WriteIndex
  <2>8. CASE Crash
    BY <2>8 DEF Crash
  <2>9. CASE RunDriver
    BY <2>9 DEF RunDriver
  <2>10. CASE UNCHANGED filesVars
    BY <2>10 DEF filesVars
  <2> QED
    BY <2>1, <2>2, <2>3, <2>4, <2>5, <2>6, <2>7, <2>8, <2>9, <2>10 DEF FNext
<1>3. FInv => OneGeneration
  BY DEF FInv
<1> QED
  BY <1>1, <1>2, <1>3, PTL DEF FSpec
=============================================================================
