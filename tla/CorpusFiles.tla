------------------------------ MODULE CorpusFiles ------------------------------
(***************************************************************************)
(* The corpus directory between its writer, main of                        *)
(* src/tools/differential/corpus.py, and its reader, main of run.py.  A    *)
(* run of the writer removes what it finds, builds the programs, writes    *)
(* them one by one and the index last; it may be killed anywhere.  A       *)
(* program is known by its file and by the run that wrote it; a file cut   *)
(* short is one that is not there, since no JSON reader accepts it.        *)
(***************************************************************************)
EXTENDS Naturals, FiniteSets

CONSTANTS
    Absent,
    Sources,        \* the descriptors a run of corpus.py may be given
    Unbuildable,    \* those of them build_corpus gives up on
    Names,          \* run -> the names of its programs
    MaxRuns         \* bound: runs of corpus.py

FilesAssumption ==
    /\ Unbuildable \subseteq Sources
    /\ MaxRuns \in Nat
    /\ DOMAIN Names = 1 .. MaxRuns
    /\ \A r \in 1 .. MaxRuns : "index" \notin Names[r]

ASSUME FilesAssumption

VARIABLES
    run,            \* the number of the last run; 0 before the first
    source,         \* the descriptor it was given
    step,           \* "unlinking", "building", "writing", "written",
                    \* "gave_up" or "idle": not started, or killed
    files,          \* name -> the run that wrote it, for the files there
    index,          \* the index: its run and the names it lists, or Absent
    rows            \* the output of run.py: name -> the run that wrote the
                    \* program it judged, under the index it read; or Absent

filesVars == << run, source, step, files, index, rows >>

NoFiles == [n \in {} |-> 0]

FInit ==
    /\ run = 0
    /\ source = Absent
    /\ step = "idle"
    /\ files = NoFiles
    /\ index = Absent
    /\ rows = Absent

-----------------------------------------------------------------------------
(* main of corpus.py, started when no other run is under way. *)
StartCorpus(d) ==
    /\ step \in {"idle", "written", "gave_up"}
    /\ run < MaxRuns
    /\ run' = run + 1
    /\ source' = d
    /\ step' = "unlinking"
    /\ UNCHANGED << files, index, rows >>

(* outdir.glob("*.json") also finds the index.  The order is the           *)
(* directory's.                                                            *)
\* Fault: only the programs are removed.
StaleProgramsOnly == DOMAIN files

Stale == DOMAIN files \cup IF index = Absent THEN {} ELSE {"index"}

Unlink(name) ==
    /\ step = "unlinking"
    /\ name \in Stale
    /\ files' = [n \in DOMAIN files \ {name} |-> files[n]]
    /\ index' = IF name = "index" THEN Absent ELSE index
    /\ UNCHANGED << run, source, step, rows >>

StartBuilding ==
    /\ step = "unlinking"
    /\ Stale = {}
    /\ step' = "building"
    /\ UNCHANGED << run, source, files, index, rows >>

(* raise SystemExit. *)
GiveUp ==
    /\ step = "building"
    /\ source \in Unbuildable
    /\ step' = "gave_up"
    /\ UNCHANGED << run, source, files, index, rows >>

StartWriting ==
    /\ step = "building"
    /\ source \notin Unbuildable
    /\ step' = "writing"
    /\ UNCHANGED << run, source, files, index, rows >>

(* In the order of the shuffle, which may be any. *)
WriteProgram(name) ==
    /\ step = "writing"
    /\ name \in Names[run] \ DOMAIN files
    /\ files' = [n \in DOMAIN files \cup {name} |-> IF n = name THEN run ELSE files[n]]
    /\ UNCHANGED << run, source, step, index, rows >>

WriteIndex ==
    /\ step = "writing"
    /\ Names[run] \subseteq DOMAIN files
    /\ index' = [run |-> run, cases |-> Names[run]]
    /\ step' = "written"
    /\ UNCHANGED << run, source, files, rows >>

Crash ==
    /\ step \in {"unlinking", "building", "writing"}
    /\ step' = "idle"
    /\ UNCHANGED << run, source, files, index, rows >>

-----------------------------------------------------------------------------
(* main of run.py: without the index, or with a program missing, it raises *)
(* before it writes a row.                                                 *)
RunDriver ==
    /\ step \in {"idle", "written", "gave_up"}
    /\ index # Absent
    /\ index.cases \subseteq DOMAIN files
    /\ rows' = [index |-> index.run, programs |-> [n \in index.cases |-> files[n]]]
    /\ UNCHANGED << run, source, step, files, index >>

FNext ==
    \/ \E d \in Sources : StartCorpus(d)
    \/ \E name \in Stale : Unlink(name)
    \/ StartBuilding
    \/ GiveUp
    \/ StartWriting
    \/ \E name \in UNION {Names[r] : r \in 1 .. MaxRuns} : WriteProgram(name)
    \/ WriteIndex
    \/ Crash
    \/ RunDriver

FSpec == FInit /\ [][FNext]_filesVars

-----------------------------------------------------------------------------
(* The rows of run.py are about one corpus: every program they judge was   *)
(* written by the run of corpus.py that wrote the index they were read     *)
(* from, and none of that run's programs is missing.  Killed anywhere and  *)
(* started again with another descriptor, corpus.py leaves no directory    *)
(* that run.py would read as a mixture (corpus.py main, run.py main).      *)
OneGeneration ==
    rows # Absent =>
        /\ DOMAIN rows.programs = Names[rows.index]
        /\ \A n \in DOMAIN rows.programs : rows.programs[n] = rows.index

(* What the directory holds: an index lists its own run's programs, and    *)
(* only files of that run are beside it, whatever removal has left of      *)
(* them.                                                                   *)
IndexOfItsFiles ==
    index # Absent =>
        /\ index.cases = Names[index.run]
        /\ \A n \in DOMAIN files : files[n] = index.run

(* Removal is complete before a run builds, and the index it removed stays *)
(* away until all of the run's programs are there.                         *)
CleanStart ==
    /\ step \in {"building", "writing"} => index = Absent
    /\ step = "building" => DOMAIN files = {}
    /\ step = "writing" => \A n \in DOMAIN files : files[n] = run

FInv == OneGeneration /\ IndexOfItsFiles /\ CleanStart
=============================================================================
