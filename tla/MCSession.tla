------------------------------ MODULE MCSession ------------------------------
(***************************************************************************)
(* Buffers of a few bytes: the input buffer doubles twice, the report's    *)
(* once before its double would not fit a size_t.                          *)
(***************************************************************************)
EXTENDS Session

ReportPieces ==
    {[by |-> "put", bytes |-> 1], [by |-> "put", bytes |-> 3],
     [by |-> "putf", bytes |-> 1], [by |-> "joined", bytes |-> 2]}
=============================================================================
