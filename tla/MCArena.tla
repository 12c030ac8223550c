------------------------------- MODULE MCArena -------------------------------
(***************************************************************************)
(* Requests of every alignment, of no bytes, of a few and of nearly all    *)
(* the address space.                                                      *)
(***************************************************************************)
EXTENDS Arena

ArenaRequests == ({0, 1, 4} \X {1, 4}) \cup {<< 3, 2 >>, << 17, 4 >>, << 19, 1 >>}

ArenaArrays == {<< 0, 6 >>, << 2, 2 >>, << 4, 6 >>}
=============================================================================
