------------------------------ MODULE MCQueens -------------------------------
(* Constants for model checking Queens. *)
EXTENDS Queens

AllSearches == {"bt", "fc", "dvo"}
Boards      == 1 .. 6
=============================================================================
