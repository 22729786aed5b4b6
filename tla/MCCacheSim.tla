------------------------------ MODULE MCCacheSim -----------------------------
(* Constants for model checking CacheSim. *)
EXTENDS CacheSim

\* With two sets, or three, of which the last is then never used: lines of set 0, of which
\* 0 and 8 have one tag if TagRange is 4, and a line of set 1.
Blocks == {0, 2, 4, 6, 8, 1}
=============================================================================
