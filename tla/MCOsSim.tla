------------------------------- MODULE MCOsSim ------------------------------
(* Constants for model checking OsSim. *)
EXTENDS OsSim

\* A CPU burst; bursts separated by I/O.
Burst(a)         == <<[type |-> "OP_CPU", time |-> a], [type |-> "OP_TERMINATE", time |-> 0]>>
Before(a, io, ops) == <<[type |-> "OP_CPU", time |-> a], [type |-> "OP_IO", time |-> io]>> \o ops

TwoProcesses   == [p \in 0 .. 1 |-> IF p = 0 THEN Before(1, 1, Burst(1)) ELSE Burst(2)]
ThreeProcesses == [p \in 0 .. 2 |-> IF p = 0 THEN Before(1, 1, Burst(1))
                                    ELSE IF p = 1 THEN Burst(2) ELSE Burst(1)]

\* processes[]: time_remaining starts as the time of the first burst.
Times(program) == [p \in DOMAIN program |-> program[p][1].time]
TwoTimes       == Times(TwoProcesses)
ThreeTimes     == Times(ThreeProcesses)

\* Spurious wake-ups.
Never         == [m \in Modes |-> 0]
OnceUnderFifo == [m \in Modes |-> IF m = "f" THEN 1 ELSE 0]

\* What malloc returns: zeroed memory, or under LRTF, which alone reads it before
\* it is set, anything.
Nulls               == [m \in Modes |-> {NULL}]
AnyPointerUnderLrtf == [m \in Modes |-> IF m = "l" THEN {NULL, WILD} ELSE {NULL}]
=============================================================================
