------------------------------- MODULE Dataflow ------------------------------
(***************************************************************************)
(* What an out-of-order processor promises: an instruction starts only     *)
(* when the values it reads are there, when the memory accesses that it    *)
(* must not overtake are over, and when no mispredicted branch before it   *)
(* is unresolved.  Any number of instructions may start or finish in one   *)
(* step: units, queues and latencies are the business of the processor.    *)
(***************************************************************************)
EXTENDS Integers, Sequences

CONSTANTS
    Traces    \* the sequences of instructions [op, dest, src, addr, taken]

VARIABLES
    trace,          \* the program
    phase,          \* of each instruction: "unread", "waiting", "executing", "done"
    mispredicted    \* the branches that have been read and predicted wrongly

vars == <<trace, phase, mispredicted>>

Instr   == DOMAIN trace
Older(i) == {j \in Instr : j < i}

\* The instruction whose result source r of instruction i is: the last one
\* before i that writes the register.
Producer(r, i, j) ==
    /\ j \in Older(i) /\ r # -1 /\ trace[j].dest = r
    /\ \A k \in Older(i) : k > j => trace[k].dest # r

Loads  == {i \in Instr : trace[i].op = "LOAD"}
Stores == {i \in Instr : trace[i].op = "STORE"}

\* Two accesses to one address, one of which at least is a store.
Conflict(i, j) ==
    /\ i \in Loads \cup Stores /\ j \in Loads \cup Stores
    /\ Stores \cap {i, j} # {} /\ trace[i].addr = trace[j].addr

HasValues(i) ==
    \A j \in Older(i) :
        (\E s \in DOMAIN trace[i].src : Producer(trace[i].src[s], i, j)) => phase[j] = "done"
InMemoryOrder(i)  == \A j \in Older(i) : Conflict(i, j) => phase[j] = "done"
NotSpeculative(i) == \A j \in Older(i) : j \in mispredicted => phase[j] = "done"

MayStart(i) == phase[i] = "waiting" /\ HasValues(i) /\ InMemoryOrder(i) /\ NotSpeculative(i)

Init == trace \in Traces /\ phase = [i \in Instr |-> "unread"] /\ mispredicted = {}

\* Instructions are read in order; a NOP is over at once.
Read ==
    /\ \E n \in Instr :
          /\ phase[n] = "unread"
          /\ phase' = [i \in Instr |->
                         IF i <= n /\ phase[i] = "unread"
                         THEN IF trace[i].op = "NOP" THEN "done" ELSE "waiting"
                         ELSE phase[i]]
          /\ \E B \in SUBSET {i \in 1 .. n : phase[i] = "unread" /\ trace[i].op = "BR"} :
                mispredicted' = mispredicted \cup B
    /\ UNCHANGED trace

Start ==
    /\ \E S \in SUBSET {i \in Instr : MayStart(i)} :
          phase' = [i \in Instr |-> IF i \in S THEN "executing" ELSE phase[i]]
    /\ UNCHANGED <<trace, mispredicted>>

Finish ==
    /\ \E S \in SUBSET {i \in Instr : phase[i] = "executing"} :
          phase' = [i \in Instr |-> IF i \in S THEN "done" ELSE phase[i]]
    /\ UNCHANGED <<trace, mispredicted>>

Spec == Init /\ [][Read \/ Start \/ Finish]_vars
=============================================================================
