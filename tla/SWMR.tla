-------------------------------- MODULE SWMR --------------------------------
(***************************************************************************)
(* What a coherent memory system promises its processors: for every line   *)
(* there is one writer and no reader, or any number of readers and no      *)
(* writer; and a load is answered only to a node that may then read the    *)
(* line, a store only to one that may then write it.  How permissions move *)
(* is the protocol's business.                                             *)
(***************************************************************************)
CONSTANTS Node, Addr, NULL

Op == [msg : {"LOAD", "STORE"}, addr : Addr]

VARIABLES
    perm,  \* perm[p][a]: what the processor of node p may do with line a
    op     \* op[p]: the operation processor p waits for, NULL if none

vars == <<perm, op>>

Permission == {"none", "read", "write"}

\* A permission p may hold besides what the others hold now.
Compatible(p, a, r) ==
    \A q \in Node \ {p} : /\ r = "write" => perm[q][a] = "none"
                          /\ r = "read"  => perm[q][a] # "write"

Init == /\ perm = [p \in Node |-> [a \in Addr |-> "none"]]
        /\ op = [p \in Node |-> NULL]

Issue(p) == /\ op[p] = NULL
            /\ \E o \in Op : op' = [op EXCEPT ![p] = o]
            /\ UNCHANGED perm

Below(r, s) == \/ r = "none"
               \/ r = "read" /\ s = "write"

\* A node gives up a permission, to let another one have it.
Yield(p) == /\ \E a \in Addr, r \in Permission :
                  /\ Below(r, perm[p][a])
                  /\ perm' = [perm EXCEPT ![p][a] = r]
            /\ UNCHANGED op

\* The operation is performed, with the permission it needs or a stronger one.
Perform(p) == /\ op[p] # NULL
              /\ \E r \in Permission \ {"none"} :
                    /\ op[p].msg = "STORE" => r = "write"
                    /\ Compatible(p, op[p].addr, r)
                    /\ perm' = [perm EXCEPT ![p][op[p].addr] = r]
              /\ op' = [op EXCEPT ![p] = NULL]

Next == \E p \in Node : Issue(p) \/ Yield(p) \/ Perform(p)

Spec == Init /\ [][Next]_vars
=============================================================================
