---------------------------- MODULE CoherenceInv ----------------------------
(***************************************************************************)
(* The inductive invariant of CoherenceSim: what relates the bus, the      *)
(* memory's lookup, the queue and the caches at every control point, so    *)
(* that each step keeps the safety properties.                             *)
(***************************************************************************)
EXTENDS CoherenceSim

States(pro) == CASE pro = "MI_PRO"     -> MI!States
                 [] pro = "MSI_PRO"    -> MSI!States
                 [] pro = "MESI_PRO"   -> MESI!States
                 [] pro = "MOSI_PRO"   -> MOSI!States
                 [] pro = "MOESIF_PRO" -> MOESIF!States

WriteWait == Transient \ {"IS"}
Copy      == Readable \cup Supplier

GetOnBus  == current_request # NULL /\ current_request.msg # "DATA"
DataOnBus == current_request # NULL /\ current_request.msg = "DATA"

\* Node q has snooped the message that is on the bus in this cycle, and the
\* memory controller has.
Snooped(q)    == phase \in {"cache_proc", "cache_snoop"} => q < turn
MemorySnooped == phase \in {"tock", "bus", "done"}

\* Node q has snooped the request that is being served.
Asked(q) == GetOnBus => Snooped(q)

For(m, p, a) == m # NULL /\ m.node = p /\ m.addr = a

\* The request of node p for line a has been on the bus and its DATA is not there yet.
Served(p, a) ==
    /\ request_in_progress \/ (DataOnBus /\ ~Snooped(p))
    /\ For(current_request, p, a) \/ For(data_reply, p, a) \/ For(mc_request, p, a)

Queued(p, a) == \E k \in 1 .. Len(pending_requests) :
                    pending_requests[k].node = p /\ pending_requests[k].addr = a

\* The loops start at node 0, and a line has a state of the protocol in use.
ControlInv ==
    /\ phase \in {"bus", "mc", "tock", "done"} => turn = 0
    /\ \A p \in Node, a \in Addr : state[p][a] \in States(protocol)
    /\ phase = "done" => \A p \in Node : ~outstanding_request[p]

\* The latches of the bus and of the memory belong to one transaction.
BusInv ==
    /\ GetOnBus => request_in_progress
    /\ DataOnBus => ~request_in_progress /\ data_reply = NULL
    /\ data_reply # NULL => request_in_progress /\ data_reply.msg = "DATA"
    /\ mc_request # NULL => /\ mc_request.msg = "DATA"
                            /\ request_in_progress \/ (DataOnBus /\ ~MemorySnooped)
    /\ request_in_progress /\ ~(GetOnBus /\ ~MemorySnooped)
          => data_reply # NULL \/ mc_request # NULL
    /\ GetOnBus /\ ~MemorySnooped => mc_request = NULL
    /\ current_request = NULL /\ ~MemorySnooped => data_reply = NULL

AgreeInv ==
    \A m1, m2 \in {current_request, data_reply, mc_request} :
        m1 # NULL /\ m2 # NULL => m1.node = m2.node /\ m1.addr = m2.addr

\* The queue holds at most one request of a node, and the line it is for waits.
QueueEntry(k) ==
    LET r == pending_requests[k]
    IN  /\ r.msg # "DATA"
        /\ state[r.node][r.addr] \in Transient
        /\ r.msg = "GETS" <=> state[r.node][r.addr] = "IS"
        /\ ~Served(r.node, r.addr)
        /\ \A j \in 1 .. Len(pending_requests) :
               pending_requests[j].node = r.node => j = k

QueueInv == \A k \in 1 .. Len(pending_requests) : QueueEntry(k)

ServedInv ==
    /\ \A p \in Node, a \in Addr : Served(p, a) => state[p][a] \in Transient
    /\ GetOnBus => (current_request.msg = "GETS"
                        <=> state[current_request.node][current_request.addr] = "IS")

\* A processor waits for one thing at a time.
WaitInv ==
    \A p \in Node :
        /\ \A a \in Addr : state[p][a] \in Transient =>
              /\ outstanding_request[p] /\ ~Replied(p) /\ proc_request[p] \notin ProcReq
              /\ issued[p] # NULL /\ issued[p].addr = a
              /\ Served(p, a) \/ Queued(p, a)
        /\ proc_request[p] \in ProcReq =>
              outstanding_request[p] /\ ~Replied(p) /\ proc_request[p] = issued[p]
        /\ Replied(p) => outstanding_request[p]
        /\ ~(inbound_request[p] /\ inbound_request_buf[p])
        /\ outstanding_request[p] /\ issued[p] # NULL =>
              \/ proc_request[p] = issued[p]
              \/ Replied(p)
              \/ state[p][issued[p].addr] \in Transient

\* One writer or many readers, and one supplier: also against lines that wait.
CopyInv ==
    \A p, q \in Node, a \in Addr : p # q =>
        /\ state[p][a] \in Exclusive => state[q][a] \notin Copy
        /\ state[p][a] \in Supplier => state[q][a] \notin Supplier

\* The nodes that have snooped a GETM have given the line up.
WriteInv ==
    \A p \in Node, a \in Addr : Served(p, a) /\ state[p][a] \in WriteWait =>
        /\ Asked(p) => state[p][a] \in {"IM", "SM"}
        /\ \A q \in Node : q # p /\ Asked(q) => state[q][a] \notin Copy

\* Those that have snooped a GETS do not write, and raised the shared line.
ReadInv ==
    \A p \in Node, a \in Addr : Served(p, a) /\ state[p][a] = "IS" =>
        \A q \in Node : q # p /\ Asked(q) =>
            /\ state[q][a] \notin Exclusive
            /\ protocol \in {"MESI_PRO", "MOESIF_PRO"} /\ ~shared_line
                  => state[q][a] \notin Copy

\* After the supplier has answered, nobody else will.
ReplyInv ==
    GetOnBus /\ data_reply # NULL =>
        \A q \in Node : ~Snooped(q) =>
            state[q][current_request.addr] \notin Supplier \cup Exclusive

\* As long as no cache has answered, those that could have are not dirty.
CleanInv ==
    /\ GetOnBus /\ ~MemorySnooped /\ data_reply = NULL =>
          \A q \in Node : Snooped(q) => state[q][current_request.addr] \notin Dirty
    /\ mc_request # NULL /\ data_reply = NULL /\ request_in_progress =>
          \A q \in Node : state[q][mc_request.addr] \notin Dirty

GarbageInv ==
    /\ AbortsOnlyOnGarbage
    /\ \A p \in Node : proc_request[p] = WILD => "proc_request" \in Uninitialised

\* Inductive: it holds initially and every step keeps it.
IInv == /\ TypeOK /\ ControlInv /\ BusInv /\ AgreeInv /\ QueueInv /\ ServedInv
        /\ WaitInv /\ CopyInv /\ WriteInv /\ ReadInv /\ ReplyInv /\ CleanInv
        /\ GarbageInv
=============================================================================
