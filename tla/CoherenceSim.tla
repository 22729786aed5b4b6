---------------------------- MODULE CoherenceSim ----------------------------
(***************************************************************************)
(* The snooping-bus coherence simulator of comp_arch/coherence/src: the    *)
(* loop of sim.cpp ticks the bus, every cache, every processor, the memory *)
(* controller and the processors' input latches, in that order, forever or *)
(* until every processor is done.                                          *)
(*                                                                         *)
(* The program has one thread, so there is one control point: phase says   *)
(* which for loop of Simulator::run is executing and turn which node it    *)
(* ticks.  What is not deterministic is the work: the traces the           *)
(* processors read, the protocol the settings select, and the fields no    *)
(* constructor initialises.                                                *)
(*                                                                         *)
(* Left out: statistics (counters that are written and never read until    *)
(* they are printed), debug output, and the object lifetime of messages.   *)
(***************************************************************************)
EXTENDS Naturals, Sequences, Protocol

CONSTANTS
    N,             \* settings.num_nodes: processors, each with its L1 cache
    Addr,          \* the cache lines the traces name
    TraceLen,      \* bound: operations in a processor's trace file
    HitTime,       \* the memory's hit_time (100 in Node::build_memory_controller)
    Protocols,     \* the values settings.protocol may take
    Uninitialised, \* fields read before they are written whose memory is not zero
    NULL,          \* the null pointer
    WILD           \* an uninitialised pointer

Node    == 0 .. N - 1
Mreq    == [msg : BusMsg, addr : Addr, node : Node]  \* node: who asked for the line
ProcReq == [msg : ProcMsg, addr : Addr]

ASSUME ConstantsAssumption ==
    /\ N \in Nat \ {0}
    /\ TraceLen \in Nat
    /\ HitTime \in Nat \ {0}
    /\ Protocols \subseteq {"MI_PRO", "MSI_PRO", "MESI_PRO", "MOSI_PRO", "MOESIF_PRO"}
    /\ Uninitialised \subseteq {"outstanding_request", "proc_request"}
    /\ NULL \notin Mreq /\ NULL \notin ProcReq
    /\ WILD \notin ProcReq /\ WILD # NULL

MI     == INSTANCE MI_protocol
MSI    == INSTANCE MSI_protocol
MESI   == INSTANCE MESI_protocol
MOSI   == INSTANCE MOSI_protocol
MOESIF == INSTANCE MOESIF_protocol

VARIABLES
    protocol,              \* settings.protocol
    phase,                 \* the step of Simulator::run
    turn,                  \* the node its for loop ticks
    state,                 \* state[p][a]: line a in the cache of node p
    proc_request,          \* Hash_table: the processor's request, NULL if none
    inbound_request,       \* Processor: a reply it will see at its next tick
    inbound_request_buf,   \* Processor: a reply its cache has just sent
    outstanding_request,   \* Processor: it waits for a reply
    end_of_trace,          \* Processor
    fetched,               \* operations read from the trace file so far
    issued,                \* history: the operation the processor fetched last
    current_request,       \* Bus: the message every module snoops in this cycle
    pending_requests,      \* Bus: GETS and GETM messages that wait for the bus
    data_reply,            \* Bus: the DATA message that answers current_request
    request_in_progress,   \* Bus: a GETS or GETM waits for its DATA
    shared_line,           \* Bus
    mc_request,            \* Memory_controller: the DATA it looks up, NULL if none
    mc_wait,               \* Memory_controller: data_time - Global_Clock, at least 0
    fatal                  \* an assert or fatal_error has aborted the program

control   == <<protocol, phase, turn>>
caches    == <<state, proc_request>>
latches   == <<inbound_request, inbound_request_buf>>
procs     == <<outstanding_request, end_of_trace, fetched, issued>>
bus       == <<current_request, pending_requests, data_reply,
               request_in_progress, shared_line>>
memory    == <<mc_request, mc_wait>>
vars      == <<control, caches, latches, procs, bus, memory, fatal>>

Phase == {"bus", "cache_proc", "cache_snoop", "pr", "mc", "tock", "done"}

-----------------------------------------------------------------------------
\* Hash_entry calls the handler of the protocol its constructor chose.
cache_request(s, msg) ==
    CASE protocol = "MI_PRO"     -> MI!process_cache_request(s, msg)
      [] protocol = "MSI_PRO"    -> MSI!process_cache_request(s, msg)
      [] protocol = "MESI_PRO"   -> MESI!process_cache_request(s, msg)
      [] protocol = "MOSI_PRO"   -> MOSI!process_cache_request(s, msg)
      [] protocol = "MOESIF_PRO" -> MOESIF!process_cache_request(s, msg)

snoop_request(s, msg, shared) ==
    CASE protocol = "MI_PRO"     -> MI!process_snoop_request(s, msg)
      [] protocol = "MSI_PRO"    -> MSI!process_snoop_request(s, msg)
      [] protocol = "MESI_PRO"   -> MESI!process_snoop_request(s, msg, shared)
      [] protocol = "MOSI_PRO"   -> MOSI!process_snoop_request(s, msg)
      [] protocol = "MOESIF_PRO" -> MOESIF!process_snoop_request(s, msg, shared)

Message(m, a, p) == [msg |-> m, addr |-> a, node |-> p]

\* assert and fatal_error end the program on the spot.
Abort == fatal' = TRUE /\ UNCHANGED <<control, caches, latches, procs, bus, memory>>

\* bus_request: the bus latches one DATA message, and asserts there is one only;
\* GETS and GETM queue.
ReplyLatchBusy == data_reply # NULL

\* A handler of node p's cache answered out for line a.
Fails(p, out) ==
    \/ "fatal_error" \in out.calls
    \/ "send_DATA_to_proc" \in out.calls /\ inbound_request_buf[p]
    \/ "send_DATA_on_bus" \in out.calls /\ ReplyLatchBusy

\* Mutant: a request is dropped when another one waits.
AsksIfIdle(p, a, out) ==
    IF pending_requests # <<>> THEN pending_requests
    ELSE IF "send_GETM" \in out.calls THEN Append(pending_requests, Message("GETM", a, p))
    ELSE IF "send_GETS" \in out.calls THEN Append(pending_requests, Message("GETS", a, p))
    ELSE pending_requests

Asks(p, a, out) ==
    IF "send_GETM" \in out.calls THEN Append(pending_requests, Message("GETM", a, p))
    ELSE IF "send_GETS" \in out.calls THEN Append(pending_requests, Message("GETS", a, p))
    ELSE pending_requests

\* Performs the calls; requester is the node a DATA message on the bus is for.
Perform(p, a, out, requester) ==
    /\ state' = [state EXCEPT ![p][a] = out.state]
    /\ inbound_request_buf' =
          [inbound_request_buf EXCEPT ![p] = @ \/ "send_DATA_to_proc" \in out.calls]
    /\ pending_requests' = Asks(p, a, out)
    /\ data_reply' = IF "send_DATA_on_bus" \in out.calls
                     THEN Message("DATA", a, requester) ELSE data_reply
    /\ shared_line' = (shared_line \/ "set_shared_line" \in out.calls)
    /\ UNCHANGED <<inbound_request, procs, current_request, request_in_progress,
                   memory, fatal>>

-----------------------------------------------------------------------------
\* No constructor sets Processor::outstanding_request and Hash_table::proc_request.
Init ==
    /\ protocol \in Protocols
    /\ phase = "bus" /\ turn = 0
    /\ state = [p \in Node |-> [a \in Addr |-> "I"]]
    /\ proc_request \in
          [Node -> IF "proc_request" \in Uninitialised THEN {NULL, WILD} ELSE {NULL}]
    /\ inbound_request = [p \in Node |-> FALSE]
    /\ inbound_request_buf = [p \in Node |-> FALSE]
    /\ outstanding_request \in
          [Node -> IF "outstanding_request" \in Uninitialised THEN BOOLEAN ELSE {FALSE}]
    /\ end_of_trace = [p \in Node |-> FALSE]
    /\ fetched = [p \in Node |-> 0]
    /\ issued = [p \in Node |-> NULL]
    /\ current_request = NULL /\ pending_requests = <<>> /\ data_reply = NULL
    /\ request_in_progress = FALSE /\ shared_line = FALSE
    /\ mc_request = NULL /\ mc_wait = 0
    /\ fatal = FALSE

At(ph, p) == ~fatal /\ phase = ph /\ turn = p

\* Mutant: one node too many.
NextNodeTooFar(p, again, next) ==
    /\ phase' = IF p = N THEN next ELSE again
    /\ turn' = IF p = N THEN 0 ELSE p + 1
    /\ UNCHANGED protocol

\* The for loop over the nodes goes on, or the next loop begins.
NextNode(p, again, next) ==
    /\ phase' = IF p = N - 1 THEN next ELSE again
    /\ turn' = IF p = N - 1 THEN 0 ELSE p + 1
    /\ UNCHANGED protocol

\* Bus::tick.
BusTick ==
    /\ At("bus", 0)
    /\ \/ /\ request_in_progress /\ data_reply # NULL
          /\ current_request' = data_reply
          /\ data_reply' = NULL
          /\ request_in_progress' = FALSE
          /\ UNCHANGED <<pending_requests, shared_line>>
       \/ /\ request_in_progress /\ data_reply = NULL
          /\ current_request' = NULL
          /\ UNCHANGED <<data_reply, request_in_progress, pending_requests, shared_line>>
       \/ /\ ~request_in_progress /\ pending_requests # <<>>
          /\ shared_line' = FALSE
          /\ current_request' = Head(pending_requests)
          /\ pending_requests' = Tail(pending_requests)
          /\ request_in_progress' = TRUE
          /\ UNCHANGED data_reply
       \/ /\ ~request_in_progress /\ pending_requests = <<>>
          /\ current_request' = NULL
          /\ UNCHANGED <<data_reply, request_in_progress, pending_requests, shared_line>>
    /\ phase' = "cache_proc"
    /\ UNCHANGED <<protocol, turn, caches, latches, procs, memory, fatal>>

\* Hash_table::tick, its first half: the request the processor left here.
CacheProc(p) ==
    /\ At("cache_proc", p)
    /\ LET r   == proc_request[p]
           out == cache_request(state[p][r.addr], r.msg)
       IN  IF r = NULL
           THEN /\ phase' = "cache_snoop"
                /\ UNCHANGED <<protocol, turn, caches, latches, procs, bus, memory, fatal>>
           ELSE IF r = WILD \/ Fails(p, out) THEN Abort
           ELSE /\ Perform(p, r.addr, out, p)
                /\ proc_request' = [proc_request EXCEPT ![p] = NULL]
                /\ phase' = "cache_snoop"
                /\ UNCHANGED <<protocol, turn>>

\* Mutant: a cache takes the DATA that is meant for another one.
SnoopsAll(p) == current_request # NULL

\* Hash_table::tick, its second half: the message on the bus, unless it is
\* DATA for somebody else.  Nothing runs between the halves.
Snoops(p) == /\ current_request # NULL
             /\ current_request.msg = "DATA" => current_request.node = p

CacheSnoop(p) ==
    /\ At("cache_snoop", p)
    /\ LET r   == current_request
           out == snoop_request(state[p][r.addr], r.msg, shared_line)
       IN  IF ~Snoops(p)
           THEN /\ NextNode(p, "cache_proc", "pr")
                /\ UNCHANGED <<caches, latches, procs, bus, memory, fatal>>
           ELSE IF Fails(p, out) THEN Abort
           ELSE /\ Perform(p, r.addr, out, r.node)
                /\ NextNode(p, "cache_proc", "pr")
                /\ UNCHANGED proc_request

\* Processor::tick: complete the request that was answered, then, with nothing
\* outstanding, read the next operation of the trace or find its end.
PrTick(p) ==
    /\ At("pr", p)
    /\ LET waits == outstanding_request[p] /\ ~inbound_request[p]
       IN  \/ /\ end_of_trace[p] \/ waits
              /\ outstanding_request' = [outstanding_request EXCEPT ![p] = waits]
              /\ UNCHANGED <<proc_request, end_of_trace, fetched, issued>>
           \/ /\ ~end_of_trace[p] /\ ~waits /\ fetched[p] < TraceLen
              /\ \E r \in ProcReq :
                    /\ proc_request' = [proc_request EXCEPT ![p] = r]
                    /\ issued' = [issued EXCEPT ![p] = r]
              /\ outstanding_request' = [outstanding_request EXCEPT ![p] = TRUE]
              /\ fetched' = [fetched EXCEPT ![p] = @ + 1]
              /\ UNCHANGED end_of_trace
           \/ /\ ~end_of_trace[p] /\ ~waits
              /\ outstanding_request' = [outstanding_request EXCEPT ![p] = FALSE]
              /\ end_of_trace' = [end_of_trace EXCEPT ![p] = TRUE]
              /\ UNCHANGED <<proc_request, fetched, issued>>
    /\ inbound_request' = [inbound_request EXCEPT ![p] = FALSE]
    /\ NextNode(p, "pr", "mc")
    /\ UNCHANGED <<state, inbound_request_buf, bus, memory, fatal>>

\* Memory_controller::tick: start the lookup for a GETS or GETM, give it up when
\* a cache's DATA is on the bus, and answer when the lookup has taken its time.
McTick ==
    /\ At("mc", 0)
    /\ LET asked   == current_request # NULL /\ current_request.msg # "DATA"
           covered == current_request # NULL /\ current_request.msg = "DATA"
           ready   == mc_request # NULL /\ mc_wait = 0
       IN  IF (asked /\ mc_request # NULL)
              \/ (~asked /\ ~covered /\ ready /\ ReplyLatchBusy)
           THEN Abort
           ELSE /\ \/ /\ asked
                      /\ mc_request' = Message("DATA", current_request.addr,
                                               current_request.node)
                      /\ mc_wait' = HitTime
                      /\ UNCHANGED data_reply
                   \/ /\ covered
                      /\ mc_request' = NULL
                      /\ UNCHANGED <<mc_wait, data_reply>>
                   \/ /\ ~asked /\ ~covered /\ ready
                      /\ data_reply' = mc_request
                      /\ mc_request' = NULL
                      /\ UNCHANGED mc_wait
                   \/ /\ ~asked /\ ~covered /\ ~ready
                      /\ UNCHANGED <<mc_request, mc_wait, data_reply>>
                /\ phase' = "tock"
                /\ UNCHANGED <<protocol, turn, caches, latches, procs, current_request,
                               pending_requests, request_in_progress, shared_line, fatal>>

\* Mutant: the first processor that is done ends the simulation.
AnyDone == \E p \in Node : end_of_trace[p] /\ ~outstanding_request[p]

\* The exit test of the main loop, over Processor::done.
AllDone == \A p \in Node : end_of_trace[p] /\ ~outstanding_request[p]

\* Processor::tock of every processor, the clock, and the loop's exit test.
Tock ==
    /\ At("tock", 0)
    /\ inbound_request' = [p \in Node |-> inbound_request[p] \/ inbound_request_buf[p]]
    /\ inbound_request_buf' = [p \in Node |-> FALSE]
    /\ mc_wait' = IF mc_wait > 0 THEN mc_wait - 1 ELSE 0
    /\ phase' = IF AllDone THEN "done" ELSE "bus"
    /\ UNCHANGED <<protocol, turn, caches, procs, bus, mc_request, fatal>>

Ended == fatal \/ phase = "done"

Terminated == Ended /\ UNCHANGED vars

Next ==
    \/ BusTick
    \/ \E p \in Node : CacheProc(p) \/ CacheSnoop(p) \/ PrTick(p)
    \/ McTick
    \/ Tock
    \/ Terminated

Spec     == Init /\ [][Next]_vars
\* The simulator is one thread that the operating system keeps running.
FairSpec == Spec /\ WF_vars(Next)

-----------------------------------------------------------------------------
Readable  == {"S", "E", "O", "F", "M"}    \* the processor's loads hit
Exclusive == {"E", "M"}                   \* its stores hit as well
Dirty     == {"M", "O", "OM"}             \* the memory's copy is out of date
Supplier  == Dirty \cup {"F", "FM"}       \* the cache answers for the line

\* Every variable has a value of its kind.
TypeOK ==
    /\ protocol \in Protocols
    /\ phase \in Phase /\ turn \in Node
    /\ state \in [Node -> [Addr -> LineState]]
    /\ proc_request \in [Node -> ProcReq \cup {NULL, WILD}]
    /\ inbound_request \in [Node -> BOOLEAN]
    /\ inbound_request_buf \in [Node -> BOOLEAN]
    /\ outstanding_request \in [Node -> BOOLEAN]
    /\ end_of_trace \in [Node -> BOOLEAN]
    /\ fetched \in [Node -> 0 .. TraceLen]
    /\ issued \in [Node -> ProcReq \cup {NULL}]
    /\ current_request \in Mreq \cup {NULL}
    /\ pending_requests \in Seq(Mreq)
    /\ data_reply \in Mreq \cup {NULL}
    /\ request_in_progress \in BOOLEAN
    /\ shared_line \in BOOLEAN
    /\ mc_request \in Mreq \cup {NULL}
    /\ mc_wait \in 0 .. HitTime
    /\ fatal \in BOOLEAN

\* A node that may write a line is the only one with a usable copy of it, in
\* every cycle, also while other requests for the line are queued or served.
SingleWriter ==
    \A p, q \in Node, a \in Addr :
        p # q /\ state[p][a] \in Exclusive => state[q][a] \notin Readable

\* At most one cache answers for a line: two would both drive the DATA latch
\* of the bus, which asserts it is free (Bus::bus_request).
OneSupplier ==
    \A p, q \in Node, a \in Addr :
        p # q /\ state[p][a] \in Supplier => state[q][a] \notin Supplier

\* No assert and no fatal_error of the protocols, the bus, the memory controller
\* or the processors is reachable, unless a cache dereferences the pointer
\* proc_request that its constructor left uninitialised.
AbortsOnlyOnGarbage == fatal => "proc_request" \in Uninitialised

\* The memory answers only when its copy is up to date: no cache holds the line
\* modified, not even one that has been asked for it and answers in this cycle.
MemorySuppliesOnlyClean ==
    [][phase = "mc" /\ data_reply = NULL /\ data_reply' # NULL
       => \A p \in Node : state[p][data_reply'.addr] \notin Dirty]_vars

Replied(p) == inbound_request[p] \/ inbound_request_buf[p]

\* The message that will bring p the line a: it waits in the queue, or the bus
\* is busy with it, or its DATA is latched, looked up or on the bus.
InFlight(p, a) ==
    \/ \E k \in 1 .. Len(pending_requests) :
          pending_requests[k].node = p /\ pending_requests[k].addr = a
    \/ \E m \in {current_request, data_reply, mc_request} :
          m # NULL /\ m.node = p /\ m.addr = a

\* No request is lost: a processor that waits for the operation it fetched waits
\* for a request its cache has not looked at, for a reply in its latches, or for
\* a line in a transient state that a message in flight will fill; and no other
\* line is left in a transient state.
RequestTracked ==
    \A p \in Node :
        /\ outstanding_request[p] /\ issued[p] # NULL =>
              \/ proc_request[p] = issued[p]
              \/ Replied(p)
              \/ state[p][issued[p].addr] \in Transient
        /\ \A a \in Addr : state[p][a] \in Transient =>
              outstanding_request[p] /\ issued[p].addr = a /\ InFlight(p, a)

\* The simulator stops only in a quiescent state.  dump_stats then prints every
\* line through the table block_states, which has no entry for the transient
\* states of MSI, MESI, MOSI and MOESIF.
DoneIsQuiescent ==
    phase = "done" =>
        /\ \A p \in Node, a \in Addr : state[p][a] \in Stable
        /\ pending_requests = <<>> /\ ~request_in_progress
        /\ data_reply = NULL /\ mc_request = NULL

\* Every operation a processor fetches is answered, whatever the other
\* processors ask for: a queue served in order, and every message answered.
EveryRequestAnswered ==
    \A p \in Node : (outstanding_request[p] /\ issued[p] # NULL) ~> ~outstanding_request[p]

\* The simulator finishes when the traces are finite: "Done once at end of trace
\* and no outstanding requests" (processor.cpp, Processor::done).
Finishes == <>(phase = "done")

\* It does if the memory that the constructors left alone happens to be zero,
\* however the requests of the processors interleave: none starves another.
Cleared == \A p \in Node : ~outstanding_request[p] /\ proc_request[p] = NULL
FinishesIfCleared == Cleared => <>(phase = "done")

\* What the processors may do with the lines, and what they wait for.
Permission(s) == IF s \in Exclusive THEN "write" ELSE IF s \in Readable THEN "read" ELSE "none"

Waits(p) == outstanding_request[p] /\ ~Replied(p)

Permissions == [p \in Node |-> [a \in Addr |-> Permission(state[p][a])]]
Waiting     == [p \in Node |-> IF Waits(p) THEN issued[p] ELSE NULL]

Abstract == INSTANCE SWMR WITH perm <- Permissions, op <- Waiting

\* The simulator, all its protocols alike, implements single writer or multiple
\* readers: every load and store is answered with the permission it needs.
ImplementsSWMR == Abstract!Spec
=============================================================================
