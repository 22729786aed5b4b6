--------------------------- MODULE CoherenceProofs --------------------------
(***************************************************************************)
(* The safety of CoherenceSim, for every number of nodes, lines, trace     *)
(* lengths and lookup times, and for all the protocols at once.            *)
(***************************************************************************)
EXTENDS CoherenceInv, TLAPS

-----------------------------------------------------------------------------
(* What the handlers of each protocol answer. *)

\* A cache hit answers the processor at once; a miss sends one request on the
\* bus and leaves the line waiting for it, still an owner if it was one.
CacheAnswer(s, msg, out) ==
    \/ /\ out.calls = {"send_DATA_to_proc"}
       /\ s \in Readable
       /\ msg = "STORE" => s \in Exclusive
       /\ out.state = s \/ (s \in Exclusive /\ out.state = "M")
    \/ /\ out.calls = {"send_GETS"}
       /\ msg = "LOAD" /\ s = "I" /\ out.state = "IS"
    \/ /\ out.calls = {"send_GETM"}
       /\ s \notin Exclusive
       /\ out.state \in WriteWait
       /\ out.state \in Supplier <=> s \in Supplier
       /\ out.state \in Dirty <=> s \in Dirty

\* A request snooped: the supplier answers it, nobody keeps an exclusive copy, a
\* GETM leaves no copy at all, a GETS raises the shared line where that matters.
GetAnswer(pro, s, msg, out) ==
    /\ \A c \in {"fatal_error", "send_DATA_to_proc", "send_GETM", "send_GETS"} :
          c \notin out.calls
    /\ "send_DATA_on_bus" \in out.calls <=> s \in Supplier
    /\ out.state \in Transient <=> s \in Transient
    /\ out.state = "IS" <=> s = "IS"
    /\ out.state \notin Exclusive
    /\ out.state \in Dirty => s \in Dirty
    /\ out.state \in Supplier => s \in Supplier \cup Exclusive
    /\ out.state \in Copy => s \in Copy
    /\ msg = "GETM" => /\ out.state \notin Copy
                       /\ s \in WriteWait => out.state \in {"IM", "SM"}
    /\ msg = "GETS" /\ s \in Copy /\ pro \in {"MESI_PRO", "MOESIF_PRO"}
          => "set_shared_line" \in out.calls

\* DATA for a line that waits: the processor is answered, with a copy it may
\* write after a GETM, or after a GETS that nobody raised the shared line for.
DataAnswer(pro, s, shared, out) ==
    /\ out.calls = {"send_DATA_to_proc"}
    /\ s \in WriteWait => out.state = "M"
    /\ s = "IS" => \/ out.state = "S"
                   \/ out.state = "E" /\ ~shared /\ pro \in {"MESI_PRO", "MOESIF_PRO"}

SnoopAnswer(pro, s, msg, shared, out) ==
    /\ msg # "DATA" => GetAnswer(pro, s, msg, out)
    /\ msg = "DATA" /\ s \in Transient => DataAnswer(pro, s, shared, out)

\* What a cache of MI_protocol answers its processor, from a stable state.
LEMMA MICache ==
    ASSUME NEW s \in MI!States \ Transient, NEW msg \in ProcMsg
    PROVE  LET out == MI!process_cache_request(s, msg)
           IN  out.state \in MI!States /\ CacheAnswer(s, msg, out)
<1> DEFINE out == MI!process_cache_request(s, msg)
<1>1. \/ s = "I" /\ out = MI!do_cache_I(msg)
      \/ s = "M" /\ out = MI!do_cache_M(msg)
  BY Zenon DEF MI!States, MI!process_cache_request, Transient
<1> QED
  BY <1>1 DEF MI!do_cache_I, MI!do_cache_M, MI!OnCache, MI!Goes, MI!Fatal, MI!States,
              ProcMsg, Transient, CacheAnswer, Readable, Exclusive, WriteWait, Supplier,
              Dirty

\* What a cache of MI_protocol answers the bus, from any of its states.
LEMMA MISnoop ==
    ASSUME NEW s \in MI!States, NEW msg \in BusMsg, NEW shared \in BOOLEAN
    PROVE  LET out == MI!process_snoop_request(s, msg)
           IN  out.state \in MI!States /\ SnoopAnswer("MI_PRO", s, msg, shared, out)
<1> DEFINE out == MI!process_snoop_request(s, msg)
<1>1. \/ s = "I"  /\ out = MI!do_snoop_I(msg)
      \/ s = "IM" /\ out = MI!do_snoop_IM(msg)
      \/ s = "M"  /\ out = MI!do_snoop_M(msg)
  BY Zenon DEF MI!States, MI!process_snoop_request
<1> QED
  BY <1>1 DEF MI!do_snoop_I, MI!do_snoop_IM, MI!do_snoop_M, MI!OnSnoop, MI!Goes,
              MI!Fatal, MI!States, BusMsg, Transient, SnoopAnswer, GetAnswer, DataAnswer,
              Copy, Readable, Exclusive, WriteWait, Supplier, Dirty

\* What a cache of MSI_protocol answers its processor, from a stable state.
LEMMA MSICache ==
    ASSUME NEW s \in MSI!States \ Transient, NEW msg \in ProcMsg
    PROVE  LET out == MSI!process_cache_request(s, msg)
           IN  out.state \in MSI!States /\ CacheAnswer(s, msg, out)
<1> DEFINE out == MSI!process_cache_request(s, msg)
<1>1. \/ s = "I" /\ out = MSI!do_cache_I(msg)
      \/ s = "S" /\ out = MSI!do_cache_S(msg)
      \/ s = "M" /\ out = MSI!do_cache_M(msg)
  BY Zenon DEF MSI!States, MSI!process_cache_request, Transient
<1> QED
  BY <1>1 DEF MSI!do_cache_I, MSI!do_cache_S, MSI!do_cache_M, MSI!OnCache, MSI!Goes,
              MSI!Fatal, MSI!States, ProcMsg, Transient, CacheAnswer, Readable,
              Exclusive, WriteWait, Supplier, Dirty

\* What a cache of MSI_protocol answers the bus, from any of its states.
LEMMA MSISnoop ==
    ASSUME NEW s \in MSI!States, NEW msg \in BusMsg, NEW shared \in BOOLEAN
    PROVE  LET out == MSI!process_snoop_request(s, msg)
           IN  out.state \in MSI!States /\ SnoopAnswer("MSI_PRO", s, msg, shared, out)
<1> DEFINE out == MSI!process_snoop_request(s, msg)
<1>1. \/ s = "I"  /\ out = MSI!do_snoop_I(msg)
      \/ s = "S"  /\ out = MSI!do_snoop_S(msg)
      \/ s = "M"  /\ out = MSI!do_snoop_M(msg)
      \/ s = "IM" /\ out = MSI!do_snoop_IM(msg)
      \/ s = "IS" /\ out = MSI!do_snoop_IS(msg)
      \/ s = "SM" /\ out = MSI!do_snoop_SM(msg)
  BY Zenon DEF MSI!States, MSI!process_snoop_request
<1> QED
  BY <1>1 DEF MSI!do_snoop_I, MSI!do_snoop_S, MSI!do_snoop_M, MSI!do_snoop_IM,
              MSI!do_snoop_IS, MSI!do_snoop_SM, MSI!OnSnoop, MSI!Goes, MSI!Fatal,
              MSI!States, BusMsg, Transient, SnoopAnswer, GetAnswer, DataAnswer, Copy,
              Readable, Exclusive, WriteWait, Supplier, Dirty

\* What a cache of MESI_protocol answers its processor, from a stable state.
LEMMA MESICache ==
    ASSUME NEW s \in MESI!States \ Transient, NEW msg \in ProcMsg
    PROVE  LET out == MESI!process_cache_request(s, msg)
           IN  out.state \in MESI!States /\ CacheAnswer(s, msg, out)
<1> DEFINE out == MESI!process_cache_request(s, msg)
<1>1. \/ s = "I" /\ out = MESI!do_cache_I(msg)
      \/ s = "S" /\ out = MESI!do_cache_S(msg)
      \/ s = "M" /\ out = MESI!do_cache_M(msg)
      \/ s = "E" /\ out = MESI!do_cache_E(msg)
  BY Zenon DEF MESI!States, MESI!process_cache_request, Transient
<1> QED
  BY <1>1 DEF MESI!do_cache_I, MESI!do_cache_S, MESI!do_cache_M, MESI!do_cache_E,
              MESI!OnCache, MESI!Goes, MESI!Fatal, MESI!States, ProcMsg, Transient,
              CacheAnswer, Readable, Exclusive, WriteWait, Supplier, Dirty

\* What a cache of MESI_protocol answers the bus, from any of its states.
LEMMA MESISnoop ==
    ASSUME NEW s \in MESI!States, NEW msg \in BusMsg, NEW shared \in BOOLEAN
    PROVE  LET out == MESI!process_snoop_request(s, msg, shared)
           IN  out.state \in MESI!States /\ SnoopAnswer("MESI_PRO", s, msg, shared, out)
<1> DEFINE out == MESI!process_snoop_request(s, msg, shared)
<1>1. \/ s = "I"  /\ out = MESI!do_snoop_I(msg)
      \/ s = "S"  /\ out = MESI!do_snoop_S(msg)
      \/ s = "M"  /\ out = MESI!do_snoop_M(msg)
      \/ s = "E"  /\ out = MESI!do_snoop_E(msg)
      \/ s = "IM" /\ out = MESI!do_snoop_IM(msg)
      \/ s = "IS" /\ out = MESI!do_snoop_IS(msg, shared)
      \/ s = "SM" /\ out = MESI!do_snoop_SM(msg)
  BY Zenon DEF MESI!States, MESI!process_snoop_request
<1> QED
  BY <1>1 DEF MESI!do_snoop_I, MESI!do_snoop_S, MESI!do_snoop_M, MESI!do_snoop_E,
              MESI!do_snoop_IM, MESI!do_snoop_IS, MESI!do_snoop_SM, MESI!OnSnoop,
              MESI!Goes, MESI!Fatal, MESI!States, BusMsg, Transient, SnoopAnswer,
              GetAnswer, DataAnswer, Copy, Readable, Exclusive, WriteWait, Supplier, Dirty

\* What a cache of MOSI_protocol answers its processor, from a stable state.
LEMMA MOSICache ==
    ASSUME NEW s \in MOSI!States \ Transient, NEW msg \in ProcMsg
    PROVE  LET out == MOSI!process_cache_request(s, msg)
           IN  out.state \in MOSI!States /\ CacheAnswer(s, msg, out)
<1> DEFINE out == MOSI!process_cache_request(s, msg)
<1>1. \/ s = "I" /\ out = MOSI!do_cache_I(msg)
      \/ s = "S" /\ out = MOSI!do_cache_S(msg)
      \/ s = "O" /\ out = MOSI!do_cache_O(msg)
      \/ s = "M" /\ out = MOSI!do_cache_M(msg)
  BY Zenon DEF MOSI!States, MOSI!process_cache_request, Transient
<1> QED
  BY <1>1 DEF MOSI!do_cache_I, MOSI!do_cache_S, MOSI!do_cache_O, MOSI!do_cache_M,
              MOSI!OnCache, MOSI!Goes, MOSI!Fatal, MOSI!States, ProcMsg, Transient,
              CacheAnswer, Readable, Exclusive, WriteWait, Supplier, Dirty

\* What a cache of MOSI_protocol answers the bus, from any of its states.
LEMMA MOSISnoop ==
    ASSUME NEW s \in MOSI!States, NEW msg \in BusMsg, NEW shared \in BOOLEAN
    PROVE  LET out == MOSI!process_snoop_request(s, msg)
           IN  out.state \in MOSI!States /\ SnoopAnswer("MOSI_PRO", s, msg, shared, out)
<1> DEFINE out == MOSI!process_snoop_request(s, msg)
<1>1. \/ s = "I"  /\ out = MOSI!do_snoop_I(msg)
      \/ s = "S"  /\ out = MOSI!do_snoop_S(msg)
      \/ s = "O"  /\ out = MOSI!do_snoop_O(msg)
      \/ s = "M"  /\ out = MOSI!do_snoop_M(msg)
      \/ s = "IM" /\ out = MOSI!do_snoop_IM(msg)
      \/ s = "IS" /\ out = MOSI!do_snoop_IS(msg)
      \/ s = "SM" /\ out = MOSI!do_snoop_SM(msg)
      \/ s = "OM" /\ out = MOSI!do_snoop_OM(msg)
  BY Zenon DEF MOSI!States, MOSI!process_snoop_request
<1> QED
  BY <1>1 DEF MOSI!do_snoop_I, MOSI!do_snoop_S, MOSI!do_snoop_O, MOSI!do_snoop_M,
              MOSI!do_snoop_IM, MOSI!do_snoop_IS, MOSI!do_snoop_SM, MOSI!do_snoop_OM,
              MOSI!OnSnoop, MOSI!Goes, MOSI!Fatal, MOSI!States, BusMsg, Transient,
              SnoopAnswer, GetAnswer, DataAnswer, Copy, Readable, Exclusive, WriteWait,
              Supplier, Dirty

\* What a cache of MOESIF_protocol answers its processor, from a stable state.
LEMMA MOESIFCache ==
    ASSUME NEW s \in MOESIF!States \ Transient, NEW msg \in ProcMsg
    PROVE  LET out == MOESIF!process_cache_request(s, msg)
           IN  out.state \in MOESIF!States /\ CacheAnswer(s, msg, out)
<1> DEFINE out == MOESIF!process_cache_request(s, msg)
<1>1. \/ s = "I" /\ out = MOESIF!do_cache_I(msg)
      \/ s = "S" /\ out = MOESIF!do_cache_S(msg)
      \/ s = "M" /\ out = MOESIF!do_cache_M(msg)
      \/ s = "E" /\ out = MOESIF!do_cache_E(msg)
      \/ s = "O" /\ out = MOESIF!do_cache_O(msg)
      \/ s = "F" /\ out = MOESIF!do_cache_F(msg)
  BY Zenon DEF MOESIF!States, MOESIF!process_cache_request, Transient
<1> QED
  BY <1>1 DEF MOESIF!do_cache_I, MOESIF!do_cache_S, MOESIF!do_cache_M, MOESIF!do_cache_E,
              MOESIF!do_cache_O, MOESIF!do_cache_F, MOESIF!OnCache, MOESIF!Goes,
              MOESIF!Fatal, MOESIF!States, ProcMsg, Transient, CacheAnswer, Readable,
              Exclusive, WriteWait, Supplier, Dirty

\* What a cache of MOESIF_protocol answers the bus, from any of its states.
LEMMA MOESIFSnoop ==
    ASSUME NEW s \in MOESIF!States, NEW msg \in BusMsg, NEW shared \in BOOLEAN
    PROVE  LET out == MOESIF!process_snoop_request(s, msg, shared)
           IN  out.state \in MOESIF!States /\ SnoopAnswer("MOESIF_PRO", s, msg, shared, out)
<1> DEFINE out == MOESIF!process_snoop_request(s, msg, shared)
<1>1. \/ s = "I"  /\ out = MOESIF!do_snoop_I(msg)
      \/ s = "S"  /\ out = MOESIF!do_snoop_S(msg)
      \/ s = "M"  /\ out = MOESIF!do_snoop_M(msg)
      \/ s = "E"  /\ out = MOESIF!do_snoop_E(msg)
      \/ s = "O"  /\ out = MOESIF!do_snoop_O(msg)
      \/ s = "F"  /\ out = MOESIF!do_snoop_F(msg)
      \/ s = "IM" /\ out = MOESIF!do_snoop_IM(msg)
      \/ s = "IS" /\ out = MOESIF!do_snoop_IS(msg, shared)
      \/ s = "SM" /\ out = MOESIF!do_snoop_SM(msg)
      \/ s = "OM" /\ out = MOESIF!do_snoop_OM(msg)
      \/ s = "FM" /\ out = MOESIF!do_snoop_FM(msg)
  BY ZenonT(120) DEF MOESIF!States, MOESIF!process_snoop_request
<1> QED
  BY <1>1 DEF MOESIF!do_snoop_I, MOESIF!do_snoop_S, MOESIF!do_snoop_M, MOESIF!do_snoop_E,
              MOESIF!do_snoop_O, MOESIF!do_snoop_F, MOESIF!do_snoop_IM,
              MOESIF!do_snoop_IS, MOESIF!do_snoop_SM, MOESIF!do_snoop_OM,
              MOESIF!do_snoop_FM, MOESIF!OnSnoop, MOESIF!Goes, MOESIF!Fatal,
              MOESIF!States, BusMsg, Transient, SnoopAnswer, GetAnswer, DataAnswer, Copy,
              Readable, Exclusive, WriteWait, Supplier, Dirty

\* The same for the protocol that was selected.
LEMMA ProtocolStates ==
    ASSUME protocol \in Protocols
    PROVE  /\ protocol = "MI_PRO"     => States(protocol) = MI!States
           /\ protocol = "MSI_PRO"    => States(protocol) = MSI!States
           /\ protocol = "MESI_PRO"   => States(protocol) = MESI!States
           /\ protocol = "MOSI_PRO"   => States(protocol) = MOSI!States
           /\ protocol = "MOESIF_PRO" => States(protocol) = MOESIF!States
           /\ States(protocol) \subseteq LineState
           /\ "I" \in States(protocol)
<1>1. \/ protocol = "MI_PRO"     /\ States(protocol) = MI!States
      \/ protocol = "MSI_PRO"    /\ States(protocol) = MSI!States
      \/ protocol = "MESI_PRO"   /\ States(protocol) = MESI!States
      \/ protocol = "MOSI_PRO"   /\ States(protocol) = MOSI!States
      \/ protocol = "MOESIF_PRO" /\ States(protocol) = MOESIF!States
  BY ConstantsAssumption, Zenon DEF States
<1> QED
  BY <1>1 DEF MI!States, MSI!States, MESI!States, MOSI!States, MOESIF!States,
              LineState, Stable, Transient

\* The same of the protocol in use, whichever it is.
LEMMA CacheFacts ==
    ASSUME protocol \in Protocols,
           NEW s \in States(protocol) \ Transient, NEW msg \in ProcMsg
    PROVE  LET out == cache_request(s, msg)
           IN  out.state \in States(protocol) /\ CacheAnswer(s, msg, out)
<1> DEFINE out == cache_request(s, msg)
<1>1. \/ protocol = "MI_PRO"     /\ out = MI!process_cache_request(s, msg)
      \/ protocol = "MSI_PRO"    /\ out = MSI!process_cache_request(s, msg)
      \/ protocol = "MESI_PRO"   /\ out = MESI!process_cache_request(s, msg)
      \/ protocol = "MOSI_PRO"   /\ out = MOSI!process_cache_request(s, msg)
      \/ protocol = "MOESIF_PRO" /\ out = MOESIF!process_cache_request(s, msg)
  BY ConstantsAssumption, Zenon DEF cache_request
<1> HIDE DEF out
<1> QED
  BY <1>1, ProtocolStates, MICache, MSICache, MESICache, MOSICache, MOESIFCache DEF out

\* The same of the protocol in use, for a snooped message.
LEMMA SnoopFacts ==
    ASSUME protocol \in Protocols,
           NEW s \in States(protocol), NEW msg \in BusMsg, NEW shared \in BOOLEAN
    PROVE  LET out == snoop_request(s, msg, shared)
           IN  out.state \in States(protocol) /\ SnoopAnswer(protocol, s, msg, shared, out)
<1> DEFINE out == snoop_request(s, msg, shared)
<1>1. \/ protocol = "MI_PRO"     /\ out = MI!process_snoop_request(s, msg)
      \/ protocol = "MSI_PRO"    /\ out = MSI!process_snoop_request(s, msg)
      \/ protocol = "MESI_PRO"   /\ out = MESI!process_snoop_request(s, msg, shared)
      \/ protocol = "MOSI_PRO"   /\ out = MOSI!process_snoop_request(s, msg)
      \/ protocol = "MOESIF_PRO" /\ out = MOESIF!process_snoop_request(s, msg, shared)
  BY ConstantsAssumption, Zenon DEF snoop_request
<1> QED
  BY <1>1, ProtocolStates, MISnoop, MSISnoop, MESISnoop, MOSISnoop, MOESIFSnoop

-----------------------------------------------------------------------------
(* The initial states. *)

\* The invariant holds when the simulator starts.
LEMMA InitIInv == Init => IInv
<1> SUFFICES ASSUME Init PROVE IInv
  OBVIOUS
<1> USE ConstantsAssumption
<1>1. protocol \in Protocols /\ "I" \in States(protocol)
  BY ProtocolStates DEF Init
<1>2. \A p \in Node : 0 \in Node /\ proc_request[p] \in {NULL, WILD} /\ proc_request[p] \notin ProcReq
  BY DEF Init, Node
<1>3. \A p \in Node, a \in Addr : state[p][a] = "I"
  BY DEF Init
<1>4. \A p \in Node, a \in Addr : state[p][a] \notin Transient /\ state[p][a] \notin Copy
                                  /\ state[p][a] \notin Exclusive
  BY <1>3 DEF Transient, Copy, Readable, Supplier, Dirty, Exclusive
<1>5. current_request = NULL /\ data_reply = NULL /\ mc_request = NULL
      /\ pending_requests = <<>> /\ Len(pending_requests) = 0
  BY DEF Init
<1>6. \A p \in Node, a \in Addr : ~Served(p, a)
  BY <1>5 DEF Served, For
<1>7. TypeOK
  <2>1. state \in [Node -> [Addr -> LineState]]
    BY DEF Init, LineState, Stable
  <2>2. turn \in Node /\ 0 \in 0 .. TraceLen /\ 0 \in 0 .. HitTime
    BY DEF Init, Node
  <2>3. proc_request \in [Node -> ProcReq \cup {NULL, WILD}]
    BY DEF Init
  <2>4. fetched \in [Node -> 0 .. TraceLen] /\ issued \in [Node -> ProcReq \cup {NULL}]
    BY <2>2 DEF Init
  <2>5. outstanding_request \in [Node -> BOOLEAN]
    BY DEF Init
  <2> QED
    BY <1>1, <2>1, <2>2, <2>3, <2>4, <2>5 DEF Init, TypeOK, Phase
<1>8. ControlInv
  BY <1>1, <1>3 DEF Init, ControlInv
<1>9. BusInv /\ AgreeInv /\ QueueInv /\ ServedInv /\ WriteInv /\ ReadInv /\ ReplyInv /\ CleanInv
  <2>1. BusInv
    BY <1>5 DEF BusInv, GetOnBus, DataOnBus, Init
  <2>2. AgreeInv /\ QueueInv
    BY <1>5 DEF AgreeInv, QueueInv
  <2>3. ServedInv /\ WriteInv /\ ReadInv
    BY <1>5, <1>6 DEF ServedInv, WriteInv, ReadInv, GetOnBus
  <2>4. ReplyInv /\ CleanInv
    BY <1>5 DEF ReplyInv, CleanInv, GetOnBus
  <2> QED
    BY <2>1, <2>2, <2>3, <2>4
<1>10. WaitInv
  BY <1>2, <1>4 DEF Init, WaitInv, Replied
<1>11. CopyInv
  BY <1>4 DEF CopyInv, Copy
<1>12. GarbageInv
  BY DEF Init, GarbageInv, AbortsOnlyOnGarbage
<1> QED
  BY <1>7, <1>8, <1>9, <1>10, <1>11, <1>12 DEF IInv

-----------------------------------------------------------------------------
(* Bus::tick. *)

\* When the bus is due, everybody has snooped the message of the last cycle.
LEMMA BusPhase ==
    ASSUME IInv, BusTick
    PROVE  /\ phase = "bus" /\ turn = 0 /\ phase' = "cache_proc" /\ turn' = 0
           /\ MemorySnooped /\ ~MemorySnooped'
           /\ \A q \in Node : Snooped(q) /\ ~Snooped(q)' /\ Asked(q)
           /\ UNCHANGED <<protocol, state, proc_request, inbound_request,
                          inbound_request_buf, outstanding_request, end_of_trace,
                          fetched, issued, mc_request, mc_wait, fatal>>
<1>1. phase = "bus" /\ turn = 0 /\ phase' = "cache_proc" /\ turn' = 0
  BY DEF BusTick, At
<1>2. \A q \in Node : ~(q < 0)
  BY ConstantsAssumption DEF Node
<1> QED
  BY <1>1, <1>2 DEF BusTick, MemorySnooped, Snooped, Asked, caches, latches, procs, memory

\* A queued request is a request of a node for a line.
LEMMA QueueTyped ==
    ASSUME TypeOK, NEW k \in 1 .. Len(pending_requests)
    PROVE  /\ Len(pending_requests) \in Nat
           /\ pending_requests[k] \in Mreq
           /\ pending_requests[k].msg \in BusMsg
           /\ pending_requests[k].node \in Node
           /\ pending_requests[k].addr \in Addr
<1>1. pending_requests \in Seq(Mreq)
  BY DEF TypeOK
<1>2. pending_requests[k] \in Mreq /\ Len(pending_requests) \in Nat
  BY <1>1
<1> QED
  BY <1>2 DEF Mreq

\* The tick does not take a request from the queue.
LEMMA BusTickOld ==
    ASSUME IInv, BusTick, request_in_progress \/ pending_requests = <<>>
    PROVE  IInv'
<1> USE BusPhase
<1>0. TypeOK /\ ControlInv /\ BusInv /\ AgreeInv /\ QueueInv /\ ServedInv /\ WaitInv
      /\ CopyInv /\ WriteInv /\ ReadInv /\ ReplyInv /\ CleanInv /\ GarbageInv
  BY DEF IInv
<1>1. pending_requests' = pending_requests /\ shared_line' = shared_line
  BY DEF BusTick
<1>2. \/ /\ request_in_progress /\ data_reply # NULL /\ current_request' = data_reply
         /\ data_reply' = NULL /\ request_in_progress' = FALSE
      \/ /\ request_in_progress /\ data_reply = NULL /\ current_request' = NULL
         /\ data_reply' = NULL /\ request_in_progress' = TRUE
      \/ /\ ~request_in_progress /\ current_request' = NULL
         /\ data_reply' = NULL /\ request_in_progress' = FALSE
  <2>1. CASE request_in_progress
    BY <2>1, <1>0 DEF BusTick, TypeOK
  <2>2. CASE ~request_in_progress
    BY <2>2, <1>0 DEF BusTick, BusInv
  <2> QED
    BY <2>1, <2>2
<1>3. ~GetOnBus'
  BY <1>0, <1>2 DEF GetOnBus, BusInv
<1>4. \A p \in Node, a \in Addr : Served(p, a)' <=> Served(p, a)
  <2> SUFFICES ASSUME NEW p \in Node, NEW a \in Addr PROVE Served(p, a)' <=> Served(p, a)
    OBVIOUS
  <2>1. CASE request_in_progress /\ data_reply # NULL
    BY <2>1, <1>0, <1>2 DEF Served, For, DataOnBus, BusInv, AgreeInv
  <2>2. CASE request_in_progress /\ data_reply = NULL
    BY <2>2, <1>0, <1>2 DEF Served, For, DataOnBus, BusInv, AgreeInv, GetOnBus
  <2>3. CASE ~request_in_progress
    BY <2>3, <1>0, <1>2 DEF Served, For, DataOnBus, BusInv
  <2> QED
    BY <2>1, <2>2, <2>3
<1>5. TypeOK'
  BY <1>0, <1>1, <1>2 DEF TypeOK, Phase
<1>6. ControlInv'
  BY <1>0 DEF ControlInv
<1>7. BusInv'
  BY <1>0, <1>2, <1>3 DEF BusInv, DataOnBus, GetOnBus
<1>8. AgreeInv'
  BY <1>0, <1>2 DEF AgreeInv
<1>9. QueueInv'
  <2> SUFFICES ASSUME NEW k \in 1 .. Len(pending_requests) PROVE QueueEntry(k)'
    BY <1>1 DEF QueueInv
  <2>1. QueueEntry(k)
    BY <1>0 DEF QueueInv
  <2>2. pending_requests[k].node \in Node /\ pending_requests[k].addr \in Addr
    BY <1>0, QueueTyped
  <2>3. ~Served(pending_requests[k].node, pending_requests[k].addr)'
    BY <2>1, <2>2, <1>4, <1>1 DEF QueueEntry
  <2> QED
    BY <2>1, <2>3, <1>1 DEF QueueEntry
<1>10. ServedInv'
  BY <1>0, <1>3, <1>4 DEF ServedInv
<1>11. WaitInv'
  BY <1>0, <1>1, <1>4 DEF WaitInv, Queued, Replied
<1>12. CopyInv'
  BY <1>0 DEF CopyInv
<1>13. WriteInv'
  BY <1>0, <1>4 DEF WriteInv
<1>14. ReadInv'
  BY <1>0, <1>1, <1>4 DEF ReadInv
<1>15. ReplyInv' /\ CleanInv'
  BY <1>0, <1>2, <1>3 DEF ReplyInv, CleanInv
<1>16. GarbageInv'
  BY <1>0 DEF GarbageInv, AbortsOnlyOnGarbage
<1> QED
  BY <1>5, <1>6, <1>7, <1>8, <1>9, <1>10, <1>11, <1>12, <1>13, <1>14, <1>15, <1>16 DEF IInv

\* The tick puts the first request of the queue on the bus.
LEMMA BusTickNew ==
    ASSUME IInv, BusTick, ~request_in_progress, pending_requests # <<>>
    PROVE  IInv'
<1> USE BusPhase
<1>0. TypeOK /\ ControlInv /\ BusInv /\ AgreeInv /\ QueueInv /\ ServedInv /\ WaitInv
      /\ CopyInv /\ WriteInv /\ ReadInv /\ ReplyInv /\ CleanInv /\ GarbageInv
  BY DEF IInv
<1> DEFINE h == pending_requests[1]
<1>1. /\ Len(pending_requests) \in Nat /\ 1 \in 1 .. Len(pending_requests)
      /\ h \in Mreq /\ Head(pending_requests) = h
      /\ Len(Tail(pending_requests)) = Len(pending_requests) - 1
      /\ Tail(pending_requests) \in Seq(Mreq)
      /\ \A k \in 1 .. Len(pending_requests) - 1 :
             Tail(pending_requests)[k] = pending_requests[k + 1]
  BY <1>0 DEF TypeOK
<1>2. /\ current_request' = h /\ pending_requests' = Tail(pending_requests)
      /\ request_in_progress' = TRUE /\ shared_line' = FALSE /\ data_reply' = NULL
      /\ data_reply = NULL /\ mc_request' = NULL
  BY <1>0, <1>1 DEF BusTick, BusInv
<1>3. h # NULL /\ h.msg \in BusMsg /\ h.msg # "DATA" /\ h.node \in Node /\ h.addr \in Addr
  BY <1>0, <1>1, ConstantsAssumption DEF QueueInv, QueueEntry, Mreq
<1>4. GetOnBus' /\ ~DataOnBus'
  BY <1>2, <1>3 DEF GetOnBus, DataOnBus
<1>5. \A p \in Node, a \in Addr : Served(p, a)' <=> p = h.node /\ a = h.addr
  BY <1>2, <1>3, <1>4 DEF Served, For
<1>6. \A p \in Node, a \in Addr : ~Served(p, a)
  BY <1>0, <1>2 DEF Served, For
<1>7. TypeOK'
  BY <1>0, <1>1, <1>2 DEF TypeOK, Phase
<1>8. ControlInv'
  BY <1>0 DEF ControlInv
<1>9. BusInv'
  BY <1>2, <1>4 DEF BusInv
<1>10. AgreeInv'
  BY <1>2 DEF AgreeInv
<1>11. QueueInv'
  <2> SUFFICES ASSUME NEW k \in 1 .. Len(pending_requests') PROVE QueueEntry(k)'
    BY DEF QueueInv
  <2>1. /\ k + 1 \in 1 .. Len(pending_requests) /\ k + 1 # 1
        /\ pending_requests'[k] = pending_requests[k + 1]
    BY <1>1, <1>2
  <2>2. QueueEntry(k + 1) /\ QueueEntry(1)
    BY <2>1, <1>0, <1>1 DEF QueueInv
  <2>3. pending_requests'[k].node # h.node
    BY <2>1, <2>2, <1>1 DEF QueueEntry
  <2>4. ~Served(pending_requests[k].node, pending_requests[k].addr)'
    BY <2>3, <1>2 DEF Served, For
  <2>5. ASSUME NEW j \in 1 .. Len(pending_requests'),
               pending_requests'[j].node = pending_requests'[k].node
        PROVE  j = k
    <3>1. j + 1 \in 1 .. Len(pending_requests) /\ pending_requests'[j] = pending_requests[j + 1]
      BY <1>1, <1>2
    <3> QED
      BY <3>1, <2>1, <2>2, <2>5 DEF QueueEntry
  <2> QED
    BY <2>1, <2>2, <2>4, <2>5 DEF QueueEntry
<1>12. ServedInv'
  BY <1>0, <1>1, <1>2, <1>5 DEF ServedInv, QueueInv, QueueEntry
<1>13. \A p \in Node, a \in Addr : Queued(p, a) => Served(p, a)' \/ Queued(p, a)'
  <2> SUFFICES ASSUME NEW p \in Node, NEW a \in Addr,
                      NEW k \in 1 .. Len(pending_requests),
                      pending_requests[k].node = p, pending_requests[k].addr = a, k # 1
               PROVE  Queued(p, a)'
    BY <1>5 DEF Queued
  <2>1. k - 1 \in 1 .. Len(pending_requests') /\ pending_requests'[k - 1] = pending_requests[k]
    BY <1>1, <1>2
  <2> QED
    BY <2>1 DEF Queued
<1>14. WaitInv'
  BY <1>0, <1>6, <1>13 DEF WaitInv, Replied
<1>15. CopyInv'
  BY <1>0 DEF CopyInv
<1>16. WriteInv' /\ ReadInv'
  BY <1>4 DEF WriteInv, ReadInv, Asked
<1>17. ReplyInv' /\ CleanInv'
  BY <1>2 DEF ReplyInv, CleanInv
<1>18. GarbageInv'
  BY <1>0 DEF GarbageInv, AbortsOnlyOnGarbage
<1> QED
  BY <1>7, <1>8, <1>9, <1>10, <1>11, <1>12, <1>14, <1>15, <1>16, <1>17, <1>18 DEF IInv

\* Bus::tick keeps the invariant.
LEMMA BusTickIInv == IInv /\ BusTick => IInv'
  BY BusTickOld, BusTickNew

-----------------------------------------------------------------------------
(* Hash_table::tick. *)

\* A step that moves the control point only, between points where the nodes
\* have snooped the same things.
LEMMA ControlStep ==
    ASSUME IInv, UNCHANGED <<protocol, caches, latches, procs, bus, memory>>,
           phase' \in Phase, turn' \in Node, fatal' \in BOOLEAN,
           phase' \in {"bus", "mc", "tock", "done"} => turn' = 0,
           phase' # "done" \/ phase = "done",
           AbortsOnlyOnGarbage',
           MemorySnooped' <=> MemorySnooped,
           GetOnBus => \A q \in Node : Snooped(q)' <=> Snooped(q),
           \A q \in Node, a \in Addr : Served(q, a)' <=> Served(q, a)
    PROVE  IInv'
<1>0. TypeOK /\ ControlInv /\ BusInv /\ AgreeInv /\ QueueInv /\ ServedInv /\ WaitInv
      /\ CopyInv /\ WriteInv /\ ReadInv /\ ReplyInv /\ CleanInv /\ GarbageInv
  BY DEF IInv
<1> USE DEF caches, latches, procs, bus, memory
<1>1. GetOnBus' <=> GetOnBus
  BY DEF GetOnBus
<1>2. DataOnBus' <=> DataOnBus
  BY DEF DataOnBus
<1>3. \A q \in Node : Asked(q)' <=> Asked(q)
  BY <1>1 DEF Asked
<1>4. TypeOK' /\ ControlInv'
  BY <1>0 DEF TypeOK, ControlInv
<1>5. BusInv'
  BY <1>0, <1>1, <1>2 DEF BusInv
<1>6. AgreeInv'
  BY <1>0 DEF AgreeInv
<1>7. QueueInv'
  <2> SUFFICES ASSUME NEW k \in 1 .. Len(pending_requests) PROVE QueueEntry(k)'
    BY DEF QueueInv
  <2>1. QueueEntry(k) /\ pending_requests[k].node \in Node /\ pending_requests[k].addr \in Addr
    BY <1>0, QueueTyped DEF QueueInv
  <2>2. ~Served(pending_requests[k].node, pending_requests[k].addr)'
    BY <2>1 DEF QueueEntry
  <2> QED
    BY <2>1, <2>2 DEF QueueEntry
<1>8. ServedInv' /\ WaitInv'
  BY <1>0, <1>1 DEF ServedInv, WaitInv, Replied, Queued
<1>9. CopyInv' /\ WriteInv'
  BY <1>0, <1>3 DEF CopyInv, WriteInv
<1>10. ReadInv'
  BY <1>0, <1>3 DEF ReadInv
<1>11. ReplyInv' /\ CleanInv'
  BY <1>0, <1>1 DEF ReplyInv, CleanInv
<1>12. GarbageInv'
  BY <1>0 DEF GarbageInv
<1> QED
  BY <1>4, <1>5, <1>6, <1>7, <1>8, <1>9, <1>10, <1>11, <1>12 DEF IInv

\* So does the end of the program, where it is expected.
LEMMA AbortIInv ==
    ASSUME IInv, Abort, "proc_request" \in Uninitialised PROVE IInv'
<1>1. UNCHANGED <<phase, turn, protocol, caches, latches, procs, bus, memory>> /\ fatal' = TRUE
  BY DEF Abort, control
<1>2. \A q \in Node : Snooped(q)' <=> Snooped(q)
  BY <1>1 DEF Snooped
<1>3. \A q \in Node, a \in Addr : Served(q, a)' <=> Served(q, a)
  BY <1>1, <1>2 DEF Served, For, DataOnBus, bus, memory
<1> QED
  BY <1>1, <1>2, <1>3, ControlStep DEF AbortsOnlyOnGarbage, MemorySnooped, IInv, TypeOK, ControlInv

\* A request that the processor left: the line does not wait, so the handler
\* answers or asks, and no assertion fails.
LEMMA CacheProcAnswers ==
    ASSUME IInv, NEW p \in Node, CacheProc(p), proc_request[p] \in ProcReq
    PROVE  LET r   == proc_request[p]
               s   == state[p][r.addr]
               out == cache_request(s, r.msg)
           IN  /\ r.addr \in Addr /\ s \in LineState \ Transient
               /\ out.state \in States(protocol) /\ CacheAnswer(s, r.msg, out)
               /\ ~Fails(p, out)
               /\ Perform(p, r.addr, out, p)
               /\ proc_request' = [proc_request EXCEPT ![p] = NULL]
               /\ phase = "cache_proc" /\ phase' = "cache_snoop"
               /\ turn = p /\ UNCHANGED <<protocol, turn>>
<1> DEFINE r   == proc_request[p]
           s   == state[p][r.addr]
           out == cache_request(s, r.msg)
<1>0. TypeOK /\ ControlInv /\ WaitInv
  BY DEF IInv
<1>1. r.addr \in Addr /\ r.msg \in ProcMsg
  BY DEF ProcReq
<1>2. s \in States(protocol) /\ protocol \in Protocols
  BY <1>0, <1>1 DEF ControlInv, TypeOK
<1>3. s \in LineState \ Transient
  BY <1>0, <1>1, <1>2, ProtocolStates DEF WaitInv
<1>4. out.state \in States(protocol) /\ CacheAnswer(s, r.msg, out)
  BY <1>1, <1>2, <1>3, CacheFacts
<1>5. ~inbound_request_buf[p]
  BY <1>0 DEF WaitInv, Replied
<1>6. ~Fails(p, out)
  <2> HIDE DEF out
  <2> QED
    BY <1>4, <1>5 DEF CacheAnswer, Fails
<1>7. r # NULL /\ r # WILD
  BY ConstantsAssumption
<1>8. /\ Perform(p, r.addr, out, p)
      /\ proc_request' = [proc_request EXCEPT ![p] = NULL]
      /\ phase = "cache_proc" /\ phase' = "cache_snoop"
      /\ turn = p /\ UNCHANGED <<protocol, turn>>
  BY <1>6, <1>7 DEF CacheProc, At
<1> QED
  BY <1>1, <1>3, <1>4, <1>6, <1>8

\* A cache that looks at its processor's request keeps the invariant.
LEMMA CacheProcPerform ==
    ASSUME IInv, NEW p \in Node, CacheProc(p), proc_request[p] \in ProcReq
    PROVE  IInv'
<1>0. TypeOK /\ ControlInv /\ BusInv /\ AgreeInv /\ QueueInv /\ ServedInv /\ WaitInv
      /\ CopyInv /\ WriteInv /\ ReadInv /\ ReplyInv /\ CleanInv /\ GarbageInv
  BY DEF IInv
<1> DEFINE r   == proc_request[p]
           a   == r.addr
           s   == state[p][a]
           out == cache_request(s, r.msg)
           t   == out.state
           ask == "send_GETM" \in out.calls \/ "send_GETS" \in out.calls
           m   == Message(IF "send_GETM" \in out.calls THEN "GETM" ELSE "GETS", a, p)
<1>1. /\ a \in Addr /\ s \in LineState \ Transient
      /\ t \in States(protocol) /\ CacheAnswer(s, r.msg, out)
      /\ Perform(p, a, out, p)
      /\ proc_request' = [proc_request EXCEPT ![p] = NULL]
      /\ phase = "cache_proc" /\ phase' = "cache_snoop"
      /\ turn = p /\ UNCHANGED <<protocol, turn>>
  BY CacheProcAnswers
<1> HIDE DEF out
<1>2. t \in LineState
  BY <1>0, <1>1, ProtocolStates DEF TypeOK
<1>3. /\ "send_DATA_on_bus" \notin out.calls /\ "set_shared_line" \notin out.calls
      /\ ask <=> "send_DATA_to_proc" \notin out.calls
      /\ ask <=> t \in Transient
      /\ ask => (m.msg = "GETS" <=> t = "IS")
      /\ t \in Copy => s \in Copy
      /\ t \in Supplier => s \in Supplier \/ s \in Exclusive
      /\ t \in Dirty => s \in Dirty \/ s \in Exclusive
      /\ t \in Exclusive => s \in Exclusive
  BY <1>1 DEF CacheAnswer, Copy, Readable, Exclusive, Supplier, Dirty, WriteWait, Transient,
              LineState, Stable, Message
<1>4. /\ state' = [state EXCEPT ![p][a] = t]
      /\ inbound_request_buf' = [inbound_request_buf EXCEPT ![p] = @ \/ ~ask]
      /\ pending_requests' = IF ask THEN Append(pending_requests, m) ELSE pending_requests
      /\ data_reply' = data_reply /\ shared_line' = shared_line
      /\ UNCHANGED <<inbound_request, procs, current_request, request_in_progress, memory, fatal>>
  <2>1. shared_line' = shared_line
    BY <1>0, <1>1, <1>3 DEF Perform, TypeOK
  <2>2. pending_requests' = IF ask THEN Append(pending_requests, m) ELSE pending_requests
    BY <1>1 DEF Perform, Asks
  <2>3. inbound_request_buf' = [inbound_request_buf EXCEPT ![p] = @ \/ ~ask]
    BY <1>1, <1>3 DEF Perform
  <2> QED
    BY <2>1, <2>2, <2>3, <1>1, <1>3 DEF Perform
<1> HIDE DEF t, ask, m
<1>5. /\ state'[p][a] = t
      /\ \A q \in Node, b \in Addr : q # p \/ b # a => state'[q][b] = state[q][b]
  BY <1>0, <1>1, <1>4 DEF TypeOK
<1>6. \A q \in Node : /\ q # p => inbound_request_buf'[q] = inbound_request_buf[q]
                      /\ q # p => proc_request'[q] = proc_request[q]
  BY <1>0, <1>1, <1>4 DEF TypeOK
<1>7. inbound_request_buf'[p] = ~ask /\ proc_request'[p] = NULL
  BY <1>0, <1>1, <1>4 DEF TypeOK, WaitInv, Replied
<1>8. /\ GetOnBus' <=> GetOnBus
      /\ DataOnBus' <=> DataOnBus
      /\ ~MemorySnooped /\ ~MemorySnooped'
      /\ \A q \in Node : (Snooped(q)' <=> Snooped(q)) /\ (Asked(q)' <=> Asked(q))
      /\ ~Snooped(p)
      /\ \A q \in Node, b \in Addr : Served(q, b)' <=> Served(q, b)
  <2>1. (GetOnBus' <=> GetOnBus) /\ (DataOnBus' <=> DataOnBus)
    BY <1>4 DEF GetOnBus, DataOnBus
  <2>2. ~MemorySnooped /\ ~MemorySnooped'
    BY <1>1 DEF MemorySnooped
  <2>3. \A q \in Node : Snooped(q)' <=> Snooped(q)
    BY <1>1 DEF Snooped
  <2>4. ~Snooped(p)
    BY <1>1, ConstantsAssumption DEF Snooped, Node
  <2> QED
    BY <2>1, <2>2, <2>3, <2>4, <1>4 DEF Asked, Served, For, memory
<1>9. /\ \A b \in Addr : state[p][b] \notin Transient
      /\ outstanding_request[p] /\ issued[p] = r /\ r # NULL
      /\ ~inbound_request[p] /\ ~inbound_request_buf[p]
  BY <1>0, ConstantsAssumption DEF WaitInv, Replied
<1>10. \A b \in Addr : ~Served(p, b)
  BY <1>0, <1>9 DEF ServedInv
<1>11. \A k \in 1 .. Len(pending_requests) :
          /\ QueueEntry(k)
          /\ pending_requests[k].node \in Node \ {p} /\ pending_requests[k].addr \in Addr
  BY <1>0, <1>9, QueueTyped DEF QueueInv, QueueEntry
<1>12. TypeOK'
  <2>1. state' \in [Node -> [Addr -> LineState]]
    BY <1>0, <1>2, <1>4 DEF TypeOK
  <2>2. m \in Mreq
    BY <1>1 DEF m, Message, Mreq, BusMsg
  <2>3. pending_requests' \in Seq(Mreq)
    BY <2>2, <1>0, <1>4 DEF TypeOK
  <2>4. inbound_request_buf' \in [Node -> BOOLEAN]
    BY <1>0, <1>4 DEF TypeOK
  <2>5. proc_request' \in [Node -> ProcReq \cup {NULL, WILD}]
    BY <1>0, <1>1 DEF TypeOK
  <2> QED
    BY <2>1, <2>3, <2>4, <2>5, <1>0, <1>1, <1>4 DEF TypeOK, Phase, procs, memory
<1>13. ControlInv'
  BY <1>0, <1>1, <1>5 DEF ControlInv
<1>14. BusInv' /\ AgreeInv'
  BY <1>0, <1>4, <1>8 DEF BusInv, AgreeInv, memory
<1>15. QueueInv'
  <2>1. ASSUME NEW k \in 1 .. Len(pending_requests), pending_requests'[k] = pending_requests[k],
               \A j \in 1 .. Len(pending_requests') :
                   pending_requests'[j].node = pending_requests[k].node => j = k
        PROVE  QueueEntry(k)'
    <3>1. ~Served(pending_requests[k].node, pending_requests[k].addr)'
      BY <2>1, <1>4, <1>8, <1>11 DEF QueueEntry, Served, For, DataOnBus, Snooped, memory
    <3> QED
      BY <3>1, <2>1, <1>5, <1>11 DEF QueueEntry
  <2>2. CASE ~ask
    <3> SUFFICES ASSUME NEW k \in 1 .. Len(pending_requests) PROVE QueueEntry(k)'
      BY <2>2, <1>4 DEF QueueInv
    <3>1. pending_requests' = pending_requests
      BY <2>2, <1>4
    <3>2. \A j \in 1 .. Len(pending_requests') :
             pending_requests'[j].node = pending_requests[k].node => j = k
      BY <3>1, <1>11 DEF QueueEntry
    <3> QED
      BY <3>1, <3>2, <2>1
  <2>3. CASE ask
    <3>1. /\ Len(pending_requests) \in Nat /\ Len(pending_requests') = Len(pending_requests) + 1
          /\ pending_requests'[Len(pending_requests')] = m
          /\ \A k \in 1 .. Len(pending_requests) : pending_requests'[k] = pending_requests[k]
      BY <2>3, <1>0, <1>4 DEF TypeOK
    <3>2. m.node = p /\ m.addr = a /\ m.msg # "DATA"
      BY DEF m, Message
    <3>3. ASSUME NEW k \in 1 .. Len(pending_requests) PROVE QueueEntry(k)'
      <4>1. \A j \in 1 .. Len(pending_requests') :
               pending_requests'[j].node = pending_requests[k].node => j = k
        BY <3>1, <3>2, <1>11 DEF QueueEntry
      <4> QED
        BY <4>1, <3>1, <2>1
    <3>4. ASSUME NEW k \in 1 .. Len(pending_requests'), k = Len(pending_requests')
          PROVE  QueueEntry(k)'
      <4>1. ~Served(pending_requests[k].node, pending_requests[k].addr)'
        BY <3>4, <3>1, <3>2, <1>1, <1>4, <1>8, <1>10 DEF Served, For, DataOnBus, Snooped, memory
      <4>2. \A j \in 1 .. Len(pending_requests') :
               pending_requests'[j].node = pending_requests'[k].node => j = k
        BY <3>4, <3>1, <3>2, <1>11
      <4> QED
        BY <4>1, <4>2, <3>4, <3>1, <3>2, <2>3, <1>3, <1>5 DEF QueueEntry
    <3> QED
      BY <3>1, <3>3, <3>4 DEF QueueInv
  <2> QED
    BY <2>2, <2>3
<1>16. ServedInv'
  <2>1. \A q \in Node, b \in Addr : Served(q, b)' => state'[q][b] \in Transient
    BY <1>0, <1>5, <1>8, <1>10 DEF ServedInv
  <2>2. ASSUME GetOnBus
        PROVE  /\ current_request.node \in Node \ {p} /\ current_request.addr \in Addr
               /\ current_request.msg = "GETS"
                      <=> state[current_request.node][current_request.addr] = "IS"
    <3>1. current_request.node \in Node /\ current_request.addr \in Addr
      BY <2>2, <1>0 DEF GetOnBus, TypeOK, Mreq
    <3>2. Served(current_request.node, current_request.addr)
      BY <2>2, <1>0 DEF Served, For, GetOnBus, BusInv
    <3> QED
      BY <2>2, <3>1, <3>2, <1>0, <1>10 DEF ServedInv
  <2> QED
    BY <2>1, <2>2, <1>4, <1>5, <1>8 DEF ServedInv
<1>17. WaitInv'
  <2>1. \A q \in Node, b \in Addr : Queued(q, b) => Queued(q, b)'
    BY <1>0, <1>4 DEF Queued, TypeOK
  <2>2. \A b \in Addr : ask /\ b = a => Queued(p, b)'
    <3> SUFFICES ASSUME ask, NEW b \in Addr, b = a PROVE Queued(p, b)'
      OBVIOUS
    <3>1. Len(pending_requests') \in 1 .. Len(pending_requests')
          /\ pending_requests'[Len(pending_requests')] = m
      BY <1>0, <1>4 DEF TypeOK
    <3> QED
      BY <3>1 DEF Queued, m, Message
  <2> USE DEF procs
  <2> SUFFICES ASSUME NEW q \in Node
               PROVE  /\ \A b \in Addr : state'[q][b] \in Transient =>
                            /\ outstanding_request[q] /\ ~Replied(q)' /\ proc_request'[q] \notin ProcReq
                            /\ issued[q] # NULL /\ issued[q].addr = b
                            /\ Served(q, b)' \/ Queued(q, b)'
                      /\ proc_request'[q] \in ProcReq =>
                            outstanding_request[q] /\ ~Replied(q)' /\ proc_request'[q] = issued[q]
                      /\ Replied(q)' => outstanding_request[q]
                      /\ ~(inbound_request[q] /\ inbound_request_buf'[q])
                      /\ outstanding_request[q] /\ issued[q] # NULL =>
                            \/ proc_request'[q] = issued[q]
                            \/ Replied(q)'
                            \/ state'[q][issued[q].addr] \in Transient
    BY <1>4 DEF WaitInv
  <2>3. CASE q # p
    <3>1. Replied(q)' <=> Replied(q)
      BY <2>3, <1>4, <1>6 DEF Replied
    <3>2. \A b \in Addr : state'[q][b] = state[q][b]
      BY <2>3, <1>5
    <3>3. proc_request'[q] = proc_request[q] /\ inbound_request_buf'[q] = inbound_request_buf[q]
      BY <2>3, <1>6
    <3>4. issued[q] # NULL => issued[q].addr \in Addr
      BY <1>0 DEF TypeOK, ProcReq
    <3> QED
      BY <3>1, <3>2, <3>3, <3>4, <2>1, <1>0, <1>8 DEF WaitInv
  <2>4. CASE q = p
    <3>1. Replied(p)' <=> ~ask
      BY <1>4, <1>7, <1>9 DEF Replied
    <3>2. \A b \in Addr : state'[p][b] \in Transient => b = a /\ ask
      BY <1>3, <1>5, <1>9
    <3>3. NULL \notin ProcReq
      BY ConstantsAssumption
    <3>4. issued[p].addr = a
      BY <1>9
    <3>5. ask => state'[p][issued[p].addr] \in Transient
      BY <3>4, <1>3, <1>5
    <3> HIDE DEF a, r
    <3> QED
      BY <3>1, <3>2, <3>3, <3>4, <3>5, <2>2, <2>4, <1>7, <1>9
  <2> QED
    BY <2>3, <2>4
<1>18. CopyInv'
  BY <1>0, <1>1, <1>3, <1>5 DEF CopyInv, Copy
<1>19. WriteInv'
  BY <1>0, <1>1, <1>3, <1>5, <1>8, <1>10 DEF WriteInv
<1>20. ReadInv'
  BY <1>0, <1>1, <1>3, <1>4, <1>5, <1>8, <1>10 DEF ReadInv
<1>21. ReplyInv'
  <2>1. GetOnBus => current_request.addr \in Addr
    BY <1>0 DEF GetOnBus, TypeOK, Mreq
  <2> QED
    BY <2>1, <1>0, <1>1, <1>3, <1>4, <1>5, <1>8 DEF ReplyInv
<1>22. CleanInv'
  <2>1. GetOnBus => current_request.addr \in Addr
    BY <1>0 DEF GetOnBus, TypeOK, Mreq
  <2>2. GetOnBus /\ data_reply = NULL =>
          \A q \in Node : Snooped(q) => state'[q][current_request.addr] \notin Dirty
    BY <2>1, <1>0, <1>5, <1>8 DEF CleanInv
  <2>3. ASSUME mc_request # NULL, data_reply = NULL, request_in_progress, NEW q \in Node
        PROVE  state'[q][mc_request.addr] \notin Dirty
    <3>1. mc_request.node \in Node /\ mc_request.addr \in Addr
      BY <2>3, <1>0 DEF TypeOK, Mreq
    <3>2. Served(mc_request.node, mc_request.addr)
      BY <2>3 DEF Served, For
    <3>3. ~GetOnBus
      BY <2>3, <1>0, <1>8 DEF BusInv
    <3>4. state[q][mc_request.addr] \notin Dirty
      BY <2>3, <1>0 DEF CleanInv
    <3>5. CASE q = p /\ mc_request.addr = a
      <4>1. mc_request.node # p /\ state[mc_request.node][a] \in Transient
        BY <3>1, <3>2, <3>5, <1>0, <1>10 DEF ServedInv
      <4>2. s \notin Exclusive
        BY <4>1, <3>1, <3>2, <3>3, <3>5, <1>0 DEF WriteInv, ReadInv, Asked, WriteWait, Copy,
           Readable, Exclusive
      <4> QED
        BY <4>2, <3>4, <3>5, <1>3, <1>5
    <3> QED
      BY <3>1, <3>4, <3>5, <1>5
  <2> QED
    BY <2>2, <2>3, <1>4, <1>8 DEF CleanInv, memory
<1>23. GarbageInv'
  BY <1>0, <1>4, <1>6, <1>7, ConstantsAssumption DEF GarbageInv, AbortsOnlyOnGarbage
<1> QED
  BY <1>12, <1>13, <1>14, <1>15, <1>16, <1>17, <1>18, <1>19, <1>20, <1>21, <1>22, <1>23 DEF IInv

\* The first half of Hash_table::tick keeps the invariant.
LEMMA CacheProcIInv ==
    ASSUME IInv, NEW p \in Node, CacheProc(p) PROVE IInv'
<1>0. TypeOK /\ ControlInv /\ GarbageInv
  BY DEF IInv
<1>1. CASE proc_request[p] = NULL
  <2>1. /\ phase = "cache_proc" /\ phase' = "cache_snoop"
        /\ UNCHANGED <<turn, protocol, caches, latches, procs, bus, memory, fatal>>
    BY <1>1 DEF CacheProc, At
  <2>2. \A q \in Node : Snooped(q)' <=> Snooped(q)
    BY <2>1 DEF Snooped
  <2>3. \A q \in Node, a \in Addr : Served(q, a)' <=> Served(q, a)
    BY <2>1, <2>2 DEF Served, For, DataOnBus, bus, memory
  <2> QED
    BY <2>1, <2>2, <2>3, <1>0, ControlStep DEF AbortsOnlyOnGarbage, GarbageInv,
       MemorySnooped, TypeOK, ControlInv, Phase
<1>2. CASE proc_request[p] = WILD
  <2>1. Abort
    BY <1>2, ConstantsAssumption DEF CacheProc
  <2> QED
    BY <2>1, <1>0, <1>2, AbortIInv DEF GarbageInv
<1>3. CASE proc_request[p] \in ProcReq
  BY <1>3, CacheProcPerform
<1> QED
  BY <1>0, <1>1, <1>2, <1>3 DEF TypeOK

\* When the for loop goes on, node p has snooped the message as well.
LEMMA NextNodeSnooped ==
    ASSUME TypeOK, NEW p \in Node, At("cache_snoop", p), NextNode(p, "cache_proc", "pr")
    PROVE  /\ phase = "cache_snoop" /\ turn = p
           /\ phase' \in {"cache_proc", "pr"} /\ turn' \in Node /\ protocol' = protocol
           /\ phase' = "pr" => turn' = 0
           /\ ~MemorySnooped /\ ~MemorySnooped'
           /\ ~Snooped(p)
           /\ \A q \in Node : Snooped(q)' <=> Snooped(q) \/ q = p
<1> USE ConstantsAssumption DEF Node
<1>1. /\ phase = "cache_snoop" /\ turn = p /\ protocol' = protocol
      /\ phase' = IF p = N - 1 THEN "pr" ELSE "cache_proc"
      /\ turn' = IF p = N - 1 THEN 0 ELSE p + 1
  BY DEF At, NextNode
<1>2. ASSUME NEW q \in Node PROVE Snooped(q)' <=> Snooped(q) \/ q = p
  <2>1. CASE p = N - 1
    BY <1>1, <2>1 DEF Snooped
  <2>2. CASE p # N - 1
    BY <1>1, <2>2 DEF Snooped
  <2> QED
    BY <2>1, <2>2
<1> QED
  BY <1>1, <1>2 DEF MemorySnooped, Snooped

\* There is no message, or DATA for another node.
LEMMA CacheSnoopNothing ==
    ASSUME IInv, NEW p \in Node, CacheSnoop(p), ~Snoops(p) PROVE IInv'
<1>0. TypeOK /\ ControlInv /\ AgreeInv /\ GarbageInv
  BY DEF IInv
<1>1. /\ At("cache_snoop", p) /\ NextNode(p, "cache_proc", "pr")
      /\ UNCHANGED <<caches, latches, procs, bus, memory, fatal>>
  BY DEF CacheSnoop
<1>2. /\ phase = "cache_snoop" /\ turn = p
      /\ phase' \in {"cache_proc", "pr"} /\ turn' \in Node /\ protocol' = protocol
      /\ phase' = "pr" => turn' = 0
      /\ ~MemorySnooped /\ ~MemorySnooped'
      /\ ~Snooped(p)
      /\ \A q \in Node : Snooped(q)' <=> Snooped(q) \/ q = p
  BY <1>0, <1>1, NextNodeSnooped
<1>3. ~GetOnBus /\ (DataOnBus => current_request.node # p)
  BY DEF Snoops, GetOnBus, DataOnBus
<1>4. ASSUME NEW q \in Node, NEW a \in Addr PROVE Served(q, a)' <=> Served(q, a)
  <2>1. DataOnBus /\ (For(current_request, q, a) \/ For(data_reply, q, a) \/ For(mc_request, q, a))
           => q # p
    BY <1>0, <1>3 DEF AgreeInv, For, DataOnBus
  <2>2. /\ request_in_progress' = request_in_progress
        /\ DataOnBus' <=> DataOnBus
        /\ For(current_request, q, a)' <=> For(current_request, q, a)
        /\ For(data_reply, q, a)' <=> For(data_reply, q, a)
        /\ For(mc_request, q, a)' <=> For(mc_request, q, a)
    BY <1>1 DEF For, DataOnBus, bus, memory
  <2> QED
    BY <2>1, <2>2, <1>2 DEF Served
<1> QED
  BY <1>0, <1>1, <1>2, <1>3, <1>4, ControlStep DEF AbortsOnlyOnGarbage, GarbageInv,
     TypeOK, ControlInv, Phase

\* The request that is being served, snooped by node p.
LEMMA CacheSnoopGet ==
    ASSUME IInv, NEW p \in Node, CacheSnoop(p), GetOnBus PROVE IInv'
<1>0. TypeOK /\ ControlInv /\ BusInv /\ AgreeInv /\ QueueInv /\ ServedInv /\ WaitInv
      /\ CopyInv /\ WriteInv /\ ReadInv /\ ReplyInv /\ CleanInv /\ GarbageInv
  BY DEF IInv
<1> DEFINE r   == current_request
           a   == r.addr
           s   == state[p][a]
           out == snoop_request(s, r.msg, shared_line)
           t   == out.state
           set == "set_shared_line" \in out.calls
<1>1. /\ r # NULL /\ r \in Mreq /\ r.msg \in {"GETS", "GETM"} /\ r.node \in Node /\ a \in Addr
      /\ Snoops(p)
  BY <1>0 DEF GetOnBus, TypeOK, Mreq, BusMsg, Snoops
<1>2. t \in States(protocol) /\ GetAnswer(protocol, s, r.msg, out)
  <2>1. s \in States(protocol) /\ protocol \in Protocols /\ r.msg \in BusMsg
        /\ shared_line \in BOOLEAN
    BY <1>0, <1>1 DEF TypeOK, ControlInv, BusMsg
  <2>2. t \in States(protocol) /\ SnoopAnswer(protocol, s, r.msg, shared_line, out)
    BY <2>1, SnoopFacts
  <2> QED
    BY <2>2, <1>1 DEF SnoopAnswer
<1>3. phase = "cache_snoop" /\ ~Snooped(p)
  BY ConstantsAssumption DEF CacheSnoop, At, Snooped, Node
<1> HIDE DEF out
<1>4. ~Fails(p, out)
  BY <1>0, <1>1, <1>2, <1>3 DEF Fails, GetAnswer, ReplyLatchBusy, ReplyInv
<1>5. /\ At("cache_snoop", p) /\ NextNode(p, "cache_proc", "pr")
      /\ Perform(p, a, out, r.node) /\ proc_request' = proc_request
  BY <1>1, <1>4 DEF CacheSnoop, out
<1>6. /\ state' = [state EXCEPT ![p][a] = t]
      /\ inbound_request_buf' = inbound_request_buf
      /\ pending_requests' = pending_requests
      /\ data_reply' = IF s \in Supplier THEN Message("DATA", a, r.node) ELSE data_reply
      /\ shared_line' = (shared_line \/ set)
      /\ UNCHANGED <<inbound_request, procs, current_request, request_in_progress, memory, fatal>>
  <2>1. inbound_request_buf' = inbound_request_buf
    BY <1>0, <1>2, <1>5 DEF Perform, GetAnswer, TypeOK
  <2> QED
    BY <2>1, <1>2, <1>5 DEF Perform, GetAnswer, Asks
<1>7. /\ phase' \in {"cache_proc", "pr"} /\ turn' \in Node /\ protocol' = protocol
      /\ phase' = "pr" => turn' = 0
      /\ ~MemorySnooped /\ ~MemorySnooped'
      /\ \A q \in Node : Snooped(q)' <=> Snooped(q) \/ q = p
  BY <1>0, <1>5, NextNodeSnooped
<1>8. /\ \A c \in {"fatal_error", "send_DATA_to_proc", "send_GETM", "send_GETS"} :
          c \notin out.calls
      /\ "send_DATA_on_bus" \in out.calls <=> s \in Supplier
      /\ t \in Transient <=> s \in Transient
      /\ t = "IS" <=> s = "IS"
      /\ t \notin Exclusive
      /\ t \in Dirty => s \in Dirty
      /\ t \in Supplier => s \in Supplier \cup Exclusive
      /\ t \in Copy => s \in Copy
      /\ r.msg = "GETM" => t \notin Copy /\ (s \in WriteWait => t \in {"IM", "SM"})
      /\ r.msg = "GETS" /\ s \in Copy /\ protocol \in {"MESI_PRO", "MOESIF_PRO"} => set
  BY <1>2 DEF GetAnswer
<1> HIDE DEF t, set
<1>9. /\ state'[p][a] = t
      /\ \A q \in Node, b \in Addr : q # p \/ b # a => state'[q][b] = state[q][b]
  BY <1>0, <1>1, <1>6 DEF TypeOK
<1>10. /\ GetOnBus' /\ ~DataOnBus /\ ~DataOnBus' /\ request_in_progress /\ mc_request = NULL
       /\ \A q \in Node : (Asked(q) <=> Snooped(q)) /\ (Asked(q)' <=> Snooped(q) \/ q = p)
  BY <1>0, <1>6, <1>7 DEF GetOnBus, DataOnBus, BusInv, Asked
<1>11. data_reply # NULL => data_reply.node = r.node /\ data_reply.addr = a
  BY <1>0, <1>1 DEF AgreeInv
<1>12. data_reply' # NULL =>
          data_reply'.msg = "DATA" /\ data_reply'.node = r.node /\ data_reply'.addr = a
  BY <1>0, <1>6, <1>11 DEF Message, BusInv
<1>13. \A q \in Node, b \in Addr : Served(q, b) <=> q = r.node /\ b = a
  BY <1>1, <1>10, <1>11 DEF Served, For
<1>14. \A q \in Node, b \in Addr : Served(q, b)' <=> q = r.node /\ b = a
  BY <1>1, <1>6, <1>10, <1>12 DEF Served, For, memory
<1>15. \A q \in Node, b \in Addr : /\ state'[q][b] \in Transient <=> state[q][b] \in Transient
                                   /\ state'[q][b] = "IS" <=> state[q][b] = "IS"
  BY <1>8, <1>9
<1>16. TypeOK'
  <2>1. state' \in [Node -> [Addr -> LineState]]
    BY <1>0, <1>2, <1>6, ProtocolStates DEF TypeOK, t
  <2>2. data_reply' \in Mreq \cup {NULL}
    BY <1>0, <1>1, <1>6 DEF TypeOK, Mreq, Message, BusMsg
  <2>3. shared_line' \in BOOLEAN
    BY <1>0, <1>6 DEF TypeOK
  <2> QED
    BY <2>1, <2>2, <2>3, <1>0, <1>5, <1>6, <1>7 DEF TypeOK, Phase, procs, memory
<1>17. ControlInv'
  BY <1>0, <1>2, <1>7, <1>9 DEF ControlInv, t
<1>18. BusInv' /\ AgreeInv'
  <2>1. request_in_progress' /\ mc_request' = NULL /\ current_request' # NULL
        /\ (data_reply' # NULL => data_reply'.msg = "DATA")
    BY <1>1, <1>6, <1>10, <1>12 DEF memory
  <2>2. BusInv'
    BY <2>1, <1>7, <1>10 DEF BusInv
  <2>3. AgreeInv'
    BY <1>6, <1>10, <1>12 DEF AgreeInv, memory
  <2> QED
    BY <2>2, <2>3
<1>19. QueueInv'
  <2> SUFFICES ASSUME NEW k \in 1 .. Len(pending_requests) PROVE QueueEntry(k)'
    BY <1>6 DEF QueueInv
  <2>1. QueueEntry(k) /\ pending_requests[k].node \in Node /\ pending_requests[k].addr \in Addr
    BY <1>0, QueueTyped DEF QueueInv
  <2>2. ~(pending_requests[k].node = r.node /\ pending_requests[k].addr = a)
    BY <2>1, <1>13 DEF QueueEntry
  <2>3. ~Served(pending_requests[k].node, pending_requests[k].addr)'
    BY <2>2, <1>6, <1>10, <1>12 DEF Served, For, memory
  <2> QED
    BY <2>1, <2>3, <1>6, <1>15 DEF QueueEntry
<1>20. ServedInv'
  <2>1. r.msg = "GETS" <=> state[r.node][a] = "IS"
    BY <1>0 DEF ServedInv
  <2>2. state[r.node][a] \in Transient
    BY <1>0, <1>1, <1>13 DEF ServedInv
  <2> QED
    BY <2>1, <2>2, <1>1, <1>6, <1>14, <1>15 DEF ServedInv
<1>21. WaitInv'
  <2>1. \A q \in Node, b \in Addr : Queued(q, b)' <=> Queued(q, b)
    BY <1>6 DEF Queued
  <2>2. \A q \in Node : issued[q] # NULL => issued[q].addr \in Addr
    BY <1>0 DEF TypeOK, ProcReq
  <2>3. \A q \in Node : Replied(q)' <=> Replied(q)
    BY <1>6 DEF Replied
  <2>4. \A q \in Node, b \in Addr : Served(q, b)' <=> Served(q, b)
    BY <1>13, <1>14
  <2>5. UNCHANGED <<inbound_request, inbound_request_buf, outstanding_request, issued, proc_request>>
    BY <1>5, <1>6 DEF procs
  <2> QED
    BY <2>1, <2>2, <2>3, <2>4, <2>5, <1>0, <1>15 DEF WaitInv
<1>22. CopyInv'
  BY <1>0, <1>8, <1>9 DEF CopyInv, Copy
<1>23. WriteInv'
  <2> SUFFICES ASSUME state'[r.node][a] \in WriteWait
               PROVE  /\ Asked(r.node)' => state'[r.node][a] \in {"IM", "SM"}
                      /\ \A q \in Node : q # r.node /\ Asked(q)' => state'[q][a] \notin Copy
    BY <1>1, <1>6, <1>14 DEF WriteInv
  <2>1. state[r.node][a] \in WriteWait /\ r.msg = "GETM"
    BY <1>0, <1>1, <1>15 DEF WriteWait, ServedInv
  <2>2. Asked(r.node)' => state'[r.node][a] \in {"IM", "SM"}
    BY <2>1, <1>0, <1>1, <1>6, <1>7, <1>8, <1>9, <1>10, <1>13 DEF WriteInv, Asked
  <2>3. ASSUME NEW q \in Node, q # r.node, Asked(q)' PROVE state'[q][a] \notin Copy
    BY <2>1, <2>3, <1>0, <1>1, <1>8, <1>9, <1>10, <1>13 DEF WriteInv
  <2> QED
    BY <2>2, <2>3
<1>24. ReadInv'
  <2> SUFFICES ASSUME state'[r.node][a] = "IS", NEW q \in Node, q # r.node, Asked(q)'
               PROVE  /\ state'[q][a] \notin Exclusive
                      /\ protocol \in {"MESI_PRO", "MOESIF_PRO"} /\ ~shared_line'
                            => state'[q][a] \notin Copy
    BY <1>1, <1>7, <1>14 DEF ReadInv
  <2>1. state[r.node][a] = "IS" /\ r.msg = "GETS"
    BY <1>0, <1>1, <1>15 DEF ServedInv
  <2>2. CASE q = p
    BY <2>1, <2>2, <1>6, <1>8, <1>9
  <2>3. CASE q # p
    BY <2>1, <2>3, <1>0, <1>1, <1>6, <1>9, <1>10, <1>13 DEF ReadInv
  <2> QED
    BY <2>2, <2>3
<1>25. ReplyInv'
  <2> SUFFICES ASSUME data_reply' # NULL, NEW q \in Node, ~Snooped(q), q # p
               PROVE  state'[q][a] \notin Supplier \cup Exclusive
    BY <1>6, <1>7 DEF ReplyInv
  <2>1. CASE data_reply # NULL
    BY <2>1, <1>0, <1>1, <1>9 DEF ReplyInv
  <2>2. CASE s \in Supplier
    BY <2>2, <1>0, <1>1, <1>9 DEF CopyInv, Copy
  <2> QED
    BY <2>1, <2>2, <1>6
<1>26. CleanInv'
  <2> SUFFICES ASSUME data_reply' = NULL, NEW q \in Node, Snooped(q) \/ q = p
               PROVE  state'[q][a] \notin Dirty
    BY <1>6, <1>7, <1>10 DEF CleanInv, memory
  <2>1. data_reply = NULL /\ s \notin Supplier
    BY <1>1, <1>6, ConstantsAssumption DEF Message, Mreq, BusMsg
  <2>2. CASE q = p
    BY <2>1, <2>2, <1>8, <1>9 DEF Supplier
  <2>3. CASE q # p
    BY <2>1, <2>3, <1>0, <1>1, <1>7, <1>9 DEF CleanInv
  <2> QED
    BY <2>2, <2>3
<1>27. GarbageInv'
  BY <1>0, <1>5, <1>6 DEF GarbageInv, AbortsOnlyOnGarbage
<1> QED
  BY <1>16, <1>17, <1>18, <1>19, <1>20, <1>21, <1>22, <1>23, <1>24, <1>25, <1>26, <1>27 DEF IInv

\* The DATA that node p waits for.
LEMMA CacheSnoopData ==
    ASSUME IInv, NEW p \in Node, CacheSnoop(p), DataOnBus, current_request.node = p
    PROVE  IInv'
<1>0. TypeOK /\ ControlInv /\ BusInv /\ AgreeInv /\ QueueInv /\ ServedInv /\ WaitInv
      /\ CopyInv /\ WriteInv /\ ReadInv /\ ReplyInv /\ CleanInv /\ GarbageInv
  BY DEF IInv
<1> DEFINE r   == current_request
           a   == r.addr
           s   == state[p][a]
           out == snoop_request(s, r.msg, shared_line)
           t   == out.state
<1>1. /\ r # NULL /\ r \in Mreq /\ r.msg = "DATA" /\ r.node = p /\ a \in Addr
      /\ Snoops(p) /\ ~GetOnBus
  BY <1>0 DEF DataOnBus, GetOnBus, TypeOK, Mreq, Snoops
<1>2. phase = "cache_snoop" /\ ~Snooped(p)
  BY ConstantsAssumption DEF CacheSnoop, At, Snooped, Node
<1>3. Served(p, a) /\ ~request_in_progress /\ data_reply = NULL
  BY <1>0, <1>1, <1>2 DEF Served, For, BusInv, DataOnBus
<1>4. /\ s \in Transient /\ proc_request[p] \notin ProcReq
      /\ outstanding_request[p] /\ ~inbound_request[p] /\ ~inbound_request_buf[p]
      /\ issued[p] # NULL /\ issued[p].addr = a
  BY <1>0, <1>1, <1>3 DEF ServedInv, WaitInv, Replied
<1>5. t \in States(protocol) /\ DataAnswer(protocol, s, shared_line, out)
  <2>1. s \in States(protocol) /\ protocol \in Protocols /\ r.msg \in BusMsg
        /\ shared_line \in BOOLEAN
    BY <1>0, <1>1 DEF TypeOK, ControlInv, BusMsg
  <2>2. t \in States(protocol) /\ SnoopAnswer(protocol, s, r.msg, shared_line, out)
    BY <2>1, SnoopFacts
  <2> QED
    BY <2>2, <1>1, <1>4 DEF SnoopAnswer
<1> HIDE DEF out
<1>6. ~Fails(p, out)
  BY <1>4, <1>5 DEF Fails, DataAnswer
<1>7. /\ At("cache_snoop", p) /\ NextNode(p, "cache_proc", "pr")
      /\ Perform(p, a, out, r.node) /\ proc_request' = proc_request
  BY <1>1, <1>6 DEF CacheSnoop, out
<1>8. /\ state' = [state EXCEPT ![p][a] = t]
      /\ inbound_request_buf' = [inbound_request_buf EXCEPT ![p] = TRUE]
      /\ pending_requests' = pending_requests
      /\ data_reply' = data_reply /\ shared_line' = shared_line
      /\ UNCHANGED <<inbound_request, procs, current_request, request_in_progress, memory, fatal>>
  <2>1. shared_line' = shared_line
    BY <1>0, <1>5, <1>7 DEF Perform, DataAnswer, TypeOK
  <2>2. inbound_request_buf' = [inbound_request_buf EXCEPT ![p] = TRUE]
    BY <1>5, <1>7 DEF Perform, DataAnswer
  <2> QED
    BY <2>1, <2>2, <1>5, <1>7 DEF Perform, DataAnswer, Asks
<1>9. /\ phase' \in {"cache_proc", "pr"} /\ turn' \in Node /\ protocol' = protocol
      /\ phase' = "pr" => turn' = 0
      /\ ~MemorySnooped /\ ~MemorySnooped'
      /\ \A q \in Node : Snooped(q)' <=> Snooped(q) \/ q = p
  BY <1>0, <1>7, NextNodeSnooped
<1>10. /\ s \in WriteWait => t = "M"
       /\ s = "IS" => \/ t = "S"
                      \/ t = "E" /\ ~shared_line /\ protocol \in {"MESI_PRO", "MOESIF_PRO"}
  BY <1>5 DEF DataAnswer
<1> HIDE DEF t
<1>11. t \notin Transient
  BY <1>4, <1>10 DEF WriteWait, Transient
<1>12. /\ state'[p][a] = t
       /\ \A q \in Node, b \in Addr : q # p \/ b # a => state'[q][b] = state[q][b]
  BY <1>0, <1>1, <1>8 DEF TypeOK
<1>13. ~GetOnBus' /\ (DataOnBus' <=> DataOnBus) /\ \A q \in Node : Asked(q) /\ Asked(q)'
  BY <1>1, <1>8 DEF GetOnBus, DataOnBus, Asked
<1>14. \A q \in Node, b \in Addr : Served(q, b) => q = p
  BY <1>0, <1>1, <1>3 DEF Served, For, AgreeInv
<1>15. \A q \in Node, b \in Addr : ~Served(q, b)'
  <2> SUFFICES ASSUME NEW q \in Node, NEW b \in Addr, Served(q, b)' PROVE FALSE
    OBVIOUS
  <2>1. ~request_in_progress' /\ ~Snooped(q)'
    BY <1>3, <1>8 DEF Served
  <2>2. q # p /\ ~Snooped(q)
    BY <2>1, <1>9
  <2>3. Served(q, b)
    BY <2>2, <1>3, <1>8, <1>13 DEF Served, For, memory
  <2> QED
    BY <2>2, <2>3, <1>14
<1>16. TypeOK'
  <2>1. state' \in [Node -> [Addr -> LineState]]
    BY <1>0, <1>5, <1>8, ProtocolStates DEF TypeOK, t
  <2>2. inbound_request_buf' \in [Node -> BOOLEAN]
    BY <1>0, <1>8 DEF TypeOK
  <2> QED
    BY <2>1, <2>2, <1>0, <1>7, <1>8, <1>9 DEF TypeOK, Phase, procs, memory
<1>17. ControlInv'
  BY <1>0, <1>5, <1>9, <1>12 DEF ControlInv, t
<1>18. BusInv' /\ AgreeInv'
  BY <1>0, <1>8, <1>9, <1>13 DEF BusInv, AgreeInv, memory
<1>19. QueueInv'
  <2> SUFFICES ASSUME NEW k \in 1 .. Len(pending_requests) PROVE QueueEntry(k)'
    BY <1>8 DEF QueueInv
  <2>1. QueueEntry(k) /\ pending_requests[k].node \in Node /\ pending_requests[k].addr \in Addr
    BY <1>0, QueueTyped DEF QueueInv
  <2>2. ~(pending_requests[k].node = p /\ pending_requests[k].addr = a)
    BY <2>1, <1>3 DEF QueueEntry
  <2>3. ~Served(pending_requests[k].node, pending_requests[k].addr)'
    BY <2>1, <1>8, <1>15
  <2> QED
    BY <2>1, <2>2, <2>3, <1>8, <1>12 DEF QueueEntry
<1>20. ServedInv' /\ WriteInv' /\ ReadInv'
  BY <1>13, <1>15 DEF ServedInv, WriteInv, ReadInv
<1>21. WaitInv'
  <2>1. \A q \in Node, b \in Addr : Queued(q, b)' <=> Queued(q, b)
    BY <1>8 DEF Queued
  <2>2. \A q \in Node : issued[q] # NULL => issued[q].addr \in Addr
    BY <1>0 DEF TypeOK, ProcReq
  <2>3. /\ \A q \in Node : q # p => (Replied(q)' <=> Replied(q))
        /\ Replied(p)'
        /\ \A q \in Node : q # p => inbound_request_buf'[q] = inbound_request_buf[q]
    BY <1>0, <1>8 DEF Replied, TypeOK
  <2>4. UNCHANGED <<inbound_request, outstanding_request, issued, proc_request>>
    BY <1>7, <1>8 DEF procs
  <2>5. \A b \in Addr : state'[p][b] \notin Transient
    BY <1>0, <1>4, <1>11, <1>12 DEF WaitInv
  <2>6. \A q \in Node, b \in Addr : q # p => /\ state'[q][b] = state[q][b]
                                             /\ ~Served(q, b)
    BY <1>12, <1>14
  <2> QED
    BY <2>1, <2>2, <2>3, <2>4, <2>5, <2>6, <1>0, <1>4 DEF WaitInv
<1>22. CopyInv'
  <2>1. ASSUME NEW q \in Node, q # p
        PROVE  /\ t \in Exclusive => state[q][a] \notin Copy
               /\ t \in Supplier => state[q][a] \notin Copy
               /\ state[q][a] \in Exclusive => t \notin Copy
               /\ state[q][a] \in Supplier => t \notin Supplier
    <3>1. CASE s \in WriteWait
      <4>1. state[q][a] \notin Copy /\ t = "M"
        BY <3>1, <2>1, <1>0, <1>1, <1>3, <1>10, <1>13 DEF WriteInv
      <4> QED
        BY <4>1 DEF Copy, Exclusive, Readable
    <3>2. CASE s = "IS" /\ t = "S"
      <4>1. state[q][a] \notin Exclusive
        BY <3>2, <2>1, <1>0, <1>1, <1>3, <1>13 DEF ReadInv
      <4> QED
        BY <4>1, <3>2 DEF Exclusive, Supplier, Dirty
    <3>3. CASE s = "IS" /\ t = "E" /\ ~shared_line /\ protocol \in {"MESI_PRO", "MOESIF_PRO"}
      <4>1. state[q][a] \notin Copy
        BY <3>3, <2>1, <1>0, <1>1, <1>3, <1>13 DEF ReadInv
      <4> QED
        BY <4>1, <3>3 DEF Copy, Exclusive, Readable
    <3> QED
      BY <3>1, <3>2, <3>3, <1>4, <1>10 DEF WriteWait
  <2> QED
    BY <2>1, <1>0, <1>12 DEF CopyInv
<1>23. ReplyInv' /\ CleanInv'
  BY <1>3, <1>8, <1>13 DEF ReplyInv, CleanInv
<1>24. GarbageInv'
  BY <1>0, <1>7, <1>8 DEF GarbageInv, AbortsOnlyOnGarbage
<1> QED
  BY <1>16, <1>17, <1>18, <1>19, <1>20, <1>21, <1>22, <1>23, <1>24 DEF IInv

\* The second half of Hash_table::tick keeps the invariant.
LEMMA CacheSnoopIInv ==
    ASSUME IInv, NEW p \in Node, CacheSnoop(p) PROVE IInv'
<1>1. \/ ~Snoops(p)
      \/ GetOnBus
      \/ DataOnBus /\ current_request.node = p
  BY DEF Snoops, GetOnBus, DataOnBus
<1> QED
  BY <1>1, CacheSnoopNothing, CacheSnoopGet, CacheSnoopData

-----------------------------------------------------------------------------
(* Processor::tick. *)

\* Processor::tick keeps the invariant.
LEMMA PrTickIInv ==
    ASSUME IInv, NEW p \in Node, PrTick(p) PROVE IInv'
<1>0. TypeOK /\ ControlInv /\ BusInv /\ AgreeInv /\ QueueInv /\ ServedInv /\ WaitInv
      /\ CopyInv /\ WriteInv /\ ReadInv /\ ReplyInv /\ CleanInv /\ GarbageInv
  BY DEF IInv
<1> DEFINE waits == outstanding_request[p] /\ ~inbound_request[p]
<1>1. /\ phase = "pr" /\ turn = p /\ protocol' = protocol
      /\ phase' \in {"pr", "mc"} /\ turn' \in Node /\ (phase' = "mc" => turn' = 0)
      /\ inbound_request' = [inbound_request EXCEPT ![p] = FALSE]
      /\ UNCHANGED <<state, inbound_request_buf, bus, memory, fatal>>
  BY ConstantsAssumption DEF PrTick, At, NextNode, Node
<1>2. \/ /\ outstanding_request' = [outstanding_request EXCEPT ![p] = waits]
         /\ UNCHANGED <<proc_request, fetched, issued>>
         /\ end_of_trace' = end_of_trace
      \/ /\ ~waits
         /\ outstanding_request' = [outstanding_request EXCEPT ![p] = FALSE]
         /\ UNCHANGED <<proc_request, fetched, issued>>
         /\ end_of_trace' = [end_of_trace EXCEPT ![p] = TRUE]
      \/ /\ ~waits /\ fetched[p] < TraceLen /\ fetched' = [fetched EXCEPT ![p] = @ + 1]
         /\ \E r \in ProcReq : /\ proc_request' = [proc_request EXCEPT ![p] = r]
                               /\ issued' = [issued EXCEPT ![p] = r]
         /\ outstanding_request' = [outstanding_request EXCEPT ![p] = TRUE]
         /\ end_of_trace' = end_of_trace
  BY DEF PrTick
<1>3. /\ \A q \in Node : Snooped(q) /\ Snooped(q)' /\ Asked(q) /\ Asked(q)'
      /\ ~MemorySnooped /\ ~MemorySnooped'
      /\ (GetOnBus' <=> GetOnBus) /\ (DataOnBus' <=> DataOnBus)
      /\ UNCHANGED <<current_request, pending_requests, data_reply, request_in_progress,
                     shared_line, mc_request, mc_wait>>
  BY <1>1 DEF Snooped, MemorySnooped, GetOnBus, DataOnBus, Asked, bus, memory
<1>4. \A q \in Node, b \in Addr : Served(q, b)' <=> Served(q, b)
  BY <1>3 DEF Served, For
<1>5. TypeOK'
  <2>1. /\ inbound_request' \in [Node -> BOOLEAN]
        /\ outstanding_request' \in [Node -> BOOLEAN]
        /\ end_of_trace' \in [Node -> BOOLEAN]
    <3> waits \in BOOLEAN
      OBVIOUS
    <3> HIDE DEF waits
    <3> QED
      BY <1>0, <1>1, <1>2 DEF TypeOK
  <2>2. /\ proc_request' \in [Node -> ProcReq \cup {NULL, WILD}]
        /\ issued' \in [Node -> ProcReq \cup {NULL}]
    <3>1. CASE UNCHANGED <<proc_request, issued>>
      BY <3>1, <1>0 DEF TypeOK
    <3>2. ASSUME NEW r \in ProcReq, proc_request' = [proc_request EXCEPT ![p] = r],
                 issued' = [issued EXCEPT ![p] = r]
          PROVE  /\ proc_request' \in [Node -> ProcReq \cup {NULL, WILD}]
                 /\ issued' \in [Node -> ProcReq \cup {NULL}]
      BY <3>2, <1>0 DEF TypeOK
    <3> QED
      BY <3>1, <3>2, <1>2
  <2>3. fetched' \in [Node -> 0 .. TraceLen]
    <3>1. fetched[p] \in 0 .. TraceLen /\ TraceLen \in Nat
      BY <1>0, ConstantsAssumption DEF TypeOK
    <3>2. fetched[p] < TraceLen => fetched[p] + 1 \in 0 .. TraceLen
      BY <3>1
    <3> QED
      BY <3>2, <1>0, <1>2 DEF TypeOK
  <2> QED
    BY <2>1, <2>2, <2>3, <1>0, <1>1, <1>3 DEF TypeOK, Phase
<1>6. ControlInv'
  BY <1>0, <1>1 DEF ControlInv
<1>7. BusInv' /\ AgreeInv'
  BY <1>0, <1>3 DEF BusInv, AgreeInv
<1>8. QueueInv'
  <2> SUFFICES ASSUME NEW k \in 1 .. Len(pending_requests) PROVE QueueEntry(k)'
    BY <1>3 DEF QueueInv
  <2>1. QueueEntry(k) /\ pending_requests[k].node \in Node /\ pending_requests[k].addr \in Addr
    BY <1>0, QueueTyped DEF QueueInv
  <2>2. ~Served(pending_requests[k].node, pending_requests[k].addr)'
    BY <2>1, <1>3, <1>4 DEF QueueEntry
  <2> QED
    BY <2>1, <2>2, <1>1, <1>3 DEF QueueEntry
<1>9. ServedInv' /\ CopyInv' /\ WriteInv'
  BY <1>0, <1>1, <1>3, <1>4 DEF ServedInv, CopyInv, WriteInv
<1>10. ReadInv'
  BY <1>0, <1>1, <1>3, <1>4 DEF ReadInv
<1>11. ReplyInv' /\ CleanInv'
  BY <1>0, <1>1, <1>3 DEF ReplyInv, CleanInv
<1>12. \A q \in Node : q # p =>
          /\ outstanding_request'[q] = outstanding_request[q]
          /\ inbound_request'[q] = inbound_request[q]
          /\ inbound_request_buf'[q] = inbound_request_buf[q]
          /\ proc_request'[q] = proc_request[q] /\ issued'[q] = issued[q]
  BY <1>0, <1>1, <1>2 DEF TypeOK
<1>13. /\ inbound_request'[p] = FALSE
       /\ inbound_request_buf'[p] = inbound_request_buf[p]
       /\ \/ /\ outstanding_request'[p] = waits
             /\ proc_request'[p] = proc_request[p] /\ issued'[p] = issued[p]
          \/ /\ ~waits /\ outstanding_request'[p] = TRUE
             /\ proc_request'[p] \in ProcReq /\ issued'[p] = proc_request'[p]
  <2>1. /\ inbound_request'[p] = FALSE
        /\ inbound_request_buf'[p] = inbound_request_buf[p]
    BY <1>0, <1>1 DEF TypeOK
  <2>2. CASE /\ outstanding_request' = [outstanding_request EXCEPT ![p] = waits]
             /\ UNCHANGED <<proc_request, fetched, issued>>
    BY <2>1, <2>2, <1>0 DEF TypeOK
  <2>3. CASE /\ ~waits
             /\ outstanding_request' = [outstanding_request EXCEPT ![p] = FALSE]
             /\ UNCHANGED <<proc_request, fetched, issued>>
    BY <2>1, <2>3, <1>0 DEF TypeOK
  <2>4. ASSUME ~waits, NEW r \in ProcReq, proc_request' = [proc_request EXCEPT ![p] = r],
               issued' = [issued EXCEPT ![p] = r],
               outstanding_request' = [outstanding_request EXCEPT ![p] = TRUE]
        PROVE  /\ outstanding_request'[p] = TRUE
               /\ proc_request'[p] \in ProcReq /\ issued'[p] = proc_request'[p]
    BY <2>4, <1>0 DEF TypeOK
  <2> QED
    BY <2>1, <2>2, <2>3, <2>4, <1>2
<1>14. GarbageInv'
  BY <1>0, <1>1, <1>12, <1>13, ConstantsAssumption DEF GarbageInv, AbortsOnlyOnGarbage
<1>15. WaitInv'
  <2>1. \A q \in Node, b \in Addr : Queued(q, b)' <=> Queued(q, b)
    BY <1>3 DEF Queued
  <2> SUFFICES ASSUME NEW q \in Node
               PROVE  /\ \A b \in Addr : state[q][b] \in Transient =>
                            /\ outstanding_request'[q] /\ ~Replied(q)' /\ proc_request'[q] \notin ProcReq
                            /\ issued'[q] # NULL /\ issued'[q].addr = b
                            /\ Served(q, b) \/ Queued(q, b)
                      /\ proc_request'[q] \in ProcReq =>
                            outstanding_request'[q] /\ ~Replied(q)' /\ proc_request'[q] = issued'[q]
                      /\ Replied(q)' => outstanding_request'[q]
                      /\ ~(inbound_request'[q] /\ inbound_request_buf'[q])
                      /\ outstanding_request'[q] /\ issued'[q] # NULL =>
                            \/ proc_request'[q] = issued'[q]
                            \/ Replied(q)'
                            \/ state[q][issued'[q].addr] \in Transient
    BY <2>1, <1>1, <1>4 DEF WaitInv
  <2>2. CASE q # p
    <3>1. Replied(q)' <=> Replied(q)
      BY <2>2, <1>12 DEF Replied
    <3> QED
      BY <3>1, <2>2, <1>0, <1>12 DEF WaitInv
  <2>3. CASE q = p /\ waits
    <3>1. /\ ~inbound_request[p] /\ outstanding_request[p] /\ outstanding_request'[p]
          /\ proc_request'[p] = proc_request[p] /\ issued'[p] = issued[p]
      BY <2>3, <1>13
    <3>2. Replied(p)' <=> Replied(p)
      BY <3>1, <1>13 DEF Replied
    <3> QED
      BY <3>1, <3>2, <2>3, <1>0, <1>13 DEF WaitInv
  <2>4. CASE q = p /\ ~waits
    <3>1. ~inbound_request_buf[p]
      BY <2>4, <1>0 DEF WaitInv, Replied
    <3>2. \A b \in Addr : state[p][b] \notin Transient
      BY <2>4, <1>0 DEF WaitInv, Replied
    <3>3. proc_request[p] \notin ProcReq
      BY <2>4, <1>0 DEF WaitInv, Replied
    <3>4. ~Replied(p)'
      BY <3>1, <1>13 DEF Replied
    <3> QED
      BY <3>1, <3>2, <3>3, <3>4, <2>4, <1>13
  <2> QED
    BY <2>2, <2>3, <2>4
<1> QED
  BY <1>5, <1>6, <1>7, <1>8, <1>9, <1>10, <1>11, <1>14, <1>15 DEF IInv

-----------------------------------------------------------------------------
(* Memory_controller::tick. *)

\* Memory_controller::tick keeps the invariant.
LEMMA McTickIInv ==
    ASSUME IInv, McTick PROVE IInv'
<1>0. TypeOK /\ ControlInv /\ BusInv /\ AgreeInv /\ QueueInv /\ ServedInv /\ WaitInv
      /\ CopyInv /\ WriteInv /\ ReadInv /\ ReplyInv /\ CleanInv /\ GarbageInv
  BY DEF IInv
<1>1. phase = "mc" /\ turn = 0 /\ ~MemorySnooped /\ \A q \in Node : Snooped(q) /\ Asked(q)
  BY DEF McTick, At, MemorySnooped, Snooped, Asked
<1>2. /\ GetOnBus => mc_request = NULL
      /\ ~GetOnBus /\ ~DataOnBus => data_reply = NULL
  BY <1>0, <1>1 DEF BusInv, GetOnBus, DataOnBus
<1> DEFINE lookup == Message("DATA", current_request.addr, current_request.node)
           ready  == mc_request # NULL /\ mc_wait = 0
<1>3. /\ phase' = "tock"
      /\ UNCHANGED <<protocol, turn, caches, latches, procs, current_request,
                     pending_requests, request_in_progress, shared_line, fatal>>
      /\ \/ /\ GetOnBus
            /\ mc_request' = lookup /\ mc_wait' = HitTime /\ data_reply' = data_reply
         \/ /\ DataOnBus
            /\ mc_request' = NULL /\ mc_wait' = mc_wait /\ data_reply' = data_reply
         \/ /\ ~GetOnBus /\ ~DataOnBus /\ ready
            /\ data_reply' = mc_request /\ mc_request' = NULL /\ mc_wait' = mc_wait
         \/ /\ ~GetOnBus /\ ~DataOnBus /\ ~ready
            /\ mc_request' = mc_request /\ mc_wait' = mc_wait /\ data_reply' = data_reply
  BY <1>2 DEF McTick, ReplyLatchBusy, GetOnBus, DataOnBus
<1>4. /\ UNCHANGED <<protocol, turn, state, proc_request, inbound_request, inbound_request_buf,
                     outstanding_request, end_of_trace, fetched, issued, current_request,
                     pending_requests, request_in_progress, shared_line, fatal>>
      /\ (GetOnBus' <=> GetOnBus) /\ (DataOnBus' <=> DataOnBus)
      /\ MemorySnooped' /\ \A q \in Node : Snooped(q)' /\ Asked(q)'
  BY <1>3 DEF caches, latches, procs, GetOnBus, DataOnBus, MemorySnooped, Snooped, Asked
<1>5. GetOnBus => /\ lookup \in Mreq /\ lookup # NULL /\ lookup.msg = "DATA"
                  /\ lookup.node = current_request.node /\ lookup.addr = current_request.addr
                  /\ current_request.addr \in Addr
  BY <1>0, ConstantsAssumption DEF GetOnBus, TypeOK, Message, Mreq, BusMsg
<1>6. /\ GetOnBus => request_in_progress /\ ~DataOnBus
      /\ DataOnBus => ~request_in_progress /\ data_reply = NULL
      /\ ready => request_in_progress \/ DataOnBus
  BY <1>0 DEF BusInv, GetOnBus, DataOnBus
<1> HIDE DEF lookup, ready
<1>7. \A q \in Node, b \in Addr : Served(q, b)' <=> Served(q, b)
  <2> SUFFICES ASSUME NEW q \in Node, NEW b \in Addr PROVE Served(q, b)' <=> Served(q, b)
    OBVIOUS
  <2>1. CASE GetOnBus
    <3>1. current_request # NULL /\ mc_request = NULL /\ mc_request' = lookup
          /\ data_reply' = data_reply /\ request_in_progress /\ request_in_progress'
          /\ current_request' = current_request
      BY <2>1, <1>2, <1>3, <1>4, <1>6 DEF GetOnBus
    <3>2. Served(q, b) <=> For(current_request, q, b) \/ For(data_reply, q, b)
      BY <3>1 DEF Served, For
    <3>3. Served(q, b)' <=> For(current_request, q, b) \/ For(data_reply, q, b) \/ For(lookup, q, b)
      BY <3>1 DEF Served, For
    <3>4. For(lookup, q, b) <=> For(current_request, q, b)
      BY <2>1, <3>1, <1>5 DEF For
    <3> QED
      BY <3>2, <3>3, <3>4
  <2>2. CASE DataOnBus
    BY <2>2, <1>1, <1>4, <1>6 DEF Served
  <2>3. CASE ~GetOnBus /\ ~DataOnBus
    BY <2>3, <1>2, <1>3, <1>4 DEF Served, For, ready
  <2> QED
    BY <2>1, <2>2, <2>3
<1>8. TypeOK'
  <2>1. mc_request' \in Mreq \cup {NULL} /\ data_reply' \in Mreq \cup {NULL}
    BY <1>0, <1>3, <1>5 DEF TypeOK
  <2>2. mc_wait' \in 0 .. HitTime
    BY <1>0, <1>3, ConstantsAssumption DEF TypeOK
  <2> QED
    BY <2>1, <2>2, <1>0, <1>3, <1>4 DEF TypeOK, Phase
<1>9. ControlInv'
  BY <1>0, <1>1, <1>3, <1>4 DEF ControlInv
<1>10. BusInv'
  <2>1. CASE GetOnBus
    BY <2>1, <1>0, <1>3, <1>4, <1>5, <1>6 DEF BusInv
  <2>2. CASE DataOnBus
    BY <2>2, <1>3, <1>4, <1>6, <1>0 DEF BusInv
  <2>3. CASE ~GetOnBus /\ ~DataOnBus
    BY <2>3, <1>0, <1>2, <1>3, <1>4, <1>6 DEF BusInv, ready
  <2> QED
    BY <2>1, <2>2, <2>3
<1>11. AgreeInv'
  <2>1. CASE GetOnBus
    <3>1. current_request # NULL /\ mc_request' = lookup
          /\ data_reply' = data_reply /\ current_request' = current_request
      BY <2>1, <1>3, <1>4, <1>6 DEF GetOnBus
    <3>2. data_reply # NULL => /\ data_reply.node = current_request.node
                               /\ data_reply.addr = current_request.addr
      BY <3>1, <1>0 DEF AgreeInv
    <3> QED
      BY <2>1, <3>1, <3>2, <1>5 DEF AgreeInv
  <2>2. CASE ~GetOnBus
    BY <2>2, <1>0, <1>2, <1>3, <1>4 DEF AgreeInv
  <2> QED
    BY <2>1, <2>2
<1>12. QueueInv'
  <2> SUFFICES ASSUME NEW k \in 1 .. Len(pending_requests) PROVE QueueEntry(k)'
    BY <1>4 DEF QueueInv
  <2>1. QueueEntry(k) /\ pending_requests[k].node \in Node /\ pending_requests[k].addr \in Addr
    BY <1>0, QueueTyped DEF QueueInv
  <2>2. ~Served(pending_requests[k].node, pending_requests[k].addr)'
    BY <2>1, <1>4, <1>7 DEF QueueEntry
  <2> QED
    BY <2>1, <2>2, <1>4 DEF QueueEntry
<1>13. ServedInv' /\ CopyInv' /\ WriteInv'
  BY <1>0, <1>1, <1>4, <1>7 DEF ServedInv, CopyInv, WriteInv
<1>14. ReadInv'
  BY <1>0, <1>1, <1>4, <1>7 DEF ReadInv
<1>15. WaitInv'
  BY <1>0, <1>4, <1>7 DEF WaitInv, Replied, Queued
<1>16. ReplyInv'
  BY <1>4 DEF ReplyInv
<1>17. CleanInv'
  <2> SUFFICES ASSUME mc_request' # NULL, data_reply' = NULL, request_in_progress, NEW q \in Node
               PROVE  state[q][mc_request'.addr] \notin Dirty
    BY <1>4 DEF CleanInv
  <2>1. CASE GetOnBus
    BY <2>1, <1>0, <1>1, <1>3, <1>5, <1>6 DEF CleanInv
  <2>2. CASE ~GetOnBus
    BY <2>2, <1>0, <1>3 DEF CleanInv
  <2> QED
    BY <2>1, <2>2
<1>18. GarbageInv'
  BY <1>0, <1>4 DEF GarbageInv, AbortsOnlyOnGarbage
<1> QED
  BY <1>8, <1>9, <1>10, <1>11, <1>12, <1>13, <1>14, <1>15, <1>16, <1>17, <1>18 DEF IInv

-----------------------------------------------------------------------------
(* Processor::tock, the clock, and the end of the loop. *)

\* Processor::tock and the exit test keep the invariant.
LEMMA TockIInv ==
    ASSUME IInv, Tock PROVE IInv'
<1>0. TypeOK /\ ControlInv /\ BusInv /\ AgreeInv /\ QueueInv /\ ServedInv /\ WaitInv
      /\ CopyInv /\ WriteInv /\ ReadInv /\ ReplyInv /\ CleanInv /\ GarbageInv
  BY DEF IInv
<1>1. /\ phase = "tock" /\ turn = 0 /\ phase' \in {"done", "bus"}
      /\ phase' = "done" => \A p \in Node : ~outstanding_request[p]
      /\ inbound_request' = [p \in Node |-> inbound_request[p] \/ inbound_request_buf[p]]
      /\ inbound_request_buf' = [p \in Node |-> FALSE]
      /\ mc_wait' = IF mc_wait > 0 THEN mc_wait - 1 ELSE 0
      /\ UNCHANGED <<protocol, turn, state, proc_request, outstanding_request, end_of_trace,
                     fetched, issued, current_request, pending_requests, data_reply,
                     request_in_progress, shared_line, mc_request, fatal>>
  BY DEF Tock, AllDone, At, caches, procs, bus
<1>2. /\ \A q \in Node : Snooped(q) /\ Snooped(q)' /\ Asked(q) /\ Asked(q)'
      /\ MemorySnooped /\ MemorySnooped'
      /\ (GetOnBus' <=> GetOnBus) /\ (DataOnBus' <=> DataOnBus)
      /\ \A q \in Node, b \in Addr : Served(q, b)' <=> Served(q, b)
  BY <1>1 DEF Snooped, MemorySnooped, GetOnBus, DataOnBus, Asked, Served, For
<1>3. \A q \in Node : Replied(q)' <=> Replied(q)
  BY <1>1 DEF Replied
<1>4. TypeOK'
  <2>1. mc_wait' \in 0 .. HitTime
    BY <1>0, <1>1, ConstantsAssumption DEF TypeOK
  <2>2. inbound_request' \in [Node -> BOOLEAN] /\ inbound_request_buf' \in [Node -> BOOLEAN]
    BY <1>1
  <2> QED
    BY <2>1, <2>2, <1>0, <1>1 DEF TypeOK, Phase
<1>5. ControlInv'
  BY <1>0, <1>1 DEF ControlInv
<1>6. BusInv' /\ AgreeInv'
  BY <1>0, <1>1, <1>2 DEF BusInv, AgreeInv
<1>7. QueueInv'
  <2> SUFFICES ASSUME NEW k \in 1 .. Len(pending_requests) PROVE QueueEntry(k)'
    BY <1>1 DEF QueueInv
  <2>1. QueueEntry(k) /\ pending_requests[k].node \in Node /\ pending_requests[k].addr \in Addr
    BY <1>0, QueueTyped DEF QueueInv
  <2>2. ~Served(pending_requests[k].node, pending_requests[k].addr)'
    BY <2>1, <1>1, <1>2 DEF QueueEntry
  <2> QED
    BY <2>1, <2>2, <1>1 DEF QueueEntry
<1>8. ServedInv' /\ CopyInv' /\ WriteInv'
  BY <1>0, <1>1, <1>2 DEF ServedInv, CopyInv, WriteInv
<1>9. ReadInv' /\ ReplyInv' /\ CleanInv'
  BY <1>0, <1>1, <1>2 DEF ReadInv, ReplyInv, CleanInv
<1>10. WaitInv'
  <2>1. \A q \in Node, b \in Addr : Queued(q, b)' <=> Queued(q, b)
    BY <1>1 DEF Queued
  <2>2. \A q \in Node : ~inbound_request_buf'[q]
    BY <1>1
  <2> QED
    BY <2>1, <2>2, <1>0, <1>1, <1>2, <1>3 DEF WaitInv
<1>11. GarbageInv'
  BY <1>0, <1>1 DEF GarbageInv, AbortsOnlyOnGarbage
<1> QED
  BY <1>4, <1>5, <1>6, <1>7, <1>8, <1>9, <1>10, <1>11 DEF IInv

-----------------------------------------------------------------------------
(* The invariant of the whole simulator. *)

\* The invariant speaks of the state only.
LEMMA StutterIInv ==
    ASSUME IInv, UNCHANGED vars PROVE IInv'
<1>1. UNCHANGED <<phase, turn, protocol, caches, latches, procs, bus, memory, fatal>>
  BY DEF vars, control
<1>2. \A q \in Node : Snooped(q)' <=> Snooped(q)
  BY <1>1 DEF Snooped
<1>3. \A q \in Node, a \in Addr : Served(q, a)' <=> Served(q, a)
  BY <1>1, <1>2 DEF Served, For, DataOnBus, bus, memory
<1> QED
  BY <1>1, <1>2, <1>3, ControlStep DEF AbortsOnlyOnGarbage, GarbageInv, MemorySnooped, IInv,
     TypeOK, ControlInv

\* Every step of the simulator keeps the invariant.
LEMMA NextIInv == IInv /\ [Next]_vars => IInv'
<1> SUFFICES ASSUME IInv, [Next]_vars PROVE IInv'
  OBVIOUS
<1>1. CASE BusTick
  BY <1>1, BusTickIInv
<1>2. ASSUME NEW p \in Node, CacheProc(p) PROVE IInv'
  BY <1>2, CacheProcIInv
<1>3. ASSUME NEW p \in Node, CacheSnoop(p) PROVE IInv'
  BY <1>3, CacheSnoopIInv
<1>4. ASSUME NEW p \in Node, PrTick(p) PROVE IInv'
  BY <1>4, PrTickIInv
<1>5. CASE McTick
  BY <1>5, McTickIInv
<1>6. CASE Tock
  BY <1>6, TockIInv
<1>7. CASE Terminated \/ UNCHANGED vars
  BY <1>7, StutterIInv DEF Terminated
<1> QED
  BY <1>1, <1>2, <1>3, <1>4, <1>5, <1>6, <1>7 DEF Next

\* The inductive invariant holds in every reachable state.
THEOREM Invariance == Spec => []IInv
  BY InitIInv, NextIInv, PTL DEF Spec

\* Every variable of the simulator keeps a value of its kind.
THEOREM TypeCorrectness == Spec => []TypeOK
<1>1. IInv => TypeOK
  BY DEF IInv
<1> QED
  BY <1>1, Invariance, PTL

\* Whatever the protocol and the traces, a node that may write a line is the only
\* one with a usable copy of it.
THEOREM SingleWriterTheorem == Spec => []SingleWriter
<1>1. IInv => SingleWriter
  BY DEF IInv, CopyInv, SingleWriter, Copy
<1> QED
  BY <1>1, Invariance, PTL

\* At most one cache answers for a line.
THEOREM OneSupplierTheorem == Spec => []OneSupplier
<1>1. IInv => OneSupplier
  BY DEF IInv, CopyInv, OneSupplier
<1> QED
  BY <1>1, Invariance, PTL

\* No assert and no fatal_error of protocols, bus, memory and caches is reachable,
\* except through the pointer that the cache's constructor leaves uninitialised.
THEOREM AbortTheorem == Spec => []AbortsOnlyOnGarbage
<1>1. IInv => AbortsOnlyOnGarbage
  BY DEF IInv, GarbageInv
<1> QED
  BY <1>1, Invariance, PTL

\* No request is lost between a processor, its cache, the queue, the bus and the memory.
THEOREM RequestTrackedTheorem == Spec => []RequestTracked
<1>1. ASSUME IInv PROVE RequestTracked
  <2>1. \A p \in Node, a \in Addr : Served(p, a) \/ Queued(p, a) => InFlight(p, a)
    BY DEF Served, Queued, InFlight, For
  <2> QED
    BY <2>1, <1>1 DEF IInv, WaitInv, RequestTracked, Replied
<1> QED
  BY <1>1, Invariance, PTL

\* When the simulator stops, nothing is in flight and every line is stable.
THEOREM DoneIsQuiescentTheorem == Spec => []DoneIsQuiescent
<1>1. ASSUME IInv PROVE DoneIsQuiescent
  <2> SUFFICES ASSUME phase = "done"
               PROVE  /\ \A p \in Node, a \in Addr : state[p][a] \in Stable
                      /\ pending_requests = <<>> /\ ~request_in_progress
                      /\ data_reply = NULL /\ mc_request = NULL
    BY DEF DoneIsQuiescent
  <2>0. TypeOK /\ ControlInv /\ BusInv /\ QueueInv /\ ServedInv /\ WaitInv
    BY <1>1 DEF IInv
  <2>1. \A p \in Node, a \in Addr : state[p][a] \notin Transient
    BY <2>0 DEF ControlInv, WaitInv
  <2>2. \A p \in Node, a \in Addr : state[p][a] \in Stable
    BY <2>0, <2>1 DEF TypeOK, LineState
  <2>3. \A k \in 1 .. Len(pending_requests) : FALSE
    BY <2>0, <2>1, QueueTyped DEF QueueInv, QueueEntry
  <2>4. pending_requests = <<>>
    <3>1. pending_requests \in Seq(Mreq) /\ Len(pending_requests) \in Nat
      BY <2>0 DEF TypeOK
    <3>2. Len(pending_requests) = 0
      BY <3>1, <2>3
    <3> QED
      BY <3>1, <3>2
  <2>5. \A p \in Node, a \in Addr : ~Served(p, a)
    BY <2>0, <2>1 DEF ServedInv
  <2>6. MemorySnooped
    BY DEF MemorySnooped
  <2>7. ~request_in_progress
    <3> SUFFICES ASSUME request_in_progress PROVE FALSE
      OBVIOUS
    <3>1. data_reply # NULL \/ mc_request # NULL
      BY <2>0, <2>6 DEF BusInv
    <3>2. /\ data_reply # NULL => data_reply.node \in Node /\ data_reply.addr \in Addr
          /\ mc_request # NULL => mc_request.node \in Node /\ mc_request.addr \in Addr
      BY <2>0 DEF TypeOK, Mreq
    <3> QED
      BY <3>1, <3>2, <2>5 DEF Served, For
  <2>8. data_reply = NULL /\ mc_request = NULL
    BY <2>0, <2>6, <2>7 DEF BusInv
  <2> QED
    BY <2>2, <2>4, <2>7, <2>8
<1> QED
  BY <1>1, Invariance, PTL

\* The memory answers only a request for a line that no cache holds modified.
THEOREM MemoryCleanTheorem == Spec => MemorySuppliesOnlyClean
<1> DEFINE Clean == phase = "mc" /\ data_reply = NULL /\ data_reply' # NULL
                    => \A p \in Node : state[p][data_reply'.addr] \notin Dirty
<1>1. ASSUME IInv, Next PROVE Clean
  <2> SUFFICES ASSUME phase = "mc", data_reply = NULL, data_reply' # NULL,
                      NEW p \in Node
               PROVE  state[p][data_reply'.addr] \notin Dirty
    OBVIOUS
  <2>1. McTick
    BY <1>1 DEF Next, BusTick, CacheProc, CacheSnoop, PrTick, Tock, Terminated, Ended, At,
                bus, vars
  <2>2. data_reply' = mc_request /\ mc_request # NULL /\ ~GetOnBus /\ ~DataOnBus
    BY <2>1 DEF McTick, Abort, bus, GetOnBus, DataOnBus
  <2>3. request_in_progress
    BY <1>1, <2>2 DEF IInv, BusInv
  <2> QED
    BY <1>1, <2>2, <2>3 DEF IInv, CleanInv
<1>2. ASSUME IInv, UNCHANGED vars PROVE Clean
  BY <1>2 DEF vars, bus
<1> QED
  BY <1>1, <1>2, Invariance, PTL DEF Spec, MemorySuppliesOnlyClean

-----------------------------------------------------------------------------
(* CoherenceSim implements SWMR: every step of the simulator is a step of the
   abstract memory system, or a stutter. *)

\* A line is asked for with GETS only for a load.
LoadInv == \A p \in Node, a \in Addr : state[p][a] = "IS" => issued[p].msg = "LOAD"

-----------------------------------------------------------------------------
(* The three kinds of abstract step, and the stutter. *)

\* Nothing happens as long as no line changes and no processor is released.
LEMMA MapsToStutter ==
    ASSUME state' = state, issued' = issued, \A p \in Node : Waits(p)' <=> Waits(p)
    PROVE  UNCHANGED Abstract!vars
<1>1. Permissions' = Permissions
  BY DEF Permissions
<1>2. Waiting' = Waiting
  BY DEF Waiting
<1> QED
  BY <1>1, <1>2 DEF Abstract!vars

\* One line changes.
LEMMA PermissionsChange ==
    ASSUME TypeOK, NEW p \in Node, NEW a \in Addr, NEW t \in LineState,
           state' = [state EXCEPT ![p][a] = t]
    PROVE  /\ Permissions' = [Permissions EXCEPT ![p][a] = Permission(t)]
           /\ \A q \in Node, b \in Addr : Permissions[q][b] = Permission(state[q][b])
<1>1. state \in [Node -> [Addr -> LineState]]
  BY DEF TypeOK
<1>2. \A q \in Node, b \in Addr :
          state'[q][b] = IF q = p /\ b = a THEN t ELSE state[q][b]
  BY <1>1
<1>3. Permissions' = [q \in Node |-> [b \in Addr |-> Permission(state'[q][b])]]
  BY DEF Permissions, Permission
<1>4. \A q \in Node : [b \in Addr |-> Permission(state'[q][b])]
          = IF q = p THEN [Permissions[p] EXCEPT ![a] = Permission(t)] ELSE Permissions[q]
  <2> SUFFICES ASSUME NEW q \in Node
               PROVE  [b \in Addr |-> Permission(state'[q][b])]
                      = IF q = p THEN [Permissions[p] EXCEPT ![a] = Permission(t)]
                        ELSE Permissions[q]
    OBVIOUS
  <2>1. Permissions[q] = [b \in Addr |-> Permission(state[q][b])]
    BY DEF Permissions
  <2>2. CASE q = p
    BY <1>2, <2>1, <2>2
  <2>3. CASE q # p
    BY <1>2, <2>1, <2>3
  <2> QED
    BY <2>2, <2>3
<1>5. [Permissions EXCEPT ![p][a] = Permission(t)]
      = [q \in Node |-> IF q = p THEN [Permissions[p] EXCEPT ![a] = Permission(t)]
                        ELSE Permissions[q]]
  <2>1. DOMAIN Permissions = Node
    BY DEF Permissions
  <2> HIDE DEF Permissions
  <2> QED
    BY <2>1
<1>6. Permissions' = [Permissions EXCEPT ![p][a] = Permission(t)]
  BY <1>3, <1>4, <1>5, Zenon
<1> QED
  BY <1>6 DEF Permissions

\* A node gives up what it may do with a line, or keeps it.
LEMMA MapsToYield ==
    ASSUME TypeOK, NEW p \in Node, NEW a \in Addr, NEW t \in LineState,
           state' = [state EXCEPT ![p][a] = t],
           issued' = issued, \A q \in Node : Waits(q)' <=> Waits(q),
           t \in Exclusive => state[p][a] \in Exclusive,
           t \in Readable => state[p][a] \in Readable
    PROVE  Abstract!Next \/ UNCHANGED Abstract!vars
<1>1. /\ Permissions' = [Permissions EXCEPT ![p][a] = Permission(t)]
      /\ \A q \in Node, b \in Addr : Permissions[q][b] = Permission(state[q][b])
  BY PermissionsChange
<1>2. Waiting' = Waiting
  BY DEF Waiting
<1>3. CASE Permission(t) = Permission(state[p][a])
  <2>1. \A q \in Node, b \in Addr : Permission(state'[q][b]) = Permission(state[q][b])
    BY <1>3 DEF TypeOK
  <2>2. Permissions' = Permissions
    BY <2>1 DEF Permissions, Permission
  <2> QED
    BY <2>2, <1>2 DEF Abstract!vars
<1>4. CASE Permission(t) # Permission(state[p][a])
  <2>1. Permission(t) \in Abstract!Permission /\ Abstract!Below(Permission(t), Permissions[p][a])
    BY <1>1, <1>4 DEF Permission, Abstract!Permission, Abstract!Below, Exclusive, Readable
  <2>2. Abstract!Yield(p)
    BY <2>1, <1>1, <1>2 DEF Abstract!Yield
  <2> QED
    BY <2>2 DEF Abstract!Next
<1> QED
  BY <1>3, <1>4

\* A processor is answered, with a permission the other nodes leave room for.
LEMMA MapsToPerform ==
    ASSUME TypeOK, CopyInv', NEW p \in Node, NEW a \in Addr, NEW t \in LineState,
           state' = [state EXCEPT ![p][a] = t],
           issued' = issued, issued[p] \in ProcReq, issued[p].addr = a,
           t \in Readable, issued[p].msg = "STORE" => t \in Exclusive,
           Waits(p), ~Waits(p)', \A q \in Node \ {p} : Waits(q)' <=> Waits(q)
    PROVE  Abstract!Next
<1>1. /\ Permissions' = [Permissions EXCEPT ![p][a] = Permission(t)]
      /\ \A q \in Node, b \in Addr : Permissions[q][b] = Permission(state[q][b])
  BY PermissionsChange
<1>2. Waiting' = [Waiting EXCEPT ![p] = NULL]
  BY DEF Waiting
<1>3. Waiting[p] = issued[p] /\ Waiting[p] # NULL
  BY ConstantsAssumption DEF Waiting
<1>4. /\ Permission(t) \in Abstract!Permission \ {"none"}
      /\ issued[p].msg = "STORE" => Permission(t) = "write"
  BY DEF Permission, Abstract!Permission, Exclusive, Readable
<1>5. state'[p][a] = t /\ \A q \in Node \ {p} : state'[q][a] = state[q][a]
  BY DEF TypeOK
<1>6. Abstract!Compatible(p, a, Permission(t))
  <2> SUFFICES ASSUME NEW q \in Node \ {p}
               PROVE  /\ Permission(t) = "write" => Permission(state[q][a]) = "none"
                      /\ Permission(t) = "read" => Permission(state[q][a]) # "write"
    BY <1>1 DEF Abstract!Compatible
  <2>1. /\ t \in Exclusive => state[q][a] \notin Copy
        /\ state[q][a] \in Exclusive => t \notin Copy
    BY <1>5 DEF CopyInv
  <2> QED
    BY <2>1 DEF Permission, Copy, Exclusive, Readable
<1>7. Abstract!Perform(p)
  BY <1>1, <1>2, <1>3, <1>4, <1>6 DEF Abstract!Perform
<1> QED
  BY <1>7 DEF Abstract!Next

-----------------------------------------------------------------------------
(* The steps of the caches. *)

\* What a cache does with its processor's request.
LEMMA CacheProcMaps ==
    ASSUME IInv, IInv', LoadInv, NEW p \in Node, CacheProc(p)
    PROVE  LoadInv' /\ (Abstract!Next \/ UNCHANGED Abstract!vars)
<1>0. TypeOK /\ CopyInv' /\ WaitInv /\ TypeOK'
  BY DEF IInv
<1>1. CASE proc_request[p] \notin ProcReq
  <2>1. UNCHANGED <<state, latches, procs>>
    <3>1. proc_request[p] = NULL \/ proc_request[p] = WILD
      BY <1>0, <1>1 DEF TypeOK
    <3> QED
      BY <3>1, ConstantsAssumption DEF CacheProc, Abort, caches
  <2>2. \A q \in Node : Waits(q)' <=> Waits(q)
    BY <2>1 DEF Waits, Replied, latches, procs
  <2>3. issued' = issued
    BY <2>1 DEF procs
  <2> QED
    BY <2>1, <2>2, <2>3, MapsToStutter DEF LoadInv
<1>2. CASE proc_request[p] \in ProcReq
  <2> DEFINE r   == proc_request[p]
             a   == r.addr
             s   == state[p][a]
             out == cache_request(s, r.msg)
             t   == out.state
  <2>1. a \in Addr /\ CacheAnswer(s, r.msg, out) /\ Perform(p, a, out, p) /\ t \in LineState
    BY <1>0, <1>2, CacheProcAnswers, ProtocolStates DEF TypeOK
  <2>2. issued[p] = r /\ Waits(p) /\ r.msg \in ProcMsg
    BY <1>0, <1>2 DEF WaitInv, Waits, ProcReq
  <2> HIDE DEF out, r
  <2>3. state' = [state EXCEPT ![p][a] = t] /\ issued' = issued
        /\ inbound_request_buf' = [inbound_request_buf EXCEPT ![p] =
              @ \/ "send_DATA_to_proc" \in out.calls]
        /\ UNCHANGED <<inbound_request, outstanding_request>>
    BY <2>1 DEF Perform, procs
  <2>4. \A q \in Node \ {p} : Waits(q)' <=> Waits(q)
    BY <1>0, <2>3 DEF Waits, Replied, TypeOK
  <2>5. CASE out.calls = {"send_DATA_to_proc"}
    <3>1. inbound_request_buf'[p]
      BY <1>0, <2>3, <2>5 DEF TypeOK
    <3>2. ~Waits(p)'
      BY <3>1 DEF Waits, Replied
    <3>3. t \in Readable /\ (r.msg = "STORE" => t \in Exclusive) /\ t # "IS"
      BY <2>1, <2>5 DEF CacheAnswer, Exclusive, Readable
    <3>4. LoadInv'
      BY <1>0, <2>1, <2>3, <3>3 DEF LoadInv, TypeOK
    <3>5. issued[p] \in ProcReq /\ issued[p].addr = a
      BY <1>2, <2>2 DEF r
    <3>6. Abstract!Next
      BY <1>0, <2>1, <2>2, <2>3, <2>4, <3>2, <3>3, <3>5, MapsToPerform
    <3> QED
      BY <3>4, <3>6
  <2>6. CASE out.calls # {"send_DATA_to_proc"}
    <3>1. /\ "send_DATA_to_proc" \notin out.calls
          /\ t \notin Readable /\ t \notin Exclusive
          /\ t = "IS" => r.msg = "LOAD"
      BY <2>1, <2>6 DEF CacheAnswer, Exclusive, Readable, WriteWait, Transient
    <3>2. \A q \in Node : Waits(q)' <=> Waits(q)
      BY <1>0, <2>3, <2>4, <3>1 DEF Waits, Replied, TypeOK
    <3>3. LoadInv'
      BY <1>0, <2>1, <2>2, <2>3, <3>1 DEF LoadInv, TypeOK
    <3>4. Abstract!Next \/ UNCHANGED Abstract!vars
      BY <1>0, <2>1, <2>3, <3>1, <3>2, MapsToYield
    <3> QED
      BY <3>3, <3>4
  <2> QED
    BY <2>5, <2>6
<1> QED
  BY <1>1, <1>2

\* A cache that snoops a request gives up its right to write, at least.
LEMMA CacheSnoopGetStep ==
    ASSUME IInv, NEW p \in Node, CacheSnoop(p), GetOnBus
    PROVE  \E a \in Addr, t \in LineState :
              /\ state' = [state EXCEPT ![p][a] = t]
              /\ UNCHANGED <<latches, procs>>
              /\ t \notin Exclusive /\ (t \in Readable => state[p][a] \in Readable)
              /\ t = "IS" <=> state[p][a] = "IS"
<1>0. TypeOK /\ ControlInv /\ BusInv /\ AgreeInv /\ QueueInv /\ ServedInv /\ WaitInv
      /\ CopyInv /\ WriteInv /\ ReadInv /\ ReplyInv /\ CleanInv /\ GarbageInv
  BY DEF IInv
<1> DEFINE r   == current_request
           a   == r.addr
           s   == state[p][a]
           out == snoop_request(s, r.msg, shared_line)
           t   == out.state
<1>1. /\ r # NULL /\ r \in Mreq /\ r.msg \in {"GETS", "GETM"} /\ r.node \in Node /\ a \in Addr
      /\ Snoops(p)
  BY <1>0 DEF GetOnBus, TypeOK, Mreq, BusMsg, Snoops
<1>2. t \in States(protocol) /\ GetAnswer(protocol, s, r.msg, out)
  <2>1. s \in States(protocol) /\ protocol \in Protocols /\ r.msg \in BusMsg
        /\ shared_line \in BOOLEAN
    BY <1>0, <1>1 DEF TypeOK, ControlInv, BusMsg
  <2>2. t \in States(protocol) /\ SnoopAnswer(protocol, s, r.msg, shared_line, out)
    BY <2>1, SnoopFacts
  <2> QED
    BY <2>2, <1>1 DEF SnoopAnswer
<1>3. phase = "cache_snoop" /\ ~Snooped(p)
  BY ConstantsAssumption DEF CacheSnoop, At, Snooped, Node
<1> HIDE DEF out
<1>4. ~Fails(p, out)
  BY <1>0, <1>1, <1>2, <1>3 DEF Fails, GetAnswer, ReplyLatchBusy, ReplyInv
<1>5. /\ At("cache_snoop", p) /\ NextNode(p, "cache_proc", "pr")
      /\ Perform(p, a, out, r.node) /\ proc_request' = proc_request
  BY <1>1, <1>4 DEF CacheSnoop, out
<1>6. UNCHANGED <<latches, procs>>
  BY <1>0, <1>2, <1>5 DEF Perform, GetAnswer, TypeOK, latches
<1>7. /\ t \in LineState /\ t \notin Exclusive
      /\ t = "IS" <=> s = "IS"
  BY <1>0, <1>2, ProtocolStates DEF GetAnswer, TypeOK
<1>8. s \in LineState
  BY <1>0, <1>1 DEF TypeOK
<1>9. t \in Readable => s \in Readable
  BY <1>2, <1>8 DEF GetAnswer, Copy, Readable, Supplier, Dirty, Transient, LineState, Stable
<1> QED
  BY <1>1, <1>5, <1>6, <1>7, <1>9 DEF Perform

\* A cache that gets its DATA answers its processor.
LEMMA CacheSnoopDataStep ==
    ASSUME IInv, LoadInv, NEW p \in Node, CacheSnoop(p), DataOnBus, current_request.node = p
    PROVE  \E a \in Addr, t \in LineState :
              /\ state' = [state EXCEPT ![p][a] = t]
              /\ inbound_request_buf' = [inbound_request_buf EXCEPT ![p] = TRUE]
              /\ UNCHANGED <<inbound_request, procs>>
              /\ issued[p] \in ProcReq /\ issued[p].addr = a /\ Waits(p)
              /\ t \in Readable /\ (issued[p].msg = "STORE" => t \in Exclusive)
<1>0. TypeOK /\ ControlInv /\ BusInv /\ AgreeInv /\ QueueInv /\ ServedInv /\ WaitInv
      /\ CopyInv /\ WriteInv /\ ReadInv /\ ReplyInv /\ CleanInv /\ GarbageInv
  BY DEF IInv
<1> DEFINE r   == current_request
           a   == r.addr
           s   == state[p][a]
           out == snoop_request(s, r.msg, shared_line)
           t   == out.state
<1>1. /\ r # NULL /\ r \in Mreq /\ r.msg = "DATA" /\ r.node = p /\ a \in Addr
      /\ Snoops(p) /\ ~GetOnBus
  BY <1>0 DEF DataOnBus, GetOnBus, TypeOK, Mreq, Snoops
<1>2. phase = "cache_snoop" /\ ~Snooped(p)
  BY ConstantsAssumption DEF CacheSnoop, At, Snooped, Node
<1>3. Served(p, a) /\ ~request_in_progress /\ data_reply = NULL
  BY <1>0, <1>1, <1>2 DEF Served, For, BusInv, DataOnBus
<1>4. /\ s \in Transient /\ proc_request[p] \notin ProcReq
      /\ outstanding_request[p] /\ ~inbound_request[p] /\ ~inbound_request_buf[p]
      /\ issued[p] # NULL /\ issued[p].addr = a
  BY <1>0, <1>1, <1>3 DEF ServedInv, WaitInv, Replied
<1>5. t \in States(protocol) /\ DataAnswer(protocol, s, shared_line, out)
  <2>1. s \in States(protocol) /\ protocol \in Protocols /\ r.msg \in BusMsg
        /\ shared_line \in BOOLEAN
    BY <1>0, <1>1 DEF TypeOK, ControlInv, BusMsg
  <2>2. t \in States(protocol) /\ SnoopAnswer(protocol, s, r.msg, shared_line, out)
    BY <2>1, SnoopFacts
  <2> QED
    BY <2>2, <1>1, <1>4 DEF SnoopAnswer
<1> HIDE DEF out
<1>6. ~Fails(p, out)
  BY <1>4, <1>5 DEF Fails, DataAnswer
<1>7. /\ At("cache_snoop", p) /\ NextNode(p, "cache_proc", "pr")
      /\ Perform(p, a, out, r.node) /\ proc_request' = proc_request
  BY <1>1, <1>6 DEF CacheSnoop, out
<1>8. /\ inbound_request_buf' = [inbound_request_buf EXCEPT ![p] = TRUE]
      /\ UNCHANGED <<inbound_request, procs>>
  BY <1>5, <1>7 DEF Perform, DataAnswer
<1>9. issued[p] \in ProcReq /\ issued[p].addr = a /\ Waits(p)
  BY <1>0, <1>4 DEF TypeOK, Waits, Replied
<1>10. t \in {"M", "S", "E"} /\ (s # "IS" => t = "M")
  BY <1>4, <1>5 DEF DataAnswer, WriteWait
<1>11. issued[p].msg = "STORE" => s # "IS"
  BY <1>1 DEF LoadInv
<1>12. /\ t \in LineState /\ t \in Readable
       /\ issued[p].msg = "STORE" => t \in Exclusive
  BY <1>10, <1>11 DEF LineState, Stable, Readable, Exclusive
<1> QED
  BY <1>1, <1>7, <1>8, <1>9, <1>12 DEF Perform

\* What a cache does with the message on the bus.
LEMMA CacheSnoopMaps ==
    ASSUME IInv, IInv', LoadInv, NEW p \in Node, CacheSnoop(p)
    PROVE  LoadInv' /\ (Abstract!Next \/ UNCHANGED Abstract!vars)
<1>0. TypeOK /\ CopyInv'
  BY DEF IInv
<1>1. CASE ~Snoops(p)
  <2>1. UNCHANGED <<state, latches, procs>>
    BY <1>1 DEF CacheSnoop, caches
  <2>2. \A q \in Node : Waits(q)' <=> Waits(q)
    BY <2>1 DEF Waits, Replied, latches, procs
  <2>3. issued' = issued
    BY <2>1 DEF procs
  <2> QED
    BY <2>1, <2>2, <2>3, MapsToStutter DEF LoadInv
<1>2. CASE GetOnBus
  <2>1. PICK a \in Addr, t \in LineState :
          /\ state' = [state EXCEPT ![p][a] = t]
          /\ UNCHANGED <<latches, procs>>
          /\ t \notin Exclusive /\ (t \in Readable => state[p][a] \in Readable)
          /\ t = "IS" <=> state[p][a] = "IS"
    BY <1>2, CacheSnoopGetStep
  <2>2. \A q \in Node : Waits(q)' <=> Waits(q)
    BY <2>1 DEF Waits, Replied, latches, procs
  <2>3. issued' = issued
    BY <2>1 DEF procs
  <2>4. LoadInv'
    BY <1>0, <2>1, <2>3 DEF LoadInv, TypeOK
  <2>5. Abstract!Next \/ UNCHANGED Abstract!vars
    BY <1>0, <2>1, <2>2, <2>3, MapsToYield
  <2> QED
    BY <2>4, <2>5
<1>3. CASE DataOnBus /\ current_request.node = p
  <2>1. PICK a \in Addr, t \in LineState :
          /\ state' = [state EXCEPT ![p][a] = t]
          /\ inbound_request_buf' = [inbound_request_buf EXCEPT ![p] = TRUE]
          /\ UNCHANGED <<inbound_request, procs>>
          /\ issued[p] \in ProcReq /\ issued[p].addr = a /\ Waits(p)
          /\ t \in Readable /\ (issued[p].msg = "STORE" => t \in Exclusive)
    BY <1>3, CacheSnoopDataStep
  <2>2. ~Waits(p)' /\ \A q \in Node \ {p} : Waits(q)' <=> Waits(q)
    BY <1>0, <2>1 DEF Waits, Replied, procs, TypeOK
  <2>3. issued' = issued /\ t # "IS"
    BY <2>1 DEF procs, Readable
  <2>4. LoadInv'
    BY <1>0, <2>1, <2>3 DEF LoadInv, TypeOK
  <2>5. Abstract!Next
    BY <1>0, <2>1, <2>2, <2>3, MapsToPerform
  <2> QED
    BY <2>4, <2>5
<1>4. ~Snoops(p) \/ GetOnBus \/ (DataOnBus /\ current_request.node = p)
  BY DEF Snoops, GetOnBus, DataOnBus
<1> QED
  BY <1>1, <1>2, <1>3, <1>4

-----------------------------------------------------------------------------
(* The steps of the processors, and of the rest. *)

\* A processor fetches the next operation only after the last one was answered.
LEMMA PrTickMaps ==
    ASSUME IInv, LoadInv, NEW p \in Node, PrTick(p)
    PROVE  LoadInv' /\ (Abstract!Next \/ UNCHANGED Abstract!vars)
<1>0. TypeOK /\ WaitInv
  BY DEF IInv
<1> DEFINE waits == outstanding_request[p] /\ ~inbound_request[p]
<1>1. /\ inbound_request' = [inbound_request EXCEPT ![p] = FALSE]
      /\ UNCHANGED <<state, inbound_request_buf>>
  BY DEF PrTick
<1>2. \/ /\ outstanding_request' = [outstanding_request EXCEPT ![p] = waits]
         /\ issued' = issued
      \/ /\ ~waits
         /\ outstanding_request' = [outstanding_request EXCEPT ![p] = FALSE]
         /\ issued' = issued
      \/ /\ ~waits
         /\ \E r \in ProcReq : issued' = [issued EXCEPT ![p] = r]
         /\ outstanding_request' = [outstanding_request EXCEPT ![p] = TRUE]
  BY DEF PrTick
<1>3. ~waits => ~Waits(p) /\ ~inbound_request_buf[p]
  BY <1>0 DEF WaitInv, Waits, Replied
<1>4. CASE issued' = issued /\ outstanding_request' = [outstanding_request EXCEPT ![p] = waits]
  <2>1. \A q \in Node : Waits(q)' <=> Waits(q)
    BY <1>0, <1>1, <1>4 DEF Waits, Replied, TypeOK
  <2> QED
    BY <1>1, <1>4, <2>1, MapsToStutter DEF LoadInv
<1>5. CASE ~waits /\ \E r \in ProcReq : issued' = [issued EXCEPT ![p] = r]
           /\ outstanding_request' = [outstanding_request EXCEPT ![p] = TRUE]
  <2>1. PICK r \in ProcReq : issued' = [issued EXCEPT ![p] = r]
    BY <1>5
  <2>2. Waits(p)' /\ \A q \in Node \ {p} : Waits(q)' <=> Waits(q)
    BY <1>0, <1>1, <1>3, <1>5 DEF Waits, Replied, TypeOK
  <2>3. \A a \in Addr : state[p][a] # "IS"
    BY <1>0, <1>3, <1>5 DEF WaitInv, Waits, Transient
  <2>4. LoadInv'
    BY <1>0, <1>1, <2>1, <2>3 DEF LoadInv, TypeOK
  <2>5. Waiting[p] = NULL /\ Waiting' = [Waiting EXCEPT ![p] = r]
    <3>1. ~Waits(p)
      BY <1>3, <1>5
    <3>2. issued'[p] = r /\ \A q \in Node \ {p} : issued'[q] = issued[q]
      BY <1>0, <2>1 DEF TypeOK
    <3> QED
      BY <2>2, <3>1, <3>2 DEF Waiting
  <2>6. Permissions' = Permissions
    BY <1>1 DEF Permissions
  <2>7. Abstract!Issue(p)
    BY <2>5, <2>6 DEF Abstract!Issue, Abstract!Op, ProcReq, ProcMsg
  <2> QED
    BY <2>4, <2>7 DEF Abstract!Next
<1> QED
  BY <1>2, <1>4, <1>5

\* The bus, the memory and the latches do not touch lines and operations.
LEMMA OtherMaps ==
    ASSUME LoadInv, TypeOK, BusTick \/ McTick \/ Tock \/ Terminated \/ UNCHANGED vars
    PROVE  LoadInv' /\ UNCHANGED Abstract!vars
<1>1. CASE BusTick \/ McTick \/ Terminated \/ UNCHANGED vars
  <2>1. UNCHANGED <<caches, latches, procs>>
    BY <1>1 DEF BusTick, McTick, Abort, Terminated, vars
  <2>2. \A q \in Node : Waits(q)' <=> Waits(q)
    BY <2>1 DEF Waits, Replied, latches, procs
  <2> QED
    BY <2>1, <2>2, MapsToStutter DEF LoadInv, caches, procs
<1>2. CASE Tock
  <2>1. /\ inbound_request' = [q \in Node |-> inbound_request[q] \/ inbound_request_buf[q]]
        /\ inbound_request_buf' = [q \in Node |-> FALSE]
        /\ UNCHANGED <<caches, procs>>
    BY <1>2 DEF Tock
  <2>2. \A q \in Node : Waits(q)' <=> Waits(q)
    BY <2>1 DEF Waits, Replied, procs
  <2> QED
    BY <2>1, <2>2, MapsToStutter DEF LoadInv, caches, procs
<1> QED
  BY <1>1, <1>2

-----------------------------------------------------------------------------
\* Every step of the simulator is one of the abstract system, or a stutter.
LEMMA StepMaps ==
    ASSUME IInv, IInv', LoadInv, [Next]_vars
    PROVE  LoadInv' /\ [Abstract!Next]_(Abstract!vars)
<1>1. ASSUME NEW p \in Node, CacheProc(p) \/ CacheSnoop(p) \/ PrTick(p)
      PROVE  LoadInv' /\ (Abstract!Next \/ UNCHANGED Abstract!vars)
  BY <1>1, CacheProcMaps, CacheSnoopMaps, PrTickMaps
<1>2. CASE BusTick \/ McTick \/ Tock \/ Terminated \/ UNCHANGED vars
  BY <1>2, OtherMaps DEF IInv
<1> QED
  BY <1>1, <1>2 DEF Next

\* The initial states of the simulator map to those of the abstract system, a
\* processor with an uninitialised flag included: it has fetched nothing yet.
LEMMA InitMaps == Init => LoadInv /\ Abstract!Init
<1> SUFFICES ASSUME Init PROVE LoadInv /\ Abstract!Init
  OBVIOUS
<1>1. \A p \in Node, a \in Addr : state[p][a] = "I"
  BY DEF Init
<1>2. Permissions = [p \in Node |-> [a \in Addr |-> "none"]]
  BY <1>1 DEF Permissions, Permission, Exclusive, Readable
<1>3. Waiting = [p \in Node |-> NULL]
  BY DEF Init, Waiting
<1> QED
  BY <1>1, <1>2, <1>3 DEF LoadInv, Abstract!Init

\* The simulator implements single writer or multiple readers: loads and stores
\* are answered with the permission they need, whatever the protocol.
THEOREM RefinementTheorem == Spec => ImplementsSWMR
<1>1. Init => LoadInv /\ Abstract!Init
  BY InitMaps
<1>2. IInv /\ IInv' /\ LoadInv /\ [Next]_vars => LoadInv' /\ [Abstract!Next]_(Abstract!vars)
  BY StepMaps
<1> QED
  BY <1>1, <1>2, Invariance, PTL DEF Spec, ImplementsSWMR, Abstract!Spec
=============================================================================
