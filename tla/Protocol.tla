------------------------------ MODULE Protocol ------------------------------
(***************************************************************************)
(* What the handlers of the coherence protocols have in common             *)
(* (comp_arch/coherence/src/protocols/protocol.cpp, messages.h).           *)
(*                                                                         *)
(* A handler do_cache_X or do_snoop_X reads the message and the state of   *)
(* one cache line and answers with the line's next state and the helper    *)
(* functions it calls.  Here it is an operator that returns that answer as *)
(* a record; the module CoherenceSim performs the calls named in it.       *)
(***************************************************************************)

\* Messages a processor sends its cache, and messages carried by the bus.
ProcMsg == {"LOAD", "STORE"}
BusMsg  == {"GETS", "GETM", "DATA"}

\* The helper functions of class Protocol that a handler may call.
\* fatal_error aborts the program.
Helper == {"send_GETM", "send_GETS", "send_DATA_on_bus", "send_DATA_to_proc",
           "set_shared_line", "fatal_error"}

\* The line states of all the protocols together.  In a stable state nothing
\* is asked for; in a transient one the line waits for a DATA message.
Stable    == {"I", "S", "E", "O", "M", "F"}
Transient == {"IS", "IM", "SM", "OM", "FM"}
LineState == Stable \cup Transient

Outcome == [state : LineState, calls : SUBSET Helper]

\* The handler leaves the line in state s after calling the helpers.
Goes(s, helpers) == [state |-> s, calls |-> helpers]
Fatal(s)         == Goes(s, {"fatal_error"})

\* The two switch statements: over a processor's message and over a snooped one.
OnCache(msg, s, load, store) ==
    IF msg = "LOAD" THEN load ELSE IF msg = "STORE" THEN store ELSE Fatal(s)

OnSnoop(msg, s, gets, getm, data) ==
    IF msg = "GETS" THEN gets ELSE IF msg = "GETM" THEN getm
    ELSE IF msg = "DATA" THEN data ELSE Fatal(s)

\* The line waits for its DATA already: another request from the processor is
\* the error "Should only have one outstanding request per processor!".
OneOutstanding(msg, s) == OnCache(msg, s, Fatal(s), Fatal(s))
=============================================================================
