---------------------------- MODULE MESI_protocol ---------------------------
(* comp_arch/coherence/src/protocols/MESI_protocol.cpp: MSI with a clean    *)
(* exclusive state, entered when no cache raised the shared line while the  *)
(* GETS was on the bus.  E is given up without sending the data: the memory *)
(* has it.  (The handlers for the state IE are never dispatched to.)        *)
EXTENDS Protocol

States == {"I", "S", "E", "M", "IS", "IM", "SM"}

do_cache_I(msg)  == OnCache(msg, "I", Goes("IS", {"send_GETS"}), Goes("IM", {"send_GETM"}))
do_cache_S(msg)  == OnCache(msg, "S", Goes("S", {"send_DATA_to_proc"}),
                                      Goes("SM", {"send_GETM"}))
do_cache_E(msg)  == OnCache(msg, "E", Goes("E", {"send_DATA_to_proc"}),
                                      Goes("M", {"send_DATA_to_proc"}))
do_cache_M(msg)  == OnCache(msg, "M", Goes("M", {"send_DATA_to_proc"}),
                                      Goes("M", {"send_DATA_to_proc"}))
do_cache_IS(msg) == OneOutstanding(msg, "IS")
do_cache_IM(msg) == OneOutstanding(msg, "IM")
do_cache_SM(msg) == OneOutstanding(msg, "SM")

do_snoop_I(msg)  == OnSnoop(msg, "I", Goes("I", {}), Goes("I", {}), Goes("I", {}))
\* Mutant: every sharer answers a read.
SharersAnswer(msg) == OnSnoop(msg, "S", Goes("S", {"set_shared_line", "send_DATA_on_bus"}),
                                        Goes("I", {}), Goes("S", {}))

do_snoop_S(msg)  == OnSnoop(msg, "S", Goes("S", {"set_shared_line"}), Goes("I", {}),
                                      Goes("S", {}))
\* Mutant: an exclusive line is not downgraded when another cache reads it.
StaysExclusive(msg) == OnSnoop(msg, "E", Goes("E", {"set_shared_line"}), Goes("I", {}),
                                         Goes("E", {}))

do_snoop_E(msg)  == OnSnoop(msg, "E", Goes("S", {"set_shared_line"}), Goes("I", {}),
                                      Goes("E", {}))
do_snoop_M(msg)  == OnSnoop(msg, "M", Goes("S", {"send_DATA_on_bus", "set_shared_line"}),
                                      Goes("I", {"send_DATA_on_bus"}), Goes("M", {}))
do_snoop_IS(msg, shared_line) ==
    OnSnoop(msg, "IS", Goes("IS", {}), Goes("IS", {}),
            Goes(IF shared_line THEN "S" ELSE "E", {"send_DATA_to_proc"}))
do_snoop_IM(msg) == OnSnoop(msg, "IM", Goes("IM", {}), Goes("IM", {}),
                                       Goes("M", {"send_DATA_to_proc"}))
do_snoop_SM(msg) == OnSnoop(msg, "SM", Goes("SM", {"set_shared_line"}), Goes("SM", {}),
                                       Goes("M", {"send_DATA_to_proc"}))

process_cache_request(s, msg) ==
    CASE s = "I"  -> do_cache_I(msg)
      [] s = "S"  -> do_cache_S(msg)
      [] s = "M"  -> do_cache_M(msg)
      [] s = "E"  -> do_cache_E(msg)
      [] s = "IM" -> do_cache_IM(msg)
      [] s = "IS" -> do_cache_IS(msg)
      [] s = "SM" -> do_cache_SM(msg)
      [] OTHER    -> Fatal(s)

process_snoop_request(s, msg, shared_line) ==
    CASE s = "I"  -> do_snoop_I(msg)
      [] s = "S"  -> do_snoop_S(msg)
      [] s = "M"  -> do_snoop_M(msg)
      [] s = "E"  -> do_snoop_E(msg)
      [] s = "IM" -> do_snoop_IM(msg)
      [] s = "IS" -> do_snoop_IS(msg, shared_line)
      [] s = "SM" -> do_snoop_SM(msg)
      [] OTHER    -> Fatal(s)
=============================================================================
