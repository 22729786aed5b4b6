---------------------------- MODULE MSI_protocol ----------------------------
(* comp_arch/coherence/src/protocols/MSI_protocol.cpp: MI with a read-only  *)
(* shared state.  A line in S or M must never be sent DATA.                 *)
EXTENDS Protocol

States == {"I", "S", "M", "IS", "IM", "SM"}

do_cache_I(msg)  == OnCache(msg, "I", Goes("IS", {"send_GETS"}), Goes("IM", {"send_GETM"}))
do_cache_S(msg)  == OnCache(msg, "S", Goes("S", {"send_DATA_to_proc"}),
                                      Goes("SM", {"send_GETM"}))
do_cache_M(msg)  == OnCache(msg, "M", Goes("M", {"send_DATA_to_proc"}),
                                      Goes("M", {"send_DATA_to_proc"}))
do_cache_IM(msg) == OneOutstanding(msg, "IM")
do_cache_IS(msg) == OneOutstanding(msg, "IS")
do_cache_SM(msg) == OneOutstanding(msg, "SM")

do_snoop_I(msg)  == OnSnoop(msg, "I", Goes("I", {}), Goes("I", {}), Goes("I", {}))
do_snoop_S(msg)  == OnSnoop(msg, "S", Goes("S", {}), Goes("I", {}), Fatal("S"))
do_snoop_M(msg)  == OnSnoop(msg, "M", Goes("S", {"send_DATA_on_bus"}),
                                      Goes("I", {"send_DATA_on_bus"}), Fatal("M"))
do_snoop_IM(msg) == OnSnoop(msg, "IM", Goes("IM", {}), Goes("IM", {}),
                                       Goes("M", {"send_DATA_to_proc"}))
\* Mutant: the line is filled but the processor is not told.
FillsOnly(msg) == OnSnoop(msg, "IS", Goes("IS", {}), Goes("IS", {}), Goes("S", {}))

do_snoop_IS(msg) == OnSnoop(msg, "IS", Goes("IS", {}), Goes("IS", {}),
                                       Goes("S", {"send_DATA_to_proc"}))
do_snoop_SM(msg) == OnSnoop(msg, "SM", Goes("SM", {}), Goes("SM", {}),
                                       Goes("M", {"send_DATA_to_proc"}))

process_cache_request(s, msg) ==
    CASE s = "I"  -> do_cache_I(msg)
      [] s = "S"  -> do_cache_S(msg)
      [] s = "M"  -> do_cache_M(msg)
      [] s = "IM" -> do_cache_IM(msg)
      [] s = "IS" -> do_cache_IS(msg)
      [] s = "SM" -> do_cache_SM(msg)
      [] OTHER    -> Fatal(s)

process_snoop_request(s, msg) ==
    CASE s = "I"  -> do_snoop_I(msg)
      [] s = "S"  -> do_snoop_S(msg)
      [] s = "M"  -> do_snoop_M(msg)
      [] s = "IM" -> do_snoop_IM(msg)
      [] s = "IS" -> do_snoop_IS(msg)
      [] s = "SM" -> do_snoop_SM(msg)
      [] OTHER    -> Fatal(s)
=============================================================================
