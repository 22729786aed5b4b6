--------------------------- MODULE MOESIF_protocol --------------------------
(* comp_arch/coherence/src/protocols/MOESIF_protocol.cpp: MOSI with a clean *)
(* exclusive state E, which becomes a clean forwarder F when another cache  *)
(* reads the line.  The owner or the forwarder answers every request.       *)
EXTENDS Protocol

States == {"I", "S", "E", "O", "M", "F", "IM", "IS", "SM", "OM", "FM"}

do_cache_F(msg)  == OnCache(msg, "F", Goes("F", {"send_DATA_to_proc"}),
                                      Goes("FM", {"send_GETM"}))
do_cache_I(msg)  == OnCache(msg, "I", Goes("IS", {"send_GETS"}), Goes("IM", {"send_GETM"}))
do_cache_S(msg)  == OnCache(msg, "S", Goes("S", {"send_DATA_to_proc"}),
                                      Goes("SM", {"send_GETM"}))
do_cache_E(msg)  == OnCache(msg, "E", Goes("E", {"send_DATA_to_proc"}),
                                      Goes("M", {"send_DATA_to_proc"}))
do_cache_O(msg)  == OnCache(msg, "O", Goes("O", {"send_DATA_to_proc"}),
                                      Goes("OM", {"send_GETM"}))
do_cache_M(msg)  == OnCache(msg, "M", Goes("M", {"send_DATA_to_proc"}),
                                      Goes("M", {"send_DATA_to_proc"}))
do_cache_IM(msg) == OneOutstanding(msg, "IM")
do_cache_SM(msg) == OneOutstanding(msg, "SM")
do_cache_IS(msg) == OneOutstanding(msg, "IS")
do_cache_OM(msg) == OneOutstanding(msg, "OM")
do_cache_FM(msg) == OneOutstanding(msg, "FM")

do_snoop_F(msg)  == OnSnoop(msg, "F", Goes("F", {"send_DATA_on_bus", "set_shared_line"}),
                                      Goes("I", {"send_DATA_on_bus"}), Goes("F", {}))
do_snoop_I(msg)  == OnSnoop(msg, "I", Goes("I", {}), Goes("I", {}), Goes("I", {}))
do_snoop_S(msg)  == OnSnoop(msg, "S", Goes("S", {"set_shared_line"}), Goes("I", {}),
                                      Goes("S", {}))
do_snoop_E(msg)  == OnSnoop(msg, "E", Goes("F", {"set_shared_line"}), Goes("I", {}),
                                      Goes("E", {}))
do_snoop_O(msg)  == OnSnoop(msg, "O", Goes("O", {"send_DATA_on_bus", "set_shared_line"}),
                                      Goes("I", {"send_DATA_on_bus"}), Goes("O", {}))
do_snoop_M(msg)  == OnSnoop(msg, "M", Goes("O", {"send_DATA_on_bus", "set_shared_line"}),
                                      Goes("I", {"send_DATA_on_bus"}), Goes("M", {}))
do_snoop_IM(msg) == OnSnoop(msg, "IM", Goes("IM", {}), Goes("IM", {}),
                                       Goes("M", {"send_DATA_to_proc"}))
do_snoop_IS(msg, shared_line) ==
    OnSnoop(msg, "IS", Goes("IS", {}), Goes("IS", {}),
            Goes(IF shared_line THEN "S" ELSE "E", {"send_DATA_to_proc"}))
do_snoop_OM(msg) == OnSnoop(msg, "OM", Goes("OM", {"set_shared_line", "send_DATA_on_bus"}),
                                       Goes("IM", {"send_DATA_on_bus"}),
                                       Goes("M", {"send_DATA_to_proc"}))
do_snoop_SM(msg) == OnSnoop(msg, "SM", Goes("SM", {"set_shared_line"}), Goes("SM", {}),
                                       Goes("M", {"send_DATA_to_proc"}))
\* Mutant: a forwarder that waits to write remains one when another node writes.
StaysForwarder(msg) ==
    OnSnoop(msg, "FM", Goes("FM", {"set_shared_line", "send_DATA_on_bus"}),
                       Goes("FM", {"set_shared_line", "send_DATA_on_bus"}),
                       Goes("M", {"send_DATA_to_proc"}))

do_snoop_FM(msg) == OnSnoop(msg, "FM", Goes("FM", {"set_shared_line", "send_DATA_on_bus"}),
                                       Goes("IM", {"set_shared_line", "send_DATA_on_bus"}),
                                       Goes("M", {"send_DATA_to_proc"}))

process_cache_request(s, msg) ==
    CASE s = "I"  -> do_cache_I(msg)
      [] s = "S"  -> do_cache_S(msg)
      [] s = "M"  -> do_cache_M(msg)
      [] s = "E"  -> do_cache_E(msg)
      [] s = "O"  -> do_cache_O(msg)
      [] s = "F"  -> do_cache_F(msg)
      [] s = "IM" -> do_cache_IM(msg)
      [] s = "IS" -> do_cache_IS(msg)
      [] s = "SM" -> do_cache_SM(msg)
      [] s = "OM" -> do_cache_OM(msg)
      [] s = "FM" -> do_cache_FM(msg)
      [] OTHER    -> Fatal(s)

process_snoop_request(s, msg, shared_line) ==
    CASE s = "I"  -> do_snoop_I(msg)
      [] s = "S"  -> do_snoop_S(msg)
      [] s = "M"  -> do_snoop_M(msg)
      [] s = "E"  -> do_snoop_E(msg)
      [] s = "O"  -> do_snoop_O(msg)
      [] s = "F"  -> do_snoop_F(msg)
      [] s = "IM" -> do_snoop_IM(msg)
      [] s = "IS" -> do_snoop_IS(msg, shared_line)
      [] s = "SM" -> do_snoop_SM(msg)
      [] s = "OM" -> do_snoop_OM(msg)
      [] s = "FM" -> do_snoop_FM(msg)
      [] OTHER    -> Fatal(s)
=============================================================================
