---------------------------- MODULE MI_protocol -----------------------------
(* comp_arch/coherence/src/protocols/MI_protocol.cpp: a line is either      *)
(* modified here or absent; loads and stores alike ask for it with GETM.    *)
EXTENDS Protocol

States == {"I", "IM", "M"}

do_cache_I(msg)  == OnCache(msg, "I", Goes("IM", {"send_GETM"}), Goes("IM", {"send_GETM"}))
do_cache_IM(msg) == OneOutstanding(msg, "IM")
do_cache_M(msg)  == OnCache(msg, "M", Goes("M", {"send_DATA_to_proc"}),
                                      Goes("M", {"send_DATA_to_proc"}))

do_snoop_I(msg)  == OnSnoop(msg, "I", Goes("I", {}), Goes("I", {}), Goes("I", {}))
do_snoop_IM(msg) == OnSnoop(msg, "IM", Goes("IM", {}), Goes("IM", {}),
                                       Goes("M", {"send_DATA_to_proc"}))
do_snoop_M(msg)  ==
    LET giveUp == Goes("I", {"set_shared_line", "send_DATA_on_bus"})
    IN  OnSnoop(msg, "M", giveUp, giveUp, Fatal("M"))

process_cache_request(s, msg) ==
    CASE s = "I"  -> do_cache_I(msg)
      [] s = "IM" -> do_cache_IM(msg)
      [] s = "M"  -> do_cache_M(msg)
      [] OTHER    -> Fatal(s)

process_snoop_request(s, msg) ==
    CASE s = "I"  -> do_snoop_I(msg)
      [] s = "IM" -> do_snoop_IM(msg)
      [] s = "M"  -> do_snoop_M(msg)
      [] OTHER    -> Fatal(s)
=============================================================================
