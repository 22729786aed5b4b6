---------------------------- MODULE MOSI_protocol ---------------------------
(* comp_arch/coherence/src/protocols/MOSI_protocol.cpp: MSI with an owner   *)
(* that keeps answering for a modified line after others have read it.  An  *)
(* owner that stores asks with GETM and, snooping its own GETM, sends the   *)
(* DATA to itself and waits for it in IM.                                   *)
EXTENDS Protocol

States == {"I", "S", "O", "M", "IS", "IM", "SM", "OM"}

do_cache_I(msg)  == OnCache(msg, "I", Goes("IS", {"send_GETS"}), Goes("IM", {"send_GETM"}))
do_cache_S(msg)  == OnCache(msg, "S", Goes("S", {"send_DATA_to_proc"}),
                                      Goes("SM", {"send_GETM"}))
do_cache_O(msg)  == OnCache(msg, "O", Goes("O", {"send_DATA_to_proc"}),
                                      Goes("OM", {"send_GETM"}))
do_cache_M(msg)  == OnCache(msg, "M", Goes("M", {"send_DATA_to_proc"}),
                                      Goes("M", {"send_DATA_to_proc"}))
do_cache_IM(msg) == OneOutstanding(msg, "IM")
do_cache_SM(msg) == OneOutstanding(msg, "SM")
do_cache_IS(msg) == OneOutstanding(msg, "IS")
do_cache_OM(msg) == OneOutstanding(msg, "OM")

do_snoop_I(msg)  == OnSnoop(msg, "I", Goes("I", {}), Goes("I", {}), Goes("I", {}))
do_snoop_S(msg)  == OnSnoop(msg, "S", Goes("S", {}), Goes("I", {}), Goes("S", {}))
\* Mutant: an owner leaves a read to the memory.
SilentOwner(msg) == OnSnoop(msg, "O", Goes("O", {}), Goes("I", {"send_DATA_on_bus"}),
                                      Goes("O", {}))

do_snoop_O(msg)  == OnSnoop(msg, "O", Goes("O", {"send_DATA_on_bus"}),
                                      Goes("I", {"send_DATA_on_bus"}), Goes("O", {}))
do_snoop_M(msg)  == OnSnoop(msg, "M", Goes("O", {"send_DATA_on_bus"}),
                                      Goes("I", {"send_DATA_on_bus"}), Goes("M", {}))
do_snoop_IM(msg) == OnSnoop(msg, "IM", Goes("IM", {}), Goes("IM", {}),
                                       Goes("M", {"send_DATA_to_proc"}))
do_snoop_IS(msg) == OnSnoop(msg, "IS", Goes("IS", {}), Goes("IS", {}),
                                       Goes("S", {"send_DATA_to_proc"}))
\* Mutant: an owner that waits to write does not give up ownership.
StaysOwner(msg) == OnSnoop(msg, "OM", Goes("OM", {"send_DATA_on_bus"}),
                                      Goes("OM", {"send_DATA_on_bus"}),
                                      Goes("M", {"send_DATA_to_proc"}))

do_snoop_OM(msg) == OnSnoop(msg, "OM", Goes("OM", {"send_DATA_on_bus"}),
                                       Goes("IM", {"send_DATA_on_bus"}),
                                       Goes("M", {"send_DATA_to_proc"}))
do_snoop_SM(msg) == OnSnoop(msg, "SM", Goes("SM", {}), Goes("SM", {}),
                                       Goes("M", {"send_DATA_to_proc"}))

process_cache_request(s, msg) ==
    CASE s = "I"  -> do_cache_I(msg)
      [] s = "S"  -> do_cache_S(msg)
      [] s = "O"  -> do_cache_O(msg)
      [] s = "M"  -> do_cache_M(msg)
      [] s = "IM" -> do_cache_IM(msg)
      [] s = "IS" -> do_cache_IS(msg)
      [] s = "SM" -> do_cache_SM(msg)
      [] s = "OM" -> do_cache_OM(msg)
      [] OTHER    -> Fatal(s)

process_snoop_request(s, msg) ==
    CASE s = "I"  -> do_snoop_I(msg)
      [] s = "S"  -> do_snoop_S(msg)
      [] s = "O"  -> do_snoop_O(msg)
      [] s = "M"  -> do_snoop_M(msg)
      [] s = "IM" -> do_snoop_IM(msg)
      [] s = "IS" -> do_snoop_IS(msg)
      [] s = "SM" -> do_snoop_SM(msg)
      [] s = "OM" -> do_snoop_OM(msg)
      [] OTHER    -> Fatal(s)
=============================================================================
