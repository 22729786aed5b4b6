--------------------------- MODULE MCCoherenceSim ---------------------------
(* Constants for model checking CoherenceSim. *)
EXTENDS CoherenceInv

AllProtocols == {"MI_PRO", "MSI_PRO", "MESI_PRO", "MOSI_PRO", "MOESIF_PRO"}
NoFields     == {}
BothFields   == {"outstanding_request", "proc_request"}
OneField     == {"outstanding_request"}
=============================================================================
