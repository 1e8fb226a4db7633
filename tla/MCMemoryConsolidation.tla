------------------------ MODULE MCMemoryConsolidation -------------------------
(* Instance of MemoryConsolidation for TLC; the bounds are in the cfg.     *)
EXTENDS MemoryConsolidation
===============================================================================
