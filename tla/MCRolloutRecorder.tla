-------------------------- MODULE MCRolloutRecorder ---------------------------
(* Instance of RolloutRecorder for TLC; the bounds are in the cfg.         *)
EXTENDS RolloutRecorder
===============================================================================
