------------------------ MODULE MCExperimentRunner ------------------------
(* Small instances of ExperimentRunner for TLC. *)
EXTENDS ExperimentRunner
===========================================================================
