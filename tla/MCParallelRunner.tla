-------------------------- MODULE MCParallelRunner --------------------------
(* Small instances of ParallelRunner for TLC.                               *)
EXTENDS ParallelRunner
=============================================================================
