-------------------------- MODULE MCSequencedRunner --------------------------
(* Small instances of SequencedRunner for TLC.                              *)
EXTENDS SequencedRunner
=============================================================================
