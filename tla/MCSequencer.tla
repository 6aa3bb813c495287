---------------------------- MODULE MCSequencer ----------------------------
(***************************************************************************)
(* Sequencer on small instances.                                           *)
(***************************************************************************)
EXTENDS Sequencer

CONSTANTS a, b, c
=============================================================================
