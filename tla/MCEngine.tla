------------------------------ MODULE MCEngine ------------------------------
(***************************************************************************)
(* Engine on small instances.                                              *)
(***************************************************************************)
EXTENDS Engine, TLC

CONSTANTS c1, c2, person

MCSymmetry == Permutations(Client)
=============================================================================
