----------------------------- MODULE MCSnapshot -----------------------------
(***************************************************************************)
(* Snapshot on small instances: a few readers, interchangeable for safety. *)
(***************************************************************************)
EXTENDS Snapshot, TLC

CONSTANTS r1, r2, r3

MCSymmetry == Permutations(Reader)
=============================================================================
