----------------------------- MODULE MCStorage -----------------------------
(***************************************************************************)
(* Storage on small instances: two keys, interchangeable for safety.       *)
(***************************************************************************)
EXTENDS Storage, TLC

CONSTANTS k1, k2

MCKey == {k1, k2}
MCSymmetry == Permutations(MCKey)
=============================================================================
