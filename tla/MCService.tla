----------------------------- MODULE MCService -----------------------------
(***************************************************************************)
(* Service on a small instance.                                            *)
(***************************************************************************)
EXTENDS Service, TLC

CONSTANTS r1, r2
=============================================================================
