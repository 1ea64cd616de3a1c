----------------------------- MODULE MCRuntime -----------------------------
(***************************************************************************)
(* Instances of RuntimeClient for TLC.                                     *)
(***************************************************************************)
EXTENDS RuntimeClient, TLC

CONSTANTS a, b
MCSymmetry == Permutations(Call)
=============================================================================
