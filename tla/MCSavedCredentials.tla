------------------------- MODULE MCSavedCredentials -------------------------
(***************************************************************************)
(* Instances of SavedCredentials for TLC.                                  *)
(***************************************************************************)
EXTENDS SavedCredentials, TLC

CONSTANTS a, b, c
MCLeft == {Nothing, [f \in Field |-> Old]}
MCSymmetry == Permutations(Process)
=============================================================================
