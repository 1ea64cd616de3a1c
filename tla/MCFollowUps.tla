---------------------------- MODULE MCFollowUps ----------------------------
(***************************************************************************)
(* ProjectFollowUps on a small instance.                                   *)
(***************************************************************************)
EXTENDS ProjectFollowUps
OneFinding == {-1}
\* A second session comes in the process of the first.
InOneProcess == Len(session) = 2 => world.crashes = 0
=============================================================================
