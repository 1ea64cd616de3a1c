-------------------------- MODULE MCModelScheduler --------------------------
(***************************************************************************)
(* Instances of ModelScheduler for TLC.                                    *)
(***************************************************************************)
EXTENDS ModelScheduler

\* Two projects with one request and one with two, so that one always has a backlog.
CONSTANTS a1, a2, b1, c1
MCProject == {"a", "b", "c"}
MCProjectOf(r) == IF r \in {a1, a2} THEN "a" ELSE IF r = b1 THEN "b" ELSE "c"
=============================================================================
