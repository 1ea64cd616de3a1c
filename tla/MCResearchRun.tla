---------------------------- MODULE MCResearchRun ----------------------------
(***************************************************************************)
(* ResearchRun on a small instance: two areas, one that is searched,       *)
(* read and checked and one that is judged and checked, with just enough   *)
(* calls when nothing fails.                                               *)
(***************************************************************************)
EXTENDS ResearchRun
TwoAreas == <<"north", "south">>
CallsMade == [north |-> <<"search", "read", "check">>, south |-> <<"verdict", "check">>]
OneAttempt == [k \in {"model", "search"} |-> IF k = "model" THEN 7 ELSE 2]
TwoAttempts == [k \in {"model", "search"} |-> IF k = "model" THEN 14 ELSE 4]
=============================================================================
