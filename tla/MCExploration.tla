---------------------------- MODULE MCExploration ----------------------------
(* A small project for OpportunityExploration.                              *)
EXTENDS OpportunityExploration

Gap(early, search) == [early |-> early, search |-> search]
MCOffers == {<<>>, <<Gap(FALSE, FALSE)>>, <<Gap(FALSE, TRUE), Gap(FALSE, FALSE)>>}
MCSaved == {1}
=============================================================================
