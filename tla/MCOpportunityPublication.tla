---------------------- MODULE MCOpportunityPublication ----------------------
(* Small instances of OpportunityPublication.                              *)
EXTENDS OpportunityPublication, TLC

CONSTANTS candidate, set

BothPointers == {candidate, set}
CandidatesThenSet == {<<candidate, candidate>>, <<candidate, candidate, set>>}
=============================================================================
