-------------------------- MODULE MCResearchLedger --------------------------
(* Small instances of ResearchLedger.                                      *)
EXTENDS ResearchLedger, TLC

CONSTANTS p1, p2, r1, r2

TwoProcesses == {p1, p2}
TwoRequests == {r1, r2}
OneOfEach == r1 :> "prospective" @@ r2 :> "replay"
=============================================================================
