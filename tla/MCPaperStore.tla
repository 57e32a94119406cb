---------------------------- MODULE MCPaperStore ----------------------------
(***************************************************************************)
(* Small instances of PaperStore.                                          *)
(***************************************************************************)
EXTENDS PaperStore, TLC

OneRun == {"research-001"}
TwoRuns == {"research-001", "research-002"}
Alone == {"a"}
Pair == {"a", "b"}
Rivals == {"a", "c"}

SameRun == [p \in Processes |-> "research-001"]
RunOfRivals == [p \in Processes |-> IF p = "c" THEN "research-002" ELSE "research-001"]

(* Processes that neither crash nor meet a damaged row.                    *)
FaultFreeNext == (\E p \in Processes : Work(p)) \/ Finished
FaultFreeSpec == Init /\ [][FaultFreeNext]_vars
=============================================================================
