-------------------------- MODULE MCReconciliation --------------------------
(***************************************************************************)
(* The instances of the store with the reconciliation gate beside them.    *)
(***************************************************************************)
EXTENDS MCPaperStore, Reconciliation
=============================================================================
