-------------------------- MODULE MCUniverseStore --------------------------
(* Small instances of UniverseStore.                                       *)
EXTENDS UniverseStore, TLC

CONSTANTS p1, p2

TwoProcesses == {p1, p2}
=============================================================================
