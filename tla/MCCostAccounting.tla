-------------------------- MODULE MCCostAccounting --------------------------
(***************************************************************************)
(* Small instances of CostAccounting: four significant digits.             *)
(***************************************************************************)
EXTENDS CostAccounting

HalfTwoThree == {<<1, 2>>, <<2, 1>>, <<3, 1>>}
=============================================================================
