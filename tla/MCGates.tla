------------------------------ MODULE MCGates ------------------------------
(* Two gated nodes, the first with an Evaluator, for TLC.                  *)
EXTENDS GateProperties
AllChangesets == 1..NodeCount + MaxTurns
=============================================================================
