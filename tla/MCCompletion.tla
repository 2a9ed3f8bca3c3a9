---------------------------- MODULE MCCompletion ---------------------------
(* Completion for TLC: a leaf with a deterministic and an evaluated        *)
(* criterion, and one without criteria or with a check of its own.         *)
EXTENDS Completion, TLC

CONSTANTS login, export

\* Criterion 1 is a command, criterion 2 is judged.
OneLeafJudged == (1 :> login) @@ (2 :> login)

=============================================================================
