----------------------------- MODULE MCWorkers ------------------------------
(* What agents return, for TLC.                                            *)
EXTENDS WorkersProperties

End(result, report, names, changes) ==
  [result |-> result, report |-> report, names |-> names, changes |-> changes]

\* A completed result reports the Task; another may report it as well.
SomeWorkerEnds ==
  {End("completed", "completed", FALSE, "pending"),
   End("failed", "none", FALSE, "none"), End("failed", "completed", FALSE, "none"),
   End("blocked", "none", TRUE, "none"), End("blocked", "blocked", FALSE, "none")}
SomeTurnEnds ==
  {End("completed", "none", FALSE, "none"), End("completed", "none", FALSE, "pending"),
   End("failed", "none", FALSE, "none"), End("blocked", "none", TRUE, "none")}
=============================================================================
