------------------------------- MODULE RunRow -------------------------------
(***************************************************************************)
(* The Run row: its lifecycle status, the reason it waits and the pause    *)
(* the operator holds on it.  Everything that admits, interrupts or ends   *)
(* work reads these three fields (core/src/runs.ts); the store decides     *)
(* which writes of them are legal (server/src/persistence/stores/runs.ts). *)
(* The operators are pure: they map a row to a row or to a verdict.        *)
(***************************************************************************)

RunTerminal == {"completed", "failed", "cancelled"}
RunStatuses == RunTerminal \cup
               {"created", "running", "waiting", "verifying", "awaiting_signoff"}

\* The waits the scheduler records; "operator" is recorded by a pause only.
AutoWaitReasons == {"decision", "budget", "provider_capacity", "integration_conflict"}
PauseModes == {"soft", "hard"}

RunRows == [status : RunStatuses,
            wait   : AutoWaitReasons \cup {"operator", "none"},
            pause  : PauseModes \cup {"none"}]

NewRun == [status |-> "created", wait |-> "none", pause |-> "none"]

\* RUN_MACHINE: the legal edges.
RunEdges ==
  ({"created"} \X {"running", "cancelled"})
    \cup ({"running"} \X {"verifying", "waiting", "failed", "cancelled"})
    \cup ({"waiting"} \X {"running", "cancelled"})
    \cup ({"verifying"} \X {"awaiting_signoff", "running", "cancelled"})
    \cup ({"awaiting_signoff"} \X {"completed", "running", "cancelled"})

(***************************************************************************)
(* RunStore.transition.  A paused Run moves only to cancelled; leaving     *)
(* waiting names the reason it clears, which is never the operator's.      *)
(* Every transition clears the wait reason and the pause.                  *)
(***************************************************************************)
MayMove(row, to) ==
  /\ <<row.status, to>> \in RunEdges
  /\ row.pause = "none" \/ to = "cancelled"

MayClear(row, cleared) ==
  /\ MayMove(row, "running")
  /\ row.status = "waiting" => (cleared = row.wait /\ cleared # "operator")

Moved(row, to, reason) == [status |-> to, wait |-> reason, pause |-> "none"]

(***************************************************************************)
(* RunStore.pause.  A first pause parks a running or waiting Run on the    *)
(* operator; a repeated one never weakens the mode and moves nothing.      *)
(***************************************************************************)
MayPause(row) == row.status \notin RunTerminal \cup {"created"}

Paused(row, mode) ==
  LET parks == row.pause = "none" /\ row.status \in {"running", "waiting"}
      force == IF "hard" \in {mode, row.pause} THEN "hard" ELSE "soft"
  IN  [status |-> IF parks THEN "waiting" ELSE row.status,
       wait   |-> IF parks THEN "operator" ELSE row.wait,
       pause  |-> force]

\* RunStore.resume: the reason the pause superseded is not restored.
MayResume(row) == row.status \notin RunTerminal /\ row.pause # "none"

\* Mutant: resuming forgets to clear the wait reason.
ResumedKeepingReason(row) ==
  [status |-> IF row.status = "waiting" THEN "running" ELSE row.status,
   wait   |-> row.wait,
   pause  |-> "none"]

Resumed(row) ==
  [status |-> IF row.status = "waiting" THEN "running" ELSE row.status,
   wait   |-> IF row.status = "waiting" THEN "none" ELSE row.wait,
   pause  |-> "none"]

\* runAdmitsNewWork, runIsRunningOrDraining.
AdmitsNewWork(row) == row.status \notin RunTerminal /\ row.pause = "none"
RunningOrDraining(row) ==
  row.status = "running" \/ (row.status = "waiting" /\ row.pause = "soft")

\* runExecutionInterruptionOf: what the row imposes on an executing Attempt.
ImposedInterruption(row) ==
  IF row.status = "cancelled" THEN "cancelled"
  ELSE IF row.pause = "hard" THEN "operator_pause" ELSE "none"

\* The consistency of the three fields that every reader relies on.
RowConsistent(row) ==
  /\ row.wait # "none" <=> row.status = "waiting"
  /\ row.wait = "operator" <=> (row.status = "waiting" /\ row.pause # "none")
  /\ row.pause # "none" => row.status \in {"waiting", "verifying", "awaiting_signoff"}
=============================================================================
