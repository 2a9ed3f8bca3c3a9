CONSTANTS
  r1 = r1
  i1 = i1
  i2 = i2
  Runs = {r1}
  Invocations = {i1}
  RunOf <- InOneRun
  RootTurns = {i1}
  CompletionWork = {}
  Writers = {i1}
  Timed = {i1}
  Resumable = {i1}
  MaxAttempts = 2
  Slots = 1
  WorktreeSlots = 1
  Waits = {"decision"}
  Reports <- Reportable
  Spends <- UsageLevels
  Faults = TRUE
SPECIFICATION Spec
INVARIANTS RowsAgree NeverStuck WorktreeAccounted
PROPERTIES KeepsLifecycle ResultIsTheCompletedTurn
CHECK_DEADLOCK FALSE
