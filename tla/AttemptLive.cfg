CONSTANTS
  r1 = r1
  i1 = i1
  i2 = i2
  Runs = {r1}
  Invocations = {i1, i2}
  RunOf <- InOneRun
  RootTurns = {i1, i2}
  CompletionWork = {i2}
  Writers = {i1}
  Timed = {}
  Resumable = {i1}
  MaxAttempts = 2
  Slots = 1
  WorktreeSlots = 1
  Waits = {}
  Reports = {"transient"}
  Spends <- AllWithin
  Faults = FALSE
SPECIFICATION LiveSpec
INVARIANT LeaseHeldWhileRunning
PROPERTIES CancellationConverges RequesterEnds AdmittedWorkEnds ResourcesReturned
CHECK_DEADLOCK FALSE
