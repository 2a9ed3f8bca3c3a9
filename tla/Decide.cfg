CONSTANTS
  root = root
  worker = worker
  Root = root
  Positions = {root, worker}
  Asks <- RootAndWorker
  OnlyResolved = {worker}
  MaxDecisions = 3
  MaxTurns <- TwoAndTwo
  MaxAttempts <- OneAndTwo
  MaxCrashes = 1
  MaxRevisions = 1
SPECIFICATION Spec
INVARIANTS SpentOnce HeardOnce
CHECK_DEADLOCK FALSE
