CONSTANTS
  MaxTasks = 3
  MaxTurns = 3
  MaxWorkers = 2
  BatchSize = 2
  MaxDeps = 1
  WorkerEnds <- SomeWorkerEnds
  TurnEnds <- SomeTurnEnds
  MaxTroubles = 2
  Supersedes = TRUE
  Policy = "wait"
SPECIFICATION FairSpec
INVARIANTS AdviceActs SucceededMeansDone DependenciesFirst
PROPERTY NodeEnds
CHECK_DEADLOCK FALSE
