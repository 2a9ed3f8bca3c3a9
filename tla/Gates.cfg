CONSTANTS
  NodeCount = 2
  Evaluated = {1}
  MaxGates = 2
  MaxTurns = 2
  MaxTroubles = 2
  Changesets <- AllChangesets
SPECIFICATION FairSpec
INVARIANTS JudgesTheWork TasksAreHeld
PROPERTIES SnapshotGrows GatedNodesEnd
CHECK_DEADLOCK FALSE
