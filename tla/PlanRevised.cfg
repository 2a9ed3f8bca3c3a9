CONSTANTS
  Nodes <- RevisedNodes
  Drafts <- Revised
  Askers = {"a"}
  MaxActive = 3
  MaxInputs = 1
SPECIFICATION FairSpec
INVARIANT WorkIsOwned
PROPERTIES EdgesDeliver EndsAreReported
CHECK_DEADLOCK FALSE
