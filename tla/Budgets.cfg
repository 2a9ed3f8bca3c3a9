CONSTANTS
  root = root
  final = final
  a = a
  b = b
  Root = root
  Final = final
  Nodes = {a, b}
  Items <- SomeItems
  Policy <- EachPolicy
  Grant <- SomeGrant
  Need <- SomeNeed
  Base = 5
  Reserve = 2
  PerCycle = 2
  Drafts <- AddAndRemove
  Increase = 1
  MaxIncreases = 1
  MaxSpent = 3
  MaxUse <- SomeOverrun
SPECIFICATION BudgetSpec
PROPERTIES FundingFits UsageReachesRun
CHECK_DEADLOCK FALSE
