CONSTANTS
  c1 = c1
  c2 = c2
  none = none
  Connections = {c1, c2}
  NoConnection = none
  PageSize = 2
  Buffer = 3
  MaxLog = 3
  MaxCuts = 2
SPECIFICATION FairSpec
INVARIANT ReleasedTogether
PROPERTY FeedKept
CHECK_DEADLOCK FALSE
