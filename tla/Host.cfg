CONSTANTS
  r1 = r1
  r2 = r2
  r3 = r3
  Runs = {r1, r2}
  ConcurrencyLimits = {1, 2}
  MaxActions = 1
  Slots = 1
  Recording = {r1, r2}
  Timed = {r1}
  Faulty = {r1}
SPECIFICATION FairHostSpec
PROPERTIES OnlyPreparedStartsAfterStop StopResolves MarkedRunPasses NoRunStranded
CHECK_DEADLOCK FALSE
