CONSTANTS
  p1 = p1
  p2 = p2
  r1 = r1
  d1 = d1
  d2 = d2
  op = op
  Publications = {p1, p2}
  Runs = {r1}
  RunOf <- TwoOfOneRun
  Operator = op
  Strategy <- ForwardOnly
  Checked = {p1}
  Drivers = {d1}
  MaxCommits = 2
  Faults = TRUE
  Losses = TRUE
SPECIFICATION FairSpec
INVARIANTS FailedMeansUntouched CheckedIsApplied
PROPERTIES KeepsPromise PublicationEnds
CHECK_DEADLOCK FALSE
