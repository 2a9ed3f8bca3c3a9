CONSTANTS
  login = login
  export = export
  Leaves = {login, export}
  Checks = {1}
  Judged = {2}
  LeafOf <- OneLeafJudged
  MaxCycles = 2
  MaxReserve = 2
  MaxTurns = 2
  MaxRevisions = 1
  Calls = {accept}
SPECIFICATION FairSpec
INVARIANT OneStory
PROPERTIES AcceptedIsVerified VerificationEnds
CHECK_DEADLOCK FALSE
