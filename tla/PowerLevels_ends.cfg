SPECIFICATION FairSpec
CONSTANTS
  Nodes = {router1}
  Infrastructural = {router1}
  Newcomers = {}
  Users = {}
  Minimizer = minimizer
  MaxLevel = 1
  InitialLevel = 0
  MaxIssueRetries = 2
  MaxAckRetries = 1
  UpdateVerb = "POST"
  MaxRequests = 0
  MaxRounds = 1
  MaxLeaves = 0
  MaxReadings = 0
  MaxEvents = 1
  router1 = router1
  minimizer = minimizer
INVARIANTS TypeOK
PROPERTIES MinimizationEnds
CHECK_DEADLOCK FALSE
