SPECIFICATION FairSpec
CONSTANTS
  Nodes = {router1, end1}
  Infrastructural = {router1}
  Newcomers = {end1}
  Users = {user1}
  Minimizer = minimizer
  MaxLevel = 1
  InitialLevel = 1
  MaxIssueRetries = 1
  MaxAckRetries = 1
  UpdateVerb = "POST"
  MaxRequests = 1
  MaxRounds = 0
  MaxLeaves = 1
  MaxReadings = 2
  MaxEvents = 2
  router1 = router1
  end1 = end1
  user1 = user1
  minimizer = minimizer
INVARIANTS LevelsInRange
PROPERTIES PowerSettles
CHECK_DEADLOCK FALSE
