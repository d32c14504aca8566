SPECIFICATION Spec
CONSTANTS
  Nodes = {router1}
  Infrastructural = {router1}
  Newcomers = {}
  Users = {user1}
  Minimizer = minimizer
  MaxLevel = 2
  InitialLevel = 2
  MaxIssueRetries = 1
  MaxAckRetries = 1
  UpdateVerb = "POST"
  MaxRequests = 2
  MaxRounds = 0
  MaxLeaves = 0
  MaxReadings = 0
  MaxEvents = 2
  router1 = router1
  user1 = user1
  minimizer = minimizer
INVARIANTS QuietAgrees
CHECK_DEADLOCK FALSE
