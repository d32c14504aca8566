SPECIFICATION FairSpec
CONSTANTS
  Nodes = {coordinator, router1}
  Lists = {0, 1}
  None = 0
  Registered <- MCRegistered
  LastId = 2
  Hears <- MCHears
  Byte = 3
  UpdateVerb = "POST"
  MaxPending = 1
  MaxChanges = 1
  MaxFaults = 1
  coordinator = coordinator
  router1 = router1
INVARIANTS TypeOK OwnNeighbours RegistrationLives
PROPERTIES NeighboursSettle
