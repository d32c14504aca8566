SPECIFICATION FairSpec
CONSTANTS
  Nodes = {device1}
  Endpoints = {1, 2}
  UpdateVerb = "POST"
  Lossy = {"ENDPOINTS", "POWER"}
  MaxDescribed = 1
  MaxFaults = 2
  device1 = device1
INVARIANTS TypeOK DescriptorsFit
PROPERTIES NothingUndone NodesAcquired DescriptorsAcquired
CHECK_DEADLOCK FALSE
