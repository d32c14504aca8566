SPECIFICATION FairSpec
CONSTANTS
  GatewayId = {2}
  Nuid = {1, 2}
  Address = {0, 1}
  Devices <- MCDevices
  Registered <- MCRegistered
  SiproDevices <- MCNoSipro
  Profile <- MCProfile
  LastId = 1
  UpdateVerb = "POST"
  MaxPackets = 2
  MaxRestarts = 1
INVARIANTS TypeOK
PROPERTIES DescriptionKept SilentNodesLeave JobsFollowNodes
