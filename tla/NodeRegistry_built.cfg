SPECIFICATION Spec
CONSTANTS
  GatewayId = {2, 3}
  Nuid = {1, 2, 3}
  Address = {0, 1}
  Devices <- MCDevices
  Registered <- MCRegistered
  SiproDevices <- MCSipro
  Profile <- MCProfile
  LastId = 1
  UpdateVerb = "PUT"
  MaxPackets = 3
  MaxRestarts = 0
INVARIANTS UniqueCoordinates UniqueId NoForgottenNode
PROPERTIES NoResurrection RowsLive
