SPECIFICATION FairSpec
CONSTANTS
  Lamps = {lamp1}
  Others = {other1}
  Locations = {room1}
  At <- MCAt
  Codes = {"STANDBY", "ALARM1"}
  Whites = {0, 100}
  Steps <- MCSteps
  MaxCodes = 1
  MaxMoves = 1
  MaxLevels = 1
  lamp1 = lamp1
  other1 = other1
  room1 = room1
INVARIANTS TypeOK OneAlarmer
PROPERTIES AlarmsSettle LampsSettle
CHECK_DEADLOCK FALSE
