SPECIFICATION FairSpec
CONSTANTS
  gate1 = gate1
  gate2 = gate2
  client1 = client1
  client2 = client2
  Gateway = {gate1, gate2}
  Client = {client1}
  Sipro = {gate2}
  Id <- MCId
  Port <- MCPort
  MaxCalls = 5
CHECK_DEADLOCK FALSE
INVARIANTS TypeOK NoLeakedPort SingleThread
PROPERTIES ClosedWhileServing
