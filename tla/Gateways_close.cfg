SPECIFICATION FairSpec
CONSTANTS
  gate1 = gate1
  gate2 = gate2
  client1 = client1
  client2 = client2
  Gateway = {gate1}
  Client = {client1}
  Sipro = {}
  Id <- MCId
  Port <- MCPort
  MaxCalls = 3
CHECK_DEADLOCK FALSE
PROPERTIES RemovedServerCloses
