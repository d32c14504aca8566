SPECIFICATION FairSpec
CONSTANTS
  proc1 = proc1
  proc2 = proc2
  client1 = client1
  client2 = client2
  Proc = {proc1, proc2}
  Client = {client1, client2}
  WaitsOn <- MCSleeper
  MaxCalls = 3
  MaxMessages = 2
CHECK_DEADLOCK FALSE
INVARIANTS TypeOK NoLostWakeup
PROPERTIES StoppedEnds
