SPECIFICATION FairSpec
CONSTANTS
  Gateways = {2, 3}
  Talking = {2}
  Half = 4
  Delimiter = 7
  RxType = 6
  Payloads <- MCPayloads
  Noise = {0, 7}
  MaxSent = 2
  MaxIssued = 1
  MaxDamage = 1
INVARIANTS TypeOK InOrder RelayedInOrder
PROPERTIES Received Relayed
