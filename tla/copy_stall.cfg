SPECIFICATION FairSpec

CONSTANTS
  NSlots = 3
  U64 = 1024
  PrefetchFactor = 1
  StepsPerEpoch = 3
  DataSteps = 3
  MaxSteps = 8
  ProducerFaults = {}
  UserActs = {"copy"}

PROPERTIES
  EveryBatchReleased
