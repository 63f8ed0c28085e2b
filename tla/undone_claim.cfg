SPECIFICATION FairSpec

CONSTANTS
  NSlots = 2
  U64 = 1024
  PrefetchFactor = 1
  StepsPerEpoch = 3
  DataSteps = 3
  MaxSteps = 8
  ProducerFaults = {}
  UserActs = {}

PROPERTIES
  ProducerFinishes
