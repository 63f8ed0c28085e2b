SPECIFICATION Spec

CONSTANTS
  NSlots = 2
  U64 = 1024
  PrefetchFactor = 1
  StepsPerEpoch = 2
  DataSteps = 2
  MaxSteps = 8
  ProducerFaults = {}
  UserActs = {}

INVARIANTS
  ReadsOnlyPublished
