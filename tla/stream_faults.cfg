SPECIFICATION FairSpec
CONSTANTS
  NSlots = 2
  U64 = 1024
  PrefetchFactor = 2
  StepsPerEpoch = 3
  DataSteps = 2
  MaxSteps = 7
  ProducerFaults = {"dataset", "sigint", "kill"}
  UserActs = {"copy", "break", "close", "kill"}
INVARIANTS
  Inv
  TypeOK
  PublishedIntact
  WritesOwnBatch
  HeadersAtMostOneLapOld
  QueueHasRoom
  FirstLapGated
  ReleasesMatchTail
PROPERTIES
  ProducerDeathSeen
  ProducerDeathRaised
  ConsumerDeathSeen
  LookaheadStream
  HangsOnlyOnOverrun
  ReleasedUnlessCopied
