SPECIFICATION StreamFairSpec

CONSTANTS
  ShardSizes <- FiveRecords
  BufferCap = 3
  Threads = {t1, t2, t3}
  NoRecord = NoRecord
  EmptyRecords = {}
  TarFaults = {"archive", "item"}
  BatchSize = 2
  TotalSamples = 5
  StepLimit = 8
  Shuffle = TRUE

INVARIANTS
  TarStreamInv
  TarInv
  TarTypeOK
  Conservation
  EmptyOnlyAtEnd
  FullBufferNeverFails

PROPERTIES
  StreamEnds
  CallsReturn
