SPECIFICATION StreamSpec

CONSTANTS
  ShardSizes <- FiveRecords
  BufferCap = 3
  Threads = {t1}
  NoRecord = NoRecord
  EmptyRecords = {}
  TarFaults = {}
  BatchSize = 2
  TotalSamples = 5
  StepLimit = 8
  Shuffle = FALSE

INVARIANTS
  EpochsReadTheirTotal
