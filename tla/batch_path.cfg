SPECIFICATION BatchSpec
CONSTANTS
  Kinds = {"folder", "tar", "custom"}
  Alignment = 4
  SlotAlign = 4
  NSlots = 2
  DtypeCells <- MCDtypeCells
  NotOctal = NotOctal
  NotUtf8 = NotUtf8
  Datasets <- MCDatasets
  Batches <- MCBatches
  BatchSize = 2
  GivenSize = 60
  Threads = {1, 2}
  Threshold = 32
  MaxBatches = 3
INVARIANTS
  BatchInv
  ReadersSeeItems
  SoundItemsNeverFail
  MeasuredBatchesFit
PROPERTIES
  WritesStayInSlot
CHECK_DEADLOCK FALSE
