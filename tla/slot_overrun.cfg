SPECIFICATION BatchSpec
CONSTANTS
  Kinds = {"probed"}
  Alignment = 4
  SlotAlign = 4
  NSlots = 2
  DtypeCells <- MCDtypeCells
  NotOctal = NotOctal
  NotUtf8 = NotUtf8
  Datasets <- MCDatasets
  Batches <- MCBatches
  BatchSize = 2
  GivenSize = 60
  Threads = {1, 2}
  Threshold = 32
  MaxBatches = 3
PROPERTIES
  WritesStayInSlot
CHECK_DEADLOCK FALSE
