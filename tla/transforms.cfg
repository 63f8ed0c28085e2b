SPECIFICATION TransSpec
CONSTANTS
  MaxOf <- Widths
  Held <- Magnitudes
  r1 = r1
  r2 = r2
  Rows <- TwoRows
  Columns <- OneColumn
  ElementTypes <- TensorTypes
  Elements <- TensorNumbers
  Operands <- UserScalars
  FirstSteps <- AllSteps
  LaterSteps <- FewSteps
  MaxSteps = 2
SYMMETRY RowSymmetry
INVARIANTS
  TransInv
  TransTypeOK
  RowsHoldWholeSteps
  FailsAsOnePiece
  BoundsNeverCross
  PromotionKeepsOperands
