CONSTANTS
  MaxSends = 4
  Size <- FourSizes
  WholeWrites = FALSE
SPECIFICATION Spec
INVARIANTS
  StreamInv
  DeliveredCompletely
  MisreadOnlyAfterOverlap
