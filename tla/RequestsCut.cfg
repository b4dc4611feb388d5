CONSTANTS
  MaxWrites = 5
  Size <- Sizes
  CREDENTIALS_SIZE = 4
  READ_SIZE = 3
SPECIFICATION FairSpec
INVARIANTS
  WholeInOrder
  NothingLostUnlessCut
  RequestInv
PROPERTIES
  EndNoticed
