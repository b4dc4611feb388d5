CONSTANTS
  MaxSends = 4
  Size <- FourSizes
  WholeWrites = TRUE
SPECIFICATION FairSpec
PROPERTIES
  ImplementsChannel
