\* The chat room as abstract specification, its fairness included.
CONSTANTS
  Sessions = {c1, c2}
  Workers = {w1, w2}
  NoWorker = NoWorker
  NoSession = NoSession
  MAX_HISTORY_SIZE = 1
  MaxWrites = 2
SPECIFICATION FairSpec
INVARIANTS
  IInv
PROPERTIES
  ImplementsRoom
