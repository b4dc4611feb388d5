CONSTANTS
  Workers = {w1, w2}
  Sessions = {c1, c2}
  NoSession = NoSession
  MAX_HISTORY_SIZE = 1
  MaxStarts = 2
SPECIFICATION FairSpec
PROPERTIES
  StopReturns
  CallsAnswered
