\* Two sessions, two workers, two requests; a history of one overflows.
CONSTANTS
  Sessions = {c1, c2}
  Workers = {w1, w2}
  NoWorker = NoWorker
  NoSession = NoSession
  MAX_HISTORY_SIZE = 1
  MaxWrites = 2
SPECIFICATION FairSpec
PROPERTIES
  GoneSessionsEnd
  RequestsAnswered
