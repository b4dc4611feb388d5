\* Three sessions, two workers, three requests, one more than the history holds.
CONSTANTS
  Sessions = {c1, c2, c3}
  Workers = {w1, w2}
  NoWorker = NoWorker
  NoSession = NoSession
  MAX_HISTORY_SIZE = 2
  MaxWrites = 3
SYMMETRY Symmetry
SPECIFICATION Spec
INVARIANTS
  LoopsHoldMutex
  HistoryIsLatest
  DeliveryIsExact
  SenderOrder
  RegisteredIffServed
  RequesterAnsweredOnce
PROPERTIES
  SilentAfterRemoval
