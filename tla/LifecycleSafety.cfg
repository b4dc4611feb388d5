CONSTANTS
  Workers = {w1, w2, w3}
  Sessions = {c1, c2, c3}
  NoSession = NoSession
  MAX_HISTORY_SIZE = 2
  MaxStarts = 3
SYMMETRY Symmetry
SPECIFICATION Spec
INVARIANTS
  StopIsFinal
  NobodyForgotten
  LifecycleInv
PROPERTIES
  WaitCycleDecided
