\* Two users, two workers, three messages, one more than the history holds.
CONSTANTS
  Sessions = {c1, c2}
  Workers = {w1, w2}
  NoWorker = NoWorker
  NoSession = NoSession
  MAX_HISTORY_SIZE = 2
  MaxWrites = 3
SYMMETRY Symmetry
SPECIFICATION SystemSpec
INVARIANTS
  SystemInv
  UsersSeeOneRoom
PROPERTIES
  LoopsUndisturbed
