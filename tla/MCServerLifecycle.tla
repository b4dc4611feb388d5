------------------------- MODULE MCServerLifecycle -------------------------
(* ServerLifecycle for TLC: workers are interchangeable, connections too.  *)
EXTENDS ServerLifecycle, TLC

Symmetry == Permutations(Workers) \cup Permutations(Sessions)
=============================================================================
