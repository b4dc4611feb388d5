---------------------------- MODULE MCChatSystem ----------------------------
(* ChatSystem for TLC: workers and users are interchangeable. *)
EXTENDS ChatSystem, TLC

Symmetry == Permutations(Workers) \cup Permutations(Sessions)
=============================================================================
