---------------------------- MODULE MCChatServer ----------------------------
(* ChatServer for TLC: worker threads are interchangeable, and so are the  *)
(* sessions where no property tells them apart.                            *)
EXTENDS ChatServerInv, TLC

Symmetry == Permutations(Workers) \cup Permutations(Sessions)
=============================================================================
