---------------------------- MODULE MCLoginFlow ----------------------------
(* LoginFlow for TLC: clients are interchangeable, programs are not.       *)
EXTENDS LoginFlow, TLC

Symmetry == Permutations(Clients)
=============================================================================
