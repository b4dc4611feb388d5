-------------------------- MODULE MCServerToClient --------------------------
(* ServerToClient for TLC: a short message, a long one, one in between.    *)
EXTENDS ServerToClient

Sizes == <<2, 3, 1>>
FourSizes == <<2, 3, 1, 2>>
=============================================================================
