-------------------------- MODULE MCClientToServer --------------------------
(* ClientToServer for TLC: credentials, a short message, one that fills    *)
(* the server's buffer, and one that is longer.                            *)
EXTENDS ClientToServer

Sizes == <<2, 1, 3, 4, 2>>
=============================================================================
