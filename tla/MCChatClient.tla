---------------------------- MODULE MCChatClient ----------------------------
(* ChatClient for TLC: its constants are numbers, given in the .cfg.       *)
EXTENDS ChatClient
=============================================================================
