--------------------------- MODULE MCChatTurns ---------------------------
(* ChatTurns on small instances. *)
EXTENDS ChatTurns
=============================================================================
