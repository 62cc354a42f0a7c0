----------------------------- MODULE MCChatTurns -----------------------------
(* Two consoles on one state directory. *)
EXTENDS ChatTurns

CONSTANTS here, there, t1, t2, d1

HomeOf(t) == IF t = t1 THEN here ELSE there
=============================================================================
