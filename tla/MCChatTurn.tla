----------------------------- MODULE MCChatTurn -----------------------------
(* Model checking of ChatTurn: one user, one guest, one client key. *)
EXTENDS ChatTurn
=============================================================================
