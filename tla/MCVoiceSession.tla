--------------------------- MODULE MCVoiceSession ---------------------------
(* Model checking of VoiceSession. *)
EXTENDS VoiceSession
=============================================================================
