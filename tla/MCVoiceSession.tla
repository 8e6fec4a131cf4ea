--------------------------- MODULE MCVoiceSession ---------------------------
(* Bounds of VoiceSession for TLC: one headset and the built-in speaker, and *)
(* three generations of one turn, which is enough for device switches,       *)
(* watchdog, typed text and speech to fence the turn and one another.        *)
EXTENDS VoiceSession

MCSnapshots == {"headset", "speaker"}
MCBuiltIn   == {"speaker"}
=============================================================================
