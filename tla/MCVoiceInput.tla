---------------------------- MODULE MCVoiceInput ----------------------------
(***************************************************************************)
(* Instance for TLC, in milliseconds, scaled down but ordered as in the    *)
(* code: a turn starts sooner while Lune is silent than it interrupts her, *)
(* and ends later still; no duration is a multiple of the window.  Seven   *)
(* windows are enough for two barge-ins with a turn end between them while *)
(* a window stamped before both waits in the queue, and for an utterance   *)
(* that reaches its bound; four generations let a rebuilt transport run    *)
(* two fences ahead.                                                       *)
(***************************************************************************)
EXTENDS VoiceInput
=============================================================================
