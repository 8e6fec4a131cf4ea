--------------------------- MODULE MCPlaybackSink ---------------------------
(***************************************************************************)
(* Instance for TLC: four generations of one chunk each, a queue of one,   *)
(* two turns draining, and one failed generation forgotten.  Longer        *)
(* answers and a longer queue are covered by the proofs; what is left to   *)
(* TLC is that drain() returns, and for that two sleepers and a chunk that *)
(* fills the queue are enough.  The drainers are not declared symmetric:   *)
(* the run checks liveness.                                                *)
(***************************************************************************)
EXTENDS PlaybackSink
=============================================================================
