-------------------------- MODULE MCAttemptProvider --------------------------
(* Two turns, any two of a fence, a title completion, a worker fault, a stall *)
(* and an overtaking, and a queue too small for a whole answer.              *)
EXTENDS AttemptProvider
=============================================================================
