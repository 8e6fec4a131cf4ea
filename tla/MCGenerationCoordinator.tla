----------------------- MODULE MCGenerationCoordinator -----------------------
(***************************************************************************)
(* Instance for TLC: up to MaxGen cancellations, all of which may overlap, *)
(* for any reason, with any awaited stage failing and any of them aborted. *)
(***************************************************************************)
EXTENDS GenerationCoordinator
=============================================================================
