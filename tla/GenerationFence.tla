--------------------------- MODULE GenerationFence ---------------------------
(***************************************************************************)
(* What the pipeline promises about its one generation counter, stated     *)
(* without saying how a cancellation is carried out.  `current` is the     *)
(* generation whose work counts; `adopted` is the one the microphone path  *)
(* captures speech for.  The first only ever advances by one, the second   *)
(* only ever moves towards it.                                             *)
(***************************************************************************)
EXTENDS Naturals

VARIABLES current, adopted

fenceVars == <<current, adopted>>

Init ==
  /\ current = 0
  /\ adopted = 0

\* A cancellation is requested: everything older is stale from here on.
Advance ==
  /\ current' = current + 1
  /\ UNCHANGED adopted

\* A teardown reaches the microphone path, which adopts a newer generation.
Adopt ==
  /\ adopted' \in (adopted + 1)..current
  /\ UNCHANGED current

Next == Advance \/ Adopt

Spec == Init /\ [][Next]_fenceVars
=============================================================================
