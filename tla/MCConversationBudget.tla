------------------------ MODULE MCConversationBudget ------------------------
(* Bounds of ConversationBudget for TLC: two overlapping turns over a month   *)
(* boundary; the lock leaves room for Terra and one Luna, not for a retry.      *)
EXTENDS ConversationBudget, TLC

CONSTANTS t1, t2

MCTurns  == {t1, t2}

\* A bill is either less or more than what was reserved.
MCDeviations == {-1, 1}

Symmetry == Permutations(MCTurns)
=============================================================================
