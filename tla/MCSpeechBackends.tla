-------------------------- MODULE MCSpeechBackends --------------------------
(* Two turn tasks, one of which can outlive the fence of the other's turn.  *)
(* The run starts cold, or with launches of the private voice that failed   *)
(* and were counted, so that two sentences are enough to find the breaker   *)
(* open.                                                                    *)
EXTENDS SpeechBackends

MCInit == Init \/ \E n \in 1..Threshold - 1 : preferred = "gpt" /\ StartedAfter(n)
MCSpec == MCInit /\ [][Next]_vars /\ Fairness
=============================================================================
