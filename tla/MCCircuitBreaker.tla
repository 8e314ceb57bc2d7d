--------------------------- MODULE MCCircuitBreaker ---------------------------
(* Three calls of one resource; thresholds of two, so that every counter has  *)
(* a value between zero and its limit.                                        *)
EXTENDS CircuitBreaker, TLC

CONSTANTS c1, c2, c3

MCCalls == {c1, c2, c3}
Symmetry == Permutations(MCCalls)
==============================================================================
