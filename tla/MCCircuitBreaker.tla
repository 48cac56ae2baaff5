-------------------------- MODULE MCCircuitBreaker --------------------------
(* Small instances of CircuitBreaker.                                      *)
EXTENDS CircuitBreaker, TLC

CONSTANTS c1, c2, c3

MCSymmetry == Permutations(Calls)
=============================================================================
