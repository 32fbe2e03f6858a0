-------------------------- MODULE MCCircuitBreaker --------------------------
(***************************************************************************)
(* Model-checking instance of CircuitBreaker: three concurrent attempts,   *)
(* two probe slots, and a clock long enough for two full openings.         *)
(***************************************************************************)
EXTENDS CircuitBreaker

=============================================================================
