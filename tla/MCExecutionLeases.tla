------------------------- MODULE MCExecutionLeases -------------------------
(***************************************************************************)
(* Model-checking instances of ExecutionLeases.                            *)
(***************************************************************************)
EXTENDS ExecutionLeases, TLC

CONSTANTS p1, p2, r1, r2

\* All invocations run in one replica: the holder column cannot tell them
\* apart and only the fence does.
OneReplica == [p \in Invocations |-> r1]

\* Two replicas; the first runs p1, the second p2.
TwoReplicas == [p \in Invocations |-> IF p = p1 THEN r1 ELSE r2]

=============================================================================
