--------------------------- MODULE MCToolAdmission ---------------------------
(* An instance of ToolAdmission for TLC.                                   *)
EXTENDS ToolAdmission

CONSTANTS p1, p2, p3, r1, r2, l1, l2

\* Three invocations at one replica, or two and one: every way to spread them,
\* up to the names of invocations and replicas.
Spread == [p \in Invocations |-> IF p = p3 THEN Replicas ELSE {r1}]

=============================================================================
