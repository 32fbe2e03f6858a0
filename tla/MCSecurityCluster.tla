------------------------- MODULE MCSecurityCluster -------------------------
(* Instances of SecurityCluster for TLC.                                   *)
EXTENDS SecurityCluster, TLC

CONSTANTS a, g1, g2, w1

OneRecord == {a}
OneGate == {g1}
TwoGates == {g1, g2}
OneWriter == {w1}

\* Records, gates and writers are interchangeable: nothing orders them.
Symmetry == Permutations(Records) \cup Permutations(Gates) \cup Permutations(Writers)

=============================================================================
