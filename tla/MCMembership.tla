---------------------------- MODULE MCMembership ----------------------------
(* The instance of Membership for TLC.                                     *)
EXTENDS Membership

CONSTANTS old, new, d

\* A replica of an old build and one of a new build and another configuration.
Boots == {old, new}
Builds == [r \in Boots |-> IF r = old THEN {} ELSE {d}]
Settings == [r \in Boots |-> IF r = old THEN "a" ELSE "b"]

=============================================================================
