----------------------------- MODULE MCTokenCache -----------------------------
(* An instance of TokenCache for TLC.                                      *)
EXTENDS TokenCache, TLC

CONSTANTS c1, c2, s1, s2, s3, alice

\* One principal, and a Connection before and after a change.
TwoConfigurations ==
    {[connection |-> 1, configuration |-> 1, principal |-> alice],
     [connection |-> 1, configuration |-> 2, principal |-> alice]}

\* Calls and addresses are told apart by nothing else.
Alike == Permutations({c1, c2}) \cup Permutations({s1, s2, s3})

=============================================================================
