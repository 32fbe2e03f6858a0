--------------------------- MODULE MCProxyForward ---------------------------
(* Instances of ProxyForward for TLC.                                      *)
EXTENDS ProxyForward, TLC

CONSTANTS r1, r2, e1, e2

\* One permit with and without a place to wait, and two permits: the retry
\* budget is one in each of them.
SmallPools == {[max_in_flight |-> 1, queue_depth |-> 0],
               [max_in_flight |-> 1, queue_depth |-> 1],
               [max_in_flight |-> 2, queue_depth |-> 0]}

=============================================================================
