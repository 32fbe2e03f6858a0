------------------------------ MODULE SlotLeases ------------------------------
(***************************************************************************)
(* What the leases of a scope promise: no two invocations work under one   *)
(* slot.  A slot is taken before its holder knows it and stays taken after *)
(* the holder has stopped, until it is released or lapses.                 *)
(***************************************************************************)
CONSTANTS Slots, Holders

VARIABLES
    taken,    \* slots with a row
    working   \* pairs <<p, s>>: p works under slot s

vars == <<taken, working>>

Init == taken = {} /\ working = {}

\* A row is written for a slot without one.
Take(s) ==
    /\ s \notin taken
    /\ taken' = taken \cup {s}
    /\ UNCHANGED working

\* The holder learns of its row.
Start(p, s) ==
    /\ s \in taken
    /\ \A w \in working : w[1] # p /\ w[2] # s
    /\ working' = working \cup {<<p, s>>}
    /\ UNCHANGED taken

\* The holder is done, or has lost its lease.
Stop(p) ==
    /\ working' = {w \in working : w[1] # p}
    /\ UNCHANGED taken

\* The row is released or lapses.
Clear(s) ==
    /\ \A w \in working : w[2] # s
    /\ taken' = taken \ {s}
    /\ UNCHANGED working

Next ==
    \/ \E s \in Slots : Take(s) \/ Clear(s)
    \/ \E p \in Holders, s \in Slots : Start(p, s)
    \/ \E p \in Holders : Stop(p)

Spec == Init /\ [][Next]_vars

=============================================================================
