----------------------------- MODULE DeliveryLog -----------------------------
(***************************************************************************)
(* What the authority-event journal promises to the sink and to operators, *)
(* whoever dispatches: a log that is delivered at least once and in order. *)
(* Positions are numbered in commit order; the sink gets no event before   *)
(* the ones that precede it; the mark passes only what the sink has; and   *)
(* what the mark has not passed is removed only before a reader came.      *)
(***************************************************************************)
EXTENDS Integers

VARIABLES
    last,     \* the last committed position
    kept,     \* positions the log still holds
    sunk,     \* positions the sink has accepted, once or more
    passed,   \* the mark: delivery goes on after it
    expired,  \* positions removed before the mark passed them
    unread    \* no reader bounds what may be removed

vars == <<last, kept, sunk, passed, expired, unread>>

Init ==
    /\ last = 0 /\ kept = {} /\ sunk = {} /\ passed = 0 /\ expired = {}
    /\ unread = TRUE

\* Events become visible all at once, after everything visible before them.
Commit ==
    /\ last' \in Nat /\ last' > last
    /\ kept' = kept \cup (last + 1)..last'
    /\ UNCHANGED <<sunk, passed, expired, unread>>

\* A batch, new or repeated, that leaves no event before it behind.
Deliver(S) ==
    /\ \A p \in S : \A q \in 1..p : q \in sunk \cup S \cup expired
    /\ sunk' = sunk \cup S
    /\ UNCHANGED <<last, kept, passed, expired, unread>>

\* The mark moves on, over events that the sink has.
Pass(p) ==
    /\ p > passed
    /\ \A q \in 1..p : q \in sunk \cup expired
    /\ passed' = p
    /\ UNCHANGED <<last, kept, sunk, expired, unread>>

\* Old events go.  A removal that began before the reader came may be the last
\* that takes undelivered ones.
Remove(S) ==
    /\ unread \/ \A p \in S : p <= passed
    /\ kept' = kept \ S
    /\ expired' = expired \cup {p \in S : p > passed}
    /\ unread' \in {unread, FALSE}
    /\ UNCHANGED <<last, sunk, passed>>

ReaderCame ==
    /\ unread' = FALSE
    /\ UNCHANGED <<last, kept, sunk, passed, expired>>

Next ==
    \/ Commit \/ ReaderCame
    \/ \E S \in SUBSET (1..last) : Deliver(S)
    \/ \E p \in 1..last : Pass(p)
    \/ \E S \in SUBSET kept : Remove(S)

Spec == Init /\ [][Next]_vars

=============================================================================
