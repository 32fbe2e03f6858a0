----------------------------- MODULE AuditLedger -----------------------------
(***************************************************************************)
(* What the audit pipeline promises, whoever carries it out: an event is   *)
(* taken in or turned away, a row stands once it is written, a loss is     *)
(* counted once, and a request that waits for its record is answered once, *)
(* with "stored" only when the row is there.                               *)
(***************************************************************************)
EXTENDS Integers

CONSTANTS Events, Required

VARIABLES
    taken,    \* events taken in
    rows,     \* events in the audit store
    counted,  \* how often an event was counted as dropped
    answer    \* what a request waiting for its record was told

vars == <<taken, rows, counted, answer>>

Answers == {"none", "open", "stored", "lost", "timeout"}

Init ==
    /\ taken = {} /\ rows = {}
    /\ counted = [e \in Events |-> 0]
    /\ answer = [e \in Events |-> "none"]

\* The function f with value v for the members of S.
With(f, S, v) == [e \in Events |-> IF e \in S THEN v ELSE f[e]]

Tell(S, a) ==
    /\ \A e \in S : answer[e] = "open"
    /\ answer' = With(answer, S, a)

TurnAway(e) ==
    /\ e \notin taken /\ counted[e] = 0
    /\ counted' = [counted EXCEPT ![e] = 1]
    /\ answer' = [answer EXCEPT ![e] = IF e \in Required THEN "lost" ELSE "none"]
    /\ UNCHANGED <<taken, rows>>

TakeIn(e) ==
    /\ e \notin taken /\ counted[e] = 0
    /\ taken' = taken \cup {e}
    /\ answer' = [answer EXCEPT ![e] = IF e \in Required THEN "open" ELSE "none"]
    /\ UNCHANGED <<rows, counted>>

Write(S) ==
    /\ S \subseteq taken
    /\ rows' = rows \cup S
    /\ UNCHANGED <<taken, counted, answer>>

\* The events in S were committed before the answer.
Confirm(S) ==
    /\ S \subseteq rows
    /\ Tell(S, "stored")
    /\ UNCHANGED <<taken, rows, counted>>

\* Some losses are counted, and some waiters told.  A row that nobody knows of
\* may be among them.
GiveUp(S, T) ==
    /\ S \subseteq taken /\ \A e \in S : counted[e] = 0
    /\ counted' = With(counted, S, 1)
    /\ Tell(T, "lost")
    /\ UNCHANGED <<taken, rows>>

Leave(e) ==
    /\ Tell({e}, "timeout")
    /\ UNCHANGED <<taken, rows, counted>>

Next ==
    \/ \E e \in Events : TurnAway(e) \/ TakeIn(e) \/ Leave(e)
    \/ \E S \in SUBSET Events : Write(S) \/ Confirm(S)
    \/ \E S, T \in SUBSET Events : GiveUp(S, T)

Spec == Init /\ [][Next]_vars

=============================================================================
