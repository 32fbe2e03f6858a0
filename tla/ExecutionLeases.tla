--------------------------- MODULE ExecutionLeases ---------------------------
(***************************************************************************)
(* Execution leases: the cluster-wide bound on running invocations.        *)
(*                                                                         *)
(*   storage/postgres_execution_leases.rs   the lease rows of one scope    *)
(*   tools/runtime.rs                       lease_slot, LeaseGuard,        *)
(*                                          renew_until_lost               *)
(*   tools/lease.rs                         the contract between them      *)
(*                                                                         *)
(* An acquisition is one SQL statement, and still two steps: now() is      *)
(* fixed, the candidate slot is chosen from a snapshot and the fence is    *)
(* drawn when it begins; the row is inserted or taken over when it gets    *)
(* the row.  A renewal applies with the now() of any moment between its    *)
(* call and its effect.  Replies may be late, errors may hide an applied   *)
(* statement, holders may crash, releases may be lost.                     *)
(*                                                                         *)
(* One clock stands for the database clock and the replicas' monotonic     *)
(* clocks: they differ in origin, which the code never compares.           *)
(***************************************************************************)
EXTENDS Integers, FiniteSets

CONSTANTS
    Invocations,  \* one-shot invocations, each asking for a slot of the scope
    Replica,      \* Replica[p]: the holder_instance p runs in
    Capacity,     \* slots of the scope
    TTL,          \* lease time to live
    CallBounds,   \* what CallBound may be
    MaxTime,      \* bound of the model: the clock stops here
    MaxFence      \* bound of the model: values drawn from the fence sequence

Slots == 0..(Capacity - 1)

ASSUME LeaseAssumption ==
    /\ IsFiniteSet(Invocations)
    /\ Capacity \in Nat \ {0}
    /\ TTL \in Nat \ {0}
    /\ CallBounds \subseteq Nat
    /\ MaxTime \in Nat
    /\ MaxFence \in Nat

\* renewal_interval: a third of the TTL, and not less than a short floor
renewal_interval == IF TTL \div 3 = 0 THEN 1 ELSE TTL \div 3
\* let retry = (interval / 4).max(..)
retry == IF renewal_interval \div 4 = 0 THEN 1 ELSE renewal_interval \div 4
\* grace of the maintenance reaper: one TTL
Grace == TTL

VARIABLES
    now,       \* the clock
    sequence,  \* last value drawn from execution_lease_fence
    row,       \* row[s]: the lease row of slot s; fence 0 when there is none
    pc,        \* where invocation p is
    slot,      \* the slot it asked for or holds
    fence,     \* the fence drawn for it, 0 before
    begun,     \* now() of its acquisition statement
    last,      \* last_renewed of its renewal task
    wake,      \* when the sleep of its renewal task ends
    call,      \* its renewal call: "none", "sent", or applied: "renewed", "gone"
    sent,      \* when that call was made
    CallBound  \* longest time from calling the database to its answer, in this execution

db == <<sequence, row>>
holding == <<slot, fence, begun>>
renewal == <<last, wake, call, sent>>
vars == <<now, db, pc, holding, renewal, CallBound>>

\* What the deadlines of renew_until_lost need of the database for a holder to
\* stop in time: half the TTL, one retry, and a call's delay counted twice.
Timing == TTL >= 2 * retry + 4 * CallBound

NoRow == [fence |-> 0, holder |-> "none", expires |-> 0]

\* idle: in lease_slot; acquiring: its statement runs; granted: the statement
\* has taken the slot, the reply is on its way; abandoned: the caller gave up
\* (queue timeout, cancellation, error) while the statement runs; running: the
\* guard exists and the work runs; releasing: the guard is dropped, the release
\* is spawned; over: nothing of it is left but, perhaps, a call in flight.
PCs == {"idle", "acquiring", "granted", "abandoned", "running", "releasing", "over"}
Calls == {"none", "sent", "renewed", "gone"}

Rows == [fence : Nat, holder : {Replica[p] : p \in Invocations} \cup {"none"}, expires : Nat]

TypeOK ==
    /\ now \in Nat
    /\ sequence \in Nat
    /\ row \in [Slots -> Rows]
    /\ pc \in [Invocations -> PCs]
    /\ slot \in [Invocations -> Slots]
    /\ fence \in [Invocations -> Nat]
    /\ begun \in [Invocations -> Nat]
    /\ last \in [Invocations -> Nat]
    /\ wake \in [Invocations -> Nat]
    /\ call \in [Invocations -> Calls]
    /\ sent \in [Invocations -> Nat]
    /\ CallBound \in CallBounds

Init ==
    /\ now = 0 /\ sequence = 0
    /\ row = [s \in Slots |-> NoRow]
    /\ pc = [p \in Invocations |-> "idle"]
    /\ slot = [p \in Invocations |-> 0]
    /\ fence = [p \in Invocations |-> 0]
    /\ begun = [p \in Invocations |-> 0]
    /\ last = [p \in Invocations |-> 0]
    /\ wake = [p \in Invocations |-> 0]
    /\ call = [p \in Invocations |-> "none"]
    /\ sent = [p \in Invocations |-> 0]
    /\ CallBound \in CallBounds

-----------------------------------------------------------------------------
(* The rows                                                                 *)

\* The row of p as a statement whose now() is t writes it.
LeaseRow(p, t) == [fence |-> fence[p], holder |-> Replica[p], expires |-> t + TTL]

\* WHERE NOT EXISTS (... e.slot = s.slot AND e.expires_at > now())
Free(s, t) == row[s].fence = 0 \/ row[s].expires <= t

\* ORDER BY s.slot LIMIT 1
LowestFree(s, t) == Free(s, t) /\ \A r \in Slots : r < s => ~Free(r, t)

\* Mutant: the holder is compared and the fence is not.
OwnsByHolder(p) == row[slot[p]].fence # 0 /\ row[slot[p]].holder = Replica[p]

\* WHERE slot = $3 AND fence = $4 AND holder_instance = $5
Owns(p) ==
    /\ row[slot[p]].fence = fence[p]
    /\ row[slot[p]].holder = Replica[p]

\* is_current: the fence check of shared follow-up state
is_current(p) == Owns(p) /\ row[slot[p]].expires > now

-----------------------------------------------------------------------------
(* Time.  The runtime's timers fire when they are due, and a database call  *)
(* is answered, if only by an error, within CallBound.                      *)

Prompt(p) ==
    /\ pc[p] = "running" /\ call[p] = "none" => now < wake[p]
    /\ pc[p] = "running" /\ call[p] # "none" => now < sent[p] + CallBound
    /\ pc[p] \in {"acquiring", "granted"} => now < begun[p] + CallBound

Tick ==
    /\ now < MaxTime
    /\ \A p \in Invocations : Prompt(p)
    /\ now' = now + 1
    /\ UNCHANGED <<db, pc, holding, renewal>>

-----------------------------------------------------------------------------
(* try_acquire, called by lease_slot                                        *)

\* The statement begins: now(), the snapshot's lowest free slot, nextval.
\* When no slot is free it answers Full at once and lease_slot sleeps.
AcquireBegins(p) ==
    /\ pc[p] = "idle"
    /\ sequence < MaxFence
    /\ sequence' = sequence + 1
    /\ \E s \in Slots :
        /\ LowestFree(s, now)
        /\ slot' = [slot EXCEPT ![p] = s]
    /\ fence' = [fence EXCEPT ![p] = sequence + 1]
    /\ begun' = [begun EXCEPT ![p] = now]
    /\ pc' = [pc EXCEPT ![p] = "acquiring"]
    /\ UNCHANGED <<now, row, renewal>>

\* Mutant: ON CONFLICT DO UPDATE without its WHERE clause.
TakeableAlways(p) == TRUE

\* The conflict clause: WHERE l.expires_at <= now(), with the statement's now()
Takeable(p) == Free(slot[p], begun[p])

\* The row is inserted or taken over, or the conditional update finds a live
\* lease: no row is returned and lease_slot retries.  An abandoned statement
\* commits all the same, and its row has no holder that knows of it.
AcquireCommits(p) ==
    /\ pc[p] \in {"acquiring", "abandoned"}
    /\ \/ /\ Takeable(p)
          /\ row' = [row EXCEPT ![slot[p]] = LeaseRow(p, begun[p])]
          /\ pc' = [pc EXCEPT ![p] = IF pc[p] = "acquiring" THEN "granted" ELSE "over"]
       \/ /\ ~Takeable(p)
          /\ pc' = [pc EXCEPT ![p] = IF pc[p] = "acquiring" THEN "idle" ELSE "over"]
          /\ UNCHANGED row
    /\ UNCHANGED <<now, sequence, holding, renewal>>

\* LeaseGuard::start: the reply arrives and the renewal task is spawned.
AcquireAnswered(p) ==
    /\ pc[p] = "granted"
    /\ pc' = [pc EXCEPT ![p] = "running"]
    /\ begun' = [begun EXCEPT ![p] = 0]
    /\ last' = [last EXCEPT ![p] = now]
    /\ wake' = [wake EXCEPT ![p] = now + renewal_interval]
    /\ UNCHANGED <<now, db, slot, fence, call, sent>>

\* Queue timeout, cancellation or a database error: the future is dropped and
\* no guard is made.  The slot of a granted statement lapses by expiry.
AcquireAbandoned(p) ==
    /\ pc[p] \in {"acquiring", "granted"}
    /\ pc' = [pc EXCEPT ![p] = IF pc[p] = "acquiring" THEN "abandoned" ELSE "over"]
    /\ UNCHANGED <<now, db, holding, renewal>>

-----------------------------------------------------------------------------
(* renew_until_lost                                                         *)

RenewCalls(p) ==
    /\ pc[p] = "running" /\ call[p] = "none" /\ now >= wake[p]
    /\ call' = [call EXCEPT ![p] = "sent"]
    /\ sent' = [sent EXCEPT ![p] = now]
    /\ wake' = [wake EXCEPT ![p] = 0]
    /\ UNCHANGED <<now, db, pc, holding, last>>

\* UPDATE ... WHERE fence, holder match AND expires_at > now(): the effect may
\* come later than the statement's now(), and also after its caller is gone.
RenewApplies(p) ==
    /\ call[p] = "sent"
    /\ \E t \in sent[p]..now :
        \/ /\ Owns(p) /\ row[slot[p]].expires > t
           /\ row' = [row EXCEPT ![slot[p]] = LeaseRow(p, t)]
           /\ call' = [call EXCEPT ![p] = "renewed"]
        \/ /\ ~(Owns(p) /\ row[slot[p]].expires > t)
           /\ call' = [call EXCEPT ![p] = "gone"]
           /\ UNCHANGED row
    /\ UNCHANGED <<now, sequence, pc, holding, last, wake, sent>>

CallEnds(p) ==
    /\ call' = [call EXCEPT ![p] = "none"]
    /\ sent' = [sent EXCEPT ![p] = 0]

\* Ok(true)
RenewAnswered(p) ==
    /\ pc[p] = "running" /\ call[p] = "renewed"
    /\ CallEnds(p)
    /\ last' = [last EXCEPT ![p] = now]
    /\ wake' = [wake EXCEPT ![p] = now + renewal_interval]
    /\ UNCHANGED <<now, db, pc, holding>>

\* The renewal task ends and its local variables with it.
TaskEnds(p) ==
    /\ last' = [last EXCEPT ![p] = 0]
    /\ wake' = [wake EXCEPT ![p] = 0]

\* lost.cancel(): the cancelled invocation drops its guard, which aborts the
\* renewal task and spawns the release.
Lose(p) ==
    /\ pc' = [pc EXCEPT ![p] = "releasing"]
    /\ TaskEnds(p)

\* Ok(false): lost.cancel()
RenewRefused(p) ==
    /\ pc[p] = "running" /\ call[p] = "gone"
    /\ CallEnds(p)
    /\ Lose(p)
    /\ UNCHANGED <<now, db, holding>>

\* Mutant: the lease is given up only when the whole TTL has passed.
ExpiredAtTTL(p) == now - last[p] >= TTL

\* last_renewed.elapsed() >= ttl / 2
OutOfTime(p) == 2 * (now - last[p]) >= TTL

\* Err: the statement did not run, or it did and the answer was lost.  (That it runs
\* after the error is left out: it would only prolong the lease.)
RenewFails(p) ==
    /\ pc[p] = "running" /\ call[p] # "none"
    /\ CallEnds(p)
    /\ \/ /\ OutOfTime(p)
          /\ Lose(p)
       \/ /\ ~OutOfTime(p)
          /\ wake' = [wake EXCEPT ![p] = now + retry]
          /\ UNCHANGED <<pc, last>>
    /\ UNCHANGED <<now, db, holding>>

-----------------------------------------------------------------------------
(* The end of a lease                                                       *)

\* The work is done: LeaseGuard::drop aborts the renewal task, whose call may
\* still be in flight, and spawns the release.
Completes(p) ==
    /\ pc[p] = "running"
    /\ Lose(p)
    /\ UNCHANGED <<now, db, holding, call, sent>>

\* DELETE ... WHERE fence and holder match
Releases(p) ==
    /\ pc[p] = "releasing"
    /\ pc' = [pc EXCEPT ![p] = "over"]
    /\ row' = IF Owns(p) THEN [row EXCEPT ![slot[p]] = NoRow] ELSE row
    /\ UNCHANGED <<now, sequence, holding, renewal>>

\* The release fails, or the process crashes: the slot lapses by expiry.
Vanishes(p) ==
    /\ pc[p] \in {"running", "releasing"}
    /\ pc' = [pc EXCEPT ![p] = "over"]
    /\ TaskEnds(p)
    /\ UNCHANGED <<now, db, holding, call, sent>>

\* reap_expired_with, run by the maintenance singleton
Reaps(s) ==
    /\ row[s].fence # 0
    /\ row[s].expires + Grace <= now
    /\ row' = [row EXCEPT ![s] = NoRow]
    /\ UNCHANGED <<now, sequence, pc, holding, renewal>>

-----------------------------------------------------------------------------

Step ==
    \/ Tick
    \/ \E p \in Invocations :
        \/ AcquireBegins(p) \/ AcquireCommits(p) \/ AcquireAnswered(p) \/ AcquireAbandoned(p)
        \/ RenewCalls(p) \/ RenewApplies(p) \/ RenewAnswered(p) \/ RenewRefused(p) \/ RenewFails(p)
        \/ Completes(p) \/ Releases(p) \/ Vanishes(p)
    \/ \E s \in Slots : Reaps(s)

Next == Step /\ UNCHANGED CallBound

Spec == Init /\ [][Next]_vars

-----------------------------------------------------------------------------
(* Properties                                                               *)

\* The slots with a row, and who works under which.  The promise is made to those
\* whose database answers in time.
Taken == {s \in Slots : row[s].fence # 0}
Working == {<<p, slot[p]>> : p \in {q \in Invocations : Timing /\ pc[q] = "running"}}

Scope == INSTANCE SlotLeases WITH Holders <- Invocations, taken <- Taken, working <- Working

\* The rows and their renewals keep the promise of a lease scope: nobody starts
\* to work under a slot before its last holder has stopped, and no row is
\* released, reaped or let go while its holder works (lease.rs, LeaseGuard),
\* provided that the database answers in time.
KeepsScope == Scope!Spec

\* "lost is cancelled ... always before the slot can be reclaimed at the TTL"
\* (tools/runtime.rs:457): while the work runs, no other acquisition and no
\* reaper has touched its row.
StopsBeforeReclaim ==
    \A p \in Invocations : pc[p] = "running" => row[slot[p]].fence = fence[p]

\* So it is when the database answers in time: the deadlines of renew_until_lost
\* stop the work before anybody else can have the slot.
StopsWhenTimely == Timing => StopsBeforeReclaim

\* A live lease changes hands only through its own holder: no acquisition with
\* an old snapshot, no late release and no reaper removes an unexpired row of
\* another holder.
LiveLeaseKept ==
    [][\A s \in Slots :
         (row[s].fence # 0 /\ row[s].expires > now /\ row'[s].fence # row[s].fence) =>
            \E p \in Invocations : /\ fence[p] = row[s].fence /\ slot[p] = s
                                   /\ pc[p] = "releasing" /\ pc'[p] = "over"]_vars

=============================================================================
