---------------------------- MODULE ToolAdmission ----------------------------
(***************************************************************************)
(* Admission of invocations of a tool in cluster mode (tools/runtime.rs):  *)
(* prepare_invocation, acquire_execution_permits, ToolLimiter and the end  *)
(* of an invocation.                                                       *)
(*                                                                         *)
(* An invocation takes a place in its replica's queue, a permit of its     *)
(* tool's limiter, a lease in the tool's scope, a permit of the replica    *)
(* and a lease in the global scope, in this order, and gives all of it     *)
(* back at once when it ends, is cancelled or waits too long.  The lease   *)
(* scopes are those of SlotLeases, which ExecutionLeases implements.       *)
(***************************************************************************)
EXTENDS Integers, FiniteSets

CONSTANTS
    Invocations,
    Replicas,
    Entries,    \* Entries[p]: the replicas p may come to
    Limiters,   \* addresses
    NoLimiter, NoReplica,
    Limits,     \* what a policy may give the tool as max_concurrent
    MaxQueue,   \* max_queue
    MaxGlobal   \* max_concurrent_global: permits of a replica, slots of the cluster

ASSUME AdmissionAssumption ==
    /\ IsFiniteSet(Invocations)
    /\ Entries \in [Invocations -> SUBSET Replicas]
    /\ NoLimiter \notin Limiters /\ NoReplica \notin Replicas
    /\ Limits \subseteq Nat \ {0}
    /\ MaxQueue \in Nat \ {0} /\ MaxGlobal \in Nat \ {0}

VARIABLES
    pc,
    replica,   \* where an invocation runs, or NoReplica
    current,   \* per_tool: the limiter of the tool at a replica, or NoLimiter
    limiter,   \* the one an invocation refers to
    max_concurrent, running,  \* state of a limiter
    permit,    \* its Notify has a permit stored
    notified,  \* of the invocation's Notified: "no", "one" or "all"
    queue, global,  \* available permits of a replica
    plan,      \* tool_capacity of the invocation's LeasePlan
    slot,      \* the slot its acquisition under way has taken, or NoSlot
    lost,      \* lease_lost is cancelled
    tool_taken, tool_working,
    global_taken, global_working

locals == <<replica, limiter, plan, lost>>
limits == <<current, max_concurrent, running, permit, notified>>
permits == <<queue, global>>
tool_scope == <<tool_taken, tool_working>>
global_scope == <<global_taken, global_working>>
vars == <<pc, locals, slot, limits, permits, tool_scope, global_scope>>

NoSlot == -1
ToolSlots == UNION {0..(m - 1) : m \in Limits}
GlobalSlots == 0..(MaxGlobal - 1)

Tool == INSTANCE SlotLeases
          WITH Slots <- ToolSlots, Holders <- Invocations,
               taken <- tool_taken, working <- tool_working
Global == INSTANCE SlotLeases
            WITH Slots <- GlobalSlots, Holders <- Invocations,
                 taken <- global_taken, working <- global_working

\* enabled: its Notified listens and the limiter's state is read next, in the same
\* poll; asleep: awaits the notification; leasing: wants a slot of the tool;
\* queued: a permit of the replica; leasing_global: a slot of the cluster.
Wide == {"leasing", "queued", "leasing_global"}
Waits == Wide \cup {"enabled", "asleep"}
PCs == Waits \cup {"idle", "running", "over"}

TypeOK ==
    /\ pc \in [Invocations -> PCs]
    /\ replica \in [Invocations -> Replicas \cup {NoReplica}]
    /\ current \in [Replicas -> Limiters \cup {NoLimiter}]
    /\ limiter \in [Invocations -> Limiters \cup {NoLimiter}]
    /\ max_concurrent \in [Limiters -> Limits \cup {0}]
    /\ running \in [Limiters -> Nat]
    /\ permit \in [Limiters -> BOOLEAN]
    /\ notified \in [Invocations -> {"no", "one", "all"}]
    /\ queue \in [Replicas -> 0..MaxQueue]
    /\ global \in [Replicas -> 0..MaxGlobal]
    /\ plan \in [Invocations -> Limits \cup {0}]
    /\ slot \in [Invocations -> Int]
    /\ lost \in [Invocations -> BOOLEAN]
    /\ tool_taken \subseteq ToolSlots /\ tool_working \subseteq Invocations \X ToolSlots
    /\ global_taken \subseteq GlobalSlots /\ global_working \subseteq Invocations \X GlobalSlots

Init ==
    /\ pc = [p \in Invocations |-> "idle"]
    /\ replica = [p \in Invocations |-> NoReplica]
    /\ current = [r \in Replicas |-> NoLimiter]
    /\ limiter = [p \in Invocations |-> NoLimiter]
    /\ max_concurrent = [l \in Limiters |-> 0]
    /\ running = [l \in Limiters |-> 0]
    /\ permit = [l \in Limiters |-> FALSE]
    /\ notified = [p \in Invocations |-> "no"]
    /\ queue = [r \in Replicas |-> MaxQueue]
    /\ global = [r \in Replicas |-> MaxGlobal]
    /\ plan = [p \in Invocations |-> 0]
    /\ slot = [p \in Invocations |-> NoSlot]
    /\ lost = [p \in Invocations |-> FALSE]
    /\ Tool!Init /\ Global!Init

-----------------------------------------------------------------------------
(* The limiter of a tool and its Notify                                     *)

\* Mutant: references are not counted.
NeverReferred(l) == FALSE

\* Arc::strong_count(limiter) > 1
Referred(l) == \E p \in Invocations : limiter[p] = l

\* prune_idle_limiters: a call under a policy without the tool drops its limiter
\* unless somebody has it.
Prunes(r) ==
    /\ current[r] # NoLimiter /\ ~Referred(current[r]) /\ running[current[r]] = 0
    /\ max_concurrent' = [max_concurrent EXCEPT ![current[r]] = 0]
    /\ permit' = [permit EXCEPT ![current[r]] = FALSE]
    /\ current' = [current EXCEPT ![r] = NoLimiter]
    /\ UNCHANGED <<pc, locals, slot, running, notified, permits, tool_scope, global_scope>>

\* Notified futures of l that wait and have not been notified.
Listening(l) ==
    {p \in Invocations : limiter[p] = l /\ pc[p] \in {"enabled", "asleep"} /\ notified[p] = "no"}

\* notify_one: a waiter of W is chosen, or the permit stored, and the notification
\* of the invocation p itself is gone.
NotifiesOne(l, p, W) ==
    \/ /\ W = {}
       /\ permit' = [permit EXCEPT ![l] = TRUE]
       /\ notified' = [notified EXCEPT ![p] = "no"]
    \/ /\ \E q \in W : notified' = [notified EXCEPT ![q] = "one", ![p] = "no"]
       /\ UNCHANGED permit

\* A Notified is dropped: what notify_one gave it goes to the next.
DropsNotified(p) ==
    \/ notified[p] = "one" /\ NotifiesOne(limiter[p], p, Listening(limiter[p]) \ {p})
    \/ /\ notified[p] # "one"
       /\ notified' = [notified EXCEPT ![p] = "no"]
       /\ UNCHANGED permit

\* set_limit: whom notify_waiters wakes.
Woken(l, m) == IF m > max_concurrent[l] /\ running[l] < m THEN Listening(l) ELSE {}

\* notified() and enable(), which takes a stored permit.
Enables(p, l, W) ==
    /\ notified' = [q \in Invocations |->
                      IF q = p THEN (IF permit[l] THEN "all" ELSE "no")
                      ELSE IF q \in W THEN "all" ELSE notified[q]]
    /\ permit' = [permit EXCEPT ![l] = FALSE]

\* limiter_for_tool: the limiter in the map, or a new one.
Unused(l) == ~Referred(l) /\ \A r \in Replicas : current[r] # l
LimiterFor(r) == IF current[r] # NoLimiter THEN current[r] ELSE CHOOSE l \in Limiters : Unused(l)

\* authorize_tool_call under a policy with limit m, and the place in the queue.
Calls(p, r, m) ==
    LET l == LimiterFor(r)
    IN  /\ pc[p] = "idle" /\ (current[r] # NoLimiter \/ \E k \in Limiters : Unused(k))
        /\ current' = [current EXCEPT ![r] = l]
        /\ max_concurrent' = [max_concurrent EXCEPT ![l] = m]
        /\ \/ /\ queue[r] > 0
              /\ Enables(p, l, Woken(l, m))
              /\ queue' = [queue EXCEPT ![r] = @ - 1]
              /\ replica' = [replica EXCEPT ![p] = r]
              /\ limiter' = [limiter EXCEPT ![p] = l]
              /\ plan' = [plan EXCEPT ![p] = m]
              /\ pc' = [pc EXCEPT ![p] = "enabled"]
           \/ /\ queue[r] = 0
              /\ notified' = [q \in Invocations |-> IF q \in Woken(l, m) THEN "all" ELSE notified[q]]
              /\ pc' = [pc EXCEPT ![p] = "over"]
              /\ UNCHANGED <<queue, replica, limiter, plan, permit>>
        /\ UNCHANGED <<lost, slot, running, global, tool_scope, global_scope>>

\* ToolLimiter::acquire: the state under its lock.
TakesPermit(p) ==
    /\ pc[p] = "enabled" /\ running[limiter[p]] < max_concurrent[limiter[p]]
    /\ pc' = [pc EXCEPT ![p] = "leasing"]
    /\ running' = [running EXCEPT ![limiter[p]] = @ + 1]
    /\ DropsNotified(p)
    /\ UNCHANGED <<locals, slot, current, max_concurrent, permits, tool_scope, global_scope>>

FindsFull(p) ==
    /\ pc[p] = "enabled" /\ running[limiter[p]] >= max_concurrent[limiter[p]]
    /\ pc' = [pc EXCEPT ![p] = "asleep"]
    /\ UNCHANGED <<locals, slot, limits, permits, tool_scope, global_scope>>

Wakes(p) ==
    /\ pc[p] = "asleep" /\ notified[p] # "no"
    /\ pc' = [pc EXCEPT ![p] = "enabled"]
    /\ Enables(p, limiter[p], {})
    /\ UNCHANGED <<locals, slot, current, max_concurrent, running, permits, tool_scope, global_scope>>

-----------------------------------------------------------------------------
(* lease_slot and the permit of the replica                                 *)

\* Mutant: the capacity of the scope is the largest anybody has asked for.
AnySlot(p) == ToolSlots

\* tool_capacity of the plan: slots below it are asked for.
SlotsFor(p) == 0..(plan[p] - 1)

\* The statement of try_acquire takes a free slot below the capacity.
ToolTakes(p) ==
    /\ pc[p] = "leasing" /\ slot[p] = NoSlot
    /\ \E s \in SlotsFor(p) :
        /\ Tool!Take(s)
        /\ slot' = [slot EXCEPT ![p] = s]
    /\ UNCHANGED <<pc, locals, limits, permits, global_scope>>

\* Its answer arrives: LeaseGuard::start.
ToolStarts(p) ==
    /\ pc[p] = "leasing" /\ slot[p] # NoSlot
    /\ Tool!Start(p, slot[p])
    /\ slot' = [slot EXCEPT ![p] = NoSlot]
    /\ pc' = [pc EXCEPT ![p] = "queued"]
    /\ UNCHANGED <<locals, limits, permits, global_scope>>

\* global.acquire_owned()
TakesGlobal(p) ==
    /\ pc[p] = "queued" /\ global[replica[p]] > 0
    /\ global' = [global EXCEPT ![replica[p]] = @ - 1]
    /\ pc' = [pc EXCEPT ![p] = "leasing_global"]
    /\ UNCHANGED <<locals, slot, limits, queue, tool_scope, global_scope>>

GlobalTakes(p) ==
    /\ pc[p] = "leasing_global" /\ slot[p] = NoSlot
    /\ \E s \in GlobalSlots :
        /\ Global!Take(s)
        /\ slot' = [slot EXCEPT ![p] = s]
    /\ UNCHANGED <<pc, locals, limits, permits, tool_scope>>

GlobalStarts(p) ==
    /\ pc[p] = "leasing_global" /\ slot[p] # NoSlot
    /\ Global!Start(p, slot[p])
    /\ slot' = [slot EXCEPT ![p] = NoSlot]
    /\ pc' = [pc EXCEPT ![p] = "running"]
    /\ UNCHANGED <<locals, limits, permits, tool_scope>>

\* The renewal of the tool's lease gives up while p still waits for the global
\* capacity: nobody looks at lease_lost until the work is started.
Loses(p) ==
    /\ pc[p] \in {"queued", "leasing_global"} /\ ~lost[p]
    /\ lost' = [lost EXCEPT ![p] = TRUE]
    /\ Tool!Stop(p)
    /\ UNCHANGED <<pc, replica, limiter, plan, slot, limits, permits, global_scope>>

\* A row without a holder is released, or lapses; the row of an acquisition under
\* way lives longer than the call.
Underway(p, state, s) == pc[p] = state /\ slot[p] = s

ToolClears(s) ==
    /\ s \in tool_taken /\ \A p \in Invocations : ~Underway(p, "leasing", s)
    /\ Tool!Clear(s)
    /\ UNCHANGED <<pc, locals, slot, limits, permits, global_scope>>

GlobalClears(s) ==
    /\ s \in global_taken /\ \A p \in Invocations : ~Underway(p, "leasing_global", s)
    /\ Global!Clear(s)
    /\ UNCHANGED <<pc, locals, slot, limits, permits, tool_scope>>

-----------------------------------------------------------------------------
(* The end of an invocation: everything it has is dropped                   *)

HasToolPermit(p) == pc[p] \in Wide \cup {"running"}

\* Mutant: the permit of the replica is thought to come with the lease.
HasLeaseOnly(p) == pc[p] = "running"

HasGlobalPermit(p) == pc[p] \in {"leasing_global", "running"}

\* Mutant: the permit goes back without a word.
DropsPermitQuietly(p) ==
    /\ running' = [running EXCEPT ![limiter[p]] = @ - 1]
    /\ UNCHANGED <<permit, notified>>

\* ToolPermit::drop
DropsPermit(p) ==
    /\ running' = [running EXCEPT ![limiter[p]] = @ - 1]
    /\ \/ /\ running[limiter[p]] - 1 < max_concurrent[limiter[p]]
          /\ NotifiesOne(limiter[p], p, Listening(limiter[p]))
       \/ /\ running[limiter[p]] - 1 >= max_concurrent[limiter[p]]
          /\ UNCHANGED <<permit, notified>>

GivesBack(p) ==
    LET r == replica[p]
    IN  /\ pc' = [pc EXCEPT ![p] = "over"]
        /\ queue' = [queue EXCEPT ![r] = @ + 1]
        /\ global' = IF HasGlobalPermit(p) THEN [global EXCEPT ![r] = @ + 1] ELSE global
        /\ \/ HasToolPermit(p) /\ DropsPermit(p)
           \/ ~HasToolPermit(p) /\ DropsNotified(p) /\ UNCHANGED running
        /\ Tool!Stop(p) /\ Global!Stop(p)
        /\ replica' = [replica EXCEPT ![p] = NoReplica]
        /\ limiter' = [limiter EXCEPT ![p] = NoLimiter]
        /\ plan' = [plan EXCEPT ![p] = 0]
        /\ slot' = [slot EXCEPT ![p] = NoSlot]
        /\ lost' = [lost EXCEPT ![p] = FALSE]
        /\ UNCHANGED <<current, max_concurrent>>

\* The queue timeout, a cancellation, or an authority that cannot be asked.
Refused(p) == pc[p] \in Waits \ {"enabled"} /\ GivesBack(p)

\* The work is done, out of time or cancelled, or a lease is lost.
Ends(p) == pc[p] = "running" /\ GivesBack(p)

-----------------------------------------------------------------------------

Proceeds(p) ==
    \/ TakesPermit(p) \/ FindsFull(p) \/ Wakes(p)
    \/ ToolTakes(p) \/ ToolStarts(p) \/ TakesGlobal(p) \/ GlobalTakes(p) \/ GlobalStarts(p)
    \/ Ends(p)

Clears ==
    \/ \E s \in ToolSlots : ToolClears(s)
    \/ \E s \in GlobalSlots : GlobalClears(s)

Next ==
    \/ \E p \in Invocations, m \in Limits : \E r \in Entries[p] : Calls(p, r, m)
    \/ \E p \in Invocations : Proceeds(p) \/ Loses(p) \/ Refused(p)
    \/ \E r \in Replicas : Prunes(r)
    \/ Clears

Spec == Init /\ [][Next]_vars

\* Some task goes on while any can, work ends by its own timeout, and a row
\* without a holder is released or expires.  Nothing is hoped of the queue timeout.
FairSpec == Spec /\ WF_vars(Clears \/ \E p \in Invocations : Proceeds(p))

-----------------------------------------------------------------------------
(* Properties                                                               *)

Works(p) == pc[p] = "running" /\ ~lost[p]

\* "so they bound the whole cluster" (runtime.rs:346): no more invocations work
\* at once, over all replicas, than max_concurrent_global, and of those admitted
\* under a limit of m no more than m, whatever the limit became for others.
ClusterBound ==
    /\ Cardinality({p \in Invocations : Works(p)}) <= MaxGlobal
    /\ \A m \in Limits :
          Cardinality({p \in Invocations : Works(p) /\ plan[p] <= m}) <= m

\* Every way out gives back exactly what was taken: the queue, the replica's
\* permits and the limiter's count agree with the invocations that hold them.
PermitsAccounted ==
    /\ \A r \in Replicas :
          LET here == {p \in Invocations : replica[p] = r}
          IN  /\ queue[r] + Cardinality({p \in here : pc[p] \in Waits \cup {"running"}}) = MaxQueue
              /\ global[r] + Cardinality({p \in here : HasGlobalPermit(p)}) = MaxGlobal
    /\ \A l \in Limiters :
          running[l] = Cardinality({p \in Invocations : limiter[p] = l /\ HasToolPermit(p)})

\* A limiter is dropped only when nobody has it: all invocations of the tool at a
\* replica go through one limiter, across policies with and without the tool.
OneLimiter ==
    \A p \in Invocations : limiter[p] # NoLimiter => limiter[p] = current[replica[p]]

\* Every invocation with a place in the queue gets to run, if its queue timeout
\* lets it: no notification is lost, and nobody waits for another in a circle.
\* Each calls once, so a time comes when nobody waits.
EveryoneServed ==
    (\E p \in Invocations : pc[p] \in Waits) ~> (\A p \in Invocations : pc[p] \notin Waits)

=============================================================================
