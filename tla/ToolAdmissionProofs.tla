------------------------- MODULE ToolAdmissionProofs -------------------------
(* Proofs about ToolAdmission, for every set of invocations, replicas and    *)
(* limits and every size of the queue and of the global capacity.            *)
EXTENDS ToolAdmission, FiniteSetTheorems, FunctionTheorems, TLAPS

Active == Waits \cup {"running"}

\* The types the proofs need; the ranges of the counters follow from
\* PermitsAccounted.
Types ==
    /\ pc \in [Invocations -> PCs]
    /\ replica \in [Invocations -> Replicas \cup {NoReplica}]
    /\ current \in [Replicas -> Limiters \cup {NoLimiter}]
    /\ limiter \in [Invocations -> Limiters \cup {NoLimiter}]
    /\ running \in [Limiters -> Int]
    /\ queue \in [Replicas -> Int]
    /\ global \in [Replicas -> Int]
    /\ plan \in [Invocations -> Limits \cup {0}]
    /\ slot \in [Invocations -> Int]
    /\ lost \in [Invocations -> BOOLEAN]

\* An invocation that waits or runs has its replica and its limiter.
Placed == \A p \in Invocations :
    pc[p] \in Active => replica[p] \in Replicas /\ limiter[p] \in Limiters

\* A slot is remembered only while its acquisition is under way.
SlotKnown == \A p \in Invocations : slot[p] # NoSlot =>
    \/ pc[p] = "leasing" /\ slot[p] \in SlotsFor(p)
    \/ pc[p] = "leasing_global" /\ slot[p] \in GlobalSlots

\* Nobody shares a slot of a scope.
Exclusive(working) ==
    \A p, q \in Invocations, s \in Int : <<p, s>> \in working /\ <<q, s>> \in working => p = q

\* Who got past the lease of the tool works under a slot below its capacity,
\* until the renewal gives up.
ToolHeld == \A p \in Invocations :
    pc[p] \in {"queued", "leasing_global", "running"} /\ ~lost[p] =>
        \E s \in SlotsFor(p) : <<p, s>> \in tool_working

GlobalHeld == \A p \in Invocations :
    pc[p] = "running" => \E s \in GlobalSlots : <<p, s>> \in global_working

Leased == /\ SlotKnown /\ ToolHeld /\ GlobalHeld
          /\ Exclusive(tool_working) /\ Exclusive(global_working)

-----------------------------------------------------------------------------
(* Types                                                                     *)

USE DEF Waits, Wide, PCs, NoSlot

LEMMA LimiterType ==
    ASSUME Types, NEW r \in Replicas,
           current[r] # NoLimiter \/ \E k \in Limiters : Unused(k)
    PROVE  LimiterFor(r) \in Limiters /\ LimiterFor(r) # NoLimiter
BY AdmissionAssumption DEF Types, LimiterFor

LEMMA CallsType ==
    ASSUME Types, NEW p \in Invocations, NEW r \in Replicas, NEW m \in Limits, Calls(p, r, m)
    PROVE  Types'
<1>1. LimiterFor(r) \in Limiters
    BY LimiterType DEF Calls
<1>2. CASE queue[r] > 0 /\ pc' = [pc EXCEPT ![p] = "enabled"]
    BY <1>1, <1>2 DEF Calls, Types
<1>3. CASE pc' = [pc EXCEPT ![p] = "over"]
    BY <1>1, <1>3 DEF Calls, Types
<1> QED BY <1>2, <1>3 DEF Calls

LEMMA GivesBackType ==
    ASSUME Types, Placed, NEW p \in Invocations, pc[p] \in Active, GivesBack(p)
    PROVE  Types'
<1>1. replica[p] \in Replicas /\ limiter[p] \in Limiters
    BY DEF Placed
<1>2. running' \in [Limiters -> Int]
    BY <1>1 DEF GivesBack, DropsPermit, Types
<1> QED BY <1>1, <1>2 DEF GivesBack, Types

LEMMA ProceedsType ==
    ASSUME Types, Placed, NEW p \in Invocations, Proceeds(p) \/ Loses(p) \/ Refused(p)
    PROVE  Types'
<1>1. CASE TakesPermit(p)
    <2>1. limiter[p] \in Limiters
        BY <1>1 DEF TakesPermit, Placed, Active
    <2> QED BY <1>1, <2>1 DEF TakesPermit, Types, locals, permits
<1>2. CASE FindsFull(p)
    BY <1>2 DEF FindsFull, Types, locals, permits, limits
<1>3. CASE Wakes(p)
    BY <1>3 DEF Wakes, Types, locals, permits
<1>4. CASE ToolTakes(p)
    <2>1. PICK s \in SlotsFor(p) : slot' = [slot EXCEPT ![p] = s]
        BY <1>4 DEF ToolTakes
    <2>2. s \in Int
        BY <2>1 DEF SlotsFor
    <2> QED BY <1>4, <2>1, <2>2 DEF ToolTakes, Types, locals, permits, limits
<1>5. CASE ToolStarts(p)
    BY <1>5 DEF ToolStarts, Types, locals, permits, limits
<1>6. CASE TakesGlobal(p)
    <2>1. replica[p] \in Replicas
        BY <1>6 DEF TakesGlobal, Placed, Active
    <2> QED BY <1>6, <2>1 DEF TakesGlobal, Types, locals, limits
<1>7. CASE GlobalTakes(p)
    <2>1. PICK s \in GlobalSlots : slot' = [slot EXCEPT ![p] = s]
        BY <1>7 DEF GlobalTakes
    <2>2. s \in Int
        BY <2>1 DEF GlobalSlots
    <2> QED BY <1>7, <2>1, <2>2 DEF GlobalTakes, Types, locals, permits, limits
<1>8. CASE GlobalStarts(p)
    BY <1>8 DEF GlobalStarts, Types, locals, permits, limits
<1>9. CASE Ends(p) \/ Refused(p)
    BY <1>9, GivesBackType DEF Ends, Refused, Active
<1>10. CASE Loses(p)
    BY <1>10 DEF Loses, Types, permits, limits
<1> QED BY <1>1, <1>2, <1>3, <1>4, <1>5, <1>6, <1>7, <1>8, <1>9, <1>10 DEF Proceeds

LEMMA RestType ==
    ASSUME Types, (\E r \in Replicas : Prunes(r)) \/ Clears
    PROVE  Types'
<1>1. ASSUME NEW r \in Replicas, Prunes(r) PROVE Types'
    BY <1>1 DEF Prunes, Types, locals, permits
<1>2. ASSUME Clears PROVE Types'
    BY <1>2 DEF Clears, ToolClears, GlobalClears, Types, locals, permits, limits
<1> QED BY <1>1, <1>2

-----------------------------------------------------------------------------
(* Replica and limiter of an invocation                                      *)

LEMMA CallsPlaced ==
    ASSUME Types, Placed, OneLimiter,
           NEW p \in Invocations, NEW r \in Replicas, NEW m \in Limits, Calls(p, r, m)
    PROVE  Placed' /\ OneLimiter'
<1>1. LimiterFor(r) \in Limiters /\ LimiterFor(r) # NoLimiter
    BY LimiterType DEF Calls
<1>2. current' = [current EXCEPT ![r] = LimiterFor(r)]
    BY DEF Calls
<1>3. ASSUME NEW q \in Invocations, limiter[q] # NoLimiter
      PROVE  current'[replica[q]] = current[replica[q]]
    <2>1. CASE replica[q] = r
        <3>1. current[r] # NoLimiter
            BY <1>3, <2>1 DEF OneLimiter
        <3> QED BY <1>2, <2>1, <3>1 DEF LimiterFor, Types
    <2>2. CASE replica[q] # r
        BY <1>2, <2>2 DEF Types
    <2> QED BY <2>1, <2>2
<1>4. CASE queue[r] > 0 /\ pc' = [pc EXCEPT ![p] = "enabled"]
    <2>1. /\ replica' = [replica EXCEPT ![p] = r]
          /\ limiter' = [limiter EXCEPT ![p] = LimiterFor(r)]
        BY <1>4 DEF Calls
    <2>2. Placed'
        BY <1>1, <1>4, <2>1 DEF Placed, Types, Active
    <2>3. ASSUME NEW q \in Invocations, limiter'[q] # NoLimiter
          PROVE  limiter'[q] = current'[replica'[q]]
        <3>1. CASE q = p
            BY <1>2, <2>1, <3>1 DEF Types
        <3>2. CASE q # p
            <4>1. limiter'[q] = limiter[q] /\ replica'[q] = replica[q]
                BY <2>1, <3>2 DEF Types
            <4> QED BY <1>3, <2>3, <4>1 DEF OneLimiter
        <3> QED BY <3>1, <3>2
    <2> QED BY <2>2, <2>3 DEF OneLimiter
<1>5. CASE pc' = [pc EXCEPT ![p] = "over"]
    <2>1. UNCHANGED <<replica, limiter>>
        BY <1>5 DEF Calls, Types
    <2>2. Placed'
        BY <1>5, <2>1 DEF Placed, Types, Active
    <2>3. OneLimiter'
        BY <1>3, <2>1 DEF OneLimiter
    <2> QED BY <2>2, <2>3
<1> QED BY <1>4, <1>5 DEF Calls

\* A limiter that an invocation refers to is not pruned.
LEMMA PrunesPlaced ==
    ASSUME Types, Placed, OneLimiter, NEW r \in Replicas, Prunes(r)
    PROVE  Placed' /\ OneLimiter'
<1>1. UNCHANGED <<pc, replica, limiter>> /\ current' = [current EXCEPT ![r] = NoLimiter]
    BY DEF Prunes, locals
<1>2. Placed'
    BY <1>1 DEF Placed
<1>3. ASSUME NEW q \in Invocations, limiter[q] # NoLimiter
      PROVE  limiter[q] = current'[replica[q]]
    <2>1. limiter[q] = current[replica[q]]
        BY <1>3 DEF OneLimiter
    <2>2. replica[q] # r
        BY <2>1 DEF Prunes, Referred
    <2> QED BY <1>1, <2>1, <2>2 DEF Types
<1> QED BY <1>1, <1>2, <1>3 DEF OneLimiter

LEMMA GivesBackPlaced ==
    ASSUME Types, Placed, OneLimiter, NEW p \in Invocations, GivesBack(p)
    PROVE  Placed' /\ OneLimiter'
<1>1. /\ pc' = [pc EXCEPT ![p] = "over"] /\ current' = current
      /\ replica' = [replica EXCEPT ![p] = NoReplica]
      /\ limiter' = [limiter EXCEPT ![p] = NoLimiter]
    BY DEF GivesBack
<1>2. Placed'
    BY <1>1 DEF Placed, Types, Active
<1>3. OneLimiter'
    BY <1>1 DEF OneLimiter, Types
<1> QED BY <1>2, <1>3

LEMMA OthersPlaced ==
    ASSUME Types, Placed, OneLimiter, UNCHANGED <<replica, limiter, current>>,
           \A q \in Invocations : pc'[q] \in Active => pc[q] \in Active
    PROVE  Placed' /\ OneLimiter'
BY DEF Placed, OneLimiter

LEMMA ProceedsPlaced ==
    ASSUME Types, Placed, OneLimiter, NEW p \in Invocations,
           Proceeds(p) \/ Loses(p) \/ Refused(p)
    PROVE  Placed' /\ OneLimiter'
<1>1. CASE Ends(p) \/ Refused(p)
    BY <1>1, GivesBackPlaced DEF Ends, Refused
<1>2. CASE TakesPermit(p) \/ FindsFull(p) \/ Wakes(p) \/ ToolTakes(p) \/ ToolStarts(p)
    <2>1. UNCHANGED <<replica, limiter, current>>
        BY <1>2 DEF TakesPermit, FindsFull, Wakes, ToolTakes, ToolStarts, locals, limits
    <2>2. \A q \in Invocations : pc'[q] \in Active => pc[q] \in Active
        BY <1>2 DEF TakesPermit, FindsFull, Wakes, ToolTakes, ToolStarts, Types, Active
    <2> QED BY <2>1, <2>2, OthersPlaced
<1>3. CASE TakesGlobal(p) \/ GlobalTakes(p) \/ GlobalStarts(p) \/ Loses(p)
    <2>1. UNCHANGED <<replica, limiter, current>>
        BY <1>3 DEF TakesGlobal, GlobalTakes, GlobalStarts, Loses, locals, limits
    <2>2. \A q \in Invocations : pc'[q] \in Active => pc[q] \in Active
        BY <1>3 DEF TakesGlobal, GlobalTakes, GlobalStarts, Loses, Types, Active
    <2> QED BY <2>1, <2>2, OthersPlaced
<1> QED BY <1>1, <1>2, <1>3 DEF Proceeds

LEMMA ClearsPlaced ==
    ASSUME Types, Placed, OneLimiter, Clears
    PROVE  Placed' /\ OneLimiter'
<1>1. UNCHANGED <<pc, replica, limiter, current>>
    BY DEF Clears, ToolClears, GlobalClears, locals, limits
<1> QED BY <1>1, OthersPlaced

-----------------------------------------------------------------------------
(* Leases                                                                    *)

\* A step of p alone on its own program counter, slot and plan.
LEMMA SlotFrame ==
    ASSUME Types, SlotKnown, NEW p \in Invocations,
           \A q \in Invocations \ {p} :
               pc'[q] = pc[q] /\ slot'[q] = slot[q] /\ plan'[q] = plan[q],
           slot'[p] # NoSlot =>
               \/ pc'[p] = "leasing" /\ slot'[p] \in SlotsFor(p)'
               \/ pc'[p] = "leasing_global" /\ slot'[p] \in GlobalSlots
    PROVE  SlotKnown'
BY DEF SlotKnown, SlotsFor, GlobalSlots

\* Start keeps slots exclusive by its guard, and a fact about one who works.
LEMMA ToolStartFacts ==
    ASSUME NEW p, NEW s, Tool!Start(p, s)
    PROVE  /\ tool_working' = tool_working \cup {<<p, s>>}
           /\ \A q : <<q, s>> \notin tool_working
BY DEF Tool!Start

LEMMA GlobalStartFacts ==
    ASSUME NEW p, NEW s, Global!Start(p, s)
    PROVE  /\ global_working' = global_working \cup {<<p, s>>}
           /\ \A q : <<q, s>> \notin global_working
BY DEF Global!Start

LEMMA StartExclusive ==
    ASSUME NEW W, NEW V, NEW p \in Invocations, NEW s, Exclusive(W),
           V = W \cup {<<p, s>>}, \A q : <<q, s>> \notin W
    PROVE  Exclusive(V)
BY DEF Exclusive

LEMMA StopExclusive ==
    ASSUME NEW W, NEW V, Exclusive(W), V \subseteq W
    PROVE  Exclusive(V)
BY DEF Exclusive

\* A step that changes nothing of the leases but the rows of a scope.
LEMMA LeasedSame ==
    ASSUME Types, Leased, UNCHANGED <<pc, plan, slot, lost, tool_working, global_working>>
    PROVE  Leased'
BY DEF Leased, SlotKnown, ToolHeld, GlobalHeld, Exclusive, SlotsFor, GlobalSlots

\* A step of p before it has any lease.
LEMMA LeasedEarly ==
    ASSUME Types, Leased, NEW p \in Invocations,
           \A q \in Invocations \ {p} : pc'[q] = pc[q] /\ plan'[q] = plan[q],
           pc[p] \in {"idle", "enabled", "asleep"},
           pc'[p] \in {"enabled", "asleep", "leasing", "over"},
           UNCHANGED <<slot, lost, tool_working, global_working>>
    PROVE  Leased'
<1>1. slot[p] = NoSlot
    BY DEF Leased, SlotKnown
<1>2. SlotKnown'
    BY <1>1, SlotFrame DEF Leased
<1>3. ToolHeld' /\ GlobalHeld'
    BY DEF Leased, ToolHeld, GlobalHeld, SlotsFor, GlobalSlots
<1> QED BY <1>2, <1>3 DEF Leased, Exclusive

LEMMA CallsLeased ==
    ASSUME Types, Leased, NEW p \in Invocations, NEW r \in Replicas, NEW m \in Limits,
           Calls(p, r, m)
    PROVE  Leased'
<1>1. /\ pc[p] = "idle" /\ pc'[p] \in {"enabled", "over"}
      /\ \A q \in Invocations \ {p} : pc'[q] = pc[q] /\ plan'[q] = plan[q]
    BY DEF Calls, Types
<1>2. UNCHANGED <<slot, lost, tool_working, global_working>>
    BY DEF Calls, tool_scope, global_scope
<1> QED BY <1>1, <1>2, LeasedEarly

LEMMA GivesBackLeased ==
    ASSUME Types, Leased, NEW p \in Invocations, GivesBack(p)
    PROVE  Leased'
<1>1. /\ tool_working' = {w \in tool_working : w[1] # p}
      /\ global_working' = {w \in global_working : w[1] # p}
    BY DEF GivesBack, Tool!Stop, Global!Stop
<1>2. /\ pc'[p] = "over" /\ slot'[p] = NoSlot
      /\ \A q \in Invocations \ {p} : /\ pc'[q] = pc[q] /\ slot'[q] = slot[q]
                                        /\ plan'[q] = plan[q] /\ lost'[q] = lost[q]
    BY DEF GivesBack, Types
<1>3. SlotKnown'
    BY <1>2, SlotFrame DEF Leased
<1>4. \A q \in Invocations \ {p} : \A t :
          /\ <<q, t>> \in tool_working => <<q, t>> \in tool_working'
          /\ <<q, t>> \in global_working => <<q, t>> \in global_working'
    BY <1>1
<1>5. ToolHeld'
    BY <1>2, <1>4 DEF Leased, ToolHeld, SlotsFor
<1>6. GlobalHeld'
    BY <1>2, <1>4 DEF Leased, GlobalHeld, GlobalSlots
<1>7. Exclusive(tool_working)' /\ Exclusive(global_working)'
    BY <1>1 DEF Leased, Exclusive
<1> QED BY <1>3, <1>5, <1>6, <1>7 DEF Leased

LEMMA ProceedsLeased ==
    ASSUME Types, Leased, NEW p \in Invocations, Proceeds(p) \/ Loses(p) \/ Refused(p)
    PROVE  Leased'
<1>0. /\ SlotKnown /\ ToolHeld /\ GlobalHeld
      /\ Exclusive(tool_working) /\ Exclusive(global_working)
    BY DEF Leased
<1>1. CASE TakesPermit(p) \/ FindsFull(p) \/ Wakes(p)
    <2>1. /\ pc[p] \in {"enabled", "asleep"} /\ pc'[p] \in {"enabled", "asleep", "leasing"}
          /\ \A q \in Invocations \ {p} : pc'[q] = pc[q]
        BY <1>1 DEF TakesPermit, FindsFull, Wakes, Types
    <2>2. UNCHANGED <<plan, slot, lost, tool_working, global_working>>
        BY <1>1 DEF TakesPermit, FindsFull, Wakes, locals, tool_scope, global_scope
    <2> QED BY <2>1, <2>2, LeasedEarly
<1>2. CASE ToolTakes(p)
    <2>1. PICK s \in SlotsFor(p) : slot' = [slot EXCEPT ![p] = s]
        BY <1>2 DEF ToolTakes
    <2>2. /\ pc[p] = "leasing"
          /\ UNCHANGED <<pc, plan, lost, tool_working, global_working>>
        BY <1>2 DEF ToolTakes, Tool!Take, locals, global_scope
    <2>3. SlotKnown'
        BY <1>0, <2>1, <2>2, SlotFrame DEF SlotsFor, Types
    <2> QED BY <1>0, <2>2, <2>3 DEF Leased, ToolHeld, GlobalHeld, Exclusive, SlotsFor, GlobalSlots
<1>3. CASE ToolStarts(p)
    <2>1. /\ pc[p] = "leasing" /\ slot[p] # NoSlot /\ Tool!Start(p, slot[p])
          /\ slot' = [slot EXCEPT ![p] = NoSlot] /\ pc' = [pc EXCEPT ![p] = "queued"]
          /\ UNCHANGED <<plan, lost, global_working>>
        BY <1>3 DEF ToolStarts, locals, global_scope
    <2>2. slot[p] \in SlotsFor(p)
        BY <1>0, <2>1 DEF SlotKnown
    <2>3. /\ tool_working' = tool_working \cup {<<p, slot[p]>>}
          /\ \A q : <<q, slot[p]>> \notin tool_working
        BY <2>1, ToolStartFacts
    <2>4. SlotKnown'
        BY <1>0, <2>1, SlotFrame DEF Types
    <2>5. ToolHeld'
        BY <1>0, <2>1, <2>2, <2>3 DEF ToolHeld, SlotsFor, Types
    <2>6. GlobalHeld'
        BY <1>0, <2>1 DEF GlobalHeld, GlobalSlots, Types
    <2>7. Exclusive(tool_working')
        BY <1>0, <2>3, StartExclusive
    <2> QED BY <1>0, <2>1, <2>4, <2>5, <2>6, <2>7 DEF Leased, Exclusive
<1>4. CASE TakesGlobal(p)
    <2>1. /\ pc[p] = "queued" /\ pc' = [pc EXCEPT ![p] = "leasing_global"]
          /\ UNCHANGED <<plan, slot, lost, tool_working, global_working>>
        BY <1>4 DEF TakesGlobal, locals, tool_scope, global_scope
    <2>2. slot[p] = NoSlot
        BY <1>0, <2>1 DEF SlotKnown
    <2>3. SlotKnown'
        BY <1>0, <2>1, <2>2, SlotFrame DEF Types
    <2>4. ToolHeld' /\ GlobalHeld'
        BY <1>0, <2>1 DEF ToolHeld, GlobalHeld, SlotsFor, GlobalSlots, Types
    <2> QED BY <1>0, <2>1, <2>3, <2>4 DEF Leased, Exclusive
<1>5. CASE GlobalTakes(p)
    <2>1. PICK s \in GlobalSlots : slot' = [slot EXCEPT ![p] = s]
        BY <1>5 DEF GlobalTakes
    <2>2. /\ pc[p] = "leasing_global"
          /\ UNCHANGED <<pc, plan, lost, tool_working, global_working>>
        BY <1>5 DEF GlobalTakes, Global!Take, locals, tool_scope
    <2>3. SlotKnown'
        BY <1>0, <2>1, <2>2, SlotFrame DEF Types
    <2> QED BY <1>0, <2>2, <2>3 DEF Leased, ToolHeld, GlobalHeld, Exclusive, SlotsFor, GlobalSlots
<1>6. CASE GlobalStarts(p)
    <2>1. /\ pc[p] = "leasing_global" /\ slot[p] # NoSlot /\ Global!Start(p, slot[p])
          /\ slot' = [slot EXCEPT ![p] = NoSlot] /\ pc' = [pc EXCEPT ![p] = "running"]
          /\ UNCHANGED <<plan, lost, tool_working>>
        BY <1>6 DEF GlobalStarts, locals, tool_scope
    <2>2. slot[p] \in GlobalSlots
        BY <1>0, <2>1 DEF SlotKnown
    <2>3. /\ global_working' = global_working \cup {<<p, slot[p]>>}
          /\ \A q : <<q, slot[p]>> \notin global_working
        BY <2>1, GlobalStartFacts
    <2>4. SlotKnown'
        BY <1>0, <2>1, SlotFrame DEF Types
    <2>5. ToolHeld'
        BY <1>0, <2>1 DEF ToolHeld, SlotsFor, Types
    <2>6. GlobalHeld'
        BY <1>0, <2>1, <2>2, <2>3 DEF GlobalHeld, GlobalSlots, Types
    <2>7. Exclusive(global_working')
        BY <1>0, <2>3, StartExclusive
    <2> QED BY <1>0, <2>1, <2>4, <2>5, <2>6, <2>7 DEF Leased, Exclusive
<1>7. CASE Loses(p)
    <2>1. /\ pc[p] \in {"queued", "leasing_global"} /\ lost' = [lost EXCEPT ![p] = TRUE]
          /\ tool_working' = {w \in tool_working : w[1] # p}
          /\ UNCHANGED <<pc, plan, slot, global_working>>
        BY <1>7 DEF Loses, Tool!Stop, global_scope
    <2>2. \A q \in Invocations \ {p} : \A t : <<q, t>> \in tool_working => <<q, t>> \in tool_working'
        BY <2>1
    <2>3. SlotKnown' /\ GlobalHeld'
        BY <1>0, <2>1 DEF SlotKnown, GlobalHeld, SlotsFor, GlobalSlots
    <2>4. ToolHeld'
        BY <1>0, <2>1, <2>2 DEF ToolHeld, SlotsFor, Types
    <2>5. Exclusive(tool_working')
        BY <1>0, <2>1, StopExclusive
    <2> QED BY <1>0, <2>1, <2>3, <2>4, <2>5 DEF Leased, Exclusive
<1>8. CASE Ends(p) \/ Refused(p)
    BY <1>8, GivesBackLeased DEF Ends, Refused
<1> QED BY <1>1, <1>2, <1>3, <1>4, <1>5, <1>6, <1>7, <1>8 DEF Proceeds

LEMMA RestLeased ==
    ASSUME Types, Leased, (\E r \in Replicas : Prunes(r)) \/ Clears
    PROVE  Leased'
<1>1. UNCHANGED <<pc, plan, slot, lost, tool_working, global_working>>
    BY DEF Prunes, Clears, ToolClears, GlobalClears, Tool!Clear, Global!Clear,
           locals, tool_scope, global_scope
<1> QED BY <1>1, LeasedSame

-----------------------------------------------------------------------------
(* The bound of the cluster: whoever works has a slot of its own below the   *)
(* capacity, so there are at most as many as slots.                          *)

LEMMA Pigeons ==
    ASSUME NEW S \in SUBSET Invocations, NEW n \in Nat, NEW W, Exclusive(W),
           \A p \in S : \E s \in 0..(n - 1) : <<p, s>> \in W
    PROVE  Cardinality(S) <= n
<1> DEFINE f == [p \in S |-> CHOOSE s \in 0..(n - 1) : <<p, s>> \in W]
<1>1. \A p \in S : f[p] \in 0..(n - 1) /\ <<p, f[p]>> \in W
    OBVIOUS
<1>2. f \in [S -> 0..(n - 1)]
    BY <1>1
<1> HIDE DEF f
<1>3. ASSUME NEW p \in S, NEW q \in S, f[p] = f[q] PROVE p = q
    <2>1. f[p] \in Int /\ <<p, f[p]>> \in W /\ <<q, f[p]>> \in W
        BY <1>1, <1>3
    <2>2. p \in Invocations /\ q \in Invocations
        OBVIOUS
    <2> QED BY <2>1, <2>2 DEF Exclusive
<1>4. f \in Injection(S, 0..(n - 1))
    BY <1>2, <1>3 DEF Injection, IsInjective
<1>5. IsFiniteSet(0..(n - 1)) /\ Cardinality(0..(n - 1)) = n
    BY FS_Interval
<1> QED BY <1>4, <1>5, FS_Injection

LEMMA LeasedBound ==
    ASSUME Types, Leased
    PROVE  ClusterBound
<1>1. Cardinality({p \in Invocations : Works(p)}) <= MaxGlobal
    <2>1. MaxGlobal \in Nat
        BY AdmissionAssumption
    <2>2. \A p \in {q \in Invocations : Works(q)} :
              \E s \in 0..(MaxGlobal - 1) : <<p, s>> \in global_working
        BY DEF Leased, GlobalHeld, Works, GlobalSlots
    <2>3. Exclusive(global_working) /\ {p \in Invocations : Works(p)} \in SUBSET Invocations
        BY DEF Leased
    <2> QED BY <2>1, <2>2, <2>3, Pigeons
<1>2. ASSUME NEW m \in Limits
      PROVE  Cardinality({p \in Invocations : Works(p) /\ plan[p] <= m}) <= m
    <2>1. m \in Nat /\ Limits \subseteq Nat
        BY AdmissionAssumption
    <2>2. ASSUME NEW p \in Invocations, Works(p), plan[p] <= m
          PROVE  \E s \in 0..(m - 1) : <<p, s>> \in tool_working
        <3>1. PICK s \in SlotsFor(p) : <<p, s>> \in tool_working
            BY <2>2 DEF Leased, ToolHeld, Works
        <3>2. plan[p] \in Limits \cup {0}
            BY DEF Types
        <3>3. plan[p] \in Int
            <4>1. \A k \in Limits \cup {0} : k \in Int
                BY <2>1
            <4> QED BY <3>2, <4>1, Zenon
        <3>4. s \in 0..(plan[p] - 1)
            BY DEF SlotsFor
        <3>5. s \in 0..(m - 1)
            BY <2>1, <2>2, <3>3, <3>4
        <3> QED BY <3>1, <3>5
    <2>3. Exclusive(tool_working)
        BY DEF Leased
    <2> DEFINE S == {p \in Invocations : Works(p) /\ plan[p] <= m}
    <2>4. S \in SUBSET Invocations /\ \A p \in S : \E s \in 0..(m - 1) : <<p, s>> \in tool_working
        BY <2>2
    <2> HIDE DEF S
    <2>5. Cardinality(S) <= m
        BY <2>1, <2>3, <2>4, Pigeons
    <2> QED BY <2>5 DEF S
<1> QED BY <1>1, <1>2 DEF ClusterBound

-----------------------------------------------------------------------------
(* What the counters stand for                                               *)

InQueue(r) == {q \in Invocations : replica[q] = r /\ pc[q] \in Active}
WithGlobal(r) == {q \in Invocations : replica[q] = r /\ HasGlobalPermit(q)}
WithTool(l) == {q \in Invocations : limiter[q] = l /\ HasToolPermit(q)}

\* 1 if p is in S.
Share(p, S) == IF p \in S THEN 1 ELSE 0

LEMMA Accounts ==
    PermitsAccounted <=>
        /\ \A r \in Replicas : /\ queue[r] + Cardinality(InQueue(r)) = MaxQueue
                              /\ global[r] + Cardinality(WithGlobal(r)) = MaxGlobal
        /\ \A l \in Limiters : running[l] = Cardinality(WithTool(l))
<1>1. ASSUME NEW r
      PROVE  /\ InQueue(r) = {q \in {p \in Invocations : replica[p] = r} :
                                  pc[q] \in Waits \cup {"running"}}
             /\ WithGlobal(r) = {q \in {p \in Invocations : replica[p] = r} : HasGlobalPermit(q)}
    BY DEF InQueue, WithGlobal, Active
<1> QED BY <1>1 DEF PermitsAccounted, WithTool

\* A set of invocations that changes by p alone.
LEMMA CardinalityStep ==
    ASSUME NEW S \in SUBSET Invocations, NEW T \in SUBSET Invocations, NEW p,
           S \ {p} = T \ {p}
    PROVE  /\ Cardinality(S) \in Int /\ Cardinality(T) \in Int
           /\ Cardinality(T) - Share(p, T) = Cardinality(S) - Share(p, S)
<1>1. IsFiniteSet(S) /\ IsFiniteSet(T)
    BY AdmissionAssumption, FS_Subset
<1>2. Cardinality(S) \in Nat /\ Cardinality(T) \in Nat
    BY <1>1, FS_CardinalityType
<1>3. Cardinality(S \ {p}) = Cardinality(S) - Share(p, S)
    <2>1. Cardinality(S \ {p}) = IF p \in S THEN Cardinality(S) - 1 ELSE Cardinality(S)
        BY <1>1, FS_RemoveElement
    <2> QED BY <1>2, <2>1 DEF Share
<1>4. Cardinality(T \ {p}) = Cardinality(T) - Share(p, T)
    <2>1. Cardinality(T \ {p}) = IF p \in T THEN Cardinality(T) - 1 ELSE Cardinality(T)
        BY <1>1, FS_RemoveElement
    <2> QED BY <1>2, <2>1 DEF Share
<1> QED BY <1>2, <1>3, <1>4

\* A step of p keeps the accounts if each counter moves with p's own share.
LEMMA AccountsStep ==
    ASSUME PermitsAccounted, Types, Types', NEW p \in Invocations,
           \A q \in Invocations \ {p} :
               pc'[q] = pc[q] /\ replica'[q] = replica[q] /\ limiter'[q] = limiter[q],
           \A r \in Replicas :
               /\ queue'[r] + Share(p, InQueue(r)') = queue[r] + Share(p, InQueue(r))
               /\ global'[r] + Share(p, WithGlobal(r)') = global[r] + Share(p, WithGlobal(r)),
           \A l \in Limiters :
               running'[l] - Share(p, WithTool(l)') = running[l] - Share(p, WithTool(l))
    PROVE  PermitsAccounted'
<1>1. ASSUME NEW r \in Replicas
      PROVE  /\ queue'[r] + Cardinality(InQueue(r)') = MaxQueue
             /\ global'[r] + Cardinality(WithGlobal(r)') = MaxGlobal
    <2>1. /\ InQueue(r) \in SUBSET Invocations /\ InQueue(r)' \in SUBSET Invocations
          /\ InQueue(r) \ {p} = InQueue(r)' \ {p}
        BY DEF InQueue
    <2>2. /\ WithGlobal(r) \in SUBSET Invocations /\ WithGlobal(r)' \in SUBSET Invocations
          /\ WithGlobal(r) \ {p} = WithGlobal(r)' \ {p}
        BY DEF WithGlobal, HasGlobalPermit
    <2>3. /\ queue[r] \in Int /\ queue'[r] \in Int /\ global[r] \in Int /\ global'[r] \in Int
          /\ MaxQueue \in Int /\ MaxGlobal \in Int
        BY AdmissionAssumption DEF Types
    <2>4. \A S : Share(p, S) \in Int
        BY DEF Share
    <2>5. queue[r] + Cardinality(InQueue(r)) = MaxQueue /\ global[r] + Cardinality(WithGlobal(r)) = MaxGlobal
        BY Accounts
    <2>6. /\ Cardinality(InQueue(r)) \in Int /\ Cardinality(InQueue(r)') \in Int
          /\ Cardinality(InQueue(r)') - Share(p, InQueue(r)')
                = Cardinality(InQueue(r)) - Share(p, InQueue(r))
        BY <2>1, CardinalityStep
    <2>7. /\ Cardinality(WithGlobal(r)) \in Int /\ Cardinality(WithGlobal(r)') \in Int
          /\ Cardinality(WithGlobal(r)') - Share(p, WithGlobal(r)')
                = Cardinality(WithGlobal(r)) - Share(p, WithGlobal(r))
        BY <2>2, CardinalityStep
    <2> QED BY <2>3, <2>4, <2>5, <2>6, <2>7
<1>2. ASSUME NEW l \in Limiters
      PROVE  running'[l] = Cardinality(WithTool(l)')
    <2>1. /\ WithTool(l) \in SUBSET Invocations /\ WithTool(l)' \in SUBSET Invocations
          /\ WithTool(l) \ {p} = WithTool(l)' \ {p}
        BY DEF WithTool, HasToolPermit
    <2>2. running[l] \in Int /\ running'[l] \in Int /\ \A S : Share(p, S) \in Int
        BY DEF Types, Share
    <2>3. running[l] = Cardinality(WithTool(l))
        BY Accounts
    <2>4. /\ Cardinality(WithTool(l)) \in Int /\ Cardinality(WithTool(l)') \in Int
          /\ Cardinality(WithTool(l)') - Share(p, WithTool(l)')
                = Cardinality(WithTool(l)) - Share(p, WithTool(l))
        BY <2>1, CardinalityStep
    <2> QED BY <2>2, <2>3, <2>4
<1>3. (/\ \A r \in Replicas : /\ queue[r] + Cardinality(InQueue(r)) = MaxQueue
                             /\ global[r] + Cardinality(WithGlobal(r)) = MaxGlobal
       /\ \A l \in Limiters : running[l] = Cardinality(WithTool(l)))'
    BY <1>1, <1>2
<1>4. PermitsAccounted'
    BY <1>3, Accounts, PTL
<1> QED BY <1>4

LEMMA AccountsSame ==
    ASSUME PermitsAccounted, UNCHANGED <<pc, replica, limiter, running, queue, global>>
    PROVE  PermitsAccounted'
BY DEF PermitsAccounted, HasGlobalPermit, HasToolPermit

\* A step of p that moves no counter and keeps p's shares.
LEMMA AccountsIdle ==
    ASSUME PermitsAccounted, Types, Types', NEW p \in Invocations, NEW c \in PCs,
           pc' = [pc EXCEPT ![p] = c], UNCHANGED <<replica, limiter, running, queue, global>>,
           c \in Active <=> pc[p] \in Active,
           c \in Wide \cup {"running"} <=> pc[p] \in Wide \cup {"running"},
           c \in {"leasing_global", "running"} <=> pc[p] \in {"leasing_global", "running"}
    PROVE  PermitsAccounted'
<1>1. pc'[p] = c /\ \A q \in Invocations \ {p} : pc'[q] = pc[q]
    BY DEF Types
<1>2. \A r \in Replicas : /\ Share(p, InQueue(r)') = Share(p, InQueue(r))
                          /\ Share(p, WithGlobal(r)') = Share(p, WithGlobal(r))
    BY <1>1 DEF Share, InQueue, WithGlobal, HasGlobalPermit
<1>3. \A l \in Limiters : Share(p, WithTool(l)') = Share(p, WithTool(l))
    BY <1>1 DEF Share, WithTool, HasToolPermit
<1> QED BY <1>1, <1>2, <1>3, AccountsStep

LEMMA CallsAccounted ==
    ASSUME PermitsAccounted, Types, Types',
           NEW p \in Invocations, NEW r \in Replicas, NEW m \in Limits, Calls(p, r, m)
    PROVE  PermitsAccounted'
<1>1. CASE queue[r] > 0 /\ pc' = [pc EXCEPT ![p] = "enabled"]
    <2>1. /\ pc[p] = "idle" /\ pc'[p] = "enabled" /\ replica'[p] = r
          /\ \A q \in Invocations \ {p} :
                pc'[q] = pc[q] /\ replica'[q] = replica[q] /\ limiter'[q] = limiter[q]
          /\ queue' = [queue EXCEPT ![r] = @ - 1] /\ UNCHANGED <<global, running>>
        BY <1>1 DEF Calls, Types
    <2>2. ASSUME NEW k \in Replicas
          PROVE  /\ queue'[k] + Share(p, InQueue(k)') = queue[k] + Share(p, InQueue(k))
                 /\ global'[k] + Share(p, WithGlobal(k)') = global[k] + Share(p, WithGlobal(k))
        BY <2>1 DEF Types, Share, InQueue, WithGlobal, HasGlobalPermit, Active
    <2>3. ASSUME NEW l \in Limiters
          PROVE  running'[l] - Share(p, WithTool(l)') = running[l] - Share(p, WithTool(l))
        BY <2>1 DEF Share, WithTool, HasToolPermit
    <2> QED BY <2>1, <2>2, <2>3, AccountsStep
<1>2. CASE pc' = [pc EXCEPT ![p] = "over"]
    <2>1. pc[p] = "idle" /\ UNCHANGED <<replica, limiter, running, queue, global>>
        BY <1>2 DEF Calls, Types
    <2> QED BY <1>2, <2>1, AccountsIdle DEF Active
<1> QED BY <1>1, <1>2 DEF Calls

LEMMA GivesBackAccounted ==
    ASSUME PermitsAccounted, Types, Types', Placed, NEW p \in Invocations,
           pc[p] \in Active, GivesBack(p)
    PROVE  PermitsAccounted'
<1>1. replica[p] \in Replicas /\ limiter[p] \in Limiters
    BY DEF Placed
<1>2. /\ pc'[p] = "over"
      /\ \A q \in Invocations \ {p} :
            pc'[q] = pc[q] /\ replica'[q] = replica[q] /\ limiter'[q] = limiter[q]
    BY DEF GivesBack, Types
<1>3. ASSUME NEW r \in Replicas
      PROVE  queue'[r] + Share(p, InQueue(r)') = queue[r] + Share(p, InQueue(r))
    <2>1. queue' = [queue EXCEPT ![replica[p]] = @ + 1]
        BY DEF GivesBack
    <2> QED BY <1>1, <1>2, <2>1 DEF Types, Share, InQueue, Active
<1>4. ASSUME NEW r \in Replicas
      PROVE  global'[r] + Share(p, WithGlobal(r)') = global[r] + Share(p, WithGlobal(r))
    <2>1. global' = IF HasGlobalPermit(p) THEN [global EXCEPT ![replica[p]] = @ + 1] ELSE global
        BY DEF GivesBack
    <2> QED BY <1>1, <1>2, <2>1 DEF Types, Share, WithGlobal, HasGlobalPermit
<1>5. ASSUME NEW l \in Limiters
      PROVE  running'[l] - Share(p, WithTool(l)') = running[l] - Share(p, WithTool(l))
    <2>1. \/ HasToolPermit(p) /\ running' = [running EXCEPT ![limiter[p]] = @ - 1]
          \/ ~HasToolPermit(p) /\ running' = running
        BY DEF GivesBack, DropsPermit
    <2> QED BY <1>1, <1>2, <2>1 DEF Types, Share, WithTool, HasToolPermit
<1> QED BY <1>2, <1>3, <1>4, <1>5, AccountsStep

LEMMA ProceedsAccounted ==
    ASSUME PermitsAccounted, Types, Types', Placed, NEW p \in Invocations,
           Proceeds(p) \/ Loses(p) \/ Refused(p)
    PROVE  PermitsAccounted'
<1>1. CASE TakesPermit(p)
    <2>1. /\ pc[p] = "enabled" /\ pc'[p] = "leasing" /\ limiter[p] \in Limiters
          /\ \A q \in Invocations \ {p} : pc'[q] = pc[q]
          /\ UNCHANGED <<replica, limiter, queue, global>>
          /\ running' = [running EXCEPT ![limiter[p]] = @ + 1]
        BY <1>1 DEF TakesPermit, Types, Placed, Active, locals, permits
    <2>2. \A r \in Replicas : /\ Share(p, InQueue(r)') = Share(p, InQueue(r))
                              /\ Share(p, WithGlobal(r)') = Share(p, WithGlobal(r))
        BY <2>1 DEF Share, InQueue, WithGlobal, HasGlobalPermit, Active
    <2>3. ASSUME NEW l \in Limiters
          PROVE  running'[l] - Share(p, WithTool(l)') = running[l] - Share(p, WithTool(l))
        BY <2>1 DEF Types, Share, WithTool, HasToolPermit
    <2> QED BY <2>1, <2>2, <2>3, AccountsStep
<1>2. CASE TakesGlobal(p)
    <2>1. /\ pc[p] = "queued" /\ pc'[p] = "leasing_global" /\ replica[p] \in Replicas
          /\ \A q \in Invocations \ {p} : pc'[q] = pc[q]
          /\ UNCHANGED <<replica, limiter, queue, running>>
          /\ global' = [global EXCEPT ![replica[p]] = @ - 1]
        BY <1>2 DEF TakesGlobal, Types, Placed, Active, locals, limits
    <2>2. \A r \in Replicas : Share(p, InQueue(r)') = Share(p, InQueue(r))
        BY <2>1 DEF Share, InQueue, Active
    <2>3. ASSUME NEW r \in Replicas
          PROVE  global'[r] + Share(p, WithGlobal(r)') = global[r] + Share(p, WithGlobal(r))
        BY <2>1 DEF Types, Share, WithGlobal, HasGlobalPermit
    <2>4. \A l \in Limiters : Share(p, WithTool(l)') = Share(p, WithTool(l))
        BY <2>1 DEF Share, WithTool, HasToolPermit
    <2> QED BY <2>1, <2>2, <2>3, <2>4, AccountsStep
<1>3. CASE FindsFull(p)
    BY <1>3, AccountsIdle DEF FindsFull, Active, locals, limits, permits
<1>4. CASE Wakes(p)
    BY <1>4, AccountsIdle DEF Wakes, Active, locals, permits
<1>5. CASE ToolStarts(p)
    BY <1>5, AccountsIdle DEF ToolStarts, Active, locals, limits, permits
<1>6. CASE GlobalStarts(p)
    BY <1>6, AccountsIdle DEF GlobalStarts, Active, locals, limits, permits
<1>7. CASE ToolTakes(p) \/ GlobalTakes(p) \/ Loses(p)
    BY <1>7, AccountsSame DEF ToolTakes, GlobalTakes, Loses, locals, limits, permits
<1>8. CASE Ends(p) \/ Refused(p)
    BY <1>8, GivesBackAccounted DEF Ends, Refused, Active
<1> QED BY <1>1, <1>2, <1>3, <1>4, <1>5, <1>6, <1>7, <1>8 DEF Proceeds

LEMMA RestAccounted ==
    ASSUME PermitsAccounted, (\E r \in Replicas : Prunes(r)) \/ Clears
    PROVE  PermitsAccounted'
<1>1. UNCHANGED <<pc, replica, limiter, running, queue, global>>
    BY DEF Prunes, Clears, ToolClears, GlobalClears, locals, limits, permits
<1> QED BY <1>1, AccountsSame

-----------------------------------------------------------------------------
(* The theorems                                                              *)

IInv == Types /\ Placed /\ OneLimiter /\ Leased /\ PermitsAccounted

LEMMA InitInv == Init => IInv
<1> SUFFICES ASSUME Init PROVE IInv
    OBVIOUS
<1>1. Types
    BY AdmissionAssumption DEF Init, Types
<1>2. Placed /\ OneLimiter
    BY DEF Init, Placed, OneLimiter, Active
<1>3. Leased
    BY DEF Init, Leased, SlotKnown, ToolHeld, GlobalHeld, Exclusive, Tool!Init, Global!Init
<1>4. PermitsAccounted
    <2>1. /\ \A r \in Replicas : InQueue(r) = {} /\ WithGlobal(r) = {}
          /\ \A l \in Limiters : WithTool(l) = {}
        BY AdmissionAssumption
           DEF Init, InQueue, WithGlobal, WithTool, HasGlobalPermit, HasToolPermit, Active
    <2>2. /\ \A r \in Replicas : queue[r] = MaxQueue /\ global[r] = MaxGlobal
          /\ \A l \in Limiters : running[l] = 0
        BY DEF Init
    <2>3. Cardinality({}) = 0
        BY FS_EmptySet
    <2>4. \A r \in Replicas : /\ queue[r] + Cardinality(InQueue(r)) = MaxQueue
                              /\ global[r] + Cardinality(WithGlobal(r)) = MaxGlobal
        BY <2>1, <2>2, <2>3, AdmissionAssumption
    <2>5. \A l \in Limiters : running[l] = Cardinality(WithTool(l))
        BY <2>1, <2>2, <2>3
    <2> QED BY <2>4, <2>5, Accounts
<1> QED BY <1>1, <1>2, <1>3, <1>4 DEF IInv

LEMMA StutterInv == ASSUME IInv, UNCHANGED vars PROVE IInv'
<1>1. UNCHANGED <<pc, replica, current, limiter, running, queue, global, plan, slot, lost,
                  tool_working, global_working>>
    BY DEF vars, locals, limits, permits, tool_scope, global_scope
<1>2. Types'
    BY <1>1 DEF IInv, Types
<1>3. Placed' /\ OneLimiter'
    BY <1>1 DEF IInv, Placed, OneLimiter
<1>4. Leased'
    BY <1>1, LeasedSame DEF IInv
<1>5. PermitsAccounted'
    BY <1>1, AccountsSame DEF IInv
<1> QED BY <1>2, <1>3, <1>4, <1>5 DEF IInv

LEMMA NextInv == IInv /\ [Next]_vars => IInv'
<1> SUFFICES ASSUME IInv, [Next]_vars PROVE IInv'
    OBVIOUS
<1>0. Types /\ Placed /\ OneLimiter /\ Leased /\ PermitsAccounted
    BY DEF IInv
<1>1. ASSUME NEW p \in Invocations, NEW m \in Limits, NEW r \in Entries[p], Calls(p, r, m)
      PROVE  IInv'
    <2>1. r \in Replicas
        BY AdmissionAssumption
    <2> QED BY <1>0, <1>1, <2>1, CallsType, CallsPlaced, CallsLeased, CallsAccounted DEF IInv
<1>2. ASSUME NEW p \in Invocations, Proceeds(p) \/ Loses(p) \/ Refused(p)
      PROVE  IInv'
    BY <1>0, <1>2, ProceedsType, ProceedsPlaced, ProceedsLeased, ProceedsAccounted DEF IInv
<1>3. ASSUME NEW r \in Replicas, Prunes(r) PROVE IInv'
    BY <1>0, <1>3, RestType, PrunesPlaced, RestLeased, RestAccounted DEF IInv
<1>4. ASSUME Clears PROVE IInv'
    BY <1>0, <1>4, RestType, ClearsPlaced, RestLeased, RestAccounted DEF IInv
<1>5. CASE UNCHANGED vars
    BY <1>5, StutterInv
<1> QED BY <1>1, <1>2, <1>3, <1>4, <1>5 DEF Next

\* The inductive invariant holds in every state of the specification.
THEOREM Inductive == Spec => []IInv
BY InitInv, NextInv, PTL DEF Spec

\* prune_idle_limiters never takes a limiter from under an invocation: all
\* invocations of the tool at a replica refer to the limiter in its map.
THEOREM LimiterCorrect == Spec => []OneLimiter
<1>1. IInv => OneLimiter
    BY DEF IInv
<1> QED BY <1>1, Inductive, PTL

\* Over any number of replicas and under any changes of the limit, no more
\* invocations work at once than the global capacity, nor more of those admitted
\* under a limit of at most m than m.
THEOREM BoundCorrect == Spec => []ClusterBound
<1>1. IInv => ClusterBound
    BY LeasedBound DEF IInv
<1> QED BY <1>1, Inductive, PTL

\* Whatever way an invocation leaves, it gives back what it took, once: the
\* counters of the queue, of the replica's permits and of the limiter are those
\* of the invocations that hold them.
THEOREM PermitsCorrect == Spec => []PermitsAccounted
<1>1. IInv => PermitsAccounted
    BY DEF IInv
<1> QED BY <1>1, Inductive, PTL

=============================================================================
