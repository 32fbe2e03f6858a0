----------------------------- MODULE Membership -----------------------------
(* The membership roster of a deployment and its durable contract fence:     *)
(* heartbeats, ready and draining stamps, the fingerprint door, the raise    *)
(* of the fence and the sweep of stale rows (cluster_membership.rs,          *)
(* storage/postgres_membership.rs, storage/contraction.rs).                  *)
(*                                                                           *)
(* A replica is one boot: an instance id is never used again.  What a fence  *)
(* demands (a minimum schema, capability names) is a set of demands, and a   *)
(* build implements some of them.  Database time is kept as ages: of a row's *)
(* last_heartbeat_at, and of the now() that a statement or transaction fixed *)
(* when it began, before it waited for any lock.                             *)
EXTENDS Integers, FiniteSets

CONSTANTS
    Replicas,       \* boots of gateway processes
    Demands,        \* what a contract fence can demand of a build
    Implements,     \* Implements[r]: the demands that the build of r meets
    Fingerprint,    \* Fingerprint[r]: static configuration of r
    Window,         \* CLUSTER_MEMBER_STALE_MS, in ticks
    MaxWait,        \* bound: ticks that a statement or a raise may take
    MaxFaults       \* bound: lost answers, failed steps and crashes

ASSUME BuildsAssumption == Implements \in [Replicas -> SUBSET Demands]
ASSUME TimesAssumption == /\ Window \in Nat \ {0}
                          /\ MaxWait \in Nat
                          /\ MaxFaults \in Nat

VARIABLES
    at,         \* at[r]: what the membership task of r is doing
    agreed,     \* readiness.fingerprint_agreed
    fenced,     \* readiness.contract_fenced
    recorded,   \* ready_recorded
    call,       \* call[r]: age of the now() of the statement r waits for
    row,        \* row[r]: the row of r in cluster_members
    fence,      \* the demands of contract_fence
    raise,      \* the transaction that raises the fence, or Idle
    sweep,      \* rows the sweep's DELETE has selected and not yet deleted
    strays,     \* statements whose caller is gone and the database still runs
    faults,     \* faults so far
    lapsed      \* history: replicas whose row went stale, draining or away

vars == <<at, agreed, fenced, recorded, call, row, fence, raise, sweep, strays,
          faults, lapsed>>
task == <<at, agreed, fenced, recorded, call>>

NoRow == [live |-> FALSE]
Idle == [step |-> "idle"]

\* Where an age stops counting: beyond it no reader tells ages apart.
Cap == Window + MaxWait
Ages == 0 .. Cap

Rows == [live : {TRUE}, age : Ages, draining : BOOLEAN] \cup {NoRow}
Statements == {"boot", "beat", "stamp", "drain"}
Steps == {"off", "booting", "bootcheck", "bootadmit", "check", "admit", "idle", "gone"}
         \cup Statements
Strays == [of : Replicas, kind : Statements, age : Ages]
Raises == [step : {"begun", "locked"}, by : SUBSET Replicas,
           need : SUBSET Demands, age : Ages]

TypeOK ==
    /\ at \in [Replicas -> Steps]
    /\ agreed \in [Replicas -> BOOLEAN]
    /\ fenced \in [Replicas -> BOOLEAN]
    /\ recorded \in [Replicas -> BOOLEAN]
    /\ call \in [Replicas -> Ages]
    /\ row \in [Replicas -> Rows]
    /\ fence \in SUBSET Demands
    /\ raise \in Raises \cup {Idle}
    /\ sweep \in SUBSET Replicas
    /\ strays \in SUBSET Strays
    /\ faults \in Nat
    /\ lapsed \in SUBSET Replicas

Init ==
    /\ at = [r \in Replicas |-> "off"]
    /\ agreed = [r \in Replicas |-> FALSE]
    /\ fenced = [r \in Replicas |-> FALSE]
    /\ recorded = [r \in Replicas |-> FALSE]
    /\ call = [r \in Replicas |-> 0]
    /\ row = [r \in Replicas |-> NoRow]
    /\ fence = {}
    /\ raise = Idle
    /\ sweep = {}
    /\ strays = {}
    /\ faults = 0
    /\ lapsed = {}

-----------------------------------------------------------------------------
(* What the statements do to the roster                                      *)

Present(r) == row[r] # NoRow

\* ContractFence::exclusion, and the same decision in SQL.
Admits(r) == fence \subseteq Implements[r]

\* last_heartbeat_at > now() - window, where now() was fixed `since` ticks ago.
LiveSince(r, since) == Present(r) /\ row[r].age - since < Window
Live(r) == LiveSince(r, 0)

\* Every statement that refreshes a row holds the fence row FOR SHARE, which
\* waits while the raise holds it FOR UPDATE.
FenceFree == raise.step # "locked"

\* The heartbeat's upsert: draining_at is left as it is.
Beaten(r, age) ==
    [live |-> TRUE, age |-> age, draining |-> Present(r) /\ row[r].draining]

\* Mutant: the stamps do not look at the fence.
StampedAnyway(r, kind, age) ==
    IF Present(r)
    THEN [live |-> TRUE, age |-> age, draining |-> row[r].draining \/ kind = "drain"]
    ELSE row[r]

\* mark_ready and mark_draining: a row that is there and that the fence admits.
Stamped(r, kind, age) ==
    IF Present(r) /\ Admits(r)
    THEN [live |-> TRUE, age |-> age, draining |-> row[r].draining \/ kind = "drain"]
    ELSE row[r]

\* The row of r after a statement of the kind, whose now() has that age.
After(r, kind, age) ==
    IF kind \in {"stamp", "drain"} THEN Stamped(r, kind, age)
    ELSE IF Admits(r) THEN Beaten(r, age)
    ELSE row[r]

\* Mutant: rows are compared with the heartbeat interval, not the stale window.
DisagreeingFresh(r) ==
    {s \in Replicas \ {r} : /\ Present(s) /\ row[s].age < Window - 1
                            /\ ~row[s].draining
                            /\ Fingerprint[s] # Fingerprint[r]}

\* fingerprint_disagreements
Disagreeing(r) ==
    {s \in Replicas \ {r} : /\ Live(s)
                            /\ ~row[s].draining
                            /\ Fingerprint[s] # Fingerprint[r]}

-----------------------------------------------------------------------------
(* The membership task of a replica                                          *)

\* The task goes to a step; a statement it sends fixes its now() there.
Goes(r, step) ==
    /\ at' = [at EXCEPT ![r] = step]
    /\ call' = [call EXCEPT ![r] = 0]

\* The process ends, and its memory with it.
Ends(r) ==
    /\ Goes(r, "gone")
    /\ agreed' = [agreed EXCEPT ![r] = FALSE]
    /\ fenced' = [fenced EXCEPT ![r] = FALSE]
    /\ recorded' = [recorded EXCEPT ![r] = FALSE]

\* Startup reads the fence before anything else of the authority.
StartsUp(r) ==
    /\ at[r] = "off"
    /\ Goes(r, IF Admits(r) THEN "booting" ELSE "gone")
    /\ UNCHANGED <<agreed, fenced, recorded, row, fence, raise, sweep, strays, faults>>

\* register_boot, and each tick: a fenced replica writes nothing more.
SendsHeartbeat(r) ==
    /\ at[r] \in {"booting", "idle"} /\ ~fenced[r]
    /\ Goes(r, IF at[r] = "booting" THEN "boot" ELSE "beat")
    /\ UNCHANGED <<agreed, fenced, recorded, row, fence, raise, sweep, strays, faults>>

\* The rest of a tick once agreement is known: the ready stamp, at most once,
\* and only while the lifecycle accepts work (its choice here).
Onward(r, known) == IF known /\ ~recorded[r] THEN {"stamp", "idle"} ELSE {"idle"}

\* What follows a heartbeat that was written.
Written(r) ==
    IF at[r] = "boot" THEN {"bootcheck"}
    ELSE IF agreed[r] THEN Onward(r, TRUE)
    ELSE {"check"}

\* heartbeat_inner, and what register_boot and tick_once do with its answer.
HeartbeatLands(r) ==
    /\ at[r] \in {"boot", "beat"}
    /\ FenceFree
    /\ row' = [row EXCEPT ![r] = After(r, at[r], call[r])]
    /\ IF Admits(r)
       THEN /\ \E step \in Written(r) : Goes(r, step)
            /\ UNCHANGED <<agreed, fenced, recorded>>
       ELSE IF at[r] = "boot"
       THEN Ends(r)
       ELSE /\ fenced' = [fenced EXCEPT ![r] = TRUE]
            /\ Goes(r, "idle")
            /\ UNCHANGED <<agreed, recorded>>
    /\ UNCHANGED <<fence, raise, sweep, strays, faults>>

\* check_fingerprint_agreement: an unlocked read of the roster.  Whoever disagrees
\* is asked again on the next tick.
Checks(r) ==
    /\ at[r] \in {"bootcheck", "check"}
    /\ Goes(r, IF Disagreeing(r) # {} THEN "idle"
               ELSE IF at[r] = "bootcheck" THEN "bootadmit" ELSE "admit")
    /\ UNCHANGED <<agreed, fenced, recorded, row, fence, raise, sweep, strays, faults>>

\* apply_admission_writes has written the deployment-wide settings: only then is
\* agreement recorded, for good, whatever the roster has become meanwhile.
AdmissionApplied(r) ==
    /\ at[r] \in {"bootadmit", "admit"}
    /\ agreed' = [agreed EXCEPT ![r] = TRUE]
    /\ \E step \in Onward(r, at[r] = "admit") : Goes(r, step)
    /\ UNCHANGED <<fenced, recorded, row, fence, raise, sweep, strays, faults>>

\* mark_ready: a stamp that matched no row is recorded all the same.
ReadyStampLands(r) ==
    /\ at[r] = "stamp"
    /\ FenceFree
    /\ row' = [row EXCEPT ![r] = After(r, "stamp", call[r])]
    /\ recorded' = [recorded EXCEPT ![r] = TRUE]
    /\ Goes(r, "idle")
    /\ UNCHANGED <<agreed, fenced, fence, raise, sweep, strays, faults>>

\* stamp_draining on cancellation: a fenced replica stamps nothing.
Drains(r) ==
    /\ at[r] = "idle"
    /\ IF fenced[r]
       THEN Ends(r)
       ELSE Goes(r, "drain") /\ UNCHANGED <<agreed, fenced, recorded>>
    /\ UNCHANGED <<row, fence, raise, sweep, strays, faults>>

DrainStampLands(r) ==
    /\ at[r] = "drain"
    /\ FenceFree
    /\ row' = [row EXCEPT ![r] = After(r, "drain", call[r])]
    /\ Ends(r)
    /\ UNCHANGED <<fence, raise, sweep, strays, faults>>

\* A statement fails at its caller.  The database may still run it.
Strayed(r) ==
    \/ UNCHANGED strays
    \/ at[r] \in Statements /\ strays' = strays \cup {[of |-> r, kind |-> at[r], age |-> call[r]]}

\* An error: a boot is withdrawn (withdraw_unserved_boot), a drain is given up,
\* and a tick returns, to be tried again on the next interval.
CallFails(r) ==
    /\ at[r] \in Statements \cup {"bootcheck", "bootadmit", "check", "admit"}
    /\ faults < MaxFaults /\ faults' = faults + 1
    /\ IF at[r] = "drain"
       THEN Ends(r)
       ELSE /\ Goes(r, IF at[r] \in {"boot", "bootcheck", "bootadmit"} THEN "drain" ELSE "idle")
            /\ UNCHANGED <<agreed, fenced, recorded>>
    /\ Strayed(r)
    /\ UNCHANGED <<row, fence, raise, sweep>>

Crashes(r) ==
    /\ at[r] \notin {"off", "gone"}
    /\ faults < MaxFaults /\ faults' = faults + 1
    /\ Ends(r)
    /\ Strayed(r)
    /\ UNCHANGED <<row, fence, raise, sweep>>

\* The database finishes a statement nobody waits for.
StrayLands(q) ==
    /\ FenceFree
    /\ row' = [row EXCEPT ![q.of] = After(q.of, q.kind, q.age)]
    /\ strays' = strays \ {q}
    /\ UNCHANGED <<task, fence, raise, sweep, faults>>

-----------------------------------------------------------------------------
(* The raise of the fence: an operation of a replica, or a contracting       *)
(* migration, in one transaction under the migrator's advisory lock.         *)

\* by: the replica whose operation it is, or nobody for the migrator.
RaiseBegins(by, need) ==
    /\ raise = Idle
    /\ Cardinality(by) <= 1 /\ need # {}
    /\ \A p \in by : /\ at[p] \notin {"off", "booting", "boot", "bootcheck", "bootadmit", "gone"}
                     /\ need \subseteq Implements[p]
    /\ raise' = [step |-> "begun", by |-> by, need |-> need, age |-> 0]
    /\ UNCHANGED <<task, row, fence, sweep, strays, faults>>

\* judge, and contraction's decide: what refuses the raise.
Refused ==
    \/ \E p \in raise.by : ~Admits(p) \/ ~LiveSince(p, raise.age)
    \/ \E s \in Replicas : /\ LiveSince(s, raise.age)
                           /\ ~(fence \cup raise.need \subseteq Implements[s])

\* SELECT ... FOR UPDATE on the fence row, then the roster is read under that
\* lock and judged (only a sweep can change a row in between).  A refusal, and
\* a fence that already demands it all, end the transaction without a write.
RaiseDecides ==
    /\ raise.step = "begun"
    /\ raise' = IF Refused \/ raise.need \subseteq fence
                THEN Idle
                ELSE [raise EXCEPT !.step = "locked"]
    /\ UNCHANGED <<task, row, fence, sweep, strays, faults>>

\* UPDATE ... and COMMIT, to fence_target.
RaiseCommits ==
    /\ raise.step = "locked"
    /\ fence' = fence \cup raise.need
    /\ raise' = Idle
    /\ UNCHANGED <<task, row, sweep, strays, faults>>

\* An error, a dropped request or a refusal on the ledger or the backfill:
\* the transaction rolls back.
RaiseFails ==
    /\ raise # Idle
    /\ faults < MaxFaults /\ faults' = faults + 1
    /\ raise' = Idle
    /\ UNCHANGED <<task, row, fence, sweep, strays>>

-----------------------------------------------------------------------------
(* The sweep and time                                                        *)

\* sweep_stale: the ctids of the stale rows, as the DELETE's snapshot has them.
SweepSelects ==
    /\ sweep = {}
    /\ sweep' = {r \in Replicas : Present(r) /\ ~Live(r)}
    /\ sweep' # {}
    /\ UNCHANGED <<task, row, fence, raise, strays, faults>>

\* The DELETE.  Whether a row that a heartbeat has refreshed meanwhile (it has
\* another ctid by then) is spared depends on how the server rechecks it.
SweepDeletes ==
    /\ sweep # {}
    /\ \E spared \in SUBSET {r \in sweep : Live(r)} :
         row' = [r \in Replicas |-> IF r \in sweep \ spared THEN NoRow ELSE row[r]]
    /\ sweep' = {}
    /\ UNCHANGED <<task, fence, raise, strays, faults>>

Older(age) == IF age < Cap THEN age + 1 ELSE Cap

Aged(r) == IF Present(r) THEN [row[r] EXCEPT !.age = Older(row[r].age)] ELSE NoRow

\* A tick of the database clock.  No statement and no raise outlasts MaxWait:
\* the session's statement and lock timeouts end it.
Tick ==
    /\ \A r \in Replicas : at[r] \in Statements => call[r] < MaxWait
    /\ raise.step # "idle" => raise.age < MaxWait
    /\ \A q \in strays : q.age < MaxWait
    /\ row' = [r \in Replicas |-> Aged(r)]
    /\ call' = [r \in Replicas |-> IF at[r] \in Statements THEN Older(call[r]) ELSE 0]
    /\ raise' = IF raise.step = "idle" THEN Idle ELSE [raise EXCEPT !.age = Older(raise.age)]
    /\ strays' = {[q EXCEPT !.age = Older(q.age)] : q \in strays}
    /\ UNCHANGED <<at, agreed, fenced, recorded, fence, sweep, faults>>

-----------------------------------------------------------------------------
(* Specification                                                             *)

Task(r) == \/ StartsUp(r) \/ SendsHeartbeat(r) \/ HeartbeatLands(r) \/ Checks(r)
           \/ AdmissionApplied(r) \/ ReadyStampLands(r) \/ Drains(r) \/ DrainStampLands(r)
           \/ CallFails(r) \/ Crashes(r)

Raise == \/ \E by \in SUBSET Replicas, need \in SUBSET Demands : RaiseBegins(by, need)
         \/ RaiseDecides \/ RaiseCommits \/ RaiseFails

Step == \/ \E r \in Replicas : Task(r)
        \/ \E q \in strays : StrayLands(q)
        \/ Raise \/ SweepSelects \/ SweepDeletes \/ Tick

\* The history of lapses is kept beside every step.
Lapses ==
    lapsed' = lapsed
        \cup {r \in Replicas : Present(r) /\ row'[r] = NoRow}
        \cup {r \in Replicas : /\ row'[r] # NoRow
                               /\ row'[r].age >= Window \/ row'[r].draining}

Next == Step /\ Lapses

Spec == Init /\ [][Next]_vars

-----------------------------------------------------------------------------
(* Properties                                                                *)

\* "there is no instant at which a member the raise did not see can join behind
\* it": no row of a build that the fence excludes is live, whichever
\* heartbeats, stamps and stray statements the raise met on its way.
NoExcludedLive == \A r \in Replicas : Live(r) => Admits(r)

\* Admitted, or about to apply its deployment-wide settings and be admitted.
PastDoor(r) == agreed[r] \/ at[r] \in {"bootadmit", "admit"}

\* The gate is on joining: two replicas of different static configurations are
\* both admitted, or let through to apply their settings, only if the row of one
\* of them had gone stale, draining or away, however their boots interleave
\* (check_fingerprint_agreement).
JoinGate ==
    \A r, s \in Replicas :
        PastDoor(r) /\ PastDoor(s) /\ Fingerprint[r] # Fingerprint[s] =>
            r \in lapsed \/ s \in lapsed

=============================================================================
