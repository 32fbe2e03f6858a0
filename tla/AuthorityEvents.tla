--------------------------- MODULE AuthorityEvents ---------------------------
(***************************************************************************)
(* The authority-event journal, its delivery cursor and its dispatchers.   *)
(*                                                                         *)
(*   storage/postgres_authority_events.rs   journal, state row, cursor     *)
(*   storage/postgres_admin_sessions.rs     the sessions' held units       *)
(*   authority_events/dispatcher.rs         DispatcherTerm, run_dispatcher *)
(*                                                                         *)
(* A mutation journals its event inside its own transaction; the lock on   *)
(* the singleton state row, held to the end of the transaction, is what    *)
(* makes position order commit order.  A dispatcher takes a lease, claims  *)
(* the cursor at the lease's fence, and repeats: read, offer, advance.     *)
(*                                                                         *)
(* Of the execution lease only this is used: each term has a fence of its  *)
(* own.  Terms may overlap in any way, as they do when a lease is lost and *)
(* its holder has not noticed (ExecutionLeases says when that can be).     *)
(***************************************************************************)
EXTENDS Integers, FiniteSets

CONSTANTS
    Producers,    \* concurrent transactions that journal an event
    Dispatchers,  \* replicas that may lead
    Capacities,   \* the capacities a replica may configure at startup
    BatchSize,    \* DispatcherConfig.batch_size
    MaxEvents,    \* bound of the model: positions
    MaxFence,     \* bound of the model: terms
    Nobody        \* the holder of a free lock

ASSUME EventsAssumption ==
    /\ IsFiniteSet(Producers) /\ IsFiniteSet(Dispatchers)
    /\ Nobody \notin Producers \cup Dispatchers
    /\ Capacities \subseteq Nat \ {0} /\ Capacities # {}
    /\ BatchSize \in Nat \ {0}
    /\ MaxEvents \in Nat /\ MaxFence \in Nat

VARIABLES
    lock,       \* which transaction holds the lock on the state row
    head,       \* last_position
    retained,   \* retained_events: journal rows and held units
    reserved,   \* reserved_withdrawals: the held units
    capacity,
    journal,    \* positions of the committed rows
    sessions,   \* admin sessions granted and not yet withdrawn
    tx,         \* per producer: what its open transaction has done
    cursor,     \* the cursor row; fence 0 before the first claim
    counted,    \* its delivered_events
    floor,      \* the floor a running retention statement has read
    sunk,       \* positions the sink has accepted, once or more
    expired,    \* positions retention removed before they were delivered
    fences,     \* last fence drawn from the lease sequence
    role,       \* per dispatcher: out, leased, leading
    fence, committed, pending, through, accepted   \* DispatcherTerm

state == <<lock, head, retained, reserved, capacity, journal, sessions, tx>>
cursors == <<cursor, counted>>
retention == <<floor, expired>>
terms == <<fences, role, fence, committed, pending, through, accepted>>
vars == <<state, cursors, retention, sunk, terms>>

Positions == 1..MaxEvents

NoCursor == [position |-> 0, fence |-> 0, holder |-> Nobody]
\* rows: positions reserved; held: change of the held units; granted: of sessions
NoTx == [rows |-> {}, units |-> 0, held |-> 0]
Idle == -2       \* floor: no retention statement runs
NoFloor == -1    \* floor: there was no cursor to bound it

TypeOK ==
    /\ lock \in Producers \cup {Nobody}
    /\ head \in Nat /\ retained \in Nat /\ reserved \in Nat
    /\ capacity \in Capacities
    /\ journal \subseteq Positions /\ sunk \subseteq Positions /\ expired \subseteq Positions
    /\ sessions \in Nat
    /\ tx \in [Producers -> [rows : SUBSET Positions, units : Int, held : Int]]
    /\ cursor \in [position : Nat, fence : Nat, holder : Dispatchers \cup {Nobody}]
    /\ counted \in Nat
    /\ floor \in Nat \cup {Idle, NoFloor}
    /\ fences \in Nat
    /\ role \in [Dispatchers -> {"out", "leased", "leading"}]
    /\ fence \in [Dispatchers -> Nat]
    /\ committed \in [Dispatchers -> Nat]
    /\ pending \in [Dispatchers -> SUBSET Positions]
    /\ through \in [Dispatchers -> Nat]
    /\ accepted \in [Dispatchers -> Nat]

Init ==
    /\ lock = Nobody
    /\ head = 0 /\ retained = 0 /\ reserved = 0 /\ journal = {} /\ sessions = 0
    /\ capacity \in Capacities
    /\ tx = [p \in Producers |-> NoTx]
    /\ cursor = NoCursor /\ counted = 0
    /\ floor = Idle /\ expired = {} /\ sunk = {}
    /\ fences = 0
    /\ role = [d \in Dispatchers |-> "out"]
    /\ fence = [d \in Dispatchers |-> 0]
    /\ committed = [d \in Dispatchers |-> 0]
    /\ pending = [d \in Dispatchers |-> {}]
    /\ through = [d \in Dispatchers |-> 0]
    /\ accepted = [d \in Dispatchers |-> 0]

-----------------------------------------------------------------------------
(* Producers                                                                *)

\* The state row can be updated: nobody else has it locked.
StateFree == lock = Nobody

\* The update of the state row: rows new positions, and the units in use and the
\* held units change.  The rows become visible when the transaction commits.
Reserve(p, rows, units, held) ==
    /\ StateFree /\ tx[p] = NoTx
    /\ head + rows <= MaxEvents
    /\ lock' = p
    /\ head' = head + rows
    /\ retained' = retained + units
    /\ reserved' = reserved + held
    /\ tx' = [tx EXCEPT ![p] =
                [rows |-> (head + 1)..(head + rows), units |-> units, held |-> held]]
    /\ UNCHANGED <<capacity, journal, sessions, cursors, retention, sunk, terms>>

\* retained_events + units <= capacity
Room(units) == retained + units <= capacity

\* append_to_journal: a full journal refuses, and the mutation rolls back.
Appends(p) == Room(1) /\ Reserve(p, 1, 1, 0)

\* GRANT_SQL: one unit for the grant, one held for its withdrawal.
Grants(p) == Room(2) /\ Reserve(p, 1, 2, 1)

\* LEAST(reserved_withdrawals, the number of withdrawals)
Smaller(m, n) == IF m < n THEN m ELSE n

\* journal_withdrawals!: n withdrawals spend the units their grants held, and
\* check no capacity (WITHDRAW_SQL, REJECT_SQL, PRUNE_SESSIONS_SQL).
Withdraws(p, n) ==
    /\ n \in 1..sessions
    /\ LET spent == Smaller(reserved, n) IN Reserve(p, n, n - spent, 0 - spent)

\* grant_in replacing a live session: the withdrawal and the grant are one
\* transaction, and the grant still needs its own two units.
Replaces(p) ==
    /\ sessions > 0
    /\ LET spent == Smaller(reserved, 1) IN
        /\ Room(1 - spent + 2)
        /\ Reserve(p, 2, 1 - spent + 2, 1 - spent)

ProducerCommits(p) ==
    /\ tx[p] # NoTx
    /\ journal' = journal \cup tx[p].rows
    /\ sessions' = sessions + tx[p].held
    /\ tx' = [tx EXCEPT ![p] = NoTx]
    /\ lock' = Nobody
    /\ UNCHANGED <<head, retained, reserved, capacity, cursors, retention, sunk, terms>>

\* Mutant: positions come from a sequence, which a rollback does not give back.
SequenceKept(p) ==
    /\ tx[p] # NoTx
    /\ retained' = retained - tx[p].units
    /\ reserved' = reserved - tx[p].held
    /\ tx' = [tx EXCEPT ![p] = NoTx]
    /\ lock' = Nobody
    /\ UNCHANGED <<head, capacity, journal, sessions, cursors, retention, sunk, terms>>

\* A later statement fails, the commit fails or the connection is closed.
ProducerRollsBack(p) ==
    /\ tx[p] # NoTx
    /\ head' = head - Cardinality(tx[p].rows)
    /\ retained' = retained - tx[p].units
    /\ reserved' = reserved - tx[p].held
    /\ tx' = [tx EXCEPT ![p] = NoTx]
    /\ lock' = Nobody
    /\ UNCHANGED <<capacity, journal, sessions, cursors, retention, sunk, terms>>

\* configure_capacity, by a replica that starts
Configures(c) ==
    /\ StateFree
    /\ capacity' = c
    /\ UNCHANGED <<lock, head, retained, reserved, journal, sessions, tx, cursors,
                   retention, sunk, terms>>

-----------------------------------------------------------------------------
(* Retention: one statement, which reads the floor and then waits for the   *)
(* state row.                                                               *)

RetentionBegins ==
    /\ floor = Idle
    /\ floor' = IF cursor.fence = 0 THEN NoFloor ELSE cursor.position
    /\ UNCHANGED <<state, cursors, expired, sunk, terms>>

\* Mutant: age alone decides, whatever the cursor says.
AnyAge(p) == TRUE

\* (SELECT position FROM floor) IS NULL OR j.position <= floor
BelowFloor(p) == floor = NoFloor \/ p <= floor

\* Mutant: retention removes rows and gives no unit back.
NoUnits(doomed) == 0

\* retained_events - (SELECT count(*) FROM deleted)
Units(doomed) == Cardinality(doomed)

\* Rows old enough: any of them, for journaled_at is the time a transaction
\* began and not the order in which they committed.
RetentionDeletes ==
    /\ floor # Idle /\ StateFree
    /\ \E doomed \in SUBSET {p \in journal : BelowFloor(p)} :
        /\ journal' = journal \ doomed
        /\ retained' = retained - Units(doomed)
        /\ expired' = expired \cup {p \in doomed : p > cursor.position}
    /\ floor' = Idle
    /\ UNCHANGED <<lock, head, reserved, capacity, sessions, tx, cursors, sunk, terms>>

-----------------------------------------------------------------------------
(* Dispatchers                                                              *)

Leads(d, r) == role' = [role EXCEPT ![d] = r]

\* try_acquire answers Acquired(lease)
Leases(d) ==
    /\ role[d] = "out" /\ fences < MaxFence
    /\ fences' = fences + 1
    /\ fence' = [fence EXCEPT ![d] = fences + 1]
    /\ Leads(d, "leased")
    /\ UNCHANGED <<state, cursors, retention, sunk, committed, pending, through, accepted>>

\* Mutant: the cursor can be claimed at any fence.
ClaimableAlways(d) == TRUE

\* WHERE c.fence < EXCLUDED.fence OR (c.fence = EXCLUDED.fence AND c.holder = ...)
Claimable(d) ==
    \/ cursor.fence < fence[d]
    \/ cursor.fence = fence[d] /\ cursor.holder = d

TermEnds(d) ==
    /\ Leads(d, "out")
    /\ fence' = [fence EXCEPT ![d] = 0]
    /\ committed' = [committed EXCEPT ![d] = 0]
    /\ pending' = [pending EXCEPT ![d] = {}]
    /\ through' = [through EXCEPT ![d] = 0]
    /\ accepted' = [accepted EXCEPT ![d] = 0]
    /\ UNCHANGED fences

\* claim, then DispatcherTerm::begin; a newer fence is a Conflict.  The answer
\* may be lost, and then the term ends with the cursor claimed.
Claims(d) ==
    /\ role[d] = "leased"
    /\ \/ /\ Claimable(d)
          /\ cursor' = [position |-> cursor.position, fence |-> fence[d], holder |-> d]
          /\ \/ /\ Leads(d, "leading")
                /\ committed' = [committed EXCEPT ![d] = cursor.position]
                /\ through' = [through EXCEPT ![d] = cursor.position]
                /\ UNCHANGED <<fences, fence, pending, accepted>>
             \/ TermEnds(d)
       \/ /\ ~Claimable(d)
          /\ TermEnds(d)
          /\ UNCHANGED cursor
    /\ UNCHANGED <<state, counted, retention, sunk>>

\* read_after: WHERE j.position > $1 ORDER BY j.position LIMIT $2
Above(d) == {p \in journal : p > committed[d]}

\* Mutant: the last events wait until they fill a batch.
FullBatch(d) == {p \in Above(d) : /\ Cardinality(Above(d)) >= BatchSize
                                 /\ Cardinality({q \in Above(d) : q < p}) < BatchSize}

\* Mutant: the limit keeps the newest rows.
NewestFirst(d) == {p \in Above(d) : Cardinality({q \in Above(d) : q > p}) < BatchSize}

Batch(d) == {p \in Above(d) : Cardinality({q \in Above(d) : q < p}) < BatchSize}

\* fill, when nothing is in flight.  A failed read or a row that cannot be
\* projected leaves everything as it was.
Fills(d) ==
    /\ role[d] = "leading" /\ accepted[d] = 0 /\ pending[d] = {}
    /\ \E p \in Batch(d) :
        /\ \A q \in Batch(d) : q <= p
        /\ through' = [through EXCEPT ![d] = p]
    /\ pending' = [pending EXCEPT ![d] = Batch(d)]
    /\ UNCHANGED <<state, cursors, retention, sunk, fences, role, fence, committed, accepted>>

\* Mutant: a batch counts as accepted before the sink has answered.
AcceptedUnheard(d) ==
    /\ role[d] = "leading" /\ pending[d] # {}
    /\ accepted' = [accepted EXCEPT ![d] = Cardinality(pending[d])]
    /\ pending' = [pending EXCEPT ![d] = {}]
    /\ UNCHANGED <<state, cursors, retention, sunk, fences, role, fence, committed, through>>

\* offer: the sink has the batch and says so
Offers(d) ==
    /\ role[d] = "leading" /\ pending[d] # {}
    /\ sunk' = sunk \cup pending[d]
    /\ accepted' = [accepted EXCEPT ![d] = Cardinality(pending[d])]
    /\ pending' = [pending EXCEPT ![d] = {}]
    /\ UNCHANGED <<state, cursors, retention, fences, role, fence, committed, through>>

\* The sink has the batch and its answer is an error or is lost: the same
\* projected batch is offered again.
OfferUnheard(d) ==
    /\ role[d] = "leading" /\ pending[d] # {}
    /\ sunk' = sunk \cup pending[d]
    /\ UNCHANGED <<state, cursors, retention, terms>>

\* WHERE fence = $2 AND (position = $3 OR position = $4)
Advanceable(d) ==
    /\ cursor.fence = fence[d]
    /\ cursor.position = committed[d] \/ cursor.position = through[d]

\* delivered_events + CASE WHEN position = $3 THEN $5 ELSE 0 END
Count(d) == IF cursor.position = committed[d] THEN counted + accepted[d] ELSE counted

\* commit: the answer may be lost, and then only the advance is retried.  A
\* Conflict means a newer leader: the term ends.
Advances(d) ==
    /\ role[d] = "leading" /\ accepted[d] # 0
    /\ \/ /\ Advanceable(d)
          /\ cursor' = [position |-> through[d], fence |-> cursor.fence,
                        holder |-> cursor.holder]
          /\ counted' = Count(d)
          /\ \/ /\ committed' = [committed EXCEPT ![d] = through[d]]
                /\ accepted' = [accepted EXCEPT ![d] = 0]
                /\ UNCHANGED <<fences, role, fence, pending, through>>
             \/ UNCHANGED terms
       \/ /\ ~Advanceable(d)
          /\ TermEnds(d)
          /\ UNCHANGED cursors
    /\ UNCHANGED <<state, retention, sunk>>

\* The lease is lost, the contract fence excludes this build, the gateway shuts
\* down or the process dies: the term's memory is gone.
Stops(d) ==
    /\ role[d] # "out"
    /\ TermEnds(d)
    /\ UNCHANGED <<state, cursors, retention, sunk>>

-----------------------------------------------------------------------------

Produces(p) ==
    \/ Appends(p) \/ Grants(p) \/ Replaces(p)
    \/ \E n \in Positions : Withdraws(p, n)

Next ==
    \/ \E p \in Producers : Produces(p) \/ ProducerCommits(p) \/ ProducerRollsBack(p)
    \/ \E c \in Capacities : Configures(c)
    \/ RetentionBegins \/ RetentionDeletes
    \/ \E d \in Dispatchers :
        \/ Leases(d) \/ Claims(d) \/ Fills(d) \/ Offers(d) \/ OfferUnheard(d)
        \/ Advances(d) \/ Stops(d)

Spec == Init /\ [][Next]_vars

\* A leading term retries for ever with a bounded backoff; the sink and the
\* database do not refuse for ever; transactions end.
Fairness ==
    /\ \A p \in Producers : WF_vars(ProducerCommits(p) \/ ProducerRollsBack(p))
    /\ \A d \in Dispatchers :
        /\ WF_vars(Fills(d))
        /\ WF_vars(Offers(d))
        /\ SF_vars(Advances(d) /\ accepted'[d] = 0)

FairSpec == Spec /\ Fairness

-----------------------------------------------------------------------------
(* Properties                                                               *)

\* At least once: the cursor passes no event that the sink has not accepted.
\* Only what retention removed for its age before any cursor existed is missing.
NothingSkipped == \A p \in 1..cursor.position : p \in sunk \cup expired

\* In order: whichever term offers a batch, everything before it is in the sink
\* already; a stale leader can repeat events and never run ahead.
InOrder == \A p \in sunk : \A q \in 1..p : q \in sunk \cup expired

\* A retention statement that began when a cursor existed removes no undelivered
\* event: the floor it read is only lower than the cursor (prune_with).  One that
\* began before the first claim read no floor, and is exempt.
UndeliveredKept ==
    [][\A p \in journal : p \notin journal' => p <= cursor.position \/ floor = NoFloor]_vars

\* The units in use are the retained rows and one held unit for every session
\* that can still be withdrawn, after every commit and every rollback.
UnitsAccounted ==
    lock = Nobody => /\ retained = Cardinality(journal) + reserved
                     /\ reserved = sessions

\* The cursor never goes back, and delivered_events grows only as far as the
\* cursor moves: no event is counted twice, whichever terms and retries advance.
CursorAdvances ==
    [][/\ cursor'.fence >= cursor.fence
       /\ cursor'.position >= cursor.position
       /\ counted' - counted <= cursor'.position - cursor.position]_vars

\* While one term leads, everything the journal retains is delivered and passed.
Leading == \E d \in Dispatchers : role[d] = "leading" /\ cursor.fence = fence[d]
LeaderCatchesUp == <>[]Leading => <>[](\A p \in journal : p <= cursor.position)

\* What the transaction that holds the lock has done, and the last committed
\* position: a rollback gives back only what nobody has seen.
OpenTx == IF lock \in Producers THEN tx[lock] ELSE NoTx
Last == head - Cardinality(OpenTx.rows)

\* Before the first claim, and while a retention statement that began before it
\* still runs, undelivered events may expire.
Unread == cursor.fence = 0 \/ floor = NoFloor

Log == INSTANCE DeliveryLog
    WITH last <- Last, kept <- journal, passed <- cursor.position, unread <- Unread

\* Journal, cursor and dispatchers are a DeliveryLog: with terms that overlap,
\* batches offered twice, advances nobody heard of, rollbacks and retention, each
\* step is one of the log's steps or none.
KeepsLog == Log!Spec

=============================================================================
