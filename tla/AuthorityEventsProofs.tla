------------------------ MODULE AuthorityEventsProofs ------------------------
(***************************************************************************)
(* AuthorityEvents: the journal's accounting and at-least-once delivery in *)
(* order, for every finite set of producers and dispatchers, every         *)
(* capacity and batch size, and any number of events and terms.            *)
(*                                                                         *)
(* The invariant has three parts.  LockInv: at most one transaction has    *)
(* reserved positions that are not committed, and they are the last ones.  *)
(* UnitsInv: what the units count.  DeliveryInv: where every committed     *)
(* position is, and what a leading term may rely on, stale or not.         *)
(***************************************************************************)
EXTENDS AuthorityEvents, FiniteSetTheorems, TLAPS

LockInv ==
    /\ \A p \in Producers : p # lock => tx[p] = NoTx
    /\ Last \in Nat /\ head <= MaxEvents
    /\ OpenTx.rows = (Last + 1)..head
    /\ lock \in Producers => Last < head

\* A held unit belongs to a session, and becomes a row of the journal when the
\* session is withdrawn.
UnitsInv ==
    /\ retained - OpenTx.units = Cardinality(journal) + sessions
    /\ reserved - OpenTx.held = sessions
    /\ OpenTx.units = Cardinality(OpenTx.rows) + OpenTx.held

\* Every committed position is in the journal, or was delivered, or expired.
JournalInv ==
    /\ journal \subseteq 1..Last /\ sunk \subseteq 1..Last
    /\ cursor.position <= Last
    /\ \A q \in 1..Last : q \in journal \/ q <= cursor.position \/ q \in expired
    /\ floor \in Nat => floor <= cursor.position
    /\ NothingSkipped
    /\ InOrder

\* No two terms have one fence, and the cursor's fence has been drawn.
FencesInv ==
    /\ cursor.fence <= fences
    /\ \A d \in Dispatchers :
        /\ fence[d] <= fences
        /\ role[d] # "leading" => pending[d] = {} /\ accepted[d] = 0
        /\ \A e \in Dispatchers :
            role[d] # "out" /\ role[e] # "out" /\ fence[d] = fence[e] => d = e

\* A leading term: what it has read and not committed is pending, delivered or
\* expired, and while its fence is the cursor's, the cursor is where it left it
\* or where its unanswered advance has put it.
TermInv(d) ==
    /\ fence[d] <= cursor.fence
    /\ committed[d] <= cursor.position
    /\ committed[d] <= through[d] /\ through[d] <= Last
    /\ pending[d] \subseteq (committed[d] + 1)..through[d]
    /\ accepted[d] # 0 => pending[d] = {}
    /\ accepted[d] <= through[d] - committed[d]
    /\ \A q \in (committed[d] + 1)..through[d] : q \in pending[d] \cup sunk \cup expired
    /\ cursor.fence = fence[d] =>
        \/ cursor.position = committed[d]
        \/ accepted[d] # 0 /\ cursor.position = through[d]

DeliveryInv ==
    /\ JournalInv
    /\ FencesInv
    /\ \A d \in Dispatchers : role[d] = "leading" => TermInv(d)

EventsInv == TypeOK /\ LockInv /\ UnitsInv /\ DeliveryInv

-----------------------------------------------------------------------------
(* Positions and counting                                                   *)

\* n consecutive positions are n positions.
LEMMA RowCount ==
    ASSUME NEW m \in Nat, NEW n \in Nat
    PROVE  /\ IsFiniteSet((m + 1)..(m + n)) /\ Cardinality((m + 1)..(m + n)) = n
<1>1. m + 1 \in Int /\ m + n \in Int
  OBVIOUS
<1>2. Cardinality((m + 1)..(m + n)) = IF m + 1 > m + n THEN 0 ELSE (m + n) - (m + 1) + 1
  BY <1>1, FS_Interval
<1> QED
  BY <1>1, <1>2, FS_Interval

\* A set of positions can be counted.
LEMMA PositionsFinite ==
    ASSUME NEW S, S \subseteq Positions
    PROVE  IsFiniteSet(S) /\ Cardinality(S) \in Nat
<1>1. IsFiniteSet(Positions)
  BY EventsAssumption, FS_Interval DEF Positions
<1> QED
  BY <1>1, FS_Subset, FS_CardinalityType

\* A set of positions between two bounds is no larger than their distance.
LEMMA IntervalBound ==
    ASSUME NEW m \in Nat, NEW n \in Nat, m <= n, NEW S, S \subseteq (m + 1)..n
    PROVE  Cardinality(S) <= n - m
<1>1. n - m \in Nat /\ m + (n - m) = n
  OBVIOUS
<1>2. IsFiniteSet((m + 1)..n) /\ Cardinality((m + 1)..n) = n - m
  BY <1>1, RowCount
<1> QED
  BY <1>2, FS_Subset

LEMMA NoTxRows == NoTx.rows = {} /\ NoTx.units = 0 /\ NoTx.held = 0
BY DEF NoTx

\* When nobody has the lock, nothing is open.
LEMMA FreeLast ==
    ASSUME TypeOK, lock = Nobody
    PROVE  OpenTx = NoTx /\ Last = head
<1>1. OpenTx = NoTx
  BY EventsAssumption DEF OpenTx
<1> QED
  BY <1>1, NoTxRows, FS_EmptySet DEF Last, TypeOK

-----------------------------------------------------------------------------
(* Producers                                                                *)

\* What the state row's lock keeps of the delivery: positions only get added,
\* and the new ones are in the journal.
LEMMA DeliveryGrows ==
    ASSUME EventsInv, UNCHANGED <<cursors, retention, sunk, terms>>,
           Last' \in Nat, Last <= Last', journal' \subseteq 1..Last',
           journal \subseteq journal', \A q \in (Last + 1)..Last' : q \in journal'
    PROVE  DeliveryInv'
<1>1. /\ UNCHANGED <<cursor, counted, floor, expired, sunk, fences, role, fence>>
      /\ UNCHANGED <<committed, pending, through, accepted>>
  BY DEF cursors, retention, terms
<1>2. JournalInv /\ FencesInv /\ Last \in Nat /\ cursor.position \in Nat
  BY DEF EventsInv, DeliveryInv, LockInv, TypeOK
<1>3. JournalInv'
  <2>1. NothingSkipped' /\ InOrder'
    BY <1>1, <1>2 DEF JournalInv, NothingSkipped, InOrder
  <2>2. sunk' \subseteq 1..Last' /\ cursor'.position <= Last'
    BY <1>1, <1>2 DEF JournalInv
  <2>3. \A q \in 1..Last' : q \in journal' \/ q <= cursor'.position \/ q \in expired'
    BY <1>1, <1>2 DEF JournalInv
  <2> QED
    BY <1>1, <1>2, <2>1, <2>2, <2>3 DEF JournalInv
<1>4. FencesInv'
  BY <1>1, <1>2 DEF FencesInv
<1>5. ASSUME NEW d \in Dispatchers, role'[d] = "leading"
      PROVE  TermInv(d)'
  <2>1. TermInv(d) /\ through[d] \in Nat
    BY <1>1, <1>5 DEF EventsInv, DeliveryInv, TypeOK
  <2> QED
    BY <1>1, <1>2, <2>1 DEF TermInv
<1> QED
  BY <1>3, <1>4, <1>5 DEF DeliveryInv

\* Reserving positions opens a transaction and changes nothing that is visible,
\* provided the units it takes are for its rows and for what it holds.
LEMMA ReserveKeeps ==
    ASSUME EventsInv, NEW p \in Producers, NEW n \in Nat \ {0}, NEW held \in Int,
           NEW units \in Int, units = n + held,
           retained + units \in Nat, reserved + held \in Nat,
           Reserve(p, n, units, held)
    PROVE  EventsInv'
<1>1. /\ lock = Nobody /\ lock' = p /\ head' = head + n /\ head' <= MaxEvents
      /\ retained' = retained + units /\ reserved' = reserved + held
      /\ tx' = [tx EXCEPT ![p] =
                  [rows |-> (head + 1)..(head + n), units |-> units, held |-> held]]
      /\ UNCHANGED <<capacity, journal, sessions>>
      /\ UNCHANGED <<cursors, retention, sunk, terms>>
  BY DEF Reserve, StateFree
<1>2. /\ TypeOK /\ LockInv /\ UnitsInv /\ OpenTx = NoTx /\ Last = head
      /\ head \in Nat /\ head' \in Nat
  BY <1>1, FreeLast DEF EventsInv, TypeOK
<1>3. (head + 1)..(head + n) \subseteq Positions
  BY <1>1, <1>2, EventsAssumption DEF Positions
<1>4. TypeOK'
  <2>1. UNCHANGED <<cursor, counted, floor, expired, sunk, fences, role, fence,
                    committed, pending, through, accepted>>
    BY <1>1 DEF cursors, retention, terms
  <2>2. tx' \in [Producers -> [rows : SUBSET Positions, units : Int, held : Int]]
    BY <1>1, <1>2, <1>3 DEF TypeOK
  <2> QED
    BY <1>1, <1>2, <2>1, <2>2 DEF TypeOK
<1>5. OpenTx' = [rows |-> (head + 1)..(head + n), units |-> units, held |-> held]
  BY <1>1, <1>2 DEF OpenTx, TypeOK
<1>6. Cardinality(OpenTx'.rows) = n /\ Last' = head
  <2>1. Cardinality((head + 1)..(head + n)) = n
    BY <1>2, RowCount
  <2> QED
    BY <1>1, <1>2, <1>5, <2>1 DEF Last
<1>7. LockInv'
  BY <1>1, <1>2, <1>5, <1>6 DEF LockInv, TypeOK
<1>8. UnitsInv'
  BY <1>1, <1>2, <1>5, <1>6, NoTxRows DEF UnitsInv, TypeOK
<1>9. DeliveryInv'
  BY <1>1, <1>2, <1>6, DeliveryGrows DEF EventsInv, DeliveryInv, JournalInv
<1> QED
  BY <1>4, <1>7, <1>8, <1>9 DEF EventsInv

\* The four ways to open a transaction: each takes the units it accounts for.
LEMMA ProducesKeeps ==
    ASSUME EventsInv, NEW p \in Producers, Produces(p)
    PROVE  EventsInv'
<1>1. lock = Nobody
  BY DEF Produces, Appends, Grants, Replaces, Withdraws, Reserve, StateFree
<1>2. /\ retained \in Nat /\ reserved \in Nat /\ sessions \in Nat /\ reserved = sessions
      /\ Cardinality(journal) \in Nat /\ retained = Cardinality(journal) + sessions
  <2>1. TypeOK /\ UnitsInv /\ OpenTx = NoTx
    BY <1>1, FreeLast DEF EventsInv
  <2>2. Cardinality(journal) \in Nat
    BY <2>1, PositionsFinite DEF TypeOK
  <2> QED
    BY <2>1, <2>2, NoTxRows DEF TypeOK, UnitsInv
<1>3. CASE Appends(p)
  <2>1. Reserve(p, 1, 1, 0)
    BY <1>3 DEF Appends
  <2> QED
    BY <1>2, <2>1, ReserveKeeps
<1>4. CASE Grants(p)
  <2>1. Reserve(p, 1, 2, 1)
    BY <1>4 DEF Grants
  <2> QED
    BY <1>2, <2>1, ReserveKeeps
<1>5. CASE Replaces(p)
  <2>1. Smaller(reserved, 1) = 1
    BY <1>2, <1>5 DEF Replaces, Smaller
  <2>2. Reserve(p, 2, 2, 0)
    BY <1>5, <2>1 DEF Replaces
  <2> QED
    BY <1>2, <2>2, ReserveKeeps
<1>6. ASSUME NEW n \in Positions, Withdraws(p, n) PROVE EventsInv'
  <2>1. n \in Nat \ {0} /\ n <= sessions
    BY <1>2, <1>6 DEF Withdraws
  <2>2. Smaller(reserved, n) = n
    BY <1>2, <2>1 DEF Smaller
  <2>3. Reserve(p, n, 0, 0 - n)
    BY <1>6, <2>1, <2>2 DEF Withdraws
  <2>4. 0 - n \in Int /\ 0 = n + (0 - n) /\ reserved + (0 - n) \in Nat
    BY <1>2, <2>1
  <2> QED
    BY <1>2, <2>1, <2>3, <2>4, ReserveKeeps
<1> QED
  BY <1>3, <1>4, <1>5, <1>6 DEF Produces

\* A commit makes the reserved positions the next ones of the journal.
LEMMA CommitKeeps ==
    ASSUME EventsInv, NEW p \in Producers, ProducerCommits(p)
    PROVE  EventsInv'
<1>1. /\ tx[p] # NoTx /\ journal' = journal \cup tx[p].rows
      /\ sessions' = sessions + tx[p].held /\ tx' = [tx EXCEPT ![p] = NoTx]
      /\ lock' = Nobody /\ UNCHANGED <<head, retained, reserved, capacity>>
      /\ UNCHANGED <<cursors, retention, sunk, terms>>
  BY DEF ProducerCommits
<1>2. /\ TypeOK /\ LockInv /\ UnitsInv /\ lock = p /\ OpenTx = tx[p]
      /\ tx[p].rows = (Last + 1)..head /\ Last \in Nat /\ Last < head
      /\ head \in Nat /\ head <= MaxEvents
      /\ tx[p].units \in Int /\ tx[p].held \in Int /\ tx[p].rows \subseteq Positions
  <2>1. lock = p
    BY <1>1 DEF EventsInv, LockInv
  <2> QED
    BY <2>1 DEF EventsInv, LockInv, OpenTx, TypeOK
<1>3. journal \subseteq 1..Last /\ journal \subseteq Positions
  BY <1>2 DEF EventsInv, DeliveryInv, JournalInv, TypeOK
<1>4. /\ journal \cap tx[p].rows = {}
      /\ Cardinality(journal') = Cardinality(journal) + Cardinality(tx[p].rows)
      /\ Cardinality(journal) \in Nat /\ Cardinality(tx[p].rows) \in Nat
  <2>1. journal \cap tx[p].rows = {}
    BY <1>2, <1>3
  <2>2. /\ IsFiniteSet(journal) /\ IsFiniteSet(tx[p].rows)
        /\ Cardinality(journal) \in Nat /\ Cardinality(tx[p].rows) \in Nat
    BY <1>2, <1>3, PositionsFinite
  <2>3. Cardinality(journal \cup tx[p].rows) = Cardinality(journal) + Cardinality(tx[p].rows)
    <3>1. Cardinality(journal \cap tx[p].rows) = 0
      BY <2>1, FS_EmptySet
    <3>2. Cardinality(journal \cup tx[p].rows) =
            Cardinality(journal) + Cardinality(tx[p].rows) - Cardinality(journal \cap tx[p].rows)
      BY <2>2, FS_Union
    <3> QED
      BY <2>2, <3>1, <3>2
  <2> QED
    BY <1>1, <2>1, <2>2, <2>3
<1>5. sessions' \in Nat /\ sessions' = reserved
  BY <1>1, <1>2 DEF UnitsInv, TypeOK
<1>6. TypeOK'
  <2>1. UNCHANGED <<cursor, counted, floor, expired, sunk, fences, role, fence,
                    committed, pending, through, accepted>>
    BY <1>1 DEF cursors, retention, terms
  <2>2. tx' \in [Producers -> [rows : SUBSET Positions, units : Int, held : Int]]
    BY <1>1, <1>2 DEF TypeOK, NoTx
  <2> QED
    BY <1>1, <1>2, <1>3, <1>5, <2>1, <2>2 DEF TypeOK
<1>7. OpenTx' = NoTx /\ Last' = head
  <2>1. OpenTx' = NoTx
    BY <1>1, EventsAssumption DEF OpenTx
  <2> QED
    BY <1>1, <1>2, <2>1, NoTxRows, FS_EmptySet DEF Last
<1>8. LockInv'
  BY <1>1, <1>2, <1>7, NoTxRows, EventsAssumption DEF LockInv, TypeOK
<1>9. UnitsInv'
  <2>1. Cardinality(NoTx.rows) = 0
    BY NoTxRows, FS_EmptySet
  <2>2. retained' = Cardinality(journal') + sessions'
    <3>1. /\ retained - tx[p].units = Cardinality(journal) + sessions
          /\ tx[p].units = Cardinality(tx[p].rows) + tx[p].held
          /\ retained \in Nat /\ sessions \in Nat /\ retained' = retained
      BY <1>1, <1>2 DEF UnitsInv, TypeOK
    <3>2. /\ Cardinality(journal') = Cardinality(journal) + Cardinality(tx[p].rows)
          /\ Cardinality(journal) \in Nat /\ Cardinality(tx[p].rows) \in Nat
          /\ sessions' = sessions + tx[p].held
          /\ tx[p].units \in Int /\ tx[p].held \in Int
      BY <1>1, <1>2, <1>4
    <3> QED
      BY <3>1, <3>2
  <2>3. retained' \in Nat /\ reserved' \in Nat /\ reserved' = sessions'
    BY <1>1, <1>5, <1>2 DEF TypeOK
  <2>4. Cardinality(journal') \in Nat
    BY <1>4
  <2>5. OpenTx'.units = 0 /\ OpenTx'.held = 0 /\ Cardinality(OpenTx'.rows) = 0
    BY <1>7, <2>1, NoTxRows
  <2>6. retained' - OpenTx'.units = Cardinality(journal') + sessions'
    BY <2>2, <2>3, <2>5
  <2>7. reserved' - OpenTx'.held = sessions'
    BY <1>5, <2>3, <2>5
  <2> QED
    BY <2>5, <2>6, <2>7 DEF UnitsInv
<1>10. DeliveryInv'
  <2>1. journal' \subseteq 1..head /\ journal \subseteq journal'
    BY <1>1, <1>2, <1>3
  <2> QED
    BY <1>1, <1>2, <1>7, <2>1, DeliveryGrows
<1> QED
  BY <1>6, <1>8, <1>9, <1>10 DEF EventsInv

\* A rollback restores the state row as it was before the transaction.
LEMMA RollbackKeeps ==
    ASSUME EventsInv, NEW p \in Producers, ProducerRollsBack(p)
    PROVE  EventsInv'
<1>1. /\ tx[p] # NoTx /\ head' = head - Cardinality(tx[p].rows)
      /\ retained' = retained - tx[p].units /\ reserved' = reserved - tx[p].held
      /\ tx' = [tx EXCEPT ![p] = NoTx] /\ lock' = Nobody
      /\ UNCHANGED <<capacity, journal, sessions>>
      /\ UNCHANGED <<cursors, retention, sunk, terms>>
  BY DEF ProducerRollsBack
<1>2. /\ TypeOK /\ LockInv /\ UnitsInv /\ lock = p /\ OpenTx = tx[p]
      /\ Last \in Nat /\ head \in Nat /\ Last <= MaxEvents
  <2>1. lock = p
    BY <1>1 DEF EventsInv, LockInv
  <2> QED
    BY <2>1, EventsAssumption DEF EventsInv, LockInv, OpenTx, TypeOK
<1>3. head' = Last /\ OpenTx' = NoTx /\ Last' = Last
  <2>1. head' = Last
    BY <1>1, <1>2 DEF Last
  <2>2. OpenTx' = NoTx
    BY <1>1, EventsAssumption DEF OpenTx
  <2> QED
    BY <1>2, <2>1, <2>2, NoTxRows, FS_EmptySet DEF Last
<1>4. /\ Cardinality(journal) \in Nat /\ sessions \in Nat
      /\ retained' = Cardinality(journal) + sessions /\ reserved' = sessions
  BY <1>1, <1>2, PositionsFinite DEF UnitsInv, TypeOK
<1>5. TypeOK'
  <2>1. UNCHANGED <<cursor, counted, floor, expired, sunk, fences, role, fence,
                    committed, pending, through, accepted>>
    BY <1>1 DEF cursors, retention, terms
  <2>2. tx' \in [Producers -> [rows : SUBSET Positions, units : Int, held : Int]]
    BY <1>1, <1>2 DEF TypeOK, NoTx
  <2> QED
    BY <1>1, <1>2, <1>3, <1>4, <2>1, <2>2 DEF TypeOK
<1>6. LockInv'
  <2>1. (Last' + 1)..head' = {}
    BY <1>2, <1>3
  <2>2. \A q \in Producers : q # lock' => tx'[q] = NoTx
    BY <1>1, <1>2 DEF LockInv, TypeOK
  <2>3. lock' \notin Producers
    BY <1>1, EventsAssumption
  <2> QED
    BY <1>2, <1>3, <2>1, <2>2, <2>3, NoTxRows DEF LockInv
<1>7. UnitsInv'
  <2>1. Cardinality(NoTx.rows) = 0
    BY NoTxRows, FS_EmptySet
  <2> QED
    BY <1>1, <1>3, <1>4, <2>1, NoTxRows DEF UnitsInv
<1>8. DeliveryInv'
  BY <1>1, <1>2, <1>3, DeliveryGrows DEF EventsInv, DeliveryInv, JournalInv
<1> QED
  BY <1>5, <1>6, <1>7, <1>8 DEF EventsInv

\* A change of the capacity touches no row and no unit in use.
LEMMA ConfiguresKeeps ==
    ASSUME EventsInv, NEW c \in Capacities, Configures(c)
    PROVE  EventsInv'
<1>1. /\ capacity' = c
      /\ UNCHANGED <<lock, head, retained, reserved, journal, sessions, tx>>
      /\ UNCHANGED <<cursors, retention, sunk, terms>>
  BY DEF Configures
<1>2. OpenTx' = OpenTx /\ Last' = Last
  BY <1>1 DEF OpenTx, Last
<1>3. LockInv' /\ UnitsInv'
  BY <1>1, <1>2 DEF EventsInv, LockInv, UnitsInv
<1>4. TypeOK'
  BY <1>1 DEF EventsInv, TypeOK, cursors, retention, terms
<1>5. DeliveryInv'
  BY <1>1, <1>2, DeliveryGrows DEF EventsInv, LockInv, DeliveryInv, JournalInv
<1> QED
  BY <1>3, <1>4, <1>5 DEF EventsInv

-----------------------------------------------------------------------------
(* Terms and the cursor                                                     *)

\* Outside the producers' transactions the state row is left alone.
LEMMA StateKept ==
    ASSUME EventsInv, UNCHANGED state
    PROVE  LockInv' /\ UnitsInv' /\ Last' = Last /\ Last \in Nat
<1>1. UNCHANGED <<lock, head, retained, reserved, journal, sessions, tx>>
  BY DEF state
<1>2. OpenTx' = OpenTx /\ Last' = Last
  BY <1>1 DEF OpenTx, Last
<1> QED
  BY <1>1, <1>2 DEF EventsInv, LockInv, UnitsInv

\* A term that does not move keeps its part of the invariant as the sink, the
\* expired positions and the cursor grow around it, as long as nobody else
\* moves the cursor under its fence.
LEMMA TermKept ==
    ASSUME TypeOK, NEW e \in Dispatchers, TermInv(e),
           fence'[e] = fence[e], committed'[e] = committed[e], pending'[e] = pending[e],
           through'[e] = through[e], accepted'[e] = accepted[e],
           sunk \subseteq sunk', expired \subseteq expired', Last' = Last,
           cursor'.position \in Nat, cursor'.fence \in Nat,
           cursor.position <= cursor'.position, cursor.fence <= cursor'.fence,
           cursor'.fence = fence[e] => cursor' = cursor
    PROVE  TermInv(e)'
<1>1. /\ fence[e] \in Nat /\ committed[e] \in Nat /\ through[e] \in Nat /\ accepted[e] \in Nat
      /\ cursor.position \in Nat /\ cursor.fence \in Nat
  BY DEF TypeOK
<1>2. fence'[e] <= cursor'.fence /\ committed'[e] <= cursor'.position
  BY <1>1 DEF TermInv
<1>3. /\ committed'[e] <= through'[e] /\ through'[e] <= Last'
      /\ pending'[e] \subseteq (committed'[e] + 1)..through'[e]
      /\ accepted'[e] # 0 => pending'[e] = {}
      /\ accepted'[e] <= through'[e] - committed'[e]
  BY DEF TermInv
<1>4. \A q \in (committed'[e] + 1)..through'[e] : q \in pending'[e] \cup sunk' \cup expired'
  BY DEF TermInv
<1>5. cursor'.fence = fence'[e] =>
        \/ cursor'.position = committed'[e]
        \/ accepted'[e] # 0 /\ cursor'.position = through'[e]
  BY DEF TermInv
<1> QED
  BY <1>2, <1>3, <1>4, <1>5 DEF TermInv

\* A growing sink, more expired positions and a cursor that stays: what is
\* left to show of the journal is that the sink has no gap.
LEMMA JournalKept ==
    ASSUME EventsInv, UNCHANGED state, UNCHANGED retention, UNCHANGED sunk,
           cursor'.position \in Nat, cursor.position <= cursor'.position,
           cursor'.position <= Last,
           \A q \in 1..cursor'.position : q \in sunk \cup expired
    PROVE  JournalInv'
<1>1. Last' = Last /\ Last \in Nat /\ UNCHANGED <<journal, floor, expired, sunk>>
  BY StateKept DEF state, retention
<1>2. JournalInv /\ TypeOK
  BY DEF EventsInv, DeliveryInv
<1>3. cursor.position \in Nat /\ (floor \in Nat => floor <= cursor'.position)
  BY <1>2 DEF JournalInv, TypeOK
<1>4. \A q \in 1..Last' : q \in journal' \/ q <= cursor'.position \/ q \in expired'
  BY <1>1, <1>2, <1>3 DEF JournalInv
<1>5. NothingSkipped' /\ InOrder'
  BY <1>1, <1>2 DEF JournalInv, NothingSkipped, InOrder
<1> QED
  BY <1>1, <1>2, <1>3, <1>4, <1>5 DEF JournalInv

\* A new term draws a fence that no other term and no cursor has.
LEMMA LeasesKeeps ==
    ASSUME EventsInv, NEW d \in Dispatchers, Leases(d)
    PROVE  EventsInv'
<1>1. /\ role[d] = "out" /\ fences' = fences + 1
      /\ fence' = [fence EXCEPT ![d] = fences + 1]
      /\ role' = [role EXCEPT ![d] = "leased"]
      /\ UNCHANGED <<state, cursors, retention, sunk, committed, pending, through, accepted>>
  BY DEF Leases, Leads
<1>2. UNCHANGED <<cursor, counted, floor, expired>>
  BY <1>1 DEF cursors, retention
<1>3. TypeOK /\ JournalInv /\ FencesInv
  BY DEF EventsInv, DeliveryInv
<1>4. TypeOK'
  BY <1>1, <1>2, <1>3 DEF TypeOK, state
<1>5. JournalInv'
  BY <1>1, <1>2, <1>3, JournalKept DEF JournalInv, NothingSkipped, TypeOK
<1>6. FencesInv'
  <2>1. /\ fences \in Nat /\ cursor.fence \in Nat /\ \A e \in Dispatchers : fence[e] \in Nat
        /\ fence'[d] = fences + 1 /\ role'[d] = "leased"
        /\ \A e \in Dispatchers \ {d} : fence'[e] = fence[e] /\ role'[e] = role[e]
    BY <1>1, <1>3 DEF TypeOK
  <2>2. cursor'.fence <= fences' /\ \A e \in Dispatchers : fence'[e] <= fences'
    BY <1>1, <1>2, <1>3, <2>1 DEF FencesInv
  <2>3. \A e \in Dispatchers : role'[e] # "leading" => pending'[e] = {} /\ accepted'[e] = 0
    BY <1>1, <1>3, <2>1 DEF FencesInv
  <2>4. \A e, f \in Dispatchers :
          role'[e] # "out" /\ role'[f] # "out" /\ fence'[e] = fence'[f] => e = f
    BY <1>3, <2>1 DEF FencesInv
  <2> QED
    BY <2>2, <2>3, <2>4 DEF FencesInv
<1>7. ASSUME NEW e \in Dispatchers, role'[e] = "leading" PROVE TermInv(e)'
  <2>1. e # d /\ role[e] = "leading" /\ fence'[e] = fence[e]
    BY <1>1, <1>3, <1>7 DEF TypeOK
  <2>2. TermInv(e)
    BY <2>1 DEF EventsInv, DeliveryInv
  <2> QED
    BY <1>1, <1>2, <1>3, <2>1, <2>2, TermKept, StateKept DEF TypeOK
<1> QED
  BY <1>1, <1>4, <1>5, <1>6, <1>7, StateKept DEF EventsInv, DeliveryInv

\* The end of a term leaves nothing of it; the cursor may have been claimed by
\* it at its own fence, and is then nobody's.
LEMMA EndKeeps ==
    ASSUME EventsInv, NEW d \in Dispatchers, role[d] # "out", TermEnds(d),
           UNCHANGED <<state, counted, retention, sunk>>,
           \/ UNCHANGED cursor
           \/ /\ cursor.fence <= fence[d]
              /\ cursor' = [position |-> cursor.position, fence |-> fence[d], holder |-> d]
    PROVE  EventsInv'
<1>1. /\ role' = [role EXCEPT ![d] = "out"] /\ fence' = [fence EXCEPT ![d] = 0]
      /\ committed' = [committed EXCEPT ![d] = 0] /\ pending' = [pending EXCEPT ![d] = {}]
      /\ through' = [through EXCEPT ![d] = 0] /\ accepted' = [accepted EXCEPT ![d] = 0]
      /\ fences' = fences
  BY DEF TermEnds, Leads
<1>2. TypeOK /\ JournalInv /\ FencesInv
  BY DEF EventsInv, DeliveryInv
<1>3. /\ cursor'.position = cursor.position /\ cursor.position \in Nat
      /\ cursor.fence <= cursor'.fence /\ cursor.fence \in Nat /\ cursor'.fence \in Nat
      /\ cursor'.fence <= fences /\ fences \in Nat
      /\ cursor' \in [position : Nat, fence : Nat, holder : Dispatchers \cup {Nobody}]
  BY <1>2 DEF TypeOK, FencesInv
<1>4. TypeOK'
  BY <1>1, <1>2, <1>3 DEF TypeOK, state, retention
<1>5. JournalInv'
  BY <1>2, <1>3, JournalKept DEF JournalInv, NothingSkipped
<1>6. FencesInv'
  <2>1. /\ role'[d] = "out" /\ fence'[d] = 0 /\ pending'[d] = {} /\ accepted'[d] = 0
        /\ \A e \in Dispatchers \ {d} : /\ fence'[e] = fence[e] /\ role'[e] = role[e]
                                        /\ pending'[e] = pending[e] /\ accepted'[e] = accepted[e]
    BY <1>1, <1>2 DEF TypeOK
  <2> QED
    BY <1>1, <1>2, <1>3, <2>1 DEF FencesInv
<1>7. ASSUME NEW e \in Dispatchers, role'[e] = "leading" PROVE TermInv(e)'
  <2>1. /\ e # d /\ role[e] = "leading" /\ fence'[e] = fence[e]
        /\ committed'[e] = committed[e] /\ pending'[e] = pending[e]
        /\ through'[e] = through[e] /\ accepted'[e] = accepted[e]
    BY <1>1, <1>2, <1>7 DEF TypeOK
  <2>2. TermInv(e) /\ fence[e] # fence[d]
    BY <1>2, <2>1 DEF EventsInv, DeliveryInv, FencesInv
  <2>3. cursor'.fence = fence[e] => cursor' = cursor
    BY <2>2
  <2>4. sunk \subseteq sunk' /\ expired \subseteq expired' /\ Last' = Last
    BY StateKept DEF retention
  <2> QED
    BY <1>2, <1>3, <2>1, <2>2, <2>3, <2>4, TermKept
<1> QED
  BY <1>4, <1>5, <1>6, <1>7, StateKept DEF EventsInv, DeliveryInv

\* A claim leaves the position where it is; the term begins there.
LEMMA ClaimsKeeps ==
    ASSUME EventsInv, NEW d \in Dispatchers, Claims(d)
    PROVE  EventsInv'
<1>1. /\ role[d] = "leased" /\ UNCHANGED <<state, counted, retention, sunk>>
      /\ TypeOK /\ JournalInv /\ FencesInv
  BY DEF Claims, EventsInv, DeliveryInv
<1>2. CASE ~Claimable(d)
  <2>1. TermEnds(d) /\ UNCHANGED cursor
    BY <1>2 DEF Claims
  <2> QED
    BY <1>1, <2>1, EndKeeps
<1>3. CASE Claimable(d)
  <2>1. /\ cursor' = [position |-> cursor.position, fence |-> fence[d], holder |-> d]
        /\ cursor.fence <= fence[d]
    BY <1>1, <1>3 DEF Claims, Claimable, TypeOK
  <2>2. CASE TermEnds(d)
    BY <1>1, <2>1, <2>2, EndKeeps
  <2>3. CASE /\ role' = [role EXCEPT ![d] = "leading"]
             /\ committed' = [committed EXCEPT ![d] = cursor.position]
             /\ through' = [through EXCEPT ![d] = cursor.position]
             /\ UNCHANGED <<fences, fence, pending, accepted>>
    <3>1. /\ cursor'.position = cursor.position /\ cursor.position \in Nat
          /\ cursor'.fence = fence[d] /\ fence[d] \in Nat /\ cursor.fence \in Nat
      BY <1>1, <2>1 DEF TypeOK
    <3>2. TypeOK'
      BY <1>1, <2>1, <2>3, <3>1 DEF TypeOK, state, retention
    <3>3. JournalInv'
      BY <1>1, <3>1, JournalKept DEF JournalInv, NothingSkipped
    <3>4. FencesInv'
      <4>1. role'[d] = "leading" /\ \A e \in Dispatchers \ {d} : role'[e] = role[e]
        BY <1>1, <2>3 DEF TypeOK
      <4> QED
        BY <1>1, <2>3, <3>1, <4>1 DEF FencesInv
    <3>5. ASSUME NEW e \in Dispatchers, role'[e] = "leading" PROVE TermInv(e)'
      <4>1. CASE e = d
        <5>1. /\ committed'[e] = cursor.position /\ through'[e] = cursor.position
              /\ pending'[e] = {} /\ accepted'[e] = 0 /\ fence'[e] = fence[d]
          BY <1>1, <2>3, <4>1 DEF TypeOK, FencesInv
        <5>2. cursor.position <= Last' /\ (cursor.position + 1)..cursor.position = {}
          BY <1>1, <3>1, StateKept DEF JournalInv
        <5> QED
          BY <3>1, <5>1, <5>2 DEF TermInv
      <4>2. CASE e # d
        <5>1. /\ role[e] = "leading" /\ fence'[e] = fence[e]
              /\ committed'[e] = committed[e] /\ pending'[e] = pending[e]
              /\ through'[e] = through[e] /\ accepted'[e] = accepted[e]
          BY <1>1, <2>3, <3>5, <4>2 DEF TypeOK
        <5>2. TermInv(e) /\ fence[e] # fence[d]
          BY <1>1, <4>2, <5>1 DEF EventsInv, DeliveryInv, FencesInv
        <5>3. sunk \subseteq sunk' /\ expired \subseteq expired' /\ Last' = Last
          BY <1>1, StateKept DEF retention
        <5> QED
          BY <1>1, <2>1, <3>1, <5>1, <5>2, <5>3, TermKept
      <4> QED
        BY <4>1, <4>2
    <3> QED
      BY <1>1, <3>2, <3>3, <3>4, <3>5, StateKept DEF EventsInv, DeliveryInv
  <2> QED
    BY <1>3, <2>2, <2>3 DEF Claims, Leads
<1> QED
  BY <1>2, <1>3

\* read_after has no gaps: a row between the cursor of the term and the last row
\* of its batch is in the batch.
LEMMA BatchHasNoGap ==
    ASSUME TypeOK, NEW d \in Dispatchers, NEW p \in Batch(d), NEW q \in journal,
           q > committed[d], q <= p
    PROVE  q \in Batch(d)
<1> DEFINE Before(x) == {y \in Above(d) : y < x}
<1>1. /\ p \in Above(d) /\ q \in Above(d) /\ Above(d) \subseteq Positions
      /\ Cardinality(Before(p)) < BatchSize
  BY DEF Batch, Above, TypeOK
<1>2. IsFiniteSet(Before(p)) /\ Before(q) \subseteq Before(p)
  <2>1. Before(p) \subseteq Positions
    BY <1>1
  <2>2. \A x \in Above(d) : x \in Int
    BY <1>1 DEF Positions
  <2> QED
    BY <1>1, <2>1, <2>2, PositionsFinite
<1>3. /\ Cardinality(Before(q)) <= Cardinality(Before(p))
      /\ Cardinality(Before(q)) \in Nat /\ Cardinality(Before(p)) \in Nat
  BY <1>2, FS_Subset, FS_CardinalityType
<1> QED
  BY <1>1, <1>3, EventsAssumption DEF Batch

\* A batch goes without a gap from the position the term has committed; what is
\* not in it was delivered or has expired.
LEMMA FillsKeeps ==
    ASSUME EventsInv, NEW d \in Dispatchers, Fills(d)
    PROVE  EventsInv'
<1>1. /\ role[d] = "leading" /\ accepted[d] = 0 /\ pending[d] = {}
      /\ pending' = [pending EXCEPT ![d] = Batch(d)]
      /\ UNCHANGED <<state, cursors, retention, sunk, fences, role, fence, committed, accepted>>
  BY DEF Fills
<1>2. PICK p \in Batch(d) :
        /\ \A q \in Batch(d) : q <= p
        /\ through' = [through EXCEPT ![d] = p]
  BY DEF Fills
<1>3. /\ TypeOK /\ JournalInv /\ FencesInv /\ TermInv(d)
      /\ UNCHANGED <<cursor, counted, floor, expired>>
  BY <1>1 DEF EventsInv, DeliveryInv, cursors, retention
<1>4. /\ Batch(d) \subseteq journal /\ p \in Nat /\ p > committed[d] /\ p <= Last
      /\ committed[d] \in Nat /\ Last \in Nat /\ cursor.position \in Nat
      /\ Batch(d) \subseteq Positions /\ \A q \in Batch(d) : q > committed[d]
  <2>1. /\ Batch(d) \subseteq journal /\ \A q \in Batch(d) : q > committed[d]
    BY DEF Batch, Above
  <2>2. /\ committed[d] \in Nat /\ Last \in Nat /\ cursor.position \in Nat
        /\ journal \subseteq Positions /\ journal \subseteq 1..Last
    BY <1>1, <1>3 DEF EventsInv, LockInv, JournalInv, TypeOK
  <2>3. p \in journal /\ p > committed[d]
    BY <2>1
  <2>4. p \in 1..Last
    BY <2>2, <2>3
  <2>5. p \in Nat /\ p <= Last
    BY <2>2, <2>4
  <2> QED
    BY <2>1, <2>2, <2>3, <2>5
<1>5. TypeOK'
  BY <1>1, <1>2, <1>3, <1>4 DEF TypeOK, state
<1>6. JournalInv'
  BY <1>1, <1>3, <1>4, JournalKept DEF JournalInv, NothingSkipped
<1>7. FencesInv'
  BY <1>1, <1>3 DEF FencesInv, TypeOK
<1>8. ASSUME NEW e \in Dispatchers, role'[e] = "leading" PROVE TermInv(e)'
  <2>1. CASE e = d
    <3>1. /\ fence'[e] = fence[d] /\ committed'[e] = committed[d] /\ accepted'[e] = 0
          /\ pending'[e] = Batch(d) /\ through'[e] = p /\ Last' = Last
      BY <1>1, <1>2, <1>3, <2>1, StateKept DEF TypeOK
    <3>2. Batch(d) \subseteq (committed[d] + 1)..p
      BY <1>2, <1>4 DEF Positions
    <3>3. \A q \in (committed[d] + 1)..p : q \in Batch(d) \cup sunk \cup expired
      <4> SUFFICES ASSUME NEW q \in (committed[d] + 1)..p, q \notin Batch(d)
                   PROVE  q \in sunk \cup expired
        OBVIOUS
      <4>1. q \in 1..Last /\ q > committed[d] /\ q <= p
        BY <1>4
      <4>2. q \notin journal
        BY <1>2, <1>3, <4>1, BatchHasNoGap
      <4>3. q <= cursor.position \/ q \in expired
        BY <1>3, <4>1, <4>2 DEF JournalInv
      <4> QED
        BY <1>3, <1>4, <4>1, <4>3 DEF JournalInv, NothingSkipped
    <3>4. cursor.fence = fence[d] => cursor.position = committed[d]
      BY <1>1, <1>3 DEF TermInv
    <3>5. fence[d] <= cursor.fence /\ committed[d] <= cursor.position
      BY <1>3 DEF TermInv
    <3> QED
      BY <1>1, <1>3, <1>4, <3>1, <3>2, <3>3, <3>4, <3>5 DEF TermInv
  <2>2. CASE e # d
    <3>1. /\ role[e] = "leading" /\ fence'[e] = fence[e]
          /\ committed'[e] = committed[e] /\ pending'[e] = pending[e]
          /\ through'[e] = through[e] /\ accepted'[e] = accepted[e]
      BY <1>1, <1>2, <1>3, <1>8, <2>2 DEF TypeOK
    <3>2. TermInv(e)
      BY <3>1 DEF EventsInv, DeliveryInv
    <3>3. cursor.fence \in Nat
      BY <1>3 DEF TypeOK
    <3> QED
      BY <1>1, <1>3, <1>4, <3>1, <3>2, <3>3, TermKept, StateKept
  <2> QED
    BY <2>1, <2>2
<1> QED
  BY <1>1, <1>5, <1>6, <1>7, <1>8, StateKept DEF EventsInv, DeliveryInv

\* What the sink gets continues what it has: everything up to the batch is
\* behind the cursor, and the batch has no gap.
LEMMA SinkInOrder ==
    ASSUME EventsInv, NEW d \in Dispatchers, role[d] = "leading",
           sunk' = sunk \cup pending[d], UNCHANGED <<state, cursors, retention>>
    PROVE  JournalInv'
<1>1. /\ TypeOK /\ JournalInv /\ TermInv(d) /\ Last' = Last /\ Last \in Nat
      /\ UNCHANGED <<journal, cursor, floor, expired>>
  BY StateKept DEF EventsInv, DeliveryInv, state, cursors, retention
<1>2. /\ committed[d] \in Nat /\ through[d] \in Nat /\ cursor.position \in Nat
      /\ committed[d] <= cursor.position /\ through[d] <= Last
      /\ pending[d] \subseteq (committed[d] + 1)..through[d]
  BY <1>1 DEF TermInv, TypeOK
<1>3. sunk' \subseteq 1..Last
  <2>1. \A p \in pending[d] : p \in 1..Last
    BY <1>1, <1>2
  <2> QED
    BY <1>1, <2>1 DEF JournalInv
<1>4. InOrder'
  <2> SUFFICES ASSUME NEW p \in sunk', NEW q \in 1..p
               PROVE  q \in sunk' \cup expired'
    BY DEF InOrder
  <2>1. CASE p \in sunk
    BY <1>1, <2>1 DEF JournalInv, InOrder
  <2>2. CASE p \in pending[d]
    <3>1. p \in Int /\ p <= through[d] /\ q \in Int
      BY <1>2, <2>2
    <3>2. CASE q <= committed[d]
      BY <1>1, <1>2, <3>1, <3>2 DEF JournalInv, NothingSkipped
    <3>3. CASE q > committed[d]
      <4>1. q \in (committed[d] + 1)..through[d]
        BY <1>2, <3>1, <3>3
      <4> QED
        BY <1>1, <4>1 DEF TermInv
    <3> QED
      BY <1>2, <3>1, <3>2, <3>3
  <2> QED
    BY <2>1, <2>2
<1>5. NothingSkipped'
  BY <1>1 DEF JournalInv, NothingSkipped
<1> QED
  BY <1>1, <1>3, <1>4, <1>5 DEF JournalInv

\* The sink has the batch and says so: the term holds no batch any more, and
\* owes the cursor no more than the positions it has passed.
LEMMA OffersKeeps ==
    ASSUME EventsInv, NEW d \in Dispatchers, Offers(d)
    PROVE  EventsInv'
<1>1. /\ role[d] = "leading" /\ pending[d] # {} /\ sunk' = sunk \cup pending[d]
      /\ accepted' = [accepted EXCEPT ![d] = Cardinality(pending[d])]
      /\ pending' = [pending EXCEPT ![d] = {}]
      /\ UNCHANGED <<state, cursors, retention, fences, role, fence, committed, through>>
  BY DEF Offers
<1>2. /\ TypeOK /\ JournalInv /\ FencesInv /\ TermInv(d)
      /\ UNCHANGED <<cursor, counted, floor, expired>>
  BY <1>1 DEF EventsInv, DeliveryInv, cursors, retention
<1>3. /\ Cardinality(pending[d]) \in Nat
      /\ Cardinality(pending[d]) <= through[d] - committed[d]
  <2>1. /\ committed[d] \in Nat /\ through[d] \in Nat /\ committed[d] <= through[d]
        /\ pending[d] \subseteq (committed[d] + 1)..through[d] /\ pending[d] \subseteq Positions
    BY <1>2 DEF TermInv, TypeOK
  <2> QED
    BY <2>1, IntervalBound, PositionsFinite
<1>4. TypeOK'
  BY <1>1, <1>2, <1>3 DEF TypeOK, state
<1>5. JournalInv'
  BY <1>1, SinkInOrder
<1>6. FencesInv'
  <2>1. \A e \in Dispatchers \ {d} : pending'[e] = pending[e] /\ accepted'[e] = accepted[e]
    BY <1>1, <1>2 DEF TypeOK
  <2> QED
    BY <1>1, <1>2, <2>1 DEF FencesInv
<1>7. ASSUME NEW e \in Dispatchers, role'[e] = "leading" PROVE TermInv(e)'
  <2>1. CASE e = d
    <3>1. /\ fence'[e] = fence[d] /\ committed'[e] = committed[d]
          /\ pending'[e] = {} /\ accepted'[e] = Cardinality(pending[d])
          /\ through'[e] = through[d] /\ Last' = Last
      BY <1>1, <1>2, <2>1, StateKept DEF TypeOK
    <3>2. accepted[d] = 0
      BY <1>1, <1>2 DEF TermInv
    <3> QED
      BY <1>1, <1>2, <1>3, <3>1, <3>2 DEF TermInv
  <2>2. CASE e # d
    <3>1. /\ role[e] = "leading" /\ fence'[e] = fence[e]
          /\ committed'[e] = committed[e] /\ pending'[e] = pending[e]
          /\ through'[e] = through[e] /\ accepted'[e] = accepted[e]
      BY <1>1, <1>2, <1>7, <2>2 DEF TypeOK
    <3>2. TermInv(e)
      BY <3>1 DEF EventsInv, DeliveryInv
    <3>3. cursor.fence \in Nat /\ cursor.position \in Nat
      BY <1>2 DEF TypeOK
    <3> QED
      BY <1>1, <1>2, <3>1, <3>2, <3>3, TermKept, StateKept
  <2> QED
    BY <2>1, <2>2
<1> QED
  BY <1>1, <1>4, <1>5, <1>6, <1>7, StateKept DEF EventsInv, DeliveryInv

\* The sink has the batch and the term does not know.
LEMMA OfferUnheardKeeps ==
    ASSUME EventsInv, NEW d \in Dispatchers, OfferUnheard(d)
    PROVE  EventsInv'
<1>1. /\ role[d] = "leading" /\ sunk' = sunk \cup pending[d]
      /\ UNCHANGED <<state, cursors, retention, terms>>
  BY DEF OfferUnheard
<1>2. /\ TypeOK /\ FencesInv /\ UNCHANGED <<cursor, counted, floor, expired, fences, role, fence>>
      /\ UNCHANGED <<committed, pending, through, accepted>>
  BY <1>1 DEF EventsInv, DeliveryInv, cursors, retention, terms
<1>3. TypeOK'
  BY <1>1, <1>2 DEF TypeOK, state
<1>4. JournalInv'
  BY <1>1, SinkInOrder
<1>5. FencesInv'
  BY <1>2 DEF FencesInv
<1>6. ASSUME NEW e \in Dispatchers, role'[e] = "leading" PROVE TermInv(e)'
  <2>1. TermInv(e) /\ cursor.fence \in Nat /\ cursor.position \in Nat
    BY <1>2, <1>6 DEF EventsInv, DeliveryInv, TypeOK
  <2> QED
    BY <1>1, <1>2, <2>1, TermKept, StateKept
<1> QED
  BY <1>1, <1>3, <1>4, <1>5, <1>6, StateKept DEF EventsInv, DeliveryInv

\* An advance of the cursor by the term whose fence it carries, heard or not,
\* passes only what the sink has accepted.
LEMMA AdvancesKeeps ==
    ASSUME EventsInv, NEW d \in Dispatchers, Advances(d)
    PROVE  EventsInv'
<1>1. /\ role[d] = "leading" /\ accepted[d] # 0 /\ UNCHANGED <<state, retention, sunk>>
      /\ TypeOK /\ JournalInv /\ FencesInv /\ TermInv(d)
  BY DEF Advances, EventsInv, DeliveryInv
<1>2. CASE ~Advanceable(d)
  <2>1. TermEnds(d) /\ UNCHANGED <<cursor, counted>>
    BY <1>2 DEF Advances, cursors
  <2> QED
    BY <1>1, <2>1, EndKeeps
<1>3. CASE Advanceable(d)
  <2>1. /\ cursor' = [position |-> through[d], fence |-> cursor.fence, holder |-> cursor.holder]
        /\ counted' = Count(d) /\ cursor.fence = fence[d]
        /\ cursor.position = committed[d] \/ cursor.position = through[d]
        /\ UNCHANGED <<fences, role, fence, pending, through>>
        /\ \/ /\ committed' = [committed EXCEPT ![d] = through[d]]
              /\ accepted' = [accepted EXCEPT ![d] = 0]
           \/ UNCHANGED <<committed, accepted>>
    BY <1>3 DEF Advances, Advanceable, terms
  <2>2. /\ committed[d] \in Nat /\ through[d] \in Nat /\ cursor.position \in Nat
        /\ cursor.fence \in Nat /\ cursor'.position = through[d] /\ cursor'.fence = fence[d]
        /\ cursor.position <= cursor'.position /\ through[d] <= Last /\ pending[d] = {}
        /\ Count(d) \in Nat
    BY <1>1, <2>1 DEF TypeOK, TermInv, Count
  <2>3. TypeOK'
    <3>1. committed' \in [Dispatchers -> Nat] /\ accepted' \in [Dispatchers -> Nat]
      BY <1>1, <2>1, <2>2 DEF TypeOK
    <3>2. cursor' \in [position : Nat, fence : Nat, holder : Dispatchers \cup {Nobody}]
      BY <1>1, <2>1, <2>2 DEF TypeOK
    <3> QED
      BY <1>1, <2>1, <2>2, <3>1, <3>2 DEF TypeOK, state, retention
  <2>4. JournalInv'
    <3>1. \A q \in 1..cursor'.position : q \in sunk \cup expired
      <4> SUFFICES ASSUME NEW q \in 1..through[d] PROVE q \in sunk \cup expired
        BY <2>2
      <4>1. CASE q <= committed[d]
        BY <1>1, <2>2, <4>1 DEF JournalInv, NothingSkipped, TermInv
      <4>2. CASE q > committed[d]
        <5>1. q \in (committed[d] + 1)..through[d]
          BY <2>2, <4>2
        <5> QED
          BY <1>1, <2>2, <5>1 DEF TermInv
      <4> QED
        BY <2>2, <4>1, <4>2
    <3> QED
      BY <1>1, <2>2, <3>1, JournalKept
  <2>5. FencesInv'
    <3>1. /\ \A e \in Dispatchers \ {d} : accepted'[e] = accepted[e]
          /\ role'[d] = "leading"
      BY <1>1, <2>1 DEF TypeOK
    <3> QED
      BY <1>1, <2>1, <2>2, <3>1 DEF FencesInv
  <2>6. ASSUME NEW e \in Dispatchers, role'[e] = "leading" PROVE TermInv(e)'
    <3>1. CASE e = d
      <4>1. /\ fence'[e] = fence[d] /\ pending'[e] = {} /\ through'[e] = through[d]
            /\ \/ committed'[e] = through[d] /\ accepted'[e] = 0
               \/ committed'[e] = committed[d] /\ accepted'[e] = accepted[d]
            /\ Last' = Last /\ sunk' = sunk /\ expired' = expired
        BY <1>1, <2>1, <2>2, <3>1, StateKept DEF TypeOK, retention
      <4>2. CASE committed'[e] = through[d] /\ accepted'[e] = 0
        <5>1. (through[d] + 1)..through[d] = {}
          BY <2>2
        <5> QED
          BY <2>1, <2>2, <4>1, <4>2, <5>1 DEF TermInv
      <4>3. CASE committed'[e] = committed[d] /\ accepted'[e] = accepted[d]
        <5>1. committed'[e] <= cursor'.position
          BY <1>1, <2>2, <4>3 DEF TermInv
        <5>2. \A q \in (committed'[e] + 1)..through'[e] : q \in pending'[e] \cup sunk' \cup expired'
          BY <1>1, <2>2, <4>1, <4>3 DEF TermInv
        <5>3. /\ committed'[e] <= through'[e] /\ pending'[e] \subseteq (committed'[e] + 1)..through'[e]
              /\ accepted'[e] <= through'[e] - committed'[e] /\ accepted'[e] # 0
          BY <1>1, <4>1, <4>3 DEF TermInv
        <5> QED
          BY <2>1, <2>2, <4>1, <5>1, <5>2, <5>3 DEF TermInv
      <4> QED
        BY <4>1, <4>2, <4>3
    <3>2. CASE e # d
      <4>1. /\ role[e] = "leading" /\ fence'[e] = fence[e]
            /\ committed'[e] = committed[e] /\ pending'[e] = pending[e]
            /\ through'[e] = through[e] /\ accepted'[e] = accepted[e]
        BY <1>1, <2>1, <2>6, <3>2 DEF TypeOK
      <4>2. TermInv(e) /\ fence[e] # fence[d]
        BY <1>1, <3>2, <4>1 DEF EventsInv, DeliveryInv, FencesInv
      <4>3. sunk \subseteq sunk' /\ expired \subseteq expired' /\ Last' = Last
        BY <1>1, StateKept DEF retention
      <4> QED
        BY <1>1, <2>1, <2>2, <4>1, <4>2, <4>3, TermKept
    <3> QED
      BY <3>1, <3>2
  <2> QED
    BY <1>1, <2>3, <2>4, <2>5, <2>6, StateKept DEF EventsInv, DeliveryInv
<1> QED
  BY <1>2, <1>3

\* The end of a term for any other reason.
LEMMA StopsKeeps ==
    ASSUME EventsInv, NEW d \in Dispatchers, Stops(d)
    PROVE  EventsInv'
<1>1. /\ role[d] # "out" /\ TermEnds(d) /\ UNCHANGED cursor
      /\ UNCHANGED <<state, counted, retention, sunk>>
  BY DEF Stops, cursors
<1> QED
  BY <1>1, EndKeeps

-----------------------------------------------------------------------------
(* Retention                                                                *)

\* A floor is the cursor's position at some time, and the cursor only advances.
LEMMA RetentionBeginsKeeps ==
    ASSUME EventsInv, RetentionBegins
    PROVE  EventsInv'
<1>1. /\ floor' \in Nat \cup {NoFloor} /\ (floor' \in Nat => floor' <= cursor.position)
      /\ UNCHANGED <<state, cursors, expired, sunk, terms>>
      /\ cursor.position \in Nat
  BY DEF RetentionBegins, NoFloor, EventsInv, TypeOK
<1>2. /\ TypeOK /\ JournalInv /\ FencesInv /\ Last' = Last
      /\ UNCHANGED <<journal, cursor, counted, fences, role, fence>>
      /\ UNCHANGED <<committed, pending, through, accepted>>
  BY <1>1, StateKept DEF EventsInv, DeliveryInv, state, cursors, terms
<1>3. TypeOK'
  BY <1>1, <1>2 DEF TypeOK, state
<1>4. JournalInv'
  BY <1>1, <1>2 DEF JournalInv, NothingSkipped, InOrder
<1>5. FencesInv'
  BY <1>2 DEF FencesInv
<1>6. ASSUME NEW e \in Dispatchers, role'[e] = "leading" PROVE TermInv(e)'
  <2>1. TermInv(e) /\ cursor.fence \in Nat
    BY <1>2, <1>6 DEF EventsInv, DeliveryInv, TypeOK
  <2> QED
    BY <1>1, <1>2, <2>1, TermKept
<1> QED
  BY <1>1, <1>3, <1>4, <1>5, <1>6, StateKept DEF EventsInv, DeliveryInv

\* Deleting rows gives their units back, and what was not delivered is known.
LEMMA RetentionDeletesKeeps ==
    ASSUME EventsInv, RetentionDeletes
    PROVE  EventsInv'
<1>1. PICK doomed \in SUBSET {p \in journal : BelowFloor(p)} :
        /\ journal' = journal \ doomed
        /\ retained' = retained - Cardinality(doomed)
        /\ expired' = expired \cup {p \in doomed : p > cursor.position}
  BY DEF RetentionDeletes, Units
<1>2. /\ lock = Nobody /\ floor' = Idle
      /\ UNCHANGED <<lock, head, reserved, capacity, sessions, tx, cursors, sunk, terms>>
  BY DEF RetentionDeletes, StateFree
<1>3. /\ TypeOK /\ LockInv /\ UnitsInv /\ JournalInv /\ FencesInv
      /\ UNCHANGED <<cursor, counted, fences, role, fence>>
      /\ UNCHANGED <<committed, pending, through, accepted>>
      /\ doomed \subseteq journal /\ doomed \subseteq Positions
  BY <1>2 DEF EventsInv, DeliveryInv, cursors, terms, TypeOK
<1>4. OpenTx = NoTx /\ OpenTx' = NoTx /\ Last' = Last /\ Last \in Nat
  <2>1. OpenTx = NoTx /\ OpenTx' = NoTx
    BY <1>2, EventsAssumption DEF OpenTx
  <2> QED
    BY <1>2, <1>3, <2>1 DEF Last, LockInv
<1>5. /\ Cardinality(journal \ doomed) = Cardinality(journal) - Cardinality(doomed)
      /\ Cardinality(journal) \in Nat /\ Cardinality(doomed) \in Nat
      /\ Cardinality(journal \ doomed) \in Nat
  <2>1. journal \subseteq Positions /\ journal \ doomed \subseteq Positions
    BY <1>3 DEF TypeOK
  <2>2. /\ IsFiniteSet(journal) /\ IsFiniteSet(doomed)
        /\ Cardinality(journal) \in Nat /\ Cardinality(doomed) \in Nat
        /\ Cardinality(journal \ doomed) \in Nat
    BY <1>3, <2>1, PositionsFinite
  <2>3. journal \cap doomed = doomed
    BY <1>3
  <2>4. Cardinality(journal \ doomed) = Cardinality(journal) - Cardinality(journal \cap doomed)
    BY <2>2, FS_Difference
  <2> QED
    BY <2>2, <2>3, <2>4
<1>6. retained' = Cardinality(journal') + sessions /\ retained' \in Nat
  <2>1. retained = Cardinality(journal) + sessions /\ retained \in Nat /\ sessions \in Nat
    BY <1>3, <1>4, <1>5, NoTxRows DEF UnitsInv, TypeOK
  <2>2. /\ retained' = retained - Cardinality(doomed)
        /\ Cardinality(journal') = Cardinality(journal) - Cardinality(doomed)
        /\ Cardinality(journal') \in Nat
    BY <1>1, <1>5
  <2> QED
    BY <1>5, <2>1, <2>2
<1>7. TypeOK'
  <2>1. journal' \subseteq Positions /\ expired' \subseteq Positions
    BY <1>1, <1>3 DEF TypeOK
  <2> QED
    BY <1>2, <1>3, <1>6, <2>1 DEF TypeOK
<1>8. LockInv'
  BY <1>2, <1>3, <1>4 DEF LockInv
<1>9. UnitsInv'
  <2>1. /\ OpenTx'.units = 0 /\ OpenTx'.held = 0 /\ sessions \in Nat
        /\ OpenTx'.units = Cardinality(OpenTx'.rows) + OpenTx'.held
        /\ reserved' - OpenTx'.held = sessions' /\ sessions' = sessions
    BY <1>2, <1>3, <1>4, NoTxRows DEF UnitsInv, TypeOK
  <2>2. retained' - OpenTx'.units = Cardinality(journal') + sessions'
    BY <1>6, <2>1
  <2> QED
    BY <2>1, <2>2 DEF UnitsInv
<1>10. JournalInv'
  <2>1. cursor.position \in Nat /\ \A p \in journal : p \in Nat
    BY <1>3 DEF TypeOK, Positions
  <2>2. \A q \in 1..Last : q \in journal' \/ q <= cursor.position \/ q \in expired'
    BY <1>1, <1>3, <2>1 DEF JournalInv
  <2>3. NothingSkipped' /\ InOrder'
    BY <1>1, <1>2, <1>3 DEF JournalInv, NothingSkipped, InOrder
  <2>4. floor' \notin Nat
    BY <1>2 DEF Idle
  <2> QED
    BY <1>1, <1>2, <1>3, <1>4, <2>2, <2>3, <2>4 DEF JournalInv
<1>11. FencesInv'
  BY <1>3 DEF FencesInv
<1>12. ASSUME NEW e \in Dispatchers, role'[e] = "leading" PROVE TermInv(e)'
  <2>1. TermInv(e) /\ cursor.fence \in Nat /\ cursor.position \in Nat
    BY <1>3, <1>12 DEF EventsInv, DeliveryInv, TypeOK
  <2>2. sunk \subseteq sunk' /\ expired \subseteq expired'
    BY <1>1, <1>2
  <2> QED
    BY <1>3, <1>4, <2>1, <2>2, TermKept
<1> QED
  BY <1>7, <1>8, <1>9, <1>10, <1>11, <1>12 DEF EventsInv, DeliveryInv

-----------------------------------------------------------------------------
(* The invariant and what it gives                                          *)

LEMMA EventsInit == Init => EventsInv
<1> SUFFICES ASSUME Init PROVE EventsInv
  OBVIOUS
<1>1. TypeOK
  BY EventsAssumption DEF Init, TypeOK, NoTx, NoCursor, Idle
<1>2. OpenTx = NoTx /\ Last = 0
  <2>1. lock = Nobody /\ head = 0
    BY DEF Init
  <2> QED
    BY <1>1, <2>1, FreeLast
<1>3. LockInv
  <2>1. NoTx.rows = (0 + 1)..0
    BY NoTxRows
  <2> QED
    BY <1>2, <2>1, EventsAssumption DEF Init, LockInv
<1>4. UnitsInv
  <2>1. Cardinality({}) = 0
    BY FS_EmptySet
  <2> QED
    BY <1>2, <2>1, NoTxRows DEF Init, UnitsInv
<1>5. JournalInv
  BY <1>2 DEF Init, JournalInv, NothingSkipped, InOrder, NoCursor, Idle
<1>6. FencesInv
  BY DEF Init, FencesInv, NoCursor
<1>7. \A d \in Dispatchers : role[d] # "leading"
  BY DEF Init
<1> QED
  BY <1>1, <1>3, <1>4, <1>5, <1>6, <1>7 DEF EventsInv, DeliveryInv

\* Every step of a producer, a dispatcher or retention keeps the invariant.
LEMMA EventsStep == EventsInv /\ [Next]_vars => EventsInv'
<1> SUFFICES ASSUME EventsInv, [Next]_vars PROVE EventsInv'
  OBVIOUS
<1>1. CASE \E p \in Producers : Produces(p) \/ ProducerCommits(p) \/ ProducerRollsBack(p)
  BY <1>1, ProducesKeeps, CommitKeeps, RollbackKeeps
<1>2. CASE \E c \in Capacities : Configures(c)
  BY <1>2, ConfiguresKeeps
<1>3. CASE RetentionBegins \/ RetentionDeletes
  BY <1>3, RetentionBeginsKeeps, RetentionDeletesKeeps
<1>4. CASE \E d \in Dispatchers : \/ Leases(d) \/ Claims(d) \/ Fills(d) \/ Offers(d)
                                  \/ OfferUnheard(d) \/ Advances(d) \/ Stops(d)
  BY <1>4, LeasesKeeps, ClaimsKeeps, FillsKeeps, OffersKeeps, OfferUnheardKeeps,
     AdvancesKeeps, StopsKeeps
<1>5. CASE UNCHANGED vars
  <2>1. UNCHANGED <<state, cursors, retention, sunk, terms>>
    BY <1>5 DEF vars
  <2>2. TypeOK'
    BY <2>1 DEF EventsInv, TypeOK, state, cursors, retention, terms
  <2>3. UNCHANGED journal
    BY <2>1 DEF state
  <2>4. DeliveryInv'
    BY <2>1, <2>3, StateKept, DeliveryGrows DEF EventsInv, DeliveryInv, JournalInv
  <2> QED
    BY <2>1, <2>2, <2>4, StateKept DEF EventsInv
<1> QED
  BY <1>1, <1>2, <1>3, <1>4, <1>5 DEF Next

\* The inductive invariant: the lock orders the positions, the units are those
\* of rows and sessions, and every committed position is accounted for.
THEOREM EventsInvariant == Spec => []EventsInv
BY EventsInit, EventsStep, PTL DEF Spec

\* Rows, units, the cursor and the terms keep their types.
THEOREM EventsTypeCorrect == Spec => []TypeOK
<1>1. EventsInv => TypeOK
  BY DEF EventsInv
<1> QED
  BY <1>1, EventsInvariant, PTL

\* At least once: whatever leases are lost, answers lost and transactions rolled
\* back, the cursor passes no event that the sink has not accepted.
THEOREM AtLeastOnce == Spec => []NothingSkipped
<1>1. EventsInv => NothingSkipped
  BY DEF EventsInv, DeliveryInv, JournalInv
<1> QED
  BY <1>1, EventsInvariant, PTL

\* In order: a stale leader repeats events and never runs ahead.
THEOREM DeliveredInOrder == Spec => []InOrder
<1>1. EventsInv => InOrder
  BY DEF EventsInv, DeliveryInv, JournalInv
<1> QED
  BY <1>1, EventsInvariant, PTL

\* retained_events and reserved_withdrawals are what they say they are.
THEOREM UnitsCorrect == Spec => []UnitsAccounted
<1>1. EventsInv => UnitsAccounted
  <2> SUFFICES ASSUME EventsInv, lock = Nobody
               PROVE  retained = Cardinality(journal) + reserved /\ reserved = sessions
    BY DEF UnitsAccounted
  <2>1. TypeOK /\ UnitsInv /\ OpenTx = NoTx
    BY FreeLast DEF EventsInv
  <2> QED
    BY <2>1, NoTxRows DEF UnitsInv, TypeOK
<1> QED
  BY <1>1, EventsInvariant, PTL

\* A retention statement that found a cursor when it began removes nothing that is
\* not delivered, however long it waits between reading the floor and deleting.
THEOREM RetentionCorrect == Spec => UndeliveredKept
<1>1. EventsInv /\ [Next]_vars =>
        [\A p \in journal : p \notin journal' => p <= cursor.position \/ floor = NoFloor]_vars
  <2> SUFFICES ASSUME EventsInv, Next, NEW p \in journal, p \notin journal', floor # NoFloor
               PROVE  p <= cursor.position
    BY DEF vars
  <2>1. TypeOK /\ JournalInv /\ p \in Nat
    BY DEF EventsInv, DeliveryInv, TypeOK, Positions
  <2>2. RetentionDeletes
    <3>1. ~UNCHANGED journal
      OBVIOUS
    <3>2. ASSUME NEW q \in Producers PROVE ~Produces(q) /\ ~ProducerRollsBack(q) /\ ~ProducerCommits(q)
      BY DEF Produces, Appends, Grants, Replaces, Withdraws, Reserve, ProducerCommits,
             ProducerRollsBack
    <3>3. ASSUME NEW c \in Capacities PROVE ~Configures(c)
      BY DEF Configures
    <3>4. ~RetentionBegins
      BY DEF RetentionBegins, state
    <3>5. ASSUME NEW d \in Dispatchers
          PROVE  /\ ~Leases(d) /\ ~Claims(d) /\ ~Fills(d) /\ ~Offers(d)
                 /\ ~OfferUnheard(d) /\ ~Advances(d) /\ ~Stops(d)
      BY DEF Leases, Claims, Fills, Offers, OfferUnheard, Advances, Stops, state
    <3> QED
      BY <3>2, <3>3, <3>4, <3>5 DEF Next
  <2>3. BelowFloor(p) /\ floor # Idle
    BY <2>2 DEF RetentionDeletes
  <2> QED
    BY <2>1, <2>3 DEF BelowFloor, JournalInv, TypeOK
<1> QED
  BY <1>1, EventsInvariant, PTL DEF Spec, UndeliveredKept

\* The cursor never goes back, and counts no event twice.
THEOREM CursorCorrect == Spec => CursorAdvances
<1> DEFINE Advancing == /\ cursor'.fence >= cursor.fence
                        /\ cursor'.position >= cursor.position
                        /\ counted' - counted <= cursor'.position - cursor.position
<1>1. EventsInv /\ [Next]_vars => [Advancing]_vars
  <2> SUFFICES ASSUME EventsInv, Next PROVE Advancing
    OBVIOUS
  <2>1. /\ TypeOK /\ cursor.fence \in Nat /\ cursor.position \in Nat /\ counted \in Nat
    BY DEF EventsInv, TypeOK
  <2>2. CASE UNCHANGED cursors
    BY <2>1, <2>2 DEF cursors
  <2>3. ASSUME NEW d \in Dispatchers, Claims(d) PROVE Advancing
    <3>1. fence[d] \in Nat
      BY <2>1 DEF TypeOK
    <3>2. /\ cursor'.position = cursor.position /\ counted' = counted
          /\ cursor'.fence = cursor.fence \/ (Claimable(d) /\ cursor'.fence = fence[d])
      BY <2>3 DEF Claims
    <3> QED
      BY <2>1, <3>1, <3>2 DEF Claimable
  <2>4. ASSUME NEW d \in Dispatchers, Advances(d) PROVE Advancing
    <3>1. /\ role[d] = "leading" /\ TermInv(d)
          /\ committed[d] \in Nat /\ through[d] \in Nat /\ accepted[d] \in Nat
      BY <2>1, <2>4 DEF Advances, EventsInv, DeliveryInv, TypeOK
    <3>2. CASE UNCHANGED cursors
      BY <2>2, <3>2
    <3>3. CASE /\ Advanceable(d) /\ counted' = Count(d)
               /\ cursor'.position = through[d] /\ cursor'.fence = cursor.fence
      BY <2>1, <3>1, <3>3 DEF Advanceable, Count, TermInv
    <3> QED
      BY <2>4, <3>2, <3>3 DEF Advances
  <2>5. ASSUME NEW p \in Producers, Produces(p) \/ ProducerCommits(p) \/ ProducerRollsBack(p)
        PROVE  UNCHANGED cursors
    BY <2>5 DEF Produces, Appends, Grants, Replaces, Withdraws, Reserve, ProducerCommits,
                ProducerRollsBack
  <2>6. ASSUME NEW d \in Dispatchers,
               Leases(d) \/ Fills(d) \/ Offers(d) \/ OfferUnheard(d) \/ Stops(d)
        PROVE  UNCHANGED cursors
    BY <2>6 DEF Leases, Fills, Offers, OfferUnheard, Stops
  <2> QED
    BY <2>2, <2>3, <2>4, <2>5, <2>6 DEF Next, Configures, RetentionBegins, RetentionDeletes
<1> QED
  BY <1>1, EventsInvariant, PTL DEF Spec, CursorAdvances

-----------------------------------------------------------------------------
(* The delivery log                                                         *)

\* What the log is made of; the rest of the state is hidden from it.
LogState == <<Last, journal, sunk, cursor.position, expired, Unread>>

LEMMA LogStutters == ASSUME UNCHANGED LogState PROVE UNCHANGED Log!vars
BY DEF LogState, Log!vars

LEMMA LogInit == Init => Log!Init
<1> SUFFICES ASSUME Init PROVE Log!Init
  OBVIOUS
<1>1. EventsInv /\ lock = Nobody /\ head = 0
  BY EventsInit DEF Init
<1>2. Last = 0
  BY <1>1, FreeLast DEF EventsInv
<1> QED
  BY <1>2 DEF Init, Log!Init, NoCursor, Unread

\* Reserved positions are not in the log.
LEMMA ProducesHidden ==
    ASSUME EventsInv, NEW p \in Producers, Produces(p)
    PROVE  UNCHANGED LogState
<1>1. PICK n \in Nat, units \in Int, held \in Int : Reserve(p, n, units, held)
  <2>1. \A m \in Nat : Smaller(reserved, m) \in Nat
    BY DEF Smaller, EventsInv, TypeOK
  <2>2. CASE Appends(p)
    BY <2>2 DEF Appends
  <2>3. CASE Grants(p)
    BY <2>3 DEF Grants
  <2>4. CASE Replaces(p)
    <3> DEFINE spent == Smaller(reserved, 1)
    <3>1. spent \in Nat /\ Reserve(p, 2, 1 - spent + 2, 1 - spent)
      BY <2>1, <2>4 DEF Replaces
    <3> HIDE DEF spent
    <3>2. 2 \in Nat /\ 1 - spent + 2 \in Int /\ 1 - spent \in Int
      BY <3>1
    <3> QED
      BY <3>1, <3>2, Zenon
  <2>5. ASSUME NEW n \in Positions, Withdraws(p, n)
        PROVE  \E m \in Nat, units \in Int, held \in Int : Reserve(p, m, units, held)
    <3> DEFINE spent == Smaller(reserved, n)
    <3>1. n \in Nat /\ spent \in Nat /\ Reserve(p, n, n - spent, 0 - spent)
      BY <2>1, <2>5 DEF Withdraws, Positions
    <3> HIDE DEF spent
    <3>2. n - spent \in Int /\ 0 - spent \in Int
      BY <3>1
    <3> QED
      BY <3>1, <3>2, Zenon
  <2> QED
    BY <2>2, <2>3, <2>4, <2>5 DEF Produces
<1>2. /\ lock = Nobody /\ lock' = p /\ head' = head + n
      /\ tx' = [tx EXCEPT ![p] =
                  [rows |-> (head + 1)..(head + n), units |-> units, held |-> held]]
      /\ UNCHANGED <<journal, cursors, retention, sunk>>
  BY <1>1 DEF Reserve, StateFree
<1>3. Last = head /\ head \in Nat /\ p \in DOMAIN tx
  BY <1>2, FreeLast DEF EventsInv, TypeOK
<1>4. OpenTx'.rows = (head + 1)..(head + n)
  BY <1>2, <1>3 DEF OpenTx
<1>5. Last' = Last
  BY <1>2, <1>3, <1>4, RowCount DEF Last
<1> QED
  BY <1>2, <1>5 DEF LogState, Unread, cursors, retention

\* A rollback takes back what the log never had.
LEMMA RollbackHidden ==
    ASSUME EventsInv, NEW p \in Producers, ProducerRollsBack(p)
    PROVE  UNCHANGED LogState
<1>1. /\ tx[p] # NoTx /\ head' = head - Cardinality(tx[p].rows) /\ lock' = Nobody
      /\ UNCHANGED <<journal, cursors, retention, sunk>>
  BY DEF ProducerRollsBack
<1>2. lock = p /\ OpenTx = tx[p] /\ head' = Last
  BY <1>1 DEF EventsInv, LockInv, OpenTx, Last
<1>3. Last' = head'
  <2>1. OpenTx' = NoTx
    BY <1>1, EventsAssumption DEF OpenTx
  <2>2. head' \in Nat
    BY <1>2 DEF EventsInv, LockInv
  <2> QED
    BY <2>1, <2>2, NoTxRows, FS_EmptySet DEF Last
<1> QED
  BY <1>1, <1>2, <1>3 DEF LogState, Unread, cursors, retention

\* The positions of a transaction enter the log together, after all others.
LEMMA CommitLogged ==
    ASSUME EventsInv, NEW p \in Producers, ProducerCommits(p)
    PROVE  Log!Next
<1>1. /\ tx[p] # NoTx /\ journal' = journal \cup tx[p].rows /\ lock' = Nobody
      /\ UNCHANGED <<head, cursors, retention, sunk>>
  BY DEF ProducerCommits
<1>2. /\ lock = p /\ tx[p].rows = (Last + 1)..head /\ Last \in Nat /\ head \in Nat /\ Last < head
  BY <1>1 DEF EventsInv, LockInv, OpenTx, TypeOK
<1>3. Last' = head
  <2>1. OpenTx' = NoTx
    BY <1>1, EventsAssumption DEF OpenTx
  <2> QED
    BY <1>1, <1>2, <2>1, NoTxRows, FS_EmptySet DEF Last
<1>4. Log!Commit
  BY <1>1, <1>2, <1>3 DEF Log!Commit, Unread, cursors, retention
<1> QED
  BY <1>4 DEF Log!Next

\* A statement that found no cursor may expire events; any other removes what
\* the cursor has passed, for its floor is no higher than the cursor.
LEMMA RetentionLogged ==
    ASSUME EventsInv, RetentionDeletes
    PROVE  Log!Next
<1>1. PICK doomed \in SUBSET {p \in journal : BelowFloor(p)} :
        /\ journal' = journal \ doomed
        /\ expired' = expired \cup {p \in doomed : p > cursor.position}
  BY DEF RetentionDeletes
<1>2. /\ floor # Idle /\ floor' = Idle /\ UNCHANGED <<lock, head, tx, cursor, sunk>>
  BY DEF RetentionDeletes, cursors
<1>3. Last' = Last
  BY <1>2 DEF Last, OpenTx
<1>4. Unread \/ \A p \in doomed : p <= cursor.position
  <2> SUFFICES ASSUME ~Unread, NEW p \in doomed PROVE p <= cursor.position
    OBVIOUS
  <2>1. floor \in Nat /\ floor <= cursor.position /\ cursor.position \in Nat /\ p \in Nat
    BY <1>1, <1>2 DEF Unread, EventsInv, DeliveryInv, JournalInv, TypeOK, Positions
  <2> QED
    BY <1>1, <2>1 DEF BelowFloor, Unread
<1>5. Unread' \in {Unread, FALSE}
  <2>1. Unread' => Unread
    BY <1>2 DEF Unread, Idle, NoFloor
  <2>2. Unread \in BOOLEAN /\ Unread' \in BOOLEAN
    BY DEF Unread
  <2> QED
    BY <2>1, <2>2
<1>6. Log!Remove(doomed)
  BY <1>1, <1>2, <1>3, <1>4, <1>5 DEF Log!Remove
<1> QED
  BY <1>1, <1>6 DEF Log!Next

\* A statement that begins finds a cursor exactly when a reader has come.
LEMMA RetentionHidden ==
    ASSUME EventsInv, RetentionBegins
    PROVE  UNCHANGED LogState
<1>1. UNCHANGED <<lock, head, tx, journal, cursor, expired, sunk>>
  BY DEF RetentionBegins, state, cursors
<1>2. Unread' = Unread
  <2>1. cursor.position \in Nat /\ floor = Idle /\ cursor' = cursor
        /\ floor' = IF cursor.fence = 0 THEN NoFloor ELSE cursor.position
    BY <1>1 DEF RetentionBegins, EventsInv, TypeOK
  <2> QED
    BY <2>1 DEF Unread, Idle, NoFloor
<1> QED
  BY <1>1, <1>2 DEF LogState, Last, OpenTx

\* The first claim is the reader's coming.
LEMMA ClaimsLogged ==
    ASSUME EventsInv, NEW d \in Dispatchers, Claims(d)
    PROVE  [Log!Next]_(Log!vars)
<1>1. /\ UNCHANGED <<lock, head, tx, journal, floor, expired, sunk>>
      /\ cursor'.position = cursor.position
      /\ cursor'.fence = cursor.fence \/ (Claimable(d) /\ cursor'.fence = fence[d])
  BY DEF Claims, state, retention
<1>2. Unread' => Unread
  BY <1>1 DEF Unread, Claimable, EventsInv, TypeOK
<1>3. Last' = Last
  BY <1>1 DEF Last, OpenTx
<1>4. CASE Unread' = Unread
  BY <1>1, <1>3, <1>4, LogStutters DEF LogState
<1>5. CASE Unread' # Unread
  <2>1. Unread' = FALSE
    BY <1>2, <1>5 DEF Unread
  <2>2. Log!ReaderCame
    BY <1>1, <1>3, <2>1 DEF Log!ReaderCame
  <2> QED
    BY <2>2 DEF Log!Next
<1> QED
  BY <1>4, <1>5

\* A batch of any term, stale or not, leaves no gap in the sink.
LEMMA OfferLogged ==
    ASSUME EventsInv, NEW d \in Dispatchers, Offers(d) \/ OfferUnheard(d)
    PROVE  Log!Next
<1>1. /\ role[d] = "leading" /\ sunk' = sunk \cup pending[d]
      /\ UNCHANGED <<state, cursors, retention>>
  BY DEF Offers, OfferUnheard
<1>2. Last' = Last /\ UNCHANGED <<journal, cursor, floor, expired>>
  BY <1>1, StateKept DEF state, cursors, retention
<1>3. pending[d] \in SUBSET (1..Last)
  <2>1. /\ Last \in Nat /\ committed[d] \in Nat /\ through[d] \in Nat /\ through[d] <= Last
        /\ pending[d] \subseteq (committed[d] + 1)..through[d]
    BY <1>1 DEF EventsInv, DeliveryInv, LockInv, TermInv, TypeOK
  <2> QED
    BY <2>1
<1>4. InOrder'
  BY <1>1, SinkInOrder DEF JournalInv
<1>5. Log!Deliver(pending[d])
  BY <1>1, <1>2, <1>4 DEF Log!Deliver, InOrder, Unread
<1> QED
  BY <1>3, <1>5 DEF Log!Next

\* An advance moves the mark, or repeats a move whose answer was lost.
LEMMA AdvancesLogged ==
    ASSUME EventsInv, NEW d \in Dispatchers, Advances(d)
    PROVE  [Log!Next]_(Log!vars)
<1>1. /\ UNCHANGED <<lock, head, tx, journal, floor, expired, sunk>>
      /\ cursor'.fence = cursor.fence
      /\ cursor'.position = cursor.position \/ (Advanceable(d) /\ cursor'.position = through[d])
      /\ role[d] = "leading"
  BY DEF Advances, state, cursors, retention
<1>2. Last' = Last /\ Unread' = Unread
  BY <1>1 DEF Last, OpenTx, Unread
<1>3. CASE cursor'.position = cursor.position
  BY <1>1, <1>2, <1>3, LogStutters DEF LogState
<1>4. CASE cursor'.position # cursor.position
  <2>1. /\ Advanceable(d) /\ TermInv(d) /\ cursor'.position = through[d] /\ Last \in Nat
        /\ cursor.position \in Nat /\ committed[d] \in Nat /\ through[d] \in Nat
    BY <1>1, <1>4 DEF EventsInv, DeliveryInv, LockInv, TypeOK
  <2>2. through[d] > cursor.position /\ through[d] \in 1..Last
    BY <1>4, <2>1 DEF Advanceable, TermInv
  <2>3. NothingSkipped'
    BY AdvancesKeeps DEF EventsInv, DeliveryInv, JournalInv
  <2>4. Log!Pass(through[d])
    BY <1>1, <1>2, <2>1, <2>2, <2>3 DEF Log!Pass, NothingSkipped
  <2> QED
    BY <2>2, <2>4 DEF Log!Next
<1> QED
  BY <1>3, <1>4

\* The steps that the log does not see.
LEMMA QuietHidden ==
    ASSUME UNCHANGED <<lock, head, tx, journal, cursors, retention, sunk>>
    PROVE  UNCHANGED LogState
BY DEF LogState, Last, OpenTx, Unread, cursors, retention

LEMMA LogNext == EventsInv /\ [Next]_vars => [Log!Next]_(Log!vars)
<1> SUFFICES ASSUME EventsInv, [Next]_vars PROVE [Log!Next]_(Log!vars)
  OBVIOUS
<1>1. CASE \E p \in Producers : Produces(p) \/ ProducerCommits(p) \/ ProducerRollsBack(p)
  BY <1>1, ProducesHidden, CommitLogged, RollbackHidden, LogStutters
<1>2. CASE \E c \in Capacities : Configures(c)
  <2>1. UNCHANGED <<lock, head, tx, journal, cursors, retention, sunk>>
    BY <1>2 DEF Configures
  <2> QED
    BY <2>1, QuietHidden, LogStutters
<1>3. CASE RetentionBegins \/ RetentionDeletes
  BY <1>3, RetentionHidden, RetentionLogged, LogStutters
<1>4. ASSUME NEW d \in Dispatchers,
             \/ Leases(d) \/ Claims(d) \/ Fills(d) \/ Offers(d) \/ OfferUnheard(d)
             \/ Advances(d) \/ Stops(d)
      PROVE  [Log!Next]_(Log!vars)
  <2>1. CASE Leases(d) \/ Fills(d) \/ Stops(d)
    <3>1. UNCHANGED <<lock, head, tx, journal, cursors, retention, sunk>>
      BY <2>1 DEF Leases, Fills, Stops, state
    <3> QED
      BY <3>1, QuietHidden, LogStutters
  <2> QED
    BY <1>4, <2>1, ClaimsLogged, OfferLogged, AdvancesLogged
<1>5. CASE UNCHANGED vars
  <2>1. UNCHANGED <<lock, head, tx, journal, cursors, retention, sunk>>
    BY <1>5 DEF vars, state
  <2> QED
    BY <2>1, QuietHidden, LogStutters
<1> QED
  BY <1>1, <1>2, <1>3, <1>4, <1>5 DEF Next

\* The journal with its cursor and dispatchers implements DeliveryLog: however
\* terms overlap, answers get lost and transactions roll back, the sink sees a
\* log without gaps and the cursor never passes what the sink lacks.
THEOREM LogImplemented == Spec => KeepsLog
<1>1. Spec => Log!Spec
  BY LogInit, LogNext, EventsInvariant, PTL DEF Spec, Log!Spec
<1> QED
  BY <1>1 DEF KeepsLog

=============================================================================
