------------------------------ MODULE AuditQueue ------------------------------
(***************************************************************************)
(* The audit pipeline of a replica: AuditLog (audit/mod.rs), the receipts  *)
(* of required records (audit/durable.rs) and the PostgreSQL sink          *)
(* (audit/postgres_sink.rs).                                               *)
(*                                                                         *)
(* Callers admit events to a bounded channel, the writer thread moves them *)
(* to the sink's buffer, the flusher task writes them to the store batch   *)
(* by batch, and the shutdown closes admission and waits for all of it     *)
(* until its deadline.  A batch's outcome is settled by the flusher or, if *)
(* the deadline comes first, by the writer: each takes the count and the   *)
(* acknowledgements of the batch in separate steps.                        *)
(***************************************************************************)
EXTENDS Integers, Sequences, FiniteSets, Functions

CONSTANTS
    Events,
    Required,        \* sent by record() under AUDIT_DURABILITY=required,
    Control,         \* by emit_control(), and the others by emit()
    NoEvent,
    NormalCapacity,  \* AUDIT_NORMAL_CAPACITY
    ControlReserve,  \* AUDIT_CONTROL_RESERVE
    BufferCapacity,
    BatchSize,
    BatchAttempts

ASSUME AuditAssumption ==
    /\ Required \subseteq Events /\ Control \subseteq Events /\ Required \cap Control = {}
    /\ NoEvent \notin Events
    /\ NormalCapacity \in Nat \ {0} /\ ControlReserve \in Nat
    /\ BufferCapacity \in Nat \ {0} /\ BatchSize \in Nat \ {0} /\ BatchAttempts \in Nat \ {0}

VARIABLES
    pc,         \* of the caller of an event
    channel, queued, closed,
    open,       \* tx is Some: the sender is there
    log,        \* history: events admitted, in order
    writer, hold,
    buffer, shutdown,
    accepted,   \* history: events the sink accepted
    flusher,
    batch,      \* what write_next_batch took
    attempt,
    in_flight,  \* the events in_flight counts
    acks,       \* in_flight_acks
    owned,      \* taken out of in_flight by drop_batch and not counted yet
    stranded,   \* likewise by count_stranded
    position,   \* of an event in audit_stream, 0 without a row
    last_position,  \* of audit_stream_state
    failure,    \* flush_failure is Some
    dropped,    \* how often an event was counted as dropped
    answer,     \* what the receipt of a required record says
    drain,      \* close_and_drain
    clock       \* deadlines of the drain that have passed

log_vars == <<pc, channel, queued, closed, open, log>>
sink_vars == <<buffer, shutdown, accepted>>
batch_vars == <<flusher, batch, attempt>>
store == <<position, last_position>>
settle_vars == <<in_flight, acks, owned, stranded>>
vars == <<log_vars, writer, hold, sink_vars, batch_vars, settle_vars,
          store, failure, dropped, answer, drain, clock>>

Capacity == NormalCapacity + ControlReserve
Admitted == Range(log)
Rows == {e \in Events : position[e] > 0}

\* The drain's deadline is also the writer's.  The flusher's is a grace earlier.
FlusherDeadline == 1
DrainDeadline == 2

WriterStates == {"recv", "taken", "emit", "flush", "batch", "acks", "count", "done", "panicked"}
FlusherStates == {"due", "empty", "wait", "attempt", "checkout", "insert", "failed",
                  "landed", "confirm", "drop", "dropped", "finished", "gone"}
DrainStates == {"open", "closing", "waiting", "ok", "sink", "timeout", "panicked"}

TypeOK ==
    /\ pc \in [Events -> {"idle", "checked", "admitted", "refused"}]
    /\ channel \in Seq(Events) /\ Len(channel) <= Capacity
    /\ queued \in Nat
    /\ closed \in BOOLEAN /\ open \in BOOLEAN
    /\ log \in Seq(Events)
    /\ writer \in WriterStates /\ hold \in Events \cup {NoEvent}
    /\ buffer \in Seq(Events) /\ Len(buffer) <= BufferCapacity
    /\ shutdown \in BOOLEAN
    /\ accepted \subseteq Events
    /\ flusher \in FlusherStates
    /\ batch \in Seq(Events) /\ Len(batch) <= BatchSize
    /\ attempt \in 0..BatchAttempts
    /\ in_flight \subseteq Events /\ acks \subseteq Required
    /\ owned \subseteq Events /\ stranded \subseteq Events
    /\ position \in [Events -> Nat] /\ last_position \in Nat
    /\ failure \in BOOLEAN
    /\ dropped \in [Events -> Nat]
    /\ answer \in [Events -> {"none", "open", "stored", "lost", "timeout"}]
    /\ drain \in DrainStates
    /\ clock \in 0..DrainDeadline

Init ==
    /\ pc = [e \in Events |-> "idle"]
    /\ channel = <<>> /\ queued = 0 /\ closed = FALSE /\ open = TRUE /\ log = <<>>
    /\ writer = "recv" /\ hold = NoEvent
    /\ buffer = <<>> /\ shutdown = FALSE /\ accepted = {}
    /\ flusher = "due" /\ batch = <<>> /\ attempt = 0
    /\ in_flight = {} /\ acks = {} /\ owned = {} /\ stranded = {}
    /\ position = [e \in Events |-> 0] /\ last_position = 0 /\ failure = FALSE
    /\ dropped = [e \in Events |-> 0]
    /\ answer = [e \in Events |-> "none"]
    /\ drain = "open" /\ clock = 0

-----------------------------------------------------------------------------
(* Receipts and counters                                                    *)

\* note_dropped: S is counted, one by one.
Count(S) == dropped' = [e \in Events |-> dropped[e] + IF e \in S THEN 1 ELSE 0]

\* DurableAck::stored and not_stored, or the acknowledgement is let go of.  A
\* waiter that has given up is told nothing.
Answered(S, a) ==
    [e \in Events |-> IF e \in S \cap Required /\ answer[e] = "open" THEN a ELSE answer[e]]

\* The receipt's deadline passes.
ReceiptTimesOut(e) ==
    /\ answer[e] = "open"
    /\ answer' = [answer EXCEPT ![e] = "timeout"]
    /\ UNCHANGED <<log_vars, writer, hold, sink_vars, batch_vars, settle_vars,
                   store, failure, dropped, drain, clock>>

-----------------------------------------------------------------------------
(* AuditLog: record, emit and emit_control                                  *)

\* Not admitted: counted, and the receipt of a required record says so.
Refuse(e) ==
    /\ pc' = [pc EXCEPT ![e] = "refused"]
    /\ Count({e})
    /\ answer' = [answer EXCEPT ![e] = IF e \in Required THEN "lost" ELSE "none"]
    /\ UNCHANGED <<channel, queued, closed, open, log>>

\* The closed flag is read before the lock of tx is taken.
Calls(e) ==
    /\ pc[e] = "idle"
    /\ \/ closed /\ Refuse(e)
       \/ /\ ~closed
          /\ pc' = [pc EXCEPT ![e] = "checked"]
          /\ UNCHANGED <<channel, queued, closed, open, log, dropped, answer>>
    /\ UNCHANGED <<writer, hold, sink_vars, batch_vars, settle_vars, store, failure, drain, clock>>

\* queued >= AUDIT_NORMAL_CAPACITY, asked of ordinary events only.
NormalFull(e) == e \notin Control /\ queued >= NormalCapacity

\* try_send: the channel is full, or its receiver went with a writer that panicked.
CannotSend == Len(channel) >= Capacity \/ writer = "panicked"

\* Under the lock of tx.
Admits(e) ==
    /\ pc[e] = "checked"
    /\ \/ (~open \/ NormalFull(e) \/ CannotSend) /\ Refuse(e)
       \/ /\ open /\ ~NormalFull(e) /\ ~CannotSend
          /\ pc' = [pc EXCEPT ![e] = "admitted"]
          /\ channel' = Append(channel, e)
          /\ queued' = queued + 1
          /\ log' = Append(log, e)
          /\ answer' = [answer EXCEPT ![e] = IF e \in Required THEN "open" ELSE "none"]
          /\ UNCHANGED <<closed, open, dropped>>
    /\ UNCHANGED <<writer, hold, sink_vars, batch_vars, settle_vars, store, failure, drain, clock>>

-----------------------------------------------------------------------------
(* The writer thread                                                        *)

Receives ==
    /\ writer = "recv" /\ channel # <<>>
    /\ writer' = "taken"
    /\ hold' = Head(channel)
    /\ channel' = Tail(channel)
    /\ UNCHANGED <<pc, queued, closed, open, log, sink_vars, batch_vars, settle_vars,
                   store, failure, dropped, answer, drain, clock>>

\* The event is no longer counted as queued while it is emitted.
Uncounts ==
    /\ writer = "taken"
    /\ writer' = "emit"
    /\ queued' = queued - 1
    /\ UNCHANGED <<pc, channel, closed, open, log, hold, sink_vars, batch_vars, settle_vars,
                   store, failure, dropped, answer, drain, clock>>

PushRefused == shutdown \/ Len(buffer) >= BufferCapacity

\* push_event.  The writer never waits for the store.
Emits ==
    /\ writer = "emit"
    /\ writer' = "recv" /\ hold' = NoEvent
    /\ \/ /\ PushRefused
          /\ Count({hold})
          /\ answer' = Answered({hold}, "lost")
          /\ UNCHANGED <<buffer, accepted>>
       \/ /\ ~PushRefused
          /\ buffer' = Append(buffer, hold)
          /\ accepted' = accepted \cup {hold}
          /\ UNCHANGED <<dropped, answer>>
    /\ UNCHANGED <<log_vars, shutdown, batch_vars, settle_vars,
                   store, failure, drain, clock>>

\* A sink panics: the event in hand and the channel go with the writer, and
\* their acknowledgements are let go of.
Panics ==
    /\ writer = "emit"
    /\ writer' = "panicked" /\ hold' = NoEvent
    /\ channel' = <<>>
    /\ answer' = Answered(Range(channel) \cup {hold}, "lost")
    /\ UNCHANGED <<pc, queued, closed, open, log, sink_vars, batch_vars, settle_vars,
                   store, failure, dropped, drain, clock>>

\* The channel is empty and has no sender: flush_by, which begins the sink's
\* shutdown and waits for the flusher.
Flushes ==
    /\ writer = "recv" /\ channel = <<>> /\ ~open
    /\ writer' = "flush"
    /\ shutdown' = TRUE
    /\ UNCHANGED <<log_vars, hold, buffer, accepted, batch_vars, settle_vars,
                   store, failure, dropped, answer, drain, clock>>

FlushReported ==
    /\ writer = "flush" /\ flusher = "finished"
    /\ writer' = "done"
    /\ UNCHANGED <<log_vars, hold, sink_vars, batch_vars, settle_vars,
                   store, failure, dropped, answer, drain, clock>>

\* count_stranded, after the deadline or the end of a flusher that cannot report.
StrandsBuffer ==
    /\ writer = "flush"
    /\ clock >= DrainDeadline \/ flusher = "gone"
    /\ writer' = "batch"
    /\ stranded' = Range(buffer)
    /\ buffer' = <<>>
    /\ answer' = Answered(Range(buffer), "lost")
    /\ UNCHANGED <<log_vars, hold, shutdown, accepted, batch_vars, in_flight, acks, owned,
                   store, failure, dropped, drain, clock>>

\* Mutant: in_flight is read, not swapped.
ReadsInFlight ==
    /\ writer = "batch"
    /\ writer' = "acks"
    /\ stranded' = stranded \cup in_flight
    /\ UNCHANGED <<log_vars, hold, sink_vars, batch_vars, in_flight, acks, owned,
                   store, failure, dropped, answer, drain, clock>>

StrandsBatch ==
    /\ writer = "batch"
    /\ writer' = "acks"
    /\ stranded' = stranded \cup in_flight
    /\ in_flight' = {}
    /\ UNCHANGED <<log_vars, hold, sink_vars, batch_vars, acks, owned,
                   store, failure, dropped, answer, drain, clock>>

\* Mutant: the batch is counted, and its requests left to the flusher.
LeavesAcks ==
    /\ writer = "acks"
    /\ writer' = "count"
    /\ UNCHANGED <<log_vars, hold, sink_vars, batch_vars, in_flight, acks, owned, stranded,
                   store, failure, dropped, answer, drain, clock>>

StrandsAcks ==
    /\ writer = "acks"
    /\ writer' = "count"
    /\ acks' = {}
    /\ answer' = Answered(acks, "lost")
    /\ UNCHANGED <<log_vars, hold, sink_vars, batch_vars, in_flight, owned, stranded,
                   store, failure, dropped, drain, clock>>

CountsStranded ==
    /\ writer = "count"
    /\ writer' = "done"
    /\ Count(stranded)
    /\ stranded' = {}
    /\ failure' = TRUE
    /\ UNCHANGED <<log_vars, hold, sink_vars, batch_vars, in_flight, acks, owned,
                   store, answer, drain, clock>>

-----------------------------------------------------------------------------
(* The flusher task                                                         *)

\* What is due now whatever the age of the oldest event.
MustWrite ==
    \/ shutdown
    \/ Len(buffer) >= BatchSize
    \/ Range(buffer) \cap Required # {}

\* due(), and the window of a group commit before the batch is written.
SeesDue ==
    /\ flusher = "due"
    /\ \/ buffer = <<>> /\ flusher' = "empty"
       \/ buffer # <<>> /\ ~MustWrite /\ flusher' = "wait"
       \/ buffer # <<>> /\ flusher' = "attempt"
    /\ UNCHANGED <<log_vars, writer, hold, sink_vars, batch, attempt, settle_vars,
                   store, failure, dropped, answer, drain, clock>>

\* Mutant: the buffer seen empty a moment ago is taken for empty now.
DrainedAsSeen == shutdown

\* is_drained_after_shutdown
Drained == shutdown /\ buffer = <<>>

ChecksDrained ==
    /\ flusher = "empty"
    /\ flusher' = IF Drained THEN "finished" ELSE "wait"
    /\ UNCHANGED <<log_vars, writer, hold, sink_vars, batch, attempt, settle_vars,
                   store, failure, dropped, answer, drain, clock>>

\* Woken, or the interval is over.
Wakes ==
    /\ flusher = "wait"
    /\ flusher' = "due"
    /\ UNCHANGED <<log_vars, writer, hold, sink_vars, batch, attempt, settle_vars,
                   store, failure, dropped, answer, drain, clock>>

\* take_batch, under the lock of the buffer, by the first attempt that comes so
\* far; later attempts keep the batch they have.
TakesBatch ==
    IF batch # <<>>
    THEN UNCHANGED <<buffer, batch, in_flight, acks>>
    ELSE LET n == IF Len(buffer) <= BatchSize THEN Len(buffer) ELSE BatchSize
             first == SubSeq(buffer, 1, n)
         IN  /\ batch' = first
             /\ buffer' = SubSeq(buffer, n + 1, Len(buffer))
             /\ in_flight' = Range(first)
             /\ acks' = acks \cup (Range(first) \cap Required)

\* remaining_budget() is zero.
OutOfTime == shutdown /\ clock >= FlusherDeadline

\* Out of time the batch is dropped as it is.
Starts ==
    /\ flusher = "attempt"
    /\ \/ /\ OutOfTime
          /\ TakesBatch
          /\ flusher' = IF batch' = <<>> THEN "due" ELSE "drop"
          /\ attempt' = 0
       \/ /\ ~OutOfTime
          /\ flusher' = "checkout"
          /\ attempt' = attempt + 1
          /\ UNCHANGED <<buffer, batch, in_flight, acks>>
    /\ UNCHANGED <<log_vars, writer, hold, shutdown, accepted, owned, stranded,
                   store, failure, dropped, answer, drain, clock>>

\* A connection, an error, or the attempt's timeout: each takes the batch.
ChecksOut ==
    /\ flusher = "checkout"
    /\ TakesBatch
    /\ \/ batch' = <<>> /\ flusher' = "due" /\ attempt' = 0
       \/ batch' # <<>> /\ flusher' \in {"insert", "failed"} /\ UNCHANGED attempt
    /\ UNCHANGED <<log_vars, writer, hold, shutdown, accepted, owned, stranded,
                   store, failure, dropped, answer, drain, clock>>

\* insert_events_on: the events without a row, in the order of the batch, get the
\* positions after the last; the others are left alone.
Pending == {i \in DOMAIN batch : batch[i] \notin Rows}
RowNumber(i) == Cardinality({j \in Pending : j <= i})

Commit ==
    /\ position' = [e \in Events |->
                      IF \E i \in Pending : batch[i] = e
                      THEN last_position + RowNumber(CHOOSE i \in Pending : batch[i] = e)
                      ELSE position[e]]
    /\ last_position' = last_position + Cardinality(Pending)

\* The transaction commits or not, and a commit may go unreported.
Inserts ==
    /\ flusher = "insert"
    /\ \/ Commit /\ flusher' \in {"landed", "failed"}
       \/ UNCHANGED store /\ flusher' = "failed"
    /\ UNCHANGED <<log_vars, writer, hold, sink_vars, batch, attempt, settle_vars,
                   failure, dropped, answer, drain, clock>>

\* Mutant: a refused batch goes back behind the events that came meanwhile.
FailsToBack ==
    /\ flusher = "failed"
    /\ flusher' = "attempt"
    /\ buffer' = buffer \o batch /\ batch' = <<>>
    /\ UNCHANGED <<log_vars, writer, hold, shutdown, accepted, attempt, settle_vars,
                   store, failure, dropped, answer, drain, clock>>

Fails ==
    /\ flusher = "failed"
    /\ flusher' = IF attempt >= BatchAttempts THEN "drop" ELSE "attempt"
    /\ UNCHANGED <<log_vars, writer, hold, sink_vars, batch, attempt, settle_vars,
                   store, failure, dropped, answer, drain, clock>>

\* The rows are counted as stored by whoever swaps in_flight.
Lands ==
    /\ flusher = "landed"
    /\ flusher' = "confirm"
    /\ in_flight' = {}
    /\ UNCHANGED <<log_vars, writer, hold, sink_vars, batch, attempt, acks, owned, stranded,
                   store, failure, dropped, answer, drain, clock>>

\* settle_in_flight_acks(true), and back to the loop.
Confirms ==
    /\ flusher = "confirm"
    /\ flusher' = "due" /\ batch' = <<>> /\ attempt' = 0
    /\ acks' = {}
    /\ answer' = Answered(acks, "stored")
    /\ UNCHANGED <<log_vars, writer, hold, sink_vars, in_flight, owned, stranded,
                   store, failure, dropped, drain, clock>>

\* drop_batch
Drops ==
    /\ flusher = "drop"
    /\ flusher' = "dropped"
    /\ owned' = in_flight
    /\ in_flight' = {}
    /\ UNCHANGED <<log_vars, writer, hold, sink_vars, batch, attempt, acks, stranded,
                   store, failure, dropped, answer, drain, clock>>

\* Mutant: a dropped batch is counted, and the drain not told.
CountsQuietly ==
    /\ flusher = "dropped"
    /\ flusher' = "due" /\ batch' = <<>> /\ attempt' = 0
    /\ Count(owned)
    /\ owned' = {}
    /\ acks' = {}
    /\ answer' = Answered(acks, "lost")
    /\ UNCHANGED <<log_vars, writer, hold, sink_vars, in_flight, stranded,
                   store, failure, drain, clock>>

CountsDropped ==
    /\ flusher = "dropped"
    /\ flusher' = "due" /\ batch' = <<>> /\ attempt' = 0
    /\ Count(owned)
    /\ owned' = {}
    /\ acks' = {}
    /\ answer' = Answered(acks, "lost")
    /\ failure' = TRUE
    /\ UNCHANGED <<log_vars, writer, hold, sink_vars, in_flight, stranded,
                   store, drain, clock>>

\* The runtime is torn down under the flusher, which stops at an await: a commit
\* on its way may still land.
TornDown ==
    /\ drain # "open"
    /\ flusher \in {"wait", "attempt", "checkout", "insert"}
    /\ flusher' = "gone" /\ batch' = <<>> /\ attempt' = 0
    /\ \/ flusher = "insert" /\ Commit
       \/ UNCHANGED store
    /\ UNCHANGED <<log_vars, writer, hold, sink_vars, settle_vars,
                   failure, dropped, answer, drain, clock>>

-----------------------------------------------------------------------------
(* close_and_drain                                                          *)

\* The deadline is stamped and admission closed.
Closes ==
    /\ drain = "open"
    /\ drain' = "closing"
    /\ closed' = TRUE
    /\ UNCHANGED <<pc, channel, queued, open, log, writer, hold, sink_vars, batch_vars,
                   settle_vars, store, failure, dropped, answer, clock>>

\* tx.take(), under its lock.
DropsSender ==
    /\ drain = "closing"
    /\ drain' = "waiting"
    /\ open' = FALSE
    /\ UNCHANGED <<pc, channel, queued, closed, log, writer, hold, sink_vars, batch_vars,
                   settle_vars, store, failure, dropped, answer, clock>>

\* The writer is joined, or the deadline passes first.
DrainEnds ==
    /\ drain = "waiting"
    /\ \/ writer = "done" /\ drain' = IF failure THEN "sink" ELSE "ok"
       \/ writer = "panicked" /\ drain' = "panicked"
       \/ writer \notin {"done", "panicked"} /\ clock = DrainDeadline /\ drain' = "timeout"
    /\ UNCHANGED <<log_vars, writer, hold, sink_vars, batch_vars, settle_vars,
                   store, failure, dropped, answer, clock>>

DeadlinePasses ==
    /\ drain # "open" /\ clock < DrainDeadline
    /\ clock' = clock + 1
    /\ UNCHANGED <<log_vars, writer, hold, sink_vars, batch_vars, settle_vars,
                   store, failure, dropped, answer, drain>>

-----------------------------------------------------------------------------

Writes ==
    \/ Receives \/ Uncounts \/ Emits \/ Flushes \/ FlushReported
    \/ StrandsBuffer \/ StrandsBatch \/ StrandsAcks \/ CountsStranded

Works ==
    \/ SeesDue \/ ChecksDrained \/ Wakes \/ Starts \/ ChecksOut
    \/ Inserts \/ Fails \/ Lands \/ Confirms \/ Drops \/ CountsDropped

Shuts == DropsSender \/ DrainEnds \/ DeadlinePasses

Next ==
    \/ \E e \in Events : Calls(e) \/ Admits(e) \/ ReceiptTimesOut(e)
    \/ Writes \/ Panics
    \/ Works \/ TornDown
    \/ Closes \/ Shuts

Spec == Init /\ [][Next]_vars

\* The writer is a thread, the flusher a task of the runtime and close_and_drain
\* a call under way: each goes on while it can.  Callers, the receipts' own
\* deadlines and the faults are not relied on.
FairSpec == Spec /\ WF_vars(Writes) /\ WF_vars(Works) /\ WF_vars(Shuts)

-----------------------------------------------------------------------------
(* Properties                                                               *)

Ledger == INSTANCE AuditLedger
            WITH taken <- Admitted, rows <- Rows, counted <- dropped, answer <- answer

\* The pipeline keeps the audit ledger: a row stands, a loss is counted at most
\* once although the flusher and the writer may both settle a batch, and a
\* request is told "stored" only after the commit of its record, whatever
\* attempt timed out or was repeated (postgres_sink.rs, durable.rs).
KeepsLedger == Ledger!Spec

\* Counted, or taken by the flusher which counts it next.
Counted(e) == dropped[e] > 0 \/ e \in owned

\* Once the writer has ended its flush nothing the log admitted is lost without
\* a count: it is a row, or it was counted ("rows + dropped >= served").
NothingLostUncounted ==
    writer = "done" => \A e \in Admitted : e \in Rows \/ Counted(e)

\* A drain that succeeds has every event that the sink accepted in the store; a
\* batch dropped at any time since the start makes it fail.
DrainTellsLoss ==
    drain = "ok" => accepted \subseteq Rows

\* The store has the events in the order of their admission, whatever was
\* dropped or sent again in between.
StreamInOrder ==
    \A d, e \in Rows : d # e /\ position[d] <= position[e] =>
        \E k, m \in DOMAIN log : k < m /\ log[k] = d /\ log[m] = e

\* A receipt is awaited that somebody could still answer, or a shutdown is on.
Awaited ==
    \/ /\ \E e \in Required : answer[e] = "open"
       /\ writer # "panicked" \/ flusher # "gone"
    \/ drain \in {"closing", "waiting"}

\* Every request that waits for its record is answered by the pipeline, without
\* its own deadline, and every shutdown ends.  Each event is sent once, so a time
\* comes when nobody waits.
EveryoneAnswered == Awaited ~> ~Awaited

=============================================================================
