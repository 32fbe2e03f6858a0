----------------------------- MODULE ProxyForward -----------------------------
(***************************************************************************)
(* Proxied requests of one upstream pool (proxy/forward.rs) with the pool's*)
(* admission (proxy/admission.rs), retry budget (proxy/retry.rs), endpoint *)
(* health (UpstreamHealth) and the drain of the gateway (lifecycle.rs).    *)
(*                                                                         *)
(* A step is what a request does between two awaits.  Timeouts may strike  *)
(* at any time; a client may go away at any time.  The circuit breakers    *)
(* are modelled in CircuitBreaker: here they refuse as they like.          *)
(***************************************************************************)
EXTENDS UpstreamHealth, Sequences, FiniteSets

CONSTANTS
    Requests,
    Sse,           \* the requests of a server-sent-events route
    Endpoints,
    Pools,         \* configurations of the pool's limits
    MaxAttempts,   \* RetryPolicy.max_attempts
    NoEndpoint

ASSUME ProxyAssumption ==
    /\ IsFiniteSet(Requests) /\ Sse \subseteq Requests
    /\ Checked \subseteq Endpoints /\ NoEndpoint \notin Endpoints
    /\ Pools \subseteq [max_in_flight : Nat \ {0}, queue_depth : Nat]
    /\ MaxAttempts \in Nat \ {0}

VARIABLES
    shutdown,   \* how far begin_draining and coordinated_shutdown have come
    pool,       \* its limits
    inFlight,   \* requests that hold a permit of in_flight
    queue,      \* the waiters of in_flight, each with a permit of queue
    retrying,   \* requests that hold a permit of the retry budget
    streams,    \* registrations of response_stream_tasks
    pc,
    endpoint,   \* of the current attempt
    attempt,    \* attempt_number
    attempted,  \* attempted_endpoint_ids
    condemned,  \* passive_status_failed
    stopped,    \* retry_stop_reason is set
    late,       \* history: the request came when the gateway was draining
    verdicts    \* history: passive results recorded for the current attempt

permits == <<inFlight, queue, retrying, streams>>
locals == <<endpoint, attempt, attempted, condemned, stopped>>
reports == <<health, verdicts>>
vars == <<reports, shutdown, pool, permits, pc, locals, late>>

\* registered: holds a stream registration; acquiring: found the gateway not
\* draining; queued: waits for in_flight; admitted: has it; reading: reads the
\* body and prepares the Connection; sending: awaits the response headers;
\* first: awaits the first chunk; backoff_error, backoff_status: sleeps in
\* reserve_retry, after a failed attempt or a retryable status; streaming: the
\* response pump runs.
AtUpstream == {"sending", "first", "streaming"}
Backoffs == {"backoff_error", "backoff_status"}
PCs == {"new", "registered", "acquiring", "queued", "admitted", "reading", "done"}
          \cup AtUpstream \cup Backoffs

TypeOK ==
    /\ HealthTypeOK
    /\ shutdown \in {"no", "draining", "cancelled", "closed", "graceful", "forced"}
    /\ pool \in Pools
    /\ inFlight \subseteq Requests /\ retrying \subseteq Requests /\ streams \subseteq Requests
    /\ queue \in Seq(Requests)
    /\ pc \in [Requests -> PCs]
    /\ endpoint \in [Requests -> Endpoints \cup {NoEndpoint}]
    /\ attempt \in [Requests -> 0..MaxAttempts]
    /\ attempted \in [Requests -> SUBSET Endpoints]
    /\ condemned \in [Requests -> BOOLEAN]
    /\ stopped \in [Requests -> BOOLEAN]
    /\ late \in [Requests -> BOOLEAN]
    /\ verdicts \in [Requests -> Nat]

Init ==
    /\ HealthInit
    /\ shutdown = "no"
    /\ pool \in Pools
    /\ inFlight = {} /\ queue = <<>> /\ retrying = {} /\ streams = {}
    /\ pc = [r \in Requests |-> "new"]
    /\ endpoint = [r \in Requests |-> NoEndpoint]
    /\ attempt = [r \in Requests |-> 0]
    /\ attempted = [r \in Requests |-> {}]
    /\ condemned = [r \in Requests |-> FALSE]
    /\ stopped = [r \in Requests |-> FALSE]
    /\ late = [r \in Requests |-> FALSE]
    /\ verdicts = [r \in Requests |-> 0]

-----------------------------------------------------------------------------
(* The drain.  begin_draining swaps the phase, cancels background work and  *)
(* closes the registration of streams, one after the other.                 *)

Draining == shutdown # "no"
Cancelled == shutdown \notin {"no", "draining"}
Forced == shutdown = "forced"

RegistrationOpen == shutdown \in {"no", "draining", "cancelled"}

\* What the request finds when it calls draining().
SeesDraining == Draining

begin_draining ==
    /\ \/ shutdown = "no" /\ shutdown' = "draining"
       \/ shutdown = "draining" /\ shutdown' = "cancelled"
       \/ shutdown = "cancelled" /\ shutdown' = "closed"
    /\ UNCHANGED <<reports, pool, permits, pc, locals, late>>

\* response_stream_tasks.wait(): closed and empty
DrainCompletes ==
    /\ shutdown = "closed" /\ streams = {}
    /\ shutdown' = "graceful"
    /\ UNCHANGED <<reports, pool, permits, pc, locals, late>>

\* A second signal or the deadline: force_shutdown_response_streams
ForceShutdown ==
    /\ shutdown = "closed"
    /\ shutdown' = "forced"
    /\ UNCHANGED <<reports, pool, permits, pc, locals, late>>

-----------------------------------------------------------------------------
(* Permits                                                                  *)

\* ceil(max_in_flight / 10), at least 1 and at most 32
RetryBudget ==
    LET tenth == (pool.max_in_flight + 9) \div 10
    IN IF tenth < 1 THEN 1 ELSE IF tenth > 32 THEN 32 ELSE tenth

\* Everything a request holds is dropped when its handler or its pump returns.
Ends(r) ==
    /\ pc' = [pc EXCEPT ![r] = "done"]
    /\ inFlight' = inFlight \ {r}
    /\ queue' = SelectSeq(queue, LAMBDA q : q # r)
    /\ retrying' = retrying \ {r}
    /\ streams' = streams \ {r}
    /\ endpoint' = [endpoint EXCEPT ![r] = NoEndpoint]
    /\ attempt' = [attempt EXCEPT ![r] = 0]
    /\ attempted' = [attempted EXCEPT ![r] = {}]
    /\ condemned' = [condemned EXCEPT ![r] = FALSE]
    /\ stopped' = [stopped EXCEPT ![r] = FALSE]

Goto(r, label) == pc' = [pc EXCEPT ![r] = label]

-----------------------------------------------------------------------------
(* Admission                                                                *)

\* try_register_response_stream
Registers(r) ==
    /\ pc[r] = "new"
    /\ \/ /\ RegistrationOpen
          /\ Goto(r, "registered")
          /\ streams' = streams \cup {r}
          /\ late' = [late EXCEPT ![r] = Draining]
          /\ UNCHANGED <<inFlight, queue, retrying, locals>>
       \/ /\ ~RegistrationOpen
          /\ Ends(r)
          /\ UNCHANGED late
    /\ UNCHANGED <<reports, shutdown, pool>>

\* draining(), before admission and again after it; the body's declared length
Continues(r, from, to) ==
    /\ pc[r] = from
    /\ \/ /\ ~SeesDraining
          /\ Goto(r, to)
          /\ UNCHANGED <<permits, locals>>
       \/ /\ SeesDraining
          /\ Ends(r)
    /\ UNCHANGED <<reports, shutdown, pool, late>>

ChecksDrain(r) == Continues(r, "registered", "acquiring")
ChecksDrainAgain(r) == Continues(r, "admitted", "reading")

\* Released permits go to the waiters: one is free only when nobody waits.
Free == Cardinality(inFlight) < pool.max_in_flight /\ queue = <<>>

\* PoolAdmission::acquire, first poll; a cancellation is looked at before it.
Acquires(r) ==
    /\ pc[r] = "acquiring"
    /\ \/ /\ ~Cancelled /\ Free
          /\ Goto(r, "admitted")
          /\ inFlight' = inFlight \cup {r}
          /\ UNCHANGED <<queue, retrying, streams, locals>>
       \/ /\ ~Cancelled /\ ~Free /\ Len(queue) < pool.queue_depth
          /\ Goto(r, "queued")
          /\ queue' = Append(queue, r)
          /\ UNCHANGED <<inFlight, retrying, streams, locals>>
       \/ /\ Cancelled \/ (~Free /\ Len(queue) >= pool.queue_depth)
          /\ Ends(r)
    /\ UNCHANGED <<reports, shutdown, pool, late>>

\* The permit reaches the first waiter.
Granted(r) ==
    /\ pc[r] = "queued" /\ Head(queue) = r
    /\ Cardinality(inFlight) < pool.max_in_flight
    /\ Goto(r, "admitted")
    /\ inFlight' = inFlight \cup {r}
    /\ queue' = Tail(queue)
    /\ UNCHANGED <<reports, shutdown, pool, retrying, streams, locals, late>>

\* The queue timeout, or the cancellation of background work
LeavesQueue(r) ==
    /\ pc[r] = "queued"
    /\ Ends(r)
    /\ UNCHANGED <<reports, shutdown, pool, late>>

-----------------------------------------------------------------------------
(* Attempts                                                                 *)

\* A passive result of the attempt of r, when its endpoint has a health check.
Report(r, ok) ==
    IF endpoint[r] \in Checked
    THEN /\ Update(endpoint[r], ok, FALSE)
         /\ verdicts' = [verdicts EXCEPT ![r] = verdicts[r] + 1]
    ELSE UNCHANGED reports

\* Mutant: a failing status does not silence the later results of its attempt.
AlwaysOpinion(r) == TRUE

\* filter(|_| !passive_status_failed)
NoOpinionYet(r) == ~condemned[r]

ReportOnce(r, ok) == IF NoOpinionYet(r) THEN Report(r, ok) ELSE UNCHANGED reports

\* endpoint.health.eligible(), asked only of endpoints with a health check
Eligible == {e \in Endpoints : e \in Checked => eligibility[e] = "healthy"}

\* select_endpoint_avoiding: circuits that refuse are left out, endpoints not
\* yet attempted come first.
Candidates(r, refusing) ==
    LET able == Eligible \ refusing
        fresh == able \ attempted[r]
    IN IF fresh # {} THEN fresh ELSE able

\* The head of the attempt loop.
StartsAttempt(r) ==
    \E refusing \in SUBSET Endpoints :
        \/ \E e \in Candidates(r, refusing) :
            /\ Goto(r, "sending")
            /\ endpoint' = [endpoint EXCEPT ![r] = e]
            /\ attempt' = [attempt EXCEPT ![r] = attempt[r] + 1]
            /\ attempted' = [attempted EXCEPT ![r] = attempted[r] \cup {e}]
            /\ condemned' = [condemned EXCEPT ![r] = FALSE]
            /\ verdicts' = [verdicts EXCEPT ![r] = 0]
            /\ UNCHANGED <<health, permits, stopped>>
        \/ /\ Candidates(r, refusing) = {}
           /\ Ends(r)
           /\ UNCHANGED reports

\* The body is read and the Connection prepared; any of it may fail.
ReadsBody(r) ==
    /\ pc[r] = "reading"
    /\ StartsAttempt(r) \/ (Ends(r) /\ UNCHANGED reports)
    /\ UNCHANGED <<shutdown, pool, late>>

\* Mutant: only a forced shutdown ends a body that does not arrive.
UnboundedRead(r) ==
    /\ pc[r] = "reading" /\ Forced
    /\ Ends(r)
    /\ UNCHANGED <<reports, shutdown, pool, late>>

\* body_read_deadline, and deadline while the Connection is prepared
ReadTimesOut(r) ==
    /\ pc[r] = "reading"
    /\ Ends(r)
    /\ UNCHANGED <<reports, shutdown, pool, late>>

\* attempt_number < max_attempts
MayRetry(r) == attempt[r] < MaxAttempts

\* Mutant: the last permit is handed out twice.
BudgetInclusive(r) == Cardinality(retrying \ {r}) <= RetryBudget

\* retry_budget.try_acquire(), after active_retry_permit was dropped
BudgetLeft(r) == Cardinality(retrying \ {r}) < RetryBudget

\* reserve_retry as far as its sleep
Reserves(r, backoff) ==
    /\ MayRetry(r) /\ ~SeesDraining /\ BudgetLeft(r)
    /\ Goto(r, backoff)
    /\ retrying' = retrying \cup {r}
    /\ UNCHANGED <<inFlight, queue, streams, endpoint, attempt, attempted, stopped>>

SendTimesOut(r) ==
    /\ pc[r] = "sending"
    /\ Report(r, FALSE)
    /\ Ends(r)
    /\ UNCHANGED <<shutdown, pool, late>>

\* Some errors count against the endpoint and some can be retried.
SendFails(r) ==
    /\ pc[r] = "sending"
    /\ Report(r, FALSE) \/ UNCHANGED reports
    /\ \/ Reserves(r, "backoff_error") /\ UNCHANGED condemned
       \/ Ends(r)
    /\ UNCHANGED <<shutdown, pool, late>>

\* The response is passed on: an SSE stream gives up its retry permit.
PassesOn(r) ==
    /\ Goto(r, IF r \in Sse THEN "streaming" ELSE "first")
    /\ UNCHANGED <<inFlight, queue, streams, endpoint, attempt, attempted>>

\* The headers are in.  bad: a status of passive_failure_statuses.  A retryable
\* status is retried if it can be; the attempt to do so costs the old permit.
Responds(r) ==
    /\ pc[r] = "sending"
    /\ \E bad \in BOOLEAN :
        /\ IF bad THEN Report(r, FALSE) ELSE UNCHANGED reports
        /\ \/ Ends(r)
           \/ /\ condemned' = [condemned EXCEPT ![r] = bad]
              /\ \/ Reserves(r, "backoff_status")
                 \/ /\ MayRetry(r)
                    /\ PassesOn(r)
                    /\ stopped' = [stopped EXCEPT ![r] = TRUE]
                    /\ retrying' = retrying \ {r}
                 \/ /\ PassesOn(r)
                    /\ retrying' = IF r \in Sse THEN retrying \ {r} ELSE retrying
                    /\ UNCHANGED stopped
    /\ UNCHANGED <<shutdown, pool, late>>

\* The sleep of reserve_retry ends.  The drain or the deadline stops the retry,
\* and a response that was held back for it is passed on.
BackoffEnds(r) ==
    /\ pc[r] \in Backoffs
    /\ \/ /\ ~SeesDraining
          /\ StartsAttempt(r)
       \/ /\ pc[r] = "backoff_error"
          /\ Ends(r)
          /\ UNCHANGED reports
       \/ /\ pc[r] = "backoff_status"
          /\ PassesOn(r)
          /\ stopped' = [stopped EXCEPT ![r] = TRUE]
          /\ retrying' = retrying \ {r}
          /\ UNCHANGED <<reports, condemned>>
    /\ UNCHANGED <<shutdown, pool, late>>

-----------------------------------------------------------------------------
(* The first chunk, and the pump                                            *)

FirstTimesOut(r) ==
    /\ pc[r] = "first"
    /\ ReportOnce(r, FALSE)
    /\ Ends(r)
    /\ UNCHANGED <<shutdown, pool, late>>

FirstFails(r) ==
    /\ pc[r] = "first"
    /\ ReportOnce(r, FALSE) \/ UNCHANGED reports
    /\ \/ ~stopped[r] /\ Reserves(r, "backoff_error") /\ UNCHANGED condemned
       \/ Ends(r)
    /\ UNCHANGED <<shutdown, pool, late>>

\* Mutant: the admission permit is dropped when the handler returns.
HandlerHolds(r) == inFlight \ {r}

\* admission_permit moves into the pump.
PumpHolds(r) == inFlight

\* Mutant: the registration is dropped when the handler returns.
HandlerRegistered(r) == streams \ {r}

\* registration: response_stream_registration.take()
PumpRegistered(r) == streams

FirstChunk(r) ==
    /\ pc[r] = "first"
    /\ Goto(r, "streaming")
    /\ inFlight' = PumpHolds(r)
    /\ streams' = PumpRegistered(r)
    /\ UNCHANGED <<reports, shutdown, pool, queue, retrying, locals, late>>

\* The whole body is in: with the headers, or through the pump.
Completes(r) ==
    /\ pc[r] \in {"first", "streaming"}
    /\ ReportOnce(r, TRUE)
    /\ Ends(r)
    /\ UNCHANGED <<shutdown, pool, late>>

\* The upstream is at fault only while the pump waits for it.
StreamTimesOut(r) ==
    /\ pc[r] = "streaming" /\ r \notin Sse
    /\ ReportOnce(r, FALSE) \/ UNCHANGED reports
    /\ Ends(r)
    /\ UNCHANGED <<shutdown, pool, late>>

\* A body error; some count against the endpoint.
StreamFails(r) ==
    /\ pc[r] = "streaming"
    /\ ReportOnce(r, FALSE) \/ UNCHANGED reports
    /\ Ends(r)
    /\ UNCHANGED <<shutdown, pool, late>>

\* The optional max_duration of an SSE route
DurationLimit(r) ==
    /\ pc[r] = "streaming" /\ r \in Sse
    /\ Ends(r)
    /\ UNCHANGED <<reports, shutdown, pool, late>>

\* The client goes away: the handler's future is dropped, or the pump finds its
\* channel closed.
ClientGone(r) ==
    /\ pc[r] \notin {"new", "done"}
    /\ Ends(r)
    /\ UNCHANGED <<reports, shutdown, pool, late>>

\* response_stream_cancellation
StopsForced(r) ==
    /\ Forced
    /\ pc[r] \in {"reading"} \cup AtUpstream
    /\ Ends(r)
    /\ UNCHANGED <<reports, shutdown, pool, late>>

\* The probe loop, until background work is cancelled
Probes(e) ==
    /\ ~Cancelled
    /\ \E ok \in BOOLEAN : Update(e, ok, TRUE)
    /\ UNCHANGED <<verdicts, shutdown, pool, permits, pc, locals, late>>

-----------------------------------------------------------------------------

\* What a request does by itself or when a timeout ends its wait.
Proceeds(r) ==
    \/ ChecksDrain(r) \/ Acquires(r) \/ LeavesQueue(r) \/ ChecksDrainAgain(r)
    \/ ReadTimesOut(r) \/ SendTimesOut(r) \/ BackoffEnds(r) \/ FirstTimesOut(r)
    \/ StreamTimesOut(r) \/ StopsForced(r)

\* What the client and the upstream do.
Answered(r) ==
    \/ Registers(r) \/ Granted(r) \/ ReadsBody(r) \/ SendFails(r) \/ Responds(r)
    \/ FirstFails(r) \/ FirstChunk(r) \/ Completes(r) \/ StreamFails(r)
    \/ DurationLimit(r) \/ ClientGone(r)

Next ==
    \/ begin_draining \/ DrainCompletes \/ ForceShutdown
    \/ \E e \in Checked : Probes(e)
    \/ \E r \in Requests : Proceeds(r) \/ Answered(r)

Spec == Init /\ [][Next]_vars

\* Every wait of a request has a deadline except that of an SSE stream; nothing
\* is asked of clients, upstreams or the operator.
FairSpec == Spec /\ \A r \in Requests : WF_vars(Proceeds(r))

-----------------------------------------------------------------------------
(* Properties                                                               *)

\* max_in_flight bounds the requests an upstream pool works on, from admission
\* to the last byte of the response, retries and streams included.
UpstreamLoadBounded ==
    Cardinality({r \in Requests : pc[r] \in AtUpstream \cup Backoffs}) <= pool.max_in_flight

\* At most a tenth of max_in_flight, and at least one, is being retried: what
\* sleeps before a retry or waits for its response.
RetriesBounded ==
    Cardinality({r \in Requests : \/ pc[r] \in Backoffs
                                  \/ pc[r] = "sending" /\ attempt[r] > 1}) <= RetryBudget

\* A request that comes when the gateway is draining reaches no upstream, also
\* while the registration of streams is still open, and a drain that completes
\* leaves no response behind: nothing is cut off.
DrainIsClean ==
    /\ \A r \in Requests : late[r] => pc[r] \notin {"reading"} \cup AtUpstream \cup Backoffs
    /\ shutdown = "graceful" => \A r \in Requests : pc[r] \in {"new", "done"}

\* An attempt counts once towards the passive health of its endpoint: a response
\* with a failing status whose body then breaks off or completes does not count
\* a second time.
OneVerdict == \A r \in Requests : verdicts[r] <= 1

\* Every request ends: an ordinary one by itself, whatever clients and upstreams
\* do, and an SSE stream when the shutdown is forced.
RequestsEnd ==
    \A r \in Requests :
        /\ r \notin Sse => (pc[r] # "new") ~> (pc[r] = "done")
        /\ (Forced /\ pc[r] # "new") ~> (pc[r] = "done")

=============================================================================
