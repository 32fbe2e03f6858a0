# GreenGateway: TLA+ models, checks and proofs

GreenGateway is a security gateway in Rust: every HTTP, gRPC, WebSocket or MCP
request is authenticated, authorised against a policy, rate limited, forwarded
to an upstream pool or executed as a tool, and audited. Several replicas share
one PostgreSQL database. This directory holds TLA+ specifications of the parts
whose correctness depends on the order in which things happen, the TLC
configurations that check them on small instances, and TLAPS proofs of the
results that hold for every value of the parameters.

## 1. Inventory

Paths are relative to `gateway/src/` unless they start with another crate.

| Component | State it keeps | Operations | What makes it hard | What makes it correct |
|---|---|---|---|---|
| Circuit breaker `proxy/circuit.rs` | one mutex: Closed / Open / HalfOpen, generation, counters; permits held by attempts | `try_acquire`, `record_success`, `record_failure`, drop of a permit | permits outlive the state they were granted in; the clock is read before the lock | probe slots are neither leaked nor freed twice; a cool-down never ends in the past |
| Upstream health `proxy/health.rs` | eligibility per endpoint, active and passive streaks | probe results, passive results | two sources of evidence race | only an active probe restores an endpoint; thresholds count consecutive results |
| Pool admission and retry `proxy/admission.rs`, `proxy/retry.rs` | two semaphores, queue timeout, retry budget | acquire, wait, timeout, release | timeout racing a grant | bounds on in-flight, queued and retrying work |
| Forwarding `proxy/forward.rs` | attempt loop, response pump | select, send, retry, stream | permits, budget and health carried across awaits | no attempt counts twice for its endpoint; every request ends |
| Execution leases `tools/lease.rs`, `storage/postgres_execution_leases.rs`, `tools/runtime.rs` | a row per (scope, slot): fence, holder, expiry; a renewal task per holder | acquire, renew, release, reap | expiry racing renewal, a delayed transaction, crash, hung database call | at most one current holder per slot; a lost lease is noticed |
| Authority events `authority_events/*`, `storage/postgres_authority_events.rs` | an append-only journal, a delivery cursor with a fence, dispatcher terms | append, claim, read, offer, advance, prune | crash between delivery and cursor, two dispatchers, pruning | at-least-once delivery in order, nothing lost, retained count within capacity |
| Security cluster gate `security_cluster.rs` | authority counter, per-resource activations and installed revisions, published bundle, watermark | `admit`, reconcile, publish, local install | counter moves while content is fetched; installs outside the reconcile lock | no request is admitted under a state older than the authority's at its start; failures close the gate |
| Cluster membership `cluster_membership.rs`, `storage/postgres_membership.rs`, `storage/contraction.rs` | a row per boot with its last heartbeat, ready and draining stamps; the contract fence; a readiness flag per replica | heartbeat, fingerprint check, stamps, raise of the fence, sweep | a rolling upgrade; statements that began before the fence was raised and write after it | no replica excluded by the fence is live; nobody is ready beside a live replica of another configuration |
| Cluster maintenance `cluster_maintenance.rs` | a leader by lease, a ledger of fenced jobs | claim, run, record | two leaders | a job of a deposed leader changes nothing |
| Rate limiting `middleware/rate_limit.rs`, `storage/postgres_rate_limits.rs` | buckets, local and shared | take, refill, evict | clock, shared bucket | never more than the quota |
| Authentication `auth/*`, `middleware/auth.rs` | sessions, pending logins, tokens, revocations | login, callback, refresh, revoke | one-time consumption racing itself | a state or code is used once; a revoked token is refused |
| Policy and RBAC `rbac/*`, `policy_eval/*`, `storage/postgres_policy*.rs` | policy documents, revisions | evaluate, compare-and-set | concurrent edits | no lost update |
| Audit `audit/*` | channel, buffer and batch, counts of dropped events, receipts of requests that wait | emit, record, write, flush, drain | overflow, commits that go unreported, a deadline that hands a batch from the flusher to the writer, a runtime torn down | nothing lost uncounted or counted twice; a request is told "stored" only of a row; order kept |
| OAuth token cache `connections/oauth.rs`, `connections/token_exchange.rs` | slots by key, each with a cached token, a generation and the mint in flight; a retired flag | get or mint, evict, invalidate after a 401, purge a principal | two locks and a reference count; a purge between lookup and lock; a mint that ends between a waiter's check and its await | nothing from before a purge is served after it; one mint per key; nobody waits for good |
| Tool admission `tools/runtime.rs` | queue and global permits per replica, a limiter per tool, two lease scopes of the cluster | prepare, acquire in order, queue timeout, end | a limit that changes while invocations wait; a timeout that strikes with half of it held; a lease lost while waiting | the limits bound the whole cluster; all of it is given back; nobody sleeps beside free capacity |
| Connections and secrets `connections/*` | records, secrets | create, rotate, reconcile | concurrent edits | no lost update |
| Discovery `discovery/*` | observations, suggestions, projector lease | project, aggregate | leases, duplicates | idempotent aggregation |
| Lifecycle `lifecycle.rs` | drain state, task registry | start, drain, stop | shutdown races work | nothing accepted after drain |
| Config compiler, bundles `gateway-config` | pure | compile, validate | size | deterministic |
| CLI, admin UI, Cloudflare worker, scripts | client state | — | — | — |

How they interact. A request passes authentication, the security gate (which
hands it a bundle of policy, tools and Connections captured together), rate
limiting and RBAC; then it is forwarded (pool admission, circuit breaker, health,
retry budget, possibly a delegated token from the cache) or run as a tool (tool
admission, execution leases). Mutations commit to PostgreSQL together with their
authority event; the dispatcher that leads by an execution lease delivers those
events to a sink. The drain of the lifecycle cuts across all of it. The shared
state is of three kinds: mutexes and semaphores inside a process, rows and
advisory locks in PostgreSQL, and counters that one replica reads while another
moves them.

Every component, modelled or not, is in `PROJECT.json` under "components", and
what is hard to test in it, line by line, under "hazards".

## 2. Modules

| Module | Models | Composes |
|---|---|---|
| `CircuitBreaker` | `proxy/circuit.rs` | |
| `SlotLeases` | what a lease scope promises (abstract) | |
| `ExecutionLeases` | `storage/postgres_execution_leases.rs`, `LeaseGuard` and `renew_until_lost` of `tools/runtime.rs`, `tools/lease.rs` | `SlotLeases`, which it is proved to implement |
| `SecurityCluster` | `security_cluster.rs` with the installs of admin and Connection status handlers | |
| `DeliveryLog` | what the journal promises to the sink (abstract) | |
| `AuthorityEvents` | `storage/postgres_authority_events.rs`, `authority_events/dispatcher.rs`, the held units of `storage/postgres_admin_sessions.rs` | `DeliveryLog`, which it is proved to implement; terms of `ExecutionLeases`, abstracted to unique fences |
| `UpstreamHealth` | `proxy/health.rs`; also the abstract specification of an endpoint's health | |
| `ProxyForward` | `proxy/forward.rs`, `proxy/admission.rs`, `proxy/retry.rs`, endpoint selection of `proxy/mod.rs`, `lifecycle.rs` | `UpstreamHealth`, which it is proved to implement |
| `TokenCache` | `connections/oauth.rs`, the purge of `connections/token_exchange.rs` | |
| `ToolAdmission` | `prepare_invocation`, `acquire_execution_permits` and `ToolLimiter` of `tools/runtime.rs` | `SlotLeases`, twice: the tool's scope and the global one |
| `AuditLedger` | what the audit pipeline promises (abstract) | |
| `AuditQueue` | `audit/mod.rs`, `audit/durable.rs`, `audit/postgres_sink.rs` | `AuditLedger`, which it is proved to implement |
| `Membership` | `cluster_membership.rs`, `storage/postgres_membership.rs`, `storage/contraction.rs` | |

`MC*` modules give the constants their values; `*Proofs` modules hold invariants
and theorems. A definition preceded by "Mutant:" is never part of a
specification: it is a plausible wrong version of the definition that follows
it, listed in `PROJECT.json` with the property that rejects it.

### CircuitBreaker

State: the `CircuitState` behind the mutex and, per attempt, the permit it
carries. `try_acquire` and `record_failure` read the monotonic clock before they
lock, so each is two actions (`AcquireReadsClock`/`TryAcquire`,
`FailureReadsClock`/`RecordFailure`); `RecordSuccess` and `Cancel` (the drop of a
permit) are one. `streak` is a history variable: the readings of the failures
that count.

### ExecutionLeases

State: one row per slot of a scope, the fence sequence, and per invocation where
it is, what its statement saw and what its renewal task knows. An acquisition is
one SQL statement and two actions: `AcquireBegins` fixes `now()`, the candidate
slot and the fence, `AcquireCommits` gets the row or not. Every answer may be
late or lost, callers may give up, holders crash, releases get lost, the reaper
runs. `CallBound` is the longest a database call takes in an execution, chosen at
its start; the renewal task puts no deadline of its own on it (only the wait for a
pooled connection and the session's `statement_timeout` bound it), which is the
subject of a finding, and `Timing` says which bounds are short enough for the TTL. One clock stands for the database's and
the replicas', whose origins the code never compares. A renewal that fails at its
caller (`RenewFails`) before the database has run it is dropped; in the code the
statement may still run (`tools/runtime.rs:489`). Its `WHERE` names the fence of its
own lease, so it could only prolong that lease: it can delay the next holder and
never lets one in.

`SlotLeases` is what the rest of the gateway relies on: slots are taken and
cleared, and no two invocations work under one slot. `KeepsScope` maps the rows
to `taken`, and, under `Timing`, the invocations that run to `working`.

### SecurityCluster

State: the authority (`history[r]`: what was committed at revision r), the
activations of the lanes, what is installed on this replica, bundle and
watermark, and the steps of each run of the gate. `Pass(g)` is the whole of
`admit_bounded` and the reconcile, one action per await; `Refuses(g)` is each of
its failures, budgets included; `RemoteCommit` is another replica; the `Writer*`
actions are an admin handler that commits, then installs without the reconcile
lock. The `Status*` actions are the handlers that append a Connection's status, which
commits no security revision and installs the record all the same: they take the
record's etag from the live map (`StatusBegins`), append under `mutation_lock` if the
authority's record still has it, and install either the record that transaction
returned (`append_status_before`, Connection tests: `StatusReturnsRecord`) or the one
they read again in a second query (`append_status`, MCP and OpenAPI refreshes:
`StatusAppends`, `StatusRereads`). Between append and second query another replica
may commit the record, and that commit is then in the live map, and perhaps in the
bundle, ahead of its revision. `handled` remembers what handlers committed or read
back, so that `BundleIsCut` can tell it from what a pass fetched: nothing a pass
fetched, and no document of another replica, is ever in a bundle early. A status
itself, and a record deleted while its status is appended (the second query finds
nothing, `WriterStops`), carry no content here. Republishing in `admit_bounded` when the bundle is behind the watermark is
not an action: it never is behind, because a pass publishes before it moves the
watermark and bootstrap wires the sources before the poller starts. Service tokens and
delegated-token purges, two more resources of the gate, are left out; a managed
tool catalogue is a step that may fail.

### AuthorityEvents

State: the singleton state row (its lock, `last_position`, units), the journal,
the cursor row, and per dispatcher its term. A producer's transaction reserves a
position, inserts, and commits or rolls back while it holds the state row. A
dispatcher repeats `Fills`, `Offers`, `Advances`; each answer may be lost.
Retention is two actions because it reads its floor before it waits for the row.

`DeliveryLog` is what is left when producers, terms and lost answers are taken
away: positions appear in order, the sink gets no event before its predecessors,
the mark passes only what the sink has, and what it has not passed is removed only
while nobody reads. `KeepsLog` maps `last` to the last committed position (`head`
less what the open transaction has reserved) and `unread` to "no cursor yet, or a
retention statement that saw none still runs".

### UpstreamHealth and ProxyForward

`UpstreamHealth` is `update`: two streaks, two thresholds, two sources. Streak
counters are capped at their thresholds, which is exact: they are only compared.
In `ProxyForward` a request goes through registration, the drain check,
admission, the second drain check, body and Connection, and the attempt loop with
its response pump; each action is what happens between two awaits. Circuit
breakers refuse as they like: `CircuitBreaker` says when they do, and no property
here depends on it. The waiters of the semaphore are a queue because tokio's is
FIFO.

### TokenCache

State: the map, and per slot address its key, cached token, generation, flight
and how far a purge has come; per call where it is. `slot_for` is one of
`FindsSlot`, `AddsSlot`, `RefusesKey`, under the map's lock; `IsRefused`,
`IsServed`, `Joins` are the section under the slot's lock; `Arms`,
`ChecksOutcome`, `Awaits`, `Wakes` are the loop of `OAuthMintFlight::wait`, in
which a mint may end between any two lines; `Mints`/`MintFails` are
`complete_oauth_mint`; `Purges`, `SeesFlight`, `Takes` are `retire_where` and the
two locked sections of `take_token`. `Arc::strong_count` is counted from the
calls and the mint that refer to the slot, and an address is used again when
nothing does. Whether a cached token is due for refresh is a free choice. The
reference a mint task still has in the instant after it unlocks the slot is not
counted. A generation is a natural number: a `u64` that saturates is out of reach.

### ToolAdmission

State: per invocation of one tool where it is in `acquire_execution_permits`, its
limiter and the limit it was planned with, the slot its statement was given and
whether a lease was lost; per replica the queue's and the global permits and the
limiter it has for the tool; per limiter its limit, how many run and who was
notified. `Calls` is `prepare_invocation` (the policy in force gives the limit,
raising it wakes waiters), `Prunes` a call under a policy without the tool,
`TakesPermit`, `FindsFull` and `Wakes` are the loop around `Notify`, `ToolTakes`
to `GlobalStarts` the two leases and the replica's permit. `Refused` is every way
out before the work starts (queue timeout, cancellation, a lease that cannot be
had) and `Ends` the end of the work; both are `GivesBack`, since the guards of an
invocation are dropped together. A tool lease lost while its invocation waits for
the global one is noticed only when the work starts, as in the code. The leases
are steps of two instances of `SlotLeases`. An address of a limiter may be used
again when nothing refers to it.

### AuditQueue

State: the channel with its count of ordinary events, the writer thread, the
sink's buffer, the flusher's batch with its attempts, the `in_flight` and
acknowledgement lists that flusher and writer take from in separate locked
sections, the count of dropped events, what each waiting request was told, and
the store. `Calls` is the look at `closed` that `emit`, `emit_control` and `record`
begin with, and `Admits` what follows under the sender's lock, so that `Closes` and
`DropsSender` may come in between. A batch is tried up to `BatchAttempts` times;
`Inserts` commits, fails, or commits unreported. `Commit` numbers the rows that are
not there yet as `APPEND_STREAM_SQL` does, so a repeated batch writes nothing twice.
`Lands`/`Confirms` and `Drops`/`CountsDropped` settle a batch for the flusher,
`StrandsBuffer` to `CountsStranded` for the writer after the deadline. A clock
of two ticks is the flusher's deadline and the drain's. `TornDown` is the runtime
going away under the flusher, whose commit may still land; `Panics` is a sink that
panics in the writer thread. `AuditLedger` is the contract: taken in or turned
away, a row stands, a loss is counted once, an answer is given once and "stored"
only of a row.

### Membership

A replica is one boot, for an instance id is never used again. What a fence
demands (a minimum schema, capability names) is a set, and a build implements some
of it. State: what the membership task of each replica is doing, the statement it
has under way, its readiness flags, the roster, the fence, the raise and the sweep
under way, and `strays`: statements whose caller is gone and which may still
land. Database time is kept as ages: of a row's last heartbeat, and of the `now()`
that a statement fixed when it began, before it waited for a lock. Ages are
capped at `Window + MaxWait`, where nothing tells them apart any more. A heartbeat
reads the fence under `FOR SHARE` and writes its row; a raise locks the fence
`FOR UPDATE`, reads the roster and commits. `Checks` reads the roster;
`AdmissionApplied` is the answer to `apply_admission_writes` (the journal capacity,
`Configures` of `AuthorityEvents`), after which agreement is recorded without another
look at the roster. `RaiseDecides` is the lock and the
roster's read in one, since only a sweep can come between. Whether the sweep's
`DELETE` by `ctid` spares a row refreshed after it was selected is left open.
`lapsed` remembers whose row went away, grew stale or was stamped draining:
`JoinGate` speaks of the others, for the code admits a replica beside one that the
roster does not show as live. `PastDoor` counts a replica from the moment it is let
through to write its settings, not only once it has agreed: two configurations are
never applied side by side either.

An observation made on the way: `mark_ready` that matches no row, because the row
was swept during a pause longer than the window, is still recorded as done, so
the row which the next heartbeat creates never gets its `ready_at`
(`storage/postgres_membership.rs:64-68` says it does).

## 3. Runs

| Run | Instance | Shows |
|---|---|---|
| `circuit` | 3 attempts, 2 probe slots, thresholds 2, clock to 4 | `ProbeAccounting`, `TripJustified`, `CooldownAdvances`, `HalfOpenDecided` |
| `leases` | 2 invocations of one replica, 1 slot, TTL 7, calls answered within 1 or within 3, clock to 15 | `LiveLeaseKept` whatever the calls take; `StopsWhenTimely` and the refinement `KeepsScope` |
| `leases_slow_call` | 2 replicas, calls of 3 in a TTL of 7 | finding: `StopsBeforeReclaim` fails |
| `security` | 2 gates, 1 handler, policy, tools and 1 Connection, 3 revisions | `AdmittedFresh`, `BundleIsCut`, `NeverBack` |
| `security_live` | 1 gate, 1 handler, 3 revisions | `CatchesUp` |
| `security_mixed` | the same | finding: `CombinationHeld` fails |
| `authority_events` | 2 producers, 2 dispatchers, capacity 2 or 3, batches of 2, 3 positions, 2 terms | `NothingSkipped`, `InOrder`, `UnitsAccounted`, `UndeliveredKept`, `CursorAdvances`, `LeaderCatchesUp`, and the refinement `KeepsLog` |
| `proxy` | an ordinary and an SSE request, a checked and an unchecked endpoint, thresholds 2, 2 attempts, three pools | `UpstreamLoadBounded`, `RetriesBounded`, `DrainIsClean`, `OneVerdict`, `TransitionsJustified`, `RequestsEnd` |
| `token_cache` | 2 calls, 1 principal, a Connection before and after a change, capacity 1, 3 addresses, 2 mints, 1 purge | `FreshAfterPurge`, `PurgeComplete`, `OneMintPerKey`, `GenerationNamesToken`, `NobodyStranded` |
| `audit_queue` | a required, an ordinary and a lifecycle event, one place for ordinary events and one in reserve, a buffer, a batch and attempts of 2 | `NothingLostUncounted`, `DrainTellsLoss`, `StreamInOrder`, `EveryoneAnswered`, and the refinement `KeepsLedger` |
| `tool_admission` | 3 invocations, 2 replicas, 2 limiters, limits 1 and 2, queue and global limit 2 | `ClusterBound`, `PermitsAccounted`, `OneLimiter`, `EveryoneServed` |
| `membership` | an old build and a new one of another configuration, window 2, statements of up to 1 tick, 1 fault | `NoExcludedLive`, `JoinGate` |

Why the bounds are enough to be interesting: the clock of `circuit` allows two
openings with a stale permit and a stale reading; that of `leases` two full TTLs
and a reaping; three revisions are what a bundle of one lane's old and another's
new content needs; two terms are a deposed leader and its successor, and three
positions with batches of two give each of them a batch; capacity 1 with two keys
forces every eviction; the three pools are one permit with and without a place in
the queue, and two permits, with a retry budget of one in each. Three invocations
under limits of 1 and 2 are one that runs, one that waits and one that comes with
a new policy, at the same replica or at another. Three events fill the channel, and
the flusher has a batch while the buffer holds another event. One fault beside a
window of two ticks lets a heartbeat stray past the raise that excludes its replica.
`MaxTime`, `MaxFence`, `MaxRevision`, `MaxEvents`, `MaxMints`, `MaxPurges`,
`MaxWait` and `MaxFaults` are bounds of the model only; deadlock is not checked
where reaching them, the end of the drain, or an invocation's or an event's only
call stops the system. What the bounds leave out, the theorems cover for
every safety property of the passing runs.

### Findings

1. `leases_slow_call`: the comment at `tools/runtime.rs:457` says a lost lease is
   noticed before the slot can be reclaimed. The half-TTL deadline is looked at
   only after `store.renew` answers, and that call has no deadline of its own: only
   the pool's wait and the session's `statement_timeout` bound it. `StopsInTime`
   says what the database has to do for the comment to hold.
2. `security_mixed`: the comments at `security_cluster.rs:146` and `:281` say a
   bundle is a state the authority held. A handler's install between the settled
   read and the capture pairs its new lane with another lane's older content; with
   `append_status` the new content may even be another replica's. Freshness is unaffected, and the next pass repairs it.

### Fairness

- `circuit`: traffic keeps arriving, locked sections end, and an attempt that
  holds a permit over and over is not cancelled every time. The last is strong
  fairness of `RecordSuccess`: an endpoint that never answers stays half-open or
  reopens, and no code could decide otherwise.
- `security_live`: tasks are scheduled (weak fairness of `Pass`), handlers end,
  and tokio's mutexes are FIFO (strong fairness of the three steps that need
  one). `CatchesUp` assumes `Healthy`: from some time on no read fails and no
  budget runs out. Commits stop by themselves at `MaxRevision`.
- `authority_events`: a leading term retries for ever (the code backs off
  with a bound), transactions end, and an advance whose answer is heard happens
  if it is possible again and again. The property speaks of a term that goes on
  leading.
- `proxy`: only what a request does by itself or when a deadline strikes is fair.
  Clients, upstreams and operators owe nothing. SSE streams have no deadline by
  design, so only a forced shutdown ends them for certain.
- `audit_queue`: the writer thread and the flusher task are scheduled (weak fairness
  of `Writes` and of `Works`, whose database calls have deadlines), and a drain
  under way goes on and its deadlines pass (`Shuts`). Callers, the deadlines of the
  receipts and faults are not relied on.
- `tool_admission`: one weak fairness for all of it: some task goes on while any can.
  Work ends by its own timeout; nothing is hoped of the queue timeout, so
  `EveryoneServed` says that the wake-ups alone serve whoever has a place.
- `membership` has no liveness property: with time and strays in the state, the
  opening of the fingerprint door under fairness is out of TLC's reach.
- `token_cache` has no liveness property: `NobodyStranded` is the state form of
  it, and the exchange has a deadline.

## 4. Proofs

All theorems are of the specifications the runs check, for every value of the
constants allowed by the named ASSUMEs (finite sets where something is counted,
positive thresholds). TLC evaluates those assumptions on the instances.

- `ExecutionLeasesProofs`: `TypeCorrect`, `FencingCorrect`, `LiveLeaseCorrect`
  without any assumption on time, from unique fences and times in the past
  (`SafeInv`). `StopsInTime` and `ScopeKept` speak of executions with
  `Timing == TTL >= 2 * retry + 4 * CallBound`; their invariant `HoldersInv` says
  what a holder can rely on: its row expires no sooner than `last_renewed` plus
  the TTL less one call, and the renewal task is never later than half the TTL
  plus one retry. Under `Timing` a renewal is never refused. `ScopeKept` is the
  refinement: `Spec => KeepsScope`, every step of the leases being a step of
  `SlotLeases` or a stutter, because a row is replaced only when its holder stopped.
- `ProxyProofs` holds what is proved of the proxy's three modules.
  Circuit breaker: `CircuitTypeCorrect`, `AccountingCorrect`, `BoundCorrect`,
  `CooldownCorrect`, `TripCorrect`. `ProbeAccounting` is not inductive: it needs
  `GenerationsReached` (no permit is of a generation not reached yet, none of an
  open one), or a permit of the past could become current. The cool-down needs
  `ReadingsPast` and `CooldownOver`: the reading a current permit's failure is
  recorded with was taken after the last cool-down ended. `TripJustified` speaks
  of the last `failure_threshold` readings and the code keeps only a count and the
  start of a window: `WindowFollowed` ties the two, by saying that the last
  `failures` readings of the streak begin with the one that started the window; the
  failure that trips is then compared with that very reading.
  Upstream health: `HealthTypeCorrect`, `TransitionsCorrect`.
  Forwarding: every step of the 20-odd actions has one of eight shapes
  (`StepShapes`); `ProxyInv` (who holds which permit, which registration, which
  verdict) is shown shape by shape. From it `LoadTheorem`, `RetryTheorem`,
  `DrainTheorem`, `VerdictTheorem`. `ImplementsHealth` is the refinement:
  `Spec => HealthSpec`, and with it `ProxyTransitions` carries
  `TransitionsCorrect` over to the running proxy.
- `AuthorityEventsProofs`: `AtLeastOnce`, `DeliveredInOrder`, `UnitsCorrect`,
  `RetentionCorrect`, `CursorCorrect`, `LogImplemented`, and `EventsTypeCorrect`, from
  `EventsInv`. `NothingSkipped` and `InOrder` say nothing of what a term has in its
  memory, and so are not inductive. `LockInv`: the one open transaction has the last
  positions, so what a reader sees has no hole that may be filled later.
  `JournalInv`: a committed position is in the journal, behind the cursor, or expired.
  `TermInv`: whatever a term, stale or not, has read since its last commit is pending, in
  the sink or expired; and as long as its fence is the cursor's, the cursor is where
  the term left it or where its unanswered advance put it. `FencesInv`: no two terms
  share a fence. `BatchHasNoGap` is the fact about `ORDER BY ... LIMIT` that a batch
  needs. `UnitsInv` counts the rows and sessions an open transaction will leave, so
  that commit and rollback both restore `UnitsAccounted`. `LogImplemented` is the
  refinement: a batch is the log's `Deliver` because `InOrder` holds after it, an
  advance its `Pass` because `NothingSkipped` does, and everything else a producer
  or a term does is hidden.
- `SecurityClusterProofs`: `BundleCorrect`, `AdmissionCorrect`, `NeverBackCorrect`
  and `SecurityTypeCorrect`, from `SecurityInv`. `BundleIsCut` speaks of the published
  bundle only; the argument is about the pass that will publish the next. `Ordered`
  says what the shared counter gives: a part's content at a revision is its last
  commit up to it. `ScanInv`: a lane the pass has looked at, at a counter that has
  not moved, has installed at least what the authority held at the pass's revision.
  When the counter is read again and stands still, nothing newer exists, so each
  lane is exactly that, and `CaptureInv` says that from then on only what handlers of
  this replica committed or read back gets in. `WriterInv` is why a handler's late
  install is safe: it took what it installs from the authority itself, and for a
  Connection the mutation lock, held since before that, keeps every listing out, so
  nothing newer is installed meanwhile (`HeldType`: the live map is never ahead of the
  authority). A status handler that waits for the lock needs no clause: it has nothing
  to install yet. Freshness follows from `LiveInv` (what is
  installed is no older than the watermark says) and `GateInv` (the bundle is never
  behind the watermark).
- `TokenCacheProofs`: `CacheInv`, in seven parts. `FreshAfterPurge` needs that
  what is in the map is never older than the last purge (`FreshInv`), which needs
  that a slot in use leaves the map only by a purge (`MapInv`); `OneMintPerKey`
  follows from `MapInv` alone; `GenerationNamesToken` needs that the numbers of a
  slot only grow (`NumberInv`); `NobodyStranded` needs that a waiter that has
  armed and looked is told (`WaitInv`).
- `ToolAdmissionProofs`: `LimiterCorrect`, `BoundCorrect`, `PermitsCorrect` from
  `IInv`. `ClusterBound` counts invocations and needs `Leased`: whoever works holds
  a slot of its own below its capacity in both scopes, so that counting is a
  pigeonhole. `PermitsAccounted` is inductive beside `OneLimiter`: every action
  moves a counter together with one invocation's own share.
- `AuditQueueProofs`: `LedgerImplemented` (the refinement), `NothingLostCorrect`,
  `DrainCorrect`, `OrderCorrect`. `IInv` says where an event can be: `Apart` (at one
  place at most, and uncounted while it is there), `Kept` (an admitted event is at a
  place, a row, or counted), and what flusher and writer may be doing at the same
  time. The drain needs `Told` (a dropped batch is remembered); the order needs
  `OInv`: the stages hold events in the order of the log, and a batch is in the
  store as a whole or not at all.
- `MembershipProofs`: `TypeCorrect`, `FenceCorrect`, `DoorCorrect`. The fence needs
  `Decided`: what a raise saw under its lock still holds when it commits, because
  whoever writes a row waits for that lock. The door needs `Heard` (who asks or is past
  the door wrote its own row first, or its row has lapsed) and `Unlapsed`.

Refinements: `ExecutionLeases` implements `SlotLeases`, `AuditQueue` implements
`AuditLedger` and `AuthorityEvents` implements `DeliveryLog`, each checked by its run
and proved; `ProxyForward` implements `UpstreamHealth`, proved.

Only model-checked: liveness and everything under fairness, which the proof system
does not handle: `HalfOpenDecided`, `CatchesUp`, `LeaderCatchesUp`, `RequestsEnd`,
`EveryoneAnswered`, `EveryoneServed`. The properties of the two findings do not hold.

The inductive invariants were checked with TLC on the instances of the runs before
they were proved. The proofs of `SecurityClusterProofs` and `AuthorityEventsProofs` take
tlapm one to two minutes each.

## 5. What is not modelled

Besides the components marked `not_modelled` in `PROJECT.json`:

- PostgreSQL is taken at its word: a transaction is atomic, a row lock is held to
  its end, one statement sees one snapshot. The reaper's
  `DELETE ... WHERE ctid = ANY(ARRAY(SELECT ...))` is one step; beside a take-over
  of the same row it relies on PostgreSQL's recheck.
- Fleets of replicas in the lease runs: two holders show every pair, and the
  theorems cover any number.
- The research export buffers, WebSocket and gRPC routes; the path in the attempt
  loop on which a buffered body has no next attempt, which cannot be reached.
- Revocation requests to issuers, the record of a purge for other replicas, Google
  delegation and the uncached tokens of connection tests.
- Tool admission of more than one tool, and of a gateway that stands alone: its lease
  scopes are a local allocator that never loses a lease.
- Of the audit log: the group-commit window, the file, stdout and SQLite sinks and
  the fan-out to several; reading the stream.
- Of membership: the unlocked look at live members before a raise, the instants kept
  in rows for display, the age of the last heartbeat as a readiness condition. One
  database holds one deployment (`bind_deployment`).
- The shared rate limit (`storage/postgres_rate_limits.rs`): its arithmetic on
  database time is one statement per request; the hazard at line 228, a statement
  that began earlier and locks the row later, is listed without a property.
- Poisoned mutexes: the code recovers from a panic inside a locked section;
  such panics are not modelled.

## 6. Plan

Done, in this order: circuit breaker, leases, security gate, authority events,
health and forwarding, token cache, tool admission, audit pipeline, membership.
The order was by what goes wrong silently: shared state whose owner may be gone,
then state that is stale when used.

Left, extending the model:

1. `RateLimits`: the shared GCRA statement with clocks that seem to run backwards.
2. The purge across replicas: `TokenCache` with `apply_recorded_purges` under the
   security revision.
3. The maintenance leader and its ledger of fenced jobs.

Left, proving: an abstract specification of the security gate (a replica that
serves some state of the authority no older than the request) which
`SecurityCluster` implements, and one of the membership door. Every safety property
of a passing run has its theorem.
