--------------------------- MODULE CircuitBreaker ---------------------------
(***************************************************************************)
(* The per-endpoint circuit breaker of the proxy data plane                *)
(* (gateway/src/proxy/circuit.rs).                                         *)
(*                                                                         *)
(* The breaker is one mutex-protected state shared by every attempt that   *)
(* is sent to the endpoint.  An attempt first takes a permit, carries it   *)
(* through the (streamed) response, and then reports success or failure,   *)
(* or is dropped.  Both try_acquire and record_failure read the monotonic  *)
(* clock BEFORE they take the mutex, so the reading may be old when it is  *)
(* used: reading the clock and the locked section are two steps here.      *)
(***************************************************************************)
EXTENDS Integers, FiniteSets, Sequences

CONSTANTS
    Attempts,          \* concurrent upstream attempts (permit holders)
    FailureThreshold,  \* circuit_breaker.failure_threshold
    RecoveryThreshold, \* circuit_breaker.recovery_threshold
    HalfOpenMax,       \* circuit_breaker.half_open_max_requests
    OpenTicks,         \* circuit_breaker.open_ms
    FailureWindow,     \* FAILURE_WINDOW
    MaxTime            \* bound of the model: the clock stops here

ASSUME CircuitAssumption ==
    /\ IsFiniteSet(Attempts)
    /\ FailureThreshold \in Nat \ {0}
    /\ RecoveryThreshold \in Nat \ {0}
    /\ HalfOpenMax \in Nat \ {0}
    /\ OpenTicks \in Nat \ {0}
    /\ FailureWindow \in Nat \ {0}
    /\ MaxTime \in Nat

VARIABLES
    clock,       \* the monotonic clock
    mode,        \* which CircuitState variant is stored
    generation,  \* its generation
    failures,    \* Closed: consecutive_failures
    window,      \* Closed: window_started_at, None when no failure is counted
    until,       \* Open: until (kept after the state is left, for CooldownAdvances)
    in_flight,   \* HalfOpen: in_flight
    successes,   \* HalfOpen: successes
    permit,      \* per attempt: where it is, the clock it read, its permit
    streak       \* history: clock readings of the failures counted since the
                 \* last success or change of state, the latest FailureThreshold

breaker == <<mode, generation, failures, window, until, in_flight, successes, streak>>
circuitVars == <<clock, breaker, permit>>

None == -1
Kinds == {"Closed", "HalfOpen"}
Modes == {"Closed", "Open", "HalfOpen"}

\* idle: no permit; acquiring: the clock is read, the lock not yet taken;
\* holding: a CircuitPermit is carried; failing: failure() has read the clock.
PermitPCs == {"idle", "acquiring", "holding", "failing"}

Carrying(gen, kind) == [pc |-> "holding", now |-> 0, gen |-> gen, kind |-> kind]
Idle == [pc |-> "idle", now |-> 0, gen |-> 0, kind |-> "Closed"]

AttemptState == [pc : PermitPCs, now : 0..MaxTime, gen : Nat, kind : Kinds]

CircuitTypeOK ==
    /\ clock \in 0..MaxTime
    /\ mode \in Modes
    /\ generation \in Nat
    /\ failures \in Nat
    /\ window \in Nat \cup {None}
    /\ until \in Nat
    /\ in_flight \in Nat
    /\ successes \in Nat
    /\ permit \in [Attempts -> AttemptState]
    /\ streak \in Seq(Nat)

\* CircuitBreaker::new_with_clock
CircuitInit ==
    /\ clock = 0
    /\ mode = "Closed" /\ generation = 0 /\ failures = 0 /\ window = None
    /\ until = 0 /\ in_flight = 0 /\ successes = 0
    /\ permit = [a \in Attempts |-> Idle]
    /\ streak = <<>>

-----------------------------------------------------------------------------
(* The three variants of CircuitState that a locked section can store.      *)

BecomeClosed(gen) ==
    /\ mode' = "Closed" /\ generation' = gen
    /\ failures' = 0 /\ window' = None
    /\ in_flight' = 0 /\ successes' = 0
    /\ streak' = <<>>
    /\ UNCHANGED until

BecomeOpen(gen, now) ==
    /\ mode' = "Open" /\ generation' = gen
    /\ until' = now + OpenTicks
    /\ failures' = 0 /\ window' = None
    /\ in_flight' = 0 /\ successes' = 0

BecomeHalfOpen(gen, flying, won) ==
    /\ mode' = "HalfOpen" /\ generation' = gen
    /\ in_flight' = flying /\ successes' = won
    /\ UNCHANGED <<failures, window, until, streak>>

\* saturating_sub(1)
MinusOne(n) == IF n = 0 THEN 0 ELSE n - 1

LatestFailures(s) == SubSeq(s, Len(s) - FailureThreshold + 1, Len(s))
Counted(now) ==
    LET s == Append(streak, now)
    IN  IF Len(s) <= FailureThreshold THEN s ELSE LatestFailures(s)

Grant(a, gen, kind) == permit' = [permit EXCEPT ![a] = Carrying(gen, kind)]

\* The clock is read, and the value kept in a local variable.
ReadClock(a, pc) ==
    permit' = [permit EXCEPT ![a] =
        [pc |-> pc, now |-> clock, gen |-> permit[a].gen, kind |-> permit[a].kind]]

Finish(a) == permit' = [permit EXCEPT ![a] = Idle]

-----------------------------------------------------------------------------

Tick ==
    /\ clock < MaxTime
    /\ clock' = clock + 1
    /\ UNCHANGED <<breaker, permit>>

\* try_acquire: let now = self.inner.clock.now();
AcquireReadsClock(a) ==
    /\ permit[a].pc = "idle"
    /\ ReadClock(a, "acquiring")
    /\ UNCHANGED <<clock, breaker>>

\* try_acquire: the locked section, one disjunct per arm of the match.
TryAcquire(a) ==
    /\ permit[a].pc = "acquiring"
    /\ UNCHANGED clock
    /\ \/ /\ mode = "Closed"
          /\ Grant(a, generation, "Closed")
          /\ UNCHANGED breaker
       \/ /\ mode = "Open" /\ permit[a].now < until
          /\ Finish(a)
          /\ UNCHANGED breaker
       \/ /\ mode = "Open" /\ permit[a].now >= until
          /\ BecomeHalfOpen(generation + 1, 1, 0)
          /\ Grant(a, generation + 1, "HalfOpen")
       \/ /\ mode = "HalfOpen" /\ in_flight < HalfOpenMax
          /\ BecomeHalfOpen(generation, in_flight + 1, successes)
          /\ Grant(a, generation, "HalfOpen")
       \/ /\ mode = "HalfOpen" /\ in_flight >= HalfOpenMax
          /\ Finish(a)
          /\ UNCHANGED breaker

\* Mutant: the permit's generation is not compared.
CurrentKindOnly(a) == permit[a].kind = mode

\* Does the permit of a still speak for the state the breaker is in?
Current(a) == permit[a].kind = mode /\ permit[a].gen = generation

\* record_success, called by CircuitPermit::success
RecordSuccess(a) ==
    /\ permit[a].pc = "holding"
    /\ Finish(a)
    /\ UNCHANGED clock
    /\ \/ /\ Current(a) /\ mode = "Closed"
          /\ BecomeClosed(generation)
       \/ /\ Current(a) /\ mode = "HalfOpen" /\ successes + 1 >= RecoveryThreshold
          /\ BecomeClosed(generation + 1)
       \/ /\ Current(a) /\ mode = "HalfOpen" /\ successes + 1 < RecoveryThreshold
          /\ BecomeHalfOpen(generation, MinusOne(in_flight), successes + 1)
       \/ /\ ~Current(a)
          /\ UNCHANGED breaker

\* record_failure: let now = self.inner.clock.now();
FailureReadsClock(a) ==
    /\ permit[a].pc = "holding"
    /\ ReadClock(a, "failing")
    /\ UNCHANGED <<clock, breaker>>

\* now.saturating_duration_since(started) >= FAILURE_WINDOW
WindowExpired(now) == window # None /\ now - window >= FailureWindow

\* Mutant: an expired window does not restart the count.
FailuresNeverExpire(now) == failures + 1

FailuresAfter(now) == IF WindowExpired(now) THEN 1 ELSE failures + 1

\* record_failure: the locked section, called by CircuitPermit::failure
RecordFailure(a) ==
    LET now == permit[a].now IN
    /\ permit[a].pc = "failing"
    /\ Finish(a)
    /\ UNCHANGED clock
    /\ \/ /\ Current(a) /\ mode = "Closed" /\ FailuresAfter(now) >= FailureThreshold
          /\ BecomeOpen(generation + 1, now)
          /\ streak' = Counted(now)
       \/ /\ Current(a) /\ mode = "Closed" /\ FailuresAfter(now) < FailureThreshold
          /\ failures' = FailuresAfter(now)
          /\ window' = IF failures = 0 \/ WindowExpired(now) THEN now ELSE window
          /\ streak' = Counted(now)
          /\ UNCHANGED <<mode, generation, until, in_flight, successes>>
       \/ /\ Current(a) /\ mode = "HalfOpen"
          /\ BecomeOpen(generation + 1, now)
          /\ streak' = <<>>
       \/ /\ ~Current(a)
          /\ UNCHANGED breaker

\* Mutant: dropping a permit gives no probe slot back.
CancelKeepsSlot(a) ==
    /\ permit[a].pc = "holding"
    /\ Finish(a)
    /\ UNCHANGED <<clock, breaker>>

\* CircuitPermit dropped without a verdict: Drop calls cancel
Cancel(a) ==
    /\ permit[a].pc = "holding"
    /\ Finish(a)
    /\ UNCHANGED clock
    /\ \/ /\ Current(a) /\ mode = "HalfOpen"
          /\ BecomeHalfOpen(generation, MinusOne(in_flight), successes)
       \/ /\ ~(Current(a) /\ mode = "HalfOpen")
          /\ UNCHANGED breaker

CircuitNext ==
    \/ Tick
    \/ \E a \in Attempts :
        \/ AcquireReadsClock(a)
        \/ TryAcquire(a)
        \/ RecordSuccess(a)
        \/ FailureReadsClock(a)
        \/ RecordFailure(a)
        \/ Cancel(a)

CircuitSpec == CircuitInit /\ [][CircuitNext]_circuitVars

\* Traffic keeps arriving at the endpoint, locked sections finish, and an
\* attempt that holds a permit again and again is not cancelled every time.
CircuitFairness ==
    \A a \in Attempts :
        /\ WF_circuitVars(AcquireReadsClock(a))
        /\ WF_circuitVars(TryAcquire(a))
        /\ WF_circuitVars(RecordFailure(a))
        /\ SF_circuitVars(RecordSuccess(a))

CircuitFairSpec == CircuitSpec /\ CircuitFairness

-----------------------------------------------------------------------------
(* Properties                                                               *)

\* The recovery probes that are really outstanding: permits of the half-open
\* state the breaker is in now.
Outstanding ==
    {a \in Attempts : /\ permit[a].pc \in {"holding", "failing"}
                      /\ permit[a].kind = "HalfOpen"
                      /\ permit[a].gen = generation}

\* in_flight of the half-open state counts exactly the permits of this
\* generation that are still carried: no verdict, no drop and no late permit of
\* an earlier recovery leaks a probe slot or frees one twice (the saturating
\* subtraction never saturates).
ProbeAccounting ==
    mode = "HalfOpen" => in_flight = Cardinality(Outstanding)

\* A closed circuit opens only on failure_threshold failures without a success
\* between them, all counted in one failure window.
TripJustified ==
    (mode = "Open" /\ streak # <<>>) =>
        /\ Len(streak) = FailureThreshold
        /\ streak[Len(streak)] - streak[1] < FailureWindow

\* Each opening of the circuit ends at least open_ms after the previous one was
\* due to end: neither a stale clock reading nor the verdict of a permit of an
\* earlier generation may reopen the circuit with a cool-down of the past.
CooldownAdvances ==
    [][mode # "Open" /\ mode' = "Open" => until' >= until + OpenTicks]_circuitVars

\* While traffic arrives, a half-open circuit is decided: it does not stay
\* half-open with every probe slot taken by permits that no longer exist.
HalfOpenDecided == (mode = "HalfOpen") ~> (mode # "HalfOpen")

=============================================================================
