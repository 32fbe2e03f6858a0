----------------------------- MODULE ProxyProofs -----------------------------
(***************************************************************************)
(* Proofs about the proxy's data plane: the endpoint's circuit breaker     *)
(* (CircuitBreaker), its health (UpstreamHealth) and the requests that are *)
(* forwarded to it (ProxyForward), for every finite set of requests and    *)
(* attempts, every pool, every threshold, any number of endpoints and any  *)
(* length of the clock.                                                    *)
(***************************************************************************)
EXTENDS CircuitBreaker, ProxyForward, FiniteSetTheorems, SequenceTheorems, TLAPS

(***************************************************************************)
(* UpstreamHealth: every transition of an endpoint is justified.           *)
(*                                                                         *)
(* The code decides by its streaks, the property speaks of what was        *)
(* recorded since the last transition.  The invariant needed is that a     *)
(* streak which could cause the next transition counts nothing older: the  *)
(* streak of failures while the endpoint is not excluded, the streak of    *)
(* successful probes while it is not healthy.  That is what clearing the   *)
(* other source's streak is for.                                           *)
(***************************************************************************)

\* No streak that can still cause a transition of e is older than the last one.
NothingOld(e) ==
    /\ eligibility[e] # "healthy" => active[e].ok <= seen[e].active.ok
    /\ eligibility[e] # "unhealthy" => /\ active[e].bad <= seen[e].active.bad
                                       /\ passive[e].bad <= seen[e].passive.bad

HealthInv ==
    /\ HealthTypeOK
    /\ \A e \in Checked : NothingOld(e)
    /\ TransitionsJustified

-----------------------------------------------------------------------------

\* Extending a streak keeps it a streak and keeps the order of two streaks: the
\* longer of them stays the longer (saturating_add of the consecutive counters).
LEMMA ExtendLemma ==
    ASSUME NEW s \in Streaks, NEW ok \in BOOLEAN
    PROVE /\ Extend(s, ok) \in Streaks
          /\ \A t \in Streaks : /\ s.ok <= t.ok => Extend(s, ok).ok <= Extend(t, ok).ok
                                /\ s.bad <= t.bad => Extend(s, ok).bad <= Extend(t, ok).bad
  BY HealthAssumption DEF Streaks, Extend, UpTo

LEMMA NoStreakType == NoStreak \in Streaks
  BY HealthAssumption DEF NoStreak, Streaks

LEMMA HealthInitInv == HealthInit => HealthInv
  BY NoStreakType DEF HealthInit, HealthInv, HealthTypeOK, NothingOld, TransitionsJustified, NoStreak

\* An observation from either source keeps the types of the streaks.
LEMMA UpdateType ==
    ASSUME HealthTypeOK, NEW e \in Checked, NEW ok \in BOOLEAN, NEW probe \in BOOLEAN,
           Update(e, ok, probe)
    PROVE HealthTypeOK'
<1> DEFINE grown == Extend(IF probe THEN active[e] ELSE passive[e], ok)
           counted == Extend(IF probe THEN seen[e].active ELSE seen[e].passive, ok)
<1>1. grown \in Streaks /\ counted \in Streaks
  <2>1. /\ (IF probe THEN active[e] ELSE passive[e]) \in Streaks
        /\ (IF probe THEN seen[e].active ELSE seen[e].passive) \in Streaks
    BY DEF HealthTypeOK
  <2> QED BY <2>1, ExtendLemma
<1>2. After(e, ok, probe, grown) \in {"unknown", "healthy", "unhealthy"}
  BY DEF After, HealthTypeOK
<1>3. counted.ok \in Nat /\ counted.bad \in Nat /\ seen[e].active.ok \in Nat
  BY <1>1, HealthAssumption DEF Streaks, HealthTypeOK
<1> HIDE DEF grown, counted
<1>4. QED
  BY <1>1, <1>2, <1>3, NoStreakType DEF Update, HealthTypeOK, Cleared, grown, counted

\* An observation from either source, about an endpoint in any state, leaves no
\* old evidence that could matter and makes only justified transitions.
LEMMA UpdateInv ==
    ASSUME HealthInv, NEW e \in Checked, NEW ok \in BOOLEAN, NEW probe \in BOOLEAN,
           Update(e, ok, probe)
    PROVE HealthInv'
<1> DEFINE old == IF probe THEN active[e] ELSE passive[e]
           grown == Extend(old, ok)
           next == After(e, ok, probe, grown)
           count == IF probe THEN seen[e].active ELSE seen[e].passive
           counted == Extend(count, ok)
<1>1. HealthTypeOK /\ HealthTypeOK'
  BY UpdateType DEF HealthInv
<1>2. old \in Streaks /\ count \in Streaks
  BY <1>1 DEF HealthTypeOK
<1>3. /\ old.ok <= count.ok => grown.ok <= counted.ok
      /\ old.bad <= count.bad => grown.bad <= counted.bad
  BY <1>2, ExtendLemma
<1>4. /\ grown \in Streaks /\ counted \in Streaks
      /\ ok => grown.bad = 0
      /\ ~ok => grown.ok = 0
  BY <1>2, ExtendLemma DEF Extend
<1>5. NothingOld(e) /\ (eligibility[e] \in {"unknown", "healthy", "unhealthy"})
  BY <1>1 DEF HealthInv, HealthTypeOK
<1>6. /\ eligibility'[e] = next
      /\ active'[e] = IF probe THEN grown
                      ELSE IF next # eligibility[e] THEN NoStreak ELSE active[e]
      /\ passive'[e] = IF ~probe THEN grown
                       ELSE IF next # eligibility[e] THEN NoStreak ELSE passive[e]
      /\ seen'[e] = IF next # eligibility[e] THEN [active |-> NoStreak, passive |-> NoStreak]
                    ELSE IF probe THEN [active |-> counted, passive |-> seen[e].passive]
                    ELSE [active |-> seen[e].active, passive |-> counted]
      /\ cause'[e] = IF next = eligibility[e] THEN cause[e]
                     ELSE IF ~ok THEN counted.bad
                     ELSE IF probe THEN counted.ok ELSE seen[e].active.ok
  BY <1>1 DEF Update, HealthTypeOK, Cleared
<1>7. /\ next # eligibility[e] /\ ok => next = "healthy" /\ probe /\ grown.ok >= HealthyThreshold
      /\ next # eligibility[e] /\ ~ok => next = "unhealthy" /\ grown.bad >= UnhealthyThreshold
  BY DEF After, Readmits
<1> HIDE DEF grown, next, counted
<1>8. NothingOld(e)'
  <2>1. CASE next = eligibility[e]
    <3>1. CASE probe
      BY <2>1, <3>1, <1>3, <1>5, <1>6 DEF NothingOld
    <3>2. CASE ~probe
      BY <2>1, <3>2, <1>3, <1>5, <1>6 DEF NothingOld
    <3> QED BY <3>1, <3>2
  <2>2. CASE next # eligibility[e] /\ ok
    BY <2>2, <1>4, <1>6, <1>7 DEF NothingOld, NoStreak
  <2>3. CASE next # eligibility[e] /\ ~ok
    BY <2>3, <1>4, <1>6, <1>7 DEF NothingOld, NoStreak
  <2> QED BY <2>1, <2>2, <2>3
<1>9. /\ next = "healthy" => cause'[e] >= HealthyThreshold
      /\ next = "unhealthy" => cause'[e] >= UnhealthyThreshold
  <2> USE HealthAssumption
  <2>1. CASE next = eligibility[e]
    BY <2>1, <1>6 DEF HealthInv, TransitionsJustified
  <2>2. CASE next # eligibility[e] /\ ok
    BY <2>2, <1>3, <1>4, <1>5, <1>6, <1>7 DEF NothingOld, Streaks
  <2>3. CASE next # eligibility[e] /\ ~ok
    BY <2>3, <1>3, <1>4, <1>5, <1>6, <1>7 DEF NothingOld, Streaks
  <2> QED BY <2>1, <2>2, <2>3
<1>10. ASSUME NEW f \in Checked, f # e
       PROVE /\ NothingOld(f)'
             /\ eligibility'[f] = eligibility[f] /\ cause'[f] = cause[f]
  BY <1>1, <1>10 DEF HealthInv, NothingOld, Update, HealthTypeOK
<1>11. TransitionsJustified'
  BY <1>6, <1>9, <1>10 DEF TransitionsJustified, HealthInv
<1> QED
  BY <1>1, <1>8, <1>10, <1>11 DEF HealthInv

LEMMA HealthNextInv == HealthInv /\ [HealthNext]_health => HealthInv'
<1> SUFFICES ASSUME HealthInv, [HealthNext]_health PROVE HealthInv'
  OBVIOUS
<1>1. CASE HealthNext
  BY <1>1, UpdateInv DEF HealthNext
<1>2. CASE UNCHANGED health
  BY <1>2 DEF health, HealthInv, HealthTypeOK, NothingOld, TransitionsJustified
<1> QED BY <1>1, <1>2

\* The streaks stay within their thresholds and the state is one of three, for
\* every number of endpoints and all thresholds.
THEOREM HealthTypeCorrect == HealthSpec => []HealthTypeOK
<1>1. HealthInv => HealthTypeOK
  BY DEF HealthInv
<1> QED BY HealthInitInv, HealthNextInv, <1>1, PTL DEF HealthSpec

\* Whatever order probes and attempts report in, an endpoint is excluded only on
\* unhealthy_threshold failures in a row of one source, and readmitted only on
\* healthy_threshold successful probes in a row, recorded since the last
\* transition.
THEOREM TransitionsCorrect == HealthSpec => []TransitionsJustified
<1>1. HealthInv => TransitionsJustified
  BY DEF HealthInv
<1> QED BY HealthInitInv, HealthNextInv, <1>1, PTL DEF HealthSpec

-----------------------------------------------------------------------------
(***************************************************************************)
(* ProxyForward: load, retries, drain and passive health.                  *)
(*                                                                         *)
(* Every step is either outside the requests or has one of eight shapes    *)
(* (StepShapes); the three parts of the invariant are shown shape by shape.*)
(***************************************************************************)

\* Where a request holds a permit of in_flight, and where it has not been sent.
Holding == {"admitted", "reading"} \cup AtUpstream \cup Backoffs
Unsent == {"new", "registered", "acquiring", "queued", "admitted", "reading"}

\* The permits and registrations are those of the requests that should have
\* them, and a late request gets no further than its registration.
LoadInv ==
    /\ pc \in [Requests -> PCs] /\ late \in [Requests -> BOOLEAN]
    /\ pool \in Pools
    /\ inFlight = {r \in Requests : pc[r] \in Holding}
    /\ Cardinality(inFlight) <= pool.max_in_flight
    /\ streams = {r \in Requests : pc[r] \notin {"new", "done"}}
    /\ \A r \in Requests : late[r] => Draining /\ pc[r] \in {"registered", "done"}
    /\ shutdown = "graceful" => streams = {}

\* What sleeps before a retry or waits for its response holds a retry permit.
RetryInv ==
    /\ attempt \in [Requests -> Nat]
    /\ retrying \subseteq Requests
    /\ Cardinality(retrying) <= RetryBudget
    /\ \A r \in Requests :
        /\ pc[r] \in Backoffs => r \in retrying
        /\ pc[r] = "sending" /\ attempt[r] > 1 => r \in retrying
        /\ pc[r] \in Unsent => attempt[r] = 0

\* An attempt that may still report has not done so.
VerdictInv ==
    /\ verdicts \in [Requests -> Nat] /\ condemned \in [Requests -> BOOLEAN]
    /\ \A r \in Requests :
        /\ verdicts[r] <= 1
        /\ pc[r] = "sending" => verdicts[r] = 0
        /\ pc[r] \in {"first", "streaming", "backoff_status"} /\ ~condemned[r] => verdicts[r] = 0

ProxyInv == LoadInv /\ RetryInv /\ VerdictInv

-----------------------------------------------------------------------------
(* The shapes of a step                                                     *)

\* A result is recorded, or not.
Reporting(r) ==
    \/ verdicts' = verdicts
    \/ /\ verdicts' = [verdicts EXCEPT ![r] = verdicts[r] + 1]
       /\ \/ pc[r] = "sending"
          \/ pc[r] \in {"first", "streaming"} /\ ~condemned[r]

Still == UNCHANGED <<shutdown, pool, late>>

\* The drain and the probes
Outside ==
    /\ UNCHANGED <<pool, inFlight, retrying, streams, pc, attempt, condemned, late, verdicts>>
    /\ Draining => Draining'
    /\ shutdown' = "graceful" => shutdown = "graceful" \/ streams = {}

Ending(r) == Ends(r) /\ Reporting(r) /\ Still

Registering(r) ==
    /\ pc[r] = "new" /\ shutdown # "graceful"
    /\ Goto(r, "registered")
    /\ streams' = streams \cup {r}
    /\ late' = [late EXCEPT ![r] = Draining]
    /\ UNCHANGED <<shutdown, pool, inFlight, retrying, attempt, condemned, verdicts>>

\* On the way to admission
Waiting(r) ==
    /\ \/ pc[r] = "registered" /\ ~Draining /\ Goto(r, "acquiring")
       \/ pc[r] = "acquiring" /\ Goto(r, "queued")
    /\ Still
    /\ UNCHANGED <<inFlight, retrying, streams, attempt, condemned, verdicts>>

Entering(r) ==
    /\ pc[r] \in {"acquiring", "queued"}
    /\ Cardinality(inFlight) < pool.max_in_flight
    /\ Goto(r, "admitted")
    /\ inFlight' = inFlight \cup {r}
    /\ Still
    /\ UNCHANGED <<retrying, streams, attempt, condemned, verdicts>>

\* Between two waits, with everything it holds
Keeping(r) ==
    /\ \/ pc[r] = "admitted" /\ Goto(r, "reading")
       \/ pc[r] = "first" /\ Goto(r, "streaming")
    /\ Still
    /\ UNCHANGED <<inFlight, retrying, streams, attempt, condemned, verdicts>>

Attempting(r) ==
    /\ pc[r] \in {"reading"} \cup Backoffs
    /\ Goto(r, "sending")
    /\ attempt' = [attempt EXCEPT ![r] = attempt[r] + 1]
    /\ condemned' = [condemned EXCEPT ![r] = FALSE]
    /\ verdicts' = [verdicts EXCEPT ![r] = 0]
    /\ Still
    /\ UNCHANGED <<inFlight, retrying, streams>>

\* How a response with its headers in leaves the verdict on its attempt
Judged(r) ==
    \/ pc[r] = "sending" /\ Reporting(r) /\ condemned' = [condemned EXCEPT ![r] = TRUE]
    \/ /\ pc[r] = "sending" /\ verdicts' = verdicts
       /\ condemned' = [condemned EXCEPT ![r] = FALSE]
    \/ pc[r] = "backoff_status" /\ verdicts' = verdicts /\ condemned' = condemned

Retrying(r) ==
    /\ BudgetLeft(r)
    /\ \/ /\ pc[r] \in {"sending", "first"} /\ Goto(r, "backoff_error")
          /\ Reporting(r) /\ condemned' = condemned
       \/ /\ pc[r] = "sending" /\ Goto(r, "backoff_status")
          /\ Judged(r)
    /\ retrying' = retrying \cup {r}
    /\ Still
    /\ UNCHANGED <<inFlight, streams, attempt>>

Passing(r) ==
    /\ Judged(r)
    /\ Goto(r, "streaming") \/ Goto(r, "first")
    /\ retrying' = retrying \ {r} \/ retrying' = retrying
    /\ Still
    /\ UNCHANGED <<inFlight, streams, attempt>>

Moving(r) ==
    \/ Registering(r) \/ Waiting(r) \/ Entering(r) \/ Keeping(r)
    \/ Attempting(r) \/ Retrying(r) \/ Passing(r)

\* A passive result counts once for its attempt, or not at all.
LEMMA ReportShape ==
    ASSUME NEW r, NEW ok \in BOOLEAN
    PROVE /\ Report(r, ok) => \/ verdicts' = verdicts
                              \/ verdicts' = [verdicts EXCEPT ![r] = verdicts[r] + 1]
          /\ UNCHANGED reports => verdicts' = verdicts
BY DEF Report, reports

LEMMA ReportOnceShape ==
    ASSUME NEW r, NEW ok \in BOOLEAN, pc[r] \in {"first", "streaming"},
           ReportOnce(r, ok) \/ UNCHANGED reports
    PROVE Reporting(r)
BY ReportShape DEF ReportOnce, NoOpinionYet, Reporting

\* The head of the attempt loop starts an attempt or ends the request.
LEMMA StartsShape ==
    ASSUME NEW r \in Requests, StartsAttempt(r), Still, pc[r] \in {"reading"} \cup Backoffs
    PROVE Attempting(r) \/ Ending(r)
BY DEF StartsAttempt, Attempting, Ending, Reporting, permits, reports

LEMMA ProceedsShape ==
    ASSUME NEW r \in Requests, Proceeds(r)
    PROVE Ending(r) \/ Moving(r)
<1> USE DEF Ending, Still, locals, permits
<1>1. CASE ChecksDrain(r)
  BY <1>1, ReportShape DEF ChecksDrain, Continues, SeesDraining, Moving, Waiting, Reporting, reports
<1>2. CASE Acquires(r)
  BY <1>2, ReportShape DEF Acquires, Free, Moving, Waiting, Entering, Reporting, reports
<1>3. CASE LeavesQueue(r)
  BY <1>3, ReportShape DEF LeavesQueue, Reporting
<1>4. CASE ChecksDrainAgain(r)
  BY <1>4, ReportShape DEF ChecksDrainAgain, Continues, Moving, Keeping, Reporting, reports
<1>5. CASE ReadTimesOut(r)
  BY <1>5, ReportShape DEF ReadTimesOut, Reporting
<1>6. CASE SendTimesOut(r)
  BY <1>6, ReportShape DEF SendTimesOut, Reporting
<1>7. CASE BackoffEnds(r)
  <2>1. CASE StartsAttempt(r)
    BY <1>7, <2>1, StartsShape DEF BackoffEnds, Moving
  <2>2. CASE Ends(r) /\ UNCHANGED reports
    BY <1>7, <2>2, ReportShape DEF BackoffEnds, Reporting
  <2>3. CASE /\ pc[r] = "backoff_status" /\ PassesOn(r)
             /\ retrying' = retrying \ {r}
             /\ UNCHANGED <<reports, condemned>>
    BY <1>7, <2>3, ReportShape DEF BackoffEnds, PassesOn, Passing, Moving, Judged
  <2> QED BY <1>7, <2>1, <2>2, <2>3 DEF BackoffEnds
<1>8. CASE FirstTimesOut(r)
  BY <1>8, ReportOnceShape DEF FirstTimesOut
<1>9. CASE StreamTimesOut(r)
  BY <1>9, ReportOnceShape DEF StreamTimesOut
<1>10. CASE StopsForced(r)
  BY <1>10, ReportShape DEF StopsForced, Reporting
<1> QED
  BY <1>1, <1>2, <1>3, <1>4, <1>5, <1>6, <1>7, <1>8, <1>9, <1>10 DEF Proceeds

LEMMA AnsweredShape ==
    ASSUME NEW r \in Requests, Answered(r)
    PROVE Ending(r) \/ Moving(r)
<1> USE DEF Ending, Still, locals, permits
<1>1. CASE Registers(r)
  BY <1>1, ReportShape DEF Registers, RegistrationOpen, Moving, Registering, Reporting, reports
<1>2. CASE Granted(r)
  BY <1>2, ReportShape DEF Granted, Moving, Entering
<1>3. CASE ReadsBody(r)
  BY <1>3, StartsShape, ReportShape DEF ReadsBody, Moving, Reporting
<1>4. CASE SendFails(r)
  <2>1. Reporting(r)
    BY <1>4, ReportShape DEF SendFails, Reporting
  <2> QED BY <1>4, <2>1 DEF SendFails, Reserves, Moving, Retrying
<1>5. CASE Responds(r)
  <2>1. PICK bad \in BOOLEAN :
          /\ IF bad THEN Report(r, FALSE) ELSE UNCHANGED reports
          /\ \/ Ends(r)
             \/ /\ condemned' = [condemned EXCEPT ![r] = bad]
                /\ \/ Reserves(r, "backoff_status")
                   \/ PassesOn(r) /\ (retrying' = retrying \ {r} \/ retrying' = retrying)
    BY <1>5, Zenon DEF Responds
  <2>2. pc[r] = "sending" /\ Still
    BY <1>5 DEF Responds
  <2>3. Reporting(r) /\ (~bad => verdicts' = verdicts)
    BY <2>1, <2>2, ReportShape DEF Reporting
  <2>4. CASE Ends(r)
    BY <2>2, <2>3, <2>4
  <2>5. CASE ~Ends(r)
    <3>1. Judged(r)
      BY <2>1, <2>2, <2>3, <2>5 DEF Judged
    <3>2. CASE Reserves(r, "backoff_status")
      BY <2>2, <3>1, <3>2 DEF Reserves, Moving, Retrying
    <3>3. CASE PassesOn(r) /\ (retrying' = retrying \ {r} \/ retrying' = retrying)
      BY <2>2, <3>1, <3>3 DEF PassesOn, Moving, Passing
    <3> QED BY <2>1, <2>5, <3>2, <3>3
  <2> QED BY <2>4, <2>5
<1>6. CASE FirstFails(r)
  <2>1. Reporting(r)
    BY <1>6, ReportOnceShape DEF FirstFails
  <2> QED BY <1>6, <2>1 DEF FirstFails, Reserves, Moving, Retrying
<1>7. CASE FirstChunk(r)
  BY <1>7, ReportShape DEF FirstChunk, PumpHolds, PumpRegistered, Moving, Keeping
<1>8. CASE Completes(r)
  BY <1>8, ReportOnceShape DEF Completes
<1>9. CASE StreamFails(r)
  BY <1>9, ReportOnceShape DEF StreamFails
<1>10. CASE DurationLimit(r)
  BY <1>10, ReportShape DEF DurationLimit, Reporting
<1>11. CASE ClientGone(r)
  BY <1>11, ReportShape DEF ClientGone, Reporting
<1> QED
  BY <1>1, <1>2, <1>3, <1>4, <1>5, <1>6, <1>7, <1>8, <1>9, <1>10, <1>11 DEF Answered

\* Every step is outside the requests, ends one of them or moves one of them.
LEMMA StepShapes ==
    [Next]_vars => Outside \/ \E r \in Requests : Ending(r) \/ Moving(r)
<1> SUFFICES ASSUME [Next]_vars
             PROVE Outside \/ \E r \in Requests : Ending(r) \/ Moving(r)
  OBVIOUS
<1>1. CASE begin_draining \/ DrainCompletes \/ ForceShutdown
  BY <1>1 DEF begin_draining, DrainCompletes, ForceShutdown, Outside, Draining, permits, locals, reports
<1>2. CASE \E e \in Checked : Probes(e)
  BY <1>2 DEF Probes, Outside, Draining, permits, locals
<1>3. CASE UNCHANGED vars
  BY <1>3 DEF vars, Outside, Draining, permits, locals, reports
<1>4. CASE \E r \in Requests : Proceeds(r) \/ Answered(r)
  BY <1>4, ProceedsShape, AnsweredShape
<1> QED BY <1>1, <1>2, <1>3, <1>4 DEF Next

-----------------------------------------------------------------------------
(* Admission and drain                                                      *)

\* A semaphore's holders with one more or one less.
LEMMA HoldersBound ==
    ASSUME NEW S, IsFiniteSet(S), NEW x, NEW n \in Nat
    PROVE /\ Cardinality(S) < n => Cardinality(S \cup {x}) <= n
          /\ Cardinality(S) <= n => Cardinality(S \ {x}) <= n
          /\ Cardinality(S \ {x}) < n => Cardinality(S \cup {x}) <= n
<1>1. Cardinality(S) \in Nat
  BY FS_CardinalityType
<1>2. Cardinality(S \cup {x}) = IF x \in S THEN Cardinality(S) ELSE Cardinality(S) + 1
  BY FS_AddElement
<1>3. Cardinality(S \ {x}) = IF x \in S THEN Cardinality(S) - 1 ELSE Cardinality(S)
  BY FS_RemoveElement
<1> QED BY <1>1, <1>2, <1>3

LEMMA LoadInit == Init => LoadInv
<1> SUFFICES ASSUME Init PROVE LoadInv
  OBVIOUS
<1>1. inFlight = {r \in Requests : pc[r] \in Holding}
  BY DEF Init, Holding, AtUpstream, Backoffs
<1>2. Cardinality(inFlight) = 0 /\ pool.max_in_flight \in Nat
  BY FS_EmptySet, ProxyAssumption DEF Init
<1> QED BY <1>1, <1>2 DEF Init, LoadInv, PCs

LEMMA LoadStep == LoadInv /\ [Next]_vars => LoadInv'
<1> SUFFICES ASSUME LoadInv, [Next]_vars PROVE LoadInv'
  OBVIOUS
<1>1. /\ IsFiniteSet(inFlight)
      /\ pool.max_in_flight \in Nat
      /\ Cardinality(inFlight) <= pool.max_in_flight
  BY ProxyAssumption, FS_Subset DEF LoadInv
<1> USE DEF LoadInv, Holding, AtUpstream, Backoffs, Draining
<1>2. CASE Outside
  BY <1>2 DEF Outside
<1>3. ASSUME NEW r \in Requests, Ending(r) PROVE LoadInv'
  <2>1. Cardinality(inFlight \ {r}) <= pool.max_in_flight
    BY <1>1, HoldersBound
  <2> QED BY <1>3, <2>1 DEF Ending, Ends, Still, PCs
<1>4. ASSUME NEW r \in Requests, Moving(r) PROVE LoadInv'
  <2> USE DEF Goto, Still, PCs
  <2>1. CASE Registering(r)
    BY <2>1 DEF Registering
  <2>2. CASE Waiting(r)
    BY <2>2 DEF Waiting
  <2>3. CASE Entering(r)
    <3>1. Cardinality(inFlight) < pool.max_in_flight
      BY <2>3 DEF Entering
    <3>2. Cardinality(inFlight \cup {r}) <= pool.max_in_flight
      BY <1>1, <3>1, HoldersBound
    <3> QED BY <2>3, <3>2 DEF Entering
  <2>4. CASE Keeping(r)
    BY <2>4 DEF Keeping
  <2>5. CASE Attempting(r)
    BY <2>5 DEF Attempting
  <2>6. CASE Retrying(r)
    BY <2>6 DEF Retrying
  <2>7. CASE Passing(r)
    BY <2>7 DEF Passing, Judged
  <2> QED BY <1>4, <2>1, <2>2, <2>3, <2>4, <2>5, <2>6, <2>7 DEF Moving
<1> QED BY <1>2, <1>3, <1>4, StepShapes

-----------------------------------------------------------------------------
(* The retry budget                                                         *)

LEMMA BudgetType == pool \in Pools => RetryBudget \in Nat
<1> SUFFICES ASSUME pool \in Pools PROVE RetryBudget \in Nat
  OBVIOUS
<1>1. pool.max_in_flight \in Nat
  BY ProxyAssumption
<1> QED BY <1>1 DEF RetryBudget

LEMMA RetryInit == Init => RetryInv
<1> SUFFICES ASSUME Init PROVE RetryInv
  OBVIOUS
<1>1. Cardinality(retrying) = 0 /\ RetryBudget \in Nat
  BY FS_EmptySet, BudgetType DEF Init
<1> QED BY <1>1 DEF Init, RetryInv, Backoffs

LEMMA RetryStep == LoadInv /\ RetryInv /\ [Next]_vars => RetryInv'
<1> SUFFICES ASSUME LoadInv, RetryInv, [Next]_vars PROVE RetryInv'
  OBVIOUS
<1>1. /\ IsFiniteSet(retrying)
      /\ RetryBudget \in Nat
      /\ Cardinality(retrying) <= RetryBudget
  BY ProxyAssumption, FS_Subset, BudgetType DEF RetryInv, LoadInv
<1>2. pool' = pool => RetryBudget' = RetryBudget
  BY DEF RetryBudget
<1>3. pc \in [Requests -> PCs]
  BY DEF LoadInv
<1>4. ASSUME NEW r \in Requests
      PROVE Cardinality(retrying \ {r}) <= RetryBudget
  BY <1>1, HoldersBound
<1> USE DEF RetryInv, Backoffs, Unsent
<1>5. CASE Outside
  BY <1>2, <1>5 DEF Outside
<1>6. ASSUME NEW r \in Requests, Ending(r) PROVE RetryInv'
  BY <1>2, <1>3, <1>4, <1>6 DEF Ending, Ends, Still
<1>7. ASSUME NEW r \in Requests, Moving(r) PROVE RetryInv'
  <2> USE <1>2, <1>3 DEF Goto, Still
  <2>1. CASE Registering(r)
    BY <2>1 DEF Registering
  <2>2. CASE Waiting(r)
    BY <2>2 DEF Waiting
  <2>3. CASE Entering(r)
    BY <2>3 DEF Entering
  <2>4. CASE Keeping(r)
    BY <2>4 DEF Keeping
  <2>5. CASE Attempting(r)
    BY <2>5 DEF Attempting
  <2>6. CASE Retrying(r)
    <3>1. Cardinality(retrying \ {r}) < RetryBudget
      BY <2>6 DEF Retrying, BudgetLeft
    <3>2. Cardinality(retrying \cup {r}) <= RetryBudget
      BY <1>1, <3>1, HoldersBound
    <3> QED BY <2>6, <3>2 DEF Retrying
  <2>7. CASE Passing(r)
    BY <1>4, <2>7 DEF Passing, Judged
  <2> QED BY <1>7, <2>1, <2>2, <2>3, <2>4, <2>5, <2>6, <2>7 DEF Moving
<1> QED BY <1>5, <1>6, <1>7, StepShapes

-----------------------------------------------------------------------------
(* Passive results                                                          *)

LEMMA VerdictInit == Init => VerdictInv
BY DEF Init, VerdictInv

LEMMA VerdictStep == LoadInv /\ VerdictInv /\ [Next]_vars => VerdictInv'
<1> SUFFICES ASSUME LoadInv, VerdictInv, [Next]_vars PROVE VerdictInv'
  OBVIOUS
<1>1. pc \in [Requests -> PCs]
  BY DEF LoadInv
<1> USE DEF VerdictInv
<1>2. CASE Outside
  BY <1>2 DEF Outside
<1>3. ASSUME NEW r \in Requests, Ending(r) PROVE VerdictInv'
  BY <1>1, <1>3 DEF Ending, Ends, Reporting
<1>4. ASSUME NEW r \in Requests, Moving(r) PROVE VerdictInv'
  <2> USE <1>1 DEF Goto
  <2>1. CASE Registering(r)
    BY <2>1 DEF Registering
  <2>2. CASE Waiting(r)
    BY <2>2 DEF Waiting
  <2>3. CASE Entering(r)
    BY <2>3 DEF Entering
  <2>4. CASE Keeping(r)
    BY <2>4 DEF Keeping
  <2>5. CASE Attempting(r)
    BY <2>5 DEF Attempting
  <2>6. CASE Reporting(r) /\ condemned' = condemned /\ Goto(r, "backoff_error")
    BY <2>6 DEF Reporting
  <2>7. CASE Judged(r) /\ \E to \in {"backoff_status", "streaming", "first"} : Goto(r, to)
    <3>1. PICK to \in {"backoff_status", "streaming", "first"} : pc' = [pc EXCEPT ![r] = to]
      BY <2>7
    <3>2. /\ verdicts' \in [Requests -> Nat] /\ condemned' \in [Requests -> BOOLEAN]
          /\ verdicts'[r] <= 1 /\ (~condemned'[r] => verdicts'[r] = 0)
          /\ \A q \in Requests \ {r} : verdicts'[q] = verdicts[q] /\ condemned'[q] = condemned[q]
      <4>1. CASE pc[r] = "sending" /\ Reporting(r) /\ condemned' = [condemned EXCEPT ![r] = TRUE]
        BY <4>1 DEF Reporting
      <4>2. CASE verdicts' = verdicts
        BY <2>7, <4>2 DEF Judged
      <4> QED BY <2>7, <4>1, <4>2 DEF Judged
    <3>3. \A q \in Requests \ {r} : pc'[q] = pc[q]
      BY <3>1
    <3>4. pc'[r] = to
      BY <3>1
    <3> QED BY <3>2, <3>3, <3>4
  <2>8. Retrying(r) \/ Passing(r) =>
           \/ Reporting(r) /\ condemned' = condemned /\ Goto(r, "backoff_error")
           \/ Judged(r) /\ \E to \in {"backoff_status", "streaming", "first"} : Goto(r, to)
    BY DEF Retrying, Passing
  <2> QED BY <1>4, <2>1, <2>2, <2>3, <2>4, <2>5, <2>6, <2>7, <2>8 DEF Moving
<1> QED BY <1>2, <1>3, <1>4, StepShapes

-----------------------------------------------------------------------------
(* Theorems                                                                 *)

\* Permits, registrations, retry permits and verdicts agree with where the
\* requests are, in every state of forward_to_upstream and of the pump.
THEOREM ProxyInvariant == Spec => []ProxyInv
<1>1. Init => ProxyInv
  BY LoadInit, RetryInit, VerdictInit DEF ProxyInv
<1>2. ProxyInv /\ [Next]_vars => ProxyInv'
  BY LoadStep, RetryStep, VerdictStep DEF ProxyInv
<1> QED BY <1>1, <1>2, PTL DEF Spec

\* However many requests there are and whatever ends them, no more than
\* max_in_flight of them occupy the upstream pool at once.
THEOREM LoadTheorem == Spec => []UpstreamLoadBounded
<1>1. ProxyInv => UpstreamLoadBounded
  <2> SUFFICES ASSUME ProxyInv PROVE UpstreamLoadBounded
    OBVIOUS
  <2> DEFINE busy == {r \in Requests : pc[r] \in AtUpstream \cup Backoffs}
  <2>1. IsFiniteSet(inFlight) /\ busy \in SUBSET inFlight /\ pool.max_in_flight \in Nat
    BY ProxyAssumption, FS_Subset DEF ProxyInv, LoadInv, Holding
  <2>2. /\ Cardinality(busy) <= Cardinality(inFlight)
        /\ Cardinality(busy) \in Nat /\ Cardinality(inFlight) \in Nat
    BY <2>1, FS_Subset, FS_CardinalityType
  <2>3. Cardinality(inFlight) <= pool.max_in_flight
    BY DEF ProxyInv, LoadInv
  <2> HIDE DEF busy
  <2>4. Cardinality(busy) <= pool.max_in_flight
    BY <2>1, <2>2, <2>3
  <2> QED BY <2>4 DEF UpstreamLoadBounded, busy
<1> QED BY ProxyInvariant, <1>1, PTL

\* Retries never occupy more than the pool's retry budget.
THEOREM RetryTheorem == Spec => []RetriesBounded
<1>1. ProxyInv => RetriesBounded
  <2> SUFFICES ASSUME ProxyInv PROVE RetriesBounded
    OBVIOUS
  <2> DEFINE busy == {r \in Requests : \/ pc[r] \in Backoffs
                                       \/ pc[r] = "sending" /\ attempt[r] > 1}
  <2>1. IsFiniteSet(retrying) /\ busy \in SUBSET retrying /\ RetryBudget \in Nat
    BY ProxyAssumption, FS_Subset, BudgetType DEF ProxyInv, LoadInv, RetryInv
  <2>2. /\ Cardinality(busy) <= Cardinality(retrying)
        /\ Cardinality(busy) \in Nat /\ Cardinality(retrying) \in Nat
    BY <2>1, FS_Subset, FS_CardinalityType
  <2>3. Cardinality(retrying) <= RetryBudget
    BY DEF ProxyInv, RetryInv
  <2> HIDE DEF busy
  <2>4. Cardinality(busy) <= RetryBudget
    BY <2>1, <2>2, <2>3
  <2> QED BY <2>4 DEF RetriesBounded, busy
<1> QED BY ProxyInvariant, <1>1, PTL

\* A request that arrives during the drain never reaches an upstream, and a
\* drain that completes leaves no request behind.
THEOREM DrainTheorem == Spec => []DrainIsClean
<1>1. ProxyInv => DrainIsClean
  BY DEF ProxyInv, LoadInv, DrainIsClean, AtUpstream, Backoffs
<1> QED BY ProxyInvariant, <1>1, PTL

\* No attempt counts twice towards the passive health of its endpoint.
THEOREM VerdictTheorem == Spec => []OneVerdict
<1>1. ProxyInv => OneVerdict
  BY DEF ProxyInv, VerdictInv, OneVerdict
<1> QED BY ProxyInvariant, <1>1, PTL

-----------------------------------------------------------------------------
(* The proxy implements UpstreamHealth                                      *)

\* What a request reports is an observation of an endpoint with a health check.
LEMMA ReportIsObservation ==
    ASSUME NEW r, NEW ok \in BOOLEAN,
           Report(r, ok) \/ ReportOnce(r, ok) \/ UNCHANGED reports
    PROVE [HealthNext]_health
BY DEF Report, ReportOnce, reports, HealthNext

LEMMA HealthStep == [Next]_vars => [HealthNext]_health
<1> SUFFICES ASSUME [Next]_vars PROVE [HealthNext]_health
  OBVIOUS
<1>1. CASE \/ begin_draining \/ DrainCompletes \/ ForceShutdown \/ UNCHANGED vars
  BY <1>1 DEF begin_draining, DrainCompletes, ForceShutdown, vars, reports
<1>2. CASE \E e \in Checked : Probes(e)
  BY <1>2 DEF Probes, HealthNext
<1>3. ASSUME NEW r \in Requests, Proceeds(r) PROVE [HealthNext]_health
  <2>1. CASE StartsAttempt(r)
    BY <2>1 DEF StartsAttempt, reports
  <2>2. CASE \/ UNCHANGED reports
             \/ \E ok \in BOOLEAN : Report(r, ok) \/ ReportOnce(r, ok)
    BY <2>2, ReportIsObservation
  <2> QED
    BY <1>3, <2>1, <2>2, Zenon DEF Proceeds, ChecksDrain, Acquires, LeavesQueue, ChecksDrainAgain,
       Continues, ReadTimesOut, SendTimesOut, BackoffEnds, FirstTimesOut, StreamTimesOut, StopsForced
<1>4. ASSUME NEW r \in Requests, Answered(r) PROVE [HealthNext]_health
  <2>1. CASE StartsAttempt(r)
    BY <2>1 DEF StartsAttempt, reports
  <2>2. CASE \/ UNCHANGED reports
             \/ \E ok \in BOOLEAN : Report(r, ok) \/ ReportOnce(r, ok)
    BY <2>2, ReportIsObservation
  <2> QED
    BY <1>4, <2>1, <2>2, Zenon DEF Answered, Registers, Granted, ReadsBody, SendFails, Responds,
       FirstFails, FirstChunk, Completes, StreamFails, DurationLimit, ClientGone
<1> QED BY <1>1, <1>2, <1>3, <1>4 DEF Next

\* Requests, retries and the drain use the health of endpoints as UpstreamHealth
\* allows: the state changes by observations alone.
THEOREM ImplementsHealth == Spec => HealthSpec
<1>1. Init => HealthInit
  BY DEF Init
<1> QED BY <1>1, HealthStep, PTL DEF Spec, HealthSpec

\* Hence every transition in the running proxy is justified.
THEOREM ProxyTransitions == Spec => []TransitionsJustified
BY ImplementsHealth, TransitionsCorrect, PTL

-----------------------------------------------------------------------------
(***************************************************************************)
(* CircuitBreaker: probe slots, cool-downs and what opens the circuit.     *)
(*                                                                         *)
(* A generation number tells the permits of the current state from late    *)
(* ones; most of the invariant says what a current permit may rely on.     *)
(***************************************************************************)

Carried(a) == permit[a].pc \in {"holding", "failing"}

\* No permit is of a generation the breaker has not reached, and none is of
\* the generation of an open state: opening always starts a new generation.
GenerationsReached ==
    \A a \in Attempts : Carried(a) =>
        /\ permit[a].gen <= generation
        /\ mode = "Open" => permit[a].gen < generation

\* A clock reading is never ahead of the clock.
ReadingsPast == \A a \in Attempts : permit[a].now <= clock

\* Once the circuit has left the open state, its cool-down is over, and so it
\* was when the failure now being recorded by a current permit was timed.
CooldownOver ==
    /\ mode # "Open" => clock >= until
    /\ \A a \in Attempts :
         permit[a].pc = "failing" /\ permit[a].gen = generation =>
            permit[a].now >= until

SlotsBounded == mode = "HalfOpen" => in_flight <= HalfOpenMax

CircuitInv ==
    /\ CircuitTypeOK
    /\ GenerationsReached
    /\ ReadingsPast
    /\ CooldownOver
    /\ SlotsBounded
    /\ ProbeAccounting

-----------------------------------------------------------------------------
(* Lemmas                                                                   *)

\* The history keeps clock readings only (Counted appends one and trims).
LEMMA CountedType ==
    ASSUME NEW s \in Seq(Nat), streak = s, NEW now \in Nat,
           FailureThreshold \in Nat \ {0}
    PROVE  Counted(now) \in Seq(Nat)
<1> DEFINE t == Append(streak, now)
<1>1. t \in Seq(Nat) /\ Len(t) \in Nat
  OBVIOUS
<1>2. CASE Len(t) <= FailureThreshold
  BY <1>1, <1>2 DEF Counted
<1>3. CASE ~(Len(t) <= FailureThreshold)
  <2>1. Len(t) - FailureThreshold + 1 \in 1..Len(t) + 1 /\ Len(t) \in Len(t) - FailureThreshold..Len(t)
    BY <1>1, <1>3, SMT
  <2>2. SubSeq(t, Len(t) - FailureThreshold + 1, Len(t)) \in Seq(Nat)
    BY <1>1, <2>1, SubSeqProperties
  <2> QED
    BY <1>3, <2>2 DEF Counted, LatestFailures
<1> QED
  BY <1>2, <1>3

\* The outstanding probes form a finite set, so they can be counted.
LEMMA OutstandingFinite ==
    IsFiniteSet(Outstanding) /\ Cardinality(Outstanding) \in Nat
<1>1. IsFiniteSet(Outstanding)
  BY CircuitAssumption, FS_Subset DEF Outstanding
<1> QED
  BY <1>1, FS_CardinalityType


\* What an attempt becomes when it ends or is granted a permit is well typed.
LEMMA AttemptTypes ==
    /\ Idle \in AttemptState
    /\ \A g \in Nat, k \in Kinds : Carrying(g, k) \in AttemptState
BY CircuitAssumption DEF Idle, Carrying, AttemptState, PermitPCs, Kinds

-----------------------------------------------------------------------------
(* Type correctness                                                         *)

LEMMA CircuitTypeInit == CircuitInit => CircuitTypeOK
BY CircuitAssumption, AttemptTypes DEF CircuitInit, CircuitTypeOK, PermitPCs, Kinds, Modes, None

\* Every step of the breaker and of the attempts keeps every value in its type.
LEMMA CircuitTypeStep == CircuitTypeOK /\ [CircuitNext]_circuitVars => CircuitTypeOK'
<1> SUFFICES ASSUME CircuitTypeOK, [CircuitNext]_circuitVars PROVE CircuitTypeOK'
  OBVIOUS
<1> USE CircuitAssumption DEF CircuitTypeOK, PermitPCs, Kinds, Modes
<1>1. CASE Tick
  BY <1>1 DEF Tick, breaker
<1>2. ASSUME NEW a \in Attempts, AcquireReadsClock(a) PROVE CircuitTypeOK'
  BY <1>2 DEF AcquireReadsClock, ReadClock, AttemptState, breaker
<1>3. ASSUME NEW a \in Attempts, TryAcquire(a) PROVE CircuitTypeOK'
  <2>1. permit' \in [Attempts -> AttemptState]
    BY <1>3, AttemptTypes DEF TryAcquire, Grant, Finish
  <2>2. /\ mode' \in Modes /\ generation' \in Nat /\ in_flight' \in Nat /\ successes' \in Nat
        /\ UNCHANGED <<clock, failures, window, until, streak>>
    BY <1>3 DEF TryAcquire, BecomeHalfOpen, breaker
  <2> QED
    BY <2>1, <2>2
<1>4. ASSUME NEW a \in Attempts, RecordSuccess(a) PROVE CircuitTypeOK'
  <2>1. permit' \in [Attempts -> AttemptState]
    BY <1>4, AttemptTypes DEF RecordSuccess, Finish
  <2>2. /\ mode' \in Modes /\ generation' \in Nat /\ in_flight' \in Nat /\ successes' \in Nat
        /\ failures' \in Nat /\ window' \in Nat \cup {None} /\ UNCHANGED <<clock, until>>
    BY <1>4 DEF RecordSuccess, BecomeHalfOpen, BecomeClosed, MinusOne, breaker
  <2>3. streak' \in Seq(Nat)
    BY <1>4, EmptySeq DEF RecordSuccess, BecomeHalfOpen, BecomeClosed, breaker
  <2> QED
    BY <2>1, <2>2, <2>3
<1>5. ASSUME NEW a \in Attempts, FailureReadsClock(a) PROVE CircuitTypeOK'
  BY <1>5 DEF FailureReadsClock, ReadClock, AttemptState, breaker
<1>6. ASSUME NEW a \in Attempts, RecordFailure(a) PROVE CircuitTypeOK'
  <2>1. permit[a].now \in Nat /\ FailuresAfter(permit[a].now) \in Nat
    BY <1>6 DEF FailuresAfter, WindowExpired, None, AttemptState
  <2>2. Counted(permit[a].now) \in Seq(Nat)
    BY <2>1, CountedType
  <2>3. streak' \in Seq(Nat)
    BY <1>6, <2>2, EmptySeq DEF RecordFailure, breaker
  <2>4. permit' \in [Attempts -> AttemptState]
    BY <1>6, AttemptTypes DEF RecordFailure, Finish
  <2>5. /\ mode' \in Modes /\ generation' \in Nat /\ failures' \in Nat
        /\ window' \in Nat \cup {None} /\ until' \in Nat
        /\ in_flight' \in Nat /\ successes' \in Nat /\ clock' = clock
    <3>1. CASE BecomeOpen(generation + 1, permit[a].now) /\ UNCHANGED clock
      BY <2>1, <3>1 DEF BecomeOpen
    <3>2. CASE /\ failures' = FailuresAfter(permit[a].now)
               /\ window' \in {window, permit[a].now}
               /\ UNCHANGED <<clock, mode, generation, until, in_flight, successes>>
      BY <2>1, <3>2
    <3>3. CASE UNCHANGED <<clock, breaker>>
      BY <3>3 DEF breaker
    <3> QED
      BY <1>6, <3>1, <3>2, <3>3 DEF RecordFailure
  <2> QED
    BY <2>3, <2>4, <2>5
<1>7. ASSUME NEW a \in Attempts, Cancel(a) PROVE CircuitTypeOK'
  BY <1>7, AttemptTypes DEF Cancel, Finish, BecomeHalfOpen, MinusOne, breaker
<1>8. CASE UNCHANGED circuitVars
  BY <1>8 DEF circuitVars, breaker
<1> QED
  BY <1>1, <1>2, <1>3, <1>4, <1>5, <1>6, <1>7, <1>8 DEF CircuitNext

\* The breaker's fields and the permits keep their types.
THEOREM CircuitTypeCorrect == CircuitSpec => []CircuitTypeOK
BY CircuitTypeInit, CircuitTypeStep, PTL DEF CircuitSpec

-----------------------------------------------------------------------------
(* The inductive invariant                                                  *)

LEMMA CircuitInvInit == CircuitInit => CircuitInv
<1> SUFFICES ASSUME CircuitInit PROVE CircuitInv
  OBVIOUS
<1>1. CircuitTypeOK
  BY CircuitTypeInit
<1>2. GenerationsReached /\ ReadingsPast /\ CooldownOver
  BY DEF CircuitInit, Idle, GenerationsReached, Carried, ReadingsPast, CooldownOver
<1>3. SlotsBounded /\ ProbeAccounting
  BY DEF CircuitInit, SlotsBounded, ProbeAccounting
<1> QED
  BY <1>1, <1>2, <1>3 DEF CircuitInv

\* Permits stay behind the generation, readings behind the clock, and a
\* current permit times its failure after the cool-down: all but the counting.
LEMMA OrderStep ==
    CircuitInv /\ [CircuitNext]_circuitVars => GenerationsReached' /\ ReadingsPast' /\ CooldownOver' /\ SlotsBounded'
<1> SUFFICES ASSUME CircuitInv, [CircuitNext]_circuitVars
             PROVE  GenerationsReached' /\ ReadingsPast' /\ CooldownOver' /\ SlotsBounded'
  OBVIOUS
<1> USE CircuitAssumption
        DEF CircuitInv, CircuitTypeOK, AttemptState, PermitPCs, Kinds, Modes, GenerationsReached, Carried,
            ReadingsPast, CooldownOver, SlotsBounded
<1>1. CASE Tick
  BY <1>1 DEF Tick, breaker
<1>2. ASSUME NEW a \in Attempts, AcquireReadsClock(a)
      PROVE  GenerationsReached' /\ ReadingsPast' /\ CooldownOver' /\ SlotsBounded'
  <2>1. /\ permit'[a].pc = "acquiring" /\ permit'[a].now = clock
        /\ permit'[a].gen = permit[a].gen
        /\ \A b \in Attempts \ {a} : permit'[b] = permit[b]
        /\ UNCHANGED <<clock, mode, generation, until, in_flight>>
    BY <1>2 DEF AcquireReadsClock, ReadClock, breaker
  <2>2. permit[a].pc = "idle"
    BY <1>2 DEF AcquireReadsClock
  <2>3. GenerationsReached' /\ SlotsBounded'
    BY <2>1, <2>2
  <2>4. ReadingsPast'
    BY <2>1, <2>2
  <2>5. CooldownOver'
    BY <2>1, <2>2
  <2> QED
    BY <2>3, <2>4, <2>5
<1>3. ASSUME NEW a \in Attempts, TryAcquire(a)
      PROVE  GenerationsReached' /\ ReadingsPast' /\ CooldownOver' /\ SlotsBounded'
  <2>1. CASE Finish(a) /\ UNCHANGED <<clock, breaker>>
    BY <2>1 DEF Finish, Idle, breaker
  <2>2. CASE mode = "Closed" /\ Grant(a, generation, "Closed") /\ UNCHANGED <<clock, breaker>>
    BY <2>2 DEF Grant, Carrying, breaker
  <2>3. CASE /\ mode = "Open" /\ permit[a].now >= until
             /\ BecomeHalfOpen(generation + 1, 1, 0)
             /\ Grant(a, generation + 1, "HalfOpen") /\ UNCHANGED clock
    <3>1. clock >= until
      BY <2>3
    <3> QED
      BY <2>3, <3>1 DEF Grant, Carrying, BecomeHalfOpen
  <2>4. CASE /\ mode = "HalfOpen" /\ in_flight < HalfOpenMax
             /\ BecomeHalfOpen(generation, in_flight + 1, successes)
             /\ Grant(a, generation, "HalfOpen") /\ UNCHANGED clock
    BY <2>4 DEF Grant, Carrying, BecomeHalfOpen
  <2> QED
    BY <1>3, <2>1, <2>2, <2>3, <2>4 DEF TryAcquire, breaker
<1>4. ASSUME NEW a \in Attempts, RecordSuccess(a)
      PROVE  GenerationsReached' /\ ReadingsPast' /\ CooldownOver' /\ SlotsBounded'
  <2>1. CASE Finish(a) /\ UNCHANGED <<clock, mode, generation, until, in_flight>>
    BY <2>1 DEF Finish, Idle
  <2>2. CASE Finish(a) /\ (BecomeClosed(generation) \/ BecomeClosed(generation + 1)) /\ mode # "Open" /\ UNCHANGED clock
    BY <2>2 DEF Finish, Idle, BecomeClosed
  <2>3. CASE /\ Finish(a) /\ mode = "HalfOpen" /\ UNCHANGED clock
             /\ BecomeHalfOpen(generation, MinusOne(in_flight), successes + 1)
    BY <2>3 DEF Finish, Idle, BecomeHalfOpen, MinusOne
  <2> QED
    BY <1>4, <2>1, <2>2, <2>3 DEF RecordSuccess, breaker
<1>5. ASSUME NEW a \in Attempts, FailureReadsClock(a)
      PROVE  GenerationsReached' /\ ReadingsPast' /\ CooldownOver' /\ SlotsBounded'
  <2>1. /\ permit'[a].pc = "failing" /\ permit'[a].now = clock
        /\ permit'[a].gen = permit[a].gen
        /\ \A b \in Attempts \ {a} : permit'[b] = permit[b]
        /\ UNCHANGED <<clock, mode, generation, until, in_flight>>
    BY <1>5 DEF FailureReadsClock, ReadClock, breaker
  <2>2. permit[a].pc = "holding"
    BY <1>5 DEF FailureReadsClock
  <2>3. GenerationsReached' /\ SlotsBounded'
    BY <2>1, <2>2
  <2>4. ReadingsPast'
    BY <2>1, <2>2
  <2>5. CooldownOver'
    BY <2>1, <2>2
  <2> QED
    BY <2>3, <2>4, <2>5
<1>6. ASSUME NEW a \in Attempts, RecordFailure(a)
      PROVE  GenerationsReached' /\ ReadingsPast' /\ CooldownOver' /\ SlotsBounded'
  <2>1. CASE BecomeOpen(generation + 1, permit[a].now) /\ Finish(a) /\ UNCHANGED clock
    BY <2>1 DEF BecomeOpen, Finish, Idle
  <2>2. CASE Finish(a) /\ UNCHANGED <<clock, mode, generation, until, in_flight>>
    BY <2>2 DEF Finish, Idle
  <2> QED
    BY <1>6, <2>1, <2>2 DEF RecordFailure, breaker
<1>7. ASSUME NEW a \in Attempts, Cancel(a)
      PROVE  GenerationsReached' /\ ReadingsPast' /\ CooldownOver' /\ SlotsBounded'
  <2>1. CASE Finish(a) /\ UNCHANGED <<clock, mode, generation, until, in_flight>>
    BY <2>1 DEF Finish, Idle
  <2>2. CASE /\ Finish(a) /\ mode = "HalfOpen" /\ UNCHANGED clock
             /\ BecomeHalfOpen(generation, MinusOne(in_flight), successes)
    BY <2>2 DEF Finish, Idle, BecomeHalfOpen, MinusOne
  <2> QED
    BY <1>7, <2>1, <2>2 DEF Cancel, breaker
<1>8. CASE UNCHANGED circuitVars
  BY <1>8 DEF circuitVars, breaker
<1> QED
  BY <1>1, <1>2, <1>3, <1>4, <1>5, <1>6, <1>7, <1>8 DEF CircuitNext

\* Ending an attempt takes it, and nothing else, out of the outstanding probes.
LEMMA FinishOutstanding ==
    ASSUME CircuitTypeOK, NEW a \in Attempts, Finish(a), generation' = generation
    PROVE  Outstanding' = Outstanding \ {a}
BY DEF CircuitTypeOK, AttemptState, Finish, Idle, Outstanding

\* Granting a half-open permit of the current generation adds one probe.
LEMMA GrantOutstanding ==
    ASSUME CircuitTypeOK, NEW a \in Attempts, Grant(a, generation, "HalfOpen"),
           generation' = generation
    PROVE  Outstanding' = Outstanding \cup {a}
BY DEF CircuitTypeOK, AttemptState, Grant, Carrying, Outstanding

\* The counter follows the set of outstanding probes through every step.
LEMMA AccountingStep == CircuitInv /\ [CircuitNext]_circuitVars => ProbeAccounting'
<1> SUFFICES ASSUME CircuitInv, [CircuitNext]_circuitVars, mode' = "HalfOpen"
             PROVE  in_flight' = Cardinality(Outstanding')
  BY DEF ProbeAccounting
<1> USE CircuitAssumption DEF CircuitInv
<1>0. IsFiniteSet(Outstanding) /\ Cardinality(Outstanding) \in Nat
  BY OutstandingFinite
<1>00. CircuitTypeOK /\ in_flight \in Nat /\ generation \in Nat
  BY DEF CircuitTypeOK
<1>1. CASE Tick \/ UNCHANGED circuitVars
  BY <1>1 DEF Tick, circuitVars, breaker, ProbeAccounting, Outstanding
<1>2. ASSUME NEW a \in Attempts, AcquireReadsClock(a) \/ FailureReadsClock(a)
      PROVE  in_flight' = Cardinality(Outstanding')
  <2>1. UNCHANGED breaker /\ mode = "HalfOpen" /\ in_flight' = in_flight
    BY <1>2 DEF AcquireReadsClock, FailureReadsClock, breaker
  <2>2. Outstanding' = Outstanding
    <3>1. CASE AcquireReadsClock(a)
      BY <3>1, <1>00, <2>1 DEF AcquireReadsClock, ReadClock, breaker, Outstanding, CircuitTypeOK, AttemptState
    <3>2. CASE FailureReadsClock(a)
      BY <3>2, <1>00, <2>1 DEF FailureReadsClock, ReadClock, breaker, Outstanding, CircuitTypeOK, AttemptState
    <3> QED
      BY <1>2, <3>1, <3>2
  <2> QED
    BY <2>1, <2>2 DEF ProbeAccounting
<1>3. ASSUME NEW a \in Attempts, TryAcquire(a)
      PROVE  in_flight' = Cardinality(Outstanding')
  <2>1. CASE mode = "Open"
    <3>1. /\ Grant(a, generation + 1, "HalfOpen")
          /\ BecomeHalfOpen(generation + 1, 1, 0)
      BY <1>3, <2>1 DEF TryAcquire, breaker
    <3>2. Outstanding' = {a}
      BY <1>00, <3>1 DEF Grant, Carrying, BecomeHalfOpen, Outstanding, GenerationsReached,
                         Carried, CircuitTypeOK, AttemptState
    <3> QED
      BY <3>1, <3>2, FS_Singleton DEF BecomeHalfOpen
  <2>2. CASE mode = "HalfOpen" /\ in_flight < HalfOpenMax
    <3>1. /\ Grant(a, generation, "HalfOpen")
          /\ BecomeHalfOpen(generation, in_flight + 1, successes)
      BY <1>3, <2>2, <1>00 DEF TryAcquire
    <3>2. Outstanding' = Outstanding \cup {a}
      BY <1>00, <3>1, GrantOutstanding DEF BecomeHalfOpen
    <3>3. a \notin Outstanding
      BY <1>3 DEF TryAcquire, Outstanding
    <3> QED
      BY <1>0, <2>2, <3>1, <3>2, <3>3, FS_AddElement DEF BecomeHalfOpen, ProbeAccounting
  <2>3. CASE mode = "HalfOpen" /\ in_flight >= HalfOpenMax
    <3>1. Finish(a) /\ UNCHANGED breaker
      BY <1>3, <2>3, <1>00 DEF TryAcquire
    <3>2. Outstanding' = Outstanding \ {a} /\ a \notin Outstanding
      BY <1>3, <1>00, <3>1, FinishOutstanding DEF breaker, TryAcquire, Outstanding
    <3>3. Outstanding' = Outstanding
      BY <3>2
    <3> QED
      BY <3>1, <3>3, <2>3 DEF breaker, ProbeAccounting
  <2>4. mode # "Closed"
    BY <1>3 DEF TryAcquire, breaker
  <2> QED
    BY <2>1, <2>2, <2>3, <2>4, <1>00 DEF CircuitTypeOK, Modes
<1>4. ASSUME NEW a \in Attempts, RecordSuccess(a) \/ RecordFailure(a) \/ Cancel(a)
      PROVE  in_flight' = Cardinality(Outstanding')
  <2>1. Finish(a) /\ Carried(a)
    BY <1>4 DEF RecordSuccess, RecordFailure, Cancel, Carried
  <2>2. /\ mode = "HalfOpen"
        /\ generation' = generation
        /\ in_flight' = IF Current(a) THEN MinusOne(in_flight) ELSE in_flight
    BY <1>4 DEF RecordSuccess, RecordFailure, Cancel, BecomeClosed, BecomeOpen,
                BecomeHalfOpen, breaker
  <2>3. Outstanding' = Outstanding \ {a}
    BY <1>00, <2>1, <2>2, FinishOutstanding
  <2>4. Current(a) <=> a \in Outstanding
    BY <2>1, <2>2 DEF Current, Carried, Outstanding
  <2>5. CASE Current(a)
    <3>1. Cardinality(Outstanding \ {a}) = Cardinality(Outstanding) - 1
      BY <1>0, <2>4, <2>5, FS_RemoveElement
    <3>2. Cardinality(Outstanding \ {a}) \in Nat
      BY <1>0, FS_RemoveElement, FS_CardinalityType
    <3> QED
      BY <1>0, <2>2, <2>3, <2>5, <3>1, <3>2 DEF MinusOne, ProbeAccounting
  <2>6. CASE ~Current(a)
    <3>1. Outstanding' = Outstanding
      BY <2>3, <2>4, <2>6
    <3> QED
      BY <2>2, <2>6, <3>1 DEF ProbeAccounting
  <2> QED
    BY <2>5, <2>6
<1> QED
  BY <1>1, <1>2, <1>3, <1>4 DEF CircuitNext

LEMMA CircuitInvStep == CircuitInv /\ [CircuitNext]_circuitVars => CircuitInv'
BY CircuitTypeStep, OrderStep, AccountingStep DEF CircuitInv

LEMMA CircuitInvariance == CircuitSpec => []CircuitInv
BY CircuitInvInit, CircuitInvStep, PTL DEF CircuitSpec

-----------------------------------------------------------------------------
(* What the invariant gives                                                 *)

\* in_flight is exactly the number of probes outstanding, whatever mixture of
\* verdicts, drops and late permits the attempts produce.
THEOREM AccountingCorrect == CircuitSpec => []ProbeAccounting
<1>1. CircuitInv => ProbeAccounting
  BY DEF CircuitInv
<1> QED
  BY <1>1, CircuitInvariance, PTL

\* No more than half_open_max_requests recovery probes run at the same time.
ProbeBound ==
    mode = "HalfOpen" => Cardinality(Outstanding) <= HalfOpenMax

\* half_open_max_requests is never exceeded.
THEOREM BoundCorrect == CircuitSpec => []ProbeBound
<1>1. CircuitInv => ProbeBound
  BY DEF CircuitInv, ProbeAccounting, SlotsBounded, ProbeBound
<1> QED
  BY <1>1, CircuitInvariance, PTL

\* Every opening lasts beyond the previous one by at least open_ms, although
\* the clock is read before the mutex is taken.
THEOREM CooldownCorrect == CircuitSpec => CooldownAdvances
<1>1. CircuitInv /\ [CircuitNext]_circuitVars => [mode # "Open" /\ mode' = "Open" => until' >= until + OpenTicks]_circuitVars
  <2> SUFFICES ASSUME CircuitInv, CircuitNext, mode # "Open", mode' = "Open"
               PROVE  until' >= until + OpenTicks
    OBVIOUS
  <2> USE CircuitAssumption DEF CircuitInv, CircuitTypeOK, AttemptState, CooldownOver
  <2>1. PICK a \in Attempts : RecordFailure(a)
    BY DEF CircuitNext, Tick, AcquireReadsClock, TryAcquire, RecordSuccess, FailureReadsClock, Cancel,
           BecomeClosed, BecomeHalfOpen, breaker
  <2>2. Current(a) /\ permit[a].pc = "failing" /\ until' = permit[a].now + OpenTicks
    BY <2>1 DEF RecordFailure, BecomeOpen, breaker
  <2> QED
    BY <2>2 DEF Current
<1> QED
  BY <1>1, CircuitInvariance, PTL DEF CircuitSpec, CooldownAdvances

-----------------------------------------------------------------------------
(* What opens a closed circuit                                              *)

\* While the circuit is closed, the failures it counts are the latest ones of
\* the history, and the first of them is the one that started the window.
WindowFollowed ==
    mode = "Closed" =>
        /\ failures < FailureThreshold
        /\ failures <= Len(streak) /\ Len(streak) <= FailureThreshold
        /\ failures = 0 => window = None /\ streak = <<>>
        /\ failures > 0 => streak[Len(streak) - failures + 1] = window

TripInv == CircuitTypeOK /\ WindowFollowed /\ TripJustified

\* Counting a failure appends its reading; seen from the end, the readings
\* before it stay where they were, one further back, as far as they are kept.
LEMMA CountedReadings ==
    ASSUME streak \in Seq(Nat), NEW now \in Nat, Len(streak) <= FailureThreshold
    PROVE  LET t == Counted(now) IN
           /\ Len(t) = IF Len(streak) < FailureThreshold THEN Len(streak) + 1
                       ELSE FailureThreshold
           /\ t[Len(t)] = now
           /\ \A k \in 2..Len(t) : t[Len(t) - k + 1] = streak[Len(streak) - k + 2]
<1> DEFINE s == Append(streak, now)
           n == Len(streak)
<1> USE CircuitAssumption
<1>1. /\ s \in Seq(Nat) /\ n \in Nat /\ Len(s) = n + 1 /\ s[n + 1] = now
      /\ \A i \in 1..n : s[i] = streak[i]
  BY AppendProperties
<1> HIDE DEF s, n
<1>2. CASE n < FailureThreshold
  <2>1. Counted(now) = s
    BY <1>1, <1>2 DEF Counted, s, n
  <2>2. \A k \in 2..(n + 1) : (n + 1) - k + 1 \in 1..n /\ (n + 1) - k + 1 = n - k + 2
    BY <1>1
  <2> QED
    BY <1>1, <1>2, <2>1, <2>2 DEF n
<1>3. CASE n = FailureThreshold
  <2>1. Counted(now) = SubSeq(s, 2, n + 1)
    BY <1>1, <1>3 DEF Counted, LatestFailures, s, n
  <2>2. /\ Len(SubSeq(s, 2, n + 1)) = n
        /\ \A i \in 1..n : SubSeq(s, 2, n + 1)[i] = s[i + 1]
    <3>1. 2 \in 1..(Len(s) + 1) /\ n + 1 \in 1..Len(s) /\ n + 1 - 2 + 1 = n
      BY <1>1, <1>3
    <3>2. \A i \in 1..n : 2 + i - 1 = i + 1
      BY <1>1
    <3> QED
      BY <1>1, <1>3, <3>1, <3>2
  <2>3. \A k \in 2..n : n - k + 1 \in 1..n /\ n - k + 2 \in 1..n
    BY <1>1
  <2>4. n \in 1..n
    BY <1>1, <1>3
  <2> QED
    BY <1>1, <1>3, <2>1, <2>2, <2>3, <2>4 DEF n
<1> QED
  BY <1>1, <1>2, <1>3 DEF n

\* A failure counted by a closed circuit, whether it opens it or not.
LEMMA CountingTrips ==
    ASSUME TripInv, NEW a \in Attempts, RecordFailure(a), Current(a), mode = "Closed"
    PROVE  WindowFollowed' /\ TripJustified'
<1> DEFINE now == permit[a].now
           t == Counted(now)
<1> USE CircuitAssumption
<1>1. /\ now \in Nat /\ failures \in Nat /\ window \in Nat \cup {None}
      /\ streak \in Seq(Nat) /\ Len(streak) \in Nat /\ WindowFollowed
  BY DEF TripInv, CircuitTypeOK, AttemptState
<1>2. /\ Len(t) = IF Len(streak) < FailureThreshold THEN Len(streak) + 1
                  ELSE FailureThreshold
      /\ t[Len(t)] = now
      /\ \A k \in 2..Len(t) : t[Len(t) - k + 1] = streak[Len(streak) - k + 2]
  BY <1>1, CountedReadings DEF WindowFollowed
<1>3. streak' = t
  BY DEF RecordFailure
<1> HIDE DEF now, t
<1>4. CASE FailuresAfter(now) >= FailureThreshold
  <2>1. mode' = "Open"
    BY <1>1, <1>4 DEF RecordFailure, BecomeOpen, FailuresAfter, now
  <2>2. Len(t) = FailureThreshold
    BY <1>1, <1>2, <1>4 DEF FailuresAfter, WindowFollowed
  <2>3. t[Len(t)] - t[1] < FailureWindow
    <3>1. CASE FailureThreshold = 1
      BY <1>1, <1>2, <2>2, <3>1
    <3>2. CASE FailureThreshold # 1
      <4>1. failures = FailureThreshold - 1 /\ ~WindowExpired(now) /\ failures > 0
        BY <1>1, <1>4, <3>2 DEF FailuresAfter, WindowFollowed
      <4>2. t[1] = streak[Len(streak) - failures + 1]
        <5>1. FailureThreshold \in 2..Len(t)
          BY <2>2, <3>2
        <5>2. t[Len(t) - FailureThreshold + 1] = streak[Len(streak) - FailureThreshold + 2]
          BY <1>2, <5>1
        <5>3. /\ Len(t) - FailureThreshold + 1 = 1
              /\ Len(streak) - FailureThreshold + 2 = Len(streak) - failures + 1
          BY <1>1, <2>2, <4>1
        <5> QED
          BY <5>2, <5>3
      <4>3. t[1] = window /\ window \in Nat
        <5>1. t[1] = window
          BY <1>1, <4>1, <4>2 DEF WindowFollowed
        <5>2. Len(streak) - failures + 1 \in 1..Len(streak)
          BY <1>1, <4>1 DEF WindowFollowed
        <5>3. streak[Len(streak) - failures + 1] \in Nat
          BY <1>1, <5>2, ElementOfSeq
        <5> QED
          BY <4>2, <5>1, <5>3
      <4> QED
        BY <1>1, <1>2, <4>1, <4>3 DEF WindowExpired, None
    <3> QED
      BY <3>1, <3>2
  <2> QED
    BY <1>3, <2>1, <2>2, <2>3 DEF WindowFollowed, TripJustified
<1>5. CASE ~(FailuresAfter(now) >= FailureThreshold)
  <2>1. FailuresAfter(now) \in Nat /\ FailuresAfter(now) < FailureThreshold
    BY <1>1, <1>5 DEF FailuresAfter
  <2>2. /\ mode' = "Closed" /\ failures' = FailuresAfter(now)
        /\ window' = IF failures = 0 \/ WindowExpired(now) THEN now ELSE window
    BY <2>1 DEF RecordFailure, now
  <2>3. failures' > 0 /\ failures' <= Len(t) /\ Len(t) <= FailureThreshold
    <3>1. /\ failures < FailureThreshold
          /\ failures <= Len(streak) /\ Len(streak) <= FailureThreshold
      BY <1>1 DEF WindowFollowed
    <3>2. failures' = 1 \/ failures' = failures + 1
      BY <2>2 DEF FailuresAfter
    <3>3. Len(t) = IF Len(streak) < FailureThreshold THEN Len(streak) + 1 ELSE FailureThreshold
      BY <1>2
    <3>4. failures' < FailureThreshold
      BY <2>1, <2>2
    <3> QED
      BY <1>1, <3>1, <3>2, <3>3, <3>4
  <2>4. t[Len(t) - failures' + 1] = window'
    <3>1. CASE failures = 0 \/ WindowExpired(now)
      <4>1. failures' = 1
        BY <1>1, <2>2, <3>1 DEF FailuresAfter, WindowExpired, WindowFollowed
      <4> QED
        BY <1>1, <1>2, <2>2, <3>1, <4>1
    <3>2. CASE ~(failures = 0 \/ WindowExpired(now))
      <4>1. failures' = failures + 1 /\ failures' \in 2..Len(t)
        BY <1>1, <1>2, <2>2, <2>3, <3>2 DEF FailuresAfter
      <4>2. t[Len(t) - failures' + 1] = streak[Len(streak) - failures' + 2]
        BY <1>2, <4>1
      <4>3. Len(streak) - failures' + 2 = Len(streak) - failures + 1
        BY <1>1, <4>1
      <4> QED
        BY <1>1, <2>2, <3>2, <4>2, <4>3 DEF WindowFollowed
    <3> QED
      BY <3>1, <3>2
  <2> QED
    BY <1>3, <2>1, <2>2, <2>3, <2>4 DEF WindowFollowed, TripJustified
<1> QED
  BY <1>4, <1>5

\* Every other step keeps the count and its readings, or starts both afresh.
LEMMA TripStep == TripInv /\ [CircuitNext]_circuitVars => TripInv'
<1> SUFFICES ASSUME TripInv, [CircuitNext]_circuitVars
             PROVE  WindowFollowed' /\ TripJustified'
  BY CircuitTypeStep DEF TripInv
<1> USE CircuitAssumption DEF TripInv
<1>1. CASE UNCHANGED breaker
  BY <1>1 DEF breaker, WindowFollowed, TripJustified
<1>2. CASE mode' = "Closed" /\ failures' = 0 /\ window' = None /\ streak' = <<>>
  BY <1>2 DEF WindowFollowed, TripJustified
<1>3. CASE mode' = "HalfOpen"
  BY <1>3 DEF WindowFollowed, TripJustified
<1>4. CASE mode' = "Open" /\ streak' = <<>>
  BY <1>4 DEF WindowFollowed, TripJustified
<1>5. ASSUME NEW a \in Attempts, TryAcquire(a) \/ RecordSuccess(a) \/ Cancel(a)
      PROVE  WindowFollowed' /\ TripJustified'
  BY <1>1, <1>2, <1>3, <1>5
     DEF TryAcquire, RecordSuccess, Cancel, BecomeClosed, BecomeHalfOpen
<1>6. ASSUME NEW a \in Attempts, RecordFailure(a)
      PROVE  WindowFollowed' /\ TripJustified'
  <2>1. CASE Current(a) /\ mode = "Closed"
    BY <1>6, <2>1, CountingTrips
  <2>2. CASE ~(Current(a) /\ mode = "Closed")
    BY <1>1, <1>4, <1>6, <2>2 DEF RecordFailure, BecomeOpen
  <2> QED
    BY <2>1, <2>2
<1> QED
  BY <1>1, <1>5, <1>6 DEF CircuitNext, circuitVars, Tick, AcquireReadsClock, FailureReadsClock

\* A closed circuit opens only on failure_threshold failures in a row, all of
\* them timed within one failure window, whatever stale readings are counted
\* and however often the window was restarted before.
THEOREM TripCorrect == CircuitSpec => []TripJustified
<1>1. CircuitInit => TripInv
  BY CircuitTypeInit, CircuitAssumption
     DEF CircuitInit, TripInv, WindowFollowed, TripJustified
<1>2. TripInv => TripJustified
  BY DEF TripInv
<1> QED
  BY <1>1, <1>2, TripStep, PTL DEF CircuitSpec

=============================================================================
