---------------------------- MODULE UpstreamHealth ----------------------------
(***************************************************************************)
(* Endpoint health of an upstream pool (proxy/health.rs).                  *)
(*                                                                         *)
(* Two sources report on an endpoint: the active probe loop and, passively,*)
(* the attempts of proxied requests.  Each keeps its own streak of         *)
(* consecutive results, an endpoint is excluded by either and readmitted   *)
(* by the probe alone, and a transition clears the streak of the other     *)
(* source.                                                                 *)
(*                                                                         *)
(* A streak is only compared with its threshold, so counting stops there.  *)
(***************************************************************************)
EXTENDS Integers

CONSTANTS
    Checked,            \* the endpoints with a health check
    HealthyThreshold,   \* healthy_threshold
    UnhealthyThreshold  \* unhealthy_threshold

ASSUME HealthAssumption ==
    /\ HealthyThreshold \in Nat \ {0}
    /\ UnhealthyThreshold \in Nat \ {0}

VARIABLES
    eligibility,  \* AtomicU8, stored under the snapshot's write lock
    active,       \* snapshot.active
    passive,      \* snapshot.passive
    seen,         \* history: both streaks, counted from the last transition
    cause         \* history: behind the last transition, the failures of its source or
                  \* the successful probes in a row

health == <<eligibility, active, passive, seen, cause>>

Streaks == [ok : 0..HealthyThreshold, bad : 0..UnhealthyThreshold]
NoStreak == [ok |-> 0, bad |-> 0]

HealthTypeOK ==
    /\ eligibility \in [Checked -> {"unknown", "healthy", "unhealthy"}]
    /\ active \in [Checked -> Streaks]
    /\ passive \in [Checked -> Streaks]
    /\ seen \in [Checked -> [active : Streaks, passive : Streaks]]
    /\ cause \in [Checked -> Nat]

HealthInit ==
    /\ eligibility = [e \in Checked |-> "unknown"]
    /\ active = [e \in Checked |-> NoStreak]
    /\ passive = [e \in Checked |-> NoStreak]
    /\ seen = [e \in Checked |-> [active |-> NoStreak, passive |-> NoStreak]]
    /\ cause = [e \in Checked |-> 0]

-----------------------------------------------------------------------------

UpTo(bound, n) == IF n < bound THEN n + 1 ELSE bound

\* A streak with one more result.
Extend(streak, ok) ==
    IF ok THEN [ok |-> UpTo(HealthyThreshold, streak.ok), bad |-> 0]
    ELSE [ok |-> 0, bad |-> UpTo(UnhealthyThreshold, streak.bad)]

\* active_check && previous != HEALTHY
Readmits(probe) == probe

\* The state an observation leads to, given its source's extended streak.
After(e, ok, probe, streak) ==
    IF ok /\ streak.ok >= HealthyThreshold /\ Readmits(probe) THEN "healthy"
    ELSE IF ~ok /\ streak.bad >= UnhealthyThreshold THEN "unhealthy"
    ELSE eligibility[e]

\* Mutant: the streak of the other source survives a transition.
KeepsStreak(streak) == streak

\* UpstreamHealthStreak::default()
Cleared(streak) == NoStreak

\* update: probe tells an active result from a passive one.
Update(e, ok, probe) ==
    LET streak == Extend(IF probe THEN active[e] ELSE passive[e], ok)
        next == After(e, ok, probe, streak)
        changes == next # eligibility[e]
        other == IF probe THEN passive[e] ELSE active[e]
        kept == IF changes THEN Cleared(other) ELSE other
        counted == Extend(IF probe THEN seen[e].active ELSE seen[e].passive, ok)
    IN /\ eligibility' = [eligibility EXCEPT ![e] = next]
       /\ active' = [active EXCEPT ![e] = IF probe THEN streak ELSE kept]
       /\ passive' = [passive EXCEPT ![e] = IF probe THEN kept ELSE streak]
       /\ seen' = [seen EXCEPT ![e] =
                     IF changes THEN [active |-> NoStreak, passive |-> NoStreak]
                     ELSE IF probe THEN [active |-> counted, passive |-> seen[e].passive]
                     ELSE [active |-> seen[e].active, passive |-> counted]]
       /\ cause' = [cause EXCEPT ![e] =
                      IF ~changes THEN cause[e]
                      ELSE IF ~ok THEN counted.bad
                      ELSE IF probe THEN counted.ok ELSE seen[e].active.ok]

\* Observations in any order, from any number of attempts and probes.
HealthNext == \E e \in Checked, ok, probe \in BOOLEAN : Update(e, ok, probe)

HealthSpec == HealthInit /\ [][HealthNext]_health

-----------------------------------------------------------------------------
(* Properties                                                               *)

\* A transition rests on a full streak recorded since the previous transition: an
\* exclusion on consecutive failures of one source, a readmission on consecutive
\* successful probes.  What was counted before a transition never helps to undo
\* it, and passive successes, the tail of requests sent before an exclusion,
\* never readmit (UpstreamHealthState::update).
TransitionsJustified ==
    \A e \in Checked :
        /\ eligibility[e] = "healthy" => cause[e] >= HealthyThreshold
        /\ eligibility[e] = "unhealthy" => cause[e] >= UnhealthyThreshold

=============================================================================
