----------------------- MODULE ExecutionLeasesProofs -----------------------
(***************************************************************************)
(* Proofs about execution leases, for every set of invocations, capacity,  *)
(* TTL and length of the run.                                              *)
(***************************************************************************)
EXTENDS ExecutionLeases, TLAPS

\* Fences are drawn once: no two invocations hold the same one.
FencesDrawn ==
    /\ \A p \in Invocations : fence[p] <= sequence
    /\ \A p \in Invocations : pc[p] # "idle" => fence[p] # 0
    /\ \A p, q \in Invocations : p # q /\ fence[p] # 0 => fence[p] # fence[q]

\* Nothing is timed in the future, and only a lease that was held is renewed.
TimesPast ==
    \A p \in Invocations :
        /\ begun[p] <= now /\ last[p] <= now /\ sent[p] <= now
        /\ pc[p] \in {"idle", "acquiring", "granted", "abandoned"} => call[p] = "none"

SafeInv == TypeOK /\ FencesDrawn /\ TimesPast

\* What a holder can rely on, when the database answers in time: the row is its
\* own, and it expires no sooner than a call's delay before the TTL counted
\* from last_renewed; the renewal task is never far behind.
GrantedInv(p) ==
    pc[p] \in {"acquiring", "granted"} =>
        /\ now <= begun[p] + CallBound
        /\ pc[p] = "granted" => Owns(p) /\ row[slot[p]].expires >= begun[p] + TTL

RunningInv(p) ==
    pc[p] = "running" =>
        /\ Owns(p)
        /\ row[slot[p]].expires + CallBound >= last[p] + TTL
        /\ call[p] = "none" => now <= wake[p] /\ 2 * wake[p] < 2 * last[p] + TTL + 2 * retry
        /\ call[p] # "none" =>
              /\ now <= sent[p] + CallBound
              /\ last[p] <= sent[p]
              /\ 2 * sent[p] < 2 * last[p] + TTL + 2 * retry
        /\ call[p] = "renewed" => row[slot[p]].expires >= sent[p] + TTL

HoldersInv == \A p \in Invocations : GrantedInv(p) /\ RunningInv(p)

-----------------------------------------------------------------------------
(* Type correctness, unique fences, times                                   *)

\* The timer settings derived from the TTL.
LEMMA TimerFacts ==
    /\ renewal_interval \in Nat /\ retry \in Nat \ {0} /\ Grace \in Nat
    /\ 2 * renewal_interval < TTL + 2 * retry
<1>1. TTL \in Nat \ {0} /\ TTL \div 3 \in Nat /\ 3 * (TTL \div 3) <= TTL
  BY LeaseAssumption
<1>2. renewal_interval \in Nat \ {0}
  BY <1>1 DEF renewal_interval
<1>3. retry \in Nat \ {0}
  BY <1>2 DEF retry
<1> QED
  BY <1>1, <1>2, <1>3 DEF renewal_interval, Grace

LEMMA SlotFacts == 0 \in Slots /\ Slots \subseteq Int
BY LeaseAssumption DEF Slots

LEMMA RowTypes ==
    /\ NoRow \in Rows
    /\ \A p \in Invocations, t \in Nat : fence[p] \in Nat => LeaseRow(p, t) \in Rows
BY LeaseAssumption DEF NoRow, Rows, LeaseRow

LEMMA SafeInit == Init => SafeInv
<1> SUFFICES ASSUME Init PROVE SafeInv
  OBVIOUS
<1>1. TypeOK
  BY SlotFacts, RowTypes DEF Init, TypeOK, PCs, Calls
<1>2. FencesDrawn /\ TimesPast
  BY DEF Init, FencesDrawn, TimesPast
<1> QED
  BY <1>1, <1>2 DEF SafeInv

\* Rows, sequences and the holders' records keep their types.
LEMMA TypeStep == TypeOK /\ [Next]_vars => TypeOK'
<1> SUFFICES ASSUME TypeOK, [Next]_vars PROVE TypeOK'
  OBVIOUS
<1>0. CallBound' = CallBound
  BY DEF Next, vars
<1> USE LeaseAssumption, TimerFacts, <1>0 DEF TypeOK, PCs, Calls
<1>1. CASE Tick
  BY <1>1 DEF Tick, db, holding, renewal
<1>2. ASSUME NEW p \in Invocations, AcquireBegins(p) PROVE TypeOK'
  BY <1>2 DEF AcquireBegins, renewal
<1>3. ASSUME NEW p \in Invocations, AcquireCommits(p) PROVE TypeOK'
  <2>1. row' \in [Slots -> Rows]
    BY <1>3, RowTypes DEF AcquireCommits
  <2>2. pc' \in [Invocations -> PCs]
    BY <1>3 DEF AcquireCommits
  <2>3. UNCHANGED <<now, sequence, holding, renewal>>
    BY <1>3 DEF AcquireCommits
  <2> QED
    BY <2>1, <2>2, <2>3 DEF holding, renewal
<1>4. ASSUME NEW p \in Invocations, AcquireAnswered(p) PROVE TypeOK'
  BY <1>4 DEF AcquireAnswered, db
<1>5. ASSUME NEW p \in Invocations, AcquireAbandoned(p) PROVE TypeOK'
  BY <1>5 DEF AcquireAbandoned, db, holding, renewal
<1>6. ASSUME NEW p \in Invocations, RenewCalls(p) PROVE TypeOK'
  BY <1>6 DEF RenewCalls, db, holding
<1>7. ASSUME NEW p \in Invocations, RenewApplies(p) PROVE TypeOK'
  <2>1. row' \in [Slots -> Rows]
    BY <1>7, RowTypes DEF RenewApplies
  <2>2. call' \in [Invocations -> Calls]
    BY <1>7 DEF RenewApplies
  <2> QED
    BY <1>7, <2>1, <2>2 DEF RenewApplies, holding
<1>8. ASSUME NEW p \in Invocations, RenewAnswered(p) PROVE TypeOK'
  BY <1>8 DEF RenewAnswered, CallEnds, db, holding
<1>9. ASSUME NEW p \in Invocations, RenewRefused(p) PROVE TypeOK'
  BY <1>9 DEF RenewRefused, CallEnds, Lose, TaskEnds, db, holding
<1>10. ASSUME NEW p \in Invocations, RenewFails(p) PROVE TypeOK'
  BY <1>10 DEF RenewFails, CallEnds, Lose, TaskEnds, db, holding
<1>11. ASSUME NEW p \in Invocations, Completes(p) PROVE TypeOK'
  BY <1>11 DEF Completes, Lose, TaskEnds, db, holding
<1>12. ASSUME NEW p \in Invocations, Releases(p) PROVE TypeOK'
  BY <1>12, RowTypes DEF Releases, holding, renewal
<1>13. ASSUME NEW p \in Invocations, Vanishes(p) PROVE TypeOK'
  BY <1>13 DEF Vanishes, TaskEnds, db, holding
<1>14. ASSUME NEW s \in Slots, Reaps(s) PROVE TypeOK'
  BY <1>14, RowTypes DEF Reaps, holding, renewal
<1>15. CASE UNCHANGED vars
  BY <1>15 DEF vars, db, holding, renewal
<1> QED
  BY <1>1, <1>2, <1>3, <1>4, <1>5, <1>6, <1>7, <1>8, <1>9, <1>10, <1>11, <1>12, <1>13,
     <1>14, <1>15 DEF Next, Step

\* A fence is new when it is drawn; times only pass.
LEMMA SafeStep == SafeInv /\ [Next]_vars => SafeInv'
<1> SUFFICES ASSUME SafeInv, [Next]_vars PROVE FencesDrawn' /\ TimesPast'
  BY TypeStep DEF SafeInv
<1> USE LeaseAssumption DEF SafeInv, TypeOK, FencesDrawn, TimesPast
<1>1. CASE Tick
  BY <1>1 DEF Tick, db, holding, renewal
<1>2. ASSUME NEW p \in Invocations, AcquireBegins(p) PROVE FencesDrawn' /\ TimesPast'
  <2>1. FencesDrawn'
    BY <1>2 DEF AcquireBegins
  <2>2. TimesPast'
    BY <1>2 DEF AcquireBegins, renewal
  <2> QED
    BY <2>1, <2>2
<1>3. ASSUME NEW p \in Invocations, AcquireCommits(p) PROVE FencesDrawn' /\ TimesPast'
  <2>1. UNCHANGED <<now, sequence, fence, begun, last, wake, call, sent>>
    BY <1>3 DEF AcquireCommits, holding, renewal
  <2>2. /\ pc[p] \in {"acquiring", "abandoned"}
        /\ \E c \in {"granted", "idle", "over"} : pc' = [pc EXCEPT ![p] = c]
    BY <1>3 DEF AcquireCommits
  <2> QED
    BY <2>1, <2>2
<1>4. ASSUME NEW p \in Invocations, AcquireAnswered(p) PROVE FencesDrawn' /\ TimesPast'
  BY <1>4 DEF AcquireAnswered, db
<1>5. ASSUME NEW p \in Invocations, AcquireAbandoned(p) PROVE FencesDrawn' /\ TimesPast'
  <2>1. UNCHANGED <<now, sequence, fence, begun, last, wake, call, sent>>
    BY <1>5 DEF AcquireAbandoned, db, holding, renewal
  <2>2. /\ pc[p] \in {"acquiring", "granted"}
        /\ \E c \in {"abandoned", "over"} : pc' = [pc EXCEPT ![p] = c]
    BY <1>5 DEF AcquireAbandoned
  <2> QED
    BY <2>1, <2>2
<1>6. ASSUME NEW p \in Invocations, RenewCalls(p) PROVE FencesDrawn' /\ TimesPast'
  BY <1>6 DEF RenewCalls, db, holding
<1>7. ASSUME NEW p \in Invocations, RenewApplies(p) PROVE FencesDrawn' /\ TimesPast'
  <2>1. /\ call[p] = "sent"
        /\ UNCHANGED <<now, sequence, pc, fence, begun, last, wake, sent>>
        /\ \E c \in {"renewed", "gone"} : call' = [call EXCEPT ![p] = c]
    BY <1>7 DEF RenewApplies, holding
  <2> QED
    BY <2>1
<1>8. ASSUME NEW p \in Invocations, RenewAnswered(p) PROVE FencesDrawn' /\ TimesPast'
  BY <1>8 DEF RenewAnswered, CallEnds, db, holding
<1>9. ASSUME NEW p \in Invocations, RenewRefused(p) PROVE FencesDrawn' /\ TimesPast'
  BY <1>9 DEF RenewRefused, CallEnds, Lose, TaskEnds, db, holding
<1>10. ASSUME NEW p \in Invocations, RenewFails(p) PROVE FencesDrawn' /\ TimesPast'
  <2>1. CASE OutOfTime(p)
    BY <1>10, <2>1 DEF RenewFails, CallEnds, Lose, TaskEnds, db, holding
  <2>2. CASE ~OutOfTime(p)
    BY <1>10, <2>2 DEF RenewFails, CallEnds, db, holding
  <2> QED
    BY <2>1, <2>2
<1>11. ASSUME NEW p \in Invocations, Completes(p) PROVE FencesDrawn' /\ TimesPast'
  BY <1>11 DEF Completes, Lose, TaskEnds, db, holding
<1>12. ASSUME NEW p \in Invocations, Releases(p) PROVE FencesDrawn' /\ TimesPast'
  BY <1>12 DEF Releases, holding, renewal
<1>13. ASSUME NEW p \in Invocations, Vanishes(p) PROVE FencesDrawn' /\ TimesPast'
  BY <1>13 DEF Vanishes, TaskEnds, db, holding
<1>14. ASSUME NEW s \in Slots, Reaps(s) PROVE FencesDrawn' /\ TimesPast'
  BY <1>14 DEF Reaps, holding, renewal
<1>15. CASE UNCHANGED vars
  BY <1>15 DEF vars, db, holding, renewal
<1> QED
  BY <1>1, <1>2, <1>3, <1>4, <1>5, <1>6, <1>7, <1>8, <1>9, <1>10, <1>11, <1>12, <1>13,
     <1>14, <1>15 DEF Next, Step

LEMMA SafeInvariance == Spec => []SafeInv
BY SafeInit, SafeStep, PTL DEF Spec

\* Every variable of the lease model keeps its type.
THEOREM TypeCorrect == Spec => []TypeOK
<1>1. SafeInv => TypeOK
  BY DEF SafeInv
<1> QED
  BY <1>1, SafeInvariance, PTL

\* Of the invocations that ever drew a fence at most one passes is_current for a
\* slot, so two holders can never both commit.
OneCurrent ==
    \A p, q \in Invocations :
        p # q /\ fence[p] # 0 /\ fence[q] # 0 /\ slot[p] = slot[q]
            => ~(is_current(p) /\ is_current(q))

\* Two invocations never both pass is_current for one slot, however late their
\* statements, replies and releases are.
THEOREM FencingCorrect == Spec => []OneCurrent
<1>1. SafeInv => OneCurrent
  BY DEF SafeInv, FencesDrawn, OneCurrent, is_current, Owns
<1> QED
  BY <1>1, SafeInvariance, PTL

\* An unexpired row is given up by nobody but its own holder.
THEOREM LiveLeaseCorrect == Spec => LiveLeaseKept
<1> DEFINE Kept ==
      \A s \in Slots :
         (row[s].fence # 0 /\ row[s].expires > now /\ row'[s].fence # row[s].fence) =>
            \E p \in Invocations : /\ fence[p] = row[s].fence /\ slot[p] = s
                                   /\ pc[p] = "releasing" /\ pc'[p] = "over"
<1>1. SafeInv /\ [Next]_vars => [Kept]_vars
  <2> SUFFICES ASSUME SafeInv, Next,
                      NEW s \in Slots, row[s].fence # 0, row[s].expires > now,
                      row'[s].fence # row[s].fence
               PROVE  \E p \in Invocations : /\ fence[p] = row[s].fence /\ slot[p] = s
                                             /\ pc[p] = "releasing" /\ pc'[p] = "over"
    OBVIOUS
  <2> USE LeaseAssumption, TimerFacts DEF SafeInv, TypeOK, TimesPast, Rows
  <2>1. row' # row
    OBVIOUS
  <2>2. ASSUME NEW p \in Invocations, AcquireCommits(p) PROVE FALSE
    <3>1. Takeable(p) /\ row' = [row EXCEPT ![slot[p]] = LeaseRow(p, begun[p])]
      BY <2>1, <2>2 DEF AcquireCommits
    <3>2. slot[p] = s /\ row[s].expires <= begun[p]
      BY <3>1 DEF Takeable, Free
    <3> QED
      BY <3>2
  <2>3. ASSUME NEW p \in Invocations, RenewApplies(p) PROVE FALSE
    <3>1. PICK t \in Int : Owns(p) /\ row' = [row EXCEPT ![slot[p]] = LeaseRow(p, t)]
      BY <2>1, <2>3 DEF RenewApplies
    <3> QED
      BY <3>1 DEF Owns, LeaseRow
  <2>4. ASSUME NEW r \in Slots, Reaps(r) PROVE FALSE
    BY <2>4 DEF Reaps
  <2>5. ASSUME NEW p \in Invocations, Releases(p)
        PROVE  /\ fence[p] = row[s].fence /\ slot[p] = s
               /\ pc[p] = "releasing" /\ pc'[p] = "over"
    BY <2>1, <2>5 DEF Releases, Owns
  <2>6. \/ \E p \in Invocations : AcquireCommits(p) \/ RenewApplies(p) \/ Releases(p)
        \/ \E r \in Slots : Reaps(r)
    BY <2>1 DEF Next, Step, Tick, AcquireBegins, AcquireAnswered, AcquireAbandoned, RenewCalls,
           RenewAnswered, RenewRefused, RenewFails, Completes, Vanishes, db
  <2> QED
    BY <2>2, <2>3, <2>4, <2>5, <2>6
<1> QED
  BY <1>1, SafeInvariance, PTL DEF Spec, LiveLeaseKept

-----------------------------------------------------------------------------
(* Exclusion in time.  Assuming Timing, a holder's row outlives its work.   *)

LEMMA HoldersInit == Init => HoldersInv
BY DEF Init, HoldersInv, GrantedInv, RunningInv

\* The row of an invocation that is granted or running has not expired: the
\* heart of the argument, from the deadlines of the renewal task.
LEMMA StillLive ==
    ASSUME Timing, SafeInv, HoldersInv,
           NEW p \in Invocations, pc[p] \in {"granted", "running"}
    PROVE  Owns(p) /\ fence[p] # 0 /\ row[slot[p]].expires > now
<1> USE LeaseAssumption, TimerFacts DEF SafeInv, TypeOK, Rows, HoldersInv, FencesDrawn
<1>1. CASE pc[p] = "granted"
  BY <1>1 DEF GrantedInv, Timing
<1>2. CASE pc[p] = "running" /\ call[p] = "none"
  BY <1>2 DEF RunningInv, Timing
<1>3. CASE pc[p] = "running" /\ call[p] # "none"
  BY <1>3 DEF RunningInv, Timing
<1> QED
  BY <1>1, <1>2, <1>3

\* A step that leaves the row of q, its place and its timers as they are, and
\* the clock, leaves q's guarantees as they are.
LEMMA Untouched ==
    ASSUME NEW q \in Invocations, GrantedInv(q) /\ RunningInv(q),
           CallBound' = CallBound, now' = now, slot' = slot, fence' = fence,
           row'[slot[q]] = row[slot[q]],
           pc'[q] = pc[q], begun'[q] = begun[q], last'[q] = last[q], wake'[q] = wake[q],
           call'[q] = call[q], sent'[q] = sent[q]
    PROVE  GrantedInv(q)' /\ RunningInv(q)'
BY DEF GrantedInv, RunningInv, Owns

\* An invocation that neither asks for nor works under a slot relies on nothing.
LEMMA Unconcerned ==
    ASSUME NEW q \in Invocations, pc'[q] \notin {"acquiring", "granted", "running"}
    PROVE  GrantedInv(q)' /\ RunningInv(q)'
BY DEF GrantedInv, RunningInv

LEMMA HoldersStep == Timing /\ SafeInv /\ HoldersInv /\ [Next]_vars => HoldersInv'
<1> SUFFICES ASSUME Timing, SafeInv, HoldersInv, [Next]_vars,
                    NEW q \in Invocations
             PROVE  GrantedInv(q)' /\ RunningInv(q)'
  BY DEF HoldersInv
<1>0. GrantedInv(q) /\ RunningInv(q)
  BY DEF HoldersInv
<1>c. CallBound' = CallBound
  BY DEF Next, vars
<1> USE LeaseAssumption, TimerFacts, <1>c
<1>t. TypeOK /\ FencesDrawn /\ TimesPast
  BY DEF SafeInv
<1>f. /\ fence \in [Invocations -> Nat] /\ slot \in [Invocations -> Slots]
      /\ row \in [Slots -> Rows] /\ pc \in [Invocations -> PCs]
      /\ now \in Nat /\ begun \in [Invocations -> Nat] /\ last \in [Invocations -> Nat]
      /\ wake \in [Invocations -> Nat] /\ sent \in [Invocations -> Nat]
      /\ call \in [Invocations -> Calls] /\ CallBound \in Nat
  BY <1>t DEF TypeOK
<1>1. CASE Tick
  <2>1. Prompt(q) /\ now' = now + 1 /\ UNCHANGED <<row, pc, slot, fence, begun, last, wake, call, sent>>
    BY <1>1 DEF Tick, db, holding, renewal
  <2> QED
    BY <1>0, <1>f, <2>1 DEF Prompt, GrantedInv, RunningInv, Owns
<1>2. ASSUME NEW p \in Invocations, AcquireBegins(p) PROVE GrantedInv(q)' /\ RunningInv(q)'
  <2>1. CASE p = q
    BY <1>2, <1>f, <2>1 DEF AcquireBegins, GrantedInv, RunningInv
  <2>2. CASE p # q
    <3>1. /\ now' = now /\ row' = row /\ UNCHANGED <<last, wake, call, sent>>
          /\ slot'[q] = slot[q] /\ fence'[q] = fence[q] /\ begun'[q] = begun[q] /\ pc'[q] = pc[q]
      BY <1>2, <1>f, <2>2 DEF AcquireBegins, renewal
    <3> QED
      BY <1>0, <3>1 DEF GrantedInv, RunningInv, Owns
  <2> QED
    BY <2>1, <2>2
<1>3. ASSUME NEW p \in Invocations, AcquireCommits(p) PROVE GrantedInv(q)' /\ RunningInv(q)'
  <2>1. UNCHANGED <<now, slot, fence, begun, last, wake, call, sent>>
    BY <1>3 DEF AcquireCommits, holding, renewal
  <2>2. CASE p = q
    <3>1. CASE pc'[q] = "granted"
      <4>1. pc[q] = "acquiring" /\ row'[slot[q]] = LeaseRow(q, begun[q])
        BY <1>3, <1>f, <2>2, <3>1 DEF AcquireCommits
      <4> QED
        BY <1>0, <1>f, <2>1, <3>1, <4>1 DEF GrantedInv, RunningInv, Owns, LeaseRow
    <3>2. CASE pc'[q] # "granted"
      <4>1. pc'[q] \in {"idle", "over"}
        BY <1>3, <1>f, <2>2, <3>2 DEF AcquireCommits
      <4> QED
        BY <4>1, Unconcerned
    <3> QED
      BY <3>1, <3>2
  <2>3. CASE p # q
    <3>1. pc'[q] = pc[q]
      BY <1>3, <1>f, <2>3 DEF AcquireCommits
    <3>2. CASE pc[q] \in {"granted", "running"}
      <4>1. Owns(q) /\ fence[q] # 0 /\ row[slot[q]].expires > now
        BY <3>2, StillLive
      <4>2. slot[p] = slot[q] => ~Takeable(p)
        BY <1>f, <1>t, <4>1 DEF Takeable, Free, Owns, TimesPast, Rows
      <4>3. row'[slot[q]] = row[slot[q]]
        BY <1>3, <1>f, <4>2 DEF AcquireCommits
      <4> QED
        BY <1>0, <2>1, <3>1, <4>3, Untouched
    <3>3. CASE pc[q] = "acquiring"
      BY <1>0, <2>1, <3>1, <3>3 DEF GrantedInv, RunningInv
    <3>4. CASE pc[q] \notin {"acquiring", "granted", "running"}
      BY <3>1, <3>4, Unconcerned
    <3> QED
      BY <3>2, <3>3, <3>4
  <2> QED
    BY <2>2, <2>3
<1>4. ASSUME NEW p \in Invocations, AcquireAnswered(p) PROVE GrantedInv(q)' /\ RunningInv(q)'
  <2>1. UNCHANGED <<now, row, slot, fence, call, sent>>
    BY <1>4 DEF AcquireAnswered, db
  <2>2. CASE p = q
    <3>1. /\ pc[q] = "granted" /\ pc'[q] = "running" /\ last'[q] = now
          /\ wake'[q] = now + renewal_interval
      BY <1>4, <1>f, <2>2 DEF AcquireAnswered
    <3>2. call[q] = "none"
      BY <1>t, <3>1 DEF TimesPast
    <3>3. 2 * wake'[q] < 2 * last'[q] + TTL + 2 * retry
      BY <1>f, <3>1
    <3> QED
      BY <1>0, <1>f, <2>1, <3>1, <3>2, <3>3 DEF GrantedInv, RunningInv, Owns, Rows
  <2>3. CASE p # q
    BY <1>4, <1>f, <1>0, <2>1, <2>3, Untouched DEF AcquireAnswered
  <2> QED
    BY <2>2, <2>3
<1>5. ASSUME NEW p \in Invocations, AcquireAbandoned(p) PROVE GrantedInv(q)' /\ RunningInv(q)'
  <2>1. UNCHANGED <<now, row, slot, fence, begun, last, wake, call, sent>>
    BY <1>5 DEF AcquireAbandoned, db, holding, renewal
  <2>2. p = q => pc'[q] \in {"abandoned", "over"}
    BY <1>5, <1>f DEF AcquireAbandoned
  <2>3. p # q => pc'[q] = pc[q]
    BY <1>5, <1>f DEF AcquireAbandoned
  <2> QED
    BY <1>0, <2>1, <2>2, <2>3, Untouched, Unconcerned
<1>6. ASSUME NEW p \in Invocations, RenewCalls(p) PROVE GrantedInv(q)' /\ RunningInv(q)'
  <2>1. UNCHANGED <<now, row, pc, slot, fence, begun, last>>
    BY <1>6 DEF RenewCalls, db, holding
  <2>2. CASE p = q
    <3>1. /\ pc[q] = "running" /\ call[q] = "none" /\ now >= wake[q]
          /\ call'[q] = "sent" /\ sent'[q] = now
      BY <1>6, <1>f, <2>2 DEF RenewCalls
    <3> QED
      BY <1>0, <1>f, <1>t, <2>1, <3>1 DEF GrantedInv, RunningInv, Owns, TimesPast
  <2>3. CASE p # q
    BY <1>6, <1>f, <1>0, <2>1, <2>3, Untouched DEF RenewCalls
  <2> QED
    BY <2>2, <2>3
<1>7. ASSUME NEW p \in Invocations, RenewApplies(p) PROVE GrantedInv(q)' /\ RunningInv(q)'
  <2>1. UNCHANGED <<now, pc, slot, fence, begun, last, wake, sent>> /\ call[p] = "sent"
    BY <1>7 DEF RenewApplies, holding
  <2>2. PICK t \in sent[p]..now :
          \/ /\ Owns(p) /\ row[slot[p]].expires > t
             /\ row' = [row EXCEPT ![slot[p]] = LeaseRow(p, t)]
             /\ call' = [call EXCEPT ![p] = "renewed"]
          \/ /\ ~(Owns(p) /\ row[slot[p]].expires > t)
             /\ call' = [call EXCEPT ![p] = "gone"]
             /\ UNCHANGED row
    BY <1>7 DEF RenewApplies
  <2>3. CASE p = q
    <3>1. CASE pc[q] = "running"
      <4>1. Owns(q) /\ row[slot[q]].expires > now
        BY <3>1, StillLive
      <4>2. row'[slot[q]] = LeaseRow(q, t) /\ call'[q] = "renewed"
        BY <1>f, <2>2, <2>3, <4>1 DEF Rows
      <4>3. /\ row'[slot[q]].fence = fence[q] /\ row'[slot[q]].holder = Replica[q]
            /\ row'[slot[q]].expires = t + TTL /\ t >= sent[q] /\ t \in Nat
        BY <1>f, <2>2, <2>3, <4>2 DEF LeaseRow
      <4> QED
        BY <1>0, <1>f, <2>1, <2>3, <3>1, <4>2, <4>3 DEF GrantedInv, RunningInv, Owns
    <3>2. CASE pc[q] # "running"
      <4>1. pc[q] \notin {"acquiring", "granted"}
        BY <1>t, <2>1, <2>3 DEF TimesPast
      <4> QED
        BY <2>1, <3>2, <4>1, Unconcerned
    <3> QED
      BY <3>1, <3>2
  <2>4. CASE p # q
    <3>1. CASE pc[q] \in {"granted", "running"}
      <4>1. Owns(q) /\ fence[q] # 0
        BY <3>1, StillLive
      <4>2. slot[p] = slot[q] => ~Owns(p)
        BY <1>t, <2>4, <4>1 DEF FencesDrawn, Owns
      <4>3. row'[slot[q]] = row[slot[q]] /\ call'[q] = call[q]
        BY <1>f, <2>2, <2>4, <4>2
      <4> QED
        BY <1>0, <2>1, <4>3, Untouched
    <3>2. CASE pc[q] = "acquiring"
      BY <1>0, <2>1, <3>2 DEF GrantedInv, RunningInv
    <3>3. CASE pc[q] \notin {"acquiring", "granted", "running"}
      BY <2>1, <3>3, Unconcerned
    <3> QED
      BY <3>1, <3>2, <3>3
  <2> QED
    BY <2>3, <2>4
<1>8. ASSUME NEW p \in Invocations, RenewAnswered(p) PROVE GrantedInv(q)' /\ RunningInv(q)'
  <2>1. UNCHANGED <<now, row, pc, slot, fence, begun>>
    BY <1>8 DEF RenewAnswered, db, holding
  <2>2. CASE p = q
    <3>1. /\ pc[q] = "running" /\ call[q] = "renewed" /\ call'[q] = "none"
          /\ last'[q] = now /\ wake'[q] = now + renewal_interval
      BY <1>8, <1>f, <2>2 DEF RenewAnswered, CallEnds
    <3>2. 2 * wake'[q] < 2 * last'[q] + TTL + 2 * retry
      BY <1>f, <3>1
    <3>3. Owns(q) /\ row[slot[q]].expires >= sent[q] + TTL /\ now <= sent[q] + CallBound
      BY <1>0, <3>1 DEF RunningInv
    <3> QED
      BY <1>f, <2>1, <3>1, <3>2, <3>3 DEF GrantedInv, RunningInv, Owns, Rows
  <2>3. CASE p # q
    BY <1>8, <1>f, <1>0, <2>1, <2>3, Untouched DEF RenewAnswered, CallEnds
  <2> QED
    BY <2>2, <2>3
<1>9. ASSUME NEW p \in Invocations, RenewRefused(p) \/ Completes(p) \/ Vanishes(p)
      PROVE  GrantedInv(q)' /\ RunningInv(q)'
  <2>1. UNCHANGED <<now, row, slot, fence, begun>>
    BY <1>9 DEF RenewRefused, Completes, Vanishes, db, holding
  <2>2. p = q => pc'[q] \in {"releasing", "over"}
    BY <1>9, <1>f DEF RenewRefused, Completes, Vanishes, Lose
  <2>3. p # q => /\ pc'[q] = pc[q] /\ last'[q] = last[q] /\ wake'[q] = wake[q]
                 /\ call'[q] = call[q] /\ sent'[q] = sent[q]
    BY <1>9, <1>f DEF RenewRefused, Completes, Vanishes, Lose, TaskEnds, CallEnds
  <2> QED
    BY <1>0, <2>1, <2>2, <2>3, Untouched, Unconcerned
<1>10. ASSUME NEW p \in Invocations, RenewFails(p) PROVE GrantedInv(q)' /\ RunningInv(q)'
  <2>1. UNCHANGED <<now, row, slot, fence, begun>> /\ CallEnds(p) /\ pc[p] = "running" /\ call[p] # "none"
    BY <1>10 DEF RenewFails, db, holding
  <2>2. CASE p = q /\ OutOfTime(p)
    <3>1. pc'[q] = "releasing"
      BY <1>10, <1>f, <2>2 DEF RenewFails, Lose
    <3> QED
      BY <3>1, Unconcerned
  <2>3. CASE p = q /\ ~OutOfTime(p)
    <3>1. /\ pc'[q] = pc[q] /\ last'[q] = last[q] /\ wake'[q] = now + retry /\ call'[q] = "none"
      BY <1>10, <1>f, <2>1, <2>3 DEF RenewFails, CallEnds
    <3>2. 2 * wake'[q] < 2 * last'[q] + TTL + 2 * retry
      BY <1>f, <2>3, <3>1 DEF OutOfTime
    <3> QED
      BY <1>0, <1>f, <2>1, <2>3, <3>1, <3>2 DEF GrantedInv, RunningInv, Owns
  <2>4. CASE p # q
    <3>1. /\ pc'[q] = pc[q] /\ last'[q] = last[q] /\ wake'[q] = wake[q]
          /\ call'[q] = call[q] /\ sent'[q] = sent[q]
      BY <1>10, <1>f, <2>4 DEF RenewFails, Lose, TaskEnds, CallEnds
    <3> QED
      BY <1>0, <2>1, <3>1, Untouched
  <2> QED
    BY <2>2, <2>3, <2>4
<1>11. ASSUME NEW p \in Invocations, Releases(p) PROVE GrantedInv(q)' /\ RunningInv(q)'
  <2>1. /\ UNCHANGED <<now, slot, fence, begun, last, wake, call, sent>>
        /\ pc[p] = "releasing" /\ pc' = [pc EXCEPT ![p] = "over"]
        /\ row' = IF Owns(p) THEN [row EXCEPT ![slot[p]] = NoRow] ELSE row
    BY <1>11 DEF Releases, holding, renewal
  <2>2. CASE pc[q] \in {"granted", "running"}
    <3>1. Owns(q) /\ fence[q] # 0 /\ p # q
      BY <2>1, <2>2, StillLive
    <3>2. slot[p] = slot[q] => ~Owns(p)
      BY <1>t, <3>1 DEF FencesDrawn, Owns
    <3>3. row'[slot[q]] = row[slot[q]] /\ pc'[q] = pc[q]
      BY <1>f, <2>1, <3>1, <3>2
    <3> QED
      BY <1>0, <2>1, <3>3, Untouched
  <2>3. CASE pc[q] = "acquiring"
    BY <1>0, <1>f, <2>1, <2>3 DEF GrantedInv, RunningInv
  <2>4. CASE pc[q] \notin {"acquiring", "granted", "running"}
    BY <1>f, <2>1, <2>4, Unconcerned
  <2> QED
    BY <2>2, <2>3, <2>4
<1>12. ASSUME NEW s \in Slots, Reaps(s) PROVE GrantedInv(q)' /\ RunningInv(q)'
  <2>1. /\ UNCHANGED <<now, pc, slot, fence, begun, last, wake, call, sent>>
        /\ row[s].expires + Grace <= now /\ row' = [row EXCEPT ![s] = NoRow]
    BY <1>12 DEF Reaps, holding, renewal
  <2>2. CASE pc[q] \in {"granted", "running"}
    <3>1. row[slot[q]].expires > now
      BY <2>2, StillLive
    <3>2. row'[slot[q]] = row[slot[q]]
      BY <1>f, <2>1, <3>1 DEF Rows
    <3> QED
      BY <1>0, <2>1, <3>2, Untouched
  <2>3. CASE pc[q] = "acquiring"
    BY <1>0, <2>1, <2>3 DEF GrantedInv, RunningInv
  <2>4. CASE pc[q] \notin {"acquiring", "granted", "running"}
    BY <2>1, <2>4, Unconcerned
  <2> QED
    BY <2>2, <2>3, <2>4
<1>13. CASE UNCHANGED vars
  BY <1>0, <1>13, Untouched DEF vars, db, holding, renewal
<1> QED
  BY <1>1, <1>2, <1>3, <1>4, <1>5, <1>6, <1>7, <1>8, <1>9, <1>10, <1>11, <1>12, <1>13 DEF Next, Step

\* Timing is about constants and about a bound that stays as it is.
LEMMA TimelyStep ==
    SafeInv /\ (Timing => HoldersInv) /\ [Next]_vars => (Timing => HoldersInv)'
<1>1. [Next]_vars => (Timing' <=> Timing)
  BY DEF Next, vars, Timing
<1> QED
  BY <1>1, HoldersStep

LEMMA TimelyInvariance == Spec => [](Timing => HoldersInv)
BY HoldersInit, SafeInvariance, TimelyStep, PTL DEF Spec

\* With a database that answers within CallBound, the work of a holder has
\* stopped before its row can be taken by anyone else.
THEOREM StopsInTime == Spec => []StopsWhenTimely
<1>1. (Timing => HoldersInv) => StopsWhenTimely
  BY DEF HoldersInv, RunningInv, Owns, StopsBeforeReclaim, StopsWhenTimely
<1> QED
  BY <1>1, TimelyInvariance, PTL

-----------------------------------------------------------------------------
(* The rows keep the promise of a lease scope                               *)

\* A row that is rewritten with some fence, or a slot that nothing happens to,
\* leaves the set of taken slots as it is.
LEMMA TakenSame ==
    ASSUME TypeOK, NEW s \in Slots, row[s].fence # 0,
           NEW r \in Rows, r.fence # 0, row' = [row EXCEPT ![s] = r]
    PROVE  Taken' = Taken
BY DEF TypeOK, Taken

LEMMA WorkingSame == UNCHANGED <<CallBound, pc, slot>> => Working' = Working
BY DEF Working, Timing

\* p is not at work, before or after: the working set is as it was.
LEMMA WorkingKept ==
    ASSUME TypeOK, NEW p \in Invocations, NEW c \in PCs, pc[p] # "running", c # "running",
           pc' = [pc EXCEPT ![p] = c], slot' = slot, CallBound' = CallBound
    PROVE  Working' = Working
BY DEF TypeOK, Working, Timing

LEMMA WorkingStops ==
    ASSUME TypeOK, NEW p \in Invocations, NEW c \in PCs, c # "running",
           pc' = [pc EXCEPT ![p] = c], slot' = slot, CallBound' = CallBound
    PROVE  Working' = {w \in Working : w[1] # p}
BY DEF TypeOK, Working, Timing

\* Every step of the rows and their holders is a step of the scope, or none.
LEMMA ScopeStep ==
    ASSUME SafeInv, Timing => HoldersInv, [Next]_vars
    PROVE  [Scope!Next]_(Scope!vars)
<1>c. CallBound' = CallBound
  BY DEF Next, vars
<1> USE <1>c DEF Scope!vars
<1>t. TypeOK /\ FencesDrawn /\ (Timing => StopsBeforeReclaim)
  BY DEF SafeInv, HoldersInv, RunningInv, Owns, StopsBeforeReclaim
<1>n. ~Timing => Working = {} /\ Working' = {}
  BY DEF Working, Timing
<1>1. CASE Tick \/ UNCHANGED vars
  BY <1>1, WorkingSame DEF Tick, vars, db, holding, Taken
<1>2. ASSUME NEW p \in Invocations, AcquireBegins(p) PROVE UNCHANGED Scope!vars
  <2>1. pc[p] # "running" /\ pc' = [pc EXCEPT ![p] = "acquiring"] /\ row' = row
    BY <1>2 DEF AcquireBegins
  <2>2. \A q \in Invocations : pc[q] = "running" => q # p /\ slot'[q] = slot[q]
    BY <1>t, <1>2, <2>1 DEF AcquireBegins, TypeOK
  <2>3. Working' = Working
    BY <1>t, <2>1, <2>2 DEF Working, Timing, TypeOK
  <2> QED
    BY <2>1, <2>3 DEF Taken
<1>3. ASSUME NEW p \in Invocations, AcquireCommits(p) PROVE [Scope!Next]_(Scope!vars)
  <2>1. PICK c \in PCs : c # "running" /\ pc' = [pc EXCEPT ![p] = c]
    BY <1>3 DEF AcquireCommits, PCs
  <2>2. pc[p] # "running" /\ slot' = slot
    BY <1>3 DEF AcquireCommits, holding
  <2>3. Working' = Working
    BY <1>t, <2>1, <2>2, WorkingKept
  <2>4. CASE row' = row
    BY <2>3, <2>4 DEF Taken
  <2>5. CASE row' # row
    <3>1. row' = [row EXCEPT ![slot[p]] = LeaseRow(p, begun[p])] /\ slot[p] \in Slots
      BY <1>t, <1>3, <2>5 DEF AcquireCommits, TypeOK
    <3>2. LeaseRow(p, begun[p]) \in Rows /\ LeaseRow(p, begun[p]).fence # 0
      BY <1>t, <1>3, RowTypes DEF AcquireCommits, LeaseRow, FencesDrawn, TypeOK
    <3>3. CASE row[slot[p]].fence # 0
      BY <1>t, <2>3, <3>1, <3>2, <3>3, TakenSame
    <3>4. CASE row[slot[p]].fence = 0
      <4>1. Taken' = Taken \cup {slot[p]} /\ slot[p] \notin Taken
        BY <1>t, <3>1, <3>2, <3>4 DEF TypeOK, Taken
      <4> QED
        BY <2>3, <3>1, <4>1 DEF Scope!Next, Scope!Take
    <3> QED
      BY <3>3, <3>4
  <2> QED
    BY <2>4, <2>5
<1>4. ASSUME NEW p \in Invocations, AcquireAnswered(p) PROVE [Scope!Next]_(Scope!vars)
  <2>1. pc[p] = "granted" /\ pc' = [pc EXCEPT ![p] = "running"] /\ slot' = slot /\ row' = row
    BY <1>4 DEF AcquireAnswered, db
  <2>0. CASE ~Timing
    BY <1>n, <2>0, <2>1 DEF Taken
  <2> SUFFICES ASSUME Timing PROVE [Scope!Next]_(Scope!vars)
    BY <2>0
  <2>2. Working' = Working \cup {<<p, slot[p]>>} /\ slot[p] \in Slots
    BY <1>t, <2>1 DEF TypeOK, Working, Timing
  <2>3. Owns(p) /\ fence[p] # 0
    BY <1>t, <2>1 DEF HoldersInv, GrantedInv, FencesDrawn
  <2>4. slot[p] \in Taken /\ Taken' = Taken
    BY <2>1, <2>2, <2>3 DEF Taken, Owns
  <2>5. ASSUME NEW q \in Invocations, pc[q] = "running" PROVE q # p /\ slot[q] # slot[p]
    <3>1. q # p /\ row[slot[q]].fence = fence[q]
      BY <1>t, <2>1, <2>5 DEF StopsBeforeReclaim
    <3> QED
      BY <1>t, <2>3, <3>1 DEF Owns, FencesDrawn
  <2>6. \A w \in Working : w[1] # p /\ w[2] # slot[p]
    BY <2>5 DEF Working
  <2>7. Scope!Start(p, slot[p])
    BY <2>2, <2>4, <2>6 DEF Scope!Start
  <2> QED
    BY <2>2, <2>7 DEF Scope!Next
<1>5. ASSUME NEW p \in Invocations, AcquireAbandoned(p) PROVE UNCHANGED Scope!vars
  <2>1. PICK c \in PCs : c # "running" /\ pc' = [pc EXCEPT ![p] = c]
    BY <1>5 DEF AcquireAbandoned, PCs
  <2>2. pc[p] # "running" /\ slot' = slot /\ row' = row
    BY <1>5 DEF AcquireAbandoned, holding, db
  <2> QED
    BY <1>t, <2>1, <2>2, WorkingKept DEF Taken
<1>6. ASSUME NEW p \in Invocations, RenewCalls(p) \/ RenewAnswered(p) PROVE UNCHANGED Scope!vars
  BY <1>6, WorkingSame DEF RenewCalls, RenewAnswered, db, holding, Taken
<1>7. ASSUME NEW p \in Invocations, RenewApplies(p) PROVE UNCHANGED Scope!vars
  <2>1. Working' = Working
    BY <1>7, WorkingSame DEF RenewApplies, holding
  <2>2. PICK t \in sent[p]..now :
            row' = row \/ (Owns(p) /\ row' = [row EXCEPT ![slot[p]] = LeaseRow(p, t)])
    BY <1>7 DEF RenewApplies
  <2>3. CASE row' = row
    BY <2>1, <2>3 DEF Taken
  <2>4. CASE row' # row
    <3>1. fence[p] # 0
      BY <1>7, <1>t DEF SafeInv, TimesPast, FencesDrawn, RenewApplies, TypeOK, PCs
    <3>2. t \in Nat
      BY <1>t, <2>2 DEF TypeOK
    <3>3. LeaseRow(p, t) \in Rows /\ LeaseRow(p, t).fence # 0
      BY <1>t, <3>1, <3>2, RowTypes DEF LeaseRow, TypeOK
    <3>4. slot[p] \in Slots /\ row[slot[p]].fence # 0
      BY <1>t, <2>2, <2>4, <3>1 DEF TypeOK, Owns
    <3> QED
      BY <1>t, <2>1, <2>2, <2>4, <3>3, <3>4, TakenSame
  <2> QED
    BY <2>3, <2>4
<1>8. ASSUME NEW p \in Invocations, RenewRefused(p) \/ RenewFails(p) \/ Completes(p) \/ Vanishes(p)
      PROVE  [Scope!Next]_(Scope!vars)
  <2>1. row' = row /\ slot' = slot
    BY <1>8 DEF RenewRefused, RenewFails, Completes, Vanishes, db, holding
  <2>2. CASE pc' = pc
    BY <2>1, <2>2, WorkingSame DEF Taken
  <2>3. CASE pc' # pc
    <3>1. PICK c \in PCs : c # "running" /\ pc' = [pc EXCEPT ![p] = c]
      BY <1>8, <2>3 DEF RenewRefused, RenewFails, Completes, Vanishes, Lose, PCs
    <3>2. Working' = {w \in Working : w[1] # p}
      BY <1>t, <2>1, <3>1, WorkingStops
    <3> QED
      BY <2>1, <3>2 DEF Scope!Next, Scope!Stop, Taken
  <2> QED
    BY <2>2, <2>3
<1>9. ASSUME NEW p \in Invocations, Releases(p) PROVE [Scope!Next]_(Scope!vars)
  <2>1. /\ pc[p] = "releasing" /\ pc' = [pc EXCEPT ![p] = "over"] /\ slot' = slot
        /\ row' = IF Owns(p) THEN [row EXCEPT ![slot[p]] = NoRow] ELSE row
    BY <1>9 DEF Releases, holding
  <2>2. Working' = Working
    BY <1>t, <2>1, WorkingKept DEF PCs
  <2>3. CASE ~Owns(p)
    BY <2>1, <2>2, <2>3 DEF Taken
  <2>4. CASE Owns(p)
    <3>1. \A q \in Invocations : Timing /\ pc[q] = "running" => slot[q] # slot[p]
      BY <1>t, <2>1, <2>4 DEF StopsBeforeReclaim, FencesDrawn, Owns
    <3>2. \A w \in Working : w[2] # slot[p]
      BY <3>1 DEF Working
    <3>3. slot[p] \in Slots /\ Taken' = Taken \ {slot[p]}
      BY <1>t, <2>1, <2>4 DEF TypeOK, Taken, NoRow
    <3>4. Scope!Clear(slot[p])
      BY <2>2, <3>2, <3>3 DEF Scope!Clear
    <3> QED
      BY <3>3, <3>4 DEF Scope!Next
  <2> QED
    BY <2>3, <2>4
<1>10. ASSUME NEW s \in Slots, Reaps(s) PROVE [Scope!Next]_(Scope!vars)
  <2>1. /\ UNCHANGED <<pc, slot>> /\ row' = [row EXCEPT ![s] = NoRow]
        /\ row[s].expires + Grace <= now
    BY <1>10 DEF Reaps, holding
  <2>2. Working' = Working
    BY <2>1, WorkingSame
  <2>3. ASSUME NEW q \in Invocations, Timing, pc[q] = "running" PROVE slot[q] # s
    <3>1. row[slot[q]].expires > now
      BY <2>3, StillLive
    <3> QED
      BY <1>t, <2>1, <3>1, LeaseAssumption DEF TypeOK, Rows, Grace
  <2>4. \A w \in Working : w[2] # s
    BY <2>3 DEF Working
  <2>5. Taken' = Taken \ {s}
    BY <1>t, <2>1 DEF TypeOK, Taken, NoRow
  <2>6. Scope!Clear(s)
    BY <2>2, <2>4, <2>5 DEF Scope!Clear
  <2> QED
    BY <2>6 DEF Scope!Next
<1> QED
  BY <1>1, <1>2, <1>3, <1>4, <1>5, <1>6, <1>7, <1>8, <1>9, <1>10 DEF Next, Step

\* With a database that answers within CallBound the rows, renewals, releases and
\* the reaper of postgres_execution_leases.rs implement a lease scope: no slot is
\* ever worked under by two invocations.
THEOREM ScopeKept == Spec => KeepsScope
<1>1. Init => Scope!Init
  BY SlotFacts DEF Init, Scope!Init, Taken, Working, NoRow
<1>2. SafeInv /\ (Timing => HoldersInv) /\ [Next]_vars => [Scope!Next]_(Scope!vars)
  BY ScopeStep
<1> QED
  BY <1>1, <1>2, SafeInvariance, TimelyInvariance, PTL DEF Spec, KeepsScope, Scope!Spec

=============================================================================
