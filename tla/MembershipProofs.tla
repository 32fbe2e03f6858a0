-------------------------- MODULE MembershipProofs --------------------------
(* Proofs about Membership, for every set of replicas, builds, fingerprints  *)
(* and demands, every stale window and every number of faults.               *)
EXTENDS Membership, TLAPS

\* A row that has not lapsed is live and not draining.
Fresh(r) == Present(r) /\ row[r].age < Window /\ ~row[r].draining

\* Who has heard that its row was written had the row, or has lapsed.
Heard == \A r \in Replicas :
    PastDoor(r) \/ at[r] \in {"bootcheck", "check"} => r \in lapsed \/ Present(r)

Unlapsed == \A r \in Replicas : Present(r) /\ r \notin lapsed => Fresh(r)

\* While the raise holds the fence row, every row that the raised fence would
\* exclude was stale at the raise's now(), and no statement can refresh it.
Decided == raise.step = "locked" =>
    \A r \in Replicas :
        LiveSince(r, raise.age) => fence \cup raise.need \subseteq Implements[r]

IInv == TypeOK /\ NoExcludedLive /\ Decided /\ Heard /\ Unlapsed /\ JoinGate

-----------------------------------------------------------------------------
(* Facts about ages and rows                                                 *)

LEMMA CapFacts == /\ Window \in Nat \ {0} /\ MaxWait \in Nat /\ Cap \in Nat
                  /\ Cap = Window + MaxWait /\ 0 \in Ages
BY TimesAssumption DEF Cap, Ages

LEMMA OlderType == ASSUME NEW a \in Ages PROVE Older(a) \in Ages /\ Older(a) >= a
BY CapFacts DEF Older, Ages

\* A row is NoRow, or a record with an age and a draining stamp.
LEMMA RowCases ==
    ASSUME TypeOK, NEW r \in Replicas
    PROVE  \/ row[r] = NoRow /\ ~Present(r)
           \/ /\ Present(r) /\ row[r].age \in Ages /\ row[r].draining \in BOOLEAN
              /\ row[r] \in [live : {TRUE}, age : Ages, draining : BOOLEAN]
BY DEF TypeOK, Rows, Present

LEMMA PresentAge ==
    ASSUME TypeOK, NEW r \in Replicas, Present(r)
    PROVE  row[r].age \in Nat
<1>1. row[r].age \in Ages
    BY RowCases
<1> QED BY <1>1, CapFacts DEF Ages

\* Such a record is never NoRow.
LEMMA RecordIsRow ==
    ASSUME NEW a \in Ages, NEW d \in BOOLEAN
    PROVE  /\ [live |-> TRUE, age |-> a, draining |-> d] \in Rows
           /\ [live |-> TRUE, age |-> a, draining |-> d] # NoRow
<1>1. [live |-> TRUE, age |-> a, draining |-> d].live = TRUE
    OBVIOUS
<1>2. NoRow.live = FALSE
    BY DEF NoRow
<1> QED BY <1>1, <1>2 DEF Rows

\* A statement leaves the row as it is, or refreshes it if the fence admits the
\* build; it never removes a row, and an admitted heartbeat leaves one.
LEMMA AfterFacts ==
    ASSUME TypeOK, NEW r \in Replicas, NEW kind \in Statements, NEW age \in Ages
    PROVE  /\ After(r, kind, age) \in Rows
           /\ After(r, kind, age) = row[r] \/ (Admits(r) /\ After(r, kind, age) # NoRow)
           /\ Present(r) => After(r, kind, age) # NoRow
           /\ (kind \in {"boot", "beat"} /\ Admits(r)) => After(r, kind, age) # NoRow
<1>1. row[r] \in Rows
    BY DEF TypeOK
<1>2. CASE ~Admits(r)
    <2>1. After(r, kind, age) = row[r]
        BY <1>2 DEF After, Stamped
    <2> QED BY <1>1, <1>2, <2>1 DEF Present
<1>3. CASE Admits(r)
    <2>1. CASE kind \in {"stamp", "drain"} /\ ~Present(r)
        <3>1. After(r, kind, age) = row[r]
            BY <2>1 DEF After, Stamped
        <3>2. kind \notin {"boot", "beat"}
            BY <2>1
        <3> QED BY <1>1, <2>1, <3>1, <3>2
    <2>2. CASE kind \in {"stamp", "drain"} /\ Present(r)
        <3>1. (row[r].draining \/ kind = "drain") \in BOOLEAN
            OBVIOUS
        <3>2. After(r, kind, age) = [live |-> TRUE, age |-> age,
                                     draining |-> row[r].draining \/ kind = "drain"]
            BY <1>3, <2>2 DEF After, Stamped
        <3> QED BY <1>3, <2>2, <3>1, <3>2, RecordIsRow
    <2>3. CASE kind \notin {"stamp", "drain"}
        <3>1. (Present(r) /\ row[r].draining) \in BOOLEAN
            OBVIOUS
        <3>2. After(r, kind, age) = [live |-> TRUE, age |-> age,
                                     draining |-> Present(r) /\ row[r].draining]
            BY <1>3, <2>3 DEF After, Beaten
        <3> QED BY <1>3, <3>1, <3>2, RecordIsRow
    <2> QED BY <2>1, <2>2, <2>3
<1> QED BY <1>2, <1>3

LEMMA AgedFacts ==
    ASSUME TypeOK, NEW r \in Replicas
    PROVE  /\ Aged(r) \in Rows
           /\ Present(r) => /\ Aged(r) # NoRow
                            /\ Aged(r).age = Older(row[r].age)
           /\ ~Present(r) => Aged(r) = NoRow
<1>1. CASE ~Present(r)
    BY <1>1 DEF Aged, Rows
<1>2. CASE Present(r)
    <2>1. /\ row[r].age \in Ages /\ row[r].draining \in BOOLEAN
          /\ row[r] \in [live : {TRUE}, age : Ages, draining : BOOLEAN]
        BY <1>2, RowCases
    <2>2. Aged(r) = [live |-> TRUE, age |-> Older(row[r].age), draining |-> row[r].draining]
        BY <1>2, <2>1 DEF Aged
    <2>3. Older(row[r].age) \in Ages
        BY <2>1, OlderType
    <2>4. /\ [live |-> TRUE, age |-> Older(row[r].age), draining |-> row[r].draining] \in Rows
          /\ [live |-> TRUE, age |-> Older(row[r].age), draining |-> row[r].draining] # NoRow
        BY <2>1, <2>3, RecordIsRow
    <2> QED BY <1>2, <2>2, <2>4
<1> QED BY <1>1, <1>2

-----------------------------------------------------------------------------
(* Type correctness                                                          *)

LEMMA GoesType ==
    ASSUME TypeOK, NEW r \in Replicas, NEW step \in Steps, Goes(r, step)
    PROVE  at' \in [Replicas -> Steps] /\ call' \in [Replicas -> Ages]
BY CapFacts DEF TypeOK, Goes

LEMMA EndsType ==
    ASSUME TypeOK, NEW r \in Replicas, Ends(r)
    PROVE  /\ at' \in [Replicas -> Steps] /\ call' \in [Replicas -> Ages]
           /\ agreed' \in [Replicas -> BOOLEAN]
           /\ fenced' \in [Replicas -> BOOLEAN]
           /\ recorded' \in [Replicas -> BOOLEAN]
<1>1. at' \in [Replicas -> Steps] /\ call' \in [Replicas -> Ages]
    BY GoesType DEF Ends, Steps
<1> QED BY <1>1 DEF TypeOK, Ends

LEMMA StrayedType ==
    ASSUME TypeOK, NEW r \in Replicas, Strayed(r)
    PROVE  strays' \in SUBSET Strays
BY DEF TypeOK, Strayed, Strays

LEMMA LapsesType ==
    ASSUME TypeOK, Lapses
    PROVE  lapsed' \in SUBSET Replicas
BY DEF TypeOK, Lapses

LEMMA OnwardType ==
    ASSUME NEW r, NEW known
    PROVE  Onward(r, known) \subseteq Steps
BY DEF Onward, Steps, Statements

\* Every step of a replica's task keeps the types.
LEMMA TaskType ==
    ASSUME TypeOK, NEW r \in Replicas, Task(r), Lapses
    PROVE  TypeOK'
<1>0. lapsed' \in SUBSET Replicas
    BY LapsesType
<1>1. CASE StartsUp(r)
    <2>1. at' \in [Replicas -> Steps] /\ call' \in [Replicas -> Ages]
        BY <1>1, GoesType DEF StartsUp, Steps
    <2> QED BY <1>0, <1>1, <2>1 DEF StartsUp, TypeOK
<1>2. CASE SendsHeartbeat(r)
    <2>1. at' \in [Replicas -> Steps] /\ call' \in [Replicas -> Ages]
        BY <1>2, GoesType DEF SendsHeartbeat, Steps, Statements
    <2> QED BY <1>0, <1>2, <2>1 DEF SendsHeartbeat, TypeOK
<1>3. CASE HeartbeatLands(r)
    <2>1. row' \in [Replicas -> Rows]
        <3>1. After(r, at[r], call[r]) \in Rows
            BY <1>3, AfterFacts DEF HeartbeatLands, TypeOK, Statements
        <3> QED BY <1>3, <3>1 DEF HeartbeatLands, TypeOK
    <2>2. /\ at' \in [Replicas -> Steps] /\ call' \in [Replicas -> Ages]
          /\ agreed' \in [Replicas -> BOOLEAN]
          /\ fenced' \in [Replicas -> BOOLEAN]
          /\ recorded' \in [Replicas -> BOOLEAN]
        <3>1. CASE Admits(r)
            <4>1. PICK step \in Written(r) : Goes(r, step)
                BY <1>3, <3>1 DEF HeartbeatLands
            <4>2. step \in Steps
                BY OnwardType DEF Written, Steps
            <4> QED BY <1>3, <3>1, <4>1, <4>2, GoesType DEF HeartbeatLands, TypeOK
        <3>2. CASE ~Admits(r) /\ at[r] = "boot"
            BY <1>3, <3>2, EndsType DEF HeartbeatLands
        <3>3. CASE ~Admits(r) /\ at[r] # "boot"
            <4>1. at' \in [Replicas -> Steps] /\ call' \in [Replicas -> Ages]
                BY <1>3, <3>3, GoesType DEF HeartbeatLands, Steps
            <4> QED BY <1>3, <3>3, <4>1 DEF HeartbeatLands, TypeOK
        <3> QED BY <3>1, <3>2, <3>3
    <2> QED BY <1>0, <1>3, <2>1, <2>2 DEF HeartbeatLands, TypeOK
<1>4. CASE Checks(r)
    <2>1. at' \in [Replicas -> Steps] /\ call' \in [Replicas -> Ages]
        BY <1>4, GoesType DEF Checks, Steps
    <2> QED BY <1>0, <1>4, <2>1 DEF Checks, TypeOK
<1>10. CASE AdmissionApplied(r)
    <2>1. PICK step \in Onward(r, at[r] = "admit") : Goes(r, step)
        BY <1>10 DEF AdmissionApplied
    <2>2. at' \in [Replicas -> Steps] /\ call' \in [Replicas -> Ages]
        BY <2>1, OnwardType, GoesType
    <2>3. agreed' \in [Replicas -> BOOLEAN]
        BY <1>10 DEF AdmissionApplied, TypeOK
    <2> QED BY <1>0, <1>10, <2>2, <2>3 DEF AdmissionApplied, TypeOK
<1>5. CASE ReadyStampLands(r)
    <2>1. After(r, "stamp", call[r]) \in Rows
        BY AfterFacts DEF TypeOK, Statements
    <2>2. at' \in [Replicas -> Steps] /\ call' \in [Replicas -> Ages]
        BY <1>5, GoesType DEF ReadyStampLands, Steps
    <2> QED BY <1>0, <1>5, <2>1, <2>2 DEF ReadyStampLands, TypeOK
<1>6. CASE Drains(r)
    <2>1. CASE fenced[r]
        <3>1. Ends(r)
            BY <1>6, <2>1 DEF Drains
        <3> QED BY <1>0, <1>6, <3>1, EndsType DEF Drains, TypeOK
    <2>2. CASE ~fenced[r]
        <3>1. at' \in [Replicas -> Steps] /\ call' \in [Replicas -> Ages]
            BY <1>6, <2>2, GoesType DEF Drains, Steps, Statements
        <3> QED BY <1>0, <1>6, <2>2, <3>1 DEF Drains, TypeOK
    <2> QED BY <2>1, <2>2
<1>7. CASE DrainStampLands(r)
    <2>1. After(r, "drain", call[r]) \in Rows
        BY AfterFacts DEF TypeOK, Statements
    <2> QED BY <1>0, <1>7, <2>1, EndsType DEF DrainStampLands, TypeOK
<1>8. CASE CallFails(r)
    <2>1. strays' \in SUBSET Strays
        BY <1>8, StrayedType DEF CallFails
    <2>2. CASE at[r] = "drain"
        <3>1. Ends(r)
            BY <1>8, <2>2 DEF CallFails
        <3> QED BY <1>0, <1>8, <2>1, <3>1, EndsType DEF CallFails, TypeOK
    <2>3. CASE at[r] # "drain"
        <3>1. at' \in [Replicas -> Steps] /\ call' \in [Replicas -> Ages]
            BY <1>8, <2>3, GoesType DEF CallFails, Steps, Statements
        <3> QED BY <1>0, <1>8, <2>1, <2>3, <3>1 DEF CallFails, TypeOK
    <2> QED BY <2>2, <2>3
<1>9. CASE Crashes(r)
    <2>1. strays' \in SUBSET Strays
        BY <1>9, StrayedType DEF Crashes
    <2>2. Ends(r)
        BY <1>9 DEF Crashes
    <2> QED BY <1>0, <1>9, <2>1, <2>2, EndsType DEF Crashes, TypeOK
<1> QED BY <1>1, <1>2, <1>3, <1>4, <1>5, <1>6, <1>7, <1>8, <1>9, <1>10 DEF Task

\* So does every other step.
LEMMA OtherType ==
    ASSUME TypeOK, Lapses,
           (\E q \in strays : StrayLands(q)) \/ Raise \/ SweepSelects \/ SweepDeletes \/ Tick
    PROVE  TypeOK'
<1>0. lapsed' \in SUBSET Replicas
    BY LapsesType
<1>1. ASSUME NEW q \in strays, StrayLands(q) PROVE TypeOK'
    <2>1. q \in Strays /\ q.of \in Replicas /\ q.kind \in Statements /\ q.age \in Ages
        BY DEF TypeOK, Strays
    <2>2. After(q.of, q.kind, q.age) \in Rows
        BY <2>1, AfterFacts
    <2> QED BY <1>0, <1>1, <2>1, <2>2 DEF StrayLands, TypeOK, task
<1>2. CASE Raise
    <2>1. ASSUME NEW by \in SUBSET Replicas, NEW need \in SUBSET Demands,
                 RaiseBegins(by, need)
          PROVE  TypeOK'
        BY <1>0, <2>1, CapFacts DEF RaiseBegins, TypeOK, Raises, task
    <2>2. CASE RaiseDecides
        BY <1>0, <2>2 DEF RaiseDecides, TypeOK, Raises, Idle, task
    <2>3. CASE RaiseCommits
        BY <1>0, <2>3 DEF RaiseCommits, TypeOK, Raises, Idle, task
    <2>4. CASE RaiseFails
        BY <1>0, <2>4 DEF RaiseFails, TypeOK, task
    <2> QED BY <1>2, <2>1, <2>2, <2>3, <2>4 DEF Raise
<1>3. CASE SweepSelects
    BY <1>0, <1>3 DEF SweepSelects, TypeOK, task
<1>4. CASE SweepDeletes
    BY <1>0, <1>4 DEF SweepDeletes, TypeOK, Rows, task
<1>5. CASE Tick
    <2>1. row' \in [Replicas -> Rows]
        BY <1>5, AgedFacts DEF Tick
    <2>2. call' \in [Replicas -> Ages]
        BY <1>5, OlderType, CapFacts DEF Tick, TypeOK
    <2>3. raise' \in Raises \cup {Idle}
        BY <1>5, OlderType DEF Tick, TypeOK, Raises, Idle
    <2>4. strays' \in SUBSET Strays
        <3>1. ASSUME NEW q \in strays PROVE [q EXCEPT !.age = Older(q.age)] \in Strays
            <4>1. q \in Strays /\ q.age \in Ages
                BY DEF TypeOK, Strays
            <4> QED BY <4>1, OlderType DEF Strays
        <3> QED BY <1>5, <3>1 DEF Tick
    <2> QED BY <1>0, <1>5, <2>1, <2>2, <2>3, <2>4 DEF Tick, TypeOK
<1> QED BY <1>1, <1>2, <1>3, <1>4, <1>5

LEMMA TypeStep == TypeOK /\ [Next]_vars => TypeOK'
<1> SUFFICES ASSUME TypeOK, [Next]_vars PROVE TypeOK'
    OBVIOUS
<1>1. CASE Next
    BY <1>1, TaskType, OtherType DEF Next, Step
<1>2. CASE UNCHANGED vars
    BY <1>2 DEF vars, TypeOK
<1> QED BY <1>1, <1>2

LEMMA InitType == Init => TypeOK
BY CapFacts DEF Init, TypeOK, Steps, Rows

\* Type correctness of rows, statements and the raise: in particular no age
\* leaves the range in which readers tell ages apart.
THEOREM TypeCorrect == Spec => []TypeOK
BY InitType, TypeStep, PTL DEF Spec

-----------------------------------------------------------------------------
(* The history of lapses                                                     *)

\* Who has a row, or has lapsed, stays so: a row that goes away is a lapse.
LEMMA LapseKept ==
    ASSUME Lapses, NEW r \in Replicas, r \in lapsed \/ Present(r)
    PROVE  r \in lapsed' \/ Present(r)'
BY DEF Lapses, Present

\* After any step, a row outside the history is live and not draining.
LEMMA UnlapsedStep ==
    ASSUME TypeOK', Lapses
    PROVE  Unlapsed'
<1> SUFFICES ASSUME NEW r \in Replicas, Present(r)', r \notin lapsed'
             PROVE  Fresh(r)'
    BY DEF Unlapsed
<1>1. row'[r] # NoRow /\ row'[r].age \in Ages
    BY DEF Present, TypeOK, Rows
<1>2. ~(row'[r].age >= Window) /\ ~row'[r].draining
    BY <1>1 DEF Lapses
<1>3. row'[r].age < Window
    BY <1>1, <1>2, CapFacts DEF Ages
<1> QED BY <1>1, <1>2, <1>3 DEF Fresh, Present

-----------------------------------------------------------------------------
(* The fence                                                                 *)

\* A step in which one row is left or refreshed by a statement that met a free
\* fence, and fence and raise stand still.
LEMMA RefreshStep ==
    ASSUME TypeOK, NoExcludedLive, FenceFree, UNCHANGED <<fence, raise>>,
           NEW r \in Replicas, NEW kind \in Statements, NEW age \in Ages,
           row' = [row EXCEPT ![r] = After(r, kind, age)]
    PROVE  NoExcludedLive' /\ Decided'
<1>1. Decided'
    BY DEF Decided, FenceFree
<1>2. ASSUME NEW s \in Replicas, Live(s)' PROVE Admits(s)'
    <2>1. CASE s = r
        <3>1. After(r, kind, age) = row[r] \/ Admits(r)
            BY AfterFacts
        <3>2. CASE After(r, kind, age) = row[r]
            <4>1. row'[r] = row[r]
                BY <3>2 DEF TypeOK
            <4>2. Live(r)
                BY <1>2, <2>1, <4>1 DEF Live, LiveSince, Present
            <4> QED BY <2>1, <4>2 DEF NoExcludedLive, Admits
        <3> QED BY <2>1, <3>1, <3>2 DEF Admits
    <2>2. CASE s # r
        <3>1. row'[s] = row[s]
            BY <2>2 DEF TypeOK
        <3>2. Live(s)
            BY <1>2, <3>1 DEF Live, LiveSince, Present
        <3> QED BY <3>2 DEF NoExcludedLive, Admits
    <2> QED BY <2>1, <2>2
<1> QED BY <1>1, <1>2 DEF NoExcludedLive

\* A step that leaves rows, fence and raise alone.
LEMMA QuietStep ==
    ASSUME NoExcludedLive, Decided, UNCHANGED <<row, fence, raise>>
    PROVE  NoExcludedLive' /\ Decided'
BY DEF NoExcludedLive, Decided, Live, LiveSince, Present, Admits

LEMMA TaskFence ==
    ASSUME TypeOK, NoExcludedLive, Decided, NEW r \in Replicas, Task(r)
    PROVE  NoExcludedLive' /\ Decided'
<1>1. call[r] \in Ages
    BY DEF TypeOK
<1>2. CASE HeartbeatLands(r)
    <2>1. /\ at[r] \in Statements /\ FenceFree /\ UNCHANGED <<fence, raise>>
          /\ row' = [row EXCEPT ![r] = After(r, at[r], call[r])]
        BY <1>2 DEF HeartbeatLands, Statements
    <2> QED BY <1>1, <2>1, RefreshStep
<1>3. CASE ReadyStampLands(r)
    <2>1. /\ "stamp" \in Statements /\ FenceFree /\ UNCHANGED <<fence, raise>>
          /\ row' = [row EXCEPT ![r] = After(r, "stamp", call[r])]
        BY <1>3 DEF ReadyStampLands, Statements
    <2> QED BY <1>1, <2>1, RefreshStep
<1>4. CASE DrainStampLands(r)
    <2>1. /\ "drain" \in Statements /\ FenceFree /\ UNCHANGED <<fence, raise>>
          /\ row' = [row EXCEPT ![r] = After(r, "drain", call[r])]
        BY <1>4 DEF DrainStampLands, Statements
    <2> QED BY <1>1, <2>1, RefreshStep
<1>5. CASE StartsUp(r) \/ SendsHeartbeat(r) \/ Checks(r) \/ AdmissionApplied(r) \/ Drains(r)
    <2>1. UNCHANGED <<row, fence, raise>>
        BY <1>5 DEF StartsUp, SendsHeartbeat, Checks, AdmissionApplied, Drains
    <2> QED BY <2>1, QuietStep
<1>6. CASE CallFails(r) \/ Crashes(r)
    <2>1. UNCHANGED <<row, fence, raise>>
        BY <1>6 DEF CallFails, Crashes
    <2> QED BY <2>1, QuietStep
<1> QED BY <1>2, <1>3, <1>4, <1>5, <1>6 DEF Task

\* The raise: what it decides under the lock still holds when it commits.
LEMMA RaiseFence ==
    ASSUME TypeOK, NoExcludedLive, Decided, Raise
    PROVE  NoExcludedLive' /\ Decided'
<1>1. ASSUME NEW by \in SUBSET Replicas, NEW need \in SUBSET Demands, RaiseBegins(by, need)
      PROVE  NoExcludedLive' /\ Decided'
    <2>1. UNCHANGED <<row, fence>> /\ raise'.step = "begun"
        BY <1>1 DEF RaiseBegins
    <2> QED BY <2>1 DEF NoExcludedLive, Decided, Live, LiveSince, Present, Admits
<1>2. CASE RaiseDecides
    <2>1. UNCHANGED <<row, fence>>
        BY <1>2 DEF RaiseDecides
    <2>2. NoExcludedLive'
        BY <2>1 DEF NoExcludedLive, Live, LiveSince, Present, Admits
    <2>3. CASE raise'.step = "locked"
        <3>1. raise # Idle
            BY <1>2 DEF RaiseDecides, Idle
        <3>2. raise \in Raises
            BY <3>1 DEF TypeOK
        <3>3. raise' # Idle
            BY <2>3 DEF Idle
        <3>4. ~Refused /\ raise' = [raise EXCEPT !.step = "locked"]
            BY <1>2, <3>3 DEF RaiseDecides
        <3>5. raise'.age = raise.age /\ raise'.need = raise.need
            BY <3>2, <3>4 DEF Raises
        <3> QED BY <2>1, <2>2, <3>4, <3>5 DEF Decided, Refused, LiveSince, Present
    <2> QED BY <2>2, <2>3 DEF Decided
<1>3. CASE RaiseCommits
    <2>1. raise.step = "locked" /\ raise' = Idle /\ fence' = fence \cup raise.need
        BY <1>3 DEF RaiseCommits
    <2>2. raise.age \in Nat
        BY <2>1, CapFacts DEF TypeOK, Raises, Idle, Ages
    <2>3. ASSUME NEW r \in Replicas, Live(r)' PROVE Admits(r)'
        <3>1. Live(r)
            BY <1>3, <2>3 DEF RaiseCommits, Live, LiveSince, Present
        <3>2. row[r].age \in Nat
            BY <3>1, PresentAge DEF Live, LiveSince
        <3>3. LiveSince(r, raise.age)
            BY <2>2, <3>1, <3>2, CapFacts DEF Live, LiveSince
        <3> QED BY <2>1, <3>3 DEF Decided, Admits
    <2>4. Decided'
        BY <2>1 DEF Decided, Idle
    <2> QED BY <2>3, <2>4 DEF NoExcludedLive
<1>4. CASE RaiseFails
    <2>1. UNCHANGED <<row, fence>> /\ raise' = Idle
        BY <1>4 DEF RaiseFails
    <2> QED BY <2>1 DEF NoExcludedLive, Decided, Live, LiveSince, Present, Admits, Idle
<1> QED BY <1>1, <1>2, <1>3, <1>4 DEF Raise

\* Sweeping takes rows away; time makes a row stale and never live again.
LEMMA TimeFence ==
    ASSUME TypeOK, NoExcludedLive, Decided, SweepSelects \/ SweepDeletes \/ Tick
    PROVE  NoExcludedLive' /\ Decided'
<1>1. CASE SweepSelects
    BY <1>1, QuietStep DEF SweepSelects
<1>2. CASE SweepDeletes
    <2>1. UNCHANGED <<fence, raise>> /\ \A r \in Replicas : row'[r] = NoRow \/ row'[r] = row[r]
        BY <1>2 DEF SweepDeletes
    <2> QED BY <2>1 DEF NoExcludedLive, Decided, Live, LiveSince, Present, Admits
<1>3. CASE Tick
    <2>1. fence' = fence /\ \A r \in Replicas : row'[r] = Aged(r)
        BY <1>3 DEF Tick
    <2>2. ASSUME NEW r \in Replicas, row'[r] # NoRow
          PROVE  /\ Present(r) /\ row[r].age \in Ages
                 /\ row'[r].age = Older(row[r].age)
        BY <2>1, <2>2, AgedFacts, RowCases
    <2>3. ASSUME NEW r \in Replicas, Live(r)' PROVE Admits(r)'
        <3>1. Present(r) /\ row[r].age \in Ages /\ Older(row[r].age) < Window
            BY <2>2, <2>3, OlderType, CapFacts DEF Live, LiveSince, Present, Ages
        <3>2. Live(r)
            BY <3>1, OlderType, CapFacts DEF Live, LiveSince, Ages
        <3> QED BY <2>1, <3>2 DEF NoExcludedLive, Admits
    <2>4. ASSUME raise'.step = "locked", NEW r \in Replicas, LiveSince(r, raise.age)'
          PROVE  fence' \cup raise'.need \subseteq Implements[r]
        <3>1. raise.step # "idle"
            BY <1>3, <2>4 DEF Tick, Idle
        <3>2. raise \in Raises
            BY <3>1 DEF TypeOK, Idle
        <3>3. /\ raise' = [raise EXCEPT !.age = Older(raise.age)]
              /\ raise.age < MaxWait /\ raise.age \in Ages
            BY <1>3, <3>1, <3>2 DEF Tick, Raises
        <3>4. /\ raise'.age = raise.age + 1 /\ raise.step = "locked"
              /\ raise'.need = raise.need
            BY <2>4, <3>2, <3>3, CapFacts DEF Older, Raises, Ages
        <3>5. /\ Present(r) /\ row[r].age \in Ages
              /\ Older(row[r].age) - (raise.age + 1) < Window
            BY <2>2, <2>4, <3>4 DEF LiveSince, Present
        <3>6. row[r].age - raise.age < Window
            BY <3>3, <3>5, CapFacts DEF Older, Ages
        <3> QED BY <2>1, <3>4, <3>5, <3>6 DEF Decided, LiveSince
    <2> QED BY <2>3, <2>4 DEF NoExcludedLive, Decided
<1> QED BY <1>1, <1>2, <1>3

LEMMA StrayFence ==
    ASSUME TypeOK, NoExcludedLive, Decided, NEW q \in strays, StrayLands(q)
    PROVE  NoExcludedLive' /\ Decided'
<1>1. q.of \in Replicas /\ q.kind \in Statements /\ q.age \in Ages
    BY DEF TypeOK, Strays
<1>2. /\ FenceFree /\ UNCHANGED <<fence, raise>>
      /\ row' = [row EXCEPT ![q.of] = After(q.of, q.kind, q.age)]
    BY DEF StrayLands
<1> QED BY <1>1, <1>2, RefreshStep

-----------------------------------------------------------------------------
(* The door                                                                  *)

\* A step after which nobody new is past the door or about to ask.
LEMMA DoorQuiet ==
    ASSUME Heard, JoinGate, Lapses,
           \A r \in Replicas : PastDoor(r)' => PastDoor(r),
           \A r \in Replicas : at'[r] \in {"bootcheck", "check"} =>
                                  at[r] \in {"bootcheck", "check"}
    PROVE  Heard' /\ JoinGate'
<1>1. Heard'
    BY LapseKept DEF Heard
<1>2. \A r \in Replicas : r \in lapsed => r \in lapsed'
    BY DEF Lapses
<1>3. JoinGate'
    BY <1>2 DEF JoinGate
<1> QED BY <1>1, <1>3

\* What the steps of a task do to the state that the door is about.
LEMMA TaskDoor ==
    ASSUME TypeOK, Heard, Unlapsed, JoinGate, Lapses, NEW r \in Replicas, Task(r)
    PROVE  Heard' /\ JoinGate'
<1>0. ASSUME Ends(r)
      PROVE  /\ \A s \in Replicas : PastDoor(s)' => PastDoor(s)
             /\ \A s \in Replicas : at'[s] \in {"bootcheck", "check"} =>
                                        at[s] \in {"bootcheck", "check"}
    BY <1>0 DEF Ends, Goes, TypeOK, PastDoor
<1>1. CASE StartsUp(r)
    BY <1>1, DoorQuiet DEF StartsUp, Goes, TypeOK, PastDoor
<1>2. CASE SendsHeartbeat(r)
    BY <1>2, DoorQuiet DEF SendsHeartbeat, Goes, TypeOK, PastDoor
<1>3. CASE HeartbeatLands(r)
    <2>1. CASE Admits(r)
        <3>1. /\ \A s \in Replicas : s # r => at'[s] = at[s]
              /\ \A s \in Replicas : PastDoor(s)' => PastDoor(s)
            <4>1. PICK step \in Written(r) : Goes(r, step)
                BY <1>3, <2>1 DEF HeartbeatLands
            <4>2. step \notin {"bootadmit", "admit"}
                BY DEF Written, Onward
            <4>3. /\ agreed' = agreed /\ at' = [at EXCEPT ![r] = step]
                  /\ at \in [Replicas -> Steps]
                BY <1>3, <2>1, <4>1 DEF HeartbeatLands, Goes, TypeOK
            <4> QED BY <4>2, <4>3 DEF PastDoor
        <3>2. Present(r)'
            <4>1. After(r, at[r], call[r]) # NoRow
                BY <1>3, <2>1, AfterFacts DEF HeartbeatLands, TypeOK, Statements
            <4> QED BY <1>3, <4>1 DEF HeartbeatLands, Present, TypeOK
        <3>3. Heard'
            BY <3>1, <3>2, LapseKept DEF Heard
        <3>4. \A s \in Replicas : s \in lapsed => s \in lapsed'
            BY DEF Lapses
        <3>5. JoinGate'
            BY <3>1, <3>4 DEF JoinGate
        <3> QED BY <3>3, <3>5
    <2>2. CASE ~Admits(r) /\ at[r] = "boot"
        BY <1>0, <1>3, <2>2, DoorQuiet DEF HeartbeatLands
    <2>3. CASE ~Admits(r) /\ at[r] # "boot"
        BY <1>3, <2>3, DoorQuiet DEF HeartbeatLands, Goes, TypeOK, PastDoor
    <2> QED BY <2>1, <2>2, <2>3
<1>4. CASE Checks(r)
    <2>1. r \in lapsed \/ Present(r)
        BY <1>4 DEF Checks, Heard
    <2>2. PICK step \in Steps : Goes(r, step) /\ step \notin {"bootcheck", "check"}
        BY <1>4 DEF Checks, Steps
    <2>3. \A s \in Replicas : s # r => /\ at'[s] = at[s]
                                       /\ PastDoor(s)' => PastDoor(s)
        BY <1>4, <2>2 DEF Checks, Goes, TypeOK, PastDoor
    <2>4. \A s \in Replicas : s \in lapsed \/ Present(s) => s \in lapsed' \/ Present(s)'
        BY LapseKept
    <2>5. Heard'
        BY <2>1, <2>3, <2>4 DEF Heard
    <2>6. \A s \in Replicas : s \in lapsed => s \in lapsed'
        BY DEF Lapses
    <2>7. ASSUME PastDoor(r)', NEW s \in Replicas, PastDoor(s), s # r,
                 Fingerprint[s] # Fingerprint[r]
          PROVE  s \in lapsed \/ r \in lapsed
        <3>1. CASE Disagreeing(r) = {}
            <4>1. ~(Live(s) /\ ~row[s].draining)
                BY <2>7, <3>1 DEF Disagreeing
            <4>2. ~Fresh(s)
                <5>1. Fresh(s) => Live(s) /\ ~row[s].draining
                    BY PresentAge, CapFacts DEF Fresh, Live, LiveSince
                <5> QED BY <4>1, <5>1
            <4>3. s \in lapsed \/ Present(s)
                BY <2>7 DEF Heard
            <4> QED BY <4>2, <4>3 DEF Unlapsed
        <3>2. CASE Disagreeing(r) # {}
            <4>1. at'[r] = "idle" /\ agreed' = agreed
                BY <1>4, <3>2 DEF Checks, Goes, TypeOK
            <4>2. PastDoor(r)
                BY <2>7, <4>1 DEF PastDoor
            <4> QED BY <2>7, <4>2 DEF JoinGate
        <3> QED BY <3>1, <3>2
    <2>8. JoinGate'
        <3> SUFFICES ASSUME NEW p \in Replicas, NEW s \in Replicas,
                            PastDoor(p)', PastDoor(s)', Fingerprint[p] # Fingerprint[s]
                     PROVE  p \in lapsed' \/ s \in lapsed'
            BY DEF JoinGate
        <3>1. CASE p # r /\ s # r
            BY <2>3, <2>6, <3>1 DEF JoinGate
        <3>2. CASE p = r
            BY <2>3, <2>6, <2>7, <3>2
        <3>3. CASE s = r
            BY <2>3, <2>6, <2>7, <3>3
        <3> QED BY <3>1, <3>2, <3>3
    <2> QED BY <2>5, <2>8
<1>10. CASE AdmissionApplied(r)
    <2>1. PICK step \in Onward(r, at[r] = "admit") : Goes(r, step)
        BY <1>10 DEF AdmissionApplied
    <2>2. step \notin {"bootcheck", "check", "bootadmit", "admit"}
        BY DEF Onward
    <2>3. /\ PastDoor(r) /\ agreed' = [agreed EXCEPT ![r] = TRUE]
          /\ at' = [at EXCEPT ![r] = step]
          /\ at \in [Replicas -> Steps] /\ agreed \in [Replicas -> BOOLEAN]
        BY <1>10, <2>1 DEF AdmissionApplied, Goes, TypeOK, PastDoor
    <2>4. \A s \in Replicas : PastDoor(s)' => PastDoor(s)
        BY <2>2, <2>3 DEF PastDoor
    <2>5. \A s \in Replicas : at'[s] \in {"bootcheck", "check"} => at[s] \in {"bootcheck", "check"}
        BY <2>2, <2>3
    <2> QED BY <2>4, <2>5, DoorQuiet
<1>5. CASE ReadyStampLands(r)
    BY <1>5, DoorQuiet DEF ReadyStampLands, Goes, TypeOK, PastDoor
<1>6. CASE Drains(r)
    <2>1. CASE fenced[r]
        BY <1>0, <1>6, <2>1, DoorQuiet DEF Drains
    <2>2. CASE ~fenced[r]
        BY <1>6, <2>2, DoorQuiet DEF Drains, Goes, TypeOK, PastDoor
    <2> QED BY <2>1, <2>2
<1>7. CASE DrainStampLands(r)
    BY <1>0, <1>7, DoorQuiet DEF DrainStampLands
<1>8. CASE CallFails(r)
    <2>1. CASE at[r] = "drain"
        BY <1>0, <1>8, <2>1, DoorQuiet DEF CallFails
    <2>2. CASE at[r] # "drain"
        BY <1>8, <2>2, DoorQuiet DEF CallFails, Goes, TypeOK, PastDoor
    <2> QED BY <2>1, <2>2
<1>9. CASE Crashes(r)
    BY <1>0, <1>9, DoorQuiet DEF Crashes
<1> QED BY <1>1, <1>2, <1>3, <1>4, <1>5, <1>6, <1>7, <1>8, <1>9, <1>10 DEF Task

LEMMA OtherDoor ==
    ASSUME Heard, JoinGate, Lapses,
           (\E q \in strays : StrayLands(q)) \/ Raise \/ SweepSelects \/ SweepDeletes \/ Tick
    PROVE  Heard' /\ JoinGate'
<1>1. UNCHANGED <<at, agreed>>
    BY DEF StrayLands, Raise, RaiseBegins, RaiseDecides, RaiseCommits, RaiseFails,
           SweepSelects, SweepDeletes, Tick, task
<1> QED BY <1>1, DoorQuiet DEF PastDoor

-----------------------------------------------------------------------------
(* The inductive invariant and the theorems                                  *)

LEMMA InitInv == Init => IInv
<1> SUFFICES ASSUME Init PROVE IInv
    OBVIOUS
<1>1. TypeOK
    BY InitType
<1>2. \A r \in Replicas : ~Present(r) /\ ~agreed[r] /\ at[r] = "off"
    BY DEF Init, Present
<1>3. raise.step = "idle"
    BY DEF Init, Idle
<1> QED BY <1>1, <1>2, <1>3 DEF IInv, NoExcludedLive, Live, LiveSince, Decided, Heard,
                               Unlapsed, JoinGate, PastDoor

LEMMA NextInv == IInv /\ [Next]_vars => IInv'
<1> SUFFICES ASSUME IInv, [Next]_vars PROVE IInv'
    OBVIOUS
<1>0. TypeOK /\ NoExcludedLive /\ Decided /\ Heard /\ Unlapsed /\ JoinGate
    BY DEF IInv
<1>1. TypeOK'
    BY <1>0, TypeStep
<1>2. CASE Next
    <2>1. Lapses /\ Step
        BY <1>2 DEF Next
    <2>2. Unlapsed'
        BY <1>1, <2>1, UnlapsedStep
    <2>3. CASE \E r \in Replicas : Task(r)
        <3>1. PICK r \in Replicas : Task(r)
            BY <2>3
        <3>2. NoExcludedLive' /\ Decided'
            BY <1>0, <3>1, TaskFence
        <3>3. Heard' /\ JoinGate'
            BY <1>0, <2>1, <3>1, TaskDoor
        <3> QED BY <1>1, <2>2, <3>2, <3>3 DEF IInv
    <2>4. CASE (\E q \in strays : StrayLands(q)) \/ Raise \/ SweepSelects \/ SweepDeletes \/ Tick
        <3>1. Heard' /\ JoinGate'
            BY <1>0, <2>1, <2>4, OtherDoor
        <3>2. NoExcludedLive' /\ Decided'
            BY <1>0, <2>4, StrayFence, RaiseFence, TimeFence
        <3> QED BY <1>1, <2>2, <3>1, <3>2 DEF IInv
    <2> QED BY <2>1, <2>3, <2>4 DEF Step
<1>3. CASE UNCHANGED vars
    <2>1. NoExcludedLive' /\ Decided'
        BY <1>0, <1>3, QuietStep DEF vars
    <2>2. Heard' /\ Unlapsed' /\ JoinGate'
        BY <1>0, <1>3 DEF vars, Heard, Unlapsed, JoinGate, PastDoor, Fresh, Present
    <2> QED BY <1>1, <2>1, <2>2 DEF IInv
<1> QED BY <1>2, <1>3

THEOREM Inductive == Spec => []IInv
BY InitInv, NextInv, PTL DEF Spec

\* A raise and the heartbeats and stamps of the builds it excludes never miss
\* each other: no excluded build has a live row, at any time.
THEOREM FenceCorrect == Spec => []NoExcludedLive
<1>1. IInv => NoExcludedLive
    BY DEF IInv
<1> QED BY <1>1, Inductive, PTL

\* Two replicas of different configurations are both past the door only when one
\* of them had lapsed, although each reads the roster without a lock and writes its
\* settings before its agreement is recorded.
THEOREM DoorCorrect == Spec => []JoinGate
<1>1. IInv => JoinGate
    BY DEF IInv
<1> QED BY <1>1, Inductive, PTL

=============================================================================
