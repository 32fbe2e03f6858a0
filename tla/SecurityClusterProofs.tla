------------------------ MODULE SecurityClusterProofs ------------------------
(***************************************************************************)
(* SecurityCluster: what the gate serves from, for every set of records,   *)
(* every number of concurrent gates and admin mutations and any number of  *)
(* commits.                                                                *)
(*                                                                         *)
(* The argument: a lane that a pass has looked at, with its counter read   *)
(* before and not moved since, has installed at least what the authority   *)
(* held at the pass's revision (ScanInv); when the counter is read again   *)
(* and has not moved, nothing installed is newer, so each lane is exactly  *)
(* that; and what is installed from then on, while the lanes are captured, *)
(* was taken from the authority by a handler of this replica: its own      *)
(* commit, or the record it read back with a status (CaptureInv).          *)
(***************************************************************************)
EXTENDS SecurityCluster, SequenceTheorems, TLAPS

\* In history h, v is a revision that committed p, or 0: p has no commit.
Real(h, p, v) == v = 0 \/ (v \in 1..Len(h) /\ h[v][p] = v)

\* The shared counter orders the commits: a part's content at a revision is the
\* last commit of that part up to it, and act[l] is the last commit of lane l.
Ordered(h, act) ==
    /\ Len(h) > 0
    /\ \A r \in 1..Len(h) : \A p \in Parts : h[r][p] <= r /\ Real(h, p, h[r][p])
    /\ \A p \in Parts : \A r, s \in 1..Len(h) : r <= s => h[r][p] <= h[s][p]
    /\ \A p \in Parts : \A r \in 1..Len(h) :
        act[LaneOf(p)] <= r => h[r][p] = h[Len(h)][p]
    /\ \A l \in Lanes : act[l] <= Len(h)
    /\ \A p \in Parts : h[Len(h)][p] <= act[LaneOf(p)]
    /\ \A p \in {"policy", "tools"} : h[Len(h)][p] = act[p]

HistoryInv == Ordered(history, activation)

\* What is installed was committed, and is no older than the watermark and the
\* Connection state revision say.
LiveInv ==
    /\ \A p \in Parts :
        /\ Real(history, p, live[p])
        /\ compiled > 0 => history[compiled][p] <= live[p]
        /\ listed > 0 /\ p \in Records => history[listed][p] <= live[p]
    /\ listed <= activation["connections"]
    /\ compiled <= published.revision /\ published.revision <= Counter

\* A handler about to install what it committed or read back: it took that from
\* the authority itself, and for a Connection the mutation_lock, held since before,
\* keeps out every listing, so nothing newer is installed.
WriterInv(w) ==
    /\ wpc[w] = "install" =>
        /\ Real(history, wpart[w], wrevision[w])
        /\ wrevision[w] \in handled \/ wrevision[w] <= published.revision
        /\ wpart[w] \in Records => live[wpart[w]] <= wrevision[w]
    /\ wpc[w] \notin {"idle", "probe"} /\ wpart[w] \in Records => lock["connections"] = w

\* The place of p's lane in the order of the scan.
LaneIndex(p) == IF p = "policy" THEN 1 ELSE IF p = "tools" THEN 2 ELSE 3

Scanning == {"lane", "fetch", "list", "install", "catalogs", "settle"}
Publishing == {"capture", "publish", "mark"}

\* reconcile_lock is held from the scan to the watermark; the bundle is ahead of
\* the watermark only between the two stores of publish.
GateInv(g) ==
    /\ lock["gate"] = g <=> pc[g] \in Scanning \cup Publishing
    /\ pc[g] \notin Scanning \cup Publishing => at[g] = 1
    /\ pc[g] # "idle" => start[g] \in 1..Counter
    /\ pc[g] \notin {"idle", "read"} => start[g] <= current[g] /\ current[g] <= Counter
    /\ pc[g] \in Scanning \cup Publishing => base[g] = compiled /\ compiled < current[g]
    /\ pc[g] \in Scanning \cup {"capture", "publish"} => published.revision = compiled
    /\ pc[g] = "mark" => published.revision = current[g]

\* A pass that has the lock and has not yet settled.
ScanInv(g) ==
    /\ pc[g] \in Scanning /\ ~moved[g] =>
        \A p \in Parts : LaneIndex(p) < at[g] => history[current[g]][p] <= live[p]
    /\ pc[g] \in {"fetch", "list", "install", "catalogs"} => at[g] <= 3
    /\ pc[g] \in {"list", "catalogs"} => at[g] = 3
    /\ pc[g] = "settle" => at[g] = 4 /\ ~moved[g]
    /\ pc[g] \in {"list", "install", "catalogs"} => fetchedAt[g] <= Counter
    /\ pc[g] \in {"list", "install", "catalogs"} /\ at[g] = 3 =>
        listed <= fetchedAt[g] /\ fetchedAt[g] <= activation["connections"]
    /\ pc[g] = "install" /\ at[g] < 3 =>
        /\ Real(history, Resource(g), fetchedAt[g])
        /\ history[current[g]][Resource(g)] <= fetchedAt[g]
    /\ pc[g] = "install" /\ at[g] = 3 =>
        \A p \in Records :
            /\ Real(history, p, fetched[g][p])
            /\ history[current[g]][p] <= fetched[g][p]
            /\ fetchedAt[g] > 0 => history[fetchedAt[g]][p] <= fetched[g][p]
    /\ pc[g] = "catalogs" =>
        \A p \in Records :
            /\ history[current[g]][p] <= live[p]
            /\ fetchedAt[g] > 0 => history[fetchedAt[g]][p] <= live[p]

\* What a bundle of revision r may hold of part p.
Cut(r, p, v) == v = history[r][p] \/ (v > r /\ v \in handled)

\* A pass that has settled: whatever is newer than its revision a handler of
\* this replica took from the authority.
CaptureInv(g) ==
    /\ pc[g] \in {"capture", "publish"} =>
        \A p \in Parts : Cut(current[g], p, live[p])
    /\ pc[g] = "mark" => \A p \in Parts : history[current[g]][p] <= live[p]
    /\ pc[g] = "capture" =>
        /\ at[g] <= 3
        /\ \A p \in Parts : LaneIndex(p) < at[g] => Cut(current[g], p, fetched[g][p])
    /\ pc[g] = "publish" => \A p \in Parts : Cut(current[g], p, fetched[g][p])

SecurityInv ==
    /\ TypeOK
    /\ HistoryInv
    /\ LiveInv
    /\ \A w \in Writers : WriterInv(w)
    /\ \A g \in Gates : GateInv(g) /\ ScanInv(g) /\ CaptureInv(g)
    /\ lock["gate"] = Nobody => published.revision = compiled
    /\ lock["gate"] \in Gates \cup {Nobody}
    /\ BundleIsCut

-----------------------------------------------------------------------------
(* Lanes and the history of the authority                                   *)

LEMMA ResourceFacts ==
    /\ Len(Resources) = 3
    /\ Resources[1] = "policy" /\ Resources[2] = "tools" /\ Resources[3] = "connections"
BY DEF Resources

LEMMA LaneOfType == \A p \in Parts : LaneOf(p) \in Lanes
BY DEF LaneOf, Parts, Lanes

LEMMA DocumentFacts ==
    \A p \in {"policy", "tools"} :
        /\ p \in Parts /\ p \in Lanes /\ LaneOf(p) = p /\ p \notin Records
        /\ \A q \in Parts : LaneOf(q) = p => q = p
BY SecurityAssumption DEF LaneOf, Parts, Lanes

\* A part's lane, and its place in the scan.
LEMMA LaneFacts ==
    ASSUME NEW p \in Parts
    PROVE  /\ LaneIndex(p) \in 1..3
           /\ LaneIndex(p) = 3 <=> p \in Records
           /\ \A i \in 1..3 : Resources[i] = LaneOf(p) <=> i = LaneIndex(p)
<1>1. CASE p \in Records
  BY <1>1, ResourceFacts, SecurityAssumption DEF LaneOf, LaneIndex, Lanes
<1>2. CASE p \in {"policy", "tools"}
  BY <1>2, ResourceFacts, SecurityAssumption DEF LaneOf, LaneIndex, Lanes
<1> QED
  BY <1>1, <1>2 DEF Parts

\* Contents and histories are functions of natural numbers.
LEMMA HistoryTypes ==
    ASSUME NEW h \in Seq(Contents)
    PROVE  /\ Len(h) \in Nat
           /\ \A r \in 1..Len(h) : h[r] \in Contents
           /\ \A r \in 1..Len(h) : \A p \in Parts : h[r][p] \in Nat
<1>1. \A r \in 1..Len(h) : h[r] \in Contents
  BY ElementOfSeq
<1> QED
  BY <1>1 DEF Contents

\* A commit of p that is no later than revision r is no later than what the
\* authority held of p at r.
LEMMA CommitBelow ==
    ASSUME NEW h \in Seq(Contents), NEW act, Ordered(h, act),
           NEW p \in Parts, NEW v \in Nat, Real(h, p, v), NEW r \in 1..Len(h), v <= r
    PROVE  v <= h[r][p]
<1>1. CASE v = 0
  <2>1. h[r][p] \in Nat
    BY HistoryTypes
  <2> QED
    BY <1>1, <2>1
<1>2. CASE v \in 1..Len(h) /\ h[v][p] = v
  <2>1. \A x, y \in 1..Len(h) : x <= y => h[x][p] <= h[y][p]
    BY DEF Ordered
  <2> QED
    BY <1>2, <2>1
<1> QED
  BY <1>1, <1>2 DEF Real

\* k continues h.
Continues(h, k) == Len(h) <= Len(k) /\ \A r \in 1..Len(h) : k[r] = h[r]

LEMMA RealKept ==
    ASSUME NEW h \in Seq(Contents), NEW k \in Seq(Contents), Continues(h, k),
           NEW p, NEW v, Real(h, p, v)
    PROVE  Real(k, p, v)
<1>1. Len(h) \in Nat /\ Len(k) \in Nat
  BY HistoryTypes
<1> QED
  BY <1>1 DEF Real, Continues

\* The history after a commit of p.
Committed(h, p) == Append(h, [h[Len(h)] EXCEPT ![p] = Len(h) + 1])

\* A commit takes the next revision and changes one part.
LEMMA CommitAppends ==
    ASSUME NEW h \in Seq(Contents), Len(h) > 0, NEW p \in Parts
    PROVE  LET k == Committed(h, p) IN
           /\ k \in Seq(Contents) /\ Len(k) = Len(h) + 1 /\ Continues(h, k)
           /\ k[Len(h) + 1][p] = Len(h) + 1
           /\ \A q \in Parts \ {p} : k[Len(h) + 1][q] = h[Len(h)][q]
<1> DEFINE n == Len(h)
           c == [h[n] EXCEPT ![p] = n + 1]
           k == Committed(h, p)
<1>1. n \in Nat /\ n \in 1..n /\ h[n] \in Contents
  BY HistoryTypes
<1>2. c \in Contents /\ c[p] = n + 1 /\ \A q \in Parts \ {p} : c[q] = h[n][q]
  BY <1>1 DEF Contents
<1>3. /\ k \in Seq(Contents) /\ Len(k) = n + 1 /\ k[n + 1] = c
      /\ \A i \in 1..n : k[i] = h[i]
  BY <1>2, AppendProperties DEF Committed
<1> QED
  BY <1>1, <1>2, <1>3 DEF Continues

LEMMA CommitOrdered ==
    ASSUME NEW h \in Seq(Contents), NEW act \in [Lanes -> Nat], Ordered(h, act),
           NEW p \in Parts
    PROVE  Ordered(Committed(h, p), [act EXCEPT ![LaneOf(p)] = Len(h) + 1])
<1> DEFINE n == Len(h)
           k == Committed(h, p)
           act2 == [act EXCEPT ![LaneOf(p)] = n + 1]
<1>1. /\ n \in Nat /\ n > 0 /\ n \in 1..n /\ k \in Seq(Contents) /\ Len(k) = n + 1
      /\ Continues(h, k) /\ k[n + 1][p] = n + 1
      /\ \A q \in Parts \ {p} : k[n + 1][q] = h[n][q]
      /\ \A r \in 1..n : k[r] = h[r]
  <2>1. n \in Nat /\ n > 0
    BY HistoryTypes DEF Ordered
  <2>2. /\ k \in Seq(Contents) /\ Len(k) = n + 1 /\ Continues(h, k)
        /\ k[n + 1][p] = n + 1 /\ \A q \in Parts \ {p} : k[n + 1][q] = h[n][q]
    BY <2>1, CommitAppends
  <2>3. \A r \in 1..n : k[r] = h[r]
    BY <2>2 DEF Continues
  <2> QED
    BY <2>1, <2>2, <2>3
<1>2. \A r \in 1..n : \A q \in Parts : h[r][q] \in Nat
  BY HistoryTypes
<1>3. /\ \A r \in 1..n : \A q \in Parts : h[r][q] <= r /\ Real(h, q, h[r][q])
      /\ \A q \in Parts : \A r, s \in 1..n : r <= s => h[r][q] <= h[s][q]
      /\ \A q \in Parts : \A r \in 1..n : act[LaneOf(q)] <= r => h[r][q] = h[n][q]
      /\ \A l \in Lanes : act[l] <= n
      /\ \A q \in Parts : h[n][q] <= act[LaneOf(q)]
      /\ \A q \in {"policy", "tools"} : h[n][q] = act[q]
  BY DEF Ordered
<1>4. /\ act2[LaneOf(p)] = n + 1 /\ \A l \in Lanes : act[l] \in Nat
      /\ \A l \in Lanes \ {LaneOf(p)} : act2[l] = act[l]
  BY LaneOfType
<1> HIDE DEF n, k, act2
<1>5. ASSUME NEW r \in 1..(n + 1), NEW q \in Parts
      PROVE  k[r][q] <= r /\ Real(k, q, k[r][q]) /\ k[r][q] \in Nat
  <2>1. CASE r \in 1..n
    <3>1. k[r][q] = h[r][q] /\ h[r][q] <= r /\ Real(h, q, h[r][q]) /\ h[r][q] \in Nat
      BY <1>1, <1>2, <1>3, <2>1
    <3> QED
      BY <1>1, <3>1, RealKept
  <2>2. CASE r = n + 1 /\ q = p
    BY <1>1, <2>2 DEF Real
  <2>3. CASE r = n + 1 /\ q # p
    <3>1. k[r][q] = h[n][q] /\ h[n][q] <= n /\ Real(h, q, h[n][q]) /\ h[n][q] \in Nat
      BY <1>1, <1>2, <1>3, <2>3
    <3>2. Real(k, q, h[n][q])
      BY <1>1, <3>1, RealKept
    <3> QED
      BY <1>1, <2>3, <3>1, <3>2
  <2> QED
    BY <1>1, <2>1, <2>2, <2>3
<1>6. ASSUME NEW q \in Parts, NEW r \in 1..(n + 1), NEW s \in 1..(n + 1), r <= s
      PROVE  k[r][q] <= k[s][q]
  <2>1. CASE s \in 1..n
    <3>1. r \in 1..n
      BY <1>1, <1>6, <2>1
    <3>2. h[r][q] <= h[s][q]
      BY <1>3, <1>6, <2>1, <3>1
    <3> QED
      BY <1>1, <2>1, <3>1, <3>2
  <2>2. CASE s = n + 1 /\ r = n + 1
    <3>1. k[n + 1][q] \in Nat
      BY <1>1, <1>5
    <3>2. k[n + 1][q] <= k[n + 1][q]
      BY <3>1
    <3> QED
      BY <2>2, <3>2, Zenon
  <2>3. CASE s = n + 1 /\ r \in 1..n
    <3>1. k[r][q] = h[r][q] /\ h[r][q] <= h[n][q] /\ h[r][q] \in Nat /\ h[n][q] \in Nat
          /\ h[r][q] <= n
      BY <1>1, <1>2, <1>3, <2>3
    <3>2. k[s][q] = IF q = p THEN n + 1 ELSE h[n][q]
      BY <1>1, <2>3
    <3> QED
      BY <1>1, <3>1, <3>2
  <2> QED
    BY <1>1, <2>1, <2>2, <2>3
<1>7. ASSUME NEW q \in Parts, NEW r \in 1..(n + 1), act2[LaneOf(q)] <= r
      PROVE  k[r][q] = k[n + 1][q]
  <2>1. CASE r = n + 1
    BY <2>1
  <2>2. CASE r \in 1..n
    <3>1. LaneOf(q) # LaneOf(p) /\ q # p
      BY <1>1, <1>4, <1>7, <2>2
    <3>2. act[LaneOf(q)] <= r
      BY <1>4, <1>7, <3>1, LaneOfType
    <3> QED
      BY <1>1, <1>3, <2>2, <3>1, <3>2
  <2> QED
    BY <1>1, <2>1, <2>2
<1>8. \A l \in Lanes : act2[l] <= n + 1
  BY <1>1, <1>3, <1>4
<1>9. ASSUME NEW q \in Parts PROVE k[n + 1][q] <= act2[LaneOf(q)]
  <2>1. CASE q = p
    BY <1>1, <1>4, <2>1
  <2>2. CASE q # p
    <3>1. /\ k[n + 1][q] = h[n][q] /\ h[n][q] <= act[LaneOf(q)] /\ h[n][q] <= n
          /\ h[n][q] \in Nat /\ LaneOf(q) \in Lanes
      BY <1>1, <1>2, <1>3, <2>2, LaneOfType
    <3>2. act2[LaneOf(q)] = n + 1 \/ act2[LaneOf(q)] = act[LaneOf(q)]
      BY <1>4, <3>1
    <3> QED
      BY <1>1, <3>1, <3>2
  <2> QED
    BY <2>1, <2>2
<1>10. ASSUME NEW q \in {"policy", "tools"} PROVE k[n + 1][q] = act2[q]
  <2>1. q \in Parts /\ q \in Lanes /\ LaneOf(q) = q /\ (LaneOf(p) = q => p = q)
    BY DocumentFacts
  <2>2. CASE q = p
    BY <1>1, <1>4, <2>1, <2>2
  <2>3. CASE q # p
    BY <1>1, <1>3, <1>4, <2>1, <2>3
  <2> QED
    BY <2>2, <2>3
<1>11. Len(k) = n + 1 /\ Len(k) > 0
  BY <1>1
<1>12. \A r \in 1..Len(k) : \A q \in Parts : k[r][q] <= r /\ Real(k, q, k[r][q])
  BY <1>5, <1>11
<1>13. \A q \in Parts : \A r, s \in 1..Len(k) : r <= s => k[r][q] <= k[s][q]
  BY <1>6, <1>11
<1>14. \A q \in Parts : \A r \in 1..Len(k) : act2[LaneOf(q)] <= r => k[r][q] = k[Len(k)][q]
  BY <1>7, <1>11
<1>15. /\ \A l \in Lanes : act2[l] <= Len(k)
       /\ \A q \in Parts : k[Len(k)][q] <= act2[LaneOf(q)]
       /\ \A q \in {"policy", "tools"} : k[Len(k)][q] = act2[q]
  BY <1>8, <1>9, <1>10, <1>11
<1>16. Ordered(k, act2)
  BY <1>11, <1>12, <1>13, <1>14, <1>15 DEF Ordered
<1> QED
  BY <1>16 DEF k, act2, n

-----------------------------------------------------------------------------
(* What a step of somebody else leaves of a pass                            *)

LEMMA Types ==
    ASSUME TypeOK
    PROVE  /\ history \in Seq(Contents) /\ Counter \in Nat /\ Counter = Len(history)
           /\ activation \in [Lanes -> Nat]
           /\ listed \in Nat /\ compiled \in Nat /\ observed \in Nat
           /\ published.revision \in Nat /\ published.content \in Contents
           /\ live \in Contents /\ \A p \in Parts : live[p] \in Nat
           /\ \A p \in Parts : published.content[p] \in Nat
<1>1. Counter = Len(history) /\ Counter \in Nat
  BY DEF TypeOK, Counter
<1>2. live \in [Parts -> Nat] /\ published.content \in [Parts -> Nat]
  BY DEF TypeOK, Contents, Bundles
<1> QED
  BY <1>1, <1>2 DEF TypeOK, Bundles, Contents

LEMMA GateTypes ==
    ASSUME TypeOK, NEW g \in Gates
    PROVE  /\ pc[g] \in PCs /\ start[g] \in Nat /\ current[g] \in Nat /\ base[g] \in Nat
           /\ at[g] \in 1..4 /\ moved[g] \in BOOLEAN /\ fetchedAt[g] \in Nat
           /\ fetched[g] \in Contents /\ \A p \in Parts : fetched[g][p] \in Nat
<1>1. at[g] \in 1..4
  BY ResourceFacts DEF TypeOK
<1>2. fetched[g] \in [Parts -> Nat]
  BY DEF TypeOK, Contents
<1> QED
  BY <1>1, <1>2 DEF TypeOK, Contents

\* A pass that has read the counter has a revision of the history.
LEMMA CurrentReached ==
    ASSUME SecurityInv, NEW g \in Gates, pc[g] \notin {"idle", "read"}
    PROVE  current[g] \in 1..Counter /\ start[g] \in 1..current[g]
<1>1. GateInv(g)
  BY DEF SecurityInv
<1>2. start[g] \in Nat /\ current[g] \in Nat /\ Counter \in Nat
  BY GateTypes, Types DEF SecurityInv
<1> QED
  BY <1>1, <1>2 DEF GateInv

\* Steps that leave pass g alone: commits, this replica's handlers, and the
\* passes that do not hold the lock.  A handler installs only what it
\* committed or read back.
Beside(g) ==
    /\ pc'[g] = pc[g] /\ start'[g] = start[g] /\ current'[g] = current[g]
    /\ base'[g] = base[g] /\ at'[g] = at[g] /\ moved'[g] = moved[g]
    /\ fetched'[g] = fetched[g] /\ fetchedAt'[g] = fetchedAt[g]
    /\ lock'["gate"] = g <=> lock["gate"] = g
    /\ UNCHANGED <<compiled, listed, published>>
    /\ activation' \in [Lanes -> Nat] /\ activation["connections"] <= activation'["connections"]
    /\ history' \in Seq(Contents) /\ Continues(history, history') /\ handled \subseteq handled'
    /\ live' \in Contents
    /\ \A p \in Parts :
        \/ live'[p] = live[p]
        \/ /\ live[p] <= live'[p] /\ Real(history', p, live'[p])
           /\ live'[p] \in handled' \/ live'[p] <= published.revision

LEMMA BesideGate ==
    ASSUME SecurityInv, NEW g \in Gates, Beside(g)
    PROVE  GateInv(g)'
<1>1. GateInv(g) /\ Counter \in Nat /\ Counter' \in Nat /\ Counter <= Counter'
  <2>1. Len(history') \in Nat /\ Counter = Len(history) /\ Counter \in Nat
    BY HistoryTypes, Types DEF SecurityInv, Beside
  <2> QED
    BY <2>1 DEF SecurityInv, Beside, Continues, Counter
<1>2. start[g] \in Nat /\ current[g] \in Nat
  BY GateTypes DEF SecurityInv
<1> QED
  BY <1>1, <1>2 DEF GateInv, Beside

LEMMA BesideScan ==
    ASSUME SecurityInv, NEW g \in Gates, Beside(g)
    PROVE  ScanInv(g)'
<1>1. /\ ScanInv(g) /\ TypeOK /\ history \in Seq(Contents) /\ history' \in Seq(Contents)
      /\ Continues(history, history') /\ Counter = Len(history) /\ Counter' = Len(history')
      /\ Counter \in Nat /\ Counter' \in Nat /\ Counter <= Counter'
      /\ \A r \in 1..Counter : history'[r] = history[r]
  <2>1. Len(history') \in Nat /\ Counter = Len(history) /\ Counter \in Nat
    BY HistoryTypes, Types DEF SecurityInv, Beside
  <2> QED
    BY <2>1, Types DEF SecurityInv, Beside, Continues, Counter
<1>2. /\ at[g] \in 1..4 /\ fetchedAt[g] \in Nat
      /\ \A p \in Parts : fetched[g][p] \in Nat /\ live[p] \in Nat /\ live[p] <= live'[p]
      /\ \A p \in Parts : live'[p] \in Nat
      /\ \A r \in 1..Counter : \A p \in Parts : history[r][p] \in Nat
  <2>1. \A p \in Parts : live[p] \in Nat /\ live'[p] \in Nat
    BY <1>1, Types DEF Beside, Contents
  <2>2. \A p \in Parts : live[p] <= live'[p]
    BY <2>1 DEF Beside
  <2> QED
    BY <1>1, <2>1, <2>2, GateTypes, HistoryTypes
<1>3. /\ pc'[g] = pc[g] /\ current'[g] = current[g] /\ at'[g] = at[g]
      /\ moved'[g] = moved[g] /\ fetched'[g] = fetched[g] /\ fetchedAt'[g] = fetchedAt[g]
  BY DEF Beside
<1>4. Resource(g)' = Resource(g) /\ (at[g] < 3 => Resource(g) \in Parts)
  BY <1>2, <1>3, ResourceFacts, DocumentFacts DEF Resource
<1>5. pc[g] \notin {"idle", "read"} =>
        /\ current[g] \in 1..Counter /\ history'[current[g]] = history[current[g]]
  BY <1>1, CurrentReached
<1>6. fetchedAt[g] \in 1..Counter => history'[fetchedAt[g]] = history[fetchedAt[g]]
  BY <1>1
<1>7. ASSUME pc'[g] \in Scanning, ~moved'[g], NEW p \in Parts, LaneIndex(p) < at'[g]
      PROVE  history'[current'[g]][p] <= live'[p]
  <2>1. history[current[g]][p] <= live[p]
    BY <1>1, <1>3, <1>7 DEF ScanInv
  <2> QED
    BY <1>2, <1>3, <1>5, <1>7, <2>1 DEF Scanning
<1>8. ASSUME pc'[g] = "install", at'[g] < 3
      PROVE  /\ Real(history', Resource(g)', fetchedAt'[g])
             /\ history'[current'[g]][Resource(g)'] <= fetchedAt'[g]
  <2>1. /\ Real(history, Resource(g), fetchedAt[g])
        /\ history[current[g]][Resource(g)] <= fetchedAt[g]
    BY <1>1, <1>3, <1>8 DEF ScanInv
  <2>2. Real(history', Resource(g), fetchedAt[g])
    BY <1>1, <2>1, RealKept
  <2> QED
    BY <1>3, <1>4, <1>5, <1>8, <2>1, <2>2
<1>9. ASSUME pc'[g] = "install", at'[g] = 3, NEW p \in Records
      PROVE  /\ Real(history', p, fetched'[g][p])
             /\ history'[current'[g]][p] <= fetched'[g][p]
             /\ fetchedAt'[g] > 0 => history'[fetchedAt'[g]][p] <= fetched'[g][p]
  <2>1. /\ Real(history, p, fetched[g][p])
        /\ history[current[g]][p] <= fetched[g][p]
        /\ fetchedAt[g] > 0 => history[fetchedAt[g]][p] <= fetched[g][p]
        /\ fetchedAt[g] <= Counter
    BY <1>1, <1>3, <1>9 DEF ScanInv
  <2>2. Real(history', p, fetched[g][p])
    BY <1>1, <2>1, RealKept
  <2>3. fetchedAt[g] > 0 => fetchedAt[g] \in 1..Counter
    BY <1>1, <1>2, <2>1
  <2> QED
    BY <1>3, <1>5, <1>6, <1>9, <2>1, <2>2, <2>3
<1>10. ASSUME pc'[g] = "catalogs", NEW p \in Records
       PROVE  /\ history'[current'[g]][p] <= live'[p]
              /\ fetchedAt'[g] > 0 => history'[fetchedAt'[g]][p] <= live'[p]
  <2>1. /\ history[current[g]][p] <= live[p]
        /\ fetchedAt[g] > 0 => history[fetchedAt[g]][p] <= live[p]
        /\ fetchedAt[g] <= Counter
    BY <1>1, <1>3, <1>10 DEF ScanInv
  <2>2. fetchedAt[g] > 0 => fetchedAt[g] \in 1..Counter
    BY <1>1, <1>2, <2>1
  <2>3. p \in Parts /\ live[p] <= live'[p] /\ live[p] \in Nat /\ live'[p] \in Nat
    BY <1>2 DEF Parts
  <2>4. history'[current'[g]][p] <= live'[p]
    BY <1>2, <1>3, <1>5, <1>10, <2>1, <2>3
  <2>5. fetchedAt'[g] > 0 => history'[fetchedAt'[g]][p] <= live'[p]
    BY <1>2, <1>3, <1>6, <2>1, <2>2, <2>3
  <2> QED
    BY <2>4, <2>5
<1>11. /\ pc'[g] \in {"fetch", "list", "install", "catalogs"} => at'[g] <= 3
       /\ pc'[g] \in {"list", "catalogs"} => at'[g] = 3
       /\ pc'[g] = "settle" => at'[g] = 4 /\ ~moved'[g]
       /\ pc'[g] \in {"list", "install", "catalogs"} => fetchedAt'[g] <= Counter'
  BY <1>1, <1>2, <1>3 DEF ScanInv
<1>12. ASSUME pc'[g] \in {"list", "install", "catalogs"}, at'[g] = 3
       PROVE  listed' <= fetchedAt'[g] /\ fetchedAt'[g] <= activation'["connections"]
  <2>1. /\ activation["connections"] \in Nat /\ activation'["connections"] \in Nat
        /\ activation["connections"] <= activation'["connections"] /\ listed' = listed
    BY <1>1 DEF TypeOK, Beside, Lanes
  <2>2. listed <= fetchedAt[g] /\ fetchedAt[g] <= activation["connections"]
    BY <1>1, <1>3, <1>12 DEF ScanInv
  <2> QED
    BY <1>2, <1>3, <2>1, <2>2
<1> QED
  BY <1>7, <1>8, <1>9, <1>10, <1>11, <1>12 DEF ScanInv

\* What this replica's handlers install while the lanes are captured is newer
\* than the pass's revision and taken from the authority by them, or no change.
LEMMA BesideCapture ==
    ASSUME SecurityInv, NEW g \in Gates, Beside(g)
    PROVE  CaptureInv(g)'
<1>1. /\ CaptureInv(g) /\ GateInv(g) /\ TypeOK /\ HistoryInv
      /\ history \in Seq(Contents) /\ history' \in Seq(Contents)
      /\ Continues(history, history') /\ Counter = Len(history) /\ handled \subseteq handled'
      /\ \A r \in 1..Counter : history'[r] = history[r]
  BY Types DEF SecurityInv, Beside, Continues
<1>2. /\ pc'[g] = pc[g] /\ current'[g] = current[g] /\ at'[g] = at[g]
      /\ fetched'[g] = fetched[g] /\ at[g] \in 1..4 /\ current[g] \in Nat
      /\ compiled \in Nat /\ published.revision \in Nat
      /\ \A p \in Parts : live[p] \in Nat /\ live'[p] \in Nat
  BY <1>1, GateTypes, Types DEF Beside, Contents
<1>3. pc[g] \in Publishing => current[g] \in 1..Counter
  BY CurrentReached DEF Publishing
<1>4. pc[g] \in Publishing => history'[current[g]] = history[current[g]]
  BY <1>1, <1>3
<1>5. ASSUME pc[g] \in {"capture", "publish"}, NEW p \in Parts
      PROVE  Cut(current[g], p, live[p])'
  <2>1. Cut(current[g], p, live[p]) /\ history'[current[g]] = history[current[g]]
    BY <1>1, <1>4, <1>5 DEF CaptureInv, Publishing
  <2>2. CASE live'[p] = live[p]
    BY <1>1, <1>2, <2>1, <2>2 DEF Cut
  <2>3. CASE /\ live[p] <= live'[p] /\ Real(history', p, live'[p])
             /\ live'[p] \in handled' \/ live'[p] <= published.revision
    <3>1. published.revision < current[g]
      BY <1>1, <1>5 DEF GateInv, Scanning, Publishing
    <3>2. CASE live'[p] > current[g]
      <4>1. live'[p] \in handled'
        BY <1>2, <2>3, <3>1, <3>2
      <4> QED
        BY <1>2, <3>2, <4>1 DEF Cut
    <3>3. CASE live'[p] <= current[g]
      <4>1. live[p] = history[current[g]][p]
        BY <1>2, <2>1, <2>3, <3>3 DEF Cut
      <4>2. Real(history, p, live'[p])
        <5>1. Len(history) \in Nat /\ Len(history') \in Nat /\ current[g] \in 1..Len(history)
          BY <1>1, <1>3, <1>5, HistoryTypes DEF Publishing
        <5>2. live'[p] # 0 => live'[p] \in 1..Len(history)
          BY <1>2, <3>3, <5>1
        <5> QED
          BY <1>1, <2>3, <5>1, <5>2 DEF Real
      <4>3. live'[p] <= history[current[g]][p]
        BY <1>1, <1>2, <1>3, <1>5, <3>3, <4>2, CommitBelow DEF HistoryInv, Publishing
      <4>4. live'[p] = live[p]
        BY <1>2, <2>3, <4>1, <4>3
      <4> QED
        BY <2>2, <4>4
    <3> QED
      BY <1>2, <3>2, <3>3
  <2> QED
    BY <2>2, <2>3 DEF Beside
<1>6. ASSUME pc[g] = "mark", NEW p \in Parts
      PROVE  history'[current'[g]][p] <= live'[p]
  <2>1. history[current[g]][p] <= live[p] /\ history'[current[g]] = history[current[g]]
    BY <1>1, <1>4, <1>6 DEF CaptureInv, Publishing
  <2>2. live[p] <= live'[p]
    BY <1>2 DEF Beside
  <2>3. history[current[g]][p] \in Nat
    BY <1>1, <1>3, <1>6, HistoryTypes DEF Publishing
  <2> QED
    BY <1>2, <2>1, <2>2, <2>3
<1>7. ASSUME pc[g] \in {"capture", "publish"}, NEW p \in Parts,
             Cut(current[g], p, fetched[g][p])
      PROVE  Cut(current[g], p, fetched[g][p])'
  BY <1>1, <1>2, <1>4, <1>7 DEF Cut, Publishing
<1> QED
  BY <1>1, <1>2, <1>5, <1>6, <1>7 DEF CaptureInv

-----------------------------------------------------------------------------
(* What the steps that publish nothing leave of the rest                    *)

\* The authority continues and what is installed only becomes newer.
Grows ==
    /\ UNCHANGED <<compiled, listed, published>>
    /\ history' \in Seq(Contents) /\ Continues(history, history') /\ handled \subseteq handled'
    /\ activation' \in [Lanes -> Nat] /\ activation["connections"] <= activation'["connections"]
    /\ live' \in Contents
    /\ \A p \in Parts : live'[p] = live[p] \/ (live[p] <= live'[p] /\ Real(history', p, live'[p]))

LEMMA GrowsFacts ==
    ASSUME SecurityInv, Grows
    PROVE  /\ Counter \in Nat /\ Counter' \in Nat /\ Counter <= Counter'
           /\ \A r \in 1..Counter : history'[r] = history[r]
           /\ \A p \in Parts : live[p] \in Nat /\ live'[p] \in Nat /\ live[p] <= live'[p]
           /\ \A r \in 1..Counter : \A p \in Parts : history[r][p] \in Nat
           /\ activation["connections"] \in Nat /\ activation'["connections"] \in Nat
           /\ activation["connections"] <= Counter
<1>1. Len(history') \in Nat /\ Counter' = Len(history')
  BY HistoryTypes DEF Grows, Counter
<1>2. Counter \in Nat /\ Counter = Len(history) /\ \A p \in Parts : live[p] \in Nat
  BY Types DEF SecurityInv
<1>3. \A p \in Parts : live'[p] \in Nat
  BY DEF Grows, Contents
<1>4. \A r \in 1..Counter : \A p \in Parts : history[r][p] \in Nat
  BY <1>2, HistoryTypes, Types DEF SecurityInv
<1>5. /\ activation["connections"] \in Nat /\ activation'["connections"] \in Nat
      /\ activation["connections"] <= Counter
  BY <1>2 DEF SecurityInv, TypeOK, Grows, Lanes, HistoryInv, Ordered
<1>6. \A p \in Parts : live[p] <= live'[p]
  BY <1>2, <1>3 DEF Grows
<1> QED
  BY <1>1, <1>2, <1>3, <1>4, <1>5, <1>6 DEF Grows, Continues

LEMMA GrowsLive ==
    ASSUME SecurityInv, Grows
    PROVE  LiveInv'
<1>1. /\ LiveInv /\ history \in Seq(Contents) /\ history' \in Seq(Contents)
      /\ Continues(history, history') /\ compiled \in Nat /\ listed \in Nat
      /\ published.revision \in Nat /\ compiled' = compiled /\ listed' = listed
      /\ published' = published
  BY Types DEF SecurityInv, Grows
<1>2. /\ Counter \in Nat /\ Counter' \in Nat /\ Counter <= Counter'
      /\ \A r \in 1..Counter : history'[r] = history[r]
      /\ \A p \in Parts : live[p] \in Nat /\ live'[p] \in Nat /\ live[p] <= live'[p]
      /\ \A r \in 1..Counter : \A p \in Parts : history[r][p] \in Nat
      /\ activation["connections"] \in Nat /\ activation'["connections"] \in Nat
      /\ activation["connections"] <= Counter
  BY GrowsFacts
<1>3. /\ compiled > 0 => compiled \in 1..Counter
      /\ listed > 0 => listed \in 1..Counter
  BY <1>1, <1>2 DEF LiveInv
<1>4. ASSUME NEW p \in Parts PROVE Real(history', p, live'[p])
  <2>1. Real(history, p, live[p])
    BY <1>1 DEF LiveInv
  <2>2. Real(history', p, live[p])
    BY <1>1, <2>1, RealKept
  <2> QED
    BY <2>2 DEF Grows
<1>5. ASSUME NEW p \in Parts, compiled' > 0 PROVE history'[compiled'][p] <= live'[p]
  <2>1. history[compiled][p] <= live[p] /\ compiled \in 1..Counter
    BY <1>1, <1>3, <1>5 DEF LiveInv
  <2>2. history'[compiled'] = history[compiled] /\ history[compiled][p] \in Nat
    BY <1>1, <1>2, <2>1
  <2> QED
    BY <1>2, <2>1, <2>2
<1>6. ASSUME NEW p \in Parts, listed' > 0, p \in Records PROVE history'[listed'][p] <= live'[p]
  <2>1. history[listed][p] <= live[p] /\ listed \in 1..Counter
    BY <1>1, <1>3, <1>6 DEF LiveInv
  <2>2. history'[listed'] = history[listed] /\ history[listed][p] \in Nat
    BY <1>1, <1>2, <2>1
  <2> QED
    BY <1>2, <2>1, <2>2
<1>7. listed' <= activation'["connections"]
  BY <1>1, <1>2 DEF LiveInv, Grows
<1>8. compiled' <= published'.revision /\ published'.revision <= Counter'
  BY <1>1, <1>2 DEF LiveInv
<1> QED
  BY <1>4, <1>5, <1>6, <1>7, <1>8 DEF LiveInv

LEMMA GrowsBundle ==
    ASSUME SecurityInv, Grows
    PROVE  BundleIsCut'
<1>1. /\ BundleIsCut /\ published' = published /\ handled \subseteq handled'
      /\ published.revision \in Nat /\ published.revision <= Counter
  BY Types DEF SecurityInv, LiveInv, Grows
<1>2. published.revision # 0 => history'[published.revision] = history[published.revision]
  BY <1>1, GrowsFacts
<1> QED
  BY <1>1, <1>2 DEF BundleIsCut

\* A handler that takes no step keeps its invariant when nothing older than its
\* commit is forgotten and no Connection record reaches it.
LEMMA GrowsWriter ==
    ASSUME SecurityInv, Grows, NEW w \in Writers,
           wpc'[w] = wpc[w], wpart'[w] = wpart[w], wrevision'[w] = wrevision[w],
           lock["connections"] = w => lock'["connections"] = w,
           wpc[w] = "install" /\ wpart[w] \in Records => \A q \in Records : live'[q] = live[q]
    PROVE  WriterInv(w)'
<1>1. WriterInv(w) /\ published' = published /\ handled \subseteq handled'
  BY DEF SecurityInv, Grows
<1>2. wpc[w] = "install" => Real(history', wpart[w], wrevision[w])
  <2>1. /\ wpart[w] \in Parts /\ history \in Seq(Contents) /\ history' \in Seq(Contents)
        /\ Continues(history, history')
    BY Types DEF SecurityInv, TypeOK, Grows
  <2> QED
    BY <1>1, <2>1, RealKept DEF WriterInv
<1> QED
  BY <1>1, <1>2 DEF WriterInv, Parts

-----------------------------------------------------------------------------
(* Types                                                                    *)

\* A commit in the terms of the lemmas above.
LEMMA CommitsFacts ==
    ASSUME SecurityInv, NEW p \in Parts, Commits(p)
    PROVE  /\ history' = Committed(history, p) /\ history' \in Seq(Contents)
           /\ Continues(history, history') /\ Counter' = Counter + 1
           /\ history'[Counter + 1][p] = Counter + 1
           /\ activation' \in [Lanes -> Nat]
           /\ activation["connections"] <= activation'["connections"]
           /\ HistoryInv'
<1>1. /\ history \in Seq(Contents) /\ Counter = Len(history) /\ Counter \in Nat
      /\ activation \in [Lanes -> Nat] /\ Ordered(history, activation) /\ Len(history) > 0
  BY Types DEF SecurityInv, HistoryInv, Ordered
<1>2. /\ history' = Committed(history, p)
      /\ activation' = [activation EXCEPT ![LaneOf(p)] = Len(history) + 1]
  BY <1>1 DEF Commits, Committed
<1>3. /\ history' \in Seq(Contents) /\ Len(history') = Len(history) + 1
      /\ Continues(history, history') /\ history'[Len(history) + 1][p] = Len(history) + 1
  BY <1>1, <1>2, CommitAppends
<1>4. Ordered(history', activation')
  BY <1>1, <1>2, CommitOrdered
<1>5. Counter' = Counter + 1
  BY <1>1, <1>3 DEF Counter
<1>6. activation' \in [Lanes -> Nat]
  BY <1>1, <1>2, LaneOfType
<1>7. activation["connections"] <= activation'["connections"]
  <2>1. "connections" \in Lanes /\ activation["connections"] <= Len(history)
        /\ activation["connections"] \in Nat
    BY <1>1 DEF Lanes, Ordered
  <2>2. activation'["connections"] = Len(history) + 1 \/ activation'["connections"] = activation["connections"]
    BY <1>1, <1>2, <2>1
  <2> QED
    BY <1>1, <2>1, <2>2
<1> QED
  BY <1>1, <1>2, <1>3, <1>4, <1>5, <1>6, <1>7 DEF HistoryInv

LEMMA AuthorityTypes ==
    ASSUME SecurityInv, NEW p \in Parts, RemoteCommit(p)
    PROVE  TypeOK'
<1>1. history' \in Seq(Contents) /\ activation' \in [Lanes -> Nat] /\ TypeOK
  BY CommitsFacts DEF RemoteCommit, SecurityInv
<1>2. UNCHANGED <<handled, replica, gate, lock, pc, passes, writers>>
  BY DEF RemoteCommit
<1> QED
  BY <1>1, <1>2 DEF TypeOK, replica, gate, passes, writers

\* What the authority holds of a part: the last commit of it, or none.
LEMMA HeldType ==
    ASSUME SecurityInv, NEW p \in Parts
    PROVE  /\ history[Counter][p] \in Nat /\ Real(history, p, history[Counter][p])
           /\ live[p] <= history[Counter][p]
<1>1. /\ history \in Seq(Contents) /\ Counter = Len(history) /\ Counter \in Nat /\ Counter > 0
      /\ Ordered(history, activation) /\ live[p] \in Nat /\ Real(history, p, live[p])
  BY Types DEF SecurityInv, HistoryInv, Ordered, LiveInv
<1>2. Counter \in 1..Len(history)
  BY <1>1
<1>3. history[Counter][p] \in Nat /\ Real(history, p, history[Counter][p])
  BY <1>1, <1>2, HistoryTypes DEF Ordered
<1>4. live[p] <= Counter
  BY <1>1 DEF Real
<1> QED
  BY <1>1, <1>2, <1>3, <1>4, CommitBelow

LEMMA WriterTypes ==
    ASSUME SecurityInv, NEW w \in Writers,
           \/ \E p \in Parts : WriterBegins(w, p)
           \/ \E p \in Records : StatusBegins(w, p)
           \/ StatusAppends(w) \/ StatusRereads(w) \/ StatusReturnsRecord(w)
           \/ WriterCommits(w) \/ WriterInstalls(w) \/ WriterStops(w)
    PROVE  TypeOK'
<1>1. TypeOK /\ "policy" \in Parts /\ Counter \in Nat
  BY Types DEF SecurityInv, Parts
<1>2. ASSUME NEW p \in Parts, WriterBegins(w, p) PROVE TypeOK'
  <2>1. LaneOf(p) # "tools" => LaneOf(p) \in {"gate", "policy", "connections"}
    BY LaneOfType DEF Lanes
  <2> QED
    BY <1>1, <1>2, <2>1 DEF TypeOK, WriterBegins, authority, replica, gate, passes
<1>3. CASE WriterCommits(w)
  <2>1. wpart[w] \in Parts
    BY <1>1 DEF TypeOK
  <2>2. history' \in Seq(Contents) /\ activation' \in [Lanes -> Nat]
    BY <1>3, <2>1, CommitsFacts DEF WriterCommits
  <2>3. handled' \subseteq Nat /\ wrevision' \in [Writers -> Nat]
    <3>1. Counter + 1 \in Nat
      BY <1>1
    <3>2. /\ handled' = handled \cup {Counter + 1} /\ handled \subseteq Nat
          /\ wrevision' = [wrevision EXCEPT ![w] = Counter + 1]
          /\ wrevision \in [Writers -> Nat]
      BY <1>1, <1>3, Zenon DEF TypeOK, WriterCommits
    <3> QED
      BY <3>1, <3>2, Zenon
  <2> QED
    BY <1>1, <1>3, <2>2, <2>3 DEF TypeOK, WriterCommits, replica, gate, passes
<1>4. ASSUME WriterEnds(w), live' \in Contents PROVE TypeOK'
  <2>1. lock' \in [{"gate", "policy", "connections"} -> Gates \cup Writers \cup {Nobody}]
    BY <1>1, <1>4 DEF TypeOK, WriterEnds
  <2> QED
    BY <1>1, <1>4, <2>1 DEF TypeOK, WriterEnds, authority, gate, passes
<1>5. CASE WriterInstalls(w)
  <2>1. live \in [Parts -> Nat] /\ wpart[w] \in Parts /\ wrevision[w] \in Nat
    BY <1>1 DEF TypeOK, Contents
  <2>2. live' \in [Parts -> Nat]
    BY <1>5, <2>1 DEF WriterInstalls, InstallDocument
  <2> QED
    BY <1>4, <1>5, <2>2 DEF WriterInstalls, Contents
<1>6. CASE WriterStops(w)
  BY <1>1, <1>4, <1>6 DEF WriterStops, TypeOK
<1>7. ASSUME NEW p \in Records, StatusBegins(w, p) PROVE TypeOK'
  <2>1. p \in Parts /\ live[p] \in Nat
    BY <1>1, Types DEF Parts, SecurityInv
  <2> QED
    BY <1>1, <1>7, <2>1 DEF TypeOK, StatusBegins, authority, replica, gate, passes
<1>8. ASSUME NEW r \in Nat, Handles(r) PROVE handled' \subseteq Nat
  BY <1>1, <1>8 DEF TypeOK, Handles
<1>9. CASE StatusAppends(w) \/ StatusReturnsRecord(w)
  <2>1. wrevision[w] \in Nat
    BY <1>1 DEF TypeOK
  <2>2. handled' \subseteq Nat
    BY <1>1, <1>8, <1>9, <2>1 DEF TypeOK, StatusAppends, StatusReturnsRecord
  <2> QED
    BY <1>1, <1>9, <2>2 DEF TypeOK, StatusAppends, StatusReturnsRecord, AppendStatus, replica,
                            gate, passes
<1>10. CASE StatusRereads(w)
  <2>1. history[Counter][wpart[w]] \in Nat
    BY HeldType DEF SecurityInv, TypeOK
  <2>2. handled' \subseteq Nat
    BY <1>8, <1>10, <2>1 DEF StatusRereads
  <2> QED
    BY <1>1, <1>10, <2>1, <2>2 DEF TypeOK, StatusRereads, replica, gate, passes
<1> QED
  BY <1>2, <1>3, <1>5, <1>6, <1>7, <1>9, <1>10

\* The end of a pass.
LEMMA EndTypes ==
    ASSUME SecurityInv, NEW g \in Gates, Release(g) \/ lock' = lock,
           UNCHANGED <<history, activation, replica, published, writers>>,
           Forget(g) \/ UNCHANGED <<base, at, moved, fetched, fetchedAt>>,
           pc' \in [Gates -> PCs], handled' \subseteq Nat,
           compiled' \in Nat, observed' \in Nat, failing' \in BOOLEAN,
           start' \in [Gates -> Nat], current' \in [Gates -> Nat]
    PROVE  TypeOK'
<1>1. TypeOK /\ NoContent \in Contents
  BY DEF SecurityInv, NoContent, Contents
<1>2. lock' \in [{"gate", "policy", "connections"} -> Gates \cup Writers \cup {Nobody}]
  BY <1>1 DEF Release, TypeOK
<1>3. /\ base' \in [Gates -> Nat] /\ at' \in [Gates -> 1..(Len(Resources) + 1)]
      /\ moved' \in [Gates -> BOOLEAN] /\ fetched' \in [Gates -> Contents]
      /\ fetchedAt' \in [Gates -> Nat]
  <2>1. /\ base \in [Gates -> Nat] /\ at \in [Gates -> 1..(Len(Resources) + 1)]
        /\ moved \in [Gates -> BOOLEAN] /\ fetched \in [Gates -> Contents]
        /\ fetchedAt \in [Gates -> Nat]
    BY <1>1, Zenon DEF TypeOK
  <2>2. 1 \in 1..(Len(Resources) + 1)
    BY ResourceFacts
  <2>3. CASE Forget(g)
    BY <1>1, <2>1, <2>2, <2>3 DEF Forget
  <2> QED
    BY <2>1, <2>3
<1> QED
  BY <1>1, <1>2, <1>3 DEF TypeOK, replica, writers

\* The locals of a pass.
LEMMA PassTypes ==
    ASSUME SecurityInv, NEW g \in Gates, NEW label \in PCs
    PROVE  /\ Goto(g, label) => pc' \in [Gates -> PCs]
           /\ \A b \in BOOLEAN : Answers(g, b) =>
                /\ pc' \in [Gates -> PCs] /\ failing' \in BOOLEAN
                /\ start' \in [Gates -> Nat] /\ current' \in [Gates -> Nat]
           /\ \A r \in Nat : Observe(r) => observed' \in Nat
<1>1. /\ pc \in [Gates -> PCs] /\ start \in [Gates -> Nat] /\ current \in [Gates -> Nat]
      /\ observed \in Nat /\ "idle" \in PCs
  BY DEF SecurityInv, TypeOK, PCs
<1>2. Goto(g, label) => pc' \in [Gates -> PCs]
  BY <1>1 DEF Goto
<1>3. ASSUME NEW b \in BOOLEAN, Answers(g, b)
      PROVE  /\ pc' \in [Gates -> PCs] /\ failing' \in BOOLEAN
             /\ start' \in [Gates -> Nat] /\ current' \in [Gates -> Nat]
  BY <1>1, <1>3 DEF Goto, Answers
<1>4. \A r \in Nat : Observe(r) => observed' \in Nat
  BY <1>1 DEF Observe
<1> QED
  BY <1>2, <1>3, <1>4

LEMMA EntryTypes ==
    ASSUME SecurityInv, NEW g \in Gates,
           Arrives(g) \/ ReadsCounter(g) \/ Checks(g) \/ Locks(g) \/ Refuses(g)
    PROVE  TypeOK'
<1>1. /\ TypeOK /\ Counter \in Nat /\ current[g] \in Nat /\ current \in [Gates -> Nat]
      /\ start \in [Gates -> Nat] /\ base \in [Gates -> Nat] /\ compiled \in Nat
      /\ observed \in Nat /\ failing \in BOOLEAN /\ handled \subseteq Nat
  BY Types, GateTypes DEF SecurityInv, TypeOK
<1>2. {"idle", "read", "check", "wait", "lane"} \subseteq PCs
  BY DEF PCs
<1>3. CASE Arrives(g)
  BY <1>1, <1>2, <1>3, EndTypes, PassTypes DEF Arrives, authority, gate
<1>4. CASE ReadsCounter(g)
  BY <1>1, <1>2, <1>4, EndTypes, PassTypes DEF ReadsCounter, authority, gate
<1>5. CASE Checks(g)
  <2>1. /\ pc' \in [Gates -> PCs] /\ failing' \in BOOLEAN /\ start' \in [Gates -> Nat]
        /\ current' \in [Gates -> Nat] /\ observed' \in Nat
    BY <1>1, <1>2, <1>5, PassTypes DEF Checks
  <2> QED
    BY <1>1, <1>5, <2>1, EndTypes DEF Checks, authority
<1>6. CASE Locks(g)
  <2>1. /\ pc' \in [Gates -> PCs] /\ failing' \in BOOLEAN /\ start' \in [Gates -> Nat]
        /\ current' \in [Gates -> Nat]
    BY <1>1, <1>2, <1>6, PassTypes DEF Locks
  <2>2. lock' \in [{"gate", "policy", "connections"} -> Gates \cup Writers \cup {Nobody}]
    BY <1>1, <1>6 DEF Locks, TypeOK
  <2>3. base' \in [Gates -> Nat]
    BY <1>1, <1>6 DEF Locks
  <2> QED
    BY <1>1, <1>6, <2>1, <2>2, <2>3 DEF Locks, TypeOK, authority, replica, writers
<1>7. CASE Refuses(g)
  <2>1. /\ pc' \in [Gates -> PCs] /\ failing' \in BOOLEAN /\ start' \in [Gates -> Nat]
        /\ current' \in [Gates -> Nat]
    BY <1>1, <1>2, <1>7, PassTypes DEF Refuses
  <2> QED
    BY <1>1, <1>7, <2>1, EndTypes DEF Refuses, authority
<1> QED
  BY <1>3, <1>4, <1>5, <1>6, <1>7

LEMMA ScanTypes ==
    ASSUME SecurityInv, NEW g \in Gates,
           \/ ReadsActivation(g) \/ Fetches(g) \/ Lists(g)
           \/ InstallsDocument(g) \/ PublishesRecords(g) \/ RepublishesCatalogs(g)
    PROVE  TypeOK'
<1>1. /\ TypeOK /\ Counter \in Nat /\ live \in [Parts -> Nat] /\ fetched[g] \in [Parts -> Nat]
      /\ fetchedAt[g] \in Nat /\ at[g] \in 1..4 /\ NoContent \in Contents
      /\ at \in [Gates -> 1..4] /\ moved \in [Gates -> BOOLEAN] /\ pc \in [Gates -> PCs]
  <2>1. /\ TypeOK /\ Counter \in Nat /\ live \in Contents /\ fetched[g] \in Contents
        /\ fetchedAt[g] \in Nat /\ at[g] \in 1..4
    BY Types, GateTypes DEF SecurityInv
  <2>2. NoContent \in Contents
    BY DEF Contents, NoContent
  <2>3. at \in [Gates -> 1..4]
    BY <2>1, ResourceFacts DEF TypeOK
  <2> QED
    BY <2>1, <2>2, <2>3 DEF Contents, TypeOK
<1>2. {"lane", "fetch", "list", "install", "catalogs"} \subseteq PCs
  BY DEF PCs
<1>3. ASSUME at' = [at EXCEPT ![g] = @ + 1] , at[g] <= 3
      PROVE  at' \in [Gates -> 1..(Len(Resources) + 1)]
  <2>1. at[g] + 1 \in 1..4
    BY <1>1, <1>3
  <2>2. at' \in [Gates -> 1..4]
    BY <1>1, <1>3, <2>1
  <2> QED
    BY <2>2, ResourceFacts
<1>4. CASE ReadsActivation(g)
  <2>1. pc' \in [Gates -> PCs] /\ moved' \in [Gates -> BOOLEAN]
    BY <1>1, <1>2, <1>4 DEF ReadsActivation, Goto
  <2>2. at' \in [Gates -> 1..(Len(Resources) + 1)]
    <3>1. at[g] <= 3
      BY <1>4, ResourceFacts DEF ReadsActivation
    <3> QED
      BY <1>1, <1>3, <1>4, <3>1, ResourceFacts DEF ReadsActivation
  <2> QED
    BY <1>1, <1>4, <2>1, <2>2 DEF ReadsActivation, TypeOK, authority, replica, gate, writers
<1>5. CASE Fetches(g)
  <2>1. pc' \in [Gates -> PCs]
    BY <1>1, <1>2, <1>5 DEF Fetches, Goto
  <2>2. fetchedAt' \in [Gates -> Nat]
    <3>1. at[g] <= 3 /\ ScanInv(g)
      BY <1>1, <1>5 DEF Fetches, ScanInv, SecurityInv
    <3>2. Resource(g) \in Lanes
      BY <1>1, <3>1, ResourceFacts DEF Resource, Lanes
    <3>3. activation[Resource(g)] \in Nat /\ fetchedAt \in [Gates -> Nat]
      BY <1>1, <3>2 DEF TypeOK
    <3> QED
      BY <1>5, <3>3 DEF Fetches
  <2> QED
    BY <1>1, <1>5, <2>1, <2>2 DEF Fetches, TypeOK, authority, replica, gate, writers
<1>6. CASE Lists(g)
  <2>1. pc' \in [Gates -> PCs]
    BY <1>1, <1>2, <1>6 DEF Lists, Goto
  <2>2. history[Counter] \in Contents
    <3>1. Counter = Len(history) /\ Counter > 0 /\ history \in Seq(Contents)
      BY Types DEF SecurityInv, HistoryInv, Ordered
    <3> QED
      BY <1>1, <3>1, HistoryTypes
  <2>3. fetched' \in [Gates -> Contents]
    BY <1>1, <1>6, <2>2 DEF Lists, TypeOK
  <2> QED
    BY <1>1, <1>6, <2>1, <2>3 DEF Lists, TypeOK, authority, replica, gate, writers
<1>7. ASSUME ResourceDone(g), at[g] <= 3
      PROVE  /\ pc' \in [Gates -> PCs] /\ at' \in [Gates -> 1..(Len(Resources) + 1)]
             /\ fetched' \in [Gates -> Contents] /\ fetchedAt' \in [Gates -> Nat]
  <2>1. at' \in [Gates -> 1..(Len(Resources) + 1)]
    BY <1>3, <1>7 DEF ResourceDone
  <2>2. fetched \in [Gates -> Contents] /\ fetchedAt \in [Gates -> Nat]
    BY <1>1 DEF TypeOK
  <2> QED
    BY <1>1, <1>2, <1>7, <2>1, <2>2 DEF ResourceDone, Goto
<1>8. pc[g] \in {"install", "catalogs"} => at[g] <= 3
  BY DEF SecurityInv, ScanInv
<1>9. CASE InstallsDocument(g)
  <2>1. Resource(g) \in Parts
    BY <1>1, <1>8, <1>9, ResourceFacts, DocumentFacts DEF InstallsDocument, Resource
  <2>2. live' \in Contents
    BY <1>1, <1>9, <2>1 DEF InstallsDocument, InstallDocument, Contents
  <2> QED
    BY <1>1, <1>7, <1>8, <1>9, <2>2 DEF InstallsDocument, TypeOK, authority, gate, writers
<1>10. CASE PublishesRecords(g)
  <2>1. live' \in Contents
    BY <1>1, <1>10 DEF PublishesRecords, Contents
  <2>2. pc' \in [Gates -> PCs]
    BY <1>1, <1>2, <1>10 DEF PublishesRecords, Goto
  <2> QED
    BY <1>1, <1>10, <2>1, <2>2 DEF PublishesRecords, TypeOK, authority, gate, writers
<1>11. CASE RepublishesCatalogs(g)
  <2>1. listed' \in Nat
    BY <1>1, <1>11 DEF RepublishesCatalogs
  <2> QED
    BY <1>1, <1>7, <1>8, <1>11, <2>1 DEF RepublishesCatalogs, TypeOK, authority, gate, writers
<1> QED
  BY <1>4, <1>5, <1>6, <1>9, <1>10, <1>11

LEMMA PublishTypes ==
    ASSUME SecurityInv, NEW g \in Gates,
           \/ ScanEnds(g) \/ Settles(g) \/ CapturesLane(g)
           \/ PublishesBundle(g) \/ PublishesWatermark(g)
    PROVE  TypeOK'
<1>1. /\ TypeOK /\ Counter \in Nat /\ current[g] \in Nat /\ current \in [Gates -> Nat]
      /\ start \in [Gates -> Nat] /\ compiled \in Nat /\ observed \in Nat
      /\ failing \in BOOLEAN /\ handled \subseteq Nat /\ pc \in [Gates -> PCs]
      /\ at[g] \in 1..4 /\ fetched[g] \in [Parts -> Nat] /\ live \in [Parts -> Nat]
  <2>1. TypeOK /\ Counter \in Nat /\ current[g] \in Nat /\ at[g] \in 1..4
    BY Types, GateTypes DEF SecurityInv
  <2>2. /\ current \in [Gates -> Nat] /\ start \in [Gates -> Nat] /\ compiled \in Nat
        /\ observed \in Nat /\ failing \in BOOLEAN /\ handled \subseteq Nat
        /\ pc \in [Gates -> PCs] /\ fetched[g] \in Contents /\ live \in Contents
    BY <2>1, Zenon DEF TypeOK
  <2> QED
    BY <2>1, <2>2, Zenon DEF Contents
<1>2. {"idle", "read", "settle", "capture", "publish", "mark"} \subseteq PCs
  BY DEF PCs
<1>3. CASE ScanEnds(g)
  <2>1. pc' \in [Gates -> PCs]
    BY <1>2, <1>3, PassTypes DEF ScanEnds, TryAgain
  <2> QED
    BY <1>1, <1>3, <2>1, EndTypes DEF ScanEnds, TryAgain, authority, gate
<1>4. CASE Settles(g)
  <2>1. pc' \in [Gates -> PCs] /\ observed' \in Nat
    BY <1>1, <1>2, <1>4, PassTypes DEF Settles, TryAgain
  <2>2. CASE TryAgain(g)
    BY <1>1, <1>4, <2>1, <2>2, EndTypes DEF Settles, TryAgain, authority
  <2>3. CASE Settled(g) /\ at' = [at EXCEPT ![g] = 1] /\ UNCHANGED <<lock, base, moved, fetched, fetchedAt>>
    <3>1. at' \in [Gates -> 1..(Len(Resources) + 1)]
      BY <1>1, <2>3, ResourceFacts DEF TypeOK
    <3> QED
      BY <1>1, <1>4, <2>1, <2>3, <3>1 DEF Settles, TypeOK, authority, replica, writers
  <2> QED
    BY <1>4, <2>2, <2>3 DEF Settles
<1>5. CASE CapturesLane(g)
  <2>1. fetched' \in [Gates -> Contents]
    <3>1. [p \in Parts |-> IF LaneOf(p) = Resource(g) THEN live[p] ELSE fetched[g][p]] \in Contents
      BY <1>1 DEF Contents
    <3> QED
      BY <1>1, <1>5, <3>1 DEF CapturesLane, TypeOK
  <2>2. at' \in [Gates -> 1..(Len(Resources) + 1)]
    <3>1. at[g] <= 3 /\ at \in [Gates -> 1..4]
      BY <1>1, <1>5, ResourceFacts DEF CapturesLane, SecurityInv, CaptureInv, TypeOK
    <3>2. at[g] + 1 \in 1..4
      BY <1>1, <3>1
    <3>3. at' \in [Gates -> 1..4]
      BY <1>5, <3>1, <3>2 DEF CapturesLane
    <3> QED
      BY <3>3, ResourceFacts
  <2>3. pc' \in [Gates -> PCs]
    BY <1>1, <1>2, <1>5 DEF CapturesLane, Goto
  <2> QED
    BY <1>1, <1>5, <2>1, <2>2, <2>3 DEF CapturesLane, TypeOK, authority, replica, gate, writers
<1>6. CASE PublishesBundle(g)
  <2>1. published' \in Bundles
    BY <1>1, <1>6 DEF PublishesBundle, Bundles, Contents
  <2>2. pc' \in [Gates -> PCs] /\ handled' \subseteq Nat
    BY <1>1, <1>2, <1>6 DEF PublishesBundle, Goto
  <2> QED
    BY <1>1, <1>6, <2>1, <2>2 DEF PublishesBundle, TypeOK, replica, passes, writers
<1>7. CASE PublishesWatermark(g)
  <2>1. /\ pc' \in [Gates -> PCs] /\ failing' \in BOOLEAN /\ start' \in [Gates -> Nat]
        /\ current' \in [Gates -> Nat] /\ compiled' \in Nat
    BY <1>1, <1>2, <1>7, PassTypes DEF PublishesWatermark
  <2> QED
    BY <1>1, <1>7, <2>1, EndTypes DEF PublishesWatermark, authority
<1> QED
  BY <1>3, <1>4, <1>5, <1>6, <1>7

-----------------------------------------------------------------------------
(* The other replicas and this replica's handlers                           *)

LEMMA ContinuesSame == ASSUME NEW h \in Seq(Contents) PROVE Continues(h, h)
<1>1. Len(h) \in Nat
  BY HistoryTypes
<1> QED
  BY <1>1 DEF Continues

LEMMA AsideStep ==
    ASSUME SecurityInv, TypeOK', HistoryInv', Grows, UNCHANGED <<pc, passes>>,
           lock'["gate"] = lock["gate"], \A w \in Writers : WriterInv(w)',
           \A p \in Parts :
              live'[p] = live[p] \/ live'[p] \in handled' \/ live'[p] <= published.revision
    PROVE  SecurityInv'
<1>1. \A p \in Parts :
        \/ live'[p] = live[p]
        \/ /\ live[p] <= live'[p] /\ Real(history', p, live'[p])
           /\ live'[p] \in handled' \/ live'[p] <= published.revision
  BY DEF Grows
<1>2. \A g \in Gates : Beside(g)
  BY <1>1 DEF Beside, Grows, passes
<1>3. \A g \in Gates : GateInv(g)' /\ ScanInv(g)' /\ CaptureInv(g)'
  BY <1>2, BesideGate, BesideScan, BesideCapture
<1>4. /\ lock'["gate"] = Nobody => published'.revision = compiled'
      /\ lock'["gate"] \in Gates \cup {Nobody}
  BY DEF SecurityInv, Grows
<1> QED
  BY <1>3, <1>4, GrowsLive, GrowsBundle DEF SecurityInv

LEMMA CommitGrows ==
    ASSUME SecurityInv, NEW p \in Parts, Commits(p), handled \subseteq handled',
           UNCHANGED <<replica, gate>>
    PROVE  Grows
<1>1. /\ history' \in Seq(Contents) /\ Continues(history, history')
      /\ activation' \in [Lanes -> Nat] /\ activation["connections"] <= activation'["connections"]
  BY CommitsFacts
<1>2. live' = live /\ live' \in Contents /\ compiled' = compiled /\ listed' = listed
      /\ published' = published
  BY DEF replica, gate, SecurityInv, TypeOK
<1> QED
  BY <1>1, <1>2 DEF Grows

LEMMA RemoteCommitStep ==
    ASSUME SecurityInv, NEW p \in Parts, RemoteCommit(p)
    PROVE  SecurityInv'
<1>1. Commits(p) /\ UNCHANGED <<handled, replica, gate, lock, pc, passes, writers>>
  BY DEF RemoteCommit
<1>2. Grows
  BY <1>1, CommitGrows
<1>3. HistoryInv' /\ TypeOK'
  BY <1>1, CommitsFacts, AuthorityTypes
<1>4. \A w \in Writers : WriterInv(w)'
  BY <1>1, <1>2, GrowsWriter DEF writers, replica
<1>5. \A p_1 \in Parts : live'[p_1] = live[p_1]
  BY <1>1 DEF replica
<1> QED
  BY <1>1, <1>2, <1>3, <1>4, <1>5, AsideStep

LEMMA WriterBeginsStep ==
    ASSUME SecurityInv, NEW w \in Writers, NEW p \in Parts, WriterBegins(w, p)
    PROVE  SecurityInv'
<1>1. /\ UNCHANGED <<authority, replica, gate, pc, passes, wrevision>> /\ TypeOK /\ TypeOK'
      /\ lock \in [{"gate", "policy", "connections"} -> Gates \cup Writers \cup {Nobody}]
      /\ wpc \in [Writers -> {"idle", "commit", "probe", "reread", "install"}] /\ wpart \in [Writers -> Parts]
      /\ wpc' = [wpc EXCEPT ![w] = "commit"] /\ wpart' = [wpart EXCEPT ![w] = p]
      /\ lock' = IF LaneOf(p) = "tools" THEN lock ELSE [lock EXCEPT ![LaneOf(p)] = w]
      /\ ~Locked(LaneOf(p))
  BY WriterTypes DEF WriterBegins, SecurityInv, TypeOK
<1>2. Grows
  <2>1. history \in Seq(Contents) /\ Continues(history, history)
        /\ activation \in [Lanes -> Nat] /\ live \in Contents
    BY <1>1, ContinuesSame DEF TypeOK
  <2>2. activation["connections"] <= activation["connections"]
    BY <2>1 DEF Lanes
  <2> QED
    BY <1>1, <2>1, <2>2 DEF Grows, authority, replica, gate
<1>3. HistoryInv'
  BY <1>1 DEF SecurityInv, HistoryInv, authority
<1>4. LaneOf(p) \in {"policy", "tools", "connections"} /\ (p \in Records => LaneOf(p) = "connections")
  BY LaneOfType DEF Lanes, LaneOf
<1>5. lock'["gate"] = lock["gate"]
  BY <1>1, <1>4
<1>6. ASSUME NEW v \in Writers, v # w PROVE WriterInv(v)'
  <2>1. lock["connections"] = v => lock'["connections"] = v
    BY <1>1, <1>4, SecurityAssumption DEF Locked
  <2>2. wpc'[v] = wpc[v] /\ wpart'[v] = wpart[v] /\ wrevision'[v] = wrevision[v] /\ live' = live
    BY <1>1, <1>6 DEF replica
  <2> QED
    BY <1>2, <2>1, <2>2, GrowsWriter
<1>7. WriterInv(w)'
  <2>1. wpc'[w] = "commit" /\ wpart'[w] = p
    BY <1>1
  <2>2. p \in Records => lock'["connections"] = w
    BY <1>1, <1>4
  <2> QED
    BY <2>1, <2>2 DEF WriterInv
<1>8. \A q \in Parts : live'[q] = live[q]
  BY <1>1 DEF replica
<1>9. \A v \in Writers : WriterInv(v)'
  BY <1>6, <1>7
<1> QED
  BY <1>1, <1>2, <1>3, <1>5, <1>8, <1>9, AsideStep

LEMMA WriterCommitsStep ==
    ASSUME SecurityInv, NEW w \in Writers, WriterCommits(w)
    PROVE  SecurityInv'
<1>1. /\ UNCHANGED <<replica, gate, lock, pc, passes, wpart>> /\ TypeOK /\ TypeOK'
      /\ wpc \in [Writers -> {"idle", "commit", "probe", "reread", "install"}] /\ wrevision \in [Writers -> Nat]
      /\ wpart[w] \in Parts /\ Commits(wpart[w])
      /\ handled' = handled \cup {Counter + 1} /\ wpc[w] = "commit"
      /\ wpc' = [wpc EXCEPT ![w] = "install"] /\ wrevision' = [wrevision EXCEPT ![w] = Counter + 1]
  BY WriterTypes DEF WriterCommits, SecurityInv, TypeOK
<1>2. Grows
  BY <1>1, CommitGrows
<1>3. /\ HistoryInv' /\ Counter' = Counter + 1 /\ Counter \in Nat
      /\ history'[Counter + 1][wpart[w]] = Counter + 1
  BY <1>1, CommitsFacts, Types
<1>4. ASSUME NEW v \in Writers, v # w PROVE WriterInv(v)'
  BY <1>1, <1>2, <1>4, GrowsWriter DEF replica
<1>5. WriterInv(w)'
  <2>1. wpc'[w] = "install" /\ wpart'[w] = wpart[w] /\ wrevision'[w] = Counter + 1
    BY <1>1
  <2>2. Real(history', wpart[w], Counter + 1) /\ Counter + 1 \in handled'
    BY <1>1, <1>3 DEF Real, Counter
  <2>3. live'[wpart[w]] <= Counter + 1
    <3>1. live' = live /\ live[wpart[w]] \in Nat /\ Real(history, wpart[w], live[wpart[w]])
      BY <1>1, Types DEF replica, SecurityInv, LiveInv
    <3>2. live[wpart[w]] <= Counter
      BY <1>3, <3>1 DEF Real, Counter
    <3> QED
      BY <1>3, <3>1, <3>2
  <2>4. wpart[w] \in Records => lock'["connections"] = w
    BY <1>1 DEF SecurityInv, WriterInv
  <2> QED
    BY <1>3, <2>1, <2>2, <2>3, <2>4 DEF WriterInv
<1>6. \A q \in Parts : live'[q] = live[q]
  BY <1>1 DEF replica
<1>7. \A v \in Writers : WriterInv(v)'
  BY <1>4, <1>5
<1> QED
  BY <1>1, <1>2, <1>3, <1>6, <1>7, AsideStep

\* The handlers that append a status change nothing but their own place, the lock
\* of the Connections and what they took from the authority.
LEMMA StatusStep ==
    ASSUME SecurityInv, NEW w \in Writers, TypeOK', WriterInv(w)',
           UNCHANGED <<history, activation, replica, gate, pc, passes>>,
           handled \subseteq handled', lock'["gate"] = lock["gate"],
           lock["connections"] \in {w, Nobody} \/ lock' = lock,
           \A v \in Writers \ {w} :
              wpc'[v] = wpc[v] /\ wpart'[v] = wpart[v] /\ wrevision'[v] = wrevision[v]
    PROVE  SecurityInv'
<1>1. Grows
  <2>1. /\ history \in Seq(Contents) /\ Continues(history, history)
        /\ activation \in [Lanes -> Nat] /\ live \in Contents
    BY ContinuesSame DEF SecurityInv, TypeOK
  <2>2. activation["connections"] <= activation["connections"]
    BY <2>1 DEF Lanes
  <2> QED
    BY <2>1, <2>2 DEF Grows, replica, gate
<1>2. HistoryInv' /\ live' = live
  BY DEF SecurityInv, HistoryInv, replica
<1>3. ASSUME NEW v \in Writers, v # w PROVE WriterInv(v)'
  <2>1. lock["connections"] = v => lock'["connections"] = v
    BY <1>3, SecurityAssumption
  <2> QED
    BY <1>1, <1>2, <1>3, <2>1, GrowsWriter
<1>4. \A v \in Writers : WriterInv(v)'
  BY <1>3
<1> QED
  BY <1>1, <1>2, <1>4, AsideStep

LEMMA StatusBeginsStep ==
    ASSUME SecurityInv, NEW w \in Writers, NEW p \in Records, StatusBegins(w, p)
    PROVE  SecurityInv'
<1>1. /\ UNCHANGED <<authority, replica, gate, lock, pc, passes>> /\ TypeOK'
      /\ wpc \in [Writers -> {"idle", "commit", "probe", "reread", "install"}]
      /\ wpart \in [Writers -> Parts] /\ wrevision \in [Writers -> Nat]
      /\ wpc' = [wpc EXCEPT ![w] = "probe"] /\ wpart' = [wpart EXCEPT ![w] = p]
      /\ wrevision' = [wrevision EXCEPT ![w] = live[p]]
  BY WriterTypes DEF StatusBegins, SecurityInv, TypeOK
<1>2. WriterInv(w)'
  BY <1>1 DEF WriterInv
<1> QED
  BY <1>1, <1>2, StatusStep DEF authority

LEMMA StatusAppendsStep ==
    ASSUME SecurityInv, NEW w \in Writers, StatusAppends(w) \/ StatusReturnsRecord(w)
    PROVE  SecurityInv'
<1>1. /\ UNCHANGED <<history, activation, replica, gate, pc, passes, wpart, wrevision>> /\ TypeOK'
      /\ wpc \in [Writers -> {"idle", "commit", "probe", "reread", "install"}]
      /\ wpart[w] \in Parts /\ wrevision[w] \in Nat
      /\ lock \in [{"gate", "policy", "connections"} -> Gates \cup Writers \cup {Nobody}]
      /\ lock' = [lock EXCEPT !["connections"] = w] /\ lock["connections"] = Nobody
      /\ history[Counter][wpart[w]] = wrevision[w]
  BY WriterTypes DEF StatusAppends, StatusReturnsRecord, AppendStatus, Locked, SecurityInv, TypeOK
<1>2. \/ wpc' = [wpc EXCEPT ![w] = "reread"] /\ handled' = handled
      \/ wpc' = [wpc EXCEPT ![w] = "install"] /\ Handles(wrevision[w])
  BY DEF StatusAppends, StatusReturnsRecord
<1>3. lock'["connections"] = w /\ lock'["gate"] = lock["gate"]
  BY <1>1
<1>4. WriterInv(w)'
  <2>1. CASE wpc' = [wpc EXCEPT ![w] = "reread"]
    BY <1>1, <1>3, <2>1 DEF WriterInv
  <2>2. CASE wpc' = [wpc EXCEPT ![w] = "install"] /\ Handles(wrevision[w])
    <3>1. Real(history, wpart[w], wrevision[w]) /\ live[wpart[w]] <= wrevision[w]
      BY <1>1, HeldType
    <3>2. wrevision[w] \in handled' \/ wrevision[w] <= published.revision
      BY <1>1, <2>2, Types DEF Handles, SecurityInv
    <3> QED
      BY <1>1, <1>3, <3>1, <3>2 DEF WriterInv, replica, gate
  <2> QED
    BY <1>2, <2>1, <2>2
<1>5. handled \subseteq handled'
  BY <1>2 DEF Handles
<1>6. \A v \in Writers \ {w} :
         wpc'[v] = wpc[v] /\ wpart'[v] = wpart[v] /\ wrevision'[v] = wrevision[v]
  BY <1>1, <1>2
<1> QED
  BY <1>1, <1>3, <1>4, <1>5, <1>6, StatusStep

\* What is read back is at least as new as what is installed, which no one can
\* replace before it is installed itself.
LEMMA StatusRereadsStep ==
    ASSUME SecurityInv, NEW w \in Writers, StatusRereads(w)
    PROVE  SecurityInv'
<1> DEFINE held == history[Counter][wpart[w]]
<1>1. /\ UNCHANGED <<history, activation, replica, gate, lock, pc, passes, wpart>> /\ TypeOK'
      /\ wpc \in [Writers -> {"idle", "commit", "probe", "reread", "install"}]
      /\ wpart[w] \in Parts /\ wrevision \in [Writers -> Nat]
      /\ wpc[w] = "reread" /\ wpc' = [wpc EXCEPT ![w] = "install"]
      /\ wrevision' = [wrevision EXCEPT ![w] = held] /\ Handles(held)
  BY WriterTypes DEF StatusRereads, SecurityInv, TypeOK
<1>2. /\ held \in Nat /\ Real(history, wpart[w], held) /\ live[wpart[w]] <= held
      /\ wpart[w] \in Records => lock["connections"] = w
  BY <1>1, HeldType DEF SecurityInv, WriterInv
<1>3. held \in handled' \/ held <= published.revision
  BY <1>1, <1>2, Types DEF Handles, SecurityInv
<1>4. WriterInv(w)'
  BY <1>1, <1>2, <1>3 DEF WriterInv, replica, gate
<1>5. handled \subseteq handled'
  BY <1>1 DEF Handles
<1>6. \A v \in Writers \ {w} :
         wpc'[v] = wpc[v] /\ wpart'[v] = wpart[v] /\ wrevision'[v] = wrevision[v]
  BY <1>1
<1> QED
  BY <1>1, <1>4, <1>5, <1>6, StatusStep

\* A handler ends, having installed what it had or nothing.
LEMMA WriterEndsStep ==
    ASSUME SecurityInv, NEW w \in Writers, WriterEnds(w), TypeOK', wpc[w] # "idle",
           \A p \in Parts :
              \/ live'[p] = live[p]
              \/ /\ live[p] <= live'[p] /\ Real(history, p, live'[p])
                 /\ live'[p] \in handled \/ live'[p] <= published.revision,
           wpart[w] \notin Records \/ wpc[w] = "probe" => \A q \in Records : live'[q] = live[q]
    PROVE  SecurityInv'
<1>1. /\ UNCHANGED <<authority, listed, gate, pc, passes>> /\ TypeOK
      /\ lock \in [{"gate", "policy", "connections"} -> Gates \cup Writers \cup {Nobody}]
      /\ lock' = [l \in {"gate", "policy", "connections"} |-> IF lock[l] = w THEN Nobody ELSE lock[l]]
      /\ wpc \in [Writers -> {"idle", "commit", "probe", "reread", "install"}] /\ wpart \in [Writers -> Parts]
      /\ wrevision \in [Writers -> Nat] /\ wpc' = [wpc EXCEPT ![w] = "idle"]
      /\ wpart' = [wpart EXCEPT ![w] = "policy"] /\ wrevision' = [wrevision EXCEPT ![w] = 0]
  BY DEF WriterEnds, SecurityInv, TypeOK
<1>2. Grows
  <2>1. /\ history \in Seq(Contents) /\ Continues(history, history)
        /\ activation \in [Lanes -> Nat] /\ live' \in Contents
    BY <1>1, ContinuesSame DEF TypeOK
  <2>2. activation["connections"] <= activation["connections"]
    BY <2>1 DEF Lanes
  <2> QED
    BY <1>1, <2>1, <2>2 DEF Grows, authority, gate
<1>3. HistoryInv'
  BY <1>1 DEF SecurityInv, HistoryInv, authority
<1>4. lock'["gate"] = lock["gate"]
  BY <1>1, SecurityAssumption DEF SecurityInv
<1>5. ASSUME NEW v \in Writers, v # w PROVE WriterInv(v)'
  <2>1. lock["connections"] = v => lock'["connections"] = v
    BY <1>1, <1>5
  <2>2. wpc'[v] = wpc[v] /\ wpart'[v] = wpart[v] /\ wrevision'[v] = wrevision[v]
    BY <1>1, <1>5
  <2>3. wpc[v] = "install" /\ wpart[v] \in Records => wpart[w] \notin Records \/ wpc[w] = "probe"
    BY <1>5 DEF SecurityInv, WriterInv
  <2> QED
    BY <1>2, <2>1, <2>2, <2>3, GrowsWriter
<1>6. WriterInv(w)'
  BY <1>1 DEF WriterInv
<1>7. \A p \in Parts : live'[p] = live[p] \/ live'[p] \in handled' \/ live'[p] <= published.revision
  BY <1>1 DEF authority
<1>8. \A v \in Writers : WriterInv(v)'
  BY <1>5, <1>6
<1> QED
  BY <1>1, <1>2, <1>3, <1>4, <1>7, <1>8, AsideStep

LEMMA WriterInstallsStep ==
    ASSUME SecurityInv, NEW w \in Writers, WriterInstalls(w) \/ WriterStops(w)
    PROVE  SecurityInv'
<1>1. /\ TypeOK' /\ WriterEnds(w) /\ wpc[w] # "idle" /\ wpart[w] \in Parts
      /\ live \in [Parts -> Nat] /\ wrevision[w] \in Nat /\ Counter = Len(history)
  BY WriterTypes, Types DEF WriterInstalls, WriterStops, SecurityInv, TypeOK, Contents
<1>2. CASE WriterStops(w)
  BY <1>1, <1>2, WriterEndsStep DEF WriterStops
<1>3. CASE WriterInstalls(w)
  <2>1. /\ Real(history, wpart[w], wrevision[w])
        /\ wrevision[w] \in handled \/ wrevision[w] <= published.revision
        /\ wpart[w] \in Records => live[wpart[w]] <= wrevision[w]
    BY <1>1, <1>3 DEF WriterInstalls, SecurityInv, WriterInv
  <2>2. live' = live \/ (live[wpart[w]] <= wrevision[w] /\ live' = [live EXCEPT ![wpart[w]] = wrevision[w]])
    <3>1. CASE wpart[w] \in Records
      BY <1>1, <1>3, <2>1, <3>1 DEF WriterInstalls
    <3>2. CASE wpart[w] \notin Records
      BY <1>1, <1>3, <3>2 DEF WriterInstalls, InstallDocument, Newer
    <3> QED
      BY <3>1, <3>2
  <2>3. \A p \in Parts :
          \/ live'[p] = live[p]
          \/ /\ live[p] <= live'[p] /\ Real(history, p, live'[p])
             /\ live'[p] \in handled \/ live'[p] <= published.revision
    BY <1>1, <2>1, <2>2
  <2>4. wpart[w] \notin Records \/ wpc[w] = "probe" => \A q \in Records : live'[q] = live[q]
    BY <1>1, <1>3, <2>2 DEF Parts, WriterInstalls
  <2> QED
    BY <1>1, <2>3, <2>4, WriterEndsStep
<1> QED
  BY <1>2, <1>3

-----------------------------------------------------------------------------
(* What a step of one pass leaves of the others                             *)

\* Only pass g's locals change.
OnlyPass(g) ==
    \A h \in Gates \ {g} :
        /\ pc'[h] = pc[h] /\ start'[h] = start[h] /\ current'[h] = current[h]
        /\ base'[h] = base[h] /\ at'[h] = at[h] /\ moved'[h] = moved[h]
        /\ fetched'[h] = fetched[h] /\ fetchedAt'[h] = fetchedAt[h]

LEMMA PassIsAlone ==
    ASSUME SecurityInv, NEW g \in Gates, Pass(g) \/ Refuses(g)
    PROVE  OnlyPass(g)
<1>1. /\ pc \in [Gates -> PCs] /\ start \in [Gates -> Nat] /\ current \in [Gates -> Nat]
      /\ base \in [Gates -> Nat] /\ at \in [Gates -> 1..(Len(Resources) + 1)]
      /\ moved \in [Gates -> BOOLEAN] /\ fetched \in [Gates -> Contents]
      /\ fetchedAt \in [Gates -> Nat]
  BY Zenon DEF SecurityInv, TypeOK
<1>2. CASE Arrives(g) \/ ReadsCounter(g) \/ Checks(g) \/ Locks(g)
  BY <1>1, <1>2 DEF Arrives, ReadsCounter, Checks, Locks, Goto, Answers, OnlyPass
<1>3. CASE ReadsActivation(g)
  BY <1>1, <1>3 DEF ReadsActivation, Goto, OnlyPass
<1>4. CASE Fetches(g) \/ Lists(g)
  BY <1>1, <1>4 DEF Fetches, Lists, Goto, OnlyPass
<1>5. CASE InstallsDocument(g) \/ PublishesRecords(g) \/ RepublishesCatalogs(g)
  BY <1>1, <1>5 DEF InstallsDocument, PublishesRecords, RepublishesCatalogs, ResourceDone,
                    Goto, OnlyPass
<1>6. CASE ScanEnds(g)
  BY <1>1, <1>6 DEF ScanEnds, TryAgain, Forget, Goto, OnlyPass
<1>7. CASE Settles(g)
  BY <1>1, <1>7 DEF Settles, TryAgain, Forget, Goto, OnlyPass
<1>8. CASE CapturesLane(g)
  BY <1>1, <1>8 DEF CapturesLane, Goto, OnlyPass
<1>9. CASE PublishesBundle(g)
  BY <1>1, <1>9 DEF PublishesBundle, passes, Goto, OnlyPass
<1>10. CASE PublishesWatermark(g) \/ Refuses(g)
  BY <1>1, <1>10 DEF PublishesWatermark, Refuses, Answers, Forget, Goto, OnlyPass
<1> QED
  BY <1>2, <1>3, <1>4, <1>5, <1>6, <1>7, <1>8, <1>9, <1>10 DEF Pass

\* A step that installs and publishes nothing.
LEMMA QuietStep ==
    ASSUME SecurityInv, TypeOK', NEW g \in Gates, OnlyPass(g),
           UNCHANGED <<authority, replica, compiled, published, writers>>,
           lock'["connections"] = lock["connections"],
           \/ lock'["gate"] = lock["gate"]
           \/ lock["gate"] = Nobody /\ lock'["gate"] = g
           \/ lock["gate"] = g /\ lock'["gate"] = Nobody,
           lock'["gate"] = Nobody => published.revision = compiled,
           GateInv(g)', ScanInv(g)', CaptureInv(g)'
    PROVE  SecurityInv'
<1>1. /\ UNCHANGED <<history, activation, handled, live, listed>> /\ live \in Contents
      /\ history \in Seq(Contents) /\ Continues(history, history)
      /\ activation \in [Lanes -> Nat] /\ activation["connections"] <= activation["connections"]
  <2>1. /\ UNCHANGED <<history, activation, handled, live, listed>> /\ live \in Contents
        /\ history \in Seq(Contents) /\ activation \in [Lanes -> Nat]
    BY DEF authority, replica, SecurityInv, TypeOK
  <2>2. activation["connections"] <= activation["connections"]
    BY <2>1 DEF Lanes
  <2> QED
    BY <2>1, <2>2, ContinuesSame
<1>2. Grows
  BY <1>1 DEF Grows
<1>3. ASSUME NEW h \in Gates \ {g} PROVE GateInv(h)' /\ ScanInv(h)' /\ CaptureInv(h)'
  <2>1. lock'["gate"] = h <=> lock["gate"] = h
    BY SecurityAssumption
  <2>2. Beside(h)
    BY <1>1, <2>1 DEF Beside, OnlyPass
  <2> QED
    BY <2>2, BesideGate, BesideScan, BesideCapture
<1>4. \A w \in Writers : WriterInv(w)'
  BY <1>1, <1>2, GrowsWriter DEF writers
<1>5. HistoryInv'
  BY <1>1 DEF SecurityInv, HistoryInv
<1>6. /\ lock'["gate"] = Nobody => published'.revision = compiled'
      /\ lock'["gate"] \in Gates \cup {Nobody}
  BY DEF SecurityInv
<1>7. \A h \in Gates : GateInv(h)' /\ ScanInv(h)' /\ CaptureInv(h)'
  BY <1>3
<1> QED
  BY <1>2, <1>4, <1>5, <1>6, <1>7, GrowsLive, GrowsBundle DEF SecurityInv

\* While one pass holds the lock the others are before it.
LEMMA HolderIsAlone ==
    ASSUME SecurityInv, NEW g \in Gates, pc[g] \in Scanning \cup Publishing
    PROVE  /\ lock["gate"] = g
           /\ \A h \in Gates \ {g} : pc[h] \in {"idle", "read", "check", "wait"}
<1>1. lock["gate"] = g
  BY DEF SecurityInv, GateInv
<1>2. ASSUME NEW h \in Gates \ {g} PROVE pc[h] \in {"idle", "read", "check", "wait"}
  <2>1. pc[h] \notin Scanning \cup Publishing /\ pc[h] \in PCs
    BY <1>1, GateTypes DEF SecurityInv, GateInv
  <2> QED
    BY <2>1 DEF PCs, Scanning, Publishing
<1> QED
  BY <1>1, <1>2

LEMMA HolderStep ==
    ASSUME SecurityInv, NEW g \in Gates, pc[g] \in Scanning \cup Publishing, OnlyPass(g),
           history' = history, lock'["gate"] \in {g, Nobody}, NEW h \in Gates \ {g}
    PROVE  GateInv(h)' /\ ScanInv(h)' /\ CaptureInv(h)'
<1>1. /\ pc'[h] = pc[h] /\ start'[h] = start[h] /\ current'[h] = current[h]
      /\ at'[h] = at[h] /\ Counter' = Counter /\ GateInv(h)
  BY DEF OnlyPass, Counter, SecurityInv
<1>2. pc[h] \in {"idle", "read", "check", "wait"} /\ lock'["gate"] # h
  BY HolderIsAlone, SecurityAssumption
<1> QED
  BY <1>1, <1>2 DEF GateInv, ScanInv, CaptureInv, Scanning, Publishing

-----------------------------------------------------------------------------
(* Before the lock, and giving up                                           *)

LEMMA BeforeTheLock ==
    ASSUME NEW g \in Gates, pc'[g] \in {"idle", "read", "check", "wait"}
    PROVE  ScanInv(g)' /\ CaptureInv(g)'
BY DEF ScanInv, CaptureInv, Scanning

LEMMA EntryStep ==
    ASSUME SecurityInv, NEW g \in Gates, Arrives(g) \/ ReadsCounter(g) \/ Checks(g)
    PROVE  SecurityInv'
<1>1. TypeOK' /\ OnlyPass(g)
  BY EntryTypes, PassIsAlone DEF Pass
<1>2. /\ UNCHANGED <<authority, replica, compiled, published, writers, lock, at>>
  BY DEF Arrives, ReadsCounter, Checks, gate
<1>3. /\ Counter' = Counter /\ Counter \in Nat /\ Counter > 0 /\ start[g] \in Nat
      /\ current[g] \in Nat /\ GateInv(g)
  <2>1. Counter \in Nat /\ Counter = Len(history) /\ Len(history) > 0
    BY Types DEF SecurityInv, HistoryInv, Ordered
  <2> QED
    BY <1>2, <2>1, GateTypes DEF SecurityInv, authority, Counter
<1>4. /\ pc \in [Gates -> PCs] /\ start \in [Gates -> Nat] /\ current \in [Gates -> Nat]
  BY DEF SecurityInv, TypeOK
<1>5. pc'[g] \in {"idle", "read", "check", "wait"} /\ GateInv(g)'
  <2>1. CASE Arrives(g)
    <3>1. pc[g] = "idle" /\ pc'[g] = "read" /\ start'[g] = Counter
      BY <1>4, <2>1 DEF Arrives, Goto
    <3> QED
      BY <1>2, <1>3, <3>1 DEF GateInv, Scanning, Publishing
  <2>2. CASE ReadsCounter(g)
    <3>1. pc[g] = "read" /\ pc'[g] = "check" /\ current'[g] = Counter /\ start'[g] = start[g]
      BY <1>4, <2>2 DEF ReadsCounter, Goto
    <3> QED
      BY <1>2, <1>3, <3>1 DEF GateInv, Scanning, Publishing
  <2>3. CASE Checks(g)
    <3>1. /\ pc[g] = "check"
          /\ \/ pc'[g] = "idle"
             \/ pc'[g] = "wait" /\ current'[g] = current[g] /\ start'[g] = start[g]
      BY <1>4, <2>3 DEF Checks, Goto, Answers
    <3> QED
      BY <1>2, <1>3, <3>1 DEF GateInv, Scanning, Publishing
  <2> QED
    BY <2>1, <2>2, <2>3
<1>6. lock'["gate"] = Nobody => published.revision = compiled
  BY <1>2 DEF SecurityInv
<1> QED
  BY <1>1, <1>2, <1>5, <1>6, BeforeTheLock, QuietStep

\* The lock is granted: the watermark is behind the pass's revision.
LEMMA LocksStep ==
    ASSUME SecurityInv, NEW g \in Gates, Locks(g)
    PROVE  SecurityInv'
<1>1. TypeOK' /\ OnlyPass(g)
  BY EntryTypes, PassIsAlone DEF Pass
<1>2. /\ UNCHANGED <<authority, replica, compiled, published, at, moved, fetched,
                     fetchedAt, writers>>
      /\ pc[g] = "wait" /\ lock["gate"] = Nobody /\ published.revision = compiled
  BY DEF Locks, SecurityInv
<1>3. /\ Counter' = Counter /\ Counter \in Nat /\ start[g] \in Nat /\ current[g] \in Nat
      /\ GateInv(g) /\ compiled \in Nat
  BY <1>2, GateTypes, Types DEF SecurityInv, authority, Counter
<1>4. /\ pc \in [Gates -> PCs] /\ start \in [Gates -> Nat] /\ current \in [Gates -> Nat]
      /\ base \in [Gates -> Nat] /\ g # Nobody
      /\ lock \in [{"gate", "policy", "connections"} -> Gates \cup Writers \cup {Nobody}]
  BY SecurityAssumption DEF SecurityInv, TypeOK
<1>5. CASE Answers(g, TRUE) /\ UNCHANGED <<lock, base>>
  <2>1. pc'[g] = "idle" /\ lock' = lock
    BY <1>4, <1>5 DEF Answers, Goto
  <2>2. GateInv(g)'
    BY <1>2, <1>3, <1>4, <2>1 DEF GateInv, Scanning, Publishing
  <2>3. pc'[g] \in {"idle", "read", "check", "wait"}
    BY <2>1
  <2> QED
    BY <1>1, <1>2, <2>1, <2>2, <2>3, BeforeTheLock, QuietStep
<1>6. CASE /\ ~Admissible(g) /\ Goto(g, "lane") /\ lock' = [lock EXCEPT !["gate"] = g]
           /\ base' = [base EXCEPT ![g] = compiled] /\ UNCHANGED <<failing, start, current>>
  <2>1. /\ pc'[g] = "lane" /\ lock'["gate"] = g /\ base'[g] = compiled
        /\ lock'["connections"] = lock["connections"] /\ UNCHANGED <<start, current>>
    BY <1>4, <1>6 DEF Goto
  <2>2. compiled < current[g]
    BY <1>2, <1>3, <1>6 DEF Admissible
  <2>3. GateInv(g)'
    BY <1>2, <1>3, <2>1, <2>2 DEF GateInv, Scanning, Publishing
  <2>4. CaptureInv(g)'
    BY <2>1 DEF CaptureInv
  <2>5. ScanInv(g)'
    <3>1. at'[g] = 1 /\ \A p \in Parts : ~(LaneIndex(p) < 1)
      <4>1. \A p \in Parts : LaneIndex(p) \in 1..3
        BY LaneFacts
      <4>2. at[g] = 1
        BY <1>2, <1>3 DEF GateInv, Scanning, Publishing
      <4> QED
        BY <1>2, <4>1, <4>2
    <3> QED
      BY <2>1, <3>1 DEF ScanInv
  <2> QED
    BY <1>1, <1>2, <1>4, <2>1, <2>3, <2>4, <2>5, QuietStep
<1> QED
  BY <1>5, <1>6 DEF Locks

\* A pass ends without publishing, wherever it stands: the lock is free again
\* and the bundle is the watermark's.
LEMMA GivesUpStep ==
    ASSUME SecurityInv, TypeOK', NEW g \in Gates, OnlyPass(g),
           pc[g] \in {"read", "wait"} \cup Scanning, Release(g), Forget(g),
           UNCHANGED <<authority, replica, compiled, published, writers>>,
           pc'[g] = "idle" \/ (pc'[g] = "read" /\ start'[g] = start[g])
    PROVE  SecurityInv'
<1>1. /\ GateInv(g) /\ Counter' = Counter /\ g # Nobody /\ at \in [Gates -> 1..4]
      /\ lock \in [{"gate", "policy", "connections"} -> Gates \cup Writers \cup {Nobody}]
  <2>1. at \in [Gates -> 1..4]
    BY ResourceFacts DEF SecurityInv, TypeOK
  <2> QED
    BY <2>1, SecurityAssumption DEF SecurityInv, TypeOK, authority, Counter
<1>2. /\ lock'["connections"] = lock["connections"] /\ at'[g] = 1
      /\ lock'["gate"] = IF lock["gate"] = g THEN Nobody ELSE lock["gate"]
  BY <1>1 DEF Release, Forget
<1>3. GateInv(g)'
  BY <1>1, <1>2 DEF GateInv, Scanning, Publishing
<1>4. lock'["gate"] = Nobody => published.revision = compiled
  <2>1. CASE lock["gate"] = g
    BY <1>1, <2>1 DEF GateInv, Publishing, Scanning
  <2>2. CASE lock["gate"] # g
    BY <1>2, <2>2 DEF SecurityInv
  <2> QED
    BY <2>1, <2>2
<1>5. ScanInv(g)' /\ CaptureInv(g)'
  BY BeforeTheLock
<1> QED
  BY <1>2, <1>3, <1>4, <1>5, QuietStep

LEMMA RefusesStep ==
    ASSUME SecurityInv, NEW g \in Gates, Refuses(g)
    PROVE  SecurityInv'
<1>1. TypeOK' /\ OnlyPass(g)
  BY EntryTypes, PassIsAlone
<1>2. pc[g] \in {"read", "wait"} \cup Scanning /\ pc'[g] = "idle"
  BY DEF Refuses, Answers, Goto, Scanning, SecurityInv, TypeOK
<1> QED
  BY <1>1, <1>2, GivesUpStep DEF Refuses

-----------------------------------------------------------------------------
(* The scan                                                                 *)

\* A pass under the lock that stays under it and publishes nothing.
LEMMA UnderLockStep ==
    ASSUME SecurityInv, TypeOK', NEW g \in Gates, OnlyPass(g),
           pc[g] \in Scanning \cup {"capture"},
           pc'[g] \in Scanning \cup {"capture", "publish"},
           UNCHANGED <<authority, replica, compiled, published, writers, lock, start, current, base>>,
           ScanInv(g)', CaptureInv(g)'
    PROVE  SecurityInv'
<1>1. /\ GateInv(g) /\ Counter' = Counter
  BY DEF SecurityInv, authority, Counter
<1>2. GateInv(g)'
  BY <1>1 DEF GateInv, Scanning, Publishing
<1>3. lock'["gate"] = Nobody => published.revision = compiled
  BY DEF SecurityInv
<1> QED
  BY <1>2, <1>3, QuietStep

\* The shared revision makes the test sound: a lane whose last change is not
\* above the watermark, or is installed, is as new as the pass's revision.
LEMMA UpToDateInstalled ==
    ASSUME SecurityInv, NEW g \in Gates, pc[g] = "lane", at[g] <= 3,
           activation[Resource(g)] <= current[g], UpToDate(g),
           NEW p \in Parts, LaneIndex(p) = at[g]
    PROVE  history[current[g]][p] <= live[p]
<1> DEFINE l == LaneOf(p)
           c == history[Counter][p]
<1>1. /\ Counter \in Nat /\ Counter = Len(history) /\ history \in Seq(Contents) /\ live[p] \in Nat
      /\ compiled \in Nat /\ listed \in Nat /\ Ordered(history, activation) /\ LiveInv
      /\ compiled <= Counter
  <2>1. /\ Counter \in Nat /\ Counter = Len(history) /\ history \in Seq(Contents) /\ live[p] \in Nat
        /\ compiled \in Nat /\ listed \in Nat /\ Ordered(history, activation) /\ LiveInv
        /\ published.revision \in Nat
    BY Types DEF SecurityInv, HistoryInv
  <2>2. compiled <= published.revision /\ published.revision <= Counter
    BY <2>1 DEF LiveInv
  <2> QED
    BY <2>1, <2>2
<1>2. at[g] \in 1..3 /\ Resource(g) = l
  BY LaneFacts, GateTypes DEF SecurityInv, Resource
<1>3. l \in Lanes /\ activation[l] \in Nat
  BY LaneOfType DEF SecurityInv, TypeOK
<1>4. current[g] \in 1..Counter /\ base[g] = compiled
  BY CurrentReached DEF SecurityInv, GateInv, Scanning
<1>5. /\ \A r \in 1..Counter : activation[l] <= r => history[r][p] = c
      /\ c <= activation[l] /\ activation[l] <= Counter
      /\ p \in {"policy", "tools"} => c = activation[p]
  BY <1>1, <1>3 DEF Ordered
<1>6. c \in Nat /\ history[current[g]][p] = c
  <2>1. Counter \in 1..Counter
    BY <1>1, <1>4
  <2>2. c \in Nat
    BY <1>1, <2>1, HistoryTypes
  <2> QED
    BY <1>2, <1>4, <1>5, <2>2
<1>7. CASE activation[l] <= compiled
  <2>1. CASE compiled = 0
    BY <1>1, <1>3, <1>5, <1>6, <1>7, <2>1
  <2>2. CASE compiled > 0
    <3>1. compiled \in 1..Counter
      BY <1>1, <2>2
    <3>2. history[compiled][p] = c /\ history[compiled][p] <= live[p]
      BY <1>1, <1>5, <1>7, <2>2, <3>1 DEF LiveInv
    <3> QED
      BY <1>6, <3>2
  <2> QED
    BY <1>1, <2>1, <2>2
<1>8. CASE Installed(l) >= activation[l] /\ p \in Records
  <2>1. l = "connections" /\ listed = activation[l]
    <3>1. l = "connections"
      BY <1>8 DEF LaneOf
    <3>2. listed >= activation[l] /\ listed <= activation[l]
      BY <1>1, <1>8, <3>1 DEF Installed, LiveInv
    <3> QED
      BY <1>1, <1>3, <3>1, <3>2
  <2>2. CASE listed = 0
    BY <1>1, <1>3, <1>5, <1>6, <2>1, <2>2
  <2>3. CASE listed > 0
    <3>1. listed \in 1..Counter
      BY <1>1, <1>5, <2>1, <2>3
    <3>2. activation[l] <= listed
      BY <1>1, <2>1
    <3>3. history[listed][p] = c /\ history[listed][p] <= live[p]
      BY <1>1, <1>5, <1>8, <2>3, <3>1, <3>2 DEF LiveInv
    <3> QED
      BY <1>6, <3>3
  <2> QED
    BY <1>1, <2>2, <2>3
<1>9. CASE Installed(l) >= activation[l] /\ p \notin Records
  <2>1. p \in {"policy", "tools"} /\ l = p /\ Installed(l) = live[p]
    BY <1>9 DEF Parts, LaneOf, Installed
  <2> QED
    BY <1>1, <1>3, <1>5, <1>6, <1>9, <2>1
<1>10. activation[l] <= compiled \/ Installed(l) >= activation[l]
  BY <1>2, <1>4 DEF UpToDate
<1> QED
  BY <1>7, <1>8, <1>9, <1>10

LEMMA ReadsActivationStep ==
    ASSUME SecurityInv, NEW g \in Gates, ReadsActivation(g)
    PROVE  SecurityInv'
<1>1. TypeOK' /\ OnlyPass(g)
  BY ScanTypes, PassIsAlone DEF Pass
<1>2. /\ UNCHANGED <<authority, replica, gate, lock, start, current, base, fetched, fetchedAt, writers>>
      /\ pc[g] = "lane" /\ at[g] <= 3 /\ at[g] \in 1..4 /\ ScanInv(g)
      /\ pc \in [Gates -> PCs] /\ at \in [Gates -> 1..4] /\ moved \in [Gates -> BOOLEAN]
  BY ResourceFacts, GateTypes DEF ReadsActivation, SecurityInv, TypeOK
<1>3. UNCHANGED <<history, live, current>> /\ UNCHANGED <<compiled, published>>
  BY <1>2 DEF authority, replica, gate
<1>4. \A p \in Parts : LaneIndex(p) \in 1..3
  BY LaneFacts
<1>5. (pc'[g] = "lane" \/ (pc'[g] = "fetch" /\ at'[g] <= 3)) /\ ScanInv(g)'
  <2>1. CASE moved' = [moved EXCEPT ![g] = TRUE] /\ UNCHANGED pc
    <3>1. moved'[g] /\ pc'[g] = "lane"
      BY <1>2, <2>1
    <3> QED
      BY <3>1 DEF ScanInv
  <2>2. CASE /\ activation[Resource(g)] <= current[g] /\ UpToDate(g)
             /\ at' = [at EXCEPT ![g] = @ + 1] /\ UNCHANGED <<pc, moved>>
    <3>1. pc'[g] = "lane" /\ at'[g] = at[g] + 1 /\ moved'[g] = moved[g]
      BY <1>2, <2>2
    <3>2. ASSUME ~moved[g], NEW p \in Parts, LaneIndex(p) < at[g] + 1
          PROVE  history[current[g]][p] <= live[p]
      <4>1. CASE LaneIndex(p) < at[g]
        BY <1>2, <3>2, <4>1 DEF ScanInv, Scanning
      <4>2. CASE LaneIndex(p) = at[g]
        BY <1>2, <2>2, <4>2, UpToDateInstalled
      <4> QED
        BY <1>2, <1>4, <3>2, <4>1, <4>2
    <3> QED
      BY <1>3, <3>1, <3>2 DEF ScanInv
  <2>3. CASE Goto(g, "fetch") /\ UNCHANGED <<at, moved>>
    <3>1. pc'[g] = "fetch" /\ at'[g] = at[g] /\ moved'[g] = moved[g]
      BY <1>2, <2>3 DEF Goto
    <3> QED
      BY <1>2, <1>3, <3>1 DEF ScanInv, Scanning
  <2> QED
    BY <2>1, <2>2, <2>3 DEF ReadsActivation
<1>6. CaptureInv(g)' /\ pc'[g] \in Scanning
  BY <1>5 DEF CaptureInv, Scanning
<1> QED
  BY <1>1, <1>2, <1>3, <1>5, <1>6, UnderLockStep DEF Scanning

LEMMA FetchesStep ==
    ASSUME SecurityInv, NEW g \in Gates, Fetches(g)
    PROVE  SecurityInv'
<1>1. TypeOK' /\ OnlyPass(g)
  BY ScanTypes, PassIsAlone DEF Pass
<1>2. /\ UNCHANGED <<authority, replica, gate, lock, start, current, base, at, moved, fetched, writers>>
      /\ pc[g] = "fetch" /\ at[g] \in 1..3 /\ ScanInv(g)
      /\ pc'[g] = (IF Resource(g) = "connections" THEN "list" ELSE "install")
      /\ fetchedAt'[g] = activation[Resource(g)]
  <2>1. ScanInv(g) /\ pc[g] = "fetch" /\ at[g] \in 1..4
    BY GateTypes DEF Fetches, SecurityInv
  <2>2. pc \in [Gates -> PCs] /\ fetchedAt \in [Gates -> Nat]
    BY DEF SecurityInv, TypeOK
  <2> QED
    BY <2>1, <2>2 DEF Fetches, Goto, ScanInv
<1>3. UNCHANGED <<history, activation, live, listed, compiled, published>> /\ Counter' = Counter
  BY <1>2 DEF authority, replica, gate, Counter
<1>4. /\ Resource(g)' = Resource(g) /\ Resource(g) \in Lanes
      /\ Resource(g) = "connections" <=> at[g] = 3
      /\ at[g] < 3 => Resource(g) \in {"policy", "tools"} /\ Resource(g) \in Parts
  BY <1>2, ResourceFacts, DocumentFacts DEF Resource, Lanes
<1>5. /\ Ordered(history, activation) /\ Counter = Len(history) /\ Counter \in Nat
      /\ Counter \in 1..Counter /\ current[g] \in 1..Counter /\ listed <= activation["connections"]
      /\ listed \in Nat /\ \A l \in Lanes : activation[l] \in Nat /\ activation[l] <= Counter
  <2>1. /\ Ordered(history, activation) /\ Counter = Len(history) /\ Counter \in Nat
        /\ current[g] \in 1..Counter /\ listed <= activation["connections"]
        /\ listed \in Nat /\ activation \in [Lanes -> Nat]
    BY <1>2, Types, CurrentReached DEF SecurityInv, HistoryInv, LiveInv
  <2> QED
    BY <2>1 DEF Ordered
<1>6. CASE at[g] < 3
  <2>1. /\ history[Counter][Resource(g)] = activation[Resource(g)]
        /\ Real(history, Resource(g), history[Counter][Resource(g)])
        /\ history[current[g]][Resource(g)] <= history[Counter][Resource(g)]
    BY <1>4, <1>5, <1>6 DEF Ordered
  <2>2. pc'[g] = "install" /\ at'[g] = at[g] /\ moved'[g] = moved[g] /\ current'[g] = current[g]
        /\ fetchedAt'[g] <= Counter
    BY <1>2, <1>4, <1>5, <1>6
  <2>3. ScanInv(g)'
    BY <1>2, <1>3, <1>4, <1>6, <2>1, <2>2 DEF ScanInv, Scanning
  <2> QED
    BY <1>1, <1>2, <1>3, <2>2, <2>3, UnderLockStep DEF CaptureInv, Scanning
<1>7. CASE at[g] = 3
  <2>1. pc'[g] = "list" /\ at'[g] = at[g] /\ moved'[g] = moved[g] /\ current'[g] = current[g]
        /\ fetchedAt'[g] = activation["connections"]
    BY <1>2, <1>4, <1>7
  <2>2. fetchedAt'[g] <= Counter /\ listed <= fetchedAt'[g] /\ fetchedAt'[g] <= activation["connections"]
    BY <1>5, <2>1 DEF Lanes
  <2>3. ScanInv(g)'
    BY <1>2, <1>3, <1>7, <2>1, <2>2 DEF ScanInv, Scanning
  <2> QED
    BY <1>1, <1>2, <1>3, <2>1, <2>3, UnderLockStep DEF CaptureInv, Scanning
<1> QED
  BY <1>2, <1>6, <1>7

\* The records are listed after the state revision was read: the listing is as
\* new as both the revision of the pass and the state revision.
LEMMA ListsStep ==
    ASSUME SecurityInv, NEW g \in Gates, Lists(g)
    PROVE  SecurityInv'
<1>1. TypeOK' /\ OnlyPass(g)
  BY ScanTypes, PassIsAlone DEF Pass
<1>2. /\ UNCHANGED <<authority, replica, gate, lock, start, current, base, at, moved, fetchedAt, writers>>
      /\ pc[g] = "list" /\ pc'[g] = "install" /\ fetched'[g] = history[Counter]
      /\ ScanInv(g) /\ at[g] = 3 /\ fetchedAt[g] \in Nat
  <2>1. pc \in [Gates -> PCs] /\ fetched \in [Gates -> Contents] /\ fetchedAt[g] \in Nat
    BY DEF SecurityInv, TypeOK
  <2> QED
    BY <2>1 DEF SecurityInv, ScanInv, Lists, Goto
<1>3. UNCHANGED <<history, activation, live, listed, compiled, published>> /\ Counter' = Counter
  BY <1>2 DEF authority, replica, gate, Counter
<1>4. /\ Ordered(history, activation) /\ Counter = Len(history) /\ Counter \in Nat
      /\ Counter \in 1..Counter /\ current[g] \in 1..Counter
  BY <1>2, Types, CurrentReached DEF SecurityInv, HistoryInv
<1>5. ASSUME NEW p \in Records
      PROVE  /\ Real(history, p, history[Counter][p])
             /\ history[current[g]][p] <= history[Counter][p]
             /\ fetchedAt[g] > 0 => history[fetchedAt[g]][p] <= history[Counter][p]
  <2>1. p \in Parts
    BY DEF Parts
  <2>2. fetchedAt[g] > 0 => fetchedAt[g] \in 1..Counter
    BY <1>2, <1>4 DEF ScanInv
  <2>3. \A r \in 1..Counter : history[r][p] <= history[Counter][p]
    BY <1>4, <2>1 DEF Ordered
  <2>4. Real(history, p, history[Counter][p])
    BY <1>4, <2>1 DEF Ordered
  <2> QED
    BY <1>4, <2>2, <2>3, <2>4
<1>6. ScanInv(g)'
  BY <1>2, <1>3, <1>5 DEF ScanInv, Scanning
<1> QED
  BY <1>1, <1>2, <1>3, <1>6, UnderLockStep DEF CaptureInv, Scanning

LEMMA ScanEndsStep ==
    ASSUME SecurityInv, NEW g \in Gates, ScanEnds(g)
    PROVE  SecurityInv'
<1>1. TypeOK' /\ OnlyPass(g)
  BY PublishTypes, PassIsAlone DEF Pass
<1>2. /\ UNCHANGED <<authority, replica, gate, start, current, writers>> /\ pc \in [Gates -> PCs]
      /\ pc[g] = "lane" /\ at[g] = 4 /\ ScanInv(g)
  <2>1. at[g] \in 1..4 /\ at[g] > 3
    BY GateTypes, ResourceFacts DEF ScanEnds, SecurityInv
  <2>2. at[g] = 4
    BY <2>1
  <2> QED
    BY <2>2, Zenon DEF ScanEnds, SecurityInv, TypeOK
<1>3. UNCHANGED <<history, live, compiled, published>>
  BY <1>2 DEF authority, replica, gate
<1>4. CASE TryAgain(g)
  <2>1. pc'[g] = "read" /\ start'[g] = start[g]
    BY <1>2, <1>4 DEF TryAgain, Goto
  <2> QED
    BY <1>1, <1>2, <1>3, <1>4, <2>1, GivesUpStep DEF TryAgain, Scanning
<1>5. CASE ~moved[g] /\ Goto(g, "settle") /\ UNCHANGED <<lock, base, at, moved, fetched, fetchedAt>>
  <2>1. pc'[g] = "settle"
    BY <1>2, <1>5 DEF Goto
  <2>2. ScanInv(g)'
    BY <1>2, <1>3, <1>5, <2>1 DEF ScanInv, Scanning
  <2> QED
    BY <1>1, <1>2, <1>3, <1>5, <2>1, <2>2, UnderLockStep DEF CaptureInv, Scanning
<1> QED
  BY <1>4, <1>5 DEF ScanEnds

\* The counter has not moved: nothing installed is newer than the pass's
\* revision, so every lane holds exactly what the authority holds.
LEMMA SettlesStep ==
    ASSUME SecurityInv, NEW g \in Gates, Settles(g)
    PROVE  SecurityInv'
<1>1. TypeOK' /\ OnlyPass(g)
  BY PublishTypes, PassIsAlone DEF Pass
<1>2. /\ UNCHANGED <<authority, replica, compiled, published, failing, start, current, writers>>
      /\ pc \in [Gates -> PCs] /\ pc[g] = "settle" /\ at[g] = 4 /\ ~moved[g] /\ ScanInv(g)
      /\ at \in [Gates -> 1..4]
  <2>1. at \in [Gates -> 1..4]
    BY ResourceFacts DEF SecurityInv, TypeOK
  <2> QED
    BY <2>1 DEF Settles, SecurityInv, ScanInv, TypeOK
<1>3. UNCHANGED <<history, live, handled>>
  BY <1>2 DEF authority, replica
<1>4. CASE TryAgain(g)
  <2>1. pc'[g] = "read" /\ start'[g] = start[g]
    BY <1>2, <1>4 DEF TryAgain, Goto
  <2> QED
    BY <1>1, <1>2, <1>4, <2>1, GivesUpStep DEF TryAgain, Scanning
<1>5. CASE /\ Settled(g) /\ Goto(g, "capture") /\ at' = [at EXCEPT ![g] = 1]
           /\ UNCHANGED <<lock, base, moved, fetched, fetchedAt>>
  <2>1. pc'[g] = "capture" /\ at'[g] = 1 /\ current'[g] = current[g]
    BY <1>2, <1>5 DEF Goto
  <2>2. ASSUME NEW p \in Parts PROVE live[p] = history[current[g]][p]
    <3>1. /\ history \in Seq(Contents) /\ Ordered(history, activation) /\ live[p] \in Nat
          /\ Real(history, p, live[p]) /\ Counter = Len(history) /\ Counter \in Nat
      BY Types DEF SecurityInv, HistoryInv, LiveInv
    <3>2. current[g] \in 1..Len(history) /\ Counter = current[g]
      BY <1>2, <1>5, <3>1, CurrentReached DEF Settled
    <3>3. live[p] <= current[g]
      BY <3>1, <3>2 DEF Real
    <3>4. live[p] <= history[current[g]][p]
      BY <3>1, <3>2, <3>3, CommitBelow
    <3>5. LaneIndex(p) < at[g]
      BY <1>2, LaneFacts
    <3>6. history[current[g]][p] <= live[p]
      BY <1>2, <3>5 DEF ScanInv, Scanning
    <3>7. history[current[g]][p] \in Nat
      BY <3>1, <3>2, HistoryTypes
    <3> QED
      BY <3>1, <3>4, <3>6, <3>7
  <2>3. \A p \in Parts : ~(LaneIndex(p) < 1)
    BY LaneFacts
  <2>4. CaptureInv(g)'
    BY <1>3, <2>1, <2>2, <2>3 DEF CaptureInv, Cut
  <2>5. ScanInv(g)'
    BY <2>1 DEF ScanInv, Scanning
  <2> QED
    BY <1>1, <1>2, <1>5, <2>1, <2>4, <2>5, UnderLockStep DEF Scanning
<1> QED
  BY <1>4, <1>5 DEF Settles

LEMMA CapturesLaneStep ==
    ASSUME SecurityInv, NEW g \in Gates, CapturesLane(g)
    PROVE  SecurityInv'
<1>1. TypeOK' /\ OnlyPass(g)
  BY PublishTypes, PassIsAlone DEF Pass
<1>2. /\ UNCHANGED <<authority, replica, gate, lock, start, current, base, moved, fetchedAt, writers>>
      /\ pc[g] = "capture" /\ at[g] \in 1..3 /\ CaptureInv(g)
      /\ pc \in [Gates -> PCs] /\ at \in [Gates -> 1..4] /\ fetched \in [Gates -> Contents]
  <2>1. at \in [Gates -> 1..4]
    BY ResourceFacts DEF SecurityInv, TypeOK
  <2>2. CaptureInv(g) /\ pc[g] = "capture"
    BY DEF CapturesLane, SecurityInv
  <2>3. at[g] \in 1..3
    BY <2>1, <2>2 DEF CaptureInv
  <2> QED
    BY <2>1, <2>2, <2>3, Zenon DEF CapturesLane, SecurityInv, TypeOK
<1>3. UNCHANGED <<history, handled, live, current, compiled, published>>
  BY <1>2 DEF authority, replica, gate
<1>4. \A p \in Parts :
        /\ LaneIndex(p) \in 1..3
        /\ fetched'[g][p] = IF LaneIndex(p) = at[g] THEN live[p] ELSE fetched[g][p]
  <2>1. fetched'[g] = [p \in Parts |-> IF LaneOf(p) = Resource(g) THEN live[p] ELSE fetched[g][p]]
    BY <1>2 DEF CapturesLane
  <2>2. \A p \in Parts : LaneIndex(p) \in 1..3 /\ (LaneOf(p) = Resource(g) <=> LaneIndex(p) = at[g])
    BY <1>2, LaneFacts DEF Resource
  <2> QED
    BY <2>1, <2>2
<1>5. \A p \in Parts : LaneIndex(p) < at[g] + 1 => Cut(current[g], p, fetched'[g][p])
  <2>1. ASSUME NEW p \in Parts, LaneIndex(p) < at[g] + 1 PROVE Cut(current[g], p, fetched'[g][p])
    <3>1. CASE LaneIndex(p) = at[g]
      BY <1>2, <1>4, <3>1 DEF CaptureInv
    <3>2. CASE LaneIndex(p) < at[g]
      <4>1. fetched'[g][p] = fetched[g][p]
        BY <1>2, <1>4, <3>2
      <4> QED
        BY <1>2, <3>2, <4>1 DEF CaptureInv
    <3> QED
      BY <1>2, <1>4, <2>1, <3>1, <3>2
  <2> QED
    BY <2>1
<1>6. CASE at[g] = 3
  <2>1. pc'[g] = "publish" /\ UNCHANGED at
    BY <1>2, <1>6, ResourceFacts DEF CapturesLane, Goto
  <2>2. \A p \in Parts : Cut(current[g], p, fetched'[g][p])
    BY <1>4, <1>5, <1>6
  <2>3. CaptureInv(g)'
    BY <1>2, <1>3, <2>1, <2>2 DEF CaptureInv, Cut
  <2>4. ScanInv(g)'
    BY <2>1 DEF ScanInv, Scanning
  <2> QED
    BY <1>1, <1>2, <1>3, <2>1, <2>3, <2>4, UnderLockStep
<1>7. CASE at[g] # 3
  <2>1. pc'[g] = "capture" /\ at'[g] = at[g] + 1
    BY <1>2, <1>7, ResourceFacts DEF CapturesLane
  <2>2. at'[g] <= 3
    BY <1>2, <1>7, <2>1
  <2>3. CaptureInv(g)'
    BY <1>2, <1>3, <1>5, <2>1, <2>2 DEF CaptureInv, Cut
  <2>4. ScanInv(g)'
    BY <2>1 DEF ScanInv, Scanning
  <2> QED
    BY <1>1, <1>2, <1>3, <2>1, <2>3, <2>4, UnderLockStep
<1> QED
  BY <1>6, <1>7

-----------------------------------------------------------------------------
(* Installing and publishing                                                *)

LEMMA LoudStep ==
    ASSUME SecurityInv, TypeOK', NEW g \in Gates, pc[g] \in Scanning \cup Publishing,
           OnlyPass(g), UNCHANGED <<history, activation>>, lock'["gate"] \in {g, Nobody},
           lock'["gate"] = Nobody => published'.revision = compiled',
           LiveInv', BundleIsCut', \A w \in Writers : WriterInv(w)',
           GateInv(g)', ScanInv(g)', CaptureInv(g)'
    PROVE  SecurityInv'
<1>1. \A h \in Gates \ {g} : GateInv(h)' /\ ScanInv(h)' /\ CaptureInv(h)'
  BY HolderStep
<1>2. HistoryInv'
  BY DEF SecurityInv, HistoryInv
<1> QED
  BY <1>1, <1>2 DEF SecurityInv

LEMMA InstallsDocumentStep ==
    ASSUME SecurityInv, NEW g \in Gates, InstallsDocument(g)
    PROVE  SecurityInv'
<1>1. TypeOK' /\ OnlyPass(g)
  BY ScanTypes, PassIsAlone DEF Pass
<1> DEFINE d == Resource(g)
<1>2. /\ UNCHANGED <<authority, listed, gate, lock, start, current, base, moved, writers>>
      /\ pc[g] = "install" /\ ScanInv(g) /\ GateInv(g) /\ pc'[g] = "lane" /\ at'[g] = at[g] + 1
      /\ live' = [live EXCEPT ![d] = IF fetchedAt[g] > @ THEN fetchedAt[g] ELSE @]
  <2>1. at \in [Gates -> 1..4]
    BY ResourceFacts DEF SecurityInv, TypeOK
  <2>2. pc \in [Gates -> PCs]
    BY DEF SecurityInv, TypeOK
  <2> QED
    BY <2>1, <2>2 DEF InstallsDocument, ResourceDone, Goto, InstallDocument, Newer, SecurityInv
<1>3. at[g] \in 1..2 /\ d \in Parts /\ d \notin Records /\ LaneIndex(d) = at[g]
  <2>1. at[g] \in 1..4 /\ at[g] <= 3 /\ d # "connections"
    BY <1>2, GateTypes DEF SecurityInv, ScanInv, InstallsDocument
  <2>2. at[g] \in 1..2
    BY <2>1, ResourceFacts DEF Resource
  <2> QED
    BY <2>2, ResourceFacts, DocumentFacts DEF Resource, LaneIndex
<1>4. /\ UNCHANGED <<history, activation, handled, compiled, published>> /\ Counter' = Counter
      /\ lock["gate"] = g
  BY <1>2 DEF authority, gate, Counter, GateInv, Scanning
<1>5. /\ live \in [Parts -> Nat] /\ fetchedAt[g] \in Nat
      /\ Real(history, d, fetchedAt[g]) /\ history[current[g]][d] <= fetchedAt[g]
      /\ \A p \in Parts : history[current[g]][p] \in Nat
  <2>1. Real(history, d, fetchedAt[g]) /\ history[current[g]][d] <= fetchedAt[g]
    BY <1>2, <1>3 DEF ScanInv
  <2>2. /\ live \in [Parts -> Nat] /\ fetchedAt[g] \in Nat /\ history \in Seq(Contents)
        /\ Counter = Len(history) /\ current[g] \in 1..Counter
    BY <1>2, CurrentReached, Types, GateTypes DEF SecurityInv, Contents
  <2> QED
    BY <2>1, <2>2, HistoryTypes
<1>6. /\ \A p \in Parts : live[p] \in Nat /\ live'[p] \in Nat /\ live[p] <= live'[p]
      /\ \A p \in Parts : live'[p] = live[p] \/ (p = d /\ live'[p] = fetchedAt[g])
      /\ fetchedAt[g] <= live'[d]
  <2>1. live'[d] = IF fetchedAt[g] > live[d] THEN fetchedAt[g] ELSE live[d]
    BY <1>2, <1>3, <1>5
  <2>2. \A p \in Parts \ {d} : live'[p] = live[p]
    BY <1>2, <1>3, <1>5
  <2> QED
    BY <1>3, <1>5, <2>1, <2>2
<1>7. Grows
  <2>1. /\ history \in Seq(Contents) /\ Continues(history, history) /\ live' \in Contents
        /\ activation \in [Lanes -> Nat]
    BY <1>1, ContinuesSame DEF SecurityInv, TypeOK
  <2>2. activation["connections"] <= activation["connections"]
    BY <2>1 DEF Lanes
  <2>3. \A p \in Parts : live'[p] = live[p] \/ (live[p] <= live'[p] /\ Real(history', p, live'[p]))
    BY <1>4, <1>5, <1>6
  <2> QED
    BY <1>2, <1>4, <2>1, <2>2, <2>3 DEF Grows
<1>8. \A w \in Writers : WriterInv(w)'
  <2>1. \A q \in Records : live'[q] = live[q]
    BY <1>3, <1>6 DEF Parts
  <2> QED
    BY <1>2, <1>7, <2>1, GrowsWriter DEF writers
<1>9. GateInv(g)'
  BY <1>2, <1>4 DEF GateInv, Scanning, Publishing
<1>10. ScanInv(g)'
  <2>1. ASSUME ~moved'[g], NEW p \in Parts, LaneIndex(p) < at'[g]
        PROVE  history'[current'[g]][p] <= live'[p]
    <3>1. CASE LaneIndex(p) < at[g]
      <4>1. history[current[g]][p] <= live[p]
        BY <1>2, <2>1, <3>1 DEF ScanInv, Scanning
      <4>2. /\ history[current[g]][p] \in Nat /\ live[p] \in Nat /\ live'[p] \in Nat
            /\ live[p] <= live'[p]
        BY <1>5, <1>6
      <4>3. history[current[g]][p] <= live'[p]
        BY <4>1, <4>2
      <4> QED
        BY <1>2, <1>4, <4>3
    <3>2. CASE LaneIndex(p) = at[g]
      <4>1. p = d
        BY <1>3, <3>2, ResourceFacts DEF LaneIndex, Resource, Parts
      <4>2. history[current[g]][d] <= live'[d]
        BY <1>3, <1>5, <1>6
      <4> QED
        BY <1>2, <1>4, <4>1, <4>2
    <3> QED
      BY <1>2, <1>3, <2>1, <3>1, <3>2, LaneFacts
  <2> QED
    BY <1>2, <2>1 DEF ScanInv
<1>11. CaptureInv(g)' /\ lock'["gate"] \in {g, Nobody} /\ lock'["gate"] # Nobody
  BY <1>2, <1>4, SecurityAssumption DEF CaptureInv
<1>12. LiveInv' /\ BundleIsCut'
  BY <1>7, GrowsLive, GrowsBundle
<1>13. pc[g] \in Scanning \cup Publishing
  BY <1>2 DEF Scanning
<1> QED
  BY <1>1, <1>4, <1>8, <1>9, <1>10, <1>11, <1>12, <1>13, LoudStep

\* The map of records is replaced: a record may go back, but not behind the
\* pass's revision, the watermark or the state revision; no handler is between
\* its commit of a record and its install.
LEMMA PublishesRecordsStep ==
    ASSUME SecurityInv, NEW g \in Gates, PublishesRecords(g)
    PROVE  SecurityInv'
<1>1. TypeOK' /\ OnlyPass(g)
  BY ScanTypes, PassIsAlone DEF Pass
<1>2. /\ UNCHANGED <<authority, listed, gate, lock, start, current, base, at, moved, fetched,
                     fetchedAt, writers>>
      /\ pc[g] = "install" /\ ScanInv(g) /\ GateInv(g) /\ pc'[g] = "catalogs"
      /\ live' = [p \in Parts |-> IF p \in Records THEN fetched[g][p] ELSE live[p]]
      /\ lock["connections"] = Nobody
  BY DEF PublishesRecords, Goto, Locked, SecurityInv, TypeOK
<1>3. /\ UNCHANGED <<history, activation, handled, compiled, published>> /\ Counter' = Counter
      /\ lock["gate"] = g
  BY <1>2 DEF authority, gate, Counter, GateInv, Scanning
<1>4. at[g] = 3
  <2>1. at[g] \in 1..4 /\ at[g] <= 3 /\ Resource(g) = "connections"
    BY <1>2, GateTypes DEF SecurityInv, ScanInv, PublishesRecords
  <2> QED
    BY <2>1, ResourceFacts DEF Resource
<1>5. /\ Counter \in Nat /\ Counter = Len(history) /\ Ordered(history, activation) /\ LiveInv
      /\ current[g] \in 1..Counter /\ compiled \in Nat /\ listed \in Nat /\ fetchedAt[g] \in Nat
      /\ compiled < current[g] /\ listed <= fetchedAt[g] /\ fetchedAt[g] <= Counter
      /\ \A r \in 1..Counter : \A p \in Parts : history[r][p] \in Nat
  <2>1. history \in Seq(Contents) /\ Counter = Len(history) /\ Counter \in Nat
        /\ compiled \in Nat /\ listed \in Nat /\ fetchedAt[g] \in Nat
    BY Types, GateTypes DEF SecurityInv
  <2>2. compiled < current[g] /\ listed <= fetchedAt[g] /\ fetchedAt[g] <= Counter
    BY <1>2, <1>4 DEF GateInv, ScanInv, Scanning
  <2>3. current[g] \in 1..Counter /\ LiveInv /\ Ordered(history, activation)
    BY <1>2, CurrentReached DEF SecurityInv, HistoryInv
  <2> QED
    BY <2>1, <2>2, <2>3, HistoryTypes
<1>6. ASSUME NEW p \in Records
      PROVE  /\ Real(history, p, live'[p]) /\ history[current[g]][p] <= live'[p]
             /\ fetchedAt[g] > 0 => history[fetchedAt[g]][p] <= live'[p]
             /\ compiled > 0 => history[compiled][p] <= live'[p]
             /\ listed > 0 => history[listed][p] <= live'[p]
  <2>1. p \in Parts /\ live'[p] = fetched[g][p] /\ fetched[g][p] \in Nat
    BY <1>2, GateTypes DEF Parts, SecurityInv
  <2>2. /\ Real(history, p, fetched[g][p]) /\ history[current[g]][p] <= fetched[g][p]
        /\ fetchedAt[g] > 0 => history[fetchedAt[g]][p] <= fetched[g][p]
    BY <1>2, <1>4 DEF ScanInv
  <2>3. \A r, s \in 1..Counter : r <= s => history[r][p] <= history[s][p]
    BY <1>5, <2>1 DEF Ordered
  <2>4. ASSUME compiled > 0 PROVE history[compiled][p] <= fetched[g][p]
    <3>1. compiled \in 1..Counter /\ compiled <= current[g]
      BY <1>5, <2>4
    <3>2. history[compiled][p] <= history[current[g]][p]
      BY <1>5, <2>3, <3>1
    <3>3. history[compiled][p] \in Nat /\ history[current[g]][p] \in Nat
      BY <1>5, <2>1, <3>1
    <3> QED
      BY <2>1, <2>2, <3>2, <3>3
  <2>5. ASSUME listed > 0 PROVE history[listed][p] <= fetched[g][p]
    <3>1. listed \in 1..Counter /\ fetchedAt[g] \in 1..Counter /\ fetchedAt[g] > 0
      BY <1>5, <2>5
    <3>2. history[listed][p] <= history[fetchedAt[g]][p]
      BY <1>5, <2>3, <3>1
    <3>3. history[listed][p] \in Nat /\ history[fetchedAt[g]][p] \in Nat
      BY <1>5, <2>1, <3>1
    <3> QED
      BY <2>1, <2>2, <3>1, <3>2, <3>3
  <2> QED
    BY <2>1, <2>2, <2>4, <2>5
<1>7. \A p \in Parts \ Records : live'[p] = live[p]
  BY <1>2
<1>8. LiveInv'
  <2>1. ASSUME NEW p \in Parts
        PROVE  /\ Real(history', p, live'[p])
               /\ compiled' > 0 => history'[compiled'][p] <= live'[p]
               /\ listed' > 0 /\ p \in Records => history'[listed'][p] <= live'[p]
    <3>1. CASE p \in Records
      BY <1>2, <1>3, <1>6, <3>1
    <3>2. CASE p \notin Records
      BY <1>3, <1>5, <1>7, <3>2 DEF LiveInv
    <3> QED
      BY <3>1, <3>2
  <2>2. /\ listed' <= activation'["connections"] /\ compiled' <= published'.revision
        /\ published'.revision <= Counter'
    BY <1>2, <1>3, <1>5 DEF LiveInv
  <2> QED
    BY <2>1, <2>2 DEF LiveInv
<1>9. BundleIsCut'
  BY <1>3 DEF SecurityInv, BundleIsCut
<1>10. ASSUME NEW w \in Writers PROVE WriterInv(w)'
  <2>1. wpc[w] \notin {"idle", "probe"} => wpart[w] \notin Records
    BY <1>2, SecurityAssumption DEF SecurityInv, WriterInv
  <2>2. WriterInv(w)
    BY DEF SecurityInv
  <2> QED
    BY <1>2, <1>3, <2>1, <2>2 DEF WriterInv, writers
<1>11. GateInv(g)'
  BY <1>2, <1>3 DEF GateInv, Scanning, Publishing
<1>12. ScanInv(g)'
  <2>1. ASSUME ~moved[g], NEW p \in Parts, LaneIndex(p) < 3
        PROVE  history[current[g]][p] <= live'[p]
    <3>1. p \notin Records
      BY <2>1, LaneFacts
    <3> QED
      BY <1>2, <1>4, <1>7, <2>1, <3>1 DEF ScanInv, Scanning
  <2>2. /\ listed <= fetchedAt[g] /\ fetchedAt[g] <= activation["connections"]
        /\ fetchedAt[g] <= Counter
    BY <1>2, <1>4 DEF ScanInv
  <2> QED
    BY <1>2, <1>3, <1>4, <1>6, <2>1, <2>2 DEF ScanInv, Scanning
<1>13. CaptureInv(g)' /\ lock'["gate"] \in {g, Nobody} /\ lock'["gate"] # Nobody
  BY <1>2, <1>3, SecurityAssumption DEF CaptureInv
<1>14. pc[g] \in Scanning \cup Publishing
  BY <1>2 DEF Scanning
<1> QED
  BY <1>1, <1>3, <1>8, <1>9, <1>10, <1>11, <1>12, <1>13, <1>14, LoudStep

LEMMA RepublishesCatalogsStep ==
    ASSUME SecurityInv, NEW g \in Gates, RepublishesCatalogs(g)
    PROVE  SecurityInv'
<1>1. TypeOK' /\ OnlyPass(g)
  BY ScanTypes, PassIsAlone DEF Pass
<1>2. /\ UNCHANGED <<authority, live, gate, lock, start, current, base, moved, writers>>
      /\ pc[g] = "catalogs" /\ ScanInv(g) /\ GateInv(g) /\ pc'[g] = "lane" /\ at[g] = 3
      /\ at'[g] = 4 /\ listed' = fetchedAt[g]
  <2>1. at \in [Gates -> 1..4]
    BY ResourceFacts DEF SecurityInv, TypeOK
  <2>2. pc \in [Gates -> PCs] /\ ScanInv(g) /\ GateInv(g) /\ pc[g] = "catalogs"
    BY DEF SecurityInv, TypeOK, RepublishesCatalogs
  <2>3. at[g] = 3
    BY <2>2 DEF ScanInv
  <2> QED
    BY <2>1, <2>2, <2>3 DEF RepublishesCatalogs, ResourceDone, Goto
<1>3. /\ UNCHANGED <<history, activation, handled, compiled, published>> /\ Counter' = Counter
      /\ lock["gate"] = g
  BY <1>2 DEF authority, gate, Counter, GateInv, Scanning
<1>4. /\ fetchedAt[g] <= activation["connections"]
      /\ \A p \in Records :
           /\ history[current[g]][p] <= live[p]
           /\ fetchedAt[g] > 0 => history[fetchedAt[g]][p] <= live[p]
  BY <1>2 DEF ScanInv
<1>5. LiveInv'
  BY <1>2, <1>3, <1>4 DEF SecurityInv, LiveInv
<1>6. BundleIsCut'
  BY <1>3 DEF SecurityInv, BundleIsCut
<1>7. \A w \in Writers : WriterInv(w)'
  BY <1>2, <1>3 DEF SecurityInv, WriterInv, writers
<1>8. GateInv(g)'
  BY <1>2, <1>3 DEF GateInv, Scanning, Publishing
<1>9. ScanInv(g)'
  <2>1. ASSUME ~moved[g], NEW p \in Parts PROVE history[current[g]][p] <= live[p]
    <3>1. CASE p \in Records
      BY <1>4, <3>1
    <3>2. CASE p \notin Records
      <4>1. LaneIndex(p) < 3
        BY <3>2, LaneFacts
      <4> QED
        BY <1>2, <2>1, <4>1 DEF ScanInv, Scanning
    <3> QED
      BY <3>1, <3>2
  <2> QED
    BY <1>2, <1>3, <2>1 DEF ScanInv
<1>10. CaptureInv(g)' /\ lock'["gate"] \in {g, Nobody} /\ lock'["gate"] # Nobody
  BY <1>2, <1>3, SecurityAssumption DEF CaptureInv
<1>11. pc[g] \in Scanning \cup Publishing
  BY <1>2 DEF Scanning
<1> QED
  BY <1>1, <1>3, <1>5, <1>6, <1>7, <1>8, <1>9, <1>10, <1>11, LoudStep

\* The bundle is stored: each lane is what the authority held at the revision,
\* or a later commit that a handler of this replica took from the authority.
LEMMA PublishesBundleStep ==
    ASSUME SecurityInv, NEW g \in Gates, PublishesBundle(g)
    PROVE  SecurityInv'
<1>1. TypeOK' /\ OnlyPass(g)
  BY PublishTypes, PassIsAlone DEF Pass
<1>2. /\ UNCHANGED <<history, activation, replica, compiled, observed, failing, lock, passes, writers>>
      /\ pc[g] = "publish" /\ pc'[g] = "mark" /\ GateInv(g) /\ CaptureInv(g)
      /\ published'.revision = current[g] /\ published'.content = fetched[g]
      /\ handled' = {r \in handled : r > current[g]} /\ handled \subseteq Nat
  BY DEF PublishesBundle, Goto, SecurityInv, TypeOK
<1>3. /\ UNCHANGED <<live, listed, start, current, base, at, moved, fetched, fetchedAt>>
      /\ Counter' = Counter /\ lock["gate"] = g
  BY <1>2 DEF replica, passes, Counter, GateInv, Publishing
<1>4. /\ current[g] \in 1..Counter /\ Counter \in Nat /\ Counter = Len(history) /\ compiled \in Nat
      /\ published.revision = compiled /\ compiled < current[g]
      /\ \A p \in Parts : live[p] \in Nat /\ history[current[g]][p] \in Nat
      /\ \A p \in Parts : history[current[g]][p] <= current[g]
  <2>1. /\ current[g] \in 1..Counter /\ Counter \in Nat /\ Counter = Len(history)
        /\ compiled \in Nat /\ history \in Seq(Contents) /\ \A p \in Parts : live[p] \in Nat
    BY <1>2, CurrentReached, Types DEF SecurityInv
  <2>2. published.revision = compiled /\ compiled < current[g]
    BY <1>2 DEF GateInv, Publishing
  <2>3. \A p \in Parts : history[current[g]][p] <= current[g]
    BY <2>1 DEF SecurityInv, HistoryInv, Ordered
  <2> QED
    BY <2>1, <2>2, <2>3, HistoryTypes
<1>5. LiveInv'
  <2>1. compiled' <= published'.revision /\ published'.revision <= Counter'
    BY <1>2, <1>3, <1>4
  <2> QED
    BY <1>2, <1>3, <2>1 DEF SecurityInv, LiveInv
<1>6. BundleIsCut'
  <2>1. \A p \in Parts : Cut(current[g], p, fetched[g][p])
    BY <1>2 DEF CaptureInv
  <2>2. ASSUME NEW p \in Parts
        PROVE  \/ fetched[g][p] = history[current[g]][p]
               \/ fetched[g][p] > current[g] /\ fetched[g][p] \in handled'
    BY <1>2, <2>1 DEF Cut
  <2> QED
    BY <1>2, <2>2 DEF BundleIsCut
<1>7. ASSUME NEW w \in Writers PROVE WriterInv(w)'
  <2>1. WriterInv(w) /\ wrevision[w] \in Nat
    BY DEF SecurityInv, TypeOK
  <2>2. wpc[w] = "install" => wrevision[w] \in handled' \/ wrevision[w] <= published'.revision
    BY <1>2, <1>4, <2>1 DEF WriterInv
  <2> QED
    BY <1>2, <1>3, <2>1, <2>2 DEF WriterInv, writers
<1>8. GateInv(g)'
  BY <1>2, <1>3 DEF GateInv, Scanning, Publishing
<1>9. ScanInv(g)'
  BY <1>2 DEF ScanInv, Scanning
<1>10. CaptureInv(g)'
  <2>1. ASSUME NEW p \in Parts PROVE history[current[g]][p] <= live[p]
    <3>1. Cut(current[g], p, live[p])
      BY <1>2 DEF CaptureInv
    <3>2. CASE live[p] = history[current[g]][p]
      BY <1>4, <3>2
    <3>3. CASE live[p] > current[g]
      BY <1>4, <3>3
    <3> QED
      BY <3>1, <3>2, <3>3 DEF Cut
  <2> QED
    BY <1>2, <1>3, <2>1 DEF CaptureInv
<1>11. lock'["gate"] \in {g, Nobody} /\ lock'["gate"] # Nobody /\ pc[g] \in Scanning \cup Publishing
  BY <1>2, <1>3, SecurityAssumption DEF Publishing
<1> QED
  BY <1>1, <1>2, <1>5, <1>6, <1>7, <1>8, <1>9, <1>10, <1>11, LoudStep

LEMMA PublishesWatermarkStep ==
    ASSUME SecurityInv, NEW g \in Gates, PublishesWatermark(g)
    PROVE  SecurityInv'
<1>1. TypeOK' /\ OnlyPass(g)
  BY PublishTypes, PassIsAlone DEF Pass
<1>2. /\ UNCHANGED <<authority, replica, observed, published, writers>> /\ compiled' = current[g]
      /\ pc[g] = "mark" /\ pc'[g] = "idle" /\ at'[g] = 1 /\ GateInv(g) /\ CaptureInv(g)
      /\ lock["gate"] = g /\ lock'["gate"] = Nobody /\ lock'["connections"] = lock["connections"]
  <2>1. at \in [Gates -> 1..4]
    BY ResourceFacts DEF SecurityInv, TypeOK
  <2>2. /\ pc \in [Gates -> PCs] /\ GateInv(g) /\ CaptureInv(g) /\ pc[g] = "mark"
        /\ lock \in [{"gate", "policy", "connections"} -> Gates \cup Writers \cup {Nobody}]
    BY DEF SecurityInv, TypeOK, PublishesWatermark
  <2>3. lock["gate"] = g
    BY <2>2 DEF GateInv, Publishing
  <2> QED
    BY <2>1, <2>2, <2>3 DEF PublishesWatermark, Answers, Goto, Release, Forget
<1>3. UNCHANGED <<history, activation, handled, live, listed>> /\ Counter' = Counter
  BY <1>2 DEF authority, replica, Counter
<1>4. current[g] \in Nat /\ published.revision = current[g]
      /\ \A p \in Parts : history[current[g]][p] <= live[p]
  BY <1>2, GateTypes DEF SecurityInv, GateInv, CaptureInv
<1>5. LiveInv'
  <2>1. compiled' <= published'.revision
    BY <1>2, <1>4
  <2> QED
    BY <1>2, <1>3, <1>4, <2>1 DEF SecurityInv, LiveInv
<1>6. BundleIsCut'
  BY <1>2, <1>3 DEF SecurityInv, BundleIsCut
<1>7. \A w \in Writers : WriterInv(w)'
  BY <1>2, <1>3 DEF SecurityInv, WriterInv, writers
<1>8. GateInv(g)'
  BY <1>2, SecurityAssumption DEF GateInv, Scanning, Publishing
<1>9. ScanInv(g)' /\ CaptureInv(g)'
  BY <1>2, BeforeTheLock
<1>10. /\ lock'["gate"] \in {g, Nobody} /\ published'.revision = compiled'
       /\ pc[g] \in Scanning \cup Publishing
  BY <1>2, <1>4 DEF Publishing
<1> QED
  BY <1>1, <1>3, <1>5, <1>6, <1>7, <1>8, <1>9, <1>10, LoudStep

-----------------------------------------------------------------------------
(* The theorems                                                             *)

\* The boot seeds: the first commits are ordered, whichever were seen.
LEMMA SecurityInit ==
    ASSUME Init
    PROVE  SecurityInv
<1> DEFINE c1 == [NoContent EXCEPT !["policy"] = 1]
           c2 == [NoContent EXCEPT !["policy"] = 1, !["tools"] = 2]
<1>1. "policy" \in Parts /\ "tools" \in Parts /\ "policy" \notin Records /\ "tools" \notin Records
  BY DocumentFacts
<1>2. NoContent \in Contents /\ c1 \in Contents /\ c2 \in Contents
  BY <1>1 DEF NoContent, Contents
<1>3. \A p \in Parts :
        /\ c1[p] = IF p = "policy" THEN 1 ELSE 0
        /\ c2[p] = IF p = "policy" THEN 1 ELSE IF p = "tools" THEN 2 ELSE 0
  BY <1>1 DEF NoContent
<1>4. /\ history = <<c1>> \/ history = <<c1, c2>>
      /\ activation = [l \in Lanes |-> IF l = "connections" THEN 0 ELSE history[Len(history)][l]]
      /\ \E seeded \in 1..Len(history) : live = history[seeded]
  BY DEF Init
<1> HIDE DEF c1, c2
<1>5. /\ history \in Seq(Contents) /\ Len(history) \in 1..2 /\ history[1] = c1
      /\ Len(history) = 2 => history[2] = c2
      /\ \A r \in 1..Len(history) : r = 1 \/ (r = 2 /\ Len(history) = 2)
  BY <1>2, <1>4
<1>6. /\ activation \in [Lanes -> Nat] /\ activation["connections"] = 0
      /\ activation["policy"] = 1 /\ activation["tools"] = IF Len(history) = 2 THEN 2 ELSE 0
  BY <1>1, <1>3, <1>4, <1>5 DEF Lanes
<1>7. \A p \in Parts : p = "policy" \/ p = "tools" \/ (p \in Records /\ LaneOf(p) = "connections")
  BY DEF Parts, LaneOf
<1>8. LaneOf("policy") = "policy" /\ LaneOf("tools") = "tools"
  BY <1>1 DEF LaneOf
<1>9. ASSUME NEW r \in 1..Len(history), NEW p \in Parts
      PROVE  history[r][p] = IF p = "policy" THEN 1 ELSE IF p = "tools" /\ r = 2 THEN 2 ELSE 0
  BY <1>3, <1>5
<1>10. HistoryInv
  <2>1. \A r \in 1..Len(history) : \A p \in Parts : history[r][p] <= r /\ Real(history, p, history[r][p])
    <3>1. ASSUME NEW r \in 1..Len(history), NEW p \in Parts
          PROVE  history[r][p] <= r /\ Real(history, p, history[r][p])
      <4>1. 1 \in 1..Len(history) /\ history[1]["policy"] = 1
        BY <1>1, <1>5, <1>9
      <4>2. r = 2 => history[2]["tools"] = 2
        BY <1>1, <1>9
      <4>3. CASE p = "policy"
        BY <1>5, <1>9, <4>1, <4>3 DEF Real
      <4>4. CASE p = "tools" /\ r = 2
        BY <1>1, <1>5, <1>9, <4>2, <4>4 DEF Real
      <4>5. CASE p # "policy" /\ ~(p = "tools" /\ r = 2)
        BY <1>5, <1>9, <4>5 DEF Real
      <4> QED
        BY <4>3, <4>4, <4>5
    <3> QED
      BY <3>1
  <2>2. \A p \in Parts : \A r, s \in 1..Len(history) : r <= s => history[r][p] <= history[s][p]
    BY <1>5, <1>9
  <2>3. \A p \in Parts : \A r \in 1..Len(history) :
          activation[LaneOf(p)] <= r => history[r][p] = history[Len(history)][p]
    BY <1>5, <1>6, <1>7, <1>8, <1>9
  <2>4. \A l \in Lanes : activation[l] <= Len(history)
    BY <1>5, <1>6 DEF Lanes
  <2>5. \A p \in Parts : history[Len(history)][p] <= activation[LaneOf(p)]
    BY <1>5, <1>6, <1>7, <1>8, <1>9
  <2>6. \A p \in {"policy", "tools"} : history[Len(history)][p] = activation[p]
    BY <1>1, <1>5, <1>6, <1>9
  <2> QED
    BY <1>5, <2>1, <2>2, <2>3, <2>4, <2>5, <2>6 DEF HistoryInv, Ordered
<1>11. live \in Contents /\ \A p \in Parts : Real(history, p, live[p])
  <2>1. PICK seeded \in 1..Len(history) : live = history[seeded]
    BY <1>4
  <2> QED
    BY <1>5, <1>10, <2>1, HistoryTypes DEF HistoryInv, Ordered
<1>12. /\ handled = {} /\ listed = 0 /\ compiled = 0 /\ observed = 0 /\ published = NoBundle
       /\ failing = FALSE /\ lock = [l \in {"gate", "policy", "connections"} |-> Nobody]
       /\ pc = [g \in Gates |-> "idle"] /\ start = [g \in Gates |-> 0]
       /\ current = [g \in Gates |-> 0] /\ base = [g \in Gates |-> 0]
       /\ at = [g \in Gates |-> 1] /\ moved = [g \in Gates |-> FALSE]
       /\ fetched = [g \in Gates |-> NoContent] /\ fetchedAt = [g \in Gates |-> 0]
       /\ wpc = [w \in Writers |-> "idle"] /\ wpart = [w \in Writers |-> "policy"]
       /\ wrevision = [w \in Writers |-> 0]
  BY DEF Init
<1>13. published \in Bundles /\ published.revision = 0
  BY <1>2, <1>12 DEF NoBundle, Bundles
<1>14. at \in [Gates -> 1..(Len(Resources) + 1)]
  BY <1>12, ResourceFacts
<1>15. TypeOK
  BY <1>1, <1>2, <1>5, <1>6, <1>11, <1>12, <1>13, <1>14 DEF TypeOK, PCs
<1>16. LiveInv
  BY <1>5, <1>6, <1>11, <1>12, <1>13 DEF LiveInv, Counter
<1>17. \A w \in Writers : WriterInv(w)
  BY <1>12 DEF WriterInv
<1>18. \A g \in Gates : GateInv(g) /\ ScanInv(g) /\ CaptureInv(g)
  BY <1>12, SecurityAssumption DEF GateInv, ScanInv, CaptureInv, Scanning, Publishing
<1>19. BundleIsCut
  BY <1>13 DEF BundleIsCut
<1> QED
  BY <1>10, <1>12, <1>13, <1>15, <1>16, <1>17, <1>18, <1>19 DEF SecurityInv

LEMMA SecurityStep ==
    ASSUME SecurityInv, [Next]_vars
    PROVE  SecurityInv'
<1>1. ASSUME NEW p \in Parts, RemoteCommit(p) PROVE SecurityInv'
  BY <1>1, RemoteCommitStep
<1>2. ASSUME NEW w \in Writers,
             \/ \E p \in Parts : WriterBegins(w, p)
             \/ \E p \in Records : StatusBegins(w, p)
             \/ StatusAppends(w) \/ StatusRereads(w) \/ StatusReturnsRecord(w)
             \/ WriterCommits(w) \/ WriterInstalls(w) \/ WriterStops(w)
      PROVE  SecurityInv'
  BY <1>2, WriterBeginsStep, WriterCommitsStep, WriterInstallsStep, StatusBeginsStep,
     StatusAppendsStep, StatusRereadsStep
<1>3. ASSUME NEW g \in Gates, Pass(g) PROVE SecurityInv'
  <2>1. CASE Arrives(g) \/ ReadsCounter(g) \/ Checks(g)
    BY <2>1, EntryStep
  <2>2. CASE Locks(g)
    BY <2>2, LocksStep
  <2>3. CASE ReadsActivation(g)
    BY <2>3, ReadsActivationStep
  <2>4. CASE Fetches(g)
    BY <2>4, FetchesStep
  <2>5. CASE Lists(g)
    BY <2>5, ListsStep
  <2>6. CASE InstallsDocument(g)
    BY <2>6, InstallsDocumentStep
  <2>7. CASE PublishesRecords(g)
    BY <2>7, PublishesRecordsStep
  <2>8. CASE RepublishesCatalogs(g)
    BY <2>8, RepublishesCatalogsStep
  <2>9. CASE ScanEnds(g)
    BY <2>9, ScanEndsStep
  <2>10. CASE Settles(g)
    BY <2>10, SettlesStep
  <2>11. CASE CapturesLane(g)
    BY <2>11, CapturesLaneStep
  <2>12. CASE PublishesBundle(g)
    BY <2>12, PublishesBundleStep
  <2>13. CASE PublishesWatermark(g)
    BY <2>13, PublishesWatermarkStep
  <2> QED
    BY <1>3, <2>1, <2>2, <2>3, <2>4, <2>5, <2>6, <2>7, <2>8, <2>9, <2>10, <2>11, <2>12, <2>13
       DEF Pass
<1>4. ASSUME NEW g \in Gates, Refuses(g) PROVE SecurityInv'
  BY <1>4, RefusesStep
<1>5. CASE UNCHANGED vars
  <2>1. /\ UNCHANGED <<history, activation, handled, live, listed, compiled, observed, published>>
        /\ UNCHANGED <<failing, lock, pc, start, current, base, at, moved, fetched, fetchedAt>>
        /\ UNCHANGED <<wpc, wpart, wrevision>>
    BY <1>5 DEF vars, authority, replica, gate, passes, writers
  <2>2. TypeOK'
    BY <2>1 DEF SecurityInv, TypeOK
  <2>3. HistoryInv' /\ LiveInv' /\ BundleIsCut'
    BY <2>1 DEF SecurityInv, HistoryInv, LiveInv, BundleIsCut, Counter
  <2>4. \A w \in Writers : WriterInv(w)'
    BY <2>1 DEF SecurityInv, WriterInv
  <2>5. \A g \in Gates : GateInv(g)' /\ CaptureInv(g)'
    BY <2>1 DEF SecurityInv, GateInv, CaptureInv, Cut, Counter
  <2>6. \A g \in Gates : ScanInv(g)'
    BY <2>1 DEF SecurityInv, ScanInv, Resource, Counter
  <2> QED
    BY <2>1, <2>2, <2>3, <2>4, <2>5, <2>6 DEF SecurityInv
<1> QED
  BY <1>1, <1>2, <1>3, <1>4, <1>5 DEF Next

\* The invariant of the gate holds of every behaviour.
THEOREM SecurityInvariant == Spec => []SecurityInv
BY SecurityInit, SecurityStep, PTL DEF Spec

\* Every variable stays in its type: in particular the revisions a pass and a
\* handler carry, and the place of a pass in the scan.
THEOREM SecurityTypeCorrect == Spec => []TypeOK
<1>1. SecurityInv => TypeOK
  BY DEF SecurityInv
<1> QED
  BY <1>1, SecurityInvariant, PTL

\* publish: however many passes, handlers and replicas are at work, and at whatever
\* await, a bundle holds the authority's content at its revision, but for later
\* commits that a handler of this replica committed or read back with a status.
THEOREM BundleCorrect == Spec => []BundleIsCut
<1>1. SecurityInv => BundleIsCut
  BY DEF SecurityInv
<1> QED
  BY <1>1, SecurityInvariant, PTL

\* A bundle as new as revision r holds nothing older than the authority at r.
LEMMA BundleAsNew ==
    ASSUME SecurityInv, NEW r \in 1..Counter, r <= published.revision, NEW p \in Parts
    PROVE  published.content[p] >= history[r][p]
<1> DEFINE s == published.revision
<1>1. /\ Counter \in Nat /\ Counter = Len(history) /\ history \in Seq(Contents)
      /\ s \in Nat /\ published.content[p] \in Nat /\ s <= Counter /\ Ordered(history, activation)
  BY Types DEF SecurityInv, LiveInv, HistoryInv
<1>2. s \in 1..Counter
  BY <1>1
<1>3. /\ history[r][p] \in Nat /\ history[s][p] \in Nat
      /\ history[r][p] <= history[s][p] /\ history[r][p] <= r
  BY <1>1, <1>2, HistoryTypes DEF Ordered
<1>4. published.content[p] = history[s][p] \/ published.content[p] > s
  BY <1>2 DEF SecurityInv, BundleIsCut
<1> QED
  BY <1>1, <1>3, <1>4

\* A pass answers: it was refused, or served from a bundle as new as its revision.
LEMMA AnsweredPass ==
    ASSUME SecurityInv, NEW g \in Gates, Next, pc[g] # "idle", pc'[g] = "idle", ~failing'
    PROVE  /\ published' = published /\ current[g] <= published.revision
           /\ pc[g] \in {"check", "wait", "mark"}
<1>1. pc \in [Gates -> PCs] /\ current[g] \in Nat /\ published.revision \in Nat
  BY Types, GateTypes DEF SecurityInv, TypeOK
<1>2. CASE \/ \E p \in Parts : RemoteCommit(p)
           \/ \E w \in Writers : \/ \E p \in Parts : WriterBegins(w, p)
                                 \/ \E p \in Records : StatusBegins(w, p)
                                 \/ StatusAppends(w) \/ StatusRereads(w) \/ StatusReturnsRecord(w)
                                 \/ WriterCommits(w) \/ WriterInstalls(w) \/ WriterStops(w)
  BY <1>2 DEF RemoteCommit, WriterBegins, WriterCommits, WriterInstalls, WriterStops, WriterEnds,
              StatusBegins, StatusAppends, StatusRereads, StatusReturnsRecord, AppendStatus
<1>3. ASSUME NEW h \in Gates, Pass(h) \/ Refuses(h), h # g
      PROVE  FALSE
  BY <1>3, PassIsAlone DEF OnlyPass
<1>4. CASE Refuses(g)
  BY <1>4 DEF Refuses, Answers
<1>5. CASE Checks(g)
  <2>1. Admissible(g) /\ published' = published /\ pc[g] = "check"
    BY <1>1, <1>5 DEF Checks, Goto
  <2> QED
    BY <1>1, <2>1 DEF Admissible
<1>6. CASE Locks(g)
  <2>1. Admissible(g) /\ published' = published /\ pc[g] = "wait"
    BY <1>1, <1>6 DEF Locks, Goto
  <2> QED
    BY <1>1, <2>1 DEF Admissible
<1>7. CASE PublishesWatermark(g)
  <2>1. pc[g] = "mark" /\ published' = published /\ GateInv(g)
    BY <1>7 DEF PublishesWatermark, SecurityInv
  <2> QED
    BY <1>1, <2>1 DEF GateInv
<1>8. CASE Arrives(g) \/ ReadsCounter(g)
  BY <1>1, <1>8 DEF Arrives, ReadsCounter, Goto
<1>9. CASE ReadsActivation(g)
  BY <1>1, <1>9 DEF ReadsActivation, Goto
<1>10. CASE Fetches(g) \/ Lists(g) \/ PublishesRecords(g) \/ PublishesBundle(g)
  BY <1>1, <1>10 DEF Fetches, Lists, PublishesRecords, PublishesBundle, Goto
<1>11. CASE InstallsDocument(g) \/ RepublishesCatalogs(g)
  BY <1>1, <1>11 DEF InstallsDocument, RepublishesCatalogs, ResourceDone, Goto
<1>12. CASE ScanEnds(g) \/ Settles(g)
  BY <1>1, <1>12 DEF ScanEnds, Settles, TryAgain, Goto
<1>13. CASE CapturesLane(g)
  BY <1>1, <1>13 DEF CapturesLane, Goto
<1>14. Pass(g) => \/ Arrives(g) \/ ReadsCounter(g) \/ Checks(g) \/ Locks(g)
                  \/ ReadsActivation(g) \/ Fetches(g) \/ Lists(g)
                  \/ InstallsDocument(g) \/ PublishesRecords(g) \/ RepublishesCatalogs(g)
                  \/ ScanEnds(g) \/ Settles(g) \/ CapturesLane(g) \/ PublishesBundle(g)
                  \/ PublishesWatermark(g)
  BY DEF Pass
<1> QED
  BY <1>2, <1>3, <1>4, <1>5, <1>6, <1>7, <1>8, <1>9, <1>10, <1>11, <1>12, <1>13, <1>14 DEF Next

\* admit_bounded, the strict rule: whatever happens between a request's arrival
\* and its answer, the bundle it is served from is no older than its arrival.
THEOREM AdmissionCorrect == Spec => AdmittedFresh
<1>1. ASSUME SecurityInv, [Next]_vars
      PROVE  [\A g \in Gates : pc[g] # "idle" /\ pc'[g] = "idle" /\ ~failing' =>
                \A p \in Parts : published'.content[p] >= history[start[g]][p]]_vars
  <2>1. ASSUME Next, NEW g \in Gates, pc[g] # "idle", pc'[g] = "idle", ~failing', NEW p \in Parts
        PROVE  published'.content[p] >= history[start[g]][p]
    <3>1. /\ published' = published /\ current[g] <= published.revision
          /\ pc[g] \in {"check", "wait", "mark"}
      BY <1>1, <2>1, AnsweredPass
    <3>2. current[g] \in 1..Counter /\ start[g] \in 1..current[g]
      BY <1>1, <3>1, CurrentReached
    <3>3. Counter \in Nat /\ published.revision \in Nat
      BY <1>1, Types DEF SecurityInv
    <3>4. start[g] \in 1..Counter /\ start[g] <= published.revision
      BY <3>1, <3>2, <3>3
    <3> QED
      BY <1>1, <3>1, <3>4, BundleAsNew
  <2> QED
    BY <1>1, <2>1
<1> QED
  BY <1>1, SecurityInvariant, PTL DEF Spec, AdmittedFresh

\* A step of a pass moves the marks forward, or not at all.
LEMMA PassForward ==
    ASSUME SecurityInv, NEW g \in Gates, Pass(g) \/ Refuses(g)
    PROVE  /\ compiled' = compiled \/ (pc[g] = "mark" /\ compiled' = current[g])
           /\ published' = published \/ (pc[g] = "publish" /\ published'.revision = current[g])
           /\ observed' = observed \/ observed' > observed
           /\ \A l \in {"policy", "tools"} : live'[l] = live[l] \/ live'[l] > live[l]
<1>1. live \in [Parts -> Nat] /\ \A l \in {"policy", "tools"} : l \in Parts /\ l \notin Records
  BY Types, DocumentFacts DEF SecurityInv, Contents
<1>2. CASE Arrives(g) \/ ReadsCounter(g) \/ Locks(g) \/ ReadsActivation(g) \/ Fetches(g) \/ Lists(g)
           \/ RepublishesCatalogs(g) \/ ScanEnds(g) \/ CapturesLane(g) \/ Refuses(g)
  BY <1>2 DEF Arrives, ReadsCounter, Locks, ReadsActivation, Fetches, Lists, RepublishesCatalogs,
              ScanEnds, CapturesLane, Refuses, replica, gate
<1>3. CASE Checks(g) \/ Settles(g)
  BY <1>3 DEF Checks, Settles, Observe, replica
<1>4. CASE InstallsDocument(g)
  <2>1. live' = [live EXCEPT ![Resource(g)] = IF fetchedAt[g] > @ THEN fetchedAt[g] ELSE @]
    BY <1>4 DEF InstallsDocument, InstallDocument, Newer
  <2>2. \A l \in {"policy", "tools"} : live'[l] = live[l] \/ live'[l] > live[l]
    BY <1>1, <2>1
  <2> QED
    BY <1>4, <2>2 DEF InstallsDocument, gate
<1>5. CASE PublishesRecords(g)
  BY <1>1, <1>5 DEF PublishesRecords, gate
<1>6. CASE PublishesBundle(g)
  BY <1>6 DEF PublishesBundle, replica
<1>7. CASE PublishesWatermark(g)
  BY <1>7 DEF PublishesWatermark, replica
<1> QED
  BY <1>2, <1>3, <1>4, <1>5, <1>6, <1>7 DEF Pass

\* The watermark, the bundle and the installed documents never go back: a slow
\* reconcile does not overwrite a newer install.
THEOREM NeverBackCorrect == Spec => NeverBack
<1>1. ASSUME SecurityInv, [Next]_vars
      PROVE  [/\ compiled' >= compiled /\ observed' >= observed
              /\ published'.revision >= published.revision
              /\ \A l \in {"policy", "tools"} : live'[l] >= live[l]]_vars
  <2>1. /\ compiled \in Nat /\ observed \in Nat /\ published.revision \in Nat
        /\ live \in [Parts -> Nat]
        /\ \A l \in {"policy", "tools"} : l \in Parts /\ l \notin Records /\ live[l] \in Nat
    BY <1>1, Types, DocumentFacts DEF SecurityInv, Contents
  <2>2. ASSUME UNCHANGED gate, \A l \in {"policy", "tools"} : live'[l] = live[l] \/ live'[l] > live[l],
               live' \in [Parts -> Nat]
        PROVE  /\ compiled' >= compiled /\ observed' >= observed
               /\ published'.revision >= published.revision
               /\ \A l \in {"policy", "tools"} : live'[l] >= live[l]
    BY <2>1, <2>2 DEF gate
  <2>3. SecurityInv' /\ live' \in [Parts -> Nat] /\ observed' \in Nat
    BY <1>1, SecurityStep, Types DEF SecurityInv, TypeOK, Contents
  <2>4. CASE UNCHANGED vars
    BY <2>4
  <2>5. CASE \E p \in Parts : RemoteCommit(p)
    BY <2>2, <2>3, <2>5 DEF RemoteCommit, replica
  <2>6. ASSUME NEW w \in Writers,
               \/ \E p \in Parts : WriterBegins(w, p)
               \/ \E p \in Records : StatusBegins(w, p)
               \/ StatusAppends(w) \/ StatusRereads(w) \/ StatusReturnsRecord(w)
               \/ WriterCommits(w) \/ WriterStops(w)
        PROVE  UNCHANGED <<gate, live>>
    BY <2>6 DEF WriterBegins, WriterCommits, WriterStops, WriterEnds, StatusBegins, StatusAppends,
                StatusRereads, StatusReturnsRecord, AppendStatus, replica
  <2>7. ASSUME NEW w \in Writers, WriterInstalls(w)
        PROVE  UNCHANGED gate /\ \A l \in {"policy", "tools"} : live'[l] = live[l] \/ live'[l] > live[l]
    BY <2>1, <2>7 DEF WriterInstalls, WriterEnds, InstallDocument, Newer
  <2>8. ASSUME NEW g \in Gates, Pass(g) \/ Refuses(g)
        PROVE  /\ compiled' >= compiled /\ observed' >= observed
               /\ published'.revision >= published.revision
               /\ \A l \in {"policy", "tools"} : live'[l] >= live[l]
    <3>1. /\ pc[g] = "mark" => compiled < current[g]
          /\ pc[g] = "publish" => published.revision < current[g]
      BY <1>1 DEF SecurityInv, GateInv, Publishing
    <3>2. current[g] \in Nat
      BY <1>1, GateTypes DEF SecurityInv
    <3>3. /\ compiled' = compiled \/ (pc[g] = "mark" /\ compiled' = current[g])
          /\ published' = published \/ (pc[g] = "publish" /\ published'.revision = current[g])
          /\ observed' = observed \/ observed' > observed
          /\ \A l \in {"policy", "tools"} : live'[l] = live[l] \/ live'[l] > live[l]
      BY <1>1, <2>8, PassForward
    <3>4. compiled' >= compiled /\ published'.revision >= published.revision
      BY <2>1, <3>1, <3>2, <3>3
    <3> QED
      BY <2>1, <2>3, <3>3, <3>4
  <2> QED
    BY <1>1, <2>2, <2>3, <2>4, <2>5, <2>6, <2>7, <2>8 DEF Next
<1> QED
  BY <1>1, SecurityInvariant, PTL DEF Spec, NeverBack

=============================================================================
