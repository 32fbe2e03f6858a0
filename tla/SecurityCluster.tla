--------------------------- MODULE SecurityCluster ---------------------------
(***************************************************************************)
(* The security revision gate of one replica (security_cluster.rs).        *)
(*                                                                         *)
(* Replicas share an authority: policy, tools and Connection records, each *)
(* commit taking the next value of one security revision counter.  Before  *)
(* a protected request is served the gate reads the counter, brings every  *)
(* lane up to date and hands out a bundle of the lanes captured together.  *)
(* A background poller runs the same gate.                                 *)
(*                                                                         *)
(* Steps are the code's awaits: between any two of them another replica    *)
(* may commit, an admin handler of this replica may commit and install,    *)
(* and a budget may run out.                                               *)
(***************************************************************************)
EXTENDS Integers, Sequences

CONSTANTS
    Records,      \* Connection records
    Gates,        \* concurrent runs of the gate: requests and the poller
    Writers,      \* concurrent admin mutations on this replica
    MaxRevision,  \* bound of the model: commits
    Nobody        \* the holder of a free lock

\* The registered resources, in the order the builder registers them.
Resources == <<"policy", "tools", "connections">>
Lanes == {"policy", "tools", "connections"}

\* What a commit changes: a whole document or one Connection record.
Parts == {"policy", "tools"} \cup Records
LaneOf(p) == IF p \in Records THEN "connections" ELSE p

ASSUME SecurityAssumption ==
    /\ Records \cap Lanes = {}
    /\ MaxRevision \in Nat \ {0}
    /\ Nobody \notin Gates \cup Writers
    /\ Gates \cap Writers = {}

Contents == [Parts -> Nat]   \* per part, the revision that committed it
Bundles == [revision : Nat, content : Contents]

VARIABLES
    history,    \* history[r]: what the authority held at revision r
    activation, \* revision at which each lane last changed
    handled,    \* history: revisions above the bundle's that handlers of this replica
                \* committed, or read back when they appended a status
    live,       \* the lanes installed on this replica
    listed,     \* ConnectionsResource.installed_revision
    compiled,   \* compiled_revision: the watermark
    observed,   \* observed_revision
    published,  \* the bundle; revision 0 before the first
    failing,    \* admission_failing_since is set
    lock,       \* holders of reconcile_lock ("gate"), policy_write_lock, mutation_lock
    pc, start, current, base, at, moved, fetched, fetchedAt,
    wpc, wpart, wrevision

authority == <<history, activation, handled>>
replica == <<live, listed>>
gate == <<compiled, observed, published, failing>>
passes == <<start, current, base, at, moved, fetched, fetchedAt>>
writers == <<wpc, wpart, wrevision>>
vars == <<authority, replica, gate, lock, pc, passes, writers>>

Counter == Len(history)
NoContent == [p \in Parts |-> 0]
NoBundle == [revision |-> 0, content |-> NoContent]

\* idle; read: awaits the counter; check: has it; wait: awaits reconcile_lock;
\* lane: about to read resource at's activation; fetch, list: awaits content;
\* install: awaits the lane's lock; catalogs: awaits the managed catalogs;
\* settle: awaits the second counter read; capture, publish, mark: publish().
PCs == {"idle", "read", "check", "wait", "lane", "fetch", "list", "install",
        "catalogs", "settle", "capture", "publish", "mark"}

TypeOK ==
    /\ history \in Seq(Contents)
    /\ activation \in [Lanes -> Nat]
    /\ handled \subseteq Nat
    /\ live \in Contents
    /\ listed \in Nat /\ compiled \in Nat /\ observed \in Nat
    /\ published \in Bundles
    /\ failing \in BOOLEAN
    /\ lock \in [{"gate", "policy", "connections"} -> Gates \cup Writers \cup {Nobody}]
    /\ pc \in [Gates -> PCs]
    /\ start \in [Gates -> Nat]
    /\ current \in [Gates -> Nat]
    /\ base \in [Gates -> Nat]
    /\ at \in [Gates -> 1..(Len(Resources) + 1)]
    /\ moved \in [Gates -> BOOLEAN]
    /\ fetched \in [Gates -> Contents]
    /\ fetchedAt \in [Gates -> Nat]
    /\ wpc \in [Writers -> {"idle", "commit", "probe", "reread", "install"}]
    /\ wpart \in [Writers -> Parts]
    /\ wrevision \in [Writers -> Nat]

\* Startup refuses to serve before the policy document's first commit, and reads
\* the boot seeds one resource at a time while other replicas commit: the lanes
\* may come from different revisions.
Init ==
    /\ history \in {<<[NoContent EXCEPT !["policy"] = 1]>>,
                    <<[NoContent EXCEPT !["policy"] = 1],
                      [NoContent EXCEPT !["policy"] = 1, !["tools"] = 2]>>}
    /\ activation = [l \in Lanes |->
                        IF l = "connections" THEN 0 ELSE history[Len(history)][l]]
    /\ \E seeded \in 1..Len(history) : live = history[seeded]
    /\ handled = {}
    /\ listed = 0
    /\ compiled = 0 /\ observed = 0
    /\ published = NoBundle
    /\ failing = FALSE
    /\ lock = [l \in {"gate", "policy", "connections"} |-> Nobody]
    /\ pc = [g \in Gates |-> "idle"]
    /\ start = [g \in Gates |-> 0]
    /\ current = [g \in Gates |-> 0]
    /\ base = [g \in Gates |-> 0]
    /\ at = [g \in Gates |-> 1]
    /\ moved = [g \in Gates |-> FALSE]
    /\ fetched = [g \in Gates |-> NoContent]
    /\ fetchedAt = [g \in Gates |-> 0]
    /\ wpc = [w \in Writers |-> "idle"]
    /\ wpart = [w \in Writers |-> "policy"]
    /\ wrevision = [w \in Writers |-> 0]

-----------------------------------------------------------------------------
(* The authority                                                            *)

\* One transaction: the shared counter advances, the part changes, and its lane
\* records the shared revision, never a counter of its own.
Commits(p) ==
    /\ Counter < MaxRevision
    /\ history' = Append(history, [history[Counter] EXCEPT ![p] = Counter + 1])
    /\ activation' = [activation EXCEPT ![LaneOf(p)] = Counter + 1]

\* Another replica commits.
RemoteCommit(p) ==
    /\ Commits(p)
    /\ UNCHANGED <<handled, replica, gate, lock, pc, passes, writers>>

-----------------------------------------------------------------------------
(* Installing on this replica                                               *)

\* Mutant: install without comparing revisions.
NewerAlways(l, r) == TRUE

\* rcu in install_revision_snapshot_locked, and install_committed: a document
\* is replaced only by a newer one.
Newer(l, r) == r > live[l]

InstallDocument(l, r) == live' = [live EXCEPT ![l] = IF Newer(l, r) THEN r ELSE @]

\* The revision each resource has installed.
Installed(l) == IF l = "connections" THEN listed ELSE live[l]

\* The lock an install takes: policy_write_lock, mutation_lock; install_lock of
\* the tools lane covers only a step that is atomic here.
Locked(l) == l # "tools" /\ lock[l] # Nobody

-----------------------------------------------------------------------------
(* Admin mutations of this replica: the policy and Connection handlers hold *)
(* their lane's lock from before the commit until after the install.  The   *)
(* handlers that append a Connection status hold it too, and install the    *)
(* record although they commit no security revision.                        *)

WriterBegins(w, p) ==
    /\ wpc[w] = "idle"
    /\ ~Locked(LaneOf(p))
    /\ wpc' = [wpc EXCEPT ![w] = "commit"]
    /\ wpart' = [wpart EXCEPT ![w] = p]
    /\ lock' = IF LaneOf(p) = "tools" THEN lock ELSE [lock EXCEPT ![LaneOf(p)] = w]
    /\ UNCHANGED <<authority, replica, gate, pc, passes, wrevision>>

WriterCommits(w) ==
    /\ wpc[w] = "commit"
    /\ Commits(wpart[w])
    /\ handled' = handled \cup {Counter + 1}
    /\ wpc' = [wpc EXCEPT ![w] = "install"]
    /\ wrevision' = [wrevision EXCEPT ![w] = Counter + 1]
    /\ UNCHANGED <<replica, gate, lock, pc, passes, wpart>>

\* A Connection test or a catalog refresh works from the record it finds in the
\* live map, and keeps its etag for the status it will append.
StatusBegins(w, p) ==
    /\ wpc[w] = "idle" /\ live[p] # 0
    /\ wpc' = [wpc EXCEPT ![w] = "probe"]
    /\ wpart' = [wpart EXCEPT ![w] = p]
    /\ wrevision' = [wrevision EXCEPT ![w] = live[p]]
    /\ UNCHANGED <<authority, replica, gate, lock, pc, passes>>

\* The record a handler takes from the authority, as opposed to a pass of the gate.
Handles(r) == handled' = handled \cup ({r} \ (0..published.revision))

\* The transaction of a status: under mutation_lock, if the authority's record still
\* has that etag.  The security revision stays as it is.
AppendStatus(w) ==
    /\ wpc[w] = "probe" /\ ~Locked("connections")
    /\ history[Counter][wpart[w]] = wrevision[w]
    /\ lock' = [lock EXCEPT !["connections"] = w]
    /\ UNCHANGED <<history, activation, replica, gate, pc, passes, wpart, wrevision>>

\* append_status (a catalog refresh): the record is read again, in another query.
StatusAppends(w) ==
    /\ AppendStatus(w)
    /\ wpc' = [wpc EXCEPT ![w] = "reread"]
    /\ UNCHANGED handled

\* store.get: another replica may have committed the record since the append.
StatusRereads(w) ==
    /\ wpc[w] = "reread"
    /\ wpc' = [wpc EXCEPT ![w] = "install"]
    /\ wrevision' = [wrevision EXCEPT ![w] = history[Counter][wpart[w]]]
    /\ Handles(history[Counter][wpart[w]])
    /\ UNCHANGED <<history, activation, replica, gate, lock, pc, passes, wpart>>

\* append_status_before (a Connection test): the transaction returns the record.
StatusReturnsRecord(w) ==
    /\ AppendStatus(w)
    /\ wpc' = [wpc EXCEPT ![w] = "install"]
    /\ Handles(wrevision[w])

WriterEnds(w) ==
    /\ wpc' = [wpc EXCEPT ![w] = "idle"]
    /\ wpart' = [wpart EXCEPT ![w] = "policy"]
    /\ wrevision' = [wrevision EXCEPT ![w] = 0]
    /\ lock' = [l \in DOMAIN lock |-> IF lock[l] = w THEN Nobody ELSE lock[l]]
    /\ UNCHANGED <<authority, listed, gate, pc, passes>>

\* A document goes through the compare-and-install; a Connection handler puts its
\* one record, committed or read back, into the map it finds and leaves
\* installed_revision alone.
WriterInstalls(w) ==
    /\ wpc[w] = "install"
    /\ IF wpart[w] \in Records
       THEN live' = [live EXCEPT ![wpart[w]] = wrevision[w]]
       ELSE InstallDocument(wpart[w], wrevision[w])
    /\ WriterEnds(w)

\* The commit or the append is refused by its compare-and-swap, the record is gone
\* when it is read back, or the handler's future is dropped with its client,
\* perhaps after the commit took effect.
WriterStops(w) ==
    /\ wpc[w] # "idle"
    /\ WriterEnds(w)
    /\ UNCHANGED live

-----------------------------------------------------------------------------
(* admit_bounded                                                            *)

Goto(g, label) == pc' = [pc EXCEPT ![g] = label]

\* The end of a pass: its locals are dropped.
Forget(g) ==
    /\ base' = [base EXCEPT ![g] = 0]
    /\ at' = [at EXCEPT ![g] = 1]
    /\ moved' = [moved EXCEPT ![g] = FALSE]
    /\ fetched' = [fetched EXCEPT ![g] = NoContent]
    /\ fetchedAt' = [fetchedAt EXCEPT ![g] = 0]

\* The gate answers: note_admission keeps the streak of failures.
Answers(g, admitted) ==
    /\ Goto(g, "idle")
    /\ failing' = ~admitted
    /\ start' = [start EXCEPT ![g] = 0]
    /\ current' = [current EXCEPT ![g] = 0]

\* Mutant: the guard is not dropped on the way out.
KeepLock(g) == lock' = lock

Release(g) == lock' = [lock EXCEPT !["gate"] = IF @ = g THEN Nobody ELSE @]

\* The request arrives, or the poller ticks.
Arrives(g) ==
    /\ pc[g] = "idle"
    /\ Goto(g, "read")
    /\ start' = [start EXCEPT ![g] = Counter]
    /\ UNCHANGED <<authority, replica, gate, lock, current, base, at, moved, fetched,
                   fetchedAt, writers>>

\* current_revision: the counter is read; its answer is used in Checks.
ReadsCounter(g) ==
    /\ pc[g] = "read"
    /\ Goto(g, "check")
    /\ current' = [current EXCEPT ![g] = Counter]
    /\ UNCHANGED <<authority, replica, gate, lock, start, base, at, moved, fetched,
                   fetchedAt, writers>>

\* fetch_max
Observe(r) == observed' = IF r > observed THEN r ELSE observed

\* compiled >= current, and admission_at finds a bundle as new as the authority
Admissible(g) == compiled >= current[g] /\ published.revision >= current[g]

\* The request is served from the published bundle, which never changes again.
Checks(g) ==
    /\ pc[g] = "check"
    /\ Observe(current[g])
    /\ \/ /\ Admissible(g)
          /\ Answers(g, TRUE)
       \/ /\ ~Admissible(g)
          /\ Goto(g, "wait")
          /\ UNCHANGED <<failing, start, current>>
    /\ UNCHANGED <<authority, replica, compiled, published, lock, base, at, moved, fetched,
                   fetchedAt, writers>>

\* The lock is granted: a concurrent holder may have reconciled already.
Locks(g) ==
    /\ pc[g] = "wait" /\ lock["gate"] = Nobody
    /\ \/ /\ Admissible(g)
          /\ Answers(g, TRUE)
          /\ UNCHANGED <<lock, base>>
       \/ /\ ~Admissible(g)
          /\ Goto(g, "lane")
          /\ lock' = [lock EXCEPT !["gate"] = g]
          /\ base' = [base EXCEPT ![g] = compiled]
          /\ UNCHANGED <<failing, start, current>>
    /\ UNCHANGED <<authority, replica, compiled, observed, published, at, moved, fetched,
                   fetchedAt, writers>>

-----------------------------------------------------------------------------
(* reconcile_resources: one resource after another                          *)

Resource(g) == Resources[at[g]]

\* Mutant: the installed revision is compared with the replica's watermark.
AheadOfWatermark(g) ==
    activation[Resource(g)] <= base[g] \/ Installed(Resource(g)) > base[g]

\* activation <= compiled_revision, or the resource has that activation already
UpToDate(g) ==
    activation[Resource(g)] <= base[g] \/ Installed(Resource(g)) >= activation[Resource(g)]

ReadsActivation(g) ==
    /\ pc[g] = "lane" /\ at[g] <= Len(Resources)
    /\ \/ /\ activation[Resource(g)] > current[g]   \* moved past the counter read
          /\ moved' = [moved EXCEPT ![g] = TRUE]
          /\ at' = [at EXCEPT ![g] = @ + 1]
          /\ UNCHANGED pc
       \/ /\ activation[Resource(g)] <= current[g] /\ UpToDate(g)
          /\ at' = [at EXCEPT ![g] = @ + 1]
          /\ UNCHANGED <<pc, moved>>
       \/ /\ activation[Resource(g)] <= current[g] /\ ~UpToDate(g)
          /\ Goto(g, "fetch")
          /\ UNCHANGED <<at, moved>>
    /\ UNCHANGED <<authority, replica, gate, lock, start, current, base, fetched,
                   fetchedAt, writers>>

\* A document comes with its revision; Connections read the state revision
\* first and list the records in a second query.
Fetches(g) ==
    /\ pc[g] = "fetch"
    /\ fetchedAt' = [fetchedAt EXCEPT ![g] = activation[Resource(g)]]
    /\ Goto(g, IF Resource(g) = "connections" THEN "list" ELSE "install")
    /\ UNCHANGED <<authority, replica, gate, lock, start, current, base, at, moved,
                   fetched, writers>>

Lists(g) ==
    /\ pc[g] = "list"
    /\ fetched' = [fetched EXCEPT ![g] = history[Counter]]
    /\ Goto(g, "install")
    /\ UNCHANGED <<authority, replica, gate, lock, start, current, base, at, moved,
                   fetchedAt, writers>>

\* The next resource of the loop.
ResourceDone(g) ==
    /\ Goto(g, "lane")
    /\ at' = [at EXCEPT ![g] = @ + 1]
    /\ fetched' = [fetched EXCEPT ![g] = NoContent]
    /\ fetchedAt' = [fetchedAt EXCEPT ![g] = 0]

InstallsDocument(g) ==
    /\ pc[g] = "install" /\ Resource(g) # "connections" /\ ~Locked(Resource(g))
    /\ InstallDocument(Resource(g), fetchedAt[g])
    /\ ResourceDone(g)
    /\ UNCHANGED <<authority, listed, gate, lock, start, current, base, moved, writers>>

\* publish_authoritative_records replaces the whole map
PublishesRecords(g) ==
    /\ pc[g] = "install" /\ Resource(g) = "connections" /\ ~Locked("connections")
    /\ live' = [p \in Parts |-> IF p \in Records THEN fetched[g][p] ELSE live[p]]
    /\ Goto(g, "catalogs")
    /\ UNCHANGED <<authority, listed, gate, lock, start, current, base, at, moved,
                   fetched, fetchedAt, writers>>

\* The catalogs are republished, and only then installed_revision is stored.
RepublishesCatalogs(g) ==
    /\ pc[g] = "catalogs"
    /\ listed' = fetchedAt[g]
    /\ ResourceDone(g)
    /\ UNCHANGED <<authority, live, gate, lock, start, current, base, moved, writers>>

-----------------------------------------------------------------------------
(* The end of a pass                                                        *)

\* continue: the lock is dropped and the counter is read again
TryAgain(g) ==
    /\ Goto(g, "read")
    /\ Release(g)
    /\ Forget(g)

ScanEnds(g) ==
    /\ pc[g] = "lane" /\ at[g] > Len(Resources)
    /\ \/ /\ moved[g]
          /\ TryAgain(g)
       \/ /\ ~moved[g]
          /\ Goto(g, "settle")
          /\ UNCHANGED <<lock, base, at, moved, fetched, fetchedAt>>
    /\ UNCHANGED <<authority, replica, gate, start, current, writers>>

\* Mutant: the counter is not read again before the bundle is published.
SettledUnread(g) == TRUE

\* settled == current
Settled(g) == Counter = current[g]

Settles(g) ==
    /\ pc[g] = "settle"
    /\ Observe(Counter)
    /\ \/ /\ Settled(g)
          /\ Goto(g, "capture")
          /\ at' = [at EXCEPT ![g] = 1]
          /\ UNCHANGED <<lock, base, moved, fetched, fetchedAt>>
       \/ /\ ~Settled(g)
          /\ TryAgain(g)
    /\ UNCHANGED <<authority, replica, compiled, published, failing, start, current, writers>>

\* publish: the lanes are loaded one after the other
CapturesLane(g) ==
    /\ pc[g] = "capture"
    /\ fetched' = [fetched EXCEPT ![g] =
                     [p \in Parts |-> IF LaneOf(p) = Resource(g) THEN live[p] ELSE @[p]]]
    /\ IF at[g] = Len(Resources)
       THEN Goto(g, "publish") /\ UNCHANGED at
       ELSE at' = [at EXCEPT ![g] = @ + 1] /\ UNCHANGED pc
    /\ UNCHANGED <<authority, replica, gate, lock, start, current, base, moved, fetchedAt, writers>>

\* publish: the bundle is stored before the watermark
PublishesBundle(g) ==
    /\ pc[g] = "publish"
    /\ published' = [revision |-> current[g], content |-> fetched[g]]
    /\ handled' = {r \in handled : r > current[g]}
    /\ Goto(g, "mark")
    /\ UNCHANGED <<history, activation, replica, compiled, observed, failing, lock, passes, writers>>

PublishesWatermark(g) ==
    /\ pc[g] = "mark"
    /\ compiled' = current[g]
    /\ Answers(g, TRUE)
    /\ Release(g)
    /\ Forget(g)
    /\ UNCHANGED <<authority, replica, observed, published, writers>>

\* The authority cannot be read, a document cannot be enforced, or the budget
\* runs out, at any await: the gate answers 503 and keeps what was installed.
Refuses(g) ==
    /\ pc[g] \in {"read", "wait", "lane", "fetch", "list", "install", "catalogs", "settle"}
    /\ Answers(g, FALSE)
    /\ Release(g)
    /\ Forget(g)
    /\ UNCHANGED <<authority, replica, compiled, observed, published, writers>>

-----------------------------------------------------------------------------

Pass(g) ==
    \/ Arrives(g) \/ ReadsCounter(g) \/ Checks(g) \/ Locks(g)
    \/ ReadsActivation(g) \/ Fetches(g) \/ Lists(g)
    \/ InstallsDocument(g) \/ PublishesRecords(g) \/ RepublishesCatalogs(g)
    \/ ScanEnds(g) \/ Settles(g) \/ CapturesLane(g) \/ PublishesBundle(g) \/ PublishesWatermark(g)

Next ==
    \/ \E p \in Parts : RemoteCommit(p)
    \/ \E w \in Writers : \/ \E p \in Parts : WriterBegins(w, p)
                          \/ \E p \in Records : StatusBegins(w, p)
                          \/ StatusAppends(w) \/ StatusRereads(w) \/ StatusReturnsRecord(w)
                          \/ WriterCommits(w) \/ WriterInstalls(w) \/ WriterStops(w)
    \/ \E g \in Gates : Pass(g) \/ Refuses(g)

Spec == Init /\ [][Next]_vars

\* The poller and the requests are tasks the runtime schedules; a handler ends;
\* tokio's mutexes are FIFO, so a waiter is not passed over for ever.
Fairness ==
    /\ \A g \in Gates :
        /\ WF_vars(Pass(g))
        /\ SF_vars(Locks(g)) /\ SF_vars(InstallsDocument(g)) /\ SF_vars(PublishesRecords(g))
    /\ \A w \in Writers : WF_vars(WriterStops(w) \/ WriterInstalls(w))

FairSpec == Spec /\ Fairness

-----------------------------------------------------------------------------
(* Properties                                                               *)

\* The strict rule of the gate: a request is served from lanes each at least as
\* new as what the authority held when the request arrived (admit_bounded).
AdmittedFresh ==
    [][\A g \in Gates : pc[g] # "idle" /\ pc'[g] = "idle" /\ ~failing' =>
         \A p \in Parts : published'.content[p] >= history[start[g]][p]]_vars

\* SecurityBundle: every lane of the bundle is what the authority held at the
\* bundle's revision, or a later commit that a handler of this replica installed:
\* one it committed, or a Connection record it read back when it appended a status
\* (another replica's commit, perhaps).  Nothing a pass of the gate fetched, at
\* whatever await, is in the bundle ahead of its revision, and no document of
\* another replica is.
BundleIsCut ==
    published.revision # 0 =>
        \A p \in Parts :
            \/ published.content[p] = history[published.revision][p]
            \/ published.content[p] > published.revision /\ published.content[p] \in handled

\* "it can never authorize with one lane's newer content while executing another
\* lane's older content -- a combination the authority never held"
\* (security_cluster.rs:146).
CombinationHeld ==
    published.revision # 0 =>
        \E r \in 1..Counter : published.content = history[r]

\* Watermark, bundle and installed documents never go back: a slow reconcile
\* does not overwrite a newer install, and no later pass publishes less.
NeverBack ==
    [][/\ compiled' >= compiled /\ observed' >= observed
       /\ published'.revision >= published.revision
       /\ \A l \in {"policy", "tools"} : live'[l] >= live[l]]_vars

\* From some time on no read fails, no document is refused and no budget ends.
Healthy == <>[][\A g \in Gates : ~Refuses(g)]_vars

\* When the commits and the failures stop, the replica catches up with the
\* authority and the gate serves (spawn_poller, note_admission): whatever was
\* left installed by abandoned passes and dropped handlers is no obstacle.
CatchesUp ==
    Healthy => <>[](compiled = Counter /\ published.revision = Counter /\ ~failing)

=============================================================================
