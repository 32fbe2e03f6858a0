------------------------------ MODULE TokenCache ------------------------------
(***************************************************************************)
(* The cache of delegated tokens (connections/oauth.rs), as the exchange   *)
(* and the purge of a principal's tokens use it                            *)
(* (connections/token_exchange.rs).                                        *)
(*                                                                         *)
(* Calls of one key share a slot and the one mint in flight for it.  The   *)
(* map of slots has a lock, a slot's state has another, and the retired    *)
(* flag is written under the first and read under the second.  Slots are   *)
(* reference counted: an address is used again when nothing refers to it.  *)
(***************************************************************************)
EXTENDS Integers, FiniteSets

CONSTANTS
    Calls,
    Keys,       \* each has a connection, a configuration and a principal
    Slots,      \* addresses
    NoSlot, NoKey,
    Principals,
    Capacity,
    MaxMints,   \* bounds of a run: tokens handed out by the issuer,
    MaxPurges   \* and purges of each principal

ASSUME CacheAssumption ==
    /\ IsFiniteSet(Keys) /\ IsFiniteSet(Slots) /\ NoSlot \notin Slots /\ NoKey \notin Keys
    /\ Capacity \in Nat \ {0} /\ MaxMints \in Nat /\ MaxPurges \in Nat
    /\ \A k \in Keys : k.principal \in Principals

VARIABLES
    slots,       \* the map: Keys -> Slots, or NoSlot
    key,         \* of the slot at an address
    cached,      \* state.cached, or NoToken
    generation,  \* state.generation
    flight,      \* state.in_flight: the epoch its mint was started in, or NoFlight
    purge,       \* how far the purge that retired the slot has come
    pc,
    slot,        \* the slot a call or its lease refers to
    got,         \* what a call was given: the outcome of its flight, or a cached token
    told,        \* completed.notified() of the call has fired
    minted,      \* tokens handed out by the issuer
    epoch,       \* history: purges of each principal so far
    asked        \* history: epoch at the start of the call

store == <<key, cached, generation, flight>>
calls == <<pc, slot, got, told, asked>>
vars == <<slots, store, purge, calls, minted, epoch>>

NoToken == [id |-> 0, gen |-> 0, since |-> 0]
Failure == [id |-> 0, gen |-> 0, since |-> 1]
NoFlight == -1

Mapped == {k \in Keys : slots[k] # NoSlot}

\* found: looked the slot up; joined: has the flight; armed: notified() called;
\* checked: found no outcome; asleep: awaits the notification; leased: holds a token.
Waits == {"joined", "armed", "checked", "asleep"}
PCs == Waits \cup {"idle", "found", "leased"}

TypeOK ==
    /\ slots \in [Keys -> Slots \cup {NoSlot}]
    /\ Cardinality(Mapped) <= Capacity
    /\ key \in [Slots -> Keys \cup {NoKey}]
    /\ cached \in [Slots -> [id : Nat, gen : Nat, since : Nat]]
    /\ generation \in [Slots -> Nat]
    /\ flight \in [Slots -> Nat \cup {NoFlight}]
    /\ purge \in [Slots -> {"none", "retired", "waiting", "taking", "taken"}]
    /\ pc \in [Calls -> PCs]
    /\ slot \in [Calls -> Slots \cup {NoSlot}]
    /\ got \in [Calls -> [id : Nat, gen : Nat, since : Nat]]
    /\ told \in [Calls -> BOOLEAN]
    /\ minted \in Nat
    /\ epoch \in [Principals -> Nat]
    /\ asked \in [Calls -> Nat]

Init ==
    /\ slots = [k \in Keys |-> NoSlot]
    /\ key = [s \in Slots |-> NoKey]
    /\ cached = [s \in Slots |-> NoToken]
    /\ generation = [s \in Slots |-> 0]
    /\ flight = [s \in Slots |-> NoFlight]
    /\ purge = [s \in Slots |-> "none"]
    /\ pc = [c \in Calls |-> "idle"]
    /\ slot = [c \in Calls |-> NoSlot]
    /\ got = [c \in Calls |-> NoToken]
    /\ told = [c \in Calls |-> FALSE]
    /\ minted = 0
    /\ epoch = [p \in Principals |-> 0]
    /\ asked = [c \in Calls |-> 0]

-----------------------------------------------------------------------------
(* The map of slots                                                         *)

\* Mutant: a mint in flight does not hold its slot.
HeldByCalls(s) == \E c \in Calls : slot[c] = s

\* Arc::strong_count(slot) > 1
Held(s) == flight[s] # NoFlight \/ \E c \in Calls : slot[c] = s

\* An address nothing refers to.
Unused(s) ==
    /\ \A k \in Keys : slots[k] # s
    /\ ~Held(s)
    /\ purge[s] \in {"none", "taken"}

\* The first key of a configuration: its Connection changed.
NewConfiguration(k) ==
    \A m \in Mapped : m.connection = k.connection => m.configuration # k.configuration

\* slots.retain: what stays when k is asked for.
Retained(k) ==
    {m \in Mapped : \/ ~NewConfiguration(k)
                    \/ m.connection # k.connection
                    \/ Held(slots[m])}

\* slots.len() < capacity
Room(keys) == Cardinality(keys) < Capacity

\* The keys whose slots stay: an idle one may have to go.
Kept(k) ==
    IF Room(Retained(k)) THEN {Retained(k)}
    ELSE {Retained(k) \ {m} : m \in {n \in Retained(k) : ~Held(slots[n])}}

\* slot_for, when the key has a slot
FindsSlot(c, k) ==
    /\ pc[c] = "idle" /\ k \in Mapped
    /\ pc' = [pc EXCEPT ![c] = "found"]
    /\ slot' = [slot EXCEPT ![c] = slots[k]]
    /\ asked' = [asked EXCEPT ![c] = epoch[k.principal]]
    /\ UNCHANGED <<slots, store, purge, got, told, minted, epoch>>

\* slot_for, when it has none
AddsSlot(c, k) ==
    /\ pc[c] = "idle" /\ k \notin Mapped
    /\ \E kept \in Kept(k), s \in Slots :
        /\ Unused(s)
        /\ slots' = [m \in Keys |-> IF m = k THEN s ELSE IF m \in kept THEN slots[m] ELSE NoSlot]
        /\ key' = [key EXCEPT ![s] = k]
        /\ cached' = [cached EXCEPT ![s] = NoToken]
        /\ generation' = [generation EXCEPT ![s] = 0]
        /\ purge' = [purge EXCEPT ![s] = "none"]
        /\ slot' = [slot EXCEPT ![c] = s]
    /\ pc' = [pc EXCEPT ![c] = "found"]
    /\ asked' = [asked EXCEPT ![c] = epoch[k.principal]]
    /\ UNCHANGED <<flight, got, told, minted, epoch>>

\* CACHE_FULL: the slots of the old configurations are gone all the same.
RefusesKey(c, k) ==
    /\ pc[c] = "idle" /\ k \notin Mapped /\ Kept(k) = {}
    /\ slots' = [m \in Keys |-> IF m \in Retained(k) THEN slots[m] ELSE NoSlot]
    /\ UNCHANGED <<store, purge, calls, minted, epoch>>

-----------------------------------------------------------------------------
(* Calls                                                                    *)

\* The call is over, or dropped: so is its reference to the slot.
Leaves(c) ==
    /\ pc' = [pc EXCEPT ![c] = "idle"]
    /\ slot' = [slot EXCEPT ![c] = NoSlot]
    /\ got' = [got EXCEPT ![c] = NoToken]
    /\ told' = [told EXCEPT ![c] = FALSE]
    /\ asked' = [asked EXCEPT ![c] = 0]

\* Mutant: the flag is not looked at once the slot is found.
NeverRetired(s) == FALSE

\* slot.retired.load()
Retired(s) == purge[s] # "none"

\* get_or_mint_with, under the lock of the slot's state, when the slot is retired
IsRefused(c) ==
    /\ pc[c] = "found" /\ Retired(slot[c])
    /\ Leaves(c)
    /\ UNCHANGED <<slots, store, purge, minted, epoch>>

\* A cached token not yet due for refresh
IsServed(c) ==
    /\ pc[c] = "found" /\ ~Retired(slot[c])
    /\ cached[slot[c]] # NoToken
    /\ pc' = [pc EXCEPT ![c] = "leased"]
    /\ got' = [got EXCEPT ![c] = cached[slot[c]]]
    /\ UNCHANGED <<slots, store, purge, slot, told, asked, minted, epoch>>

\* No token, or one due for refresh: joins the mint in flight or starts one.
Joins(c) ==
    LET s == slot[c] IN
    /\ pc[c] = "found" /\ ~Retired(s)
    /\ cached' = [cached EXCEPT ![s] = NoToken]
    /\ flight' = [flight EXCEPT ![s] = IF flight[s] = NoFlight THEN epoch[key[s].principal]
                                       ELSE flight[s]]
    /\ pc' = [pc EXCEPT ![c] = "joined"]
    /\ UNCHANGED <<slots, key, generation, purge, slot, got, told, asked, minted, epoch>>

\* OAuthMintFlight::wait: notified(), then the outcome, then the notification
Arms(c) ==
    /\ pc[c] = "joined"
    /\ pc' = [pc EXCEPT ![c] = "armed"]
    /\ UNCHANGED <<slots, store, purge, slot, got, told, asked, minted, epoch>>

ChecksOutcome(c) ==
    /\ pc[c] = "armed"
    /\ \/ /\ got[c] = NoToken
          /\ pc' = [pc EXCEPT ![c] = "checked"]
          /\ UNCHANGED <<slot, got, told, asked>>
       \/ /\ got[c] \notin {NoToken, Failure}
          /\ pc' = [pc EXCEPT ![c] = "leased"]
          /\ told' = [told EXCEPT ![c] = FALSE]
          /\ UNCHANGED <<slot, got, asked>>
       \/ /\ got[c] = Failure
          /\ Leaves(c)
    /\ UNCHANGED <<slots, store, purge, minted, epoch>>

Awaits(c) ==
    /\ pc[c] = "checked"
    /\ pc' = [pc EXCEPT ![c] = "asleep"]
    /\ UNCHANGED <<slots, store, purge, slot, got, told, asked, minted, epoch>>

Wakes(c) ==
    /\ pc[c] = "asleep" /\ told[c]
    /\ pc' = [pc EXCEPT ![c] = "joined"]
    /\ told' = [told EXCEPT ![c] = FALSE]
    /\ UNCHANGED <<slots, store, purge, slot, got, asked, minted, epoch>>

\* invalidate_after_unauthorized
Unauthorized(c) ==
    LET s == slot[c] IN
    /\ pc[c] = "leased"
    /\ cached[s] # NoToken /\ cached[s].gen = got[c].gen
    /\ cached' = [cached EXCEPT ![s] = NoToken]
    /\ UNCHANGED <<slots, key, generation, flight, purge, calls, minted, epoch>>

\* The call ends or its future is dropped; a mint it started goes on.
Ends(c) ==
    /\ pc[c] # "idle"
    /\ Leaves(c)
    /\ UNCHANGED <<slots, store, purge, minted, epoch>>

-----------------------------------------------------------------------------
(* Mints                                                                    *)

\* Who waits for the flight of s, and whom notify_waiters reaches.
Waiting(c, s) == slot[c] = s /\ pc[c] \in Waits /\ got[c] = NoToken

\* Mutant: notified() is called when the outcome has been found missing.
Sleeps(c) == pc[c] = "asleep"

Listens(c) == pc[c] \in {"armed", "checked", "asleep"}

\* flight.complete and state.in_flight = None, under the lock of the slot's state
Completes(s, outcome) ==
    /\ cached' = [cached EXCEPT ![s] = IF outcome = Failure THEN NoToken ELSE outcome]
    /\ got' = [c \in Calls |-> IF Waiting(c, s) THEN outcome ELSE got[c]]
    /\ told' = [c \in Calls |-> told[c] \/ (Waiting(c, s) /\ Listens(c))]
    /\ purge' = [purge EXCEPT ![s] = IF purge[s] = "waiting" THEN "taking" ELSE purge[s]]
    /\ flight' = [flight EXCEPT ![s] = NoFlight]
    /\ UNCHANGED <<slots, key, pc, slot, asked, epoch>>

\* Mutant: every token of a slot has the same generation.
SameGeneration(s) == 1

NextGeneration(s) == generation[s] + 1

\* complete_oauth_mint
Mints(s) ==
    /\ flight[s] # NoFlight /\ minted < MaxMints
    /\ generation' = [generation EXCEPT ![s] = NextGeneration(s)]
    /\ minted' = minted + 1
    /\ Completes(s, [id |-> minted + 1, gen |-> NextGeneration(s), since |-> flight[s]])

\* complete_oauth_mint: the exchange failed or panicked.
MintFails(s) ==
    /\ flight[s] # NoFlight
    /\ Completes(s, Failure)
    /\ UNCHANGED <<generation, minted>>

-----------------------------------------------------------------------------
(* The purge of a principal                                                 *)

\* Mutant: like the other ways out of the map, the purge passes over held slots.
IdleOf(p) == {k \in Mapped : k.principal = p /\ ~Held(slots[k])}

KeysOf(p) == {k \in Mapped : k.principal = p}

\* start_purge: retire_where
Purges(p) ==
    /\ epoch[p] < MaxPurges
    /\ epoch' = [epoch EXCEPT ![p] = epoch[p] + 1]
    /\ slots' = [k \in Keys |-> IF k \in KeysOf(p) THEN NoSlot ELSE slots[k]]
    /\ purge' = [s \in Slots |-> IF \E k \in KeysOf(p) : slots[k] = s THEN "retired" ELSE purge[s]]
    /\ UNCHANGED <<store, calls, minted>>

\* take_token, under the slot's lock: is a mint in flight?
SeesFlight(s) ==
    /\ purge[s] = "retired"
    /\ purge' = [purge EXCEPT ![s] = IF flight[s] = NoFlight THEN "taking" ELSE "waiting"]
    /\ UNCHANGED <<slots, store, calls, minted, epoch>>

\* take_token, under the slot's lock again; the token goes to be revoked.
Takes(s) ==
    /\ purge[s] = "taking"
    /\ purge' = [purge EXCEPT ![s] = "taken"]
    /\ cached' = [cached EXCEPT ![s] = NoToken]
    /\ UNCHANGED <<slots, key, generation, flight, calls, minted, epoch>>

-----------------------------------------------------------------------------

Proceeds(c) ==
    \/ IsRefused(c) \/ IsServed(c) \/ Joins(c)
    \/ Arms(c) \/ ChecksOutcome(c) \/ Awaits(c) \/ Wakes(c)

Arrives(c, k) == FindsSlot(c, k) \/ AddsSlot(c, k) \/ RefusesKey(c, k)

Settles(s) == Mints(s) \/ MintFails(s)

Revokes(s) == SeesFlight(s) \/ Takes(s)

Next ==
    \/ \E c \in Calls : \/ Proceeds(c) \/ Unauthorized(c) \/ Ends(c)
                        \/ \E k \in Keys : Arrives(c, k)
    \/ \E s \in Slots : Settles(s) \/ Revokes(s)
    \/ \E p \in Principals : Purges(p)

Spec == Init /\ [][Next]_vars

-----------------------------------------------------------------------------
(* Properties                                                               *)

\* A call that comes after a purge of its principal is not given a token that was
\* asked for before it, cached or still being minted (purge_principal).
FreshAfterPurge == \A c \in Calls : pc[c] = "leased" => got[c].since >= asked[c]

\* When a purge has taken the token of a slot there is no other: none is cached,
\* none on its way, and none comes later, whoever still refers to the slot
\* (get_or_mint_with, take_token).
PurgeComplete == \A s \in Slots : purge[s] = "taken" => cached[s] = NoToken /\ flight[s] = NoFlight

\* Concurrent calls of one key share one exchange: there is a second one only
\* beside that of a purged slot.
OneMintPerKey ==
    \A s, t \in Slots :
        s # t /\ flight[s] # NoFlight /\ flight[t] # NoFlight /\ key[s] = key[t] =>
            Retired(s) \/ Retired(t)

\* A generation names one token of its slot, so that a 401 drops the token it was
\* the answer to and never a newer one.
GenerationNamesToken ==
    \A c \in Calls :
        pc[c] = "leased" /\ cached[slot[c]].gen = got[c].gen => cached[slot[c]] = got[c]

\* Nobody waits for what will not come: the flight a call or a purge waits for is
\* still to end, and a call that sleeps through its end is notified.  Since every
\* exchange ends (the token client has a deadline, a panic is caught), every call
\* is answered and every purged slot emptied (OAuthMintFlight::wait, take_token).
NobodyStranded ==
    /\ \A c \in Calls : pc[c] \in Waits =>
        IF got[c] = NoToken THEN flight[slot[c]] # NoFlight ELSE pc[c] = "asleep" => told[c]
    /\ \A s \in Slots : purge[s] = "waiting" => flight[s] # NoFlight

=============================================================================
