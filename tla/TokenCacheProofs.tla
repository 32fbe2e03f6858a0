--------------------------- MODULE TokenCacheProofs ---------------------------
(***************************************************************************)
(* TokenCache: purges, the shared mint, generations and the wait for a     *)
(* mint, for any calls, any finite set of keys and any capacity.           *)
(*                                                                         *)
(* CacheInv is the inductive invariant.  Its parts are shown one by one;   *)
(* each leans on the ones before it.                                       *)
(***************************************************************************)
EXTENDS TokenCache, FiniteSetTheorems, TLAPS

Token == [id : Nat, gen : Nat, since : Nat]

\* The state as TypeOK has it, without the bound on the slots.
Types ==
    /\ slots \in [Keys -> Slots \cup {NoSlot}]
    /\ key \in [Slots -> Keys \cup {NoKey}]
    /\ cached \in [Slots -> Token]
    /\ generation \in [Slots -> Nat]
    /\ flight \in [Slots -> Nat \cup {NoFlight}]
    /\ purge \in [Slots -> {"none", "retired", "waiting", "taking", "taken"}]
    /\ pc \in [Calls -> PCs]
    /\ slot \in [Calls -> Slots \cup {NoSlot}]
    /\ got \in [Calls -> Token]
    /\ told \in [Calls -> BOOLEAN]
    /\ minted \in Nat
    /\ epoch \in [Principals -> Nat]
    /\ asked \in [Calls -> Nat]

Bounded == Cardinality(Mapped) <= Capacity

\* A mapped slot is that of its key, and not retired; what is in use has a key,
\* and leaves the map only by a purge.
MapInv ==
    /\ \A k \in Keys : slots[k] # NoSlot => key[slots[k]] = k /\ purge[slots[k]] = "none"
    /\ \A c \in Calls : pc[c] = "idle" <=> slot[c] = NoSlot
    /\ \A s \in Slots : Held(s) => key[s] \in Keys
    /\ \A s \in Slots : Held(s) /\ purge[s] = "none" => slots[key[s]] = s

\* A purge that has begun to take the token finds no mint in flight, one that
\* waits does, and what it has emptied stays empty.
PurgeInv ==
    \A s \in Slots :
        /\ purge[s] \in {"taking", "taken"} => flight[s] = NoFlight
        /\ purge[s] = "waiting" => flight[s] # NoFlight
        /\ purge[s] = "taken" => cached[s] = NoToken

\* What a call is given, or waits for.
WaitInv ==
    /\ \A s \in Slots : cached[s] = NoToken \/ cached[s].id > 0
    /\ \A c \in Calls :
        /\ pc[c] \in {"idle", "found"} => got[c] = NoToken
        /\ pc[c] = "leased" => got[c].id > 0
        /\ got[c] \in {NoToken, Failure} \/ got[c].id > 0
        /\ pc[c] \in Waits /\ got[c] = NoToken => flight[slot[c]] # NoFlight
        /\ pc[c] \in {"checked", "asleep"} /\ got[c] # NoToken => told[c]

\* Nothing of a slot in the map is older than the last purge of its principal, and
\* nothing of the slot a call refers to is older than the call.
FreshInv ==
    /\ \A k \in Keys : slots[k] # NoSlot =>
        /\ flight[slots[k]] \in {NoFlight, epoch[k.principal]}
        /\ cached[slots[k]].id > 0 => cached[slots[k]].since = epoch[k.principal]
    /\ \A c \in Calls : pc[c] # "idle" =>
        /\ asked[c] <= epoch[key[slot[c]].principal]
        /\ flight[slot[c]] # NoFlight => flight[slot[c]] >= asked[c]
        /\ cached[slot[c]].id > 0 => cached[slot[c]].since >= asked[c]
        /\ got[c].id > 0 => got[c].since >= asked[c]

\* The tokens of a slot are numbered, and a number is given once.
NumberInv ==
    /\ \A s \in Slots : cached[s].gen <= generation[s] /\ (cached[s].id > 0 => cached[s].gen > 0)
    /\ \A c \in Calls : got[c].id > 0 /\ pc[c] # "idle" =>
        /\ got[c].gen \in 1 .. generation[slot[c]]
        /\ cached[slot[c]].gen = got[c].gen => cached[slot[c]] = got[c]

CacheInv == Types /\ Bounded /\ MapInv /\ PurgeInv /\ WaitInv /\ FreshInv /\ NumberInv

-----------------------------------------------------------------------------

\* The two values that stand for no token.
LEMMA NoTokens ==
    /\ NoToken \in Token /\ NoToken.id = 0 /\ NoToken.gen = 0
    /\ Failure \in Token /\ Failure.id = 0
    /\ NoToken # Failure
BY DEF NoToken, Failure, Token

\* Every step keeps the types.
LEMMA TypeStep ==
    ASSUME CacheInv, [Next]_vars
    PROVE  Types'
<1> USE CacheAssumption, NoTokens DEF CacheInv, Types, Token, PCs, Waits, NoFlight, store, calls
<1>1. ASSUME NEW c \in Calls, NEW k \in Keys, FindsSlot(c, k) PROVE Types'
    BY <1>1 DEF FindsSlot
<1>2. ASSUME NEW c \in Calls, NEW k \in Keys, AddsSlot(c, k) PROVE Types'
    BY <1>2 DEF AddsSlot
<1>3. ASSUME NEW c \in Calls, NEW k \in Keys, RefusesKey(c, k) PROVE Types'
    BY <1>3 DEF RefusesKey
<1>4. ASSUME NEW c \in Calls, IsRefused(c) PROVE Types'
    BY <1>4 DEF IsRefused, Leaves
<1>5. ASSUME NEW c \in Calls, IsServed(c) PROVE Types'
    BY <1>5 DEF IsServed, MapInv, Held
<1>6. ASSUME NEW c \in Calls, Joins(c) PROVE Types'
    BY <1>6 DEF Joins, MapInv, Held
<1>7. ASSUME NEW c \in Calls, Arms(c) PROVE Types'
    BY <1>7 DEF Arms
<1>8. ASSUME NEW c \in Calls, ChecksOutcome(c) PROVE Types'
  <2>1. CASE got[c] = NoToken
    BY <1>8, <2>1 DEF ChecksOutcome
  <2>2. CASE got[c] \notin {NoToken, Failure}
    BY <1>8, <2>2 DEF ChecksOutcome
  <2>3. CASE got[c] = Failure
    <3>1. Leaves(c) /\ UNCHANGED <<slots, store, purge, minted, epoch>>
      BY <1>8, <2>3 DEF ChecksOutcome
    <3> QED BY <1>8, <3>1 DEF ChecksOutcome, Leaves
  <2> QED BY <2>1, <2>2, <2>3
<1>9. ASSUME NEW c \in Calls, Awaits(c) PROVE Types'
    BY <1>9 DEF Awaits
<1>10. ASSUME NEW c \in Calls, Wakes(c) PROVE Types'
    BY <1>10 DEF Wakes
<1>11. ASSUME NEW c \in Calls, Unauthorized(c) PROVE Types'
    BY <1>11 DEF Unauthorized
<1>12. ASSUME NEW c \in Calls, Ends(c) PROVE Types'
    BY <1>12 DEF Ends, Leaves
<1>13. ASSUME NEW s \in Slots, Mints(s) PROVE Types'
    BY <1>13 DEF Mints, Completes, Waiting, NextGeneration, Listens
<1>14. ASSUME NEW s \in Slots, MintFails(s) PROVE Types'
    BY <1>14 DEF MintFails, Completes, Waiting, NextGeneration, Listens
<1>15. ASSUME NEW s \in Slots, SeesFlight(s) PROVE Types'
    BY <1>15 DEF SeesFlight
<1>16. ASSUME NEW s \in Slots, Takes(s) PROVE Types'
    BY <1>16 DEF Takes
<1>17. ASSUME NEW p \in Principals, Purges(p) PROVE Types'
    BY <1>17 DEF Purges
<1>18. CASE UNCHANGED vars
    BY <1>18 DEF vars, store, calls
<1> QED
    BY <1>1, <1>2, <1>3, <1>4, <1>5, <1>6, <1>7, <1>8, <1>9,
       <1>10, <1>11, <1>12, <1>13, <1>14, <1>15, <1>16, <1>17, <1>18
       DEF Next, Proceeds, Arrives, Settles, Revokes

\* Slots leave the map when idle (slot_for) or when retired (retire_where), and a
\* new one takes an address nothing refers to.
LEMMA MapStep ==
    ASSUME CacheInv, [Next]_vars
    PROVE  MapInv'
<1> USE CacheAssumption, NoTokens
       DEF CacheInv, Types, Token, MapInv, Held, PCs, Waits, NoFlight, Mapped, Retired, store, calls
<1>1. ASSUME NEW c \in Calls, NEW k \in Keys, FindsSlot(c, k) PROVE MapInv'
    BY <1>1 DEF FindsSlot
<1>2. ASSUME NEW c \in Calls, NEW k \in Keys, AddsSlot(c, k) PROVE MapInv'
  <2>1. PICK kept \in Kept(k), s \in Slots :
            /\ Unused(s)
            /\ slots' = [m \in Keys |-> IF m = k THEN s
                                         ELSE IF m \in kept THEN slots[m] ELSE NoSlot]
            /\ key' = [key EXCEPT ![s] = k]
            /\ cached' = [cached EXCEPT ![s] = NoToken]
            /\ generation' = [generation EXCEPT ![s] = 0]
            /\ purge' = [purge EXCEPT ![s] = "none"]
            /\ slot' = [slot EXCEPT ![c] = s]
    BY <1>2 DEF AddsSlot
  <2>2. \A m \in Mapped \ kept : ~Held(slots[m])
    BY <2>1 DEF Kept, Retained
  <2>3. pc[c] = "idle" /\ slots[k] = NoSlot /\ pc' = [pc EXCEPT ![c] = "found"] /\ flight' = flight
    BY <1>2 DEF AddsSlot
  <2>4. \A m \in Keys : slots[m] # s
    BY <2>1 DEF Unused
  <2>5. \A t \in Slots : t # s => Held(t)' = Held(t)
    BY <2>1, <2>3
  <2> QED
    BY <2>1, <2>2, <2>3, <2>4, <2>5 DEF Unused
<1>3. ASSUME NEW c \in Calls, NEW k \in Keys, RefusesKey(c, k) PROVE MapInv'
    BY <1>3 DEF RefusesKey, Kept, Retained
<1>4. ASSUME NEW c \in Calls, IsRefused(c) PROVE MapInv'
    BY <1>4 DEF IsRefused, Leaves
<1>5. ASSUME NEW c \in Calls, IsServed(c) PROVE MapInv'
    BY <1>5 DEF IsServed
<1>6. ASSUME NEW c \in Calls, Joins(c) PROVE MapInv'
    BY <1>6 DEF Joins
<1>7. ASSUME NEW c \in Calls, Arms(c) PROVE MapInv'
    BY <1>7 DEF Arms
<1>8. ASSUME NEW c \in Calls, ChecksOutcome(c) PROVE MapInv'
  <2>1. CASE got[c] = NoToken
    BY <1>8, <2>1 DEF ChecksOutcome
  <2>2. CASE got[c] \notin {NoToken, Failure}
    BY <1>8, <2>2 DEF ChecksOutcome
  <2>3. CASE got[c] = Failure
    <3>1. Leaves(c) /\ UNCHANGED <<slots, store, purge, minted, epoch>>
      BY <1>8, <2>3 DEF ChecksOutcome
    <3> QED BY <1>8, <3>1 DEF ChecksOutcome, Leaves
  <2> QED BY <2>1, <2>2, <2>3
<1>9. ASSUME NEW c \in Calls, Awaits(c) PROVE MapInv'
    BY <1>9 DEF Awaits
<1>10. ASSUME NEW c \in Calls, Wakes(c) PROVE MapInv'
    BY <1>10 DEF Wakes
<1>11. ASSUME NEW c \in Calls, Unauthorized(c) PROVE MapInv'
    BY <1>11 DEF Unauthorized
<1>12. ASSUME NEW c \in Calls, Ends(c) PROVE MapInv'
    BY <1>12 DEF Ends, Leaves
<1>13. ASSUME NEW s \in Slots, Mints(s) PROVE MapInv'
    BY <1>13 DEF Mints, Completes, Waiting, NextGeneration, Listens
<1>14. ASSUME NEW s \in Slots, MintFails(s) PROVE MapInv'
    BY <1>14 DEF MintFails, Completes, Waiting, NextGeneration, Listens
<1>15. ASSUME NEW s \in Slots, SeesFlight(s) PROVE MapInv'
    BY <1>15 DEF SeesFlight
<1>16. ASSUME NEW s \in Slots, Takes(s) PROVE MapInv'
    BY <1>16 DEF Takes
<1>17. ASSUME NEW p \in Principals, Purges(p) PROVE MapInv'
    BY <1>17 DEF Purges, KeysOf
<1>18. CASE UNCHANGED vars
    BY <1>18 DEF vars, store, calls
<1> QED
    BY <1>1, <1>2, <1>3, <1>4, <1>5, <1>6, <1>7, <1>8, <1>9,
       <1>10, <1>11, <1>12, <1>13, <1>14, <1>15, <1>16, <1>17, <1>18
       DEF Next, Proceeds, Arrives, Settles, Revokes

\* No mint starts on a retired slot, so that take_token finds the last one.
LEMMA PurgeStep ==
    ASSUME CacheInv, [Next]_vars
    PROVE  PurgeInv'
<1> USE CacheAssumption, NoTokens
       DEF CacheInv, Types, Token, MapInv, PurgeInv, Held, NoFlight, Mapped, Retired, store, calls
<1>1. ASSUME NEW c \in Calls, NEW k \in Keys, FindsSlot(c, k) PROVE PurgeInv'
    BY <1>1 DEF FindsSlot
<1>2. ASSUME NEW c \in Calls, NEW k \in Keys, AddsSlot(c, k) PROVE PurgeInv'
    BY <1>2 DEF AddsSlot, Unused
<1>3. ASSUME NEW c \in Calls, NEW k \in Keys, RefusesKey(c, k) PROVE PurgeInv'
    BY <1>3 DEF RefusesKey
<1>4. ASSUME NEW c \in Calls, IsRefused(c) PROVE PurgeInv'
    BY <1>4 DEF IsRefused, Leaves
<1>5. ASSUME NEW c \in Calls, IsServed(c) PROVE PurgeInv'
    BY <1>5 DEF IsServed
<1>6. ASSUME NEW c \in Calls, Joins(c) PROVE PurgeInv'
    BY <1>6 DEF Joins
<1>7. ASSUME NEW c \in Calls, Arms(c) PROVE PurgeInv'
    BY <1>7 DEF Arms
<1>8. ASSUME NEW c \in Calls, ChecksOutcome(c) PROVE PurgeInv'
    BY <1>8 DEF ChecksOutcome, Leaves
<1>9. ASSUME NEW c \in Calls, Awaits(c) PROVE PurgeInv'
    BY <1>9 DEF Awaits
<1>10. ASSUME NEW c \in Calls, Wakes(c) PROVE PurgeInv'
    BY <1>10 DEF Wakes
<1>11. ASSUME NEW c \in Calls, Unauthorized(c) PROVE PurgeInv'
    BY <1>11 DEF Unauthorized
<1>12. ASSUME NEW c \in Calls, Ends(c) PROVE PurgeInv'
    BY <1>12 DEF Ends, Leaves
<1>13. ASSUME NEW s \in Slots, Mints(s) PROVE PurgeInv'
    BY <1>13 DEF Mints, Completes, Waiting, NextGeneration, Listens
<1>14. ASSUME NEW s \in Slots, MintFails(s) PROVE PurgeInv'
    BY <1>14 DEF MintFails, Completes, Waiting, NextGeneration, Listens
<1>15. ASSUME NEW s \in Slots, SeesFlight(s) PROVE PurgeInv'
    BY <1>15 DEF SeesFlight
<1>16. ASSUME NEW s \in Slots, Takes(s) PROVE PurgeInv'
    BY <1>16 DEF Takes
<1>17. ASSUME NEW p \in Principals, Purges(p) PROVE PurgeInv'
    BY <1>17 DEF Purges, KeysOf
<1>18. CASE UNCHANGED vars
    BY <1>18 DEF vars, store, calls
<1> QED
    BY <1>1, <1>2, <1>3, <1>4, <1>5, <1>6, <1>7, <1>8, <1>9,
       <1>10, <1>11, <1>12, <1>13, <1>14, <1>15, <1>16, <1>17, <1>18
       DEF Next, Proceeds, Arrives, Settles, Revokes

\* complete_oauth_mint answers everyone who waits, and wakes whoever has armed.
LEMMA CompletionWait ==
    ASSUME CacheInv, NEW s \in Slots, NEW outcome \in Token,
           outcome = Failure \/ outcome.id > 0, flight[s] # NoFlight, Completes(s, outcome)
    PROVE  WaitInv'
<1> USE NoTokens DEF CacheInv, Types, WaitInv, Completes, Waits
<1>1. ASSUME NEW t \in Slots PROVE (cached[t] = NoToken \/ cached[t].id > 0)'
    BY DEF Token
<1>2. ASSUME NEW c \in Calls, Waiting(c, s)
      PROVE  /\ pc'[c] = pc[c] /\ pc[c] \in Waits /\ got'[c] = outcome /\ slot'[c] = slot[c]
             /\ told'[c] = (told[c] \/ Listens(c))
    BY <1>2 DEF Waiting
<1>3. ASSUME NEW c \in Calls, ~Waiting(c, s)
      PROVE  /\ pc'[c] = pc[c] /\ got'[c] = got[c] /\ slot'[c] = slot[c] /\ told'[c] = told[c]
             /\ pc[c] \in Waits /\ got[c] = NoToken => flight'[slot[c]] = flight[slot[c]]
    BY <1>3 DEF Waiting, MapInv
<1>4. outcome # NoToken
    BY DEF Token
<1>5. ASSUME NEW c \in Calls
      PROVE  /\ (pc[c] \in {"idle", "found"} => got[c] = NoToken)'
             /\ (pc[c] = "leased" => got[c].id > 0)'
             /\ (got[c] \in {NoToken, Failure} \/ got[c].id > 0)'
             /\ (pc[c] \in Waits /\ got[c] = NoToken => flight[slot[c]] # NoFlight)'
             /\ (pc[c] \in {"checked", "asleep"} /\ got[c] # NoToken => told[c])'
  <2> HIDE DEF Completes
  <2>1. CASE Waiting(c, s)
    BY <1>2, <1>4, <2>1 DEF Listens
  <2>2. CASE ~Waiting(c, s)
    BY <1>3, <2>2
  <2> QED BY <2>1, <2>2
<1> QED
    BY <1>1, <1>5
\* Who waits has a mint to wait for or the answer to it.
LEMMA WaitStep ==
    ASSUME CacheInv, [Next]_vars
    PROVE  WaitInv'
<1> USE CacheAssumption, NoTokens
       DEF CacheInv, Types, Token, MapInv, WaitInv, Held, PCs, Waits, NoFlight, store, calls
<1>1. ASSUME NEW c \in Calls, NEW k \in Keys, FindsSlot(c, k) PROVE WaitInv'
    BY <1>1 DEF FindsSlot
<1>2. ASSUME NEW c \in Calls, NEW k \in Keys, AddsSlot(c, k) PROVE WaitInv'
    BY <1>2 DEF AddsSlot, Unused
<1>3. ASSUME NEW c \in Calls, NEW k \in Keys, RefusesKey(c, k) PROVE WaitInv'
    BY <1>3 DEF RefusesKey
<1>4. ASSUME NEW c \in Calls, IsRefused(c) PROVE WaitInv'
    BY <1>4 DEF IsRefused, Leaves
<1>5. ASSUME NEW c \in Calls, IsServed(c) PROVE WaitInv'
    BY <1>5 DEF IsServed
<1>6. ASSUME NEW c \in Calls, Joins(c) PROVE WaitInv'
    BY <1>6 DEF Joins
<1>7. ASSUME NEW c \in Calls, Arms(c) PROVE WaitInv'
    BY <1>7 DEF Arms
<1>8. ASSUME NEW c \in Calls, ChecksOutcome(c) PROVE WaitInv'
    BY <1>8 DEF ChecksOutcome, Leaves
<1>9. ASSUME NEW c \in Calls, Awaits(c) PROVE WaitInv'
    BY <1>9 DEF Awaits
<1>10. ASSUME NEW c \in Calls, Wakes(c) PROVE WaitInv'
    BY <1>10 DEF Wakes
<1>11. ASSUME NEW c \in Calls, Unauthorized(c) PROVE WaitInv'
    BY <1>11 DEF Unauthorized
<1>12. ASSUME NEW c \in Calls, Ends(c) PROVE WaitInv'
    BY <1>12 DEF Ends, Leaves
<1>13. ASSUME NEW s \in Slots, Mints(s) PROVE WaitInv'
  <2> DEFINE outcome == [id |-> minted + 1, gen |-> NextGeneration(s), since |-> flight[s]]
  <2>1. flight[s] # NoFlight /\ Completes(s, outcome)
    BY <1>13 DEF Mints
  <2>2. outcome \in Token /\ outcome.id > 0
    BY <2>1 DEF NextGeneration
  <2> HIDE DEF outcome
  <2> QED BY <2>1, <2>2, CompletionWait
<1>14. ASSUME NEW s \in Slots, MintFails(s) PROVE WaitInv'
    BY <1>14, CompletionWait DEF MintFails
<1>15. ASSUME NEW s \in Slots, SeesFlight(s) PROVE WaitInv'
    BY <1>15 DEF SeesFlight
<1>16. ASSUME NEW s \in Slots, Takes(s) PROVE WaitInv'
    BY <1>16 DEF Takes
<1>17. ASSUME NEW p \in Principals, Purges(p) PROVE WaitInv'
    BY <1>17 DEF Purges
<1>18. CASE UNCHANGED vars
    BY <1>18 DEF vars, store, calls
<1> QED
    BY <1>1, <1>2, <1>3, <1>4, <1>5, <1>6, <1>7, <1>8, <1>9,
       <1>10, <1>11, <1>12, <1>13, <1>14, <1>15, <1>16, <1>17, <1>18
       DEF Next, Proceeds, Arrives, Settles, Revokes

\* A purge cuts the slots it retires off from the calls that come after it.
LEMMA FreshStep ==
    ASSUME CacheInv, [Next]_vars
    PROVE  FreshInv'
<1> USE CacheAssumption, NoTokens
       DEF CacheInv, Types, Token, MapInv, WaitInv, FreshInv, Held, Waits, NoFlight, Mapped, Retired, store, calls
<1>1. ASSUME NEW c \in Calls, NEW k \in Keys, FindsSlot(c, k) PROVE FreshInv'
    BY <1>1 DEF FindsSlot
<1>2. ASSUME NEW c \in Calls, NEW k \in Keys, AddsSlot(c, k) PROVE FreshInv'
    BY <1>2 DEF AddsSlot, Unused, Kept, Retained
<1>3. ASSUME NEW c \in Calls, NEW k \in Keys, RefusesKey(c, k) PROVE FreshInv'
    BY <1>3 DEF RefusesKey, Retained
<1>4. ASSUME NEW c \in Calls, IsRefused(c) PROVE FreshInv'
    BY <1>4 DEF IsRefused, Leaves
<1>5. ASSUME NEW c \in Calls, IsServed(c) PROVE FreshInv'
    BY <1>5 DEF IsServed
<1>6. ASSUME NEW c \in Calls, Joins(c) PROVE FreshInv'
    BY <1>6 DEF Joins
<1>7. ASSUME NEW c \in Calls, Arms(c) PROVE FreshInv'
    BY <1>7 DEF Arms
<1>8. ASSUME NEW c \in Calls, ChecksOutcome(c) PROVE FreshInv'
  <2>1. CASE got[c] = NoToken
    BY <1>8, <2>1 DEF ChecksOutcome
  <2>2. CASE got[c] \notin {NoToken, Failure}
    BY <1>8, <2>2 DEF ChecksOutcome
  <2>3. CASE got[c] = Failure
    <3>1. Leaves(c) /\ UNCHANGED <<slots, store, purge, minted, epoch>>
      BY <1>8, <2>3 DEF ChecksOutcome
    <3> QED BY <1>8, <3>1 DEF ChecksOutcome, Leaves
  <2> QED BY <2>1, <2>2, <2>3
<1>9. ASSUME NEW c \in Calls, Awaits(c) PROVE FreshInv'
    BY <1>9 DEF Awaits
<1>10. ASSUME NEW c \in Calls, Wakes(c) PROVE FreshInv'
    BY <1>10 DEF Wakes
<1>11. ASSUME NEW c \in Calls, Unauthorized(c) PROVE FreshInv'
    BY <1>11 DEF Unauthorized
<1>12. ASSUME NEW c \in Calls, Ends(c) PROVE FreshInv'
    BY <1>12 DEF Ends, Leaves
<1>13. ASSUME NEW s \in Slots, Mints(s) PROVE FreshInv'
    BY <1>13 DEF Mints, Completes, Waiting, NextGeneration, Listens
<1>14. ASSUME NEW s \in Slots, MintFails(s) PROVE FreshInv'
    BY <1>14 DEF MintFails, Completes, Waiting, NextGeneration, Listens
<1>15. ASSUME NEW s \in Slots, SeesFlight(s) PROVE FreshInv'
    BY <1>15 DEF SeesFlight
<1>16. ASSUME NEW s \in Slots, Takes(s) PROVE FreshInv'
    BY <1>16 DEF Takes
<1>17. ASSUME NEW p \in Principals, Purges(p) PROVE FreshInv'
    BY <1>17 DEF Purges, KeysOf
<1>18. CASE UNCHANGED vars
    BY <1>18 DEF vars, store, calls
<1> QED
    BY <1>1, <1>2, <1>3, <1>4, <1>5, <1>6, <1>7, <1>8, <1>9,
       <1>10, <1>11, <1>12, <1>13, <1>14, <1>15, <1>16, <1>17, <1>18
       DEF Next, Proceeds, Arrives, Settles, Revokes

\* Only complete_oauth_mint gives numbers, each once.
LEMMA NumberStep ==
    ASSUME CacheInv, [Next]_vars
    PROVE  NumberInv'
<1> USE CacheAssumption, NoTokens
       DEF CacheInv, Types, Token, MapInv, WaitInv, NumberInv, Held, Waits, NoFlight, store, calls
<1>1. ASSUME NEW c \in Calls, NEW k \in Keys, FindsSlot(c, k) PROVE NumberInv'
    BY <1>1 DEF FindsSlot
<1>2. ASSUME NEW c \in Calls, NEW k \in Keys, AddsSlot(c, k) PROVE NumberInv'
    BY <1>2 DEF AddsSlot, Unused
<1>3. ASSUME NEW c \in Calls, NEW k \in Keys, RefusesKey(c, k) PROVE NumberInv'
    BY <1>3 DEF RefusesKey
<1>4. ASSUME NEW c \in Calls, IsRefused(c) PROVE NumberInv'
    BY <1>4 DEF IsRefused, Leaves
<1>5. ASSUME NEW c \in Calls, IsServed(c) PROVE NumberInv'
    BY <1>5 DEF IsServed
<1>6. ASSUME NEW c \in Calls, Joins(c) PROVE NumberInv'
    BY <1>6 DEF Joins
<1>7. ASSUME NEW c \in Calls, Arms(c) PROVE NumberInv'
    BY <1>7 DEF Arms
<1>8. ASSUME NEW c \in Calls, ChecksOutcome(c) PROVE NumberInv'
    BY <1>8 DEF ChecksOutcome, Leaves
<1>9. ASSUME NEW c \in Calls, Awaits(c) PROVE NumberInv'
    BY <1>9 DEF Awaits
<1>10. ASSUME NEW c \in Calls, Wakes(c) PROVE NumberInv'
    BY <1>10 DEF Wakes
<1>11. ASSUME NEW c \in Calls, Unauthorized(c) PROVE NumberInv'
    BY <1>11 DEF Unauthorized
<1>12. ASSUME NEW c \in Calls, Ends(c) PROVE NumberInv'
    BY <1>12 DEF Ends, Leaves
<1>13. ASSUME NEW s \in Slots, Mints(s) PROVE NumberInv'
    BY <1>13 DEF Mints, Completes, Waiting, NextGeneration, Listens
<1>14. ASSUME NEW s \in Slots, MintFails(s) PROVE NumberInv'
    BY <1>14 DEF MintFails, Completes, Waiting, NextGeneration, Listens
<1>15. ASSUME NEW s \in Slots, SeesFlight(s) PROVE NumberInv'
    BY <1>15 DEF SeesFlight
<1>16. ASSUME NEW s \in Slots, Takes(s) PROVE NumberInv'
    BY <1>16 DEF Takes
<1>17. ASSUME NEW p \in Principals, Purges(p) PROVE NumberInv'
    BY <1>17 DEF Purges
<1>18. CASE UNCHANGED vars
    BY <1>18 DEF vars, store, calls
<1> QED
    BY <1>1, <1>2, <1>3, <1>4, <1>5, <1>6, <1>7, <1>8, <1>9,
       <1>10, <1>11, <1>12, <1>13, <1>14, <1>15, <1>16, <1>17, <1>18
       DEF Next, Proceeds, Arrives, Settles, Revokes

\* Sets of keys are finite.
LEMMA MappedFinite ==
    ASSUME NEW keys \in SUBSET Keys
    PROVE  IsFiniteSet(keys) /\ Cardinality(keys) \in Nat
BY CacheAssumption, FS_Subset, FS_CardinalityType

\* A call that adds a slot finds the cache with room for it, or makes it.
LEMMA RoomForOne ==
    ASSUME Bounded, NEW k \in Keys, NEW kept \in Kept(k)
    PROVE  kept \in SUBSET Keys /\ Cardinality(kept) < Capacity
<1> DEFINE retained == Retained(k)
<1>1. retained \in SUBSET Mapped /\ Mapped \in SUBSET Keys
    BY DEF Retained, Mapped
<1>2. /\ Cardinality(retained) <= Cardinality(Mapped)
      /\ IsFiniteSet(retained) /\ Cardinality(retained) \in Nat
    <2> HIDE DEF retained
    <2> QED BY <1>1, FS_Subset, MappedFinite
<1>3. Capacity \in Nat /\ Cardinality(Mapped) \in Nat
    BY <1>1, MappedFinite, CacheAssumption
<1>4. CASE Room(retained)
    BY <1>1, <1>4 DEF Kept, Room
<1>5. CASE ~Room(retained)
  <2>1. PICK m \in retained : kept = retained \ {m}
    BY <1>5 DEF Kept
  <2>2. Cardinality(kept) = Cardinality(retained) - 1
    <3> HIDE DEF retained
    <3> QED BY <2>1, <1>2, FS_RemoveElement
  <2> QED
    BY <1>1, <1>2, <1>3, <2>1, <2>2 DEF Bounded
<1> QED BY <1>4, <1>5

\* The map grows only by AddsSlot.
LEMMA BoundStep ==
    ASSUME CacheInv, [Next]_vars
    PROVE  Bounded'
<1>1. CASE \E c \in Calls, k \in Keys : AddsSlot(c, k)
  <2>1. PICK c \in Calls, k \in Keys : AddsSlot(c, k)
    BY <1>1
  <2>2. PICK kept \in Kept(k) : Mapped' \in SUBSET (kept \cup {k})
    BY <2>1 DEF AddsSlot, Mapped
  <2>3. kept \in SUBSET Keys /\ Cardinality(kept) < Capacity
    BY RoomForOne DEF CacheInv
  <2>4. IsFiniteSet(kept) /\ Cardinality(kept) \in Nat /\ Capacity \in Nat
    BY <2>3, MappedFinite, CacheAssumption
  <2>5. IsFiniteSet(kept \cup {k}) /\ Cardinality(kept \cup {k}) <= Capacity
    <3>1. /\ IsFiniteSet(kept \cup {k})
          /\ Cardinality(kept \cup {k}) \in {Cardinality(kept), Cardinality(kept) + 1}
      BY <2>4, FS_AddElement, Zenon
    <3> QED BY <2>3, <2>4, <3>1
  <2>6. Cardinality(Mapped') <= Cardinality(kept \cup {k})
    BY <2>2, <2>5, FS_Subset
  <2>7. kept \cup {k} \in SUBSET Keys /\ Mapped' \in SUBSET Keys
    BY <2>2, <2>3
  <2>8. Cardinality(Mapped') \in Nat /\ Cardinality(kept \cup {k}) \in Nat
    BY <2>7, MappedFinite
  <2> QED
    BY <2>4, <2>5, <2>6, <2>8 DEF Bounded
<1>2. CASE Mapped' \in SUBSET Mapped
  <2>1. Mapped \in SUBSET Keys /\ Mapped' \in SUBSET Keys
    BY <1>2 DEF Mapped
  <2>2. Cardinality(Mapped') <= Cardinality(Mapped)
    BY <1>2, <2>1, MappedFinite, FS_Subset
  <2>3. Cardinality(Mapped) \in Nat /\ Cardinality(Mapped') \in Nat /\ Capacity \in Nat
    BY <2>1, MappedFinite, CacheAssumption
  <2> QED
    BY <2>2, <2>3 DEF CacheInv, Bounded
<1>3. ASSUME ~ \E c \in Calls, k \in Keys : AddsSlot(c, k) PROVE Mapped' \in SUBSET Mapped
  <2>1. CASE UNCHANGED slots
    BY <2>1 DEF Mapped
  <2>2. ASSUME NEW c \in Calls, NEW k \in Keys, RefusesKey(c, k) PROVE Mapped' \in SUBSET Mapped
    BY <2>2 DEF RefusesKey, Retained, Mapped
  <2>3. ASSUME NEW p \in Principals, Purges(p) PROVE Mapped' \in SUBSET Mapped
    BY <2>3 DEF Purges, Mapped
  <2> QED
    BY <1>3, <2>1, <2>2, <2>3 DEF Next, Proceeds, Arrives, Settles, Revokes, FindsSlot, IsRefused,
       IsServed, Joins, Arms, ChecksOutcome, Awaits, Wakes, Unauthorized, Ends, Mints, MintFails,
       Completes, SeesFlight, Takes, vars
<1> QED BY <1>1, <1>2, <1>3

-----------------------------------------------------------------------------

\* The empty cache.
LEMMA InitInv == Init => CacheInv
<1> USE CacheAssumption, NoTokens
       DEF Init, Token, NoFlight, PCs, Waits
<1>1. ASSUME Init PROVE Types
    BY <1>1 DEF Types
<1>2. ASSUME Init PROVE Mapped = {} /\ Bounded
  <2>1. Mapped = {}
    BY <1>2 DEF Mapped
  <2> QED BY <2>1, FS_EmptySet DEF Bounded
<1>3. ASSUME Init PROVE MapInv /\ PurgeInv
    BY <1>3 DEF MapInv, PurgeInv, Held
<1>4. ASSUME Init PROVE WaitInv /\ FreshInv /\ NumberInv
    BY <1>4 DEF WaitInv, FreshInv, NumberInv
<1> QED BY <1>1, <1>2, <1>3, <1>4 DEF CacheInv

\* The cache as a whole: map, reference counts, mints, purges and waiters agree in
\* every reachable state.
THEOREM CacheInvariant == Spec => []CacheInv
<1>1. CacheInv /\ [Next]_vars => CacheInv'
    BY TypeStep, BoundStep, MapStep, PurgeStep, WaitStep, FreshStep, NumberStep DEF CacheInv
<1> QED
    BY InitInv, <1>1, PTL DEF Spec

\* The cache never holds more slots than its capacity (slot_for), and its state is
\* well formed.
THEOREM TypeTheorem == Spec => []TypeOK
<1>1. CacheInv => TypeOK
    BY DEF CacheInv, Types, Bounded, TypeOK, Token
<1> QED BY CacheInvariant, <1>1, PTL

\* No call is served, after a purge of its principal, from what was asked for before
\* the purge (retire_where, get_or_mint_with), however many calls and purges there are.
THEOREM FreshTheorem == Spec => []FreshAfterPurge
<1>1. CacheInv => FreshAfterPurge
    BY DEF CacheInv, Types, WaitInv, FreshInv, FreshAfterPurge
<1> QED BY CacheInvariant, <1>1, PTL

\* A slot whose token a purge has taken (take_token) is empty and stays so.
THEOREM PurgeTheorem == Spec => []PurgeComplete
<1>1. CacheInv => PurgeComplete
    BY DEF CacheInv, PurgeInv, PurgeComplete
<1> QED BY CacheInvariant, <1>1, PTL

\* Two exchanges for one key run side by side only when a purge came between
\* (slot_for keeps every slot with a mint in flight).
THEOREM OneMintTheorem == Spec => []OneMintPerKey
<1>1. CacheInv => OneMintPerKey
    BY DEF CacheInv, MapInv, Held, Retired, OneMintPerKey
<1> QED BY CacheInvariant, <1>1, PTL

\* A lease's generation names the token it was given
\* (invalidate_after_unauthorized), as long as the u64 does not saturate.
THEOREM GenerationTheorem == Spec => []GenerationNamesToken
<1>1. CacheInv => GenerationNamesToken
    BY DEF CacheInv, WaitInv, NumberInv, GenerationNamesToken
<1> QED BY CacheInvariant, <1>1, PTL

\* No call and no purge waits for a mint that is over without having been told
\* (OAuthMintFlight::wait).
THEOREM StrandedTheorem == Spec => []NobodyStranded
<1>1. CacheInv => NobodyStranded
    BY DEF CacheInv, WaitInv, PurgeInv, NobodyStranded
<1> QED BY CacheInvariant, <1>1, PTL

=============================================================================
