-------------------------- MODULE DirectoryCache --------------------------
(***************************************************************************)
(* The TTL cache in front of the directory backend                         *)
(* (crates/s32p-directory/src/cache.rs): one of its two maps, with the     *)
(* flight slots that let one lookup of a key at a time call the backend.   *)
(*                                                                         *)
(* users has a shorter time to live for negative results, buckets has one  *)
(* time to live (NegativeTtl = PositiveTtl); the code is otherwise the     *)
(* same.  A flight slot is an Arc to a mutex: its identity is the lookup   *)
(* that created it, its strong count follows from where the lookups are.   *)
(* A lookup runs to its end: neither Pingora's request_filter nor the      *)
(* reconciler, which call it, is cancelled.                                *)
(***************************************************************************)
EXTENDS Integers, FiniteSets

CONSTANTS
    Lookups,      \* calls of user_by_access_key or buckets_for_access_key
    Keys,         \* access keys
    MaxValue,     \* documents are 1..MaxValue; 0: the backend knows no such key
    PositiveTtl,  \* user_ttl, buckets_ttl
    NegativeTtl,  \* negative_ttl
    Cap,          \* max_entries
    ReplyTime,    \* how long an answer of the backend may travel (request timeout)
    MaxTime,      \* bound on the clock
    MaxChanges    \* bound on changes in the backend

NoFlight == "none"

ASSUME ConstantsAssumption ==
    /\ NoFlight \notin Lookups
    /\ IsFiniteSet(Lookups) /\ IsFiniteSet(Keys) /\ Keys # {}
    /\ MaxValue \in Nat
    /\ PositiveTtl \in Nat /\ NegativeTtl \in Nat
    /\ Cap \in Nat /\ ReplyTime \in Nat
    /\ MaxTime \in Nat /\ MaxChanges \in Nat

VARIABLES
    store,    \* key -> cached value and expiry
    slots,    \* key -> its flight slot, NoFlight when the key is absent
    pc,       \* lookup -> where it is
    key,      \* lookup -> the key it looks up
    flight,   \* lookup -> the flight slot it holds an Arc to
    result,   \* lookup -> what it has found
    since,    \* lookup -> when the backend read what it waits to cache
    backend,  \* key -> the document the backend holds
    left,     \* key, document -> when the backend last ceased to hold it
    now, changes

lookupVars == <<pc, key, flight, result, since>>
envVars == <<backend, left, now, changes>>
vars == <<store, slots, lookupVars, envVars>>

Absent == 0
Values == 0..MaxValue
Failed == -1
Unknown == -2
NoEntry == [val |-> Absent, exp |-> -1]
NoKey == CHOOSE k \in Keys : TRUE

\* Where a lookup owns its flight lock, and where it holds an Arc to the slot.
LockPCs == {"recheck", "fetch", "insert"}
RefPCs == LockPCs \cup {"flight"}
PCs == RefPCs \cup {"unsent", "slot", "release", "done"}

Goto(r, label) == pc' = [pc EXCEPT ![r] = label]

-----------------------------------------------------------------------------
\* The map.

Fresh(k) == store[k].exp > now

Cached(s) == {k \in Keys : s[k] # NoEntry}

\* Negative results live as long as positive ones.
TtlOf_Positive(v) == PositiveTtl

TtlOf(v) == IF v = Absent THEN NegativeTtl ELSE PositiveTtl

Full(s) == Cardinality(Cached(s)) >= Cap

Pruned(s) == [k \in Keys |-> IF s[k].exp > now THEN s[k] ELSE NoEntry]

SoonestExpiring(s) ==
    {k \in Cached(s) : \A k2 \in Cached(s) : s[k].exp <= s[k2].exp}

\* What insert_with_cap leaves of the map before it inserts: at the cap expired
\* entries go and, if that is not enough, one of those that expire soonest.
MadeRoom(s) ==
    IF ~Full(s) THEN {s}
    ELSE LET p == Pruned(s)
         IN  IF ~Full(p) \/ Cached(p) = {} THEN {p}
             ELSE {[p EXCEPT ![k] = NoEntry] : k \in SoonestExpiring(p)}

-----------------------------------------------------------------------------
\* A lookup.

\* The first read_fresh: a hit is the answer.
Arrive(r, k) ==
    /\ pc[r] = "unsent"
    /\ key' = [key EXCEPT ![r] = k]
    /\ \/ /\ Fresh(k)
          /\ result' = [result EXCEPT ![r] = store[k].val]
          /\ Goto(r, "done")
       \/ /\ ~Fresh(k)
          /\ Goto(r, "slot")
          /\ UNCHANGED result
    /\ UNCHANGED <<store, slots, flight, since, envVars>>

\* The slot that acquire_flight_slot returns.
FlightFor(r) == IF slots[key[r]] = NoFlight THEN r ELSE slots[key[r]]

\* acquire_flight_slot, under the lock of the map of slots.
AcquireSlot(r) ==
    /\ pc[r] = "slot"
    /\ slots' = [slots EXCEPT ![key[r]] = FlightFor(r)]
    /\ flight' = [flight EXCEPT ![r] = FlightFor(r)]
    /\ Goto(r, "flight")
    /\ UNCHANGED <<store, key, result, since, envVars>>

FlightFree(r) == \A q \in Lookups \ {r} : ~(pc[q] \in LockPCs /\ flight[q] = flight[r])

LockFlight(r) ==
    /\ pc[r] = "flight"
    /\ FlightFree(r)
    /\ Goto(r, "recheck")
    /\ UNCHANGED <<store, slots, key, flight, result, since, envVars>>

\* The guard and the Arc are dropped; the slot has still to be released.
DropFlight(r) == Goto(r, "release") /\ flight' = [flight EXCEPT ![r] = NoFlight]

\* The second read_fresh is left out.
HitAfterWait_Never(r) == FALSE

HitAfterWait(r) == Fresh(key[r])

\* A follower finds what the leader has cached meanwhile.
Recheck(r) ==
    /\ pc[r] = "recheck"
    /\ \/ /\ HitAfterWait(r)
          /\ result' = [result EXCEPT ![r] = store[key[r]].val]
          /\ DropFlight(r)
       \/ /\ ~HitAfterWait(r)
          /\ Goto(r, "fetch")
          /\ UNCHANGED <<flight, result>>
    /\ UNCHANGED <<store, slots, key, since, envVars>>

\* The backend reads the document.
Fetch(r) ==
    /\ pc[r] = "fetch"
    /\ result' = [result EXCEPT ![r] = backend[key[r]]]
    /\ since' = [since EXCEPT ![r] = now]
    /\ Goto(r, "insert")
    /\ UNCHANGED <<store, slots, key, flight, envVars>>

\* A backend error is passed on and not cached.
FetchError(r) ==
    /\ pc[r] = "fetch"
    /\ result' = [result EXCEPT ![r] = Failed]
    /\ DropFlight(r)
    /\ UNCHANGED <<store, slots, key, since, envVars>>

\* insert_with_cap, under the map's write lock.
Insert(r) ==
    /\ pc[r] = "insert"
    /\ \E s \in MadeRoom(store) :
         store' = [s EXCEPT ![key[r]] = [val |-> result[r], exp |-> now + TtlOf(result[r])]]
    /\ since' = [since EXCEPT ![r] = 0]
    /\ DropFlight(r)
    /\ UNCHANGED <<slots, key, result, envVars>>

\* The slot is removed whoever still holds it.
Unreferenced_Always(k) == slots[k] # NoFlight

\* The slot's Arc in the map is the only one (strong_count == 1).
Unreferenced(k) ==
    /\ slots[k] # NoFlight
    /\ \A q \in Lookups : ~(pc[q] \in RefPCs /\ flight[q] = slots[k])

\* release_flight_slot, under the lock of the map of slots.
ReleaseSlot(r) ==
    /\ pc[r] = "release"
    /\ slots' = [slots EXCEPT ![key[r]] = IF Unreferenced(key[r]) THEN NoFlight ELSE @]
    /\ Goto(r, "done")
    /\ UNCHANGED <<store, key, flight, result, since, envVars>>

-----------------------------------------------------------------------------
\* The environment.

\* An administrator changes, creates or deletes the document.
BackendChange(k, v) ==
    /\ changes < MaxChanges /\ v # backend[k]
    /\ changes' = changes + 1
    /\ backend' = [backend EXCEPT ![k] = v]
    /\ left' = [left EXCEPT ![k][backend[k]] = now]
    /\ UNCHANGED <<store, slots, lookupVars, now>>

\* Time passes; an answer of the backend arrives within the client's timeout.
Tick ==
    /\ now < MaxTime
    /\ \A r \in Lookups : pc[r] = "insert" => now - since[r] < ReplyTime
    /\ now' = now + 1
    /\ UNCHANGED <<store, slots, lookupVars, backend, left, changes>>

Init ==
    /\ store = [k \in Keys |-> NoEntry]
    /\ slots = [k \in Keys |-> NoFlight]
    /\ pc = [r \in Lookups |-> "unsent"]
    /\ key = [r \in Lookups |-> NoKey]
    /\ flight = [r \in Lookups |-> NoFlight]
    /\ result = [r \in Lookups |-> Unknown]
    /\ since = [r \in Lookups |-> 0]
    /\ backend \in [Keys -> Values]
    /\ left = [k \in Keys |-> [v \in Values |-> 0]]
    /\ now = 0 /\ changes = 0

LookupStep(r) ==
    \/ AcquireSlot(r) \/ LockFlight(r) \/ Recheck(r) \/ Fetch(r) \/ FetchError(r)
    \/ Insert(r) \/ ReleaseSlot(r)

Next ==
    \/ \E r \in Lookups : (\E k \in Keys : Arrive(r, k)) \/ LookupStep(r)
    \/ \E k \in Keys, v \in Values : BackendChange(k, v)
    \/ Tick

Spec == Init /\ [][Next]_vars

-----------------------------------------------------------------------------
\* Properties.

Entry == [val : Values, exp : Nat \cup {-1}]

\* Every variable keeps its type; a lookup between acquire_flight_slot and the
\* drop of key_lock holds a slot, and caches only what the backend answered.
TypeOK ==
    /\ store \in [Keys -> Entry]
    /\ slots \in [Keys -> Lookups \cup {NoFlight}]
    /\ pc \in [Lookups -> PCs]
    /\ key \in [Lookups -> Keys]
    /\ flight \in [Lookups -> Lookups \cup {NoFlight}]
    /\ result \in [Lookups -> Values \cup {Failed, Unknown}]
    /\ since \in [Lookups -> Nat]
    /\ backend \in [Keys -> Values]
    /\ left \in [Keys -> [Values -> Nat]]
    /\ now \in Nat /\ changes \in 0..MaxChanges
    /\ \A r \in Lookups : pc[r] \in RefPCs => flight[r] \in Lookups
    /\ \A r \in Lookups : pc[r] = "insert" => result[r] \in Values

\* At most one lookup of a key calls the backend or stores its answer, although
\* slots come and go with the lookups that hold them (acquire_flight_slot,
\* release_flight_slot).
SingleFlight ==
    \A r1, r2 \in Lookups :
        pc[r1] \in LockPCs /\ pc[r2] \in LockPCs /\ key[r1] = key[r2] => r1 = r2

\* No call to the backend is under way for a key whose entry is fresh: callers
\* that waited for the leader use its answer.
NoRedundantFetch ==
    \A r \in Lookups : pc[r] \in {"fetch", "insert"} => ~Fresh(key[r])

\* A cached answer is one the backend gave up less than its time to live ago,
\* plus the time its answer took: a deleted user is served for less than
\* user_ttl and a new one refused for less than negative_ttl beyond that.
AnswersFresh ==
    [][\A r \in Lookups :
         LET v == result'[r] IN
         result[r] = Unknown /\ v \in Values /\ v # backend[key'[r]]
         => now - left[key'[r]][v]
              < ReplyTime + (IF v = Absent THEN NegativeTtl ELSE PositiveTtl)]_vars

=============================================================================
