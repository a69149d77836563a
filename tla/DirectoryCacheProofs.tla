----------------------- MODULE DirectoryCacheProofs -----------------------
(***************************************************************************)
(* The flight slots of the directory cache let at most one lookup of a key *)
(* at a time past their lock, for any number of lookups and keys.          *)
(*                                                                         *)
(* SingleFlight alone is not inductive: two lookups of a key exclude each  *)
(* other only if they hold the same slot.  SlotsShared says so: a slot     *)
(* stays in the map as long as some lookup holds it.                       *)
(*                                                                         *)
(* AnswersFresh is about single steps, so it rests on what the map and the *)
(* lookups hold at any time: how old an entry or an answer under way may   *)
(* be once the backend has given its document up (AgeInv).                 *)
(***************************************************************************)
EXTENDS DirectoryCache, TLAPS

\* The slot that a lookup holds is the one the map has for its key.
SlotsShared == \A r \in Lookups : pc[r] \in RefPCs => flight[r] = slots[key[r]]

\* The inductive invariant.
IInv == TypeOK /\ SlotsShared /\ SingleFlight /\ NoRedundantFetch

\* The empty entry has its type, and no document is Failed or Unknown.
LEMMA Disjoint == NoEntry \in Entry /\ Absent \in Values /\ Failed \notin Values /\ Unknown \notin Values
BY ConstantsAssumption DEF NoEntry, Entry, Absent, Values, Failed, Unknown

\* The expiry of a new entry is a time.
LEMMA NewEntryType ==
    ASSUME NEW v \in Values, now \in Nat
    PROVE  [val |-> v, exp |-> now + TtlOf(v)] \in Entry
<1>1. TtlOf(v) \in Nat BY ConstantsAssumption DEF TtlOf
<1> QED BY <1>1 DEF Entry

\* Making room removes entries and changes none.
LEMMA MadeRoomType ==
    ASSUME store \in [Keys -> Entry], NEW s \in MadeRoom(store)
    PROVE  s \in [Keys -> Entry] /\ \A k \in Keys : s[k] = store[k] \/ s[k] = NoEntry
<1> DEFINE p == Pruned(store)
<1>1. p \in [Keys -> Entry] /\ \A k \in Keys : p[k] = store[k] \/ p[k] = NoEntry
  BY Disjoint DEF Pruned
<1> HIDE DEF p
<1>2. s = store \/ s = p \/ \E k \in SoonestExpiring(p) : s = [p EXCEPT ![k] = NoEntry]
  BY DEF MadeRoom, p
<1>3. CASE s = store BY <1>3
<1>4. CASE s = p BY <1>1, <1>4
<1>5. ASSUME NEW k \in SoonestExpiring(p), s = [p EXCEPT ![k] = NoEntry]
      PROVE  s \in [Keys -> Entry] /\ \A j \in Keys : s[j] = store[j] \/ s[j] = NoEntry
  BY <1>1, <1>5, Disjoint
<1> QED BY <1>2, <1>3, <1>4, <1>5

\* The invariant holds of an empty cache.
LEMMA InitInv == Init => IInv
<1> SUFFICES ASSUME Init PROVE IInv OBVIOUS
<1>1. TypeOK
  BY Disjoint, ConstantsAssumption
     DEF Init, TypeOK, Entry, PCs, RefPCs, LockPCs, NoKey
<1>2. SlotsShared /\ SingleFlight /\ NoRedundantFetch
  BY DEF Init, SlotsShared, SingleFlight, NoRedundantFetch, RefPCs, LockPCs
<1> QED BY <1>1, <1>2 DEF IInv

\* The invariant survives the first look into the cache.
LEMMA ArriveStep ==
    ASSUME IInv, NEW r \in Lookups, NEW k \in Keys, Arrive(r, k) PROVE IInv'
<1>1. TypeOK'
  <2>1. store[k].val \in Values BY DEF IInv, TypeOK, Entry
  <2>2. /\ key' = [key EXCEPT ![r] = k]
        /\ (result' = [result EXCEPT ![r] = store[k].val] \/ result' = result)
        /\ (pc' = [pc EXCEPT ![r] = "done"] \/ pc' = [pc EXCEPT ![r] = "slot"])
        /\ UNCHANGED <<store, slots, flight, since, backend, left, now, changes>>
    BY DEF Arrive, Goto, envVars
  <2> QED BY <2>1, <2>2 DEF IInv, TypeOK, PCs, RefPCs, LockPCs
<1>2. SlotsShared' /\ SingleFlight' /\ NoRedundantFetch'
  BY DEF IInv, TypeOK, Arrive, Goto, RefPCs, LockPCs, SlotsShared, SingleFlight,
         NoRedundantFetch, Fresh, envVars
<1> QED BY <1>1, <1>2 DEF IInv

\* The invariant survives acquire_flight_slot: whoever holds the key's slot
\* already holds the same one.
LEMMA AcquireSlotStep ==
    ASSUME IInv, NEW r \in Lookups, AcquireSlot(r) PROVE IInv'
<1>1. FlightFor(r) \in Lookups
  BY DEF FlightFor, IInv, TypeOK
<1>2. \A q \in Lookups : pc[q] \in RefPCs /\ key[q] = key[r] => flight[q] = FlightFor(r)
  <2> SUFFICES ASSUME NEW q \in Lookups, pc[q] \in RefPCs, key[q] = key[r]
               PROVE  flight[q] = FlightFor(r)
    OBVIOUS
  <2>1. flight[q] \in Lookups /\ flight[q] = slots[key[r]]
    BY DEF IInv, TypeOK, SlotsShared
  <2> QED BY <2>1, ConstantsAssumption DEF FlightFor
<1>3. TypeOK'
  BY <1>1 DEF IInv, TypeOK, AcquireSlot, Goto, PCs, RefPCs, LockPCs, envVars
<1>4. SlotsShared'
  BY <1>2 DEF IInv, TypeOK, AcquireSlot, Goto, RefPCs, LockPCs, SlotsShared
<1>5. SingleFlight' /\ NoRedundantFetch'
  BY DEF IInv, TypeOK, AcquireSlot, Goto, LockPCs, SingleFlight, NoRedundantFetch, Fresh, envVars
<1> QED BY <1>3, <1>4, <1>5 DEF IInv

\* The invariant survives taking the flight lock: a lookup of the same key that
\* owns a lock owns this one.
LEMMA LockFlightStep ==
    ASSUME IInv, NEW r \in Lookups, LockFlight(r) PROVE IInv'
<1>1. TypeOK' /\ SlotsShared' /\ NoRedundantFetch'
  BY DEF IInv, TypeOK, LockFlight, Goto, PCs, RefPCs, LockPCs, SlotsShared, NoRedundantFetch,
         Fresh, envVars
<1>2. \A q \in Lookups \ {r} : pc[q] \in LockPCs => key[q] # key[r]
  BY DEF IInv, LockFlight, FlightFree, SlotsShared, RefPCs, LockPCs
<1>3. SingleFlight'
  BY <1>2 DEF IInv, TypeOK, LockFlight, Goto, SingleFlight
<1> QED BY <1>1, <1>3 DEF IInv

\* The invariant survives the second look into the cache.
LEMMA RecheckStep ==
    ASSUME IInv, NEW r \in Lookups, Recheck(r) PROVE IInv'
<1> USE DEF IInv, TypeOK, PCs, RefPCs, LockPCs, envVars
<1>1. key[r] \in Keys /\ store[key[r]].val \in Values
  BY DEF Entry
<1>2. CASE HitAfterWait(r)
  <2>1. /\ result' = [result EXCEPT ![r] = store[key[r]].val]
        /\ pc' = [pc EXCEPT ![r] = "release"]
        /\ flight' = [flight EXCEPT ![r] = NoFlight]
        /\ UNCHANGED <<since, store, slots, key, backend, left, now, changes>>
    BY <1>2 DEF Recheck, DropFlight, Goto
  <2>2. TypeOK' BY <1>1, <2>1
  <2>3. SlotsShared' BY <2>1 DEF SlotsShared
  <2>4. SingleFlight' BY <2>1 DEF SingleFlight
  <2>5. NoRedundantFetch' BY <2>1 DEF NoRedundantFetch, Fresh
  <2> QED BY <2>2, <2>3, <2>4, <2>5
<1>3. CASE ~HitAfterWait(r)
  <2>1. /\ pc[r] = "recheck" /\ pc' = [pc EXCEPT ![r] = "fetch"]
        /\ UNCHANGED <<result, flight, since, store, slots, key, backend, left, now, changes>>
    BY <1>3 DEF Recheck, Goto
  <2>2. TypeOK' BY <2>1
  <2>3. SlotsShared' BY <2>1 DEF SlotsShared
  <2>4. SingleFlight' BY <2>1 DEF SingleFlight
  <2>5. NoRedundantFetch' BY <1>3, <2>1 DEF NoRedundantFetch, Fresh, HitAfterWait
  <2> QED BY <2>2, <2>3, <2>4, <2>5
<1> QED BY <1>2, <1>3

\* The invariant survives the backend's answer.
LEMMA FetchStep ==
    ASSUME IInv, NEW r \in Lookups, Fetch(r) PROVE IInv'
<1> USE DEF IInv, TypeOK, PCs, RefPCs, LockPCs, envVars
<1>1. key[r] \in Keys /\ backend[key[r]] \in Values
  OBVIOUS
<1>2. /\ pc[r] = "fetch" /\ pc' = [pc EXCEPT ![r] = "insert"]
      /\ result' = [result EXCEPT ![r] = backend[key[r]]]
      /\ since' = [since EXCEPT ![r] = now]
      /\ UNCHANGED <<flight, store, slots, key, backend, left, now, changes>>
  BY DEF Fetch, Goto
<1>3. TypeOK' BY <1>1, <1>2
<1>4. SlotsShared' BY <1>2 DEF SlotsShared
<1>5. SingleFlight' BY <1>2 DEF SingleFlight
<1>6. NoRedundantFetch' BY <1>2 DEF NoRedundantFetch, Fresh
<1> QED BY <1>3, <1>4, <1>5, <1>6

\* The invariant survives a backend error.
LEMMA FetchErrorStep ==
    ASSUME IInv, NEW r \in Lookups, FetchError(r) PROVE IInv'
<1> USE DEF IInv, TypeOK, PCs, RefPCs, LockPCs, envVars
<1>1. /\ pc[r] = "fetch" /\ pc' = [pc EXCEPT ![r] = "release"]
      /\ result' = [result EXCEPT ![r] = Failed]
      /\ flight' = [flight EXCEPT ![r] = NoFlight]
      /\ UNCHANGED <<since, store, slots, key, backend, left, now, changes>>
  BY DEF FetchError, DropFlight, Goto
<1>2. TypeOK' BY <1>1
<1>3. SlotsShared' BY <1>1 DEF SlotsShared
<1>4. SingleFlight' BY <1>1 DEF SingleFlight
<1>5. NoRedundantFetch' BY <1>1 DEF NoRedundantFetch, Fresh
<1> QED BY <1>2, <1>3, <1>4, <1>5

\* The invariant survives insert_with_cap: the only lookup of this key that is
\* past the lock leaves it, and entries of other keys do not become fresh.
LEMMA InsertStep ==
    ASSUME IInv, NEW r \in Lookups, Insert(r) PROVE IInv'
<1> DEFINE new == [val |-> result[r], exp |-> now + TtlOf(result[r])]
<1>1. key[r] \in Keys /\ store \in [Keys -> Entry] /\ result[r] \in Values /\ now \in Nat
  BY DEF IInv, TypeOK, Insert
<1>2. PICK s \in MadeRoom(store) : store' = [s EXCEPT ![key[r]] = new]
  BY DEF Insert
<1>3. s \in [Keys -> Entry] /\ \A k \in Keys : s[k] = store[k] \/ s[k] = NoEntry
  BY <1>1, MadeRoomType
<1>4. new \in Entry BY <1>1, NewEntryType
<1> HIDE DEF new
<1>5. store' \in [Keys -> Entry] /\ \A k \in Keys \ {key[r]} : store'[k] = store[k] \/ store'[k] = NoEntry
  BY <1>1, <1>2, <1>3, <1>4
<1>6. TypeOK'
  BY <1>5 DEF IInv, TypeOK, Insert, DropFlight, Goto, PCs, RefPCs, LockPCs, envVars
<1>7. SlotsShared' /\ SingleFlight'
  BY DEF IInv, TypeOK, Insert, DropFlight, Goto, RefPCs, LockPCs, SlotsShared, SingleFlight
<1>8. ASSUME NEW q \in Lookups, pc'[q] \in {"fetch", "insert"} PROVE ~Fresh(key[q])'
  <2>1. q # r /\ pc[q] = pc'[q] /\ key' = key /\ now' = now
    BY <1>8 DEF Insert, DropFlight, Goto, IInv, TypeOK, envVars
  <2>2. key[q] # key[r]
    BY <1>8, <2>1 DEF IInv, SingleFlight, LockPCs, Insert
  <2>3. ~Fresh(key[q]) BY <1>8, <2>1 DEF IInv, NoRedundantFetch
  <2>4. ~(NoEntry.exp > now) BY <1>1 DEF NoEntry
  <2>5. key[q] \in Keys BY DEF IInv, TypeOK
  <2> QED BY <1>5, <2>1, <2>2, <2>3, <2>4, <2>5 DEF Fresh
<1>9. NoRedundantFetch' BY <1>8 DEF NoRedundantFetch, Insert
<1> QED BY <1>6, <1>7, <1>9 DEF IInv

\* The invariant survives release_flight_slot: a slot that a lookup holds is
\* not removed.
LEMMA ReleaseSlotStep ==
    ASSUME IInv, NEW r \in Lookups, ReleaseSlot(r) PROVE IInv'
<1>1. TypeOK'
  BY DEF IInv, TypeOK, ReleaseSlot, Goto, PCs, RefPCs, LockPCs, envVars
<1>2. SlotsShared'
  <2> SUFFICES ASSUME NEW q \in Lookups, pc'[q] \in RefPCs
               PROVE  flight'[q] = slots'[key'[q]]
    BY DEF SlotsShared
  <2>1. pc[q] \in RefPCs /\ flight[q] = slots[key[q]] /\ flight[q] \in Lookups
    BY DEF ReleaseSlot, Goto, RefPCs, LockPCs, IInv, TypeOK, SlotsShared
  <2>2. Unreferenced(key[r]) => key[q] # key[r]
    BY <2>1 DEF Unreferenced
  <2> QED BY <2>1, <2>2 DEF ReleaseSlot, IInv, TypeOK
<1>3. SingleFlight' /\ NoRedundantFetch'
  BY DEF IInv, TypeOK, ReleaseSlot, Goto, LockPCs, SingleFlight, NoRedundantFetch, Fresh, envVars
<1> QED BY <1>1, <1>2, <1>3 DEF IInv

\* The invariant survives changes in the backend and the passing of time.
LEMMA EnvironmentStep ==
    ASSUME IInv, Tick \/ \E k \in Keys, v \in Values : BackendChange(k, v) PROVE IInv'
<1>1. CASE Tick
  <2>1. TypeOK' /\ SlotsShared' /\ SingleFlight'
    BY <1>1 DEF IInv, TypeOK, Tick, SlotsShared, SingleFlight, lookupVars
  <2>2. \A k \in Keys : ~Fresh(k) => ~Fresh(k)'
    <3> SUFFICES ASSUME NEW k \in Keys, ~Fresh(k) PROVE ~Fresh(k)'
      OBVIOUS
    <3>1. store[k].exp \in Int /\ now \in Nat BY DEF IInv, TypeOK, Entry
    <3> QED BY <1>1, <3>1 DEF Fresh, Tick
  <2>3. NoRedundantFetch'
    BY <1>1, <2>2 DEF IInv, TypeOK, NoRedundantFetch, Tick, lookupVars
  <2> QED BY <2>1, <2>3 DEF IInv
<1>2. ASSUME NEW k \in Keys, NEW v \in Values, BackendChange(k, v) PROVE IInv'
  <2>1. left' \in [Keys -> [Values -> Nat]]
    BY <1>2 DEF IInv, TypeOK, BackendChange
  <2>2. TypeOK'
    BY <1>2, <2>1, ConstantsAssumption DEF IInv, TypeOK, BackendChange, lookupVars
  <2>3. SlotsShared' /\ SingleFlight' /\ NoRedundantFetch'
    BY <1>2 DEF IInv, BackendChange, SlotsShared, SingleFlight, NoRedundantFetch, Fresh, lookupVars
  <2> QED BY <2>2, <2>3 DEF IInv
<1> QED BY <1>1, <1>2

\* Every step preserves the invariant.
LEMMA NextInv == IInv /\ [Next]_vars => IInv'
<1> SUFFICES ASSUME IInv, [Next]_vars PROVE IInv' OBVIOUS
<1>1. CASE UNCHANGED vars
  BY <1>1 DEF vars, lookupVars, envVars, IInv, TypeOK, SlotsShared, SingleFlight,
              NoRedundantFetch, Fresh
<1>2. ASSUME NEW r \in Lookups, LookupStep(r) PROVE IInv'
  BY <1>2, AcquireSlotStep, LockFlightStep, RecheckStep, FetchStep, FetchErrorStep, InsertStep, ReleaseSlotStep
     DEF LookupStep
<1> QED BY <1>1, <1>2, ArriveStep, EnvironmentStep DEF Next

\* The invariant holds in every reachable state.
THEOREM InductiveInvariant == Spec => []IInv
BY InitInv, NextInv, PTL DEF Spec

\* Every variable of the directory cache keeps its type (cache.rs).
THEOREM TypeInvariant == Spec => []TypeOK
<1>1. IInv => TypeOK BY DEF IInv
<1> QED BY InductiveInvariant, <1>1, PTL

\* At most one lookup of a key at a time is past the flight lock of
\* user_by_access_key or buckets_for_access_key, for any number of lookups.
THEOREM SingleFlightInvariant == Spec => []SingleFlight
<1>1. IInv => SingleFlight BY DEF IInv
<1> QED BY InductiveInvariant, <1>1, PTL

\* No lookup calls the backend for a key whose cached entry is fresh.
THEOREM NoRedundantFetchInvariant == Spec => []NoRedundantFetch
<1>1. IInv => NoRedundantFetch BY DEF IInv
<1> QED BY InductiveInvariant, <1>1, PTL

-----------------------------------------------------------------------------
\* How old an answer may be.

\* An entry expires at most its time to live from now and, once the backend has
\* given its document up, at most ReplyTime and the time to live after that.
EntryAge ==
    \A k \in Keys :
        LET v == store[k].val IN
        /\ store[k].exp <= now + TtlOf(v)
        /\ v # backend[k] => store[k].exp <= left[k][v] + ReplyTime + TtlOf(v)

\* An answer on its way was read at most ReplyTime ago, and the backend held the
\* document then.
AnswerAge ==
    \A r \in Lookups : pc[r] = "insert" =>
        /\ now <= since[r] + ReplyTime /\ since[r] <= now
        /\ result[r] # backend[key[r]] => since[r] <= left[key[r]][result[r]]

AgeInv == EntryAge /\ AnswerAge

\* A time to live is a duration.
LEMMA TtlType == \A v : TtlOf(v) \in Nat
BY ConstantsAssumption DEF TtlOf

\* An empty entry has expired long ago.
LEMMA EmptyEntryAge ==
    ASSUME TypeOK, NEW k \in Keys
    PROVE  /\ NoEntry.exp <= now + TtlOf(NoEntry.val)
           /\ NoEntry.exp <= left[k][NoEntry.val] + ReplyTime + TtlOf(NoEntry.val)
<1>1. NoEntry.exp = -1 /\ NoEntry.val \in Values BY Disjoint DEF NoEntry, Entry
<1>2. left[k][NoEntry.val] \in Nat /\ now \in Nat BY <1>1 DEF TypeOK
<1> QED BY <1>1, <1>2, TtlType, ConstantsAssumption

\* It holds of an empty cache.
LEMMA AgeInit == Init => AgeInv
<1> SUFFICES ASSUME Init PROVE AgeInv OBVIOUS
<1>1. TypeOK BY InitInv DEF IInv
<1>2. EntryAge BY <1>1, EmptyEntryAge DEF Init, EntryAge
<1>3. AnswerAge BY DEF Init, AnswerAge
<1> QED BY <1>2, <1>3 DEF AgeInv

\* A step of a lookup that neither fetches nor inserts changes no age.
LEMMA AgeOther ==
    ASSUME TypeOK, AgeInv, UNCHANGED <<store, backend, left, now>>,
           \A r \in Lookups : pc'[r] = "insert" =>
              pc[r] = "insert" /\ UNCHANGED <<since[r], result[r], key[r]>>
    PROVE  AgeInv'
<1>1. EntryAge' BY DEF AgeInv, EntryAge
<1>2. AnswerAge' BY DEF AgeInv, AnswerAge
<1> QED BY <1>1, <1>2 DEF AgeInv

\* The backend's answer is of this moment.
LEMMA AgeFetch ==
    ASSUME TypeOK, AgeInv, NEW r \in Lookups, Fetch(r) PROVE AgeInv'
<1>1. /\ pc[r] = "fetch" /\ pc' = [pc EXCEPT ![r] = "insert"]
      /\ result' = [result EXCEPT ![r] = backend[key[r]]]
      /\ since' = [since EXCEPT ![r] = now]
      /\ UNCHANGED <<store, key, backend, left, now>>
  BY DEF Fetch, Goto, envVars
<1>2. EntryAge' BY <1>1 DEF AgeInv, EntryAge
<1>3. ASSUME NEW q \in Lookups, pc'[q] = "insert"
      PROVE  /\ now <= since'[q] + ReplyTime /\ since'[q] <= now
             /\ result'[q] # backend[key[q]] => since'[q] <= left[key[q]][result'[q]]
  <2>1. CASE q = r
    <3>1. since'[r] = now /\ result'[r] = backend[key[r]] /\ now \in Nat BY <1>1 DEF TypeOK
    <3> QED BY <2>1, <3>1, ConstantsAssumption
  <2>2. CASE q # r
    <3>1. pc[q] = "insert" /\ since'[q] = since[q] /\ result'[q] = result[q]
      BY <1>1, <1>3, <2>2 DEF TypeOK
    <3> QED BY <3>1 DEF AgeInv, AnswerAge
  <2> QED BY <2>1, <2>2
<1>4. AnswerAge' BY <1>1, <1>3 DEF AnswerAge
<1> QED BY <1>2, <1>4 DEF AgeInv

\* A new entry is as old as the answer it was made from.
LEMMA AgeInsert ==
    ASSUME TypeOK, AgeInv, NEW r \in Lookups, Insert(r) PROVE AgeInv'
<1> DEFINE new == [val |-> result[r], exp |-> now + TtlOf(result[r])]
<1>1. /\ pc[r] = "insert" /\ pc' = [pc EXCEPT ![r] = "release"]
      /\ since' = [since EXCEPT ![r] = 0]
      /\ UNCHANGED <<key, result, backend, left, now>>
  BY DEF Insert, DropFlight, Goto, envVars
<1>2. PICK s \in MadeRoom(store) : store' = [s EXCEPT ![key[r]] = new] BY DEF Insert
<1>3. s \in [Keys -> Entry] /\ \A k \in Keys : s[k] = store[k] \/ s[k] = NoEntry
  BY MadeRoomType DEF TypeOK
<1>4. key[r] \in Keys /\ result[r] \in Values /\ now \in Nat /\ since[r] \in Nat
  BY <1>1 DEF TypeOK
<1>5. left[key[r]][result[r]] \in Nat BY <1>4 DEF TypeOK
<1>6. /\ new.exp <= now + TtlOf(new.val)
      /\ new.val # backend[key[r]] => new.exp <= left[key[r]][new.val] + ReplyTime + TtlOf(new.val)
  <2>1. now <= since[r] + ReplyTime /\ (result[r] # backend[key[r]] => since[r] <= left[key[r]][result[r]])
    BY <1>1 DEF AgeInv, AnswerAge
  <2>2. TtlOf(result[r]) \in Nat /\ ReplyTime \in Nat BY TtlType, ConstantsAssumption
  <2>3. new.val = result[r] /\ new.exp = now + TtlOf(result[r]) OBVIOUS
  <2> QED BY <1>4, <1>5, <2>1, <2>2, <2>3
<1> HIDE DEF new
<1>7. ASSUME NEW k \in Keys
      PROVE  /\ store'[k].exp <= now + TtlOf(store'[k].val)
             /\ store'[k].val # backend[k] =>
                  store'[k].exp <= left[k][store'[k].val] + ReplyTime + TtlOf(store'[k].val)
  <2>1. (k = key[r] /\ store'[k] = new) \/ store'[k] = store[k] \/ store'[k] = NoEntry
    BY <1>2, <1>3, <1>4
  <2>2. CASE k = key[r] /\ store'[k] = new BY <1>6, <2>2
  <2>3. CASE store'[k] = store[k] BY <2>3 DEF AgeInv, EntryAge
  <2>4. CASE store'[k] = NoEntry BY <2>4, EmptyEntryAge
  <2> QED BY <2>1, <2>2, <2>3, <2>4
<1>8. EntryAge'
  <2>1. \A v : TtlOf(v)' = TtlOf(v) BY DEF TtlOf
  <2> QED BY <1>1, <1>7, <2>1 DEF EntryAge
<1>9. ASSUME NEW q \in Lookups, pc'[q] = "insert"
      PROVE  pc[q] = "insert" /\ since'[q] = since[q]
  BY <1>1, <1>9 DEF TypeOK
<1>10. AnswerAge' BY <1>1, <1>9 DEF AgeInv, AnswerAge
<1> QED BY <1>8, <1>10 DEF AgeInv

\* A document that the backend gives up now is not older than now, and time
\* passes only while the answers under way are within their timeout.
LEMMA AgeEnvironment ==
    ASSUME TypeOK, AgeInv, Tick \/ \E k \in Keys, v \in Values : BackendChange(k, v)
    PROVE  AgeInv'
<1>1. CASE Tick
  <2>1. now' = now + 1 /\ now \in Nat /\ UNCHANGED <<store, pc, key, result, since, backend, left>>
    BY <1>1 DEF Tick, lookupVars, TypeOK
  <2>2. EntryAge'
    <3> SUFFICES ASSUME NEW k \in Keys
                 PROVE  /\ store[k].exp <= now' + TtlOf(store[k].val)
                        /\ store[k].val # backend[k] =>
                             store[k].exp <= left[k][store[k].val] + ReplyTime + TtlOf(store[k].val)
      BY <2>1 DEF EntryAge
    <3>1. /\ store[k].exp <= now + TtlOf(store[k].val)
          /\ store[k].val # backend[k] =>
               store[k].exp <= left[k][store[k].val] + ReplyTime + TtlOf(store[k].val)
      BY DEF AgeInv, EntryAge
    <3>2. store[k].exp \in Int BY DEF TypeOK, Entry
    <3>3. TtlOf(store[k].val) \in Nat BY TtlType
    <3> QED BY <2>1, <3>1, <3>2, <3>3
  <2>3. AnswerAge'
    <3> SUFFICES ASSUME NEW r \in Lookups, pc[r] = "insert"
                 PROVE  /\ now' <= since[r] + ReplyTime /\ since[r] <= now'
                        /\ result[r] # backend[key[r]] => since[r] <= left[key[r]][result[r]]
      BY <2>1 DEF AnswerAge
    <3>1. now - since[r] < ReplyTime BY <1>1 DEF Tick
    <3>2. since[r] \in Nat BY DEF TypeOK
    <3>3. since[r] <= now /\ (result[r] # backend[key[r]] => since[r] <= left[key[r]][result[r]])
      BY DEF AgeInv, AnswerAge
    <3> QED BY <2>1, <3>1, <3>2, <3>3, ConstantsAssumption
  <2> QED BY <2>2, <2>3 DEF AgeInv
<1>2. ASSUME NEW k \in Keys, NEW v \in Values, BackendChange(k, v) PROVE AgeInv'
  <2>1. /\ backend' = [backend EXCEPT ![k] = v]
        /\ left' = [left EXCEPT ![k][backend[k]] = now]
        /\ UNCHANGED <<store, pc, key, result, since, now>>
    BY <1>2 DEF BackendChange, lookupVars
  <2>2. ASSUME NEW j \in Keys, NEW w \in Values, w # backend'[j]
        PROVE  \/ w # backend[j] /\ left'[j][w] = left[j][w]
               \/ w = backend[j] /\ left'[j][w] = now
    BY <2>1, <2>2 DEF TypeOK
  <2>3. EntryAge'
    <3> SUFFICES ASSUME NEW j \in Keys
                 PROVE  /\ store[j].exp <= now + TtlOf(store[j].val)
                        /\ store[j].val # backend'[j] =>
                             store[j].exp <= left'[j][store[j].val] + ReplyTime + TtlOf(store[j].val)
      BY <2>1 DEF EntryAge
    <3>1. /\ store[j].exp <= now + TtlOf(store[j].val)
          /\ store[j].val # backend[j] =>
               store[j].exp <= left[j][store[j].val] + ReplyTime + TtlOf(store[j].val)
      BY DEF AgeInv, EntryAge
    <3>2. store[j].exp \in Int /\ store[j].val \in Values /\ now \in Nat BY DEF TypeOK, Entry
    <3>3. TtlOf(store[j].val) \in Nat BY TtlType
    <3> QED BY <2>2, <3>1, <3>2, <3>3, ConstantsAssumption
  <2>4. AnswerAge'
    <3> SUFFICES ASSUME NEW r \in Lookups, pc[r] = "insert"
                 PROVE  /\ now <= since[r] + ReplyTime /\ since[r] <= now
                        /\ result[r] # backend'[key[r]] => since[r] <= left'[key[r]][result[r]]
      BY <2>1 DEF AnswerAge
    <3>1. /\ now <= since[r] + ReplyTime /\ since[r] <= now
          /\ result[r] # backend[key[r]] => since[r] <= left[key[r]][result[r]]
      BY DEF AgeInv, AnswerAge
    <3>2. key[r] \in Keys /\ result[r] \in Values BY DEF TypeOK
    <3> QED BY <2>2, <3>1, <3>2
  <2> QED BY <2>3, <2>4 DEF AgeInv
<1> QED BY <1>1, <1>2

\* Every step preserves the ages.
LEMMA AgeNext == IInv /\ AgeInv /\ [Next]_vars => AgeInv'
<1> SUFFICES ASSUME TypeOK, AgeInv, [Next]_vars PROVE AgeInv' BY DEF IInv
<1>1. CASE UNCHANGED vars BY <1>1, AgeOther DEF vars, lookupVars, envVars
<1>2. ASSUME NEW r \in Lookups, NEW k \in Keys, Arrive(r, k) PROVE AgeInv'
  BY <1>2, AgeOther DEF Arrive, Goto, envVars, TypeOK
<1>3. ASSUME NEW r \in Lookups,
             AcquireSlot(r) \/ LockFlight(r) \/ Recheck(r) \/ FetchError(r) \/ ReleaseSlot(r)
      PROVE AgeInv'
  BY <1>3, AgeOther
     DEF AcquireSlot, LockFlight, Recheck, FetchError, ReleaseSlot, DropFlight, Goto, envVars, TypeOK
<1> QED BY <1>1, <1>2, <1>3, AgeFetch, AgeInsert, AgeEnvironment DEF Next, LookupStep

\* What a fresh entry answers has been given up less than its time to live and
\* the backend's reply time ago.
LEMMA FreshAnswer ==
    ASSUME TypeOK, AgeInv, NEW k \in Keys, Fresh(k), store[k].val # backend[k]
    PROVE  now - left[k][store[k].val] < ReplyTime + TtlOf(store[k].val)
<1>1. store[k].exp \in Int /\ store[k].val \in Values /\ now \in Nat BY DEF TypeOK, Entry
<1>2. left[k][store[k].val] \in Nat BY <1>1 DEF TypeOK
<1>3. store[k].exp <= left[k][store[k].val] + ReplyTime + TtlOf(store[k].val)
  BY DEF AgeInv, EntryAge
<1> QED BY <1>1, <1>2, <1>3, TtlType, ConstantsAssumption DEF Fresh

\* A deleted user is served for less than user_ttl and a new one refused for
\* less than negative_ttl, plus the time the backend's answer took, for any
\* times to live, any cap and however the lookups of a key interleave.
THEOREM AnswersFreshProperty == Spec => AnswersFresh
<1> DEFINE Bounded ==
      \A r \in Lookups :
         LET v == result'[r] IN
         result[r] = Unknown /\ v \in Values /\ v # backend[key'[r]]
         => now - left[key'[r]][v]
              < ReplyTime + (IF v = Absent THEN NegativeTtl ELSE PositiveTtl)
<1>1. TypeOK /\ AgeInv /\ Next => Bounded
  <2> SUFFICES ASSUME TypeOK, AgeInv, Next, NEW r \in Lookups, result[r] = Unknown,
                      result'[r] \in Values, result'[r] # backend[key'[r]]
               PROVE  now - left[key'[r]][result'[r]] < ReplyTime + TtlOf(result'[r])
    BY DEF TtlOf
  <2>1. result'[r] # Unknown BY Disjoint
  <2>2. ASSUME NEW q \in Lookups, NEW k \in Keys, Arrive(q, k)
        PROVE  q = r /\ key'[r] = k /\ Fresh(k) /\ result'[r] = store[k].val
    BY <2>1, <2>2 DEF Arrive, TypeOK
  <2>3. ASSUME NEW q \in Lookups, LookupStep(q)
        PROVE  Fresh(key[r]) /\ key'[r] = key[r] /\ result'[r] = store[key[r]].val
    <3>1. Recheck(q) \/ Fetch(q) \/ FetchError(q)
      BY <2>1, <2>3 DEF LookupStep, AcquireSlot, LockFlight, Insert, ReleaseSlot, DropFlight
    <3>2. ~FetchError(q) BY <2>1, Disjoint DEF FetchError, TypeOK
    <3>3. ~Fetch(q) BY <2>1 DEF Fetch, TypeOK
    <3> QED BY <2>1, <3>1, <3>2, <3>3 DEF Recheck, HitAfterWait, TypeOK
  <2>4. \E q \in Lookups : (\E k \in Keys : Arrive(q, k)) \/ LookupStep(q)
    BY <2>1 DEF Next, BackendChange, Tick, lookupVars
  <2>5. key[r] \in Keys BY DEF TypeOK
  <2>6. \E k \in Keys : key'[r] = k /\ Fresh(k) /\ result'[r] = store[k].val
    BY <2>2, <2>3, <2>4, <2>5
  <2> QED BY <2>6, FreshAnswer
<1>2. TypeOK /\ AgeInv /\ [Next]_vars => [Bounded]_vars BY <1>1
<1>3. IInv => TypeOK BY DEF IInv
<1> QED BY InductiveInvariant, AgeInit, AgeNext, <1>2, <1>3, PTL DEF Spec, AnswersFresh

=============================================================================
