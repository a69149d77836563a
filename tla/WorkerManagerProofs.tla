------------------------ MODULE WorkerManagerProofs ------------------------
(***************************************************************************)
(* The worker manager's invariants, proved for any number of requests,     *)
(* keys, slots and workers, in four layers.                                *)
(*                                                                         *)
(* IInv: ensure_running is single-flight and no slot leaves the DashMap    *)
(* under a Ref.  It is inductive with three facts about where tasks are: a *)
(* request inside ensure_running holds a slot (SlotsHeld), a task holding  *)
(* a Ref finds its key in the map (RefsPinned), and the reconciler holds   *)
(* the handle it is about to retire (RetireHeld).                          *)
(*                                                                         *)
(* HandleInv: whose slot and whose worker.  A retired worker is never the  *)
(* one get_running finds.  Both layers hold with any number of threads.    *)
(*                                                                         *)
(* ThreadInv and SweepInv: what one thread (Pingora's default) gives the   *)
(* sweep.  It kills no fresh worker, and no retired one within its grace.  *)
(*                                                                         *)
(* PlaceInv: where every live worker is, with one thread and until a       *)
(* shutdown.  A key has one live worker besides those being drained.       *)
(***************************************************************************)
EXTENDS WorkerManager, FiniteSetTheorems, TLAPS

\* Where a request is while it is inside ensure_running.
EnsurePCs == {"top", "fastAlive", "second", "park", "wait", "ready"}
\* A request inside ensure_running holds an Arc to a slot.
SlotsHeld == \A r \in Requests : pc[r] \in EnsurePCs => tslot[r] \in Slots
\* Where the reconciler is while it examines or retires one worker.
RetirePCs == {"rcUser", "rcBuckets", "rcRetire", "rcRetState", "rcPush"}
\* The reconciler holds the handle it examines or retires.
RetireHeld == \A t \in Background : pc[t] \in RetirePCs => twh[t] \in Workers

\* While a task holds a Ref its key stays in the map.
RefsPinned == \A t \in Tasks : HoldsRef(t) => slots[tkey[t]] # 0

\* The inductive invariant.
IInv == TypeOK /\ RefsPinned /\ SlotsHeld /\ RetireHeld /\ SingleFlight

\* Requests and background tasks are disjoint and make up Tasks.
LEMMA TaskSets == /\ Requests \subseteq Tasks /\ Background \subseteq Tasks
                  /\ \A r \in Requests : r \notin Background /\ r # Shutdown
                  /\ Tasks = Requests \cup Background
BY ConstantsAssumption DEF Tasks, Background, Shutdown

\* The three kinds of SlotState differ, and a Running one names a worker.
LEMMA SlotStateFacts ==
    /\ Stopped \in SlotState /\ Starting \in SlotState
    /\ Stopped # Starting
    /\ \A h \in Workers : Running(h) \in SlotState /\ Running(h) # Starting /\ Running(h) # Stopped
    /\ \A x \in SlotState : /\ x.h \in 0..MaxWorkers
                            /\ x.st = "Running" => x.h \in Workers
                            /\ x = Starting => x.st # "Running"
<1>1. Stopped # Starting /\ Stopped.h = 0 /\ Starting.h = 0
      /\ Stopped.st = "Stopped" /\ Starting.st = "Starting"
  BY DEF Stopped, Starting
<1>2. \A h \in Workers : /\ Running(h) \in SlotState /\ Running(h) # Starting
                         /\ Running(h) # Stopped /\ Running(h).h = h
  BY DEF SlotState, Stopped, Starting, Running
<1>3. ASSUME NEW x \in SlotState
      PROVE  /\ x.h \in 0..MaxWorkers /\ (x.st = "Running" => x.h \in Workers)
             /\ x = Starting => x.st # "Running"
  <2>1. x = Stopped \/ x = Starting \/ \E h \in Workers : x = Running(h)
    BY DEF SlotState
  <2> QED BY <1>1, <1>2, <2>1, ConstantsAssumption DEF Workers
<1> QED BY <1>1, <1>2, <1>3 DEF SlotState

\* 0 stands for no slot and no worker, and nothing else does.
LEMMA Ranges ==
    /\ 0 \in 0..MaxSlots /\ Slots \subseteq 0..MaxSlots
    /\ 0 \in 0..MaxWorkers /\ Workers \subseteq 0..MaxWorkers
    /\ \A s \in 0..MaxSlots : s # 0 => s \in Slots
    /\ \A h \in 0..MaxWorkers : h # 0 => h \in Workers
    /\ 0 \notin Slots /\ 0 \notin Workers
BY ConstantsAssumption DEF Slots, Workers

\* The invariant survives a request looking its key up in the map.
LEMMA ArriveStep ==
    ASSUME IInv, NEW r \in Requests, NEW k \in Keys, Arrive(r, k)
    PROVE  IInv'
<1> USE TaskSets, SlotStateFacts, Ranges
    DEF IInv, TypeOK, mapVars, procVars, retVars, envVars
<1>1. TypeOK'
  <2>1. PcTypes'
    BY DEF PcTypes, RequestPCs, BackgroundPCs, Suspend, KeepThread, Arrive,
         Goto
  <2>2. LocalTypes'
    BY DEF LocalTypes, Arrive, Goto
  <2>3. DirectoryTypes'
    BY DEF DirectoryTypes, Snapshot, LocalTypes, Arrive, Goto
  <2>4. MapTypes' /\ ProcTypes' /\ RetiringTypes' /\ CounterTypes'
    BY DEF Arrive, MapTypes, ProcTypes, RetiringTypes, CounterTypes
  <2> QED BY <2>1, <2>2, <2>3, <2>4
<1>2. RefsPinned'
  BY DEF RefsPinned, Arrive, Goto, HoldsRef, RefPCs, PcTypes, LocalTypes
<1>3. SlotsHeld'
  BY DEF SlotsHeld, Arrive, Goto, EnsurePCs, PcTypes, LocalTypes
<1>4. RetireHeld'
  BY DEF RetireHeld, Arrive, Goto, RetirePCs, PcTypes, LocalTypes
<1>5. SingleFlight'
  BY DEF SingleFlight, Arrive, Goto, PcTypes, LocalTypes
<1> QED BY <1>1, <1>2, <1>3, <1>4, <1>5

\* The invariant survives get_running reading the slot state.
LEMMA GetRunningStateStep ==
    ASSUME IInv, NEW r \in Requests, GetRunningState(r)
    PROVE  IInv'
<1> USE TaskSets, SlotStateFacts, Ranges
    DEF IInv, TypeOK, mapVars, procVars, retVars, envVars
<1>1. TypeOK'
  <2>1. PcTypes'
    BY DEF PcTypes, RequestPCs, BackgroundPCs, Suspend, KeepThread,
         GetRunningState, Goto
  <2>2. LocalTypes'
    BY DEF LocalTypes, MapTypes, RefsPinned, HoldsRef, RefPCs, GetRunningState,
         Goto
  <2>3. MapTypes' /\ ProcTypes' /\ RetiringTypes' /\ DirectoryTypes' /\ CounterTypes'
    BY DEF GetRunningState, MapTypes, ProcTypes, RetiringTypes, DirectoryTypes,
         CounterTypes
  <2> QED BY <2>1, <2>2, <2>3
<1>2. RefsPinned'
  BY DEF RefsPinned, GetRunningState, Goto, HoldsRef, RefPCs, PcTypes,
         LocalTypes
<1>3. SlotsHeld'
  BY DEF SlotsHeld, GetRunningState, Goto, EnsurePCs, PcTypes, LocalTypes
<1>4. RetireHeld'
  BY DEF RetireHeld, GetRunningState, Goto, RetirePCs, PcTypes, LocalTypes
<1>5. SingleFlight'
  BY DEF SingleFlight, GetRunningState, Goto, PcTypes, LocalTypes
<1> QED BY <1>1, <1>2, <1>3, <1>4, <1>5

\* The invariant survives get_running asking whether the worker is alive.
LEMMA GetRunningAliveStep ==
    ASSUME IInv, NEW r \in Requests, GetRunningAlive(r)
    PROVE  IInv'
<1> USE TaskSets, SlotStateFacts, Ranges
    DEF IInv, TypeOK, mapVars, procVars, retVars, envVars
<1>1. TypeOK'
  <2>1. ProcTypes'
    <3>1. proc' \in [Workers -> {"alive", "exited", "reaped"}]
      BY DEF ProcTypes, CounterTypes, GetRunningAlive, Route, TryWait, Goto
    <3>2. lastUsed' \in [Workers -> Nat]
      BY DEF ProcTypes, CounterTypes, GetRunningAlive, Route, TryWait, Goto
    <3>3. spawnedFor' \in [Workers -> [key : Keys, fp : Snapshot]]
      BY DEF ProcTypes, CounterTypes, GetRunningAlive, Route, TryWait, Goto
    <3> QED BY <3>1, <3>2, <3>3 DEF ProcTypes
  <2>2. PcTypes'
    BY DEF PcTypes, RequestPCs, BackgroundPCs, Suspend, KeepThread,
         GetRunningAlive, Route, TryWait, Goto
  <2>3. LocalTypes'
    BY DEF LocalTypes, GetRunningAlive, Route, TryWait, Goto
  <2>4. DirectoryTypes'
    BY DEF DirectoryTypes, Snapshot, NoSnapshot, GetRunningAlive, Route,
         TryWait, Goto
  <2>5. MapTypes' /\ RetiringTypes' /\ CounterTypes'
    BY DEF GetRunningAlive, MapTypes, RetiringTypes, CounterTypes, Route,
         TryWait
  <2> QED BY <2>1, <2>2, <2>3, <2>4, <2>5
<1>2. RefsPinned'
  BY DEF RefsPinned, GetRunningAlive, Route, TryWait, Goto, HoldsRef, RefPCs,
         PcTypes, LocalTypes
<1>3. SlotsHeld'
  BY DEF SlotsHeld, GetRunningAlive, Route, TryWait, Goto, EnsurePCs,
         PcTypes, LocalTypes
<1>4. RetireHeld'
  BY DEF RetireHeld, GetRunningAlive, Route, TryWait, Goto, RetirePCs,
         PcTypes, LocalTypes
<1>5. SingleFlight'
  BY DEF SingleFlight, GetRunningAlive, Route, TryWait, Goto, PcTypes,
         LocalTypes
<1> QED BY <1>1, <1>2, <1>3, <1>4, <1>5

\* The invariant survives get_running removing a dead worker's key.
LEMMA GetRunningRemoveStep ==
    ASSUME IInv, NEW r \in Requests, GetRunningRemove(r)
    PROVE  IInv'
<1> USE TaskSets, SlotStateFacts, Ranges
    DEF IInv, TypeOK, mapVars, procVars, retVars, envVars
<1>1. TypeOK'
  <2>1. MapTypes'
    BY DEF MapTypes, GetRunningRemove, Goto
  <2>2. PcTypes'
    BY DEF PcTypes, RequestPCs, BackgroundPCs, Suspend, KeepThread,
         GetRunningRemove, Goto
  <2>3. LocalTypes'
    BY DEF LocalTypes, GetRunningRemove, Goto
  <2>4. ProcTypes' /\ RetiringTypes' /\ DirectoryTypes' /\ CounterTypes'
    BY DEF GetRunningRemove, ProcTypes, RetiringTypes, DirectoryTypes,
         CounterTypes
  <2> QED BY <2>1, <2>2, <2>3, <2>4
<1>2. RefsPinned'
  BY DEF RefsPinned, GetRunningRemove, Goto, HoldsRef, RefPCs, PcTypes,
         LocalTypes, WriteBlocked, MapTypes
<1>3. SlotsHeld'
  BY DEF SlotsHeld, GetRunningRemove, Goto, EnsurePCs, PcTypes, LocalTypes
<1>4. RetireHeld'
  BY DEF RetireHeld, GetRunningRemove, Goto, RetirePCs, PcTypes, LocalTypes
<1>5. SingleFlight'
  BY DEF SingleFlight, GetRunningRemove, Goto, PcTypes, LocalTypes, MapTypes
<1> QED BY <1>1, <1>2, <1>3, <1>4, <1>5

\* The invariant survives a request that is refused.
LEMMA RejectStep ==
    ASSUME IInv, NEW r \in Requests, Reject(r)
    PROVE  IInv'
<1> USE TaskSets, SlotStateFacts, Ranges
    DEF IInv, TypeOK, mapVars, procVars, retVars, envVars
<1>1. TypeOK'
  <2>1. PcTypes'
    BY DEF PcTypes, RequestPCs, BackgroundPCs, Suspend, KeepThread, Reject,
         Goto
  <2>2. DirectoryTypes'
    BY DEF DirectoryTypes, Snapshot, NoSnapshot, Reject, Goto
  <2>3. MapTypes' /\ ProcTypes' /\ RetiringTypes' /\ LocalTypes' /\ CounterTypes'
    BY DEF Reject, MapTypes, ProcTypes, RetiringTypes, LocalTypes, CounterTypes
  <2> QED BY <2>1, <2>2, <2>3
<1>2. RefsPinned'
  BY DEF RefsPinned, Reject, Goto, HoldsRef, RefPCs, PcTypes, LocalTypes
<1>3. SlotsHeld'
  BY DEF SlotsHeld, Reject, Goto, EnsurePCs, PcTypes, LocalTypes
<1>4. RetireHeld'
  BY DEF RetireHeld, Reject, Goto, RetirePCs, PcTypes, LocalTypes
<1>5. SingleFlight'
  BY DEF SingleFlight, Reject, Goto, PcTypes, LocalTypes
<1> QED BY <1>1, <1>2, <1>3, <1>4, <1>5

\* The invariant survives the bucket lookup before ensure_running.
LEMMA LookupBucketsStep ==
    ASSUME IInv, NEW r \in Requests, LookupBuckets(r)
    PROVE  IInv'
<1> USE TaskSets, SlotStateFacts, Ranges
    DEF IInv, TypeOK, mapVars, procVars, retVars, envVars
<1>1. TypeOK'
  <2>1. PcTypes'
    BY DEF PcTypes, RequestPCs, BackgroundPCs, Suspend, KeepThread,
         LookupBuckets, Goto
  <2>2. DirectoryTypes'
    BY DEF DirectoryTypes, Snapshot, LocalTypes, LookupBuckets, Goto
  <2>3. MapTypes' /\ ProcTypes' /\ RetiringTypes' /\ LocalTypes' /\ CounterTypes'
    BY DEF LookupBuckets, MapTypes, ProcTypes, RetiringTypes, LocalTypes,
         CounterTypes
  <2> QED BY <2>1, <2>2, <2>3
<1>2. RefsPinned'
  BY DEF RefsPinned, LookupBuckets, Goto, HoldsRef, RefPCs, PcTypes,
         LocalTypes
<1>3. SlotsHeld'
  BY DEF SlotsHeld, LookupBuckets, Goto, EnsurePCs, PcTypes, LocalTypes
<1>4. RetireHeld'
  BY DEF RetireHeld, LookupBuckets, Goto, RetirePCs, PcTypes, LocalTypes
<1>5. SingleFlight'
  BY DEF SingleFlight, LookupBuckets, Goto, PcTypes, LocalTypes
<1> QED BY <1>1, <1>2, <1>3, <1>4, <1>5

\* The invariant survives ensure_running taking or creating the slot.
LEMMA EnsureEntryStep ==
    ASSUME IInv, NEW r \in Requests, EnsureEntry(r)
    PROVE  IInv'
<1> USE TaskSets, SlotStateFacts, Ranges
    DEF IInv, TypeOK, mapVars, procVars, retVars, envVars
<1>1. TypeOK'
  <2>1. MapTypes'
    BY DEF MapTypes, EnsureEntry, Goto
  <2>2. PcTypes'
    BY DEF PcTypes, RequestPCs, BackgroundPCs, Suspend, KeepThread,
         EnsureEntry, Goto
  <2>3. LocalTypes'
    BY DEF LocalTypes, MapTypes, EnsureEntry, Goto
  <2>4. ProcTypes' /\ RetiringTypes' /\ DirectoryTypes' /\ CounterTypes'
    BY DEF EnsureEntry, ProcTypes, RetiringTypes, DirectoryTypes, CounterTypes
  <2> QED BY <2>1, <2>2, <2>3, <2>4
<1>2. RefsPinned'
  BY DEF RefsPinned, EnsureEntry, Goto, HoldsRef, RefPCs, PcTypes,
         LocalTypes, LiveSlots, MapTypes
<1>3. SlotsHeld'
  BY DEF SlotsHeld, EnsureEntry, Goto, EnsurePCs, PcTypes, LocalTypes,
         MapTypes
<1>4. RetireHeld'
  BY DEF RetireHeld, EnsureEntry, Goto, RetirePCs, PcTypes, LocalTypes
<1>5. SingleFlight'
  <2>1. \A u \in Requests : pc'[u] = "ready" <=> pc[u] = "ready" /\ u # r
    BY DEF EnsureEntry, Goto, PcTypes
  <2>2. \A u \in Requests \ {r} : tslot'[u] = tslot[u]
    BY DEF EnsureEntry, LocalTypes
  <2>3. CASE slots[tkey[r]] # 0
    <3>1. UNCHANGED state /\ pc[r] = "entry"
      BY <2>3 DEF EnsureEntry
    <3> QED BY <2>1, <2>2, <3>1 DEF SingleFlight
  <2>4. CASE slots[tkey[r]] = 0
    <3>1. PICK s \in Slots \ LiveSlots : state' = [state EXCEPT ![s] = Stopped]
      BY <2>4 DEF EnsureEntry
    <3>2. /\ state'[s] = Stopped /\ pc[r] = "entry"
          /\ \A s2 \in Slots \ {s} : state'[s2] = state[s2]
      BY <3>1 DEF MapTypes, EnsureEntry
    <3>3. \A u \in Requests : tslot[u] # s
      BY <3>1 DEF LiveSlots
    <3> QED BY <2>1, <2>2, <3>2, <3>3 DEF SingleFlight
  <2> QED BY <2>3, <2>4
<1> QED BY <1>1, <1>2, <1>3, <1>4, <1>5

\* The invariant survives the fast path of ensure_running.
LEMMA EnsureTopStep ==
    ASSUME IInv, NEW r \in Requests, EnsureTop(r)
    PROVE  IInv'
<1> USE TaskSets, SlotStateFacts, Ranges
    DEF IInv, TypeOK, mapVars, procVars, retVars, envVars
<1>1. TypeOK'
  <2>1. ProcTypes'
    BY DEF ProcTypes, CounterTypes, EnsureTop, Route, TryWait, Goto
  <2>2. PcTypes'
    BY DEF PcTypes, RequestPCs, BackgroundPCs, Suspend, KeepThread, EnsureTop,
         Route, TryWait, Goto
  <2>3. LocalTypes'
    BY DEF LocalTypes, MapTypes, SlotsHeld, EnsurePCs, EnsureTop, Route,
         TryWait, Goto
  <2>4. DirectoryTypes'
    BY DEF DirectoryTypes, Snapshot, NoSnapshot, EnsureTop, Route, TryWait,
         Goto
  <2>5. MapTypes' /\ RetiringTypes' /\ CounterTypes'
    BY DEF EnsureTop, MapTypes, RetiringTypes, CounterTypes, Route, TryWait
  <2> QED BY <2>1, <2>2, <2>3, <2>4, <2>5
<1>2. RefsPinned'
  BY DEF RefsPinned, EnsureTop, Route, TryWait, Goto, HoldsRef, RefPCs,
         PcTypes, LocalTypes
<1>3. SlotsHeld'
  BY DEF SlotsHeld, EnsureTop, Route, TryWait, Goto, EnsurePCs, PcTypes,
         LocalTypes
<1>4. RetireHeld'
  BY DEF RetireHeld, EnsureTop, Route, TryWait, Goto, RetirePCs, PcTypes,
         LocalTypes
<1>5. SingleFlight'
  BY DEF SingleFlight, EnsureTop, Route, TryWait, Goto, PcTypes, LocalTypes
<1> QED BY <1>1, <1>2, <1>3, <1>4, <1>5

\* The invariant survives the end of the fast path's wait for the child's lock.
LEMMA EnsureFastAliveStep ==
    ASSUME IInv, NEW r \in Requests, EnsureFastAlive(r)
    PROVE  IInv'
<1> USE TaskSets, SlotStateFacts, Ranges
    DEF IInv, TypeOK, mapVars, procVars, retVars, envVars
<1>1. TypeOK'
  <2>1. ProcTypes'
    <3>1. proc' \in [Workers -> {"alive", "exited", "reaped"}]
      BY DEF ProcTypes, CounterTypes, EnsureFastAlive, Route, TryWait, Goto
    <3>2. lastUsed' \in [Workers -> Nat]
      BY DEF ProcTypes, CounterTypes, EnsureFastAlive, Route, TryWait, Goto
    <3>3. spawnedFor' \in [Workers -> [key : Keys, fp : Snapshot]]
      BY DEF ProcTypes, CounterTypes, EnsureFastAlive, Route, TryWait, Goto
    <3> QED BY <3>1, <3>2, <3>3 DEF ProcTypes
  <2>2. PcTypes'
    BY DEF PcTypes, RequestPCs, BackgroundPCs, Suspend, KeepThread,
         EnsureFastAlive, Route, TryWait, Goto
  <2>3. LocalTypes'
    BY DEF LocalTypes, EnsureFastAlive, Route, TryWait, Goto
  <2>4. DirectoryTypes'
    BY DEF DirectoryTypes, Snapshot, NoSnapshot, EnsureFastAlive, Route,
         TryWait, Goto
  <2>5. MapTypes' /\ RetiringTypes' /\ CounterTypes'
    BY DEF EnsureFastAlive, MapTypes, RetiringTypes, CounterTypes, Route,
         TryWait
  <2> QED BY <2>1, <2>2, <2>3, <2>4, <2>5
<1>2. RefsPinned'
  BY DEF RefsPinned, EnsureFastAlive, Route, TryWait, Goto, HoldsRef, RefPCs,
         PcTypes, LocalTypes
<1>3. SlotsHeld'
  BY DEF SlotsHeld, EnsureFastAlive, Route, TryWait, Goto, EnsurePCs,
         PcTypes, LocalTypes
<1>4. RetireHeld'
  BY DEF RetireHeld, EnsureFastAlive, Route, TryWait, Goto, RetirePCs,
         PcTypes, LocalTypes
<1>5. SingleFlight'
  BY DEF SingleFlight, EnsureFastAlive, Route, TryWait, Goto, PcTypes,
         LocalTypes
<1> QED BY <1>1, <1>2, <1>3, <1>4, <1>5

\* The invariant survives a request becoming the starter.
LEMMA EnsureSecondStep ==
    ASSUME IInv, NEW r \in Requests, EnsureSecond(r)
    PROVE  IInv'
<1> USE TaskSets, SlotStateFacts, Ranges
    DEF IInv, TypeOK, mapVars, procVars, retVars, envVars
<1>1. TypeOK'
  <2>1. MapTypes'
    BY DEF MapTypes, EnsureSecond, SpawnChild, MayStart, Goto
  <2>2. ProcTypes'
    <3>1. proc' \in [Workers -> {"alive", "exited", "reaped"}]
      BY DEF ProcTypes, LocalTypes, CounterTypes, DirectoryTypes, EnsureSecond, SpawnChild,
         MayStart, Goto
    <3>2. lastUsed' \in [Workers -> Nat]
      BY DEF ProcTypes, LocalTypes, CounterTypes, DirectoryTypes, EnsureSecond, SpawnChild,
         MayStart, Goto
    <3>3. spawnedFor' \in [Workers -> [key : Keys, fp : Snapshot]]
      BY DEF ProcTypes, LocalTypes, CounterTypes, DirectoryTypes, EnsureSecond, SpawnChild,
         MayStart, Goto
    <3> QED BY <3>1, <3>2, <3>3 DEF ProcTypes
  <2>3. PcTypes'
    BY DEF PcTypes, RequestPCs, BackgroundPCs, Suspend, KeepThread,
         EnsureSecond, SpawnChild, MayStart, Goto
  <2>4. LocalTypes'
    BY DEF LocalTypes, EnsureSecond, SpawnChild, MayStart, Goto
  <2>5. RetiringTypes' /\ DirectoryTypes' /\ CounterTypes'
    BY DEF EnsureSecond, SpawnChild, RetiringTypes, DirectoryTypes, CounterTypes
  <2> QED BY <2>1, <2>2, <2>3, <2>4, <2>5
<1>2. RefsPinned'
  BY DEF RefsPinned, EnsureSecond, SpawnChild, MayStart, Goto, HoldsRef, RefPCs, PcTypes,
         LocalTypes
<1>3. SlotsHeld'
  BY DEF SlotsHeld, EnsureSecond, SpawnChild, MayStart, Goto, EnsurePCs, PcTypes,
         LocalTypes
<1>4. RetireHeld'
  BY DEF RetireHeld, EnsureSecond, SpawnChild, MayStart, Goto, RetirePCs, PcTypes,
         LocalTypes
<1>5. SingleFlight'
  <2>1. CASE ~MayStart(tslot[r])
    BY <2>1 DEF EnsureSecond, SpawnChild, Goto, SingleFlight, PcTypes, LocalTypes
  <2>2. CASE MayStart(tslot[r])
    <3>1. tslot[r] \in Slots /\ state[tslot[r]] = Stopped
      BY <2>2 DEF EnsureSecond, SpawnChild, MayStart, SlotsHeld, EnsurePCs
    <3>2. /\ state'[tslot[r]] = Starting /\ UNCHANGED tslot
          /\ \A s \in Slots \ {tslot[r]} : state'[s] = state[s]
      BY <2>2, <3>1 DEF EnsureSecond, SpawnChild, MapTypes
    <3>3. \A u \in Requests : pc'[u] = "ready" <=> pc[u] = "ready" \/ u = r
      BY <2>2 DEF EnsureSecond, SpawnChild, Goto, PcTypes
    <3>4. \A u \in Requests : pc[u] = "ready" => tslot[u] # tslot[r]
      BY <3>1 DEF SingleFlight
    <3> QED BY <3>1, <3>2, <3>3, <3>4 DEF SingleFlight
  <2> QED BY <2>1, <2>2
<1> QED BY <1>1, <1>2, <1>3, <1>4, <1>5

\* The invariant survives a request registering for the wake-up.
LEMMA EnsureParkStep ==
    ASSUME IInv, NEW r \in Requests, EnsurePark(r)
    PROVE  IInv'
<1> USE TaskSets, SlotStateFacts, Ranges
    DEF IInv, TypeOK, mapVars, procVars, retVars, envVars
<1>1. TypeOK'
  <2>1. PcTypes'
    BY DEF PcTypes, RequestPCs, BackgroundPCs, Suspend, KeepThread, EnsurePark,
         Goto
  <2>2. MapTypes' /\ ProcTypes' /\ RetiringTypes' /\ LocalTypes' /\ DirectoryTypes' /\ CounterTypes'
    BY DEF EnsurePark, MapTypes, ProcTypes, RetiringTypes, LocalTypes,
         DirectoryTypes, CounterTypes
  <2> QED BY <2>1, <2>2
<1>2. RefsPinned'
  BY DEF RefsPinned, EnsurePark, Goto, HoldsRef, RefPCs, PcTypes, LocalTypes
<1>3. SlotsHeld'
  BY DEF SlotsHeld, EnsurePark, Goto, EnsurePCs, PcTypes, LocalTypes
<1>4. RetireHeld'
  BY DEF RetireHeld, EnsurePark, Goto, RetirePCs, PcTypes, LocalTypes
<1>5. SingleFlight'
  BY DEF SingleFlight, EnsurePark, Goto, PcTypes, LocalTypes
<1> QED BY <1>1, <1>2, <1>3, <1>4, <1>5

\* The invariant survives a spawned worker becoming ready.
LEMMA SpawnReadyStep ==
    ASSUME IInv, NEW r \in Requests, SpawnReady(r)
    PROVE  IInv'
<1> USE TaskSets, SlotStateFacts, Ranges
    DEF IInv, TypeOK, mapVars, procVars, retVars, envVars
<1>1. TypeOK'
  <2>1. MapTypes'
    BY DEF MapTypes, LocalTypes, SpawnReady, GotoAndNotify
  <2>2. ProcTypes'
    BY DEF ProcTypes, CounterTypes, SpawnReady, GotoAndNotify
  <2>3. PcTypes'
    BY DEF PcTypes, RequestPCs, BackgroundPCs, Suspend, SpawnReady,
         GotoAndNotify
  <2>4. LocalTypes'
    BY DEF LocalTypes, SpawnReady, GotoAndNotify
  <2>5. DirectoryTypes'
    BY DEF DirectoryTypes, Snapshot, NoSnapshot, SpawnReady, GotoAndNotify
  <2>6. RetiringTypes' /\ CounterTypes'
    BY DEF SpawnReady, RetiringTypes, CounterTypes
  <2> QED BY <2>1, <2>2, <2>3, <2>4, <2>5, <2>6
<1>2. RefsPinned'
  BY DEF RefsPinned, SpawnReady, GotoAndNotify, HoldsRef, RefPCs, PcTypes,
         LocalTypes
<1>3. SlotsHeld'
  BY DEF SlotsHeld, SpawnReady, GotoAndNotify, EnsurePCs, PcTypes, LocalTypes
<1>4. RetireHeld'
  BY DEF RetireHeld, SpawnReady, GotoAndNotify, RetirePCs, PcTypes,
         LocalTypes
<1>5. SingleFlight'
  <2>1. \A u \in Requests : pc'[u] = "ready" <=> pc[u] = "ready" /\ u # r
    BY DEF SpawnReady, GotoAndNotify, PcTypes
  <2>2. \A u \in Requests \ {r} : pc[u] = "ready" => tslot[u] # tslot[r]
    BY DEF SpawnReady, SingleFlight
  <2>3. \A u \in Requests \ {r} : tslot'[u] = tslot[u]
    BY DEF SpawnReady, LocalTypes
  <2>4. tslot[r] \in Slots
    BY DEF SpawnReady, SlotsHeld, EnsurePCs
  <2>5. /\ state'[tslot[r]] # Starting
        /\ \A s \in Slots \ {tslot[r]} : state'[s] = state[s]
    BY <2>4 DEF SpawnReady, MapTypes, LocalTypes
  <2>6. /\ pc[r] = "ready"
        /\ \A r1, r2 \in Requests :
             pc'[r1] = "ready" /\ pc'[r2] = "ready" /\ tslot'[r1] = tslot'[r2] => r1 = r2
    BY <2>1, <2>3 DEF SpawnReady, SingleFlight
  <2>7. ASSUME NEW s \in Slots
        PROVE  state'[s] = Starting <=> \E u \in Requests : pc'[u] = "ready" /\ tslot'[u] = s
    BY <2>1, <2>2, <2>3, <2>5, <2>6 DEF SingleFlight
  <2> QED BY <2>6, <2>7 DEF SingleFlight
<1> QED BY <1>1, <1>2, <1>3, <1>4, <1>5

\* The invariant survives a failing spawn.
LEMMA SpawnFailStep ==
    ASSUME IInv, NEW r \in Requests, SpawnFail(r)
    PROVE  IInv'
<1> USE TaskSets, SlotStateFacts, Ranges
    DEF IInv, TypeOK, mapVars, procVars, retVars, envVars
<1>1. TypeOK'
  <2>1. MapTypes'
    BY DEF MapTypes, SpawnFail, GotoAndNotify
  <2>2. ProcTypes'
    BY DEF ProcTypes, SpawnFail, GotoAndNotify
  <2>3. PcTypes'
    BY DEF PcTypes, RequestPCs, BackgroundPCs, Suspend, SpawnFail,
         GotoAndNotify
  <2>4. LocalTypes'
    BY DEF LocalTypes, SpawnFail, GotoAndNotify
  <2>5. DirectoryTypes'
    BY DEF DirectoryTypes, Snapshot, NoSnapshot, SpawnFail, GotoAndNotify
  <2>6. RetiringTypes' /\ CounterTypes'
    BY DEF SpawnFail, RetiringTypes, CounterTypes
  <2> QED BY <2>1, <2>2, <2>3, <2>4, <2>5, <2>6
<1>2. RefsPinned'
  BY DEF RefsPinned, SpawnFail, GotoAndNotify, HoldsRef, RefPCs, PcTypes,
         LocalTypes
<1>3. SlotsHeld'
  BY DEF SlotsHeld, SpawnFail, GotoAndNotify, EnsurePCs, PcTypes, LocalTypes
<1>4. RetireHeld'
  BY DEF RetireHeld, SpawnFail, GotoAndNotify, RetirePCs, PcTypes, LocalTypes
<1>5. SingleFlight'
  <2>1. \A u \in Requests : pc'[u] = "ready" <=> pc[u] = "ready" /\ u # r
    BY DEF SpawnFail, GotoAndNotify, PcTypes
  <2>2. \A u \in Requests \ {r} : pc[u] = "ready" => tslot[u] # tslot[r]
    BY DEF SpawnFail, SingleFlight
  <2>3. \A u \in Requests \ {r} : tslot'[u] = tslot[u]
    BY DEF SpawnFail, LocalTypes
  <2>4. tslot[r] \in Slots
    BY DEF SpawnFail, SlotsHeld, EnsurePCs
  <2>5. /\ state'[tslot[r]] # Starting
        /\ \A s \in Slots \ {tslot[r]} : state'[s] = state[s]
    BY <2>4 DEF SpawnFail, MapTypes
  <2>6. /\ pc[r] = "ready"
        /\ \A r1, r2 \in Requests :
             pc'[r1] = "ready" /\ pc'[r2] = "ready" /\ tslot'[r1] = tslot'[r2] => r1 = r2
    BY <2>1, <2>3 DEF SpawnFail, SingleFlight
  <2>7. ASSUME NEW s \in Slots
        PROVE  state'[s] = Starting <=> \E u \in Requests : pc'[u] = "ready" /\ tslot'[u] = s
    BY <2>1, <2>2, <2>3, <2>5, <2>6 DEF SingleFlight
  <2> QED BY <2>6, <2>7 DEF SingleFlight
<1> QED BY <1>1, <1>2, <1>3, <1>4, <1>5

\* The invariant survives the end of a request.
LEMMA FinishStep ==
    ASSUME IInv, NEW r \in Requests, Finish(r)
    PROVE  IInv'
<1> USE TaskSets, SlotStateFacts, Ranges
    DEF IInv, TypeOK, mapVars, procVars, retVars, envVars
<1>1. TypeOK'
  <2>1. PcTypes'
    BY DEF PcTypes, RequestPCs, BackgroundPCs, Suspend, KeepThread, Finish,
         Goto
  <2>2. LocalTypes'
    BY DEF LocalTypes, Finish, Goto
  <2>3. MapTypes' /\ ProcTypes' /\ RetiringTypes' /\ DirectoryTypes' /\ CounterTypes'
    BY DEF Finish, MapTypes, ProcTypes, RetiringTypes, DirectoryTypes,
         CounterTypes
  <2> QED BY <2>1, <2>2, <2>3
<1>2. RefsPinned'
  BY DEF RefsPinned, Finish, Goto, HoldsRef, RefPCs, PcTypes, LocalTypes
<1>3. SlotsHeld'
  BY DEF SlotsHeld, Finish, Goto, EnsurePCs, PcTypes, LocalTypes
<1>4. RetireHeld'
  BY DEF RetireHeld, Finish, Goto, RetirePCs, PcTypes, LocalTypes
<1>5. SingleFlight'
  BY DEF SingleFlight, Finish, Goto, PcTypes, LocalTypes
<1> QED BY <1>1, <1>2, <1>3, <1>4, <1>5

\* The invariant survives the start of a drain of the retiring list.
LEMMA StartDrainStep ==
    ASSUME IInv, NEW t \in Background, StartDrain(t)
    PROVE  IInv'
<1> USE TaskSets, SlotStateFacts, Ranges
    DEF IInv, TypeOK, mapVars, procVars, retVars, envVars
<1>1. TypeOK'
  <2>1. RetiringTypes'
    BY DEF RetiringTypes, StartDrain, Goto
  <2>2. PcTypes'
    BY DEF PcTypes, RequestPCs, BackgroundPCs, Suspend, KeepThread, StartDrain,
         Goto
  <2>3. LocalTypes'
    BY DEF LocalTypes, CounterTypes, StartDrain, Goto
  <2>4. CounterTypes'
    BY ConstantsAssumption DEF CounterTypes, StartDrain, Goto
  <2>5. MapTypes' /\ ProcTypes' /\ DirectoryTypes'
    BY DEF StartDrain, MapTypes, ProcTypes, DirectoryTypes
  <2> QED BY <2>1, <2>2, <2>3, <2>4, <2>5
<1>2. RefsPinned'
  BY DEF RefsPinned, StartDrain, Goto, HoldsRef, RefPCs, PcTypes, LocalTypes
<1>3. SlotsHeld'
  BY DEF SlotsHeld, StartDrain, Goto, EnsurePCs, PcTypes, LocalTypes
<1>4. RetireHeld'
  BY DEF RetireHeld, StartDrain, Goto, RetirePCs, PcTypes, LocalTypes
<1>5. SingleFlight'
  BY DEF SingleFlight, StartDrain, Goto, PcTypes, LocalTypes
<1> QED BY <1>1, <1>2, <1>3, <1>4, <1>5

\* The invariant survives the decision on one retired worker.
LEMMA DrainOneStep ==
    ASSUME IInv, NEW t \in Background, DrainOne(t)
    PROVE  IInv'
<1> USE TaskSets, SlotStateFacts, Ranges
    DEF IInv, TypeOK, mapVars, procVars, retVars, envVars
<1>1. TypeOK'
  <2>1. ProcTypes'
    BY DEF ProcTypes, DrainOne, Goto
  <2>2. RetiringTypes'
    BY DEF RetiringTypes, DrainOne, Goto
  <2>3. PcTypes'
    BY DEF PcTypes, RequestPCs, BackgroundPCs, Suspend, KeepThread, DrainOne,
         Goto
  <2>4. LocalTypes'
    BY DEF LocalTypes, RetiringTypes, DrainOne, Goto
  <2>5. MapTypes' /\ DirectoryTypes' /\ CounterTypes'
    BY DEF DrainOne, MapTypes, DirectoryTypes, CounterTypes
  <2> QED BY <2>1, <2>2, <2>3, <2>4, <2>5
<1>2. RefsPinned'
  BY DEF RefsPinned, DrainOne, Goto, HoldsRef, RefPCs, PcTypes, LocalTypes
<1>3. SlotsHeld'
  BY DEF SlotsHeld, DrainOne, Goto, EnsurePCs, PcTypes, LocalTypes
<1>4. RetireHeld'
  BY DEF RetireHeld, DrainOne, Goto, RetirePCs, PcTypes, LocalTypes
<1>5. SingleFlight'
  BY DEF SingleFlight, DrainOne, Goto, PcTypes, LocalTypes
<1> QED BY <1>1, <1>2, <1>3, <1>4, <1>5

\* The invariant survives the end of terminate's wait.
LEMMA TermWaitStep ==
    ASSUME IInv, NEW t \in Background, TermWait(t)
    PROVE  IInv'
<1> USE TaskSets, SlotStateFacts, Ranges
    DEF IInv, TypeOK, mapVars, procVars, retVars, envVars
<1>1. TypeOK'
  <2>1. ProcTypes'
    BY DEF ProcTypes, TermWait, Goto
  <2>2. PcTypes'
    BY DEF PcTypes, RequestPCs, BackgroundPCs, Suspend, KeepThread, TermWait,
         Goto
  <2>3. LocalTypes'
    BY DEF LocalTypes, TermWait, Goto
  <2>4. MapTypes' /\ RetiringTypes' /\ DirectoryTypes' /\ CounterTypes'
    BY DEF TermWait, MapTypes, RetiringTypes, DirectoryTypes, CounterTypes
  <2> QED BY <2>1, <2>2, <2>3, <2>4
<1>2. RefsPinned'
  BY DEF RefsPinned, TermWait, Goto, HoldsRef, RefPCs, PcTypes, LocalTypes
<1>3. SlotsHeld'
  BY DEF SlotsHeld, TermWait, Goto, EnsurePCs, PcTypes, LocalTypes
<1>4. RetireHeld'
  BY DEF RetireHeld, TermWait, Goto, RetirePCs, PcTypes, LocalTypes
<1>5. SingleFlight'
  BY DEF SingleFlight, TermWait, Goto, PcTypes, LocalTypes
<1> QED BY <1>1, <1>2, <1>3, <1>4, <1>5

\* The invariant survives a pass collecting the map's keys.
LEMMA CollectKeysStep ==
    ASSUME IInv, NEW t \in Background, CollectKeys(t)
    PROVE  IInv'
<1> USE TaskSets, SlotStateFacts, Ranges
    DEF IInv, TypeOK, mapVars, procVars, retVars, envVars
<1>1. TypeOK'
  <2>1. PcTypes'
    BY DEF PcTypes, RequestPCs, BackgroundPCs, Suspend, KeepThread,
         CollectKeys, Goto
  <2>2. LocalTypes'
    BY DEF LocalTypes, CollectKeys, Goto
  <2>3. MapTypes' /\ ProcTypes' /\ RetiringTypes' /\ DirectoryTypes' /\ CounterTypes'
    BY DEF CollectKeys, MapTypes, ProcTypes, RetiringTypes, DirectoryTypes,
         CounterTypes
  <2> QED BY <2>1, <2>2, <2>3
<1>2. RefsPinned'
  BY DEF RefsPinned, CollectKeys, Goto, HoldsRef, RefPCs, PcTypes, LocalTypes
<1>3. SlotsHeld'
  BY DEF SlotsHeld, CollectKeys, Goto, EnsurePCs, PcTypes, LocalTypes
<1>4. RetireHeld'
  BY DEF RetireHeld, CollectKeys, Goto, RetirePCs, PcTypes, LocalTypes
<1>5. SingleFlight'
  BY DEF SingleFlight, CollectKeys, Goto, PcTypes, LocalTypes
<1> QED BY <1>1, <1>2, <1>3, <1>4, <1>5

\* The invariant survives a pass moving to its next key.
LEMMA NextKeyStep ==
    ASSUME IInv, NEW t \in Background, NextKey(t)
    PROVE  IInv'
<1> USE TaskSets, SlotStateFacts, Ranges
    DEF IInv, TypeOK, mapVars, procVars, retVars, envVars
<1>1. TypeOK'
  <2>1. PcTypes'
    BY DEF PcTypes, RequestPCs, BackgroundPCs, Suspend, KeepThread, NextKey,
         Goto
  <2>2. LocalTypes'
    BY DEF LocalTypes, NextKey, Goto
  <2>3. DirectoryTypes'
    BY DEF DirectoryTypes, Snapshot, NoSnapshot, NextKey, Goto
  <2>4. MapTypes' /\ ProcTypes' /\ RetiringTypes' /\ CounterTypes'
    BY DEF NextKey, MapTypes, ProcTypes, RetiringTypes, CounterTypes
  <2> QED BY <2>1, <2>2, <2>3, <2>4
<1>2. RefsPinned'
  BY DEF RefsPinned, NextKey, Goto, HoldsRef, RefPCs, PcTypes, LocalTypes
<1>3. SlotsHeld'
  BY DEF SlotsHeld, NextKey, Goto, EnsurePCs, PcTypes, LocalTypes
<1>4. RetireHeld'
  BY DEF RetireHeld, NextKey, Goto, RetirePCs, PcTypes, LocalTypes
<1>5. SingleFlight'
  BY DEF SingleFlight, NextKey, Goto, PcTypes, LocalTypes
<1> QED BY <1>1, <1>2, <1>3, <1>4, <1>5

\* The invariant survives a pass reading a slot's state.
LEMMA BackgroundStateStep ==
    ASSUME IInv, NEW t \in Background, BackgroundState(t)
    PROVE  IInv'
<1> USE TaskSets, SlotStateFacts, Ranges
    DEF IInv, TypeOK, mapVars, procVars, retVars, envVars
<1>1. TypeOK'
  <2>1. PcTypes'
    BY DEF PcTypes, RequestPCs, BackgroundPCs, Suspend, KeepThread,
         BackgroundState, Goto
  <2>2. LocalTypes'
    BY DEF LocalTypes, MapTypes, RefsPinned, HoldsRef, RefPCs, BackgroundState,
         Goto
  <2>3. MapTypes' /\ ProcTypes' /\ RetiringTypes' /\ DirectoryTypes' /\ CounterTypes'
    BY DEF BackgroundState, MapTypes, ProcTypes, RetiringTypes, DirectoryTypes,
         CounterTypes
  <2> QED BY <2>1, <2>2, <2>3
<1>2. RefsPinned'
  BY DEF RefsPinned, BackgroundState, Goto, HoldsRef, RefPCs, PcTypes,
         LocalTypes
<1>3. SlotsHeld'
  BY DEF SlotsHeld, BackgroundState, Goto, EnsurePCs, PcTypes, LocalTypes
<1>4. RetireHeld'
  BY DEF RetireHeld, BackgroundState, Goto, RetirePCs, PcTypes, LocalTypes,
         RefsPinned, HoldsRef, RefPCs, MapTypes
<1>5. SingleFlight'
  BY DEF SingleFlight, BackgroundState, Goto, PcTypes, LocalTypes
<1> QED BY <1>1, <1>2, <1>3, <1>4, <1>5

\* The invariant survives the sweeper's look at a worker.
LEMMA SweepAliveStep ==
    ASSUME IInv, NEW t \in Background, SweepAlive(t)
    PROVE  IInv'
<1> USE TaskSets, SlotStateFacts, Ranges
    DEF IInv, TypeOK, mapVars, procVars, retVars, envVars
<1>1. TypeOK'
  <2>1. ProcTypes'
    BY DEF ProcTypes, SweepAlive, TryWait, Goto
  <2>2. PcTypes'
    BY DEF PcTypes, RequestPCs, BackgroundPCs, Suspend, KeepThread, SweepAlive,
         TryWait, Goto
  <2>3. MapTypes' /\ RetiringTypes' /\ LocalTypes' /\ DirectoryTypes' /\ CounterTypes'
    BY DEF SweepAlive, MapTypes, RetiringTypes, LocalTypes, DirectoryTypes,
         CounterTypes
  <2> QED BY <2>1, <2>2, <2>3
<1>2. RefsPinned'
  BY DEF RefsPinned, SweepAlive, TryWait, Goto, HoldsRef, RefPCs, PcTypes,
         LocalTypes
<1>3. SlotsHeld'
  BY DEF SlotsHeld, SweepAlive, TryWait, Goto, EnsurePCs, PcTypes, LocalTypes
<1>4. RetireHeld'
  BY DEF RetireHeld, SweepAlive, TryWait, Goto, RetirePCs, PcTypes,
         LocalTypes
<1>5. SingleFlight'
  BY DEF SingleFlight, SweepAlive, TryWait, Goto, PcTypes, LocalTypes
<1> QED BY <1>1, <1>2, <1>3, <1>4, <1>5

\* The invariant survives the kill of a slot's worker.
LEMMA SlotTerminateStep ==
    ASSUME IInv, NEW t \in Background, SlotTerminate(t)
    PROVE  IInv'
<1> USE TaskSets, SlotStateFacts, Ranges
    DEF IInv, TypeOK, mapVars, procVars, retVars, envVars
<1>1. TypeOK'
  <2>1. ProcTypes'
    BY DEF ProcTypes, SlotTerminate, Goto
  <2>2. PcTypes'
    BY DEF PcTypes, RequestPCs, BackgroundPCs, Suspend, KeepThread,
         SlotTerminate, Goto
  <2>3. MapTypes' /\ RetiringTypes' /\ LocalTypes' /\ DirectoryTypes' /\ CounterTypes'
    BY DEF SlotTerminate, MapTypes, RetiringTypes, LocalTypes, DirectoryTypes,
         CounterTypes
  <2> QED BY <2>1, <2>2, <2>3
<1>2. RefsPinned'
  BY DEF RefsPinned, SlotTerminate, Goto, HoldsRef, RefPCs, PcTypes,
         LocalTypes
<1>3. SlotsHeld'
  BY DEF SlotsHeld, SlotTerminate, Goto, EnsurePCs, PcTypes, LocalTypes
<1>4. RetireHeld'
  BY DEF RetireHeld, SlotTerminate, Goto, RetirePCs, PcTypes, LocalTypes
<1>5. SingleFlight'
  BY DEF SingleFlight, SlotTerminate, Goto, PcTypes, LocalTypes
<1> QED BY <1>1, <1>2, <1>3, <1>4, <1>5

\* The invariant survives a pass removing a key.
LEMMA RemoveKeyStep ==
    ASSUME IInv, NEW t \in Background, RemoveKey(t)
    PROVE  IInv'
<1> USE TaskSets, SlotStateFacts, Ranges
    DEF IInv, TypeOK, mapVars, procVars, retVars, envVars
<1>1. TypeOK'
  <2>1. MapTypes'
    BY DEF MapTypes, RemoveKey, Goto
  <2>2. PcTypes'
    BY DEF PcTypes, RequestPCs, BackgroundPCs, Suspend, KeepThread, RemoveKey,
         Goto
  <2>3. LocalTypes'
    BY DEF LocalTypes, RemoveKey, Goto
  <2>4. ProcTypes' /\ RetiringTypes' /\ DirectoryTypes' /\ CounterTypes'
    BY DEF RemoveKey, ProcTypes, RetiringTypes, DirectoryTypes, CounterTypes
  <2> QED BY <2>1, <2>2, <2>3, <2>4
<1>2. RefsPinned'
  BY DEF RefsPinned, RemoveKey, Goto, HoldsRef, RefPCs, PcTypes, LocalTypes,
         WriteBlocked, MapTypes
<1>3. SlotsHeld'
  BY DEF SlotsHeld, RemoveKey, Goto, EnsurePCs, PcTypes, LocalTypes
<1>4. RetireHeld'
  BY DEF RetireHeld, RemoveKey, Goto, RetirePCs, PcTypes, LocalTypes
<1>5. SingleFlight'
  BY DEF SingleFlight, RemoveKey, Goto, PcTypes, LocalTypes, MapTypes
<1> QED BY <1>1, <1>2, <1>3, <1>4, <1>5

\* The invariant survives the reconciler's user lookup.
LEMMA ReconcileUserStep ==
    ASSUME IInv, NEW t \in Background, ReconcileUser(t)
    PROVE  IInv'
<1> USE TaskSets, SlotStateFacts, Ranges
    DEF IInv, TypeOK, mapVars, procVars, retVars, envVars
<1>1. TypeOK'
  <2>1. PcTypes'
    BY DEF PcTypes, RequestPCs, BackgroundPCs, Suspend, KeepThread,
         ReconcileUser, Goto
  <2>2. DirectoryTypes'
    BY SMTT(60) DEF DirectoryTypes, Snapshot, LocalTypes, ReconcileUser, Goto
  <2>3. MapTypes' /\ ProcTypes' /\ RetiringTypes' /\ LocalTypes' /\ CounterTypes'
    BY DEF ReconcileUser, MapTypes, ProcTypes, RetiringTypes, LocalTypes,
         CounterTypes
  <2> QED BY <2>1, <2>2, <2>3
<1>2. RefsPinned'
  BY DEF RefsPinned, ReconcileUser, Goto, HoldsRef, RefPCs, PcTypes,
         LocalTypes
<1>3. SlotsHeld'
  BY DEF SlotsHeld, ReconcileUser, Goto, EnsurePCs, PcTypes, LocalTypes
<1>4. RetireHeld'
  BY DEF RetireHeld, ReconcileUser, Goto, RetirePCs, PcTypes, LocalTypes
<1>5. SingleFlight'
  BY DEF SingleFlight, ReconcileUser, Goto, PcTypes, LocalTypes
<1> QED BY <1>1, <1>2, <1>3, <1>4, <1>5

\* The invariant survives the reconciler's comparison of fingerprints.
LEMMA ReconcileBucketsStep ==
    ASSUME IInv, NEW t \in Background, ReconcileBuckets(t)
    PROVE  IInv'
<1> USE TaskSets, SlotStateFacts, Ranges
    DEF IInv, TypeOK, mapVars, procVars, retVars, envVars
<1>1. TypeOK'
  <2>1. PcTypes'
    BY DEF PcTypes, RequestPCs, BackgroundPCs, Suspend, KeepThread,
         ReconcileBuckets, Goto
  <2>2. MapTypes' /\ ProcTypes' /\ RetiringTypes' /\ LocalTypes' /\ DirectoryTypes' /\ CounterTypes'
    BY DEF ReconcileBuckets, MapTypes, ProcTypes, RetiringTypes, LocalTypes,
         DirectoryTypes, CounterTypes
  <2> QED BY <2>1, <2>2
<1>2. RefsPinned'
  BY DEF RefsPinned, ReconcileBuckets, Goto, HoldsRef, RefPCs, PcTypes,
         LocalTypes
<1>3. SlotsHeld'
  BY DEF SlotsHeld, ReconcileBuckets, Goto, EnsurePCs, PcTypes, LocalTypes
<1>4. RetireHeld'
  BY DEF RetireHeld, ReconcileBuckets, Goto, RetirePCs, PcTypes, LocalTypes
<1>5. SingleFlight'
  BY DEF SingleFlight, ReconcileBuckets, Goto, PcTypes, LocalTypes
<1> QED BY <1>1, <1>2, <1>3, <1>4, <1>5

\* The invariant survives a failing lookup of the reconciler.
LEMMA ReconcileLookupErrorStep ==
    ASSUME IInv, NEW t \in Background, ReconcileLookupError(t)
    PROVE  IInv'
<1> USE TaskSets, SlotStateFacts, Ranges
    DEF IInv, TypeOK, mapVars, procVars, retVars, envVars
<1>1. TypeOK'
  <2>1. PcTypes'
    BY DEF PcTypes, RequestPCs, BackgroundPCs, Suspend, KeepThread,
         ReconcileLookupError, Goto
  <2>2. MapTypes' /\ ProcTypes' /\ RetiringTypes' /\ LocalTypes' /\ DirectoryTypes' /\ CounterTypes'
    BY DEF ReconcileLookupError, MapTypes, ProcTypes, RetiringTypes,
         LocalTypes, DirectoryTypes, CounterTypes
  <2> QED BY <2>1, <2>2
<1>2. RefsPinned'
  BY DEF RefsPinned, ReconcileLookupError, Goto, HoldsRef, RefPCs, PcTypes,
         LocalTypes
<1>3. SlotsHeld'
  BY DEF SlotsHeld, ReconcileLookupError, Goto, EnsurePCs, PcTypes,
         LocalTypes
<1>4. RetireHeld'
  BY DEF RetireHeld, ReconcileLookupError, Goto, RetirePCs, PcTypes,
         LocalTypes
<1>5. SingleFlight'
  BY DEF SingleFlight, ReconcileLookupError, Goto, PcTypes, LocalTypes
<1> QED BY <1>1, <1>2, <1>3, <1>4, <1>5

\* The invariant survives retire_worker looking for the slot.
LEMMA RetireGetStep ==
    ASSUME IInv, NEW t \in Background, RetireGet(t)
    PROVE  IInv'
<1> USE TaskSets, SlotStateFacts, Ranges
    DEF IInv, TypeOK, mapVars, procVars, retVars, envVars
<1>1. TypeOK'
  <2>1. PcTypes'
    BY DEF PcTypes, RequestPCs, BackgroundPCs, Suspend, KeepThread, RetireGet,
         Goto
  <2>2. MapTypes' /\ ProcTypes' /\ RetiringTypes' /\ LocalTypes' /\ DirectoryTypes' /\ CounterTypes'
    BY DEF RetireGet, MapTypes, ProcTypes, RetiringTypes, LocalTypes,
         DirectoryTypes, CounterTypes
  <2> QED BY <2>1, <2>2
<1>2. RefsPinned'
  BY DEF RefsPinned, RetireGet, Goto, HoldsRef, RefPCs, PcTypes, LocalTypes
<1>3. SlotsHeld'
  BY DEF SlotsHeld, RetireGet, Goto, EnsurePCs, PcTypes, LocalTypes
<1>4. RetireHeld'
  BY DEF RetireHeld, RetireGet, Goto, RetirePCs, PcTypes, LocalTypes
<1>5. SingleFlight'
  BY DEF SingleFlight, RetireGet, Goto, PcTypes, LocalTypes
<1> QED BY <1>1, <1>2, <1>3, <1>4, <1>5

\* The invariant survives retire_worker flipping the slot to Stopped.
LEMMA RetireFlipStep ==
    ASSUME IInv, NEW t \in Background, RetireFlip(t)
    PROVE  IInv'
<1> USE TaskSets, SlotStateFacts, Ranges
    DEF IInv, TypeOK, mapVars, procVars, retVars, envVars
<1>1. TypeOK'
  <2>1. MapTypes'
    BY DEF MapTypes, RetireFlip, GotoAndNotify, StillRunning, Goto
  <2>2. PcTypes'
    BY DEF PcTypes, RequestPCs, BackgroundPCs, Suspend, KeepThread, RetireFlip,
         GotoAndNotify, StillRunning, Goto
  <2>3. ProcTypes' /\ RetiringTypes' /\ LocalTypes' /\ DirectoryTypes' /\ CounterTypes'
    BY DEF RetireFlip, ProcTypes, RetiringTypes, LocalTypes, DirectoryTypes,
         CounterTypes
  <2> QED BY <2>1, <2>2, <2>3
<1>2. RefsPinned'
  BY DEF RefsPinned, RetireFlip, GotoAndNotify, StillRunning, Goto, HoldsRef,
         RefPCs, PcTypes, LocalTypes
<1>3. SlotsHeld'
  BY DEF SlotsHeld, RetireFlip, GotoAndNotify, StillRunning, Goto, EnsurePCs,
         PcTypes, LocalTypes
<1>4. RetireHeld'
  BY DEF RetireHeld, RetireFlip, GotoAndNotify, StillRunning, Goto,
         RetirePCs, PcTypes, LocalTypes
<1>5. SingleFlight'
  <2>1. \A u \in Requests : pc'[u] = "ready" <=> pc[u] = "ready"
    BY DEF RetireFlip, Goto, GotoAndNotify, PcTypes
  <2>2. \A s \in Slots : state'[s] = Starting <=> state[s] = Starting
    <3>1. CASE StillRunning(slots[tkey[t]], twh[t])
      <4>1. slots[tkey[t]] \in Slots /\ twh[t] \in Workers
        BY DEF RetireFlip, RefsPinned, HoldsRef, RefPCs, RetireHeld, RetirePCs,
               LocalTypes, MapTypes
      <4> QED BY <3>1, <4>1 DEF RetireFlip, StillRunning, MapTypes
    <3>2. CASE ~StillRunning(slots[tkey[t]], twh[t])
      BY <3>2 DEF RetireFlip
    <3> QED BY <3>1, <3>2
  <2> QED BY <2>1, <2>2 DEF RetireFlip, SingleFlight
<1> QED BY <1>1, <1>2, <1>3, <1>4, <1>5

\* The invariant survives retire_worker appending to the retiring list.
LEMMA RetirePushStep ==
    ASSUME IInv, NEW t \in Background, RetirePush(t)
    PROVE  IInv'
<1> USE TaskSets, SlotStateFacts, Ranges
    DEF IInv, TypeOK, mapVars, procVars, retVars, envVars
<1>1. TypeOK'
  <2>1. RetiringTypes'
    BY ConstantsAssumption DEF RetiringTypes, RetireHeld, RetirePCs, LocalTypes, CounterTypes,
         RetirePush, Goto
  <2>2. PcTypes'
    BY DEF PcTypes, RequestPCs, BackgroundPCs, Suspend, KeepThread, RetirePush,
         Goto
  <2>3. LocalTypes'
    BY DEF LocalTypes, RetirePush, Goto
  <2>4. MapTypes' /\ ProcTypes' /\ DirectoryTypes' /\ CounterTypes'
    BY DEF RetirePush, MapTypes, ProcTypes, DirectoryTypes, CounterTypes
  <2> QED BY <2>1, <2>2, <2>3, <2>4
<1>2. RefsPinned'
  BY DEF RefsPinned, RetirePush, Goto, HoldsRef, RefPCs, PcTypes, LocalTypes
<1>3. SlotsHeld'
  BY DEF SlotsHeld, RetirePush, Goto, EnsurePCs, PcTypes, LocalTypes
<1>4. RetireHeld'
  BY DEF RetireHeld, RetirePush, Goto, RetirePCs, PcTypes, LocalTypes
<1>5. SingleFlight'
  BY DEF SingleFlight, RetirePush, Goto, PcTypes, LocalTypes
<1> QED BY <1>1, <1>2, <1>3, <1>4, <1>5

\* The invariant survives a task giving its thread back while it awaits a lock.
LEMMA YieldStep ==
    ASSUME IInv, NEW t \in Tasks, Yield(t)
    PROVE  IInv'
<1> USE TaskSets, SlotStateFacts, Ranges
    DEF IInv, TypeOK, mapVars, procVars, retVars, envVars
<1>1. TypeOK'
  <2>1. PcTypes'
    BY DEF PcTypes, RequestPCs, BackgroundPCs, Suspend, Yield
  <2>2. MapTypes' /\ ProcTypes' /\ RetiringTypes' /\ LocalTypes' /\ DirectoryTypes' /\ CounterTypes'
    BY DEF Yield, MapTypes, ProcTypes, RetiringTypes, LocalTypes,
         DirectoryTypes, CounterTypes
  <2> QED BY <2>1, <2>2
<1>2. RefsPinned'
  BY DEF RefsPinned, Yield, HoldsRef, RefPCs, PcTypes, LocalTypes
<1>3. SlotsHeld'
  BY DEF SlotsHeld, Yield, EnsurePCs, PcTypes, LocalTypes
<1>4. RetireHeld'
  BY DEF RetireHeld, Yield, RetirePCs, PcTypes, LocalTypes
<1>5. SingleFlight'
  BY DEF SingleFlight, Yield, PcTypes, LocalTypes
<1> QED BY <1>1, <1>2, <1>3, <1>4, <1>5

\* The invariant survives a worker process exiting by itself.
LEMMA WorkerExitsStep ==
    ASSUME IInv, NEW h \in Workers, WorkerExits(h)
    PROVE  IInv'
<1> USE TaskSets, SlotStateFacts, Ranges
    DEF IInv, TypeOK, mapVars, procVars, retVars, envVars
<1>1. TypeOK'
  <2>1. ProcTypes'
    BY DEF ProcTypes, WorkerExits
  <2>2. CounterTypes'
    BY DEF CounterTypes, WorkerExits
  <2>3. MapTypes' /\ RetiringTypes' /\ PcTypes' /\ LocalTypes' /\ DirectoryTypes'
    BY DEF WorkerExits, MapTypes, RetiringTypes, PcTypes, LocalTypes,
         DirectoryTypes
  <2> QED BY <2>1, <2>2, <2>3
<1>2. RefsPinned'
  BY DEF RefsPinned, WorkerExits, HoldsRef, RefPCs, PcTypes, LocalTypes
<1>3. SlotsHeld'
  BY DEF SlotsHeld, WorkerExits, EnsurePCs, PcTypes, LocalTypes
<1>4. RetireHeld'
  BY DEF RetireHeld, WorkerExits, RetirePCs, PcTypes, LocalTypes
<1>5. SingleFlight'
  BY DEF SingleFlight, WorkerExits, PcTypes, LocalTypes
<1> QED BY <1>1, <1>2, <1>3, <1>4, <1>5

\* The invariant survives kill_on_drop.
LEMMA DropHandleStep ==
    ASSUME IInv, NEW h \in Workers, DropHandle(h)
    PROVE  IInv'
<1> USE TaskSets, SlotStateFacts, Ranges
    DEF IInv, TypeOK, mapVars, procVars, retVars, envVars
<1>1. TypeOK'
  <2>1. ProcTypes'
    BY DEF ProcTypes, DropHandle
  <2>2. MapTypes' /\ RetiringTypes' /\ PcTypes' /\ LocalTypes' /\ DirectoryTypes' /\ CounterTypes'
    BY DEF DropHandle, MapTypes, RetiringTypes, PcTypes, LocalTypes,
         DirectoryTypes, CounterTypes
  <2> QED BY <2>1, <2>2
<1>2. RefsPinned'
  BY DEF RefsPinned, DropHandle, HoldsRef, RefPCs, PcTypes, LocalTypes
<1>3. SlotsHeld'
  BY DEF SlotsHeld, DropHandle, EnsurePCs, PcTypes, LocalTypes
<1>4. RetireHeld'
  BY DEF RetireHeld, DropHandle, RetirePCs, PcTypes, LocalTypes
<1>5. SingleFlight'
  BY DEF SingleFlight, DropHandle, PcTypes, LocalTypes
<1> QED BY <1>1, <1>2, <1>3, <1>4, <1>5

\* The invariant survives a change of the directory.
LEMMA DirectoryChangeStep ==
    ASSUME IInv, NEW k \in Keys, DirectoryChange(k)
    PROVE  IInv'
<1> USE TaskSets, SlotStateFacts, Ranges
    DEF IInv, TypeOK, mapVars, procVars, retVars, envVars
<1>1. TypeOK'
  <2>1. DirectoryTypes'
    BY DEF DirectoryTypes, Snapshot, DirectoryChange
  <2>2. CounterTypes'
    BY ConstantsAssumption DEF CounterTypes, DirectoryChange
  <2>3. MapTypes' /\ ProcTypes' /\ RetiringTypes' /\ PcTypes' /\ LocalTypes'
    BY DEF DirectoryChange, MapTypes, ProcTypes, RetiringTypes, PcTypes,
         LocalTypes
  <2> QED BY <2>1, <2>2, <2>3
<1>2. RefsPinned'
  BY DEF RefsPinned, DirectoryChange, HoldsRef, RefPCs, PcTypes, LocalTypes
<1>3. SlotsHeld'
  BY DEF SlotsHeld, DirectoryChange, EnsurePCs, PcTypes, LocalTypes
<1>4. RetireHeld'
  BY DEF RetireHeld, DirectoryChange, RetirePCs, PcTypes, LocalTypes
<1>5. SingleFlight'
  BY DEF SingleFlight, DirectoryChange, PcTypes, LocalTypes
<1> QED BY <1>1, <1>2, <1>3, <1>4, <1>5

\* The invariant survives the passing of a second.
LEMMA TickStep ==
    ASSUME IInv, Tick
    PROVE  IInv'
<1> USE TaskSets, SlotStateFacts, Ranges
    DEF IInv, TypeOK, mapVars, procVars, retVars, envVars
<1>1. TypeOK'
  <2>1. CounterTypes'
    BY DEF CounterTypes, Tick
  <2>2. MapTypes' /\ ProcTypes' /\ RetiringTypes' /\ PcTypes' /\ LocalTypes' /\ DirectoryTypes'
    BY DEF Tick, MapTypes, ProcTypes, RetiringTypes, PcTypes, LocalTypes,
         DirectoryTypes
  <2> QED BY <2>1, <2>2
<1>2. RefsPinned'
  BY DEF RefsPinned, Tick, HoldsRef, RefPCs, PcTypes, LocalTypes
<1>3. SlotsHeld'
  BY DEF SlotsHeld, Tick, EnsurePCs, PcTypes, LocalTypes
<1>4. RetireHeld'
  BY DEF RetireHeld, Tick, RetirePCs, PcTypes, LocalTypes
<1>5. SingleFlight'
  BY DEF SingleFlight, Tick, PcTypes, LocalTypes
<1> QED BY <1>1, <1>2, <1>3, <1>4, <1>5

\* The invariant holds of an empty manager.
LEMMA InitInv == Init => IInv
<1> USE TaskSets, SlotStateFacts, Ranges, ConstantsAssumption
    DEF Init, IInv
<1> SUFFICES ASSUME Init PROVE IInv
  OBVIOUS
<1>1. NoKey \in Keys
  BY DEF NoKey
<1>2. TypeOK
  BY <1>1 DEF TypeOK, MapTypes, ProcTypes, RetiringTypes, PcTypes, LocalTypes,
     DirectoryTypes, CounterTypes, Slots, Workers, Snapshot, NoSnapshot, RequestPCs, BackgroundPCs
<1>3. RefsPinned
  BY DEF RefsPinned, HoldsRef, RefPCs
<1>4. SlotsHeld /\ RetireHeld
  BY DEF SlotsHeld, EnsurePCs, RetireHeld, RetirePCs
<1>5. SingleFlight
  BY DEF SingleFlight
<1> QED BY <1>2, <1>3, <1>4, <1>5

\* Every step of the manager, and every stuttering step, preserves the invariant.
LEMMA NextInv == IInv /\ [Next]_vars => IInv'
<1> SUFFICES ASSUME IInv, [Next]_vars PROVE IInv'
  OBVIOUS
<1>1. CASE UNCHANGED vars
  BY <1>1 DEF vars, mapVars, procVars, retVars, envVars, IInv, TypeOK, MapTypes,
     ProcTypes, RetiringTypes, PcTypes, LocalTypes, DirectoryTypes, CounterTypes,
     RefsPinned, HoldsRef, SlotsHeld, RetireHeld, SingleFlight
<1>2. ASSUME NEW r \in Requests, (\E k \in Keys : Arrive(r, k)) \/ RequestStep(r)
      PROVE  IInv'
  BY <1>2,
     ArriveStep, GetRunningStateStep, GetRunningAliveStep,
     GetRunningRemoveStep, RejectStep, LookupBucketsStep,
     EnsureEntryStep, EnsureTopStep, EnsureFastAliveStep,
     EnsureSecondStep, EnsureParkStep, SpawnReadyStep, SpawnFailStep,
     FinishStep
     DEF RequestStep
<1>3. ASSUME NEW t \in Background, BackgroundStep(t) \/ ReconcileLookupError(t)
      PROVE  IInv'
  BY <1>3,
     StartDrainStep, DrainOneStep, TermWaitStep, CollectKeysStep,
     NextKeyStep, BackgroundStateStep, SweepAliveStep, SlotTerminateStep,
     RemoveKeyStep, ReconcileUserStep, ReconcileBucketsStep,
     ReconcileLookupErrorStep, RetireGetStep, RetireFlipStep,
     RetirePushStep
     DEF BackgroundStep
<1>4. ASSUME \/ \E t \in Tasks : Yield(t)
             \/ \E h \in Workers : WorkerExits(h) \/ DropHandle(h)
             \/ \E k \in Keys : DirectoryChange(k)
             \/ Tick
      PROVE  IInv'
  BY <1>4, YieldStep, WorkerExitsStep, DropHandleStep, DirectoryChangeStep, TickStep
<1> QED BY <1>1, <1>2, <1>3, <1>4 DEF Next

\* The inductive invariant holds in every reachable state of the worker manager.
THEOREM InductiveInvariant == Spec => []IInv
BY InitInv, NextInv, PTL DEF Spec

\* Every variable of the worker manager keeps its type, for any number of
\* requests, keys, threads and workers.
THEOREM TypeInvariant == Spec => []TypeOK
<1>1. IInv => TypeOK  BY DEF IInv
<1> QED BY <1>1, InductiveInvariant, PTL

\* ensure_running starts at most one worker per slot at a time, and a slot is
\* Starting exactly while some task is starting it, with any number of threads.
THEOREM SingleFlightInvariant == Spec => []SingleFlight
<1>1. IInv => SingleFlight  BY DEF IInv
<1> QED BY <1>1, InductiveInvariant, PTL

-----------------------------------------------------------------------------

\* Whose slot and whose worker: for any number of threads, and in a shutdown.

\* Where a request holds a worker's handle, and where a pass holds the one that
\* its key's slot was running.
HandlePCs == {"grAlive", "grRemove", "fastAlive", "ready", "serving"}
InspectPCs == RetirePCs \cup {"swAlive", "slotTerm", "slotTermWait"}

\* The workers that get_running finds.
Routed(h) == \E k \in Keys : slots[k] # 0 /\ state[slots[k]] = Running(h)

\* Retired workers, up to the end of their termination.
Retired(h) ==
    \/ \E x \in retiring : x.handle = h
    \/ \E t \in Background : pc[t] = "drainTermWait" /\ twh[t] = h

\* A request holds a slot only inside ensure_running, and the map files every
\* slot under the key of the requests that hold it.
SlotOwners ==
    /\ \A r \in Requests : tslot[r] # 0 => pc[r] \in EnsurePCs
    /\ \A r \in Requests : pc[r] \notin HandlePCs => twh[r] = 0
    /\ \A k \in Keys : \A r \in Requests : slots[k] # 0 /\ tslot[r] = slots[k] => tkey[r] = k
    /\ \A k1, k2 \in Keys : slots[k1] # 0 /\ slots[k1] = slots[k2] => k1 = k2

\* A worker serves the key it was spawned for.
WorkerKeys ==
    /\ \A k \in Keys : \A h \in Workers :
         slots[k] # 0 /\ state[slots[k]] = Running(h) => spawnedFor[h].key = k
    /\ \A r \in Requests : pc[r] = "ready" /\ twh[r] # 0 => spawnedFor[twh[r]].key = tkey[r]
    /\ \A t \in Background : pc[t] \in InspectPCs =>
         twh[t] \in Workers /\ spawnedFor[twh[t]].key = tkey[t]

\* Nobody but its starter knows a worker that is not ready yet.
StarterOwns ==
    \A r \in Requests : pc[r] = "ready" /\ twh[r] # 0 =>
        /\ ~Routed(twh[r]) /\ ~Retired(twh[r])
        /\ \A t \in Background : pc[t] \in InspectPCs => twh[t] # twh[r]
        /\ \A q \in Requests : pc[q] = "ready" /\ twh[q] = twh[r] => q = r

\* A worker is retired once, by the reconciler, when no slot runs it.
RetiredApart ==
    /\ \A h \in Workers : Retired(h) => ~Routed(h)
    /\ \A t \in Background : pc[t] \in RetirePCs => t = Reconciler /\ ~Retired(twh[t])
    /\ pc[Reconciler] = "rcPush" => ~Routed(twh[Reconciler])
    /\ \A x, y \in retiring : x.handle = y.handle => x = y
    /\ drain \subseteq retiring

HandleInv == SlotOwners /\ WorkerKeys /\ StarterOwns /\ RetiredApart


\* A Running state is determined by its worker.
LEMMA RunningState == \A x \in SlotState : x.st = "Running" => x.h \in Workers /\ x = Running(x.h)
BY DEF SlotState, Running, Stopped, Starting

\* What most steps leave alone: they bring no slot into the map but a Stopped
\* one, make no worker ready, and retire none.
MapFrame ==
    /\ UNCHANGED spawnedFor
    /\ \A k \in Keys : slots'[k] = slots[k] \/ slots'[k] = 0 \/ state'[slots'[k]] = Stopped
    /\ \A s \in Slots : state'[s] = state[s] \/ state'[s] = Stopped \/ state'[s] = Starting
    /\ retiring' \subseteq retiring /\ drain' \subseteq retiring'

\* Tasks keep or drop the slots that they hold.
SlotFrame ==
    /\ \A k \in Keys : slots'[k] = slots[k] \/ slots'[k] = 0
    /\ \A r \in Requests : tslot'[r] # 0 =>
         pc'[r] \in EnsurePCs /\ tslot'[r] = tslot[r] /\ tkey'[r] = tkey[r]

\* No request becomes a starter.
RequestFrame ==
    /\ \A r \in Requests : pc'[r] \notin HandlePCs => twh'[r] = 0
    /\ \A r \in Requests : pc'[r] = "ready" /\ twh'[r] # 0 =>
         pc[r] = "ready" /\ twh'[r] = twh[r] /\ tkey'[r] = tkey[r]

\* A pass takes up only a worker that its key's slot runs, and comes to push
\* only one that no slot runs any more.
BackgroundFrame ==
    /\ \A t \in Background : pc'[t] \in InspectPCs =>
         \/ /\ pc[t] \in InspectPCs /\ twh'[t] = twh[t] /\ tkey'[t] = tkey[t]
            /\ pc'[t] \in RetirePCs => pc[t] \in RetirePCs
         \/ /\ twh'[t] \in Workers /\ Routed(twh'[t]) /\ spawnedFor[twh'[t]].key = tkey'[t]
            /\ pc'[t] \in RetirePCs => t = Reconciler
    /\ pc'[Reconciler] = "rcPush" =>
         \/ pc[Reconciler] = "rcPush" /\ twh'[Reconciler] = twh[Reconciler]
         \/ ~Routed(twh[Reconciler])'
    /\ \A t \in Background : pc'[t] = "drainTermWait" => Retired(twh'[t])

\* A step with this frame retires, routes and starts no worker.
LEMMA HandleFrame ==
    ASSUME IInv, IInv', HandleInv, MapFrame, RequestFrame, BackgroundFrame, SlotOwners'
    PROVE  HandleInv'
<1> USE TaskSets, SlotStateFacts, Ranges
<1>1. \A h \in Workers : Routed(h)' => Routed(h)
  BY DEF Routed, MapFrame, IInv, TypeOK, MapTypes
<1>2. \A h : Retired(h)' => Retired(h)
  BY DEF Retired, MapFrame, BackgroundFrame
<1>3. WorkerKeys'
  <2>1. \A k \in Keys : \A h \in Workers :
          slots'[k] # 0 /\ state'[slots'[k]] = Running(h) => spawnedFor'[h].key = k
    BY DEF WorkerKeys, HandleInv, MapFrame, IInv, TypeOK, MapTypes
  <2>2. \A r \in Requests : pc'[r] = "ready" /\ twh'[r] # 0 => spawnedFor'[twh'[r]].key = tkey'[r]
    BY DEF WorkerKeys, HandleInv, MapFrame, RequestFrame
  <2>3. \A t \in Background : pc'[t] \in InspectPCs =>
          twh'[t] \in Workers /\ spawnedFor'[twh'[t]].key = tkey'[t]
    BY DEF WorkerKeys, HandleInv, MapFrame, BackgroundFrame
  <2> QED BY <2>1, <2>2, <2>3 DEF WorkerKeys
<1>4. StarterOwns'
  <2> SUFFICES ASSUME NEW r \in Requests, pc'[r] = "ready", twh'[r] # 0
               PROVE  /\ ~Routed(twh[r])' /\ ~Retired(twh[r])'
                      /\ \A t \in Background : pc'[t] \in InspectPCs => twh'[t] # twh'[r]
                      /\ \A q \in Requests : pc'[q] = "ready" /\ twh'[q] = twh'[r] => q = r
    BY DEF StarterOwns
  <2>1. pc[r] = "ready" /\ twh'[r] = twh[r] /\ twh[r] # 0 /\ twh[r] \in Workers
    BY DEF RequestFrame, IInv, TypeOK, LocalTypes
  <2>2. ~Routed(twh[r]) /\ ~Retired(twh[r])
    BY <2>1 DEF StarterOwns, HandleInv
  <2>3. ~Routed(twh[r])' /\ ~Retired(twh[r])'
    <3>1. PICK h \in Workers : h = twh[r] /\ h = twh'[r]
      BY <2>1
    <3>2. ~Routed(h)' /\ ~Retired(h)'
      BY <2>2, <3>1, <1>1, <1>2
    <3> QED BY <3>1, <3>2 DEF Routed, Retired
  <2>4. \A t \in Background : pc'[t] \in InspectPCs => twh'[t] # twh'[r]
    BY <2>1, <2>2 DEF StarterOwns, HandleInv, BackgroundFrame
  <2>5. \A q \in Requests : pc'[q] = "ready" /\ twh'[q] = twh'[r] => q = r
    BY <2>1 DEF StarterOwns, HandleInv, RequestFrame
  <2> QED BY <2>3, <2>4, <2>5
<1>5. RetiredApart'
  <2>1. \A h \in Workers : Retired(h)' => ~Routed(h)'
    BY <1>1, <1>2 DEF RetiredApart, HandleInv
  <2>2. \A t \in Background : pc'[t] \in RetirePCs => t = Reconciler /\ ~Retired(twh[t])'
    <3> SUFFICES ASSUME NEW t \in Background, pc'[t] \in RetirePCs
                 PROVE  t = Reconciler /\ ~Retired(twh[t])'
      OBVIOUS
    <3>1. t = Reconciler /\ ~Retired(twh'[t])
      BY DEF RetiredApart, HandleInv, BackgroundFrame, InspectPCs
    <3> QED BY <3>1, <1>2 DEF Retired
  <2>3. pc'[Reconciler] = "rcPush" => ~Routed(twh[Reconciler])'
    <3> SUFFICES ASSUME pc'[Reconciler] = "rcPush", pc[Reconciler] = "rcPush",
                        twh'[Reconciler] = twh[Reconciler]
                 PROVE  ~Routed(twh[Reconciler])'
      BY DEF BackgroundFrame
    <3>1. twh'[Reconciler] \in Workers
      BY DEF IInv, RetireHeld, RetirePCs, Background
    <3>2. ~Routed(twh'[Reconciler])
      BY DEF RetiredApart, HandleInv
    <3> QED BY <3>1, <3>2, <1>1 DEF Routed
  <2>4. \A x, y \in retiring' : x.handle = y.handle => x = y
    BY DEF RetiredApart, HandleInv, MapFrame
  <2> QED BY <2>1, <2>2, <2>3, <2>4 DEF RetiredApart, MapFrame
<1> QED BY <1>3, <1>4, <1>5 DEF HandleInv

\* Slots keep their owners when tasks only keep or drop them.
LEMMA SlotOwnersFrame ==
    ASSUME HandleInv, SlotFrame, RequestFrame
    PROVE  SlotOwners'
BY DEF HandleInv, SlotOwners, SlotFrame, RequestFrame

\* The request steps with that frame.
LEMMA RequestHandleFrames ==
    ASSUME IInv, HandleInv, NEW r \in Requests,
           (\E k \in Keys : Arrive(r, k)) \/ GetRunningState(r) \/
           GetRunningAlive(r) \/ GetRunningRemove(r) \/ Reject(r)
           \/ LookupBuckets(r) \/ EnsureTop(r) \/
           EnsureFastAlive(r) \/ EnsurePark(r) \/ SpawnFail(r) \/
           Finish(r)
    PROVE  MapFrame /\ RequestFrame /\ BackgroundFrame /\ SlotOwners'
<1> USE TaskSets, SlotStateFacts, Ranges
    DEF IInv, TypeOK, HandleInv, mapVars, procVars, retVars, envVars, MapTypes, PcTypes, LocalTypes
<1>1. CASE \E k \in Keys : Arrive(r, k)
  <2>1. MapFrame
    BY <1>1 DEF MapFrame, Arrive, Goto, RetiredApart
  <2>2. SlotFrame
    BY <1>1 DEF SlotFrame, Arrive, Goto, SlotOwners, EnsurePCs
  <2>3. RequestFrame
    BY <1>1 DEF RequestFrame, Arrive, Goto, SlotOwners, HandlePCs
  <2>4. BackgroundFrame
    BY <1>1 DEF BackgroundFrame, Arrive, Goto, Retired, Background
  <2> QED BY <2>1, <2>2, <2>3, <2>4, SlotOwnersFrame
<1>2. CASE GetRunningState(r)
  <2>1. MapFrame
    BY <1>2 DEF MapFrame, GetRunningState, Goto, RetiredApart
  <2>2. SlotFrame
    BY <1>2 DEF SlotFrame, GetRunningState, Goto, SlotOwners, EnsurePCs
  <2>3. RequestFrame
    BY <1>2 DEF RequestFrame, GetRunningState, Goto, SlotOwners, HandlePCs
  <2>4. BackgroundFrame
    BY <1>2 DEF BackgroundFrame, GetRunningState, Goto, Retired, Background
  <2> QED BY <2>1, <2>2, <2>3, <2>4, SlotOwnersFrame
<1>3. CASE GetRunningAlive(r)
  <2>1. MapFrame
    BY <1>3 DEF MapFrame, GetRunningAlive, Route, Goto, RetiredApart
  <2>2. SlotFrame
    BY <1>3 DEF SlotFrame, GetRunningAlive, Route, Goto, SlotOwners, EnsurePCs
  <2>3. RequestFrame
    BY <1>3 DEF RequestFrame, GetRunningAlive, Route, Goto, SlotOwners,
         HandlePCs
  <2>4. BackgroundFrame
    BY <1>3 DEF BackgroundFrame, GetRunningAlive, Route, Goto, Retired,
         Background
  <2> QED BY <2>1, <2>2, <2>3, <2>4, SlotOwnersFrame
<1>4. CASE GetRunningRemove(r)
  <2>1. MapFrame
    BY <1>4 DEF MapFrame, GetRunningRemove, Goto, RetiredApart
  <2>2. SlotFrame
    BY <1>4 DEF SlotFrame, GetRunningRemove, Goto, SlotOwners, EnsurePCs
  <2>3. RequestFrame
    BY <1>4 DEF RequestFrame, GetRunningRemove, Goto, SlotOwners, HandlePCs
  <2>4. BackgroundFrame
    BY <1>4 DEF BackgroundFrame, GetRunningRemove, Goto, Retired, Background
  <2> QED BY <2>1, <2>2, <2>3, <2>4, SlotOwnersFrame
<1>5. CASE Reject(r)
  <2>1. MapFrame
    BY <1>5 DEF MapFrame, Reject, Goto, RetiredApart
  <2>2. SlotFrame
    BY <1>5 DEF SlotFrame, Reject, Goto, SlotOwners, EnsurePCs
  <2>3. RequestFrame
    BY <1>5 DEF RequestFrame, Reject, Goto, SlotOwners, HandlePCs
  <2>4. BackgroundFrame
    BY <1>5 DEF BackgroundFrame, Reject, Goto, Retired, Background
  <2> QED BY <2>1, <2>2, <2>3, <2>4, SlotOwnersFrame
<1>6. CASE LookupBuckets(r)
  <2>1. MapFrame
    BY <1>6 DEF MapFrame, LookupBuckets, Goto, RetiredApart
  <2>2. SlotFrame
    BY <1>6 DEF SlotFrame, LookupBuckets, Goto, SlotOwners, EnsurePCs
  <2>3. RequestFrame
    BY <1>6 DEF RequestFrame, LookupBuckets, Goto, SlotOwners, HandlePCs
  <2>4. BackgroundFrame
    BY <1>6 DEF BackgroundFrame, LookupBuckets, Goto, Retired, Background
  <2> QED BY <2>1, <2>2, <2>3, <2>4, SlotOwnersFrame
<1>7. CASE EnsureTop(r)
  <2>1. MapFrame
    BY <1>7 DEF MapFrame, EnsureTop, Route, Goto, RetiredApart
  <2>2. SlotFrame
    BY <1>7 DEF SlotFrame, EnsureTop, Route, Goto, SlotOwners, EnsurePCs
  <2>3. RequestFrame
    BY <1>7 DEF RequestFrame, EnsureTop, Route, Goto, SlotOwners, HandlePCs
  <2>4. BackgroundFrame
    BY <1>7 DEF BackgroundFrame, EnsureTop, Route, Goto, Retired, Background
  <2> QED BY <2>1, <2>2, <2>3, <2>4, SlotOwnersFrame
<1>8. CASE EnsureFastAlive(r)
  <2>1. MapFrame
    BY <1>8 DEF MapFrame, EnsureFastAlive, Route, Goto, RetiredApart
  <2>2. SlotFrame
    BY <1>8 DEF SlotFrame, EnsureFastAlive, Route, Goto, SlotOwners, EnsurePCs
  <2>3. RequestFrame
    BY <1>8 DEF RequestFrame, EnsureFastAlive, Route, Goto, SlotOwners,
         HandlePCs
  <2>4. BackgroundFrame
    BY <1>8 DEF BackgroundFrame, EnsureFastAlive, Route, Goto, Retired,
         Background
  <2> QED BY <2>1, <2>2, <2>3, <2>4, SlotOwnersFrame
<1>9. CASE EnsurePark(r)
  <2>1. MapFrame
    BY <1>9 DEF MapFrame, EnsurePark, Goto, RetiredApart
  <2>2. SlotFrame
    BY <1>9 DEF SlotFrame, EnsurePark, Goto, SlotOwners, EnsurePCs
  <2>3. RequestFrame
    BY <1>9 DEF RequestFrame, EnsurePark, Goto, SlotOwners, HandlePCs
  <2>4. BackgroundFrame
    BY <1>9 DEF BackgroundFrame, EnsurePark, Goto, Retired, Background
  <2> QED BY <2>1, <2>2, <2>3, <2>4, SlotOwnersFrame
<1>10. CASE SpawnFail(r)
  <2>1. MapFrame
    BY <1>10 DEF MapFrame, SpawnFail, GotoAndNotify, RetiredApart, SlotsHeld,
         EnsurePCs
  <2>2. SlotFrame
    BY <1>10 DEF SlotFrame, SpawnFail, GotoAndNotify, SlotOwners, EnsurePCs
  <2>3. RequestFrame
    BY <1>10 DEF RequestFrame, SpawnFail, GotoAndNotify, SlotOwners, HandlePCs
  <2>4. BackgroundFrame
    BY <1>10 DEF BackgroundFrame, SpawnFail, GotoAndNotify, Retired,
         Background
  <2> QED BY <2>1, <2>2, <2>3, <2>4, SlotOwnersFrame
<1>11. CASE Finish(r)
  <2>1. MapFrame
    BY <1>11 DEF MapFrame, Finish, Goto, RetiredApart
  <2>2. SlotFrame
    BY <1>11 DEF SlotFrame, Finish, Goto, SlotOwners, EnsurePCs
  <2>3. RequestFrame
    BY <1>11 DEF RequestFrame, Finish, Goto, SlotOwners, HandlePCs
  <2>4. BackgroundFrame
    BY <1>11 DEF BackgroundFrame, Finish, Goto, Retired, Background
  <2> QED BY <2>1, <2>2, <2>3, <2>4, SlotOwnersFrame
<1> QED BY <1>1, <1>2, <1>3, <1>4, <1>5, <1>6, <1>7, <1>8, <1>9, <1>10, <1>11

\* The background steps with that frame.
LEMMA BackgroundHandleFrames ==
    ASSUME IInv, HandleInv, NEW t \in Background,
           StartDrain(t) \/ DrainOne(t) \/ TermWait(t) \/ CollectKeys(t) \/
           NextKey(t) \/ SweepAlive(t) \/ SlotTerminate(t) \/
           RemoveKey(t) \/ ReconcileUser(t) \/ ReconcileBuckets(t)
           \/ ReconcileLookupError(t)
    PROVE  MapFrame /\ RequestFrame /\ BackgroundFrame /\ SlotOwners'
<1> USE TaskSets, SlotStateFacts, Ranges
    DEF IInv, TypeOK, HandleInv, mapVars, procVars, retVars, envVars, MapTypes, PcTypes, LocalTypes
<1>1. CASE StartDrain(t)
  <2>1. MapFrame
    BY <1>1 DEF MapFrame, StartDrain, Goto, RetiredApart
  <2>2. SlotFrame /\ RequestFrame
    BY <1>1 DEF SlotFrame, RequestFrame, StartDrain, Goto, SlotOwners
  <2>3. BackgroundFrame
    BY <1>1 DEF BackgroundFrame, StartDrain, Goto, Retired, RetiredApart,
         InspectPCs, RetirePCs, Background
  <2> QED BY <2>1, <2>2, <2>3, SlotOwnersFrame
<1>2. CASE DrainOne(t)
  <2>1. MapFrame
    BY <1>2 DEF MapFrame, DrainOne, Goto, RetiredApart
  <2>2. SlotFrame /\ RequestFrame
    BY <1>2 DEF SlotFrame, RequestFrame, DrainOne, Goto, SlotOwners
  <2>3. BackgroundFrame
    BY <1>2 DEF BackgroundFrame, DrainOne, Goto, Retired, RetiredApart,
         InspectPCs, RetirePCs, Background
  <2> QED BY <2>1, <2>2, <2>3, SlotOwnersFrame
<1>3. CASE TermWait(t)
  <2>1. MapFrame
    BY <1>3 DEF MapFrame, TermWait, Goto, RetiredApart
  <2>2. SlotFrame /\ RequestFrame
    BY <1>3 DEF SlotFrame, RequestFrame, TermWait, Goto, SlotOwners
  <2>3. BackgroundFrame
    BY <1>3 DEF BackgroundFrame, TermWait, Goto, Retired, RetiredApart,
         InspectPCs, RetirePCs, Background
  <2> QED BY <2>1, <2>2, <2>3, SlotOwnersFrame
<1>4. CASE CollectKeys(t)
  <2>1. MapFrame
    BY <1>4 DEF MapFrame, CollectKeys, Goto, RetiredApart
  <2>2. SlotFrame /\ RequestFrame
    BY <1>4 DEF SlotFrame, RequestFrame, CollectKeys, Goto, SlotOwners
  <2>3. BackgroundFrame
    BY <1>4 DEF BackgroundFrame, CollectKeys, Goto, Retired, RetiredApart,
         InspectPCs, RetirePCs, Background
  <2> QED BY <2>1, <2>2, <2>3, SlotOwnersFrame
<1>5. CASE NextKey(t)
  <2>1. MapFrame
    BY <1>5 DEF MapFrame, NextKey, Goto, RetiredApart
  <2>2. SlotFrame /\ RequestFrame
    BY <1>5 DEF SlotFrame, RequestFrame, NextKey, Goto, SlotOwners
  <2>3. BackgroundFrame
    BY <1>5 DEF BackgroundFrame, NextKey, Goto, Retired, RetiredApart,
         InspectPCs, RetirePCs, Background
  <2> QED BY <2>1, <2>2, <2>3, SlotOwnersFrame
<1>6. CASE SweepAlive(t)
  <2>1. MapFrame
    BY <1>6 DEF MapFrame, SweepAlive, Goto, RetiredApart
  <2>2. SlotFrame /\ RequestFrame
    BY <1>6 DEF SlotFrame, RequestFrame, SweepAlive, Goto, SlotOwners
  <2>3. BackgroundFrame
    BY <1>6 DEF BackgroundFrame, SweepAlive, Goto, Retired, RetiredApart,
         InspectPCs, RetirePCs, Background
  <2> QED BY <2>1, <2>2, <2>3, SlotOwnersFrame
<1>7. CASE SlotTerminate(t)
  <2>1. MapFrame
    BY <1>7 DEF MapFrame, SlotTerminate, Goto, RetiredApart
  <2>2. SlotFrame /\ RequestFrame
    BY <1>7 DEF SlotFrame, RequestFrame, SlotTerminate, Goto, SlotOwners
  <2>3. BackgroundFrame
    BY <1>7 DEF BackgroundFrame, SlotTerminate, Goto, Retired, RetiredApart,
         InspectPCs, RetirePCs, Background
  <2> QED BY <2>1, <2>2, <2>3, SlotOwnersFrame
<1>8. CASE RemoveKey(t)
  <2>1. MapFrame
    BY <1>8 DEF MapFrame, RemoveKey, Goto, RetiredApart
  <2>2. SlotFrame /\ RequestFrame
    BY <1>8 DEF SlotFrame, RequestFrame, RemoveKey, Goto, SlotOwners
  <2>3. BackgroundFrame
    BY <1>8 DEF BackgroundFrame, RemoveKey, Goto, Retired, RetiredApart,
         InspectPCs, RetirePCs, Background
  <2> QED BY <2>1, <2>2, <2>3, SlotOwnersFrame
<1>9. CASE ReconcileUser(t)
  <2>1. MapFrame
    BY <1>9 DEF MapFrame, ReconcileUser, Goto, RetiredApart
  <2>2. SlotFrame /\ RequestFrame
    BY <1>9 DEF SlotFrame, RequestFrame, ReconcileUser, Goto, SlotOwners
  <2>3. BackgroundFrame
    BY <1>9 DEF BackgroundFrame, ReconcileUser, Goto, Retired, RetiredApart,
         InspectPCs, RetirePCs, Background
  <2> QED BY <2>1, <2>2, <2>3, SlotOwnersFrame
<1>10. CASE ReconcileBuckets(t)
  <2>1. MapFrame
    BY <1>10 DEF MapFrame, ReconcileBuckets, Goto, RetiredApart
  <2>2. SlotFrame /\ RequestFrame
    BY <1>10 DEF SlotFrame, RequestFrame, ReconcileBuckets, Goto, SlotOwners
  <2>3. BackgroundFrame
    BY <1>10 DEF BackgroundFrame, ReconcileBuckets, Goto, Retired,
         RetiredApart, InspectPCs, RetirePCs, Background
  <2> QED BY <2>1, <2>2, <2>3, SlotOwnersFrame
<1>11. CASE ReconcileLookupError(t)
  <2>1. MapFrame
    BY <1>11 DEF MapFrame, ReconcileLookupError, Goto, RetiredApart
  <2>2. SlotFrame /\ RequestFrame
    BY <1>11 DEF SlotFrame, RequestFrame, ReconcileLookupError, Goto,
         SlotOwners
  <2>3. BackgroundFrame
    BY <1>11 DEF BackgroundFrame, ReconcileLookupError, Goto, Retired,
         RetiredApart, InspectPCs, RetirePCs, Background
  <2> QED BY <2>1, <2>2, <2>3, SlotOwnersFrame
<1> QED BY <1>1, <1>2, <1>3, <1>4, <1>5, <1>6, <1>7, <1>8, <1>9, <1>10, <1>11

\* The steps of the environment have it too.
LEMMA OtherHandleFrames ==
    ASSUME IInv, HandleInv,
           \/ \E t \in Tasks : Yield(t)
           \/ \E h \in Workers : WorkerExits(h) \/ DropHandle(h)
           \/ \E k \in Keys : DirectoryChange(k)
           \/ Tick \/ UNCHANGED vars
    PROVE  MapFrame /\ RequestFrame /\ BackgroundFrame /\ SlotOwners'
<1>1. UNCHANGED <<slots, state, spawnedFor, retiring, drain, pc, tkey, tslot, twh>>
  BY DEF Yield, WorkerExits, DropHandle, DirectoryChange, Tick, vars, mapVars,
         procVars, retVars, envVars
<1> QED BY <1>1 DEF MapFrame, RequestFrame, BackgroundFrame, HandleInv, SlotOwners,
                    RetiredApart, Retired

\* ensure_running finds the key's slot, or files a new one under the key.
LEMMA EnsureEntryHandles ==
    ASSUME IInv, IInv', HandleInv, NEW r \in Requests, EnsureEntry(r)
    PROVE  HandleInv'
<1> USE TaskSets, SlotStateFacts, Ranges
    DEF IInv, TypeOK, HandleInv, mapVars, procVars, retVars, envVars, MapTypes, PcTypes, LocalTypes
<1>1. \/ slots[tkey[r]] # 0 /\ UNCHANGED <<slots, state>> /\ tslot'[r] = slots[tkey[r]]
      \/ \E s \in Slots \ LiveSlots :
           /\ slots' = [slots EXCEPT ![tkey[r]] = s]
           /\ state' = [state EXCEPT ![s] = Stopped]
           /\ tslot'[r] = s
  BY DEF EnsureEntry
<1>2. /\ \A q \in Requests \ {r} : tslot'[q] = tslot[q] /\ pc'[q] = pc[q]
      /\ pc'[r] = "top" /\ pc[r] = "entry" /\ \A t \in Background : pc'[t] = pc[t]
      /\ UNCHANGED <<spawnedFor, retiring, drain, tkey, twh>>
  BY DEF EnsureEntry, Goto
<1>3. MapFrame
  BY <1>1, <1>2 DEF MapFrame, RetiredApart
<1>4. RequestFrame
  BY <1>2 DEF RequestFrame, SlotOwners, HandlePCs
<1>5. BackgroundFrame
  BY <1>2 DEF BackgroundFrame, Retired, Background
<1>6. SlotOwners'
  <2>1. /\ \A q \in Requests : tslot'[q] # 0 => pc'[q] \in EnsurePCs
        /\ \A q \in Requests : pc'[q] \notin HandlePCs => twh'[q] = 0
    BY <1>2 DEF SlotOwners, EnsurePCs, HandlePCs
  <2>2. CASE slots[tkey[r]] # 0 /\ UNCHANGED <<slots, state>> /\ tslot'[r] = slots[tkey[r]]
    BY <1>2, <2>1, <2>2 DEF SlotOwners
  <2>3. ASSUME NEW s \in Slots \ LiveSlots, slots' = [slots EXCEPT ![tkey[r]] = s], tslot'[r] = s
        PROVE  SlotOwners'
    <3>1. /\ \A k \in Keys : slots[k] # s
          /\ \A q \in Requests : tslot[q] # s
          /\ \A k \in Keys : slots'[k] = IF k = tkey[r] THEN s ELSE slots[k]
      BY <2>3 DEF LiveSlots
    <3> QED BY <1>2, <2>1, <2>3, <3>1 DEF SlotOwners
  <2> QED BY <1>1, <2>2, <2>3
<1> QED BY <1>3, <1>4, <1>5, <1>6, HandleFrame

\* A pass takes the handle of a Running slot, which the map files under its key.
LEMMA BackgroundStateHandles ==
    ASSUME IInv, IInv', HandleInv, NEW t \in Background, BackgroundState(t)
    PROVE  HandleInv'
<1> USE TaskSets, SlotStateFacts, Ranges
    DEF IInv, TypeOK, HandleInv, mapVars, procVars, retVars, envVars, MapTypes, PcTypes, LocalTypes
<1>1. /\ UNCHANGED <<slots, state, spawnedFor, retiring, drain, tkey, tslot>>
      /\ \A u \in Tasks \ {t} : twh'[u] = twh[u] /\ pc'[u] = pc[u]
      /\ pc'[t] \in {"swAlive", "next", "slotTerm", "remove", "rcUser"}
      /\ pc'[t] = "rcUser" => t = Reconciler
  BY DEF BackgroundState, Goto
<1>2. pc'[t] \in InspectPCs => twh'[t] \in Workers /\ Routed(twh'[t]) /\ spawnedFor[twh'[t]].key = tkey'[t]
  <2> SUFFICES ASSUME pc'[t] \in InspectPCs PROVE twh'[t] \in Workers /\ Routed(twh'[t]) /\ spawnedFor[twh'[t]].key = tkey'[t]
    OBVIOUS
  <2> DEFINE s == slots[tkey[t]]
  <2>1. s \in Slots
    BY DEF BackgroundState, RefsPinned, HoldsRef, RefPCs
  <2>2. state[s].st = "Running" /\ twh'[t] = state[s].h
    BY <1>1 DEF BackgroundState, Goto, InspectPCs, RetirePCs
  <2>3. state[s].h \in Workers /\ state[s] = Running(state[s].h)
    BY <2>1, <2>2, RunningState
  <2> QED BY <1>1, <2>1, <2>2, <2>3 DEF Routed, WorkerKeys
<1>3. MapFrame /\ SlotFrame /\ RequestFrame
  BY <1>1, ZenonT(60) DEF MapFrame, SlotFrame, RequestFrame, RetiredApart, SlotOwners
<1>4. BackgroundFrame
  BY <1>1, <1>2 DEF BackgroundFrame, Retired, Background, RetirePCs
<1> QED BY <1>3, <1>4, SlotOwnersFrame, HandleFrame

\* retire_worker comes to push a worker that is in no slot: the key is absent,
\* or its slot has been flipped, or it runs another worker.
LEMMA RetireHandles ==
    ASSUME IInv, IInv', HandleInv, NEW t \in Background, RetireGet(t) \/ RetireFlip(t)
    PROVE  HandleInv'
<1> USE TaskSets, SlotStateFacts, Ranges
    DEF IInv, TypeOK, HandleInv, mapVars, procVars, retVars, envVars, MapTypes, PcTypes, LocalTypes
<1>1. /\ UNCHANGED <<slots, spawnedFor, retiring, drain, tkey, tslot, twh>>
      /\ \A u \in Background \ {t} : pc'[u] = pc[u]
      /\ \A r \in Requests : pc'[r] = pc[r] \/ (pc[r] = "wait" /\ pc'[r] = "top")
      /\ pc[t] \in {"rcRetire", "rcRetState"} /\ pc'[t] \in {"rcRetState", "rcPush"}
  <2>1. UNCHANGED <<slots, spawnedFor, retiring, drain, tkey, tslot, twh>>
    BY DEF RetireGet, RetireFlip
  <2>2. pc[t] \in {"rcRetire", "rcRetState"} /\ t \in Tasks
    BY DEF RetireGet, RetireFlip
  <2>3. \/ Goto(t, "rcPush") \/ Goto(t, "rcRetState")
        \/ GotoAndNotify(t, "rcPush", slots[tkey[t]])
    BY DEF RetireGet, RetireFlip
  <2>4. CASE Goto(t, "rcPush") \/ Goto(t, "rcRetState")
    BY <2>1, <2>2, <2>4 DEF Goto
  <2>5. CASE GotoAndNotify(t, "rcPush", slots[tkey[t]])
    <3>1. \A u \in Background : pc'[u] = IF u = t THEN "rcPush" ELSE pc[u]
      BY <2>5 DEF GotoAndNotify
    <3>2. \A r \in Requests : pc'[r] = pc[r] \/ (pc[r] = "wait" /\ pc'[r] = "top")
      BY <2>5 DEF GotoAndNotify
    <3> QED BY <2>1, <2>2, <3>1, <3>2
  <2> QED BY <2>3, <2>4, <2>5
<1>2. \A s \in Slots : state'[s] = state[s] \/ state'[s] = Stopped
  BY DEF RetireGet, RetireFlip, RefsPinned, HoldsRef, RefPCs
<1>3. t = Reconciler /\ twh[t] \in Workers /\ spawnedFor[twh[t]].key = tkey[t]
  BY <1>1 DEF RetiredApart, RetirePCs, WorkerKeys, InspectPCs
<1>4. pc'[t] = "rcPush" => ~Routed(twh[t])'
  <2> SUFFICES ASSUME pc'[t] = "rcPush",
                      NEW k \in Keys, slots[k] # 0, state'[slots[k]] = Running(twh[t])
               PROVE  FALSE
    BY <1>1 DEF Routed
  <2>1. k = tkey[t]
    BY <1>2, <1>3 DEF WorkerKeys
  <2>2. RetireFlip(t)
    BY <2>1 DEF RetireGet, Goto
  <2>3. state' = [state EXCEPT ![slots[k]] = Stopped] \/ state'[slots[k]] # Running(twh[t])
    BY <2>1, <2>2 DEF RetireFlip, StillRunning
  <2> QED BY <2>3, <1>3
<1>5. MapFrame /\ SlotFrame /\ RequestFrame
  BY <1>1, <1>2 DEF MapFrame, SlotFrame, RequestFrame, RetiredApart, SlotOwners, EnsurePCs, HandlePCs
<1>6. BackgroundFrame
  BY <1>1, <1>3, <1>4 DEF BackgroundFrame, Retired, Background, RetirePCs, InspectPCs
<1> QED BY <1>5, <1>6, SlotOwnersFrame, HandleFrame

\* A new worker is known to its starter alone.
LEMMA EnsureSecondHandles ==
    ASSUME IInv, IInv', HandleInv, NEW r \in Requests, EnsureSecond(r)
    PROVE  HandleInv'
<1> USE TaskSets, SlotStateFacts, Ranges
    DEF IInv, TypeOK, HandleInv, mapVars, procVars, retVars, envVars, MapTypes, PcTypes, LocalTypes
<1>1. /\ UNCHANGED <<slots, retiring, drain, tkey, tslot>>
      /\ \A u \in Tasks \ {r} : pc'[u] = pc[u] /\ twh'[u] = twh[u]
      /\ pc[r] = "second" /\ pc'[r] \in {"park", "ready"} /\ twh[r] = 0 /\ tslot[r] \in Slots
      /\ pc'[r] = "park" => twh'[r] = 0
      /\ \A s \in Slots : state'[s] = state[s] \/ state'[s] = Starting
  BY SMTT(60) DEF EnsureSecond, SpawnChild, Goto, SlotOwners, HandlePCs, SlotsHeld, EnsurePCs
<1>2. SlotOwners'
  BY <1>1 DEF SlotOwners, EnsurePCs, HandlePCs
<1>3. CASE UNCHANGED <<spawnedFor, twh>>
  <2>1. MapFrame /\ RequestFrame
    BY <1>1, <1>3 DEF MapFrame, RequestFrame, RetiredApart, SlotOwners, HandlePCs
  <2>2. BackgroundFrame
    BY <1>1, <1>3 DEF BackgroundFrame, Retired, Background
  <2> QED BY <1>2, <2>1, <2>2, HandleFrame
<1>4. ASSUME NEW w \in Workers, w \notin HeldWorkers, pc'[r] = "ready",
             twh' = [twh EXCEPT ![r] = w],
             spawnedFor' = [spawnedFor EXCEPT ![w] = [key |-> tkey[r], fp |-> snap[r]]]
      PROVE  HandleInv'
  <2>1. /\ \A t \in Tasks : twh[t] # w
        /\ \A x \in retiring : x.handle # w
        /\ \A k \in Keys : slots[k] # 0 => state[slots[k]].h # w
    BY <1>4 DEF HeldWorkers, LiveSlots
  <2>2. /\ \A h \in Workers : Routed(h)' => Routed(h) /\ h # w
        /\ \A k \in Keys : \A h \in Workers :
             slots'[k] # 0 /\ state'[slots'[k]] = Running(h) => state[slots[k]] = Running(h) /\ h # w
    BY <1>1, <2>1 DEF Routed, Running
  <2>3. \A h : Retired(h)' => Retired(h) /\ h # w
    BY <1>1, <2>1 DEF Retired
  <2>4. /\ \A h \in Workers \ {w} : spawnedFor'[h] = spawnedFor[h]
        /\ spawnedFor'[w].key = tkey[r] /\ twh'[r] = w
    BY <1>4 DEF ProcTypes
  <2>5. \A q \in Requests : pc'[q] = "ready" /\ twh'[q] # 0 =>
          q = r \/ (pc[q] = "ready" /\ twh'[q] = twh[q] /\ twh[q] # w /\ twh[q] \in Workers)
    BY <1>1, <2>1
  <2>6. \A t \in Background : pc'[t] \in InspectPCs =>
          pc[t] \in InspectPCs /\ twh'[t] = twh[t] /\ twh[t] # w /\ twh[t] \in Workers
    BY <1>1, <2>1 DEF WorkerKeys
  <2>7. WorkerKeys'
    <3>1. \A k \in Keys : \A h \in Workers :
            slots'[k] # 0 /\ state'[slots'[k]] = Running(h) => spawnedFor'[h].key = k
      BY <1>1, <2>2, <2>4, SMTT(60) DEF WorkerKeys
    <3>2. \A q \in Requests : pc'[q] = "ready" /\ twh'[q] # 0 => spawnedFor'[twh'[q]].key = tkey'[q]
      BY <1>1, <2>4, <2>5 DEF WorkerKeys
    <3>3. \A t \in Background : pc'[t] \in InspectPCs =>
            twh'[t] \in Workers /\ spawnedFor'[twh'[t]].key = tkey'[t]
      BY <1>1, <2>4, <2>6 DEF WorkerKeys
    <3> QED BY <3>1, <3>2, <3>3 DEF WorkerKeys
  <2>8. StarterOwns'
    <3> SUFFICES ASSUME NEW q \in Requests, pc'[q] = "ready", twh'[q] # 0
                 PROVE  /\ ~Routed(twh[q])' /\ ~Retired(twh[q])'
                        /\ \A t \in Background : pc'[t] \in InspectPCs => twh'[t] # twh'[q]
                        /\ \A p \in Requests : pc'[p] = "ready" /\ twh'[p] = twh'[q] => p = q
      BY DEF StarterOwns
    <3>1. PICK h \in Workers : h = twh'[q]
      BY <2>4, <2>5
    <3>2. ~Routed(h)' /\ ~Retired(h)'
      BY <3>1, <2>2, <2>3, <2>4, <2>5 DEF StarterOwns
    <3>3. ~Routed(twh[q])' /\ ~Retired(twh[q])'
      <4>1. ~Routed(twh[q])'
        BY <3>1, <3>2 DEF Routed
      <4>2. ~Retired(twh[q])'
        BY <3>1, <3>2 DEF Retired
      <4> QED BY <4>1, <4>2
    <3>4. \A t \in Background : pc'[t] \in InspectPCs => twh'[t] # twh'[q]
      BY <2>4, <2>5, <2>6 DEF StarterOwns
    <3>5. \A p \in Requests : pc'[p] = "ready" /\ twh'[p] = twh'[q] => p = q
      BY <2>4, <2>5 DEF StarterOwns
    <3> QED BY <3>3, <3>4, <3>5
  <2>9. RetiredApart'
    <3>1. \A t \in Background : pc'[t] \in RetirePCs => t = Reconciler /\ ~Retired(twh[t])'
      <4> SUFFICES ASSUME NEW t \in Background, pc'[t] \in RetirePCs
                   PROVE  t = Reconciler /\ ~Retired(twh[t])'
        OBVIOUS
      <4>1. t = Reconciler /\ ~Retired(twh'[t])
        BY <1>1 DEF RetiredApart
      <4> QED BY <4>1, <2>3 DEF Retired
    <3>2. pc'[Reconciler] = "rcPush" => ~Routed(twh[Reconciler])'
      <4> SUFFICES ASSUME pc'[Reconciler] = "rcPush" PROVE ~Routed(twh[Reconciler])'
        OBVIOUS
      <4>1. ~Routed(twh'[Reconciler]) /\ twh'[Reconciler] \in Workers
        BY <1>1, <2>6 DEF RetiredApart, Background, InspectPCs, RetirePCs
      <4> QED BY <4>1, <2>2 DEF Routed
    <3>3. /\ \A h \in Workers : Retired(h)' => ~Routed(h)'
          /\ \A x, y \in retiring' : x.handle = y.handle => x = y
          /\ drain' \subseteq retiring'
      BY <1>1, <2>2, <2>3 DEF RetiredApart
    <3> QED BY <3>1, <3>2, <3>3 DEF RetiredApart
  <2> QED BY <1>2, <2>7, <2>8, <2>9
<1>5. \/ UNCHANGED <<spawnedFor, twh>>
      \/ \E w \in Workers :
           /\ w \notin HeldWorkers /\ pc'[r] = "ready"
           /\ twh' = [twh EXCEPT ![r] = w]
           /\ spawnedFor' = [spawnedFor EXCEPT ![w] = [key |-> tkey[r], fp |-> snap[r]]]
  BY DEF EnsureSecond, SpawnChild, Goto
<1> QED BY <1>3, <1>4, <1>5

\* The starter's worker becomes the one of its key's slot.
LEMMA SpawnReadyHandles ==
    ASSUME IInv, IInv', HandleInv, NEW r \in Requests, SpawnReady(r)
    PROVE  HandleInv'
<1> USE TaskSets, SlotStateFacts, Ranges
    DEF IInv, TypeOK, HandleInv, mapVars, procVars, retVars, envVars, MapTypes, PcTypes, LocalTypes
<1>1. /\ UNCHANGED <<slots, spawnedFor, retiring, drain, tkey, twh>>
      /\ tslot' = [tslot EXCEPT ![r] = 0] /\ state' = [state EXCEPT ![tslot[r]] = Running(twh[r])]
      /\ pc[r] = "ready" /\ twh[r] \in Workers
  BY DEF SpawnReady
<1>2. /\ pc'[r] = "serving" /\ \A t \in Background : pc'[t] = pc[t]
      /\ \A q \in Requests \ {r} : pc'[q] = pc[q] \/ (pc[q] = "wait" /\ pc'[q] = "top")
  <2>1. GotoAndNotify(r, "serving", tslot[r])
    BY DEF SpawnReady
  <2>2. pc'[r] = "serving" /\ \A t \in Background : pc'[t] = pc[t]
    BY <2>1 DEF GotoAndNotify
  <2>3. \A q \in Requests \ {r} : pc'[q] = pc[q] \/ (pc[q] = "wait" /\ pc'[q] = "top")
    BY <2>1 DEF GotoAndNotify
  <2> QED BY <2>2, <2>3
<1>3. tslot[r] \in Slots /\ \A s \in Slots : state'[s] = IF s = tslot[r] THEN Running(twh[r]) ELSE state[s]
  BY <1>1 DEF SlotsHeld, EnsurePCs
<1>4. /\ \A h \in Workers : Routed(h)' => Routed(h) \/ h = twh[r]
      /\ \A k \in Keys : \A h \in Workers : slots'[k] # 0 /\ state'[slots'[k]] = Running(h) =>
           state[slots[k]] = Running(h) \/ (slots[k] = tslot[r] /\ h = twh[r])
  BY <1>1, <1>3 DEF Routed, Running
<1>5. \A h : Retired(h)' <=> Retired(h)
  BY <1>1, <1>2 DEF Retired
<1>6. SlotOwners'
  BY <1>1, <1>2, SMTT(60) DEF SlotOwners, EnsurePCs, HandlePCs
<1>7. WorkerKeys'
  BY <1>1, <1>2, <1>4, SMTT(60) DEF WorkerKeys, SlotOwners
<1>8. StarterOwns'
  <2> SUFFICES ASSUME NEW q \in Requests, pc'[q] = "ready", twh'[q] # 0
               PROVE  /\ ~Routed(twh[q])' /\ ~Retired(twh[q])'
                      /\ \A t \in Background : pc'[t] \in InspectPCs => twh'[t] # twh'[q]
                      /\ \A p \in Requests : pc'[p] = "ready" /\ twh'[p] = twh'[q] => p = q
    BY DEF StarterOwns
  <2>1. q # r /\ pc[q] = "ready" /\ twh'[q] = twh[q] /\ twh[q] # twh[r]
    BY <1>1, <1>2 DEF StarterOwns
  <2>2. PICK h \in Workers : h = twh[q] /\ h = twh'[q]
    BY <2>1
  <2>3. ~Routed(h)' /\ ~Retired(h)'
    BY <1>4, <1>5, <2>1, <2>2 DEF StarterOwns
  <2>4. ~Routed(twh[q])' /\ ~Retired(twh[q])'
    BY <2>2, <2>3 DEF Routed, Retired
  <2> QED BY <1>1, <1>2, <2>1, <2>4 DEF StarterOwns
<1>9. RetiredApart'
  <2>1. \A t \in Background : pc'[t] \in RetirePCs => t = Reconciler /\ ~Retired(twh[t])'
    BY <1>1, <1>2 DEF RetiredApart, Retired
  <2>2. pc'[Reconciler] = "rcPush" => ~Routed(twh[Reconciler])'
    <3> SUFFICES ASSUME pc'[Reconciler] = "rcPush" PROVE ~Routed(twh[Reconciler])'
      OBVIOUS
    <3>1. /\ ~Routed(twh[Reconciler]) /\ twh[Reconciler] \in Workers
          /\ twh[Reconciler] # twh[r] /\ twh'[Reconciler] = twh[Reconciler]
      BY <1>1, <1>2 DEF RetiredApart, Background, WorkerKeys, StarterOwns, InspectPCs, RetirePCs
    <3> QED BY <3>1, <1>4 DEF Routed
  <2>3. \A h \in Workers : Retired(h)' => ~Routed(h)'
    BY <1>1, <1>4, <1>5 DEF RetiredApart, StarterOwns
  <2> QED BY <1>1, <2>1, <2>2, <2>3 DEF RetiredApart
<1> QED BY <1>6, <1>7, <1>8, <1>9

\* The reconciler puts on the retiring list the worker that it has taken out.
LEMMA RetirePushHandles ==
    ASSUME IInv, IInv', HandleInv, NEW t \in Background, RetirePush(t)
    PROVE  HandleInv'
<1> USE TaskSets, SlotStateFacts, Ranges
    DEF IInv, TypeOK, HandleInv, mapVars, procVars, retVars, envVars, MapTypes, PcTypes, LocalTypes
<1>1. /\ UNCHANGED <<slots, state, spawnedFor, drain, tkey, tslot>>
      /\ twh' = [twh EXCEPT ![t] = 0] /\ pc' = [pc EXCEPT ![t] = "next"]
      /\ pc[t] = "rcPush" /\ ~RetLocked
      /\ retiring' = retiring \cup {[handle |-> twh[t], terminateAfter |-> now + Grace]}
  BY DEF RetirePush, Goto
<1>2. t = Reconciler /\ twh[t] \in Workers /\ ~Retired(twh[t]) /\ ~Routed(twh[t])
  BY <1>1 DEF RetiredApart, RetirePCs, RetireHeld
<1>3. /\ \A h : Routed(h)' <=> Routed(h)
      /\ \A h : Retired(h)' => Retired(h) \/ h = twh[t]
  BY <1>1 DEF Routed, Retired
<1>4. SlotOwners' /\ WorkerKeys'
  BY <1>1 DEF SlotOwners, WorkerKeys, InspectPCs, RetirePCs
<1>5. StarterOwns'
  <2> SUFFICES ASSUME NEW r \in Requests, pc'[r] = "ready", twh'[r] # 0
               PROVE  /\ ~Routed(twh[r])' /\ ~Retired(twh[r])'
                      /\ \A u \in Background : pc'[u] \in InspectPCs => twh'[u] # twh'[r]
                      /\ \A q \in Requests : pc'[q] = "ready" /\ twh'[q] = twh'[r] => q = r
    BY DEF StarterOwns
  <2>1. pc[r] = "ready" /\ twh'[r] = twh[r] /\ twh[r] # twh[t]
    BY <1>1 DEF StarterOwns, InspectPCs, RetirePCs
  <2>2. ~Routed(twh[r])' /\ ~Retired(twh[r])'
    <3>1. PICK h \in Workers : h = twh[r] /\ h = twh'[r]
      BY <2>1
    <3>2. ~Routed(h)' /\ ~Retired(h)'
      BY <3>1, <2>1, <1>3 DEF StarterOwns
    <3> QED BY <3>1, <3>2 DEF Routed, Retired
  <2> QED BY <1>1, <2>1, <2>2 DEF StarterOwns, InspectPCs, RetirePCs
<1>6. RetiredApart'
  <2>1. \A u \in Background : pc'[u] \notin RetirePCs
    BY <1>1, <1>2 DEF RetiredApart, RetirePCs
  <2>2. \A x \in retiring : x.handle # twh[t]
    BY <1>2 DEF Retired
  <2>3. \A x, y \in retiring' : x.handle = y.handle => x = y
    BY <1>1, <2>2 DEF RetiredApart
  <2> QED BY <1>1, <1>2, <1>3, <2>1, <2>3 DEF RetiredApart, RetirePCs, Background
<1> QED BY <1>4, <1>5, <1>6

\* Whose slot and whose worker is an inductive invariant, given IInv.
LEMMA HandleNext == IInv /\ IInv' /\ HandleInv /\ [Next]_vars => HandleInv'
<1> SUFFICES ASSUME IInv, IInv', HandleInv, [Next]_vars PROVE HandleInv'
  OBVIOUS
<1>1. ASSUME NEW r \in Requests, (\E k \in Keys : Arrive(r, k)) \/ RequestStep(r)
      PROVE  HandleInv'
  BY <1>1, RequestHandleFrames, EnsureEntryHandles, EnsureSecondHandles,
     SpawnReadyHandles, HandleFrame DEF RequestStep
<1>2. ASSUME NEW t \in Background, BackgroundStep(t) \/ ReconcileLookupError(t)
      PROVE  HandleInv'
  BY <1>2, BackgroundHandleFrames, BackgroundStateHandles, RetireHandles,
     RetirePushHandles, HandleFrame DEF BackgroundStep
<1>3. ASSUME \/ \E t \in Tasks : Yield(t)
             \/ \E h \in Workers : WorkerExits(h) \/ DropHandle(h)
             \/ \E k \in Keys : DirectoryChange(k)
             \/ Tick \/ UNCHANGED vars
      PROVE  HandleInv'
  BY <1>3, OtherHandleFrames, HandleFrame
<1> QED BY <1>1, <1>2, <1>3 DEF Next

\* The empty manager has no worker to be owned.
LEMMA HandleInit == Init => HandleInv
<1> SUFFICES ASSUME Init PROVE HandleInv
  OBVIOUS
<1> USE TaskSets, SlotStateFacts, Ranges DEF Init
<1>1. SlotOwners /\ WorkerKeys /\ StarterOwns
  BY DEF SlotOwners, WorkerKeys, StarterOwns, InspectPCs, RetirePCs
<1>2. RetiredApart
  BY DEF RetiredApart, Retired, Routed, RetirePCs, Background
<1> QED BY <1>1, <1>2 DEF HandleInv

\* Every slot has one key and every worker one owner in every reachable state,
\* for any number of threads and in a shutdown.
THEOREM HandleInvariant == Spec => [](IInv /\ HandleInv)
<1>1. Init => IInv /\ HandleInv
  BY InitInv, HandleInit
<1>2. IInv /\ HandleInv /\ [Next]_vars => (IInv /\ HandleInv)'
  BY NextInv, HandleNext
<1> QED BY <1>1, <1>2, PTL DEF Spec

\* A worker that retire_worker has put on the retiring list receives no new
\* request: get_running finds it in no slot, for any number of threads and in a
\* shutdown.
THEOREM RetiredNotRoutedInvariant == Spec => []RetiredNotRouted
<1>1. IInv /\ HandleInv => RetiredNotRouted
  BY DEF IInv, TypeOK, RetiringTypes, HandleInv, RetiredApart, Retired, Routed, RetiredNotRouted
<1> QED BY <1>1, HandleInvariant, PTL

-----------------------------------------------------------------------------
\* One thread.

\* Where a task works between two awaits, on its way to or from the map.
BusyPCs == {"grRemove", "entry", "park", "remove"}

\* At most one task runs, nobody gives the thread back while it is busy, and
\* the shutdown service sleeps until a shutdown is requested.
ThreadInv ==
    /\ Threads = 1 /\ cpu \subseteq Tasks \ {Shutdown}
    /\ \A t, u \in cpu : t = u
    /\ \A t \in Tasks \ {Shutdown} : pc[t] \in BusyPCs => t \in cpu
    /\ shutdowns = 0 => pc[Shutdown] = "sleep"
    /\ pc[Reconciler] \in {"sleep", "next", "bgState"} \cup RetirePCs

\* A task that runs keeps its thread or gives it back where it is not busy.
Runs(t) ==
    /\ t = Shutdown \/ HasThread(t) \/ pc[t] \in BusyPCs
    /\ \/ cpu' = cpu \cup {t} /\ t # Shutdown
       \/ cpu' = cpu \ {t} /\ pc'[t] \notin BusyPCs
       \/ cpu' = cpu /\ t = Shutdown
    /\ \A u \in Tasks \ {t} : pc'[u] # pc[u] => u \in Requests /\ pc[u] = "wait" /\ pc'[u] = "top"

\* Whoever may take a step finds the only thread free, or has it.
LEMMA RunsAlone ==
    ASSUME TypeOK, ThreadInv, NEW t \in Tasks \ {Shutdown}, HasThread(t) \/ pc[t] \in BusyPCs
    PROVE  \A u \in cpu : u = t
<1>1. CASE t \in cpu
  BY <1>1 DEF ThreadInv
<1>2. CASE Cardinality(cpu) < Threads
  <2>1. IsFiniteSet(Background)
    <3>1. IsFiniteSet({Sweeper} \cup {Reconciler})
      BY FS_Singleton, FS_AddElement
    <3>2. IsFiniteSet(({Sweeper} \cup {Reconciler}) \cup {Shutdown})
      BY <3>1, FS_AddElement
    <3>3. Background = ({Sweeper} \cup {Reconciler}) \cup {Shutdown}
      BY DEF Background
    <3> QED BY <3>2, <3>3
  <2>2. IsFiniteSet(cpu)
    BY <2>1, FS_Union, FS_Subset, ConstantsAssumption DEF Tasks, ThreadInv
  <2>3. cpu = {}
    BY <1>2, <2>2, FS_EmptySet, FS_CardinalityType DEF ThreadInv
  <2> QED BY <2>3
<1> QED BY <1>1, <1>2 DEF HasThread, ThreadInv

\* Every step of a request runs its task.
LEMMA RequestRuns ==
    ASSUME IInv, NEW r \in Requests, (\E k \in Keys : Arrive(r, k)) \/ RequestStep(r)
    PROVE  Runs(r) /\ UNCHANGED <<shutdowns, sweepNow, now, crashes>>
<1> USE TaskSets DEF IInv, TypeOK, PcTypes, mapVars, procVars, retVars, envVars
<1>1. CASE \E k \in Keys : Arrive(r, k)
  BY <1>1 DEF Runs, Arrive, Goto, Suspend, KeepThread, BusyPCs
<1>2. CASE GetRunningState(r)
  BY <1>2 DEF Runs, GetRunningState, Goto, Suspend, KeepThread, BusyPCs
<1>3. CASE GetRunningAlive(r)
  BY <1>3 DEF Runs, GetRunningAlive, Route, Goto, Suspend, KeepThread, BusyPCs
<1>4. CASE GetRunningRemove(r)
  BY <1>4 DEF Runs, GetRunningRemove, Goto, Suspend, KeepThread, BusyPCs
<1>5. CASE Reject(r)
  BY <1>5 DEF Runs, Reject, Goto, Suspend, KeepThread, BusyPCs
<1>6. CASE LookupBuckets(r)
  BY <1>6 DEF Runs, LookupBuckets, Goto, Suspend, KeepThread, BusyPCs
<1>7. CASE EnsureEntry(r)
  BY <1>7 DEF Runs, EnsureEntry, Goto, Suspend, KeepThread, BusyPCs
<1>8. CASE EnsureTop(r)
  BY <1>8 DEF Runs, EnsureTop, Route, Goto, Suspend, KeepThread, BusyPCs
<1>9. CASE EnsureFastAlive(r)
  BY <1>9 DEF Runs, EnsureFastAlive, Route, Goto, Suspend, KeepThread, BusyPCs
<1>10. CASE EnsureSecond(r)
  BY <1>10 DEF Runs, EnsureSecond, SpawnChild, Goto, Suspend, KeepThread, BusyPCs
<1>11. CASE EnsurePark(r)
  BY <1>11 DEF Runs, EnsurePark, Goto, Suspend, KeepThread, BusyPCs
<1>12. CASE SpawnReady(r)
  BY <1>12 DEF Runs, SpawnReady, GotoAndNotify, Suspend, KeepThread, BusyPCs
<1>13. CASE SpawnFail(r)
  BY <1>13 DEF Runs, SpawnFail, GotoAndNotify, Suspend, KeepThread, BusyPCs
<1>14. CASE Finish(r)
  BY <1>14 DEF Runs, Finish, Goto, Suspend, KeepThread, BusyPCs
<1> QED BY <1>1, <1>2, <1>3, <1>4, <1>5, <1>6, <1>7, <1>8, <1>9, <1>10, <1>11,
         <1>12, <1>13, <1>14 DEF RequestStep

\* Every step of a pass runs its task; the reconciler stays in its own loop, and
\* the shutdown service wakes when a shutdown is requested.
LEMMA BackgroundRuns ==
    ASSUME IInv, HandleInv, ThreadInv, NEW t \in Background, BackgroundStep(t) \/ ReconcileLookupError(t)
    PROVE  /\ Runs(t) /\ UNCHANGED <<now, crashes>>
           /\ t = Shutdown => shutdowns' # 0
           /\ t # Shutdown => UNCHANGED shutdowns
           /\ t = Reconciler => pc'[t] \in {"sleep", "next", "bgState"} \cup RetirePCs
<1> USE TaskSets DEF IInv, TypeOK, PcTypes, CounterTypes, mapVars, procVars, retVars, envVars
<1>0. t = Shutdown => pc[t] = "sleep" \/ shutdowns # 0
  BY DEF ThreadInv
<1>a. t = Reconciler => pc[t] \in {"sleep", "next", "bgState"} \cup RetirePCs
  BY DEF ThreadInv
<1>b. pc[t] \in RetirePCs => t = Reconciler
  BY DEF HandleInv, RetiredApart
<1>1. CASE StartDrain(t)
  BY <1>0, <1>a, <1>b, <1>1 DEF Runs, StartDrain, Goto, Suspend, KeepThread,
         BusyPCs, Shutdown, Reconciler, Sweeper, RetirePCs
<1>2. CASE DrainOne(t)
  BY <1>0, <1>a, <1>b, <1>2 DEF Runs, DrainOne, Goto, Suspend, KeepThread,
         BusyPCs, Shutdown, Reconciler, Sweeper, RetirePCs
<1>3. CASE TermWait(t)
  BY <1>0, <1>a, <1>b, <1>3 DEF Runs, TermWait, Goto, Suspend, KeepThread,
         BusyPCs, Shutdown, Reconciler, Sweeper, RetirePCs
<1>4. CASE CollectKeys(t)
  BY <1>0, <1>a, <1>b, <1>4 DEF Runs, CollectKeys, Goto, Suspend, KeepThread,
         BusyPCs, Shutdown, Reconciler, Sweeper, RetirePCs
<1>5. CASE NextKey(t)
  BY <1>0, <1>a, <1>b, <1>5 DEF Runs, NextKey, Goto, Suspend, KeepThread,
         BusyPCs, Shutdown, Reconciler, Sweeper, RetirePCs
<1>6. CASE BackgroundState(t)
  BY <1>0, <1>a, <1>b, <1>6 DEF Runs, BackgroundState, Goto, Suspend,
         KeepThread, BusyPCs, Shutdown, Reconciler, Sweeper, RetirePCs
<1>7. CASE SweepAlive(t)
  BY <1>0, <1>a, <1>b, <1>7 DEF Runs, SweepAlive, Goto, Suspend, KeepThread,
         BusyPCs, Shutdown, Reconciler, Sweeper, RetirePCs
<1>8. CASE SlotTerminate(t)
  BY <1>0, <1>a, <1>b, <1>8 DEF Runs, SlotTerminate, Goto, Suspend,
         KeepThread, BusyPCs, Shutdown, Reconciler, Sweeper, RetirePCs
<1>9. CASE RemoveKey(t)
  BY <1>0, <1>a, <1>b, <1>9 DEF Runs, RemoveKey, Goto, Suspend, KeepThread,
         BusyPCs, Shutdown, Reconciler, Sweeper, RetirePCs
<1>10. CASE RetireGet(t)
  BY <1>0, <1>a, <1>b, <1>10 DEF Runs, RetireGet, Goto, Suspend, KeepThread,
         BusyPCs, Shutdown, Reconciler, Sweeper, RetirePCs
<1>11. CASE RetireFlip(t)
  BY <1>0, <1>a, <1>b, <1>11 DEF Runs, RetireFlip, GotoAndNotify, Goto,
         Suspend, KeepThread, BusyPCs, Shutdown, Reconciler, Sweeper,
         RetirePCs
<1>12. CASE RetirePush(t)
  BY <1>0, <1>a, <1>b, <1>12 DEF Runs, RetirePush, Goto, Suspend, KeepThread,
         BusyPCs, Shutdown, Reconciler, Sweeper, RetirePCs
<1>13. CASE ReconcileUser(t)
  BY <1>0, <1>a, <1>b, <1>13 DEF Runs, ReconcileUser, Goto, Suspend,
         KeepThread, BusyPCs, Shutdown, Reconciler, Sweeper, RetirePCs
<1>14. CASE ReconcileBuckets(t)
  BY <1>0, <1>a, <1>b, <1>14 DEF Runs, ReconcileBuckets, Goto, Suspend,
         KeepThread, BusyPCs, Shutdown, Reconciler, Sweeper, RetirePCs
<1>15. CASE ReconcileLookupError(t)
  BY <1>0, <1>a, <1>b, <1>15 DEF Runs, ReconcileLookupError, Goto, Suspend,
         KeepThread, BusyPCs, Shutdown, Reconciler, Sweeper, RetirePCs
<1> QED BY <1>1, <1>2, <1>3, <1>4, <1>5, <1>6, <1>7, <1>8, <1>9, <1>10, <1>11,
         <1>12, <1>13, <1>14, <1>15 DEF BackgroundStep

\* A single thread is never shared, and no busy task loses it.
LEMMA ThreadNext ==
    IInv /\ IInv' /\ HandleInv /\ ThreadInv /\ [Next]_vars => ThreadInv'
<1> SUFFICES ASSUME IInv, IInv', HandleInv, ThreadInv, [Next]_vars PROVE ThreadInv'
  OBVIOUS
<1> USE TaskSets DEF IInv, TypeOK
<1>1. ASSUME NEW t \in Tasks \ {Shutdown}, Runs(t), UNCHANGED shutdowns,
             t = Reconciler => pc'[t] \in {"sleep", "next", "bgState"} \cup RetirePCs
      PROVE  ThreadInv'
  <2>1. \A u \in cpu : u = t
    BY <1>1, RunsAlone DEF Runs
  <2>2. /\ cpu' \subseteq {t} /\ (pc'[t] \in BusyPCs => t \in cpu')
        /\ \A u \in Tasks \ {t} : pc'[u] = pc[u] \/ (u \in Requests /\ pc'[u] = "top")
    BY <1>1, <2>1 DEF Runs
  <2>3. \A u \in Tasks \ {Shutdown} : pc'[u] \in BusyPCs => u \in cpu'
    BY <2>1, <2>2 DEF ThreadInv, BusyPCs
  <2>4. pc'[Shutdown] = pc[Shutdown]
    BY <1>1, <2>2 DEF Background
  <2>5. pc'[Reconciler] \in {"sleep", "next", "bgState"} \cup RetirePCs
    BY <1>1, <2>2 DEF ThreadInv, Background
  <2>6. cpu' \subseteq Tasks \ {Shutdown} /\ (\A x, y \in cpu' : x = y)
    BY <2>2
  <2> QED BY <1>1, <2>3, <2>4, <2>5, <2>6 DEF ThreadInv
<1>2. ASSUME Runs(Shutdown), shutdowns' # 0
      PROVE  ThreadInv'
  <2>1. cpu' = cpu
    BY <1>2 DEF Runs, ThreadInv
  <2>2. \A u \in Tasks \ {Shutdown} : pc'[u] = pc[u] \/ (u \in Requests /\ pc'[u] = "top")
    BY <1>2 DEF Runs
  <2>3. pc'[Reconciler] = pc[Reconciler]
    BY <2>2 DEF Background, Reconciler, Shutdown
  <2> QED BY <1>2, <2>1, <2>2, <2>3 DEF ThreadInv, BusyPCs
<1>3. ASSUME NEW r \in Requests, (\E k \in Keys : Arrive(r, k)) \/ RequestStep(r)
      PROVE  ThreadInv'
  <2>1. r \in Tasks \ {Shutdown} /\ r # Reconciler
    BY DEF Background
  <2> QED BY <1>1, <1>3, <2>1, RequestRuns
<1>4. ASSUME NEW t \in Background, BackgroundStep(t) \/ ReconcileLookupError(t)
      PROVE  ThreadInv'
  BY <1>1, <1>2, <1>4, BackgroundRuns
<1>5. ASSUME NEW t \in Tasks, Yield(t)
      PROVE  ThreadInv'
  <2>1. pc[t] \notin BusyPCs /\ cpu' = cpu \ {t} /\ UNCHANGED <<pc, shutdowns>>
    BY <1>5 DEF Yield, AwaitsLock, Suspend, BusyPCs, envVars
  <2> QED BY <2>1 DEF ThreadInv
<1>6. ASSUME UNCHANGED <<pc, cpu, shutdowns>>
      PROVE  ThreadInv'
  BY <1>6 DEF ThreadInv
<1> QED BY <1>3, <1>4, <1>5, <1>6
     DEF Next, WorkerExits, DropHandle, DirectoryChange, Tick, vars, envVars

-----------------------------------------------------------------------------
\* The sweeper's clock, and what it knows of the worker that it may kill: the
\* killed process never lives again while its handle is held, and a worker that
\* the sweep finds idle stays the slot's, and idle, until it is terminated.
SweepInv ==
    /\ sweepNow <= now /\ \A h \in Workers : lastUsed[h] <= now
    /\ \A t \in Background : pc[t] \in {"drainTermWait", "slotTermWait"} =>
         twh[t] \in Workers /\ proc[twh[t]] # "alive"
    /\ pc[Sweeper] \in {"swAlive", "slotTerm"} =>
         \/ Sweeper \in cpu /\ state[slots[tkey[Sweeper]]] = Running(twh[Sweeper])
         \/ shutdowns # 0 /\ proc[twh[Sweeper]] # "alive"
    /\ pc[Sweeper] = "slotTerm" /\ proc[twh[Sweeper]] = "alive" => Idle(twh[Sweeper])

\* Requests touch workers now, and give life only to a worker that nobody holds.
LEMMA RequestProcs ==
    ASSUME IInv, NEW r \in Requests, (\E k \in Keys : Arrive(r, k)) \/ RequestStep(r)
    PROVE  /\ \A h \in Workers : lastUsed'[h] = lastUsed[h] \/ lastUsed'[h] = now
           /\ \A h \in Workers : proc'[h] = "alive" => proc[h] = "alive" \/ h \notin HeldWorkers
<1> USE TaskSets DEF IInv, TypeOK, ProcTypes, mapVars, procVars, retVars, envVars
<1>1. CASE \E k \in Keys : Arrive(r, k)
  BY <1>1 DEF Arrive
<1>2. CASE GetRunningState(r)
  BY <1>2 DEF GetRunningState
<1>3. CASE GetRunningAlive(r)
  BY <1>3 DEF GetRunningAlive, Route, TryWait
<1>4. CASE GetRunningRemove(r)
  BY <1>4 DEF GetRunningRemove
<1>5. CASE Reject(r)
  BY <1>5 DEF Reject
<1>6. CASE LookupBuckets(r)
  BY <1>6 DEF LookupBuckets
<1>7. CASE EnsureEntry(r)
  BY <1>7 DEF EnsureEntry
<1>8. CASE EnsureTop(r)
  BY <1>8 DEF EnsureTop, Route, TryWait
<1>9. CASE EnsureFastAlive(r)
  BY <1>9 DEF EnsureFastAlive, Route, TryWait
<1>10. CASE EnsureSecond(r)
  BY <1>10 DEF EnsureSecond, SpawnChild
<1>11. CASE EnsurePark(r)
  BY <1>11 DEF EnsurePark
<1>12. CASE SpawnReady(r)
  BY <1>12 DEF SpawnReady
<1>13. CASE SpawnFail(r)
  BY <1>13 DEF SpawnFail
<1>14. CASE Finish(r)
  BY <1>14 DEF Finish
<1> QED BY <1>1, <1>2, <1>3, <1>4, <1>5, <1>6, <1>7, <1>8, <1>9, <1>10, <1>11,
         <1>12, <1>13, <1>14 DEF RequestStep

\* A pass touches no worker and gives life to none; only the sweeper reads the
\* clock for the sweep.
LEMMA BackgroundProcs ==
    ASSUME IInv, NEW t \in Background, BackgroundStep(t) \/ ReconcileLookupError(t)
    PROVE  /\ UNCHANGED lastUsed
           /\ \A h \in Workers : proc'[h] = "alive" => proc[h] = "alive"
           /\ sweepNow' # sweepNow => t = Sweeper /\ pc[t] \in {"sleep", "next"}
           /\ sweepNow' = sweepNow \/ sweepNow' = now \/ sweepNow' = 0
<1> USE TaskSets DEF IInv, TypeOK, ProcTypes, mapVars, procVars, retVars, envVars
<1>1. CASE StartDrain(t)
  BY <1>1 DEF StartDrain
<1>2. CASE DrainOne(t)
  BY <1>2 DEF DrainOne
<1>3. CASE TermWait(t)
  BY <1>3 DEF TermWait
<1>4. CASE CollectKeys(t)
  BY <1>4 DEF CollectKeys
<1>5. CASE NextKey(t)
  BY <1>5 DEF NextKey
<1>6. CASE BackgroundState(t)
  BY <1>6 DEF BackgroundState
<1>7. CASE SweepAlive(t)
  BY <1>7 DEF SweepAlive, TryWait
<1>8. CASE SlotTerminate(t)
  BY <1>8 DEF SlotTerminate
<1>9. CASE RemoveKey(t)
  BY <1>9 DEF RemoveKey
<1>10. CASE RetireGet(t)
  BY <1>10 DEF RetireGet
<1>11. CASE RetireFlip(t)
  BY <1>11 DEF RetireFlip
<1>12. CASE RetirePush(t)
  BY <1>12 DEF RetirePush
<1>13. CASE ReconcileUser(t)
  BY <1>13 DEF ReconcileUser
<1>14. CASE ReconcileBuckets(t)
  BY <1>14 DEF ReconcileBuckets
<1>15. CASE ReconcileLookupError(t)
  BY <1>15 DEF ReconcileLookupError
<1> QED BY <1>1, <1>2, <1>3, <1>4, <1>5, <1>6, <1>7, <1>8, <1>9, <1>10, <1>11,
         <1>12, <1>13, <1>14, <1>15 DEF BackgroundStep

\* The same of every step.
LEMMA ClockSteps ==
    ASSUME IInv, [Next]_vars
    PROVE  /\ \A h \in Workers : lastUsed'[h] = lastUsed[h] \/ lastUsed'[h] = now
           /\ \A h \in Workers : proc'[h] = "alive" => proc[h] = "alive" \/ h \notin HeldWorkers
           /\ sweepNow' = sweepNow \/ sweepNow' = now \/ sweepNow' = 0
           /\ now' = now \/ now' = now + 1
<1> USE TaskSets DEF IInv, TypeOK
<1>1. ASSUME NEW r \in Requests, (\E k \in Keys : Arrive(r, k)) \/ RequestStep(r)
      PROVE  UNCHANGED <<sweepNow, now>>
  BY <1>1, RequestRuns
<1>2. ASSUME NEW t \in Background, BackgroundStep(t) \/ ReconcileLookupError(t)
      PROVE  UNCHANGED now
  <2> USE DEF mapVars, procVars, retVars, envVars
  <2> QED BY <1>2 DEF BackgroundStep, ReconcileLookupError, StartDrain, DrainOne, TermWait,
       CollectKeys, NextKey, BackgroundState, SweepAlive, SlotTerminate, RemoveKey,
       RetireGet, RetireFlip, RetirePush, ReconcileUser, ReconcileBuckets
<1>3. ASSUME \/ \E t \in Tasks : Yield(t)
             \/ \E h \in Workers : WorkerExits(h) \/ DropHandle(h)
             \/ \E k \in Keys : DirectoryChange(k)
             \/ Tick \/ UNCHANGED vars
      PROVE  /\ UNCHANGED <<lastUsed, sweepNow>> /\ (now' = now \/ now' = now + 1)
             /\ \A h \in Workers : proc'[h] = "alive" => proc[h] = "alive"
  BY <1>3 DEF Yield, WorkerExits, DropHandle, DirectoryChange, Tick, vars, procVars, envVars, ProcTypes
<1>4. CASE \E r \in Requests : (\E k \in Keys : Arrive(r, k)) \/ RequestStep(r)
  BY <1>1, <1>4, RequestProcs
<1>5. CASE \E t \in Background : BackgroundStep(t) \/ ReconcileLookupError(t)
  BY <1>2, <1>5, BackgroundProcs
<1> QED BY <1>3, <1>4, <1>5 DEF Next

\* While the sweeper has the thread, only it and the shutdown service take steps.
LEMMA SweeperAlone ==
    ASSUME IInv, HandleInv, ThreadInv, Sweeper \in cpu
    PROVE  /\ \A r \in Requests : ~(\E k \in Keys : Arrive(r, k)) /\ ~RequestStep(r)
           /\ ~BackgroundStep(Reconciler) /\ ~ReconcileLookupError(Reconciler)
           /\ \A t \in Tasks : Yield(t) => t = Sweeper
<1> USE TaskSets DEF IInv
<1>1. \A t \in Tasks \ {Shutdown} : Runs(t) => t = Sweeper
  BY RunsAlone DEF Runs
<1>2. /\ \A r \in Requests : r # Sweeper /\ r \in Tasks \ {Shutdown}
      /\ Reconciler \in Tasks \ {Shutdown} /\ Reconciler # Sweeper /\ Reconciler \in Background
  BY DEF Background, Sweeper, Reconciler, Shutdown
<1>3. \A t \in Tasks : Yield(t) => t = Sweeper
  BY DEF Yield, ThreadInv
<1> QED BY <1>1, <1>2, <1>3, RequestRuns, BackgroundRuns

\* The clock of a sweep is never ahead, and a process that is being waited for
\* stays dead.
LEMMA TermWaitDead ==
    ASSUME IInv, IInv', HandleInv, ThreadInv, SweepInv, [Next]_vars
    PROVE  /\ sweepNow' <= now' /\ \A h \in Workers : lastUsed'[h] <= now'
           /\ \A t \in Background : pc'[t] \in {"drainTermWait", "slotTermWait"} =>
                twh'[t] \in Workers /\ proc'[twh'[t]] # "alive"
<1> USE TaskSets DEF IInv, TypeOK, mapVars, procVars, retVars, envVars
<1>1. sweepNow' <= now' /\ \A h \in Workers : lastUsed'[h] <= now'
  <2>1. now \in Nat /\ \A h \in Workers : lastUsed[h] \in Nat
    BY DEF ProcTypes, CounterTypes
  <2> QED BY <2>1, ClockSteps DEF SweepInv, LocalTypes
<1>2. ASSUME NEW t \in Background, pc'[t] \in {"drainTermWait", "slotTermWait"}
      PROVE  \/ pc'[t] = pc[t] /\ twh'[t] = twh[t]
             \/ twh'[t] \in Workers /\ proc'[twh'[t]] # "alive"
  <2>1. ASSUME NEW r \in Requests, (\E k \in Keys : Arrive(r, k)) \/ RequestStep(r)
        PROVE  pc'[t] = pc[t] /\ twh'[t] = twh[t]
    <3>1. pc'[t] = pc[t]
      BY <1>2, <2>1, RequestRuns DEF Runs
    <3>2. twh'[t] = twh[t]
      BY <2>1 DEF LocalTypes, RequestStep, Arrive, GetRunningState, GetRunningAlive, GetRunningRemove,
         Reject, LookupBuckets, EnsureEntry, EnsureTop, EnsureFastAlive, EnsureSecond, SpawnChild,
         EnsurePark, SpawnReady, SpawnFail, Finish, Route
    <3> QED BY <3>1, <3>2
  <2>2. ASSUME NEW u \in Background, BackgroundStep(u) \/ ReconcileLookupError(u)
        PROVE  \/ pc'[t] = pc[t] /\ twh'[t] = twh[t]
               \/ twh'[t] \in Workers /\ proc'[twh'[t]] # "alive"
    <3>1. CASE u # t
      <4>1. pc'[t] = pc[t]
        BY <1>2, <2>2, <3>1, BackgroundRuns DEF Runs
      <4>2. twh'[t] = twh[t]
        BY <2>2, <3>1 DEF LocalTypes, BackgroundStep, StartDrain, DrainOne, TermWait, CollectKeys,
           NextKey, BackgroundState, SweepAlive, SlotTerminate, RemoveKey, RetireGet,
           RetireFlip, RetirePush, ReconcileUser, ReconcileBuckets, ReconcileLookupError
      <4> QED BY <4>1, <4>2
    <3>2. CASE u = t
      <4>1. DrainOne(t) \/ SlotTerminate(t)
        BY <1>2, <2>2, <3>2 DEF BackgroundStep, StartDrain, TermWait, CollectKeys,
           NextKey, BackgroundState, SweepAlive, RemoveKey, RetireGet, GotoAndNotify,
           RetireFlip, RetirePush, ReconcileUser, ReconcileBuckets, ReconcileLookupError,
           Goto, PcTypes
      <4>2. CASE DrainOne(t)
        BY <1>2, <4>2 DEF DrainOne, Goto, PcTypes, RetiringTypes, ProcTypes, LocalTypes
      <4>3. CASE SlotTerminate(t)
        <5>1. twh[t] \in Workers
          BY <4>3 DEF SlotTerminate, HandleInv, WorkerKeys, InspectPCs
        <5> QED BY <1>2, <4>3, <5>1 DEF SlotTerminate, Goto, PcTypes, ProcTypes
      <4> QED BY <4>1, <4>2, <4>3
    <3> QED BY <3>1, <3>2
  <2>3. ASSUME \/ \E u \in Tasks : Yield(u)
               \/ \E h \in Workers : WorkerExits(h) \/ DropHandle(h)
               \/ \E k \in Keys : DirectoryChange(k)
               \/ Tick \/ UNCHANGED vars
        PROVE  pc'[t] = pc[t] /\ twh'[t] = twh[t]
    BY <2>3 DEF Yield, WorkerExits, DropHandle, DirectoryChange, Tick, vars
  <2> QED BY <2>1, <2>2, <2>3 DEF Next
<1>3. ASSUME NEW t \in Background, pc'[t] \in {"drainTermWait", "slotTermWait"},
             pc'[t] = pc[t], twh'[t] = twh[t]
      PROVE  twh'[t] \in Workers /\ proc'[twh'[t]] # "alive"
  <2>1. twh[t] \in Workers /\ proc[twh[t]] # "alive" /\ twh[t] \in HeldWorkers
    BY <1>3 DEF SweepInv, HeldWorkers
  <2> QED BY <1>3, <2>1, ClockSteps
<1> QED BY <1>1, <1>2, <1>3

\* What the sweeper found of the worker it inspects stays so until it acts.
LEMMA SweepNext ==
    IInv /\ IInv' /\ HandleInv /\ ThreadInv /\ SweepInv /\ [Next]_vars => SweepInv'
<1> SUFFICES ASSUME IInv, IInv', HandleInv, ThreadInv, SweepInv, [Next]_vars PROVE SweepInv'
  OBVIOUS
<1> USE TaskSets, SlotStateFacts, Ranges DEF IInv, TypeOK, mapVars, procVars, retVars, envVars
<1> DEFINE k == tkey[Sweeper]
           h == twh[Sweeper]
           Known == \/ Sweeper \in cpu /\ state[slots[k]] = Running(h)
                    \/ shutdowns # 0 /\ proc[h] # "alive"
           Found == pc[Sweeper] = "slotTerm" /\ proc[h] = "alive" => Idle(h)
           Looks == pc[Sweeper] \in {"swAlive", "slotTerm"}
<1>1. Sweeper \in Background /\ Sweeper \in Tasks /\ Sweeper # Shutdown /\ Sweeper # Reconciler
      /\ Sweeper \notin Requests
  BY DEF Background, Sweeper, Shutdown, Reconciler
<1>2. Looks => h \in Workers /\ h \in HeldWorkers /\ slots[k] \in Slots
  <2>1. Looks => h \in Workers
    BY <1>1 DEF HandleInv, WorkerKeys, InspectPCs
  <2>2. h \in HeldWorkers
    BY <1>1 DEF HeldWorkers
  <2>3. Looks => slots[k] \in Slots
    BY <1>1 DEF RefsPinned, HoldsRef, RefPCs, LocalTypes, MapTypes
  <2> QED BY <2>1, <2>2, <2>3
<1>3. Looks => Known /\ Found
  BY DEF SweepInv
<1>4. CASE BackgroundStep(Sweeper) \/ ReconcileLookupError(Sweeper)
  <2> SUFFICES ASSUME pc'[Sweeper] \in {"swAlive", "slotTerm"} PROVE Known' /\ Found'
    BY TermWaitDead DEF SweepInv
  <2>1. BackgroundState(Sweeper) \/ SweepAlive(Sweeper)
    BY <1>1, <1>4 DEF BackgroundStep, StartDrain, DrainOne, TermWait, CollectKeys,
       NextKey, SlotTerminate, RemoveKey, RetireGet, GotoAndNotify,
       RetireFlip, RetirePush, ReconcileUser, ReconcileBuckets, ReconcileLookupError,
       Goto, PcTypes
  <2>2. CASE BackgroundState(Sweeper)
    <3>1. slots[k] \in Slots
      BY <1>1, <2>2 DEF BackgroundState, RefsPinned, HoldsRef, RefPCs, LocalTypes, MapTypes
    <3>2. /\ state[slots[k]].st = "Running" /\ twh'[Sweeper] = state[slots[k]].h
          /\ pc'[Sweeper] = "swAlive" /\ Sweeper \in cpu' /\ UNCHANGED <<slots, state, tkey>>
      BY <1>1, <2>2 DEF BackgroundState, Goto, KeepThread, PcTypes, LocalTypes
    <3>3. state[slots[k]] = Running(state[slots[k]].h)
      BY <3>1, <3>2, RunningState DEF MapTypes
    <3> QED BY <3>2, <3>3
  <2>3. CASE SweepAlive(Sweeper)
    <3>1. /\ pc'[Sweeper] = "slotTerm" /\ proc[h] = "alive" /\ Idle(h) /\ Sweeper \in cpu'
          /\ UNCHANGED <<slots, state, tkey, twh, sweepNow, lastUsed>>
      BY <1>1, <2>3 DEF SweepAlive, Goto, KeepThread, PcTypes
    <3>2. Known /\ Looks
      BY <1>3, <2>3 DEF SweepAlive
    <3> QED BY <3>1, <3>2 DEF Idle
  <2> QED BY <2>1, <2>2, <2>3
<1>5. ASSUME UNCHANGED <<slots, state, tkey, sweepNow>>,
             pc'[Sweeper] = pc[Sweeper], twh'[Sweeper] = twh[Sweeper],
             shutdowns # 0 => shutdowns' # 0,
             Looks /\ Sweeper \in cpu => UNCHANGED lastUsed,
             Looks /\ Sweeper \in cpu => Sweeper \in cpu' \/ (shutdowns # 0 /\ proc[h] # "alive")
      PROVE  SweepInv'
  <2> SUFFICES ASSUME Looks PROVE Known' /\ Found'
    BY <1>5, TermWaitDead DEF SweepInv
  <2>1. proc'[h] = "alive" => proc[h] = "alive"
    BY <1>2, ClockSteps
  <2>2. Known'
    BY <1>2, <1>3, <1>5, <2>1
  <2>3. Found'
    BY <1>3, <1>5, <2>1 DEF Idle
  <2> QED BY <2>2, <2>3
<1>6. CASE ~(BackgroundStep(Sweeper) \/ ReconcileLookupError(Sweeper)) /\ ~(Looks /\ Sweeper \in cpu)
  <2> SUFFICES ASSUME pc'[Sweeper] \in {"swAlive", "slotTerm"} PROVE Known' /\ Found'
    BY TermWaitDead DEF SweepInv
  <2>1. pc'[Sweeper] = pc[Sweeper] /\ twh'[Sweeper] = twh[Sweeper] /\ (shutdowns # 0 => shutdowns' # 0)
    <3>1. ASSUME NEW r \in Requests, (\E kk \in Keys : Arrive(r, kk)) \/ RequestStep(r)
          PROVE  pc'[Sweeper] = pc[Sweeper] /\ twh'[Sweeper] = twh[Sweeper] /\ UNCHANGED shutdowns
      <4>1. pc'[Sweeper] = pc[Sweeper] /\ UNCHANGED shutdowns
        BY <1>1, <3>1, RequestRuns DEF Runs
      <4>2. twh'[Sweeper] = twh[Sweeper]
        BY <1>1, <3>1 DEF LocalTypes, RequestStep, Arrive, GetRunningState, GetRunningAlive,
           GetRunningRemove, Reject, LookupBuckets, EnsureEntry, EnsureTop, EnsureFastAlive,
           EnsureSecond, SpawnChild, EnsurePark, SpawnReady, SpawnFail, Finish, Route
      <4> QED BY <4>1, <4>2
    <3>2. ASSUME NEW u \in Background \ {Sweeper}, BackgroundStep(u) \/ ReconcileLookupError(u)
          PROVE  pc'[Sweeper] = pc[Sweeper] /\ twh'[Sweeper] = twh[Sweeper] /\ (shutdowns # 0 => shutdowns' # 0)
      <4>1. pc'[Sweeper] = pc[Sweeper] /\ (shutdowns # 0 => shutdowns' # 0)
        BY <1>1, <3>2, BackgroundRuns DEF Runs
      <4>2. twh'[Sweeper] = twh[Sweeper]
        BY <1>1, <3>2 DEF LocalTypes, BackgroundStep, StartDrain, DrainOne, TermWait, CollectKeys,
           NextKey, BackgroundState, SweepAlive, SlotTerminate, RemoveKey, RetireGet,
           RetireFlip, RetirePush, ReconcileUser, ReconcileBuckets, ReconcileLookupError
      <4> QED BY <4>1, <4>2
    <3>3. ASSUME \/ \E u \in Tasks : Yield(u)
                 \/ \E hh \in Workers : WorkerExits(hh) \/ DropHandle(hh)
                 \/ \E kk \in Keys : DirectoryChange(kk)
                 \/ Tick \/ UNCHANGED vars
          PROVE  UNCHANGED <<pc, twh, shutdowns>>
      BY <3>3 DEF Yield, WorkerExits, DropHandle, DirectoryChange, Tick, vars
    <3> QED BY <1>6, <3>1, <3>2, <3>3 DEF Next
  <2>2. shutdowns # 0 /\ proc[h] # "alive" /\ Looks
    BY <1>3, <1>6, <2>1
  <2>3. proc'[h] # "alive"
    BY <1>2, <2>2, ClockSteps
  <2> QED BY <2>1, <2>2, <2>3
<1>7. CASE Looks /\ Sweeper \in cpu /\ ~(BackgroundStep(Sweeper) \/ ReconcileLookupError(Sweeper))
  <2>1. ASSUME BackgroundStep(Shutdown) \/ ReconcileLookupError(Shutdown)
        PROVE  SweepInv'
    <3> SUFFICES Known' /\ Found'
      BY TermWaitDead DEF SweepInv
    <3>1. Shutdown \in Background /\ Shutdown \in Tasks
      BY DEF Background
    <3>2. pc'[Sweeper] = pc[Sweeper] /\ Sweeper \in cpu' /\ UNCHANGED <<sweepNow, lastUsed>>
      BY <1>1, <1>7, <2>1, <3>1, BackgroundRuns, BackgroundProcs DEF Runs
    <3>3. twh'[Sweeper] = twh[Sweeper] /\ tkey'[Sweeper] = tkey[Sweeper]
      BY <1>1, <2>1 DEF LocalTypes, BackgroundStep, StartDrain, DrainOne, TermWait, CollectKeys,
         NextKey, BackgroundState, SweepAlive, SlotTerminate, RemoveKey, RetireGet,
         RetireFlip, RetirePush, ReconcileUser, ReconcileBuckets, ReconcileLookupError
    <3>4. pc[Shutdown] \notin RetirePCs
      BY <3>1 DEF HandleInv, RetiredApart, Shutdown, Reconciler
    <3>5. UNCHANGED state
      BY <2>1, <3>4 DEF BackgroundStep, StartDrain, DrainOne, TermWait, CollectKeys,
         NextKey, BackgroundState, SweepAlive, SlotTerminate, RemoveKey, RetireGet, RetirePCs,
         RetireFlip, RetirePush, ReconcileUser, ReconcileBuckets, ReconcileLookupError
    <3>6. slots'[k] = slots[k]
      <4>1. CASE RemoveKey(Shutdown)
        <5>1. HoldsRef(Sweeper)
          BY <1>7 DEF HoldsRef, RefPCs
        <5>2. tkey[Shutdown] # k
          BY <1>1, <4>1, <5>1 DEF RemoveKey, WriteBlocked
        <5> QED BY <4>1, <5>2 DEF RemoveKey, MapTypes
      <4>2. CASE ~RemoveKey(Shutdown)
        BY <2>1, <4>2 DEF BackgroundStep, StartDrain, DrainOne, TermWait, CollectKeys,
         NextKey, BackgroundState, SweepAlive, SlotTerminate, RetireGet,
         RetireFlip, RetirePush, ReconcileUser, ReconcileBuckets, ReconcileLookupError
      <4> QED BY <4>1, <4>2
    <3>7. proc'[h] = "alive" => proc[h] = "alive"
      BY <1>2, <1>7, ClockSteps
    <3>8. Known'
      <4>1. CASE state[slots[k]] = Running(h)
        BY <4>1, <3>2, <3>3, <3>5, <3>6
      <4>2. CASE shutdowns # 0 /\ proc[h] # "alive"
        BY <4>2, <2>1, <3>1, <3>3, <3>7, BackgroundRuns
      <4> QED BY <1>3, <1>7, <4>1, <4>2
    <3>9. Found'
      BY <1>3, <1>7, <3>2, <3>3, <3>7 DEF Idle
    <3> QED BY <3>8, <3>9
  <2>2. ASSUME NEW u \in Tasks, Yield(u)
        PROVE  SweepInv'
    <3>1. u = Sweeper
      BY <1>7, <2>2, SweeperAlone
    <3>2. ChildLocked(h)
      BY <1>7, <2>2, <3>1 DEF Yield, AwaitsLock
    <3>3. PICK t \in Background : pc[t] \in {"drainTermWait", "slotTermWait"} /\ twh[t] = h
      BY <3>2 DEF ChildLocked
    <3>4. t = Shutdown
      BY <1>7, <3>3 DEF ThreadInv, Background, RetirePCs
    <3>5. shutdowns # 0 /\ proc[h] # "alive"
      BY <3>3, <3>4 DEF ThreadInv, SweepInv
    <3>6. UNCHANGED <<slots, state, tkey, sweepNow, pc, twh, shutdowns, lastUsed>>
      BY <2>2 DEF Yield
    <3> QED BY <1>5, <3>5, <3>6
  <2>3. ASSUME \/ \E hh \in Workers : WorkerExits(hh) \/ DropHandle(hh)
               \/ \E kk \in Keys : DirectoryChange(kk)
               \/ Tick \/ UNCHANGED vars
        PROVE  SweepInv'
    <3>1. UNCHANGED <<slots, state, tkey, sweepNow, pc, twh, shutdowns, lastUsed, cpu>>
      BY <2>3 DEF WorkerExits, DropHandle, DirectoryChange, Tick, vars
    <3> QED BY <1>5, <3>1
  <2>4. \A r \in Requests : ~(\E kk \in Keys : Arrive(r, kk)) /\ ~RequestStep(r)
    BY <1>7, SweeperAlone
  <2>5. \A t \in Background : t = Sweeper \/ t = Shutdown \/ ~(BackgroundStep(t) \/ ReconcileLookupError(t))
    BY <1>7, SweeperAlone DEF Background
  <2> QED BY <1>7, <2>1, <2>2, <2>3, <2>4, <2>5 DEF Next
<1> QED BY <1>4, <1>6, <1>7

\* With one thread, in every reachable state: whose slot and worker, one task
\* at a time, and what the sweep knows.
THEOREM SweepInvariant ==
    ASSUME Threads = 1 PROVE Spec => [](IInv /\ HandleInv /\ ThreadInv /\ SweepInv)
<1>1. Init => ThreadInv
  BY TaskSets DEF Init, ThreadInv, BusyPCs, Background, RetirePCs
<1>2. Init => SweepInv
  <2>1. Sweeper \in Background
    BY DEF Background
  <2> QED BY <2>1, TaskSets DEF Init, SweepInv
<1>3. IInv /\ HandleInv /\ ThreadInv /\ SweepInv /\ [Next]_vars
        => (IInv /\ HandleInv /\ ThreadInv /\ SweepInv)'
  BY NextInv, HandleNext, ThreadNext, SweepNext
<1> QED BY InitInv, HandleInit, <1>1, <1>2, <1>3, PTL DEF Spec

\* sweep_once terminates a live worker only when no request has been routed to it
\* for idle_timeout_secs, however its last requests and the sweep interleave, as
\* long as the runtime has the one thread that Pingora gives it.
THEOREM FreshWorkerNotSweptProperty == ASSUME Threads = 1 PROVE Spec => FreshWorkerNotSwept
<1>1. ASSUME IInv, SweepInv, NEW h \in Workers,
             proc[h] = "alive", pc[Sweeper] = "slotTerm", twh[Sweeper] = h
      PROVE  now - lastUsed[h] >= IdleTimeout
  <2>1. sweepNow - lastUsed[h] >= IdleTimeout /\ sweepNow <= now
    BY <1>1 DEF SweepInv, Idle
  <2>2. now \in Nat /\ sweepNow \in Nat /\ lastUsed[h] \in Nat
    BY <1>1 DEF IInv, TypeOK, ProcTypes, CounterTypes, LocalTypes
  <2> QED BY <2>1, <2>2, ConstantsAssumption
<1>2. IInv /\ SweepInv /\ [Next]_vars =>
        [\A h \in Workers :
           /\ proc[h] = "alive" /\ proc'[h] # "alive"
           /\ pc[Sweeper] = "slotTerm" /\ twh[Sweeper] = h /\ pc'[Sweeper] = "slotTermWait"
           => now - lastUsed[h] >= IdleTimeout]_vars
  BY <1>1
<1> QED BY <1>2, SweepInvariant, PTL DEF Spec, FreshWorkerNotSwept

\* Who can end a process that lives: its starter, a drain, a terminate, the
\* process itself, or the last handle being dropped.
LEMMA Killers ==
    ASSUME IInv, Next, NEW h \in Workers, proc[h] = "alive", proc'[h] # "alive"
    PROVE  \/ \E r \in Requests : pc[r] = "ready" /\ twh[r] = h
           \/ \E t \in Background : DrainOne(t)
           \/ \E t \in Background : pc[t] \in {"drainTermWait", "slotTermWait"} /\ twh[t] = h
           \/ \E t \in Background : pc[t] = "slotTerm" /\ twh[t] = h
           \/ crashes' # crashes
           \/ h \notin HeldWorkers
<1> USE TaskSets DEF IInv, TypeOK, ProcTypes, mapVars, procVars, retVars, envVars
<1>1. ASSUME NEW r \in Requests, (\E k \in Keys : Arrive(r, k)) \/ RequestStep(r)
      PROVE  pc[r] = "ready" /\ twh[r] = h
  <2>1. SpawnFail(r) \/ UNCHANGED proc \/ (\E g : proc' = TryWait(g)) \/ (\E g \in Workers : proc' = [proc EXCEPT ![g] = "alive"])
    BY <1>1 DEF RequestStep, Arrive, GetRunningState, GetRunningAlive, GetRunningRemove, Reject, LookupBuckets,
       EnsureEntry, EnsureTop, EnsureFastAlive, EnsureSecond, SpawnChild, EnsurePark, SpawnReady, Finish, Route
  <2>2. \A g : proc' # TryWait(g)
    BY DEF TryWait
  <2>3. SpawnFail(r)
    BY <2>1, <2>2
  <2> QED BY <2>3 DEF SpawnFail
<1>2. ASSUME NEW t \in Background, BackgroundStep(t) \/ ReconcileLookupError(t), ~DrainOne(t)
      PROVE  (pc[t] \in {"drainTermWait", "slotTermWait"} \/ pc[t] = "slotTerm") /\ twh[t] = h
  <2>1. TermWait(t) \/ SlotTerminate(t) \/ UNCHANGED proc \/ proc' = TryWait(twh[t])
    BY <1>2 DEF BackgroundStep, StartDrain, CollectKeys,
       NextKey, BackgroundState, SweepAlive, RemoveKey, RetireGet,
       RetireFlip, RetirePush, ReconcileUser, ReconcileBuckets, ReconcileLookupError
  <2>2. proc' # TryWait(twh[t])
    BY DEF TryWait
  <2>3. TermWait(t) \/ SlotTerminate(t)
    BY <2>1, <2>2
  <2> QED BY <2>3 DEF TermWait, SlotTerminate
<1>3. ASSUME NEW g \in Workers, WorkerExits(g) \/ DropHandle(g)
      PROVE  crashes' # crashes \/ h \notin HeldWorkers
  BY <1>3 DEF WorkerExits, DropHandle, CounterTypes
<1>4. ASSUME (\E t \in Tasks : Yield(t)) \/ (\E k \in Keys : DirectoryChange(k)) \/ Tick
      PROVE  FALSE
  BY <1>4 DEF Yield, DirectoryChange, Tick
<1> QED BY <1>1, <1>2, <1>3, <1>4 DEF Next

\* The manager kills no retired worker before reconcile_grace_secs have passed
\* since it was put on the retiring list, except in a shutdown, as long as the
\* runtime has the one thread that Pingora gives it.
THEOREM GraceRespectedProperty == ASSUME Threads = 1 PROVE Spec => GraceRespected
<1>1. ASSUME IInv, HandleInv, ThreadInv, SweepInv, Next, NEW x \in retiring,
             proc[x.handle] = "alive", proc'[x.handle] # "alive", crashes' = crashes, shutdowns = 0
      PROVE  now >= x.terminateAfter
  <2> USE <1>1, TaskSets DEF IInv, TypeOK
  <2> DEFINE h == x.handle
  <2>1. h \in Workers /\ x.terminateAfter \in Nat /\ h \in HeldWorkers
    BY DEF RetiringTypes, HeldWorkers
  <2>2. Retired(h) /\ ~Routed(h)
    BY <2>1 DEF Retired, HandleInv, RetiredApart
  <2>3. \A t \in Background : t # Sweeper => pc[t] \in {"sleep", "next", "bgState"} \cup RetirePCs
    BY <1>1 DEF ThreadInv, Background
  <2>4. ASSUME NEW r \in Requests, pc[r] = "ready", twh[r] = h
        PROVE  FALSE
    BY <2>1, <2>2, <2>4, Ranges DEF HandleInv, StarterOwns
  <2>5. ASSUME NEW t \in Background, pc[t] \in {"drainTermWait", "slotTermWait"}, twh[t] = h
        PROVE  FALSE
    BY <1>1, <2>5 DEF SweepInv
  <2>6. ASSUME NEW t \in Background, pc[t] = "slotTerm", twh[t] = h
        PROVE  FALSE
    <3>1. t = Sweeper
      BY <2>3, <2>6 DEF RetirePCs
    <3>2. state[slots[tkey[Sweeper]]] = Running(h)
      BY <1>1, <2>6, <3>1 DEF SweepInv
    <3>3. slots[tkey[Sweeper]] # 0 /\ tkey[Sweeper] \in Keys
      BY <2>6, <3>1 DEF RefsPinned, HoldsRef, RefPCs, LocalTypes
    <3> QED BY <2>2, <3>2, <3>3 DEF Routed
  <2>7. ASSUME NEW t \in Background, DrainOne(t)
        PROVE  now >= x.terminateAfter
    <3>1. t = Sweeper
      BY <2>3, <2>7 DEF DrainOne, RetirePCs
    <3>2. PICK y \in drain : UNCHANGED proc \/ (~KeepDraining(y) /\ proc' = [proc EXCEPT ![y.handle] = "exited"])
      BY <2>7, <3>1 DEF DrainOne
    <3>3. y.handle = h /\ ~KeepDraining(y)
      BY <1>1, <2>1, <3>2 DEF ProcTypes
    <3>4. y = x
      BY <3>3 DEF HandleInv, RetiredApart
    <3>5. sweepNow >= x.terminateAfter /\ sweepNow <= now
      BY <1>1, <2>1, <3>3, <3>4 DEF KeepDraining, SweepInv, LocalTypes
    <3> QED BY <2>1, <3>5 DEF CounterTypes, LocalTypes
  <2> QED BY <1>1, <2>1, <2>4, <2>5, <2>6, <2>7, Killers
<1>2. IInv /\ HandleInv /\ ThreadInv /\ SweepInv /\ [Next]_vars =>
        [\A x \in retiring :
           /\ proc[x.handle] = "alive" /\ proc'[x.handle] # "alive"
           /\ crashes' = crashes /\ shutdowns = 0
           => now >= x.terminateAfter]_vars
  BY <1>1
<1> QED BY <1>2, SweepInvariant, PTL DEF Spec, GraceRespected

-----------------------------------------------------------------------------
\* Where every live worker is, while no shutdown has been requested.

InMap(s) == \E k \in Keys : slots[k] = s
DeadSlot(s) == state[s].st = "Running" /\ proc[state[s].h] # "alive"

\* While the sweeper waits for the process it has killed, nobody holds the slot.
SweptSlot ==
    /\ pc[Sweeper] \in {"slotTerm", "slotTermWait"} =>
         \A r \in Requests : tslot[r] # slots[tkey[Sweeper]]
    /\ pc[Sweeper] = "slotTermWait" =>
         state[slots[tkey[Sweeper]]] \in {Stopped, Running(twh[Sweeper])}

\* A slot that is about to be removed has a dead worker, or is held by nobody.
Removable(k) ==
    slots[k] # 0 =>
        \/ DeadSlot(slots[k])
        \/ state[slots[k]] = Stopped /\ \A r \in Requests : tslot[r] # slots[k]
RemovedDead ==
    /\ \A r \in Requests : pc[r] = "grRemove" => Removable(tkey[r])
    /\ pc[Sweeper] = "remove" => Removable(tkey[Sweeper])

\* get_running still looks at its slot's worker, or is behind the sweeper.
AliveChecked ==
    \A r \in Requests : pc[r] = "grAlive" =>
        \/ r \in cpu /\ state[slots[tkey[r]]] = Running(twh[r])
        \/ pc[Sweeper] = "slotTermWait" /\ twh[Sweeper] = twh[r] /\ tkey[Sweeper] = tkey[r]
        \/ pc[Sweeper] = "remove" /\ tkey[Sweeper] = tkey[r]

\* A request holds a slot that is not in the map only if its worker is dead; in
\* the map it waits for the starter, has just been woken, or is being looked at.
HeldSlots ==
    \A r \in Requests : tslot[r] # 0 =>
        /\ ~InMap(tslot[r]) => DeadSlot(tslot[r])
        /\ InMap(tslot[r]) => r \in cpu \/ pc[r] \in {"top", "wait", "ready"}
        /\ state[tslot[r]].st = "Running" /\ proc[state[tslot[r]].h] = "alive" =>
             pc[r] = "top" /\ (r \in cpu \/ lastUsed[state[tslot[r]].h] = now)

\* Every live worker is drained, or is the one of its key's slot.
Placed ==
    \A w \in Workers \ Draining : proc[w] = "alive" =>
        LET s == slots[spawnedFor[w].key] IN
        /\ s # 0
        /\ \/ state[s] = Running(w)
           \/ \E r \in Requests : pc[r] = "ready" /\ twh[r] = w /\ tslot[r] = s

PlaceInv == shutdowns = 0 =>
    SweptSlot /\ RemovedDead /\ AliveChecked /\ HeldSlots /\ Placed

\* What holds of one thread.
OneThread == IInv /\ HandleInv /\ ThreadInv /\ SweepInv

\* The steps of a request, and of a pass.
RequestActs(r) == (\E k \in Keys : Arrive(r, k)) \/ RequestStep(r)
PassActs(t) == BackgroundStep(t) \/ ReconcileLookupError(t)

\* What the world may do: processes die, and the clock ticks only when nobody
\* can run.
Still ==
    /\ UNCHANGED <<slots, state, lastUsed, spawnedFor, retiring, drain, pc, cpu, tkey,
                   tslot, twh, sweepNow, shutdowns>>
    /\ \A h \in Workers : proc'[h] = "alive" => proc[h] = "alive"
    /\ now' = now \/ \A r \in Requests : pc[r] # "top"

\* A task that acts leaves the others' locals alone.
OthersKeep(a) ==
    /\ \A u \in Tasks \ {a} : twh'[u] = twh[u] /\ tkey'[u] = tkey[u]
    /\ \A r \in Requests \ {a} : tslot'[r] = tslot[r]

\* A request touches no other task's locals.
LEMMA RequestLocals ==
    ASSUME IInv, NEW r \in Requests, RequestActs(r)
    PROVE  OthersKeep(r)
<1> USE TaskSets DEF IInv, TypeOK, LocalTypes, OthersKeep, mapVars, procVars, retVars, envVars
<1>1. \A u \in Tasks \ {r} : twh'[u] = twh[u]
  BY DEF RequestActs, RequestStep, Arrive, GetRunningState, GetRunningAlive, GetRunningRemove,
         Reject, LookupBuckets, EnsureEntry, EnsureTop, EnsureFastAlive, EnsureSecond, SpawnChild,
         EnsurePark, SpawnReady, SpawnFail, Finish, Route
<1>2. \A u \in Tasks \ {r} : tkey'[u] = tkey[u]
  BY DEF RequestActs, RequestStep, Arrive, GetRunningState, GetRunningAlive, GetRunningRemove,
         Reject, LookupBuckets, EnsureEntry, EnsureTop, EnsureFastAlive, EnsureSecond, SpawnChild,
         EnsurePark, SpawnReady, SpawnFail, Finish
<1>3. \A q \in Requests \ {r} : tslot'[q] = tslot[q]
  BY DEF RequestActs, RequestStep, Arrive, GetRunningState, GetRunningAlive, GetRunningRemove,
         Reject, LookupBuckets, EnsureEntry, EnsureTop, EnsureFastAlive, EnsureSecond, SpawnChild,
         EnsurePark, SpawnReady, SpawnFail, Finish, Route
<1> QED BY <1>1, <1>2, <1>3

\* A pass touches no other task's locals, and no slot that a request holds.
LEMMA PassLocals ==
    ASSUME IInv, NEW t \in Background, PassActs(t)
    PROVE  OthersKeep(t) /\ UNCHANGED tslot
<1> USE TaskSets DEF IInv, TypeOK, LocalTypes, OthersKeep, mapVars, procVars, retVars, envVars
<1>1. \A u \in Tasks \ {t} : twh'[u] = twh[u]
  BY DEF PassActs, BackgroundStep, StartDrain, DrainOne, TermWait, CollectKeys,
         NextKey, BackgroundState, SweepAlive, SlotTerminate, RemoveKey, RetireGet,
         RetireFlip, RetirePush, ReconcileUser, ReconcileBuckets, ReconcileLookupError
<1>2. \A u \in Tasks \ {t} : tkey'[u] = tkey[u]
  BY DEF PassActs, BackgroundStep, StartDrain, DrainOne, TermWait, CollectKeys,
         NextKey, BackgroundState, SweepAlive, SlotTerminate, RemoveKey, RetireGet,
         RetireFlip, RetirePush, ReconcileUser, ReconcileBuckets, ReconcileLookupError
<1>3. UNCHANGED tslot
  BY DEF PassActs, BackgroundStep, StartDrain, DrainOne, TermWait, CollectKeys,
         NextKey, BackgroundState, SweepAlive, SlotTerminate, RemoveKey, RetireGet,
         RetireFlip, RetirePush, ReconcileUser, ReconcileBuckets, ReconcileLookupError
<1> QED BY <1>1, <1>2, <1>3

\* With one thread and no shutdown, a step is one of the task that has the
\* thread, or of nobody.
LEMMA LoneStep ==
    ASSUME OneThread, [Next]_vars, shutdowns' = 0
    PROVE  /\ shutdowns = 0 /\ pc[Shutdown] = "sleep"
           /\ \/ \E r \in Requests : RequestActs(r) /\ Runs(r) /\ OthersKeep(r) /\ \A u \in cpu : u = r
              \/ \E t \in {Sweeper, Reconciler} :
                   PassActs(t) /\ Runs(t) /\ OthersKeep(t) /\ UNCHANGED tslot /\ \A u \in cpu : u = t
              \/ \E t \in cpu : Yield(t) /\ \A u \in cpu : u = t
              \/ Still
<1> USE TaskSets DEF OneThread, mapVars, procVars, retVars, envVars
<1>1. ASSUME NEW r \in Requests, RequestActs(r)
      PROVE  Runs(r) /\ OthersKeep(r) /\ (\A u \in cpu : u = r) /\ UNCHANGED shutdowns
  <2>1. Runs(r) /\ UNCHANGED shutdowns
    BY <1>1, RequestRuns DEF RequestActs
  <2> QED BY <1>1, <2>1, RequestLocals, RunsAlone DEF Runs, IInv
<1>2. ASSUME NEW t \in Background, PassActs(t)
      PROVE  /\ Runs(t) /\ OthersKeep(t) /\ UNCHANGED tslot
             /\ t = Shutdown => shutdowns' # 0
             /\ t # Shutdown => UNCHANGED shutdowns /\ \A u \in cpu : u = t
  <2>1. Runs(t) /\ (t = Shutdown => shutdowns' # 0) /\ (t # Shutdown => UNCHANGED shutdowns)
    BY <1>2, BackgroundRuns DEF PassActs
  <2> QED BY <1>2, <2>1, PassLocals, RunsAlone DEF Runs, IInv
<1>3. ASSUME NEW t \in Tasks, Yield(t)
      PROVE  t \in cpu /\ (\A u \in cpu : u = t) /\ UNCHANGED shutdowns
  BY <1>3 DEF Yield, ThreadInv
<1>4. ASSUME \/ \E h \in Workers : WorkerExits(h) \/ DropHandle(h)
             \/ \E k \in Keys : DirectoryChange(k)
             \/ Tick \/ UNCHANGED vars
      PROVE  Still
  BY <1>4 DEF WorkerExits, DropHandle, DirectoryChange, Tick, vars, Still, IInv, TypeOK, ProcTypes
<1>5. \/ \E r \in Requests : RequestActs(r)
      \/ \E t \in Background : PassActs(t)
      \/ \E t \in Tasks : Yield(t)
      \/ Still
  BY <1>4 DEF Next, RequestActs, PassActs
<1>6. shutdowns = 0
  BY <1>1, <1>2, <1>3, <1>5 DEF Still
<1>7. pc[Shutdown] = "sleep"
  BY <1>6 DEF ThreadInv
<1> QED BY <1>1, <1>2, <1>3, <1>5, <1>6, <1>7 DEF Background

\* Whose step it was, when a task has moved: its own, or it was woken.
LEMMA Mover ==
    ASSUME OneThread, [Next]_vars, shutdowns' = 0, NEW u \in Tasks, pc'[u] # pc[u], pc'[u] # "top"
    PROVE  /\ u \in Requests => RequestActs(u)
           /\ u \in Background => u \in {Sweeper, Reconciler} /\ PassActs(u)
           /\ Runs(u) /\ OthersKeep(u) /\ \A v \in cpu : v = u
<1> USE TaskSets
<1>1. \A a \in Tasks : Runs(a) => a = u
  BY DEF Runs
<1>2. ~Still /\ \A t \in cpu : ~Yield(t)
  BY DEF Still, Yield
<1>3. {Sweeper, Reconciler} \subseteq Background
  BY DEF Background
<1> QED BY <1>1, <1>2, <1>3, LoneStep

\* A busy task is disturbed by nobody: the world alone moves until it acts.
LEMMA BusyAlone ==
    ASSUME OneThread, [Next]_vars, shutdowns' = 0, NEW u \in Tasks, u \in cpu,
           pc'[u] = pc[u], ~Yield(u), u \in Requests => ~RequestActs(u), u \in Background => ~PassActs(u)
    PROVE  Still
<1> USE TaskSets
<1>1. {Sweeper, Reconciler} \subseteq Background
  BY DEF Background
<1> QED BY <1>1, LoneStep

\* A key is removed only when its worker is dead or its slot is held by nobody.
LEMMA RemovedDeadNext ==
    ASSUME OneThread, OneThread', PlaceInv, [Next]_vars, shutdowns' = 0
    PROVE  RemovedDead'
<1> USE TaskSets, SlotStateFacts, Ranges DEF OneThread, IInv, TypeOK, mapVars, procVars, retVars, envVars
<1>1. SweptSlot /\ RemovedDead /\ AliveChecked /\ HeldSlots /\ shutdowns = 0
  BY LoneStep DEF PlaceInv
<1>2. ASSUME Still, NEW k \in Keys, Removable(k)
      PROVE  Removable(k)'
  <2>1. slots[k] # 0 /\ state[slots[k]].st = "Running" => state[slots[k]].h \in Workers
    BY DEF MapTypes
  <2> QED BY <1>2, <2>1 DEF Still, Removable, DeadSlot
<1>3. ASSUME NEW h \in Workers, proc[h] # "alive", NEW k \in Keys, slots[k] # 0, state[slots[k]] = Running(h),
             UNCHANGED <<slots, state>>, proc'[h] # "alive"
      PROVE  Removable(k)'
  BY <1>3 DEF Removable, DeadSlot, Running
<1>4. ASSUME NEW r \in Requests, pc'[r] = "grRemove"
      PROVE  Removable(tkey[r])'
  <2>1. CASE pc[r] = "grRemove"
    <3>1. r \in cpu
      BY <2>1 DEF ThreadInv, BusyPCs
    <3>2. ~Yield(r)
      BY <2>1 DEF Yield, AwaitsLock
    <3>3. ~RequestActs(r)
      BY <2>1, <1>4 DEF RequestActs, RequestStep, Arrive, GetRunningState, GetRunningAlive, GetRunningRemove,
         Reject, LookupBuckets, EnsureEntry, EnsureTop, EnsureFastAlive, EnsureSecond, SpawnChild,
         EnsurePark, SpawnReady, SpawnFail, Finish, Route, Goto, GotoAndNotify, PcTypes
    <3>4. Still
      BY <2>1, <1>4, <3>1, <3>2, <3>3, BusyAlone
    <3>5. tkey[r] \in Keys /\ UNCHANGED tkey
      BY <3>4 DEF Still, LocalTypes
    <3> QED BY <2>1, <1>1, <1>2, <3>4, <3>5 DEF RemovedDead
  <2>2. CASE pc[r] # "grRemove"
    <3>1. RequestActs(r) /\ OthersKeep(r)
      BY <2>2, <1>4, Mover
    <3>2. GetRunningAlive(r)
      BY <2>2, <1>4, <3>1 DEF RequestActs, RequestStep, Arrive, GetRunningState, GetRunningAlive, GetRunningRemove,
         Reject, LookupBuckets, EnsureEntry, EnsureTop, EnsureFastAlive, EnsureSecond, SpawnChild,
         EnsurePark, SpawnReady, SpawnFail, Finish, Route, Goto, GotoAndNotify, PcTypes
    <3>3. /\ pc[r] = "grAlive" /\ HasThread(r) /\ ~ChildLocked(twh[r]) /\ proc' = TryWait(twh[r])
          /\ UNCHANGED <<slots, state, tkey, twh, tslot>> /\ proc[twh[r]] # "alive"
      BY <1>4, <3>2 DEF GetRunningAlive, Route, Goto, PcTypes
    <3>4. state[slots[tkey[r]]] = Running(twh[r]) /\ slots[tkey[r]] # 0 /\ tkey[r] \in Keys
      <4>1. pc[Sweeper] = "remove" => Sweeper = r
        BY <3>3, RunsAlone DEF ThreadInv, BusyPCs, Background, Sweeper, Shutdown
      <4>2. ~(pc[Sweeper] = "slotTermWait" /\ twh[Sweeper] = twh[r])
        BY <3>3 DEF ChildLocked, Background
      <4>3. r # Sweeper /\ HoldsRef(r)
        BY <3>3 DEF Background, HoldsRef, RefPCs
      <4> QED BY <1>1, <3>3, <4>1, <4>2, <4>3 DEF AliveChecked, RefsPinned, LocalTypes
    <3>5. twh[r] \in Workers
      <4>1. state[slots[tkey[r]]] \in SlotState
        BY <3>4 DEF MapTypes
      <4> QED BY <3>4, <4>1 DEF Running
    <3>6. proc'[twh[r]] # "alive"
      BY <3>3, <3>5 DEF TryWait, ProcTypes
    <3> QED BY <1>3, <3>3, <3>4, <3>5, <3>6
  <2> QED BY <2>1, <2>2
<1>5. ASSUME pc'[Sweeper] = "remove"
      PROVE  Removable(tkey[Sweeper])'
  <2>0. Sweeper \in Background /\ Sweeper \in Tasks \ {Shutdown} /\ Sweeper \notin Requests
    BY DEF Background, Sweeper, Shutdown
  <2>1. CASE pc[Sweeper] = "remove"
    <3>1. Sweeper \in cpu
      BY <2>0, <2>1 DEF ThreadInv, BusyPCs
    <3>2. ~Yield(Sweeper)
      BY <2>1 DEF Yield, AwaitsLock
    <3>3. ~PassActs(Sweeper)
      BY <2>0, <2>1, <1>5 DEF PassActs, BackgroundStep, StartDrain, DrainOne, TermWait, CollectKeys,
         NextKey, BackgroundState, SweepAlive, SlotTerminate, RemoveKey, RetireGet,
         RetireFlip, RetirePush, ReconcileUser, ReconcileBuckets, ReconcileLookupError, Goto, PcTypes
    <3>4. Still
      BY <2>0, <2>1, <1>5, <3>1, <3>2, <3>3, BusyAlone
    <3>5. tkey[Sweeper] \in Keys /\ UNCHANGED tkey
      BY <2>0, <3>4 DEF Still, LocalTypes
    <3> QED BY <2>1, <1>1, <1>2, <3>4, <3>5 DEF RemovedDead
  <2>2. CASE pc[Sweeper] # "remove"
    <3>1. PassActs(Sweeper)
      BY <2>0, <2>2, <1>5, Mover
    <3>2. SweepAlive(Sweeper) \/ SlotTerminate(Sweeper) \/ TermWait(Sweeper)
      BY <2>0, <2>2, <1>5, <3>1 DEF PassActs, BackgroundStep, StartDrain, DrainOne, CollectKeys,
         NextKey, BackgroundState, RemoveKey, RetireGet, GotoAndNotify, Sweeper, Shutdown, Reconciler,
         RetireFlip, RetirePush, ReconcileUser, ReconcileBuckets, ReconcileLookupError, Goto, PcTypes
    <3>3. pc[Sweeper] \in {"swAlive", "slotTerm", "slotTermWait"}
      BY <2>0, <1>5, <3>2 DEF SweepAlive, SlotTerminate, TermWait, Goto, PcTypes
    <3>4. tkey[Sweeper] \in Keys /\ slots[tkey[Sweeper]] # 0 /\ twh[Sweeper] \in Workers
      BY <2>0, <3>3 DEF LocalTypes, RefsPinned, HoldsRef, RefPCs, HandleInv, WorkerKeys, InspectPCs
    <3>5. UNCHANGED <<slots, state, tkey, tslot>>
      BY <3>2 DEF SweepAlive, SlotTerminate, TermWait
    <3>6. proc'[twh[Sweeper]] # "alive"
      BY <2>0, <1>5, <3>2, <3>4 DEF SweepAlive, SlotTerminate, TermWait, TryWait, ProcTypes, Goto, PcTypes
    <3>7. CASE pc[Sweeper] \in {"swAlive", "slotTerm"}
      <4>1. state[slots[tkey[Sweeper]]] = Running(twh[Sweeper])
        BY <1>1, <3>7 DEF SweepInv
      <4>2. proc[twh[Sweeper]] # "alive"
        BY <2>0, <1>5, <3>2, <3>4, <3>7 DEF SweepAlive, SlotTerminate, TermWait, Goto, PcTypes
      <4> QED BY <1>3, <3>4, <3>5, <3>6, <4>1, <4>2
    <3>8. CASE pc[Sweeper] = "slotTermWait"
      <4>1. proc[twh[Sweeper]] # "alive"
        BY <2>0, <3>8 DEF SweepInv
      <4>2. CASE state[slots[tkey[Sweeper]]] = Running(twh[Sweeper])
        BY <1>3, <3>4, <3>5, <3>6, <4>1, <4>2
      <4>3. CASE state[slots[tkey[Sweeper]]] = Stopped
        BY <1>1, <3>5, <3>8, <4>3 DEF SweptSlot, Removable
      <4> QED BY <1>1, <3>8, <4>2, <4>3 DEF SweptSlot
    <3> QED BY <3>3, <3>7, <3>8
  <2> QED BY <2>1, <2>2
<1> QED BY <1>4, <1>5 DEF RemovedDead

\* The requests' steps that change the map or the slots that are held.
LEMMA RequestMap ==
    ASSUME IInv, NEW r \in Requests, RequestActs(r)
    PROVE  \/ UNCHANGED <<slots, state>> /\ (tslot'[r] = tslot[r] \/ tslot'[r] = 0)
           \/ GetRunningRemove(r)
           \/ EnsureEntry(r)
           \/ /\ EnsureSecond(r) \/ SpawnReady(r) \/ SpawnFail(r)
              /\ UNCHANGED slots /\ (tslot'[r] = tslot[r] \/ tslot'[r] = 0)
              /\ tslot[r] \in Slots /\ \A s \in Slots \ {tslot[r]} : state'[s] = state[s]
<1> USE TaskSets, Ranges DEF IInv, TypeOK, mapVars, procVars, retVars, envVars
<1>1. CASE EnsureSecond(r) \/ SpawnReady(r) \/ SpawnFail(r)
  <2>1. UNCHANGED slots /\ (tslot'[r] = tslot[r] \/ tslot'[r] = 0)
    BY <1>1 DEF EnsureSecond, SpawnChild, SpawnReady, SpawnFail, LocalTypes
  <2>2. tslot[r] \in Slots
    BY <1>1 DEF EnsureSecond, SpawnChild, SpawnReady, SpawnFail, SlotsHeld, EnsurePCs
  <2>3. \A s \in Slots \ {tslot[r]} : state'[s] = state[s]
    BY <1>1, <2>2 DEF EnsureSecond, SpawnChild, SpawnReady, SpawnFail, MapTypes
  <2> QED BY <1>1, <2>1, <2>2, <2>3
<1>2. CASE ~(EnsureSecond(r) \/ SpawnReady(r) \/ SpawnFail(r) \/ GetRunningRemove(r) \/ EnsureEntry(r))
  BY <1>2 DEF RequestActs, RequestStep, Arrive, GetRunningState, GetRunningAlive, Reject,
     LookupBuckets, EnsureTop, EnsureFastAlive, EnsurePark, Finish, Route, LocalTypes
<1> QED BY <1>1, <1>2

\* The passes' steps that change the map.
LEMMA PassMap ==
    ASSUME IInv, NEW t \in Background, PassActs(t)
    PROVE  UNCHANGED <<slots, state>> \/ RemoveKey(t) \/ RetireFlip(t)
BY DEF mapVars, PassActs, BackgroundStep, StartDrain, DrainOne, TermWait, CollectKeys,
       NextKey, BackgroundState, SweepAlive, SlotTerminate, RetireGet,
       RetirePush, ReconcileUser, ReconcileBuckets, ReconcileLookupError

\* Nobody takes up a slot whose worker the sweeper terminates, and its state is
\* changed by the reconciler at most.
LEMMA SweptSlotNext ==
    ASSUME OneThread, OneThread', PlaceInv, [Next]_vars, shutdowns' = 0
    PROVE  SweptSlot'
<1> USE TaskSets, SlotStateFacts, Ranges DEF OneThread, IInv, TypeOK, mapVars, procVars, retVars, envVars
<1>1. SweptSlot /\ HeldSlots /\ shutdowns = 0 /\ pc[Shutdown] = "sleep"
  BY LoneStep DEF PlaceInv
<1>2. Sweeper \in Background /\ Sweeper \in Tasks \ {Shutdown} /\ Sweeper \notin Requests /\ Sweeper # Reconciler
  BY DEF Background, Sweeper, Shutdown, Reconciler
<1>3. CASE pc[Sweeper] = "slotTerm" /\ pc'[Sweeper] = "slotTerm"
  <2>1. Sweeper \in cpu
    BY <1>1, <1>3 DEF SweepInv
  <2>2. ~Yield(Sweeper)
    BY <1>1, <1>3 DEF Yield, AwaitsLock, ChildLocked, Background, ThreadInv, RetirePCs
  <2>3. ~PassActs(Sweeper)
    BY <1>2, <1>3 DEF PassActs, BackgroundStep, StartDrain, DrainOne, TermWait, CollectKeys,
       NextKey, BackgroundState, SweepAlive, SlotTerminate, RemoveKey, RetireGet,
       RetireFlip, RetirePush, ReconcileUser, ReconcileBuckets, ReconcileLookupError, Goto, PcTypes
  <2>4. Still
    BY <1>2, <1>3, <2>1, <2>2, <2>3, BusyAlone
  <2> QED BY <1>1, <1>3, <2>4 DEF Still, SweptSlot
<1>4. CASE pc[Sweeper] # "slotTerm" /\ pc'[Sweeper] = "slotTerm"
  <2>1. PassActs(Sweeper)
    BY <1>2, <1>4, Mover
  <2>2. SweepAlive(Sweeper)
    BY <1>2, <1>4, <2>1 DEF PassActs, BackgroundStep, StartDrain, DrainOne, TermWait, CollectKeys,
       NextKey, BackgroundState, SlotTerminate, RemoveKey, RetireGet, Shutdown, Sweeper, GotoAndNotify,
       RetireFlip, RetirePush, ReconcileUser, ReconcileBuckets, ReconcileLookupError, Goto, PcTypes
  <2> DEFINE h == twh[Sweeper]
             s == slots[tkey[Sweeper]]
  <2>3. /\ pc[Sweeper] = "swAlive" /\ proc[h] = "alive" /\ Idle(h) /\ UNCHANGED <<slots, tkey, tslot>>
    BY <1>2, <1>4, <2>2 DEF SweepAlive, Goto, PcTypes
  <2>4. state[s] = Running(h) /\ Sweeper \in cpu /\ h \in Workers /\ s # 0
    BY <1>1, <1>2, <2>3 DEF SweepInv, HandleInv, WorkerKeys, InspectPCs, RefsPinned, HoldsRef, RefPCs
  <2>5. lastUsed[h] # now
    <3>1. now \in Nat /\ sweepNow \in Nat /\ sweepNow <= now /\ lastUsed[h] \in Nat
      BY <2>4 DEF SweepInv, ProcTypes, CounterTypes, LocalTypes
    <3> QED BY <2>3, <3>1, ConstantsAssumption DEF Idle
  <2>6. ASSUME NEW r \in Requests, tslot[r] = s
        PROVE  FALSE
    <3>1. r \notin cpu
      BY <1>2, <2>4 DEF ThreadInv
    <3>2. state[tslot[r]].st = "Running" /\ state[tslot[r]].h = h
      BY <2>4, <2>6 DEF Running
    <3> QED BY <1>1, <2>3, <2>4, <2>5, <2>6, <3>1, <3>2 DEF HeldSlots
  <2> QED BY <1>4, <2>3, <2>6 DEF SweptSlot
<1>5. CASE pc[Sweeper] # "slotTermWait" /\ pc'[Sweeper] = "slotTermWait"
  <2>1. PassActs(Sweeper)
    BY <1>2, <1>5, Mover
  <2>2. SlotTerminate(Sweeper)
    BY <1>2, <1>5, <2>1 DEF PassActs, BackgroundStep, StartDrain, DrainOne, TermWait, CollectKeys,
       NextKey, BackgroundState, SweepAlive, RemoveKey, RetireGet, GotoAndNotify,
       RetireFlip, RetirePush, ReconcileUser, ReconcileBuckets, ReconcileLookupError, Goto, PcTypes
  <2>3. pc[Sweeper] = "slotTerm" /\ UNCHANGED <<slots, state, tkey, tslot, twh>>
    BY <2>2 DEF SlotTerminate
  <2>4. state[slots[tkey[Sweeper]]] = Running(twh[Sweeper])
    BY <1>1, <2>3 DEF SweepInv
  <2> QED BY <1>1, <2>3, <2>4 DEF SweptSlot
<1>6. CASE pc[Sweeper] = "slotTermWait" /\ pc'[Sweeper] = "slotTermWait"
  <2> DEFINE k == tkey[Sweeper]
             s == slots[k]
             h == twh[Sweeper]
  <2>1. /\ \A r \in Requests : tslot[r] # s
        /\ state[s] \in {Stopped, Running(h)} /\ s \in Slots /\ k \in Keys /\ h \in Workers
    BY <1>1, <1>2, <1>6 DEF SweptSlot, RefsPinned, HoldsRef, RefPCs, LocalTypes, MapTypes, HandleInv, WorkerKeys, InspectPCs
  <2>2. WriteBlocked(k)
    BY <1>2, <1>6 DEF WriteBlocked, HoldsRef, RefPCs
  <2>3. ~PassActs(Sweeper)
    BY <1>2, <1>6 DEF PassActs, BackgroundStep, StartDrain, DrainOne, TermWait, CollectKeys,
       NextKey, BackgroundState, SweepAlive, SlotTerminate, RemoveKey, RetireGet,
       RetireFlip, RetirePush, ReconcileUser, ReconcileBuckets, ReconcileLookupError, Goto, PcTypes
  <2>4. tkey'[Sweeper] = k /\ twh'[Sweeper] = h
    BY <1>2, <2>3, LoneStep DEF OthersKeep, Still, Yield, Reconciler
  <2> SUFFICES /\ slots'[k] = s /\ (\A r \in Requests : tslot'[r] # s)
               /\ state'[s] \in {Stopped, Running(h)}
    BY <1>6, <2>4 DEF SweptSlot
  <2>5. ASSUME NEW r \in Requests, RequestActs(r), OthersKeep(r)
        PROVE  slots'[k] = s /\ (\A q \in Requests : tslot'[q] # s) /\ state'[s] \in {Stopped, Running(h)}
    <3>1. \A q \in Requests \ {r} : tslot'[q] # s
      BY <2>1, <2>5 DEF OthersKeep
    <3>2. CASE UNCHANGED <<slots, state>> /\ (tslot'[r] = tslot[r] \/ tslot'[r] = 0)
      BY <2>1, <3>1, <3>2
    <3>3. CASE GetRunningRemove(r)
      BY <2>1, <2>2, <3>1, <3>3 DEF GetRunningRemove, MapTypes
    <3>4. CASE EnsureEntry(r)
      <4>1. tkey[r] # k /\ tkey[r] \in Keys
        BY <2>2, <3>4 DEF EnsureEntry, LocalTypes
      <4>2. CASE slots[tkey[r]] # 0
        <5>1. UNCHANGED <<slots, state>> /\ tslot'[r] = slots[tkey[r]]
          BY <3>4, <4>2 DEF EnsureEntry, LocalTypes
        <5>2. slots[tkey[r]] # s
          BY <2>1, <4>1, <4>2 DEF HandleInv, SlotOwners
        <5> QED BY <2>1, <3>1, <5>1, <5>2
      <4>3. CASE slots[tkey[r]] = 0
        <5>1. PICK x \in Slots \ LiveSlots : /\ slots' = [slots EXCEPT ![tkey[r]] = x]
                                             /\ state' = [state EXCEPT ![x] = Stopped]
                                             /\ tslot' = [tslot EXCEPT ![r] = x]
          BY <3>4, <4>3 DEF EnsureEntry
        <5>2. x # s
          BY <2>1, <5>1 DEF LiveSlots
        <5> QED BY <2>1, <3>1, <4>1, <5>1, <5>2 DEF MapTypes, LocalTypes
      <4> QED BY <4>2, <4>3
    <3>5. CASE /\ UNCHANGED slots /\ (tslot'[r] = tslot[r] \/ tslot'[r] = 0)
               /\ tslot[r] \in Slots /\ \A x \in Slots \ {tslot[r]} : state'[x] = state[x]
      BY <2>1, <3>1, <3>5
    <3> QED BY <2>5, <3>2, <3>3, <3>4, <3>5, RequestMap
  <2>6. ASSUME PassActs(Reconciler), UNCHANGED tslot
        PROVE  slots'[k] = s /\ (\A q \in Requests : tslot'[q] # s) /\ state'[s] \in {Stopped, Running(h)}
    <3>1. Reconciler \in Background
      BY DEF Background
    <3>2. ~RemoveKey(Reconciler)
      BY DEF RemoveKey, ThreadInv, RetirePCs
    <3>3. CASE RetireFlip(Reconciler)
      BY <2>1, <2>6, <3>3 DEF RetireFlip, MapTypes
    <3> QED BY <2>1, <2>6, <3>1, <3>2, <3>3, PassMap
  <2>7. CASE Still \/ \E u \in cpu : Yield(u)
    BY <2>1, <2>7 DEF Still, Yield
  <2> QED BY <2>3, <2>5, <2>6, <2>7, LoneStep
<1>7. CASE pc'[Sweeper] \notin {"slotTerm", "slotTermWait"}
  BY <1>7 DEF SweptSlot
<1> QED BY <1>3, <1>4, <1>5, <1>6, <1>7

\* A task that does not act keeps its locals, and moves only by being woken.
LEMMA Bystander ==
    ASSUME OneThread, [Next]_vars, shutdowns' = 0, NEW u \in Tasks \ {Shutdown},
           u \in Requests => ~RequestActs(u), u \in Background => ~PassActs(u)
    PROVE  /\ twh'[u] = twh[u] /\ tkey'[u] = tkey[u] /\ (u \in Requests => tslot'[u] = tslot[u])
           /\ pc'[u] = pc[u] \/ (u \in Requests /\ pc[u] = "wait" /\ pc'[u] = "top")
<1> USE TaskSets DEF mapVars, procVars, retVars, envVars
<1>1. ASSUME NEW a \in Tasks, a # u, Runs(a), OthersKeep(a)
      PROVE  /\ twh'[u] = twh[u] /\ tkey'[u] = tkey[u] /\ (u \in Requests => tslot'[u] = tslot[u])
             /\ pc'[u] = pc[u] \/ (u \in Requests /\ pc[u] = "wait" /\ pc'[u] = "top")
  BY <1>1 DEF Runs, OthersKeep
<1>2. {Sweeper, Reconciler} \subseteq Background
  BY DEF Background
<1>3. CASE Still \/ \E t \in cpu : Yield(t)
  BY <1>3 DEF Still, Yield
<1> QED BY <1>1, <1>2, <1>3, LoneStep

\* get_running waits only behind a sweeper that terminates the same worker.
LEMMA AliveCheckedNext ==
    ASSUME OneThread, OneThread', PlaceInv, [Next]_vars, shutdowns' = 0
    PROVE  AliveChecked'
<1> USE TaskSets, SlotStateFacts, Ranges DEF OneThread, IInv, TypeOK, mapVars, procVars, retVars, envVars
<1>1. AliveChecked /\ shutdowns = 0 /\ pc[Shutdown] = "sleep"
  BY LoneStep DEF PlaceInv
<1>2. Sweeper \in Background /\ Sweeper \in Tasks \ {Shutdown} /\ Sweeper \notin Requests /\ Sweeper # Reconciler
  BY DEF Background, Sweeper, Shutdown, Reconciler
<1> SUFFICES ASSUME NEW r \in Requests, pc'[r] = "grAlive"
             PROVE  \/ r \in cpu' /\ state'[slots'[tkey'[r]]] = Running(twh'[r])
                    \/ pc'[Sweeper] = "slotTermWait" /\ twh'[Sweeper] = twh'[r] /\ tkey'[Sweeper] = tkey'[r]
                    \/ pc'[Sweeper] = "remove" /\ tkey'[Sweeper] = tkey'[r]
  BY DEF AliveChecked
<1>3. CASE pc[r] # "grAlive"
  <2>1. RequestActs(r)
    BY <1>3, Mover
  <2>2. GetRunningState(r)
    BY <1>3, <2>1 DEF RequestActs, RequestStep, Arrive, GetRunningState, GetRunningAlive, GetRunningRemove,
         Reject, LookupBuckets, EnsureEntry, EnsureTop, EnsureFastAlive, EnsureSecond, SpawnChild,
         EnsurePark, SpawnReady, SpawnFail, Finish, Route, Goto, GotoAndNotify, PcTypes
  <2>3. /\ state[slots[tkey[r]]].st = "Running" /\ twh'[r] = state[slots[tkey[r]]].h
        /\ UNCHANGED <<slots, state, tkey>> /\ r \in cpu' /\ pc[r] = "grState"
    BY <2>2 DEF GetRunningState, KeepThread, Goto, PcTypes, LocalTypes
  <2>4. slots[tkey[r]] \in Slots
    BY <2>3 DEF RefsPinned, HoldsRef, RefPCs, LocalTypes, MapTypes
  <2> QED BY <2>3, <2>4, RunningState DEF MapTypes
<1>4. CASE pc[r] = "grAlive"
  <2>1. ~RequestActs(r)
    BY <1>4 DEF RequestActs, RequestStep, Arrive, GetRunningState, GetRunningAlive, GetRunningRemove,
         Reject, LookupBuckets, EnsureEntry, EnsureTop, EnsureFastAlive, EnsureSecond, SpawnChild,
         EnsurePark, SpawnReady, SpawnFail, Finish, Route, Goto, GotoAndNotify, PcTypes
  <2>2. twh'[r] = twh[r] /\ tkey'[r] = tkey[r] /\ tkey[r] \in Keys /\ slots[tkey[r]] # 0 /\ HoldsRef(r)
    BY <1>4, <2>1, Bystander DEF LocalTypes, RefsPinned, HoldsRef, RefPCs
  <2>3. CASE r \in cpu /\ state[slots[tkey[r]]] = Running(twh[r])
    <3>1. CASE Yield(r)
      <4>1. UNCHANGED <<pc, twh, tkey>> /\ ChildLocked(twh[r])
        BY <1>4, <3>1 DEF Yield, AwaitsLock
      <4>2. PICK t \in Background : pc[t] \in {"drainTermWait", "slotTermWait"} /\ twh[t] = twh[r]
        BY <4>1 DEF ChildLocked
      <4>3. t = Sweeper
        BY <1>1, <4>2 DEF Background, ThreadInv, RetirePCs
      <4>4. twh[r] \in Workers
        BY <4>2 DEF SweepInv
      <4>5. Routed(twh[r]) /\ spawnedFor[twh[r]].key = tkey[r]
        BY <2>2, <2>3, <4>4 DEF Routed, HandleInv, WorkerKeys
      <4>6. pc[t] # "drainTermWait"
        BY <4>2, <4>4, <4>5 DEF HandleInv, RetiredApart, Retired
      <4>7. pc[Sweeper] = "slotTermWait" /\ twh[Sweeper] = twh[r]
        BY <4>2, <4>3, <4>6
      <4>8. spawnedFor[twh[r]].key = tkey[Sweeper]
        BY <1>2, <4>7 DEF HandleInv, WorkerKeys, InspectPCs
      <4> QED BY <4>1, <4>5, <4>7, <4>8
    <3>2. CASE ~Yield(r)
      <4>1. Still
        BY <1>4, <2>1, <2>3, <3>2, BusyAlone
      <4> QED BY <2>3, <4>1 DEF Still
    <3> QED BY <3>1, <3>2
  <2>4. CASE pc[Sweeper] = "slotTermWait" /\ twh[Sweeper] = twh[r] /\ tkey[Sweeper] = tkey[r]
    <3>1. CASE PassActs(Sweeper)
      <4>1. TermWait(Sweeper)
        BY <1>2, <2>4, <3>1 DEF PassActs, BackgroundStep, StartDrain, DrainOne, CollectKeys,
           NextKey, BackgroundState, SweepAlive, SlotTerminate, RemoveKey, RetireGet,
           RetireFlip, RetirePush, ReconcileUser, ReconcileBuckets, ReconcileLookupError
      <4>2. pc'[Sweeper] = "remove" /\ UNCHANGED tkey
        BY <1>2, <2>4, <4>1 DEF TermWait, Goto, PcTypes
      <4> QED BY <2>2, <2>4, <4>2
    <3>2. CASE ~PassActs(Sweeper)
      <4>1. twh'[Sweeper] = twh[Sweeper] /\ tkey'[Sweeper] = tkey[Sweeper] /\ pc'[Sweeper] = pc[Sweeper]
        BY <1>2, <3>2, Bystander
      <4> QED BY <2>2, <2>4, <4>1
    <3> QED BY <3>1, <3>2
  <2>5. CASE pc[Sweeper] = "remove" /\ tkey[Sweeper] = tkey[r]
    <3>1. ~PassActs(Sweeper)
      <4>1. WriteBlocked(tkey[Sweeper])
        BY <2>2, <2>5 DEF WriteBlocked
      <4> QED BY <1>2, <2>5, <4>1 DEF PassActs, BackgroundStep, StartDrain, DrainOne, CollectKeys, TermWait,
           NextKey, BackgroundState, SweepAlive, SlotTerminate, RemoveKey, RetireGet,
           RetireFlip, RetirePush, ReconcileUser, ReconcileBuckets, ReconcileLookupError
    <3>2. tkey'[Sweeper] = tkey[Sweeper] /\ pc'[Sweeper] = pc[Sweeper]
      BY <1>2, <3>1, Bystander
    <3> QED BY <2>2, <2>5, <3>2
  <2> QED BY <1>1, <1>4, <2>3, <2>4, <2>5 DEF AliveChecked
<1> QED BY <1>3, <1>4

\* A slot that a request holds keeps its worker's handle alive, so a dead one
\* stays dead.
LEMMA HeldDead ==
    ASSUME OneThread, [Next]_vars, NEW r \in Requests, tslot[r] # 0, DeadSlot(tslot[r])
    PROVE  state[tslot[r]].h \in Workers /\ proc'[state[tslot[r]].h] # "alive"
<1> USE TaskSets, SlotStateFacts, Ranges DEF OneThread, IInv, TypeOK
<1>1. state[tslot[r]].h \in Workers
  BY DEF DeadSlot, LocalTypes, MapTypes
<1>2. state[tslot[r]].h \in HeldWorkers
  BY DEF HeldWorkers, LiveSlots
<1> QED BY <1>1, <1>2, ClockSteps DEF DeadSlot

\* The worker of a slot in the map is being waited for only by a sweeper whose
\* slot nobody holds.
LEMMA HeldNotTerminated ==
    ASSUME OneThread, SweptSlot, shutdowns = 0, NEW r \in Requests, tslot[r] # 0, InMap(tslot[r]),
           NEW h \in Workers, state[tslot[r]] = Running(h)
    PROVE  ~ChildLocked(h)
<1> USE TaskSets, SlotStateFacts, Ranges DEF OneThread, IInv, TypeOK
<1> SUFFICES ASSUME NEW t \in Background, pc[t] \in {"drainTermWait", "slotTermWait"}, twh[t] = h
             PROVE  FALSE
  BY DEF ChildLocked
<1>1. PICK k \in Keys : slots[k] = tslot[r]
  BY DEF InMap
<1>2. t = Sweeper
  BY DEF ThreadInv, Background, RetirePCs
<1>3. Routed(h) /\ spawnedFor[h].key = k
  BY <1>1 DEF Routed, HandleInv, WorkerKeys
<1>4. pc[t] = "slotTermWait"
  BY <1>3 DEF HandleInv, RetiredApart, Retired
<1>5. tkey[t] = k
  BY <1>3, <1>4 DEF HandleInv, WorkerKeys, InspectPCs
<1> QED BY <1>1, <1>2, <1>4, <1>5 DEF SweptSlot

\* A request acts on the slot it holds: it enters ensure_running, looks at the
\* slot, or goes on to wait.
LEMMA HolderActs ==
    ASSUME OneThread, OneThread', PlaceInv, [Next]_vars, shutdowns' = 0,
           NEW r \in Requests, RequestActs(r), tslot'[r] # 0
    PROVE  /\ ~InMap(tslot[r])' => DeadSlot(tslot[r])'
           /\ InMap(tslot[r])' => r \in cpu' \/ pc'[r] \in {"top", "wait", "ready"}
           /\ (state[tslot[r]].st = "Running" /\ proc[state[tslot[r]].h] = "alive")' =>
                pc'[r] = "top" /\ r \in cpu'
<1> USE TaskSets, SlotStateFacts, Ranges DEF OneThread, IInv, TypeOK, mapVars, procVars, retVars, envVars
<1>1. SweptSlot /\ HeldSlots /\ shutdowns = 0
  BY LoneStep DEF PlaceInv
<1>2. CASE EnsureEntry(r)
  <2>1. pc'[r] = "top" /\ r \in cpu'
    BY <1>2 DEF EnsureEntry, Goto, KeepThread, PcTypes
  <2>2. tkey[r] \in Keys /\ slots'[tkey[r]] = tslot'[r]
    BY <1>2 DEF EnsureEntry, MapTypes, LocalTypes
  <2> QED BY <2>1, <2>2 DEF InMap
<1>3. CASE ~EnsureEntry(r)
  <2>1. /\ EnsureTop(r) \/ EnsureFastAlive(r) \/ EnsureSecond(r) \/ EnsurePark(r)
        /\ tslot'[r] = tslot[r] /\ tslot[r] \in Slots /\ UNCHANGED slots
    <3>1. pc'[r] \in EnsurePCs
      BY DEF HandleInv, SlotOwners
    <3>2. EnsureTop(r) \/ EnsureFastAlive(r) \/ EnsureSecond(r) \/ EnsurePark(r)
      BY <1>3, <3>1 DEF RequestActs, RequestStep, Arrive, GetRunningState, GetRunningAlive, GetRunningRemove,
         Reject, LookupBuckets, SpawnReady, SpawnFail, Finish, Route, Goto, GotoAndNotify, PcTypes, EnsurePCs
    <3>3. UNCHANGED slots /\ tslot[r] \in Slots
      BY <3>2 DEF EnsureTop, EnsureFastAlive, EnsureSecond, SpawnChild, EnsurePark, Route, SlotsHeld, EnsurePCs
    <3>4. tslot'[r] = tslot[r]
      BY <3>2 DEF EnsureTop, EnsureFastAlive, EnsureSecond, SpawnChild, EnsurePark, Route, LocalTypes
    <3> QED BY <3>2, <3>3, <3>4
  <2> DEFINE s == tslot[r]
  <2>2. state'[s] = state[s] \/ (state[s] = Stopped /\ state'[s] = Starting)
    BY <2>1 DEF EnsureTop, EnsureFastAlive, EnsureSecond, SpawnChild, EnsurePark, Route, MayStart, MapTypes
  <2>3. InMap(s)' <=> InMap(s)
    BY <2>1 DEF InMap
  <2>4. DeadSlot(s) => DeadSlot(s)'
    <3> SUFFICES ASSUME DeadSlot(s) PROVE DeadSlot(s)'
      OBVIOUS
    <3>1. state'[s] = state[s]
      BY <2>2 DEF DeadSlot, Stopped
    <3> QED BY <2>1, <3>1, HeldDead DEF DeadSlot
  <2>5. ~InMap(s) => DeadSlot(s)
    BY <1>1, <2>1 DEF HeldSlots
  <2>6. r \in cpu' \/ pc'[r] \in {"wait", "ready"} \/ (pc'[r] = "fastAlive" /\ EnsureTop(r))
    BY <2>1 DEF EnsureTop, EnsureFastAlive, EnsureSecond, SpawnChild, EnsurePark, Route, Goto, KeepThread, PcTypes, LocalTypes
  <2>7. ASSUME pc'[r] = "fastAlive", EnsureTop(r)
        PROVE  ~InMap(s) /\ DeadSlot(s)
    <3>1. state[s].st = "Running" /\ ChildLocked(state[s].h)
      BY <2>7 DEF EnsureTop, Route, Goto, PcTypes
    <3>2. state[s].h \in Workers /\ state[s] = Running(state[s].h)
      BY <2>1, <3>1, RunningState DEF MapTypes
    <3>3. proc[state[s].h] # "alive"
      BY <3>1 DEF ChildLocked, SweepInv
    <3> QED BY <1>1, <2>1, <3>1, <3>2, <3>3, HeldNotTerminated DEF DeadSlot
  <2>8. ASSUME state'[s].st = "Running", proc'[state'[s].h] = "alive"
        PROVE  FALSE
    <3>1. state'[s] = state[s]
      BY <2>2, <2>8 DEF Starting
    <3>2. ~DeadSlot(s)
      BY <2>1, <2>4, <2>8 DEF DeadSlot
    <3>3. pc[r] = "top"
      BY <1>1, <2>1, <2>8, <3>1, <3>2 DEF HeldSlots, DeadSlot
    <3>4. EnsureTop(r)
      BY <2>1, <3>3 DEF EnsureFastAlive, EnsureSecond, SpawnChild, EnsurePark
    <3>5. proc[state[s].h] = "alive" /\ state[s].st = "Running"
      BY <2>8, <3>1, <3>2 DEF DeadSlot
    <3>6. tslot'[r] = 0 \/ ChildLocked(state[s].h)
      BY <3>4, <3>5 DEF EnsureTop, Route, LocalTypes
    <3> QED BY <3>5, <3>6 DEF ChildLocked, SweepInv
  <2>9. ~InMap(s)' => DeadSlot(s)'
    BY <2>3, <2>4, <2>5
  <2>10. InMap(s)' => r \in cpu' \/ pc'[r] \in {"top", "wait", "ready"}
    BY <2>3, <2>6, <2>7
  <2> QED BY <2>1, <2>8, <2>9, <2>10 DEF InMap, DeadSlot
<1> QED BY <1>2, <1>3

\* What another task does to a slot that a request holds: a ready worker wakes
\* the request, and the slot leaves the map only with a dead worker.
LEMMA HeldSlotKept ==
    ASSUME OneThread, PlaceInv, [Next]_vars, shutdowns' = 0,
           NEW r \in Requests, ~RequestActs(r), tslot[r] # 0
    PROVE  /\ ~InMap(tslot[r]) /\ DeadSlot(tslot[r]) => state'[tslot[r]] = state[tslot[r]]
           /\ \/ state'[tslot[r]] = state[tslot[r]]
              \/ state'[tslot[r]] = Stopped \/ state'[tslot[r]] = Starting
              \/ \E q \in Requests \ {r} : SpawnReady(q) /\ tslot[q] = tslot[r]
           /\ (\E k \in Keys : slots'[k] = tslot[r]) => InMap(tslot[r])
           /\ InMap(tslot[r]) => \/ DeadSlot(tslot[r]) /\ state'[tslot[r]] = state[tslot[r]]
                               \/ \E k \in Keys : slots'[k] = tslot[r]
<1> USE TaskSets, SlotStateFacts, Ranges DEF OneThread, IInv, TypeOK, mapVars, procVars, retVars, envVars
<1>1. RemovedDead /\ HeldSlots /\ shutdowns = 0
  BY LoneStep DEF PlaceInv
<1> DEFINE s == tslot[r]
<1>2. s \in Slots /\ (DeadSlot(s) => state[s].st = "Running")
  BY DEF LocalTypes, DeadSlot
<1>3. CASE UNCHANGED <<slots, state>>
  BY <1>3 DEF InMap
<1>4. ASSUME NEW q \in Tasks, tkey[q] \in Keys, Removable(tkey[q]), slots' = [slots EXCEPT ![tkey[q]] = 0], UNCHANGED state
      PROVE  /\ (\E k \in Keys : slots'[k] = s) => InMap(s)
             /\ InMap(s) => (DeadSlot(s) /\ state'[s] = state[s]) \/ \E k \in Keys : slots'[k] = s
  <2>1. \A k \in Keys : slots'[k] = IF k = tkey[q] THEN 0 ELSE slots[k]
    BY <1>4 DEF MapTypes
  <2>2. slots[tkey[q]] = s => DeadSlot(s)
    BY <1>2, <1>4 DEF Removable
  <2> QED BY <1>2, <1>4, <2>1, <2>2 DEF InMap
<1>5. ASSUME NEW q \in Requests \ {r}, RequestActs(q)
      PROVE  /\ ~InMap(s) /\ DeadSlot(s) => state'[s] = state[s]
             /\ \/ state'[s] = state[s] \/ state'[s] = Stopped \/ state'[s] = Starting
                \/ SpawnReady(q) /\ tslot[q] = s
             /\ (\E k \in Keys : slots'[k] = s) => InMap(s)
             /\ InMap(s) => (DeadSlot(s) /\ state'[s] = state[s]) \/ \E k \in Keys : slots'[k] = s
  <2>1. CASE GetRunningRemove(q)
    BY <1>1, <1>4, <2>1 DEF GetRunningRemove, RemovedDead, LocalTypes
  <2>2. CASE EnsureEntry(q)
    <3>1. CASE slots[tkey[q]] = 0
      <4>1. PICK x \in Slots \ LiveSlots : /\ slots' = [slots EXCEPT ![tkey[q]] = x]
                                           /\ state' = [state EXCEPT ![x] = Stopped]
        BY <2>2, <3>1 DEF EnsureEntry
      <4>2. x # s
        BY <4>1 DEF LiveSlots
      <4>3. state'[s] = state[s]
        BY <1>2, <4>1, <4>2 DEF MapTypes
      <4>4. \A k \in Keys : slots'[k] = s <=> slots[k] = s
        BY <1>2, <3>1, <4>1, <4>2 DEF MapTypes
      <4> QED BY <4>3, <4>4 DEF InMap
    <3>2. CASE slots[tkey[q]] # 0
      BY <1>3, <2>2, <3>2 DEF EnsureEntry
    <3> QED BY <3>1, <3>2
  <2>3. CASE /\ EnsureSecond(q) \/ SpawnReady(q) \/ SpawnFail(q)
             /\ UNCHANGED slots /\ tslot[q] \in Slots
             /\ \A x \in Slots \ {tslot[q]} : state'[x] = state[x]
    <3>1. tslot[q] = s /\ state'[s] # state[s] => state[s].st # "Running"
      <4>1. EnsureSecond(q) => state'[tslot[q]] = state[tslot[q]] \/ state[tslot[q]] = Stopped
        BY <2>3 DEF EnsureSecond, SpawnChild, MayStart
      <4>2. SpawnReady(q) \/ SpawnFail(q) => state[tslot[q]] = Starting
        BY <2>3 DEF SpawnReady, SpawnFail, SingleFlight
      <4> QED BY <2>3, <4>1, <4>2 DEF Stopped
    <3>2. tslot[q] = s => \/ state'[s] = state[s] \/ state'[s] = Stopped \/ state'[s] = Starting
                          \/ SpawnReady(q)
      BY <2>3 DEF EnsureSecond, SpawnChild, SpawnFail, MapTypes
    <3> QED BY <1>2, <2>3, <3>1, <3>2 DEF InMap
  <2> QED BY <1>3, <1>5, <2>1, <2>2, <2>3, RequestMap
<1>6. ASSUME NEW t \in {Sweeper, Reconciler}, PassActs(t)
      PROVE  /\ ~InMap(s) /\ DeadSlot(s) => state'[s] = state[s]
             /\ state'[s] = state[s] \/ state'[s] = Stopped
             /\ (\E k \in Keys : slots'[k] = s) => InMap(s)
             /\ InMap(s) => (DeadSlot(s) /\ state'[s] = state[s]) \/ \E k \in Keys : slots'[k] = s
  <2>0. t \in Background /\ t \in Tasks
    BY DEF Background
  <2>1. CASE RemoveKey(t)
    <3>1. t = Sweeper
      BY <2>1 DEF RemoveKey, ThreadInv, RetirePCs
    <3> QED BY <1>1, <1>4, <2>0, <2>1, <3>1 DEF RemoveKey, RemovedDead, LocalTypes
  <2>2. CASE RetireFlip(t)
    <3>1. UNCHANGED slots /\ (state'[s] = state[s] \/ state'[s] = Stopped)
      BY <1>2, <2>2 DEF RetireFlip, MapTypes
    <3>2. ~InMap(s) => state'[s] = state[s]
      <4>1. tkey[t] \in Keys
        BY <2>0 DEF LocalTypes
      <4> QED BY <1>2, <2>2, <4>1 DEF RetireFlip, MapTypes, InMap
    <3> QED BY <3>1, <3>2 DEF InMap
  <2> QED BY <1>3, <1>6, <2>0, <2>1, <2>2, PassMap
<1>7. CASE Still \/ \E u \in cpu : Yield(u)
  BY <1>3, <1>7 DEF Still, Yield
<1> QED BY <1>5, <1>6, <1>7, LoneStep

\* A request that does not act is found as it was, or woken by a new worker.
LEMMA HolderWaits ==
    ASSUME OneThread, OneThread', PlaceInv, [Next]_vars, shutdowns' = 0,
           NEW r \in Requests, ~RequestActs(r), tslot[r] # 0
    PROVE  LET s == tslot[r] IN
           /\ tslot'[r] = s
           /\ (\E k \in Keys : slots'[k] = s) \/ (state'[s].st = "Running" /\ proc'[state'[s].h] # "alive")
           /\ (\E k \in Keys : slots'[k] = s) => r \in cpu' \/ pc'[r] \in {"top", "wait", "ready"}
           /\ state'[s].st = "Running" /\ proc'[state'[s].h] = "alive" =>
                pc'[r] = "top" /\ (r \in cpu' \/ lastUsed'[state'[s].h] = now')
<1> USE TaskSets, SlotStateFacts, Ranges DEF OneThread, IInv, TypeOK, mapVars, procVars, retVars, envVars
<1> DEFINE s == tslot[r]
<1>1. SweptSlot /\ HeldSlots /\ shutdowns = 0
  BY LoneStep DEF PlaceInv
<1>2. /\ tslot'[r] = s /\ s \in Slots
      /\ pc'[r] = pc[r] \/ (pc[r] = "wait" /\ pc'[r] = "top")
  BY Bystander DEF LocalTypes
<1>3. (\E k \in Keys : slots'[k] = s) \/ (state'[s].st = "Running" /\ proc'[state'[s].h] # "alive")
  <2>1. CASE InMap(s)
    BY <2>1, HeldSlotKept, HeldDead DEF DeadSlot
  <2>2. CASE ~InMap(s)
    <3>1. DeadSlot(s)
      BY <1>1, <2>2 DEF HeldSlots
    <3>2. state'[s] = state[s]
      BY <2>2, <3>1, HeldSlotKept
    <3> QED BY <3>1, <3>2, HeldDead DEF DeadSlot
  <2> QED BY <2>1, <2>2
\* Giving the thread back: only behind another holder of the slot's lock.
<1>4. ASSUME NEW u \in cpu, Yield(u), r \in cpu, InMap(s) \/ (state[s].st = "Running" /\ proc[state[s].h] = "alive")
      PROVE  r \in cpu' \/ (pc[r] = "top" /\ ~(state[s].st = "Running" /\ proc[state[s].h] = "alive"))
  <2>1. CASE u # r
    BY <1>4, <2>1 DEF ThreadInv
  <2>2. CASE u = r
    <3>1. pc[r] \in EnsurePCs
      BY DEF HandleInv, SlotOwners
    <3>2. pc[r] \in {"top", "second"} /\ StateLocked(s)
      BY <1>4, <2>2, <3>1 DEF Yield, AwaitsLock, EnsurePCs
    <3>3. PICK q \in Requests : pc[q] = "fastAlive" /\ tslot[q] = s
      BY <3>2 DEF StateLocked
    <3>4. q # r /\ q \notin cpu
      BY <1>4, <3>2, <3>3 DEF ThreadInv
    <3>5. ~InMap(s) /\ ~(state[s].st = "Running" /\ proc[state[s].h] = "alive")
      BY <1>1, <3>3, <3>4 DEF HeldSlots
    <3> QED BY <1>4, <3>5
  <2> QED BY <2>1, <2>2
\* With another task acting, r has no thread.
<1>5. \/ Still
      \/ \E u \in cpu : Yield(u)
      \/ r \notin cpu
  <2>1. {Sweeper, Reconciler} \cap Requests = {}
    BY DEF Background
  <2> QED BY <2>1, LoneStep
<1>6. ASSUME \E k \in Keys : slots'[k] = s
      PROVE  r \in cpu' \/ pc'[r] \in {"top", "wait", "ready"}
  <2>1. InMap(s)
    BY <1>6, HeldSlotKept
  <2>2. r \in cpu \/ pc[r] \in {"top", "wait", "ready"}
    BY <1>1, <2>1 DEF HeldSlots
  <2>3. r \in cpu => r \in cpu' \/ pc[r] = "top"
    BY <1>4, <1>5, <2>1 DEF Still
  <2> QED BY <1>2, <2>2, <2>3
<1>7. ASSUME state'[s].st = "Running", proc'[state'[s].h] = "alive"
      PROVE  pc'[r] = "top" /\ (r \in cpu' \/ lastUsed'[state'[s].h] = now')
  <2>1. CASE state'[s] = state[s]
    <3> DEFINE h == state[s].h
    <3>1. h \in Workers
      BY <1>2, <1>7, <2>1 DEF MapTypes
    <3>2. proc[h] = "alive"
      BY <1>7, <2>1, HeldDead DEF DeadSlot
    <3>3. pc[r] = "top" /\ (r \in cpu \/ lastUsed[h] = now)
      BY <1>1, <1>7, <2>1, <3>2 DEF HeldSlots
    <3>4. now' = now
      <4>1. CASE Still
        BY <3>3, <4>1 DEF Still
      <4>2. CASE \E u \in cpu : Yield(u)
        BY <4>2 DEF Yield
      <4>3. ASSUME NEW q \in Requests, RequestActs(q) PROVE now' = now
        BY <4>3, RequestRuns DEF RequestActs
      <4>4. ASSUME NEW t \in {Sweeper, Reconciler}, PassActs(t) PROVE now' = now
        <5>1. t \in Background
          BY DEF Background
        <5> QED BY <4>4, <5>1, BackgroundRuns DEF PassActs
      <4> QED BY <4>1, <4>2, <4>3, <4>4, LoneStep
    <3>5. lastUsed[h] = now => lastUsed'[h] = now'
      BY <3>1, <3>4, ClockSteps
    <3>6. r \in cpu => r \in cpu'
      BY <1>4, <1>5, <1>7, <2>1, <3>2 DEF Still
    <3> QED BY <1>2, <2>1, <3>3, <3>5, <3>6
  <2>2. CASE state'[s] # state[s]
    <3>1. PICK q \in Requests \ {r} : SpawnReady(q) /\ tslot[q] = s
      BY <1>7, <2>2, HeldSlotKept DEF Stopped, Starting
    <3>2. /\ state'[s] = Running(twh[q]) /\ lastUsed'[twh[q]] = now /\ now' = now /\ pc[q] = "ready"
          /\ GotoAndNotify(q, "serving", s)
      BY <1>2, <3>1 DEF SpawnReady, MapTypes, ProcTypes, LocalTypes
    <3>3. state[s] = Starting /\ ~DeadSlot(s)
      BY <1>2, <3>1, <3>2 DEF SingleFlight, DeadSlot
    <3>4. r \notin cpu
      BY <3>1, RequestRuns, RunsAlone DEF Runs, RequestStep
    <3>5. pc[r] \in {"top", "wait"}
      BY <1>1, <3>1, <3>2, <3>3, <3>4 DEF HeldSlots, SingleFlight
    <3>6. pc'[r] = "top"
      BY <3>1, <3>2, <3>5 DEF GotoAndNotify
    <3> QED BY <3>2, <3>6 DEF Running
  <2> QED BY <2>1, <2>2
<1> QED BY <1>2, <1>3, <1>6, <1>7

\* Where requests hold slots is preserved.
LEMMA HeldSlotsNext ==
    ASSUME OneThread, OneThread', PlaceInv, [Next]_vars, shutdowns' = 0
    PROVE  HeldSlots'
<1> SUFFICES ASSUME NEW r \in Requests, tslot'[r] # 0
             PROVE  /\ ~InMap(tslot[r])' => DeadSlot(tslot[r])'
                    /\ InMap(tslot[r])' => r \in cpu' \/ pc'[r] \in {"top", "wait", "ready"}
                    /\ (state[tslot[r]].st = "Running" /\ proc[state[tslot[r]].h] = "alive")' =>
                         pc'[r] = "top" /\ (r \in cpu' \/ lastUsed'[state'[tslot'[r]].h] = now')
  BY DEF HeldSlots
<1>1. CASE RequestActs(r)
  BY <1>1, HolderActs
<1>2. CASE ~RequestActs(r)
  <2>1. tslot'[r] = tslot[r]
    BY <1>2, TaskSets, Bystander
  <2> QED BY <1>2, <2>1, HolderWaits DEF InMap, DeadSlot
<1> QED BY <1>1, <1>2

\* A worker leaves the retiring list only dead.
LEMMA DrainedDead ==
    ASSUME OneThread, OneThread', [Next]_vars, shutdowns' = 0, NEW w \in Workers, w \in Draining, w \notin Draining'
    PROVE  proc'[w] # "alive"
<1> USE TaskSets, SlotStateFacts, Ranges DEF OneThread, IInv, TypeOK, mapVars, procVars, retVars, envVars
<1>1. Reconciler \in Background /\ Reconciler \in Tasks \ {Shutdown} /\ Reconciler \notin Requests
  BY DEF Background, Reconciler, Shutdown
<1>2. CASE pc[Reconciler] = "rcPush" /\ w = twh[Reconciler]
  <2>1. CASE PassActs(Reconciler)
    <3>1. RetirePush(Reconciler)
      BY <1>1, <1>2, <2>1 DEF PassActs, BackgroundStep, StartDrain, DrainOne, TermWait, CollectKeys,
         NextKey, BackgroundState, SweepAlive, SlotTerminate, RemoveKey, RetireGet,
         RetireFlip, ReconcileUser, ReconcileBuckets, ReconcileLookupError
    <3>2. [handle |-> w, terminateAfter |-> now + Grace] \in retiring'
      BY <1>2, <3>1 DEF RetirePush
    <3> QED BY <3>2 DEF Draining
  <2>2. CASE ~PassActs(Reconciler)
    <3>1. pc'[Reconciler] = "rcPush" /\ twh'[Reconciler] = w
      BY <1>1, <1>2, <2>2, Bystander
    <3> QED BY <3>1 DEF Draining
  <2> QED BY <2>1, <2>2
<1>3. ASSUME NEW x \in retiring, x.handle = w
      PROVE  proc'[w] # "alive"
  <2>1. x \notin retiring'
    BY <1>3 DEF Draining
  <2>2. \E t \in Background : DrainOne(t)
    <3>1. ASSUME NEW r \in Requests, RequestActs(r) PROVE UNCHANGED retiring
      BY <3>1 DEF RequestActs, RequestStep, Arrive, GetRunningState, GetRunningAlive, GetRunningRemove,
         Reject, LookupBuckets, EnsureEntry, EnsureTop, EnsureFastAlive, EnsureSecond, SpawnChild,
         EnsurePark, SpawnReady, SpawnFail, Finish
    <3>2. ASSUME NEW t \in Background, PassActs(t), ~DrainOne(t) PROVE retiring \subseteq retiring'
      BY <3>2 DEF PassActs, BackgroundStep, StartDrain, TermWait, CollectKeys,
         NextKey, BackgroundState, SweepAlive, SlotTerminate, RemoveKey, RetireGet, RetirePush,
         RetireFlip, ReconcileUser, ReconcileBuckets, ReconcileLookupError
    <3>3. CASE Still \/ \E u \in cpu : Yield(u)
      BY <1>3, <2>1, <3>3 DEF Still, Yield
    <3>4. {Sweeper, Reconciler} \subseteq Background
      BY DEF Background
    <3> QED BY <1>3, <2>1, <3>1, <3>2, <3>3, <3>4, LoneStep
  <2>3. PICK t \in Background : DrainOne(t)
    BY <2>2
  <2>4. PICK y \in drain :
           \/ retiring' = retiring
           \/ retiring' = retiring \ {y} /\ proc' = proc /\ proc[y.handle] = "reaped"
           \/ retiring' = retiring \ {y} /\ proc' = [proc EXCEPT ![y.handle] = "exited"]
    BY <2>3 DEF DrainOne
  <2>5. y = x
    BY <1>3, <2>1, <2>4
  <2> QED BY <1>3, <2>1, <2>4, <2>5 DEF ProcTypes
<1> QED BY <1>2, <1>3 DEF Draining

\* Only ensure_running gives life to a worker, and to one that is dead.
LEMMA WorkerBorn ==
    ASSUME IInv, [Next]_vars, NEW w \in Workers, proc'[w] = "alive"
    PROVE  \/ proc[w] = "alive" /\ spawnedFor'[w] = spawnedFor[w]
           \/ /\ proc[w] # "alive"
              /\ \E q \in Requests :
                   /\ EnsureSecond(q) /\ MayStart(tslot[q]) /\ pc'[q] = "ready" /\ twh'[q] = w
                   /\ spawnedFor'[w].key = tkey[q]
<1> USE TaskSets, Ranges DEF IInv, TypeOK, ProcTypes, mapVars, procVars, retVars, envVars
<1>1. ASSUME NEW q \in Requests, EnsureSecond(q)
      PROVE  \/ proc[w] = "alive" /\ spawnedFor'[w] = spawnedFor[w]
             \/ /\ proc[w] # "alive" /\ MayStart(tslot[q]) /\ pc'[q] = "ready" /\ twh'[q] = w
                /\ spawnedFor'[w].key = tkey[q]
  <2>1. CASE UNCHANGED procVars
    BY <2>1
  <2>2. CASE ~UNCHANGED procVars
    <3>1. PICK v \in Workers : /\ proc[v] = "reaped" /\ proc' = [proc EXCEPT ![v] = "alive"]
                               /\ spawnedFor' = [spawnedFor EXCEPT ![v] = [key |-> tkey[q], fp |-> snap[q]]]
                               /\ twh' = [twh EXCEPT ![q] = v]
                               /\ MayStart(tslot[q]) /\ Goto(q, "ready")
      BY <1>1, <2>2 DEF EnsureSecond, SpawnChild
    <3>2. pc'[q] = "ready" /\ twh'[q] = v
      BY <3>1 DEF Goto, PcTypes, LocalTypes
    <3>3. CASE v = w
      BY <3>1, <3>2, <3>3
    <3>4. CASE v # w
      BY <3>1, <3>4
    <3> QED BY <3>3, <3>4
  <2> QED BY <2>1, <2>2
<1>2. ASSUME NEW q \in Requests, RequestActs(q), ~EnsureSecond(q)
      PROVE  proc[w] = "alive" /\ UNCHANGED spawnedFor
  BY <1>2 DEF RequestActs, RequestStep, Arrive, GetRunningState, GetRunningAlive, GetRunningRemove,
         Reject, LookupBuckets, EnsureEntry, EnsureTop, EnsureFastAlive,
         EnsurePark, SpawnReady, SpawnFail, Finish, Route, TryWait
<1>3. ASSUME NEW t \in Background, PassActs(t)
      PROVE  proc[w] = "alive" /\ UNCHANGED spawnedFor
  BY <1>3 DEF PassActs, BackgroundStep, StartDrain, DrainOne, TermWait, CollectKeys,
         NextKey, BackgroundState, SweepAlive, SlotTerminate, RemoveKey, RetireGet, TryWait,
         RetireFlip, RetirePush, ReconcileUser, ReconcileBuckets, ReconcileLookupError
<1>4. CASE \/ \E t \in Tasks : Yield(t)
           \/ \E h \in Workers : WorkerExits(h) \/ DropHandle(h)
           \/ \E k \in Keys : DirectoryChange(k)
           \/ Tick \/ UNCHANGED vars
  BY <1>4 DEF Yield, WorkerExits, DropHandle, DirectoryChange, Tick, vars
<1> QED BY <1>1, <1>2, <1>3, <1>4 DEF Next, RequestActs, PassActs

\* The slot of a live worker stays in the map.
LEMMA PlaceKept ==
    ASSUME OneThread, PlaceInv, [Next]_vars, shutdowns' = 0,
           NEW k \in Keys, slots[k] # 0, NEW w \in Workers, proc[w] = "alive",
           \/ state[slots[k]] = Running(w)
           \/ \E r \in Requests : pc[r] = "ready" /\ twh[r] = w /\ tslot[r] = slots[k]
    PROVE  slots'[k] = slots[k]
<1> USE TaskSets, SlotStateFacts, Ranges DEF OneThread, IInv, TypeOK, mapVars, procVars, retVars, envVars
<1>1. RemovedDead
  BY LoneStep DEF PlaceInv
<1>2. ~Removable(k)
  <2>1. CASE state[slots[k]] = Running(w)
    BY <2>1 DEF Removable, DeadSlot, Running, Stopped
  <2>2. CASE \E r \in Requests : pc[r] = "ready" /\ twh[r] = w /\ tslot[r] = slots[k]
    <3>1. slots[k] \in Slots
      BY DEF MapTypes
    <3>2. state[slots[k]] = Starting
      BY <2>2, <3>1 DEF SingleFlight
    <3> QED BY <3>2 DEF Removable, DeadSlot, Starting, Stopped
  <2> QED BY <2>1, <2>2
<1>3. ASSUME NEW q \in Requests, RequestActs(q)
      PROVE  slots'[k] = slots[k]
  <2>1. CASE GetRunningRemove(q)
    BY <1>1, <1>2, <2>1 DEF GetRunningRemove, RemovedDead, MapTypes
  <2>2. CASE EnsureEntry(q)
    BY <2>2 DEF EnsureEntry, MapTypes
  <2> QED BY <1>3, <2>1, <2>2, RequestMap
<1>4. ASSUME NEW t \in {Sweeper, Reconciler}, PassActs(t)
      PROVE  slots'[k] = slots[k]
  <2>1. CASE RemoveKey(t)
    <3>1. t = Sweeper
      BY <2>1 DEF RemoveKey, ThreadInv, RetirePCs
    <3> QED BY <1>1, <1>2, <2>1, <3>1 DEF RemoveKey, RemovedDead, MapTypes
  <2>2. CASE RetireFlip(t)
    BY <2>2 DEF RetireFlip
  <2> QED BY <1>4, <2>1, <2>2, PassMap DEF Background
<1>5. CASE Still \/ \E u \in cpu : Yield(u)
  BY <1>5 DEF Still, Yield
<1> QED BY <1>3, <1>4, <1>5, LoneStep

\* The slot of a ready worker keeps running it, until the reconciler retires it.
LEMMA RunningKept ==
    ASSUME OneThread, [Next]_vars, shutdowns' = 0,
           NEW k \in Keys, slots[k] # 0, NEW w \in Workers, state[slots[k]] = Running(w), w \notin Draining'
    PROVE  state'[slots[k]] = Running(w)
<1> USE TaskSets, SlotStateFacts, Ranges DEF OneThread, IInv, TypeOK, mapVars, procVars, retVars, envVars
<1> DEFINE s == slots[k]
<1>1. s \in Slots
  BY DEF MapTypes
<1>2. ASSUME NEW q \in Requests, RequestActs(q)
      PROVE  state'[s] = state[s]
  <2>1. CASE GetRunningRemove(q)
    BY <2>1 DEF GetRunningRemove
  <2>2. CASE EnsureEntry(q)
    <3>1. s \in LiveSlots
      BY DEF LiveSlots
    <3> QED BY <1>1, <2>2, <3>1 DEF EnsureEntry, MapTypes
  <2>3. CASE /\ EnsureSecond(q) \/ SpawnReady(q) \/ SpawnFail(q)
             /\ tslot[q] \in Slots /\ \A x \in Slots \ {tslot[q]} : state'[x] = state[x]
    <3>1. CASE EnsureSecond(q)
      BY <1>1, <2>3, <3>1 DEF EnsureSecond, SpawnChild, MayStart
    <3>2. CASE SpawnReady(q) \/ SpawnFail(q)
      <4>1. state[tslot[q]] = Starting
        BY <2>3, <3>2 DEF SpawnReady, SpawnFail, SingleFlight
      <4> QED BY <1>1, <2>3, <4>1
    <3> QED BY <2>3, <3>1, <3>2
  <2> QED BY <1>2, <2>1, <2>2, <2>3, RequestMap
<1>3. ASSUME NEW t \in {Sweeper, Reconciler}, PassActs(t)
      PROVE  state'[s] = state[s]
  <2>0. t \in Background
    BY DEF Background
  <2>1. CASE RemoveKey(t)
    BY <2>1 DEF RemoveKey
  <2>2. CASE RetireFlip(t)
    <3>1. t = Reconciler
      BY <2>0, <2>2 DEF RetireFlip, HandleInv, RetiredApart, RetirePCs
    <3>2. CASE state' # state /\ slots[tkey[t]] = s
      <4>1. state[s] = Running(twh[t]) /\ pc'[t] = "rcPush" /\ twh'[t] = twh[t]
        BY <2>0, <2>2, <3>2 DEF RetireFlip, StillRunning, GotoAndNotify
      <4>2. twh[t] = w
        BY <4>1 DEF Running
      <4> QED BY <3>1, <4>1, <4>2 DEF Draining
    <3>3. CASE slots[tkey[t]] # s
      BY <1>1, <2>2, <3>3 DEF RetireFlip, MapTypes
    <3> QED BY <3>2, <3>3
  <2> QED BY <1>3, <2>0, <2>1, <2>2, PassMap
<1>4. CASE Still \/ \E u \in cpu : Yield(u)
  BY <1>4 DEF Still, Yield
<1> QED BY <1>2, <1>3, <1>4, LoneStep

\* Every live worker stays drained or in its place.
LEMMA PlacedNext ==
    ASSUME OneThread, OneThread', PlaceInv, [Next]_vars, shutdowns' = 0
    PROVE  Placed'
<1> USE TaskSets, SlotStateFacts, Ranges DEF OneThread, IInv, TypeOK, mapVars, procVars, retVars, envVars
<1>0. HeldSlots /\ Placed
  BY LoneStep DEF PlaceInv
<1> SUFFICES ASSUME NEW w \in Workers, w \notin Draining', proc'[w] = "alive"
             PROVE  LET s == slots'[spawnedFor'[w].key] IN
                    /\ s # 0
                    /\ \/ state'[s] = Running(w)
                       \/ \E r \in Requests : pc'[r] = "ready" /\ twh'[r] = w /\ tslot'[r] = s
  BY DEF Placed
<1>1. CASE proc[w] = "alive"
  <2> DEFINE k == spawnedFor[w].key
             s == slots[k]
  <2>1. spawnedFor'[w] = spawnedFor[w] /\ k \in Keys
    BY <1>1, WorkerBorn DEF ProcTypes
  <2>2. w \notin Draining
    BY DrainedDead
  <2>3. /\ s # 0
        /\ \/ state[s] = Running(w)
           \/ \E r \in Requests : pc[r] = "ready" /\ twh[r] = w /\ tslot[r] = s
    BY <1>0, <1>1, <2>2 DEF Placed
  <2>4. slots'[k] = s
    BY <1>1, <2>1, <2>3, PlaceKept
  <2>5. CASE state[s] = Running(w)
    <3>1. state'[s] = Running(w)
      BY <2>1, <2>3, <2>5, RunningKept
    <3> QED BY <2>1, <2>3, <2>4, <3>1
  <2>6. ASSUME NEW r \in Requests, pc[r] = "ready", twh[r] = w, tslot[r] = s
        PROVE  \/ state'[s] = Running(w)
               \/ pc'[r] = "ready" /\ twh'[r] = w /\ tslot'[r] = s
    <3>1. CASE RequestActs(r)
      <4>1. SpawnReady(r) \/ SpawnFail(r)
        BY <2>6, <3>1 DEF RequestActs, RequestStep, Arrive, GetRunningState, GetRunningAlive, GetRunningRemove,
           Reject, LookupBuckets, EnsureEntry, EnsureTop, EnsureFastAlive, EnsureSecond, SpawnChild, EnsurePark, Finish
      <4>2. ~SpawnFail(r)
        BY <2>6 DEF SpawnFail
      <4>3. s \in Slots
        BY <2>1, <2>3 DEF MapTypes
      <4> QED BY <2>6, <4>1, <4>2, <4>3 DEF SpawnReady, MapTypes
    <3>2. CASE ~RequestActs(r)
      BY <2>6, <3>2, Bystander
    <3> QED BY <3>1, <3>2
  <2> QED BY <2>1, <2>3, <2>4, <2>5, <2>6
<1>2. CASE proc[w] # "alive"
  <2>1. PICK q \in Requests : /\ EnsureSecond(q) /\ MayStart(tslot[q]) /\ pc'[q] = "ready" /\ twh'[q] = w
                              /\ spawnedFor'[w].key = tkey[q]
    BY <1>2, WorkerBorn
  <2>2. tslot[q] # 0 /\ UNCHANGED <<slots, tslot>>
    BY <2>1 DEF EnsureSecond, SpawnChild, SlotsHeld, EnsurePCs
  <2>3. ~DeadSlot(tslot[q])
    BY <2>1 DEF MayStart, DeadSlot, Stopped
  <2>4. PICK k \in Keys : slots[k] = tslot[q]
    BY <1>0, <2>2, <2>3 DEF HeldSlots, InMap
  <2>5. tkey[q] = k
    BY <2>2, <2>4 DEF HandleInv, SlotOwners
  <2> QED BY <2>1, <2>2, <2>4, <2>5
<1> QED BY <1>1, <1>2

\* With one thread, where the live workers are is preserved.
LEMMA PlaceNext ==
    ASSUME OneThread, OneThread', PlaceInv, [Next]_vars
    PROVE  PlaceInv'
BY SweptSlotNext, RemovedDeadNext, AliveCheckedNext, HeldSlotsNext, PlacedNext DEF PlaceInv

\* With one thread, every live worker is drained or in its place (see PlaceInv).
THEOREM PlaceInvariant ==
    ASSUME Threads = 1
    PROVE  Spec => [](OneThread /\ PlaceInv)
<1>1. Init => PlaceInv
  <2> SUFFICES ASSUME Init PROVE SweptSlot /\ RemovedDead /\ AliveChecked /\ HeldSlots /\ Placed
    BY DEF PlaceInv
  <2>1. pc[Sweeper] = "sleep" /\ \A r \in Requests : pc[r] = "idle" /\ tslot[r] = 0
    BY TaskSets DEF Init, Background, Sweeper
  <2>2. \A w \in Workers : proc[w] = "reaped"
    BY DEF Init
  <2> QED BY <2>1, <2>2 DEF SweptSlot, RemovedDead, AliveChecked, HeldSlots, Placed
<1>2. OneThread /\ OneThread' /\ PlaceInv /\ [Next]_vars => PlaceInv'
  BY PlaceNext
<1>3. Spec => []OneThread
  BY SweepInvariant, PTL DEF OneThread
<1> QED BY <1>1, <1>2, <1>3, PTL DEF Spec

\* With one thread, a key has at most one live worker besides those that are
\* drained: no slot with a live or starting worker is dropped from the map.
THEOREM OneWorkerPerKeyInvariant == ASSUME Threads = 1 PROVE Spec => []OneWorkerPerKey
<1>1. ASSUME OneThread, PlaceInv
      PROVE  OneWorkerPerKey
  <2> SUFFICES ASSUME shutdowns = 0, NEW w1 \in Workers \ Draining, NEW w2 \in Workers \ Draining,
                      proc[w1] = "alive", proc[w2] = "alive", spawnedFor[w1].key = spawnedFor[w2].key
               PROVE  w1 = w2
    BY DEF OneWorkerPerKey
  <2> DEFINE s == slots[spawnedFor[w1].key]
  <2>1. /\ s # 0
        /\ state[s] = Running(w1) \/ \E r \in Requests : pc[r] = "ready" /\ twh[r] = w1 /\ tslot[r] = s
        /\ state[s] = Running(w2) \/ \E r \in Requests : pc[r] = "ready" /\ twh[r] = w2 /\ tslot[r] = s
    BY <1>1 DEF PlaceInv, Placed
  <2>2. s \in Slots
    BY <1>1, <2>1, Ranges DEF OneThread, IInv, TypeOK, MapTypes, ProcTypes
  <2>3. SingleFlight
    BY <1>1 DEF OneThread, IInv
  <2>4. CASE state[s] = Running(w1) /\ state[s] = Running(w2)
    BY <2>4 DEF Running
  <2>5. ASSUME NEW r \in Requests, pc[r] = "ready", tslot[r] = s
        PROVE  state[s] # Running(w1) /\ state[s] # Running(w2)
    BY <2>2, <2>3, <2>5, SlotStateFacts DEF SingleFlight
  <2> QED BY <2>1, <2>3, <2>4, <2>5 DEF SingleFlight
<1> QED BY <1>1, PlaceInvariant, PTL

=============================================================================
