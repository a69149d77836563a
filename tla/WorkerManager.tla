--------------------------- MODULE WorkerManager ---------------------------
(***************************************************************************)
(* The worker manager of s32p-proxy: one gateway process per access key,   *)
(* started on demand, swept when idle or dead, retired when the directory  *)
(* changes and killed at shutdown                                          *)
(* (crates/s32p-proxy/src/worker_manager.rs, and the part of main.rs that  *)
(* calls it).                                                              *)
(*                                                                         *)
(* Tasks are the request tasks, the sweeper and the reconciler, which      *)
(* share the proxy service's runtime of Threads threads (Pingora's default *)
(* is 1), and the shutdown service, which has a runtime of its own.  A     *)
(* task in cpu occupies a thread; it gives the thread back only where the  *)
(* code awaits something that is not ready.  A DashMap write (entry,       *)
(* remove) is not an await: it blocks the thread while another task holds  *)
(* a Ref into the shard.                                                   *)
(***************************************************************************)
EXTENDS Integers, FiniteSets

CONSTANTS
    Requests,       \* request tasks; each serves one request after another
    Keys,           \* worker keys (access_key, profile)
    ShardOf,        \* the DashMap shard of each key
    Threads,        \* worker threads of the proxy service's runtime
    MaxSlots,       \* slot identities; dropped slots are reused
    MaxWorkers,     \* worker identities; dropped handles are reused
    IdleTimeout,    \* lifecycle.idle_timeout_secs
    Grace,          \* lifecycle.reconcile_grace_secs
    MaxTime,        \* bound on the clock
    MaxCrashes,     \* bound on worker processes that exit by themselves
    MaxDirChanges,  \* bound on directory changes
    MaxShutdowns    \* 1 if the graceful shutdown may be requested, else 0

Sweeper == "sweeper"
Reconciler == "reconciler"
Shutdown == "shutdown"
Background == {Sweeper, Reconciler, Shutdown}
Tasks == Requests \cup Background

Slots == 1..MaxSlots
Workers == 1..MaxWorkers

ASSUME ConstantsAssumption ==
    /\ Requests \cap Background = {}
    /\ IsFiniteSet(Requests) /\ Requests # {}
    /\ Keys # {}
    /\ Threads \in Nat \ {0}
    /\ MaxSlots \in Nat /\ MaxWorkers \in Nat \ {0}
    /\ IdleTimeout \in Nat \ {0}
    /\ Grace \in Nat /\ MaxTime \in Nat
    /\ MaxCrashes \in Nat /\ MaxDirChanges \in Nat /\ MaxShutdowns \in {0, 1}

VARIABLES
    slots,      \* the DashMap: key -> slot, 0 when the key is absent
    state,      \* slot -> SlotState
    proc,       \* worker -> its process: alive, exited (not yet waited for), reaped
    lastUsed,   \* worker -> last_used_unix
    spawnedFor, \* worker -> its key and the directory snapshot it was spawned from
    retiring,   \* the retiring list: handles and the time they may be killed
    drain,      \* the part of retiring the holder of its lock has still to look at
    pc,         \* where each task is
    cpu,        \* the proxy service's tasks that occupy one of its threads
    tkey,       \* the key each task works on
    tslot,      \* the slot each request task holds an Arc to, 0 for none
    twh,        \* the worker handle each task holds, 0 for none
    snap,       \* the directory snapshot a task has read
    todo,       \* keys a background task has still to visit
    sweepNow,   \* the clock as read at the start of the sweep
    dir,        \* the directory, per key: credentials (0: deleted), bucket set, names
    now, crashes, dirChanges, shutdowns

mapVars == <<slots, state>>
procVars == <<proc, lastUsed, spawnedFor>>
retVars == <<retiring, drain>>
envVars == <<dir, now, crashes, dirChanges, shutdowns>>
vars == <<mapVars, procVars, retVars, pc, cpu, tkey, tslot, twh, snap, todo,
          sweepNow, envVars>>

Stopped == [st |-> "Stopped", h |-> 0]
Starting == [st |-> "Starting", h |-> 0]
Running(h) == [st |-> "Running", h |-> h]
SlotState == {Stopped, Starting} \cup {Running(h) : h \in Workers}

\* What the directory says of an access key, as versions: its credentials, its
\* buckets (identity, data path, access level) and what those are called.
Snapshot == [user : Nat, buckets : Nat, names : Nat]
NoSnapshot == [user |-> 0, buckets |-> 0, names |-> 0]
NoKey == CHOOSE k \in Keys : TRUE   \* stands for a key not yet chosen

RequestPCs == {"idle", "grState", "grAlive", "grRemove", "buckets", "entry",
               "top", "fastAlive", "second", "park", "wait", "ready", "serving"}
BackgroundPCs == {"sleep", "drain", "drainTermWait", "next", "bgState",
                  "swAlive", "slotTerm", "slotTermWait", "remove", "rcUser",
                  "rcBuckets", "rcRetire", "rcRetState", "rcPush", "done"}

-----------------------------------------------------------------------------
\* Locks and references, all implied by where the tasks are.

\* The reconciler keeps its Ref over the directory lookups.
RefPCs_KeptOverLookup ==
    {"grState", "grAlive", "bgState", "swAlive", "slotTerm", "slotTermWait",
     "rcRetState", "rcUser", "rcBuckets"}

\* A DashMap Ref (a read lock on the key's shard) is held from slots.get to
\* the end of get_running, of a sweep's turn and of a flip in retire_worker.
RefPCs == {"grState", "grAlive", "bgState", "swAlive", "slotTerm",
           "slotTermWait", "rcRetState"}

HoldsRef(t) == pc[t] \in RefPCs

\* entry and remove need the shard's write lock.
WriteBlocked(k) ==
    \E t \in Tasks : HoldsRef(t) /\ ShardOf[tkey[t]] = ShardOf[k]

\* ensure_running keeps the slot's state locked while is_alive awaits the child.
StateLocked(s) == \E r \in Requests : pc[r] = "fastAlive" /\ tslot[r] = s

\* terminate keeps the child locked while it waits for the killed process.
ChildLocked(h) ==
    \E t \in Background : pc[t] \in {"drainTermWait", "slotTermWait"} /\ twh[t] = h

RetLocked == \E t \in Background : pc[t] \in {"drain", "drainTermWait"}

\* What keeps an Arc alive: a slot is held by the map and by the tasks inside
\* ensure_running, a handle by slots, by the retiring list and by tasks.
LiveSlots == {slots[k] : k \in Keys} \cup {tslot[r] : r \in Requests}

HeldWorkers ==
    {state[s].h : s \in LiveSlots \ {0}}
        \cup {x.handle : x \in retiring} \cup {twh[t] : t \in Tasks}

-----------------------------------------------------------------------------
\* Threads.  The shutdown service's single task has a thread of its own.

HasThread(t) ==
    t = Shutdown \/ t \in cpu \/ Cardinality(cpu) < Threads

KeepThread(t) == cpu' = IF t = Shutdown THEN cpu ELSE cpu \cup {t}

Suspend(t) == cpu' = cpu \ {t}

Goto(t, p) == pc' = [pc EXCEPT ![t] = p]

\* The result is stored but notify_waiters forgotten.
GotoAndNotify_Silent(t, p, s) == pc' = [pc EXCEPT ![t] = p]

\* Notify::notify_waiters: every task waiting on s becomes runnable.
GotoAndNotify(t, p, s) ==
    pc' = [u \in Tasks |->
             IF u = t THEN p
             ELSE IF u \in Requests /\ pc[u] = "wait" /\ tslot[u] = s THEN "top"
             ELSE pc[u]]

\* The await at a task's current point is a lock somebody else holds.
AwaitsLock(t) ==
    \/ pc[t] \in {"grState", "bgState", "rcRetState"} /\ StateLocked(slots[tkey[t]])
    \/ pc[t] \in {"top", "second"} /\ StateLocked(tslot[t])
    \/ pc[t] \in {"grAlive", "swAlive", "slotTerm"} /\ ChildLocked(twh[t])
    \/ pc[t] = "rcPush" /\ RetLocked
    \/ pc[t] = "drain" /\ drain # {} /\ \A x \in drain : ChildLocked(x.handle)

Yield(t) ==
    /\ t \in cpu /\ AwaitsLock(t)
    /\ Suspend(t)
    /\ UNCHANGED <<mapVars, procVars, retVars, pc, tkey, tslot, twh, snap, todo,
                   sweepNow, envVars>>

-----------------------------------------------------------------------------
\* Requests: request_filter, get_running, ensure_running.

\* try_wait also reaps a process that has exited.
TryWait(h) == [proc EXCEPT ![h] = IF @ = "exited" THEN "reaped" ELSE @]

\* The handle goes to ctx.worker after a touch; the request is proxied to it.
Route(r, h) ==
    /\ Goto(r, "serving") /\ Suspend(r)
    /\ twh' = [twh EXCEPT ![r] = h]
    /\ lastUsed' = [lastUsed EXCEPT ![h] = now]
    /\ tslot' = [tslot EXCEPT ![r] = 0]
    /\ snap' = [snap EXCEPT ![r] = NoSnapshot]
    /\ UNCHANGED <<mapVars, spawnedFor>>

\* The user lookup answers, and get_running looks the key up in the map.
\* Pingora accepts no request once a shutdown is requested.
Arrive(r, k) ==
    /\ pc[r] = "idle" /\ HasThread(r)
    /\ shutdowns = 0
    /\ dir[k].user # 0
    /\ tkey' = [tkey EXCEPT ![r] = k]
    /\ snap' = [snap EXCEPT ![r].user = dir[k].user]
    /\ IF slots[k] = 0
       THEN Goto(r, "buckets") /\ Suspend(r)
       ELSE Goto(r, "grState") /\ KeepThread(r)
    /\ UNCHANGED <<mapVars, procVars, retVars, tslot, twh, todo, sweepNow, envVars>>

GetRunningState(r) ==
    LET s == slots[tkey[r]] IN
    /\ pc[r] = "grState" /\ HasThread(r)
    /\ ~StateLocked(s)
    /\ IF state[s].st = "Running"
       THEN /\ twh' = [twh EXCEPT ![r] = state[s].h]
            /\ Goto(r, "grAlive") /\ KeepThread(r)
       ELSE /\ Goto(r, "buckets") /\ Suspend(r)
            /\ UNCHANGED twh
    /\ UNCHANGED <<mapVars, procVars, retVars, tkey, tslot, snap, todo, sweepNow, envVars>>

\* A dead worker is terminated (nothing is left to wait for), the Ref dropped
\* and the key removed in the next step.
GetRunningAlive(r) ==
    /\ pc[r] = "grAlive" /\ HasThread(r)
    /\ ~ChildLocked(twh[r])
    /\ proc' = TryWait(twh[r])
    /\ \/ /\ proc[twh[r]] = "alive"
          /\ Route(r, twh[r])
       \/ /\ proc[twh[r]] # "alive"
          /\ Goto(r, "grRemove") /\ KeepThread(r)
          /\ UNCHANGED <<mapVars, lastUsed, spawnedFor, tslot, twh, snap>>
    /\ UNCHANGED <<retVars, tkey, todo, sweepNow, envVars>>

GetRunningRemove(r) ==
    /\ pc[r] = "grRemove"
    /\ ~WriteBlocked(tkey[r])
    /\ slots' = [slots EXCEPT ![tkey[r]] = 0]
    /\ twh' = [twh EXCEPT ![r] = 0]
    /\ Goto(r, "buckets") /\ Suspend(r)
    /\ UNCHANGED <<state, procVars, retVars, tkey, tslot, snap, todo, sweepNow, envVars>>

\* A bad signature or a failing bucket lookup ends the request.
Reject(r) ==
    /\ pc[r] = "buckets" /\ HasThread(r)
    /\ Goto(r, "idle") /\ Suspend(r)
    /\ snap' = [snap EXCEPT ![r] = NoSnapshot]
    /\ UNCHANGED <<mapVars, procVars, retVars, tkey, tslot, twh, todo, sweepNow, envVars>>

LookupBuckets(r) ==
    /\ pc[r] = "buckets" /\ HasThread(r)
    /\ snap' = [snap EXCEPT ![r] = [dir[tkey[r]] EXCEPT !.user = snap[r].user]]
    /\ Goto(r, "entry") /\ KeepThread(r)
    /\ UNCHANGED <<mapVars, procVars, retVars, tkey, tslot, twh, todo, sweepNow, envVars>>

\* entry(key).or_insert_with(Stopped).clone()
EnsureEntry(r) ==
    LET k == tkey[r] IN
    /\ pc[r] = "entry"
    /\ ~WriteBlocked(k)
    /\ \/ /\ slots[k] # 0
          /\ tslot' = [tslot EXCEPT ![r] = slots[k]]
          /\ UNCHANGED mapVars
       \/ /\ slots[k] = 0
          /\ \E s \in Slots \ LiveSlots :
               /\ \A s2 \in Slots \ LiveSlots : s <= s2
               /\ slots' = [slots EXCEPT ![k] = s]
               /\ state' = [state EXCEPT ![s] = Stopped]
               /\ tslot' = [tslot EXCEPT ![r] = s]
    /\ Goto(r, "top") /\ KeepThread(r)
    /\ UNCHANGED <<procVars, retVars, tkey, twh, snap, todo, sweepNow, envVars>>

\* The fast path: the state stays locked while is_alive awaits the child.
EnsureTop(r) ==
    LET s == tslot[r]
        h == state[s].h IN
    /\ pc[r] = "top" /\ HasThread(r)
    /\ ~StateLocked(s)
    /\ \/ /\ state[s].st # "Running"
          /\ Goto(r, "second") /\ KeepThread(r)
          /\ UNCHANGED <<mapVars, procVars, tslot, twh, snap>>
       \/ /\ state[s].st = "Running" /\ ChildLocked(h)
          /\ Goto(r, "fastAlive") /\ Suspend(r)
          /\ twh' = [twh EXCEPT ![r] = h]
          /\ UNCHANGED <<mapVars, procVars, tslot, snap>>
       \/ /\ state[s].st = "Running" /\ ~ChildLocked(h) /\ proc[h] = "alive"
          /\ Route(r, h)
          /\ UNCHANGED proc
       \/ /\ state[s].st = "Running" /\ ~ChildLocked(h) /\ proc[h] # "alive"
          /\ proc' = TryWait(h)
          /\ Goto(r, "second") /\ KeepThread(r)
          /\ UNCHANGED <<mapVars, lastUsed, spawnedFor, tslot, twh, snap>>
    /\ UNCHANGED <<retVars, tkey, todo, sweepNow, envVars>>

EnsureFastAlive(r) ==
    LET h == twh[r] IN
    /\ pc[r] = "fastAlive" /\ HasThread(r)
    /\ ~ChildLocked(h)
    /\ proc' = TryWait(h)
    /\ \/ /\ proc[h] = "alive"
          /\ Route(r, h)
       \/ /\ proc[h] # "alive"
          /\ twh' = [twh EXCEPT ![r] = 0]
          /\ Goto(r, "second") /\ KeepThread(r)
          /\ UNCHANGED <<mapVars, lastUsed, spawnedFor, tslot, snap>>
    /\ UNCHANGED <<retVars, tkey, todo, sweepNow, envVars>>

\* A second caller starts a worker too while one is Starting.
MayStart_AlsoWhileStarting(s) == state[s] \in {Stopped, Starting}

\* Only a Stopped slot is started.
MayStart(s) == state[s] = Stopped

\* The fingerprint leaves the bucket set out.
Fingerprint_UserOnly(snapshot) == snapshot.user

\* directory_fingerprint hashes the credentials and each bucket's identity, data
\* path and access level, but not its name.
Fingerprint(snapshot) == <<snapshot.user, snapshot.buckets>>

\* cmd.spawn: a process under a fresh handle that records what it was started
\* from.  It fails when no worker identity is free: the starter then has none.
SpawnChild(r) ==
    LET free == {w \in Workers : proc[w] = "reaped" /\ w \notin HeldWorkers} IN
    \/ \E w \in free :
         /\ \A w2 \in free : w <= w2
         /\ proc' = [proc EXCEPT ![w] = "alive"]
         /\ lastUsed' = [lastUsed EXCEPT ![w] = now]
         /\ spawnedFor' = [spawnedFor EXCEPT ![w] = [key |-> tkey[r], fp |-> snap[r]]]
         /\ twh' = [twh EXCEPT ![r] = w]
    \/ free = {} /\ UNCHANGED <<procVars, twh>>

\* Become the starter, and start the child process, or go on to wait.
EnsureSecond(r) ==
    LET s == tslot[r] IN
    /\ pc[r] = "second" /\ HasThread(r)
    /\ ~StateLocked(s)
    /\ \/ /\ ~MayStart(s)
          /\ Goto(r, "park") /\ KeepThread(r)
          /\ UNCHANGED <<state, procVars, twh>>
       \/ /\ MayStart(s)
          /\ state' = [state EXCEPT ![s] = Starting]
          /\ Goto(r, "ready") /\ Suspend(r)
          /\ SpawnChild(r)
    /\ UNCHANGED <<slots, retVars, tkey, tslot, snap, todo, sweepNow, envVars>>

\* notified() is called after the state is unlocked: a notify_waiters that
\* came in between is missed.
EnsurePark(r) ==
    /\ pc[r] = "park"
    /\ Goto(r, "wait") /\ Suspend(r)
    /\ UNCHANGED <<mapVars, procVars, retVars, tkey, tslot, twh, snap, todo, sweepNow, envVars>>

\* wait_until_ready connects; the slot is Running and its waiters are woken.
SpawnReady(r) ==
    LET h == twh[r]
        s == tslot[r] IN
    /\ pc[r] = "ready" /\ HasThread(r)
    /\ h # 0 /\ proc[h] = "alive"
    /\ state' = [state EXCEPT ![s] = Running(h)]
    /\ GotoAndNotify(r, "serving", s) /\ Suspend(r)
    /\ lastUsed' = [lastUsed EXCEPT ![h] = now]
    /\ snap' = [snap EXCEPT ![r] = NoSnapshot]
    /\ tslot' = [tslot EXCEPT ![r] = 0]
    /\ UNCHANGED <<slots, proc, spawnedFor, retVars, tkey, twh, todo, sweepNow, envVars>>

\* spawn_worker fails; dropping the handle kills the child (kill_on_drop).
SpawnFail(r) ==
    LET s == tslot[r] IN
    /\ pc[r] = "ready" /\ HasThread(r)
    /\ state' = [state EXCEPT ![s] = Stopped]
    /\ GotoAndNotify(r, "idle", s) /\ Suspend(r)
    /\ proc' = [w \in Workers |-> IF w = twh[r] THEN "reaped" ELSE proc[w]]
    /\ snap' = [snap EXCEPT ![r] = NoSnapshot]
    /\ tslot' = [tslot EXCEPT ![r] = 0]
    /\ twh' = [twh EXCEPT ![r] = 0]
    /\ UNCHANGED <<slots, lastUsed, spawnedFor, retVars, tkey, todo, sweepNow, envVars>>

\* The upstream exchange ends, well or badly, and ctx.worker is dropped.
Finish(r) ==
    /\ pc[r] = "serving" /\ HasThread(r)
    /\ Goto(r, "idle") /\ Suspend(r)
    /\ twh' = [twh EXCEPT ![r] = 0]
    /\ UNCHANGED <<mapVars, procVars, retVars, tkey, tslot, snap, todo, sweepNow, envVars>>

-----------------------------------------------------------------------------
\* The sweeper, the reconciler and the shutdown service.

\* Both take the retiring list's lock; the sweep has read the clock.
StartDrain(t) ==
    /\ t \in {Sweeper, Shutdown}
    /\ pc[t] = "sleep" /\ HasThread(t)
    /\ ~RetLocked
    /\ drain' = retiring
    /\ \/ t = Sweeper /\ sweepNow' = now /\ UNCHANGED shutdowns
       \/ /\ t = Shutdown /\ shutdowns < MaxShutdowns
          /\ shutdowns' = shutdowns + 1 /\ UNCHANGED sweepNow
    /\ Goto(t, "drain") /\ KeepThread(t)
    /\ UNCHANGED <<mapVars, procVars, retiring, tkey, tslot, twh, snap, todo,
                   dir, now, crashes, dirChanges>>

\* Off by one: killed a second early.
KeepDraining_Early(x) == sweepNow + 1 < x.terminateAfter /\ proc[x.handle] = "alive"

\* The sweep keeps a retired worker that is alive and within its grace.
KeepDraining(x) == sweepNow < x.terminateAfter /\ proc[x.handle] = "alive"

DrainOne(t) ==
    /\ pc[t] = "drain" /\ HasThread(t)
    /\ \E x \in drain :
         /\ ~ChildLocked(x.handle)
         /\ drain' = drain \ {x}
         /\ \/ /\ t = Sweeper /\ KeepDraining(x)
               /\ Goto(t, "drain") /\ KeepThread(t)
               /\ UNCHANGED <<proc, retiring, twh>>
            \/ /\ ~(t = Sweeper /\ KeepDraining(x)) /\ proc[x.handle] = "reaped"
               /\ retiring' = retiring \ {x}
               /\ Goto(t, "drain") /\ KeepThread(t)
               /\ UNCHANGED <<proc, twh>>
            \/ /\ ~(t = Sweeper /\ KeepDraining(x)) /\ proc[x.handle] # "reaped"
               /\ retiring' = retiring \ {x}
               /\ proc' = [proc EXCEPT ![x.handle] = "exited"]
               /\ twh' = [twh EXCEPT ![t] = x.handle]
               /\ Goto(t, "drainTermWait") /\ Suspend(t)
    /\ UNCHANGED <<mapVars, lastUsed, spawnedFor, tkey, tslot, snap, todo, sweepNow, envVars>>

\* kill().await and wait().await return: the process has been reaped.
TermWait(t) ==
    /\ pc[t] \in {"drainTermWait", "slotTermWait"} /\ HasThread(t)
    /\ proc' = [proc EXCEPT ![twh[t]] = "reaped"]
    /\ Goto(t, IF pc[t] = "drainTermWait" THEN "drain" ELSE "remove") /\ KeepThread(t)
    /\ twh' = [twh EXCEPT ![t] = 0]
    /\ UNCHANGED <<mapVars, lastUsed, spawnedFor, retVars, tkey, tslot, snap, todo, sweepNow, envVars>>

\* The drain is over, or a reconciliation starts: collect the map's keys.
CollectKeys(t) ==
    /\ \/ pc[t] = "drain" /\ drain = {}
       \/ t = Reconciler /\ pc[t] = "sleep"
    /\ HasThread(t)
    /\ todo' = [todo EXCEPT ![t] = {k \in Keys : slots[k] # 0}]
    /\ Goto(t, "next") /\ KeepThread(t)
    /\ UNCHANGED <<mapVars, procVars, retVars, tkey, tslot, twh, snap, sweepNow, envVars>>

\* The next key of the pass; the pass ends, its locals forgotten, when there is none.
NextKey(t) ==
    /\ pc[t] = "next" /\ HasThread(t)
    /\ twh' = [twh EXCEPT ![t] = 0]
    /\ \/ /\ todo[t] = {}
          /\ Goto(t, IF t = Shutdown THEN "done" ELSE "sleep") /\ Suspend(t)
          /\ snap' = [snap EXCEPT ![t] = NoSnapshot]
          /\ sweepNow' = IF t = Sweeper THEN 0 ELSE sweepNow
          /\ UNCHANGED <<todo, tkey>>
       \/ \E k \in todo[t] :
            /\ todo' = [todo EXCEPT ![t] = @ \ {k}]
            /\ tkey' = [tkey EXCEPT ![t] = k]
            /\ Goto(t, IF slots[k] = 0 THEN "next" ELSE "bgState") /\ KeepThread(t)
            /\ UNCHANGED <<snap, sweepNow>>
    /\ UNCHANGED <<mapVars, procVars, retVars, tslot, envVars>>

\* Each task inspects Running slots; the shutdown also removes the others.
BackgroundState(t) ==
    LET s == slots[tkey[t]]
        running == state[s].st = "Running" IN
    /\ pc[t] = "bgState" /\ HasThread(t)
    /\ ~StateLocked(s)
    /\ twh' = [twh EXCEPT ![t] = IF running THEN state[s].h ELSE 0]
    /\ \/ t = Sweeper /\ Goto(t, IF running THEN "swAlive" ELSE "next") /\ KeepThread(t)
       \/ t = Shutdown /\ Goto(t, IF running THEN "slotTerm" ELSE "remove") /\ KeepThread(t)
       \/ t = Reconciler /\ running /\ Goto(t, "rcUser") /\ Suspend(t)
       \/ t = Reconciler /\ ~running /\ Goto(t, "next") /\ KeepThread(t)
    /\ UNCHANGED <<mapVars, procVars, retVars, tkey, tslot, snap, todo, sweepNow, envVars>>

\* Off by one in the idle comparison.
Idle_Early(h) == sweepNow - lastUsed[h] >= IdleTimeout - 1

Idle(h) == sweepNow - lastUsed[h] >= IdleTimeout

SweepAlive(t) ==
    LET h == twh[t] IN
    /\ pc[t] = "swAlive" /\ HasThread(t)
    /\ ~ChildLocked(h)
    /\ proc' = TryWait(h)
    /\ Goto(t, IF proc[h] # "alive" THEN "remove"
               ELSE IF Idle(h) THEN "slotTerm" ELSE "next")
    /\ KeepThread(t)
    /\ UNCHANGED <<mapVars, lastUsed, spawnedFor, retVars, tkey, tslot, twh, snap,
                   todo, sweepNow, envVars>>

\* terminate: SIGKILL, then wait; a child already reaped needs no waiting.
SlotTerminate(t) ==
    LET h == twh[t] IN
    /\ pc[t] = "slotTerm" /\ HasThread(t)
    /\ ~ChildLocked(h)
    /\ \/ /\ proc[h] = "reaped"
          /\ Goto(t, "remove") /\ KeepThread(t)
          /\ UNCHANGED proc
       \/ /\ proc[h] # "reaped"
          /\ proc' = [proc EXCEPT ![h] = "exited"]
          /\ Goto(t, "slotTermWait") /\ Suspend(t)
    /\ UNCHANGED <<mapVars, lastUsed, spawnedFor, retVars, tkey, tslot, twh, snap,
                   todo, sweepNow, envVars>>

\* drop(slot); slots.remove(&key): removes whatever slot the key has by now.
RemoveKey(t) ==
    /\ pc[t] = "remove"
    /\ ~WriteBlocked(tkey[t])
    /\ slots' = [slots EXCEPT ![tkey[t]] = 0]
    /\ twh' = [twh EXCEPT ![t] = 0]
    /\ Goto(t, "next") /\ KeepThread(t)
    /\ UNCHANGED <<state, procVars, retVars, tkey, tslot, snap, todo, sweepNow, envVars>>

\* The reconciler's user lookup: an error leaves the worker alone, a deleted
\* access key retires it.
ReconcileUser(t) ==
    /\ t = Reconciler /\ pc[t] = "rcUser" /\ HasThread(t)
    /\ \/ dir[tkey[t]].user = 0 /\ Goto(t, "rcRetire") /\ KeepThread(t)
       \/ dir[tkey[t]].user # 0 /\ Goto(t, "rcBuckets") /\ Suspend(t)
    /\ snap' = [snap EXCEPT ![t].user = dir[tkey[t]].user]
    /\ UNCHANGED <<mapVars, procVars, retVars, tkey, tslot, twh, todo, sweepNow, envVars>>

\* Its bucket lookup and the comparison of fingerprints.
ReconcileBuckets(t) ==
    LET current == [dir[tkey[t]] EXCEPT !.user = snap[t].user] IN
    /\ t = Reconciler /\ pc[t] = "rcBuckets" /\ HasThread(t)
    /\ Goto(t, IF Fingerprint(current) # Fingerprint(spawnedFor[twh[t]].fp) THEN "rcRetire" ELSE "next")
    /\ KeepThread(t)
    /\ UNCHANGED <<mapVars, procVars, retVars, tkey, tslot, twh, snap, todo, sweepNow, envVars>>

ReconcileLookupError(t) ==
    /\ t = Reconciler /\ pc[t] \in {"rcUser", "rcBuckets"} /\ HasThread(t)
    /\ Goto(t, "next") /\ KeepThread(t)
    /\ UNCHANGED <<mapVars, procVars, retVars, tkey, tslot, twh, snap, todo, sweepNow, envVars>>

RetireGet(t) ==
    /\ pc[t] = "rcRetire" /\ HasThread(t)
    /\ Goto(t, IF slots[tkey[t]] = 0 THEN "rcPush" ELSE "rcRetState") /\ KeepThread(t)
    /\ UNCHANGED <<mapVars, procVars, retVars, tkey, tslot, twh, snap, todo, sweepNow, envVars>>

\* Any running handle is taken for the one that was compared.
StillRunning_AnyHandle(s, h) == state[s].st = "Running"

\* The comparison never matches, so the slot is not flipped.
StillRunning_Never(s, h) == FALSE

\* Arc::ptr_eq: the slot still runs the very handle that was compared.
StillRunning(s, h) == state[s] = Running(h)

\* Only that handle's slot is flipped to Stopped.
RetireFlip(t) ==
    LET s == slots[tkey[t]] IN
    /\ pc[t] = "rcRetState" /\ HasThread(t)
    /\ ~StateLocked(s)
    /\ \/ /\ StillRunning(s, twh[t])
          /\ state' = [state EXCEPT ![s] = Stopped]
          /\ GotoAndNotify(t, "rcPush", s)
       \/ /\ ~StillRunning(s, twh[t])
          /\ Goto(t, "rcPush")
          /\ UNCHANGED state
    /\ KeepThread(t)
    /\ UNCHANGED <<slots, procVars, retVars, tkey, tslot, twh, snap, todo, sweepNow, envVars>>

RetirePush(t) ==
    /\ pc[t] = "rcPush" /\ HasThread(t)
    /\ ~RetLocked
    /\ retiring' = retiring \cup {[handle |-> twh[t], terminateAfter |-> now + Grace]}
    /\ twh' = [twh EXCEPT ![t] = 0]
    /\ Goto(t, "next") /\ KeepThread(t)
    /\ UNCHANGED <<mapVars, procVars, drain, tkey, tslot, snap, todo, sweepNow, envVars>>

-----------------------------------------------------------------------------
\* The environment.

\* A worker process exits by itself.
WorkerExits(h) ==
    /\ crashes < MaxCrashes
    /\ proc[h] = "alive"
    /\ proc' = [proc EXCEPT ![h] = "exited"]
    /\ crashes' = crashes + 1
    /\ UNCHANGED <<mapVars, lastUsed, spawnedFor, retVars, pc, cpu, tkey, tslot, twh,
                   snap, todo, sweepNow, dir, now, dirChanges, shutdowns>>

\* The last Arc to a handle is dropped: kill_on_drop kills the child.
DropHandle(h) ==
    /\ proc[h] # "reaped" /\ h \notin HeldWorkers
    /\ proc' = [proc EXCEPT ![h] = "reaped"]
    /\ UNCHANGED <<mapVars, lastUsed, spawnedFor, retVars, pc, cpu, tkey, tslot, twh,
                   snap, todo, sweepNow, envVars>>

\* An administrator rotates credentials, changes grants, renames a bucket or
\* deletes the user.
DirectoryChange(k) ==
    /\ dirChanges < MaxDirChanges
    /\ dir[k].user # 0
    /\ dirChanges' = dirChanges + 1
    /\ \/ dir' = [dir EXCEPT ![k].user = @ + 1]
       \/ dir' = [dir EXCEPT ![k].buckets = @ + 1]
       \/ dir' = [dir EXCEPT ![k].names = @ + 1]
       \/ dir' = [dir EXCEPT ![k].user = 0]
    /\ UNCHANGED <<mapVars, procVars, retVars, pc, cpu, tkey, tslot, twh, snap, todo,
                   sweepNow, now, crashes, shutdowns>>

\* A second passes.  Runnable tasks run well within a second.
Tick ==
    /\ now < MaxTime
    /\ cpu = {} /\ \A r \in Requests : pc[r] # "top"
    /\ now' = now + 1
    /\ UNCHANGED <<mapVars, procVars, retVars, pc, cpu, tkey, tslot, twh, snap, todo,
                   sweepNow, dir, crashes, dirChanges, shutdowns>>

-----------------------------------------------------------------------------
Init ==
    /\ slots = [k \in Keys |-> 0]
    /\ state = [s \in Slots |-> Stopped]
    /\ proc = [w \in Workers |-> "reaped"]
    /\ lastUsed = [w \in Workers |-> 0]
    /\ spawnedFor = [w \in Workers |-> [key |-> NoKey, fp |-> NoSnapshot]]
    /\ tkey = [t \in Tasks |-> NoKey]
    /\ retiring = {} /\ drain = {}
    /\ pc = [t \in Tasks |-> IF t \in Requests THEN "idle" ELSE "sleep"]
    /\ cpu = {}
    /\ tslot = [r \in Requests |-> 0]
    /\ twh = [t \in Tasks |-> 0]
    /\ snap = [t \in Tasks |-> NoSnapshot]
    /\ todo = [t \in Background |-> {}]
    /\ sweepNow = 0
    /\ dir = [k \in Keys |-> [user |-> 1, buckets |-> 1, names |-> 1]]
    /\ now = 0 /\ crashes = 0 /\ dirChanges = 0 /\ shutdowns = 0

RequestStep(r) ==
    \/ GetRunningState(r) \/ GetRunningAlive(r) \/ GetRunningRemove(r)
    \/ Reject(r) \/ LookupBuckets(r)
    \/ EnsureEntry(r) \/ EnsureTop(r) \/ EnsureFastAlive(r) \/ EnsureSecond(r)
    \/ EnsurePark(r) \/ SpawnReady(r) \/ SpawnFail(r) \/ Finish(r)

BackgroundStep(t) ==
    \/ StartDrain(t) \/ DrainOne(t) \/ TermWait(t) \/ CollectKeys(t)
    \/ NextKey(t) \/ BackgroundState(t) \/ SweepAlive(t) \/ SlotTerminate(t)
    \/ RemoveKey(t) \/ RetireGet(t) \/ RetireFlip(t) \/ RetirePush(t)
    \/ ReconcileUser(t) \/ ReconcileBuckets(t)

Next ==
    \/ \E r \in Requests : (\E k \in Keys : Arrive(r, k)) \/ RequestStep(r)
    \/ \E t \in Background : BackgroundStep(t) \/ ReconcileLookupError(t)
    \/ \E t \in Tasks : Yield(t)
    \/ \E h \in Workers : WorkerExits(h) \/ DropHandle(h)
    \/ \E k \in Keys : DirectoryChange(k)
    \/ Tick

\* Tokio runs every runnable task again and again, so a task whose step is
\* enabled infinitely often takes it, however often others had the thread
\* first.  Timers fire; children and upstream exchanges answer; directory
\* lookups, and spawns, that are tried again and again do not fail every time.
Fairness ==
    /\ \A r \in Requests : SF_vars(RequestStep(r)) /\ SF_vars(SpawnReady(r))
    /\ \A t \in Background : SF_vars(BackgroundStep(t))
    /\ SF_vars(ReconcileUser(Reconciler)) /\ SF_vars(ReconcileBuckets(Reconciler))
    /\ \A t \in Tasks : WF_vars(Yield(t))

Spec == Init /\ [][Next]_vars
FairSpec == Spec /\ Fairness

-----------------------------------------------------------------------------
\* Properties.

MapTypes == slots \in [Keys -> 0..MaxSlots] /\ state \in [Slots -> SlotState]

ProcTypes ==
    /\ proc \in [Workers -> {"alive", "exited", "reaped"}]
    /\ lastUsed \in [Workers -> Nat]
    /\ spawnedFor \in [Workers -> [key : Keys, fp : Snapshot]]

RetiringTypes ==
    /\ retiring \subseteq [handle : Workers, terminateAfter : Nat]
    /\ drain \subseteq [handle : Workers, terminateAfter : Nat]

PcTypes ==
    /\ pc \in [Tasks -> RequestPCs \cup BackgroundPCs]
    /\ \A r \in Requests : pc[r] \in RequestPCs
    /\ \A t \in Background : pc[t] \in BackgroundPCs
    /\ cpu \subseteq Tasks

LocalTypes ==
    /\ tkey \in [Tasks -> Keys]
    /\ tslot \in [Requests -> 0..MaxSlots]
    /\ twh \in [Tasks -> 0..MaxWorkers]
    /\ todo \in [Background -> SUBSET Keys]
    /\ sweepNow \in Nat

DirectoryTypes == snap \in [Tasks -> Snapshot] /\ dir \in [Keys -> Snapshot]

CounterTypes ==
    /\ now \in Nat /\ crashes \in Nat
    /\ dirChanges \in 0..MaxDirChanges /\ shutdowns \in {0, 1}

\* Every variable stays within its type (the state of worker_manager.rs).
TypeOK ==
    /\ MapTypes /\ ProcTypes /\ RetiringTypes /\ PcTypes /\ LocalTypes
    /\ DirectoryTypes /\ CounterTypes

\* ensure_running is single-flight: a slot has a starter exactly while it is
\* Starting, and never two.
SingleFlight ==
    /\ \A r1, r2 \in Requests :
         pc[r1] = "ready" /\ pc[r2] = "ready" /\ tslot[r1] = tslot[r2] => r1 = r2
    /\ \A s \in Slots :
         state[s] = Starting <=> \E r \in Requests : pc[r] = "ready" /\ tslot[r] = s

\* With any number of threads, and in a shutdown: a worker on the retiring list
\* is not the one get_running finds ("They no longer receive new requests").
RetiredNotRouted ==
    \A x \in retiring : \A k \in Keys :
        slots[k] # 0 => state[slots[k]] # Running(x.handle)

\* Retired workers, and the one the reconciler is about to put on the list.
Draining ==
    {x.handle : x \in retiring}
        \cup {twh[t] : t \in {u \in {Reconciler} : pc[u] = "rcPush"}}

\* A key has at most one live worker besides the ones being drained: no slot
\* with a live or starting worker is ever dropped from the map (get_running and
\* sweep_once remove a key only after its worker is dead).  A shutdown may
\* begin while a request still starts a worker, and is excepted.
OneWorkerPerKey == shutdowns = 0 =>
    \A w1, w2 \in Workers \ Draining :
        /\ proc[w1] = "alive" /\ proc[w2] = "alive"
        /\ w1 \in HeldWorkers /\ w2 \in HeldWorkers
        /\ spawnedFor[w1].key = spawnedFor[w2].key
        => w1 = w2

\* The manager kills a worker it has retired only after the grace period,
\* unless it is being shut down.
GraceRespected ==
    [][\A x \in retiring :
         /\ proc[x.handle] = "alive" /\ proc'[x.handle] # "alive"
         /\ crashes' = crashes /\ shutdowns = 0
         => now >= x.terminateAfter]_vars

\* A sweep kills no worker that a request was routed to within the idle timeout.
FreshWorkerNotSwept ==
    [][\A h \in Workers :
         /\ proc[h] = "alive" /\ proc'[h] # "alive"
         /\ pc[Sweeper] = "slotTerm" /\ twh[Sweeper] = h /\ pc'[Sweeper] = "slotTermWait"
         => now - lastUsed[h] >= IdleTimeout]_vars

\* The call of the map in which a task blocks its thread.
BlockedOnShard(t) ==
    t \in cpu /\ pc[t] \in {"grRemove", "entry", "remove"} /\ WriteBlocked(tkey[t])

\* With one thread a task that blocks in the map stops the proxy until the Refs
\* on the shard are given back, which a suspended task cannot do.  Outside a
\* shutdown, which has a thread of its own, only the sweep can bring that about,
\* and only by killing a worker: it holds a Ref over terminate (sweep_once), and
\* a request that waits for that worker's child holds one too (get_running).
\* No other await has a Ref: not the reconciler's lookups, not a spawn.
BlockedOnlyBySweep == Threads = 1 /\ shutdowns = 0 =>
    \A t \in Tasks : BlockedOnShard(t) =>
        \/ /\ pc[Sweeper] = "slotTermWait" /\ ShardOf[tkey[Sweeper]] = ShardOf[tkey[t]]
        \/ /\ t = Sweeper
           /\ \A u \in Tasks : HoldsRef(u) /\ ShardOf[tkey[u]] = ShardOf[tkey[t]] =>
                pc[u] = "grAlive" /\ proc[twh[u]] = "reaped"

\* Every request is answered.
RequestsAnswered ==
    \A r \in Requests : pc[r] # "idle" ~> pc[r] = "idle"

\* The worker that get_running finds under the key.
Current(k, h) == slots[k] # 0 /\ state[slots[k]] = Running(h)

\* A worker whose credentials or grants are out of date stops being the one that
\* new requests are routed to (reconcile_once).
StaleWorkerReplaced ==
    \A k \in Keys : \A h \in Workers :
        LET stale == /\ Current(k, h)
                     /\ \/ spawnedFor[h].fp.user # dir[k].user
                        \/ spawnedFor[h].fp.buckets # dir[k].buckets
        IN  stale ~> ~stale

\* The same of everything a worker was started with, the names of its buckets
\* included: what the comment on directory_fingerprint says of the reconciler.
\* The code does not keep this: the fingerprint leaves the names out.
BakedInReplaced ==
    \A k \in Keys : \A h \in Workers :
        LET stale == Current(k, h) /\ spawnedFor[h].fp # dir[k]
        IN  stale ~> ~stale

\* An idle worker is shut down and leaves the slot map, unless a request uses it
\* again: what the README says of the sweeper, which holds the key's shard while
\* it waits for the killed process (sweep_once).  The code does not keep this:
\* what BlockedOnlyBySweep allows for does happen.
IdleWorkerRemoved ==
    \A k \in Keys : \A h \in Workers :
        LET idle == Current(k, h) /\ now - lastUsed[h] >= IdleTimeout
        IN  idle ~> ~idle

=============================================================================
