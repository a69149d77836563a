--------------------------- MODULE RequestFilter ---------------------------
(***************************************************************************)
(* The life of a request in s32p-proxy: the per-address limiter, the       *)
(* classification and routing decision, authentication with a long-term    *)
(* key or a session credential, CreateSession, the choice of a worker, and *)
(* the check the gateway behind it makes before it performs the operation. *)
(*                                                                         *)
(* A step is what request_filter does between two awaits.  The directory   *)
(* answers with its present state or fails (DirectoryCache has its         *)
(* staleness); the worker manager keeps its contract (WorkerManager): one  *)
(* starter per key, and a handle may vanish or die at any time.  Workers   *)
(* listen on TCP ports, which are reused.                                  *)
(***************************************************************************)
EXTENDS Naturals, FiniteSets

CONSTANTS
    Requests,
    Users,          \* long-term access keys
    Sids,           \* ephemeral access keys the store may mint
    Buckets,
    Ips,            \* addresses the cap applies to
    Loopback,       \* any peer that bypasses it: loopback, Unix socket
    Ports,          \* TCP ports of workers
    InitGrants,     \* user -> bucket -> access level, at first
    Calls,          \* what clients send: records of Call
    PerIp,          \* max_concurrent_requests_per_ip
    MaxActive,      \* session_max_active
    SessionTtl,
    MaxWorkers,     \* bound: workers started
    MaxChanges,     \* bound: changes of the directory
    MaxTime,        \* bound: the clock
    NoKey, NoBucket, NoUser, NoPort

VARIABLES
    inflight,       \* ConnectionLimiter: address -> counter
    active,         \* SessionStore: the keys in the map
    minted,         \* key -> its SessionEntry, once minted
    cleanup,        \* has start_cleanup been called
    users,          \* directory: user -> number of the secret, 0 when absent
    issued,         \* user -> secrets handed out so far
    grants,         \* user -> bucket -> access level
    handle,         \* WorkerManager: user -> the worker get_running finds, or 0
    cfg,            \* worker -> what it was started with
    portOf,         \* worker -> the port of its endpoint
    listener,       \* port -> the worker that is bound to it, or 0
    call, pc, status,
    started,        \* request -> when it arrived
    ctx,            \* request -> its ProxyCtx
    snap,           \* request -> the buckets it looked up for a spawn
    by,             \* request -> the worker that performed it, or 0
    now, changes

limiterVars == <<inflight>>
sessionVars == <<active, minted, cleanup>>
directoryVars == <<users, issued, grants>>
workerVars == <<handle, cfg, portOf, listener>>
envVars == <<now, changes>>
vars == <<inflight, active, minted, cleanup, users, issued, grants, handle, cfg,
          portOf, listener, call, pc, status, started, ctx, snap, by, now, changes>>

-----------------------------------------------------------------------------
Levels == {"none", "ro", "rw"}
Modes == {"ReadOnly", "ReadWrite"}
Ops == {"proxy", "session", "local", "unrouted"}
Workers == 1..MaxWorkers

\* A request as request_filter sees it: peer, access key, bucket, what its
\* class is routed to, whether it needs_write, whether it asks for server-side
\* encryption, the session mode it asks for and whether its session token is
\* the right one.  src is the bucket of x-amz-copy-source, which the gateway
\* reads (CopyObject, UploadPartCopy) and request_filter does not.  The secret
\* the request is signed with is chosen when it arrives.
Call == [ip : Ips \cup {Loopback}, key : Users \cup Sids \cup {NoKey},
         bucket : Buckets \cup {NoBucket}, src : Buckets \cup {NoBucket},
         op : Ops, writes : BOOLEAN, sse : BOOLEAN, mode : Modes, token : BOOLEAN]

Signed == [call : Call, sig : Nat]
NoCall == [call |-> [ip |-> Loopback, key |-> NoKey, bucket |-> NoBucket, src |-> NoBucket,
                     op |-> "local", writes |-> FALSE, sse |-> FALSE, mode |-> "ReadWrite", token |-> FALSE], sig |-> 0]

SessionEntry == [owner : Users, bucket : Buckets, mode : Modes, expires : Nat]
NoEntry == [owner |-> NoUser]

ProxyCtx == [user : Users \cup {NoUser}, secret : Nat, validated : BOOLEAN,
             worker : 0..MaxWorkers, slot : Ips \cup {Loopback}]
NewCtx == [user |-> NoUser, secret |-> 0, validated |-> FALSE, worker |-> 0,
           slot |-> Loopback]

WorkerCfg == [user : Users \cup {NoUser}, secret : Nat, grants : [Buckets -> Levels]]
NoGrants == [b \in Buckets |-> "none"]
NoCfg == [user |-> NoUser, secret |-> 0, grants |-> NoGrants]

ASSUME ConstantsAssumption ==
    /\ IsFiniteSet(Requests)
    /\ PerIp \in Nat /\ MaxActive \in Nat /\ SessionTtl \in Nat
    /\ MaxWorkers \in Nat /\ MaxChanges \in Nat /\ MaxTime \in Nat
    /\ Loopback \notin Ips /\ NoUser \notin Users /\ NoPort \notin Ports
    /\ NoKey \notin Users \cup Sids /\ NoBucket \notin Buckets
    /\ Users \cap Sids = {}
    /\ Calls \subseteq Call /\ InitGrants \in [Users -> [Buckets -> Levels]]

C(r) == call[r].call
SessionKey == 1            \* the secret of a session, for those who were told

Goto(r, p) == pc' = [pc EXCEPT ![r] = p]

\* A response is written; logging comes next.
Answer(r, code) == Goto(r, "log") /\ status' = [status EXCEPT ![r] = code]

-----------------------------------------------------------------------------
\* ConnectionLimiter.  The guard of entry() makes acquire one step.

Bypassed(ip) == ip = Loopback \/ PerIp = 0

\* One request too many.
Throttled_OffByOne(ip) == inflight[ip] > PerIp

Throttled(ip) == inflight[ip] >= PerIp

\* The slot is kept when the request has failed.
Release_SuccessOnly(r) ==
    inflight' = IF ctx[r].slot \in Ips /\ status[r] < 500
                THEN [inflight EXCEPT ![ctx[r].slot] = @ - 1] ELSE inflight

Release(r) ==
    inflight' = IF ctx[r].slot \in Ips
                THEN [inflight EXCEPT ![ctx[r].slot] = @ - 1] ELSE inflight

\* request_filter begins: acquire, or 429; the cleanup task is started.
Arrive(r, c, sig) ==
    /\ pc[r] = "unsent"
    /\ call' = [call EXCEPT ![r] = [call |-> c, sig |-> sig]]
    /\ started' = [started EXCEPT ![r] = now]
    /\ \/ /\ Bypassed(c.ip)
          /\ Goto(r, "classify") /\ cleanup' = TRUE
          /\ UNCHANGED <<inflight, ctx, status>>
       \/ /\ ~Bypassed(c.ip) /\ Throttled(c.ip)
          /\ Answer(r, 429) /\ UNCHANGED <<inflight, ctx, cleanup>>
       \/ /\ ~Bypassed(c.ip) /\ ~Throttled(c.ip)
          /\ inflight' = [inflight EXCEPT ![c.ip] = @ + 1]
          /\ ctx' = [ctx EXCEPT ![r].slot = c.ip]
          /\ Goto(r, "classify") /\ cleanup' = TRUE /\ UNCHANGED status
    /\ UNCHANGED <<active, minted, directoryVars, workerVars, snap, by, envVars>>

\* logging: runs however the request ended.
Logging(r) ==
    /\ pc[r] = "log"
    /\ Release(r)
    /\ ctx' = [ctx EXCEPT ![r].slot = Loopback]
    /\ Goto(r, "done")
    /\ UNCHANGED <<sessionVars, directoryVars, workerVars, call, status, started,
                   snap, by, envVars>>

-----------------------------------------------------------------------------
\* SessionStore.

\* The store relies on the cleanup task.
Expired_Never(s) == FALSE

Expired(s) == minted[s].expires <= now

\* The checks on a session credential before the directory is asked: token,
\* bucket of the path, and no write with a ReadOnly session.
InScope(r, s) ==
    /\ C(r).token
    /\ C(r).bucket = minted[s].bucket
    /\ ~(minted[s].mode = "ReadOnly" /\ C(r).writes)

\* lookup evicts an expired entry; the key is then taken for a long-term one.
Identify(r) ==
    LET k == C(r).key IN
    /\ pc[r] = "classify"
    /\ \/ /\ C(r).op = "unrouted"
          /\ Answer(r, 500) /\ UNCHANGED active
       \/ /\ C(r).op # "unrouted" /\ k = NoKey
          /\ Answer(r, 403) /\ UNCHANGED active
       \/ /\ C(r).op # "unrouted" /\ k \in active /\ ~Expired(k)
          /\ IF InScope(r, k) THEN Goto(r, "owner") /\ UNCHANGED status
             ELSE Answer(r, 403)
          /\ UNCHANGED active
       \/ /\ C(r).op # "unrouted" /\ k # NoKey /\ (k \in active => Expired(k))
          /\ active' = active \ {k}
          /\ Goto(r, "user") /\ UNCHANGED status
    /\ UNCHANGED <<limiterVars, minted, cleanup, directoryVars, workerVars, call,
                   started, ctx, snap, by, envVars>>

\* The owner of the session is looked up again; a removed one ends it.
LookupOwner(r) ==
    LET s == C(r).key
        u == minted[s].owner
    IN  /\ pc[r] = "owner"
        /\ \/ /\ users[u] = 0
              /\ active' = active \ {s}
              /\ Answer(r, 403) /\ UNCHANGED ctx
           \/ /\ users[u] # 0 /\ call[r].sig # SessionKey
              /\ Answer(r, 403) /\ UNCHANGED <<active, ctx>>
           \/ /\ users[u] # 0 /\ call[r].sig = SessionKey
              /\ ctx' = [ctx EXCEPT ![r].user = u, ![r].secret = users[u],
                                    ![r].validated = TRUE]
              /\ Goto(r, "route") /\ UNCHANGED <<active, status>>
        /\ UNCHANGED <<limiterVars, minted, cleanup, directoryVars, workerVars,
                       call, started, snap, by, envVars>>

Known(u) == u \in Users /\ users[u] # 0

\* A long-term key; an ephemeral one that is no longer in the store is unknown.
LookupUser(r) ==
    LET u == C(r).key IN
    /\ pc[r] = "user"
    /\ \/ /\ ~Known(u)
          /\ Answer(r, 403) /\ UNCHANGED ctx
       \/ /\ Known(u)
          /\ ctx' = [ctx EXCEPT ![r].user = u, ![r].secret = users[u]]
          /\ Goto(r, "route") /\ UNCHANGED status
    /\ UNCHANGED <<limiterVars, sessionVars, directoryVars, workerVars, call,
                   started, snap, by, envVars>>

DirectoryError(r) ==
    /\ pc[r] \in {"owner", "user", "buckets"}
    /\ Answer(r, 500)
    /\ UNCHANGED <<limiterVars, sessionVars, directoryVars, workerVars, call,
                   started, ctx, snap, by, envVars>>

-----------------------------------------------------------------------------
\* The decision.

\* validate_sigv4_header_only_or_reject, skipped for a validated session.
Authentic(r) == ctx[r].validated \/ call[r].sig = ctx[r].secret

StoreFull == Cardinality(active) >= MaxActive

NamesBucket(r) == C(r).bucket # NoBucket

\* CreateSession: long-term credentials only, a bucket, room in the store; a
\* fresh random key.
CreateSession(r) ==
    /\ \/ /\ ctx[r].validated
          /\ Answer(r, 400) /\ UNCHANGED <<active, minted>>
       \/ /\ ~ctx[r].validated /\ ~Authentic(r)
          /\ Answer(r, 403) /\ UNCHANGED <<active, minted>>
       \/ /\ ~ctx[r].validated /\ Authentic(r) /\ ~NamesBucket(r)
          /\ Answer(r, 400) /\ UNCHANGED <<active, minted>>
       \/ /\ ~ctx[r].validated /\ Authentic(r) /\ NamesBucket(r) /\ StoreFull
          /\ Answer(r, 503) /\ UNCHANGED <<active, minted>>
       \/ /\ ~ctx[r].validated /\ Authentic(r) /\ NamesBucket(r) /\ ~StoreFull
          /\ \E s \in Sids :
               /\ minted[s] = NoEntry
               /\ active' = active \cup {s}
               /\ minted' = [minted EXCEPT ![s] =
                     [owner |-> ctx[r].user, bucket |-> C(r).bucket,
                      mode |-> C(r).mode, expires |-> now + SessionTtl]]
          /\ Answer(r, 200)
    /\ UNCHANGED <<cleanup>>

\* Server-side encryption is refused; NotImplemented and AwsCompat are answered
\* here after the signature check; Proxy goes on to get_running.
Route(r) ==
    /\ pc[r] = "route"
    /\ \/ /\ C(r).sse
          /\ Answer(r, 400) /\ UNCHANGED sessionVars
       \/ /\ ~C(r).sse /\ C(r).op = "local"
          /\ Answer(r, IF Authentic(r) THEN 501 ELSE 403) /\ UNCHANGED sessionVars
       \/ ~C(r).sse /\ C(r).op = "session" /\ CreateSession(r)
       \/ /\ ~C(r).sse /\ C(r).op = "proxy"
          /\ Goto(r, "running") /\ UNCHANGED <<status, sessionVars>>
    /\ UNCHANGED <<limiterVars, directoryVars, workerVars, call, started, ctx, snap,
                   by, envVars>>

-----------------------------------------------------------------------------
\* The worker.

Bound(w) == w # 0 /\ listener[portOf[w]] = w

\* A live worker is used without checking the signature (the gateway will);
\* a dead one is forgotten, and a spawn needs a valid signature.  A process
\* that is about to end, or has lost the race for its port, still looks alive.
GetRunning(r) ==
    LET u == ctx[r].user IN
    /\ pc[r] = "running"
    /\ \/ /\ handle[u] # 0
          /\ ctx' = [ctx EXCEPT ![r].worker = handle[u]]
          /\ Goto(r, "send") /\ UNCHANGED <<status, handle>>
       \/ /\ ~Bound(handle[u])
          /\ handle' = [handle EXCEPT ![u] = 0]
          /\ IF Authentic(r) THEN Goto(r, "buckets") /\ UNCHANGED status
             ELSE Answer(r, 403)
          /\ UNCHANGED ctx
    /\ UNCHANGED <<limiterVars, sessionVars, directoryVars, cfg, portOf, listener,
                   call, started, snap, by, envVars>>

LookupBuckets(r) ==
    /\ pc[r] = "buckets"
    /\ snap' = [snap EXCEPT ![r] = grants[ctx[r].user]]
    /\ Goto(r, "ensure")
    /\ UNCHANGED <<limiterVars, sessionVars, directoryVars, workerVars, call, status,
                   started, ctx, by, envVars>>

Starting(u) == \E q \in Requests : pc[q] = "bind" /\ ctx[q].user = u

\* ensure_running finds a worker that another request has started meanwhile.
EnsureFound(r) ==
    /\ pc[r] = "ensure" /\ handle[ctx[r].user] # 0
    /\ ctx' = [ctx EXCEPT ![r].worker = handle[ctx[r].user]]
    /\ Goto(r, "send")
    /\ UNCHANGED <<limiterVars, sessionVars, directoryVars, workerVars, call, status,
                   started, snap, by, envVars>>

\* pick_free_port closes the port again: it is free only at that moment.
SpawnPick(r) ==
    /\ pc[r] = "ensure" /\ handle[ctx[r].user] = 0 /\ ~Starting(ctx[r].user)
    /\ \E w \in Workers, p \in Ports :
         /\ portOf[w] = NoPort /\ \A v \in Workers : v < w => portOf[v] # NoPort
         /\ listener[p] = 0
         /\ portOf' = [portOf EXCEPT ![w] = p]
         /\ cfg' = [cfg EXCEPT ![w] = [user |-> ctx[r].user, secret |-> ctx[r].secret,
                                       grants |-> snap[r]]]
         /\ ctx' = [ctx EXCEPT ![r].worker = w]
    /\ Goto(r, "bind")
    /\ UNCHANGED <<limiterVars, sessionVars, directoryVars, handle, listener, call,
                   status, started, snap, by, envVars>>

\* The worker binds its port, unless another got there first; wait_until_ready
\* is content with whoever accepts the connection.
SpawnReady(r) ==
    LET w == ctx[r].worker IN
    /\ pc[r] = "bind"
    /\ listener' = [listener EXCEPT ![portOf[w]] = IF @ = 0 THEN w ELSE @]
    /\ handle' = [handle EXCEPT ![ctx[r].user] = w]
    /\ Goto(r, "send")
    /\ UNCHANGED <<limiterVars, sessionVars, directoryVars, cfg, portOf, call, status,
                   started, ctx, snap, by, envVars>>

\* Staging, the port, the process or its readiness fails.
SpawnFail(r) ==
    /\ \/ pc[r] = "bind"
       \/ pc[r] = "ensure" /\ handle[ctx[r].user] = 0 /\ ~Starting(ctx[r].user)
    /\ Answer(r, 503)
    /\ UNCHANGED <<limiterVars, sessionVars, directoryVars, workerVars, call, started,
                   ctx, snap, by, envVars>>

-----------------------------------------------------------------------------
\* The gateway that accepts the forwarded request.

\* X-S32P-Validated carries the token of the handle the proxy chose.
TokenMatches(r, g) == g = ctx[r].worker

\* Only the signature is compared, not the access key.
SigV4Ok_AnyKey(r, g) == call[r].sig = cfg[g].secret

SigV4Ok(r, g) == C(r).key = cfg[g].user /\ call[r].sig = cfg[g].secret

\* require_sigv4
Accepted(r, g) == IF ctx[r].validated THEN TokenMatches(r, g) ELSE SigV4Ok(r, g)

\* A bucket without a grant is not in the worker's staged root; a read-only one
\* refuses writes.  A request without a bucket needs no grant.
Level(g, b) == IF b = NoBucket THEN "rw" ELSE cfg[g].grants[b]

\* The buckets the request names are there: its own, and the source of a copy.
Found(r, g) == Level(g, C(r).bucket) # "none" /\ Level(g, C(r).src) # "none"
Permitted(r, g) == Found(r, g) /\ (C(r).writes => Level(g, C(r).bucket) = "rw")

\* upstream_peer, upstream_request_filter, and the gateway's handle: whoever
\* listens on the port answers.
Send(r) ==
    LET g == listener[portOf[ctx[r].worker]] IN
    /\ pc[r] = "send"
    /\ \/ g = 0 /\ Answer(r, 502) /\ UNCHANGED by
       \/ g # 0 /\ ~Accepted(r, g) /\ Answer(r, 403) /\ UNCHANGED by
       \/ /\ g # 0 /\ Accepted(r, g) /\ ~Permitted(r, g)
          /\ Answer(r, IF Found(r, g) THEN 403 ELSE 404) /\ UNCHANGED by
       \/ /\ g # 0 /\ Accepted(r, g) /\ Permitted(r, g)
          /\ by' = [by EXCEPT ![r] = g] /\ Answer(r, 200)
    /\ UNCHANGED <<limiterVars, sessionVars, directoryVars, workerVars, call, started,
                   ctx, snap, envVars>>

-----------------------------------------------------------------------------
\* The environment.

\* The cleanup task of the session store.
Cleanup ==
    /\ cleanup
    /\ \E s \in active : Expired(s)
    /\ active' = {s \in active : minted[s].expires > now}
    /\ UNCHANGED <<limiterVars, minted, cleanup, directoryVars, workerVars, call, pc,
                   status, started, ctx, snap, by, envVars>>

\* The manager forgets a worker: idle, retired or found dead.
Forget(u) ==
    /\ handle[u] # 0
    /\ handle' = [handle EXCEPT ![u] = 0]
    /\ UNCHANGED <<limiterVars, sessionVars, directoryVars, cfg, portOf, listener,
                   call, pc, status, started, ctx, snap, by, envVars>>

\* A worker process ends and its port is free again.
WorkerDies(p) ==
    /\ listener[p] # 0
    /\ listener' = [listener EXCEPT ![p] = 0]
    /\ UNCHANGED <<limiterVars, sessionVars, directoryVars, handle, cfg, portOf,
                   call, pc, status, started, ctx, snap, by, envVars>>

\* An administrator removes a user, gives it a new secret, or changes a grant.
ChangeUser(u) ==
    /\ changes < MaxChanges /\ changes' = changes + 1
    /\ \/ users[u] # 0 /\ users' = [users EXCEPT ![u] = 0] /\ UNCHANGED issued
       \/ /\ users' = [users EXCEPT ![u] = issued[u] + 1]
          /\ issued' = [issued EXCEPT ![u] = @ + 1]
    /\ UNCHANGED <<limiterVars, sessionVars, grants, workerVars, call, pc, status,
                   started, ctx, snap, by, now>>

ChangeGrant(u, b, l) ==
    /\ changes < MaxChanges /\ changes' = changes + 1
    /\ l # grants[u][b]
    /\ grants' = [grants EXCEPT ![u][b] = l]
    /\ UNCHANGED <<limiterVars, sessionVars, users, issued, workerVars, call, pc,
                   status, started, ctx, snap, by, now>>

Tick ==
    /\ now < MaxTime /\ now' = now + 1
    /\ UNCHANGED <<limiterVars, sessionVars, directoryVars, workerVars, call, pc,
                   status, started, ctx, snap, by, changes>>

-----------------------------------------------------------------------------
Init ==
    /\ inflight = [ip \in Ips |-> 0]
    /\ active = {} /\ minted = [s \in Sids |-> NoEntry] /\ cleanup = FALSE
    /\ users = [u \in Users |-> 1] /\ issued = [u \in Users |-> 1]
    /\ grants = InitGrants
    /\ handle = [u \in Users |-> 0] /\ cfg = [w \in Workers |-> NoCfg]
    /\ portOf = [w \in Workers |-> NoPort] /\ listener = [p \in Ports |-> 0]
    /\ call = [r \in Requests |-> NoCall]
    /\ pc = [r \in Requests |-> "unsent"] /\ status = [r \in Requests |-> 0]
    /\ started = [r \in Requests |-> 0] /\ ctx = [r \in Requests |-> NewCtx]
    /\ snap = [r \in Requests |-> NoGrants] /\ by = [r \in Requests |-> 0]
    /\ now = 0 /\ changes = 0

\* What a client can sign with: nothing valid, a session's secret, or a
\* secret that its user has or had.
Secrets(c) == {0} \cup (IF c.key \in Users THEN 1..issued[c.key] ELSE {SessionKey})

Step(r) ==
    \/ Identify(r) \/ LookupOwner(r) \/ LookupUser(r) \/ DirectoryError(r)
    \/ Route(r) \/ GetRunning(r) \/ LookupBuckets(r) \/ EnsureFound(r)
    \/ SpawnPick(r) \/ SpawnReady(r) \/ SpawnFail(r) \/ Send(r) \/ Logging(r)

Environment ==
    \/ Cleanup \/ Tick
    \/ \E u \in Users : Forget(u) \/ ChangeUser(u)
    \/ \E u \in Users, b \in Buckets, l \in Levels : ChangeGrant(u, b, l)
    \/ \E p \in Ports : WorkerDies(p)

Next ==
    \/ \E r \in Requests :
         \/ \E c \in Calls : \E sig \in Secrets(c) : Arrive(r, c, sig)
         \/ Step(r)
    \/ Environment

Spec == Init /\ [][Next]_vars

-----------------------------------------------------------------------------
\* Properties.

PCs == {"unsent", "classify", "owner", "user", "route", "running", "buckets",
        "ensure", "bind", "send", "log", "done"}

SessionType ==
    /\ active \subseteq Sids /\ cleanup \in BOOLEAN
    /\ minted \in [Sids -> SessionEntry \cup {NoEntry}]
    /\ \A s \in active : minted[s] \in SessionEntry

DirectoryType ==
    /\ users \in [Users -> Nat] /\ issued \in [Users -> Nat]
    /\ grants \in [Users -> [Buckets -> Levels]]

WorkerType ==
    /\ handle \in [Users -> 0..MaxWorkers] /\ cfg \in [Workers -> WorkerCfg]
    /\ portOf \in [Workers -> Ports \cup {NoPort}]
    /\ listener \in [Ports -> 0..MaxWorkers]

RequestType ==
    /\ call \in [Requests -> Signed] /\ pc \in [Requests -> PCs]
    /\ status \in [Requests -> Nat] /\ started \in [Requests -> Nat]
    /\ ctx \in [Requests -> ProxyCtx] /\ snap \in [Requests -> [Buckets -> Levels]]
    /\ by \in [Requests -> 0..MaxWorkers]

\* Every variable stays within its type; the counters of the limiter never
\* go below zero.
TypeOK ==
    /\ inflight \in [Ips -> Nat]
    /\ SessionType /\ DirectoryType /\ WorkerType /\ RequestType
    /\ now \in Nat /\ changes \in 0..MaxChanges

Holders(ip) == {r \in Requests : ctx[r].slot = ip}

\* The limiter's counter is the number of requests inside that logging has
\* still to release, so no path through request_filter leaks a slot or
\* returns one twice.
SlotsExact ==
    /\ \A ip \in Ips : inflight[ip] = Cardinality(Holders(ip))
    /\ \A r \in Requests : pc[r] \in {"unsent", "done"} => ctx[r].slot = Loopback

\* The same, and the cap holds.
SlotsAccounted ==
    /\ \A ip \in Ips : inflight[ip] = Cardinality(Holders(ip)) /\ inflight[ip] <= PerIp
    /\ \A r \in Requests : pc[r] \in {"unsent", "done"} => ctx[r].slot = Loopback

\* The user a credential belongs to.
Identity(r) == IF C(r).key \in Sids THEN minted[C(r).key].owner ELSE C(r).key

\* Only a worker of the user whose credential signed the request performs it,
\* whichever workers have come and gone on its port since it was routed.
PerformedAsOwner ==
    \A r \in Requests : by[r] # 0 =>
        /\ Identity(r) = cfg[by[r]].user
        /\ C(r).key \in Users => call[r].sig = cfg[by[r]].secret

\* What a session credential performs is addressed to the bucket of the session,
\* signed with its secret and no write under ReadOnly, and the session had not
\* expired when the request arrived, whatever happened to the store, the user
\* and the workers while the request waited.  The source of a copy is another
\* matter (SessionStaysInBucket).
SessionScope ==
    \A r \in Requests : by[r] # 0 /\ C(r).key \in Sids =>
        LET e == minted[C(r).key] IN
        /\ e # NoEntry /\ call[r].sig = SessionKey
        /\ C(r).bucket = e.bucket
        /\ e.mode = "ReadOnly" => ~C(r).writes
        /\ started[r] < e.expires

\* A session reaches no other bucket: request_filter's "a session minted for
\* bucket A must not be accepted on bucket B".  The bucket it compares is the
\* one of the path; the gateway takes a second one from x-amz-copy-source,
\* so the code does not keep this.
SessionStaysInBucket ==
    \A r \in Requests : by[r] # 0 /\ C(r).key \in Sids =>
        {C(r).bucket, C(r).src} \subseteq {minted[C(r).key].bucket, NoBucket}

\* The session store stays within max_active.
SessionsCapped == Cardinality(active) <= MaxActive

\* The limiter implements the abstract admission control.
AdmissionControl == INSTANCE Admission WITH
    admitted <- [ip \in Ips |-> Holders(ip)]
Admitted == AdmissionControl!AdmissionSpec

=============================================================================
