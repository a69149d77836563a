------------------------ MODULE RequestFilterProofs ------------------------
(***************************************************************************)
(* The limiter, the session store and the chain from a credential to the   *)
(* worker that performs a request, for any number of requests, users,      *)
(* sessions, workers and ports.                                            *)
(*                                                                         *)
(* PerformedAsOwner and SessionScope are about the end of a request; what  *)
(* they rest on is established earlier and has to survive every await:     *)
(* HandlersOK says what a handler has checked by the time it is where it   *)
(* is, and WorkersPlaced that a worker belongs to the user it is filed     *)
(* under and keeps what it was started with.                               *)
(***************************************************************************)
EXTENDS RequestFilter, FiniteSetTheorems, TLAPS

\* A worker that is filed, listens or has performed a request was started,
\* for the user it is filed under.
WorkersPlaced ==
    /\ \A w \in Workers : portOf[w] # NoPort => cfg[w].user \in Users
    /\ \A u \in Users : handle[u] # 0 => portOf[handle[u]] # NoPort /\ cfg[handle[u]].user = u
    /\ \A p \in Ports : listener[p] # 0 => portOf[listener[p]] # NoPort
    /\ \A r \in Requests : by[r] # 0 => portOf[by[r]] # NoPort

\* The request is within the session it names.
Scoped(r) ==
    LET e == minted[C(r).key] IN
    /\ C(r).key \in Sids /\ e # NoEntry
    /\ C(r).bucket = e.bucket
    /\ e.mode = "ReadOnly" => ~C(r).writes
    /\ started[r] < e.expires

RoutedPCs == {"route", "running", "buckets", "ensure", "bind", "send"}

\* What a handler has established.
HandlerOK(r) ==
    /\ started[r] <= now
    /\ pc[r] \in {"unsent", "classify", "owner", "user"} => ~ctx[r].validated /\ by[r] = 0
    /\ pc[r] = "owner" => Scoped(r)
    /\ ctx[r].validated =>
         Scoped(r) /\ call[r].sig = SessionKey /\ minted[C(r).key].owner = ctx[r].user
    /\ pc[r] \in RoutedPCs => ctx[r].user \in Users
    /\ pc[r] \in {"bind", "send"} =>
         /\ ctx[r].worker # 0 /\ portOf[ctx[r].worker] # NoPort
         /\ cfg[ctx[r].worker].user = ctx[r].user

HandlersOK == \A r \in Requests : HandlerOK(r)

\* What is known of a request that a worker has performed.
PerformedOK(r) == by[r] # 0 =>
    IF C(r).key \in Sids
    THEN Scoped(r) /\ call[r].sig = SessionKey /\ minted[C(r).key].owner = cfg[by[r]].user
    ELSE C(r).key = cfg[by[r]].user /\ call[r].sig = cfg[by[r]].secret

AllPerformedOK == \A r \in Requests : PerformedOK(r)

\* The inductive invariant.
IInv ==
    /\ TypeOK /\ WorkersPlaced /\ HandlersOK /\ AllPerformedOK /\ SlotsAccounted
    /\ IsFiniteSet(active) /\ SessionsCapped

-----------------------------------------------------------------------------
\* Frames: what a step that leaves some of the state alone preserves.

\* Sessions keep their type.
LEMMA SessionFrame == ASSUME SessionType, UNCHANGED sessionVars PROVE SessionType'
BY DEF SessionType, sessionVars

\* The directory keeps its type.
LEMMA DirectoryFrame == ASSUME DirectoryType, UNCHANGED directoryVars PROVE DirectoryType'
BY DEF DirectoryType, directoryVars

\* Workers keep their type.
LEMMA WorkerFrame == ASSUME WorkerType, UNCHANGED workerVars PROVE WorkerType'
BY DEF WorkerType, workerVars

\* A step that moves no slot keeps the limiter's account.
LEMMA SlotsFrame ==
    ASSUME SlotsAccounted, UNCHANGED inflight,
           \A q \in Requests : ctx'[q].slot = ctx[q].slot,
           \A q \in Requests : pc'[q] \in {"unsent", "done"} => pc[q] \in {"unsent", "done"}
    PROVE  SlotsAccounted'
<1>1. \A ip \in Ips : Holders(ip)' = Holders(ip)
  BY DEF Holders
<1> QED BY <1>1 DEF SlotsAccounted

\* What is known of performed requests survives a step that changes none of
\* what they name; a new session has a new key.
LEMMA PerformedFrame ==
    ASSUME AllPerformedOK, UNCHANGED <<by, call, started, cfg>>,
           \A s \in Sids : minted[s] # NoEntry => minted'[s] = minted[s]
    PROVE  AllPerformedOK'
<1>1. ASSUME NEW r \in Requests PROVE PerformedOK(r)'
  BY <1>1 DEF AllPerformedOK, PerformedOK, Scoped, C
<1> QED BY <1>1 DEF AllPerformedOK


\* A minted session is no absent one.
LEMMA EntryPresent == \A e \in SessionEntry : e # NoEntry /\ e.owner \in Users /\ e.expires \in Nat
BY ConstantsAssumption DEF SessionEntry, NoEntry

\* Dropping sessions keeps the store within its cap.
LEMMA ActiveShrinks ==
    ASSUME IsFiniteSet(active), SessionsCapped, active' \subseteq active
    PROVE  IsFiniteSet(active)' /\ SessionsCapped'
<1>1. IsFiniteSet(active') /\ Cardinality(active') <= Cardinality(active)
  BY FS_Subset
<1>2. Cardinality(active) \in Nat /\ Cardinality(active') \in Nat
  BY <1>1, FS_CardinalityType
<1> QED BY <1>1, <1>2, ConstantsAssumption DEF SessionsCapped

\* A handler that has taken no further worker keeps what it has established,
\* while its user, worker and validation stay and workers are not taken away.
LEMMA HandlerFrame ==
    ASSUME NEW q \in Requests, HandlerOK(q), TypeOK, UNCHANGED <<started, now, call, minted, cfg, portOf>>,
           by'[q] = by[q], ctx'[q] = ctx[q],
           pc'[q] = pc[q] \/ pc'[q] \in {"log", "done"}
             \/ (pc[q] \in RoutedPCs /\ pc'[q] \in {"running", "buckets", "ensure"})
             \/ (pc[q] = "bind" /\ pc'[q] = "send")
    PROVE  HandlerOK(q)'
BY DEF HandlerOK, Scoped, RoutedPCs, C

\* A request that takes a slot joins the holders of its address only.
LEMMA TakeSlot ==
    ASSUME TypeOK, NEW r \in Requests, NEW ip \in Ips, ctx[r].slot = Loopback,
           ctx' = [ctx EXCEPT ![r].slot = ip]
    PROVE  /\ r \notin Holders(ip) /\ Holders(ip)' = Holders(ip) \cup {r}
           /\ \A i \in Ips : r \notin Holders(i) /\ (i # ip => Holders(i)' = Holders(i))
BY ConstantsAssumption DEF Holders, TypeOK, RequestType, ProxyCtx

\* A request that returns its slot leaves them.
LEMMA ReturnSlot ==
    ASSUME TypeOK, NEW r \in Requests, NEW ip \in Ips, ctx[r].slot = ip,
           ctx' = [ctx EXCEPT ![r].slot = Loopback]
    PROVE  /\ r \in Holders(ip) /\ Holders(ip)' = Holders(ip) \ {r}
           /\ \A i \in Ips : i # ip => Holders(i)' = Holders(i)
BY ConstantsAssumption DEF Holders, TypeOK, RequestType, ProxyCtx

\* There are finitely many holders.
LEMMA HoldersFinite == \A ip \in Ips : IsFiniteSet(Holders(ip)) /\ Cardinality(Holders(ip)) \in Nat
<1> SUFFICES ASSUME NEW ip \in Ips PROVE IsFiniteSet(Holders(ip)) /\ Cardinality(Holders(ip)) \in Nat
  OBVIOUS
<1>1. Holders(ip) \subseteq Requests
  BY DEF Holders
<1>2. IsFiniteSet(Holders(ip))
  BY <1>1, FS_Subset, ConstantsAssumption
<1> QED BY <1>2, FS_CardinalityType

-----------------------------------------------------------------------------
\* The steps of a request.

\* Identify finds a session that has not ended and checks its scope.
LEMMA IdentifyStep == ASSUME IInv, NEW r \in Requests, Identify(r) PROVE IInv'
<1> USE DEF IInv
<1>1. TypeOK'
  <2>1. SessionType'
    BY ConstantsAssumption DEF Identify, Goto, Answer, TypeOK, SessionType, SessionEntry
  <2>2. DirectoryType'
    BY DirectoryFrame DEF Identify, Goto, Answer, TypeOK, directoryVars
  <2>3. WorkerType'
    BY WorkerFrame DEF Identify, Goto, Answer, TypeOK, workerVars
  <2>4. RequestType'
    BY ConstantsAssumption, SMTT(60) DEF Identify, Goto, Answer, TypeOK, RequestType, PCs
  <2>5. inflight' \in [Ips -> Nat] /\ now' \in Nat /\ changes' \in 0..MaxChanges
    BY ConstantsAssumption DEF Identify, Goto, Answer, TypeOK, envVars, limiterVars
  <2> QED BY <2>1, <2>2, <2>3, <2>4, <2>5 DEF TypeOK
<1>2. WorkersPlaced'
  BY DEF Identify, Goto, Answer, WorkersPlaced, workerVars
<1>3. HandlersOK'
  <2> SUFFICES ASSUME NEW q \in Requests PROVE HandlerOK(q)' BY DEF HandlersOK
  <2>1. CASE q # r
    BY <2>1, HandlerFrame DEF Identify, Goto, Answer, TypeOK, RequestType, HandlersOK, workerVars, envVars
  <2>2. CASE q = r /\ pc'[r] # "owner"
    BY <2>2 DEF Identify, Goto, Answer, TypeOK, RequestType, HandlersOK, HandlerOK, Scoped, RoutedPCs, C, envVars
  <2>3. CASE q = r /\ pc'[r] = "owner"
    <3>1. C(r).key \in active /\ ~Expired(C(r).key) /\ InScope(r, C(r).key)
      BY <2>3 DEF Identify, Goto, Answer, TypeOK, RequestType
    <3>2. minted[C(r).key] \in SessionEntry /\ C(r).key \in Sids
      BY <3>1 DEF TypeOK, SessionType
    <3>3. started[r] < minted[C(r).key].expires
      BY <3>1, <3>2, EntryPresent DEF Expired, HandlersOK, HandlerOK, TypeOK, RequestType
    <3>4. Scoped(r)
      BY <3>1, <3>2, <3>3, EntryPresent DEF Scoped, InScope
    <3> QED BY <2>3, <3>4 DEF Identify, Goto, HandlersOK, HandlerOK, Scoped, RoutedPCs, C, envVars
  <2> QED BY <2>1, <2>2, <2>3
<1>4. AllPerformedOK'
  BY PerformedFrame DEF Identify, Goto, Answer, workerVars, sessionVars
<1>5. SlotsAccounted'
  BY SlotsFrame DEF Identify, Goto, Answer, limiterVars, TypeOK, RequestType
<1>6. IsFiniteSet(active)' /\ SessionsCapped'
  BY ActiveShrinks DEF Identify, Goto, Answer
<1> QED BY <1>1, <1>2, <1>3, <1>4, <1>5, <1>6

\* The owner of the session becomes the user of the request.
LEMMA LookupOwnerStep == ASSUME IInv, NEW r \in Requests, LookupOwner(r) PROVE IInv'
<1> USE DEF IInv
<1>0. /\ Scoped(r) /\ ~ctx[r].validated /\ by[r] = 0 /\ C(r).key \in Sids
      /\ minted[C(r).key] \in SessionEntry /\ minted[C(r).key].owner \in Users
      /\ users[minted[C(r).key].owner] \in Nat
  <2>1. Scoped(r) /\ ~ctx[r].validated /\ by[r] = 0
    BY DEF LookupOwner, HandlersOK, HandlerOK
  <2>2. minted[C(r).key] \in SessionEntry /\ C(r).key \in Sids
    BY <2>1 DEF Scoped, TypeOK, SessionType
  <2> QED BY <2>1, <2>2, EntryPresent DEF TypeOK, DirectoryType
<1>1. TypeOK'
  <2>1. SessionType'
    BY <1>0, ConstantsAssumption DEF LookupOwner, Goto, Answer, TypeOK, SessionType, SessionEntry
  <2>2. DirectoryType'
    BY DirectoryFrame DEF LookupOwner, Goto, Answer, TypeOK, directoryVars
  <2>3. WorkerType'
    BY WorkerFrame DEF LookupOwner, Goto, Answer, TypeOK, workerVars
  <2>4. RequestType'
    <3>1. ctx' \in [Requests -> ProxyCtx]
      <4>1. CASE UNCHANGED ctx
        BY <4>1 DEF TypeOK, RequestType
      <4>2. CASE ctx' = [ctx EXCEPT ![r].user = minted[C(r).key].owner,
                                    ![r].secret = users[minted[C(r).key].owner], ![r].validated = TRUE]
        BY <1>0, <4>2, SMTT(60) DEF TypeOK, RequestType, ProxyCtx
      <4> QED BY <4>1, <4>2 DEF LookupOwner
    <3>2. pc' \in [Requests -> PCs] /\ status' \in [Requests -> Nat]
      BY DEF LookupOwner, Goto, Answer, TypeOK, RequestType, PCs
    <3> QED BY <3>1, <3>2 DEF LookupOwner, TypeOK, RequestType
  <2>5. inflight' \in [Ips -> Nat] /\ now' \in Nat /\ changes' \in 0..MaxChanges
    BY ConstantsAssumption DEF LookupOwner, Goto, Answer, TypeOK, envVars, limiterVars
  <2> QED BY <2>1, <2>2, <2>3, <2>4, <2>5 DEF TypeOK
<1>2. WorkersPlaced'
  BY DEF LookupOwner, Goto, Answer, WorkersPlaced, workerVars
<1>3. HandlersOK'
  <2> SUFFICES ASSUME NEW q \in Requests PROVE HandlerOK(q)' BY DEF HandlersOK
  <2>1. CASE q # r
    BY <2>1, HandlerFrame DEF LookupOwner, Goto, Answer, TypeOK, RequestType, HandlersOK, workerVars, envVars
  <2>2. CASE q = r
    <3>1. Scoped(r)'
      BY <1>0 DEF LookupOwner, Scoped, C
    <3>2. CASE UNCHANGED ctx
      <4>1. pc'[r] = "log"
        BY <1>0, <3>2 DEF LookupOwner, Goto, Answer, TypeOK, RequestType, ProxyCtx
      <4> QED BY <1>0, <2>2, <3>1, <3>2, <4>1 DEF LookupOwner, HandlersOK, HandlerOK, RoutedPCs, envVars
    <3>3. CASE ctx' = [ctx EXCEPT ![r].user = minted[C(r).key].owner,
                                  ![r].secret = users[minted[C(r).key].owner], ![r].validated = TRUE]
      <4>1. pc'[r] = "route" /\ call[r].sig = SessionKey /\ UNCHANGED <<call, minted, started, now, by>>
        BY <1>0, <3>3 DEF LookupOwner, Goto, Answer, TypeOK, RequestType, ProxyCtx, envVars
      <4>2. ctx'[r].user = minted[C(r).key].owner
        BY <3>3 DEF TypeOK, RequestType, ProxyCtx
      <4> QED BY <1>0, <2>2, <3>1, <4>1, <4>2 DEF HandlersOK, HandlerOK, RoutedPCs, C
    <3> QED BY <3>2, <3>3, SMTT(60) DEF LookupOwner
  <2> QED BY <2>1, <2>2
<1>4. AllPerformedOK'
  BY PerformedFrame DEF LookupOwner, Goto, Answer, workerVars, sessionVars
<1>5. SlotsAccounted'
  <2>1. \A q \in Requests : ctx'[q].slot = ctx[q].slot
    BY DEF LookupOwner, Goto, Answer, TypeOK, RequestType, ProxyCtx
  <2> QED BY <2>1, SlotsFrame DEF LookupOwner, Goto, Answer, limiterVars, TypeOK, RequestType
<1>6. IsFiniteSet(active)' /\ SessionsCapped'
  BY ActiveShrinks DEF LookupOwner, Goto, Answer
<1> QED BY <1>1, <1>2, <1>3, <1>4, <1>5, <1>6

\* The access key itself names the user.
LEMMA LookupUserStep == ASSUME IInv, NEW r \in Requests, LookupUser(r) PROVE IInv'
<1> USE DEF IInv
<1>0. ~ctx[r].validated /\ (Known(C(r).key) => C(r).key \in Users /\ users[C(r).key] \in Nat)
  BY DEF LookupUser, HandlersOK, HandlerOK, Known, TypeOK, DirectoryType
<1>1. TypeOK'
  <2>1. SessionType'
    BY SessionFrame DEF LookupUser, Goto, Answer, TypeOK, sessionVars
  <2>2. DirectoryType'
    BY DirectoryFrame DEF LookupUser, Goto, Answer, TypeOK, directoryVars
  <2>3. WorkerType'
    BY WorkerFrame DEF LookupUser, Goto, Answer, TypeOK, workerVars
  <2>4. RequestType'
    <3>1. CASE ~Known(C(r).key)
      BY <3>1 DEF LookupUser, Goto, Answer, TypeOK, RequestType, PCs
    <3>2. CASE Known(C(r).key)
      <4>1. /\ ctx' = [ctx EXCEPT ![r].user = C(r).key, ![r].secret = users[C(r).key]]
            /\ C(r).key \in Users /\ users[C(r).key] \in Nat /\ ctx \in [Requests -> ProxyCtx]
        BY <1>0, <3>2 DEF LookupUser, TypeOK, RequestType
      <4>2. ctx' \in [Requests -> ProxyCtx]
        BY <4>1 DEF ProxyCtx
      <4> QED BY <3>2, <4>2 DEF LookupUser, Goto, TypeOK, RequestType, PCs
    <3> QED BY <3>1, <3>2
  <2>5. inflight' \in [Ips -> Nat] /\ now' \in Nat /\ changes' \in 0..MaxChanges
    BY ConstantsAssumption DEF LookupUser, Goto, Answer, TypeOK, envVars, limiterVars
  <2> QED BY <2>1, <2>2, <2>3, <2>4, <2>5 DEF TypeOK
<1>2. WorkersPlaced'
  BY DEF LookupUser, Goto, Answer, WorkersPlaced, workerVars
<1>3. HandlersOK'
  <2> SUFFICES ASSUME NEW q \in Requests PROVE HandlerOK(q)' BY DEF HandlersOK
  <2>1. CASE q # r
    BY <2>1, HandlerFrame DEF LookupUser, Goto, Answer, TypeOK, RequestType, HandlersOK, sessionVars, workerVars, envVars
  <2>2. CASE q = r
    <3>1. ~ctx'[r].validated /\ (pc'[r] \in RoutedPCs => pc'[r] = "route" /\ ctx'[r].user \in Users)
      BY <1>0 DEF LookupUser, Goto, Answer, TypeOK, RequestType, ProxyCtx, RoutedPCs
    <3>2. pc'[r] \in {"log", "route"}
      BY DEF LookupUser, Goto, Answer, TypeOK, RequestType
    <3> QED BY <2>2, <3>1, <3>2 DEF LookupUser, HandlersOK, HandlerOK, RoutedPCs, envVars
  <2> QED BY <2>1, <2>2
<1>4. AllPerformedOK'
  BY PerformedFrame DEF LookupUser, Goto, Answer, workerVars, sessionVars
<1>5. SlotsAccounted'
  <2>1. \A q \in Requests : ctx'[q].slot = ctx[q].slot
    <3>1. CASE ~Known(C(r).key)
      BY <3>1 DEF LookupUser
    <3>2. CASE Known(C(r).key)
      BY <3>2 DEF LookupUser, TypeOK, RequestType, ProxyCtx
    <3> QED BY <3>1, <3>2
  <2> QED BY <2>1, SlotsFrame DEF LookupUser, Goto, Answer, limiterVars, TypeOK, RequestType
<1>6. IsFiniteSet(active)' /\ SessionsCapped'
  BY DEF LookupUser, Goto, Answer, sessionVars, SessionsCapped
<1> QED BY <1>1, <1>2, <1>3, <1>4, <1>5, <1>6

\* A failed lookup ends the request.
LEMMA DirectoryErrorStep == ASSUME IInv, NEW r \in Requests, DirectoryError(r) PROVE IInv'
<1> USE DEF IInv
<1>1. TypeOK'
  <2>1. SessionType'
    BY SessionFrame DEF DirectoryError, Goto, Answer, TypeOK, sessionVars
  <2>2. DirectoryType'
    BY DirectoryFrame DEF DirectoryError, Goto, Answer, TypeOK, directoryVars
  <2>3. WorkerType'
    BY WorkerFrame DEF DirectoryError, Goto, Answer, TypeOK, workerVars
  <2>4. RequestType'
    BY ConstantsAssumption DEF DirectoryError, Goto, Answer, TypeOK, RequestType, PCs
  <2>5. inflight' \in [Ips -> Nat] /\ now' \in Nat /\ changes' \in 0..MaxChanges
    BY ConstantsAssumption DEF DirectoryError, Goto, Answer, TypeOK, envVars, limiterVars
  <2> QED BY <2>1, <2>2, <2>3, <2>4, <2>5 DEF TypeOK
<1>2. WorkersPlaced'
  BY DEF DirectoryError, Goto, Answer, WorkersPlaced, workerVars
<1>3. HandlersOK'
  <2> SUFFICES ASSUME NEW q \in Requests PROVE HandlerOK(q)' BY DEF HandlersOK
  <2> QED BY HandlerFrame DEF DirectoryError, Goto, Answer, TypeOK, RequestType, HandlersOK, RoutedPCs, workerVars, envVars, sessionVars
<1>4. AllPerformedOK'
  BY PerformedFrame DEF DirectoryError, Goto, Answer, workerVars, sessionVars
<1>5. SlotsAccounted'
  BY SlotsFrame DEF DirectoryError, Goto, Answer, limiterVars, TypeOK, RequestType
<1>6. IsFiniteSet(active)' /\ SessionsCapped'
  BY DEF DirectoryError, Goto, Answer, sessionVars, SessionsCapped
<1> QED BY <1>1, <1>2, <1>3, <1>4, <1>5, <1>6

\* The snapshot of the grants is taken.
LEMMA LookupBucketsStep == ASSUME IInv, NEW r \in Requests, LookupBuckets(r) PROVE IInv'
<1> USE DEF IInv
<1>1. TypeOK'
  <2>1. SessionType'
    BY SessionFrame DEF LookupBuckets, Goto, Answer, TypeOK, sessionVars
  <2>2. DirectoryType'
    BY DirectoryFrame DEF LookupBuckets, Goto, Answer, TypeOK, directoryVars
  <2>3. WorkerType'
    BY WorkerFrame DEF LookupBuckets, Goto, Answer, TypeOK, workerVars
  <2>4. RequestType'
    <3>1. ctx[r].user \in Users
      BY DEF LookupBuckets, HandlersOK, HandlerOK, RoutedPCs
    <3>2. grants[ctx[r].user] \in [Buckets -> Levels]
      BY <3>1 DEF TypeOK, DirectoryType
    <3> QED BY <3>2 DEF LookupBuckets, Goto, TypeOK, RequestType, PCs
  <2>5. inflight' \in [Ips -> Nat] /\ now' \in Nat /\ changes' \in 0..MaxChanges
    BY ConstantsAssumption DEF LookupBuckets, Goto, Answer, TypeOK, envVars, limiterVars
  <2> QED BY <2>1, <2>2, <2>3, <2>4, <2>5 DEF TypeOK
<1>2. WorkersPlaced'
  BY DEF LookupBuckets, Goto, Answer, WorkersPlaced, workerVars
<1>3. HandlersOK'
  <2> SUFFICES ASSUME NEW q \in Requests PROVE HandlerOK(q)' BY DEF HandlersOK
  <2> QED BY HandlerFrame DEF LookupBuckets, Goto, Answer, TypeOK, RequestType, HandlersOK, RoutedPCs, workerVars, envVars, sessionVars
<1>4. AllPerformedOK'
  BY PerformedFrame DEF LookupBuckets, Goto, Answer, workerVars, sessionVars
<1>5. SlotsAccounted'
  BY SlotsFrame DEF LookupBuckets, Goto, Answer, limiterVars, TypeOK, RequestType
<1>6. IsFiniteSet(active)' /\ SessionsCapped'
  BY DEF LookupBuckets, Goto, Answer, sessionVars, SessionsCapped
<1> QED BY <1>1, <1>2, <1>3, <1>4, <1>5, <1>6

\* A failed spawn ends the request.
LEMMA SpawnFailStep == ASSUME IInv, NEW r \in Requests, SpawnFail(r) PROVE IInv'
<1> USE DEF IInv
<1>1. TypeOK'
  <2>1. SessionType'
    BY SessionFrame DEF SpawnFail, Goto, Answer, TypeOK, sessionVars
  <2>2. DirectoryType'
    BY DirectoryFrame DEF SpawnFail, Goto, Answer, TypeOK, directoryVars
  <2>3. WorkerType'
    BY WorkerFrame DEF SpawnFail, Goto, Answer, TypeOK, workerVars
  <2>4. RequestType'
    BY ConstantsAssumption DEF SpawnFail, Goto, Answer, TypeOK, RequestType, PCs
  <2>5. inflight' \in [Ips -> Nat] /\ now' \in Nat /\ changes' \in 0..MaxChanges
    BY ConstantsAssumption DEF SpawnFail, Goto, Answer, TypeOK, envVars, limiterVars
  <2> QED BY <2>1, <2>2, <2>3, <2>4, <2>5 DEF TypeOK
<1>2. WorkersPlaced'
  BY DEF SpawnFail, Goto, Answer, WorkersPlaced, workerVars
<1>3. HandlersOK'
  <2> SUFFICES ASSUME NEW q \in Requests PROVE HandlerOK(q)' BY DEF HandlersOK
  <2> QED BY HandlerFrame DEF SpawnFail, Goto, Answer, TypeOK, RequestType, HandlersOK, RoutedPCs, workerVars, envVars, sessionVars
<1>4. AllPerformedOK'
  BY PerformedFrame DEF SpawnFail, Goto, Answer, workerVars, sessionVars
<1>5. SlotsAccounted'
  BY SlotsFrame DEF SpawnFail, Goto, Answer, limiterVars, TypeOK, RequestType
<1>6. IsFiniteSet(active)' /\ SessionsCapped'
  BY DEF SpawnFail, Goto, Answer, sessionVars, SessionsCapped
<1> QED BY <1>1, <1>2, <1>3, <1>4, <1>5, <1>6

\* A filed worker belongs to the user.
LEMMA GetRunningStep == ASSUME IInv, NEW r \in Requests, GetRunning(r) PROVE IInv'
<1> USE DEF IInv
<1>0. /\ ctx[r].user \in Users /\ handle[ctx[r].user] \in 0..MaxWorkers
      /\ handle[ctx[r].user] # 0 => /\ portOf[handle[ctx[r].user]] # NoPort
                                    /\ cfg[handle[ctx[r].user]].user = ctx[r].user
  BY DEF GetRunning, HandlersOK, HandlerOK, RoutedPCs, TypeOK, WorkerType, WorkersPlaced
<1>1. TypeOK'
  <2>1. SessionType'
    BY SessionFrame DEF GetRunning, Goto, Answer, TypeOK, sessionVars
  <2>2. DirectoryType'
    BY DirectoryFrame DEF GetRunning, Goto, Answer, TypeOK, directoryVars
  <2>3. WorkerType'
    <3>1. handle' \in [Users -> 0..MaxWorkers]
      BY ConstantsAssumption DEF GetRunning, TypeOK, WorkerType
    <3> QED BY <3>1 DEF GetRunning, TypeOK, WorkerType
  <2>4. RequestType'
    <3>1. ctx' \in [Requests -> ProxyCtx]
      <4>1. CASE UNCHANGED ctx
        BY <4>1 DEF TypeOK, RequestType
      <4>2. CASE ctx' = [ctx EXCEPT ![r].worker = handle[ctx[r].user]]
        BY <1>0, <4>2, ZenonT(60) DEF TypeOK, RequestType, ProxyCtx
      <4> QED BY <4>1, <4>2 DEF GetRunning
    <3>2. pc' \in [Requests -> PCs]
      BY SMTT(60) DEF GetRunning, Goto, Answer, TypeOK, RequestType, PCs
    <3>3. status' \in [Requests -> Nat]
      BY DEF GetRunning, Answer, TypeOK, RequestType
    <3> QED BY <3>1, <3>2, <3>3 DEF GetRunning, TypeOK, RequestType
  <2>5. inflight' \in [Ips -> Nat] /\ now' \in Nat /\ changes' \in 0..MaxChanges
    BY ConstantsAssumption DEF GetRunning, Goto, Answer, TypeOK, envVars, limiterVars
  <2> QED BY <2>1, <2>2, <2>3, <2>4, <2>5 DEF TypeOK
<1>2. WorkersPlaced'
  <2>1. \A u \in Users : handle'[u] = handle[u] \/ handle'[u] = 0
    BY ConstantsAssumption DEF GetRunning, TypeOK, WorkerType
  <2> QED BY <2>1 DEF GetRunning, WorkersPlaced
<1>3. HandlersOK'
  <2> SUFFICES ASSUME NEW q \in Requests PROVE HandlerOK(q)' BY DEF HandlersOK
  <2>1. CASE q # r
    BY <2>1, HandlerFrame DEF GetRunning, Goto, Answer, TypeOK, RequestType, HandlersOK, sessionVars, envVars
  <2>2. CASE q = r /\ UNCHANGED ctx /\ pc'[r] \in {"buckets", "log"}
    <3>1. pc[r] = "running" /\ UNCHANGED <<started, now, call, minted, cfg, portOf, by>>
      BY DEF GetRunning, sessionVars, envVars
    <3> QED BY <2>2, <3>1, HandlerFrame DEF HandlersOK, RoutedPCs
  <2>3. CASE /\ q = r /\ handle[ctx[r].user] # 0 /\ pc'[r] = "send"
             /\ ctx' = [ctx EXCEPT ![r].worker = handle[ctx[r].user]]
    <3>1. /\ ctx'[r].worker = handle[ctx[r].user] /\ ctx'[r].user = ctx[r].user
          /\ ctx'[r].validated = ctx[r].validated
      BY <2>3 DEF TypeOK, RequestType, ProxyCtx
    <3> QED BY <1>0, <2>3, <3>1
            DEF GetRunning, HandlersOK, HandlerOK, Scoped, C, RoutedPCs, sessionVars, envVars
  <2> QED BY <2>1, <2>2, <2>3 DEF GetRunning, Goto, Answer, TypeOK, RequestType
<1>4. AllPerformedOK'
  BY PerformedFrame DEF GetRunning, Goto, Answer, workerVars, sessionVars
<1>5. SlotsAccounted'
  <2>1. \A q \in Requests : ctx'[q].slot = ctx[q].slot
    BY DEF GetRunning, Goto, Answer, TypeOK, RequestType, ProxyCtx
  <2> QED BY <2>1, SlotsFrame DEF GetRunning, Goto, Answer, limiterVars, TypeOK, RequestType
<1>6. IsFiniteSet(active)' /\ SessionsCapped'
  BY DEF GetRunning, Goto, Answer, sessionVars, SessionsCapped
<1> QED BY <1>1, <1>2, <1>3, <1>4, <1>5, <1>6

\* So does a worker started meanwhile.
LEMMA EnsureFoundStep == ASSUME IInv, NEW r \in Requests, EnsureFound(r) PROVE IInv'
<1> USE DEF IInv
<1>0. /\ ctx[r].user \in Users /\ handle[ctx[r].user] \in 0..MaxWorkers /\ handle[ctx[r].user] # 0
      /\ portOf[handle[ctx[r].user]] # NoPort /\ cfg[handle[ctx[r].user]].user = ctx[r].user
  BY DEF EnsureFound, HandlersOK, HandlerOK, RoutedPCs, TypeOK, WorkerType, WorkersPlaced
<1>1. TypeOK'
  <2>1. SessionType'
    BY SessionFrame DEF EnsureFound, Goto, Answer, TypeOK, sessionVars
  <2>2. DirectoryType'
    BY DirectoryFrame DEF EnsureFound, Goto, Answer, TypeOK, directoryVars
  <2>3. WorkerType'
    BY WorkerFrame DEF EnsureFound, Goto, Answer, TypeOK, workerVars
  <2>4. RequestType'
    <3>1. ctx' \in [Requests -> ProxyCtx]
      BY <1>0, ConstantsAssumption, ZenonT(60) DEF EnsureFound, Goto, Answer, TypeOK, RequestType, ProxyCtx, Workers
    <3>2. pc' \in [Requests -> PCs] /\ status' \in [Requests -> Nat]
      BY DEF EnsureFound, Goto, Answer, TypeOK, RequestType, PCs
    <3> QED BY <3>1, <3>2 DEF EnsureFound, Goto, Answer, TypeOK, RequestType
  <2>5. inflight' \in [Ips -> Nat] /\ now' \in Nat /\ changes' \in 0..MaxChanges
    BY ConstantsAssumption DEF EnsureFound, Goto, Answer, TypeOK, envVars, limiterVars
  <2> QED BY <2>1, <2>2, <2>3, <2>4, <2>5 DEF TypeOK
<1>2. WorkersPlaced'
  BY DEF EnsureFound, Goto, Answer, WorkersPlaced, workerVars
<1>3. HandlersOK'
  <2> SUFFICES ASSUME NEW q \in Requests PROVE HandlerOK(q)' BY DEF HandlersOK
  <2>1. UNCHANGED <<started, now, call, minted, cfg, portOf, by>> /\ pc[r] = "ensure"
    BY DEF EnsureFound, sessionVars, workerVars, envVars
  <2>2. CASE q # r
    BY <2>1, <2>2, HandlerFrame DEF EnsureFound, Goto, TypeOK, RequestType, HandlersOK
  <2>3. CASE q = r
    <3>1. /\ ctx'[r].worker = handle[ctx[r].user] /\ ctx'[r].user = ctx[r].user
          /\ ctx'[r].validated = ctx[r].validated /\ pc'[r] = "send"
      BY DEF EnsureFound, Goto, TypeOK, RequestType, ProxyCtx
    <3> QED BY <1>0, <2>1, <2>3, <3>1 DEF HandlersOK, HandlerOK, RoutedPCs, Scoped, C
  <2> QED BY <2>2, <2>3
<1>4. AllPerformedOK'
  BY PerformedFrame DEF EnsureFound, Goto, Answer, workerVars, sessionVars
<1>5. SlotsAccounted'
  <2>1. \A q \in Requests : ctx'[q].slot = ctx[q].slot
    BY DEF EnsureFound, Goto, Answer, TypeOK, RequestType, ProxyCtx
  <2> QED BY <2>1, SlotsFrame DEF EnsureFound, Goto, Answer, limiterVars, TypeOK, RequestType
<1>6. IsFiniteSet(active)' /\ SessionsCapped'
  BY DEF EnsureFound, Goto, Answer, sessionVars, SessionsCapped
<1> QED BY <1>1, <1>2, <1>3, <1>4, <1>5, <1>6

\* A new worker is nobody's yet.
LEMMA SpawnPickStep == ASSUME IInv, NEW r \in Requests, SpawnPick(r) PROVE IInv'
<1> USE DEF IInv
<1> PICK w \in Workers, p \in Ports :
       /\ portOf[w] = NoPort
       /\ portOf' = [portOf EXCEPT ![w] = p]
       /\ cfg' = [cfg EXCEPT ![w] = [user |-> ctx[r].user, secret |-> ctx[r].secret, grants |-> snap[r]]]
       /\ ctx' = [ctx EXCEPT ![r].worker = w]
  BY DEF SpawnPick
<1>0. /\ ctx[r].user \in Users /\ ctx[r].secret \in Nat /\ snap[r] \in [Buckets -> Levels]
      /\ p # NoPort /\ w # 0 /\ w \in 0..MaxWorkers /\ pc[r] = "ensure" /\ Goto(r, "bind")
      /\ UNCHANGED <<limiterVars, sessionVars, directoryVars, handle, listener, call,
                     status, started, snap, by, envVars>>
  BY ConstantsAssumption DEF SpawnPick, HandlersOK, HandlerOK, RoutedPCs, TypeOK, RequestType, ProxyCtx, Workers
<1>1. TypeOK'
  <2>1. SessionType'
    BY SessionFrame DEF SpawnPick, Goto, Answer, TypeOK, sessionVars
  <2>2. DirectoryType'
    BY DirectoryFrame DEF SpawnPick, Goto, Answer, TypeOK, directoryVars
  <2>3. WorkerType'
    <3>1. cfg' \in [Workers -> WorkerCfg] /\ portOf' \in [Workers -> Ports \cup {NoPort}]
      BY <1>0 DEF TypeOK, WorkerType, WorkerCfg
    <3> QED BY <1>0, <3>1 DEF TypeOK, WorkerType
  <2>4. RequestType'
    <3>1. ctx' \in [Requests -> ProxyCtx]
      BY <1>0, ZenonT(60) DEF TypeOK, RequestType, ProxyCtx
    <3> QED BY <1>0, <3>1 DEF Goto, TypeOK, RequestType, PCs
  <2>5. inflight' \in [Ips -> Nat] /\ now' \in Nat /\ changes' \in 0..MaxChanges
    BY ConstantsAssumption DEF SpawnPick, Goto, Answer, TypeOK, envVars, limiterVars
  <2> QED BY <2>1, <2>2, <2>3, <2>4, <2>5 DEF TypeOK
<1>2. WorkersPlaced'
  BY <1>0, ConstantsAssumption, SMTT(60) DEF SpawnPick, Goto, Answer, TypeOK, WorkerType, RequestType, ProxyCtx, Workers, WorkersPlaced, HandlersOK, HandlerOK, RoutedPCs, workerVars
<1>3. HandlersOK'
  <2> SUFFICES ASSUME NEW q \in Requests PROVE HandlerOK(q)' BY DEF HandlersOK
  <2>1. UNCHANGED <<started, now, call, minted, by>>
    BY <1>0 DEF sessionVars, envVars
  <2>2. CASE q # r
    <3>1. pc'[q] = pc[q] /\ ctx'[q] = ctx[q] /\ HandlerOK(q) /\ ctx[q].worker \in 0..MaxWorkers
      BY <1>0, <2>2 DEF Goto, TypeOK, RequestType, ProxyCtx, HandlersOK
    <3>2. \A v \in Workers : v # w => portOf'[v] = portOf[v] /\ cfg'[v] = cfg[v]
      BY DEF TypeOK, WorkerType
    <3>3. pc[q] \in {"bind", "send"} => ctx[q].worker \in Workers /\ ctx[q].worker # w
      BY <3>1, ConstantsAssumption DEF HandlerOK, Workers
    <3> QED BY <2>1, <3>1, <3>2, <3>3 DEF HandlerOK, Scoped, C
  <2>3. CASE q = r
    <3>1. /\ ctx'[r].worker = w /\ ctx'[r].user = ctx[r].user
          /\ ctx'[r].validated = ctx[r].validated /\ pc'[r] = "bind"
      BY <1>0 DEF Goto, TypeOK, RequestType, ProxyCtx
    <3>2. portOf'[w] = p /\ cfg'[w].user = ctx[r].user
      BY DEF TypeOK, WorkerType
    <3> QED BY <1>0, <2>1, <2>3, <3>1, <3>2 DEF HandlersOK, HandlerOK, Scoped, C
  <2> QED BY <2>2, <2>3
<1>4. AllPerformedOK'
  <2> SUFFICES ASSUME NEW q \in Requests, by[q] # 0 PROVE PerformedOK(q)'
    BY <1>0 DEF AllPerformedOK, PerformedOK
  <2>1. by[q] \in Workers /\ by[q] # w
    BY DEF WorkersPlaced, TypeOK, RequestType, Workers
  <2>2. cfg'[by[q]] = cfg[by[q]]
    BY <2>1 DEF TypeOK, WorkerType
  <2> QED BY <1>0, <2>2 DEF AllPerformedOK, PerformedOK, Scoped, C, sessionVars
<1>5. SlotsAccounted'
  <2>1. \A q \in Requests : ctx'[q].slot = ctx[q].slot
    BY DEF SpawnPick, Goto, Answer, TypeOK, RequestType, ProxyCtx
  <2> QED BY <2>1, SlotsFrame DEF SpawnPick, Goto, Answer, limiterVars, TypeOK, RequestType
<1>6. IsFiniteSet(active)' /\ SessionsCapped'
  BY DEF SpawnPick, Goto, Answer, sessionVars, SessionsCapped
<1> QED BY <1>1, <1>2, <1>3, <1>4, <1>5, <1>6

\* The new worker is filed under its user.
LEMMA SpawnReadyStep == ASSUME IInv, NEW r \in Requests, SpawnReady(r) PROVE IInv'
<1> USE DEF IInv
<1>0. /\ ctx[r].user \in Users /\ ctx[r].worker \in Workers /\ portOf[ctx[r].worker] \in Ports
      /\ cfg[ctx[r].worker].user = ctx[r].user
  BY DEF SpawnReady, HandlersOK, HandlerOK, RoutedPCs, TypeOK, RequestType, WorkerType, ProxyCtx, Workers
<1>1. TypeOK'
  <2>1. SessionType'
    BY SessionFrame DEF SpawnReady, Goto, Answer, TypeOK, sessionVars
  <2>2. DirectoryType'
    BY DirectoryFrame DEF SpawnReady, Goto, Answer, TypeOK, directoryVars
  <2>3. WorkerType'
    <3>1. ctx[r].worker \in 0..MaxWorkers
      BY <1>0 DEF Workers
    <3>2. handle' \in [Users -> 0..MaxWorkers]
      BY <1>0, <3>1 DEF SpawnReady, TypeOK, WorkerType
    <3>3. listener' \in [Ports -> 0..MaxWorkers]
      BY <1>0, <3>1 DEF SpawnReady, TypeOK, WorkerType
    <3> QED BY <3>2, <3>3 DEF SpawnReady, TypeOK, WorkerType
  <2>4. RequestType'
    BY <1>0, ConstantsAssumption DEF SpawnReady, Goto, Answer, TypeOK, RequestType, PCs
  <2>5. inflight' \in [Ips -> Nat] /\ now' \in Nat /\ changes' \in 0..MaxChanges
    BY ConstantsAssumption DEF SpawnReady, Goto, Answer, TypeOK, envVars, limiterVars
  <2> QED BY <2>1, <2>2, <2>3, <2>4, <2>5 DEF TypeOK
<1>2. WorkersPlaced'
  BY <1>0, ConstantsAssumption DEF SpawnReady, Goto, Answer, TypeOK, WorkerType, RequestType, ProxyCtx, Workers, WorkersPlaced, HandlersOK, HandlerOK, RoutedPCs, workerVars
<1>3. HandlersOK'
  <2> SUFFICES ASSUME NEW q \in Requests PROVE HandlerOK(q)' BY DEF HandlersOK
  <2>1. UNCHANGED <<started, now, call, minted, cfg, portOf, by, ctx>> /\ pc[r] = "bind"
    BY DEF SpawnReady, sessionVars, envVars
  <2> QED BY <2>1, HandlerFrame DEF SpawnReady, Goto, TypeOK, RequestType, HandlersOK
<1>4. AllPerformedOK'
  BY PerformedFrame DEF SpawnReady, Goto, Answer, workerVars, sessionVars
<1>5. SlotsAccounted'
  BY SlotsFrame DEF SpawnReady, Goto, Answer, limiterVars, TypeOK, RequestType
<1>6. IsFiniteSet(active)' /\ SessionsCapped'
  BY DEF SpawnReady, Goto, Answer, sessionVars, SessionsCapped
<1> QED BY <1>1, <1>2, <1>3, <1>4, <1>5, <1>6

\* Whoever listens performs the request only after its own check.
LEMMA SendStep == ASSUME IInv, NEW r \in Requests, Send(r) PROVE IInv'
<1> USE DEF IInv
<1> DEFINE g == listener[portOf[ctx[r].worker]]
<1>0. /\ portOf[ctx[r].worker] \in Ports /\ g \in 0..MaxWorkers /\ by[r] \in 0..MaxWorkers
      /\ g # 0 => g \in Workers /\ portOf[g] # NoPort /\ cfg[g].user \in Users
      /\ cfg[ctx[r].worker].user = ctx[r].user
  BY DEF Send, HandlersOK, HandlerOK, RoutedPCs, TypeOK, RequestType, WorkerType, ProxyCtx, Workers, WorkersPlaced
<1>1. TypeOK'
  <2>1. SessionType'
    BY SessionFrame DEF Send, Goto, Answer, TypeOK, sessionVars
  <2>2. DirectoryType'
    BY DirectoryFrame DEF Send, Goto, Answer, TypeOK, directoryVars
  <2>3. WorkerType'
    BY WorkerFrame DEF Send, Goto, Answer, TypeOK, workerVars
  <2>4. RequestType'
    <3>1. by' \in [Requests -> 0..MaxWorkers]
      BY <1>0 DEF Send, TypeOK, RequestType
    <3>2. pc' \in [Requests -> PCs]
      BY DEF Send, Goto, Answer, TypeOK, RequestType, PCs
    <3>3. \E code \in Nat : status' = [status EXCEPT ![r] = code]
      <4>1. (IF Found(r, g) THEN 403 ELSE 404) \in Nat
        OBVIOUS
      <4> QED BY <4>1 DEF Send, Answer
    <3>4. status' \in [Requests -> Nat]
      BY <3>3 DEF TypeOK, RequestType
    <3> QED BY <3>1, <3>2, <3>4 DEF Send, TypeOK, RequestType
  <2>5. inflight' \in [Ips -> Nat] /\ now' \in Nat /\ changes' \in 0..MaxChanges
    BY ConstantsAssumption DEF Send, Goto, Answer, TypeOK, envVars, limiterVars
  <2> QED BY <2>1, <2>2, <2>3, <2>4, <2>5 DEF TypeOK
<1>2. WorkersPlaced'
  <2>1. \A q \in Requests : by'[q] # 0 => portOf[by'[q]] # NoPort
    BY <1>0 DEF Send, WorkersPlaced, TypeOK, RequestType
  <2> QED BY <2>1 DEF Send, WorkersPlaced, workerVars
<1>3. HandlersOK'
  <2> SUFFICES ASSUME NEW q \in Requests PROVE HandlerOK(q)' BY DEF HandlersOK
  <2>1. UNCHANGED <<started, now, call, minted, cfg, portOf, ctx>> /\ pc' = [pc EXCEPT ![r] = "log"]
    BY DEF Send, Answer, Goto, sessionVars, workerVars, envVars
  <2>2. CASE q # r
    <3>1. by'[q] = by[q]
      BY <2>2 DEF Send, TypeOK, RequestType
    <3> QED BY <2>1, <2>2, <3>1, HandlerFrame DEF TypeOK, RequestType, HandlersOK
  <2>3. CASE q = r
    <3>1. pc'[r] = "log"
      BY <2>1 DEF TypeOK, RequestType
    <3> QED BY <2>1, <2>3, <3>1 DEF HandlersOK, HandlerOK, RoutedPCs, Scoped, C
  <2> QED BY <2>2, <2>3
<1>4. AllPerformedOK'
  <2> SUFFICES ASSUME NEW q \in Requests PROVE PerformedOK(q)'
    BY DEF AllPerformedOK
  <2>1. CASE by'[q] = by[q]
    BY <2>1 DEF Send, AllPerformedOK, PerformedOK, Scoped, C, sessionVars, workerVars
  <2>2. CASE by'[q] # by[q]
    <3>1. q = r /\ g # 0 /\ Accepted(r, g) /\ Permitted(r, g) /\ by'[r] = g
      BY <2>2 DEF Send, TypeOK, RequestType
    <3>3. CASE ctx[r].validated
      <4>1. /\ Scoped(r) /\ C(r).key \in Sids /\ call[r].sig = SessionKey
            /\ minted[C(r).key].owner = cfg[g].user
        BY <1>0, <3>1, <3>3 DEF Accepted, TokenMatches, HandlersOK, HandlerOK, Scoped
      <4> QED BY <3>1, <4>1 DEF Send, PerformedOK, Scoped, C, sessionVars, workerVars
    <3>4. CASE ~ctx[r].validated
      <4>1. C(r).key \notin Sids /\ C(r).key = cfg[g].user /\ call[r].sig = cfg[g].secret
        BY <1>0, <3>1, <3>4, ConstantsAssumption DEF Accepted, SigV4Ok
      <4> QED BY <3>1, <4>1 DEF Send, PerformedOK, C, workerVars
    <3> QED BY <3>3, <3>4
  <2> QED BY <2>1, <2>2
<1>5. SlotsAccounted'
  BY SlotsFrame DEF Send, Goto, Answer, limiterVars, TypeOK, RequestType
<1>6. IsFiniteSet(active)' /\ SessionsCapped'
  BY DEF Send, Goto, Answer, sessionVars, SessionsCapped
<1> QED BY <1>1, <1>2, <1>3, <1>4, <1>5, <1>6

\* Forgetting a worker takes a handle away.
LEMMA ForgetStep == ASSUME IInv, NEW u \in Users, Forget(u) PROVE IInv'
<1> USE DEF IInv
<1>1. TypeOK'
  <2>1. SessionType'
    BY SessionFrame DEF Forget, Goto, Answer, TypeOK, sessionVars
  <2>2. DirectoryType'
    BY DirectoryFrame DEF Forget, Goto, Answer, TypeOK, directoryVars
  <2>3. WorkerType'
    BY ConstantsAssumption DEF Forget, Goto, Answer, TypeOK, WorkerType, Workers
  <2>4. RequestType'
    BY DEF Forget, Goto, Answer, TypeOK, RequestType
  <2>5. inflight' \in [Ips -> Nat] /\ now' \in Nat /\ changes' \in 0..MaxChanges
    BY ConstantsAssumption DEF Forget, Goto, Answer, TypeOK, envVars, limiterVars
  <2> QED BY <2>1, <2>2, <2>3, <2>4, <2>5 DEF TypeOK
<1>2. WorkersPlaced'
  BY ConstantsAssumption DEF Forget, Goto, Answer, TypeOK, WorkerType, RequestType, ProxyCtx, Workers, WorkersPlaced, HandlersOK, HandlerOK, RoutedPCs, workerVars
<1>3. HandlersOK'
  <2> SUFFICES ASSUME NEW q \in Requests PROVE HandlerOK(q)' BY DEF HandlersOK
  <2> QED BY HandlerFrame DEF Forget, Goto, Answer, TypeOK, RequestType, HandlersOK, RoutedPCs, workerVars, envVars, sessionVars
<1>4. AllPerformedOK'
  BY PerformedFrame DEF Forget, Goto, Answer, workerVars, sessionVars
<1>5. SlotsAccounted'
  BY SlotsFrame DEF Forget, Goto, Answer, limiterVars, TypeOK, RequestType
<1>6. IsFiniteSet(active)' /\ SessionsCapped'
  BY DEF Forget, Goto, Answer, sessionVars, SessionsCapped
<1> QED BY <1>1, <1>2, <1>3, <1>4, <1>5, <1>6

\* A worker that dies stops listening.
LEMMA WorkerDiesStep == ASSUME IInv, NEW p \in Ports, WorkerDies(p) PROVE IInv'
<1> USE DEF IInv
<1>1. TypeOK'
  <2>1. SessionType'
    BY SessionFrame DEF WorkerDies, Goto, Answer, TypeOK, sessionVars
  <2>2. DirectoryType'
    BY DirectoryFrame DEF WorkerDies, Goto, Answer, TypeOK, directoryVars
  <2>3. WorkerType'
    BY ConstantsAssumption DEF WorkerDies, Goto, Answer, TypeOK, WorkerType, Workers
  <2>4. RequestType'
    BY DEF WorkerDies, Goto, Answer, TypeOK, RequestType
  <2>5. inflight' \in [Ips -> Nat] /\ now' \in Nat /\ changes' \in 0..MaxChanges
    BY ConstantsAssumption DEF WorkerDies, Goto, Answer, TypeOK, envVars, limiterVars
  <2> QED BY <2>1, <2>2, <2>3, <2>4, <2>5 DEF TypeOK
<1>2. WorkersPlaced'
  BY ConstantsAssumption DEF WorkerDies, Goto, Answer, TypeOK, WorkerType, RequestType, ProxyCtx, Workers, WorkersPlaced, HandlersOK, HandlerOK, RoutedPCs, workerVars
<1>3. HandlersOK'
  <2> SUFFICES ASSUME NEW q \in Requests PROVE HandlerOK(q)' BY DEF HandlersOK
  <2> QED BY HandlerFrame DEF WorkerDies, Goto, Answer, TypeOK, RequestType, HandlersOK, RoutedPCs, workerVars, envVars, sessionVars
<1>4. AllPerformedOK'
  BY PerformedFrame DEF WorkerDies, Goto, Answer, workerVars, sessionVars
<1>5. SlotsAccounted'
  BY SlotsFrame DEF WorkerDies, Goto, Answer, limiterVars, TypeOK, RequestType
<1>6. IsFiniteSet(active)' /\ SessionsCapped'
  BY DEF WorkerDies, Goto, Answer, sessionVars, SessionsCapped
<1> QED BY <1>1, <1>2, <1>3, <1>4, <1>5, <1>6

\* The clean-up drops what has expired.
LEMMA CleanupStep == ASSUME IInv, Cleanup PROVE IInv'
<1> USE DEF IInv
<1>1. TypeOK'
  <2>1. SessionType'
    BY ConstantsAssumption DEF Cleanup, Goto, Answer, TypeOK, SessionType, SessionEntry
  <2>2. DirectoryType'
    BY DirectoryFrame DEF Cleanup, Goto, Answer, TypeOK, directoryVars
  <2>3. WorkerType'
    BY WorkerFrame DEF Cleanup, Goto, Answer, TypeOK, workerVars
  <2>4. RequestType'
    BY DEF Cleanup, Goto, Answer, TypeOK, RequestType
  <2>5. inflight' \in [Ips -> Nat] /\ now' \in Nat /\ changes' \in 0..MaxChanges
    BY ConstantsAssumption DEF Cleanup, Goto, Answer, TypeOK, envVars, limiterVars
  <2> QED BY <2>1, <2>2, <2>3, <2>4, <2>5 DEF TypeOK
<1>2. WorkersPlaced'
  BY DEF Cleanup, Goto, Answer, WorkersPlaced, workerVars
<1>3. HandlersOK'
  <2> SUFFICES ASSUME NEW q \in Requests PROVE HandlerOK(q)' BY DEF HandlersOK
  <2> QED BY HandlerFrame DEF Cleanup, Goto, Answer, TypeOK, RequestType, HandlersOK, RoutedPCs, workerVars, envVars, sessionVars
<1>4. AllPerformedOK'
  BY PerformedFrame DEF Cleanup, Goto, Answer, workerVars, sessionVars
<1>5. SlotsAccounted'
  BY SlotsFrame DEF Cleanup, Goto, Answer, limiterVars, TypeOK, RequestType
<1>6. IsFiniteSet(active)' /\ SessionsCapped'
  BY ActiveShrinks DEF Cleanup, Goto, Answer
<1> QED BY <1>1, <1>2, <1>3, <1>4, <1>5, <1>6

\* A change of a grant reaches no worker that is running.
LEMMA ChangeGrantStep == ASSUME IInv, NEW u \in Users, NEW b \in Buckets, NEW l \in Levels, ChangeGrant(u, b, l) PROVE IInv'
<1> USE DEF IInv
<1>1. TypeOK'
  <2>1. SessionType'
    BY SessionFrame DEF ChangeGrant, Goto, Answer, TypeOK, sessionVars
  <2>2. DirectoryType'
    BY ConstantsAssumption DEF ChangeGrant, Goto, Answer, TypeOK, DirectoryType
  <2>3. WorkerType'
    BY WorkerFrame DEF ChangeGrant, Goto, Answer, TypeOK, workerVars
  <2>4. RequestType'
    BY DEF ChangeGrant, Goto, Answer, TypeOK, RequestType
  <2>5. inflight' \in [Ips -> Nat] /\ now' \in Nat /\ changes' \in 0..MaxChanges
    BY ConstantsAssumption DEF ChangeGrant, Goto, Answer, TypeOK, envVars, limiterVars
  <2> QED BY <2>1, <2>2, <2>3, <2>4, <2>5 DEF TypeOK
<1>2. WorkersPlaced'
  BY DEF ChangeGrant, Goto, Answer, WorkersPlaced, workerVars
<1>3. HandlersOK'
  <2> SUFFICES ASSUME NEW q \in Requests PROVE HandlerOK(q)' BY DEF HandlersOK
  <2> QED BY HandlerFrame DEF ChangeGrant, Goto, Answer, TypeOK, RequestType, HandlersOK, RoutedPCs, workerVars, envVars, sessionVars
<1>4. AllPerformedOK'
  BY PerformedFrame DEF ChangeGrant, Goto, Answer, workerVars, sessionVars
<1>5. SlotsAccounted'
  BY SlotsFrame DEF ChangeGrant, Goto, Answer, limiterVars, TypeOK, RequestType
<1>6. IsFiniteSet(active)' /\ SessionsCapped'
  BY DEF ChangeGrant, Goto, Answer, sessionVars, SessionsCapped
<1> QED BY <1>1, <1>2, <1>3, <1>4, <1>5, <1>6

\* Nor does a change of a secret.
LEMMA ChangeUserStep == ASSUME IInv, NEW u \in Users, ChangeUser(u) PROVE IInv'
<1> USE DEF IInv
<1>1. TypeOK'
  <2>1. SessionType'
    BY SessionFrame DEF ChangeUser, Goto, Answer, TypeOK, sessionVars
  <2>2. DirectoryType'
    <3>1. issued[u] + 1 \in Nat
      BY DEF TypeOK, DirectoryType
    <3>2. users' \in [Users -> Nat]
      BY <3>1 DEF ChangeUser, TypeOK, DirectoryType
    <3>3. issued' \in [Users -> Nat]
      BY <3>1 DEF ChangeUser, TypeOK, DirectoryType
    <3> QED BY <3>2, <3>3 DEF ChangeUser, TypeOK, DirectoryType
  <2>3. WorkerType'
    BY WorkerFrame DEF ChangeUser, Goto, Answer, TypeOK, workerVars
  <2>4. RequestType'
    BY DEF ChangeUser, Goto, Answer, TypeOK, RequestType
  <2>5. inflight' \in [Ips -> Nat] /\ now' \in Nat /\ changes' \in 0..MaxChanges
    BY ConstantsAssumption DEF ChangeUser, Goto, Answer, TypeOK, envVars, limiterVars
  <2> QED BY <2>1, <2>2, <2>3, <2>4, <2>5 DEF TypeOK
<1>2. WorkersPlaced'
  BY DEF ChangeUser, Goto, Answer, WorkersPlaced, workerVars
<1>3. HandlersOK'
  <2> SUFFICES ASSUME NEW q \in Requests PROVE HandlerOK(q)' BY DEF HandlersOK
  <2> QED BY HandlerFrame DEF ChangeUser, Goto, Answer, TypeOK, RequestType, HandlersOK, RoutedPCs, workerVars, envVars, sessionVars
<1>4. AllPerformedOK'
  BY PerformedFrame DEF ChangeUser, Goto, Answer, workerVars, sessionVars
<1>5. SlotsAccounted'
  BY SlotsFrame DEF ChangeUser, Goto, Answer, limiterVars, TypeOK, RequestType
<1>6. IsFiniteSet(active)' /\ SessionsCapped'
  BY DEF ChangeUser, Goto, Answer, sessionVars, SessionsCapped
<1> QED BY <1>1, <1>2, <1>3, <1>4, <1>5, <1>6

\* Time passes.
LEMMA TickStep == ASSUME IInv, Tick PROVE IInv'
<1> USE DEF IInv
<1>1. TypeOK'
  <2>1. SessionType'
    BY SessionFrame DEF Tick, Goto, Answer, TypeOK, sessionVars
  <2>2. DirectoryType'
    BY DirectoryFrame DEF Tick, Goto, Answer, TypeOK, directoryVars
  <2>3. WorkerType'
    BY WorkerFrame DEF Tick, Goto, Answer, TypeOK, workerVars
  <2>4. RequestType'
    BY DEF Tick, Goto, Answer, TypeOK, RequestType
  <2>5. inflight' \in [Ips -> Nat] /\ now' \in Nat /\ changes' \in 0..MaxChanges
    BY ConstantsAssumption DEF Tick, Goto, Answer, TypeOK, envVars, limiterVars
  <2> QED BY <2>1, <2>2, <2>3, <2>4, <2>5 DEF TypeOK
<1>2. WorkersPlaced'
  BY DEF Tick, Goto, Answer, WorkersPlaced, workerVars
<1>3. HandlersOK'
  <2> SUFFICES ASSUME NEW q \in Requests PROVE HandlerOK(q)' BY DEF HandlersOK
  <2> QED BY DEF Tick, TypeOK, RequestType, HandlersOK, HandlerOK, Scoped, C, RoutedPCs, sessionVars, workerVars
<1>4. AllPerformedOK'
  BY PerformedFrame DEF Tick, Goto, Answer, workerVars, sessionVars
<1>5. SlotsAccounted'
  BY SlotsFrame DEF Tick, Goto, Answer, limiterVars, TypeOK, RequestType
<1>6. IsFiniteSet(active)' /\ SessionsCapped'
  BY DEF Tick, Goto, Answer, sessionVars, SessionsCapped
<1> QED BY <1>1, <1>2, <1>3, <1>4, <1>5, <1>6

\* A new session has a key that no request has used.
LEMMA RouteStep == ASSUME IInv, NEW r \in Requests, Route(r) PROVE IInv'
<1> USE DEF IInv
<1> DEFINE e == [owner |-> ctx[r].user, bucket |-> C(r).bucket, mode |-> C(r).mode,
                 expires |-> now + SessionTtl]
           Mint(s) == /\ ~StoreFull /\ C(r).bucket # NoBucket /\ minted[s] = NoEntry
                      /\ active' = active \cup {s}
                      /\ minted' = [minted EXCEPT ![s] = e]
<1>0. /\ UNCHANGED <<active, minted>> \/ \E s \in Sids : Mint(s)
      /\ UNCHANGED <<cleanup, limiterVars, directoryVars, workerVars, call, started, ctx, snap, by, envVars>>
      /\ pc[r] = "route" /\ (Goto(r, "log") \/ Goto(r, "running"))
      /\ ctx[r].user \in Users
  <2>1. CASE C(r).op = "session" /\ CreateSession(r)
    <3>1. UNCHANGED <<active, minted>> \/ \E s \in Sids : Mint(s)
      BY <2>1 DEF CreateSession, NamesBucket
    <3>2. UNCHANGED cleanup /\ Goto(r, "log")
      BY <2>1 DEF CreateSession, Answer
    <3> QED BY <3>1, <3>2 DEF Route, HandlersOK, HandlerOK, RoutedPCs
  <2>2. CASE UNCHANGED sessionVars /\ (Goto(r, "log") \/ Goto(r, "running"))
    BY <2>2 DEF Route, HandlersOK, HandlerOK, RoutedPCs, sessionVars
  <2> QED BY <2>1, <2>2 DEF Route, Answer
<1>1. TypeOK'
  <2>1. SessionType'
    <3>1. CASE UNCHANGED <<active, minted>>
      BY <1>0, <3>1 DEF TypeOK, SessionType
    <3>2. ASSUME NEW s \in Sids, Mint(s) PROVE SessionType'
      <4>1. C(r) \in Call /\ C(r).bucket \in Buckets /\ C(r).mode \in Modes /\ now + SessionTtl \in Nat
        BY <3>2, ConstantsAssumption DEF TypeOK, RequestType, Signed, C, Call
      <4>2. e \in SessionEntry
        BY <1>0, <4>1 DEF SessionEntry
      <4>3. minted' \in [Sids -> SessionEntry \cup {NoEntry}]
        BY <3>2, <4>2 DEF TypeOK, SessionType
      <4>4. \A t \in active' : minted'[t] \in SessionEntry
        BY <3>2, <4>2 DEF TypeOK, SessionType
      <4> QED BY <1>0, <3>2, <4>3, <4>4 DEF TypeOK, SessionType
    <3> QED BY <1>0, <3>1, <3>2
  <2>2. DirectoryType'
    BY DirectoryFrame DEF Route, Goto, Answer, CreateSession, TypeOK, directoryVars
  <2>3. WorkerType'
    BY WorkerFrame DEF Route, Goto, Answer, CreateSession, TypeOK, workerVars
  <2>4. RequestType'
    <3>1. status' \in [Requests -> Nat]
      <4>1. (IF Authentic(r) THEN 501 ELSE 403) \in Nat
        OBVIOUS
      <4>2. UNCHANGED status \/ \E code \in Nat : status' = [status EXCEPT ![r] = code]
        BY <4>1 DEF Route, CreateSession, Answer
      <4> QED BY <4>2 DEF TypeOK, RequestType
    <3> QED BY <1>0, <3>1 DEF Goto, TypeOK, RequestType, PCs
  <2>5. inflight' \in [Ips -> Nat] /\ now' \in Nat /\ changes' \in 0..MaxChanges
    BY ConstantsAssumption DEF Route, Goto, Answer, CreateSession, TypeOK, envVars, limiterVars
  <2> QED BY <2>1, <2>2, <2>3, <2>4, <2>5 DEF TypeOK
<1>2. WorkersPlaced'
  BY DEF Route, Goto, Answer, CreateSession, WorkersPlaced, workerVars
<1>3. HandlersOK'
  <2> SUFFICES ASSUME NEW q \in Requests PROVE HandlerOK(q)' BY DEF HandlersOK
  <2>1. \A s \in Sids : minted[s] # NoEntry => minted'[s] = minted[s]
    BY <1>0 DEF TypeOK, SessionType
  <2>2. pc'[q] = pc[q] \/ (pc[q] = "route" /\ pc'[q] \in {"log", "running"})
    BY <1>0 DEF Goto, TypeOK, RequestType
  <2>3. Scoped(q) => Scoped(q)' /\ minted'[C(q).key] = minted[C(q).key]
    BY <1>0, <2>1 DEF Scoped, C
  <2> QED BY <1>0, <2>2, <2>3 DEF HandlersOK, HandlerOK, RoutedPCs, C, workerVars, envVars
<1>4. AllPerformedOK'
  <2>1. \A s \in Sids : minted[s] # NoEntry => minted'[s] = minted[s]
    BY <1>0 DEF TypeOK, SessionType
  <2> QED BY <1>0, <2>1, PerformedFrame DEF workerVars
<1>5. SlotsAccounted'
  BY <1>0, SlotsFrame DEF Goto, limiterVars, TypeOK, RequestType
<1>6. IsFiniteSet(active)' /\ SessionsCapped'
  <2>1. CASE UNCHANGED <<active, minted>>
    BY <2>1 DEF SessionsCapped
  <2>2. ASSUME NEW s \in Sids, Mint(s) PROVE IsFiniteSet(active)' /\ SessionsCapped'
    <3>1. /\ IsFiniteSet(active')
          /\ Cardinality(active') = Cardinality(active) \/ Cardinality(active') = Cardinality(active) + 1
      BY <2>2, FS_AddElement
    <3>2. Cardinality(active) \in Nat /\ Cardinality(active') \in Nat
      BY <3>1, FS_CardinalityType
    <3> QED BY <2>2, <3>1, <3>2, ConstantsAssumption DEF StoreFull, SessionsCapped
  <2> QED BY <1>0, <2>1, <2>2
<1> QED BY <1>1, <1>2, <1>3, <1>4, <1>5, <1>6

\* An arrival takes a slot that is free.
LEMMA ArriveStep == ASSUME IInv, NEW r \in Requests, NEW c \in Calls, NEW sig \in Nat, Arrive(r, c, sig) PROVE IInv'
<1> USE DEF IInv
<1> DEFINE took == /\ ~Bypassed(c.ip) /\ ~Throttled(c.ip)
                   /\ inflight' = [inflight EXCEPT ![c.ip] = @ + 1]
                   /\ ctx' = [ctx EXCEPT ![r].slot = c.ip]
<1>0. /\ pc[r] = "unsent" /\ ctx[r].slot = Loopback /\ ~ctx[r].validated /\ by[r] = 0
      /\ c \in Call /\ (took => c.ip \in Ips)
      /\ took \/ UNCHANGED <<inflight, ctx>>
      /\ pc' = [pc EXCEPT ![r] = "log"] \/ pc' = [pc EXCEPT ![r] = "classify"]
      /\ call' = [call EXCEPT ![r] = [call |-> c, sig |-> sig]]
      /\ started' = [started EXCEPT ![r] = now]
      /\ UNCHANGED <<active, minted, directoryVars, workerVars, snap, by, envVars>>
  <2>1. pc[r] = "unsent" /\ ctx[r].slot = Loopback /\ ~ctx[r].validated /\ by[r] = 0
    BY DEF Arrive, HandlersOK, HandlerOK, SlotsAccounted
  <2>2. c \in Call /\ (took => c.ip \in Ips)
    BY ConstantsAssumption DEF Call, Bypassed
  <2>3. took \/ UNCHANGED <<inflight, ctx>>
    BY DEF Arrive
  <2> QED BY <2>1, <2>2, <2>3 DEF Arrive, Goto, Answer
<1>1. TypeOK'
  <2>1. SessionType'
    <3>1. cleanup' \in BOOLEAN
      BY DEF Arrive, TypeOK, SessionType
    <3> QED BY <1>0, <3>1 DEF TypeOK, SessionType
  <2>2. DirectoryType'
    BY DirectoryFrame DEF Arrive, Goto, Answer, TypeOK, directoryVars
  <2>3. WorkerType'
    BY WorkerFrame DEF Arrive, Goto, Answer, TypeOK, workerVars
  <2>4. RequestType'
    <3>1. ctx' \in [Requests -> ProxyCtx]
      <4>1. CASE UNCHANGED ctx
        BY <4>1 DEF TypeOK, RequestType
      <4>2. CASE took
        <5>1. c.ip \in Ips \cup {Loopback} /\ ctx \in [Requests -> ProxyCtx]
          BY <1>0, <4>2 DEF TypeOK, RequestType
        <5>2. [ctx[r] EXCEPT !.slot = c.ip] \in ProxyCtx
          BY <5>1 DEF ProxyCtx
        <5> QED BY <4>2, <5>1, <5>2
      <4> QED BY <1>0, <4>1, <4>2
    <3>2. call' \in [Requests -> Signed]
      BY <1>0 DEF TypeOK, RequestType, Signed
    <3>3. pc' \in [Requests -> PCs]
      BY <1>0 DEF TypeOK, RequestType, PCs
    <3>4. status' \in [Requests -> Nat]
      <4>1. UNCHANGED status \/ status' = [status EXCEPT ![r] = 429]
        BY DEF Arrive, Answer
      <4> QED BY <4>1 DEF TypeOK, RequestType
    <3>5. started' \in [Requests -> Nat]
      BY <1>0 DEF TypeOK, RequestType
    <3> QED BY <1>0, <3>1, <3>2, <3>3, <3>4, <3>5 DEF TypeOK, RequestType
  <2>5. inflight' \in [Ips -> Nat] /\ now' \in Nat /\ changes' \in 0..MaxChanges
    BY <1>0 DEF TypeOK, envVars
  <2> QED BY <2>1, <2>2, <2>3, <2>4, <2>5 DEF TypeOK
<1>2. WorkersPlaced'
  BY DEF Arrive, Goto, Answer, WorkersPlaced, workerVars
<1>3. HandlersOK'
  <2> SUFFICES ASSUME NEW q \in Requests PROVE HandlerOK(q)' BY DEF HandlersOK
  <2>1. CASE q # r
    BY <1>0, <2>1 DEF HandlersOK, HandlerOK, Scoped, C, RoutedPCs, TypeOK, RequestType, ProxyCtx, workerVars, envVars
  <2>2. CASE q = r
    <3>1. ~ctx'[r].validated
      <4>1. CASE UNCHANGED ctx
        BY <1>0, <4>1
      <4>2. CASE took
        BY <1>0, <4>2 DEF TypeOK, RequestType, ProxyCtx
      <4> QED BY <1>0, <4>1, <4>2
    <3>2. started'[r] = now /\ pc'[r] \in {"log", "classify"}
      BY <1>0 DEF TypeOK, RequestType
    <3> QED BY <1>0, <2>2, <3>1, <3>2 DEF HandlerOK, RoutedPCs, TypeOK, envVars
  <2> QED BY <2>1, <2>2
<1>4. AllPerformedOK'
  <2> SUFFICES ASSUME NEW q \in Requests, by[q] # 0 PROVE PerformedOK(q)'
    BY <1>0 DEF AllPerformedOK, PerformedOK
  <2>1. q # r /\ call'[q] = call[q] /\ started'[q] = started[q]
    BY <1>0 DEF TypeOK, RequestType
  <2> QED BY <1>0, <2>1 DEF AllPerformedOK, PerformedOK, Scoped, C, workerVars
<1>5. SlotsAccounted'
  <2>1. CASE UNCHANGED <<inflight, ctx>>
    BY <1>0, <2>1, SlotsFrame DEF TypeOK, RequestType
  <2>2. CASE took
    <3>1. /\ r \notin Holders(c.ip) /\ Holders(c.ip)' = Holders(c.ip) \cup {r}
          /\ \A i \in Ips : i # c.ip => Holders(i)' = Holders(i)
      BY <1>0, <2>2, TakeSlot
    <3>2. Cardinality(Holders(c.ip)') = Cardinality(Holders(c.ip)) + 1
      BY <1>0, <2>2, <3>1, HoldersFinite, FS_AddElement
    <3>3. ASSUME NEW i \in Ips
          PROVE  inflight'[i] = Cardinality(Holders(i)') /\ inflight'[i] <= PerIp
      <4>1. CASE i = c.ip
        <5>1. inflight'[i] = inflight[i] + 1 /\ inflight[i] = Cardinality(Holders(i)) /\ inflight[i] \in Nat
          BY <1>0, <2>2, <4>1 DEF SlotsAccounted, TypeOK
        <5>2. inflight[i] < PerIp
          BY <2>2, <4>1, <5>1, ConstantsAssumption DEF Throttled
        <5> QED BY <3>2, <4>1, <5>1, <5>2, ConstantsAssumption
      <4>2. CASE i # c.ip
        BY <1>0, <2>2, <3>1, <4>2 DEF SlotsAccounted, TypeOK
      <4> QED BY <4>1, <4>2
    <3>4. \A q \in Requests : pc'[q] \in {"unsent", "done"} => ctx'[q].slot = Loopback
      BY <1>0, <2>2 DEF SlotsAccounted, TypeOK, RequestType, ProxyCtx
    <3> QED BY <3>3, <3>4 DEF SlotsAccounted
  <2> QED BY <1>0, <2>1, <2>2
<1>6. IsFiniteSet(active)' /\ SessionsCapped'
  BY ActiveShrinks DEF Arrive, Goto, Answer
<1> QED BY <1>1, <1>2, <1>3, <1>4, <1>5, <1>6

\* logging returns a slot that was taken, and returns it once.
LEMMA LoggingStep == ASSUME IInv, NEW r \in Requests, Logging(r) PROVE IInv'
<1> USE DEF IInv
<1> PICK ip \in Ips \cup {Loopback} : ip = ctx[r].slot
  BY DEF TypeOK, RequestType, ProxyCtx
<1>0. /\ ip \in Ips => inflight' = [inflight EXCEPT ![ip] = @ - 1]
      /\ ip \notin Ips => UNCHANGED inflight /\ ip = Loopback
      /\ ctx' = [ctx EXCEPT ![r].slot = Loopback] /\ pc' = [pc EXCEPT ![r] = "done"] /\ pc[r] = "log"
  BY DEF Logging, Release, Goto
<1>a. ASSUME ip \in Ips
      PROVE  /\ Holders(ip)' = Holders(ip) \ {r} /\ \A i \in Ips : i # ip => Holders(i)' = Holders(i)
             /\ Cardinality(Holders(ip)') = inflight[ip] - 1 /\ inflight[ip] - 1 \in Nat
  <2>1. /\ r \in Holders(ip) /\ Holders(ip)' = Holders(ip) \ {r}
        /\ \A i \in Ips : i # ip => Holders(i)' = Holders(i)
    BY <1>0, <1>a, ReturnSlot
  <2>2. IsFiniteSet(Holders(ip)') /\ Cardinality(Holders(ip)') = Cardinality(Holders(ip)) - 1
    BY <1>a, <2>1, HoldersFinite, FS_RemoveElement
  <2>3. Cardinality(Holders(ip)') \in Nat
    BY <2>2, FS_CardinalityType
  <2> QED BY <1>a, <2>1, <2>2, <2>3 DEF SlotsAccounted
<1>1. TypeOK'
  <2>1. SessionType'
    BY SessionFrame DEF Logging, Goto, Answer, TypeOK, sessionVars
  <2>2. DirectoryType'
    BY DirectoryFrame DEF Logging, Goto, Answer, TypeOK, directoryVars
  <2>3. WorkerType'
    BY WorkerFrame DEF Logging, Goto, Answer, TypeOK, workerVars
  <2>4. RequestType'
    <3>1. ctx' \in [Requests -> ProxyCtx]
      <4>1. ctx \in [Requests -> ProxyCtx]
        BY DEF TypeOK, RequestType
      <4>2. [ctx[r] EXCEPT !.slot = Loopback] \in ProxyCtx
        BY <4>1 DEF ProxyCtx
      <4> QED BY <1>0, <4>1, <4>2
    <3> QED BY <1>0, <3>1 DEF Logging, TypeOK, RequestType, PCs
  <2>5. inflight' \in [Ips -> Nat] /\ now' \in Nat /\ changes' \in 0..MaxChanges
    BY <1>0, <1>a DEF Logging, TypeOK, envVars
  <2> QED BY <2>1, <2>2, <2>3, <2>4, <2>5 DEF TypeOK
<1>2. WorkersPlaced'
  BY DEF Logging, Goto, Answer, WorkersPlaced, workerVars
<1>3. HandlersOK'
  <2> SUFFICES ASSUME NEW q \in Requests PROVE HandlerOK(q)' BY DEF HandlersOK
  <2>1. UNCHANGED <<started, now, call, minted, cfg, portOf, by>>
    BY DEF Logging, sessionVars, workerVars, envVars
  <2>2. CASE q # r
    BY <1>0, <2>1, <2>2, HandlerFrame DEF TypeOK, RequestType, HandlersOK
  <2>3. CASE q = r
    <3>1. ctx'[r].user = ctx[r].user /\ ctx'[r].validated = ctx[r].validated /\ pc'[r] = "done"
      BY <1>0 DEF TypeOK, RequestType, ProxyCtx
    <3> QED BY <2>1, <2>3, <3>1 DEF HandlersOK, HandlerOK, RoutedPCs, Scoped, C
  <2> QED BY <2>2, <2>3
<1>4. AllPerformedOK'
  BY PerformedFrame DEF Logging, Goto, Answer, workerVars, sessionVars
<1>5. SlotsAccounted'
  <2>1. ASSUME NEW i \in Ips
        PROVE  inflight'[i] = Cardinality(Holders(i)') /\ inflight'[i] <= PerIp
    <3>1. CASE i = ip
      <4>1. inflight'[i] = inflight[i] - 1 /\ inflight[i] <= PerIp /\ inflight[i] \in Nat
        BY <1>0, <3>1 DEF SlotsAccounted, TypeOK
      <4> QED BY <1>a, <3>1, <4>1, ConstantsAssumption
    <3>2. CASE ip \in Ips /\ i # ip
      BY <1>0, <1>a, <3>2 DEF SlotsAccounted, TypeOK
    <3>3. CASE ip \notin Ips
      <4>1. Holders(i)' = Holders(i)
        BY <1>0, <3>3 DEF Holders, TypeOK, RequestType, ProxyCtx
      <4> QED BY <1>0, <3>3, <4>1 DEF SlotsAccounted
    <3> QED BY <3>1, <3>2, <3>3
  <2>2. \A q \in Requests : pc'[q] \in {"unsent", "done"} => ctx'[q].slot = Loopback
    BY <1>0 DEF SlotsAccounted, TypeOK, RequestType, ProxyCtx
  <2> QED BY <2>1, <2>2 DEF SlotsAccounted
<1>6. IsFiniteSet(active)' /\ SessionsCapped'
  BY DEF Logging, Goto, Answer, sessionVars, SessionsCapped
<1> QED BY <1>1, <1>2, <1>3, <1>4, <1>5, <1>6

-----------------------------------------------------------------------------
\* The theorems.

\* The invariant holds before any request.
LEMMA InitInv == Init => IInv
<1> SUFFICES ASSUME Init PROVE IInv OBVIOUS
<1>1. TypeOK
  <2>1. NoCall \in Signed
    BY DEF NoCall, Signed, Call, Ops, Modes
  <2>2. NewCtx \in ProxyCtx
    BY ConstantsAssumption DEF NewCtx, ProxyCtx
  <2>3. NoGrants \in [Buckets -> Levels]
    BY DEF NoGrants, Levels
  <2>4. NoCfg \in WorkerCfg
    BY <2>3 DEF NoCfg, WorkerCfg
  <2>5. SessionType /\ DirectoryType
    BY ConstantsAssumption DEF Init, SessionType, DirectoryType
  <2>6. WorkerType
    BY <2>4, ConstantsAssumption DEF Init, WorkerType
  <2>7. RequestType
    BY <2>1, <2>2, <2>3, ConstantsAssumption DEF Init, RequestType, PCs
  <2> QED BY <2>5, <2>6, <2>7, ConstantsAssumption DEF Init, TypeOK
<1>2. WorkersPlaced /\ HandlersOK /\ AllPerformedOK
  BY ConstantsAssumption
     DEF Init, WorkersPlaced, HandlersOK, HandlerOK, AllPerformedOK, PerformedOK, NewCtx, RoutedPCs
<1>3. SlotsAccounted
  <2>1. \A r \in Requests : ctx[r].slot = Loopback
    BY DEF Init, NewCtx
  <2>2. \A ip \in Ips : Holders(ip) = {}
    <3> SUFFICES ASSUME NEW ip \in Ips, NEW r \in Holders(ip) PROVE FALSE
      OBVIOUS
    <3> QED BY <2>1, ConstantsAssumption DEF Holders
  <2>3. \A ip \in Ips : Cardinality(Holders(ip)) = 0 /\ inflight[ip] = 0
    BY <2>2, FS_EmptySet DEF Init
  <2> QED BY <2>1, <2>3, ConstantsAssumption DEF SlotsAccounted
<1>4. IsFiniteSet(active) /\ SessionsCapped
  BY FS_EmptySet, ConstantsAssumption DEF Init, SessionsCapped
<1> QED BY <1>1, <1>2, <1>3, <1>4 DEF IInv

\* Every step keeps the invariant.
LEMMA NextInv == IInv /\ [Next]_vars => IInv'
<1> SUFFICES ASSUME IInv, [Next]_vars PROVE IInv' OBVIOUS
<1>1. ASSUME NEW r \in Requests, NEW c \in Calls, NEW sig \in Secrets(c), Arrive(r, c, sig)
      PROVE  IInv'
  <2>1. sig \in Nat
    BY DEF Secrets, SessionKey
  <2> QED BY <1>1, <2>1, ArriveStep
<1>2. ASSUME NEW r \in Requests, Step(r) PROVE IInv'
  BY <1>2, IdentifyStep, LookupOwnerStep, LookupUserStep, DirectoryErrorStep, RouteStep,
     GetRunningStep, LookupBucketsStep, EnsureFoundStep, SpawnPickStep, SpawnReadyStep,
     SpawnFailStep, SendStep, LoggingStep DEF Step
<1>3. CASE Environment
  BY <1>3, CleanupStep, TickStep, ForgetStep, ChangeUserStep, ChangeGrantStep, WorkerDiesStep
     DEF Environment
<1>4. CASE UNCHANGED vars
  <2>1. TypeOK'
    BY <1>4 DEF vars, IInv, TypeOK, SessionType, DirectoryType, WorkerType, RequestType
  <2>2. WorkersPlaced' /\ HandlersOK' /\ AllPerformedOK'
    BY <1>4 DEF vars, IInv, WorkersPlaced, HandlersOK, HandlerOK, Scoped, C, AllPerformedOK, PerformedOK
  <2>3. SlotsAccounted' /\ IsFiniteSet(active)' /\ SessionsCapped'
    BY <1>4 DEF vars, IInv, SlotsAccounted, Holders, SessionsCapped
  <2> QED BY <2>1, <2>2, <2>3 DEF IInv
<1> QED BY <1>1, <1>2, <1>3, <1>4 DEF Next

\* The invariant holds throughout.
THEOREM Invariance == Spec => []IInv
BY InitInv, NextInv, PTL DEF Spec

\* Every variable of the request filter stays within its type; in particular
\* the limiter never counts below zero.
THEOREM TypeInvariant == Spec => []TypeOK
<1>1. IInv => TypeOK BY DEF IInv
<1> QED BY <1>1, Invariance, PTL

\* The limiter's counter of an address is the number of its requests inside,
\* and at most the cap, whatever path each of them takes to logging.
THEOREM SlotsInvariant == Spec => []SlotsAccounted
<1>1. IInv => SlotsAccounted BY DEF IInv
<1> QED BY <1>1, Invariance, PTL

\* The counter alone: no path to logging leaks a slot or returns one twice.
THEOREM SlotsExactInvariant == Spec => []SlotsExact
<1>1. IInv => SlotsExact BY DEF IInv, SlotsAccounted, SlotsExact
<1> QED BY <1>1, Invariance, PTL

\* The session store never exceeds max_active.
THEOREM SessionsInvariant == Spec => []SessionsCapped
<1>1. IInv => SessionsCapped BY DEF IInv
<1> QED BY <1>1, Invariance, PTL

\* A request is performed only by a worker of the user whose credential it
\* carries, although ports are reused while it waits.
THEOREM OwnerInvariant == Spec => []PerformedAsOwner
<1>1. IInv => PerformedAsOwner
  BY ConstantsAssumption DEF IInv, AllPerformedOK, PerformedOK, PerformedAsOwner, Identity
<1> QED BY <1>1, Invariance, PTL

\* What is performed under a session credential is addressed to its bucket,
\* within its mode and its time.
THEOREM SessionScopeInvariant == Spec => []SessionScope
<1>1. IInv => SessionScope
  BY DEF IInv, AllPerformedOK, PerformedOK, SessionScope, Scoped
<1> QED BY <1>1, Invariance, PTL

-----------------------------------------------------------------------------
\* Refinement.

\* What the limiter's slots say of the admitted requests.
admission == [ip \in Ips |-> Holders(ip)]

\* A step that moves no slot admits nobody and lets nobody leave.
LEMMA AdmissionFrame ==
    ASSUME \A q \in Requests : ctx'[q].slot = ctx[q].slot
    PROVE  UNCHANGED admission
<1>1. \A ip \in Ips : Holders(ip)' = Holders(ip)
  BY DEF Holders
<1> QED BY <1>1 DEF admission

\* An arrival is an admission, or leaves the admitted as they are.
LEMMA ArriveAdmits ==
    ASSUME IInv, NEW r \in Requests, NEW c \in Calls, NEW sig \in Nat, Arrive(r, c, sig)
    PROVE  UNCHANGED admission \/ \E ip \in Ips : AdmissionControl!Admit(r, ip)
<1>1. CASE UNCHANGED ctx
  BY <1>1, AdmissionFrame
<1>2. CASE /\ ~Bypassed(c.ip) /\ ~Throttled(c.ip)
           /\ ctx' = [ctx EXCEPT ![r].slot = c.ip]
  <2>1. c.ip \in Ips /\ ctx[r].slot = Loopback
    BY <1>2, ConstantsAssumption DEF Call, Bypassed, Arrive, IInv, SlotsAccounted
  <2>2. /\ \A i \in Ips : r \notin Holders(i) /\ (i # c.ip => Holders(i)' = Holders(i))
        /\ Holders(c.ip)' = Holders(c.ip) \cup {r}
    BY <1>2, <2>1, TakeSlot DEF IInv
  <2>3. Cardinality(Holders(c.ip)) < PerIp
    BY <1>2, <2>1, ConstantsAssumption DEF Throttled, IInv, TypeOK, SlotsAccounted
  <2>4. admission' = [admission EXCEPT ![c.ip] = @ \cup {r}]
    BY <2>1, <2>2 DEF admission
  <2>5. /\ \A i \in Ips : r \notin admission[i]
        /\ Cardinality(admission[c.ip]) < PerIp
    BY <2>1, <2>2, <2>3 DEF admission
  <2>6. AdmissionControl!Admit(r, c.ip)
    BY <2>4, <2>5 DEF AdmissionControl!Admit, AdmissionControl!Cardinality, Cardinality, admission
  <2> QED BY <2>1, <2>6
<1> QED BY <1>1, <1>2 DEF Arrive

\* logging lets the request leave.
LEMMA LoggingLeaves ==
    ASSUME IInv, NEW r \in Requests, Logging(r)
    PROVE  UNCHANGED admission \/ \E ip \in Ips : AdmissionControl!Leave(r, ip)
<1> PICK ip \in Ips \cup {Loopback} : ip = ctx[r].slot
  BY DEF IInv, TypeOK, RequestType, ProxyCtx
<1>0. ctx' = [ctx EXCEPT ![r].slot = Loopback]
  BY DEF Logging
<1>1. CASE ip \in Ips
  <2>1. /\ r \in Holders(ip) /\ Holders(ip)' = Holders(ip) \ {r}
        /\ \A i \in Ips : i # ip => Holders(i)' = Holders(i)
    BY <1>0, <1>1, ReturnSlot DEF IInv
  <2>2. admission' = [admission EXCEPT ![ip] = @ \ {r}]
    BY <1>1, <2>1 DEF admission
  <2> QED BY <1>1, <2>1, <2>2 DEF AdmissionControl!Leave, admission
<1>2. CASE ip = Loopback
  <2>1. \A q \in Requests : ctx'[q].slot = ctx[q].slot
    BY <1>0, <1>2 DEF IInv, TypeOK, RequestType, ProxyCtx
  <2> QED BY <2>1, AdmissionFrame
<1> QED BY <1>1, <1>2

\* The other steps of a request keep its slot.
LEMMA StepKeepsSlots ==
    ASSUME IInv, NEW r \in Requests, Step(r), ~Logging(r)
    PROVE  \A q \in Requests : ctx'[q].slot = ctx[q].slot
<1>1. ctx \in [Requests -> ProxyCtx]
  BY DEF IInv, TypeOK, RequestType
<1>2. CASE UNCHANGED ctx
  BY <1>2
<1>3. CASE \E w : ctx' = [ctx EXCEPT ![r].worker = w]
  BY <1>1, <1>3 DEF ProxyCtx
<1>4. CASE \E u, k : ctx' = [ctx EXCEPT ![r].user = u, ![r].secret = k]
  BY <1>1, <1>4 DEF ProxyCtx
<1>5. CASE \E u, k : ctx' = [ctx EXCEPT ![r].user = u, ![r].secret = k, ![r].validated = TRUE]
  BY <1>1, <1>5, SMTT(60) DEF ProxyCtx
<1>6. CASE LookupOwner(r) \/ LookupUser(r)
  BY <1>2, <1>4, <1>5, <1>6 DEF LookupOwner, LookupUser
<1>7. CASE GetRunning(r) \/ EnsureFound(r) \/ SpawnPick(r)
  BY <1>2, <1>3, <1>7 DEF GetRunning, EnsureFound, SpawnPick
<1>8. CASE \/ Identify(r) \/ DirectoryError(r) \/ Route(r) \/ LookupBuckets(r)
           \/ SpawnReady(r) \/ SpawnFail(r) \/ Send(r)
  BY <1>2, <1>8 DEF Identify, DirectoryError, Route, LookupBuckets, SpawnReady, SpawnFail, Send
<1> QED BY <1>6, <1>7, <1>8 DEF Step

\* The request filter implements the abstract admission control: at most
\* PerIp requests of an address are inside, each enters once and leaves once.
THEOREM Refinement == Spec => Admitted
<1>1. Init => AdmissionControl!AdmissionInit
  <2> SUFFICES ASSUME Init PROVE admission = [ip \in Ips |-> {}]
    BY DEF AdmissionControl!AdmissionInit, admission
  <2>1. \A r \in Requests : ctx[r].slot = Loopback
    BY DEF Init, NewCtx
  <2>2. ASSUME NEW ip \in Ips PROVE Holders(ip) = {}
    BY <2>1, ConstantsAssumption DEF Holders
  <2> QED BY <2>2 DEF admission
<1>2. IInv /\ [Next]_vars => [AdmissionControl!AdmissionNext]_admission
  <2> SUFFICES ASSUME IInv, [Next]_vars
               PROVE  UNCHANGED admission \/ AdmissionControl!AdmissionNext
    OBVIOUS
  <2>1. ASSUME NEW r \in Requests, NEW c \in Calls, NEW sig \in Secrets(c), Arrive(r, c, sig)
        PROVE  UNCHANGED admission \/ AdmissionControl!AdmissionNext
    <3>1. sig \in Nat
      BY DEF Secrets, SessionKey
    <3> QED BY <2>1, <3>1, ArriveAdmits DEF AdmissionControl!AdmissionNext
  <2>2. ASSUME NEW r \in Requests, Step(r)
        PROVE  UNCHANGED admission \/ AdmissionControl!AdmissionNext
    <3>1. CASE Logging(r)
      BY <3>1, LoggingLeaves DEF AdmissionControl!AdmissionNext
    <3>2. CASE ~Logging(r)
      BY <2>2, <3>2, StepKeepsSlots, AdmissionFrame
    <3> QED BY <3>1, <3>2
  <2>3. CASE Environment \/ UNCHANGED vars
    <3>1. UNCHANGED ctx
      BY <2>3 DEF Environment, Cleanup, Tick, Forget, ChangeUser, ChangeGrant, WorkerDies, vars
    <3> QED BY <3>1, AdmissionFrame
  <2> QED BY <2>1, <2>2, <2>3 DEF Next
<1> QED BY <1>1, <1>2, Invariance, PTL DEF Spec, Admitted, AdmissionControl!AdmissionSpec, admission

=============================================================================
