--------------------------- MODULE RenameObject ---------------------------
(***************************************************************************)
(* RenameObject and the idempotency cache of client tokens                 *)
(* (crates/s32p-gateway/src/main.rs, crates/s32p-gateway/src/idempotency.rs*)
(* ): a request looks its token up, waits for another one with the same    *)
(* token, then renames, and commits or abandons the entry.                 *)
(*                                                                         *)
(* Requests run on several threads.  An entry's identity is the request    *)
(* that created it; a request owns the entry's mutex while it executes.    *)
(***************************************************************************)
EXTENDS Integers, FiniteSets

CONSTANTS
    Requests,     \* RenameObject requests; a retry is another request
    Tokens,       \* x-amz-client-token values
    MaxName,      \* the object keys of one bucket are 1..MaxName
    Operations,   \* what requests may ask for: source, destination, conditions
    MaxEntries,   \* max_entries of the cache
    Ttl,          \* ttl of the cache
    MaxTime,      \* bound on the clock
    MaxFaults,    \* bound on file system errors and clients that go away
    MaxForeign    \* bound on objects that others create or delete

Names == 1..MaxName
NoToken == "no token"
NoEntry == "no entry"

\* Conditions.  An ETag stands for the object it was computed from.
NoTag == 0
Star == -1
AnyOperation ==
    [src : Names, dst : Names, ifMatch : Nat, ifNoneMatch : Nat \cup {Star}, ifSource : Nat]

ASSUME ConstantsAssumption ==
    /\ IsFiniteSet(Requests) /\ IsFiniteSet(Tokens) /\ NoToken \notin Tokens
    /\ NoEntry \notin Requests /\ MaxName \in Nat
    /\ Operations \subseteq AnyOperation /\ Operations # {}
    /\ MaxEntries \in Nat /\ Ttl \in Nat
    /\ MaxTime \in Nat /\ MaxFaults \in Nat /\ MaxForeign \in Nat

VARIABLES
    objects,  \* key -> the object there, 0 for none
    cache,    \* token -> its entry, NoEntry when the token is absent
    done,     \* entry -> Pending, or the committed operation and when
    pc,       \* request -> where its handler is
    token,    \* request -> its client token, NoToken for none
    op,       \* request -> the operation; its fingerprint
    entry,    \* request -> the entry it holds, NoEntry for none
    status,   \* request -> its answer
    renamed,  \* the requests that have renamed their source
    now, faults, foreign

reqVars == <<pc, token, op, entry, status>>
envVars == <<now, faults, foreign>>
vars == <<objects, cache, done, reqVars, renamed, envVars>>

Pending == [committed |-> FALSE, op |-> CHOOSE o \in Operations : TRUE, at |-> 0]
Done(o, t) == [committed |-> TRUE, op |-> o, at |-> t]
Codes == {0, 200, 404, 409, 412, 500}

\* Where a request owns its entry's mutex.
ExecPCs == {"source", "dest", "rename", "commit"}
PCs == ExecPCs \cup {"unsent", "insert", "lock", "remove", "done"}

Goto(r, label) == pc' = [pc EXCEPT ![r] = label]

Answer(r, code) == Goto(r, "done") /\ status' = [status EXCEPT ![r] = code]

-----------------------------------------------------------------------------
\* IdempotencyCache::enter.

Locked(e) == \E q \in Requests : pc[q] \in ExecPCs /\ entry[q] = e

CacheFull == Cardinality({t \in Tokens : cache[t] # NoEntry}) >= MaxEntries

\* A request without a token, or with a new one when the cache is full, runs
\* without an entry.
Arrive(r, t, o) ==
    /\ pc[r] = "unsent"
    /\ token' = [token EXCEPT ![r] = t]
    /\ op' = [op EXCEPT ![r] = o]
    /\ IF t = NoToken \/ (cache[t] = NoEntry /\ CacheFull)
       THEN Goto(r, "source") ELSE Goto(r, "insert")
    /\ UNCHANGED <<objects, cache, done, entry, status, renamed, envVars>>

EntryFor(r) == IF cache[token[r]] = NoEntry THEN r ELSE cache[token[r]]

\* entry().or_insert_with(Pending).clone()
InsertEntry(r) ==
    /\ pc[r] = "insert"
    /\ cache' = [cache EXCEPT ![token[r]] = EntryFor(r)]
    /\ entry' = [entry EXCEPT ![r] = EntryFor(r)]
    /\ Goto(r, "lock")
    /\ UNCHANGED <<objects, done, token, op, status, renamed, envVars>>

\* The stored fingerprint is not compared.
SameRequest_Any(r) == TRUE

SameRequest(r) == done[entry[r]].op = op[r]

\* The mutex is acquired: a committed entry is replayed, or refused with 409 if
\* its fingerprint differs; a pending one is executed.
LockEntry(r) ==
    /\ pc[r] = "lock" /\ ~Locked(entry[r])
    /\ \/ /\ done[entry[r]].committed /\ SameRequest(r)
          /\ Answer(r, 200)
       \/ /\ done[entry[r]].committed /\ ~SameRequest(r)
          /\ Answer(r, 409)
       \/ /\ ~done[entry[r]].committed
          /\ Goto(r, "source") /\ UNCHANGED status
    /\ UNCHANGED <<objects, cache, done, token, op, entry, renamed, envVars>>

\* The client goes away while its request waits for another one: the handler
\* is dropped.
GiveUp(r) ==
    /\ pc[r] = "lock" /\ Locked(entry[r])
    /\ faults < MaxFaults
    /\ faults' = faults + 1
    /\ Goto(r, "done")
    /\ UNCHANGED <<objects, cache, done, token, op, entry, status, renamed, now, foreign>>

-----------------------------------------------------------------------------
\* The rename, from the source's stat to commit or abandon.

\* abort!: the mutex is released, then the entry removed; a request without an
\* entry answers at once.
Abort(r, code) ==
    /\ Goto(r, IF entry[r] = NoEntry THEN "done" ELSE "remove")
    /\ status' = [status EXCEPT ![r] = code]

\* The source has to exist and, if asked for, to be the right one.
StatSource(r) ==
    LET have == objects[op[r].src] IN
    /\ pc[r] = "source"
    /\ \/ have = 0 /\ Abort(r, 404)
       \/ /\ have # 0 /\ op[r].ifSource \notin {NoTag, have}
          /\ Abort(r, 412)
       \/ /\ have # 0 /\ op[r].ifSource \in {NoTag, have}
          /\ Goto(r, "dest") /\ UNCHANGED status
    /\ UNCHANGED <<objects, cache, done, token, op, entry, renamed, envVars>>

\* If-Match and If-None-Match, as far as one stat of the destination tells.
DestMatches(o, have) ==
    /\ o.ifMatch # NoTag => have = o.ifMatch
    /\ have # 0 => o.ifNoneMatch \notin {Star, have}

StatDest(r) ==
    LET ok == DestMatches(op[r], objects[op[r].dst]) IN
    /\ pc[r] = "dest"
    /\ \/ ok /\ Goto(r, "rename") /\ UNCHANGED status
       \/ ~ok /\ Abort(r, 412)
    /\ UNCHANGED <<objects, cache, done, token, op, entry, renamed, envVars>>

\* A plain rename: the destination that has appeared meanwhile is replaced.
Refused_Never(o) == FALSE

\* renameat2(RENAME_NOREPLACE) finds a destination that has appeared meanwhile.
Refused(o) == o.ifNoneMatch = Star /\ objects[o.dst] # 0

Rename(r) ==
    LET o == op[r] IN
    /\ pc[r] = "rename"
    /\ \/ /\ objects[o.src] = 0 /\ Abort(r, 404)
          /\ UNCHANGED <<objects, renamed>>
       \/ /\ objects[o.src] # 0 /\ Refused(o) /\ Abort(r, 412)
          /\ UNCHANGED <<objects, renamed>>
       \/ /\ objects[o.src] # 0 /\ ~Refused(o)
          /\ objects' = [n \in Names |-> IF n = o.dst THEN objects[o.src]
                                         ELSE IF n = o.src THEN 0 ELSE objects[n]]
          /\ renamed' = renamed \cup {r}
          /\ Goto(r, "commit") /\ UNCHANGED status
    /\ UNCHANGED <<cache, done, token, op, entry, envVars>>

\* Any other way to fail: a reserved key, permissions, EXDEV, a parent that
\* cannot be created (500 stands for the codes 400, 403 and 500).
FileError(r) ==
    /\ pc[r] \in {"source", "rename"} /\ faults < MaxFaults
    /\ faults' = faults + 1
    /\ Abort(r, 500)
    /\ UNCHANGED <<objects, cache, done, token, op, entry, renamed, now, foreign>>

\* EntryGuard::commit publishes the answer and releases the mutex.
Commit(r) ==
    /\ pc[r] = "commit"
    /\ done' = [e \in Requests |-> IF e = entry[r] THEN Done(op[r], now) ELSE done[e]]
    /\ Answer(r, 200)
    /\ UNCHANGED <<objects, cache, token, op, entry, renamed, envVars>>

\* EntryGuard::abandon, after the mutex is released: whatever entry the token
\* has by now is removed.
RemoveEntry(r) ==
    /\ pc[r] = "remove"
    /\ cache' = [cache EXCEPT ![token[r]] = NoEntry]
    /\ Goto(r, "done")
    /\ UNCHANGED <<objects, done, token, op, entry, status, renamed, envVars>>

-----------------------------------------------------------------------------
\* The sweeper and the environment.

\* Off by one: swept a tick early.
Expired_Early(e) == done[e].committed /\ now - done[e].at >= Ttl - 1

Expired(e) == done[e].committed /\ now - done[e].at >= Ttl

\* retain: an entry whose mutex is taken stays, and so does a pending one.
Sweep(t) ==
    /\ cache[t] # NoEntry /\ ~Locked(cache[t]) /\ Expired(cache[t])
    /\ cache' = [cache EXCEPT ![t] = NoEntry]
    /\ UNCHANGED <<objects, done, reqVars, renamed, envVars>>

OtherPut(n) ==
    /\ foreign < MaxForeign
    /\ foreign' = foreign + 1
    /\ objects' = [objects EXCEPT ![n] = MaxName + foreign']
    /\ UNCHANGED <<cache, done, reqVars, renamed, now, faults>>

OtherDelete(n) ==
    /\ foreign < MaxForeign /\ objects[n] # 0
    /\ foreign' = foreign + 1
    /\ objects' = [objects EXCEPT ![n] = 0]
    /\ UNCHANGED <<cache, done, reqVars, renamed, now, faults>>

Tick ==
    /\ now < MaxTime
    /\ now' = now + 1
    /\ UNCHANGED <<objects, cache, done, reqVars, renamed, faults, foreign>>

-----------------------------------------------------------------------------
Init ==
    /\ objects \in {f \in [Names -> Names \cup {0}] : \A n \in Names : f[n] \in {0, n}}
    /\ cache = [t \in Tokens |-> NoEntry]
    /\ done = [e \in Requests |-> Pending]
    /\ pc = [r \in Requests |-> "unsent"]
    /\ token = [r \in Requests |-> NoToken]
    /\ op = [r \in Requests |-> Pending.op]
    /\ entry = [r \in Requests |-> NoEntry]
    /\ status = [r \in Requests |-> 0]
    /\ renamed = {}
    /\ now = 0 /\ faults = 0 /\ foreign = 0

RequestStep(r) ==
    \/ InsertEntry(r) \/ LockEntry(r) \/ StatSource(r) \/ StatDest(r)
    \/ Rename(r) \/ Commit(r) \/ RemoveEntry(r)

Next ==
    \/ \E r \in Requests :
         \/ \E t \in Tokens \cup {NoToken}, o \in Operations : Arrive(r, t, o)
         \/ RequestStep(r) \/ GiveUp(r) \/ FileError(r)
    \/ \E t \in Tokens : Sweep(t)
    \/ \E n \in Names : OtherPut(n) \/ OtherDelete(n)
    \/ Tick

Spec == Init /\ [][Next]_vars

-----------------------------------------------------------------------------
\* Properties.

DoneType == [committed : BOOLEAN, op : Operations, at : Nat]

\* Every variable keeps its type, and a request that waits for its token's
\* mutex has an entry.
TypeOK ==
    /\ objects \in [Names -> Nat]
    /\ cache \in [Tokens -> Requests \cup {NoEntry}]
    /\ done \in [Requests -> DoneType]
    /\ pc \in [Requests -> PCs]
    /\ token \in [Requests -> Tokens \cup {NoToken}]
    /\ op \in [Requests -> Operations]
    /\ entry \in [Requests -> Requests \cup {NoEntry}]
    /\ status \in [Requests -> Codes]
    /\ renamed \subseteq Requests
    /\ now \in Nat /\ faults \in 0..MaxFaults /\ foreign \in Nat
    /\ \A r \in Requests : pc[r] = "insert" => token[r] \in Tokens
    /\ \A r \in Requests : pc[r] = "lock" => entry[r] \in Requests
    /\ \A r \in Requests : pc[r] = "remove" => entry[r] \in Requests /\ token[r] \in Tokens

\* An answer from the cache is true: a request answered with 200 has renamed,
\* or one with its token and its parameters has; a 409 means that the token
\* was used for another operation that took place (Lookup::Replay, Conflict).
ReplaySound ==
    \A r \in Requests :
        /\ status[r] = 200 =>
             \E q \in renamed : q = r \/ (token[q] = token[r] /\ op[q] = op[r])
        /\ status[r] = 409 =>
             \E q \in renamed : token[q] = token[r] /\ op[q] # op[r]

\* A pending entry in the map always has a request that will commit it or
\* remove it, so that it need not be swept ("a live caller still holds the
\* guard").
PendingHasCaller ==
    \A t \in Tokens :
        cache[t] # NoEntry /\ ~done[cache[t]].committed =>
            \E r \in Requests :
                /\ token[r] = t
                /\ \/ pc[r] \in ExecPCs \cup {"lock"} /\ entry[r] = cache[t]
                   \/ pc[r] = "remove"

\* As long as no request with the token has failed and the entry is within its
\* time to live, a token's rename is carried out once, however many retries
\* there are and whoever puts the source back.
RenamedOnce ==
    \A r1, r2 \in renamed :
        /\ token[r1] = token[r2] /\ entry[r1] # NoEntry /\ entry[r2] # NoEntry
        /\ now < Ttl
        /\ \A q \in Requests : token[q] = token[r1] => status[q] \in {0, 200, 409}
        => r1 = r2

\* A rename with If-None-Match: * destroys no object, although the destination
\* is looked at before (RENAME_NOREPLACE closes the gap).
NoReplaceSafe ==
    [][\A n \in Names :
         /\ objects[n] # 0 /\ foreign' = foreign
         /\ \A m \in Names : objects'[m] # objects[n]
         => \E r \in Requests :
              pc[r] = "rename" /\ pc'[r] = "commit" /\ op[r].dst = n /\ op[r].ifNoneMatch # Star
      ]_vars

=============================================================================
