-------------------------- MODULE Administration --------------------------
(***************************************************************************)
(* The directory in OpenBao: s32p-ctl changes it, the proxies look users   *)
(* and buckets up in it.  Users, buckets and, for every principal, an      *)
(* index of buckets are separate documents; every read and every write of  *)
(* one is a request of its own, without transactions or check-and-set.     *)
(* A command is a list of tasks that it works off, one request at a time,  *)
(* and gives up at the first request that fails.                           *)
(***************************************************************************)
EXTENDS Naturals, FiniteSets, Sequences

CONSTANTS
    Admins,
    Users,          \* access keys
    Groups,         \* group names
    GroupsOf,       \* Users -> SUBSET Groups: groups_for_user
    Buckets,        \* bucket ids
    Commands,       \* the commands administrators may give
    InitBuckets,    \* the bucket documents at the start, NoDoc for none
    Caller,         \* the access key that the proxy looks up
    MaxCommands,    \* bound on commands
    MaxFaults       \* bound on requests that fail

Principals == Users \cup Groups
Levels == {1, 2}                    \* read_only < read_write
Acls == SUBSET (Principals \X Levels)
BucketNames == STRING \cup {"none"}
Docs == [name : BucketNames, acl : Acls]
NoDoc == [name |-> "none", acl |-> {}]

\* The command lines of s32p-ctl that change the directory.
AnyCommand ==
    [op : {"user add"}, user : Users]
      \cup [op : {"user rm"}, user : Users, cleanup : BOOLEAN]
      \cup [op : {"bucket add"}, bucket : Buckets, doc : Docs]
      \cup [op : {"bucket rm"}, bucket : Buckets]
      \cup [op : {"acl-set"}, bucket : Buckets, acl : Acls]
      \cup [op : {"import"}, replace : BOOLEAN, users : Seq(Users), bucket : Buckets, doc : Docs]

ASSUME DirectoryAssumption ==
    /\ Users \cap Groups = {} /\ GroupsOf \in [Users -> SUBSET Groups] /\ Caller \in Users
    /\ IsFiniteSet(Users) /\ IsFiniteSet(Groups) /\ IsFiniteSet(Buckets)
    /\ InitBuckets \in [Buckets -> Docs] /\ Commands \subseteq AnyCommand
ASSUME BoundAssumption == MaxCommands \in Nat /\ MaxFaults \in Nat

VARIABLES
    users,      \* access keys that have a user document
    bucket,     \* bucket id -> document
    index,      \* principal -> bucket ids, {} for no document
    cmd,        \* what each administrator is doing
    work,       \* the tasks that are left of it
    look,       \* the lookup of a proxy
    trust,      \* history: "ok", "retry" after a failure, "broken" after a
                \* failed command that was not repeated or two at a time
    owed,       \* history: the command that failed
    orphans,    \* history: users whose removal left grants, or failed
    cleaned,    \* history: users deleted with their grants, without failure
    possible,   \* history: what the caller could do at some time of the lookup
    steady,     \* history: grants that nobody touched during the lookup
    commands, faults

store == <<users, bucket, index>>
history == <<trust, owed, orphans, cleaned, possible, steady>>
vars == <<users, bucket, index, cmd, work, look, trust, owed, orphans, cleaned, possible,
          steady, commands, faults>>

Idle == [op |-> "idle"]
Running == {a \in Admins : cmd[a] # Idle}

-----------------------------------------------------------------------------
(* Access lists: sets of pairs of a principal and a level. *)

\* normalize_acl: one entry for a principal, with the highest level.
Named(acl) == {e[1] : e \in acl}
NormalizeAcl(acl) == {e \in acl : \A f \in acl : f[1] = e[1] => f[2] <= e[2]}

\* effective_access: 0 for none.
Callers(u) == {u} \cup GroupsOf[u]
EffectiveAccess_IndexOnly(doc, u) == IF doc = NoDoc THEN 0 ELSE 2
EffectiveAccess(doc, u) ==
    LET granted == {e[2] : e \in {f \in doc.acl : f[1] \in Callers(u)}} IN
    IF granted = {} THEN 0 ELSE CHOOSE l \in granted : \A m \in granted : m <= l

Orders(S) == {q \in [1..Cardinality(S) -> S] : \A i, j \in DOMAIN q : i # j => q[i] # q[j]}
ForAll(q, t(_)) == [i \in 1..Len(q) |-> t(q[i])]

-----------------------------------------------------------------------------
(* Commands. *)

PurgeAll == << <<"purge", "users">>, <<"purge", "buckets">>,
               <<"purge", "index/group">>, <<"purge", "index/access_key">> >>

\* What s32p-ctl asks of the backend.
Tasks(c) ==
    CASE c.op = "user add" -> << <<"upsertUser", c.user>> >>
      [] c.op = "user rm" -> (IF c.cleanup THEN << <<"cleanup", c.user>> >> ELSE << >>)
                               \o << <<"deleteUser", c.user>>, <<"deleteIndex", c.user>> >>
      [] c.op = "bucket add" -> << <<"upsertBucket", c.bucket, c.doc>> >>
      [] c.op = "bucket rm" -> << <<"deleteBucket", c.bucket>> >>
      [] c.op = "acl-set" -> << <<"setBucketAcl", c.bucket, c.acl>> >>
      [] c.op = "import" -> (IF c.replace THEN PurgeAll ELSE << >>)
                              \o ForAll(c.users, LAMBDA u : <<"upsertUser", u>>)
                              \o << <<"upsertBucket", c.bucket, c.doc>> >>

Grantees(c) ==
    CASE c.op \in {"bucket add", "import"} -> Named(c.doc.acl)
      [] c.op = "acl-set" -> Named(c.acl)
      [] OTHER -> {}

Task(a) == Head(work[a])
Is(a, t) == work[a] # << >> /\ Task(a)[1] = t

\* A task that might take a grant away, as long as it has not been done.
Touches(t, p, b) ==
    CASE t[1] \in {"cleanup", "deleteUser", "deleteIndex"} -> t[2] = p \/ t[2] = Caller
      [] t[1] = "cleanBucket" -> t[2] = p
      [] t[1] = "removeIndex" -> t[2] = p /\ t[3] = b
      [] t[1] = "writeIndex" -> t[2] = p /\ b \notin t[3]
      [] t[1] \in {"upsertBucket", "putBucket"} -> t[2] = b /\ p \notin Named(t[3].acl)
      [] t[1] = "setBucketAcl" -> t[2] = b /\ p \notin Named(t[3])
      [] t[1] \in {"deleteBucket", "deleteDoc"} -> t[2] = b
      [] t[1] = "purge" -> TRUE
      [] OTHER -> FALSE
Granted(docs) ==
    {pb \in Principals \X Buckets : docs[pb[2]] # NoDoc /\ pb[1] \in Named(docs[pb[2]].acl)}
Safe(docs, w) ==
    {pb \in Granted(docs) : \A a \in Admins : \A i \in 1..Len(w[a]) : ~Touches(w[a][i], pb[1], pb[2])}
Allowed(docs) ==
    {bl \in Buckets \X Levels : \E p \in Callers(Caller) : <<p, bl[2]>> \in docs[bl[1]].acl}

\* What a step of an administrator does to the history of a lookup.
Observe ==
    /\ possible' = possible \cup Allowed(bucket')
    /\ steady' = IF trust' = "ok" THEN steady \cap Safe(bucket', work') ELSE {}

Start(a, c) ==
    /\ cmd[a] = Idle /\ commands < MaxCommands
    /\ commands' = commands + 1
    /\ cmd' = [cmd EXCEPT ![a] = c] /\ work' = [work EXCEPT ![a] = Tasks(c)]
    /\ trust' = IF Running # {} \/ (trust = "retry" /\ owed # c) THEN "broken" ELSE trust
    /\ cleaned' = cleaned \ Grantees(c)
    /\ UNCHANGED <<store, look, owed, orphans, faults>>
    /\ Observe

\* The head task is done, and replaced by what it has found to do.
Advance(a, tasks) ==
    /\ work' = [work EXCEPT ![a] = tasks \o Tail(@)]
    /\ UNCHANGED <<cmd, look, trust, owed, cleaned, commands, faults>>
    /\ Observe

Succeed(a) ==
    /\ cmd[a] # Idle /\ work[a] = << >>
    /\ cmd' = [cmd EXCEPT ![a] = Idle]
    /\ trust' = IF trust = "retry" THEN "ok" ELSE trust
    /\ cleaned' = IF /\ cmd[a].op = "user rm" /\ trust # "broken"
                     /\ cmd[a].cleanup /\ cmd[a].user \notin orphans
                  THEN cleaned \cup {cmd[a].user} ELSE cleaned
    /\ UNCHANGED <<store, work, look, owed, orphans, possible, steady, commands, faults>>

\* A request fails, before or after it has taken effect: the command ends
\* where it is.
Fail(a) ==
    /\ cmd[a] # Idle /\ faults < MaxFaults
    /\ faults' = faults + 1
    /\ cmd' = [cmd EXCEPT ![a] = Idle] /\ work' = [work EXCEPT ![a] = << >>]
    /\ trust' = IF trust = "broken" \/ Running # {a} THEN "broken" ELSE "retry"
    /\ owed' = cmd[a]
    /\ orphans' = IF cmd[a].op = "user rm" THEN orphans \cup {cmd[a].user} ELSE orphans
    /\ UNCHANGED <<store, look, cleaned, commands>>
    /\ Observe

-----------------------------------------------------------------------------
(* OpenBaoAdmin: users and indices. *)

UpsertUser(a) ==
    /\ Is(a, "upsertUser")
    /\ users' = users \cup {Task(a)[2]}
    /\ UNCHANGED <<bucket, index, orphans>> /\ Advance(a, << >>)

DeleteUser(a) ==
    /\ Is(a, "deleteUser")
    /\ users' = users \ {Task(a)[2]}
    /\ UNCHANGED <<bucket, index, orphans>> /\ Advance(a, << >>)

DeleteIndex(a) ==
    /\ Is(a, "deleteIndex")
    /\ index' = [index EXCEPT ![Task(a)[2]] = {}]
    /\ orphans' = IF cmd[a].op = "user rm" /\ ~cmd[a].cleanup
                  THEN orphans \cup {Task(a)[2]} ELSE orphans
    /\ UNCHANGED <<users, bucket>> /\ Advance(a, << >>)

\* delete_user with cleanup: the buckets of the user's index, one by one.
Cleanup(a) ==
    /\ Is(a, "cleanup")
    /\ UNCHANGED <<store, orphans>>
    /\ \E q \in Orders(index[Task(a)[2]]) :
         Advance(a, ForAll(q, LAMBDA b : <<"cleanBucket", Task(a)[2], b>>))
CleanBucket_Keep(a) ==
    /\ Is(a, "cleanBucket")
    /\ UNCHANGED <<store, orphans>>
    /\ Advance(a, << <<"removeIndex", Task(a)[2], Task(a)[3]>> >>)
CleanBucket(a) ==
    /\ Is(a, "cleanBucket")
    /\ UNCHANGED <<store, orphans>>
    /\ LET u == Task(a)[2]
           b == Task(a)[3]
           rest == {e \in bucket[b].acl : e[1] # u}
       IN Advance(a, IF rest # bucket[b].acl THEN << <<"setBucketAcl", b, rest>> >> ELSE << >>)

\* index_add_bucket and index_remove_bucket read the index, and write it
\* when it changes.
ReadIndex(a) ==
    /\ Is(a, "addIndex") \/ Is(a, "removeIndex")
    /\ UNCHANGED <<store, orphans>>
    /\ LET p == Task(a)[2]
           new == IF Task(a)[1] = "addIndex" THEN index[p] \cup {Task(a)[3]}
                  ELSE index[p] \ {Task(a)[3]}
       IN Advance(a, IF new # index[p] THEN << <<"writeIndex", p, new>> >> ELSE << >>)
WriteIndex(a) ==
    /\ Is(a, "writeIndex")
    /\ index' = [index EXCEPT ![Task(a)[2]] = Task(a)[3]]
    /\ UNCHANGED <<users, bucket, orphans>> /\ Advance(a, << >>)

-----------------------------------------------------------------------------
(* OpenBaoAdmin: buckets. *)

\* upsert_bucket: the indices first, then the document.
IndexTasks(b, gone, new) ==
    ForAll(gone, LAMBDA p : <<"removeIndex", p, b>>) \o ForAll(new, LAMBDA p : <<"addIndex", p, b>>)
UpsertBucket_DocumentFirst(a) ==
    /\ Is(a, "upsertBucket")
    /\ UNCHANGED <<store, orphans>>
    /\ LET b == Task(a)[2]
           doc == [Task(a)[3] EXCEPT !.acl = NormalizeAcl(@)]
           old == Named(bucket[b].acl)
       IN \E gone \in Orders(old \ Named(doc.acl)), new \in Orders(Named(doc.acl) \ old) :
            Advance(a, << <<"putBucket", b, doc>> >> \o IndexTasks(b, gone, new))
UpsertBucket(a) ==
    /\ Is(a, "upsertBucket")
    /\ UNCHANGED <<store, orphans>>
    /\ LET b == Task(a)[2]
           doc == [Task(a)[3] EXCEPT !.acl = NormalizeAcl(@)]
           old == Named(bucket[b].acl)
       IN \E gone \in Orders(old \ Named(doc.acl)), new \in Orders(Named(doc.acl) \ old) :
            Advance(a, IndexTasks(b, gone, new) \o << <<"putBucket", b, doc>> >>)
PutBucket(a) ==
    /\ Is(a, "putBucket")
    /\ bucket' = [bucket EXCEPT ![Task(a)[2]] = Task(a)[3]]
    /\ UNCHANGED <<users, index, orphans>> /\ Advance(a, << >>)

\* A bucket that does not exist ends the command.
SetBucketAcl(a) ==
    /\ Is(a, "setBucketAcl") /\ bucket[Task(a)[2]] # NoDoc
    /\ UNCHANGED <<store, orphans>>
    /\ LET b == Task(a)[2] IN
       Advance(a, << <<"upsertBucket", b, [bucket[b] EXCEPT !.acl = Task(a)[3]]>> >>)
NotFound(a) ==
    /\ Is(a, "setBucketAcl") /\ bucket[Task(a)[2]] = NoDoc
    /\ cmd' = [cmd EXCEPT ![a] = Idle] /\ work' = [work EXCEPT ![a] = << >>]
    /\ UNCHANGED <<store, look, trust, owed, orphans, cleaned, commands, faults>>
    /\ Observe

DeleteBucket(a) ==
    /\ Is(a, "deleteBucket")
    /\ UNCHANGED <<store, orphans>>
    /\ LET b == Task(a)[2] IN
       \E q \in Orders(Named(bucket[b].acl)) :
          Advance(a, IF bucket[b] = NoDoc THEN << >>
                     ELSE IndexTasks(b, q, << >>) \o << <<"deleteDoc", b>> >>)
DeleteDoc(a) ==
    /\ Is(a, "deleteDoc")
    /\ bucket' = [bucket EXCEPT ![Task(a)[2]] = NoDoc]
    /\ UNCHANGED <<users, index, orphans>> /\ Advance(a, << >>)

\* import with replace: purge_tree lists a directory and deletes what it lists.
Purge(a) ==
    /\ Is(a, "purge")
    /\ UNCHANGED <<store, orphans>>
    /\ LET dir == Task(a)[2]
           keys == CASE dir = "users" -> users
                     [] dir = "buckets" -> {b \in Buckets : bucket[b] # NoDoc}
                     [] dir = "index/group" -> {g \in Groups : index[g] # {}}
                     [] dir = "index/access_key" -> {u \in Users : index[u] # {}}
           leaf == CASE dir = "users" -> "deleteUser" [] dir = "buckets" -> "deleteDoc"
                     [] OTHER -> "deleteIndex"
       IN \E q \in Orders(keys) : Advance(a, ForAll(q, LAMBDA k : <<leaf, k>>))

-----------------------------------------------------------------------------
(* OpenBaoDirectory: a proxy looks its caller up. *)

NoLook == [pc |-> "idle", indices |-> {}, ids |-> {}, out |-> {}]
KeepAdmin == UNCHANGED <<store, cmd, work, trust, owed, orphans, cleaned, commands, faults>>

\* The user's document.
LookupUser ==
    /\ look.pc = "idle"
    /\ look' = IF Caller \in users
               THEN [NoLook EXCEPT !.pc = "indices", !.indices = Callers(Caller)]
               ELSE [NoLook EXCEPT !.pc = "done"]
    /\ possible' = Allowed(bucket)
    /\ steady' = IF trust = "ok" /\ Caller \in users
                 THEN {pb \in Safe(bucket, work) : pb[1] \notin orphans} ELSE {}
    /\ KeepAdmin

\* The caller's own index, then those of the groups.
LookupIndex ==
    /\ look.pc = "indices"
    /\ \E p \in look.indices :
         /\ Caller \in look.indices => p = Caller
         /\ look' = [look EXCEPT !.indices = @ \ {p}, !.ids = @ \cup index[p],
                                 !.pc = IF look.indices = {p} THEN "buckets" ELSE @]
    /\ KeepAdmin /\ UNCHANGED <<possible, steady>>

\* A bucket's document: a stale index entry is skipped, and two visible
\* buckets of one name are an error.
LookupBucket ==
    /\ look.pc = "buckets" /\ look.ids # {}
    /\ \E b \in look.ids :
         LET level == EffectiveAccess(bucket[b], Caller)
             clash == \E o \in look.out : o.name = bucket[b].name
         IN look' = [look EXCEPT
                !.ids = @ \ {b},
                !.pc = IF level > 0 /\ clash THEN "error" ELSE @,
                !.out = IF level > 0
                        THEN @ \cup {[id |-> b, name |-> bucket[b].name, access |-> level]} ELSE @]
    /\ KeepAdmin /\ UNCHANGED <<possible, steady>>
LookupDone ==
    /\ look.pc = "buckets" /\ look.ids = {}
    /\ look' = [look EXCEPT !.pc = "done"]
    /\ KeepAdmin /\ UNCHANGED <<possible, steady>>

-----------------------------------------------------------------------------

Init ==
    /\ users = {Caller} /\ bucket = InitBuckets
    /\ index = [p \in Principals |-> {b \in Buckets : p \in Named(InitBuckets[b].acl)}]
    /\ cmd = [a \in Admins |-> Idle] /\ work = [a \in Admins |-> << >>]
    /\ look = NoLook /\ trust = "ok" /\ owed = Idle /\ orphans = {} /\ cleaned = {}
    /\ possible = {} /\ steady = {} /\ commands = 0 /\ faults = 0

Admin(a) ==
    \/ Succeed(a) \/ Fail(a) \/ UpsertUser(a) \/ DeleteUser(a) \/ DeleteIndex(a)
    \/ Cleanup(a) \/ CleanBucket(a) \/ ReadIndex(a) \/ WriteIndex(a)
    \/ UpsertBucket(a) \/ PutBucket(a) \/ SetBucketAcl(a) \/ NotFound(a)
    \/ DeleteBucket(a) \/ DeleteDoc(a) \/ Purge(a)

Next ==
    \/ \E a \in Admins : Admin(a) \/ \E c \in Commands : Start(a, c)
    \/ LookupUser \/ LookupIndex \/ LookupBucket \/ LookupDone

Spec == Init /\ [][Next]_vars

-----------------------------------------------------------------------------
(* Properties. *)

\* A lookup never shows more than the documents granted at some time while
\* it ran, whatever the indices say after failed and concurrent commands.
StaleIndexGrantsNothing ==
    \A o \in look.out : <<o.id, o.access>> \in possible

\* A grant that exists when a lookup begins, and that no command is about to
\* take away, is in its answer: the documents are written in an order that
\* keeps the indices ahead of the access lists.  After a command that failed
\* this holds again once the same command has succeeded.  It is not promised
\* to two administrators at a time, nor to a user who was deleted without
\* the grants and created again.
SteadyGrantsVisible ==
    look.pc = "done" =>
        \A pb \in steady : pb[1] \in Callers(Caller) => \E o \in look.out : o.id = pb[2]

\* A user who is deleted with the grants has none left: the same access key,
\* created again, starts with nothing.  The removal finds the grants through
\* the user's index, so this needs an index that agrees with the access
\* lists; a removal that fails half way and is repeated does not see the
\* grants that it has already taken out of the index (see the README).
CleanupComplete ==
    \A u \in cleaned : trust # "broken" => \A b \in Buckets : <<u, b>> \notin Granted(bucket)

=============================================================================
