----------------------- MODULE AdministrationProofs -----------------------
(***************************************************************************)
(* A lookup grants nothing that the documents did not grant while it ran,  *)
(* for any number of administrators, users, groups and buckets, whatever   *)
(* commands they give at the same time and wherever these fail.            *)
(*                                                                         *)
(* The indices are of no help: they may name any bucket.  The argument is  *)
(* about the documents only: from the lookup's first step on, whatever a   *)
(* document grants is in the history of possible grants (Recorded), since  *)
(* every step of a command adds what it leaves behind.  That the tasks a   *)
(* command still has write nothing but documents and indices of the right  *)
(* kind is TypeOK.                                                         *)
(*                                                                         *)
(* That a lookup misses nothing is about the indices, and holds while      *)
(* commands run one at a time and a failed one is repeated (GrantInv).     *)
(* The argument is about the tasks that are left of the command that runs: *)
(* a grant is in the index or is about to be revoked (Covered), always the *)
(* latter if it is about to leave the index (Guarded), and what a document *)
(* is about to grant is in the index first (Ready).  These speak of the    *)
(* set of tasks; the order that they need of the list is InOrder.          *)
(***************************************************************************)
EXTENDS Administration, FiniteSetTheorems, TLAPS

\* What a command may have to do.
AnyTask ==
    ({"upsertUser", "deleteUser", "cleanup"} \X Users)
      \cup ({"deleteIndex"} \X Principals)
      \cup ({"cleanBucket"} \X Users \X Buckets)
      \cup ({"addIndex", "removeIndex"} \X Principals \X Buckets)
      \cup ({"writeIndex"} \X Principals \X SUBSET Buckets)
      \cup ({"upsertBucket", "putBucket"} \X Buckets \X Docs)
      \cup ({"setBucketAcl"} \X Buckets \X Acls)
      \cup ({"deleteBucket", "deleteDoc"} \X Buckets)
      \cup ({"purge"} \X {"users", "buckets", "index/group", "index/access_key"})

Visible == [id : Buckets, name : BucketNames, access : Levels]
AnyLook == [pc : {"idle", "indices", "buckets", "done", "error"}, indices : SUBSET Principals,
            ids : SUBSET Buckets, out : SUBSET Visible]

\* Every document, index, task and lookup has its type.
TypeOK ==
    /\ users \subseteq Users
    /\ bucket \in [Buckets -> Docs]
    /\ index \in [Principals -> SUBSET Buckets]
    /\ work \in [Admins -> Seq(AnyTask)]
    /\ look \in AnyLook

\* What a document grants the caller now, the caller could do at some time of
\* the lookup that is under way.
Recorded == look.pc # "idle" => Allowed(bucket) \subseteq possible

\* The inductive invariant.
IInv == TypeOK /\ Recorded /\ StaleIndexGrantsNothing

-----------------------------------------------------------------------------
\* Sequences of tasks.

\* A function from 1..n is a sequence.
LEMMA FunctionSeq ==
    ASSUME NEW T, NEW n \in Nat, NEW f \in [1..n -> T]
    PROVE  f \in Seq(T) /\ Len(f) = n
OBVIOUS

\* The orders of a finite set are sequences of its elements.
LEMMA OrdersSeq ==
    ASSUME NEW S, IsFiniteSet(S), NEW q \in Orders(S)
    PROVE  q \in Seq(S)
<1>1. Cardinality(S) \in Nat BY FS_CardinalityType
<1>2. q \in [1..Cardinality(S) -> S] BY DEF Orders
<1> QED BY <1>1, <1>2, FunctionSeq

\* The principals and the buckets are finitely many, and so are the principals
\* of an access list.
LEMMA FiniteNames ==
    /\ IsFiniteSet(Principals) /\ IsFiniteSet(Users) /\ IsFiniteSet(Groups) /\ IsFiniteSet(Buckets)
    /\ \A S \in SUBSET Principals : IsFiniteSet(S)
    /\ \A S \in SUBSET Buckets : IsFiniteSet(S)
<1>1. IsFiniteSet(Principals) BY DirectoryAssumption, FS_Union DEF Principals
<1> QED BY <1>1, DirectoryAssumption, FS_Subset

LEMMA NamedPrincipals == ASSUME NEW acl \in Acls PROVE Named(acl) \subseteq Principals
BY DEF Named, Acls

LEMMA NormalizedAcl == ASSUME NEW acl \in Acls PROVE NormalizeAcl(acl) \in Acls
BY DEF NormalizeAcl, Acls

\* What the fields of a task are.
LEMMA TaskFields ==
    ASSUME NEW t \in AnyTask
    PROVE  /\ t[1] \in {"upsertUser", "deleteUser", "cleanup", "cleanBucket"} => t[2] \in Users
           /\ t[1] \in {"deleteIndex", "addIndex", "removeIndex", "writeIndex"} => t[2] \in Principals
           /\ t[1] \in {"cleanBucket", "addIndex", "removeIndex"} => t[3] \in Buckets
           /\ t[1] = "writeIndex" => t[3] \subseteq Buckets
           /\ t[1] \in {"upsertBucket", "putBucket", "setBucketAcl", "deleteBucket", "deleteDoc"} =>
                t[2] \in Buckets
           /\ t[1] \in {"upsertBucket", "putBucket"} => t[3] \in Docs
           /\ t[1] = "setBucketAcl" => t[3] \in Acls
           /\ t[1] = "purge" => t[2] \in {"users", "buckets", "index/group", "index/access_key"}
BY DEF AnyTask

\* The tasks that index_add_bucket and index_remove_bucket are called for.
LEMMA IndexTasksType ==
    ASSUME NEW b \in Buckets, NEW gone \in Seq(Principals), NEW new \in Seq(Principals)
    PROVE  IndexTasks(b, gone, new) \in Seq(AnyTask)
<1>1. [i \in 1..Len(gone) |-> <<"removeIndex", gone[i], b>>] \in Seq(AnyTask)
  <2>1. \A i \in 1..Len(gone) : <<"removeIndex", gone[i], b>> \in AnyTask BY DEF AnyTask
  <2> QED BY <2>1, FunctionSeq
<1>2. [i \in 1..Len(new) |-> <<"addIndex", new[i], b>>] \in Seq(AnyTask)
  <2>1. \A i \in 1..Len(new) : <<"addIndex", new[i], b>> \in AnyTask BY DEF AnyTask
  <2> QED BY <2>1, FunctionSeq
<1> QED BY <1>1, <1>2 DEF IndexTasks, ForAll

\* A command is a list of tasks.
LEMMA TasksType == ASSUME NEW c \in AnyCommand PROVE Tasks(c) \in Seq(AnyTask)
<1>1. CASE c \in [op : {"user add"}, user : Users]
  <2>1. Tasks(c) = << <<"upsertUser", c.user>> >> BY <1>1 DEF Tasks
  <2>2. <<"upsertUser", c.user>> \in AnyTask BY <1>1 DEF AnyTask
  <2> QED BY <2>1, <2>2
<1>2. CASE c \in [op : {"user rm"}, user : Users, cleanup : BOOLEAN]
  <2>1. <<"cleanup", c.user>> \in AnyTask /\ <<"deleteUser", c.user>> \in AnyTask
        /\ <<"deleteIndex", c.user>> \in AnyTask
    BY <1>2 DEF AnyTask, Principals
  <2>2. Tasks(c) = (IF c.cleanup THEN << <<"cleanup", c.user>> >> ELSE << >>)
                      \o << <<"deleteUser", c.user>>, <<"deleteIndex", c.user>> >>
    BY <1>2 DEF Tasks
  <2> QED BY <2>1, <2>2
<1>3. CASE c \in [op : {"bucket add"}, bucket : Buckets, doc : Docs]
  <2>1. Tasks(c) = << <<"upsertBucket", c.bucket, c.doc>> >> BY <1>3 DEF Tasks
  <2>2. <<"upsertBucket", c.bucket, c.doc>> \in AnyTask BY <1>3 DEF AnyTask
  <2> QED BY <2>1, <2>2
<1>4. CASE c \in [op : {"bucket rm"}, bucket : Buckets]
  <2>1. Tasks(c) = << <<"deleteBucket", c.bucket>> >> BY <1>4 DEF Tasks
  <2>2. <<"deleteBucket", c.bucket>> \in AnyTask BY <1>4 DEF AnyTask
  <2> QED BY <2>1, <2>2
<1>5. CASE c \in [op : {"acl-set"}, bucket : Buckets, acl : Acls]
  <2>1. Tasks(c) = << <<"setBucketAcl", c.bucket, c.acl>> >> BY <1>5 DEF Tasks
  <2>2. <<"setBucketAcl", c.bucket, c.acl>> \in AnyTask BY <1>5 DEF AnyTask
  <2> QED BY <2>1, <2>2
<1>6. CASE c \in [op : {"import"}, replace : BOOLEAN, users : Seq(Users), bucket : Buckets, doc : Docs]
  <2>1. PurgeAll \in Seq(AnyTask) BY DEF PurgeAll, AnyTask
  <2>2. [i \in 1..Len(c.users) |-> <<"upsertUser", c.users[i]>>] \in Seq(AnyTask)
    <3>1. \A i \in 1..Len(c.users) : <<"upsertUser", c.users[i]>> \in AnyTask
      BY <1>6 DEF AnyTask
    <3>2. Len(c.users) \in Nat BY <1>6
    <3> QED BY <3>1, <3>2, FunctionSeq
  <2>3. << <<"upsertBucket", c.bucket, c.doc>> >> \in Seq(AnyTask) BY <1>6 DEF AnyTask
  <2>4. Tasks(c) = (IF c.replace THEN PurgeAll ELSE << >>)
                      \o [i \in 1..Len(c.users) |-> <<"upsertUser", c.users[i]>>]
                      \o << <<"upsertBucket", c.bucket, c.doc>> >>
    BY <1>6 DEF Tasks, ForAll
  <2> QED BY <2>1, <2>2, <2>3, <2>4
<1> QED BY <1>1, <1>2, <1>3, <1>4, <1>5, <1>6 DEF AnyCommand

-----------------------------------------------------------------------------
\* The steps of the administrators.

\* A step that leaves documents and tasks of their types, and records what it
\* leaves possible, preserves the invariant.
LEMMA AdminStep ==
    ASSUME IInv, users' \subseteq Users, bucket' \in [Buckets -> Docs],
           index' \in [Principals -> SUBSET Buckets], work' \in [Admins -> Seq(AnyTask)],
           look' = look, possible' = possible \cup Allowed(bucket')
    PROVE  IInv'
<1>1. TypeOK' BY DEF IInv, TypeOK
<1>2. Recorded' BY DEF Recorded, Allowed
<1>3. StaleIndexGrantsNothing' BY DEF IInv, StaleIndexGrantsNothing
<1> QED BY <1>1, <1>2, <1>3 DEF IInv

\* A task is done: the rest, with what it has found to do, is left.
LEMMA AdvanceStep ==
    ASSUME IInv, NEW a \in Admins, work[a] # << >>, NEW tasks \in Seq(AnyTask), Advance(a, tasks),
           users' \subseteq Users, bucket' \in [Buckets -> Docs], index' \in [Principals -> SUBSET Buckets]
    PROVE  IInv'
<1>1. work[a] \in Seq(AnyTask) BY DEF IInv, TypeOK
<1>2. Tail(work[a]) \in Seq(AnyTask) BY <1>1
<1>3. tasks \o Tail(work[a]) \in Seq(AnyTask) BY <1>2
<1>4. work' = [work EXCEPT ![a] = tasks \o Tail(work[a])] BY DEF Advance
<1>5. work' \in [Admins -> Seq(AnyTask)] BY <1>3, <1>4 DEF IInv, TypeOK
<1> QED BY <1>5, AdminStep DEF Advance, Observe

\* The task an administrator works on is one.
LEMMA TaskType ==
    ASSUME TypeOK, NEW a \in Admins, work[a] # << >> PROVE Task(a) \in AnyTask
BY DEF TypeOK, Task

\* Nothing, or one thing, is left to do.
LEMMA NoTasks == << >> \in Seq(AnyTask)
OBVIOUS

LEMMA OneTask == ASSUME NEW t \in AnyTask PROVE <<t>> \in Seq(AnyTask)
OBVIOUS

\* The invariant survives the start and the end of a command.
LEMMA CommandStep ==
    ASSUME IInv, NEW a \in Admins,
           (\E c \in Commands : Start(a, c)) \/ Succeed(a) \/ Fail(a) \/ NotFound(a)
    PROVE  IInv'
<1>1. ASSUME NEW c \in Commands, Start(a, c) PROVE IInv'
  <2>1. Tasks(c) \in Seq(AnyTask) BY TasksType, DirectoryAssumption
  <2>2. work' \in [Admins -> Seq(AnyTask)] BY <1>1, <2>1 DEF Start, IInv, TypeOK
  <2> QED BY <1>1, <2>2, AdminStep DEF Start, Observe, store, IInv, TypeOK
<1>2. CASE Succeed(a)
  BY <1>2 DEF Succeed, store, IInv, TypeOK, Recorded, Allowed, StaleIndexGrantsNothing
<1>3. CASE Fail(a)
  <2>1. work' \in [Admins -> Seq(AnyTask)] BY <1>3, NoTasks DEF Fail, IInv, TypeOK
  <2> QED BY <1>3, <2>1, AdminStep DEF Fail, Observe, store, IInv, TypeOK
<1>4. CASE NotFound(a)
  <2>1. work' \in [Admins -> Seq(AnyTask)] BY <1>4, NoTasks DEF NotFound, IInv, TypeOK
  <2> QED BY <1>4, <2>1, AdminStep DEF NotFound, Observe, store, IInv, TypeOK
<1> QED BY <1>1, <1>2, <1>3, <1>4

\* The invariant survives the requests that write a document or an index.
LEMMA WriteStep ==
    ASSUME IInv, NEW a \in Admins,
           \/ UpsertUser(a) \/ DeleteUser(a) \/ DeleteIndex(a) \/ WriteIndex(a)
           \/ PutBucket(a) \/ DeleteDoc(a)
    PROVE  IInv'
<1> USE DEF IInv, Is
<1>1. work[a] # << >> /\ Task(a) \in AnyTask
  BY TaskType DEF UpsertUser, DeleteUser, DeleteIndex, WriteIndex, PutBucket, DeleteDoc
<1>2. Advance(a, << >>)
  BY DEF UpsertUser, DeleteUser, DeleteIndex, WriteIndex, PutBucket, DeleteDoc
<1>3. NoDoc \in Docs
  <2>1. "none" \in BucketNames BY DEF BucketNames
  <2>2. {} \in Acls BY DEF Acls
  <2> QED BY <2>1, <2>2 DEF NoDoc, Docs
<1>4. users' \subseteq Users
  <2>1. CASE UpsertUser(a)
    <3>1. Task(a)[2] \in Users BY <1>1, <2>1, TaskFields DEF UpsertUser
    <3> QED BY <2>1, <3>1 DEF TypeOK, UpsertUser
  <2>2. CASE DeleteUser(a) BY <2>2 DEF TypeOK, DeleteUser
  <2> QED BY <2>1, <2>2 DEF TypeOK, DeleteIndex, WriteIndex, PutBucket, DeleteDoc
<1>5. bucket' \in [Buckets -> Docs]
  BY <1>1, <1>3, TaskFields
     DEF TypeOK, UpsertUser, DeleteUser, DeleteIndex, WriteIndex, PutBucket, DeleteDoc
<1>6. index' \in [Principals -> SUBSET Buckets]
  BY <1>1, TaskFields
     DEF TypeOK, UpsertUser, DeleteUser, DeleteIndex, WriteIndex, PutBucket, DeleteDoc
<1> QED BY <1>1, <1>2, <1>4, <1>5, <1>6, NoTasks, AdvanceStep

\* The invariant survives the requests that read.
LEMMA ReadStep ==
    ASSUME IInv, NEW a \in Admins,
           \/ Cleanup(a) \/ CleanBucket(a) \/ ReadIndex(a) \/ UpsertBucket(a) \/ SetBucketAcl(a)
           \/ DeleteBucket(a) \/ Purge(a)
    PROVE  IInv'
<1> USE DEF IInv, Is
<1> DEFINE t == Task(a)
<1>1. work[a] # << >> /\ t \in AnyTask
  BY TaskType
     DEF Cleanup, CleanBucket, ReadIndex, UpsertBucket, SetBucketAcl, DeleteBucket, Purge
<1>2. UNCHANGED <<users, bucket, index>>
  BY DEF Cleanup, CleanBucket, ReadIndex, UpsertBucket, SetBucketAcl, DeleteBucket, Purge, store
<1>3. SUFFICES \E tasks \in Seq(AnyTask) : Advance(a, tasks)
  BY <1>1, <1>2, AdvanceStep DEF TypeOK
<1>4. CASE Cleanup(a)
  <2>1. t[2] \in Users /\ t[2] \in Principals
    BY <1>1, <1>4, TaskFields DEF Cleanup, Principals
  <2>2. PICK q \in Orders(index[t[2]]) :
          Advance(a, [i \in 1..Len(q) |-> <<"cleanBucket", t[2], q[i]>>])
    BY <1>4 DEF Cleanup, ForAll
  <2>3. index[t[2]] \in SUBSET Buckets BY <2>1 DEF TypeOK
  <2>4. q \in Seq(Buckets) BY <2>3, OrdersSeq, FiniteNames
  <2>5. \A i \in 1..Len(q) : <<"cleanBucket", t[2], q[i]>> \in AnyTask
    BY <2>1, <2>4 DEF AnyTask
  <2> QED BY <2>2, <2>4, <2>5, FunctionSeq
<1>5. CASE CleanBucket(a)
  <2> DEFINE rest == {e \in bucket[t[3]].acl : e[1] # t[2]}
  <2>1. t[2] \in Users /\ t[3] \in Buckets BY <1>1, <1>5, TaskFields DEF CleanBucket
  <2>2. rest \in Acls BY <2>1 DEF TypeOK, Docs, Acls
  <2>3. <<"setBucketAcl", t[3], rest>> \in AnyTask BY <2>1, <2>2 DEF AnyTask
  <2>4. Advance(a, << <<"setBucketAcl", t[3], rest>> >>) \/ Advance(a, << >>)
    BY <1>5 DEF CleanBucket
  <2> QED BY <2>3, <2>4, NoTasks, OneTask
<1>6. CASE ReadIndex(a)
  <2> DEFINE new == IF t[1] = "addIndex" THEN index[t[2]] \cup {t[3]} ELSE index[t[2]] \ {t[3]}
  <2>1. t[2] \in Principals /\ t[3] \in Buckets BY <1>1, <1>6, TaskFields DEF ReadIndex
  <2>2. new \in SUBSET Buckets BY <2>1 DEF TypeOK
  <2>3. <<"writeIndex", t[2], new>> \in AnyTask BY <2>1, <2>2 DEF AnyTask
  <2>4. Advance(a, << <<"writeIndex", t[2], new>> >>) \/ Advance(a, << >>)
    BY <1>6 DEF ReadIndex
  <2> QED BY <2>3, <2>4, NoTasks, OneTask
<1>7. CASE UpsertBucket(a)
  <2> DEFINE b == t[2]
             doc == [t[3] EXCEPT !.acl = NormalizeAcl(@)]
             old == Named(bucket[b].acl)
  <2>1. b \in Buckets /\ t[3] \in Docs BY <1>1, <1>7, TaskFields DEF UpsertBucket
  <2>2. doc \in Docs BY <2>1, NormalizedAcl DEF Docs
  <2>3. old \in SUBSET Principals /\ Named(doc.acl) \in SUBSET Principals
    BY <2>1, <2>2, NamedPrincipals DEF TypeOK, Docs
  <2>4. <<"putBucket", b, doc>> \in AnyTask BY <2>1, <2>2 DEF AnyTask
  <2>5. PICK gone \in Orders(old \ Named(doc.acl)), new \in Orders(Named(doc.acl) \ old) :
          Advance(a, IndexTasks(b, gone, new) \o << <<"putBucket", b, doc>> >>)
    BY <1>7 DEF UpsertBucket
  <2> HIDE DEF doc, old
  <2>6. gone \in Seq(Principals)
    <3>1. gone \in Seq(old \ Named(doc.acl)) BY <2>3, OrdersSeq, FiniteNames
    <3> QED BY <2>3, <3>1
  <2>7. new \in Seq(Principals)
    <3>1. new \in Seq(Named(doc.acl) \ old) BY <2>3, OrdersSeq, FiniteNames
    <3> QED BY <2>3, <3>1
  <2>8. IndexTasks(b, gone, new) \in Seq(AnyTask) BY <2>1, <2>6, <2>7, IndexTasksType
  <2>9. IndexTasks(b, gone, new) \o << <<"putBucket", b, doc>> >> \in Seq(AnyTask)
    BY <2>4, <2>8, OneTask
  <2> QED BY <2>5, <2>9
<1>8. CASE SetBucketAcl(a)
  <2> DEFINE b == t[2]
             doc == [bucket[b] EXCEPT !.acl = t[3]]
  <2>1. b \in Buckets /\ t[3] \in Acls BY <1>1, <1>8, TaskFields DEF SetBucketAcl
  <2>2. doc \in Docs BY <2>1 DEF TypeOK, Docs
  <2>3. <<"upsertBucket", b, doc>> \in AnyTask BY <2>1, <2>2 DEF AnyTask
  <2>4. Advance(a, << <<"upsertBucket", b, doc>> >>) BY <1>8 DEF SetBucketAcl
  <2> QED BY <2>3, <2>4, NoTasks, OneTask
<1>9. CASE DeleteBucket(a)
  <2> DEFINE b == t[2]
  <2>1. b \in Buckets BY <1>1, <1>9, TaskFields DEF DeleteBucket
  <2>2. Named(bucket[b].acl) \in SUBSET Principals
    BY <2>1, NamedPrincipals DEF TypeOK, Docs
  <2>3. PICK q \in Orders(Named(bucket[b].acl)) :
          Advance(a, << >>) \/ Advance(a, IndexTasks(b, q, << >>) \o << <<"deleteDoc", b>> >>)
    BY <1>9 DEF DeleteBucket
  <2>4. q \in Seq(Principals)
    <3>1. q \in Seq(Named(bucket[b].acl)) BY <2>2, OrdersSeq, FiniteNames
    <3> QED BY <2>2, <3>1
  <2>5. IndexTasks(b, q, << >>) \in Seq(AnyTask)
    <3>1. << >> \in Seq(Principals) OBVIOUS
    <3> QED BY <2>1, <2>4, <3>1, IndexTasksType
  <2>6. <<"deleteDoc", b>> \in AnyTask BY <2>1 DEF AnyTask
  <2>7. IndexTasks(b, q, << >>) \o << <<"deleteDoc", b>> >> \in Seq(AnyTask) BY <2>5, <2>6
  <2> QED BY <2>3, <2>7, NoTasks
<1>10. CASE Purge(a)
  <2> DEFINE dir == t[2]
             keys == CASE dir = "users" -> users
                       [] dir = "buckets" -> {b \in Buckets : bucket[b] # NoDoc}
                       [] dir = "index/group" -> {g \in Groups : index[g] # {}}
                       [] dir = "index/access_key" -> {u \in Users : index[u] # {}}
             leaf == CASE dir = "users" -> "deleteUser" [] dir = "buckets" -> "deleteDoc"
                       [] OTHER -> "deleteIndex"
  <2>1. dir \in {"users", "buckets", "index/group", "index/access_key"}
    BY <1>1, <1>10, TaskFields DEF Purge
  <2>2. \/ keys \subseteq Users /\ leaf = "deleteUser"
        \/ keys \subseteq Buckets /\ leaf = "deleteDoc"
        \/ keys \subseteq Principals /\ leaf = "deleteIndex"
    BY <2>1 DEF TypeOK, Principals
  <2>3. PICK q \in Orders(keys) : Advance(a, [i \in 1..Len(q) |-> <<leaf, q[i]>>])
    BY <1>10 DEF Purge, ForAll
  <2> HIDE DEF keys, leaf
  <2>4. IsFiniteSet(keys)
    <3>1. Users \subseteq Principals BY DEF Principals
    <3> QED BY <2>2, <3>1, FiniteNames
  <2>5. q \in Seq(keys) BY <2>4, OrdersSeq
  <2>6. \A k \in keys : <<leaf, k>> \in AnyTask BY <2>2 DEF AnyTask
  <2>7. \A i \in 1..Len(q) : <<leaf, q[i]>> \in AnyTask BY <2>5, <2>6
  <2> QED BY <2>3, <2>5, <2>7, FunctionSeq
<1> QED BY <1>4, <1>5, <1>6, <1>7, <1>8, <1>9, <1>10

-----------------------------------------------------------------------------
\* The lookup.

\* The level that effective_access finds is one that the document grants.
LEMMA AccessGranted ==
    ASSUME NEW doc \in Docs, NEW u \in Users, EffectiveAccess(doc, u) > 0
    PROVE  /\ EffectiveAccess(doc, u) \in Levels
           /\ \E p \in Callers(u) : <<p, EffectiveAccess(doc, u)>> \in doc.acl
<1> DEFINE granted == {e[2] : e \in {f \in doc.acl : f[1] \in Callers(u)}}
<1>1. granted \subseteq Levels BY DEF Docs, Acls
<1>2. granted # {} BY DEF EffectiveAccess
<1>3. \E l \in granted : \A m \in granted : m <= l BY <1>1, <1>2 DEF Levels
<1>4. EffectiveAccess(doc, u) = CHOOSE l \in granted : \A m \in granted : m <= l
  BY <1>2 DEF EffectiveAccess
<1>5. EffectiveAccess(doc, u) \in granted BY <1>3, <1>4
<1>6. PICK e \in doc.acl : e[1] \in Callers(u) /\ e[2] = EffectiveAccess(doc, u) BY <1>5
<1>7. e = <<e[1], e[2]>> BY DEF Docs, Acls
<1> QED BY <1>1, <1>5, <1>6, <1>7

\* The invariant survives the lookup's requests.
LEMMA LookupStep ==
    ASSUME IInv, LookupUser \/ LookupIndex \/ LookupBucket \/ LookupDone PROVE IInv'
<1> USE DEF IInv, TypeOK, KeepAdmin, store
<1>0. Callers(Caller) \subseteq Principals
  BY DirectoryAssumption DEF Callers, Principals
<1>1. CASE LookupUser
  <2>1. look' \in AnyLook /\ look'.out = {}
    BY <1>0, <1>1 DEF LookupUser, NoLook, AnyLook
  <2>2. possible' = Allowed(bucket) /\ UNCHANGED <<users, bucket, index, work>>
    BY <1>1 DEF LookupUser
  <2> QED BY <2>1, <2>2 DEF Recorded, Allowed, StaleIndexGrantsNothing
<1>2. CASE LookupIndex
  <2>1. PICK p \in look.indices :
          look' = [look EXCEPT !.indices = @ \ {p}, !.ids = @ \cup index[p],
                               !.pc = IF look.indices = {p} THEN "buckets" ELSE @]
    BY <1>2 DEF LookupIndex
  <2>2. p \in Principals /\ index[p] \subseteq Buckets BY DEF AnyLook
  <2>3. look' \in AnyLook /\ look'.out = look.out BY <2>1, <2>2 DEF AnyLook
  <2>4. UNCHANGED <<users, bucket, index, work, possible>> BY <1>2 DEF LookupIndex
  <2>5. look.pc # "idle" BY <1>2 DEF LookupIndex
  <2> QED BY <2>3, <2>4, <2>5 DEF Recorded, Allowed, StaleIndexGrantsNothing
<1>3. CASE LookupBucket
  <2>1. PICK b \in look.ids :
          LET level == EffectiveAccess(bucket[b], Caller)
              clash == \E o \in look.out : o.name = bucket[b].name
          IN look' = [look EXCEPT
                 !.ids = @ \ {b},
                 !.pc = IF level > 0 /\ clash THEN "error" ELSE @,
                 !.out = IF level > 0
                         THEN @ \cup {[id |-> b, name |-> bucket[b].name, access |-> level]} ELSE @]
    BY <1>3 DEF LookupBucket
  <2> DEFINE level == EffectiveAccess(bucket[b], Caller)
             new == [id |-> b, name |-> bucket[b].name, access |-> level]
  <2>2. b \in Buckets /\ bucket[b] \in Docs BY DEF AnyLook
  <2>3. UNCHANGED <<users, bucket, index, work, possible>> BY <1>3 DEF LookupBucket
  <2>4. look.pc # "idle" BY <1>3 DEF LookupBucket
  <2>5. level > 0 => level \in Levels /\ <<b, level>> \in Allowed(bucket)
    BY <2>2, AccessGranted, DirectoryAssumption DEF Allowed
  <2> HIDE DEF level
  <2>6. level > 0 => new \in Visible /\ <<new.id, new.access>> \in possible
    BY <2>2, <2>4, <2>5 DEF Visible, Docs, Recorded
  <2>7. /\ look'.out = look.out \/ (level > 0 /\ look'.out = look.out \cup {new})
        /\ look'.ids = look.ids \ {b} /\ look'.indices = look.indices
        /\ look'.pc \in {look.pc, "error"} /\ DOMAIN look' = DOMAIN look
    BY <2>1 DEF AnyLook, level
  <2> HIDE DEF new
  <2>8. look' \in AnyLook
    <3>1. look'.out \subseteq Visible BY <2>6, <2>7 DEF AnyLook
    <3>2. look' = [look EXCEPT !.ids = look'.ids, !.pc = look'.pc, !.out = look'.out]
      BY <2>1, <2>7 DEF AnyLook
    <3> QED BY <2>7, <3>1, <3>2 DEF AnyLook
  <2>9. StaleIndexGrantsNothing' BY <2>3, <2>6, <2>7 DEF StaleIndexGrantsNothing
  <2> QED BY <2>3, <2>4, <2>8, <2>9 DEF Recorded, Allowed
<1>4. CASE LookupDone
  <2>1. look' \in AnyLook /\ look'.out = look.out BY <1>4 DEF LookupDone, AnyLook
  <2>2. UNCHANGED <<users, bucket, index, work, possible>> BY <1>4 DEF LookupDone
  <2>3. look.pc # "idle" BY <1>4 DEF LookupDone
  <2> QED BY <2>1, <2>2, <2>3 DEF Recorded, Allowed, StaleIndexGrantsNothing
<1> QED BY <1>1, <1>2, <1>3, <1>4

\* The invariant holds at the start.
LEMMA InitInv == Init => IInv
<1> SUFFICES ASSUME Init PROVE IInv OBVIOUS
<1>1. look \in AnyLook /\ look.pc = "idle" /\ look.out = {} BY DEF Init, NoLook, AnyLook
<1>2. TypeOK BY <1>1, NoTasks, DirectoryAssumption DEF Init, TypeOK
<1> QED BY <1>1, <1>2 DEF IInv, Recorded, StaleIndexGrantsNothing

\* The inductive invariant holds in every reachable state.
THEOREM InductiveInvariant == Spec => []IInv
<1>1. IInv /\ [Next]_vars => IInv'
  <2> SUFFICES ASSUME IInv, [Next]_vars PROVE IInv' OBVIOUS
  <2>1. CASE UNCHANGED vars
    BY <2>1 DEF vars, IInv, TypeOK, Recorded, Allowed, StaleIndexGrantsNothing
  <2>2. ASSUME NEW a \in Admins, Admin(a) \/ \E c \in Commands : Start(a, c) PROVE IInv'
    BY <2>2, CommandStep, WriteStep, ReadStep DEF Admin
  <2> QED BY <2>1, <2>2, LookupStep DEF Next
<1> QED BY InitInv, <1>1, PTL DEF Spec

\* The documents, the indices, the tasks that a command still has and the
\* answers of the proxy's lookups keep their types, wherever a command fails.
THEOREM TypeInvariant == Spec => []TypeOK
<1>1. IInv => TypeOK BY DEF IInv
<1> QED BY InductiveInvariant, <1>1, PTL

\* An index that names a bucket it should not, after failed or concurrent
\* commands, grants nothing: a lookup shows only what some document granted the
\* caller while it ran (OpenBaoDirectory, effective_access).
THEOREM StaleIndexGrantsNothingInvariant == Spec => []StaleIndexGrantsNothing
<1>1. IInv => StaleIndexGrantsNothing BY DEF IInv
<1> QED BY InductiveInvariant, <1>1, PTL

-----------------------------------------------------------------------------
\* Commands that run one at a time.

\* The tasks that are left.
Left(w) == {w[i] : i \in 1..Len(w)}

\* A document grants a principal something.
Grants(docs, p, b) == p \in Named(docs[b].acl)

\* A removal that leaves the grants of the user.
Forsakes(c) == c.op = "user rm" /\ ~c.cleanup
\* An import that replaces everything.
Replaces(c) == c.op = "import" /\ c.replace

\* What a task will have done about a grant: the document grants it no more, or
\* the user is given up.
Revokes(c, idx, t, p, b) ==
    \/ t[1] = "purge" /\ t[2] = "buckets"
    \/ t[1] \in {"deleteDoc", "deleteBucket"} /\ t[2] = b
    \/ t[1] \in {"upsertBucket", "putBucket"} /\ t[2] = b /\ p \notin Named(t[3].acl)
    \/ t[1] = "setBucketAcl" /\ t[2] = b /\ p \notin Named(t[3])
    \/ t[1] = "cleanBucket" /\ t[2] = p /\ t[3] = b
    \/ t[1] = "cleanup" /\ t[2] = p /\ b \in idx[p]
    \/ t[1] = "deleteIndex" /\ t[2] = p /\ Forsakes(c)

\* What a task will have done to the index of a principal.
Unindexes(t, p, b) ==
    \/ t[1] = "removeIndex" /\ t[2] = p /\ t[3] = b
    \/ t[1] = "writeIndex" /\ t[2] = p /\ b \notin t[3]
    \/ t[1] = "deleteIndex" /\ t[2] = p
    \/ t[1] = "purge" /\ t[2] \in {"index/group", "index/access_key"}
Indexes(t, p, b) ==
    \/ t[1] = "addIndex" /\ t[2] = p /\ t[3] = b
    \/ t[1] = "writeIndex" /\ t[2] = p /\ b \in t[3]

\* The indices and the documents, given the tasks that are left of a command c:
\* a grant is in the index, or is about to be revoked ...
Covered(c, docs, idx, gone, T) ==
    \A p \in Principals \ gone, b \in Buckets :
        Grants(docs, p, b) => b \in idx[p] \/ \E t \in T : Revokes(c, idx, t, p, b)
\* ... always the latter if it is about to leave the index;
Guarded(c, docs, idx, gone, T) ==
    \A p \in Principals \ gone, b \in Buckets :
        Grants(docs, p, b) /\ (\E t \in T : Unindexes(t, p, b)) => \E t \in T : Revokes(c, idx, t, p, b)
\* what a document is about to grant is in the index or about to be, and not
\* about to leave it.
Ready(idx, gone, T) ==
    \A s \in T : s[1] = "putBucket" =>
        \A p \in Named(s[3].acl) \ gone :
            /\ s[2] \in idx[p] \/ \E t \in T : Indexes(t, p, s[2])
            /\ \A t \in T : ~Unindexes(t, p, s[2])

\* Which tasks a command has.
Operations == {"user add", "user rm", "bucket add", "bucket rm", "acl-set", "import"}
IndexTask(t) == t[1] \in {"addIndex", "removeIndex", "writeIndex"}
Reduces(docs, u, b, acl) == u \notin Named(acl) /\ Named(docs[b].acl) = Named(acl) \cup {u}
TaskOf(c, docs, t) ==
    /\ c.op = "user add" => t[1] = "upsertUser"
    /\ c.op = "user rm" =>
         /\ t[1] \in {"cleanup", "cleanBucket", "setBucketAcl", "upsertBucket", "removeIndex", "writeIndex",
                      "putBucket", "deleteUser", "deleteIndex"}
         /\ t[1] \in {"cleanup", "cleanBucket", "removeIndex", "writeIndex", "deleteUser", "deleteIndex"} =>
              t[2] = c.user
         /\ t[1] = "setBucketAcl" => Reduces(docs, c.user, t[2], t[3])
         /\ t[1] \in {"upsertBucket", "putBucket"} => Reduces(docs, c.user, t[2], t[3].acl)
    /\ c.op = "bucket rm" =>
         /\ t[1] \in {"deleteBucket", "deleteDoc", "removeIndex", "writeIndex"}
         /\ t[1] \in {"deleteBucket", "deleteDoc"} => t[2] = c.bucket
    /\ c.op \in {"bucket add", "acl-set", "import"} =>
         /\ t[1] \notin {"cleanup", "cleanBucket", "deleteBucket"}
         /\ t[1] = "setBucketAcl" => c.op = "acl-set" /\ t[2] = c.bucket /\ Named(t[3]) = Grantees(c)
         /\ t[1] \in {"upsertBucket", "putBucket"} => t[2] = c.bucket /\ Named(t[3].acl) = Grantees(c)
         /\ t[1] \in {"addIndex", "removeIndex"} => t[3] = c.bucket
         /\ t[1] \in {"upsertUser", "deleteUser", "deleteIndex"} => c.op = "import"
         /\ t[1] \in {"purge", "deleteDoc"} => Replaces(c)

\* In which order: s comes before t.
InOrder(c, s, t) ==
    /\ t[1] \notin {"writeIndex", "setBucketAcl", "cleanup"}
    /\ t[1] \in {"addIndex", "removeIndex", "putBucket"} => IndexTask(s)
    /\ t[1] = "upsertBucket" => c.op = "import"
    /\ s[1] \in {"upsertBucket", "putBucket", "setBucketAcl"} => c.op = "user rm"
    /\ c.op = "user rm" => s[1] # "deleteIndex"
Ordered(c, w) == \A i, j \in 1..Len(w) : i < j => InOrder(c, w[i], w[j])

\* A removal empties the user's index at last.
EndsEmpty(c, idx, w) ==
    c.op = "user rm" =>
        IF w = << >> THEN idx[c.user] = {} ELSE <<"deleteIndex", c.user>> \in Left(w)

\* What is left of a command: its tasks as a set, and as a list.
Plan(c, docs, idx, gone, T) ==
    /\ Covered(c, docs, idx, gone, T) /\ Guarded(c, docs, idx, gone, T) /\ Ready(idx, gone, T)
    /\ \A t \in T : TaskOf(c, docs, t)
PlanOK(c, docs, idx, gone, w) ==
    Plan(c, docs, idx, gone, Left(w)) /\ Ordered(c, w) /\ EndsEmpty(c, idx, w)

\* As long as commands run one at a time and a failed one is repeated.
CommandsOK ==
    /\ trust \in {"ok", "retry", "broken"}
    /\ cmd \in [Admins -> Commands \cup {Idle}]
    /\ \A a \in Admins : cmd[a] = Idle => work[a] = << >>
Serial ==
    trust # "broken" =>
        /\ \A a1, a2 \in Running : a1 = a2
        /\ \A a \in Running : /\ PlanOK(cmd[a], bucket, index, orphans, work[a])
                              /\ trust = "retry" => owed = cmd[a]
        /\ trust = "retry" => owed \in Commands /\ (owed.op = "user rm" => owed.user \in orphans)
        /\ Running = {} => Covered(owed, bucket, index, orphans, IF trust = "ok" THEN {} ELSE Left(Tasks(owed)))

\* The grants that nobody touches during a lookup, and how far the lookup is.
SteadyOK ==
    /\ steady \subseteq Safe(bucket, work)
    /\ steady # {} => trust = "ok"
    /\ \A pb \in steady : pb[1] \notin orphans
Sought(pb) ==
    /\ look.pc = "indices" => pb[1] \in look.indices \/ pb[2] \in look.ids
    /\ look.pc = "buckets" => pb[2] \in look.ids \/ \E o \in look.out : o.id = pb[2]
    /\ look.pc = "done" => \E o \in look.out : o.id = pb[2]
LookOK == \A pb \in steady : pb[1] \in Callers(Caller) => Sought(pb)

\* Users who were removed with their grants.
CleanedOK ==
    trust # "broken" =>
        \A u \in cleaned : /\ \A b \in Buckets : ~Grants(bucket, u, b)
                           /\ \A a \in Running : u \notin Grantees(cmd[a])

\* The inductive invariant of grants, relative to IInv.
GrantInv == CommandsOK /\ Serial /\ SteadyOK /\ LookOK /\ CleanedOK

-----------------------------------------------------------------------------
\* Lists of tasks.

\* What is left of a list: its head and the rest.
LEMMA LeftSplit ==
    ASSUME NEW w \in Seq(AnyTask), w # << >>
    PROVE  Left(w) = {Head(w)} \cup Left(Tail(w))
<1>1. Len(w) \in Nat /\ Len(w) > 0 /\ Len(Tail(w)) = Len(w) - 1 OBVIOUS
<1>2. Head(w) = w[1] /\ \A i \in 1..Len(Tail(w)) : Tail(w)[i] = w[i + 1] OBVIOUS
<1>3. ASSUME NEW x \in Left(w) PROVE x \in {Head(w)} \cup Left(Tail(w))
  <2>1. PICK i \in 1..Len(w) : x = w[i] BY <1>3 DEF Left
  <2>2. CASE i = 1 BY <1>2, <2>1, <2>2
  <2>3. CASE i # 1
    <3>1. i - 1 \in 1..Len(Tail(w)) BY <1>1, <2>1, <2>3
    <3>2. Tail(w)[i - 1] = w[(i - 1) + 1] BY <1>2, <3>1
    <3>3. (i - 1) + 1 = i BY <1>1, <2>1
    <3>4. Tail(w)[i - 1] = x BY <2>1, <3>2, <3>3
    <3> QED BY <3>1, <3>4 DEF Left
  <2> QED BY <2>2, <2>3
<1>4. Head(w) \in Left(w)
  <2>1. 1 \in 1..Len(w) BY <1>1
  <2> QED BY <1>2, <2>1 DEF Left
<1>5. ASSUME NEW x \in Left(Tail(w)) PROVE x \in Left(w)
  <2>1. PICK i \in 1..Len(Tail(w)) : x = Tail(w)[i] BY <1>5 DEF Left
  <2>2. i + 1 \in 1..Len(w) /\ x = w[i + 1] BY <1>1, <1>2, <2>1
  <2> QED BY <2>2 DEF Left
<1> QED BY <1>3, <1>4, <1>5

\* What is left of two lists.
LEMMA LeftJoin ==
    ASSUME NEW v \in Seq(AnyTask), NEW w \in Seq(AnyTask)
    PROVE  Left(v \o w) = Left(v) \cup Left(w)
<1>1. Len(v) \in Nat /\ Len(w) \in Nat /\ Len(v \o w) = Len(v) + Len(w) OBVIOUS
<1>2. /\ \A i \in 1..Len(v) : (v \o w)[i] = v[i]
      /\ \A i \in 1..Len(w) : (v \o w)[Len(v) + i] = w[i]
  OBVIOUS
<1>3. ASSUME NEW x \in Left(v \o w) PROVE x \in Left(v) \cup Left(w)
  <2>1. PICK i \in 1..Len(v \o w) : x = (v \o w)[i] BY <1>3 DEF Left
  <2>2. CASE i <= Len(v)
    <3>1. i \in 1..Len(v) BY <1>1, <2>1, <2>2
    <3>2. x = v[i] BY <1>2, <2>1, <3>1
    <3> QED BY <3>1, <3>2 DEF Left
  <2>3. CASE i > Len(v)
    <3>1. i - Len(v) \in 1..Len(w) /\ Len(v) + (i - Len(v)) = i BY <1>1, <2>1, <2>3
    <3>2. x = w[i - Len(v)] BY <1>2, <2>1, <3>1
    <3> QED BY <3>1, <3>2 DEF Left
  <2> QED BY <1>1, <2>1, <2>2, <2>3
<1>4. ASSUME NEW x \in Left(v) PROVE x \in Left(v \o w)
  <2>1. PICK i \in 1..Len(v) : x = v[i] BY <1>4 DEF Left
  <2>2. i \in 1..Len(v \o w) BY <1>1, <2>1
  <2>3. x = (v \o w)[i] BY <1>2, <2>1
  <2> QED BY <2>2, <2>3 DEF Left
<1>5. ASSUME NEW x \in Left(w) PROVE x \in Left(v \o w)
  <2>1. PICK i \in 1..Len(w) : x = w[i] BY <1>5 DEF Left
  <2>2. Len(v) + i \in 1..Len(v \o w) BY <1>1, <2>1
  <2>3. x = (v \o w)[Len(v) + i] BY <1>2, <2>1
  <2> QED BY <2>2, <2>3 DEF Left
<1> QED BY <1>3, <1>4, <1>5

\* Nothing is left of the empty list; the tasks left of a short one.
LEMMA LeftNothing == Left(<< >>) = {}
BY DEF Left

LEMMA LeftOne == ASSUME NEW t PROVE Left(<<t>>) = {t}
<1>1. Len(<<t>>) = 1 /\ <<t>>[1] = t OBVIOUS
<1> QED BY <1>1 DEF Left

\* A list that has a task is not empty.
LEMMA LeftSome == ASSUME NEW w \in Seq(AnyTask), NEW t \in Left(w) PROVE w # << >>
BY LeftNothing

\* The head of a list in order comes before the rest, which is in order.
LEMMA OrderedSplit ==
    ASSUME NEW c, NEW w \in Seq(AnyTask), w # << >>, Ordered(c, w)
    PROVE  Ordered(c, Tail(w)) /\ \A t \in Left(Tail(w)) : InOrder(c, Head(w), t)
<1>1. Len(w) \in Nat /\ Len(w) > 0 /\ Len(Tail(w)) = Len(w) - 1 OBVIOUS
<1>2. Head(w) = w[1] /\ \A i \in 1..Len(Tail(w)) : Tail(w)[i] = w[i + 1] OBVIOUS
<1>3. ASSUME NEW i \in 1..Len(Tail(w)), NEW j \in 1..Len(Tail(w)), i < j
      PROVE  InOrder(c, Tail(w)[i], Tail(w)[j])
  <2>1. i + 1 \in 1..Len(w) /\ j + 1 \in 1..Len(w) /\ i + 1 < j + 1 BY <1>1, <1>3
  <2>2. InOrder(c, w[i + 1], w[j + 1]) BY <2>1 DEF Ordered
  <2> QED BY <1>2, <2>2
<1>4. ASSUME NEW t \in Left(Tail(w)) PROVE InOrder(c, Head(w), t)
  <2>1. PICK i \in 1..Len(Tail(w)) : t = Tail(w)[i] BY <1>4 DEF Left
  <2>2. 1 \in 1..Len(w) /\ i + 1 \in 1..Len(w) /\ 1 < i + 1 BY <1>1, <2>1
  <2>3. InOrder(c, w[1], w[i + 1]) BY <2>2 DEF Ordered
  <2> QED BY <1>2, <2>1, <2>3
<1> QED BY <1>3, <1>4 DEF Ordered

\* Two lists in order, one before the other.
LEMMA OrderedJoin ==
    ASSUME NEW c, NEW v \in Seq(AnyTask), NEW w \in Seq(AnyTask), Ordered(c, v), Ordered(c, w),
           \A s \in Left(v), t \in Left(w) : InOrder(c, s, t)
    PROVE  Ordered(c, v \o w)
<1>1. Len(v) \in Nat /\ Len(w) \in Nat /\ Len(v \o w) = Len(v) + Len(w) OBVIOUS
<1>2. /\ \A i \in 1..Len(v) : (v \o w)[i] = v[i]
      /\ \A i \in 1..Len(w) : (v \o w)[Len(v) + i] = w[i]
  OBVIOUS
<1>3. SUFFICES ASSUME NEW i \in 1..Len(v \o w), NEW j \in 1..Len(v \o w), i < j
               PROVE  InOrder(c, (v \o w)[i], (v \o w)[j])
  BY DEF Ordered
<1>4. CASE j <= Len(v)
  <2>1. i \in 1..Len(v) /\ j \in 1..Len(v) BY <1>1, <1>3, <1>4
  <2>2. InOrder(c, v[i], v[j]) BY <1>3, <2>1 DEF Ordered
  <2> QED BY <1>2, <2>1, <2>2
<1>5. CASE i > Len(v)
  <2> DEFINE k == i - Len(v)
             l == j - Len(v)
  <2>1. k \in 1..Len(w) /\ l \in 1..Len(w) /\ k < l /\ Len(v) + k = i /\ Len(v) + l = j
    BY <1>1, <1>3, <1>5
  <2> HIDE DEF k, l
  <2>2. InOrder(c, w[k], w[l]) BY <2>1 DEF Ordered
  <2>3. (v \o w)[Len(v) + k] = w[k] /\ (v \o w)[Len(v) + l] = w[l] BY <1>2, <2>1
  <2> QED BY <2>1, <2>2, <2>3
<1>6. CASE i <= Len(v) /\ j > Len(v)
  <2> DEFINE l == j - Len(v)
  <2>1. i \in 1..Len(v) /\ l \in 1..Len(w) /\ Len(v) + l = j BY <1>1, <1>3, <1>6
  <2> HIDE DEF l
  <2>2. v[i] \in Left(v) /\ w[l] \in Left(w) BY <2>1 DEF Left
  <2>3. InOrder(c, v[i], w[l]) BY <2>2
  <2>4. (v \o w)[i] = v[i] /\ (v \o w)[Len(v) + l] = w[l] BY <1>2, <2>1
  <2> QED BY <2>1, <2>3, <2>4
<1> QED BY <1>1, <1>3, <1>4, <1>5, <1>6

\* A list of fewer than two tasks is in order.
LEMMA OrderedShort ==
    ASSUME NEW c PROVE Ordered(c, << >>) /\ \A t : Ordered(c, <<t>>)
<1>1. Ordered(c, << >>) BY DEF Ordered
<1>2. ASSUME NEW t PROVE Ordered(c, <<t>>)
  <2>1. Len(<<t>>) = 1 OBVIOUS
  <2>2. \A i, j \in 1..1 : ~(i < j) OBVIOUS
  <2> QED BY <2>1, <2>2 DEF Ordered
<1> QED BY <1>1, <1>2

\* A task for every element of a finite set.
LEMMA OrdersAll ==
    ASSUME NEW S, IsFiniteSet(S), NEW q \in Orders(S)
    PROVE  q \in Seq(S) /\ \A x \in S : \E i \in 1..Len(q) : q[i] = x
<1> DEFINE n == Cardinality(S)
<1>1. n \in Nat BY FS_CardinalityType
<1>2. q \in [1..n -> S] /\ \A i, j \in 1..n : i # j => q[i] # q[j] BY DEF Orders
<1>3. q \in Seq(S) /\ Len(q) = n BY <1>1, <1>2, FunctionSeq
<1>4. IsFiniteSet(1..n) /\ Cardinality(1..n) = n
  <2> HIDE DEF n
  <2>1. IsFiniteSet(1..n) /\ Cardinality(1..n) = (IF 1 > n THEN 0 ELSE n - 1 + 1) BY <1>1, FS_Interval
  <2> QED BY <1>1, <2>1
<1> DEFINE R == {q[i] : i \in 1..n}
<1>5. R \subseteq S BY <1>2
<1>6. IsFiniteSet(R) /\ Cardinality(R) = n
  <2>1. q \in Surjection(1..n, R) BY <1>2 DEF Surjection
  <2>2. q \in Injection(1..n, R) BY <1>2 DEF Injection, IsInjective
  <2>3. q \in Bijection(1..n, R) BY <2>1, <2>2 DEF Bijection
  <2>4. ExistsBijection(1..n, R) BY <2>3 DEF ExistsBijection
  <2> HIDE DEF R
  <2> QED BY <1>4, <2>4, FS_Bijection
<1>7. R = S BY <1>5, <1>6, FS_Subset
<1> QED BY <1>3, <1>7

-----------------------------------------------------------------------------
\* The plan of a command, step by step.

\* The head of a plan is replaced by the tasks N, and nothing is written.
LEMMA PlanReplace ==
    ASSUME NEW c, NEW docs, NEW idx, NEW gone, NEW h, NEW R, NEW N,
           Plan(c, docs, idx, gone, {h} \cup R),
           \A n \in N : TaskOf(c, docs, n),
           Ready(idx, gone, N \cup R),
           \A p \in Principals \ gone, b \in Buckets :
               Grants(docs, p, b) /\ Revokes(c, idx, h, p, b) => \E n \in N : Revokes(c, idx, n, p, b),
           \A p \in Principals \ gone, b \in Buckets : \A n \in N :
               Grants(docs, p, b) /\ Unindexes(n, p, b) =>
                   Unindexes(h, p, b) \/ \E t \in N \cup R : Revokes(c, idx, t, p, b)
    PROVE  Plan(c, docs, idx, gone, N \cup R)
<1>1. ASSUME NEW p \in Principals \ gone, NEW b \in Buckets, Grants(docs, p, b),
             NEW t \in {h} \cup R, Revokes(c, idx, t, p, b)
      PROVE  \E n \in N \cup R : Revokes(c, idx, n, p, b)
  <2>1. CASE t = h
    <3>1. \E n \in N : Revokes(c, idx, n, p, b) BY <1>1, <2>1
    <3> QED BY <3>1
  <2>2. CASE t \in R BY <1>1, <2>2
  <2> QED BY <2>1, <2>2
<1>2. Covered(c, docs, idx, gone, N \cup R)
  <2> SUFFICES ASSUME NEW p \in Principals \ gone, NEW b \in Buckets, Grants(docs, p, b), b \notin idx[p]
               PROVE  \E t \in N \cup R : Revokes(c, idx, t, p, b)
    BY DEF Covered
  <2>1. \E t \in {h} \cup R : Revokes(c, idx, t, p, b) BY DEF Plan, Covered
  <2> QED BY <1>1, <2>1
<1>3. Guarded(c, docs, idx, gone, N \cup R)
  <2> SUFFICES ASSUME NEW p \in Principals \ gone, NEW b \in Buckets, Grants(docs, p, b),
                      NEW s \in N \cup R, Unindexes(s, p, b)
               PROVE  \E t \in N \cup R : Revokes(c, idx, t, p, b)
    BY DEF Guarded
  <2>1. ASSUME NEW t \in {h} \cup R, Unindexes(t, p, b) PROVE \E n \in N \cup R : Revokes(c, idx, n, p, b)
    <3>1. \E n \in {h} \cup R : Revokes(c, idx, n, p, b) BY <2>1 DEF Plan, Guarded
    <3> QED BY <1>1, <3>1
  <2>2. CASE s \in R BY <2>1, <2>2
  <2>3. CASE s \in N BY <2>1, <2>3
  <2> QED BY <2>2, <2>3
<1>4. \A t \in N \cup R : TaskOf(c, docs, t) BY DEF Plan
<1> QED BY <1>2, <1>3, <1>4 DEF Plan

\* Only after an index task does a document remain to be put.
LEMMA NoPutLeft ==
    ASSUME NEW c, NEW h, NEW R, NEW N, NEW idx, NEW gone, \A t \in R : InOrder(c, h, t), ~IndexTask(h),
           \A n \in N : n[1] # "putBucket"
    PROVE  Ready(idx, gone, N \cup R)
BY DEF InOrder, Ready

\* upsert_user and delete_user touch neither documents nor indices of buckets.
LEMMA PlanUser ==
    ASSUME NEW c, NEW docs, NEW idx, NEW gone, NEW h, NEW R,
           Plan(c, docs, idx, gone, {h} \cup R), \A t \in R : InOrder(c, h, t),
           h[1] \in {"upsertUser", "deleteUser"}
    PROVE  Plan(c, docs, idx, gone, {} \cup R)
<1>1. ~IndexTask(h) BY DEF IndexTask
<1>2. Ready(idx, gone, {} \cup R) BY <1>1, NoPutLeft
<1>3. \A p, b : ~Revokes(c, idx, h, p, b) BY DEF Revokes
<1> QED BY <1>2, <1>3, PlanReplace

\* delete_user with cleanup finds every bucket of the index.
LEMMA PlanCleanup ==
    ASSUME NEW c, NEW docs, NEW idx, NEW gone, NEW h, NEW R, NEW N,
           Plan(c, docs, idx, gone, {h} \cup R), \A t \in R : InOrder(c, h, t),
           h[1] = "cleanup", c.op \in Operations,
           N = {<<"cleanBucket", h[2], b>> : b \in idx[h[2]]}
    PROVE  Plan(c, docs, idx, gone, N \cup R) /\ c.op = "user rm"
<1>1. ASSUME NEW n \in N PROVE n[1] = "cleanBucket" /\ n[2] = h[2]
  <2>1. PICK b \in idx[h[2]] : n = <<"cleanBucket", h[2], b>> BY <1>1
  <2> QED BY <2>1
<1>2. ~IndexTask(h) BY DEF IndexTask
<1>3. Ready(idx, gone, N \cup R) BY <1>1, <1>2, NoPutLeft
<1>4. TaskOf(c, docs, h) BY DEF Plan
<1>5. c.op = "user rm" /\ h[2] = c.user BY <1>4 DEF TaskOf, Operations
<1>6. \A n \in N : TaskOf(c, docs, n) BY <1>1, <1>5 DEF TaskOf
<1>7. ASSUME NEW p \in Principals \ gone, NEW b \in Buckets, Revokes(c, idx, h, p, b)
      PROVE  \E n \in N : Revokes(c, idx, n, p, b)
  <2>1. h[2] = p /\ b \in idx[h[2]] BY <1>7 DEF Revokes
  <2>2. <<"cleanBucket", h[2], b>> \in N BY <2>1
  <2>3. Revokes(c, idx, <<"cleanBucket", h[2], b>>, p, b) BY <2>1 DEF Revokes
  <2> QED BY <2>2, <2>3
<1>8. \A n \in N : \A p, b : ~Unindexes(n, p, b) BY <1>1 DEF Unindexes
<1> HIDE DEF Plan
<1> QED BY <1>3, <1>5, <1>6, <1>7, <1>8, PlanReplace

\* The grant that a bucket gives the user is found, and is to be taken away.
LEMMA PlanCleanBucket ==
    ASSUME NEW c, NEW docs, NEW idx, NEW gone, NEW h, NEW R, NEW N,
           Plan(c, docs, idx, gone, {h} \cup R), \A t \in R : InOrder(c, h, t),
           h[1] = "cleanBucket", c.op \in Operations,
           NEW rest, rest = {e \in docs[h[3]].acl : e[1] # h[2]},
           N = IF rest # docs[h[3]].acl THEN {<<"setBucketAcl", h[3], rest>>} ELSE {}
    PROVE  Plan(c, docs, idx, gone, N \cup R) /\ c.op = "user rm"
<1>1. ASSUME NEW n \in N
      PROVE  n[1] = "setBucketAcl" /\ n[2] = h[3] /\ n[3] = rest /\ rest # docs[h[3]].acl
  <2>1. CASE rest # docs[h[3]].acl
    <3>1. n = <<"setBucketAcl", h[3], rest>> BY <1>1, <2>1
    <3> QED BY <2>1, <3>1
  <2>2. CASE rest = docs[h[3]].acl BY <1>1, <2>2
  <2> QED BY <2>1, <2>2
<1>2. ~IndexTask(h) BY DEF IndexTask
<1>3. Ready(idx, gone, N \cup R) BY <1>1, <1>2, NoPutLeft
<1>4. TaskOf(c, docs, h) BY DEF Plan
<1>5. c.op = "user rm" /\ h[2] = c.user BY <1>4 DEF TaskOf, Operations
<1>6. h[2] \notin Named(rest) BY DEF Named
<1>7. ASSUME rest # docs[h[3]].acl PROVE Named(docs[h[3]].acl) = Named(rest) \cup {h[2]}
  <2>1. PICK e \in docs[h[3]].acl : e[1] = h[2] BY <1>7
  <2>2. h[2] \in Named(docs[h[3]].acl) BY <2>1 DEF Named
  <2>3. Named(rest) \subseteq Named(docs[h[3]].acl) BY DEF Named
  <2>4. \A f \in docs[h[3]].acl : f[1] # h[2] => f[1] \in Named(rest) BY DEF Named
  <2>5. \A p \in Named(docs[h[3]].acl) : p # h[2] => p \in Named(rest) BY <2>4 DEF Named
  <2> QED BY <2>2, <2>3, <2>5
<1>8. ASSUME NEW n \in N PROVE TaskOf(c, docs, n)
  <2>1. n[1] = "setBucketAcl" /\ n[2] = h[3] /\ n[3] = rest /\ rest # docs[h[3]].acl BY <1>1, <1>8
  <2>2. Reduces(docs, c.user, n[2], n[3]) BY <1>5, <1>6, <1>7, <2>1 DEF Reduces
  <2> QED BY <1>5, <2>1, <2>2 DEF TaskOf
<1>9. ASSUME NEW p \in Principals \ gone, NEW b \in Buckets, Grants(docs, p, b), Revokes(c, idx, h, p, b)
      PROVE  \E n \in N : Revokes(c, idx, n, p, b)
  <2>1. h[2] = p /\ h[3] = b BY <1>9 DEF Revokes
  <2>2. rest # docs[h[3]].acl BY <1>6, <1>9, <2>1 DEF Grants
  <2>3. <<"setBucketAcl", h[3], rest>> \in N BY <2>2
  <2>4. Revokes(c, idx, <<"setBucketAcl", h[3], rest>>, p, b) BY <1>6, <2>1 DEF Revokes
  <2> QED BY <2>3, <2>4
<1>10. \A n \in N : \A p, b : ~Unindexes(n, p, b) BY <1>1 DEF Unindexes
<1>11. Plan(c, docs, idx, gone, N \cup R) BY ONLY <1>3, <1>8, <1>9, <1>10, PlanReplace,
     Plan(c, docs, idx, gone, {h} \cup R)
<1> QED BY <1>5, <1>11

\* index_add_bucket reads the index of a principal.
LEMMA PlanAddIndex ==
    ASSUME NEW c, NEW docs, NEW idx, NEW gone, NEW h, NEW R, NEW N,
           Plan(c, docs, idx, gone, {h} \cup R), \A t \in R : InOrder(c, h, t),
           h[1] = "addIndex", c.op \in Operations,
           N = IF h[3] \notin idx[h[2]] THEN {<<"writeIndex", h[2], idx[h[2]] \cup {h[3]}>>} ELSE {}
    PROVE  Plan(c, docs, idx, gone, N \cup R)
<1>1. ASSUME NEW n \in N
      PROVE  n[1] = "writeIndex" /\ n[2] = h[2] /\ n[3] = idx[h[2]] \cup {h[3]}
  <2>1. CASE h[3] \notin idx[h[2]]
    <3>1. n = <<"writeIndex", h[2], idx[h[2]] \cup {h[3]}>> BY <1>1, <2>1
    <3> QED BY <3>1
  <2>2. CASE h[3] \in idx[h[2]] BY <1>1, <2>2
  <2> QED BY <2>1, <2>2
<1>2. TaskOf(c, docs, h) BY DEF Plan
<1>3. c.op \in {"bucket add", "acl-set", "import"} /\ h[3] = c.bucket BY <1>2 DEF TaskOf, Operations
<1>4. \A n \in N : TaskOf(c, docs, n) BY <1>1, <1>3 DEF TaskOf
<1>5. \A p, b : ~Revokes(c, idx, h, p, b) BY DEF Revokes
<1>6. ASSUME NEW p \in Principals \ gone, NEW b \in Buckets, NEW n \in N,
             Grants(docs, p, b), Unindexes(n, p, b)
      PROVE  Unindexes(h, p, b) \/ \E t \in N \cup R : Revokes(c, idx, t, p, b)
  <2>1. p = h[2] /\ b \notin idx[p] BY <1>1, <1>6 DEF Unindexes
  <2>2. PICK t \in {h} \cup R : Revokes(c, idx, t, p, b) BY <1>6, <2>1 DEF Plan, Covered
  <2>3. t \in R BY <1>5, <2>2
  <2> QED BY <2>2, <2>3
<1>7. Ready(idx, gone, N \cup R)
  <2> SUFFICES ASSUME NEW s \in N \cup R, s[1] = "putBucket", NEW p \in Named(s[3].acl) \ gone
               PROVE  /\ s[2] \in idx[p] \/ \E t \in N \cup R : Indexes(t, p, s[2])
                      /\ \A t \in N \cup R : ~Unindexes(t, p, s[2])
    BY DEF Ready
  <2>1. s \in R BY <1>1
  <2>2. TaskOf(c, docs, s) BY <2>1 DEF Plan
  <2>3. s[2] = h[3] BY <1>3, <2>2 DEF TaskOf
  <2>4. /\ s[2] \in idx[p] \/ \E t \in {h} \cup R : Indexes(t, p, s[2])
        /\ \A t \in {h} \cup R : ~Unindexes(t, p, s[2])
    BY <2>1 DEF Plan, Ready
  <2>5. ASSUME NEW t \in N PROVE ~Unindexes(t, p, s[2])
    BY <1>1, <2>3, <2>5 DEF Unindexes
  <2>6. ASSUME s[2] \notin idx[p] PROVE \E t \in N \cup R : Indexes(t, p, s[2])
    <3>1. PICK t \in {h} \cup R : Indexes(t, p, s[2]) BY <2>4, <2>6
    <3>2. CASE t \in R BY <3>1, <3>2
    <3>3. CASE t = h
      <4>1. p = h[2] BY <3>1, <3>3 DEF Indexes
      <4>2. <<"writeIndex", h[2], idx[h[2]] \cup {h[3]}>> \in N BY <2>3, <2>6, <4>1
      <4>3. Indexes(<<"writeIndex", h[2], idx[h[2]] \cup {h[3]}>>, p, s[2]) BY <2>3, <4>1 DEF Indexes
      <4> QED BY <4>2, <4>3
    <3> QED BY <3>2, <3>3
  <2> QED BY <2>4, <2>5, <2>6
<1> QED BY ONLY <1>4, <1>5, <1>6, <1>7, PlanReplace, Plan(c, docs, idx, gone, {h} \cup R)

\* index_remove_bucket reads the index of a principal.
LEMMA PlanRemoveIndex ==
    ASSUME NEW c, NEW docs, NEW idx, NEW gone, NEW h, NEW R, NEW N,
           Plan(c, docs, idx, gone, {h} \cup R), \A t \in R : InOrder(c, h, t),
           h[1] = "removeIndex", c.op \in Operations,
           N = IF h[3] \in idx[h[2]] THEN {<<"writeIndex", h[2], idx[h[2]] \ {h[3]}>>} ELSE {}
    PROVE  Plan(c, docs, idx, gone, N \cup R)
<1>1. ASSUME NEW n \in N
      PROVE  n[1] = "writeIndex" /\ n[2] = h[2] /\ n[3] = idx[h[2]] \ {h[3]}
  <2>1. CASE h[3] \in idx[h[2]]
    <3>1. n = <<"writeIndex", h[2], idx[h[2]] \ {h[3]}>> BY <1>1, <2>1
    <3> QED BY <3>1
  <2>2. CASE h[3] \notin idx[h[2]] BY <1>1, <2>2
  <2> QED BY <2>1, <2>2
<1>2. TaskOf(c, docs, h) BY DEF Plan
<1>3. /\ c.op \in {"bucket add", "acl-set", "import", "user rm", "bucket rm"}
      /\ c.op = "user rm" => h[2] = c.user
      /\ c.op \in {"bucket add", "acl-set", "import"} => h[3] = c.bucket
  BY <1>2 DEF TaskOf, Operations
<1>4. \A n \in N : TaskOf(c, docs, n) BY <1>1, <1>3 DEF TaskOf
<1>5. \A p, b : ~Revokes(c, idx, h, p, b) BY DEF Revokes
<1>6. ASSUME NEW p \in Principals \ gone, NEW b \in Buckets, NEW n \in N,
             Grants(docs, p, b), Unindexes(n, p, b)
      PROVE  Unindexes(h, p, b) \/ \E t \in N \cup R : Revokes(c, idx, t, p, b)
  <2>1. p = h[2] /\ b \notin idx[p] \ {h[3]} BY <1>1, <1>6 DEF Unindexes
  <2>2. CASE b = h[3]
    <3>1. Unindexes(h, p, b) BY <2>1, <2>2 DEF Unindexes
    <3> QED BY <3>1
  <2>3. CASE b \notin idx[p]
    <3>1. PICK t \in {h} \cup R : Revokes(c, idx, t, p, b) BY <1>6, <2>3 DEF Plan, Covered
    <3>2. t \in R BY <1>5, <3>1
    <3> QED BY <3>1, <3>2
  <2> QED BY <2>1, <2>2, <2>3
<1>7. Ready(idx, gone, N \cup R)
  <2> SUFFICES ASSUME NEW s \in N \cup R, s[1] = "putBucket", NEW p \in Named(s[3].acl) \ gone
               PROVE  /\ s[2] \in idx[p] \/ \E t \in N \cup R : Indexes(t, p, s[2])
                      /\ \A t \in N \cup R : ~Unindexes(t, p, s[2])
    BY DEF Ready
  <2>1. s \in R BY <1>1
  <2>2. TaskOf(c, docs, s) BY <2>1 DEF Plan
  <2>3. /\ s[2] \in idx[p] \/ \E t \in {h} \cup R : Indexes(t, p, s[2])
        /\ \A t \in {h} \cup R : ~Unindexes(t, p, s[2])
    BY <2>1 DEF Plan, Ready
  <2>4. ~Unindexes(h, p, s[2]) /\ ~Indexes(h, p, s[2]) BY <2>3 DEF Indexes
  <2>5. p # h[2]
    <3>1. CASE c.op = "user rm"
      <4>1. Reduces(docs, c.user, s[2], s[3].acl) BY <2>2, <3>1 DEF TaskOf
      <4> QED BY <1>3, <3>1, <4>1 DEF Reduces
    <3>2. CASE c.op = "bucket rm" BY <2>2, <3>2 DEF TaskOf
    <3>3. CASE c.op \in {"bucket add", "acl-set", "import"}
      <4>1. s[2] = h[3] BY <1>3, <2>2, <3>3 DEF TaskOf
      <4> QED BY <2>4, <4>1 DEF Unindexes
    <3> QED BY <1>3, <3>1, <3>2, <3>3
  <2>6. \A t \in N : ~Unindexes(t, p, s[2]) BY <1>1, <2>5 DEF Unindexes
  <2> QED BY <2>3, <2>4, <2>6
<1> QED BY ONLY <1>4, <1>5, <1>6, <1>7, PlanReplace, Plan(c, docs, idx, gone, {h} \cup R)

\* set_bucket_acl reads the document.
LEMMA PlanSetBucketAcl ==
    ASSUME NEW c, NEW docs, NEW idx, NEW gone, NEW h, NEW R, NEW N, NEW doc,
           Plan(c, docs, idx, gone, {h} \cup R), \A t \in R : InOrder(c, h, t),
           h[1] = "setBucketAcl", c.op \in Operations, doc.acl = h[3],
           N = {<<"upsertBucket", h[2], doc>>}
    PROVE  Plan(c, docs, idx, gone, N \cup R)
<1>1. ASSUME NEW n \in N PROVE n[1] = "upsertBucket" /\ n[2] = h[2] /\ n[3] = doc
  <2>1. n = <<"upsertBucket", h[2], doc>> BY <1>1
  <2> QED BY <2>1
<1>2. ~IndexTask(h) BY DEF IndexTask
<1>3. Ready(idx, gone, N \cup R) BY <1>1, <1>2, NoPutLeft
<1>4. TaskOf(c, docs, h) BY DEF Plan
<1>5. ASSUME NEW n \in N PROVE TaskOf(c, docs, n)
  <2>1. n[1] = "upsertBucket" /\ n[2] = h[2] /\ n[3].acl = h[3] BY <1>1, <1>5
  <2> QED BY <1>4, <2>1 DEF TaskOf, Operations
<1>6. ASSUME NEW p \in Principals \ gone, NEW b \in Buckets, Revokes(c, idx, h, p, b)
      PROVE  \E n \in N : Revokes(c, idx, n, p, b)
  <2>1. PICK n : n \in N OBVIOUS
  <2>2. n[1] = "upsertBucket" /\ n[2] = h[2] /\ n[3].acl = h[3] BY <1>1, <2>1
  <2>3. Revokes(c, idx, n, p, b) BY <1>6, <2>2 DEF Revokes
  <2> QED BY <2>1, <2>3
<1>7. \A n \in N : \A p, b : ~Unindexes(n, p, b) BY <1>1 DEF Unindexes
<1> QED BY ONLY <1>3, <1>5, <1>6, <1>7, PlanReplace, Plan(c, docs, idx, gone, {h} \cup R)

\* delete_bucket reads the document: the indices first, then the document.
LEMMA PlanDeleteBucket ==
    ASSUME NEW c, NEW docs, NEW idx, NEW gone, NEW h, NEW R, NEW N,
           Plan(c, docs, idx, gone, {h} \cup R), \A t \in R : InOrder(c, h, t),
           h[1] = "deleteBucket", c.op \in Operations,
           N = IF docs[h[2]] = NoDoc THEN {}
               ELSE {<<"removeIndex", p, h[2]>> : p \in Named(docs[h[2]].acl)} \cup {<<"deleteDoc", h[2]>>}
    PROVE  Plan(c, docs, idx, gone, N \cup R)
<1>1. ASSUME NEW n \in N
      PROVE  /\ (n[1] = "removeIndex" /\ n[3] = h[2]) \/ (n[1] = "deleteDoc" /\ n[2] = h[2])
             /\ docs[h[2]] # NoDoc
  <2>1. CASE docs[h[2]] = NoDoc BY <1>1, <2>1
  <2>2. CASE docs[h[2]] # NoDoc
    <3>1. CASE n = <<"deleteDoc", h[2]>> BY <2>2, <3>1
    <3>2. CASE n # <<"deleteDoc", h[2]>>
      <4>1. PICK p \in Named(docs[h[2]].acl) : n = <<"removeIndex", p, h[2]>> BY <1>1, <2>2, <3>2
      <4> QED BY <2>2, <4>1
    <3> QED BY <3>1, <3>2
  <2> QED BY <2>1, <2>2
<1>2. ~IndexTask(h) BY DEF IndexTask
<1>3. Ready(idx, gone, N \cup R) BY <1>1, <1>2, NoPutLeft
<1>4. TaskOf(c, docs, h) BY DEF Plan
<1>5. c.op = "bucket rm" /\ h[2] = c.bucket BY <1>4 DEF TaskOf, Operations
<1>6. \A n \in N : TaskOf(c, docs, n) BY <1>1, <1>5 DEF TaskOf
<1>7. ASSUME docs[h[2]] # NoDoc, NEW p PROVE \E n \in N : Revokes(c, idx, n, p, h[2])
  <2>1. <<"deleteDoc", h[2]>> \in N BY <1>7
  <2>2. Revokes(c, idx, <<"deleteDoc", h[2]>>, p, h[2]) BY DEF Revokes
  <2> QED BY <2>1, <2>2
<1>8. ASSUME NEW p \in Principals \ gone, NEW b \in Buckets, Grants(docs, p, b), Revokes(c, idx, h, p, b)
      PROVE  \E n \in N : Revokes(c, idx, n, p, b)
  <2>1. b = h[2] BY <1>8 DEF Revokes
  <2>2. docs[b] # NoDoc BY <1>8 DEF Grants, Named, NoDoc
  <2> QED BY <1>7, <2>1, <2>2
<1>9. ASSUME NEW p \in Principals \ gone, NEW b \in Buckets, NEW n \in N,
             Grants(docs, p, b), Unindexes(n, p, b)
      PROVE  Unindexes(h, p, b) \/ \E t \in N \cup R : Revokes(c, idx, t, p, b)
  <2>1. b = h[2] /\ docs[h[2]] # NoDoc BY <1>1, <1>9 DEF Unindexes
  <2>2. \E t \in N : Revokes(c, idx, t, p, b) BY <1>7, <2>1
  <2> QED BY <2>2
<1> QED BY ONLY <1>3, <1>6, <1>8, <1>9, PlanReplace, Plan(c, docs, idx, gone, {h} \cup R)

\* What purge_tree does to the keys of a directory.
Leaves(N, dir, leaf, keys, docs) ==
    /\ N = {<<leaf, k>> : k \in keys}
    /\ leaf \in {"deleteUser", "deleteDoc", "deleteIndex"}
    /\ leaf = "deleteIndex" => dir \in {"index/group", "index/access_key"}
    /\ dir = "buckets" => leaf = "deleteDoc" /\ \A b \in Buckets : docs[b] # NoDoc => b \in keys

\* purge_tree lists a directory: every bucket document is to be deleted.
LEMMA PlanPurge ==
    ASSUME NEW c, NEW docs, NEW idx, NEW gone, NEW h, NEW R, NEW N, NEW keys, NEW leaf,
           Plan(c, docs, idx, gone, {h} \cup R), \A t \in R : InOrder(c, h, t),
           h[1] = "purge", c.op \in Operations, Leaves(N, h[2], leaf, keys, docs)
    PROVE  Plan(c, docs, idx, gone, N \cup R)
<1>1. ASSUME NEW n \in N PROVE n[1] = leaf
  <2>1. PICK k \in keys : n = <<leaf, k>> BY <1>1 DEF Leaves
  <2> QED BY <2>1
<1>2. /\ leaf \in {"deleteUser", "deleteDoc", "deleteIndex"}
      /\ leaf = "deleteIndex" => h[2] \in {"index/group", "index/access_key"}
      /\ h[2] = "buckets" => leaf = "deleteDoc"
  BY DEF Leaves
<1>3. ~IndexTask(h) BY DEF IndexTask
<1>4. Ready(idx, gone, N \cup R) BY <1>1, <1>2, <1>3, NoPutLeft
<1>5. TaskOf(c, docs, h) BY DEF Plan
<1>6. Replaces(c) BY <1>5 DEF TaskOf, Operations
<1>7. c.op = "import" BY <1>6 DEF Replaces
<1>8. \A n \in N : TaskOf(c, docs, n) BY <1>1, <1>2, <1>6, <1>7 DEF TaskOf
<1>9. ASSUME NEW p \in Principals \ gone, NEW b \in Buckets, Grants(docs, p, b), Revokes(c, idx, h, p, b)
      PROVE  \E n \in N : Revokes(c, idx, n, p, b)
  <2>1. h[2] = "buckets" BY <1>9 DEF Revokes
  <2>2. docs[b] # NoDoc BY <1>9 DEF Grants, Named, NoDoc
  <2>3. b \in keys BY <2>1, <2>2 DEF Leaves
  <2>4. <<"deleteDoc", b>> \in N BY <1>2, <2>1, <2>3 DEF Leaves
  <2>5. Revokes(c, idx, <<"deleteDoc", b>>, p, b) BY DEF Revokes
  <2> QED BY <2>4, <2>5
<1>10. ASSUME NEW p \in Principals \ gone, NEW b \in Buckets, NEW n \in N, Unindexes(n, p, b)
       PROVE  Unindexes(h, p, b)
  <2>1. leaf = "deleteIndex" BY <1>1, <1>2, <1>10 DEF Unindexes
  <2> QED BY <1>2, <2>1 DEF Unindexes
<1> QED BY ONLY <1>4, <1>8, <1>9, <1>10, PlanReplace, Plan(c, docs, idx, gone, {h} \cup R)

\* normalize_acl names the same principals.
LEMMA NormalizedNames == ASSUME NEW acl \in Acls PROVE Named(NormalizeAcl(acl)) = Named(acl)
<1>1. Named(NormalizeAcl(acl)) \subseteq Named(acl) BY DEF Named, NormalizeAcl
<1>2. ASSUME NEW p \in Named(acl) PROVE p \in Named(NormalizeAcl(acl))
  <2>1. \A e \in acl : e[2] \in Levels BY DEF Acls
  <2>2. PICK e \in acl : e[1] = p BY DEF Named
  <2>3. CASE \E f \in acl : f[1] = p /\ f[2] = 2
    <3>1. PICK f \in acl : f[1] = p /\ f[2] = 2 BY <2>3
    <3>2. f \in NormalizeAcl(acl) BY <2>1, <3>1 DEF NormalizeAcl, Levels
    <3> QED BY <3>1, <3>2 DEF Named
  <2>4. CASE \A f \in acl : f[1] = p => f[2] # 2
    <3>1. \A f \in acl : f[1] = p => f[2] = 1 BY <2>1, <2>4 DEF Levels
    <3>2. e \in NormalizeAcl(acl) BY <2>2, <3>1 DEF NormalizeAcl
    <3> QED BY <2>2, <3>2 DEF Named
  <2> QED BY <2>3, <2>4
<1> QED BY <1>1, <1>2

\* upsert_bucket reads the document that it replaces.
LEMMA PlanUpsertBucket ==
    ASSUME NEW c, NEW docs, NEW idx, NEW gone, NEW h, NEW R, NEW N, NEW doc,
           NEW old, NEW new, NEW out, NEW in,
           Plan(c, docs, idx, gone, {h} \cup R), \A t \in R : InOrder(c, h, t),
           h[1] = "upsertBucket", c.op \in Operations, h[2] \in Buckets,
           Named(doc.acl) = Named(h[3].acl), Named(doc.acl) \subseteq Principals,
           old = Named(docs[h[2]].acl), new = Named(doc.acl),
           out = {<<"removeIndex", p, h[2]>> : p \in old \ new},
           in = {<<"addIndex", p, h[2]>> : p \in new \ old},
           N = out \cup in \cup {<<"putBucket", h[2], doc>>}
    PROVE  Plan(c, docs, idx, gone, N \cup R)
<1> DEFINE put == <<"putBucket", h[2], doc>>
<1>0. put \in N /\ put[1] = "putBucket" /\ put[2] = h[2] /\ put[3] = doc OBVIOUS
<1> HIDE DEF put
<1>1. ASSUME NEW n \in out PROVE n[1] = "removeIndex" /\ n[2] \in old \ new /\ n[3] = h[2]
  <2>1. PICK p \in old \ new : n = <<"removeIndex", p, h[2]>> BY <1>1
  <2> QED BY <2>1
<1>2. ASSUME NEW n \in in PROVE n[1] = "addIndex" /\ n[2] \in new \ old /\ n[3] = h[2]
  <2>1. PICK p \in new \ old : n = <<"addIndex", p, h[2]>> BY <1>2
  <2> QED BY <2>1
<1>3. N = out \cup in \cup {put} BY DEF put
<1>4. TaskOf(c, docs, h) BY DEF Plan
<1>5. /\ c.op \in {"user rm", "bucket add", "acl-set", "import"}
      /\ c.op = "user rm" => Reduces(docs, c.user, h[2], h[3].acl)
      /\ c.op # "user rm" => h[2] = c.bucket /\ new = Grantees(c)
  BY <1>4 DEF TaskOf, Operations
<1>6. c.op = "user rm" => c.user \notin new /\ old = new \cup {c.user} BY <1>5 DEF Reduces
<1>7. c.op # "user rm" => R = {} BY DEF InOrder
<1>8. ASSUME NEW n \in N PROVE TaskOf(c, docs, n)
  <2>1. CASE n \in out
    <3>1. n[1] = "removeIndex" /\ n[2] \in old \ new /\ n[3] = h[2] BY <1>1, <2>1
    <3>2. c.op = "user rm" => n[2] = c.user BY <1>6, <3>1
    <3> QED BY <1>5, <3>1, <3>2 DEF TaskOf
  <2>2. CASE n \in in
    <3>1. n[1] = "addIndex" /\ n[2] \in new \ old /\ n[3] = h[2] BY <1>2, <2>2
    <3>2. c.op # "user rm" BY <1>6, <3>1
    <3> QED BY <1>5, <3>1, <3>2 DEF TaskOf
  <2>3. CASE n = put
    <3>1. n[1] = "putBucket" /\ n[2] = h[2] /\ Named(n[3].acl) = new BY <1>0, <2>3
    <3>2. c.op = "user rm" => Reduces(docs, c.user, n[2], n[3].acl) BY <1>6, <3>1 DEF Reduces
    <3> QED BY <1>5, <3>1, <3>2 DEF TaskOf
  <2> QED BY <1>3, <1>8, <2>1, <2>2, <2>3
<1>9. ASSUME NEW p, p \notin new PROVE \E t \in N : Revokes(c, idx, t, p, h[2])
  <2>1. Revokes(c, idx, put, p, h[2]) BY <1>0, <1>9 DEF Revokes
  <2> QED BY <1>0, <2>1
<1>10. ASSUME NEW p \in Principals \ gone, NEW b \in Buckets, Grants(docs, p, b), Revokes(c, idx, h, p, b)
       PROVE  \E n \in N : Revokes(c, idx, n, p, b)
  <2>1. b = h[2] /\ p \notin new BY <1>10 DEF Revokes
  <2> QED BY <1>9, <2>1
<1>11. ASSUME NEW p \in Principals \ gone, NEW b \in Buckets, NEW n \in N,
              Grants(docs, p, b), Unindexes(n, p, b)
       PROVE  Unindexes(h, p, b) \/ \E t \in N \cup R : Revokes(c, idx, t, p, b)
  <2>1. n \in out BY <1>0, <1>2, <1>3, <1>11 DEF Unindexes
  <2>2. b = h[2] /\ p \notin new BY <1>1, <1>11, <2>1 DEF Unindexes
  <2>3. \E t \in N : Revokes(c, idx, t, p, b) BY <1>9, <2>2
  <2> QED BY <2>3
<1>12. \A t \in R : t[1] # "putBucket" BY DEF InOrder, IndexTask
<1>13. ASSUME NEW p \in new \ gone, p \in old PROVE h[2] \in idx[p]
  <2>1. p \in Principals \ gone /\ Grants(docs, p, h[2]) BY <1>13 DEF Grants
  <2>2. SUFFICES ASSUME NEW t \in {h} \cup R, Revokes(c, idx, t, p, h[2]) PROVE FALSE
    BY <2>1 DEF Plan, Covered
  <2>3. t # h BY <1>13, <2>2 DEF Revokes
  <2>4. t \in R /\ c.op = "user rm" BY <1>7, <2>3
  <2>5. TaskOf(c, docs, t) /\ InOrder(c, h, t) BY <2>4 DEF Plan
  <2>6. p # c.user BY <1>6, <1>13, <2>4
  <2>7. /\ t[1] \in {"cleanBucket", "removeIndex", "deleteUser", "deleteIndex"}
        /\ t[2] = c.user
    BY <1>12, <2>4, <2>5 DEF TaskOf, InOrder
  <2> QED BY <2>2, <2>6, <2>7 DEF Revokes
<1>14. ASSUME NEW p \in new \ gone PROVE h[2] \in idx[p] \/ \E t \in N \cup R : Indexes(t, p, h[2])
  <2>1. CASE p \in old BY <1>13, <2>1
  <2>2. CASE p \notin old
    <3>1. PICK t : t = <<"addIndex", p, h[2]>> OBVIOUS
    <3>2. t \in in BY <2>2, <3>1
    <3>3. Indexes(t, p, h[2]) BY <3>1 DEF Indexes
    <3> QED BY <1>3, <3>2, <3>3
  <2> QED BY <2>1, <2>2
<1>15. ASSUME NEW p \in new \ gone, NEW t \in N \cup R PROVE ~Unindexes(t, p, h[2])
  <2>1. CASE t \in out BY <1>1, <2>1 DEF Unindexes
  <2>2. CASE t \in in BY <1>2, <2>2 DEF Unindexes
  <2>3. CASE t = put BY <1>0, <2>3 DEF Unindexes
  <2>4. CASE t \in R
    <3>1. c.op = "user rm" /\ TaskOf(c, docs, t) BY <1>7, <2>4 DEF Plan
    <3>2. p # c.user BY <1>6, <3>1
    <3> QED BY <3>1, <3>2 DEF TaskOf, Unindexes
  <2> QED BY <1>3, <1>15, <2>1, <2>2, <2>3, <2>4
<1>16. Ready(idx, gone, N \cup R)
  <2> SUFFICES ASSUME NEW s \in N \cup R, s[1] = "putBucket", NEW p \in Named(s[3].acl) \ gone
               PROVE  /\ s[2] \in idx[p] \/ \E t \in N \cup R : Indexes(t, p, s[2])
                      /\ \A t \in N \cup R : ~Unindexes(t, p, s[2])
    BY DEF Ready
  <2>1. s = put BY <1>1, <1>2, <1>3, <1>12
  <2>2. s[2] = h[2] /\ p \in new \ gone BY <1>0, <2>1
  <2> QED BY <1>14, <1>15, <2>2
<1> QED BY ONLY <1>8, <1>10, <1>11, <1>16, PlanReplace, Plan(c, docs, idx, gone, {h} \cup R)

\* An index is written: idx2 is idx but for the principal h[2].
LEMMA PlanWriteIndex ==
    ASSUME NEW c, NEW docs, NEW idx, NEW gone, NEW h, NEW R, NEW idx2,
           Plan(c, docs, idx, gone, {h} \cup R), \A t \in R : InOrder(c, h, t),
           h[1] = "writeIndex", idx2[h[2]] = h[3], \A p \in Principals : p # h[2] => idx2[p] = idx[p],
           \A t \in R : t[1] = "putBucket" => Named(t[3].acl) \subseteq Principals
    PROVE  Plan(c, docs, idx2, gone, R)
<1>1. ASSUME NEW t \in R, NEW p, NEW b, Revokes(c, idx, t, p, b) PROVE Revokes(c, idx2, t, p, b)
  <2>1. t[1] # "cleanup" BY DEF InOrder
  <2> QED BY <1>1, <2>1 DEF Revokes
<1>2. \A p, b : ~Revokes(c, idx, h, p, b) BY DEF Revokes
<1>3. ASSUME NEW p \in Principals \ gone, NEW b \in Buckets, NEW t \in {h} \cup R, Revokes(c, idx, t, p, b)
      PROVE  \E s \in R : Revokes(c, idx2, s, p, b)
  <2>1. t \in R BY <1>2, <1>3
  <2>2. Revokes(c, idx2, t, p, b) BY <1>1, <1>3, <2>1
  <2> QED BY <2>1, <2>2
<1>4. ASSUME NEW p \in Principals \ gone, NEW b \in Buckets, Grants(docs, p, b),
             NEW s \in {h} \cup R, Unindexes(s, p, b)
      PROVE  \E t \in R : Revokes(c, idx2, t, p, b)
  <2>1. \E t \in {h} \cup R : Revokes(c, idx, t, p, b) BY <1>4 DEF Plan, Guarded
  <2> QED BY <1>3, <2>1
<1>5. Covered(c, docs, idx2, gone, R)
  <2> SUFFICES ASSUME NEW p \in Principals \ gone, NEW b \in Buckets, Grants(docs, p, b), b \notin idx2[p]
               PROVE  \E t \in R : Revokes(c, idx2, t, p, b)
    BY DEF Covered
  <2>1. CASE p = h[2]
    <3>1. Unindexes(h, p, b) BY <2>1 DEF Unindexes
    <3> QED BY <1>4, <3>1
  <2>2. CASE p # h[2]
    <3>1. b \notin idx[p] BY <2>2
    <3>2. \E t \in {h} \cup R : Revokes(c, idx, t, p, b) BY <3>1 DEF Plan, Covered
    <3> QED BY <1>3, <3>2
  <2> QED BY <2>1, <2>2
<1>6. Guarded(c, docs, idx2, gone, R)
  <2> SUFFICES ASSUME NEW p \in Principals \ gone, NEW b \in Buckets, Grants(docs, p, b),
                      NEW s \in R, Unindexes(s, p, b)
               PROVE  \E t \in R : Revokes(c, idx2, t, p, b)
    BY DEF Guarded
  <2> QED BY <1>4
<1>7. Ready(idx2, gone, R)
  <2> SUFFICES ASSUME NEW s \in R, s[1] = "putBucket", NEW p \in Named(s[3].acl) \ gone
               PROVE  /\ s[2] \in idx2[p] \/ \E t \in R : Indexes(t, p, s[2])
                      /\ \A t \in R : ~Unindexes(t, p, s[2])
    BY DEF Ready
  <2>1. /\ s[2] \in idx[p] \/ \E t \in {h} \cup R : Indexes(t, p, s[2])
        /\ \A t \in {h} \cup R : ~Unindexes(t, p, s[2])
    BY DEF Plan, Ready
  <2>2. CASE p = h[2]
    <3>1. s[2] \in h[3] BY <2>1, <2>2 DEF Unindexes
    <3> QED BY <2>1, <2>2, <3>1
  <2>3. CASE p # h[2]
    <3>1. p \in Principals BY <2>3
    <3>2. idx2[p] = idx[p] /\ ~Indexes(h, p, s[2]) BY <2>3, <3>1 DEF Indexes
    <3> QED BY <2>1, <3>2
  <2> QED BY <2>2, <2>3
<1>8. \A t \in R : TaskOf(c, docs, t) BY DEF Plan
<1> QED BY <1>5, <1>6, <1>7, <1>8 DEF Plan

\* An index is deleted; the user of a removal without cleanup is given up.
Others(idx, idx2, x) == \A p \in Principals : p # x => idx2[p] = idx[p]
GivesUp(c, x, gone, gone2) == gone \subseteq gone2 /\ (Forsakes(c) => x \in gone2)
LEMMA PlanDeleteIndex ==
    ASSUME NEW c, NEW docs, NEW idx, NEW gone, NEW h, NEW R, NEW idx2, NEW gone2,
           Plan(c, docs, idx, gone, {h} \cup R), \A t \in R : InOrder(c, h, t),
           h[1] = "deleteIndex", Others(idx, idx2, h[2]), GivesUp(c, h[2], gone, gone2)
    PROVE  Plan(c, docs, idx2, gone2, R)
<1> USE DEF Others, GivesUp
<1>1. ASSUME NEW t \in R, NEW p, NEW b, Revokes(c, idx, t, p, b) PROVE Revokes(c, idx2, t, p, b)
  <2>1. t[1] # "cleanup" BY DEF InOrder
  <2> QED BY <1>1, <2>1 DEF Revokes
<1>2. \A p \in Principals \ gone2, b \in Buckets : ~Revokes(c, idx, h, p, b) BY DEF Revokes
<1>3. ASSUME NEW p \in Principals \ gone2, NEW b \in Buckets, NEW t \in {h} \cup R, Revokes(c, idx, t, p, b)
      PROVE  \E s \in R : Revokes(c, idx2, s, p, b)
  <2>1. t \in R BY <1>2, <1>3
  <2>2. Revokes(c, idx2, t, p, b) BY <1>1, <1>3, <2>1
  <2> QED BY <2>1, <2>2
<1>4. ASSUME NEW p \in Principals \ gone2, NEW b \in Buckets, Grants(docs, p, b),
             NEW s \in {h} \cup R, Unindexes(s, p, b)
      PROVE  \E t \in R : Revokes(c, idx2, t, p, b)
  <2>1. p \in Principals \ gone OBVIOUS
  <2>2. \E t \in {h} \cup R : Revokes(c, idx, t, p, b) BY <1>4, <2>1 DEF Plan, Guarded
  <2> QED BY <1>3, <2>2
<1>5. Covered(c, docs, idx2, gone2, R)
  <2> SUFFICES ASSUME NEW p \in Principals \ gone2, NEW b \in Buckets, Grants(docs, p, b), b \notin idx2[p]
               PROVE  \E t \in R : Revokes(c, idx2, t, p, b)
    BY DEF Covered
  <2>1. CASE p = h[2]
    <3>1. Unindexes(h, p, b) BY <2>1 DEF Unindexes
    <3> QED BY <1>4, <3>1
  <2>2. CASE p # h[2]
    <3>1. b \notin idx[p] /\ p \in Principals \ gone BY <2>2
    <3>2. \E t \in {h} \cup R : Revokes(c, idx, t, p, b) BY <3>1 DEF Plan, Covered
    <3> QED BY <1>3, <3>2
  <2> QED BY <2>1, <2>2
<1>6. Guarded(c, docs, idx2, gone2, R)
  <2> SUFFICES ASSUME NEW p \in Principals \ gone2, NEW b \in Buckets, Grants(docs, p, b),
                      NEW s \in R, Unindexes(s, p, b)
               PROVE  \E t \in R : Revokes(c, idx2, t, p, b)
    BY DEF Guarded
  <2> QED BY <1>4
<1>7. Ready(idx2, gone2, R) BY DEF Ready, InOrder, IndexTask
<1>8. \A t \in R : TaskOf(c, docs, t) BY DEF Plan
<1> QED BY <1>5, <1>6, <1>7, <1>8 DEF Plan

\* A document is put: docs2 is docs but for the bucket h[2].
LEMMA PlanPutBucket ==
    ASSUME NEW c, NEW docs, NEW idx, NEW gone, NEW h, NEW R, NEW docs2,
           Plan(c, docs, idx, gone, {h} \cup R), \A t \in R : InOrder(c, h, t),
           h[1] = "putBucket", docs2[h[2]] = h[3], \A b \in Buckets : b # h[2] => docs2[b] = docs[b]
    PROVE  Plan(c, docs2, idx, gone, R)
<1>1. ASSUME NEW p \in Principals \ gone, NEW b \in Buckets, Grants(docs2, p, b), b # h[2]
      PROVE  /\ Grants(docs, p, b)
             /\ ~Revokes(c, idx, h, p, b)
  BY <1>1 DEF Grants, Revokes
<1>2. ASSUME NEW p \in Principals \ gone, Grants(docs2, p, h[2])
      PROVE  h[2] \in idx[p] /\ \A t \in R : ~Unindexes(t, p, h[2])
  <2>1. p \in Named(h[3].acl) \ gone BY <1>2 DEF Grants
  <2>2. /\ h[2] \in idx[p] \/ \E t \in {h} \cup R : Indexes(t, p, h[2])
        /\ \A t \in {h} \cup R : ~Unindexes(t, p, h[2])
    BY <2>1 DEF Plan, Ready
  <2>3. \A t \in {h} \cup R : ~Indexes(t, p, h[2]) BY DEF Indexes, InOrder, IndexTask
  <2> QED BY <2>2, <2>3
<1>3. Covered(c, docs2, idx, gone, R)
  <2> SUFFICES ASSUME NEW p \in Principals \ gone, NEW b \in Buckets, Grants(docs2, p, b), b \notin idx[p]
               PROVE  \E t \in R : Revokes(c, idx, t, p, b)
    BY DEF Covered
  <2>1. b # h[2] BY <1>2
  <2>2. Grants(docs, p, b) /\ ~Revokes(c, idx, h, p, b) BY <1>1, <2>1
  <2>3. \E t \in {h} \cup R : Revokes(c, idx, t, p, b) BY <2>2 DEF Plan, Covered
  <2> QED BY <2>2, <2>3
<1>4. Guarded(c, docs2, idx, gone, R)
  <2> SUFFICES ASSUME NEW p \in Principals \ gone, NEW b \in Buckets, Grants(docs2, p, b),
                      NEW s \in R, Unindexes(s, p, b)
               PROVE  \E t \in R : Revokes(c, idx, t, p, b)
    BY DEF Guarded
  <2>1. b # h[2] BY <1>2
  <2>2. Grants(docs, p, b) /\ ~Revokes(c, idx, h, p, b) BY <1>1, <2>1
  <2>3. \E t \in {h} \cup R : Revokes(c, idx, t, p, b) BY <2>2 DEF Plan, Guarded
  <2> QED BY <2>2, <2>3
<1>5. Ready(idx, gone, R) BY DEF Ready, InOrder, IndexTask
<1>6. ASSUME NEW t \in R PROVE TaskOf(c, docs2, t)
  <2>1. TaskOf(c, docs, t) /\ InOrder(c, h, t) BY DEF Plan
  <2>2. c.op = "user rm" => t[1] \notin {"setBucketAcl", "upsertBucket", "putBucket"}
    BY <2>1 DEF InOrder, IndexTask
  <2> QED BY <2>1, <2>2 DEF TaskOf
<1> QED BY <1>3, <1>4, <1>5, <1>6 DEF Plan

\* A document is deleted.
Deletes(docs, docs2, x) == docs2[x] = NoDoc /\ \A b \in Buckets : b # x => docs2[b] = docs[b]
LEMMA PlanDeleteDoc ==
    ASSUME NEW c, NEW docs, NEW idx, NEW gone, NEW h, NEW R, NEW docs2,
           Plan(c, docs, idx, gone, {h} \cup R), \A t \in R : InOrder(c, h, t), c.op \in Operations,
           h[1] = "deleteDoc", Deletes(docs, docs2, h[2])
    PROVE  Plan(c, docs2, idx, gone, R)
<1> USE DEF Deletes
<1>1. ASSUME NEW p \in Principals \ gone, NEW b \in Buckets, Grants(docs2, p, b)
      PROVE  /\ Grants(docs, p, b)
             /\ ~Revokes(c, idx, h, p, b)
  <2>1. b # h[2] BY <1>1 DEF Grants, Named, NoDoc
  <2> QED BY <1>1, <2>1 DEF Grants, Revokes
<1>2. Covered(c, docs2, idx, gone, R)
  <2> SUFFICES ASSUME NEW p \in Principals \ gone, NEW b \in Buckets, Grants(docs2, p, b), b \notin idx[p]
               PROVE  \E t \in R : Revokes(c, idx, t, p, b)
    BY DEF Covered
  <2>1. Grants(docs, p, b) /\ ~Revokes(c, idx, h, p, b) BY <1>1
  <2>2. \E t \in {h} \cup R : Revokes(c, idx, t, p, b) BY <2>1 DEF Plan, Covered
  <2> QED BY <2>1, <2>2
<1>3. Guarded(c, docs2, idx, gone, R)
  <2> SUFFICES ASSUME NEW p \in Principals \ gone, NEW b \in Buckets, Grants(docs2, p, b),
                      NEW s \in R, Unindexes(s, p, b)
               PROVE  \E t \in R : Revokes(c, idx, t, p, b)
    BY DEF Guarded
  <2>1. Grants(docs, p, b) /\ ~Revokes(c, idx, h, p, b) BY <1>1
  <2>2. \E t \in {h} \cup R : Revokes(c, idx, t, p, b) BY <2>1 DEF Plan, Guarded
  <2> QED BY <2>1, <2>2
<1>4. Ready(idx, gone, R) BY DEF Ready, InOrder, IndexTask
<1>5. c.op # "user rm"
  <2>1. TaskOf(c, docs, h) BY DEF Plan
  <2> QED BY <2>1 DEF TaskOf
<1>6. \A t \in R : TaskOf(c, docs2, t) BY <1>5 DEF Plan, TaskOf
<1> QED BY <1>2, <1>3, <1>4, <1>6 DEF Plan

-----------------------------------------------------------------------------
\* A command begins, and a command fails.

\* The tasks of a command at its start.
LEMMA TasksOf ==
    ASSUME NEW c \in AnyCommand
    PROVE  /\ c.op \in Operations
           /\ c.op = "user add" => Left(Tasks(c)) = {<<"upsertUser", c.user>>}
           /\ c.op = "user rm" =>
                Left(Tasks(c)) = (IF c.cleanup THEN {<<"cleanup", c.user>>} ELSE {})
                                   \cup {<<"deleteUser", c.user>>, <<"deleteIndex", c.user>>}
           /\ c.op = "bucket add" => Left(Tasks(c)) = {<<"upsertBucket", c.bucket, c.doc>>}
           /\ c.op = "bucket rm" => Left(Tasks(c)) = {<<"deleteBucket", c.bucket>>}
           /\ c.op = "acl-set" => Left(Tasks(c)) = {<<"setBucketAcl", c.bucket, c.acl>>}
           /\ c.op = "import" =>
                Left(Tasks(c)) = (IF c.replace THEN {<<"purge", "users">>, <<"purge", "buckets">>,
                                                     <<"purge", "index/group">>, <<"purge", "index/access_key">>}
                                  ELSE {})
                                   \cup {<<"upsertUser", c.users[i]>> : i \in 1..Len(c.users)}
                                   \cup {<<"upsertBucket", c.bucket, c.doc>>}
           /\ Ordered(c, Tasks(c))
<1>1. CASE c \in [op : {"user add"}, user : Users]
  <2>1. c.op = "user add" /\ Tasks(c) = << <<"upsertUser", c.user>> >> BY <1>1 DEF Tasks
  <2> QED BY <2>1, LeftOne, OrderedShort DEF Operations
<1>2. CASE c \in [op : {"user rm"}, user : Users, cleanup : BOOLEAN]
  <2> DEFINE v == IF c.cleanup THEN << <<"cleanup", c.user>> >> ELSE << >>
             s == <<"deleteUser", c.user>>
             t == <<"deleteIndex", c.user>>
  <2>1. <<"cleanup", c.user>> \in AnyTask /\ s \in AnyTask /\ t \in AnyTask
    BY <1>2 DEF AnyTask, Principals
  <2>2. c.op = "user rm" /\ Tasks(c) = v \o <<s, t>> BY <1>2 DEF Tasks
  <2>3. v \in Seq(AnyTask) /\ <<s>> \in Seq(AnyTask) /\ <<t>> \in Seq(AnyTask) BY <2>1
  <2>4. <<s, t>> = <<s>> \o <<t>> OBVIOUS
  <2>5. Left(v) = IF c.cleanup THEN {<<"cleanup", c.user>>} ELSE {}
    <3>1. CASE c.cleanup
      <4>1. v = << <<"cleanup", c.user>> >> BY <3>1
      <4> QED BY <3>1, <4>1, LeftOne
    <3>2. CASE ~c.cleanup
      <4>1. v = << >> BY <3>2
      <4> QED BY <3>2, <4>1, LeftNothing
    <3> QED BY <3>1, <3>2
  <2>6. \A x \in Left(v) : x[1] = "cleanup" BY <2>5
  <2>7. Ordered(c, v)
    <3>1. CASE c.cleanup
      <4>1. v = << <<"cleanup", c.user>> >> BY <3>1
      <4> QED BY <4>1, OrderedShort
    <3>2. CASE ~c.cleanup
      <4>1. v = << >> BY <3>2
      <4> QED BY <4>1, OrderedShort
    <3> QED BY <3>1, <3>2
  <2>8. s[1] = "deleteUser" /\ t[1] = "deleteIndex" OBVIOUS
  <2> HIDE DEF v, s, t
  <2>9. <<s, t>> \in Seq(AnyTask) BY <2>3, <2>4
  <2>10. Left(<<s>>) = {s} /\ Left(<<t>>) = {t} BY LeftOne
  <2>11. Left(<<s, t>>) = {s, t}
    <3>1. Left(<<s>> \o <<t>>) = Left(<<s>>) \cup Left(<<t>>) BY <2>3, LeftJoin
    <3>2. Left(<<s, t>>) = Left(<<s>>) \cup Left(<<t>>) BY ONLY <2>4, <3>1, Zenon
    <3> QED BY <2>10, <3>2
  <2>12. Left(Tasks(c)) = Left(v) \cup {s, t} BY <2>2, <2>3, <2>9, <2>11, LeftJoin
  <2>13. Ordered(c, <<s, t>>)
    <3>1. InOrder(c, s, t) BY <2>8 DEF InOrder
    <3>2. Ordered(c, <<s>>) /\ Ordered(c, <<t>>) BY OrderedShort
    <3>3. \A x \in Left(<<s>>), y \in Left(<<t>>) : InOrder(c, x, y) BY <2>10, <3>1
    <3> QED BY <2>3, <2>4, <3>2, <3>3, OrderedJoin
  <2>14. Ordered(c, Tasks(c))
    <3>1. \A x \in Left(v), y \in Left(<<s, t>>) : InOrder(c, x, y)
      BY <2>6, <2>8, <2>11 DEF InOrder
    <3> QED BY <2>2, <2>3, <2>7, <2>9, <2>13, <3>1, OrderedJoin
  <2> QED BY <2>2, <2>5, <2>12, <2>14 DEF Operations, s, t
<1>3. CASE c \in [op : {"bucket add"}, bucket : Buckets, doc : Docs]
  <2>1. c.op = "bucket add" /\ Tasks(c) = << <<"upsertBucket", c.bucket, c.doc>> >> BY <1>3 DEF Tasks
  <2> QED BY <2>1, LeftOne, OrderedShort DEF Operations
<1>4. CASE c \in [op : {"bucket rm"}, bucket : Buckets]
  <2>1. c.op = "bucket rm" /\ Tasks(c) = << <<"deleteBucket", c.bucket>> >> BY <1>4 DEF Tasks
  <2> QED BY <2>1, LeftOne, OrderedShort DEF Operations
<1>5. CASE c \in [op : {"acl-set"}, bucket : Buckets, acl : Acls]
  <2>1. c.op = "acl-set" /\ Tasks(c) = << <<"setBucketAcl", c.bucket, c.acl>> >> BY <1>5 DEF Tasks
  <2> QED BY <2>1, LeftOne, OrderedShort DEF Operations
<1>6. CASE c \in [op : {"import"}, replace : BOOLEAN, users : Seq(Users), bucket : Buckets, doc : Docs]
  <2> DEFINE u == IF c.replace THEN PurgeAll ELSE << >>
             v == [i \in 1..Len(c.users) |-> <<"upsertUser", c.users[i]>>]
             t == <<"upsertBucket", c.bucket, c.doc>>
  <2>1. u \in Seq(AnyTask)
    <3>1. PurgeAll \in Seq(AnyTask) BY DEF PurgeAll, AnyTask
    <3>2. CASE c.replace BY <3>1, <3>2
    <3>3. CASE ~c.replace BY <3>3
    <3> QED BY <3>2, <3>3
  <2>2. v \in Seq(AnyTask) /\ Len(v) = Len(c.users)
    <3>1. \A i \in 1..Len(c.users) : <<"upsertUser", c.users[i]>> \in AnyTask
      BY <1>6 DEF AnyTask
    <3>2. Len(c.users) \in Nat BY <1>6
    <3> QED BY <3>1, <3>2, FunctionSeq
  <2>3. t \in AnyTask /\ t[1] = "upsertBucket" BY <1>6 DEF AnyTask
  <2>4. c.op = "import" /\ Tasks(c) = u \o v \o <<t>> BY <1>6 DEF Tasks, ForAll
  <2>5. Left(u) = IF c.replace THEN {<<"purge", "users">>, <<"purge", "buckets">>,
                                     <<"purge", "index/group">>, <<"purge", "index/access_key">>} ELSE {}
    <3>1. CASE c.replace
      <4>1. u = PurgeAll BY <3>1
      <4>2. /\ Len(PurgeAll) = 4 /\ PurgeAll[1] = <<"purge", "users">> /\ PurgeAll[2] = <<"purge", "buckets">>
            /\ PurgeAll[3] = <<"purge", "index/group">> /\ PurgeAll[4] = <<"purge", "index/access_key">>
        BY DEF PurgeAll
      <4>3. 1..4 = {1, 2, 3, 4} OBVIOUS
      <4>4. Left(PurgeAll) = {PurgeAll[1], PurgeAll[2], PurgeAll[3], PurgeAll[4]} BY <4>2, <4>3 DEF Left
      <4>5. Left(PurgeAll) = {<<"purge", "users">>, <<"purge", "buckets">>,
                              <<"purge", "index/group">>, <<"purge", "index/access_key">>}
        BY <4>2, <4>4
      <4> QED BY <3>1, <4>1, <4>5
    <3>2. CASE ~c.replace
      <4>1. u = << >> BY <3>2
      <4> QED BY <3>2, <4>1, LeftNothing
    <3> QED BY <3>1, <3>2
  <2>6. Left(v) = {<<"upsertUser", c.users[i]>> : i \in 1..Len(c.users)} BY <2>2 DEF Left
  <2>7. \A x \in Left(u) : x[1] = "purge" BY <2>5
  <2>8. \A x \in Left(v) : x[1] = "upsertUser" BY <2>6
  <2> HIDE DEF u, v, t
  <2>9. u \o v \in Seq(AnyTask) /\ <<t>> \in Seq(AnyTask) BY <2>1, <2>2, <2>3
  <2>10. Left(<<t>>) = {t} /\ Left(u \o v) = Left(u) \cup Left(v) BY <2>1, <2>2, LeftOne, LeftJoin
  <2>11. Left(Tasks(c)) = Left(u) \cup Left(v) \cup {t} BY <2>4, <2>9, <2>10, LeftJoin
  <2>12. \A x \in AnyTask, y \in AnyTask :
           x[1] \in {"purge", "upsertUser"} /\ y[1] \in {"purge", "upsertUser", "upsertBucket"} => InOrder(c, x, y)
    BY <2>4 DEF InOrder
  <2>13. \A x \in Left(u) \cup Left(v) : x \in AnyTask BY <2>1, <2>2 DEF Left
  <2>14. Ordered(c, u) /\ Ordered(c, v)
    <3>1. \A i \in 1..Len(u) : u[i] \in Left(u) BY DEF Left
    <3>2. \A i \in 1..Len(v) : v[i] \in Left(v) BY DEF Left
    <3> QED BY <2>7, <2>8, <2>12, <2>13, <3>1, <3>2 DEF Ordered
  <2>15. Ordered(c, u \o v)
    <3>1. \A x \in Left(u), y \in Left(v) : InOrder(c, x, y) BY <2>7, <2>8, <2>12, <2>13
    <3> QED BY <2>1, <2>2, <2>14, <3>1, OrderedJoin
  <2>16. Ordered(c, Tasks(c))
    <3>1. \A x \in Left(u \o v), y \in Left(<<t>>) : InOrder(c, x, y)
      BY <2>3, <2>7, <2>8, <2>10, <2>12, <2>13
    <3>2. Ordered(c, <<t>>) BY OrderedShort
    <3> QED BY <2>4, <2>9, <2>15, <3>1, <3>2, OrderedJoin
  <2> QED BY <2>4, <2>5, <2>6, <2>11, <2>16 DEF Operations, t
<1> QED BY <1>1, <1>2, <1>3, <1>4, <1>5, <1>6 DEF AnyCommand

\* A command that begins has a plan.
LEMMA PlanStart ==
    ASSUME NEW c \in AnyCommand, NEW docs, NEW idx, NEW gone, Covered(c, docs, idx, gone, Left(Tasks(c)))
    PROVE  PlanOK(c, docs, idx, gone, Tasks(c))
<1> DEFINE T == Left(Tasks(c))
<1>1. Ordered(c, Tasks(c)) /\ c.op \in Operations BY TasksOf
<1>2. ASSUME NEW t \in T
      PROVE  /\ c.op = "user add" => t[1] = "upsertUser"
             /\ c.op = "user rm" => t[1] \in {"cleanup", "deleteUser", "deleteIndex"} /\ t[2] = c.user
             /\ c.op = "bucket add" => t[1] = "upsertBucket" /\ t[2] = c.bucket /\ t[3] = c.doc
             /\ c.op = "bucket rm" => t[1] = "deleteBucket" /\ t[2] = c.bucket
             /\ c.op = "acl-set" => t[1] = "setBucketAcl" /\ t[2] = c.bucket /\ t[3] = c.acl
             /\ c.op = "import" => \/ t[1] = "purge" /\ c.replace
                                   \/ t[1] = "upsertUser"
                                   \/ t[1] = "upsertBucket" /\ t[2] = c.bucket /\ t[3] = c.doc
  <2>1. CASE c.op = "user add"
    <3>1. t = <<"upsertUser", c.user>> BY <1>2, <2>1, TasksOf
    <3> QED BY <2>1, <3>1
  <2>2. CASE c.op = "user rm"
    <3>1. t \in (IF c.cleanup THEN {<<"cleanup", c.user>>} ELSE {})
                  \cup {<<"deleteUser", c.user>>, <<"deleteIndex", c.user>>}
      BY <1>2, <2>2, TasksOf
    <3>2. \/ t = <<"cleanup", c.user>>
          \/ t = <<"deleteUser", c.user>>
          \/ t = <<"deleteIndex", c.user>>
      <4>1. CASE c.cleanup BY <3>1, <4>1
      <4>2. CASE ~c.cleanup BY <3>1, <4>2
      <4> QED BY <4>1, <4>2
    <3>3. t[1] \in {"cleanup", "deleteUser", "deleteIndex"} /\ t[2] = c.user BY <3>2
    <3> QED BY <2>2, <3>3
  <2>3. CASE c.op = "bucket add"
    <3>1. t = <<"upsertBucket", c.bucket, c.doc>> BY <1>2, <2>3, TasksOf
    <3> QED BY <2>3, <3>1
  <2>4. CASE c.op = "bucket rm"
    <3>1. t = <<"deleteBucket", c.bucket>> BY <1>2, <2>4, TasksOf
    <3> QED BY <2>4, <3>1
  <2>5. CASE c.op = "acl-set"
    <3>1. t = <<"setBucketAcl", c.bucket, c.acl>> BY <1>2, <2>5, TasksOf
    <3> QED BY <2>5, <3>1
  <2>6. CASE c.op = "import"
    <3>1. t \in (IF c.replace THEN {<<"purge", "users">>, <<"purge", "buckets">>,
                                    <<"purge", "index/group">>, <<"purge", "index/access_key">>} ELSE {})
                  \cup {<<"upsertUser", c.users[i]>> : i \in 1..Len(c.users)}
                  \cup {<<"upsertBucket", c.bucket, c.doc>>}
      BY <1>2, <2>6, TasksOf
    <3>2. CASE t \in {<<"upsertUser", c.users[i]>> : i \in 1..Len(c.users)}
      <4>1. t[1] = "upsertUser" BY <3>2
      <4> QED BY <2>6, <4>1
    <3>3. CASE t = <<"upsertBucket", c.bucket, c.doc>> BY <2>6, <3>3
    <3>4. CASE t \in IF c.replace THEN {<<"purge", "users">>, <<"purge", "buckets">>,
                                        <<"purge", "index/group">>, <<"purge", "index/access_key">>} ELSE {}
      <4>1. c.replace BY <3>4
      <4>2. t[1] = "purge" BY <3>4, <4>1
      <4> QED BY <2>6, <4>1, <4>2
    <3> QED BY <3>1, <3>2, <3>3, <3>4
  <2> QED BY <1>1, <2>1, <2>2, <2>3, <2>4, <2>5, <2>6 DEF Operations
<1> HIDE DEF T
<1>3. ASSUME NEW t \in T PROVE TaskOf(c, docs, t)
  <2>1. CASE c.op = "import"
    <3>1. Grantees(c) = Named(c.doc.acl) BY <2>1 DEF Grantees
    <3>2. CASE t[1] = "purge" /\ c.replace
      <4>1. Replaces(c) BY <2>1, <3>2 DEF Replaces
      <4> QED BY <2>1, <3>2, <4>1 DEF TaskOf
    <3>3. CASE t[1] = "upsertUser" BY <2>1, <3>3 DEF TaskOf
    <3>4. CASE t[1] = "upsertBucket" /\ t[2] = c.bucket /\ t[3] = c.doc BY <2>1, <3>1, <3>4 DEF TaskOf
    <3> QED BY <1>2, <2>1, <3>2, <3>3, <3>4
  <2>2. CASE c.op # "import"
    <3>1. c.op = "bucket add" => Grantees(c) = Named(c.doc.acl) BY DEF Grantees
    <3>2. c.op = "acl-set" => Grantees(c) = Named(c.acl) BY DEF Grantees
    <3> QED BY <1>1, <1>2, <2>2, <3>1, <3>2 DEF TaskOf, Operations
  <2> QED BY <2>1, <2>2
<1>4. Ready(idx, gone, T) BY <1>1, <1>2 DEF Ready, Operations
<1>5. Guarded(c, docs, idx, gone, T)
  <2> SUFFICES ASSUME NEW p \in Principals \ gone, NEW b \in Buckets, Grants(docs, p, b),
                      NEW s \in T, Unindexes(s, p, b)
               PROVE  \E t \in T : Revokes(c, idx, t, p, b)
    BY DEF Guarded
  <2>1. \/ c.op = "user rm" /\ s[1] = "deleteIndex" /\ s[2] = c.user /\ p = c.user
        \/ c.op = "import" /\ c.replace
    BY <1>1, <1>2 DEF Unindexes, Operations
  <2>2. CASE c.op = "import" /\ c.replace
    <3>1. PICK t : t = <<"purge", "buckets">> OBVIOUS
    <3>2. t \in T BY <2>2, <3>1, TasksOf DEF T
    <3>3. Revokes(c, idx, t, p, b) BY <3>1 DEF Revokes
    <3> QED BY <3>2, <3>3
  <2>3. CASE c.op = "user rm" /\ c.cleanup /\ p = c.user
    <3>1. b \in idx[p] \/ \E t \in T : Revokes(c, idx, t, p, b) BY DEF Covered, T
    <3>2. PICK t : t = <<"cleanup", c.user>> OBVIOUS
    <3>3. t \in T BY <2>3, <3>2, TasksOf DEF T
    <3>4. b \in idx[p] => Revokes(c, idx, t, p, b) BY <2>3, <3>2 DEF Revokes
    <3> QED BY <3>1, <3>3, <3>4
  <2>4. CASE c.op = "user rm" /\ ~c.cleanup /\ p = c.user /\ s[1] = "deleteIndex" /\ s[2] = c.user
    <3>1. Forsakes(c) BY <2>4 DEF Forsakes
    <3>2. Revokes(c, idx, s, p, b) BY <2>4, <3>1 DEF Revokes
    <3> QED BY <3>2
  <2> QED BY <2>1, <2>2, <2>3, <2>4
<1>6. EndsEmpty(c, idx, Tasks(c))
  <2> SUFFICES ASSUME c.op = "user rm" PROVE <<"deleteIndex", c.user>> \in T /\ Tasks(c) # << >>
    BY DEF EndsEmpty, T
  <2>1. <<"deleteIndex", c.user>> \in T BY TasksOf DEF T
  <2> QED BY <2>1, TasksType, LeftSome DEF T
<1> QED BY <1>1, <1>3, <1>4, <1>5, <1>6 DEF PlanOK, Plan, T

\* The command that failed, repeated, revokes whatever it was about to revoke
\* and has not; of a removal's user nothing more is said.
LEMMA PlanFail ==
    ASSUME NEW c \in AnyCommand, NEW docs, NEW idx, NEW gone, NEW gone2, NEW S,
           Plan(c, docs, idx, gone, S), gone \subseteq gone2, c.op = "user rm" => c.user \in gone2
    PROVE  Covered(c, docs, idx, gone2, Left(Tasks(c)))
<1> DEFINE T == Left(Tasks(c))
<1> SUFFICES ASSUME NEW p \in Principals \ gone2, NEW b \in Buckets, Grants(docs, p, b), b \notin idx[p]
             PROVE  \E t \in T : Revokes(c, idx, t, p, b)
  BY DEF Covered
<1>1. PICK s \in S : Revokes(c, idx, s, p, b) BY DEF Plan, Covered
<1>2. TaskOf(c, docs, s) BY DEF Plan
<1>3. c.op \in Operations BY TasksOf
<1> HIDE DEF T
<1>4. CASE c.op = "user rm"
  <2>1. p # c.user BY <1>4
  <2>2. \A acl : Reduces(docs, c.user, b, acl) => p \in Named(acl) BY <2>1 DEF Reduces, Grants
  <2> QED BY <1>1, <1>2, <1>4, <2>1, <2>2 DEF TaskOf, Revokes
<1>5. CASE c.op = "user add" BY <1>1, <1>2, <1>5 DEF TaskOf, Revokes
<1>6. CASE c.op = "bucket rm"
  <2>1. b = c.bucket BY <1>1, <1>2, <1>6 DEF TaskOf, Revokes
  <2>2. PICK t : t = <<"deleteBucket", c.bucket>> OBVIOUS
  <2>3. t \in T BY <1>6, <2>2, TasksOf DEF T
  <2>4. Revokes(c, idx, t, p, b) BY <2>1, <2>2 DEF Revokes
  <2> QED BY <2>3, <2>4
<1>7. CASE c.op \in {"bucket add", "acl-set", "import"}
  <2>1. ~Forsakes(c) BY <1>7 DEF Forsakes
  <2>2. Replaces(c) \/ (b = c.bucket /\ p \notin Grantees(c))
    BY <1>1, <1>2, <1>7, <2>1 DEF TaskOf, Revokes
  <2>3. CASE Replaces(c)
    <3>1. c.op = "import" /\ c.replace BY <2>3 DEF Replaces
    <3>2. PICK t : t = <<"purge", "buckets">> OBVIOUS
    <3>3. t \in T BY <3>1, <3>2, TasksOf DEF T
    <3>4. Revokes(c, idx, t, p, b) BY <3>2 DEF Revokes
    <3> QED BY <3>3, <3>4
  <2>4. CASE c.op = "acl-set" /\ b = c.bucket /\ p \notin Grantees(c)
    <3>1. p \notin Named(c.acl) BY <2>4 DEF Grantees
    <3>2. PICK t : t = <<"setBucketAcl", c.bucket, c.acl>> OBVIOUS
    <3>3. t \in T BY <2>4, <3>2, TasksOf DEF T
    <3>4. Revokes(c, idx, t, p, b) BY <2>4, <3>1, <3>2 DEF Revokes
    <3> QED BY <3>3, <3>4
  <2>5. CASE c.op \in {"bucket add", "import"} /\ b = c.bucket /\ p \notin Grantees(c)
    <3>1. p \notin Named(c.doc.acl) BY <2>5 DEF Grantees
    <3>2. PICK t : t = <<"upsertBucket", c.bucket, c.doc>> OBVIOUS
    <3>3. t \in T BY <2>5, <3>2, TasksOf DEF T
    <3>4. Revokes(c, idx, t, p, b) BY <2>5, <3>1, <3>2 DEF Revokes
    <3> QED BY <3>3, <3>4
  <2> QED BY <1>7, <2>2, <2>3, <2>4, <2>5
<1> QED BY <1>3, <1>4, <1>5, <1>6, <1>7 DEF Operations

\* set_bucket_acl finds no document: nothing of the command is left to do.
LEMMA PlanNotFound ==
    ASSUME NEW c, NEW docs, NEW idx, NEW gone, NEW h, NEW R, NEW T,
           Plan(c, docs, idx, gone, {h} \cup R), \A t \in R : InOrder(c, h, t), c.op \in Operations,
           h[1] = "setBucketAcl", docs[h[2]] = NoDoc
    PROVE  Covered(c, docs, idx, gone, T)
<1>1. TaskOf(c, docs, h) BY DEF Plan
<1>2. Named(docs[h[2]].acl) = {} BY DEF NoDoc, Named
<1>3. c.op # "user rm" BY <1>1, <1>2 DEF TaskOf, Reduces
<1>4. R = {} BY <1>3 DEF InOrder
<1>5. \A p, b : Grants(docs, p, b) => ~Revokes(c, idx, h, p, b) BY <1>2 DEF Grants, Revokes
<1> QED BY <1>4, <1>5 DEF Plan, Covered

\* A document that is put grants nothing to a user who has no grants, and is
\* given none by the command.
LEMMA PutGrants ==
    ASSUME NEW c, NEW docs, NEW h, NEW u, TaskOf(c, docs, h), c.op \in Operations, h[1] = "putBucket",
           u \notin Grantees(c), ~Grants(docs, u, h[2])
    PROVE  u \notin Named(h[3].acl)
BY DEF TaskOf, Operations, Reduces, Grants

-----------------------------------------------------------------------------
\* The steps of a command.

\* A task s that takes the place of h, with respect to the tasks after it.
Follows(c, h, s) ==
    /\ IndexTask(h) => IndexTask(s)
    /\ s[1] \in {"upsertBucket", "putBucket", "setBucketAcl"} =>
         c.op = "user rm" \/ h[1] \in {"upsertBucket", "putBucket", "setBucketAcl"}
    /\ c.op = "user rm" => s[1] # "deleteIndex"

\* The head of a list of tasks, and the rest.
LEMMA PlanSplit ==
    ASSUME NEW c, NEW docs, NEW idx, NEW gone, NEW w \in Seq(AnyTask), w # << >>,
           PlanOK(c, docs, idx, gone, w)
    PROVE  /\ Plan(c, docs, idx, gone, {Head(w)} \cup Left(Tail(w)))
           /\ \A t \in Left(Tail(w)) : InOrder(c, Head(w), t)
           /\ Ordered(c, Tail(w))
<1>1. Left(w) = {Head(w)} \cup Left(Tail(w)) BY LeftSplit
<1>2. Plan(c, docs, idx, gone, Left(w)) /\ Ordered(c, w) BY DEF PlanOK
<1>3. Plan(c, docs, idx, gone, {Head(w)} \cup Left(Tail(w))) BY <1>1, <1>2
<1> QED BY <1>2, <1>3, OrderedSplit

\* The head is replaced by the list v.
LEMMA PlanAdvance ==
    ASSUME NEW c, NEW docs, NEW idx, NEW gone, NEW docs2, NEW idx2, NEW gone2,
           NEW w \in Seq(AnyTask), w # << >>, NEW v \in Seq(AnyTask), PlanOK(c, docs, idx, gone, w),
           Plan(c, docs2, idx2, gone2, Left(v) \cup Left(Tail(w))), Ordered(c, v),
           \A s \in Left(v) : Follows(c, Head(w), s), Head(w)[1] # "deleteIndex"
    PROVE  PlanOK(c, docs2, idx2, gone2, v \o Tail(w))
<1>1. Tail(w) \in Seq(AnyTask) OBVIOUS
<1>2. Left(v \o Tail(w)) = Left(v) \cup Left(Tail(w)) BY <1>1, LeftJoin
<1>3. (\A t \in Left(Tail(w)) : InOrder(c, Head(w), t)) /\ Ordered(c, Tail(w)) BY PlanSplit
<1>4. ASSUME NEW s \in Left(v), NEW t \in Left(Tail(w)) PROVE InOrder(c, s, t)
  <2>1. InOrder(c, Head(w), t) /\ Follows(c, Head(w), s) BY <1>3
  <2> QED BY <2>1 DEF InOrder, Follows
<1>5. Ordered(c, v \o Tail(w)) BY <1>1, <1>3, <1>4, OrderedJoin
<1>6. EndsEmpty(c, idx2, v \o Tail(w))
  <2> SUFFICES ASSUME c.op = "user rm"
               PROVE  <<"deleteIndex", c.user>> \in Left(v \o Tail(w)) /\ v \o Tail(w) # << >>
    BY DEF EndsEmpty
  <2>1. <<"deleteIndex", c.user>> \in Left(w) BY DEF PlanOK, EndsEmpty
  <2>2. <<"deleteIndex", c.user>> # Head(w)
    <3>1. PICK t : t = <<"deleteIndex", c.user>> OBVIOUS
    <3>2. t[1] = "deleteIndex" BY ONLY <3>1
    <3> QED BY ONLY <3>1, <3>2, Head(w)[1] # "deleteIndex"
  <2>3. <<"deleteIndex", c.user>> \in Left(Tail(w)) BY <2>1, <2>2, LeftSplit
  <2>4. <<"deleteIndex", c.user>> \in Left(v \o Tail(w)) BY <1>2, <2>3
  <2>5. v \o Tail(w) \in Seq(AnyTask)
    <3>1. PICK r : r = Tail(w) OBVIOUS
    <3>2. r \in Seq(AnyTask) BY <1>1, <3>1
    <3>3. v \o r \in Seq(AnyTask) BY ONLY <3>2, v \in Seq(AnyTask)
    <3> QED BY <3>1, <3>3
  <2> QED BY <2>4, <2>5, LeftSome
<1>7. Plan(c, docs2, idx2, gone2, Left(v \o Tail(w))) BY <1>2
<1> QED BY <1>5, <1>6, <1>7 DEF PlanOK

\* The index is deleted: in a removal, this is the last step.
LEMMA PlanAfterDeleteIndex ==
    ASSUME NEW c, NEW docs, NEW idx, NEW gone, NEW idx2, NEW gone2,
           NEW w \in Seq(AnyTask), w # << >>, PlanOK(c, docs, idx, gone, w), Head(w)[1] = "deleteIndex",
           idx2[Head(w)[2]] = {}, \A p \in Principals : p # Head(w)[2] => idx2[p] = idx[p],
           gone \subseteq gone2, Forsakes(c) => Head(w)[2] \in gone2
    PROVE  PlanOK(c, docs, idx2, gone2, Tail(w))
<1>1. /\ Plan(c, docs, idx, gone, {Head(w)} \cup Left(Tail(w)))
      /\ \A t \in Left(Tail(w)) : InOrder(c, Head(w), t)
      /\ Ordered(c, Tail(w))
  BY PlanSplit
<1>2. Plan(c, docs, idx2, gone2, Left(Tail(w)))
  <2>1. PICK h, R : h = Head(w) /\ R = Left(Tail(w)) OBVIOUS
  <2>2. Plan(c, docs, idx, gone, {h} \cup R) BY <1>1, <2>1
  <2>3. \A t \in R : InOrder(c, h, t) BY <1>1, <2>1
  <2>4. h[1] = "deleteIndex" /\ GivesUp(c, h[2], gone, gone2) BY <2>1 DEF GivesUp
  <2>5. Others(idx, idx2, h[2]) BY <2>1 DEF Others
  <2>6. Plan(c, docs, idx2, gone2, R)
    BY ONLY <2>2, <2>3, <2>4, <2>5, PlanDeleteIndex
  <2> QED BY <2>1, <2>6
<1>3. EndsEmpty(c, idx2, Tail(w))
  <2> SUFFICES ASSUME c.op = "user rm" PROVE Tail(w) = << >> /\ idx2[c.user] = {}
    BY DEF EndsEmpty
  <2>1. Left(Tail(w)) = {} BY <1>1 DEF InOrder
  <2>2. Tail(w) = << >>
    <3>1. Tail(w) \in Seq(AnyTask) BY ONLY w \in Seq(AnyTask), w # << >>
    <3>2. ASSUME Tail(w) # << >> PROVE FALSE
      <4>1. Head(Tail(w)) \in Left(Tail(w)) BY <3>1, <3>2, LeftSplit
      <4> QED BY <2>1, <4>1
    <3> QED BY <3>2
  <2>3. TaskOf(c, docs, Head(w)) BY <1>1 DEF Plan
  <2>4. Head(w)[2] = c.user BY <2>3 DEF TaskOf
  <2> QED BY <2>2, <2>4
<1> QED BY <1>1, <1>2, <1>3 DEF PlanOK

\* An administrator who has a task left is running a command.
LEMMA Working ==
    ASSUME IInv, GrantInv, NEW a \in Admins, work[a] # << >>
    PROVE  /\ cmd[a] \in Commands /\ cmd[a] \in AnyCommand /\ cmd[a].op \in Operations /\ a \in Running
           /\ work[a] \in Seq(AnyTask) /\ Tail(work[a]) \in Seq(AnyTask) /\ Task(a) \in AnyTask
           /\ trust # "broken" =>
                /\ PlanOK(cmd[a], bucket, index, orphans, work[a])
                /\ Plan(cmd[a], bucket, index, orphans, {Task(a)} \cup Left(Tail(work[a])))
                /\ \A t \in Left(Tail(work[a])) : InOrder(cmd[a], Task(a), t)
<1>1. cmd[a] # Idle /\ cmd[a] \in Commands BY DEF GrantInv, CommandsOK
<1>2. cmd[a] \in AnyCommand BY <1>1, DirectoryAssumption
<1>3. cmd[a].op \in Operations BY <1>2, TasksOf
<1>4. a \in Running BY <1>1 DEF Running
<1>5. work[a] \in Seq(AnyTask) /\ Tail(work[a]) \in Seq(AnyTask) BY DEF IInv, TypeOK
<1>6. Task(a) \in AnyTask BY TaskType DEF IInv
<1>7. ASSUME trust # "broken"
      PROVE  /\ PlanOK(cmd[a], bucket, index, orphans, work[a])
             /\ Plan(cmd[a], bucket, index, orphans, {Task(a)} \cup Left(Tail(work[a])))
             /\ \A t \in Left(Tail(work[a])) : InOrder(cmd[a], Task(a), t)
  <2>1. PlanOK(cmd[a], bucket, index, orphans, work[a]) BY <1>4, <1>7 DEF GrantInv, Serial
  <2> QED BY <1>5, <2>1, PlanSplit DEF Task
<1> QED BY <1>1, <1>2, <1>3, <1>4, <1>5, <1>6, <1>7

\* A step of a command preserves the invariant if it leaves a plan, gives up
\* no user of a steady grant, and grants nothing to those who were removed.
LEMMA GrantAdvance ==
    ASSUME IInv, GrantInv, NEW a \in Admins, work[a] # << >>, NEW tasks \in Seq(AnyTask), Advance(a, tasks),
           orphans \subseteq orphans', \A pb \in steady' : pb[1] \notin orphans',
           trust # "broken" => PlanOK(cmd[a], bucket', index', orphans', tasks \o Tail(work[a])),
           trust # "broken" => \A u \in cleaned, b \in Buckets : ~Grants(bucket', u, b)
    PROVE  GrantInv'
<1>1. /\ cmd' = cmd /\ look' = look /\ trust' = trust /\ owed' = owed /\ cleaned' = cleaned
      /\ work' = [work EXCEPT ![a] = tasks \o Tail(work[a])]
      /\ steady' = IF trust' = "ok" THEN steady \cap Safe(bucket', work') ELSE {}
  BY DEF Advance, Observe
<1>2. Running' = Running /\ a \in Running BY <1>1, Working DEF Running
<1>3. work'[a] = tasks \o Tail(work[a]) /\ \A a1 \in Admins : a1 # a => work'[a1] = work[a1]
  BY <1>1 DEF IInv, TypeOK
<1>4. CommandsOK'
  <2>1. cmd[a] # Idle BY <1>2 DEF Running
  <2> QED BY <1>1, <1>3, <2>1 DEF GrantInv, CommandsOK
<1>5. Serial'
  <2> SUFFICES ASSUME trust # "broken" PROVE Serial' BY <1>1 DEF Serial
  <2>1. /\ \A a1, a2 \in Running : a1 = a2
        /\ \A a1 \in Running : trust = "retry" => owed = cmd[a1]
        /\ trust = "retry" => owed \in Commands /\ (owed.op = "user rm" => owed.user \in orphans)
    BY DEF GrantInv, Serial
  <2>2. \A a1 \in Running : a1 = a BY <1>2, <2>1
  <2>3. \A a1 \in Running : PlanOK(cmd'[a1], bucket', index', orphans', work'[a1])
    BY <1>1, <1>3, <2>2
  <2>4. Running' # {} BY <1>2
  <2> QED BY <1>1, <1>2, <2>1, <2>3, <2>4 DEF Serial
<1>6. SteadyOK'
  <2>1. steady' \subseteq Safe(bucket', work') BY <1>1
  <2>2. steady' # {} => trust' = "ok" BY <1>1
  <2> QED BY <2>1, <2>2 DEF SteadyOK
<1>7. LookOK'
  <2>1. steady' \subseteq steady BY <1>1
  <2> QED BY <1>1, <2>1 DEF GrantInv, LookOK, Sought
<1>8. CleanedOK' BY <1>1, <1>2 DEF GrantInv, CleanedOK
<1> QED BY <1>4, <1>5, <1>6, <1>7, <1>8 DEF GrantInv

\* Steady grants are fewer after a step.
LEMMA SteadyKept ==
    ASSUME GrantInv, NEW a, NEW tasks, Advance(a, tasks), orphans' = orphans
    PROVE  \A pb \in steady' : pb[1] \notin orphans'
BY DEF Advance, Observe, GrantInv, SteadyOK

\* A step that writes nothing preserves the invariant if the plan goes on.
LEMMA GrantRead ==
    ASSUME IInv, GrantInv, NEW a \in Admins, work[a] # << >>, NEW tasks \in Seq(AnyTask), Advance(a, tasks),
           UNCHANGED <<bucket, index, orphans>>, Task(a)[1] # "deleteIndex",
           trust # "broken" =>
               /\ Plan(cmd[a], bucket, index, orphans, Left(tasks) \cup Left(Tail(work[a])))
               /\ Ordered(cmd[a], tasks)
               /\ \A s \in Left(tasks) : Follows(cmd[a], Task(a), s)
    PROVE  GrantInv'
<1>1. ASSUME trust # "broken" PROVE PlanOK(cmd[a], bucket', index', orphans', tasks \o Tail(work[a]))
  <2>1. PlanOK(cmd[a], bucket, index, orphans, work[a]) /\ work[a] \in Seq(AnyTask) BY <1>1, Working
  <2>2. PICK c, w : c = cmd[a] /\ w = work[a] OBVIOUS
  <2>3. PlanOK(c, bucket, index, orphans, tasks \o Tail(w))
    <3>1. /\ PlanOK(c, bucket, index, orphans, w) /\ w \in Seq(AnyTask) /\ w # << >>
          /\ Plan(c, bucket, index, orphans, Left(tasks) \cup Left(Tail(w)))
          /\ Ordered(c, tasks) /\ (\A s \in Left(tasks) : Follows(c, Head(w), s))
          /\ Head(w)[1] # "deleteIndex"
      BY <1>1, <2>1, <2>2 DEF Task
    <3> QED BY ONLY <3>1, tasks \in Seq(AnyTask), PlanAdvance
  <2> QED BY <2>2, <2>3
<1>2. trust # "broken" => \A u \in cleaned, b \in Buckets : ~Grants(bucket', u, b)
  BY DEF GrantInv, CleanedOK
<1>3. \A pb \in steady' : pb[1] \notin orphans' BY SteadyKept
<1> QED BY <1>1, <1>2, <1>3, GrantAdvance

\* Tasks for the elements of a finite set.
LEMMA LeftAll ==
    ASSUME NEW S, IsFiniteSet(S), NEW q \in Orders(S), NEW f, NEW v, Len(v) = Len(q),
           \A i \in 1..Len(q) : v[i] = f[q[i]]
    PROVE  Left(v) = {f[x] : x \in S}
<1>1. q \in Seq(S) /\ \A x \in S : \E i \in 1..Len(q) : q[i] = x BY OrdersAll
<1>2. ASSUME NEW t \in Left(v) PROVE t \in {f[x] : x \in S}
  <2>1. PICK i \in 1..Len(q) : t = v[i] BY <1>2 DEF Left
  <2>2. q[i] \in S BY <1>1
  <2> QED BY <2>1, <2>2
<1>3. ASSUME NEW x \in S PROVE f[x] \in Left(v)
  <2>1. PICK i \in 1..Len(q) : q[i] = x BY <1>1
  <2>2. v[i] = f[x] BY <2>1
  <2> QED BY <2>2 DEF Left
<1> QED BY <1>2, <1>3

\* Tasks that may come in any order are in order.
LEMMA OrderedAlike ==
    ASSUME NEW c, NEW v, \A s, t \in Left(v) : InOrder(c, s, t) PROVE Ordered(c, v)
<1>1. \A i \in 1..Len(v) : v[i] \in Left(v) BY DEF Left
<1> QED BY <1>1 DEF Ordered

\* upsert_user and delete_user.
LEMMA GrantUser ==
    ASSUME IInv, GrantInv, NEW a \in Admins, UpsertUser(a) \/ DeleteUser(a) PROVE GrantInv'
<1>1. /\ work[a] # << >> /\ Task(a)[1] \in {"upsertUser", "deleteUser"}
      /\ Advance(a, << >>) /\ UNCHANGED <<bucket, index, orphans>>
  BY DEF UpsertUser, DeleteUser, Is
<1>2. ASSUME trust # "broken"
      PROVE  /\ Plan(cmd[a], bucket, index, orphans, Left(<< >>) \cup Left(Tail(work[a])))
             /\ Ordered(cmd[a], << >>)
             /\ \A s \in Left(<< >>) : Follows(cmd[a], Task(a), s)
  <2>1. PICK c, h, R : c = cmd[a] /\ h = Task(a) /\ R = Left(Tail(work[a])) OBVIOUS
  <2>2. /\ Plan(c, bucket, index, orphans, {h} \cup R) /\ (\A t \in R : InOrder(c, h, t))
        /\ h[1] \in {"upsertUser", "deleteUser"}
    BY <1>1, <1>2, <2>1, Working
  <2>3. Plan(c, bucket, index, orphans, {} \cup R) BY ONLY <2>2, PlanUser
  <2> QED BY <2>1, <2>3, LeftNothing, OrderedShort
<1> QED BY <1>1, <1>2, NoTasks, GrantRead

\* delete_user with cleanup lists the buckets of the index.
LEMMA GrantCleanup == ASSUME IInv, GrantInv, NEW a \in Admins, Cleanup(a) PROVE GrantInv'
<1>1. PICK h : h = Task(a) OBVIOUS
<1>2. work[a] # << >> /\ h[1] = "cleanup" /\ UNCHANGED <<bucket, index, orphans>>
  BY <1>1 DEF Cleanup, Is, store
<1>3. h[2] \in Users /\ h[2] \in Principals
  BY <1>1, <1>2, Working, TaskFields DEF Principals
<1>4. PICK q \in Orders(index[h[2]]) :
        Advance(a, [i \in 1..Len(q) |-> <<"cleanBucket", h[2], q[i]>>])
  BY <1>1 DEF Cleanup, ForAll
<1> DEFINE v == [i \in 1..Len(q) |-> <<"cleanBucket", h[2], q[i]>>]
           f == [b \in index[h[2]] |-> <<"cleanBucket", h[2], b>>]
<1>5. index[h[2]] \in SUBSET Buckets BY <1>3 DEF IInv, TypeOK
<1>6. IsFiniteSet(index[h[2]]) BY <1>5, FiniteNames
<1>7. q \in Seq(index[h[2]]) /\ q \in Seq(Buckets) BY <1>5, <1>6, OrdersSeq
<1>8. v \in Seq(AnyTask) /\ Len(v) = Len(q)
  <2>1. \A i \in 1..Len(q) : <<"cleanBucket", h[2], q[i]>> \in AnyTask BY <1>3, <1>7 DEF AnyTask
  <2>2. Len(q) \in Nat BY <1>7
  <2> QED BY <2>1, <2>2, FunctionSeq
<1>9. \A i \in 1..Len(q) : v[i] = f[q[i]] BY <1>7
<1>10. \A b \in index[h[2]] : f[b] = <<"cleanBucket", h[2], b>> OBVIOUS
<1> HIDE DEF v, f
<1>11. Left(v) = {f[b] : b \in index[h[2]]} BY <1>6, <1>8, <1>9, LeftAll
<1>12. Left(v) = {<<"cleanBucket", h[2], b>> : b \in index[h[2]]} BY <1>10, <1>11
<1>13. \A s \in Left(v) : s[1] = "cleanBucket" BY <1>12
<1>14. ASSUME trust # "broken"
       PROVE  /\ Plan(cmd[a], bucket, index, orphans, Left(v) \cup Left(Tail(work[a])))
              /\ Ordered(cmd[a], v)
              /\ \A s \in Left(v) : Follows(cmd[a], Task(a), s)
  <2>1. PICK c, R : c = cmd[a] /\ R = Left(Tail(work[a])) OBVIOUS
  <2>2. /\ Plan(c, bucket, index, orphans, {h} \cup R) /\ (\A t \in R : InOrder(c, h, t))
        /\ c.op \in Operations
    BY <1>1, <1>2, <1>14, <2>1, Working
  <2>3. PICK N : N = {<<"cleanBucket", h[2], b>> : b \in index[h[2]]} OBVIOUS
  <2>4. Plan(c, bucket, index, orphans, N \cup R)
    BY ONLY <1>2, <2>2, <2>3, PlanCleanup
  <2>5. Ordered(c, v)
    <3>1. \A s, t \in Left(v) : InOrder(c, s, t) BY <1>13 DEF InOrder
    <3> QED BY <3>1, OrderedAlike
  <2>6. \A s \in Left(v) : Follows(c, h, s) BY <1>2, <1>13 DEF Follows, IndexTask
  <2> QED BY <1>1, <1>12, <2>1, <2>3, <2>4, <2>5, <2>6
<1>15. Advance(a, v) BY <1>4 DEF v
<1>16. Task(a)[1] # "deleteIndex" BY <1>1, <1>2
<1> QED BY <1>2, <1>8, <1>14, <1>15, <1>16, GrantRead

\* The document of a bucket of the index.
LEMMA GrantCleanBucket == ASSUME IInv, GrantInv, NEW a \in Admins, CleanBucket(a) PROVE GrantInv'
<1>1. PICK h : h = Task(a) OBVIOUS
<1>2. work[a] # << >> /\ h[1] = "cleanBucket" /\ UNCHANGED <<bucket, index, orphans>>
  BY <1>1 DEF CleanBucket, Is, store
<1>3. PICK rest : rest = {e \in bucket[h[3]].acl : e[1] # h[2]} OBVIOUS
<1>4. PICK v : v = IF rest # bucket[h[3]].acl THEN << <<"setBucketAcl", h[3], rest>> >> ELSE << >> OBVIOUS
<1>5. Advance(a, v) BY <1>1, <1>3, <1>4 DEF CleanBucket
<1>6. h[2] \in Users /\ h[3] \in Buckets BY <1>1, <1>2, Working, TaskFields
<1>7. <<"setBucketAcl", h[3], rest>> \in AnyTask
  <2>1. rest \in Acls BY <1>3, <1>6 DEF IInv, TypeOK, Docs, Acls
  <2> QED BY <1>6, <2>1 DEF AnyTask
<1>8. v \in Seq(AnyTask)
  <2>1. CASE rest # bucket[h[3]].acl
    <3>1. v = << <<"setBucketAcl", h[3], rest>> >> BY <1>4, <2>1
    <3> QED BY <1>7, <3>1, OneTask
  <2>2. CASE rest = bucket[h[3]].acl BY <1>4, <2>2
  <2> QED BY <2>1, <2>2
<1>9. PICK N : N = IF rest # bucket[h[3]].acl THEN {<<"setBucketAcl", h[3], rest>>} ELSE {} OBVIOUS
<1>10. Left(v) = N
  <2>1. CASE rest # bucket[h[3]].acl
    <3>1. v = << <<"setBucketAcl", h[3], rest>> >> /\ N = {<<"setBucketAcl", h[3], rest>>} BY <1>4, <1>9, <2>1
    <3> QED BY <3>1, LeftOne
  <2>2. CASE rest = bucket[h[3]].acl
    <3>1. v = << >> /\ N = {} BY <1>4, <1>9, <2>2
    <3> QED BY <3>1, LeftNothing
  <2> QED BY <2>1, <2>2
<1>11. ASSUME trust # "broken"
       PROVE  /\ Plan(cmd[a], bucket, index, orphans, Left(v) \cup Left(Tail(work[a])))
              /\ Ordered(cmd[a], v)
              /\ \A s \in Left(v) : Follows(cmd[a], Task(a), s)
  <2>1. PICK c, R : c = cmd[a] /\ R = Left(Tail(work[a])) OBVIOUS
  <2>2. /\ Plan(c, bucket, index, orphans, {h} \cup R) /\ (\A t \in R : InOrder(c, h, t))
        /\ c.op \in Operations
    BY <1>1, <1>2, <1>11, <2>1, Working
  <2>3. Plan(c, bucket, index, orphans, N \cup R) /\ c.op = "user rm"
    BY ONLY <1>2, <1>3, <1>9, <2>2, PlanCleanBucket
  <2>4. Ordered(c, v)
    <3>1. CASE rest # bucket[h[3]].acl
      <4>1. v = << <<"setBucketAcl", h[3], rest>> >> BY <1>4, <3>1
      <4> QED BY <4>1, OrderedShort
    <3>2. CASE rest = bucket[h[3]].acl
      <4>1. v = << >> BY <1>4, <3>2
      <4> QED BY <4>1, OrderedShort
    <3> QED BY <3>1, <3>2
  <2>5. \A s \in N : s[1] = "setBucketAcl" BY <1>9
  <2>6. \A s \in Left(v) : Follows(c, h, s) BY <1>2, <1>10, <2>3, <2>5 DEF Follows, IndexTask
  <2> QED BY <1>1, <1>10, <2>1, <2>3, <2>4, <2>6
<1>12. Task(a)[1] # "deleteIndex" BY <1>1, <1>2
<1> QED BY <1>2, <1>5, <1>8, <1>11, <1>12, GrantRead

\* index_add_bucket and index_remove_bucket read an index.
LEMMA GrantReadIndex == ASSUME IInv, GrantInv, NEW a \in Admins, ReadIndex(a) PROVE GrantInv'
<1>1. PICK h : h = Task(a) OBVIOUS
<1>2. work[a] # << >> /\ h[1] \in {"addIndex", "removeIndex"} /\ UNCHANGED <<bucket, index, orphans>>
  BY <1>1 DEF ReadIndex, Is, store
<1>3. PICK new : new = IF h[1] = "addIndex" THEN index[h[2]] \cup {h[3]} ELSE index[h[2]] \ {h[3]} OBVIOUS
<1>4. PICK v : v = IF new # index[h[2]] THEN << <<"writeIndex", h[2], new>> >> ELSE << >> OBVIOUS
<1>5. Advance(a, v) BY <1>1, <1>3, <1>4 DEF ReadIndex
<1>6. h[2] \in Principals /\ h[3] \in Buckets BY <1>1, <1>2, Working, TaskFields
<1>7. <<"writeIndex", h[2], new>> \in AnyTask
  <2>1. new \in SUBSET Buckets BY <1>3, <1>6 DEF IInv, TypeOK
  <2> QED BY <1>6, <2>1 DEF AnyTask
<1>8. PICK N : N = IF new # index[h[2]] THEN {<<"writeIndex", h[2], new>>} ELSE {} OBVIOUS
<1>9. /\ v \in Seq(AnyTask) /\ Left(v) = N /\ \A s \in N : s[1] = "writeIndex"
      /\ \A c : Ordered(c, v)
  <2>1. CASE new # index[h[2]]
    <3>1. v = << <<"writeIndex", h[2], new>> >> /\ N = {<<"writeIndex", h[2], new>>} BY <1>4, <1>8, <2>1
    <3>2. v \in Seq(AnyTask) BY <1>7, <3>1, OneTask
    <3>3. Left(v) = N BY <3>1, LeftOne
    <3>4. \A c : Ordered(c, v) BY <3>1, OrderedShort
    <3>5. \A s \in N : s[1] = "writeIndex" BY <3>1
    <3> QED BY <3>2, <3>3, <3>4, <3>5
  <2>2. CASE new = index[h[2]]
    <3>1. v = << >> /\ N = {} BY <1>4, <1>8, <2>2
    <3>2. v \in Seq(AnyTask) BY <3>1, NoTasks
    <3>3. Left(v) = N BY <3>1, LeftNothing
    <3>4. \A c : Ordered(c, v) BY <3>1, OrderedShort
    <3> QED BY <3>1, <3>2, <3>3, <3>4
  <2> QED BY <2>1, <2>2
<1>10. ASSUME trust # "broken"
       PROVE  /\ Plan(cmd[a], bucket, index, orphans, Left(v) \cup Left(Tail(work[a])))
              /\ Ordered(cmd[a], v)
              /\ \A s \in Left(v) : Follows(cmd[a], Task(a), s)
  <2>1. PICK c, R : c = cmd[a] /\ R = Left(Tail(work[a])) OBVIOUS
  <2>2. /\ Plan(c, bucket, index, orphans, {h} \cup R) /\ (\A t \in R : InOrder(c, h, t))
        /\ c.op \in Operations
    BY <1>1, <1>2, <1>10, <2>1, Working
  <2>3. Plan(c, bucket, index, orphans, N \cup R)
    <3>1. CASE h[1] = "addIndex"
      <4>1. new = index[h[2]] \cup {h[3]} BY <1>3, <3>1
      <4>2. (new # index[h[2]]) <=> h[3] \notin index[h[2]] BY <4>1
      <4>3. N = IF h[3] \notin index[h[2]] THEN {<<"writeIndex", h[2], index[h[2]] \cup {h[3]}>>} ELSE {}
        BY ONLY <1>8, <4>1, <4>2
      <4> QED BY ONLY <2>2, <3>1, <4>3, PlanAddIndex
    <3>2. CASE h[1] = "removeIndex"
      <4>1. new = index[h[2]] \ {h[3]} BY <1>3, <3>2
      <4>2. (new # index[h[2]]) <=> h[3] \in index[h[2]] BY <4>1
      <4>3. N = IF h[3] \in index[h[2]] THEN {<<"writeIndex", h[2], index[h[2]] \ {h[3]}>>} ELSE {}
        BY ONLY <1>8, <4>1, <4>2
      <4> QED BY ONLY <2>2, <3>2, <4>3, PlanRemoveIndex
    <3> QED BY <1>2, <3>1, <3>2
  <2>4. \A s \in Left(v) : Follows(c, h, s) BY <1>9 DEF Follows, IndexTask
  <2> QED BY <1>1, <1>9, <2>1, <2>3, <2>4
<1>11. Task(a)[1] # "deleteIndex" BY <1>1, <1>2
<1> QED BY <1>2, <1>5, <1>9, <1>10, <1>11, GrantRead

\* set_bucket_acl reads the document.
LEMMA GrantSetBucketAcl == ASSUME IInv, GrantInv, NEW a \in Admins, SetBucketAcl(a) PROVE GrantInv'
<1>1. PICK h : h = Task(a) OBVIOUS
<1>2. work[a] # << >> /\ h[1] = "setBucketAcl" /\ UNCHANGED <<bucket, index, orphans>>
  BY <1>1 DEF SetBucketAcl, Is, store
<1>3. PICK doc : doc = [bucket[h[2]] EXCEPT !.acl = h[3]] OBVIOUS
<1>4. PICK n : n = <<"upsertBucket", h[2], doc>> OBVIOUS
<1>5. Advance(a, <<n>>) BY <1>1, <1>3, <1>4 DEF SetBucketAcl
<1>6. h[2] \in Buckets /\ h[3] \in Acls BY <1>1, <1>2, Working, TaskFields
<1>7. doc \in Docs /\ doc.acl = h[3] BY <1>3, <1>6 DEF IInv, TypeOK, Docs
<1>8. n \in AnyTask BY <1>4, <1>6, <1>7 DEF AnyTask
<1>9. <<n>> \in Seq(AnyTask) /\ Left(<<n>>) = {n} BY <1>8, OneTask, LeftOne
<1>10. ASSUME trust # "broken"
       PROVE  /\ Plan(cmd[a], bucket, index, orphans, Left(<<n>>) \cup Left(Tail(work[a])))
              /\ Ordered(cmd[a], <<n>>)
              /\ \A s \in Left(<<n>>) : Follows(cmd[a], Task(a), s)
  <2>1. PICK c, R : c = cmd[a] /\ R = Left(Tail(work[a])) OBVIOUS
  <2>2. /\ Plan(c, bucket, index, orphans, {h} \cup R) /\ (\A t \in R : InOrder(c, h, t))
        /\ c.op \in Operations
    BY <1>1, <1>2, <1>10, <2>1, Working
  <2>3. PICK N : N = {<<"upsertBucket", h[2], doc>>} OBVIOUS
  <2>4. Plan(c, bucket, index, orphans, N \cup R)
    BY ONLY <1>2, <1>7, <2>2, <2>3, PlanSetBucketAcl
  <2>5. n[1] = "upsertBucket" BY <1>4
  <2>6. Follows(c, h, n) BY <1>2, <2>5 DEF Follows, IndexTask
  <2>7. N = {n} BY <1>4, <2>3
  <2> QED BY <1>1, <1>9, <2>1, <2>4, <2>6, <2>7, OrderedShort
<1>11. Task(a)[1] # "deleteIndex" BY <1>1, <1>2
<1> QED BY <1>2, <1>5, <1>9, <1>10, <1>11, GrantRead

\* The index tasks of a bucket.
LEMMA LeftIndexTasks ==
    ASSUME NEW b \in Buckets, NEW S \in SUBSET Principals, NEW T \in SUBSET Principals,
           NEW gone \in Orders(S), NEW new \in Orders(T)
    PROVE  /\ IndexTasks(b, gone, new) \in Seq(AnyTask)
           /\ Left(IndexTasks(b, gone, new)) =
                {<<"removeIndex", p, b>> : p \in S} \cup {<<"addIndex", p, b>> : p \in T}
           /\ \A c : Ordered(c, IndexTasks(b, gone, new))
<1> DEFINE u == [i \in 1..Len(gone) |-> <<"removeIndex", gone[i], b>>]
           v == [i \in 1..Len(new) |-> <<"addIndex", new[i], b>>]
           f == [p \in S |-> <<"removeIndex", p, b>>]
           g == [p \in T |-> <<"addIndex", p, b>>]
<1>1. IsFiniteSet(S) /\ IsFiniteSet(T) BY FiniteNames
<1>2. gone \in Seq(S) /\ new \in Seq(T) BY <1>1, OrdersSeq
<1>3. Len(gone) \in Nat /\ Len(new) \in Nat BY <1>2
<1>4. u \in Seq(AnyTask) /\ Len(u) = Len(gone)
  <2>1. \A i \in 1..Len(gone) : <<"removeIndex", gone[i], b>> \in AnyTask BY <1>2 DEF AnyTask
  <2> QED BY <1>3, <2>1, FunctionSeq
<1>5. v \in Seq(AnyTask) /\ Len(v) = Len(new)
  <2>1. \A i \in 1..Len(new) : <<"addIndex", new[i], b>> \in AnyTask BY <1>2 DEF AnyTask
  <2> QED BY <1>3, <2>1, FunctionSeq
<1>6. \A i \in 1..Len(gone) : u[i] = f[gone[i]] BY <1>2
<1>7. \A i \in 1..Len(new) : v[i] = g[new[i]] BY <1>2
<1>8. (\A p \in S : f[p] = <<"removeIndex", p, b>>) /\ \A p \in T : g[p] = <<"addIndex", p, b>> OBVIOUS
<1>9. IndexTasks(b, gone, new) = u \o v BY DEF IndexTasks, ForAll
<1> HIDE DEF u, v, f, g
<1>10. Left(u) = {f[p] : p \in S} BY <1>1, <1>4, <1>6, LeftAll
<1>11. Left(v) = {g[p] : p \in T} BY <1>1, <1>5, <1>7, LeftAll
<1>12. Left(u) = {<<"removeIndex", p, b>> : p \in S} BY <1>8, <1>10
<1>13. Left(v) = {<<"addIndex", p, b>> : p \in T} BY <1>8, <1>11
<1>14. u \o v \in Seq(AnyTask) BY <1>4, <1>5
<1>15. Left(u \o v) = Left(u) \cup Left(v) BY <1>4, <1>5, LeftJoin
<1>16. (\A s \in Left(u) : s[1] = "removeIndex") /\ \A s \in Left(v) : s[1] = "addIndex" BY <1>12, <1>13
<1>17. ASSUME NEW c PROVE Ordered(c, u \o v)
  <2>1. \A s, t \in Left(u \o v) : InOrder(c, s, t) BY <1>15, <1>16 DEF InOrder, IndexTask
  <2> QED BY <2>1, OrderedAlike
<1> QED BY <1>9, <1>12, <1>13, <1>14, <1>15, <1>17

\* upsert_bucket reads the document.
LEMMA GrantUpsertBucket == ASSUME IInv, GrantInv, NEW a \in Admins, UpsertBucket(a) PROVE GrantInv'
<1>1. PICK h : h = Task(a) OBVIOUS
<1>2. work[a] # << >> /\ h[1] = "upsertBucket" /\ UNCHANGED <<bucket, index, orphans>>
  BY <1>1 DEF UpsertBucket, Is, store
<1>3. h[2] \in Buckets /\ h[3] \in Docs BY <1>1, <1>2, Working, TaskFields
<1>4. PICK doc : doc = [h[3] EXCEPT !.acl = NormalizeAcl(@)] OBVIOUS
<1>5. doc \in Docs /\ doc.acl = NormalizeAcl(h[3].acl) BY <1>3, <1>4, NormalizedAcl DEF Docs
<1>6. Named(doc.acl) = Named(h[3].acl) BY <1>3, <1>5, NormalizedNames DEF Docs
<1>7. PICK old, new : old = Named(bucket[h[2]].acl) /\ new = Named(doc.acl) OBVIOUS
<1>8. old \in SUBSET Principals /\ new \in SUBSET Principals
  BY <1>3, <1>5, <1>7, NamedPrincipals DEF IInv, TypeOK, Docs
<1>9. PICK put : put = <<"putBucket", h[2], doc>> OBVIOUS
<1>10. PICK x \in Orders(old \ new), y \in Orders(new \ old) :
         Advance(a, IndexTasks(h[2], x, y) \o <<put>>)
  BY <1>1, <1>4, <1>7, <1>9 DEF UpsertBucket
<1>11. PICK v : v = IndexTasks(h[2], x, y) OBVIOUS
<1>12. PICK out, in : /\ out = {<<"removeIndex", p, h[2]>> : p \in old \ new}
                      /\ in = {<<"addIndex", p, h[2]>> : p \in new \ old}
  OBVIOUS
<1>13. v \in Seq(AnyTask) /\ Left(v) = out \cup in /\ \A c : Ordered(c, v)
  <2>1. old \ new \in SUBSET Principals /\ new \ old \in SUBSET Principals BY <1>8
  <2>2. PICK S, T : S = old \ new /\ T = new \ old OBVIOUS
  <2>3. /\ S \in SUBSET Principals /\ T \in SUBSET Principals /\ x \in Orders(S) /\ y \in Orders(T)
        /\ out = {<<"removeIndex", p, h[2]>> : p \in S} /\ in = {<<"addIndex", p, h[2]>> : p \in T}
    BY <1>10, <1>12, <2>1, <2>2
  <2> QED BY ONLY <1>3, <1>11, <2>3, LeftIndexTasks
<1>14. put \in AnyTask /\ put[1] = "putBucket" BY <1>3, <1>5, <1>9 DEF AnyTask
<1>15. <<put>> \in Seq(AnyTask) /\ Left(<<put>>) = {put} BY <1>14, OneTask, LeftOne
<1>16. PICK w : w = v \o <<put>> OBVIOUS
<1>17. w \in Seq(AnyTask) /\ Left(w) = out \cup in \cup {put}
  <2>1. v \o <<put>> \in Seq(AnyTask) BY <1>13, <1>15
  <2>2. Left(v \o <<put>>) = Left(v) \cup Left(<<put>>) BY <1>13, <1>15, LeftJoin
  <2> QED BY <1>13, <1>15, <1>16, <2>1, <2>2
<1>18. Advance(a, w) BY <1>10, <1>11, <1>16
<1>19. (\A s \in out : s[1] = "removeIndex") /\ \A s \in in : s[1] = "addIndex" BY <1>12
<1>20. ASSUME trust # "broken"
       PROVE  /\ Plan(cmd[a], bucket, index, orphans, Left(w) \cup Left(Tail(work[a])))
              /\ Ordered(cmd[a], w)
              /\ \A s \in Left(w) : Follows(cmd[a], Task(a), s)
  <2>1. PICK c, R : c = cmd[a] /\ R = Left(Tail(work[a])) OBVIOUS
  <2>2. /\ Plan(c, bucket, index, orphans, {h} \cup R) /\ (\A t \in R : InOrder(c, h, t))
        /\ c.op \in Operations
    BY <1>1, <1>2, <1>20, <2>1, Working
  <2>3. PICK N : N = out \cup in \cup {<<"putBucket", h[2], doc>>} OBVIOUS
  <2>4. Plan(c, bucket, index, orphans, N \cup R)
    <3>1. Named(doc.acl) \subseteq Principals BY <1>7, <1>8
    <3> QED BY ONLY <1>2, <1>3, <1>6, <1>7, <1>12, <2>2, <2>3, <3>1, PlanUpsertBucket
  <2>5. Ordered(c, w)
    <3>1. \A s \in Left(v), t \in Left(<<put>>) : InOrder(c, s, t)
      BY <1>13, <1>14, <1>15, <1>19 DEF InOrder, IndexTask
    <3>2. Ordered(c, v) /\ Ordered(c, <<put>>) BY <1>13, OrderedShort
    <3> QED BY <1>13, <1>15, <1>16, <3>1, <3>2, OrderedJoin
  <2>6. \A s \in Left(w) : Follows(c, h, s) BY <1>2, <1>14, <1>17, <1>19 DEF Follows, IndexTask
  <2>7. Left(w) = N BY <1>9, <1>17, <2>3
  <2> QED BY <1>1, <2>1, <2>4, <2>5, <2>6, <2>7
<1>21. Task(a)[1] # "deleteIndex" BY <1>1, <1>2
<1> QED BY <1>2, <1>17, <1>18, <1>20, <1>21, GrantRead

\* delete_bucket reads the document.
LEMMA GrantDeleteBucket == ASSUME IInv, GrantInv, NEW a \in Admins, DeleteBucket(a) PROVE GrantInv'
<1>1. PICK h : h = Task(a) OBVIOUS
<1>2. work[a] # << >> /\ h[1] = "deleteBucket" /\ UNCHANGED <<bucket, index, orphans>>
  BY <1>1 DEF DeleteBucket, Is, store
<1>3. h[2] \in Buckets BY <1>1, <1>2, Working, TaskFields
<1>4. PICK old : old = Named(bucket[h[2]].acl) OBVIOUS
<1>5. old \in SUBSET Principals BY <1>3, <1>4, NamedPrincipals DEF IInv, TypeOK, Docs
<1>6. PICK del : del = <<"deleteDoc", h[2]>> OBVIOUS
<1>7. PICK x \in Orders(old) :
         Advance(a, IF bucket[h[2]] = NoDoc THEN << >> ELSE IndexTasks(h[2], x, << >>) \o <<del>>)
  BY <1>1, <1>4, <1>6 DEF DeleteBucket
<1>8. PICK v : v = IndexTasks(h[2], x, << >>) OBVIOUS
<1>9. PICK out : out = {<<"removeIndex", p, h[2]>> : p \in old} OBVIOUS
<1>10. v \in Seq(AnyTask) /\ Left(v) = out /\ \A c : Ordered(c, v)
  <2>1. << >> \in Orders({})
    <3>1. Cardinality({}) = 0 BY FS_EmptySet
    <3> QED BY <3>1 DEF Orders
  <2>2. {} \in SUBSET Principals OBVIOUS
  <2>3. PICK in : in = {<<"addIndex", p, h[2]>> : p \in {}} OBVIOUS
  <2>4. v \in Seq(AnyTask) /\ Left(v) = out \cup in /\ \A c : Ordered(c, v)
    <3>1. PICK y, T : y = << >> /\ T = {} OBVIOUS
    <3>2. y \in Orders(T) /\ T \in SUBSET Principals BY <2>1, <3>1
    <3>3. v = IndexTasks(h[2], x, y) /\ in = {<<"addIndex", p, h[2]>> : p \in T} BY <1>8, <2>3, <3>1
    <3> QED BY ONLY <1>3, <1>5, <1>7, <1>9, <3>2, <3>3, LeftIndexTasks
  <2>5. in = {} BY <2>3
  <2> QED BY <2>4, <2>5
<1>11. del \in AnyTask /\ del[1] = "deleteDoc" BY <1>3, <1>6 DEF AnyTask
<1>12. <<del>> \in Seq(AnyTask) /\ Left(<<del>>) = {del} BY <1>11, OneTask, LeftOne
<1>13. PICK w : w = IF bucket[h[2]] = NoDoc THEN << >> ELSE v \o <<del>> OBVIOUS
<1>14. PICK N : N = IF bucket[h[2]] = NoDoc THEN {} ELSE out \cup {del} OBVIOUS
<1>15. \A s \in out : s[1] = "removeIndex" BY <1>9
<1>16. w \in Seq(AnyTask) /\ Left(w) = N /\ \A c : Ordered(c, w)
  <2>1. CASE bucket[h[2]] = NoDoc
    <3>1. w = << >> /\ N = {} BY <1>13, <1>14, <2>1
    <3>2. w \in Seq(AnyTask) BY <3>1, NoTasks
    <3>3. Left(w) = N BY <3>1, LeftNothing
    <3>4. \A c : Ordered(c, w) BY <3>1, OrderedShort
    <3> QED BY <3>2, <3>3, <3>4
  <2>2. CASE bucket[h[2]] # NoDoc
    <3>1. w = v \o <<del>> /\ N = out \cup {del} BY <1>13, <1>14, <2>2
    <3>2. v \o <<del>> \in Seq(AnyTask) BY <1>10, <1>12
    <3>3. Left(v \o <<del>>) = Left(v) \cup Left(<<del>>) BY <1>10, <1>12, LeftJoin
    <3>4. ASSUME NEW c PROVE Ordered(c, v \o <<del>>)
      <4>1. \A s \in Left(v), t \in Left(<<del>>) : InOrder(c, s, t)
        BY <1>10, <1>11, <1>12, <1>15 DEF InOrder, IndexTask
      <4>2. Ordered(c, v) /\ Ordered(c, <<del>>) BY <1>10, OrderedShort
      <4> QED BY <1>10, <1>12, <4>1, <4>2, OrderedJoin
    <3> QED BY <1>10, <1>12, <3>1, <3>2, <3>3, <3>4
  <2> QED BY <2>1, <2>2
<1>17. Advance(a, w)
  <2>1. w = IF bucket[h[2]] = NoDoc THEN << >> ELSE IndexTasks(h[2], x, << >>) \o <<del>> BY <1>8, <1>13
  <2> QED BY <1>7, <2>1
<1>18. \A s \in N : s[1] \in {"removeIndex", "deleteDoc"}
  <2>1. CASE bucket[h[2]] = NoDoc BY <1>14, <2>1
  <2>2. CASE bucket[h[2]] # NoDoc BY <1>11, <1>14, <1>15, <2>2
  <2> QED BY <2>1, <2>2
<1>19. ASSUME trust # "broken"
       PROVE  /\ Plan(cmd[a], bucket, index, orphans, Left(w) \cup Left(Tail(work[a])))
              /\ Ordered(cmd[a], w)
              /\ \A s \in Left(w) : Follows(cmd[a], Task(a), s)
  <2>1. PICK c, R : c = cmd[a] /\ R = Left(Tail(work[a])) OBVIOUS
  <2>2. /\ Plan(c, bucket, index, orphans, {h} \cup R) /\ (\A t \in R : InOrder(c, h, t))
        /\ c.op \in Operations
    BY <1>1, <1>2, <1>19, <2>1, Working
  <2>3. N = IF bucket[h[2]] = NoDoc THEN {}
            ELSE {<<"removeIndex", p, h[2]>> : p \in Named(bucket[h[2]].acl)} \cup {<<"deleteDoc", h[2]>>}
    BY ONLY <1>4, <1>6, <1>9, <1>14
  <2>4. Plan(c, bucket, index, orphans, N \cup R) BY ONLY <1>2, <2>2, <2>3, PlanDeleteBucket
  <2>5. \A s \in Left(w) : Follows(c, h, s) BY <1>2, <1>16, <1>18 DEF Follows, IndexTask
  <2> QED BY <1>1, <1>16, <2>1, <2>4, <2>5
<1>20. Task(a)[1] # "deleteIndex" BY <1>1, <1>2
<1> QED BY <1>2, <1>16, <1>17, <1>19, <1>20, GrantRead

\* purge_tree lists a directory.
LEMMA GrantPurge == ASSUME IInv, GrantInv, NEW a \in Admins, Purge(a) PROVE GrantInv'
<1>1. PICK h : h = Task(a) OBVIOUS
<1>2. work[a] # << >> /\ h[1] = "purge" /\ UNCHANGED <<bucket, index, orphans>>
  BY <1>1 DEF Purge, Is, store
<1>3. h[2] \in {"users", "buckets", "index/group", "index/access_key"}
  BY <1>1, <1>2, Working, TaskFields
<1> DEFINE ks == CASE h[2] = "users" -> users
                   [] h[2] = "buckets" -> {b \in Buckets : bucket[b] # NoDoc}
                   [] h[2] = "index/group" -> {g \in Groups : index[g] # {}}
                   [] h[2] = "index/access_key" -> {u \in Users : index[u] # {}}
           lf == CASE h[2] = "users" -> "deleteUser" [] h[2] = "buckets" -> "deleteDoc"
                   [] OTHER -> "deleteIndex"
<1>4. PICK keys, leaf : keys = ks /\ leaf = lf OBVIOUS
<1>5. \/ keys \subseteq Users /\ leaf = "deleteUser"
      \/ keys \subseteq Buckets /\ leaf = "deleteDoc"
      \/ keys \subseteq Principals /\ leaf = "deleteIndex"
  BY <1>3, <1>4 DEF IInv, TypeOK, Principals
<1>6. h[2] = "buckets" => keys = {b \in Buckets : bucket[b] # NoDoc} BY <1>4
<1>7. PICK q \in Orders(keys) : Advance(a, [i \in 1..Len(q) |-> <<leaf, q[i]>>])
  BY <1>1, <1>4 DEF Purge, ForAll
<1> DEFINE v == [i \in 1..Len(q) |-> <<leaf, q[i]>>]
           f == [k \in keys |-> <<leaf, k>>]
<1>8. IsFiniteSet(keys)
  <2>1. Users \subseteq Principals BY DEF Principals
  <2> QED BY <1>5, <2>1, FiniteNames
<1>9. q \in Seq(keys) BY <1>8, OrdersSeq
<1>10. v \in Seq(AnyTask) /\ Len(v) = Len(q)
  <2>1. \A k \in keys : <<leaf, k>> \in AnyTask BY <1>5 DEF AnyTask
  <2>2. \A i \in 1..Len(q) : <<leaf, q[i]>> \in AnyTask BY <1>9, <2>1
  <2>3. Len(q) \in Nat BY <1>9
  <2> QED BY <2>2, <2>3, FunctionSeq
<1>11. \A i \in 1..Len(q) : v[i] = f[q[i]] BY <1>9
<1>12. \A k \in keys : f[k] = <<leaf, k>> OBVIOUS
<1>13. Advance(a, v) BY <1>7
<1>14. PICK N : N = {<<leaf, k>> : k \in keys} OBVIOUS
<1>15. Leaves(N, h[2], leaf, keys, bucket)
  <2>1. /\ leaf \in {"deleteUser", "deleteDoc", "deleteIndex"}
        /\ leaf = "deleteIndex" => h[2] \in {"index/group", "index/access_key"}
        /\ h[2] = "buckets" => leaf = "deleteDoc" /\ \A b \in Buckets : bucket[b] # NoDoc => b \in keys
    BY <1>3, <1>4, <1>6
  <2> QED BY <1>14, <2>1 DEF Leaves
<1> HIDE DEF v, f, ks, lf
<1>16. Left(v) = N
  <2>1. PICK list, task : list = v /\ task = f OBVIOUS
  <2>2. q \in Orders(keys) /\ Len(list) = Len(q) /\ \A i \in 1..Len(q) : list[i] = task[q[i]]
    BY <1>7, <1>10, <1>11, <2>1
  <2>3. Left(list) = {task[k] : k \in keys} BY ONLY <1>8, <2>2, LeftAll
  <2>4. \A k \in keys : task[k] = <<leaf, k>> BY <1>12, <2>1
  <2>5. Left(list) = {<<leaf, k>> : k \in keys} BY ONLY <2>3, <2>4
  <2> QED BY ONLY <1>14, <2>1, <2>5
<1>17. \A s \in N : s[1] = leaf BY <1>14
<1>18. ASSUME trust # "broken"
       PROVE  /\ Plan(cmd[a], bucket, index, orphans, Left(v) \cup Left(Tail(work[a])))
              /\ Ordered(cmd[a], v)
              /\ \A s \in Left(v) : Follows(cmd[a], Task(a), s)
  <2>1. PICK c, R : c = cmd[a] /\ R = Left(Tail(work[a])) OBVIOUS
  <2>2. /\ Plan(c, bucket, index, orphans, {h} \cup R) /\ (\A t \in R : InOrder(c, h, t))
        /\ c.op \in Operations
    BY <1>1, <1>2, <1>18, <2>1, Working
  <2>3. Plan(c, bucket, index, orphans, N \cup R) BY ONLY <1>2, <1>15, <2>2, PlanPurge
  <2>4. c.op = "import"
    <3>1. TaskOf(c, bucket, h) BY <2>2 DEF Plan
    <3> QED BY <1>2, <2>2, <3>1 DEF TaskOf, Operations, Replaces
  <2>5. Ordered(c, v)
    <3>1. \A s, t \in Left(v) : InOrder(c, s, t) BY <1>5, <1>16, <1>17, <2>4 DEF InOrder
    <3> QED BY <3>1, OrderedAlike
  <2>6. \A s \in Left(v) : Follows(c, h, s) BY <1>2, <1>5, <1>16, <1>17, <2>4 DEF Follows, IndexTask
  <2> QED BY <1>1, <1>16, <2>1, <2>3, <2>5, <2>6
<1>19. Task(a)[1] # "deleteIndex" BY <1>1, <1>2
<1> QED BY <1>2, <1>10, <1>13, <1>18, <1>19, GrantRead

\* No task that is left touches a steady grant.
LEMMA SteadyUntouched ==
    ASSUME IInv, SteadyOK, NEW pb \in steady
    PROVE  /\ pb[1] \in Principals /\ pb[2] \in Buckets /\ Grants(bucket, pb[1], pb[2])
           /\ trust = "ok" /\ pb[1] \notin orphans
           /\ \A a \in Admins : \A t \in Left(work[a]) : ~Touches(t, pb[1], pb[2])
<1>1. pb \in Safe(bucket, work) /\ trust = "ok" /\ pb[1] \notin orphans BY DEF SteadyOK
<1>2. pb \in Granted(bucket) BY <1>1 DEF Safe
<1>3. pb[1] \in Principals /\ pb[2] \in Buckets /\ Grants(bucket, pb[1], pb[2])
  BY <1>2 DEF Granted, Grants
<1>4. \A a \in Admins : \A i \in 1..Len(work[a]) : ~Touches(work[a][i], pb[1], pb[2])
  BY <1>1 DEF Safe
<1>5. \A a \in Admins : \A t \in Left(work[a]) : ~Touches(t, pb[1], pb[2]) BY <1>4 DEF Left
<1> QED BY <1>1, <1>3, <1>5

\* An index is written.
LEMMA GrantWriteIndex == ASSUME IInv, GrantInv, NEW a \in Admins, WriteIndex(a) PROVE GrantInv'
<1>1. PICK h : h = Task(a) OBVIOUS
<1>2. /\ work[a] # << >> /\ h[1] = "writeIndex" /\ bucket' = bucket /\ orphans' = orphans
      /\ index' = [index EXCEPT ![h[2]] = h[3]] /\ Advance(a, << >>)
  BY <1>1 DEF WriteIndex, Is
<1>3. h[2] \in Principals BY <1>1, <1>2, Working, TaskFields
<1>4. PICK idx2 : idx2 = index' OBVIOUS
<1>5. idx2[h[2]] = h[3] /\ \A p \in Principals : p # h[2] => idx2[p] = index[p]
  BY <1>2, <1>3, <1>4 DEF IInv, TypeOK
<1>6. ASSUME trust # "broken" PROVE PlanOK(cmd[a], bucket', index', orphans', << >> \o Tail(work[a]))
  <2>1. PICK c, w, R : c = cmd[a] /\ w = work[a] /\ R = Left(Tail(work[a])) OBVIOUS
  <2>2. /\ PlanOK(c, bucket, index, orphans, w) /\ w \in Seq(AnyTask) /\ w # << >> /\ h = Head(w)
        /\ Plan(c, bucket, index, orphans, {h} \cup R) /\ (\A t \in R : InOrder(c, h, t))
    BY <1>1, <1>2, <1>6, <2>1, Working DEF Task
  <2>3. \A t \in R : t[1] = "putBucket" => Named(t[3].acl) \subseteq Principals
    <3>1. Tail(work[a]) \in Seq(AnyTask) BY <1>2, Working
    <3>2. \A t \in R : t \in AnyTask BY <2>1, <3>1 DEF Left
    <3>3. ASSUME NEW t \in R, t[1] = "putBucket" PROVE Named(t[3].acl) \subseteq Principals
      <4>1. t[3] \in Docs BY <3>2, <3>3, TaskFields
      <4>2. t[3].acl \in Acls BY <4>1 DEF Docs
      <4> QED BY <4>2, NamedPrincipals
    <3> QED BY <3>3
  <2>4. Plan(c, bucket, idx2, orphans, R) BY ONLY <1>2, <1>5, <2>2, <2>3, PlanWriteIndex, ZenonT(60)
  <2>5. Plan(c, bucket, idx2, orphans, Left(<< >>) \cup Left(Tail(w))) BY <2>1, <2>4, LeftNothing
  <2>6. Ordered(c, << >>) /\ \A s \in Left(<< >>) : Follows(c, Head(w), s) BY OrderedShort, LeftNothing
  <2>7. Head(w)[1] # "deleteIndex" BY <1>2, <2>2
  <2>8. PlanOK(c, bucket, idx2, orphans, << >> \o Tail(w))
    BY ONLY <2>2, <2>5, <2>6, <2>7, NoTasks, PlanAdvance
  <2> QED BY <1>2, <1>4, <2>1, <2>8
<1>7. \A pb \in steady' : pb[1] \notin orphans' BY <1>2, SteadyKept
<1>8. trust # "broken" => \A u \in cleaned, b \in Buckets : ~Grants(bucket', u, b)
  BY <1>2 DEF GrantInv, CleanedOK
<1> QED BY <1>2, <1>6, <1>7, <1>8, NoTasks, GrantAdvance

\* An index is deleted.
LEMMA GrantDeleteIndex == ASSUME IInv, GrantInv, NEW a \in Admins, DeleteIndex(a) PROVE GrantInv'
<1>1. PICK h : h = Task(a) OBVIOUS
<1>2. /\ work[a] # << >> /\ h[1] = "deleteIndex" /\ bucket' = bucket
      /\ orphans' = IF Forsakes(cmd[a]) THEN orphans \cup {h[2]} ELSE orphans
      /\ index' = [index EXCEPT ![h[2]] = {}] /\ Advance(a, << >>)
  BY <1>1 DEF DeleteIndex, Is, Forsakes
<1>3. h[2] \in Principals BY <1>1, <1>2, Working, TaskFields
<1>4. PICK idx2, gone2 : idx2 = index' /\ gone2 = orphans' OBVIOUS
<1>5. idx2[h[2]] = {} /\ \A p \in Principals : p # h[2] => idx2[p] = index[p]
  BY <1>2, <1>3, <1>4 DEF IInv, TypeOK
<1>6. orphans \subseteq gone2 /\ (Forsakes(cmd[a]) => h[2] \in gone2) BY <1>2, <1>4
<1>7. ASSUME trust # "broken" PROVE PlanOK(cmd[a], bucket', index', orphans', << >> \o Tail(work[a]))
  <2>1. PICK c, w : c = cmd[a] /\ w = work[a] OBVIOUS
  <2>2. PlanOK(c, bucket, index, orphans, w) /\ w \in Seq(AnyTask) /\ w # << >> /\ h = Head(w)
    BY <1>1, <1>2, <1>7, <2>1, Working DEF Task
  <2>3. idx2[Head(w)[2]] = {} /\ \A p \in Principals : p # Head(w)[2] => idx2[p] = index[p]
    BY <1>5, <2>2
  <2>4. Forsakes(c) => Head(w)[2] \in gone2 BY <1>6, <2>1, <2>2
  <2>5. Head(w)[1] = "deleteIndex" BY <1>2, <2>2
  <2>6. PlanOK(c, bucket, idx2, gone2, Tail(w))
    BY ONLY <1>6, <2>2, <2>3, <2>4, <2>5, PlanAfterDeleteIndex
  <2>7. << >> \o Tail(w) = Tail(w)
    <3>1. Tail(w) \in Seq(AnyTask) BY <1>2, <2>1, Working
    <3> QED BY ONLY <3>1
  <2> QED BY <1>2, <1>4, <2>1, <2>6, <2>7
<1>8. ASSUME NEW pb \in steady' PROVE pb[1] \notin orphans'
  <2>1. pb \in steady BY <1>2 DEF Advance, Observe
  <2>2. pb[1] \notin orphans /\ ~Touches(h, pb[1], pb[2])
    <3>1. work[a] \in Seq(AnyTask) BY <1>2, Working
    <3>2. h \in Left(work[a]) BY <1>1, <1>2, <3>1, LeftSplit DEF Task
    <3> QED BY <2>1, <3>2, SteadyUntouched DEF GrantInv
  <2>3. pb[1] # h[2] BY <1>2, <2>2 DEF Touches
  <2> QED BY <1>2, <2>2, <2>3
<1>9. trust # "broken" => \A u \in cleaned, b \in Buckets : ~Grants(bucket', u, b)
  BY <1>2 DEF GrantInv, CleanedOK
<1>10. orphans \subseteq orphans' BY <1>4, <1>6
<1> QED BY <1>2, <1>7, <1>8, <1>9, <1>10, NoTasks, GrantAdvance

\* A document is put.
LEMMA GrantPutBucket == ASSUME IInv, GrantInv, NEW a \in Admins, PutBucket(a) PROVE GrantInv'
<1>1. PICK h : h = Task(a) OBVIOUS
<1>2. /\ work[a] # << >> /\ h[1] = "putBucket" /\ index' = index /\ orphans' = orphans
      /\ bucket' = [bucket EXCEPT ![h[2]] = h[3]] /\ Advance(a, << >>)
  BY <1>1 DEF PutBucket, Is
<1>3. h[2] \in Buckets BY <1>1, <1>2, Working, TaskFields
<1>4. PICK docs2 : docs2 = bucket' OBVIOUS
<1>5. docs2[h[2]] = h[3] /\ \A b \in Buckets : b # h[2] => docs2[b] = bucket[b]
  BY <1>2, <1>3, <1>4 DEF IInv, TypeOK
<1>6. ASSUME trust # "broken" PROVE PlanOK(cmd[a], bucket', index', orphans', << >> \o Tail(work[a]))
  <2>1. PICK c, w, R : c = cmd[a] /\ w = work[a] /\ R = Left(Tail(work[a])) OBVIOUS
  <2>2. /\ PlanOK(c, bucket, index, orphans, w) /\ w \in Seq(AnyTask) /\ w # << >> /\ h = Head(w)
        /\ Plan(c, bucket, index, orphans, {h} \cup R) /\ (\A t \in R : InOrder(c, h, t))
    BY <1>1, <1>2, <1>6, <2>1, Working DEF Task
  <2>3. Plan(c, docs2, index, orphans, R) BY ONLY <1>2, <1>5, <2>2, PlanPutBucket, SMTT(60)
  <2>4. Plan(c, docs2, index, orphans, Left(<< >>) \cup Left(Tail(w))) BY <2>1, <2>3, LeftNothing
  <2>5. Ordered(c, << >>) /\ \A s \in Left(<< >>) : Follows(c, Head(w), s) BY OrderedShort, LeftNothing
  <2>6. Head(w)[1] # "deleteIndex" BY <1>2, <2>2
  <2>7. PlanOK(c, docs2, index, orphans, << >> \o Tail(w))
    BY ONLY <2>2, <2>4, <2>5, <2>6, NoTasks, PlanAdvance
  <2> QED BY <1>2, <1>4, <2>1, <2>7
<1>7. \A pb \in steady' : pb[1] \notin orphans' BY <1>2, SteadyKept
<1>8. ASSUME trust # "broken", NEW u \in cleaned, NEW b \in Buckets PROVE ~Grants(bucket', u, b)
  <2>1. (\A d \in Buckets : ~Grants(bucket, u, d)) /\ u \notin Grantees(cmd[a])
    BY <1>2, <1>8, Working DEF GrantInv, CleanedOK
  <2>2. CASE b # h[2] BY <1>4, <1>5, <2>1, <2>2 DEF Grants
  <2>3. CASE b = h[2]
    <3>1. PICK c : c = cmd[a] OBVIOUS
    <3>2. Plan(c, bucket, index, orphans, {h} \cup Left(Tail(work[a]))) /\ c.op \in Operations
      BY <1>1, <1>2, <1>8, <3>1, Working
    <3>3. TaskOf(c, bucket, h) BY <3>2 DEF Plan
    <3>4. u \notin Grantees(c) /\ ~Grants(bucket, u, h[2]) BY <1>3, <2>1, <3>1
    <3>5. u \notin Named(h[3].acl) BY ONLY <1>2, <3>2, <3>3, <3>4, PutGrants
    <3> QED BY <1>4, <1>5, <2>3, <3>5 DEF Grants
  <2> QED BY <2>2, <2>3
<1> QED BY <1>2, <1>6, <1>7, <1>8, NoTasks, GrantAdvance

\* A document is deleted.
LEMMA GrantDeleteDoc == ASSUME IInv, GrantInv, NEW a \in Admins, DeleteDoc(a) PROVE GrantInv'
<1>1. PICK h : h = Task(a) OBVIOUS
<1>2. /\ work[a] # << >> /\ h[1] = "deleteDoc" /\ index' = index /\ orphans' = orphans
      /\ bucket' = [bucket EXCEPT ![h[2]] = NoDoc] /\ Advance(a, << >>)
  BY <1>1 DEF DeleteDoc, Is
<1>3. h[2] \in Buckets BY <1>1, <1>2, Working, TaskFields
<1>4. PICK docs2 : docs2 = bucket' OBVIOUS
<1>5. docs2[h[2]] = NoDoc /\ \A b \in Buckets : b # h[2] => docs2[b] = bucket[b]
  BY <1>2, <1>3, <1>4 DEF IInv, TypeOK
<1>6. ASSUME trust # "broken" PROVE PlanOK(cmd[a], bucket', index', orphans', << >> \o Tail(work[a]))
  <2>1. PICK c, w, R : c = cmd[a] /\ w = work[a] /\ R = Left(Tail(work[a])) OBVIOUS
  <2>2. /\ PlanOK(c, bucket, index, orphans, w) /\ w \in Seq(AnyTask) /\ w # << >> /\ h = Head(w)
        /\ Plan(c, bucket, index, orphans, {h} \cup R) /\ (\A t \in R : InOrder(c, h, t))
        /\ c.op \in Operations
    BY <1>1, <1>2, <1>6, <2>1, Working DEF Task
  <2>3. Plan(c, docs2, index, orphans, R)
    <3>1. Deletes(bucket, docs2, h[2]) BY <1>5 DEF Deletes
    <3> QED BY ONLY <1>2, <2>2, <3>1, PlanDeleteDoc
  <2>4. Plan(c, docs2, index, orphans, Left(<< >>) \cup Left(Tail(w))) BY <2>1, <2>3, LeftNothing
  <2>5. Ordered(c, << >>) /\ \A s \in Left(<< >>) : Follows(c, Head(w), s) BY OrderedShort, LeftNothing
  <2>6. Head(w)[1] # "deleteIndex" BY <1>2, <2>2
  <2>7. PlanOK(c, docs2, index, orphans, << >> \o Tail(w))
    BY ONLY <2>2, <2>4, <2>5, <2>6, NoTasks, PlanAdvance
  <2> QED BY <1>2, <1>4, <2>1, <2>7
<1>7. \A pb \in steady' : pb[1] \notin orphans' BY <1>2, SteadyKept
<1>8. ASSUME trust # "broken", NEW u \in cleaned, NEW b \in Buckets PROVE ~Grants(bucket', u, b)
  <2>1. ~Grants(bucket, u, b) BY <1>8 DEF GrantInv, CleanedOK
  <2>2. CASE b # h[2] BY <1>4, <1>5, <2>1, <2>2 DEF Grants
  <2>3. CASE b = h[2] BY <1>4, <1>5, <2>3 DEF Grants, Named, NoDoc
  <2> QED BY <2>2, <2>3
<1> QED BY <1>2, <1>6, <1>7, <1>8, NoTasks, GrantAdvance

-----------------------------------------------------------------------------
\* Commands begin and end.

\* No command is the idle one.
LEMMA CommandNotIdle ==
    ASSUME NEW c \in Commands PROVE c # Idle /\ c \in AnyCommand /\ c.op \in Operations
<1>1. c \in AnyCommand /\ c.op \in Operations BY DirectoryAssumption, TasksOf
<1>2. Idle.op = "idle" BY DEF Idle
<1> QED BY <1>1, <1>2 DEF Operations

\* Less has to be revoked where more is.
LEMMA CoveredMore ==
    ASSUME NEW c, NEW d, NEW docs, NEW idx, NEW gone, NEW T, Covered(d, docs, idx, gone, {})
    PROVE  Covered(c, docs, idx, gone, T)
BY DEF Covered

\* The lookup, in a step of an administrator.
LEMMA LookKept ==
    ASSUME GrantInv, look' = look, Observe, \A pb \in steady' : pb[1] \notin orphans'
    PROVE  SteadyOK' /\ LookOK'
<1>1. steady' = IF trust' = "ok" THEN steady \cap Safe(bucket', work') ELSE {} BY DEF Observe
<1>2. steady' \subseteq Safe(bucket', work') /\ (steady' # {} => trust' = "ok") /\ steady' \subseteq steady
  BY <1>1
<1>3. SteadyOK' BY <1>2 DEF SteadyOK
<1>4. LookOK' BY <1>2 DEF GrantInv, LookOK, Sought
<1> QED BY <1>3, <1>4

\* A command begins.
LEMMA GrantStart ==
    ASSUME IInv, GrantInv, NEW a \in Admins, NEW c \in Commands, Start(a, c) PROVE GrantInv'
<1>1. /\ cmd[a] = Idle /\ cmd' = [cmd EXCEPT ![a] = c] /\ work' = [work EXCEPT ![a] = Tasks(c)]
      /\ trust' = IF Running # {} \/ (trust = "retry" /\ owed # c) THEN "broken" ELSE trust
      /\ cleaned' = cleaned \ Grantees(c)
      /\ bucket' = bucket /\ index' = index /\ look' = look /\ owed' = owed /\ orphans' = orphans
      /\ Observe
  BY DEF Start, store
<1>2. c # Idle /\ c \in AnyCommand BY CommandNotIdle
<1>3. /\ cmd \in [Admins -> Commands \cup {Idle}] /\ trust \in {"ok", "retry", "broken"}
      /\ \A a1 \in Admins : cmd[a1] = Idle => work[a1] = << >>
  BY DEF GrantInv, CommandsOK
<1>4. cmd'[a] = c /\ work'[a] = Tasks(c) BY <1>1, <1>3 DEF IInv, TypeOK
<1>5. \A a1 \in Admins : a1 # a => cmd'[a1] = cmd[a1] /\ work'[a1] = work[a1]
  BY <1>1, <1>3 DEF IInv, TypeOK
<1>6. CommandsOK'
  <2>1. cmd' \in [Admins -> Commands \cup {Idle}] BY <1>1, <1>3
  <2>2. \A a1 \in Admins : cmd'[a1] = Idle => work'[a1] = << >> BY <1>2, <1>3, <1>4, <1>5
  <2>3. trust' \in {"ok", "retry", "broken"} BY <1>1, <1>3
  <2> QED BY <2>1, <2>2, <2>3 DEF CommandsOK
<1>7. ASSUME trust' # "broken"
      PROVE  /\ Running = {} /\ Running' = {a} /\ trust' = trust /\ (trust = "retry" => owed = c)
             /\ trust # "broken"
  <2>1. Running = {} /\ trust' = trust /\ (trust = "retry" => owed = c) BY <1>1, <1>7
  <2>2. Running' = {a} BY <1>2, <1>4, <1>5, <2>1 DEF Running
  <2> QED BY <1>7, <2>1, <2>2
<1>8. Serial'
  <2> SUFFICES ASSUME trust' # "broken" PROVE Serial' BY DEF Serial
  <2>1. /\ Running = {} /\ Running' = {a} /\ trust' = trust /\ (trust = "retry" => owed = c)
        /\ trust # "broken"
    BY <1>7
  <2>2. /\ trust = "retry" => owed \in Commands /\ (owed.op = "user rm" => owed.user \in orphans)
        /\ Covered(owed, bucket, index, orphans, IF trust = "ok" THEN {} ELSE Left(Tasks(owed)))
    BY <2>1 DEF GrantInv, Serial
  <2>3. Covered(c, bucket, index, orphans, Left(Tasks(c)))
    <3>1. CASE trust = "ok"
      <4>1. Covered(owed, bucket, index, orphans, {}) BY <2>2, <3>1
      <4> QED BY <4>1, CoveredMore
    <3>2. CASE trust = "retry"
      <4>1. owed = c BY <2>1, <3>2
      <4>2. Covered(owed, bucket, index, orphans, Left(Tasks(owed))) BY <2>2, <3>2
      <4> QED BY <4>1, <4>2
    <3> QED BY <1>3, <2>1, <3>1, <3>2
  <2>4. PlanOK(c, bucket, index, orphans, Tasks(c)) BY <1>2, <2>3, PlanStart
  <2>5. \A a1 \in Running' : PlanOK(cmd'[a1], bucket', index', orphans', work'[a1])
    BY <1>1, <1>4, <2>1, <2>4
  <2>6. \A a1 \in Running' : trust' = "retry" => owed' = cmd'[a1] BY <1>1, <1>4, <2>1
  <2>7. Running' # {} /\ \A a1, a2 \in Running' : a1 = a2 BY <2>1
  <2>8. trust' = "retry" => owed' \in Commands /\ (owed'.op = "user rm" => owed'.user \in orphans')
    BY <1>1, <2>1, <2>2
  <2> QED BY <2>5, <2>6, <2>7, <2>8 DEF Serial
<1>9. \A pb \in steady' : pb[1] \notin orphans' BY <1>1 DEF Observe, GrantInv, SteadyOK
<1>10. CleanedOK'
  <2> SUFFICES ASSUME trust' # "broken", NEW u \in cleaned'
               PROVE  /\ \A b \in Buckets : ~Grants(bucket', u, b)
                      /\ \A a1 \in Running' : u \notin Grantees(cmd'[a1])
    BY DEF CleanedOK
  <2>1. u \in cleaned /\ u \notin Grantees(c) BY <1>1
  <2>2. Running' = {a} /\ trust # "broken" BY <1>7
  <2> QED BY <1>1, <1>4, <2>1, <2>2 DEF GrantInv, CleanedOK
<1> QED BY <1>1, <1>6, <1>8, <1>9, <1>10, LookKept DEF GrantInv

\* An administrator has nothing left to do, and stops.
LEMMA Stops ==
    ASSUME IInv, GrantInv, NEW a \in Admins, cmd[a] # Idle, cmd' = [cmd EXCEPT ![a] = Idle],
           work'[a] = << >>, \A a1 \in Admins : a1 # a => work'[a1] = work[a1],
           trust' \in {"ok", "retry", "broken"}
    PROVE  /\ CommandsOK' /\ a \in Running /\ Running' = Running \ {a}
           /\ \A a1 \in Running' : cmd'[a1] = cmd[a1]
           /\ trust # "broken" => Running' = {} /\ Running = {a}
<1>1. /\ cmd \in [Admins -> Commands \cup {Idle}]
      /\ \A a1 \in Admins : cmd[a1] = Idle => work[a1] = << >>
  BY DEF GrantInv, CommandsOK
<1>2. cmd'[a] = Idle /\ \A a1 \in Admins : a1 # a => cmd'[a1] = cmd[a1] BY <1>1
<1>3. CommandsOK'
  <2>1. cmd' \in [Admins -> Commands \cup {Idle}] BY <1>1
  <2>2. \A a1 \in Admins : cmd'[a1] = Idle => work'[a1] = << >> BY <1>1, <1>2
  <2> QED BY <2>1, <2>2 DEF CommandsOK
<1>4. a \in Running /\ Running' = Running \ {a} /\ \A a1 \in Running' : cmd'[a1] = cmd[a1]
  BY <1>2 DEF Running
<1>5. trust # "broken" => Running = {a} BY <1>4 DEF GrantInv, Serial
<1> QED BY <1>3, <1>4, <1>5

\* A command succeeds.
LEMMA GrantSucceed == ASSUME IInv, GrantInv, NEW a \in Admins, Succeed(a) PROVE GrantInv'
<1>1. /\ cmd[a] # Idle /\ work[a] = << >> /\ cmd' = [cmd EXCEPT ![a] = Idle]
      /\ trust' = IF trust = "retry" THEN "ok" ELSE trust
      /\ bucket' = bucket /\ index' = index /\ work' = work /\ look' = look /\ owed' = owed
      /\ orphans' = orphans /\ steady' = steady
  BY DEF Succeed, store
<1>2. \A u \in cleaned' : \/ u \in cleaned
                          \/ cmd[a].op = "user rm" /\ u = cmd[a].user /\ u \notin orphans
  BY DEF Succeed
<1>3. trust \in {"ok", "retry", "broken"} BY DEF GrantInv, CommandsOK
<1>4. trust' \in {"ok", "retry", "broken"} /\ (trust' # "broken" => trust' = "ok" /\ trust # "broken")
  BY <1>1, <1>3
<1>5. /\ CommandsOK' /\ a \in Running
      /\ trust # "broken" => Running' = {} /\ Running = {a}
  BY <1>1, <1>4, Stops
<1>6. ASSUME trust # "broken"
      PROVE  Covered(cmd[a], bucket, index, orphans, {}) /\ EndsEmpty(cmd[a], index, << >>)
  <2>1. PlanOK(cmd[a], bucket, index, orphans, << >>) BY <1>1, <1>5, <1>6 DEF GrantInv, Serial
  <2>2. Plan(cmd[a], bucket, index, orphans, {}) BY <2>1, LeftNothing DEF PlanOK
  <2> QED BY <2>1, <2>2 DEF PlanOK, Plan
<1>7. Serial'
  <2> SUFFICES ASSUME trust' # "broken" PROVE Serial' BY DEF Serial
  <2>1. trust' = "ok" /\ trust # "broken" /\ Running' = {} BY <1>4, <1>5
  <2>2. Covered(owed, bucket, index, orphans, {}) BY <1>6, <2>1, CoveredMore
  <2>3. (IF trust' = "ok" THEN {} ELSE Left(Tasks(owed'))) = {} BY <2>1
  <2>4. Covered(owed', bucket', index', orphans', IF trust' = "ok" THEN {} ELSE Left(Tasks(owed')))
    BY <1>1, <2>2, <2>3
  <2> QED BY <2>1, <2>4 DEF Serial
<1>8. SteadyOK' BY <1>1 DEF GrantInv, SteadyOK
<1>9. LookOK' BY <1>1 DEF GrantInv, LookOK, Sought
<1>10. CleanedOK'
  <2> SUFFICES ASSUME trust' # "broken", NEW u \in cleaned'
               PROVE  \A b \in Buckets : ~Grants(bucket, u, b)
    BY <1>1, <1>4, <1>5 DEF CleanedOK
  <2>1. trust # "broken" BY <1>4
  <2>2. CASE u \in cleaned BY <2>1, <2>2 DEF GrantInv, CleanedOK
  <2>3. CASE cmd[a].op = "user rm" /\ u = cmd[a].user /\ u \notin orphans
    <3>1. index[u] = {} BY <1>6, <2>1, <2>3 DEF EndsEmpty
    <3>2. cmd[a] \in Commands BY <1>1 DEF GrantInv, CommandsOK
    <3>3. cmd[a] \in AnyCommand BY <3>2, CommandNotIdle
    <3>4. u \in Users BY <2>3, <3>3 DEF AnyCommand
    <3>5. u \in Principals \ orphans BY <2>3, <3>4 DEF Principals
    <3> QED BY <1>6, <2>1, <3>1, <3>5 DEF Covered
  <2> QED BY <1>2, <2>2, <2>3
<1> QED BY <1>5, <1>7, <1>8, <1>9, <1>10 DEF GrantInv

\* A request fails, and the command with it.
LEMMA GrantFail == ASSUME IInv, GrantInv, NEW a \in Admins, Fail(a) PROVE GrantInv'
<1>1. /\ cmd[a] # Idle /\ cmd' = [cmd EXCEPT ![a] = Idle] /\ work' = [work EXCEPT ![a] = << >>]
      /\ trust' = IF trust = "broken" \/ Running # {a} THEN "broken" ELSE "retry"
      /\ owed' = cmd[a]
      /\ orphans' = IF cmd[a].op = "user rm" THEN orphans \cup {cmd[a].user} ELSE orphans
      /\ bucket' = bucket /\ index' = index /\ look' = look /\ cleaned' = cleaned /\ Observe
  BY DEF Fail, store
<1>2. trust' \in {"retry", "broken"} /\ (trust' # "broken" => trust' = "retry" /\ trust # "broken") BY <1>1
<1>3. work'[a] = << >> /\ \A a1 \in Admins : a1 # a => work'[a1] = work[a1] BY <1>1 DEF IInv, TypeOK
<1>4. /\ CommandsOK' /\ a \in Running /\ Running' = Running \ {a}
      /\ \A a1 \in Running' : cmd'[a1] = cmd[a1]
      /\ trust # "broken" => Running' = {} /\ Running = {a}
  BY <1>1, <1>2, <1>3, Stops
<1>5. cmd[a] \in Commands /\ cmd[a] \in AnyCommand
  <2>1. cmd[a] \in Commands BY <1>1 DEF GrantInv, CommandsOK
  <2> QED BY <2>1, CommandNotIdle
<1>6. Serial'
  <2> SUFFICES ASSUME trust' # "broken" PROVE Serial' BY DEF Serial
  <2>1. trust' = "retry" /\ trust # "broken" /\ Running' = {} BY <1>2, <1>4
  <2>2. PICK c, gone2, S : c = cmd[a] /\ gone2 = orphans' /\ S = Left(work[a]) OBVIOUS
  <2>3. Plan(c, bucket, index, orphans, S) BY <1>4, <2>1, <2>2 DEF GrantInv, Serial, PlanOK
  <2>4. orphans \subseteq gone2 /\ (c.op = "user rm" => c.user \in gone2) BY <1>1, <2>2
  <2>5. c \in AnyCommand BY <1>5, <2>2
  <2>6. Covered(c, bucket, index, gone2, Left(Tasks(c))) BY ONLY <2>3, <2>4, <2>5, PlanFail
  <2>7. Covered(owed', bucket', index', orphans', IF trust' = "ok" THEN {} ELSE Left(Tasks(owed')))
    <3>1. (IF trust' = "ok" THEN {} ELSE Left(Tasks(owed'))) = Left(Tasks(owed')) BY <2>1
    <3>2. owed' = c /\ bucket' = bucket /\ index' = index /\ orphans' = gone2 BY <1>1, <2>2
    <3> QED BY <2>6, <3>1, <3>2
  <2>8. owed' \in Commands /\ (owed'.op = "user rm" => owed'.user \in orphans')
    BY <1>1, <1>5
  <2> QED BY <2>1, <2>7, <2>8 DEF Serial
<1>7. \A pb \in steady' : pb[1] \notin orphans' BY <1>1, <1>2 DEF Observe
<1>8. CleanedOK'
  <2> SUFFICES ASSUME trust' # "broken", NEW u \in cleaned'
               PROVE  /\ \A b \in Buckets : ~Grants(bucket', u, b)
                      /\ \A a1 \in Running' : u \notin Grantees(cmd'[a1])
    BY DEF CleanedOK
  <2>1. trust # "broken" /\ Running' = {} BY <1>2, <1>4
  <2> QED BY <1>1, <2>1 DEF GrantInv, CleanedOK
<1> QED BY <1>1, <1>4, <1>6, <1>7, <1>8, LookKept DEF GrantInv

\* A bucket does not exist, and the command ends.
LEMMA GrantNotFound == ASSUME IInv, GrantInv, NEW a \in Admins, NotFound(a) PROVE GrantInv'
<1>1. PICK h : h = Task(a) OBVIOUS
<1>2. /\ work[a] # << >> /\ h[1] = "setBucketAcl" /\ bucket[h[2]] = NoDoc
      /\ cmd' = [cmd EXCEPT ![a] = Idle] /\ work' = [work EXCEPT ![a] = << >>]
      /\ bucket' = bucket /\ index' = index /\ look' = look /\ trust' = trust /\ owed' = owed
      /\ orphans' = orphans /\ cleaned' = cleaned /\ Observe
  BY <1>1 DEF NotFound, Is, store
<1>3. cmd[a] # Idle /\ trust \in {"ok", "retry", "broken"} BY <1>2 DEF GrantInv, CommandsOK
<1>4. work'[a] = << >> /\ \A a1 \in Admins : a1 # a => work'[a1] = work[a1] BY <1>2 DEF IInv, TypeOK
<1>5. /\ CommandsOK' /\ a \in Running
      /\ trust # "broken" => Running' = {} /\ Running = {a}
  BY <1>2, <1>3, <1>4, Stops
<1>6. Serial'
  <2> SUFFICES ASSUME trust' # "broken" PROVE Serial' BY DEF Serial
  <2>1. trust' = trust /\ trust # "broken" /\ Running' = {} BY <1>2, <1>5
  <2>2. PICK c, R : c = cmd[a] /\ R = Left(Tail(work[a])) OBVIOUS
  <2>3. /\ Plan(c, bucket, index, orphans, {h} \cup R) /\ (\A t \in R : InOrder(c, h, t))
        /\ c.op \in Operations
    BY <1>1, <1>2, <2>1, <2>2, Working
  <2>4. Covered(c, bucket, index, orphans, {}) BY ONLY <1>2, <2>3, PlanNotFound
  <2>5. Covered(owed', bucket', index', orphans', IF trust' = "ok" THEN {} ELSE Left(Tasks(owed')))
    <3>1. PICK T : T = IF trust' = "ok" THEN {} ELSE Left(Tasks(owed')) OBVIOUS
    <3>2. Covered(owed, bucket, index, orphans, T) BY <2>4, CoveredMore
    <3> QED BY <1>2, <3>1, <3>2
  <2>6. trust = "retry" => owed \in Commands /\ (owed.op = "user rm" => owed.user \in orphans)
    BY <2>1 DEF GrantInv, Serial
  <2>7. trust' = "retry" => owed' \in Commands /\ (owed'.op = "user rm" => owed'.user \in orphans')
    BY <1>2, <2>6
  <2> QED BY <2>1, <2>5, <2>7 DEF Serial
<1>7. \A pb \in steady' : pb[1] \notin orphans' BY <1>2 DEF Observe, GrantInv, SteadyOK
<1>8. CleanedOK'
  <2> SUFFICES ASSUME trust' # "broken", NEW u \in cleaned'
               PROVE  /\ \A b \in Buckets : ~Grants(bucket', u, b)
                      /\ \A a1 \in Running' : u \notin Grantees(cmd'[a1])
    BY DEF CleanedOK
  <2>1. trust # "broken" /\ Running' = {} BY <1>2, <1>5
  <2> QED BY <1>2, <2>1 DEF GrantInv, CleanedOK
<1> QED BY <1>2, <1>5, <1>6, <1>7, <1>8, LookKept DEF GrantInv

-----------------------------------------------------------------------------
\* The lookup finds what is steady.

\* A task that revokes a grant touches it.
LEMMA RevokesTouches ==
    ASSUME NEW c, NEW idx, NEW t, NEW p, NEW b, Revokes(c, idx, t, p, b) PROVE Touches(t, p, b)
BY DEF Revokes, Touches

\* A steady grant is in the index.
LEMMA SteadyIndexed ==
    ASSUME IInv, GrantInv, NEW pb \in steady PROVE pb[2] \in index[pb[1]]
<1>1. PICK p, b : p = pb[1] /\ b = pb[2] OBVIOUS
<1>2. /\ p \in Principals \ orphans /\ b \in Buckets /\ Grants(bucket, p, b) /\ trust = "ok"
      /\ \A a \in Admins : \A t \in Left(work[a]) : ~Touches(t, p, b)
  BY <1>1, SteadyUntouched DEF GrantInv
<1>3. CASE Running = {}
  <2>1. Covered(owed, bucket, index, orphans, IF trust = "ok" THEN {} ELSE Left(Tasks(owed)))
    BY <1>2, <1>3 DEF GrantInv, Serial
  <2>2. Covered(owed, bucket, index, orphans, {}) BY <1>2, <2>1
  <2>3. b \in index[p] BY <1>2, <2>2 DEF Covered
  <2> QED BY <1>1, <2>3
<1>4. CASE Running # {}
  <2>1. PICK a \in Running : TRUE BY <1>4
  <2>2. a \in Admins BY DEF Running
  <2>3. PICK c, T : c = cmd[a] /\ T = Left(work[a]) OBVIOUS
  <2>4. Covered(c, bucket, index, orphans, T)
    BY <1>2, <2>1, <2>3 DEF GrantInv, Serial, PlanOK, Plan
  <2>5. \A t \in T : ~Revokes(c, index, t, p, b) BY <1>2, <2>2, <2>3, RevokesTouches
  <2>6. b \in index[p] BY <1>2, <2>4, <2>5 DEF Covered
  <2> QED BY <1>1, <2>6
<1> QED BY <1>3, <1>4

\* effective_access is positive where the document grants the caller something.
LEMMA GrantedAccess ==
    ASSUME NEW doc \in Docs, NEW u \in Users, NEW p \in Callers(u), p \in Named(doc.acl)
    PROVE  EffectiveAccess(doc, u) > 0
<1> DEFINE granted == {e[2] : e \in {f \in doc.acl : f[1] \in Callers(u)}}
<1>1. granted \subseteq Levels BY DEF Docs, Acls
<1>2. granted # {} BY DEF Named
<1>3. \E l \in granted : \A m \in granted : m <= l BY <1>1, <1>2 DEF Levels
<1>4. EffectiveAccess(doc, u) = CHOOSE l \in granted : \A m \in granted : m <= l
  BY <1>2 DEF EffectiveAccess
<1>5. EffectiveAccess(doc, u) \in granted BY <1>3, <1>4
<1> QED BY <1>1, <1>5 DEF Levels

\* The administrators' part does not change in a lookup.
LEMMA AdminKept ==
    ASSUME GrantInv, KeepAdmin, SteadyOK', LookOK' PROVE GrantInv'
<1>1. /\ bucket' = bucket /\ index' = index /\ cmd' = cmd /\ work' = work /\ trust' = trust
      /\ owed' = owed /\ orphans' = orphans /\ cleaned' = cleaned
  BY DEF KeepAdmin, store
<1>2. CommandsOK' BY <1>1 DEF GrantInv, CommandsOK
<1>3. Running' = Running BY <1>1 DEF Running
<1>4. Serial' BY <1>1, <1>3 DEF GrantInv, Serial
<1>5. CleanedOK' BY <1>1, <1>3 DEF GrantInv, CleanedOK
<1> QED BY <1>2, <1>4, <1>5 DEF GrantInv

\* The invariant survives the lookup's requests.
LEMMA GrantLookup ==
    ASSUME IInv, GrantInv, LookupUser \/ LookupIndex \/ LookupBucket \/ LookupDone PROVE GrantInv'
<1>1. KeepAdmin BY DEF LookupUser, LookupIndex, LookupBucket, LookupDone
<1>2. bucket' = bucket /\ work' = work /\ trust' = trust /\ orphans' = orphans
  BY <1>1 DEF KeepAdmin, store
<1>3. look \in AnyLook BY DEF IInv, TypeOK
<1>4. CASE LookupUser
  <2>1. steady' = IF trust = "ok" /\ Caller \in users
                  THEN {pb \in Safe(bucket, work) : pb[1] \notin orphans} ELSE {}
    BY <1>4 DEF LookupUser
  <2>2. steady' \subseteq Safe(bucket, work) /\ (steady' # {} => trust = "ok" /\ Caller \in users)
        /\ \A pb \in steady' : pb[1] \notin orphans
    BY <2>1
  <2>3. SteadyOK' BY <1>2, <2>2 DEF SteadyOK
  <2>4. Caller \in users => look'.pc = "indices" /\ look'.indices = Callers(Caller)
    BY <1>4 DEF LookupUser, NoLook
  <2>5. LookOK' BY <2>2, <2>4 DEF LookOK, Sought
  <2> QED BY <1>1, <2>3, <2>5, AdminKept
<1>5. ASSUME steady' = steady PROVE SteadyOK' BY <1>2, <1>5 DEF GrantInv, SteadyOK
<1>6. ASSUME NEW pb \in steady, pb[1] \in Callers(Caller) PROVE Sought(pb) BY <1>6 DEF GrantInv, LookOK
<1>7. CASE LookupIndex
  <2>1. steady' = steady /\ look.pc = "indices" BY <1>7 DEF LookupIndex
  <2>2. PICK p \in look.indices :
          look' = [look EXCEPT !.indices = @ \ {p}, !.ids = @ \cup index[p],
                               !.pc = IF look.indices = {p} THEN "buckets" ELSE @]
    BY <1>7 DEF LookupIndex
  <2>3. /\ look'.indices = look.indices \ {p} /\ look'.ids = look.ids \cup index[p]
        /\ look'.pc = IF look.indices = {p} THEN "buckets" ELSE "indices"
    BY <1>3, <2>1, <2>2 DEF AnyLook
  <2>4. ASSUME NEW pb \in steady, pb[1] \in Callers(Caller) PROVE Sought(pb)'
    <3>1. pb[1] \in look.indices \/ pb[2] \in look.ids BY <1>6, <2>1, <2>4 DEF Sought
    <3>2. pb[1] = p => pb[2] \in look'.ids BY <2>3, SteadyIndexed
    <3>3. pb[1] \in look'.indices \/ pb[2] \in look'.ids BY <2>3, <3>1, <3>2
    <3>4. CASE look.indices = {p}
      <4>1. pb[2] \in look'.ids /\ look'.pc = "buckets" BY <2>3, <3>3, <3>4
      <4> QED BY <4>1 DEF Sought
    <3>5. CASE look.indices # {p}
      <4>1. look'.pc = "indices" BY <2>3, <3>5
      <4> QED BY <3>3, <4>1 DEF Sought
    <3> QED BY <3>4, <3>5
  <2>5. LookOK' BY <2>1, <2>4 DEF LookOK
  <2> QED BY <1>1, <1>5, <2>1, <2>5, AdminKept
<1>8. CASE LookupBucket
  <2>1. steady' = steady /\ look.pc = "buckets" BY <1>8 DEF LookupBucket
  <2>2. PICK b \in look.ids :
          LET level == EffectiveAccess(bucket[b], Caller)
              clash == \E o \in look.out : o.name = bucket[b].name
          IN look' = [look EXCEPT
                 !.ids = @ \ {b},
                 !.pc = IF level > 0 /\ clash THEN "error" ELSE @,
                 !.out = IF level > 0
                         THEN @ \cup {[id |-> b, name |-> bucket[b].name, access |-> level]} ELSE @]
    BY <1>8 DEF LookupBucket
  <2> DEFINE level == EffectiveAccess(bucket[b], Caller)
             new == [id |-> b, name |-> bucket[b].name, access |-> level]
  <2>3. /\ look'.ids = look.ids \ {b} /\ look'.pc \in {"buckets", "error"}
        /\ look.out \subseteq look'.out /\ (level > 0 => new \in look'.out)
    BY <1>3, <2>1, <2>2 DEF AnyLook
  <2>4. new.id = b OBVIOUS
  <2> HIDE DEF new, level
  <2>5. ASSUME NEW pb \in steady, pb[1] \in Callers(Caller) PROVE Sought(pb)'
    <3>1. pb[2] \in look.ids \/ \E o \in look.out : o.id = pb[2] BY <1>6, <2>1, <2>5 DEF Sought
    <3>2. CASE pb[2] = b
      <4>1. b \in Buckets /\ pb[1] \in Named(bucket[b].acl)
        BY <3>2, SteadyUntouched DEF GrantInv, Grants
      <4>2. bucket[b] \in Docs BY <4>1 DEF IInv, TypeOK
      <4>3. level > 0 BY <2>5, <4>1, <4>2, GrantedAccess, DirectoryAssumption DEF level
      <4>4. new \in look'.out BY <2>3, <4>3
      <4> QED BY <2>3, <2>4, <3>2, <4>4 DEF Sought
    <3>3. CASE pb[2] # b
      <4>1. pb[2] \in look'.ids \/ \E o \in look'.out : o.id = pb[2] BY <2>3, <3>1, <3>3
      <4> QED BY <2>3, <4>1 DEF Sought
    <3> QED BY <3>2, <3>3
  <2>6. LookOK' BY <2>1, <2>5 DEF LookOK
  <2> QED BY <1>1, <1>5, <2>1, <2>6, AdminKept
<1>9. CASE LookupDone
  <2>1. steady' = steady /\ look.pc = "buckets" /\ look.ids = {} /\ look'.pc = "done" /\ look'.out = look.out
    BY <1>3, <1>9 DEF LookupDone, AnyLook
  <2>2. ASSUME NEW pb \in steady, pb[1] \in Callers(Caller) PROVE Sought(pb)'
    <3>1. \E o \in look.out : o.id = pb[2] BY <1>6, <2>1, <2>2 DEF Sought
    <3> QED BY <2>1, <3>1 DEF Sought
  <2>3. LookOK' BY <2>1, <2>2 DEF LookOK
  <2> QED BY <1>1, <1>5, <2>1, <2>3, AdminKept
<1> QED BY <1>4, <1>7, <1>8, <1>9

\* At the start every grant is in the index.
LEMMA GrantInit == Init => GrantInv
<1> SUFFICES ASSUME Init PROVE GrantInv OBVIOUS
<1>1. Running = {} BY DEF Init, Running
<1>2. CommandsOK BY DEF Init, CommandsOK
<1>3. Covered(owed, bucket, index, orphans, IF trust = "ok" THEN {} ELSE Left(Tasks(owed)))
  <2>1. \A p \in Principals, b \in Buckets : Grants(bucket, p, b) => b \in index[p] BY DEF Init, Grants
  <2> QED BY <2>1 DEF Covered
<1>4. Serial BY <1>1, <1>3 DEF Init, Serial
<1>5. SteadyOK /\ LookOK /\ CleanedOK BY DEF Init, SteadyOK, LookOK, CleanedOK
<1> QED BY <1>2, <1>4, <1>5 DEF GrantInv

\* As long as commands run one at a time and a failed one is repeated, every
\* grant is in its principal's index or about to be revoked, between any two
\* requests of any command of s32p-ctl (except for a user whose removal failed
\* or left the grants).
THEOREM GrantInvariant == Spec => []GrantInv
<1>1. IInv /\ GrantInv /\ [Next]_vars => GrantInv'
  <2> SUFFICES ASSUME IInv, GrantInv, [Next]_vars PROVE GrantInv' OBVIOUS
  <2>1. CASE UNCHANGED vars
    <3>1. /\ bucket' = bucket /\ index' = index /\ cmd' = cmd /\ work' = work /\ trust' = trust
          /\ owed' = owed /\ orphans' = orphans /\ cleaned' = cleaned /\ steady' = steady /\ look' = look
          /\ users' = users /\ commands' = commands /\ faults' = faults
      BY <2>1 DEF vars
    <3>2. KeepAdmin BY <3>1 DEF KeepAdmin, store
    <3>3. SteadyOK' BY <3>1 DEF GrantInv, SteadyOK
    <3>4. LookOK' BY <3>1 DEF GrantInv, LookOK, Sought
    <3> QED BY <3>2, <3>3, <3>4, AdminKept
  <2>2. ASSUME NEW a \in Admins, Admin(a) PROVE GrantInv'
    BY <2>2, GrantSucceed, GrantFail, GrantUser, GrantDeleteIndex, GrantCleanup, GrantCleanBucket,
       GrantReadIndex, GrantWriteIndex, GrantUpsertBucket, GrantPutBucket, GrantSetBucketAcl,
       GrantNotFound, GrantDeleteBucket, GrantDeleteDoc, GrantPurge
       DEF Admin
  <2>3. ASSUME NEW a \in Admins, NEW c \in Commands, Start(a, c) PROVE GrantInv' BY <2>3, GrantStart
  <2> QED BY <2>1, <2>2, <2>3, GrantLookup DEF Next
<1> QED BY InductiveInvariant, GrantInit, <1>1, PTL DEF Spec

\* A grant that exists when a lookup begins, and that no command is about to
\* take away, is in its answer: upsert_bucket and delete_bucket write the
\* indices and the document in the right order, also when a command fails and
\* is repeated.
THEOREM SteadyGrantsVisibleInvariant == Spec => []SteadyGrantsVisible
<1>1. GrantInv => SteadyGrantsVisible BY DEF GrantInv, LookOK, Sought, SteadyGrantsVisible
<1> QED BY GrantInvariant, <1>1, PTL

\* A user removed by delete_user with cleanup, in one go, has no grant left and
\* gets none but by a command that grants it, as long as commands run one at a
\* time and a failed one is repeated.
THEOREM CleanupCompleteInvariant == Spec => []CleanupComplete
<1>1. GrantInv => CleanupComplete BY DEF GrantInv, CleanedOK, CleanupComplete, Granted, Grants
<1> QED BY GrantInvariant, <1>1, PTL

=============================================================================
