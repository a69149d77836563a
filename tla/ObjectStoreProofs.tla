------------------------- MODULE ObjectStoreProofs -------------------------
(***************************************************************************)
(* Proofs about ObjectStore, for any requests, keys, directories, calls    *)
(* and faults, and for both builds.                                        *)
(***************************************************************************)
EXTENDS ObjectStore, FiniteSetTheorems, SequenceTheorems, WellFoundedInduction, TLAPS

-----------------------------------------------------------------------------
(* Types. *)

Fields == {"pc", "call", "fd", "src", "locked", "seen", "size", "todo", "flying", "failed", "got",
           "ranges", "keys", "dir", "tags", "meta", "answer"}
Shaped(q) == q = [f \in Fields |-> q[f]]

FileFields == {"data", "mtime", "tags", "meta"}
Byte == (Requests \cup {"old", "zero"}) \X Nat
IsFile(f) == f = [g \in FileFields |-> f[g]] /\ f.data \in Seq(Byte) /\ f.mtime \in Nat

\* The operations that have a step p.
OpsAt(p) ==
    CASE p \in {"open", "attrs"} -> {"get", "head"}
      [] p \in {"stream", "small", "reading"} -> {"get"}
      [] p = "check" -> {"put", "copy", "delete"}
      [] p = "mkdirs" -> {"put", "copy", "mkdir"}
      [] p \in {"create", "trunc", "meta"} -> {"put", "copy"}
      [] p \in {"body", "stat"} -> {"put", "append", "copy"}
      [] p = "tags" -> {"put", "copy", "puttags"}
      [] p \in {"existing", "flock", "offset"} -> {"append"}
      [] p \in {"source", "srcattrs", "opensrc"} -> {"copy"}
      [] p = "exists" -> {"gettags", "puttags"}
      [] p = "readtags" -> {"gettags"}
      [] p \in {"remove", "prune"} -> {"delete", "deletes", "rmdir"}
      [] p = "statdir" -> {"getdir", "mkdir"}
      [] OTHER -> {}

EarlyPCs == {"source", "check", "srcattrs", "mkdirs", "opensrc", "create"}
LatePCs == {"flock", "offset", "body", "trunc"}

\* What the local state of a handler can be: its step is one of its
\* operation's, it has a descriptor where it needs one, and the ring has
\* writes of a body only.
HandlerOK(q) ==
    /\ Shaped(q)
    /\ q.pc = "idle" => q = Idle
    /\ q.pc # "idle" => q.call \in DOMAIN Calls
    /\ q.pc \notin {"idle", "done"} => Call(q).op \in OpsAt(q.pc)
    /\ q.fd \in Inodes \cup {0} /\ q.src \in Inodes \cup {0} /\ q.size \in Nat
    /\ q.pc \in EarlyPCs => q.fd = 0
    /\ q.pc \in LatePCs => q.fd # 0
    /\ q.pc = "stat" /\ Call(q).op = "append" => q.fd # 0
    /\ q.pc \in {"create", "body"} /\ Call(q).op = "copy" => q.src # 0
    /\ q.pc = "body" => q.todo \in SUBSET (Nat \ {0})
    /\ q.pc \in {"offset", "body", "stat"} /\ Call(q).op = "append" => q.locked
    /\ q.pc \in {"check", "remove", "prune"} /\ Call(q).op \in {"delete", "rmdir"} => q.keys = Call(q).keys
    /\ q.flying \in SUBSET ((Nat \ {0}) \X Byte)
    /\ q.flying # {} =>
         /\ q.fd # 0 /\ q.pc \in {"body", "done"} /\ Call(q).op \in {"put", "append", "copy"}

FsOK ==
    /\ name \in [Keys -> Inodes \cup {0}]
    /\ \A k, l \in Keys : name[k] # 0 /\ name[k] = name[l] => k = l
    /\ file = [i \in Inodes |-> file[i]] /\ \A i \in Inodes : IsFile(file[i])
    /\ dirs \subseteq Dirs /\ now \in Nat

GhostsOK ==
    /\ was = [r \in Requests |-> was[r]]
    /\ clean \in [Requests -> BOOLEAN] /\ shared \in [Requests -> BOOLEAN] /\ changed \in [Requests -> BOOLEAN]

TypeInv ==
    /\ FsOK /\ GhostsOK
    /\ req = [r \in Requests |-> req[r]] /\ \A r \in Requests : HandlerOK(req[r])

-----------------------------------------------------------------------------
(* The flows. *)

LEMMA PutAfter ==
    /\ Flow("put").start = "check"
    /\ After("put", "check") = "mkdirs" /\ After("put", "mkdirs") = "create"
    /\ After("put", "create") = "body" /\ After("put", "body") = "trunc"
    /\ After("put", "trunc") = "stat" /\ After("put", "stat") = "tags"
    /\ After("put", "tags") = "meta" /\ After("put", "meta") = "done"
BY DEF After, Flow, PutFlow

LEMMA AppendAfter ==
    /\ Flow("append").start = "existing"
    /\ After("append", "existing") = "flock" /\ After("append", "flock") = "offset"
    /\ After("append", "offset") = "body" /\ After("append", "body") = "stat"
    /\ After("append", "stat") = "done"
BY DEF After, Flow, AppendFlow

LEMMA CopyAfter ==
    /\ Flow("copy").start = "source"
    /\ After("copy", "source") = "check" /\ After("copy", "check") = "srcattrs"
    /\ After("copy", "srcattrs") = "mkdirs" /\ After("copy", "mkdirs") = "opensrc"
    /\ After("copy", "opensrc") = "create" /\ After("copy", "create") = "body"
    /\ After("copy", "body") = "trunc" /\ After("copy", "trunc") = "tags"
    /\ After("copy", "tags") = "meta" /\ After("copy", "meta") = "stat" /\ After("copy", "stat") = "done"
BY DEF After, Flow, CopyFlow

LEMMA OtherAfter ==
    /\ \A op \in {"get", "head"} : Flow(op).start = "open" /\ After(op, "open") = "attrs"
    /\ Flow("gettags").start = "exists" /\ After("gettags", "exists") = "readtags"
    /\ After("gettags", "readtags") = "done"
    /\ Flow("puttags").start = "exists" /\ After("puttags", "exists") = "tags" /\ After("puttags", "tags") = "done"
    /\ Flow("delete").start = "check" /\ After("delete", "check") = "remove"
    /\ Flow("mkdir").start = "mkdirs" /\ After("mkdir", "mkdirs") = "statdir"
    /\ Flow("getdir").start = "statdir"
    /\ Flow("rmdir").start = "remove" /\ Flow("deletes").start = "remove"
BY DEF After, Flow, GetFlow, GetTagsFlow, PutTagsFlow, DeleteFlow

LEMMA FinishedFields ==
    ASSUME NEW q, Shaped(q), NEW a
    PROVE  /\ Shaped(Finished(q, a))
           /\ Finished(q, a).pc = "done" /\ Finished(q, a).answer = a
           /\ Finished(q, a).call = q.call /\ Finished(q, a).src = 0 /\ Finished(q, a).todo = {}
           /\ Finished(q, a).size = 0
           /\ Finished(q, a).flying = q.flying /\ Finished(q, a).failed = q.failed
           /\ Finished(q, a).seen = q.seen /\ Finished(q, a).got = q.got
           /\ Finished(q, a).tags = q.tags /\ Finished(q, a).meta = q.meta
           /\ Finished(q, a).fd = IF q.flying = {} THEN 0 ELSE q.fd
BY DEF Finished, Shaped, Fields

LEMMA FinishedLocked ==
    ASSUME NEW q, Shaped(q), NEW a
    PROVE  /\ q.flying = {} => Finished(q, a).locked = FALSE
           /\ q.flying # {} => Finished(q, a).locked = q.locked
BY DEF Finished, Shaped, Fields

LEMMA ContinueFields ==
    ASSUME NEW q, Shaped(q), After(Call(q).op, q.pc) # "done"
    PROVE  /\ Shaped(Continue(q)) /\ Continue(q).pc = After(Call(q).op, q.pc)
           /\ Continue(q).call = q.call /\ Continue(q).fd = q.fd /\ Continue(q).src = q.src
           /\ Continue(q).locked = q.locked /\ Continue(q).seen = q.seen /\ Continue(q).size = q.size
           /\ Continue(q).todo = q.todo /\ Continue(q).flying = q.flying /\ Continue(q).failed = q.failed
           /\ Continue(q).got = q.got /\ Continue(q).ranges = q.ranges /\ Continue(q).keys = q.keys
           /\ Continue(q).tags = q.tags /\ Continue(q).meta = q.meta /\ Continue(q).answer = q.answer
BY DEF Continue, Shaped, Fields

-----------------------------------------------------------------------------
(* Numbers, sequences and inodes. *)

\* A non-empty set of natural numbers has a first element, which First
\* chooses.
LEMMA FirstMin ==
    ASSUME NEW C, C \subseteq Nat, C # {}
    PROVE  First(C) \in C /\ \A d \in C : First(C) <= d
<1> DEFINE R == OpToRel(<, Nat)
<1>1. \E x \in C : \A y \in C : ~(<<y, x>> \in R)
  <2>1. IsWellFoundedOn(R, Nat)
    BY NatLessThanWellFounded
  <2> HIDE DEF R
  <2> QED BY <2>1, WFMin, Zenon
<1>2. PICK x \in C : \A y \in C : ~(<<y, x>> \in R)
  BY <1>1
<1>3. \A y \in C : x <= y
  <2> TAKE y \in C
  <2>1. x \in Nat /\ y \in Nat
    OBVIOUS
  <2>2. ~(y < x)
    BY <1>2, <2>1 DEF OpToRel
  <2> QED BY <2>1, <2>2
<1> QED BY <1>3 DEF First

\* A function on 1..n is a sequence of length n.
LEMMA FunctionLen ==
    ASSUME NEW S, NEW n \in Nat, NEW f \in [1..n -> S]
    PROVE  f \in Seq(S) /\ Len(f) = n
<1>1. f \in Seq(S)
  BY SeqDef
<1>2. Len(f) \in Nat /\ 1..Len(f) = 1..n
  BY <1>1, LenProperties
<1>3. ~(Len(f) < n)
  <2>1. Len(f) < n => n \in 1..n /\ n \notin 1..Len(f)
    BY <1>2
  <2> QED BY <1>2, <2>1
<1>4. ~(n < Len(f))
  <2>1. n < Len(f) => Len(f) \in 1..Len(f) /\ Len(f) \notin 1..n
    BY <1>2
  <2> QED BY <1>2, <2>1
<1> QED BY <1>1, <1>2, <1>3, <1>4

\* A set whose elements are values of a function on a finite set is no larger
\* than that set.
LEMMA ImageBound ==
    ASSUME NEW S, IsFiniteSet(S), NEW f, NEW V, \A v \in V : \E x \in S : f[x] = v
    PROVE  IsFiniteSet(V) /\ Cardinality(V) <= Cardinality(S)
<1> DEFINE g == [v \in V |-> CHOOSE x \in S : f[x] = v]
<1>1. \A v \in V : g[v] \in S /\ f[g[v]] = v
  OBVIOUS
<1>2. g \in [V -> S]
  BY <1>1
<1>3. \A v, w \in V : g[v] = g[w] => v = w
  BY <1>1
<1> HIDE DEF g
<1>4. g \in Injection(V, S)
  BY <1>2, <1>3 DEF Injection, IsInjective
<1> QED BY <1>4, FS_Injection

\* There are more inode numbers than files and open descriptors: a handler
\* without a descriptor finds a free one.
LEMMA NewInodeFree ==
    ASSUME TypeInv, NEW r \in Requests, req[r].fd = 0
    PROVE  NewInode \in Inodes /\ ~InUse(NewInode)
<1> DEFINE K == Cardinality(Keys)
           R == Cardinality(Requests)
           fds == [x \in Requests |-> req[x].fd]
           srcs == [x \in Requests |-> req[x].src]
           A == {i \in Inodes : \E k \in Keys : name[k] = i}
           B == {i \in Inodes : \E x \in Requests \ {r} : fds[x] = i}
           C == {i \in Inodes : \E x \in Requests : srcs[x] = i}
<1>1. K \in Nat /\ R \in Nat /\ R > 0
  <2>1. K \in Nat /\ R \in Nat
    BY TreeAssumption, FS_CardinalityType
  <2>2. R # 0
    BY TreeAssumption, FS_EmptySet
  <2> QED BY <2>1, <2>2
<1>2. IsFiniteSet(Requests \ {r}) /\ Cardinality(Requests \ {r}) = R - 1
  BY TreeAssumption, FS_RemoveElement
<1>3. IsFiniteSet(A) /\ Cardinality(A) <= K
  <2>1. \A i \in A : \E k \in Keys : name[k] = i
    OBVIOUS
  <2> HIDE DEF A
  <2> QED BY <2>1, TreeAssumption, ImageBound
<1>4. IsFiniteSet(B) /\ Cardinality(B) <= R - 1
  <2>1. \A i \in B : \E x \in Requests \ {r} : fds[x] = i
    OBVIOUS
  <2> HIDE DEF B, fds, R
  <2>2. IsFiniteSet(B) /\ Cardinality(B) <= Cardinality(Requests \ {r})
    BY <2>1, <1>2, ImageBound
  <2> QED BY <1>2, <2>2
<1>5. IsFiniteSet(C) /\ Cardinality(C) <= R
  <2>1. \A i \in C : \E x \in Requests : srcs[x] = i
    OBVIOUS
  <2> HIDE DEF C, srcs
  <2> QED BY <2>1, TreeAssumption, ImageBound
<1>6. \E i \in Inodes : ~InUse(i)
  <2> SUFFICES ASSUME \A i \in Inodes : InUse(i) PROVE FALSE
    OBVIOUS
  <2>1. 0 \notin Inodes
    BY DEF Inodes
  <2>2. \A i \in Inodes : i \in A \/ i \in B \/ i \in C
    <3> TAKE i \in Inodes
    <3>1. (\E k \in Keys : name[k] = i) \/ (\E x \in Requests : i \in {req[x].fd, req[x].src})
      BY DEF InUse
    <3>2. ASSUME NEW x \in Requests, i = req[x].fd PROVE i \in B
      BY <2>1, <3>2
    <3> QED BY <3>1, <3>2
  <2> HIDE DEF A, B, C
  <2>3. IsFiniteSet(A \cup B) /\ Cardinality(A \cup B) <= Cardinality(A) + Cardinality(B)
    <3>1. IsFiniteSet(A \cap B)
      BY <1>3, FS_Intersection
    <3>2. Cardinality(A \cap B) \in Nat
      BY <3>1, FS_CardinalityType
    <3>3. Cardinality(A) \in Nat
      BY <1>3, FS_CardinalityType
    <3>4. Cardinality(B) \in Nat
      BY <1>4, FS_CardinalityType
    <3>5. IsFiniteSet(A \cup B) /\ Cardinality(A \cup B) = Cardinality(A) + Cardinality(B) - Cardinality(A \cap B)
      BY <1>3, <1>4, FS_Union
    <3> QED BY <3>2, <3>3, <3>4, <3>5
  <2>4. IsFiniteSet((A \cup B) \cup C) /\ Cardinality((A \cup B) \cup C) <= Cardinality(A \cup B) + Cardinality(C)
    <3>1. IsFiniteSet((A \cup B) \cap C)
      BY <1>5, <2>3, FS_Intersection
    <3>2. Cardinality((A \cup B) \cap C) \in Nat
      BY <3>1, FS_CardinalityType
    <3>3. Cardinality(A \cup B) \in Nat
      BY <2>3, FS_CardinalityType
    <3>4. Cardinality(C) \in Nat
      BY <1>5, FS_CardinalityType
    <3>5. /\ IsFiniteSet((A \cup B) \cup C)
          /\ Cardinality((A \cup B) \cup C) = Cardinality(A \cup B) + Cardinality(C) - Cardinality((A \cup B) \cap C)
      BY <2>3, <1>5, FS_Union
    <3> QED BY <3>2, <3>3, <3>4, <3>5
  <2>5. Inodes \in SUBSET ((A \cup B) \cup C)
    BY <2>2
  <2>6. Cardinality(Inodes) <= Cardinality((A \cup B) \cup C)
    BY <2>4, <2>5, FS_Subset
  <2>7. Cardinality(Inodes) = K + 2 * R
    BY <1>1, FS_Interval DEF Inodes
  <2>8. Cardinality(A) \in Nat /\ Cardinality(B) \in Nat /\ Cardinality(C) \in Nat
        /\ Cardinality(A \cup B) \in Nat /\ Cardinality((A \cup B) \cup C) \in Nat
    BY <1>3, <1>4, <1>5, <2>3, <2>4, FS_CardinalityType
  <2> HIDE DEF K, R
  <2> QED BY <1>1, <1>3, <1>4, <1>5, <2>3, <2>4, <2>6, <2>7, <2>8
<1> DEFINE Z == {i \in Inodes : ~InUse(i)}
<1>7. Z \subseteq Nat /\ Z # {}
  <2>1. Inodes \subseteq Nat
    BY <1>1 DEF Inodes
  <2> QED BY <1>6, <2>1
<1>8. First(Z) \in Z /\ \A d \in Z : First(Z) <= d
  <2> HIDE DEF Z
  <2> QED BY <1>7, FirstMin
<1>9. \A j \in Inodes : j < First(Z) => InUse(j)
  <2>1. Inodes \subseteq Nat
    BY <1>1 DEF Inodes
  <2> SUFFICES ASSUME NEW j \in Inodes, j < First(Z), ~InUse(j) PROVE FALSE
    OBVIOUS
  <2>2. j \in Z /\ First(Z) <= j
    BY <1>8
  <2>3. j \in Nat /\ First(Z) \in Nat
    BY <1>7, <1>8, <2>1
  <2> QED BY <2>2, <2>3
<1>10. \E i \in Inodes : ~InUse(i) /\ \A j \in Inodes : j < i => InUse(j)
  BY <1>8, <1>9
<1> QED BY <1>10 DEF NewInode

LEMMA ByteFacts ==
    /\ Zero \in Byte /\ \A m \in Nat : <<"old", m>> \in Byte
    /\ \A r \in Requests : \A m \in Nat : <<r, m>> \in Byte
BY DEF Byte, Zero

\* A write at a chunk: the chunk, the others, the length.
LEMMA PwriteFacts ==
    ASSUME NEW f, IsFile(f), NEW n \in Nat \ {0}, NEW b \in Byte, now \in Nat
    PROVE  /\ IsFile(Pwrite(f, n, b))
           /\ Len(f.data) < n => Len(Pwrite(f, n, b).data) = n
           /\ ~(Len(f.data) < n) => Len(Pwrite(f, n, b).data) = Len(f.data)
           /\ Pwrite(f, n, b).data[n] = b
           /\ \A m \in 1..Len(f.data) : m # n => Pwrite(f, n, b).data[m] = f.data[m]
           /\ Pwrite(f, n, b).tags = f.tags /\ Pwrite(f, n, b).meta = f.meta
<1> DEFINE L == IF Len(f.data) < n THEN n ELSE Len(f.data)
           d == [m \in 1..L |-> IF m = n THEN b ELSE IF m <= Len(f.data) THEN f.data[m] ELSE Zero]
           p == [f EXCEPT !.mtime = now, !.data = d]
<1>1. f.data \in Seq(Byte) /\ Len(f.data) \in Nat
  BY LenProperties DEF IsFile
<1>2. L \in Nat /\ n \in 1..L /\ \A m \in 1..Len(f.data) : m \in 1..L
  BY <1>1
<1>3. d \in [1..L -> Byte]
  <2>1. ASSUME NEW m \in 1..L PROVE (IF m = n THEN b ELSE IF m <= Len(f.data) THEN f.data[m] ELSE Zero) \in Byte
    <3>1. m <= Len(f.data) => m \in 1..Len(f.data)
      BY <1>1, <1>2
    <3> QED BY <1>1, <3>1, ElementOfSeq, ByteFacts
  <2> QED BY <2>1
<1>4. d[n] = b /\ \A m \in 1..Len(f.data) : m # n => d[m] = f.data[m]
  BY <1>1, <1>2
<1> HIDE DEF d, L
<1>5. d \in Seq(Byte) /\ Len(d) = L
  BY <1>2, <1>3, FunctionLen
<1>6. p = [g \in FileFields |-> p[g]] /\ p.data = d /\ p.tags = f.tags /\ p.meta = f.meta /\ p.mtime = now
  BY DEF IsFile, FileFields
<1> HIDE DEF p
<1>7. Pwrite(f, n, b) = p
  BY DEF Pwrite, p, d, L
<1> QED BY <1>4, <1>5, <1>6, <1>7 DEF L, IsFile

\* Cutting a file to a length.
LEMMA FtruncateFacts ==
    ASSUME NEW f, IsFile(f), NEW n \in Nat, now \in Nat
    PROVE  /\ IsFile(Ftruncate(f, n)) /\ Len(Ftruncate(f, n).data) = n
           /\ \A m \in 1..n : m <= Len(f.data) => Ftruncate(f, n).data[m] = f.data[m]
           /\ Ftruncate(f, n).tags = f.tags /\ Ftruncate(f, n).meta = f.meta
<1> DEFINE d == [m \in 1..n |-> IF m <= Len(f.data) THEN f.data[m] ELSE Zero]
           p == [f EXCEPT !.mtime = now, !.data = d]
<1>1. f.data \in Seq(Byte) /\ Len(f.data) \in Nat
  BY LenProperties DEF IsFile
<1>3. d \in [1..n -> Byte]
  <2>1. ASSUME NEW m \in 1..n PROVE (IF m <= Len(f.data) THEN f.data[m] ELSE Zero) \in Byte
    <3>1. m <= Len(f.data) => m \in 1..Len(f.data)
      BY <1>1
    <3> QED BY <1>1, <3>1, ElementOfSeq, ByteFacts
  <2> QED BY <2>1
<1>4. \A m \in 1..n : m <= Len(f.data) => d[m] = f.data[m]
  OBVIOUS
<1> HIDE DEF d
<1>5. d \in Seq(Byte) /\ Len(d) = n
  BY <1>3, FunctionLen
<1>6. p = [g \in FileFields |-> p[g]] /\ p.data = d /\ p.tags = f.tags /\ p.meta = f.meta /\ p.mtime = now
  BY DEF IsFile, FileFields
<1> HIDE DEF p
<1>7. Ftruncate(f, n) = p
  BY DEF Ftruncate, p, d
<1> QED BY <1>4, <1>5, <1>6, <1>7 DEF IsFile

LEMMA BlankFacts ==
    ASSUME NEW n \in Nat, now \in Nat
    PROVE  /\ IsFile(Blank(n)) /\ Len(Blank(n).data) = n
           /\ \A t, m : LET p == [Blank(n) EXCEPT !.tags = t, !.meta = m]
                        IN  IsFile(p) /\ Len(p.data) = n
<1> DEFINE d == [m \in 1..n |-> Zero]
<1>1. d \in [1..n -> Byte]
  BY ByteFacts
<1> HIDE DEF d
<1>2. d \in Seq(Byte) /\ Len(d) = n
  BY <1>1, FunctionLen
<1>3. Blank(n) = [data |-> d, mtime |-> now, tags |-> NoTag, meta |-> NoTag]
  BY DEF Blank, d
<1> DEFINE b == [data |-> d, mtime |-> now, tags |-> NoTag, meta |-> NoTag]
<1>4. IsFile(b) /\ Len(b.data) = n
  BY <1>2 DEF IsFile, FileFields
<1>5. ASSUME NEW t, NEW m PROVE IsFile([b EXCEPT !.tags = t, !.meta = m]) /\ [b EXCEPT !.tags = t, !.meta = m].data = d
  BY <1>2 DEF IsFile, FileFields
<1> QED BY <1>2, <1>3, <1>4, <1>5

-----------------------------------------------------------------------------
(* The steps.  Each lemma says what an action does to the local state of    *)
(* its handler, field by field.                                             *)

\* A local state that differs from q in the fields F only.
Differ(q2, q, F) == Shaped(q2) /\ \A f \in Fields \ F : q2[f] = q[f]
\* The handler goes on at p and changes only the fields F.
Moved(q1, q, p, F) ==
    Shaped(q1) /\ q1.pc = p /\ \A f \in Fields \ (F \cup {"pc"}) : q1[f] = q[f]
\* The handler has returned with answer a, of what it answers with it has
\* changed only the fields F.
Ended(q1, q, a, F) ==
    /\ Shaped(q1) /\ q1.pc = "done" /\ q1.answer = a /\ q1.call = q.call
    /\ q1.src = 0 /\ q1.todo = {} /\ q1.size = 0
    /\ q1.flying = q.flying /\ q1.failed = q.failed
    /\ "seen" \notin F => q1.seen = q.seen
    /\ "got" \notin F => q1.got = q.got
    /\ "tags" \notin F => q1.tags = q.tags
    /\ "meta" \notin F => q1.meta = q.meta
    /\ q1.fd = IF q.flying = {} THEN 0 ELSE q.fd
    /\ q.flying = {} => q1.locked = FALSE
    /\ q.flying # {} => q1.locked = q.locked

LEMMA EndedFinished == ASSUME NEW q, Shaped(q), NEW a PROVE Ended(Finished(q, a), q, a, {})
<1>1. /\ q.flying = {} => Finished(q, a).locked = FALSE
      /\ q.flying # {} => Finished(q, a).locked = q.locked
  BY FinishedLocked, Zenon
<1>2. /\ Shaped(Finished(q, a))
      /\ Finished(q, a).pc = "done" /\ Finished(q, a).answer = a
      /\ Finished(q, a).call = q.call /\ Finished(q, a).src = 0 /\ Finished(q, a).todo = {}
      /\ Finished(q, a).size = 0
      /\ Finished(q, a).flying = q.flying /\ Finished(q, a).failed = q.failed
      /\ Finished(q, a).seen = q.seen /\ Finished(q, a).got = q.got
      /\ Finished(q, a).tags = q.tags /\ Finished(q, a).meta = q.meta
      /\ Finished(q, a).fd = IF q.flying = {} THEN 0 ELSE q.fd
  BY FinishedFields
<1> QED BY <1>1, <1>2, Zenon DEF Ended

\* The same when other fields change first.
LEMMA EndedBut ==
    ASSUME NEW q, NEW q2, NEW F, NEW a, Differ(q2, q, F), {"call", "flying", "failed", "fd", "locked"} \cap F = {}
    PROVE  /\ Ended(Finished(q2, a), q, a, F)
           /\ Finished(q2, a).seen = q2.seen /\ Finished(q2, a).got = q2.got
           /\ Finished(q2, a).tags = q2.tags /\ Finished(q2, a).meta = q2.meta
<1>1. Shaped(q2)
  BY DEF Differ
<1>2. q2.call = q.call /\ q2.flying = q.flying /\ q2.failed = q.failed /\ q2.fd = q.fd /\ q2.locked = q.locked
  BY DEF Differ, Fields
<1>3. /\ "seen" \notin F => q2.seen = q.seen
      /\ "got" \notin F => q2.got = q.got
      /\ "tags" \notin F => q2.tags = q.tags
      /\ "meta" \notin F => q2.meta = q.meta
  BY DEF Differ, Fields
<1>4. Ended(Finished(q2, a), q2, a, {})
  BY <1>1, EndedFinished
<1>5. /\ Finished(q2, a).seen = q2.seen /\ Finished(q2, a).got = q2.got
      /\ Finished(q2, a).tags = q2.tags /\ Finished(q2, a).meta = q2.meta
  BY <1>1, FinishedFields
<1> QED BY <1>2, <1>3, <1>4, <1>5, Zenon DEF Ended

LEMMA MovedContinue ==
    ASSUME NEW q, Shaped(q), After(Call(q).op, q.pc) # "done"
    PROVE  Moved(Continue(q), q, After(Call(q).op, q.pc), {})
BY ContinueFields DEF Moved, Continue, Shaped, Fields

LEMMA EndedContinue ==
    ASSUME NEW q, Shaped(q), After(Call(q).op, q.pc) = "done"
    PROVE  Ended(Continue(q), q, "ok", {})
BY EndedFinished DEF Continue

\* The same when other fields than the program counter change first.
LEMMA MovedOn ==
    ASSUME NEW q, NEW q2, NEW F, Differ(q2, q, F), "pc" \notin F, "call" \notin F,
           After(Call(q).op, q.pc) # "done"
    PROVE  /\ Moved(Continue(q2), q, After(Call(q).op, q.pc), F)
           /\ Continue(q2).fd = q2.fd /\ Continue(q2).src = q2.src /\ Continue(q2).locked = q2.locked
           /\ Continue(q2).seen = q2.seen /\ Continue(q2).size = q2.size /\ Continue(q2).todo = q2.todo
           /\ Continue(q2).tags = q2.tags /\ Continue(q2).meta = q2.meta
<1>1. q2.pc = q.pc /\ q2.call = q.call
  BY DEF Fields, Differ
<1>2. After(Call(q2).op, q2.pc) = After(Call(q).op, q.pc)
  BY <1>1 DEF Call
<1>3. Moved(Continue(q2), q2, After(Call(q).op, q.pc), {})
  BY <1>2, MovedContinue DEF Differ
<1>4. Moved(Continue(q2), q, After(Call(q).op, q.pc), F)
  BY <1>3 DEF Moved, Differ
<1> QED BY <1>2, <1>4, ContinueFields DEF Differ

LEMMA EndedOn ==
    ASSUME NEW q, NEW q2, NEW F, Differ(q2, q, F), {"pc", "call", "flying", "failed", "fd", "locked"} \cap F = {},
           After(Call(q).op, q.pc) = "done"
    PROVE  /\ Ended(Continue(q2), q, "ok", F)
           /\ Continue(q2).seen = q2.seen /\ Continue(q2).tags = q2.tags
<1>1. q2.pc = q.pc /\ q2.call = q.call
  BY DEF Differ, Fields
<1>2. Continue(q2) = Finished(q2, "ok")
  BY <1>1 DEF Continue, Call
<1> QED BY <1>2, EndedBut

\* What every step of a handler changes besides the file system.
LEMMA OwnStep ==
    ASSUME TypeInv, NEW r \in Requests, NEW q1, Step(r, q1)
    PROVE  /\ req'[r] = q1 /\ \A x \in Requests \ {r} : req'[x] = req[x]
           /\ req' = [x \in Requests |-> req'[x]]
           /\ Observe(r) /\ UNCHANGED <<inPlace, now, was, faults>>
BY DEF TypeInv, Step

LEMMA HandlerFacts ==
    ASSUME TypeInv, NEW r \in Requests
    PROVE  /\ Shaped(req[r])
           /\ req[r].pc \notin {"idle", "done"} => Call(req[r]).op \in OpsAt(req[r].pc)
BY DEF TypeInv, HandlerOK

LEMMA CheckStep ==
    ASSUME TypeInv, NEW r \in Requests, Check(r)
    PROVE  LET q == req[r]
               v == View(Key(r))
               op == Call(q).op
               refused == IF op = "delete" THEN DeleteFails412(Cond(r), v) ELSE WriteFails412(Cond(r), v)
           IN /\ KeepFs /\ q.pc = "check"
              /\ \/ refused /\ Ended(req'[r], q, "412", {})
                 \/ ~refused /\ op = "copy" /\ q.size > CopyMax /\ Ended(req'[r], q, "400", {})
                 \/ ~refused /\ op = "put" /\ Moved(req'[r], q, "mkdirs", {})
                 \/ ~refused /\ op = "copy" /\ ~(q.size > CopyMax) /\ Moved(req'[r], q, "srcattrs", {})
                 \/ ~refused /\ op = "delete" /\ Moved(req'[r], q, "remove", {})
<1>1. Shaped(req[r]) /\ req[r].pc = "check" /\ Call(req[r]).op \in {"put", "copy", "delete"}
  BY HandlerFacts DEF Check, At, OpsAt
<1>2. \A q1 : Step(r, q1) => req'[r] = q1
  BY OwnStep
<1>3. \A a : Ended(Finished(req[r], a), req[r], a, {})
  BY <1>1, EndedFinished
<1>4. After(Call(req[r]).op, "check") # "done"
  BY <1>1, PutAfter, CopyAfter, OtherAfter
<1>5. Moved(Continue(req[r]), req[r], After(Call(req[r]).op, "check"), {})
  BY <1>1, <1>4, MovedContinue
<1>6. Check(r)
  OBVIOUS
<1> QED BY <1>1, <1>2, <1>3, <1>5, <1>6, PutAfter, CopyAfter, OtherAfter DEF Check, Fail

LEMMA SourceStep ==
    ASSUME TypeInv, NEW r \in Requests, Source(r)
    PROVE  LET q == req[r]
               v == View(Call(q).from)
               out == ReadOutcome(Call(q).srcCond, v)
           IN /\ KeepFs /\ q.pc = "source" /\ Call(q).op = "copy"
              /\ \/ v.ino = 0 /\ Ended(req'[r], q, "404", {})
                 \/ v.ino # 0 /\ out # "ok" /\ Ended(req'[r], q, "412", {})
                 \/ v.ino # 0 /\ out = "ok" /\ Moved(req'[r], q, "check", {"size"})
                    /\ req'[r].size = Len(v.f.data)
<1>1. Shaped(req[r]) /\ req[r].pc = "source" /\ Call(req[r]).op = "copy"
  BY HandlerFacts DEF Source, At, OpsAt
<1>2. \A q1 : Step(r, q1) => req'[r] = q1
  BY OwnStep
<1>3. \A a : Ended(Finished(req[r], a), req[r], a, {})
  BY <1>1, EndedFinished, SMTT(60)
<1> DEFINE q2 == [req[r] EXCEPT !.size = Len(View(Call(req[r]).from).f.data)]
<1>4. Differ(q2, req[r], {"size"}) /\ q2.size = Len(View(Call(req[r]).from).f.data)
  BY <1>1 DEF Differ, Shaped, Fields
<1>5. Moved(Continue(q2), req[r], "check", {"size"}) /\ Continue(q2).size = q2.size
  <2> HIDE DEF q2
  <2>1. After(Call(req[r]).op, req[r].pc) = "check"
    BY <1>1, CopyAfter
  <2> QED BY <1>4, <2>1, MovedOn
<1>6. Source(r)
  OBVIOUS
<1> QED BY <1>1, <1>2, <1>3, <1>4, <1>5, <1>6 DEF Source, Fail
LEMMA SrcAttrsStep ==
    ASSUME TypeInv, NEW r \in Requests, SrcAttrs(r)
    PROVE  LET q == req[r]
           IN  /\ q.pc = "srcattrs" /\ Call(q).op \in {"copy"}
               /\ KeepFs
               /\ LET i == name[Call(q).from] IN
                  \/ Call(q).replace /\ Moved(req'[r], q, "mkdirs", {})
                  \/ ~Call(q).replace /\ i = 0 /\ Ended(req'[r], q, "500", {})
                  \/ ~Call(q).replace /\ i # 0 /\ Moved(req'[r], q, "mkdirs", {"tags", "meta"})
                     /\ req'[r].tags = file[i].tags /\ req'[r].meta = file[i].meta
<1>1. Shaped(req[r]) /\ req[r].pc = "srcattrs" /\ Call(req[r]).op \in {"copy"}
  BY HandlerFacts DEF SrcAttrs, At, OpsAt
<1>2. \A q1 : Step(r, q1) => req'[r] = q1
  BY OwnStep
<1>3. \A a : Ended(Finished(req[r], a), req[r], a, {})
  BY <1>1, EndedFinished
<1>4. After(Call(req[r]).op, req[r].pc) = "mkdirs"
  BY <1>1, PutAfter, AppendAfter, CopyAfter, OtherAfter, SMTT(60)
<1> DEFINE q2 == [req[r] EXCEPT !.tags = file[name[Call(req[r]).from]].tags, !.meta = file[name[Call(req[r]).from]].meta]
<1>5. Differ(q2, req[r], {"tags", "meta"}) /\ q2.tags = file[name[Call(req[r]).from]].tags /\ q2.meta = file[name[Call(req[r]).from]].meta
  BY <1>1 DEF Differ, Shaped, Fields
<1>6. Moved(Continue(q2), req[r], "mkdirs", {"tags", "meta"}) /\ Continue(q2).tags = q2.tags /\ Continue(q2).meta = q2.meta
  <2> HIDE DEF q2
  <2> QED BY <1>5, <1>4, MovedOn
<1>7. Moved(Continue(req[r]), req[r], After(Call(req[r]).op, req[r].pc), {})
  BY <1>1, <1>4, MovedContinue
<1>8. SrcAttrs(r)
  OBVIOUS
<1> QED BY <1>1, <1>2, <1>3, <1>4, <1>5, <1>6, <1>7, <1>8 DEF SrcAttrs, Fail

LEMMA OpenSourceStep ==
    ASSUME TypeInv, NEW r \in Requests, OpenSource(r)
    PROVE  LET q == req[r]
           IN  /\ q.pc = "opensrc" /\ Call(q).op \in {"copy"}
               /\ KeepFs
               /\ LET i == name[Call(q).from] IN
                  \/ i = 0 /\ Ended(req'[r], q, "500", {})
                  \/ i # 0 /\ Moved(req'[r], q, "create", {"src"}) /\ req'[r].src = i
<1>1. Shaped(req[r]) /\ req[r].pc = "opensrc" /\ Call(req[r]).op \in {"copy"}
  BY HandlerFacts DEF OpenSource, At, OpsAt
<1>2. \A q1 : Step(r, q1) => req'[r] = q1
  BY OwnStep
<1>3. \A a : Ended(Finished(req[r], a), req[r], a, {})
  BY <1>1, EndedFinished
<1>4. After(Call(req[r]).op, req[r].pc) = "create"
  BY <1>1, PutAfter, AppendAfter, CopyAfter, OtherAfter
<1> DEFINE q2 == [req[r] EXCEPT !.src = name[Call(req[r]).from]]
<1>5. Differ(q2, req[r], {"src"}) /\ q2.src = name[Call(req[r]).from]
  BY <1>1 DEF Differ, Shaped, Fields
<1>6. Moved(Continue(q2), req[r], "create", {"src"}) /\ Continue(q2).src = q2.src
  <2> HIDE DEF q2
  <2> QED BY <1>5, <1>4, MovedOn
<1>7. OpenSource(r)
  OBVIOUS
<1> QED BY <1>1, <1>2, <1>3, <1>4, <1>5, <1>6, <1>7 DEF OpenSource, Fail

LEMMA MkdirsStep ==
    ASSUME TypeInv, NEW r \in Requests, Mkdirs(r)
    PROVE  LET q == req[r]
           IN  /\ q.pc = "mkdirs" /\ Call(q).op \in {"put", "copy", "mkdir"}
               /\ Fs(name, dirs \cup Above[Key(r)] \cup ({Key(r)} \cap Dirs), file)
               /\ Call(q).op = "put" => Moved(req'[r], q, "create", {})
               /\ Call(q).op = "copy" => Moved(req'[r], q, "opensrc", {})
               /\ Call(q).op = "mkdir" => Moved(req'[r], q, "statdir", {})
<1>1. Shaped(req[r]) /\ req[r].pc = "mkdirs" /\ Call(req[r]).op \in {"put", "copy", "mkdir"}
  BY HandlerFacts DEF Mkdirs, At, OpsAt
<1>2. \A q1 : Step(r, q1) => req'[r] = q1
  BY OwnStep
<1>3. \A a : Ended(Finished(req[r], a), req[r], a, {})
  BY <1>1, EndedFinished
<1>4. /\ After(Call(req[r]).op, req[r].pc) # "done"
      /\ Call(req[r]).op = "put" => After(Call(req[r]).op, req[r].pc) = "create"
      /\ Call(req[r]).op = "copy" => After(Call(req[r]).op, req[r].pc) = "opensrc"
      /\ Call(req[r]).op = "mkdir" => After(Call(req[r]).op, req[r].pc) = "statdir"
  BY <1>1, PutAfter, AppendAfter, CopyAfter, OtherAfter
<1>5. Moved(Continue(req[r]), req[r], After(Call(req[r]).op, req[r].pc), {})
  BY <1>1, <1>4, MovedContinue
<1>6. Mkdirs(r)
  OBVIOUS
<1> QED BY <1>1, <1>2, <1>3, <1>4, <1>5, <1>6 DEF Mkdirs, Fail

LEMMA CreateStep ==
    ASSUME TypeInv, NEW r \in Requests, Create(r)
    PROVE  LET q == req[r]
           IN  /\ q.pc = "create" /\ Call(q).op \in {"put", "copy"}
               /\ LET i == IF inPlace /\ Ino(r) # 0 THEN Ino(r) ELSE NewInode
                      kept == IF i = Ino(r) THEN [Blank(q.size) EXCEPT !.tags = file[i].tags, !.meta = file[i].meta]
                              ELSE Blank(q.size)
                  IN \/ /\ Up[Key(r)] \in dirs \cup {Root}
                        /\ Fs([name EXCEPT ![Key(r)] = i], dirs, [file EXCEPT ![i] = kept])
                        /\ Moved(req'[r], q, "body", {"fd", "todo"}) /\ req'[r].fd = i /\ req'[r].todo = 1..q.size
                     \/ Up[Key(r)] \notin dirs \cup {Root} /\ KeepFs /\ Ended(req'[r], q, "500", {})
<1>1. Shaped(req[r]) /\ req[r].pc = "create" /\ Call(req[r]).op \in {"put", "copy"}
  BY HandlerFacts DEF Create, At, OpsAt
<1>2. \A q1 : Step(r, q1) => req'[r] = q1
  BY OwnStep
<1>3. \A a : Ended(Finished(req[r], a), req[r], a, {})
  BY <1>1, EndedFinished
<1>4. After(Call(req[r]).op, req[r].pc) = "body"
  BY <1>1, PutAfter, AppendAfter, CopyAfter, OtherAfter
<1> DEFINE q2 == [req[r] EXCEPT !.fd = IF inPlace /\ Ino(r) # 0 THEN Ino(r) ELSE NewInode, !.todo = 1..req[r].size]
<1>5. Differ(q2, req[r], {"fd", "todo"}) /\ q2.fd = (IF inPlace /\ Ino(r) # 0 THEN Ino(r) ELSE NewInode) /\ q2.todo = 1..req[r].size
  BY <1>1 DEF Differ, Shaped, Fields
<1>6. Moved(Continue(q2), req[r], "body", {"fd", "todo"}) /\ Continue(q2).fd = q2.fd /\ Continue(q2).todo = q2.todo
  <2> HIDE DEF q2
  <2> QED BY <1>5, <1>4, MovedOn
<1>7. Create(r)
  OBVIOUS
<1> QED BY <1>1, <1>2, <1>3, <1>4, <1>5, <1>6, <1>7 DEF Create, Fail

LEMMA OpenExistingStep ==
    ASSUME TypeInv, NEW r \in Requests, OpenExisting(r)
    PROVE  LET q == req[r]
           IN  /\ q.pc = "existing" /\ Call(q).op \in {"append"}
               /\ KeepFs
               /\ \/ Ino(r) = 0 /\ Ended(req'[r], q, "404", {})
                  \/ Ino(r) # 0 /\ Moved(req'[r], q, "flock", {"fd"}) /\ req'[r].fd = Ino(r)
<1>1. Shaped(req[r]) /\ req[r].pc = "existing" /\ Call(req[r]).op \in {"append"}
  BY HandlerFacts DEF OpenExisting, At, OpsAt
<1>2. \A q1 : Step(r, q1) => req'[r] = q1
  BY OwnStep
<1>3. \A a : Ended(Finished(req[r], a), req[r], a, {})
  BY <1>1, EndedFinished
<1>4. After(Call(req[r]).op, req[r].pc) = "flock"
  BY <1>1, PutAfter, AppendAfter, CopyAfter, OtherAfter
<1> DEFINE q2 == [req[r] EXCEPT !.fd = Ino(r)]
<1>5. Differ(q2, req[r], {"fd"}) /\ q2.fd = Ino(r)
  BY <1>1 DEF Differ, Shaped, Fields
<1>6. Moved(Continue(q2), req[r], "flock", {"fd"}) /\ Continue(q2).fd = q2.fd
  <2> HIDE DEF q2
  <2> QED BY <1>5, <1>4, MovedOn
<1>7. OpenExisting(r)
  OBVIOUS
<1> QED BY <1>1, <1>2, <1>3, <1>4, <1>5, <1>6, <1>7 DEF OpenExisting, Fail

LEMMA FlockStep ==
    ASSUME TypeInv, NEW r \in Requests, Flock(r)
    PROVE  LET q == req[r]
           IN  /\ q.pc = "flock" /\ Call(q).op \in {"append"}
               /\ KeepFs /\ LockFree(r)
               /\ Moved(req'[r], q, "offset", {"locked"}) /\ req'[r].locked = TRUE
<1>1. Shaped(req[r]) /\ req[r].pc = "flock" /\ Call(req[r]).op \in {"append"}
  BY HandlerFacts DEF Flock, At, OpsAt
<1>2. \A q1 : Step(r, q1) => req'[r] = q1
  BY OwnStep
<1>3. \A a : Ended(Finished(req[r], a), req[r], a, {})
  BY <1>1, EndedFinished
<1>4. After(Call(req[r]).op, req[r].pc) = "offset"
  BY <1>1, PutAfter, AppendAfter, CopyAfter, OtherAfter
<1> DEFINE q2 == [req[r] EXCEPT !.locked = TRUE]
<1>5. Differ(q2, req[r], {"locked"}) /\ q2.locked = TRUE
  BY <1>1 DEF Differ, Shaped, Fields
<1>6. Moved(Continue(q2), req[r], "offset", {"locked"}) /\ Continue(q2).locked = TRUE
  <2> HIDE DEF q2
  <2> QED BY <1>5, <1>4, MovedOn
<1>7. Flock(r)
  OBVIOUS
<1> QED BY <1>1, <1>2, <1>3, <1>4, <1>5, <1>6, <1>7 DEF Flock, Fail

LEMMA OffsetStep ==
    ASSUME TypeInv, NEW r \in Requests, Offset(r)
    PROVE  LET q == req[r]
           IN  /\ q.pc = "offset" /\ Call(q).op \in {"append"}
               /\ KeepFs
               /\ LET c == Call(q)
                      size == Len(file[q.fd].data)
                      refused == WriteFails412(c.cond, FdView(q.fd))
                  IN \/ c.offset # size /\ Ended(req'[r], q, "400", {})
                     \/ c.offset = size /\ refused /\ Ended(req'[r], q, "412", {})
                     \/ c.offset = size /\ ~refused /\ c.len = 0 /\ Ended(req'[r], q, "400", {})
                     \/ c.offset = size /\ ~refused /\ c.len # 0 /\ Moved(req'[r], q, "body", {"todo"}) /\ req'[r].todo = 1..c.len
<1>1. Shaped(req[r]) /\ req[r].pc = "offset" /\ Call(req[r]).op \in {"append"}
  BY HandlerFacts DEF Offset, At, OpsAt
<1>2. \A q1 : Step(r, q1) => req'[r] = q1
  BY OwnStep
<1>3. \A a : Ended(Finished(req[r], a), req[r], a, {})
  BY <1>1, EndedFinished
<1>4. After(Call(req[r]).op, req[r].pc) = "body"
  BY <1>1, PutAfter, AppendAfter, CopyAfter, OtherAfter
<1> DEFINE q2 == [req[r] EXCEPT !.todo = 1..Call(req[r]).len]
<1>5. Differ(q2, req[r], {"todo"}) /\ q2.todo = 1..Call(req[r]).len
  BY <1>1 DEF Differ, Shaped, Fields
<1>6. Moved(Continue(q2), req[r], "body", {"todo"}) /\ Continue(q2).todo = q2.todo
  <2> HIDE DEF q2
  <2> QED BY <1>5, <1>4, MovedOn
<1>7. Offset(r)
  OBVIOUS
<1> QED BY <1>1, <1>2, <1>3, <1>4, <1>5, <1>6, <1>7 DEF Offset, Fail

LEMMA ReceiveStep ==
    ASSUME TypeInv, NEW r \in Requests, Receive(r)
    PROVE  LET q == req[r]
               n == First(q.todo)
               base == IF Call(q).op = "append" THEN Call(q).offset ELSE 0
           IN  /\ q.pc = "body" /\ Call(q).op \in {"put", "append"} /\ q.todo # {} /\ KeepFs
               /\ Moved(req'[r], q, "body", {"todo", "flying"}) /\ req'[r].todo = q.todo \ {n}
               /\ q.failed => req'[r].flying = q.flying
               /\ ~q.failed => req'[r].flying = q.flying \cup {<<base + n, <<r, n>>>>}
<1>1. /\ Shaped(req[r]) /\ req[r].pc = "body" /\ Call(req[r]).op \in {"put", "append", "copy"}
      /\ Call(req[r]).op # "copy" /\ req[r].todo # {} /\ KeepFs
  BY HandlerFacts DEF Receive, At, OpsAt
<1>2. \A q1 : Step(r, q1) => req'[r] = q1
  BY OwnStep
<1> DEFINE n == First(req[r].todo)
           base == IF Call(req[r]).op = "append" THEN Call(req[r]).offset ELSE 0
           new == <<base + n, <<r, n>>>>
<1>3. req'[r] = [req[r] EXCEPT !.todo = @ \ {n}, !.flying = IF req[r].failed THEN @ ELSE @ \cup {new}]
  BY <1>2 DEF Receive
<1> HIDE DEF n, new
<1>4. /\ Moved(req'[r], req[r], "body", {"todo", "flying"}) /\ req'[r].todo = req[r].todo \ {n}
      /\ req[r].failed => req'[r].flying = req[r].flying
      /\ ~req[r].failed => req'[r].flying = req[r].flying \cup {new}
  BY <1>1, <1>3 DEF Moved, Shaped, Fields
<1> QED BY <1>1, <1>4 DEF n, new

LEMMA CopyChunkStep ==
    ASSUME TypeInv, NEW r \in Requests, CopyChunk(r)
    PROVE  LET q == req[r]
               n == First(q.todo)
               data == file[q.src].data
           IN  /\ q.pc = "body" /\ Call(q).op = "copy" /\ q.todo # {} /\ KeepFs
               /\ \/ /\ q.failed \/ n > Len(data)
                     /\ Moved(req'[r], q, "body", {"todo", "failed"}) /\ req'[r].todo = {} /\ req'[r].failed = TRUE
                  \/ /\ ~q.failed /\ ~(n > Len(data))
                     /\ Moved(req'[r], q, "body", {"todo", "flying"}) /\ req'[r].todo = q.todo \ {n}
                     /\ req'[r].flying = q.flying \cup {<<n, data[n]>>}
<1>1. /\ Shaped(req[r]) /\ req[r].pc = "body" /\ Call(req[r]).op = "copy" /\ req[r].todo # {} /\ KeepFs
  BY HandlerFacts DEF CopyChunk, At
<1>2. \A q1 : Step(r, q1) => req'[r] = q1
  BY OwnStep
<1> DEFINE n == First(req[r].todo)
           data == file[req[r].src].data
           new == <<n, data[n]>>
<1>3. req'[r] = IF req[r].failed \/ n > Len(data) THEN [req[r] EXCEPT !.todo = {}, !.failed = TRUE]
                ELSE [req[r] EXCEPT !.todo = @ \ {n}, !.flying = @ \cup {new}]
  BY <1>2 DEF CopyChunk
<1> HIDE DEF n, new, data
<1>4. CASE req[r].failed \/ n > Len(data)
  <2>1. req'[r] = [req[r] EXCEPT !.todo = {}, !.failed = TRUE]
    BY <1>3, <1>4
  <2>2. Moved(req'[r], req[r], "body", {"todo", "failed"}) /\ req'[r].todo = {} /\ req'[r].failed = TRUE
    BY <1>1, <2>1 DEF Moved, Shaped, Fields
  <2> QED BY <1>1, <1>4, <2>2 DEF n, new, data
<1>5. CASE ~(req[r].failed \/ n > Len(data))
  <2>1. req'[r] = [req[r] EXCEPT !.todo = @ \ {n}, !.flying = @ \cup {new}]
    BY <1>3, <1>5
  <2>2. /\ Moved(req'[r], req[r], "body", {"todo", "flying"}) /\ req'[r].todo = req[r].todo \ {n}
        /\ req'[r].flying = req[r].flying \cup {new}
    BY <1>1, <2>1 DEF Moved, Shaped, Fields
  <2> QED BY <1>1, <1>5, <2>2 DEF n, new, data
<1> QED BY <1>4, <1>5

\* A write that has landed, or has failed.
LEMMA LandedFields ==
    ASSUME NEW q, Shaped(q), NEW w
    PROVE  /\ Moved(Landed(q, w), q, q.pc, {"flying", "fd", "locked"}) /\ Landed(q, w).flying = q.flying \ {w}
           /\ \/ q.pc = "done" /\ q.flying \ {w} = {} /\ Landed(q, w).fd = 0 /\ Landed(q, w).locked = FALSE
              \/ ~(q.pc = "done" /\ q.flying \ {w} = {}) /\ Moved(Landed(q, w), q, q.pc, {"flying"})
<1> DEFINE rest == q.flying \ {w}
<1>1. CASE q.pc = "done" /\ rest = {}
  <2> HIDE DEF rest
  <2>1. Landed(q, w) = [q EXCEPT !.flying = rest, !.fd = 0, !.locked = FALSE]
    BY <1>1 DEF Landed, rest
  <2>2. /\ Moved(Landed(q, w), q, q.pc, {"flying", "fd", "locked"}) /\ Landed(q, w).flying = rest
        /\ Landed(q, w).fd = 0 /\ Landed(q, w).locked = FALSE
    BY <2>1 DEF Moved, Shaped, Fields
  <2> QED BY <1>1, <2>2 DEF rest
<1>2. CASE ~(q.pc = "done" /\ rest = {})
  <2>0. Landed(q, w) = [q EXCEPT !.flying = rest]
    BY <1>2 DEF Landed
  <2> HIDE DEF rest
  <2>2. /\ Moved(Landed(q, w), q, q.pc, {"flying", "fd", "locked"}) /\ Landed(q, w).flying = rest
        /\ Moved(Landed(q, w), q, q.pc, {"flying"})
    BY <2>0 DEF Moved, Shaped, Fields
  <2> QED BY <1>2, <2>2 DEF rest
<1> QED BY <1>1, <1>2

LEMMA WriteLandsStep ==
    ASSUME TypeInv, NEW r \in Requests, WriteLands(r)
    PROVE  LET q == req[r] IN
           \E w \in q.flying :
             /\ Fs(name, dirs, [file EXCEPT ![q.fd] = Pwrite(@, w[1], w[2])])
             /\ Moved(req'[r], q, q.pc, {"flying", "fd", "locked"}) /\ req'[r].flying = q.flying \ {w}
             /\ \/ q.pc = "done" /\ q.flying \ {w} = {} /\ req'[r].fd = 0 /\ req'[r].locked = FALSE
                \/ ~(q.pc = "done" /\ q.flying \ {w} = {}) /\ Moved(req'[r], q, q.pc, {"flying"})
<1>1. PICK w \in req[r].flying : /\ Fs(name, dirs, [file EXCEPT ![req[r].fd] = Pwrite(@, w[1], w[2])])
                                 /\ Step(r, Landed(req[r], w))
  BY DEF WriteLands
<1>2. req'[r] = Landed(req[r], w) /\ Shaped(req[r])
  BY <1>1, OwnStep, HandlerFacts
<1>3. /\ Moved(req'[r], req[r], req[r].pc, {"flying", "fd", "locked"}) /\ req'[r].flying = req[r].flying \ {w}
      /\ \/ req[r].pc = "done" /\ req[r].flying \ {w} = {} /\ req'[r].fd = 0 /\ req'[r].locked = FALSE
         \/ ~(req[r].pc = "done" /\ req[r].flying \ {w} = {}) /\ Moved(req'[r], req[r], req[r].pc, {"flying"})
  <2>1. \A q : Shaped(q) => 
           /\ Moved(Landed(q, w), q, q.pc, {"flying", "fd", "locked"}) /\ Landed(q, w).flying = q.flying \ {w}
           /\ \/ q.pc = "done" /\ q.flying \ {w} = {} /\ Landed(q, w).fd = 0 /\ Landed(q, w).locked = FALSE
              \/ ~(q.pc = "done" /\ q.flying \ {w} = {}) /\ Moved(Landed(q, w), q, q.pc, {"flying"})
    BY LandedFields
  <2> QED BY <1>2, <2>1
<1> QED BY <1>1, <1>3

LEMMA BodyEndStep ==
    ASSUME TypeInv, NEW r \in Requests, BodyEnd(r)
    PROVE  LET q == req[r]
           IN  /\ q.pc = "body" /\ Call(q).op \in {"put", "append", "copy"} /\ q.todo = {} /\ q.flying = {} /\ KeepFs
               /\ \/ q.failed /\ Ended(req'[r], q, "500", {})
                  \/ ~q.failed /\ Call(q).op = "append" /\ Moved(req'[r], q, "stat", {})
                  \/ ~q.failed /\ Call(q).op # "append" /\ Moved(req'[r], q, "trunc", {})
<1>1. Shaped(req[r]) /\ req[r].pc = "body" /\ Call(req[r]).op \in {"put", "append", "copy"}
  BY HandlerFacts DEF BodyEnd, At, OpsAt
<1>2. \A q1 : Step(r, q1) => req'[r] = q1
  BY OwnStep
<1>3. Ended(Finished(req[r], "500"), req[r], "500", {})
  BY <1>1, EndedFinished
<1>4. /\ After(Call(req[r]).op, req[r].pc) # "done"
      /\ After(Call(req[r]).op, req[r].pc) = IF Call(req[r]).op = "append" THEN "stat" ELSE "trunc"
  BY <1>1, PutAfter, AppendAfter, CopyAfter
<1>5. Moved(Continue(req[r]), req[r], After(Call(req[r]).op, req[r].pc), {})
  BY <1>1, <1>4, MovedContinue
<1>6. BodyEnd(r)
  OBVIOUS
<1> QED BY <1>1, <1>2, <1>3, <1>4, <1>5, <1>6 DEF BodyEnd

LEMMA TruncStep ==
    ASSUME TypeInv, NEW r \in Requests, Trunc(r)
    PROVE  LET q == req[r]
           IN  /\ q.pc = "trunc" /\ Call(q).op \in {"put", "copy"}
               /\ Fs(name, dirs, [file EXCEPT ![q.fd] = Ftruncate(@, q.size)])
               /\ Moved(req'[r], q, IF Call(q).op = "put" THEN "stat" ELSE "tags", {"fd", "src"})
               /\ req'[r].fd = 0 /\ req'[r].src = 0
<1>1. Shaped(req[r]) /\ req[r].pc = "trunc" /\ Call(req[r]).op \in {"put", "copy"}
  BY HandlerFacts DEF Trunc, At, OpsAt
<1>2. \A q1 : Step(r, q1) => req'[r] = q1
  BY OwnStep
<1>3. /\ After(Call(req[r]).op, req[r].pc) = IF Call(req[r]).op = "put" THEN "stat" ELSE "tags"
      /\ After(Call(req[r]).op, req[r].pc) # "done"
  BY <1>1, PutAfter, CopyAfter
<1> DEFINE q2 == [req[r] EXCEPT !.fd = 0, !.src = 0]
<1>4. Differ(q2, req[r], {"fd", "src"}) /\ q2.fd = 0 /\ q2.src = 0
  BY <1>1 DEF Differ, Shaped, Fields
<1>5. /\ Moved(Continue(q2), req[r], After(Call(req[r]).op, req[r].pc), {"fd", "src"})
      /\ Continue(q2).fd = 0 /\ Continue(q2).src = 0
  <2> HIDE DEF q2
  <2> QED BY <1>3, <1>4, MovedOn
<1>6. Trunc(r)
  OBVIOUS
<1> QED BY <1>1, <1>2, <1>3, <1>5, <1>6 DEF Trunc

LEMMA StatStep ==
    ASSUME TypeInv, NEW r \in Requests, Stat(r)
    PROVE  LET q == req[r]
               i == IF Call(q).op = "append" THEN q.fd ELSE Ino(r)
           IN  /\ q.pc = "stat" /\ Call(q).op \in {"put", "append", "copy"} /\ KeepFs
               /\ \/ i = 0 /\ Ended(req'[r], q, "500", {})
                  \/ i # 0 /\ Call(q).op = "put" /\ Moved(req'[r], q, "tags", {"seen"}) /\ req'[r].seen = ETag(FdView(i))
                  \/ i # 0 /\ Call(q).op # "put" /\ Ended(req'[r], q, "ok", {"seen"}) /\ req'[r].seen = ETag(FdView(i))
<1>1. Shaped(req[r]) /\ req[r].pc = "stat" /\ Call(req[r]).op \in {"put", "append", "copy"}
  BY HandlerFacts DEF Stat, At, OpsAt
<1>2. \A q1 : Step(r, q1) => req'[r] = q1
  BY OwnStep
<1>3. /\ Call(req[r]).op = "put" => After(Call(req[r]).op, req[r].pc) = "tags"
      /\ Call(req[r]).op # "put" => After(Call(req[r]).op, req[r].pc) = "done"
  BY <1>1, PutAfter, AppendAfter, CopyAfter
<1> DEFINE i == IF Call(req[r]).op = "append" THEN req[r].fd ELSE Ino(r)
           q2 == [req[r] EXCEPT !.seen = ETag(FdView(i))]
<1>4. Differ(q2, req[r], {"seen"}) /\ q2.seen = ETag(FdView(i))
  BY <1>1 DEF Differ, Shaped, Fields
<1>5. Call(req[r]).op = "put" => Moved(Continue(q2), req[r], "tags", {"seen"}) /\ Continue(q2).seen = q2.seen
  <2> HIDE DEF q2
  <2> QED BY <1>3, <1>4, MovedOn
<1>6. Call(req[r]).op # "put" => Ended(Continue(q2), req[r], "ok", {"seen"}) /\ Continue(q2).seen = q2.seen
  <2> HIDE DEF q2
  <2> QED BY <1>3, <1>4, EndedOn
<1>7. KeepFs /\ req'[r] = IF i = 0 THEN Finished(req[r], "500") ELSE Continue(q2)
  BY <1>2 DEF Stat
<1>8. Ended(Finished(req[r], "500"), req[r], "500", {})
  BY <1>1, EndedFinished
<1> HIDE DEF q2, i
<1>9. /\ KeepFs
      /\ \/ i = 0 /\ Ended(req'[r], req[r], "500", {})
         \/ i # 0 /\ Call(req[r]).op = "put" /\ Moved(req'[r], req[r], "tags", {"seen"}) /\ req'[r].seen = ETag(FdView(i))
         \/ i # 0 /\ Call(req[r]).op # "put" /\ Ended(req'[r], req[r], "ok", {"seen"}) /\ req'[r].seen = ETag(FdView(i))
  BY <1>4, <1>5, <1>6, <1>7, <1>8
<1> QED BY <1>1, <1>9 DEF i

LEMMA TagsStep ==
    ASSUME TypeInv, NEW r \in Requests, Tags(r)
    PROVE  LET q == req[r]
           IN  /\ q.pc = "tags" /\ Call(q).op \in {"put", "copy", "puttags"}
               /\ \/ Ino(r) = 0 /\ KeepFs /\ Ended(req'[r], q, "500", {})
                  \/ /\ Ino(r) # 0 /\ Fs(name, dirs, [file EXCEPT ![Ino(r)].tags = q.tags])
                     /\ \/ Call(q).op # "puttags" /\ Moved(req'[r], q, "meta", {})
                        \/ Call(q).op = "puttags" /\ Ended(req'[r], q, "ok", {})
<1>1. Shaped(req[r]) /\ req[r].pc = "tags" /\ Call(req[r]).op \in {"put", "copy", "puttags"}
  BY HandlerFacts DEF Tags, At, OpsAt
<1>2. \A q1 : Step(r, q1) => req'[r] = q1
  BY OwnStep
<1>3. Ended(Finished(req[r], "500"), req[r], "500", {})
  BY <1>1, EndedFinished
<1>4. /\ Call(req[r]).op # "puttags" => After(Call(req[r]).op, req[r].pc) = "meta"
      /\ Call(req[r]).op = "puttags" => After(Call(req[r]).op, req[r].pc) = "done"
  BY <1>1, PutAfter, CopyAfter, OtherAfter
<1>5. Call(req[r]).op # "puttags" => Moved(Continue(req[r]), req[r], "meta", {})
  BY <1>1, <1>4, MovedContinue
<1>6. Call(req[r]).op = "puttags" => Ended(Continue(req[r]), req[r], "ok", {})
  BY <1>1, <1>4, EndedContinue
<1>7. Tags(r)
  OBVIOUS
<1> QED BY <1>1, <1>2, <1>3, <1>5, <1>6, <1>7 DEF Tags, Fail

LEMMA MetaStep ==
    ASSUME TypeInv, NEW r \in Requests, Meta(r)
    PROVE  LET q == req[r]
           IN  /\ q.pc = "meta" /\ Call(q).op \in {"put", "copy"}
               /\ \/ Ino(r) = 0 /\ KeepFs /\ Ended(req'[r], q, "500", {})
                  \/ /\ Ino(r) # 0 /\ Fs(name, dirs, [file EXCEPT ![Ino(r)].meta = q.meta])
                     /\ \/ Call(q).op = "copy" /\ Moved(req'[r], q, "stat", {})
                        \/ Call(q).op = "put" /\ Ended(req'[r], q, "ok", {})
<1>1. Shaped(req[r]) /\ req[r].pc = "meta" /\ Call(req[r]).op \in {"put", "copy"}
  BY HandlerFacts DEF Meta, At, OpsAt
<1>2. \A q1 : Step(r, q1) => req'[r] = q1
  BY OwnStep
<1>3. Ended(Finished(req[r], "500"), req[r], "500", {})
  BY <1>1, EndedFinished
<1>4. /\ Call(req[r]).op = "copy" => After(Call(req[r]).op, req[r].pc) = "stat"
      /\ Call(req[r]).op = "put" => After(Call(req[r]).op, req[r].pc) = "done"
  BY <1>1, PutAfter, CopyAfter
<1>5. Call(req[r]).op = "copy" => Moved(Continue(req[r]), req[r], "stat", {})
  BY <1>1, <1>4, MovedContinue
<1>6. Call(req[r]).op = "put" => Ended(Continue(req[r]), req[r], "ok", {})
  BY <1>1, <1>4, EndedContinue
<1>7. Meta(r)
  OBVIOUS
<1> QED BY <1>1, <1>2, <1>3, <1>5, <1>6, <1>7 DEF Meta, Fail

LEMMA OpenStep ==
    ASSUME TypeInv, NEW r \in Requests, Open(r)
    PROVE  LET q == req[r]
               v == View(Key(r))
               out == ReadOutcome(Cond(r), v)
           IN  /\ q.pc = "open" /\ Call(q).op \in {"get", "head"} /\ KeepFs
               /\ \/ v.ino = 0 /\ Ended(req'[r], q, "404", {})
                  \/ v.ino # 0 /\ out # "ok" /\ Ended(req'[r], q, out, {})
                  \/ /\ v.ino # 0 /\ out = "ok" /\ Moved(req'[r], q, "attrs", {"fd", "seen", "size"})
                     /\ req'[r].fd = v.ino /\ req'[r].seen = ETag(v) /\ req'[r].size = Len(v.f.data)
<1>1. Shaped(req[r]) /\ req[r].pc = "open" /\ Call(req[r]).op \in {"get", "head"}
  BY HandlerFacts DEF Open, At, OpsAt
<1>2. \A q1 : Step(r, q1) => req'[r] = q1
  BY OwnStep
<1>3. \A a : Ended(Finished(req[r], a), req[r], a, {})
  BY <1>1, EndedFinished
<1>4. After(Call(req[r]).op, req[r].pc) = "attrs"
  BY <1>1, OtherAfter
<1> DEFINE v == View(Key(r))
           q2 == [req[r] EXCEPT !.fd = v.ino, !.seen = ETag(v), !.size = Len(v.f.data)]
<1>5. Differ(q2, req[r], {"fd", "seen", "size"}) /\ q2.fd = v.ino /\ q2.seen = ETag(v) /\ q2.size = Len(v.f.data)
  <2> HIDE DEF v
  <2> QED BY <1>1 DEF Differ, Shaped, Fields
<1>6. /\ Moved(Continue(q2), req[r], "attrs", {"fd", "seen", "size"})
      /\ Continue(q2).fd = q2.fd /\ Continue(q2).seen = q2.seen /\ Continue(q2).size = q2.size
  <2> HIDE DEF q2
  <2> QED BY <1>4, <1>5, MovedOn
<1>7. Open(r)
  OBVIOUS
<1> QED BY <1>1, <1>2, <1>3, <1>5, <1>6, <1>7 DEF Open, Fail

\* What a GET reads: the whole object or the ranges.
Wanted(q) ==
    LET specs == Call(q).specs IN
    IF Len(specs) = 0 \/ (Len(specs) > 1 /\ Call(q).op = "head") THEN Whole(q.size) ELSE Ranges(specs, q.size)

LEMMA AttrsStep ==
    ASSUME TypeInv, NEW r \in Requests, Attrs(r)
    PROVE  LET q == req[r]
               ok == RangesOk(Call(q).specs, q.size)
               small == Len(Wanted(q)) = 1 /\ Wanted(q)[1].e - Wanted(q)[1].s = 1
           IN  /\ q.pc = "attrs" /\ Call(q).op \in {"get", "head"} /\ KeepFs
               /\ req'[r].meta = View(Key(r)).f.meta
               /\ \/ q.size = 0 /\ Ended(req'[r], q, "ok", {"meta"})
                  \/ q.size # 0 /\ ~ok /\ Ended(req'[r], q, "416", {"meta"})
                  \/ q.size # 0 /\ ok /\ Call(q).op = "head" /\ Ended(req'[r], q, "ok", {"meta", "got"})
                  \/ /\ q.size # 0 /\ ok /\ Call(q).op = "get" /\ req'[r].ranges = Wanted(q)
                     /\ \/ small /\ Moved(req'[r], q, "small", {"meta", "ranges"})
                        \/ ~small /\ Moved(req'[r], q, "stream", {"meta", "ranges"})
<1>1. Shaped(req[r]) /\ req[r].pc = "attrs" /\ Call(req[r]).op \in {"get", "head"}
  BY HandlerFacts DEF Attrs, At, OpsAt
<1>2. \A q1 : Step(r, q1) => req'[r] = q1
  BY OwnStep, SMTT(60)
<1> DEFINE m == View(Key(r)).f.meta
           q == [req[r] EXCEPT !.meta = m]
           specs == Call(q).specs
           all == Len(specs) = 0 \/ (Len(specs) > 1 /\ Call(q).op = "head")
           wanted == IF all THEN Whole(q.size) ELSE Ranges(specs, q.size)
           small == Len(wanted) = 1 /\ wanted[1].e - wanted[1].s = 1
<1>3. KeepFs /\ req'[r] = IF q.size = 0 THEN Finished(q, "ok")
                          ELSE IF ~RangesOk(specs, q.size) THEN Finished(q, "416")
                          ELSE IF Call(q).op = "head" THEN Finished([q EXCEPT !.got = wanted], "ok")
                          ELSE [q EXCEPT !.ranges = wanted, !.pc = IF small THEN "small" ELSE "stream"]
  BY <1>2 DEF Attrs
<1>4. Differ(q, req[r], {"meta"}) /\ q.meta = m /\ q.call = req[r].call /\ q.size = req[r].size
  <2> HIDE DEF m
  <2> QED BY <1>1 DEF Differ, Shaped, Fields
<1> HIDE DEF m, q
<1>5. Call(q) = Call(req[r])
  BY <1>4 DEF Call
<1>6. wanted = Wanted(req[r])
  BY <1>4, <1>5 DEF Wanted
<1> HIDE DEF wanted
<1>7. \A a : Ended(Finished(q, a), req[r], a, {"meta"}) /\ Finished(q, a).meta = m
  BY <1>4, EndedBut
<1>8. Ended(Finished([q EXCEPT !.got = wanted], "ok"), req[r], "ok", {"meta", "got"})
      /\ Finished([q EXCEPT !.got = wanted], "ok").meta = m
  <2> DEFINE q2 == [q EXCEPT !.got = wanted]
  <2>1. Differ(q2, req[r], {"meta", "got"}) /\ q2.meta = m
    BY <1>4 DEF Differ, Shaped, Fields
  <2> HIDE DEF q2
  <2>2. Ended(Finished(q2, "ok"), req[r], "ok", {"meta", "got"}) /\ Finished(q2, "ok").meta = m
    BY <2>1, EndedBut
  <2> QED BY <2>2 DEF q2
<1>9. ASSUME NEW p, NEW q2, q2 = [q EXCEPT !.ranges = wanted, !.pc = p]
      PROVE  Moved(q2, req[r], p, {"meta", "ranges"}) /\ q2.ranges = wanted /\ q2.meta = m
  BY <1>4, <1>9 DEF Differ, Moved, Shaped, Fields
<1>10. CASE q.size = 0
  BY <1>1, <1>3, <1>4, <1>7, <1>10 DEF m
<1>11. CASE q.size # 0 /\ ~RangesOk(specs, q.size)
  BY <1>1, <1>3, <1>4, <1>5, <1>7, <1>11 DEF m
<1>12. CASE q.size # 0 /\ RangesOk(specs, q.size) /\ Call(q).op = "head"
  BY <1>1, <1>3, <1>4, <1>5, <1>8, <1>12 DEF m
<1>13. CASE q.size # 0 /\ RangesOk(specs, q.size) /\ Call(q).op # "head"
  <2>1. req'[r] = [q EXCEPT !.ranges = wanted, !.pc = IF small THEN "small" ELSE "stream"]
    BY <1>3, <1>13
  <2>2. /\ Moved(req'[r], req[r], IF small THEN "small" ELSE "stream", {"meta", "ranges"})
        /\ req'[r].ranges = wanted /\ req'[r].meta = m
    <3> HIDE DEF small
    <3> QED BY <2>1, <1>9
  <2> QED BY <1>1, <1>3, <1>4, <1>5, <1>6, <1>13, <2>2 DEF m
<1> QED BY <1>10, <1>11, <1>12, <1>13

LEMMA SmallStep ==
    ASSUME TypeInv, NEW r \in Requests, Small(r)
    PROVE  LET q == req[r]
               n == q.ranges[1].s + 1
               data == file[q.fd].data
           IN  /\ q.pc = "small" /\ Call(q).op = "get" /\ KeepFs
               /\ \/ n > Len(data) /\ Ended(req'[r], q, "500", {})
                  \/ ~(n > Len(data)) /\ Ended(req'[r], q, "ok", {"got"}) /\ req'[r].got = << <<data[n]>> >>
<1>1. Shaped(req[r]) /\ req[r].pc = "small" /\ Call(req[r]).op = "get"
  BY HandlerFacts DEF Small, At, OpsAt
<1>2. \A q1 : Step(r, q1) => req'[r] = q1
  BY OwnStep
<1>3. Ended(Finished(req[r], "500"), req[r], "500", {})
  BY <1>1, EndedFinished
<1> DEFINE n == req[r].ranges[1].s + 1
           g == << <<file[req[r].fd].data[n]>> >>
           q2 == [req[r] EXCEPT !.got = g]
<1>4. Differ(q2, req[r], {"got"}) /\ q2.got = g
  <2> HIDE DEF g
  <2> QED BY <1>1 DEF Differ, Shaped, Fields
<1>5. KeepFs /\ req'[r] = IF n > Len(file[req[r].fd].data) THEN Finished(req[r], "500") ELSE Finished(q2, "ok")
  BY <1>2 DEF Small
<1> HIDE DEF q2
<1>6. Ended(Finished(q2, "ok"), req[r], "ok", {"got"}) /\ Finished(q2, "ok").got = g
  <2> HIDE DEF g
  <2> QED BY <1>4, EndedBut
<1> QED BY <1>1, <1>3, <1>5, <1>6

LEMMA StreamStep ==
    ASSUME TypeInv, NEW r \in Requests, Stream(r)
    PROVE  LET q == req[r]
               w == Head(q.ranges)
           IN  /\ q.pc = "stream" /\ Call(q).op = "get" /\ KeepFs
               /\ \/ Ino(r) = 0 /\ Ended(req'[r], q, "ok", {})
                  \/ /\ Ino(r) # 0 /\ Moved(req'[r], q, "reading", {"fd", "todo", "got"}) /\ req'[r].fd = Ino(r)
                     /\ req'[r].todo = (w.s + 1)..w.e /\ req'[r].got = Append(q.got, << >>)
<1>1. Shaped(req[r]) /\ req[r].pc = "stream" /\ Call(req[r]).op = "get"
  BY HandlerFacts DEF Stream, At, OpsAt
<1>2. \A q1 : Step(r, q1) => req'[r] = q1
  BY OwnStep
<1>3. Ended(Finished(req[r], "ok"), req[r], "ok", {})
  BY <1>1, EndedFinished
<1> DEFINE w == Head(req[r].ranges)
           t == (w.s + 1)..w.e
           g == Append(req[r].got, << >>)
           q2 == [req[r] EXCEPT !.pc = "reading", !.fd = Ino(r), !.todo = t, !.got = g]
<1>4. KeepFs /\ req'[r] = IF Ino(r) = 0 THEN Finished(req[r], "ok") ELSE q2
  BY <1>2 DEF Stream
<1>5. Moved(q2, req[r], "reading", {"fd", "todo", "got"}) /\ q2.fd = Ino(r) /\ q2.todo = t /\ q2.got = g
  <2> HIDE DEF g, t
  <2> QED BY <1>1 DEF Moved, Shaped, Fields
<1> HIDE DEF q2
<1> QED BY <1>1, <1>3, <1>4, <1>5

LEMMA ReadChunkStep ==
    ASSUME TypeInv, NEW r \in Requests, ReadChunk(r)
    PROVE  LET q == req[r]
               n == First(q.todo)
               data == file[q.fd].data
           IN  /\ q.pc = "reading" /\ Call(q).op = "get" /\ q.todo # {} /\ KeepFs
               /\ \/ n > Len(data) /\ Moved(req'[r], q, "reading", {"todo"}) /\ req'[r].todo = {}
                  \/ /\ ~(n > Len(data)) /\ Moved(req'[r], q, "reading", {"todo", "got"})
                     /\ req'[r].todo = q.todo \ {n}
                     /\ req'[r].got = [q.got EXCEPT ![Len(q.got)] = Append(@, data[n])]
<1>1. Shaped(req[r]) /\ req[r].pc = "reading" /\ Call(req[r]).op = "get" /\ req[r].todo # {}
  BY HandlerFacts DEF ReadChunk, At, OpsAt
<1>2. \A q1 : Step(r, q1) => req'[r] = q1
  BY OwnStep
<1> DEFINE n == First(req[r].todo)
           data == file[req[r].fd].data
           g == [req[r].got EXCEPT ![Len(req[r].got)] = Append(@, data[n])]
           q2 == [req[r] EXCEPT !.todo = {}]
           q3 == [req[r] EXCEPT !.todo = @ \ {n}, !.got = g]
<1>3. KeepFs /\ req'[r] = IF n > Len(data) THEN q2 ELSE q3
  <2>1. [req[r] EXCEPT !.todo = @ \ {n}, !.got[Len(req[r].got)] = Append(@, data[n])] = q3
    BY <1>1 DEF Shaped, Fields
  <2> QED BY <1>2, <2>1 DEF ReadChunk
<1>4. Moved(q2, req[r], "reading", {"todo"}) /\ q2.todo = {}
  BY <1>1 DEF Moved, Shaped, Fields
<1>5. Moved(q3, req[r], "reading", {"todo", "got"}) /\ q3.todo = req[r].todo \ {n} /\ q3.got = g
  <2> HIDE DEF g, n
  <2> QED BY <1>1 DEF Moved, Shaped, Fields
<1> HIDE DEF q2, q3
<1> QED BY <1>1, <1>3, <1>4, <1>5

LEMMA RangeEndStep ==
    ASSUME TypeInv, NEW r \in Requests, RangeEnd(r)
    PROVE  LET q == req[r]
           IN  /\ q.pc = "reading" /\ Call(q).op = "get" /\ q.todo = {} /\ KeepFs
               /\ \/ Len(q.ranges) = 1 /\ Ended(req'[r], q, "ok", {})
                  \/ Len(q.ranges) # 1 /\ Moved(req'[r], q, "stream", {"ranges"}) /\ req'[r].ranges = Tail(q.ranges)
<1>1. Shaped(req[r]) /\ req[r].pc = "reading" /\ Call(req[r]).op = "get" /\ req[r].todo = {}
  BY HandlerFacts DEF RangeEnd, At, OpsAt
<1>2. \A q1 : Step(r, q1) => req'[r] = q1
  BY OwnStep
<1>3. Ended(Finished(req[r], "ok"), req[r], "ok", {})
  BY <1>1, EndedFinished
<1> DEFINE t == Tail(req[r].ranges)
           q2 == [req[r] EXCEPT !.pc = "stream", !.ranges = t]
<1>4. KeepFs /\ req'[r] = IF Len(req[r].ranges) = 1 THEN Finished(req[r], "ok") ELSE q2
  BY <1>2 DEF RangeEnd
<1>5. Moved(q2, req[r], "stream", {"ranges"}) /\ q2.ranges = t
  <2> HIDE DEF t
  <2> QED BY <1>1 DEF Moved, Shaped, Fields
<1> HIDE DEF q2
<1> QED BY <1>1, <1>3, <1>4, <1>5

LEMMA ExistsStep ==
    ASSUME TypeInv, NEW r \in Requests, Exists(r)
    PROVE  LET q == req[r]
           IN  /\ q.pc = "exists" /\ Call(q).op \in {"gettags", "puttags"} /\ KeepFs
               /\ \/ Ino(r) = 0 /\ Ended(req'[r], q, "404", {})
                  \/ Ino(r) # 0 /\ Call(q).op = "gettags" /\ Moved(req'[r], q, "readtags", {})
                  \/ Ino(r) # 0 /\ Call(q).op = "puttags" /\ Moved(req'[r], q, "tags", {})
<1>1. Shaped(req[r]) /\ req[r].pc = "exists" /\ Call(req[r]).op \in {"gettags", "puttags"}
  BY HandlerFacts DEF Exists, At, OpsAt
<1>2. \A q1 : Step(r, q1) => req'[r] = q1
  BY OwnStep
<1>3. Ended(Finished(req[r], "404"), req[r], "404", {})
  BY <1>1, EndedFinished
<1>4. /\ After(Call(req[r]).op, req[r].pc) # "done"
      /\ Call(req[r]).op = "gettags" => After(Call(req[r]).op, req[r].pc) = "readtags"
      /\ Call(req[r]).op = "puttags" => After(Call(req[r]).op, req[r].pc) = "tags"
  BY <1>1, OtherAfter
<1>5. Moved(Continue(req[r]), req[r], After(Call(req[r]).op, req[r].pc), {})
  BY <1>1, <1>4, MovedContinue
<1>6. Exists(r)
  OBVIOUS
<1> QED BY <1>1, <1>2, <1>3, <1>4, <1>5, <1>6 DEF Exists, Fail

LEMMA ReadTagsStep ==
    ASSUME TypeInv, NEW r \in Requests, ReadTags(r)
    PROVE  LET q == req[r]
           IN  /\ q.pc = "readtags" /\ Call(q).op = "gettags" /\ KeepFs
               /\ \/ Ino(r) = 0 /\ Ended(req'[r], q, "500", {})
                  \/ Ino(r) # 0 /\ Ended(req'[r], q, "ok", {"tags"}) /\ req'[r].tags = file[Ino(r)].tags
<1>1. Shaped(req[r]) /\ req[r].pc = "readtags" /\ Call(req[r]).op = "gettags"
  BY HandlerFacts DEF ReadTags, At, OpsAt
<1>2. \A q1 : Step(r, q1) => req'[r] = q1
  BY OwnStep
<1>3. Ended(Finished(req[r], "500"), req[r], "500", {})
  BY <1>1, EndedFinished
<1>4. After(Call(req[r]).op, req[r].pc) = "done"
  BY <1>1, OtherAfter
<1> DEFINE q2 == [req[r] EXCEPT !.tags = file[Ino(r)].tags]
<1>5. Differ(q2, req[r], {"tags"}) /\ q2.tags = file[Ino(r)].tags
  BY <1>1 DEF Differ, Shaped, Fields
<1>6. Ended(Continue(q2), req[r], "ok", {"tags"}) /\ Continue(q2).tags = q2.tags
  <2> HIDE DEF q2
  <2> QED BY <1>4, <1>5, EndedOn
<1>7. ReadTags(r)
  OBVIOUS
<1> QED BY <1>1, <1>2, <1>3, <1>5, <1>6, <1>7 DEF ReadTags, Fail

LEMMA NextKeyFields ==
    ASSUME NEW q, Shaped(q)
    PROVE  \/ Len(q.keys) = 1 /\ Ended(NextKey(q), q, "ok", {})
           \/ Len(q.keys) # 1 /\ Moved(NextKey(q), q, "remove", {"keys"}) /\ NextKey(q).keys = Tail(q.keys)
<1>1. CASE Len(q.keys) = 1
  BY <1>1, EndedFinished DEF NextKey
<1>2. CASE Len(q.keys) # 1
  <2> DEFINE t == Tail(q.keys)
  <2>1. NextKey(q) = [q EXCEPT !.keys = t, !.pc = "remove"]
    BY <1>2 DEF NextKey
  <2> HIDE DEF t
  <2>2. Moved(NextKey(q), q, "remove", {"keys"}) /\ NextKey(q).keys = t
    BY <2>1 DEF Moved, Shaped, Fields
  <2> QED BY <1>2, <2>2 DEF t
<1> QED BY <1>1, <1>2

LEMMA RemoveStep ==
    ASSUME TypeInv, NEW r \in Requests, Remove(r)
    PROVE  LET q == req[r]
               k == Head(q.keys)
               gone == IF k \in Keys THEN name[k] = 0 ELSE k \notin dirs
               full == k \in Dirs /\ ~DirEmpty(k)
           IN  /\ q.pc = "remove" /\ Call(q).op \in {"delete", "deletes", "rmdir"}
               /\ \/ ~gone /\ full /\ Call(q).op = "rmdir" /\ KeepFs /\ Ended(req'[r], q, "409", {})
                  \/ /\ gone \/ (full /\ Call(q).op # "rmdir")
                     /\ KeepFs
                     /\ \/ Len(q.keys) = 1 /\ Ended(req'[r], q, "ok", {})
                        \/ Len(q.keys) # 1 /\ Moved(req'[r], q, "remove", {"keys"})
                  \/ /\ ~gone /\ ~full
                     /\ Fs([n \in Keys |-> IF n = k THEN 0 ELSE name[n]], dirs \ {k}, file)
                     /\ Moved(req'[r], q, "prune", {"dir"}) /\ req'[r].dir = Up[k]
<1>1. Shaped(req[r]) /\ req[r].pc = "remove" /\ Call(req[r]).op \in {"delete", "deletes", "rmdir"}
  BY HandlerFacts DEF Remove, At, OpsAt
<1>2. \A q1 : Step(r, q1) => req'[r] = q1
  BY OwnStep
<1>3. Ended(Finished(req[r], "409"), req[r], "409", {})
  BY <1>1, EndedFinished
<1>4. \/ Len(req[r].keys) = 1 /\ Ended(NextKey(req[r]), req[r], "ok", {})
      \/ Len(req[r].keys) # 1 /\ Moved(NextKey(req[r]), req[r], "remove", {"keys"})
  BY <1>1, NextKeyFields
<1> DEFINE k == Head(req[r].keys)
           gone == IF k \in Keys THEN name[k] = 0 ELSE k \notin dirs
           full == k \in Dirs /\ ~DirEmpty(k)
           q2 == [req[r] EXCEPT !.pc = "prune", !.dir = Up[k]]
<1>5. Moved(q2, req[r], "prune", {"dir"}) /\ q2.dir = Up[k]
  <2> HIDE DEF k
  <2> QED BY <1>1 DEF Moved, Shaped, Fields
<1>6. \/ ~gone /\ full /\ Call(req[r]).op = "rmdir" /\ KeepFs /\ req'[r] = Finished(req[r], "409")
      \/ (gone \/ (full /\ Call(req[r]).op # "rmdir")) /\ KeepFs /\ req'[r] = NextKey(req[r])
      \/ /\ ~gone /\ ~full
         /\ Fs([n \in Keys |-> IF n = k THEN 0 ELSE name[n]], dirs \ {k}, file)
         /\ req'[r] = q2
  BY <1>2 DEF Remove, Fail
<1> HIDE DEF q2
<1> QED BY <1>1, <1>3, <1>4, <1>5, <1>6

LEMMA PruneStep ==
    ASSUME TypeInv, NEW r \in Requests, Prune(r)
    PROVE  LET q == req[r]
           IN  /\ q.pc = "prune" /\ Call(q).op \in {"delete", "deletes", "rmdir"}
               /\ \/ /\ q.dir # Root /\ q.dir \in dirs /\ DirEmpty(q.dir) /\ Fs(name, dirs \ {q.dir}, file)
                     /\ Moved(req'[r], q, "prune", {"dir"}) /\ req'[r].dir = Up[q.dir]
                  \/ /\ KeepFs
                     /\ \/ Len(q.keys) = 1 /\ Ended(req'[r], q, "ok", {})
                        \/ Len(q.keys) # 1 /\ Moved(req'[r], q, "remove", {"keys", "dir"})
<1>1. Shaped(req[r]) /\ req[r].pc = "prune" /\ Call(req[r]).op \in {"delete", "deletes", "rmdir"}
  BY HandlerFacts DEF Prune, At, OpsAt
<1>2. \A q1 : Step(r, q1) => req'[r] = q1
  BY OwnStep
<1> DEFINE q2 == [req[r] EXCEPT !.dir = Up[req[r].dir]]
           q3 == [req[r] EXCEPT !.dir = Root]
<1>3. Moved(q2, req[r], "prune", {"dir"}) /\ q2.dir = Up[req[r].dir]
  BY <1>1 DEF Moved, Shaped, Fields
<1>4. Differ(q3, req[r], {"dir"}) /\ q3.keys = req[r].keys
  BY <1>1 DEF Differ, Shaped, Fields
<1>5. \/ /\ req[r].dir # Root /\ req[r].dir \in dirs /\ DirEmpty(req[r].dir) /\ Fs(name, dirs \ {req[r].dir}, file)
         /\ req'[r] = q2
      \/ KeepFs /\ req'[r] = NextKey(q3)
  BY <1>2 DEF Prune
<1> HIDE DEF q2, q3
<1>6. CASE Len(req[r].keys) = 1
  <2>1. NextKey(q3) = Finished(q3, "ok")
    BY <1>4, <1>6 DEF NextKey
  <2>2. Ended(Finished(q3, "ok"), req[r], "ok", {"dir"})
    BY <1>4, EndedBut
  <2>3. Ended(NextKey(q3), req[r], "ok", {})
    BY <2>1, <2>2 DEF Ended
  <2> QED BY <1>1, <1>3, <1>5, <1>6, <2>3
<1>7. CASE Len(req[r].keys) # 1
  <2>1. Moved(NextKey(q3), q3, "remove", {"keys"})
    BY <1>4, <1>7, NextKeyFields DEF Differ
  <2>2. Moved(NextKey(q3), req[r], "remove", {"keys", "dir"})
    BY <1>4, <2>1 DEF Moved, Differ, Fields
  <2> QED BY <1>1, <1>3, <1>5, <1>7, <2>2
<1> QED BY <1>6, <1>7

LEMMA StatDirStep ==
    ASSUME TypeInv, NEW r \in Requests, StatDir(r)
    PROVE  LET q == req[r]
           IN  /\ q.pc = "statdir" /\ Call(q).op \in {"getdir", "mkdir"} /\ KeepFs
               /\ \/ Ended(req'[r], q, "ok", {}) \/ Ended(req'[r], q, "500", {})
                  \/ Call(q).op = "getdir" /\ Ended(req'[r], q, "404", {})
<1>1. Shaped(req[r]) /\ req[r].pc = "statdir" /\ Call(req[r]).op \in {"getdir", "mkdir"}
  BY HandlerFacts DEF StatDir, At, OpsAt
<1>2. \A q1 : Step(r, q1) => req'[r] = q1
  BY OwnStep
<1>3. \A a : Ended(Finished(req[r], a), req[r], a, {})
  BY <1>1, EndedFinished
<1>4. KeepFs /\ req'[r] = Finished(req[r], IF Key(r) \in dirs THEN "ok"
                                   ELSE IF Call(req[r]).op = "getdir" THEN "404" ELSE "500")
  BY <1>2 DEF StatDir
<1> QED BY <1>1, <1>3, <1>4

\* The handler has returned with an error of its own.
Broken(q1, q) ==
    /\ Shaped(q1) /\ q1.pc = "done" /\ q1.answer = "500" /\ q1.failed = TRUE /\ q1.call = q.call
    /\ q1.src = 0 /\ q1.size = 0 /\ q1.flying = q.flying
    /\ q1.fd = IF q.flying = {} THEN 0 ELSE q.fd
    /\ q.flying = {} => q1.locked = FALSE
    /\ q.flying # {} => q1.locked = q.locked

LEMMA BrokenFields ==
    ASSUME TypeInv, NEW r \in Requests, Faulty(r, Finished(req[r], "500"))
    PROVE  Broken(req'[r], req[r])
<1> DEFINE f == Finished(req[r], "500")
<1>1. /\ Shaped(f) /\ f.pc = "done" /\ f.answer = "500" /\ f.call = req[r].call
      /\ f.src = 0 /\ f.size = 0 /\ f.flying = req[r].flying
      /\ f.fd = IF req[r].flying = {} THEN 0 ELSE req[r].fd
      /\ req[r].flying = {} => f.locked = FALSE
      /\ req[r].flying # {} => f.locked = req[r].locked
  <2>1. Shaped(req[r])
    BY HandlerFacts
  <2>2. Ended(f, req[r], "500", {})
    BY <2>1, EndedFinished
  <2> QED BY <2>2, Zenon DEF Ended
<1> HIDE DEF f
<1>2. req'[r] = [f EXCEPT !.failed = TRUE]
  BY DEF Faulty, TypeInv, f
<1>3. /\ req'[r].locked = f.locked /\ req'[r].flying = f.flying /\ req'[r].fd = f.fd /\ req'[r].pc = f.pc
      /\ req'[r].answer = f.answer /\ req'[r].call = f.call /\ req'[r].src = f.src /\ req'[r].size = f.size
      /\ req'[r].failed = TRUE /\ Shaped(req'[r])
  BY <1>1, <1>2 DEF Shaped, Fields
<1> QED BY <1>1, <1>3, Zenon DEF Broken

LEMMA FaultyStep ==
    ASSUME TypeInv, NEW r \in Requests, NEW q, Faulty(r, q)
    PROVE  /\ KeepFs /\ UNCHANGED <<inPlace, now, was, ghosts>>
           /\ \A x \in Requests \ {r} : req'[x] = req[x]
           /\ req' = [x \in Requests |-> req'[x]]
           /\ req'[r] = [q EXCEPT !.failed = TRUE]
BY DEF Faulty, TypeInv

LEMMA WriteErrorStep ==
    ASSUME TypeInv, NEW r \in Requests, WriteError(r)
    PROVE  /\ \E q : Faulty(r, q)
           /\ req[r].pc = "body" /\ Moved(req'[r], req[r], "body", {"flying", "failed"})
           /\ req'[r].failed = TRUE /\ \E w \in req[r].flying : req'[r].flying = req[r].flying \ {w}
<1>1. PICK w \in req[r].flying : req[r].pc = "body" /\ Faulty(r, Landed(req[r], w))
  BY DEF WriteError
<1> DEFINE l == Landed(req[r], w)
<1>2. Moved(l, req[r], "body", {"flying"}) /\ l.flying = req[r].flying \ {w}
  <2>1. Shaped(req[r])
    BY HandlerFacts
  <2>2. \A q : Shaped(q) =>
           /\ Landed(q, w).flying = q.flying \ {w}
           /\ q.pc # "done" => Moved(Landed(q, w), q, q.pc, {"flying"})
    BY LandedFields
  <2> QED BY <1>1, <2>1, <2>2
<1> HIDE DEF l
<1>3. req'[r] = [l EXCEPT !.failed = TRUE]
  BY <1>1 DEF Faulty, TypeInv, l
<1>4. Moved(req'[r], req[r], "body", {"flying", "failed"}) /\ req'[r].failed = TRUE /\ req'[r].flying = l.flying
  BY <1>2, <1>3 DEF Moved, Shaped, Fields
<1> QED BY <1>1, <1>2, <1>4

\* A request arrives: it is refused at once, or starts at the first step of
\* its flow.
LEMMA ArriveStep ==
    ASSUME TypeInv, NEW r \in Requests, NEW n \in DOMAIN Calls, Arrive(r, n)
    PROVE  LET c == Calls[n] IN
           /\ KeepFs /\ UNCHANGED <<inPlace, now, ghosts, faults>>
           /\ \A x \in Requests \ {r} : req'[x] = req[x] /\ was'[x] = was[x]
           /\ req' = [x \in Requests |-> req'[x]] /\ was' = [x \in Requests |-> was'[x]]
           /\ req[r].pc = "idle" /\ was'[r] = [k \in Keys \cap {c.key, c.from} |-> View(k)]
           /\ Shaped(req'[r]) /\ req'[r].call = n /\ req'[r].fd = 0 /\ req'[r].src = 0 /\ req'[r].flying = {}
           /\ req'[r].failed = FALSE /\ req'[r].locked = FALSE
           /\ \/ c.refuse # "none" /\ req'[r].pc = "done" /\ req'[r].answer = c.refuse /\ req'[r].size = 0
              \/ /\ c.refuse = "none" /\ req'[r].pc = Flow(c.op).start /\ req'[r].size = c.len
                 /\ req'[r].keys = c.keys /\ req'[r].tags = c.tags /\ req'[r].meta = c.meta /\ req'[r].got = << >>
                 /\ req'[r].answer = "none"
<1> DEFINE c == Calls[n]
           s == Flow(c.op).start
           q == NewReq(n, s)
<1>1. /\ KeepFs /\ UNCHANGED <<inPlace, now, ghosts, faults>> /\ req[r].pc = "idle"
      /\ was' = [was EXCEPT ![r] = [k \in Keys \cap {c.key, c.from} |-> View(k)]]
      /\ req' = [req EXCEPT ![r] = IF c.refuse # "none" THEN Finished(q, c.refuse) ELSE q]
  BY DEF Arrive, KeepFs
<1>2. /\ Shaped(q) /\ q.pc = s /\ q.call = n /\ q.size = c.len /\ q.keys = c.keys /\ q.tags = c.tags /\ q.meta = c.meta
      /\ q.fd = 0 /\ q.src = 0 /\ q.flying = {} /\ q.failed = FALSE /\ q.locked = FALSE /\ q.got = << >>
      /\ q.answer = "none"
  <2> HIDE DEF s
  <2> QED BY ZenonT(60) DEF NewReq, Idle, Shaped, Fields
<1> HIDE DEF q
<1>3. req = [x \in Requests |-> req[x]] /\ was = [x \in Requests |-> was[x]]
  BY DEF TypeInv, GhostsOK
<1>4. /\ \A x \in Requests \ {r} : req'[x] = req[x] /\ was'[x] = was[x]
      /\ req' = [x \in Requests |-> req'[x]] /\ was' = [x \in Requests |-> was'[x]]
      /\ was'[r] = [k \in Keys \cap {c.key, c.from} |-> View(k)]
      /\ req'[r] = IF c.refuse # "none" THEN Finished(q, c.refuse) ELSE q
  <2> HIDE DEF c
  <2> QED BY <1>1, <1>3
<1>5. CASE c.refuse # "none"
  <2> DEFINE f == Finished(q, c.refuse)
  <2>1. /\ Shaped(f) /\ f.pc = "done" /\ f.answer = c.refuse /\ f.call = n
        /\ f.src = 0 /\ f.size = 0 /\ f.flying = {} /\ f.failed = FALSE /\ f.fd = 0
    BY <1>2, FinishedFields
  <2>2. f.locked = FALSE
    BY <1>2, FinishedLocked, ZenonT(60)
  <2>3. req'[r] = f
    BY <1>4, <1>5
  <2> HIDE DEF f
  <2> QED BY <1>1, <1>4, <1>5, <2>1, <2>2, <2>3
<1>6. CASE c.refuse = "none"
  <2>1. req'[r] = q
    BY <1>4, <1>6
  <2> QED BY <1>1, <1>2, <1>4, <1>6, <2>1
<1> QED BY <1>5, <1>6

-----------------------------------------------------------------------------
(* Every step keeps the types. *)

LEMMA EndedOK ==
    ASSUME NEW q, HandlerOK(q), q.pc # "idle", NEW q1, NEW a, NEW F, Ended(q1, q, a, F)
    PROVE  HandlerOK(q1)
<1>1. /\ q.call \in DOMAIN Calls /\ q.fd \in Inodes \cup {0}
      /\ q.flying \in SUBSET ((Nat \ {0}) \X Byte)
      /\ q.flying # {} => q.fd # 0 /\ Call(q).op \in {"put", "append", "copy"}
  BY DEF HandlerOK
<1>2. Shaped(q1) /\ q1.pc = "done" /\ q1.call = q.call /\ q1.flying = q.flying /\ q1.src = 0 /\ q1.size = 0
      /\ q1.fd = IF q.flying = {} THEN 0 ELSE q.fd
  BY DEF Ended
<1>3. Call(q1) = Call(q)
  BY <1>2 DEF Call
<1> QED BY <1>1, <1>2, <1>3 DEF HandlerOK, EarlyPCs, LatePCs

LEMMA BrokenOK ==
    ASSUME NEW q, HandlerOK(q), q.pc # "idle", NEW q1, Broken(q1, q)
    PROVE  HandlerOK(q1)
<1>1. /\ q.call \in DOMAIN Calls /\ q.fd \in Inodes \cup {0}
      /\ q.flying \in SUBSET ((Nat \ {0}) \X Byte)
      /\ q.flying # {} => q.fd # 0 /\ Call(q).op \in {"put", "append", "copy"}
  BY DEF HandlerOK
<1>2. Shaped(q1) /\ q1.pc = "done" /\ q1.call = q.call /\ q1.flying = q.flying /\ q1.src = 0 /\ q1.size = 0
      /\ q1.fd = IF q.flying = {} THEN 0 ELSE q.fd
  BY DEF Broken
<1>3. Call(q1) = Call(q)
  BY <1>2 DEF Call
<1> QED BY <1>1, <1>2, <1>3 DEF HandlerOK, EarlyPCs, LatePCs

\* A handler that goes on without a write under way, and has what its next
\* step needs.
LEMMA MovedOK ==
    ASSUME NEW q, HandlerOK(q), q.pc # "idle", q.flying = {}, NEW q1, NEW p, NEW F, Moved(q1, q, p, F),
           "call" \notin F, "flying" \notin F, p \notin {"idle", "done"}, Call(q).op \in OpsAt(p),
           q1.fd \in Inodes \cup {0}, q1.src \in Inodes \cup {0}, q1.size \in Nat,
           p \in EarlyPCs => q1.fd = 0,
           p \in LatePCs => q1.fd # 0,
           p = "stat" /\ Call(q).op = "append" => q1.fd # 0,
           p \in {"create", "body"} /\ Call(q).op = "copy" => q1.src # 0,
           p = "body" => q1.todo \in SUBSET (Nat \ {0}),
           p \in {"offset", "body", "stat"} /\ Call(q).op = "append" => q1.locked,
           p \in {"check", "remove", "prune"} /\ Call(q).op \in {"delete", "rmdir"} => q1.keys = Call(q).keys
    PROVE  HandlerOK(q1)
<1>1. q.call \in DOMAIN Calls
  BY DEF HandlerOK
<1>2. Shaped(q1) /\ q1.pc = p /\ q1.call = q.call /\ q1.flying = {}
  BY <1>1 DEF Moved, Fields
<1>3. Call(q1) = Call(q)
  BY <1>2 DEF Call
<1> QED BY <1>1, <1>2, <1>3 DEF HandlerOK

LEMMA HandlersOK ==
    ASSUME TypeInv, NEW r \in Requests
    PROVE  HandlerOK(req[r]) /\ (req[r].pc # "idle" => CallOK(Call(req[r])))
BY CallAssumption DEF TypeInv, HandlerOK, Call

\* The objects as stat shows them.
LEMMA ViewFacts ==
    ASSUME TypeInv, NEW k \in Keys
    PROVE  /\ View(k).ino = name[k] /\ View(k).ino \in Inodes \cup {0} /\ name[k] \in Inodes \cup {0}
           /\ name[k] # 0 => View(k).f = file[name[k]] /\ name[k] \in Inodes /\ IsFile(file[name[k]])
           /\ name[k] = 0 => View(k) = NoView
           /\ View(k).f.data \in Seq(Byte) /\ Len(View(k).f.data) \in Nat
<1>1. name[k] \in Inodes \cup {0} /\ \A i \in Inodes : IsFile(file[i])
  BY DEF TypeInv, FsOK
<1>2. View(k).ino = name[k] /\ (name[k] # 0 => View(k).f = file[name[k]]) /\ (name[k] = 0 => View(k) = NoView)
  BY DEF View, NoView, FdView
<1>3. View(k).f.data \in Seq(Byte)
  <2>1. CASE name[k] = 0
    <3>1. View(k).f.data = << >>
      BY <1>2, <2>1 DEF NoView, NoFile
    <3> QED BY <3>1, EmptySeq
  <2>2. CASE name[k] # 0
    BY <1>1, <1>2, <2>2 DEF IsFile
  <2> QED BY <2>1, <2>2
<1> QED BY <1>1, <1>2, <1>3, LenProperties

LEMMA FileLen == ASSUME TypeInv, NEW i \in Inodes PROVE IsFile(file[i]) /\ Len(file[i].data) \in Nat
BY LenProperties DEF TypeInv, FsOK, IsFile

LEMMA InodesNat == Inodes \subseteq Nat \ {0}
<1>1. Cardinality(Keys) \in Nat /\ Cardinality(Requests) \in Nat
  BY TreeAssumption, FS_CardinalityType
<1> QED BY <1>1 DEF Inodes

LEMMA CheckOK == ASSUME TypeInv, NEW r \in Requests, Check(r) PROVE HandlerOK(req'[r])
<1>1. HandlerOK(req[r]) /\ req[r].pc = "check" /\ CallOK(Call(req[r]))
  BY HandlersOK, CheckStep
<1>2. /\ req[r].fd \in Inodes \cup {0} /\ req[r].src \in Inodes \cup {0} /\ req[r].size \in Nat
      /\ req[r].flying = {}
      /\ req[r].fd = 0
      /\ Call(req[r]).op \in {"delete", "rmdir"} => req[r].keys = Call(req[r]).keys
  BY <1>1 DEF HandlerOK, EarlyPCs, LatePCs
<1>10. ASSUME Moved(req'[r], req[r], "mkdirs", {}), Call(req[r]).op \in {"put"}
       PROVE  HandlerOK(req'[r])
  <2>1. req'[r].fd = req[r].fd /\ req'[r].src = req[r].src /\ req'[r].size = req[r].size /\ req'[r].todo = req[r].todo /\ req'[r].locked = req[r].locked /\ req'[r].keys = req[r].keys
    BY <1>10 DEF Moved, Fields
  <2>2. Call(req[r]).op \in OpsAt("mkdirs")
    BY <1>10 DEF OpsAt
  <2> QED BY <1>1, <1>2, <1>10, <2>1, <2>2, MovedOK DEF EarlyPCs, LatePCs
<1>11. ASSUME Moved(req'[r], req[r], "srcattrs", {}), Call(req[r]).op \in {"copy"}
       PROVE  HandlerOK(req'[r])
  <2>1. req'[r].fd = req[r].fd /\ req'[r].src = req[r].src /\ req'[r].size = req[r].size /\ req'[r].todo = req[r].todo /\ req'[r].locked = req[r].locked /\ req'[r].keys = req[r].keys
    BY <1>11 DEF Moved, Fields
  <2>2. Call(req[r]).op \in OpsAt("srcattrs")
    BY <1>11 DEF OpsAt
  <2> QED BY <1>1, <1>2, <1>11, <2>1, <2>2, MovedOK DEF EarlyPCs, LatePCs
<1>12. ASSUME Moved(req'[r], req[r], "remove", {}), Call(req[r]).op \in {"delete"}
       PROVE  HandlerOK(req'[r])
  <2>1. req'[r].fd = req[r].fd /\ req'[r].src = req[r].src /\ req'[r].size = req[r].size /\ req'[r].todo = req[r].todo /\ req'[r].locked = req[r].locked /\ req'[r].keys = req[r].keys
    BY <1>12 DEF Moved, Fields
  <2>2. Call(req[r]).op \in OpsAt("remove")
    BY <1>12 DEF OpsAt
  <2> QED BY <1>1, <1>2, <1>12, <2>1, <2>2, MovedOK DEF EarlyPCs, LatePCs
<1>13. (\E a, F : Ended(req'[r], req[r], a, F)) => HandlerOK(req'[r])
  BY <1>1, EndedOK
<1> QED BY <1>10, <1>11, <1>12, <1>13, CheckStep

LEMMA SourceOK == ASSUME TypeInv, NEW r \in Requests, Source(r) PROVE HandlerOK(req'[r])
<1>1. HandlerOK(req[r]) /\ req[r].pc = "source" /\ CallOK(Call(req[r]))
  BY HandlersOK, SourceStep
<1>2. /\ req[r].fd \in Inodes \cup {0} /\ req[r].src \in Inodes \cup {0} /\ req[r].size \in Nat
      /\ req[r].flying = {}
      /\ req[r].fd = 0
  BY <1>1 DEF HandlerOK, EarlyPCs, LatePCs
<1>3. Call(req[r]).op = "copy" => Len(View(Call(req[r]).from).f.data) \in Nat
  BY <1>1, ViewFacts DEF CallOK
<1>10. ASSUME Moved(req'[r], req[r], "check", {"size"}), Call(req[r]).op \in {"copy"}, req'[r].size = Len(View(Call(req[r]).from).f.data)
       PROVE  HandlerOK(req'[r])
  <2>1. req'[r].fd = req[r].fd /\ req'[r].src = req[r].src /\ req'[r].todo = req[r].todo /\ req'[r].locked = req[r].locked /\ req'[r].keys = req[r].keys
    BY <1>10 DEF Moved, Fields
  <2>2. Call(req[r]).op \in OpsAt("check")
    BY <1>10 DEF OpsAt
  <2> QED BY <1>1, <1>2, <1>10, <2>1, <2>2, MovedOK, <1>3 DEF EarlyPCs, LatePCs
<1>11. (\E a, F : Ended(req'[r], req[r], a, F)) => HandlerOK(req'[r])
  BY <1>1, EndedOK
<1> QED BY <1>10, <1>11, SourceStep

LEMMA SrcAttrsOK == ASSUME TypeInv, NEW r \in Requests, SrcAttrs(r) PROVE HandlerOK(req'[r])
<1>1. HandlerOK(req[r]) /\ req[r].pc = "srcattrs" /\ CallOK(Call(req[r]))
  BY HandlersOK, SrcAttrsStep
<1>2. /\ req[r].fd \in Inodes \cup {0} /\ req[r].src \in Inodes \cup {0} /\ req[r].size \in Nat
      /\ req[r].flying = {}
      /\ req[r].fd = 0
  BY <1>1 DEF HandlerOK, EarlyPCs, LatePCs
<1>10. ASSUME Moved(req'[r], req[r], "mkdirs", {}), Call(req[r]).op \in {"copy"}
       PROVE  HandlerOK(req'[r])
  <2>1. req'[r].fd = req[r].fd /\ req'[r].src = req[r].src /\ req'[r].size = req[r].size /\ req'[r].todo = req[r].todo /\ req'[r].locked = req[r].locked /\ req'[r].keys = req[r].keys
    BY <1>10 DEF Moved, Fields
  <2>2. Call(req[r]).op \in OpsAt("mkdirs")
    BY <1>10 DEF OpsAt
  <2> QED BY <1>1, <1>2, <1>10, <2>1, <2>2, MovedOK DEF EarlyPCs, LatePCs
<1>11. ASSUME Moved(req'[r], req[r], "mkdirs", {"tags", "meta"}), Call(req[r]).op \in {"copy"}
       PROVE  HandlerOK(req'[r])
  <2>1. req'[r].fd = req[r].fd /\ req'[r].src = req[r].src /\ req'[r].size = req[r].size /\ req'[r].todo = req[r].todo /\ req'[r].locked = req[r].locked /\ req'[r].keys = req[r].keys
    BY <1>11 DEF Moved, Fields
  <2>2. Call(req[r]).op \in OpsAt("mkdirs")
    BY <1>11 DEF OpsAt
  <2> QED BY <1>1, <1>2, <1>11, <2>1, <2>2, MovedOK DEF EarlyPCs, LatePCs
<1>12. (\E a, F : Ended(req'[r], req[r], a, F)) => HandlerOK(req'[r])
  BY <1>1, EndedOK
<1> QED BY <1>10, <1>11, <1>12, SrcAttrsStep

LEMMA OpenSourceOK == ASSUME TypeInv, NEW r \in Requests, OpenSource(r) PROVE HandlerOK(req'[r])
<1>1. HandlerOK(req[r]) /\ req[r].pc = "opensrc" /\ CallOK(Call(req[r]))
  BY HandlersOK, OpenSourceStep
<1>2. /\ req[r].fd \in Inodes \cup {0} /\ req[r].src \in Inodes \cup {0} /\ req[r].size \in Nat
      /\ req[r].flying = {}
      /\ req[r].fd = 0
  BY <1>1 DEF HandlerOK, EarlyPCs, LatePCs
<1>3. Call(req[r]).op = "copy" => name[Call(req[r]).from] \in Inodes \cup {0}
  BY <1>1, ViewFacts DEF CallOK
<1>10. ASSUME Moved(req'[r], req[r], "create", {"src"}), Call(req[r]).op \in {"copy"}, req'[r].src = name[Call(req[r]).from], name[Call(req[r]).from] # 0
       PROVE  HandlerOK(req'[r])
  <2>1. req'[r].fd = req[r].fd /\ req'[r].size = req[r].size /\ req'[r].todo = req[r].todo /\ req'[r].locked = req[r].locked /\ req'[r].keys = req[r].keys
    BY <1>10 DEF Moved, Fields
  <2>2. Call(req[r]).op \in OpsAt("create")
    BY <1>10 DEF OpsAt
  <2> QED BY <1>1, <1>2, <1>10, <2>1, <2>2, MovedOK, <1>3 DEF EarlyPCs, LatePCs
<1>11. (\E a, F : Ended(req'[r], req[r], a, F)) => HandlerOK(req'[r])
  BY <1>1, EndedOK
<1> QED BY <1>10, <1>11, OpenSourceStep

LEMMA MkdirsOK == ASSUME TypeInv, NEW r \in Requests, Mkdirs(r) PROVE HandlerOK(req'[r])
<1>1. HandlerOK(req[r]) /\ req[r].pc = "mkdirs" /\ CallOK(Call(req[r]))
  BY HandlersOK, MkdirsStep
<1>2. /\ req[r].fd \in Inodes \cup {0} /\ req[r].src \in Inodes \cup {0} /\ req[r].size \in Nat
      /\ req[r].flying = {}
      /\ req[r].fd = 0
  BY <1>1 DEF HandlerOK, EarlyPCs, LatePCs
<1>10. ASSUME Moved(req'[r], req[r], "create", {}), Call(req[r]).op \in {"put"}
       PROVE  HandlerOK(req'[r])
  <2>1. req'[r].fd = req[r].fd /\ req'[r].src = req[r].src /\ req'[r].size = req[r].size /\ req'[r].todo = req[r].todo /\ req'[r].locked = req[r].locked /\ req'[r].keys = req[r].keys
    BY <1>10 DEF Moved, Fields
  <2>2. Call(req[r]).op \in OpsAt("create")
    BY <1>10 DEF OpsAt
  <2> QED BY <1>1, <1>2, <1>10, <2>1, <2>2, MovedOK DEF EarlyPCs, LatePCs
<1>11. ASSUME Moved(req'[r], req[r], "opensrc", {}), Call(req[r]).op \in {"copy"}
       PROVE  HandlerOK(req'[r])
  <2>1. req'[r].fd = req[r].fd /\ req'[r].src = req[r].src /\ req'[r].size = req[r].size /\ req'[r].todo = req[r].todo /\ req'[r].locked = req[r].locked /\ req'[r].keys = req[r].keys
    BY <1>11 DEF Moved, Fields
  <2>2. Call(req[r]).op \in OpsAt("opensrc")
    BY <1>11 DEF OpsAt
  <2> QED BY <1>1, <1>2, <1>11, <2>1, <2>2, MovedOK DEF EarlyPCs, LatePCs
<1>12. ASSUME Moved(req'[r], req[r], "statdir", {}), Call(req[r]).op \in {"mkdir"}
       PROVE  HandlerOK(req'[r])
  <2>1. req'[r].fd = req[r].fd /\ req'[r].src = req[r].src /\ req'[r].size = req[r].size /\ req'[r].todo = req[r].todo /\ req'[r].locked = req[r].locked /\ req'[r].keys = req[r].keys
    BY <1>12 DEF Moved, Fields
  <2>2. Call(req[r]).op \in OpsAt("statdir")
    BY <1>12 DEF OpsAt
  <2> QED BY <1>1, <1>2, <1>12, <2>1, <2>2, MovedOK DEF EarlyPCs, LatePCs
<1>13. (\E a, F : Ended(req'[r], req[r], a, F)) => HandlerOK(req'[r])
  BY <1>1, EndedOK
<1> QED BY <1>10, <1>11, <1>12, <1>13, MkdirsStep

LEMMA CreateOK == ASSUME TypeInv, NEW r \in Requests, Create(r) PROVE HandlerOK(req'[r])
<1>1. HandlerOK(req[r]) /\ req[r].pc = "create" /\ CallOK(Call(req[r]))
  BY HandlersOK, CreateStep
<1>2. /\ req[r].fd \in Inodes \cup {0} /\ req[r].src \in Inodes \cup {0} /\ req[r].size \in Nat
      /\ req[r].flying = {}
      /\ req[r].fd = 0
      /\ Call(req[r]).op = "copy" => req[r].src # 0
  BY <1>1 DEF HandlerOK, EarlyPCs, LatePCs
<1>3. Call(req[r]).op \in {"put", "copy"} => Ino(r) \in Inodes \cup {0}
  BY <1>1, ViewFacts DEF CallOK, Ino, Key, DirOps
<1>4. NewInode \in Inodes
  BY <1>2, NewInodeFree
<1>5. 0 \notin Inodes /\ 1..req[r].size \in SUBSET (Nat \ {0})
  BY <1>2, InodesNat
<1>10. ASSUME Moved(req'[r], req[r], "body", {"fd", "todo"}), Call(req[r]).op \in {"put", "copy"}, req'[r].fd = (IF inPlace /\ Ino(r) # 0 THEN Ino(r) ELSE NewInode), req'[r].todo = 1..req[r].size
       PROVE  HandlerOK(req'[r])
  <2>1. req'[r].src = req[r].src /\ req'[r].size = req[r].size /\ req'[r].locked = req[r].locked /\ req'[r].keys = req[r].keys
    BY <1>10 DEF Moved, Fields
  <2>2. Call(req[r]).op \in OpsAt("body")
    BY <1>10 DEF OpsAt
  <2> QED BY <1>1, <1>2, <1>10, <2>1, <2>2, MovedOK, <1>3, <1>4, <1>5 DEF EarlyPCs, LatePCs
<1>11. (\E a, F : Ended(req'[r], req[r], a, F)) => HandlerOK(req'[r])
  BY <1>1, EndedOK
<1> QED BY <1>10, <1>11, CreateStep

LEMMA OpenExistingOK == ASSUME TypeInv, NEW r \in Requests, OpenExisting(r) PROVE HandlerOK(req'[r])
<1>1. HandlerOK(req[r]) /\ req[r].pc = "existing" /\ CallOK(Call(req[r]))
  BY HandlersOK, OpenExistingStep
<1>2. /\ req[r].fd \in Inodes \cup {0} /\ req[r].src \in Inodes \cup {0} /\ req[r].size \in Nat
      /\ req[r].flying = {}
  BY <1>1 DEF HandlerOK, EarlyPCs, LatePCs
<1>3. Call(req[r]).op = "append" => Ino(r) \in Inodes \cup {0}
  BY <1>1, ViewFacts DEF CallOK, Ino, Key, DirOps
<1>10. ASSUME Moved(req'[r], req[r], "flock", {"fd"}), Call(req[r]).op \in {"append"}, req'[r].fd = Ino(r), Ino(r) # 0
       PROVE  HandlerOK(req'[r])
  <2>1. req'[r].src = req[r].src /\ req'[r].size = req[r].size /\ req'[r].todo = req[r].todo /\ req'[r].locked = req[r].locked /\ req'[r].keys = req[r].keys
    BY <1>10 DEF Moved, Fields
  <2>2. Call(req[r]).op \in OpsAt("flock")
    BY <1>10 DEF OpsAt
  <2> QED BY <1>1, <1>2, <1>10, <2>1, <2>2, MovedOK, <1>3 DEF EarlyPCs, LatePCs
<1>11. (\E a, F : Ended(req'[r], req[r], a, F)) => HandlerOK(req'[r])
  BY <1>1, EndedOK
<1> QED BY <1>10, <1>11, OpenExistingStep

LEMMA FlockOK == ASSUME TypeInv, NEW r \in Requests, Flock(r) PROVE HandlerOK(req'[r])
<1>1. HandlerOK(req[r]) /\ req[r].pc = "flock" /\ CallOK(Call(req[r]))
  BY HandlersOK, FlockStep
<1>2. /\ req[r].fd \in Inodes \cup {0} /\ req[r].src \in Inodes \cup {0} /\ req[r].size \in Nat
      /\ req[r].flying = {}
      /\ req[r].fd # 0
  BY <1>1 DEF HandlerOK, EarlyPCs, LatePCs
<1>10. ASSUME Moved(req'[r], req[r], "offset", {"locked"}), Call(req[r]).op \in {"append"}, req'[r].locked = TRUE
       PROVE  HandlerOK(req'[r])
  <2>1. req'[r].fd = req[r].fd /\ req'[r].src = req[r].src /\ req'[r].size = req[r].size /\ req'[r].todo = req[r].todo /\ req'[r].keys = req[r].keys
    BY <1>10 DEF Moved, Fields
  <2>2. Call(req[r]).op \in OpsAt("offset")
    BY <1>10 DEF OpsAt
  <2> QED BY <1>1, <1>2, <1>10, <2>1, <2>2, MovedOK DEF EarlyPCs, LatePCs
<1>11. (\E a, F : Ended(req'[r], req[r], a, F)) => HandlerOK(req'[r])
  BY <1>1, EndedOK
<1> QED BY <1>10, <1>11, FlockStep

LEMMA OffsetOK == ASSUME TypeInv, NEW r \in Requests, Offset(r) PROVE HandlerOK(req'[r])
<1>1. HandlerOK(req[r]) /\ req[r].pc = "offset" /\ CallOK(Call(req[r]))
  BY HandlersOK, OffsetStep
<1>2. /\ req[r].fd \in Inodes \cup {0} /\ req[r].src \in Inodes \cup {0} /\ req[r].size \in Nat
      /\ req[r].flying = {}
      /\ req[r].fd # 0
      /\ Call(req[r]).op = "append" => req[r].locked
  BY <1>1 DEF HandlerOK, EarlyPCs, LatePCs
<1>3. 1..Call(req[r]).len \in SUBSET (Nat \ {0})
  BY <1>1 DEF CallOK
<1>10. ASSUME Moved(req'[r], req[r], "body", {"todo"}), Call(req[r]).op \in {"append"}, req'[r].todo = 1..Call(req[r]).len
       PROVE  HandlerOK(req'[r])
  <2>1. req'[r].fd = req[r].fd /\ req'[r].src = req[r].src /\ req'[r].size = req[r].size /\ req'[r].locked = req[r].locked /\ req'[r].keys = req[r].keys
    BY <1>10 DEF Moved, Fields
  <2>2. Call(req[r]).op \in OpsAt("body")
    BY <1>10 DEF OpsAt
  <2>3. req'[r].locked /\ req'[r].todo \in SUBSET (Nat \ {0})
    BY <1>2, <1>3, <1>10, <2>1
  <2>4. req'[r].fd \in Inodes \cup {0} /\ req'[r].src \in Inodes \cup {0} /\ req'[r].size \in Nat /\ req'[r].fd # 0
    BY <1>2, <2>1
  <2>5. HandlerOK(req[r]) /\ req[r].pc # "idle" /\ req[r].flying = {}
    BY <1>1, <1>2
  <2>6. Moved(req'[r], req[r], "body", {"todo"}) /\ Call(req[r]).op = "append"
    BY <1>10
  <2> QED BY <2>2, <2>3, <2>4, <2>5, <2>6, MovedOK DEF EarlyPCs
<1>11. (\E a, F : Ended(req'[r], req[r], a, F)) => HandlerOK(req'[r])
  BY <1>1, EndedOK
<1> QED BY <1>10, <1>11, OffsetStep

LEMMA TruncOK == ASSUME TypeInv, NEW r \in Requests, Trunc(r) PROVE HandlerOK(req'[r])
<1>1. HandlerOK(req[r]) /\ req[r].pc = "trunc" /\ CallOK(Call(req[r]))
  BY HandlersOK, TruncStep
<1>2. /\ req[r].fd \in Inodes \cup {0} /\ req[r].src \in Inodes \cup {0} /\ req[r].size \in Nat
      /\ req[r].flying = {}
  BY <1>1 DEF HandlerOK, EarlyPCs, LatePCs
<1>10. ASSUME Moved(req'[r], req[r], "stat", {"fd", "src"}), Call(req[r]).op \in {"put"}, req'[r].fd = 0, req'[r].src = 0
       PROVE  HandlerOK(req'[r])
  <2>1. req'[r].size = req[r].size /\ req'[r].todo = req[r].todo /\ req'[r].locked = req[r].locked /\ req'[r].keys = req[r].keys
    BY <1>10 DEF Moved, Fields
  <2>2. Call(req[r]).op \in OpsAt("stat")
    BY <1>10 DEF OpsAt
  <2> QED BY <1>1, <1>2, <1>10, <2>1, <2>2, MovedOK DEF EarlyPCs, LatePCs
<1>11. ASSUME Moved(req'[r], req[r], "tags", {"fd", "src"}), Call(req[r]).op \in {"copy"}, req'[r].fd = 0, req'[r].src = 0
       PROVE  HandlerOK(req'[r])
  <2>1. req'[r].size = req[r].size /\ req'[r].todo = req[r].todo /\ req'[r].locked = req[r].locked /\ req'[r].keys = req[r].keys
    BY <1>11 DEF Moved, Fields
  <2>2. Call(req[r]).op \in OpsAt("tags")
    BY <1>11 DEF OpsAt
  <2> QED BY <1>1, <1>2, <1>11, <2>1, <2>2, MovedOK DEF EarlyPCs, LatePCs
<1>12. (\E a, F : Ended(req'[r], req[r], a, F)) => HandlerOK(req'[r])
  BY <1>1, EndedOK
<1> QED BY <1>10, <1>11, <1>12, TruncStep

LEMMA StatOK == ASSUME TypeInv, NEW r \in Requests, Stat(r) PROVE HandlerOK(req'[r])
<1>1. HandlerOK(req[r]) /\ req[r].pc = "stat" /\ CallOK(Call(req[r]))
  BY HandlersOK, StatStep
<1>2. /\ req[r].fd \in Inodes \cup {0} /\ req[r].src \in Inodes \cup {0} /\ req[r].size \in Nat
      /\ req[r].flying = {}
  BY <1>1 DEF HandlerOK, EarlyPCs, LatePCs
<1>10. ASSUME Moved(req'[r], req[r], "tags", {"seen"}), Call(req[r]).op \in {"put"}
       PROVE  HandlerOK(req'[r])
  <2>1. req'[r].fd = req[r].fd /\ req'[r].src = req[r].src /\ req'[r].size = req[r].size /\ req'[r].todo = req[r].todo /\ req'[r].locked = req[r].locked /\ req'[r].keys = req[r].keys
    BY <1>10 DEF Moved, Fields
  <2>2. Call(req[r]).op \in OpsAt("tags")
    BY <1>10 DEF OpsAt
  <2> QED BY <1>1, <1>2, <1>10, <2>1, <2>2, MovedOK DEF EarlyPCs, LatePCs
<1>11. (\E a, F : Ended(req'[r], req[r], a, F)) => HandlerOK(req'[r])
  BY <1>1, EndedOK
<1> QED BY <1>10, <1>11, StatStep

LEMMA TagsOK == ASSUME TypeInv, NEW r \in Requests, Tags(r) PROVE HandlerOK(req'[r])
<1>1. HandlerOK(req[r]) /\ req[r].pc = "tags" /\ CallOK(Call(req[r]))
  BY HandlersOK, TagsStep
<1>2. /\ req[r].fd \in Inodes \cup {0} /\ req[r].src \in Inodes \cup {0} /\ req[r].size \in Nat
      /\ req[r].flying = {}
  BY <1>1 DEF HandlerOK, EarlyPCs, LatePCs
<1>10. ASSUME Moved(req'[r], req[r], "meta", {}), Call(req[r]).op \in {"put", "copy"}
       PROVE  HandlerOK(req'[r])
  <2>1. req'[r].fd = req[r].fd /\ req'[r].src = req[r].src /\ req'[r].size = req[r].size /\ req'[r].todo = req[r].todo /\ req'[r].locked = req[r].locked /\ req'[r].keys = req[r].keys
    BY <1>10 DEF Moved, Fields
  <2>2. Call(req[r]).op \in OpsAt("meta")
    BY <1>10 DEF OpsAt
  <2> QED BY <1>1, <1>2, <1>10, <2>1, <2>2, MovedOK DEF EarlyPCs, LatePCs
<1>11. (\E a, F : Ended(req'[r], req[r], a, F)) => HandlerOK(req'[r])
  BY <1>1, EndedOK
<1> QED BY <1>10, <1>11, TagsStep

LEMMA MetaOK == ASSUME TypeInv, NEW r \in Requests, Meta(r) PROVE HandlerOK(req'[r])
<1>1. HandlerOK(req[r]) /\ req[r].pc = "meta" /\ CallOK(Call(req[r]))
  BY HandlersOK, MetaStep
<1>2. /\ req[r].fd \in Inodes \cup {0} /\ req[r].src \in Inodes \cup {0} /\ req[r].size \in Nat
      /\ req[r].flying = {}
  BY <1>1 DEF HandlerOK, EarlyPCs, LatePCs
<1>10. ASSUME Moved(req'[r], req[r], "stat", {}), Call(req[r]).op \in {"copy"}
       PROVE  HandlerOK(req'[r])
  <2>1. req'[r].fd = req[r].fd /\ req'[r].src = req[r].src /\ req'[r].size = req[r].size /\ req'[r].todo = req[r].todo /\ req'[r].locked = req[r].locked /\ req'[r].keys = req[r].keys
    BY <1>10 DEF Moved, Fields
  <2>2. Call(req[r]).op \in OpsAt("stat")
    BY <1>10 DEF OpsAt
  <2> QED BY <1>1, <1>2, <1>10, <2>1, <2>2, MovedOK DEF EarlyPCs, LatePCs
<1>11. (\E a, F : Ended(req'[r], req[r], a, F)) => HandlerOK(req'[r])
  BY <1>1, EndedOK
<1> QED BY <1>10, <1>11, MetaStep

LEMMA OpenOK == ASSUME TypeInv, NEW r \in Requests, Open(r) PROVE HandlerOK(req'[r])
<1>1. HandlerOK(req[r]) /\ req[r].pc = "open" /\ CallOK(Call(req[r]))
  BY HandlersOK, OpenStep
<1>2. /\ req[r].fd \in Inodes \cup {0} /\ req[r].src \in Inodes \cup {0} /\ req[r].size \in Nat
      /\ req[r].flying = {}
  BY <1>1 DEF HandlerOK, EarlyPCs, LatePCs
<1>3. Call(req[r]).op \in {"get", "head"} => View(Key(r)).ino \in Inodes \cup {0} /\ Len(View(Key(r)).f.data) \in Nat
  BY <1>1, ViewFacts DEF CallOK, Key, DirOps
<1>10. ASSUME Moved(req'[r], req[r], "attrs", {"fd", "seen", "size"}), Call(req[r]).op \in {"get", "head"}, req'[r].fd = View(Key(r)).ino, req'[r].size = Len(View(Key(r)).f.data)
       PROVE  HandlerOK(req'[r])
  <2>1. req'[r].src = req[r].src /\ req'[r].todo = req[r].todo /\ req'[r].locked = req[r].locked /\ req'[r].keys = req[r].keys
    BY <1>10 DEF Moved, Fields
  <2>2. Call(req[r]).op \in OpsAt("attrs")
    BY <1>10 DEF OpsAt
  <2> QED BY <1>1, <1>2, <1>10, <2>1, <2>2, MovedOK, <1>3 DEF EarlyPCs, LatePCs
<1>11. (\E a, F : Ended(req'[r], req[r], a, F)) => HandlerOK(req'[r])
  BY <1>1, EndedOK
<1> QED BY <1>10, <1>11, OpenStep

LEMMA AttrsOK == ASSUME TypeInv, NEW r \in Requests, Attrs(r) PROVE HandlerOK(req'[r])
<1>1. HandlerOK(req[r]) /\ req[r].pc = "attrs" /\ CallOK(Call(req[r]))
  BY HandlersOK, AttrsStep
<1>2. /\ req[r].fd \in Inodes \cup {0} /\ req[r].src \in Inodes \cup {0} /\ req[r].size \in Nat
      /\ req[r].flying = {}
  BY <1>1 DEF HandlerOK, EarlyPCs, LatePCs
<1>10. ASSUME Moved(req'[r], req[r], "small", {"meta", "ranges"}), Call(req[r]).op \in {"get"}
       PROVE  HandlerOK(req'[r])
  <2>1. req'[r].fd = req[r].fd /\ req'[r].src = req[r].src /\ req'[r].size = req[r].size /\ req'[r].todo = req[r].todo /\ req'[r].locked = req[r].locked /\ req'[r].keys = req[r].keys
    BY <1>10 DEF Moved, Fields
  <2>2. Call(req[r]).op \in OpsAt("small")
    BY <1>10 DEF OpsAt
  <2> QED BY <1>1, <1>2, <1>10, <2>1, <2>2, MovedOK DEF EarlyPCs, LatePCs
<1>11. ASSUME Moved(req'[r], req[r], "stream", {"meta", "ranges"}), Call(req[r]).op \in {"get"}
       PROVE  HandlerOK(req'[r])
  <2>1. req'[r].fd = req[r].fd /\ req'[r].src = req[r].src /\ req'[r].size = req[r].size /\ req'[r].todo = req[r].todo /\ req'[r].locked = req[r].locked /\ req'[r].keys = req[r].keys
    BY <1>11 DEF Moved, Fields
  <2>2. Call(req[r]).op \in OpsAt("stream")
    BY <1>11 DEF OpsAt
  <2> QED BY <1>1, <1>2, <1>11, <2>1, <2>2, MovedOK DEF EarlyPCs, LatePCs
<1>12. (\E a, F : Ended(req'[r], req[r], a, F)) => HandlerOK(req'[r])
  BY <1>1, EndedOK
<1> QED BY <1>10, <1>11, <1>12, AttrsStep

LEMMA SmallOK == ASSUME TypeInv, NEW r \in Requests, Small(r) PROVE HandlerOK(req'[r])
<1>1. HandlerOK(req[r]) /\ req[r].pc = "small" /\ CallOK(Call(req[r]))
  BY HandlersOK, SmallStep
<1>2. /\ req[r].fd \in Inodes \cup {0} /\ req[r].src \in Inodes \cup {0} /\ req[r].size \in Nat
      /\ req[r].flying = {}
  BY <1>1 DEF HandlerOK, EarlyPCs, LatePCs
<1>10. (\E a, F : Ended(req'[r], req[r], a, F)) => HandlerOK(req'[r])
  BY <1>1, EndedOK
<1> QED BY <1>10, SmallStep

LEMMA StreamOK == ASSUME TypeInv, NEW r \in Requests, Stream(r) PROVE HandlerOK(req'[r])
<1>1. HandlerOK(req[r]) /\ req[r].pc = "stream" /\ CallOK(Call(req[r]))
  BY HandlersOK, StreamStep
<1>2. /\ req[r].fd \in Inodes \cup {0} /\ req[r].src \in Inodes \cup {0} /\ req[r].size \in Nat
      /\ req[r].flying = {}
  BY <1>1 DEF HandlerOK, EarlyPCs, LatePCs
<1>3. Call(req[r]).op = "get" => Ino(r) \in Inodes \cup {0}
  BY <1>1, ViewFacts DEF CallOK, Ino, Key, DirOps
<1>10. ASSUME Moved(req'[r], req[r], "reading", {"fd", "todo", "got"}), Call(req[r]).op \in {"get"}, req'[r].fd = Ino(r)
       PROVE  HandlerOK(req'[r])
  <2>1. req'[r].src = req[r].src /\ req'[r].size = req[r].size /\ req'[r].locked = req[r].locked /\ req'[r].keys = req[r].keys
    BY <1>10 DEF Moved, Fields
  <2>2. Call(req[r]).op \in OpsAt("reading")
    BY <1>10 DEF OpsAt
  <2> QED BY <1>1, <1>2, <1>10, <2>1, <2>2, MovedOK, <1>3 DEF EarlyPCs, LatePCs
<1>11. (\E a, F : Ended(req'[r], req[r], a, F)) => HandlerOK(req'[r])
  BY <1>1, EndedOK
<1> QED BY <1>10, <1>11, StreamStep

LEMMA ReadChunkOK == ASSUME TypeInv, NEW r \in Requests, ReadChunk(r) PROVE HandlerOK(req'[r])
<1>1. HandlerOK(req[r]) /\ req[r].pc = "reading" /\ CallOK(Call(req[r]))
  BY HandlersOK, ReadChunkStep
<1>2. /\ req[r].fd \in Inodes \cup {0} /\ req[r].src \in Inodes \cup {0} /\ req[r].size \in Nat
      /\ req[r].flying = {}
  BY <1>1 DEF HandlerOK, EarlyPCs, LatePCs
<1>10. ASSUME Moved(req'[r], req[r], "reading", {"todo"}), Call(req[r]).op \in {"get"}
       PROVE  HandlerOK(req'[r])
  <2>1. req'[r].fd = req[r].fd /\ req'[r].src = req[r].src /\ req'[r].size = req[r].size /\ req'[r].locked = req[r].locked /\ req'[r].keys = req[r].keys
    BY <1>10 DEF Moved, Fields
  <2>2. Call(req[r]).op \in OpsAt("reading")
    BY <1>10 DEF OpsAt
  <2> QED BY <1>1, <1>2, <1>10, <2>1, <2>2, MovedOK DEF EarlyPCs, LatePCs
<1>11. ASSUME Moved(req'[r], req[r], "reading", {"todo", "got"}), Call(req[r]).op \in {"get"}
       PROVE  HandlerOK(req'[r])
  <2>1. req'[r].fd = req[r].fd /\ req'[r].src = req[r].src /\ req'[r].size = req[r].size /\ req'[r].locked = req[r].locked /\ req'[r].keys = req[r].keys
    BY <1>11 DEF Moved, Fields
  <2>2. Call(req[r]).op \in OpsAt("reading")
    BY <1>11 DEF OpsAt
  <2> QED BY <1>1, <1>2, <1>11, <2>1, <2>2, MovedOK DEF EarlyPCs, LatePCs
<1>12. (\E a, F : Ended(req'[r], req[r], a, F)) => HandlerOK(req'[r])
  BY <1>1, EndedOK
<1> QED BY <1>10, <1>11, <1>12, ReadChunkStep

LEMMA RangeEndOK == ASSUME TypeInv, NEW r \in Requests, RangeEnd(r) PROVE HandlerOK(req'[r])
<1>1. HandlerOK(req[r]) /\ req[r].pc = "reading" /\ CallOK(Call(req[r]))
  BY HandlersOK, RangeEndStep
<1>2. /\ req[r].fd \in Inodes \cup {0} /\ req[r].src \in Inodes \cup {0} /\ req[r].size \in Nat
      /\ req[r].flying = {}
  BY <1>1 DEF HandlerOK, EarlyPCs, LatePCs
<1>10. ASSUME Moved(req'[r], req[r], "stream", {"ranges"}), Call(req[r]).op \in {"get"}
       PROVE  HandlerOK(req'[r])
  <2>1. req'[r].fd = req[r].fd /\ req'[r].src = req[r].src /\ req'[r].size = req[r].size /\ req'[r].todo = req[r].todo /\ req'[r].locked = req[r].locked /\ req'[r].keys = req[r].keys
    BY <1>10 DEF Moved, Fields
  <2>2. Call(req[r]).op \in OpsAt("stream")
    BY <1>10 DEF OpsAt
  <2> QED BY <1>1, <1>2, <1>10, <2>1, <2>2, MovedOK DEF EarlyPCs, LatePCs
<1>11. (\E a, F : Ended(req'[r], req[r], a, F)) => HandlerOK(req'[r])
  BY <1>1, EndedOK
<1> QED BY <1>10, <1>11, RangeEndStep

LEMMA ExistsOK == ASSUME TypeInv, NEW r \in Requests, Exists(r) PROVE HandlerOK(req'[r])
<1>1. HandlerOK(req[r]) /\ req[r].pc = "exists" /\ CallOK(Call(req[r]))
  BY HandlersOK, ExistsStep
<1>2. /\ req[r].fd \in Inodes \cup {0} /\ req[r].src \in Inodes \cup {0} /\ req[r].size \in Nat
      /\ req[r].flying = {}
  BY <1>1 DEF HandlerOK, EarlyPCs, LatePCs
<1>10. ASSUME Moved(req'[r], req[r], "readtags", {}), Call(req[r]).op \in {"gettags"}
       PROVE  HandlerOK(req'[r])
  <2>1. req'[r].fd = req[r].fd /\ req'[r].src = req[r].src /\ req'[r].size = req[r].size /\ req'[r].todo = req[r].todo /\ req'[r].locked = req[r].locked /\ req'[r].keys = req[r].keys
    BY <1>10 DEF Moved, Fields
  <2>2. Call(req[r]).op \in OpsAt("readtags")
    BY <1>10 DEF OpsAt
  <2> QED BY <1>1, <1>2, <1>10, <2>1, <2>2, MovedOK DEF EarlyPCs, LatePCs
<1>11. ASSUME Moved(req'[r], req[r], "tags", {}), Call(req[r]).op \in {"puttags"}
       PROVE  HandlerOK(req'[r])
  <2>1. req'[r].fd = req[r].fd /\ req'[r].src = req[r].src /\ req'[r].size = req[r].size /\ req'[r].todo = req[r].todo /\ req'[r].locked = req[r].locked /\ req'[r].keys = req[r].keys
    BY <1>11 DEF Moved, Fields
  <2>2. Call(req[r]).op \in OpsAt("tags")
    BY <1>11 DEF OpsAt
  <2> QED BY <1>1, <1>2, <1>11, <2>1, <2>2, MovedOK DEF EarlyPCs, LatePCs
<1>12. (\E a, F : Ended(req'[r], req[r], a, F)) => HandlerOK(req'[r])
  BY <1>1, EndedOK
<1> QED BY <1>10, <1>11, <1>12, ExistsStep

LEMMA ReadTagsOK == ASSUME TypeInv, NEW r \in Requests, ReadTags(r) PROVE HandlerOK(req'[r])
<1>1. HandlerOK(req[r]) /\ req[r].pc = "readtags" /\ CallOK(Call(req[r]))
  BY HandlersOK, ReadTagsStep
<1>2. /\ req[r].fd \in Inodes \cup {0} /\ req[r].src \in Inodes \cup {0} /\ req[r].size \in Nat
      /\ req[r].flying = {}
  BY <1>1 DEF HandlerOK, EarlyPCs, LatePCs
<1>10. (\E a, F : Ended(req'[r], req[r], a, F)) => HandlerOK(req'[r])
  BY <1>1, EndedOK
<1> QED BY <1>10, ReadTagsStep

LEMMA RemoveOK == ASSUME TypeInv, NEW r \in Requests, Remove(r) PROVE HandlerOK(req'[r])
<1>1. HandlerOK(req[r]) /\ req[r].pc = "remove" /\ CallOK(Call(req[r]))
  BY HandlersOK, RemoveStep
<1>2. /\ req[r].fd \in Inodes \cup {0} /\ req[r].src \in Inodes \cup {0} /\ req[r].size \in Nat
      /\ req[r].flying = {}
      /\ Call(req[r]).op \in {"delete", "rmdir"} => req[r].keys = Call(req[r]).keys
  BY <1>1 DEF HandlerOK, EarlyPCs, LatePCs
<1>3. Call(req[r]).op \in {"delete", "rmdir"} => Len(req[r].keys) = 1
  <2>1. Call(req[r]).op \in {"delete", "rmdir"} => req[r].keys = <<Call(req[r]).key>>
    BY <1>1, <1>2 DEF CallOK
  <2> QED BY <2>1
<1>10. ASSUME Moved(req'[r], req[r], "prune", {"dir"}), Call(req[r]).op \in {"delete", "deletes", "rmdir"}
       PROVE  HandlerOK(req'[r])
  <2>1. req'[r].fd = req[r].fd /\ req'[r].src = req[r].src /\ req'[r].size = req[r].size /\ req'[r].todo = req[r].todo /\ req'[r].locked = req[r].locked /\ req'[r].keys = req[r].keys
    BY <1>10 DEF Moved, Fields
  <2>2. Call(req[r]).op \in OpsAt("prune")
    BY <1>10 DEF OpsAt
  <2> QED BY <1>1, <1>2, <1>10, <2>1, <2>2, MovedOK DEF EarlyPCs, LatePCs
<1>11. ASSUME Moved(req'[r], req[r], "remove", {"keys"}), Call(req[r]).op \in {"delete", "deletes", "rmdir"}, Len(req[r].keys) # 1
       PROVE  HandlerOK(req'[r])
  <2>1. req'[r].fd = req[r].fd /\ req'[r].src = req[r].src /\ req'[r].size = req[r].size /\ req'[r].todo = req[r].todo /\ req'[r].locked = req[r].locked
    BY <1>11 DEF Moved, Fields
  <2>2. Call(req[r]).op \in OpsAt("remove")
    BY <1>11 DEF OpsAt
  <2> QED BY <1>1, <1>2, <1>11, <2>1, <2>2, MovedOK, <1>3 DEF EarlyPCs, LatePCs
<1>12. (\E a, F : Ended(req'[r], req[r], a, F)) => HandlerOK(req'[r])
  BY <1>1, EndedOK
<1> QED BY <1>10, <1>11, <1>12, RemoveStep

LEMMA PruneOK == ASSUME TypeInv, NEW r \in Requests, Prune(r) PROVE HandlerOK(req'[r])
<1>1. HandlerOK(req[r]) /\ req[r].pc = "prune" /\ CallOK(Call(req[r]))
  BY HandlersOK, PruneStep
<1>2. /\ req[r].fd \in Inodes \cup {0} /\ req[r].src \in Inodes \cup {0} /\ req[r].size \in Nat
      /\ req[r].flying = {}
      /\ Call(req[r]).op \in {"delete", "rmdir"} => req[r].keys = Call(req[r]).keys
  BY <1>1 DEF HandlerOK, EarlyPCs, LatePCs
<1>3. Call(req[r]).op \in {"delete", "rmdir"} => Len(req[r].keys) = 1
  <2>1. Call(req[r]).op \in {"delete", "rmdir"} => req[r].keys = <<Call(req[r]).key>>
    BY <1>1, <1>2 DEF CallOK
  <2> QED BY <2>1
<1>10. ASSUME Moved(req'[r], req[r], "prune", {"dir"}), Call(req[r]).op \in {"delete", "deletes", "rmdir"}
       PROVE  HandlerOK(req'[r])
  <2>1. req'[r].fd = req[r].fd /\ req'[r].src = req[r].src /\ req'[r].size = req[r].size /\ req'[r].todo = req[r].todo /\ req'[r].locked = req[r].locked /\ req'[r].keys = req[r].keys
    BY <1>10 DEF Moved, Fields
  <2>2. Call(req[r]).op \in OpsAt("prune")
    BY <1>10 DEF OpsAt
  <2> QED BY <1>1, <1>2, <1>10, <2>1, <2>2, MovedOK DEF EarlyPCs, LatePCs
<1>11. ASSUME Moved(req'[r], req[r], "remove", {"keys", "dir"}), Call(req[r]).op \in {"delete", "deletes", "rmdir"}, Len(req[r].keys) # 1
       PROVE  HandlerOK(req'[r])
  <2>1. req'[r].fd = req[r].fd /\ req'[r].src = req[r].src /\ req'[r].size = req[r].size /\ req'[r].todo = req[r].todo /\ req'[r].locked = req[r].locked
    BY <1>11 DEF Moved, Fields
  <2>2. Call(req[r]).op \in OpsAt("remove")
    BY <1>11 DEF OpsAt
  <2> QED BY <1>1, <1>2, <1>11, <2>1, <2>2, MovedOK, <1>3 DEF EarlyPCs, LatePCs
<1>12. (\E a, F : Ended(req'[r], req[r], a, F)) => HandlerOK(req'[r])
  BY <1>1, EndedOK
<1> QED BY <1>10, <1>11, <1>12, PruneStep

LEMMA StatDirOK == ASSUME TypeInv, NEW r \in Requests, StatDir(r) PROVE HandlerOK(req'[r])
<1>1. HandlerOK(req[r]) /\ req[r].pc = "statdir" /\ CallOK(Call(req[r]))
  BY HandlersOK, StatDirStep
<1>2. /\ req[r].fd \in Inodes \cup {0} /\ req[r].src \in Inodes \cup {0} /\ req[r].size \in Nat
      /\ req[r].flying = {}
  BY <1>1 DEF HandlerOK, EarlyPCs, LatePCs
<1>10. (\E a, F : Ended(req'[r], req[r], a, F)) => HandlerOK(req'[r])
  BY <1>1, EndedOK
<1> QED BY <1>10, StatDirStep

LEMMA BodyOK ==
    ASSUME NEW q, HandlerOK(q), q.pc = "body", NEW q1, NEW F, Moved(q1, q, "body", F),
           F \cap {"call", "fd", "src", "size", "locked"} = {},
           q1.todo \in SUBSET (Nat \ {0}), q1.flying \in SUBSET ((Nat \ {0}) \X Byte)
    PROVE  HandlerOK(q1)
<1>1. /\ q.call \in DOMAIN Calls /\ q.fd \in Inodes \cup {0} /\ q.src \in Inodes \cup {0} /\ q.size \in Nat
      /\ q.fd # 0 /\ (Call(q).op = "copy" => q.src # 0) /\ (Call(q).op = "append" => q.locked)
      /\ Call(q).op \in {"put", "append", "copy"}
  BY DEF HandlerOK, LatePCs, OpsAt
<1>2. /\ Shaped(q1) /\ q1.pc = "body" /\ q1.call = q.call /\ q1.fd = q.fd /\ q1.src = q.src /\ q1.size = q.size
      /\ q1.locked = q.locked
  BY DEF Moved, Fields
<1>3. Call(q1) = Call(q)
  BY <1>2 DEF Call
<1> QED BY <1>1, <1>2, <1>3 DEF HandlerOK, EarlyPCs, LatePCs, OpsAt

LEMMA BodyTodo ==
    ASSUME TypeInv, NEW r \in Requests, req[r].pc = "body"
    PROVE  /\ req[r].todo \in SUBSET (Nat \ {0}) /\ req[r].flying \in SUBSET ((Nat \ {0}) \X Byte)
           /\ req[r].fd \in Inodes /\ (Call(req[r]).op = "copy" => req[r].src \in Inodes)
           /\ CallOK(Call(req[r])) /\ HandlerOK(req[r])
           /\ req[r].todo # {} => /\ First(req[r].todo) \in req[r].todo
                                  /\ \A m \in req[r].todo : First(req[r].todo) <= m
                                  /\ First(req[r].todo) \in Nat \ {0}
<1>1. HandlerOK(req[r]) /\ CallOK(Call(req[r]))
  BY HandlersOK
<1>2. /\ req[r].todo \in SUBSET (Nat \ {0}) /\ req[r].flying \in SUBSET ((Nat \ {0}) \X Byte)
      /\ req[r].fd \in Inodes /\ (Call(req[r]).op = "copy" => req[r].src \in Inodes)
  BY <1>1 DEF HandlerOK, LatePCs
<1> DEFINE T == req[r].todo
<1>3. T # {} => First(T) \in T /\ \A m \in T : First(T) <= m
  <2>1. T \subseteq Nat
    BY <1>2
  <2> HIDE DEF T
  <2> QED BY <2>1, FirstMin
<1> QED BY <1>1, <1>2, <1>3

LEMMA ReceiveOK == ASSUME TypeInv, NEW r \in Requests, Receive(r) PROVE HandlerOK(req'[r])
<1> DEFINE n == First(req[r].todo)
           base == IF Call(req[r]).op = "append" THEN Call(req[r]).offset ELSE 0
<1>1. /\ req[r].pc = "body" /\ req[r].todo # {}
      /\ Moved(req'[r], req[r], "body", {"todo", "flying"}) /\ req'[r].todo = req[r].todo \ {n}
      /\ \/ req'[r].flying = req[r].flying
         \/ req'[r].flying = req[r].flying \cup {<<base + n, <<r, n>>>>}
  BY ReceiveStep
<1>2. /\ req[r].todo \in SUBSET (Nat \ {0}) /\ req[r].flying \in SUBSET ((Nat \ {0}) \X Byte)
      /\ n \in Nat \ {0} /\ CallOK(Call(req[r])) /\ HandlerOK(req[r])
  BY <1>1, BodyTodo
<1>3. base \in Nat
  BY <1>2 DEF CallOK
<1> HIDE DEF n, base
<1>4. base + n \in Nat \ {0} /\ <<r, n>> \in Byte
  BY <1>2, <1>3, ByteFacts
<1>5. req'[r].flying \in SUBSET ((Nat \ {0}) \X Byte) /\ req'[r].todo \in SUBSET (Nat \ {0})
  BY <1>1, <1>2, <1>4
<1> QED BY <1>1, <1>2, <1>5, BodyOK

LEMMA CopyChunkOK == ASSUME TypeInv, NEW r \in Requests, CopyChunk(r) PROVE HandlerOK(req'[r])
<1> DEFINE n == First(req[r].todo)
           data == file[req[r].src].data
<1>1. /\ req[r].pc = "body" /\ Call(req[r]).op = "copy" /\ req[r].todo # {}
      /\ \/ Moved(req'[r], req[r], "body", {"todo", "failed"}) /\ req'[r].todo = {}
         \/ /\ ~(n > Len(data)) /\ Moved(req'[r], req[r], "body", {"todo", "flying"})
            /\ req'[r].todo = req[r].todo \ {n}
            /\ req'[r].flying = req[r].flying \cup {<<n, data[n]>>}
  BY CopyChunkStep
<1>2. /\ req[r].todo \in SUBSET (Nat \ {0}) /\ req[r].flying \in SUBSET ((Nat \ {0}) \X Byte)
      /\ n \in Nat \ {0} /\ HandlerOK(req[r]) /\ req[r].src \in Inodes
  BY <1>1, BodyTodo
<1>3. data \in Seq(Byte) /\ Len(data) \in Nat
  BY <1>2, FileLen DEF IsFile
<1> HIDE DEF n, data
<1>4. CASE Moved(req'[r], req[r], "body", {"todo", "failed"}) /\ req'[r].todo = {}
  <2>1. req'[r].flying = req[r].flying
    BY <1>4 DEF Moved, Fields
  <2> QED BY <1>1, <1>2, <1>4, <2>1, BodyOK
<1>5. CASE /\ ~(n > Len(data)) /\ Moved(req'[r], req[r], "body", {"todo", "flying"})
           /\ req'[r].todo = req[r].todo \ {n} /\ req'[r].flying = req[r].flying \cup {<<n, data[n]>>}
  <2>1. n \in 1..Len(data)
    BY <1>2, <1>3, <1>5
  <2>2. data[n] \in Byte
    BY <1>3, <2>1, ElementOfSeq
  <2>3. req'[r].flying \in SUBSET ((Nat \ {0}) \X Byte) /\ req'[r].todo \in SUBSET (Nat \ {0})
    BY <1>2, <1>5, <2>2
  <2> QED BY <1>1, <1>2, <1>5, <2>3, BodyOK
<1> QED BY <1>1, <1>4, <1>5

LEMMA BodyEndOK == ASSUME TypeInv, NEW r \in Requests, BodyEnd(r) PROVE HandlerOK(req'[r])
<1>1. /\ HandlerOK(req[r]) /\ req[r].pc = "body" /\ req[r].flying = {}
      /\ Call(req[r]).op \in {"put", "append", "copy"}
      /\ \/ Ended(req'[r], req[r], "500", {})
         \/ Call(req[r]).op = "append" /\ Moved(req'[r], req[r], "stat", {})
         \/ Call(req[r]).op # "append" /\ Moved(req'[r], req[r], "trunc", {})
  BY HandlersOK, BodyEndStep
<1>2. /\ req[r].fd \in Inodes \cup {0} /\ req[r].src \in Inodes \cup {0} /\ req[r].size \in Nat
      /\ req[r].fd # 0 /\ (Call(req[r]).op = "append" => req[r].locked)
  BY <1>1 DEF HandlerOK, LatePCs
<1>3. CASE Call(req[r]).op = "append" /\ Moved(req'[r], req[r], "stat", {})
  <2>1. /\ req'[r].fd = req[r].fd /\ req'[r].src = req[r].src /\ req'[r].size = req[r].size
        /\ req'[r].locked = req[r].locked
    BY <1>3 DEF Moved, Fields
  <2>2. Call(req[r]).op \in OpsAt("stat")
    BY <1>3 DEF OpsAt
  <2> QED BY <1>1, <1>2, <1>3, <2>1, <2>2, MovedOK DEF EarlyPCs, LatePCs
<1>4. CASE Call(req[r]).op # "append" /\ Moved(req'[r], req[r], "trunc", {})
  <2>1. req'[r].fd = req[r].fd /\ req'[r].src = req[r].src /\ req'[r].size = req[r].size
    BY <1>4 DEF Moved, Fields
  <2>2. Call(req[r]).op \in OpsAt("trunc")
    BY <1>1, <1>4 DEF OpsAt
  <2> QED BY <1>1, <1>2, <1>4, <2>1, <2>2, MovedOK DEF EarlyPCs, LatePCs
<1> QED BY <1>1, <1>3, <1>4, EndedOK

\* A handler of which a write has landed.
LEMMA WriteLandsOK == ASSUME TypeInv, NEW r \in Requests, WriteLands(r) PROVE HandlerOK(req'[r])
<1> DEFINE q == req[r]
           q1 == req'[r]
<1>1. PICK w \in q.flying :
        /\ Moved(q1, q, q.pc, {"flying", "fd", "locked"}) /\ q1.flying = q.flying \ {w}
        /\ \/ q.pc = "done" /\ q.flying \ {w} = {} /\ q1.fd = 0 /\ q1.locked = FALSE
           \/ ~(q.pc = "done" /\ q.flying \ {w} = {}) /\ Moved(q1, q, q.pc, {"flying"})
  BY WriteLandsStep
<1>2. HandlerOK(q)
  BY HandlersOK
<1>3. /\ q.pc \in {"body", "done"} /\ q.fd # 0 /\ q.call \in DOMAIN Calls /\ q.fd \in Inodes \cup {0}
      /\ q.src \in Inodes \cup {0} /\ q.size \in Nat /\ q.flying \in SUBSET ((Nat \ {0}) \X Byte)
      /\ Call(q).op \in {"put", "append", "copy"}
  BY <1>2 DEF HandlerOK
<1>4. /\ Shaped(q1) /\ q1.pc = q.pc /\ q1.call = q.call /\ q1.src = q.src /\ q1.size = q.size /\ q1.todo = q.todo
      /\ q1.flying \in SUBSET ((Nat \ {0}) \X Byte)
  BY <1>1, <1>3 DEF Moved, Fields
<1>5. Call(q1) = Call(q)
  BY <1>4 DEF Call
<1>6. CASE q.pc = "done"
  <2>1. q1.fd \in Inodes \cup {0} /\ (q1.flying # {} => q1.fd # 0)
    BY <1>1, <1>3 DEF Moved, Fields
  <2> HIDE DEF q, q1
  <2> QED BY <1>3, <1>4, <1>5, <1>6, <2>1 DEF HandlerOK, EarlyPCs, LatePCs, q1
<1>7. CASE q.pc = "body"
  <2>1. Moved(q1, q, "body", {"flying"})
    BY <1>1, <1>7
  <2>2. q.todo \in SUBSET (Nat \ {0})
    BY <1>2, <1>7 DEF HandlerOK
  <2> HIDE DEF q, q1
  <2> QED BY <1>2, <1>4, <1>7, <2>1, <2>2, BodyOK DEF q1
<1> QED BY <1>3, <1>6, <1>7

LEMMA FaultsOK ==
    ASSUME TypeInv, NEW r \in Requests, BodyBroken(r) \/ WriteError(r) \/ IoError(r)
    PROVE  HandlerOK(req'[r])
<1>1. HandlerOK(req[r])
  BY HandlersOK
<1>2. ASSUME BodyBroken(r) \/ IoError(r) PROVE HandlerOK(req'[r])
  <2>1. req[r].pc # "idle" /\ Faulty(r, Finished(req[r], "500"))
    BY <1>2 DEF BodyBroken, IoError, At
  <2> QED BY <1>1, <2>1, BrokenFields, BrokenOK
<1>3. ASSUME WriteError(r) PROVE HandlerOK(req'[r])
  <2>1. PICK w \in req[r].flying : /\ req[r].pc = "body" /\ Moved(req'[r], req[r], "body", {"flying", "failed"})
                                   /\ req'[r].flying = req[r].flying \ {w}
    BY <1>3, WriteErrorStep
  <2>2. req'[r].todo = req[r].todo
    BY <2>1 DEF Moved, Fields
  <2>3. req'[r].todo \in SUBSET (Nat \ {0}) /\ req'[r].flying \in SUBSET ((Nat \ {0}) \X Byte)
    BY <2>1, <2>2, BodyTodo
  <2> QED BY <1>1, <2>1, <2>3, BodyOK
<1> QED BY <1>2, <1>3

LEMMA ArriveOK ==
    ASSUME TypeInv, NEW r \in Requests, NEW n \in DOMAIN Calls, Arrive(r, n)
    PROVE  HandlerOK(req'[r])
<1> DEFINE q == req'[r]
           c == Calls[n]
<1>1. /\ Shaped(q) /\ q.call = n /\ q.fd = 0 /\ q.src = 0 /\ q.flying = {}
      /\ \/ q.pc = "done" /\ q.size = 0
         \/ q.pc = Flow(c.op).start /\ q.size = c.len /\ q.keys = c.keys
  BY ArriveStep, ZenonT(60)
<1>2. CallOK(c) /\ c.op \in Ops /\ c.len \in Nat
  BY CallAssumption DEF CallOK
<1>3. /\ Flow(c.op).start \in {"open", "check", "existing", "source", "exists", "mkdirs", "statdir", "remove"}
      /\ c.op \in OpsAt(Flow(c.op).start)
  BY <1>2, PutAfter, AppendAfter, CopyAfter, OtherAfter DEF Ops, OpsAt
<1>4. Call(q) = c
  BY <1>1 DEF Call
<1> HIDE DEF q, c
<1>5. CASE q.pc = "done" /\ q.size = 0
  BY <1>1, <1>5 DEF HandlerOK, EarlyPCs, LatePCs, q
<1>6. CASE q.pc = Flow(c.op).start /\ q.size = c.len /\ q.keys = c.keys
  <2>1. q.pc \in {"open", "check", "existing", "source", "exists", "mkdirs", "statdir", "remove"} /\ c.op \in OpsAt(q.pc)
    BY <1>3, <1>6
  <2> QED BY <1>1, <1>2, <1>4, <1>6, <2>1 DEF HandlerOK, EarlyPCs, LatePCs, q
<1> QED BY <1>1, <1>5, <1>6

LEMMA HandlerStepOK == ASSUME TypeInv, NEW r \in Requests, Handler(r) \/ WriteLands(r) PROVE HandlerOK(req'[r])
<1>1. ASSUME Check(r) \/ Source(r) \/ SrcAttrs(r) \/ OpenSource(r) \/ Mkdirs(r) \/ Create(r) PROVE HandlerOK(req'[r])
  BY <1>1, CheckOK, SourceOK, SrcAttrsOK, OpenSourceOK, MkdirsOK, CreateOK
<1>2. ASSUME OpenExisting(r) \/ Flock(r) \/ Offset(r) \/ Receive(r) \/ CopyChunk(r) \/ BodyEnd(r) PROVE HandlerOK(req'[r])
  BY <1>2, OpenExistingOK, FlockOK, OffsetOK, ReceiveOK, CopyChunkOK, BodyEndOK
<1>3. ASSUME Trunc(r) \/ Stat(r) \/ Tags(r) \/ Meta(r) \/ Open(r) \/ Attrs(r) \/ Small(r) PROVE HandlerOK(req'[r])
  BY <1>3, TruncOK, StatOK, TagsOK, MetaOK, OpenOK, AttrsOK, SmallOK
<1>4. ASSUME Stream(r) \/ ReadChunk(r) \/ RangeEnd(r) \/ Exists(r) \/ ReadTags(r) PROVE HandlerOK(req'[r])
  BY <1>4, StreamOK, ReadChunkOK, RangeEndOK, ExistsOK, ReadTagsOK
<1>5. ASSUME Remove(r) \/ Prune(r) \/ StatDir(r) \/ WriteLands(r) PROVE HandlerOK(req'[r])
  BY <1>5, RemoveOK, PruneOK, StatDirOK, WriteLandsOK
<1> QED BY <1>1, <1>2, <1>3, <1>4, <1>5 DEF Handler

\* Every step of a handler, and of the ring for it, ends with Step.
LEMMA HandlerStep ==
    ASSUME NEW r \in Requests, Handler(r) \/ WriteLands(r)
    PROVE  \E q : Step(r, q)
<1>1. ASSUME Check(r) \/ Source(r) \/ SrcAttrs(r) \/ OpenSource(r) \/ Mkdirs(r) \/ Create(r) PROVE \E q : Step(r, q)
  BY <1>1 DEF Check, Source, SrcAttrs, OpenSource, Mkdirs, Create, Fail
<1>2. ASSUME OpenExisting(r) \/ Flock(r) \/ Offset(r) \/ Receive(r) \/ CopyChunk(r) \/ BodyEnd(r) PROVE \E q : Step(r, q)
  BY <1>2 DEF OpenExisting, Flock, Offset, Receive, CopyChunk, BodyEnd, Fail
<1>3. ASSUME Trunc(r) \/ Stat(r) \/ Tags(r) \/ Meta(r) \/ Open(r) \/ Attrs(r) \/ Small(r) PROVE \E q : Step(r, q)
  BY <1>3 DEF Trunc, Stat, Tags, Meta, Open, Attrs, Small, Fail
<1>4. ASSUME Stream(r) \/ ReadChunk(r) \/ RangeEnd(r) \/ Exists(r) \/ ReadTags(r) PROVE \E q : Step(r, q)
  BY <1>4 DEF Stream, ReadChunk, RangeEnd, Exists, ReadTags, Fail
<1>5. ASSUME Remove(r) \/ Prune(r) \/ StatDir(r) \/ WriteLands(r) PROVE \E q : Step(r, q)
  BY <1>5 DEF Remove, Prune, StatDir, WriteLands, Fail
<1> QED BY <1>1, <1>2, <1>3, <1>4, <1>5 DEF Handler

\* What the steps of handlers do to the file system.
LEMMA FsUnchanged ==
    ASSUME FsOK, KeepFs, now' \in Nat
    PROVE  FsOK'
BY DEF FsOK, KeepFs, fsVars

LEMMA FileStored ==
    ASSUME FsOK, NEW i \in Inodes, NEW f, IsFile(f), name' = name, dirs' = dirs, now' = now,
           file' = [file EXCEPT ![i] = f]
    PROVE  FsOK'
<1>1. file = [j \in Inodes |-> file[j]] /\ \A j \in Inodes : IsFile(file[j])
  BY DEF FsOK
<1>2. file' = [j \in Inodes |-> file'[j]] /\ \A j \in Inodes : IsFile(file'[j])
  BY <1>1
<1> QED BY <1>2 DEF FsOK

LEMMA AboveDirs == \A p \in Keys \cup Dirs : Above[p] \subseteq Dirs
BY DEF Above

\* The parent of an object is the root or one of the directories above it.
LEMMA AboveParent == ASSUME NEW k \in Keys PROVE Up[k] \in Above[k] \cup {Root}
<1>1. Up[k] \in Dirs \cup {Root}
  BY TreeAssumption
<1>2. ASSUME Up[k] # Root PROVE Up[k] \in Above[k]
  <2>1. \A A \in SUBSET Dirs : (\A e \in A \cup {k} : Up[e] \in A \cup {Root}) => Up[k] \in A
    BY <1>2
  <2> QED BY <1>1, <1>2, <2>1 DEF Above
<1> QED BY <1>2

\* The file that Create opens.
LEMMA CreateFile ==
    ASSUME TypeInv, NEW r \in Requests, req[r].pc = "create"
    PROVE  LET q == req[r]
               i == IF inPlace /\ Ino(r) # 0 THEN Ino(r) ELSE NewInode
               kept == IF i = Ino(r) THEN [Blank(q.size) EXCEPT !.tags = file[i].tags, !.meta = file[i].meta]
                       ELSE Blank(q.size)
           IN  /\ i \in Inodes /\ i # 0 /\ Key(r) \in Keys /\ (i = Ino(r) \/ ~InUse(i))
               /\ IsFile(kept) /\ Len(kept.data) = q.size
<1>1. HandlerOK(req[r]) /\ CallOK(Call(req[r]))
  BY HandlersOK
<1>2. req[r].fd = 0 /\ req[r].size \in Nat /\ Call(req[r]).op \in {"put", "copy"}
  BY <1>1 DEF HandlerOK, EarlyPCs, OpsAt
<1>3. Key(r) \in Keys
  BY <1>1, <1>2 DEF CallOK, Key, DirOps
<1>4. Ino(r) \in Inodes \cup {0}
  BY <1>3, ViewFacts DEF Ino
<1>5. NewInode \in Inodes /\ ~InUse(NewInode) /\ 0 \notin Inodes
  BY <1>2, NewInodeFree, InodesNat
<1>6. now \in Nat
  BY DEF TypeInv, FsOK
<1> DEFINE i == IF inPlace /\ Ino(r) # 0 THEN Ino(r) ELSE NewInode
           kept == IF i = Ino(r) THEN [Blank(req[r].size) EXCEPT !.tags = file[i].tags, !.meta = file[i].meta]
                   ELSE Blank(req[r].size)
<1>7. i \in Inodes /\ i # 0 /\ (i = Ino(r) \/ ~InUse(i))
  BY <1>4, <1>5
<1>8. IsFile(kept) /\ Len(kept.data) = req[r].size
  <2> HIDE DEF i
  <2> QED BY <1>2, <1>6, BlankFacts, ZenonT(60)
<1> QED BY <1>3, <1>7, <1>8

LEMMA CreateFs == ASSUME TypeInv, NEW r \in Requests, Create(r), now' = now PROVE FsOK'
<1> DEFINE q == req[r]
           i == IF inPlace /\ Ino(r) # 0 THEN Ino(r) ELSE NewInode
           kept == IF i = Ino(r) THEN [Blank(q.size) EXCEPT !.tags = file[i].tags, !.meta = file[i].meta]
                   ELSE Blank(q.size)
<1>1. \/ Fs([name EXCEPT ![Key(r)] = i], dirs, [file EXCEPT ![i] = kept])
      \/ KeepFs
  BY CreateStep
<1>2. i \in Inodes /\ Key(r) \in Keys /\ (i = Ino(r) \/ ~InUse(i)) /\ IsFile(kept)
  BY CreateStep, CreateFile
<1> HIDE DEF i, kept
<1>3. FsOK
  BY DEF TypeInv
<1>4. CASE KeepFs
  BY <1>3, <1>4, FsUnchanged DEF FsOK
<1>5. CASE Fs([name EXCEPT ![Key(r)] = i], dirs, [file EXCEPT ![i] = kept])
  <2>1. /\ name \in [Keys -> Inodes \cup {0}] /\ file = [j \in Inodes |-> file[j]] /\ \A j \in Inodes : IsFile(file[j])
        /\ \A k, l \in Keys : name[k] # 0 /\ name[k] = name[l] => k = l
        /\ dirs \subseteq Dirs /\ now \in Nat
    BY <1>3 DEF FsOK
  <2>2. name' \in [Keys -> Inodes \cup {0}] /\ name'[Key(r)] = i /\ \A k \in Keys : k # Key(r) => name'[k] = name[k]
    BY <1>2, <1>5, <2>1 DEF Fs
  <2>3. file' = [j \in Inodes |-> file'[j]] /\ \A j \in Inodes : IsFile(file'[j])
    BY <1>2, <1>5, <2>1 DEF Fs
  <2>4. \A k \in Keys : k # Key(r) /\ name[k] # 0 => name[k] # i
    BY <1>2, <2>1 DEF InUse, Ino
  <2>5. ASSUME NEW k \in Keys, NEW l \in Keys, name'[k] # 0, name'[k] = name'[l] PROVE k = l
    BY <2>1, <2>2, <2>4, <2>5
  <2>6. dirs' = dirs
    BY <1>5 DEF Fs
  <2> QED BY <2>1, <2>2, <2>3, <2>5, <2>6 DEF FsOK
<1> QED BY <1>1, <1>4, <1>5

LEMMA AttrStored ==
    ASSUME TypeInv, NEW k \in Keys, name[k] # 0, NEW x,
           \/ Fs(name, dirs, [file EXCEPT ![name[k]].tags = x])
           \/ Fs(name, dirs, [file EXCEPT ![name[k]].meta = x]),
           now' = now
    PROVE  FsOK'
<1> DEFINE i == name[k]
           f == [file[i] EXCEPT !.tags = x]
           g == [file[i] EXCEPT !.meta = x]
<1>1. i \in Inodes /\ IsFile(file[i])
  BY ViewFacts
<1>2. IsFile(f) /\ IsFile(g)
  <2> HIDE DEF i
  <2> QED BY <1>1 DEF IsFile, FileFields
<1>3. (file' = [file EXCEPT ![i] = f] \/ file' = [file EXCEPT ![i] = g]) /\ name' = name /\ dirs' = dirs
  BY DEF Fs
<1> HIDE DEF f, g, i
<1> QED BY <1>1, <1>2, <1>3, FileStored DEF TypeInv

LEMMA HandlerFs ==
    ASSUME TypeInv, NEW r \in Requests, Handler(r) \/ WriteLands(r)
    PROVE  FsOK'
<1>1. FsOK /\ now' = now /\ now \in Nat
  BY HandlerStep DEF TypeInv, FsOK, Step
<1>2. CASE KeepFs
  BY <1>1, <1>2, FsUnchanged
<1>3. CASE Create(r)
  BY <1>1, <1>3, CreateFs
<1>4. CASE Mkdirs(r)
  <2>1. Fs(name, dirs \cup Above[Key(r)] \cup ({Key(r)} \cap Dirs), file) /\ Call(req[r]).op \in {"put", "copy", "mkdir"}
        /\ req[r].pc = "mkdirs"
    BY <1>4, MkdirsStep
  <2>2. Key(r) \in Keys \cup Dirs
    BY <2>1, HandlersOK DEF CallOK, Key, DirOps
  <2>3. dirs' \subseteq Dirs
    BY <1>1, <2>1, <2>2, AboveDirs DEF Fs, FsOK
  <2> QED BY <1>1, <2>1, <2>3 DEF Fs, FsOK
<1>5. CASE WriteLands(r)
  <2>1. PICK w \in req[r].flying : Fs(name, dirs, [file EXCEPT ![req[r].fd] = Pwrite(@, w[1], w[2])])
    BY <1>5, WriteLandsStep
  <2>2. req[r].fd \in Inodes /\ w[1] \in Nat \ {0} /\ w[2] \in Byte
    BY HandlersOK DEF HandlerOK
  <2>3. IsFile(Pwrite(file[req[r].fd], w[1], w[2]))
    BY <1>1, <2>2, FileLen, PwriteFacts
  <2> QED BY <1>1, <2>1, <2>2, <2>3, FileStored DEF Fs
<1>6. CASE Trunc(r)
  <2>1. req[r].pc = "trunc" /\ Fs(name, dirs, [file EXCEPT ![req[r].fd] = Ftruncate(@, req[r].size)])
    BY <1>6, TruncStep
  <2>2. req[r].fd \in Inodes /\ req[r].size \in Nat
    BY <2>1, HandlersOK DEF HandlerOK, LatePCs
  <2>3. IsFile(Ftruncate(file[req[r].fd], req[r].size))
    BY <1>1, <2>2, FileLen, FtruncateFacts
  <2> QED BY <1>1, <2>1, <2>2, <2>3, FileStored DEF Fs
<1>7. CASE Tags(r)
  <2>1. /\ req[r].pc = "tags" /\ Call(req[r]).op \in {"put", "copy", "puttags"}
        /\ KeepFs \/ (Ino(r) # 0 /\ Fs(name, dirs, [file EXCEPT ![Ino(r)].tags = req[r].tags]))
    BY <1>7, TagsStep
  <2>2. Key(r) \in Keys
    BY <2>1, HandlersOK DEF CallOK, Key, DirOps
  <2> QED BY <1>1, <1>2, <2>1, <2>2, AttrStored DEF Ino
<1>8. CASE Meta(r)
  <2>1. /\ req[r].pc = "meta" /\ Call(req[r]).op \in {"put", "copy"}
        /\ KeepFs \/ (Ino(r) # 0 /\ Fs(name, dirs, [file EXCEPT ![Ino(r)].meta = req[r].meta]))
    BY <1>8, MetaStep
  <2>2. Key(r) \in Keys
    BY <2>1, HandlersOK DEF CallOK, Key, DirOps
  <2> QED BY <1>1, <1>2, <2>1, <2>2, AttrStored DEF Ino
<1>9. CASE Remove(r)
  <2>1. \/ KeepFs
        \/ \E k : Fs([n \in Keys |-> IF n = k THEN 0 ELSE name[n]], dirs \ {k}, file)
    BY <1>9, RemoveStep
  <2>2. ASSUME NEW k, Fs([n \in Keys |-> IF n = k THEN 0 ELSE name[n]], dirs \ {k}, file) PROVE FsOK'
    BY <1>1, <2>2 DEF Fs, FsOK
  <2> QED BY <1>2, <2>1, <2>2
<1>10. CASE Prune(r)
  <2>1. KeepFs \/ Fs(name, dirs \ {req[r].dir}, file)
    BY <1>10, PruneStep
  <2>2. ASSUME Fs(name, dirs \ {req[r].dir}, file) PROVE FsOK'
    BY <1>1, <2>2 DEF Fs, FsOK
  <2> QED BY <1>2, <2>1, <2>2
<1>11. CASE Check(r) \/ Source(r) \/ SrcAttrs(r) \/ OpenSource(r) \/ OpenExisting(r) \/ Flock(r) \/ Offset(r)
  BY <1>2, <1>11, CheckStep, SourceStep, SrcAttrsStep, OpenSourceStep, OpenExistingStep, FlockStep, OffsetStep
<1>12. CASE Receive(r) \/ CopyChunk(r) \/ BodyEnd(r) \/ Stat(r) \/ Open(r) \/ Attrs(r) \/ Small(r)
  BY <1>2, <1>12, ReceiveStep, CopyChunkStep, BodyEndStep, StatStep, OpenStep, AttrsStep, SmallStep
<1>13. CASE Stream(r) \/ ReadChunk(r) \/ RangeEnd(r) \/ Exists(r) \/ ReadTags(r) \/ StatDir(r)
  BY <1>2, <1>13, StreamStep, ReadChunkStep, RangeEndStep, ExistsStep, ReadTagsStep, StatDirStep
<1> QED BY <1>3, <1>4, <1>5, <1>6, <1>7, <1>8, <1>9, <1>10, <1>11, <1>12, <1>13 DEF Handler

LEMMA ObserveTypes ==
    ASSUME GhostsOK, NEW r \in Requests, Observe(r), was' = was
    PROVE  GhostsOK'
<1>1. clean' \in [Requests -> BOOLEAN]
  <2>1. \A x \in Requests : (clean[x] /\ (x = r \/ Same(x))) \in BOOLEAN
    OBVIOUS
  <2> QED BY <2>1, Zenon DEF Observe
<1>2. shared' \in [Requests -> BOOLEAN]
  <2>1. \A x \in Requests : (shared[x] /\ (x = r \/ Same(x) \/ Call(req[r]).op = "append")) \in BOOLEAN
    OBVIOUS
  <2> QED BY <2>1, Zenon DEF Observe
<1>3. changed' \in [Requests -> BOOLEAN]
  <2>1. (changed[r] \/ fsVars' # fsVars) \in BOOLEAN
    OBVIOUS
  <2>2. changed' = [changed EXCEPT ![r] = (changed[r] \/ fsVars' # fsVars)] /\ changed \in [Requests -> BOOLEAN]
    BY DEF Observe, GhostsOK
  <2> QED BY <2>1, <2>2
<1>4. was' = [x \in Requests |-> was'[x]]
  BY DEF GhostsOK
<1> QED BY <1>1, <1>2, <1>3, <1>4 DEF GhostsOK

\* The objects of earlier requests can be numbered.
LEMMA Numbering ==
    \E num \in [Keys -> 0..Cardinality(Keys)] :
        \A k, l \in Keys : /\ (num[k] = 0) = (InitFiles[k] = 0)
                           /\ k # l /\ num[k] # 0 => num[k] # num[l]
<1> DEFINE n == Cardinality(Keys)
<1>1. n \in Nat /\ ExistsBijection(1..n, Keys)
  BY TreeAssumption, FS_CardinalityType
<1> HIDE DEF n
<1>2. PICK b \in Surjection(1..n, Keys) : TRUE
  BY <1>1 DEF ExistsBijection, Bijection
<1>3. \A k \in Keys : \E i \in 1..n : b[i] = k
  BY <1>2 DEF Surjection
<1> DEFINE idx == [k \in Keys |-> CHOOSE i \in 1..n : b[i] = k]
<1>4. \A k \in Keys : idx[k] \in 1..n /\ b[idx[k]] = k
  BY <1>3
<1> HIDE DEF idx
<1> DEFINE num == [k \in Keys |-> IF InitFiles[k] = 0 THEN 0 ELSE idx[k]]
<1>5. num \in [Keys -> 0..n]
  BY <1>1, <1>4
<1>6. \A k, l \in Keys : /\ (num[k] = 0) = (InitFiles[k] = 0)
                         /\ k # l /\ num[k] # 0 => num[k] # num[l]
  BY <1>1, <1>4
<1> HIDE DEF num
<1> QED BY <1>5, <1>6 DEF n

LEMMA OldFileOK == ASSUME NEW n \in Nat PROVE IsFile(OldFile(n))
<1> DEFINE d == [m \in 1..n |-> <<"old", m>>]
<1>1. d \in [1..n -> Byte]
  BY ByteFacts
<1> HIDE DEF d
<1>2. d \in Seq(Byte)
  BY <1>1, FunctionLen
<1>3. OldFile(n) = [data |-> d, mtime |-> 0, tags |-> "old", meta |-> "old"]
  BY DEF OldFile, d
<1> QED BY <1>2, <1>3 DEF IsFile, FileFields

LEMMA NoFileOK == IsFile(NoFile)
BY EmptySeq DEF IsFile, FileFields, NoFile

LEMMA TypeInit == Init => TypeInv
<1> SUFFICES ASSUME Init PROVE TypeInv
  OBVIOUS
<1>1. /\ name \in [Keys -> 0..Cardinality(Keys)]
      /\ \A k, l \in Keys : k # l /\ name[k] # 0 => name[k] # name[l]
  BY Numbering DEF Init
<1>2. Cardinality(Keys) \in Nat /\ Cardinality(Requests) \in Nat
  BY TreeAssumption, FS_CardinalityType
<1>3. name \in [Keys -> Inodes \cup {0}]
  BY <1>1, <1>2 DEF Inodes
<1>4. ASSUME NEW i \in Inodes PROVE IsFile(file[i])
  <2>1. CASE \E k \in Keys : name[k] = i
    <3> DEFINE k == CHOOSE l \in Keys : name[l] = i
    <3>1. k \in Keys
      BY <2>1
    <3>2. file[i] = OldFile(InitFiles[k])
      BY <2>1 DEF Init
    <3> HIDE DEF k
    <3>3. InitFiles[k] \in Nat
      BY <3>1, TreeAssumption
    <3> QED BY <3>2, <3>3, OldFileOK
  <2>2. CASE ~\E k \in Keys : name[k] = i
    <3>1. file[i] = NoFile
      BY <2>2 DEF Init
    <3> QED BY <3>1, NoFileOK
  <2> QED BY <2>1, <2>2
<1>5. file = [i \in Inodes |-> file[i]] /\ dirs \subseteq Dirs /\ now \in Nat
  BY TreeAssumption DEF Init
<1>6. FsOK
  BY <1>1, <1>3, <1>4, <1>5 DEF FsOK
<1>7. GhostsOK
  BY DEF Init, GhostsOK
<1>8. HandlerOK(Idle)
  <2>1. /\ Shaped(Idle) /\ Idle.pc = "idle" /\ Idle.fd = 0 /\ Idle.src = 0 /\ Idle.size = 0 /\ Idle.flying = {}
    BY DEF Idle, Shaped, Fields
  <2> HIDE DEF Idle
  <2> QED BY <2>1 DEF HandlerOK, EarlyPCs, LatePCs
<1>9. req = [r \in Requests |-> req[r]] /\ \A r \in Requests : req[r] = Idle
  BY DEF Init
<1> QED BY <1>6, <1>7, <1>8, <1>9 DEF TypeInv

LEMMA TypeNext == TypeInv /\ [Next]_vars => TypeInv'
<1> SUFFICES ASSUME TypeInv, [Next]_vars PROVE TypeInv'
  OBVIOUS
<1>0. /\ FsOK /\ GhostsOK /\ req = [r \in Requests |-> req[r]] /\ \A r \in Requests : HandlerOK(req[r])
      /\ now \in Nat
  BY DEF TypeInv, FsOK
<1>1. ASSUME NEW r \in Requests, Handler(r) \/ WriteLands(r) PROVE TypeInv'
  <2>1. PICK q : Step(r, q)
    BY <1>1, HandlerStep
  <2>2. /\ \A x \in Requests \ {r} : req'[x] = req[x]
        /\ req' = [x \in Requests |-> req'[x]] /\ Observe(r) /\ was' = was
    BY <2>1, OwnStep
  <2>3. GhostsOK'
    BY <1>0, <2>2, ObserveTypes
  <2>4. HandlerOK(req'[r])
    BY <1>1, HandlerStepOK
  <2>5. \A x \in Requests : HandlerOK(req'[x])
    BY <1>0, <2>2, <2>4
  <2>6. FsOK'
    BY <1>1, HandlerFs
  <2> QED BY <2>2, <2>3, <2>5, <2>6 DEF TypeInv, HandlerOK, Call
<1>2. ASSUME NEW r \in Requests, BodyBroken(r) \/ WriteError(r) \/ IoError(r) PROVE TypeInv'
  <2>1. PICK q : Faulty(r, q)
    BY <1>2 DEF BodyBroken, WriteError, IoError
  <2>2. /\ KeepFs /\ UNCHANGED <<inPlace, now, was, ghosts>>
        /\ \A x \in Requests \ {r} : req'[x] = req[x]
        /\ req' = [x \in Requests |-> req'[x]]
    BY <2>1, FaultyStep
  <2>3. GhostsOK' /\ FsOK'
    BY <1>0, <2>2, FsUnchanged DEF GhostsOK, ghosts
  <2>4. HandlerOK(req'[r])
    BY <1>2, FaultsOK
  <2>5. \A x \in Requests : HandlerOK(req'[x])
    BY <1>0, <2>2, <2>4
  <2> QED BY <2>2, <2>3, <2>5 DEF TypeInv, HandlerOK, Call
<1>3. ASSUME NEW r \in Requests, NEW n \in DOMAIN Calls, Arrive(r, n) PROVE TypeInv'
  <2>1. /\ KeepFs /\ UNCHANGED <<now, ghosts>>
        /\ \A x \in Requests \ {r} : req'[x] = req[x]
        /\ req' = [x \in Requests |-> req'[x]] /\ was' = [x \in Requests |-> was'[x]]
    BY <1>3, ArriveStep
  <2>2. GhostsOK' /\ FsOK'
    BY <1>0, <2>1, FsUnchanged DEF GhostsOK, ghosts
  <2>3. HandlerOK(req'[r])
    BY <1>3, ArriveOK
  <2>4. \A x \in Requests : HandlerOK(req'[x])
    BY <1>0, <2>1, <2>3
  <2> QED BY <2>1, <2>2, <2>4 DEF TypeInv, HandlerOK, Call
<1>4. CASE Tick
  <2>1. KeepFs /\ req' = req /\ UNCHANGED ghosts /\ was' = was /\ now' \in Nat
    BY <1>0, <1>4 DEF Tick, KeepFs
  <2>2. GhostsOK' /\ FsOK'
    BY <1>0, <2>1, FsUnchanged DEF GhostsOK, ghosts
  <2> QED BY <1>0, <2>1, <2>2 DEF TypeInv, HandlerOK, Call
<1>5. CASE UNCHANGED vars
  <2>1. KeepFs /\ req' = req /\ UNCHANGED ghosts /\ was' = was /\ now' \in Nat
    BY <1>0, <1>5 DEF vars, KeepFs, fsVars, ghosts
  <2>2. GhostsOK' /\ FsOK'
    BY <1>0, <2>1, FsUnchanged DEF GhostsOK, ghosts
  <2> QED BY <1>0, <2>1, <2>2 DEF TypeInv, HandlerOK, Call
<1> QED BY <1>1, <1>2, <1>3, <1>4, <1>5 DEF Next, Over

\* The handlers and the file system keep their types: a handler is only ever
\* at a step of its own operation, it has a descriptor wherever it reads or
\* writes, the ring writes only to a descriptor that is still open, an append
\* writes only under the lock, and no two keys share an inode.
THEOREM TypesKept == Spec => []TypeInv
BY TypeInit, TypeNext, PTL DEF Spec

-----------------------------------------------------------------------------
(* A refused request leaves no trace. *)

Refusals == {"304", "400", "403", "404", "409", "412", "416"}
\* The steps at which a handler may have changed something.
Touched == {"create", "opensrc", "body", "trunc", "stat", "tags", "meta", "statdir", "remove", "prune", "done"}

\* A handler that has changed something is past its last check, and writes
\* are left behind only by one that answers with an error of its own.
NoTrace(q, c) ==
    /\ c => /\ q.pc \in Touched
            /\ q.pc = "statdir" => Call(q).op # "getdir"
            /\ q.pc = "remove" => Call(q).op # "rmdir"
            /\ q.pc = "done" => q.answer \notin Refusals
    /\ q.pc = "done" /\ q.flying # {} => q.answer = "500"
TraceInv == \A r \in Requests : NoTrace(req[r], changed[r])

LEMMA ChangedStep ==
    ASSUME TypeInv, NEW r \in Requests, NEW q, Step(r, q)
    PROVE  /\ KeepFs => changed'[r] = changed[r]
           /\ \A x \in Requests \ {r} : changed'[x] = changed[x]
BY DEF TypeInv, GhostsOK, Step, Observe, KeepFs

LEMMA EndedTrace ==
    ASSUME NEW q, q.flying = {}, NEW q1, NEW a, NEW F, Ended(q1, q, a, F), NEW c, c => a \notin Refusals
    PROVE  NoTrace(q1, c)
BY DEF Ended, NoTrace, Touched

LEMMA MovedTrace ==
    ASSUME NEW q, NEW q1, NEW p, NEW F, Moved(q1, q, p, F), "call" \notin F, p # "done", NEW c,
           c => /\ p \in Touched /\ (p = "statdir" => Call(q).op # "getdir")
                /\ (p = "remove" => Call(q).op # "rmdir")
    PROVE  NoTrace(q1, c)
<1>1. q1.pc = p /\ q1.call = q.call
  BY DEF Moved, Fields
<1>2. Call(q1) = Call(q)
  BY <1>1 DEF Call
<1> QED BY <1>1, <1>2 DEF NoTrace

\* Steps that change nothing.
LEMMA QuietTrace ==
    ASSUME TypeInv, NEW r \in Requests, NoTrace(req[r], changed[r]),
           \/ Check(r) \/ Source(r) \/ SrcAttrs(r) \/ OpenSource(r) \/ OpenExisting(r) \/ Flock(r) \/ Offset(r)
           \/ Receive(r) \/ CopyChunk(r) \/ BodyEnd(r) \/ Stat(r) \/ Open(r) \/ Attrs(r) \/ Small(r)
           \/ Stream(r) \/ ReadChunk(r) \/ RangeEnd(r) \/ Exists(r) \/ ReadTags(r) \/ StatDir(r)
    PROVE  NoTrace(req'[r], changed'[r])
<1> DEFINE q == req[r]
           q1 == req'[r]
<1>1. HandlerOK(q)
  BY HandlersOK
<1>2. q.pc \notin {"body", "done"} => q.flying = {}
  BY <1>1 DEF HandlerOK
<1>3. KeepFs => changed'[r] = changed[r]
  <2>1. Handler(r)
    BY DEF Handler
  <2> QED BY <2>1, HandlerStep, ChangedStep
<1>4. ASSUME NEW a, NEW F, Ended(q1, q, a, F), q.flying = {}, KeepFs, changed[r] => a \notin Refusals
      PROVE  NoTrace(q1, changed'[r])
  BY <1>3, <1>4, EndedTrace
<1>5. ASSUME NEW p, NEW F, Moved(q1, q, p, F), "call" \notin F, p # "done", KeepFs,
             changed[r] => p \in Touched \ {"statdir", "remove"}
      PROVE  NoTrace(q1, changed'[r])
  BY <1>3, <1>5, MovedTrace
<1>6. /\ changed[r] => q.pc \in Touched
      /\ changed[r] => (q.pc = "statdir" => Call(q).op # "getdir")
  BY DEF NoTrace
<1>7. "ok" \notin Refusals /\ "500" \notin Refusals
  BY DEF Refusals
<1> HIDE DEF q, q1
<1>8. CASE Check(r)
  BY <1>2, <1>4, <1>5, <1>6, <1>8, CheckStep DEF Touched, q, q1
<1>9. CASE Source(r)
  BY <1>2, <1>4, <1>5, <1>6, <1>9, SourceStep DEF Touched, q, q1
<1>10. CASE SrcAttrs(r)
  BY <1>2, <1>4, <1>5, <1>6, <1>10, SrcAttrsStep DEF Touched, q, q1
<1>11. CASE OpenSource(r)
  BY <1>2, <1>4, <1>5, <1>7, <1>11, OpenSourceStep DEF Touched, q, q1
<1>12. CASE OpenExisting(r)
  BY <1>2, <1>4, <1>5, <1>6, <1>12, OpenExistingStep DEF Touched, q, q1
<1>13. CASE Flock(r)
  BY <1>2, <1>5, <1>6, <1>13, FlockStep DEF Touched, q, q1
<1>14. CASE Offset(r)
  BY <1>2, <1>4, <1>5, <1>6, <1>14, OffsetStep DEF Touched, q, q1
<1>15. CASE Receive(r)
  BY <1>5, <1>15, ReceiveStep DEF Touched, q, q1
<1>16. CASE CopyChunk(r)
  BY <1>5, <1>16, CopyChunkStep DEF Touched, q, q1
<1>17. CASE BodyEnd(r)
  BY <1>4, <1>5, <1>7, <1>17, BodyEndStep DEF Touched, q, q1
<1>18. CASE Stat(r)
  BY <1>2, <1>4, <1>5, <1>7, <1>18, StatStep DEF Touched, q, q1
<1>19. CASE Open(r)
  BY <1>2, <1>4, <1>5, <1>6, <1>19, OpenStep DEF Touched, q, q1
<1>20. CASE Attrs(r)
  BY <1>2, <1>4, <1>5, <1>6, <1>20, AttrsStep DEF Touched, q, q1
<1>21. CASE Small(r)
  BY <1>2, <1>4, <1>7, <1>21, SmallStep DEF q, q1
<1>22. CASE Stream(r)
  BY <1>2, <1>4, <1>5, <1>6, <1>7, <1>22, StreamStep DEF Touched, q, q1
<1>23. CASE ReadChunk(r)
  BY <1>5, <1>6, <1>23, ReadChunkStep DEF Touched, q, q1
<1>24. CASE RangeEnd(r)
  BY <1>2, <1>4, <1>5, <1>6, <1>7, <1>24, RangeEndStep DEF Touched, q, q1
<1>25. CASE Exists(r)
  BY <1>2, <1>4, <1>5, <1>6, <1>25, ExistsStep DEF Touched, q, q1
<1>26. CASE ReadTags(r)
  BY <1>2, <1>4, <1>7, <1>26, ReadTagsStep DEF q, q1
<1>27. CASE StatDir(r)
  BY <1>2, <1>4, <1>6, <1>7, <1>27, StatDirStep DEF q, q1
<1> QED BY <1>8, <1>9, <1>10, <1>11, <1>12, <1>13, <1>14, <1>15, <1>16, <1>17, <1>18, <1>19, <1>20, <1>21, <1>22,
           <1>23, <1>24, <1>25, <1>26, <1>27 DEF q1

\* Steps that change the file system.
LEMMA LoudTrace ==
    ASSUME TypeInv, NEW r \in Requests, NoTrace(req[r], changed[r]),
           \/ Mkdirs(r) \/ Create(r) \/ WriteLands(r) \/ Trunc(r) \/ Tags(r) \/ Meta(r) \/ Remove(r) \/ Prune(r)
    PROVE  NoTrace(req'[r], changed'[r])
<1> DEFINE q == req[r]
           q1 == req'[r]
<1>1. HandlerOK(q)
  BY HandlersOK
<1>2. q.pc \notin {"body", "done"} => q.flying = {}
  BY <1>1 DEF HandlerOK
<1>3. ASSUME NEW a \in {"ok", "500"}, NEW F, Ended(q1, q, a, F), q.flying = {} PROVE NoTrace(q1, changed'[r])
  BY <1>3, EndedTrace DEF Refusals
<1>4. ASSUME NEW p \in Touched, NEW F, Moved(q1, q, p, F), "call" \notin F, p # "done",
             p = "statdir" => Call(q).op # "getdir", p = "remove" => Call(q).op # "rmdir"
      PROVE  NoTrace(q1, changed'[r])
  BY <1>4, MovedTrace
<1> HIDE DEF q, q1
<1>5. CASE Mkdirs(r)
  BY <1>4, <1>5, MkdirsStep DEF Touched, q, q1
<1>6. CASE Create(r)
  BY <1>2, <1>3, <1>4, <1>6, CreateStep DEF Touched, q, q1
<1>7. CASE Trunc(r)
  BY <1>4, <1>7, TruncStep DEF Touched, q, q1
<1>8. CASE Tags(r)
  BY <1>2, <1>3, <1>4, <1>8, TagsStep DEF Touched, q, q1
<1>9. CASE Meta(r)
  BY <1>2, <1>3, <1>4, <1>9, MetaStep DEF Touched, q, q1
<1>10. q.pc # "idle" => CallOK(Call(q))
  BY HandlersOK DEF q
<1>11. ASSUME q.pc \in {"remove", "prune"}, Call(q).op = "rmdir" PROVE Len(q.keys) = 1
  <2>1. q.keys = <<Call(q).key>>
    BY <1>1, <1>10, <1>11 DEF HandlerOK, CallOK
  <2> QED BY <2>1
<1>12. CASE Remove(r)
  <2>1. KeepFs => changed'[r] = changed[r]
    BY <1>12, HandlerStep, ChangedStep DEF Handler
  <2>2. CASE Call(q).op = "rmdir" /\ KeepFs /\ Ended(q1, q, "409", {})
    <3>1. ~changed[r]
      BY <2>2, <1>12, RemoveStep DEF NoTrace, q
    <3>2. q.flying = {} /\ ~changed'[r]
      BY <1>2, <1>12, <2>1, <2>2, <3>1, RemoveStep DEF q
    <3>3. NoTrace(q1, changed'[r])
      BY <2>2, <3>2, EndedTrace
    <3> QED BY <3>3 DEF q1
  <2> QED BY <1>2, <1>3, <1>4, <1>11, <1>12, <2>2, RemoveStep DEF Touched, q, q1
<1>13. CASE Prune(r)
  BY <1>2, <1>3, <1>4, <1>11, <1>13, PruneStep DEF Touched, q, q1
<1>14. CASE WriteLands(r)
  <2>1. PICK w \in q.flying : Moved(q1, q, q.pc, {"flying", "fd", "locked"}) /\ q1.flying = q.flying \ {w}
    BY <1>14, WriteLandsStep DEF q, q1
  <2>2. q.pc \in {"body", "done"} /\ (q.pc = "done" => q.answer = "500")
    BY <1>1, <2>1 DEF HandlerOK, NoTrace, q
  <2>3. q1.pc = q.pc /\ q1.answer = q.answer
    BY <2>1 DEF Moved, Fields
  <2> QED BY <2>2, <2>3 DEF NoTrace, Touched, Refusals, q1
<1> QED BY <1>5, <1>6, <1>7, <1>8, <1>9, <1>12, <1>13, <1>14 DEF q1

LEMMA TraceNext == TypeInv /\ TraceInv /\ [Next]_vars => TraceInv'
<1> SUFFICES ASSUME TypeInv, TraceInv, [Next]_vars PROVE TraceInv'
  OBVIOUS
<1>1. ASSUME NEW r \in Requests, Handler(r) \/ WriteLands(r) PROVE TraceInv'
  <2>1. PICK q : Step(r, q)
    BY <1>1, HandlerStep
  <2>2. \A x \in Requests \ {r} : req'[x] = req[x] /\ changed'[x] = changed[x]
    BY <2>1, OwnStep, ChangedStep
  <2>3. NoTrace(req'[r], changed'[r])
    BY <1>1, QuietTrace, LoudTrace DEF Handler, TraceInv
  <2> QED BY <2>2, <2>3 DEF TraceInv, NoTrace, Call
<1>2. ASSUME NEW r \in Requests, BodyBroken(r) \/ WriteError(r) \/ IoError(r) PROVE TraceInv'
  <2>1. PICK q : Faulty(r, q)
    BY <1>2 DEF BodyBroken, WriteError, IoError
  <2>2. changed' = changed /\ \A x \in Requests \ {r} : req'[x] = req[x]
    BY <2>1, FaultyStep DEF ghosts
  <2>3. NoTrace(req'[r], changed[r])
    <3>1. CASE WriteError(r)
      <4>1. req'[r].pc = "body"
        BY <3>1, WriteErrorStep DEF Moved
      <4> QED BY <4>1 DEF NoTrace, Touched
    <3>2. CASE BodyBroken(r) \/ IoError(r)
      <4>1. Broken(req'[r], req[r])
        BY <3>2, BrokenFields DEF BodyBroken, IoError
      <4> QED BY <4>1 DEF Broken, NoTrace, Touched, Refusals
    <3> QED BY <1>2, <3>1, <3>2
  <2> QED BY <2>2, <2>3 DEF TraceInv, NoTrace, Call
<1>3. ASSUME NEW r \in Requests, NEW n \in DOMAIN Calls, Arrive(r, n) PROVE TraceInv'
  <2>1. /\ changed' = changed /\ (\A x \in Requests \ {r} : req'[x] = req[x]) /\ req'[r].flying = {} /\ req[r].pc = "idle"
    BY <1>3, ArriveStep DEF ghosts
  <2>2. ~changed[r]
    BY <2>1 DEF TraceInv, NoTrace, Touched
  <2> QED BY <2>1, <2>2 DEF TraceInv, NoTrace, Call
<1>4. CASE Tick \/ UNCHANGED vars
  BY <1>4 DEF Tick, vars, ghosts, TraceInv, NoTrace, Call
<1> QED BY <1>1, <1>2, <1>3, <1>4 DEF Next, Over

\* A request that is refused has changed nothing: the directories and the
\* files are only touched once no check can refuse it any more, and no write
\* lands after a refusal.
THEOREM NoTraceOfRefused == Spec => []RefusedLeavesNoTrace
<1>1. Init => TraceInv
  BY DEF Init, TraceInv, NoTrace, Idle
<1>2. TraceInv => RefusedLeavesNoTrace
  BY DEF TraceInv, NoTrace, RefusedLeavesNoTrace, Refusals, Done
<1> QED BY <1>1, <1>2, TypesKept, TraceNext, PTL DEF Spec

-----------------------------------------------------------------------------
(* What a request finds and leaves when nobody disturbs it. *)

\* The request is under way or answered, and nothing has disturbed it.
Quiet(r) == req[r].pc # "idle" /\ clean[r] /\ ~req[r].failed /\ Call(req[r]).refuse = "none"

\* The body is being written over a file of the final length: every chunk is
\* still to come, under way, or in its place.
Filling(q, v, data) ==
    /\ Len(v.f.data) = Len(data) /\ q.todo \subseteq 1..Len(data)
    /\ \A w \in q.flying : w[1] \in 1..Len(data) /\ w[2] = data[w[1]]
    /\ \A n \in 1..Len(data) : n \in q.todo \/ <<n, data[n]>> \in q.flying \/ v.f.data[n] = data[n]
HasBecome(v, data, tags, meta) == v.f = [data |-> data, tags |-> tags, meta |-> meta, mtime |-> v.f.mtime]
Sent(r, q) == [n \in 1..Call(q).len |-> <<r, n>>]

\* PUT, by its step: w is the object when the request arrived, v the object
\* now, d the directories above it that exist.
PutOK(r, q, w, v, d) ==
    LET c == Call(q) IN
    /\ q.pc # "done" => q.tags = c.tags /\ q.meta = c.meta
    /\ q.pc \in {"check", "mkdirs", "create"} => v = w /\ q.size = c.len
    /\ q.pc \notin {"check", "done"} => ~WriteFails412(c.cond, w)
    /\ q.pc = "create" => Above[c.key] \subseteq d
    /\ q.pc \in {"body", "trunc"} => q.fd = v.ino /\ q.size = c.len
    /\ q.pc = "body" => Filling(q, v, Sent(r, q))
    /\ q.pc \in {"trunc", "stat", "tags", "meta"} => v.ino # 0 /\ v.f.data = Sent(r, q)
    /\ q.pc \in {"tags", "meta"} => q.seen = ETag(v)
    /\ q.pc = "meta" => v.f.tags = c.tags
    /\ q.pc = "done" => /\ q.flying = {}
                        /\ IF WriteFails412(c.cond, w) THEN q.answer = "412" /\ v = w
                           ELSE q.answer = "ok" /\ q.seen = ETag(v) /\ HasBecome(v, Sent(r, q), c.tags, c.meta)

\* Append.
AppendOK(r, q, w, v) ==
    LET c == Call(q)
        old == w.f.data
    IN
    /\ q.pc \in {"existing", "flock", "offset"} => v = w
    /\ q.pc \notin {"existing", "done"} => w.ino # 0 /\ v.ino = w.ino /\ q.fd = w.ino
    /\ q.pc \in {"body", "stat"} =>
         /\ c.offset = Len(old) /\ ~WriteFails412(c.cond, w) /\ c.len # 0
         /\ v.f.tags = w.f.tags /\ v.f.meta = w.f.meta
         /\ Len(old) <= Len(v.f.data) /\ Len(v.f.data) <= Len(old) + c.len
         /\ \A m \in 1..Len(old) : v.f.data[m] = old[m]
    /\ q.pc = "body" =>
         /\ q.todo \subseteq 1..c.len
         /\ \A x \in q.flying : \E n \in 1..c.len : x = <<c.offset + n, <<r, n>>>>
         /\ \A n \in 1..c.len : \/ n \in q.todo \/ <<c.offset + n, <<r, n>>>> \in q.flying
                                \/ c.offset + n <= Len(v.f.data) /\ v.f.data[c.offset + n] = <<r, n>>
    /\ q.pc = "stat" => v.f.data = old \o Sent(r, q)
    /\ q.pc = "done" =>
         /\ q.flying = {}
         /\ IF w.ino = 0 THEN q.answer = "404" /\ v = w
            ELSE IF c.offset # Len(old) THEN q.answer = "400" /\ v = w
            ELSE IF WriteFails412(c.cond, w) THEN q.answer = "412" /\ v = w
            ELSE IF c.len = 0 THEN q.answer = "400" /\ v = w
            ELSE q.answer = "ok" /\ q.seen = ETag(v) /\ HasBecome(v, old \o Sent(r, q), w.f.tags, w.f.meta)

\* COPY to another key: s is the source when the request arrived, z the
\* source now.
CopyTags(c, s) == IF c.replace THEN c.tags ELSE s.f.tags
CopyMeta(c, s) == IF c.replace THEN c.meta ELSE s.f.meta
CopyOK(q, w, v, s, z, d) ==
    LET c == Call(q)
        tags == CopyTags(c, s)
        meta == CopyMeta(c, s)
        data == s.f.data
    IN
    /\ z = s
    /\ q.pc \in {"source", "check", "srcattrs"} => q.tags = c.tags /\ q.meta = c.meta
    /\ q.pc \in {"source", "check", "srcattrs", "mkdirs", "opensrc", "create"} => v = w
    /\ q.pc \notin {"source", "done"} => s.ino # 0 /\ ReadOutcome(c.srcCond, s) = "ok"
    /\ q.pc \notin {"source", "check", "done"} => ~WriteFails412(c.cond, w) /\ ~(Len(data) > CopyMax)
    /\ q.pc \in {"check", "srcattrs", "mkdirs", "opensrc", "create", "body", "trunc"} => q.size = Len(data)
    /\ q.pc \notin {"source", "check", "srcattrs", "done"} => q.tags = tags /\ q.meta = meta
    /\ q.pc \in {"opensrc", "create"} => Above[c.key] \subseteq d
    /\ q.pc \in {"create", "body"} => q.src = s.ino
    /\ q.pc \in {"body", "trunc"} => q.fd = v.ino
    /\ q.pc = "body" => Filling(q, v, data)
    /\ q.pc \in {"trunc", "tags", "meta", "stat"} => v.ino # 0 /\ v.f.data = data
    /\ q.pc \in {"meta", "stat"} => v.f.tags = tags
    /\ q.pc = "stat" => v.f.meta = meta
    /\ q.pc = "done" =>
         /\ q.flying = {}
         /\ IF s.ino = 0 THEN q.answer = "404" /\ v = w
            ELSE IF ReadOutcome(c.srcCond, s) # "ok" \/ WriteFails412(c.cond, w) THEN q.answer = "412" /\ v = w
            ELSE IF Len(data) > CopyMax THEN q.answer = "400" /\ v = w
            ELSE q.answer = "ok" /\ q.seen = ETag(v) /\ HasBecome(v, data, tags, meta)

DeleteOK(q, w, v) ==
    LET c == Call(q) IN
    /\ q.pc \in {"check", "remove"} => v = w
    /\ q.pc \in {"remove", "prune"} => ~DeleteFails412(c.cond, w)
    /\ q.pc = "prune" => v.ino = 0
    /\ q.pc = "done" =>
         /\ q.flying = {}
         /\ IF DeleteFails412(c.cond, w) THEN q.answer = "412" /\ v = w ELSE q.answer = "ok" /\ v.ino = 0

WriteOK(r) ==
    LET q == req[r]
        k == Key(r)
        l == Call(req[r]).from
    IN  /\ Call(q).op = "put" => PutOK(r, q, was[r][k], View(k), Above[k] \cap dirs)
        /\ Call(q).op = "append" => AppendOK(r, q, was[r][k], View(k))
        /\ Call(q).op = "copy" /\ l # k => CopyOK(q, was[r][k], View(k), was[r][l], View(l), Above[k] \cap dirs)
        /\ Call(q).op = "delete" => DeleteOK(q, was[r][k], View(k))
\* What a request remembers of its objects is a file each.
WasOK(r) ==
    req[r].pc # "idle" => \A k \in Keys : k \in {Key(r), Call(req[r]).from} => IsFile(was[r][k].f)
WasInv == \A r \in Requests : WasOK(r)
WriteInv == \A r \in Requests : Quiet(r) => WriteOK(r)

\* The objects a request is about, and how it sees them.
LEMMA Looks ==
    ASSUME TypeInv, NEW r \in Requests, req[r].pc # "idle", Call(req[r]).op \notin DirOps
    PROVE  /\ CallOK(Call(req[r])) /\ Key(r) \in Keys /\ Key(r) \in Watched(r)
           /\ Call(req[r]).op = "copy" => Call(req[r]).from \in Keys /\ Call(req[r]).from \in Watched(r)
<1>1. CallOK(Call(req[r]))
  BY HandlersOK
<1> QED BY <1>1 DEF CallOK, Key, Watched

LEMMA QuietStep ==
    ASSUME TypeInv, NEW r \in Requests, NEW q, Step(r, q), Quiet(r)', req'[r].call = req[r].call,
           req[r].pc # "idle", req[r].failed => req'[r].failed
    PROVE  Quiet(r) /\ was' = was
<1>1. clean'[r] => clean[r]
  BY DEF Step, Observe
<1>2. was' = was
  BY DEF Step
<1> QED BY <1>1, <1>2 DEF Quiet, Call

\* Steps that change nothing keep the view.
LEMMA ViewKept == ASSUME KeepFs PROVE name' = name /\ file' = file /\ dirs' = dirs /\ \A k : View(k)' = View(k)
BY DEF KeepFs, fsVars, View, FdView

\* A file stored under the inode of a key.
LEMMA ViewStored ==
    ASSUME TypeInv, NEW k \in Keys, name[k] # 0, NEW f, Fs(name, dirs, [file EXCEPT ![name[k]] = f])
    PROVE  /\ View(k)' = [ino |-> name[k], f |-> f] /\ dirs' = dirs
           /\ \A l \in Keys : l # k => View(l)' = View(l)
<1>1. /\ name' = name /\ dirs' = dirs /\ file' = [file EXCEPT ![name[k]] = f]
      /\ file = [i \in Inodes |-> file[i]] /\ name \in [Keys -> Inodes \cup {0}]
      /\ \A l \in Keys : l # k => name[l] # name[k]
  BY DEF Fs, TypeInv, FsOK
<1>2. file'[name[k]] = f /\ \A l \in Keys : l # k /\ name[l] # 0 => file'[name[l]] = file[name[l]]
  BY <1>1
<1>3. View(k)' = [ino |-> name[k], f |-> f]
  BY <1>1, <1>2 DEF View, FdView
<1>4. ASSUME NEW l \in Keys, l # k PROVE View(l)' = View(l)
  BY <1>1, <1>2, <1>4 DEF View, FdView
<1> QED BY <1>1, <1>3, <1>4

\* Somebody else's step that leaves a request undisturbed.
LEMMA WriteOthers ==
    ASSUME TypeInv, NEW r \in Requests, Quiet(r) => WriteOK(r), req'[r] = req[r], was'[r] = was[r],
           clean'[r] => clean[r] /\ Same(r)
    PROVE  Quiet(r)' => WriteOK(r)'
<1> SUFFICES ASSUME Quiet(r)' PROVE WriteOK(r)'
  OBVIOUS
<1>1. Quiet(r) /\ Same(r) /\ req[r].pc # "idle"
  BY DEF Quiet, Call
<1>2. WriteOK(r)
  BY <1>1
<1>3. PICK k, l : /\ k = Key(r) /\ l = Call(req[r]).from
                  /\ Key(r)' = k /\ Call(req'[r]) = Call(req[r])
  BY DEF Call, Key
<1>4. ASSUME NEW x \in Watched(r) PROVE View(x)' = View(x) /\ Above[x] \cap dirs' = Above[x] \cap dirs
  <2>1. View(x)' = View(x) /\ (Above[x] \cap dirs)' = Above[x] \cap dirs
    BY <1>1 DEF Same
  <2> QED BY <2>1 DEF Above
<1>5. CASE Call(req[r]).op = "put"
  <2>1. k \in Watched(r)
    BY <1>1, <1>5, <1>3, Looks DEF DirOps
  <2>2. PutOK(r, req[r], was[r][k], View(k), Above[k] \cap dirs)
    BY <1>2, <1>3, <1>5 DEF WriteOK
  <2>3. View(k)' = View(k) /\ Above[k] \cap dirs' = Above[k] \cap dirs
    BY <1>4, <2>1
  <2> QED BY <1>3, <1>5, <2>2, <2>3 DEF WriteOK
<1>6. CASE Call(req[r]).op = "append"
  <2>1. k \in Watched(r)
    BY <1>1, <1>6, <1>3, Looks DEF DirOps
  <2>2. AppendOK(r, req[r], was[r][k], View(k))
    BY <1>2, <1>3, <1>6 DEF WriteOK
  <2>3. View(k)' = View(k)
    BY <1>4, <2>1
  <2> QED BY <1>3, <1>6, <2>2, <2>3 DEF WriteOK
<1>7. CASE Call(req[r]).op = "copy"
  <2>1. k \in Watched(r) /\ l \in Watched(r)
    BY <1>1, <1>7, <1>3, Looks DEF DirOps
  <2>2. l # k => CopyOK(req[r], was[r][k], View(k), was[r][l], View(l), Above[k] \cap dirs)
    BY <1>2, <1>3, <1>7 DEF WriteOK
  <2>3. View(k)' = View(k) /\ View(l)' = View(l) /\ Above[k] \cap dirs' = Above[k] \cap dirs
    BY <1>4, <2>1
  <2> QED BY <1>3, <1>7, <2>2, <2>3 DEF WriteOK
<1>8. CASE Call(req[r]).op = "delete"
  <2>1. k \in Watched(r)
    BY <1>1, <1>8, <1>3, Looks DEF DirOps
  <2>2. DeleteOK(req[r], was[r][k], View(k))
    BY <1>2, <1>3, <1>8 DEF WriteOK
  <2>3. View(k)' = View(k)
    BY <1>4, <2>1
  <2> QED BY <1>3, <1>8, <2>2, <2>3 DEF WriteOK
<1>9. CASE Call(req[r]).op \notin {"put", "append", "copy", "delete"}
  BY <1>3, <1>9 DEF WriteOK
<1> QED BY <1>5, <1>6, <1>7, <1>8, <1>9

\* Sequences with the same length and the same elements.
LEMMA SameSeq ==
    ASSUME NEW S, NEW a \in Seq(S), NEW b \in Seq(S), Len(a) = Len(b), \A n \in 1..Len(b) : a[n] = b[n]
    PROVE  a = b
BY SeqEqual

LEMMA SentFacts ==
    ASSUME NEW r \in Requests, NEW q, Call(q).len \in Nat
    PROVE  /\ Sent(r, q) \in Seq(Byte) /\ Len(Sent(r, q)) = Call(q).len
           /\ \A n \in 1..Call(q).len : Sent(r, q)[n] = <<r, n>>
<1> DEFINE L == Call(q).len
           d == [n \in 1..L |-> <<r, n>>]
<1>1. d \in [1..L -> Byte]
  BY ByteFacts
<1>2. \A n \in 1..L : d[n] = <<r, n>>
  OBVIOUS
<1> HIDE DEF d, L
<1>3. d \in Seq(Byte) /\ Len(d) = L
  BY <1>1, FunctionLen DEF L
<1>4. Sent(r, q) = d
  BY DEF Sent, d, L
<1> QED BY <1>2, <1>3, <1>4 DEF L

LEMMA FillSend ==
    ASSUME NEW q, NEW q1, NEW v, NEW data, Filling(q, v, data), NEW n \in q.todo,
           q1.todo = q.todo \ {n}, q1.flying = q.flying \cup {<<n, data[n]>>}
    PROVE  Filling(q1, v, data)
BY DEF Filling

LEMMA PwriteData ==
    ASSUME NEW f, IsFile(f), NEW x \in Nat \ {0}, NEW b \in Byte, now \in Nat
    PROVE  LET p == Pwrite(f, x, b).data IN
           /\ Len(f.data) < x => Len(p) = x
           /\ ~(Len(f.data) < x) => Len(p) = Len(f.data)
           /\ p[x] = b /\ \A m \in 1..Len(f.data) : m # x => p[m] = f.data[m]
BY PwriteFacts

LEMMA FillLand ==
    ASSUME NEW q, NEW q1, NEW v, NEW v1, NEW data \in Seq(Byte), Filling(q, v, data),
           NEW x \in Nat \ {0}, NEW b \in Byte, <<x, b>> \in q.flying, IsFile(v.f), now \in Nat,
           q1.todo = q.todo, q1.flying = q.flying \ {<<x, b>>}, v1.f = Pwrite(v.f, x, b)
    PROVE  Filling(q1, v1, data)
<1> DEFINE L == Len(data)
           p == Pwrite(v.f, x, b).data
<1>1. /\ Len(v.f.data) = L /\ q.todo \subseteq 1..L /\ L \in Nat
      /\ \A y \in q.flying : y[1] \in 1..L /\ y[2] = data[y[1]]
      /\ \A n \in 1..L : n \in q.todo \/ <<n, data[n]>> \in q.flying \/ v.f.data[n] = data[n]
  BY LenProperties DEF Filling
<1>2. x \in 1..L /\ b = data[x]
  BY <1>1
<1>3. Len(p) = L /\ p[x] = b /\ \A m \in 1..L : m # x => p[m] = v.f.data[m]
  <2>1. /\ ~(Len(v.f.data) < x) => Len(p) = Len(v.f.data)
        /\ p[x] = b /\ \A m \in 1..Len(v.f.data) : m # x => p[m] = v.f.data[m]
    BY PwriteData
  <2> HIDE DEF p, L
  <2> QED BY <1>1, <1>2, <2>1
<1> HIDE DEF L
<1>4. \A n \in 1..L : n \in q1.todo \/ <<n, data[n]>> \in q1.flying \/ p[n] = data[n]
  <2> HIDE DEF p
  <2> TAKE n \in 1..L
  <2>1. CASE n = x
    BY <1>2, <1>3, <2>1
  <2>2. CASE n # x
    BY <1>1, <1>2, <1>3, <2>2
  <2> QED BY <2>1, <2>2
<1>5. v1.f.data = p
  OBVIOUS
<1> HIDE DEF p
<1> QED BY <1>1, <1>3, <1>4, <1>5 DEF Filling, L

LEMMA FillEnd ==
    ASSUME NEW q, NEW v, NEW data \in Seq(Byte), Filling(q, v, data), q.todo = {}, q.flying = {}, IsFile(v.f)
    PROVE  v.f.data = data
<1>1. v.f.data \in Seq(Byte) /\ Len(v.f.data) = Len(data) /\ \A n \in 1..Len(data) : v.f.data[n] = data[n]
  BY DEF Filling, IsFile
<1> QED BY <1>1, SameSeq

LEMMA FillStart ==
    ASSUME NEW q, NEW v, NEW data, Len(v.f.data) = Len(data), q.todo = 1..Len(data), q.flying = {}
    PROVE  Filling(q, v, data)
BY DEF Filling

\* Cutting a file to the length it has changes its time only.
LEMMA CutExact ==
    ASSUME NEW f, IsFile(f), now \in Nat, NEW n, n = Len(f.data)
    PROVE  Ftruncate(f, n).data = f.data
<1>1. f.data \in Seq(Byte) /\ n \in Nat
  BY LenProperties DEF IsFile
<1> DEFINE g == Ftruncate(f, n)
<1>2. /\ IsFile(g) /\ Len(g.data) = n
      /\ \A m \in 1..n : m <= Len(f.data) => g.data[m] = f.data[m]
  BY <1>1, FtruncateFacts
<1> HIDE DEF g
<1>3. g.data \in Seq(Byte) /\ \A m \in 1..Len(f.data) : g.data[m] = f.data[m]
  <2>1. \A m \in 1..n : m <= Len(f.data)
    BY <1>1
  <2> QED BY <1>2, <2>1 DEF IsFile
<1>4. g.data = f.data
  BY <1>1, <1>2, <1>3, SameSeq
<1> QED BY <1>4 DEF g

\* What is there to know of a file once its parts are known.
LEMMA Shape ==
    ASSUME NEW v, IsFile(v.f), NEW data, NEW tags, NEW meta, v.f.data = data, v.f.tags = tags, v.f.meta = meta
    PROVE  HasBecome(v, data, tags, meta)
BY DEF HasBecome, IsFile, FileFields

-----------------------------------------------------------------------------
(* PUT. *)

\* What does not change with a step of the handler itself.
LEMMA SameCall == ASSUME NEW q, NEW q1, q1.call = q.call PROVE Call(q1) = Call(q) /\ \A r : Sent(r, q1) = Sent(r, q)
BY DEF Call, Sent

LEMMA MovedCall ==
    ASSUME NEW q, NEW q1, NEW p, NEW F, Moved(q1, q, p, F), "call" \notin F
    PROVE  q1.pc = p /\ Call(q1) = Call(q) /\ \A r : Sent(r, q1) = Sent(r, q)
<1>1. q1.pc = p /\ q1.call = q.call
  BY DEF Moved, Fields
<1> QED BY <1>1, SameCall

LEMMA EndedCall ==
    ASSUME NEW q, NEW q1, NEW a, NEW F, Ended(q1, q, a, F)
    PROVE  q1.pc = "done" /\ q1.answer = a /\ Call(q1) = Call(q) /\ (\A r : Sent(r, q1) = Sent(r, q)) /\ q1.flying = q.flying
<1>1. q1.pc = "done" /\ q1.answer = a /\ q1.call = q.call /\ q1.flying = q.flying
  BY DEF Ended
<1> QED BY <1>1, SameCall

LEMMA PutCheck ==
    ASSUME TypeInv, NEW r \in Requests, NEW k \in Keys, k = Key(r), Call(req[r]).op = "put", NEW w, Check(r),
           PutOK(r, req[r], w, View(k), Above[k] \cap dirs)
    PROVE  PutOK(r, req'[r], w, View(k)', Above[k] \cap dirs')
<1> DEFINE q == req[r]
           q1 == req'[r]
           c == Call(q)
<1>1. /\ KeepFs /\ q.pc = "check"
      /\ \/ WriteFails412(c.cond, View(k)) /\ Ended(q1, q, "412", {})
         \/ ~WriteFails412(c.cond, View(k)) /\ Moved(q1, q, "mkdirs", {})
  BY CheckStep DEF Cond
<1>2. View(k)' = View(k) /\ dirs' = dirs
  BY <1>1, ViewKept
<1>3. q.flying = {}
  BY <1>1, HandlersOK DEF HandlerOK
<1>4. View(k) = w /\ q.size = c.len /\ q.tags = c.tags /\ q.meta = c.meta
  BY <1>1 DEF PutOK
<1>5. CASE WriteFails412(c.cond, View(k)) /\ Ended(q1, q, "412", {})
  <2>1. q1.pc = "done" /\ q1.answer = "412" /\ Call(q1) = c /\ q1.flying = {}
    BY <1>3, <1>5, EndedCall
  <2> HIDE DEF q, q1, c
  <2> QED BY <1>2, <1>4, <1>5, <2>1 DEF PutOK, q1
<1>6. CASE ~WriteFails412(c.cond, View(k)) /\ Moved(q1, q, "mkdirs", {})
  <2>1. q1.pc = "mkdirs" /\ Call(q1) = c
    BY <1>6, MovedCall
  <2>2. q1.tags = q.tags /\ q1.meta = q.meta /\ q1.size = q.size
    BY <1>6 DEF Moved, Fields
  <2> HIDE DEF q, q1, c
  <2> QED BY <1>2, <1>4, <1>6, <2>1, <2>2 DEF PutOK, q1
<1> QED BY <1>1, <1>5, <1>6

LEMMA PutMkdirs ==
    ASSUME TypeInv, NEW r \in Requests, NEW k \in Keys, k = Key(r), Call(req[r]).op = "put", NEW w, Mkdirs(r),
           PutOK(r, req[r], w, View(k), Above[k] \cap dirs)
    PROVE  PutOK(r, req'[r], w, View(k)', Above[k] \cap dirs')
<1> DEFINE q == req[r]
           q1 == req'[r]
           c == Call(q)
<1>1. /\ Fs(name, dirs \cup Above[k] \cup ({k} \cap Dirs), file) /\ q.pc = "mkdirs" /\ Moved(q1, q, "create", {})
  BY MkdirsStep
<1>2. View(k)' = View(k) /\ Above[k] \subseteq Above[k] \cap dirs'
  BY <1>1 DEF Fs, View, FdView
<1>3. View(k) = w /\ q.size = c.len /\ q.tags = c.tags /\ q.meta = c.meta /\ ~WriteFails412(c.cond, w)
  BY <1>1 DEF PutOK
<1>4. q1.pc = "create" /\ Call(q1) = c
  BY <1>1, MovedCall
<1>5. q1.tags = q.tags /\ q1.meta = q.meta /\ q1.size = q.size
  BY <1>1 DEF Moved, Fields
<1>6. c.key = k
  BY DEF Key
<1> HIDE DEF q, q1, c
<1> QED BY <1>2, <1>3, <1>4, <1>5, <1>6 DEF PutOK, q1

\* What Create leaves: an empty file of the final length under the key, and
\* the other objects as they were.
LEMMA CreateView ==
    ASSUME TypeInv, NEW r \in Requests, NEW k \in Keys, k = Key(r), Create(r), Above[k] \subseteq dirs
    PROVE  /\ req[r].pc = "create" /\ Moved(req'[r], req[r], "body", {"fd", "todo"})
           /\ req'[r].todo = 1..req[r].size /\ dirs' = dirs /\ req[r].size \in Nat
           /\ View(k)'.ino = req'[r].fd /\ Len(View(k)'.f.data) = req[r].size
           /\ \A l \in Keys : l # k => View(l)' = View(l)
<1> DEFINE q == req[r]
           i == IF inPlace /\ Ino(r) # 0 THEN Ino(r) ELSE NewInode
           kept == IF i = Ino(r) THEN [Blank(q.size) EXCEPT !.tags = file[i].tags, !.meta = file[i].meta]
                   ELSE Blank(q.size)
<1>1. Up[k] \in dirs \cup {Root}
  BY AboveParent
<1>2. /\ q.pc = "create" /\ Fs([name EXCEPT ![k] = i], dirs, [file EXCEPT ![i] = kept])
      /\ Moved(req'[r], q, "body", {"fd", "todo"}) /\ req'[r].fd = i /\ req'[r].todo = 1..q.size
  BY <1>1, CreateStep
<1>3. i \in Inodes /\ i # 0 /\ (i = name[k] \/ ~InUse(i)) /\ Len(kept.data) = q.size
  BY <1>2, CreateFile DEF Ino
<1> HIDE DEF i, kept
<1>4. /\ name \in [Keys -> Inodes \cup {0}] /\ file = [j \in Inodes |-> file[j]]
      /\ \A x, y \in Keys : name[x] # 0 /\ name[x] = name[y] => x = y
  BY DEF TypeInv, FsOK
<1>5. /\ name'[k] = i /\ file'[i] = kept /\ dirs' = dirs
      /\ \A l \in Keys : l # k => name'[l] = name[l]
      /\ \A j \in Inodes : j # i => file'[j] = file[j]
  BY <1>2, <1>3, <1>4 DEF Fs
<1>6. View(k)' = [ino |-> i, f |-> kept]
  BY <1>3, <1>5 DEF View, FdView
<1>7. ASSUME NEW l \in Keys, l # k PROVE View(l)' = View(l)
  <2>1. name[l] # 0 => name[l] # i
    BY <1>3, <1>4, <1>7 DEF InUse
  <2>2. name[l] # 0 => file'[name[l]] = file[name[l]]
    BY <1>4, <1>5, <2>1
  <2> QED BY <1>5, <1>7, <2>2 DEF View, FdView
<1>8. req[r].size \in Nat
  BY HandlersOK DEF HandlerOK
<1> QED BY <1>2, <1>3, <1>5, <1>6, <1>7, <1>8

LEMMA PutCreate ==
    ASSUME TypeInv, NEW r \in Requests, NEW k \in Keys, k = Key(r), Call(req[r]).op = "put", NEW w, Create(r),
           PutOK(r, req[r], w, View(k), Above[k] \cap dirs)
    PROVE  PutOK(r, req'[r], w, View(k)', Above[k] \cap dirs')
<1> DEFINE q == req[r]
           q1 == req'[r]
           c == Call(q)
           v1 == View(k)'
<1>0. c.key = k /\ q.pc = "create"
  BY CreateStep DEF Key
<1>1. q.size = c.len /\ q.tags = c.tags /\ q.meta = c.meta /\ ~WriteFails412(c.cond, w) /\ Above[k] \subseteq dirs
  BY <1>0 DEF PutOK
<1>2. /\ Moved(q1, q, "body", {"fd", "todo"}) /\ q1.todo = 1..q.size /\ v1.ino = q1.fd /\ Len(v1.f.data) = q.size
      /\ q.size \in Nat
  BY <1>1, CreateView
<1>3. q1.pc = "body" /\ Call(q1) = c /\ Sent(r, q1) = Sent(r, q)
  BY <1>2, MovedCall
<1>4. q1.tags = q.tags /\ q1.meta = q.meta /\ q1.size = q.size /\ q1.flying = q.flying
  BY <1>2 DEF Moved, Fields
<1>5. q.flying = {}
  BY <1>0, HandlersOK DEF HandlerOK
<1>6. Len(Sent(r, q1)) = c.len
  BY <1>1, <1>2, <1>3, SentFacts
<1> HIDE DEF q, q1, c, v1
<1>7. Filling(q1, v1, Sent(r, q1))
  BY <1>1, <1>2, <1>4, <1>5, <1>6, FillStart
<1> QED BY <1>1, <1>2, <1>3, <1>4, <1>7 DEF PutOK, q1, v1

\* Where an undisturbed body is written: under the key.
LEMMA BodyView ==
    ASSUME TypeInv, NEW r \in Requests, NEW k \in Keys, req[r].pc \in {"body", "trunc"}, req[r].fd = View(k).ino
    PROVE  /\ name[k] # 0 /\ name[k] = req[r].fd /\ View(k).f = file[name[k]] /\ IsFile(View(k).f)
           /\ req[r].size \in Nat /\ now \in Nat
<1>1. req[r].fd # 0 /\ req[r].size \in Nat
  BY HandlersOK DEF HandlerOK, LatePCs
<1>2. now \in Nat
  BY DEF TypeInv, FsOK
<1> QED BY <1>1, <1>2, ViewFacts

\* A write of an undisturbed body lands.
LEMMA LandView ==
    ASSUME TypeInv, NEW r \in Requests, NEW k \in Keys, req[r].pc = "body", req[r].fd = View(k).ino, WriteLands(r)
    PROVE  /\ Moved(req'[r], req[r], "body", {"flying"}) /\ dirs' = dirs
           /\ \E x \in Nat \ {0}, b \in Byte :
                /\ <<x, b>> \in req[r].flying /\ req'[r].flying = req[r].flying \ {<<x, b>>}
                /\ View(k)'.ino = View(k).ino /\ View(k)'.f = Pwrite(View(k).f, x, b)
           /\ \A l \in Keys : l # k => View(l)' = View(l)
<1>1. PICK y \in req[r].flying :
        /\ Fs(name, dirs, [file EXCEPT ![req[r].fd] = Pwrite(@, y[1], y[2])])
        /\ req'[r].flying = req[r].flying \ {y} /\ Moved(req'[r], req[r], "body", {"flying"})
  BY WriteLandsStep
<1>2. PICK x \in Nat \ {0}, b \in Byte : y = <<x, b>>
  BY BodyTodo
<1>3. name[k] # 0 /\ name[k] = req[r].fd /\ View(k).f = file[name[k]]
  BY BodyView
<1> DEFINE f == Pwrite(file[name[k]], x, b)
<1>4. Fs(name, dirs, [file EXCEPT ![name[k]] = f])
  BY <1>1, <1>2, <1>3
<1> HIDE DEF f
<1>5. View(k)' = [ino |-> name[k], f |-> f] /\ dirs' = dirs /\ \A l \in Keys : l # k => View(l)' = View(l)
  BY <1>3, <1>4, ViewStored
<1>6. View(k)'.ino = View(k).ino /\ View(k)'.f = Pwrite(View(k).f, x, b)
  BY <1>3, <1>5, ViewFacts DEF f
<1>7. <<x, b>> \in req[r].flying /\ req'[r].flying = req[r].flying \ {<<x, b>>}
  BY <1>1, <1>2
<1> QED BY <1>1, <1>5, <1>6, <1>7

LEMMA PutReceive ==
    ASSUME TypeInv, NEW r \in Requests, NEW k \in Keys, k = Key(r), Call(req[r]).op = "put", NEW w, Receive(r),
           ~req[r].failed, PutOK(r, req[r], w, View(k), Above[k] \cap dirs)
    PROVE  PutOK(r, req'[r], w, View(k)', Above[k] \cap dirs')
<1> DEFINE q == req[r]
           q1 == req'[r]
           c == Call(q)
           n == First(q.todo)
<1>1. /\ q.pc = "body" /\ q.todo # {} /\ KeepFs /\ Moved(q1, q, "body", {"todo", "flying"})
      /\ q1.todo = q.todo \ {n} /\ q1.flying = q.flying \cup {<<0 + n, <<r, n>>>>}
  BY ReceiveStep
<1>2. View(k)' = View(k)
  BY <1>1, ViewKept
<1>3. n \in q.todo /\ n \in Nat /\ c.len \in Nat
  BY <1>1, BodyTodo DEF CallOK
<1> HIDE DEF n
<1>4. Filling(q, View(k), Sent(r, q)) /\ q.fd = View(k).ino /\ q.size = c.len /\ q.tags = c.tags /\ q.meta = c.meta
      /\ ~WriteFails412(c.cond, w)
  BY <1>1 DEF PutOK
<1>5. Sent(r, q)[n] = <<r, n>> /\ 0 + n = n
  <2>1. n \in 1..c.len
    BY <1>3, <1>4, SentFacts DEF Filling
  <2> QED BY <1>3, <2>1, SentFacts
<1>6. q1.pc = "body" /\ Call(q1) = c /\ Sent(r, q1) = Sent(r, q)
  BY <1>1, MovedCall
<1>7. q1.tags = q.tags /\ q1.meta = q.meta /\ q1.size = q.size /\ q1.fd = q.fd
  BY <1>1 DEF Moved, Fields
<1> HIDE DEF q, q1, c
<1>8. Filling(q1, View(k), Sent(r, q))
  BY <1>1, <1>3, <1>4, <1>5, FillSend
<1> QED BY <1>2, <1>4, <1>6, <1>7, <1>8 DEF PutOK, q1

LEMMA PutLand ==
    ASSUME TypeInv, NEW r \in Requests, NEW k \in Keys, k = Key(r), Call(req[r]).op = "put", NEW w, WriteLands(r),
           PutOK(r, req[r], w, View(k), Above[k] \cap dirs)
    PROVE  PutOK(r, req'[r], w, View(k)', Above[k] \cap dirs')
<1> DEFINE q == req[r]
           q1 == req'[r]
           c == Call(q)
           v == View(k)
           v1 == View(k)'
<1>1. q.pc = "body"
  <2>1. q.flying # {}
    BY DEF WriteLands
  <2> QED BY <2>1, HandlersOK DEF HandlerOK, PutOK
<1>2. Filling(q, v, Sent(r, q)) /\ q.fd = v.ino /\ q.size = c.len /\ q.tags = c.tags /\ q.meta = c.meta
      /\ ~WriteFails412(c.cond, w)
  BY <1>1 DEF PutOK
<1>3. PICK x \in Nat \ {0}, b \in Byte :
        /\ <<x, b>> \in q.flying /\ q1.flying = q.flying \ {<<x, b>>} /\ Moved(q1, q, "body", {"flying"})
        /\ v1.ino = v.ino /\ v1.f = Pwrite(v.f, x, b)
  BY <1>1, <1>2, LandView, ZenonT(60)
<1>4. q1.pc = "body" /\ Call(q1) = c /\ Sent(r, q1) = Sent(r, q)
  BY <1>3, MovedCall
<1>5. q1.tags = q.tags /\ q1.meta = q.meta /\ q1.size = q.size /\ q1.fd = q.fd /\ q1.todo = q.todo
  BY <1>3 DEF Moved, Fields
<1>6. Sent(r, q) \in Seq(Byte) /\ IsFile(v.f) /\ now \in Nat
  <2>1. c.len \in Nat
    BY <1>1, BodyTodo DEF CallOK
  <2> QED BY <1>1, <1>2, <2>1, BodyView, SentFacts
<1> HIDE DEF q, q1, c, v, v1
<1>7. Filling(q1, v1, Sent(r, q))
  BY <1>2, <1>3, <1>5, <1>6, FillLand
<1> QED BY <1>2, <1>3, <1>4, <1>5, <1>7 DEF PutOK, q1, v1

LEMMA PutBodyEnd ==
    ASSUME TypeInv, NEW r \in Requests, NEW k \in Keys, k = Key(r), Call(req[r]).op = "put", NEW w, BodyEnd(r),
           ~req[r].failed, PutOK(r, req[r], w, View(k), Above[k] \cap dirs)
    PROVE  PutOK(r, req'[r], w, View(k)', Above[k] \cap dirs')
<1> DEFINE q == req[r]
           q1 == req'[r]
           c == Call(q)
<1>1. q.pc = "body" /\ q.todo = {} /\ q.flying = {} /\ KeepFs /\ Moved(q1, q, "trunc", {})
  BY BodyEndStep
<1>2. View(k)' = View(k)
  BY <1>1, ViewKept
<1>3. Filling(q, View(k), Sent(r, q)) /\ q.fd = View(k).ino /\ q.size = c.len /\ q.tags = c.tags /\ q.meta = c.meta
      /\ ~WriteFails412(c.cond, w)
  BY <1>1 DEF PutOK
<1>4. q1.pc = "trunc" /\ Call(q1) = c /\ Sent(r, q1) = Sent(r, q)
  BY <1>1, MovedCall
<1>5. q1.tags = q.tags /\ q1.meta = q.meta /\ q1.size = q.size /\ q1.fd = q.fd
  BY <1>1 DEF Moved, Fields
<1>6. Sent(r, q) \in Seq(Byte) /\ IsFile(View(k).f) /\ View(k).ino # 0
  <2>1. c.len \in Nat
    BY <1>1, BodyTodo DEF CallOK
  <2>2. q.fd # 0
    BY <1>1, HandlersOK DEF HandlerOK, LatePCs
  <2> QED BY <1>1, <1>3, <2>1, <2>2, BodyView, SentFacts
<1> HIDE DEF q, q1, c
<1>7. View(k).f.data = Sent(r, q)
  BY <1>1, <1>3, <1>6, FillEnd
<1> QED BY <1>2, <1>3, <1>4, <1>5, <1>6, <1>7 DEF PutOK, q1

\* The final ftruncate of an undisturbed body.
LEMMA TruncView ==
    ASSUME TypeInv, NEW r \in Requests, NEW k \in Keys, Trunc(r), req[r].fd = View(k).ino,
           req[r].size = Len(View(k).f.data)
    PROVE  /\ View(k)'.ino = View(k).ino /\ View(k).ino # 0 /\ View(k)'.f.data = View(k).f.data /\ dirs' = dirs
           /\ \A l \in Keys : l # k => View(l)' = View(l)
<1>1. req[r].pc = "trunc" /\ Fs(name, dirs, [file EXCEPT ![req[r].fd] = Ftruncate(@, req[r].size)])
  BY TruncStep
<1>2. name[k] # 0 /\ name[k] = req[r].fd /\ View(k).f = file[name[k]] /\ IsFile(View(k).f) /\ now \in Nat
  BY <1>1, BodyView
<1> DEFINE f == Ftruncate(View(k).f, req[r].size)
<1>3. Fs(name, dirs, [file EXCEPT ![name[k]] = f])
  BY <1>1, <1>2
<1>4. f.data = View(k).f.data
  BY <1>2, CutExact
<1> HIDE DEF f
<1>5. View(k)' = [ino |-> name[k], f |-> f] /\ dirs' = dirs /\ \A l \in Keys : l # k => View(l)' = View(l)
  BY <1>2, <1>3, ViewStored
<1> QED BY <1>2, <1>4, <1>5

LEMMA PutTrunc ==
    ASSUME TypeInv, NEW r \in Requests, NEW k \in Keys, k = Key(r), Call(req[r]).op = "put", NEW w, Trunc(r),
           PutOK(r, req[r], w, View(k), Above[k] \cap dirs)
    PROVE  PutOK(r, req'[r], w, View(k)', Above[k] \cap dirs')
<1> DEFINE q == req[r]
           q1 == req'[r]
           c == Call(q)
           v1 == View(k)'
<1>1. q.pc = "trunc" /\ Moved(q1, q, "stat", {"fd", "src"})
  BY TruncStep
<1>2. /\ q.fd = View(k).ino /\ q.size = c.len /\ q.tags = c.tags /\ q.meta = c.meta /\ ~WriteFails412(c.cond, w)
      /\ View(k).f.data = Sent(r, q)
  BY <1>1 DEF PutOK
<1>3. Len(View(k).f.data) = q.size
  <2>1. c.len \in Nat
    BY <1>1, HandlersOK DEF CallOK
  <2> QED BY <1>2, <2>1, SentFacts
<1>4. v1.ino # 0 /\ v1.f.data = Sent(r, q)
  BY <1>2, <1>3, TruncView
<1>5. q1.pc = "stat" /\ Call(q1) = c /\ Sent(r, q1) = Sent(r, q)
  BY <1>1, MovedCall
<1>6. q1.tags = q.tags /\ q1.meta = q.meta
  BY <1>1 DEF Moved, Fields
<1> HIDE DEF q, q1, c, v1
<1> QED BY <1>2, <1>4, <1>5, <1>6 DEF PutOK, q1, v1

LEMMA PutStat ==
    ASSUME TypeInv, NEW r \in Requests, NEW k \in Keys, k = Key(r), Call(req[r]).op = "put", NEW w, Stat(r),
           PutOK(r, req[r], w, View(k), Above[k] \cap dirs)
    PROVE  PutOK(r, req'[r], w, View(k)', Above[k] \cap dirs')
<1> DEFINE q == req[r]
           q1 == req'[r]
           c == Call(q)
           v == View(k)
<1>0. q.pc = "stat"
  BY StatStep
<1>1. q.tags = c.tags /\ q.meta = c.meta /\ ~WriteFails412(c.cond, w) /\ v.ino # 0 /\ v.f.data = Sent(r, q)
  BY <1>0 DEF PutOK
<1>2. Ino(r) # 0 /\ FdView(Ino(r)) = v
  BY <1>1 DEF Ino, View, NoView
<1>3. KeepFs /\ Moved(q1, q, "tags", {"seen"}) /\ q1.seen = ETag(v)
  BY <1>2, StatStep
<1>4. View(k)' = v
  BY <1>3, ViewKept
<1>5. q1.pc = "tags" /\ Call(q1) = c /\ Sent(r, q1) = Sent(r, q)
  BY <1>3, MovedCall
<1>6. q1.tags = q.tags /\ q1.meta = q.meta
  BY <1>3 DEF Moved, Fields
<1> HIDE DEF q, q1, c, v
<1> QED BY <1>1, <1>3, <1>4, <1>5, <1>6 DEF PutOK, q1

\* The attributes of the object under a key are set.
LEMMA AttrView ==
    ASSUME TypeInv, NEW k \in Keys, name[k] # 0, NEW x
    PROVE  /\ Fs(name, dirs, [file EXCEPT ![name[k]].tags = x]) =>
                /\ View(k)'.ino = View(k).ino /\ View(k)'.f.data = View(k).f.data /\ View(k)'.f.tags = x
                /\ View(k)'.f.meta = View(k).f.meta /\ ETag(View(k)') = ETag(View(k)) /\ IsFile(View(k)'.f)
                /\ dirs' = dirs /\ \A l \in Keys : l # k => View(l)' = View(l)
           /\ Fs(name, dirs, [file EXCEPT ![name[k]].meta = x]) =>
                /\ View(k)'.ino = View(k).ino /\ View(k)'.f.data = View(k).f.data /\ View(k)'.f.meta = x
                /\ View(k)'.f.tags = View(k).f.tags /\ ETag(View(k)') = ETag(View(k)) /\ IsFile(View(k)'.f)
                /\ dirs' = dirs /\ \A l \in Keys : l # k => View(l)' = View(l)
<1> DEFINE i == name[k]
           f == [file[i] EXCEPT !.tags = x]
           g == [file[i] EXCEPT !.meta = x]
<1>1. i \in Inodes /\ IsFile(file[i]) /\ View(k).f = file[i] /\ View(k).ino = i
  BY ViewFacts
<1>2. /\ IsFile(f) /\ f.tags = x /\ f.meta = file[i].meta /\ f.data = file[i].data /\ f.mtime = file[i].mtime
      /\ IsFile(g) /\ g.meta = x /\ g.tags = file[i].tags /\ g.data = file[i].data /\ g.mtime = file[i].mtime
  <2> HIDE DEF i
  <2> QED BY <1>1 DEF IsFile, FileFields
<1>3. /\ [file EXCEPT ![name[k]].tags = x] = [file EXCEPT ![name[k]] = f]
      /\ [file EXCEPT ![name[k]].meta = x] = [file EXCEPT ![name[k]] = g]
  OBVIOUS
<1> HIDE DEF f, g, i
<1>4. ASSUME Fs(name, dirs, [file EXCEPT ![name[k]] = f])
      PROVE  View(k)' = [ino |-> i, f |-> f] /\ dirs' = dirs /\ \A l \in Keys : l # k => View(l)' = View(l)
  BY <1>4, ViewStored DEF i
<1>5. ASSUME Fs(name, dirs, [file EXCEPT ![name[k]] = g])
      PROVE  View(k)' = [ino |-> i, f |-> g] /\ dirs' = dirs /\ \A l \in Keys : l # k => View(l)' = View(l)
  BY <1>5, ViewStored DEF i
<1>6. ASSUME Fs(name, dirs, [file EXCEPT ![name[k]] = f])
      PROVE  /\ View(k)'.ino = View(k).ino /\ View(k)'.f.data = View(k).f.data /\ View(k)'.f.tags = x
             /\ View(k)'.f.meta = View(k).f.meta /\ ETag(View(k)') = ETag(View(k)) /\ IsFile(View(k)'.f)
             /\ dirs' = dirs /\ \A l \in Keys : l # k => View(l)' = View(l)
  BY <1>1, <1>2, <1>4, <1>6 DEF ETag
<1>7. ASSUME Fs(name, dirs, [file EXCEPT ![name[k]] = g])
      PROVE  /\ View(k)'.ino = View(k).ino /\ View(k)'.f.data = View(k).f.data /\ View(k)'.f.meta = x
             /\ View(k)'.f.tags = View(k).f.tags /\ ETag(View(k)') = ETag(View(k)) /\ IsFile(View(k)'.f)
             /\ dirs' = dirs /\ \A l \in Keys : l # k => View(l)' = View(l)
  BY <1>1, <1>2, <1>5, <1>7 DEF ETag
<1> QED BY <1>3, <1>6, <1>7

LEMMA PutTags ==
    ASSUME TypeInv, NEW r \in Requests, NEW k \in Keys, k = Key(r), Call(req[r]).op = "put", NEW w, Tags(r),
           PutOK(r, req[r], w, View(k), Above[k] \cap dirs)
    PROVE  PutOK(r, req'[r], w, View(k)', Above[k] \cap dirs')
<1> DEFINE q == req[r]
           q1 == req'[r]
           c == Call(q)
           v == View(k)
           v1 == View(k)'
<1>0. q.pc = "tags"
  BY TagsStep
<1>1. q.tags = c.tags /\ q.meta = c.meta /\ ~WriteFails412(c.cond, w) /\ v.ino # 0 /\ v.f.data = Sent(r, q)
      /\ q.seen = ETag(v)
  BY <1>0 DEF PutOK
<1>2. Ino(r) = name[k] /\ name[k] # 0
  BY <1>1, ViewFacts DEF Ino
<1>3. Fs(name, dirs, [file EXCEPT ![name[k]].tags = q.tags]) /\ Moved(q1, q, "meta", {})
  BY <1>2, TagsStep
<1>4. v1.ino = v.ino /\ v1.f.data = v.f.data /\ v1.f.tags = q.tags /\ ETag(v1) = ETag(v)
  BY <1>2, <1>3, AttrView
<1>5. q1.pc = "meta" /\ Call(q1) = c /\ Sent(r, q1) = Sent(r, q)
  BY <1>3, MovedCall
<1>6. q1.tags = q.tags /\ q1.meta = q.meta /\ q1.seen = q.seen
  BY <1>3 DEF Moved, Fields
<1> HIDE DEF q, q1, c, v, v1
<1> QED BY <1>1, <1>4, <1>5, <1>6 DEF PutOK, q1, v1

LEMMA PutMeta ==
    ASSUME TypeInv, NEW r \in Requests, NEW k \in Keys, k = Key(r), Call(req[r]).op = "put", NEW w, Meta(r),
           PutOK(r, req[r], w, View(k), Above[k] \cap dirs)
    PROVE  PutOK(r, req'[r], w, View(k)', Above[k] \cap dirs')
<1> DEFINE q == req[r]
           q1 == req'[r]
           c == Call(q)
           v == View(k)
           v1 == View(k)'
<1>0. q.pc = "meta"
  BY MetaStep
<1>1. q.tags = c.tags /\ q.meta = c.meta /\ ~WriteFails412(c.cond, w) /\ v.ino # 0 /\ v.f.data = Sent(r, q)
      /\ q.seen = ETag(v) /\ v.f.tags = c.tags
  BY <1>0 DEF PutOK
<1>2. Ino(r) = name[k] /\ name[k] # 0
  BY <1>1, ViewFacts DEF Ino
<1>3. Fs(name, dirs, [file EXCEPT ![name[k]].meta = q.meta]) /\ Ended(q1, q, "ok", {})
  BY <1>2, MetaStep
<1>4. v1.ino = v.ino /\ v1.f.data = v.f.data /\ v1.f.tags = v.f.tags /\ v1.f.meta = q.meta /\ ETag(v1) = ETag(v)
      /\ IsFile(v1.f)
  BY <1>2, <1>3, AttrView
<1>5. q1.pc = "done" /\ q1.answer = "ok" /\ Call(q1) = c /\ Sent(r, q1) = Sent(r, q) /\ q1.flying = q.flying
  BY <1>3, EndedCall
<1>6. q1.seen = q.seen
  BY <1>3 DEF Ended
<1>7. q.flying = {}
  BY <1>0, HandlersOK DEF HandlerOK
<1> HIDE DEF q, q1, c, v, v1
<1>8. HasBecome(v1, Sent(r, q), c.tags, c.meta)
  BY <1>1, <1>4, Shape
<1> QED BY <1>1, <1>4, <1>5, <1>6, <1>7, <1>8 DEF PutOK, q1, v1

-----------------------------------------------------------------------------
(* Append. *)

LEMMA AppendStart ==
    ASSUME TypeInv, NEW r \in Requests, NEW k \in Keys, k = Key(r), Call(req[r]).op = "append", NEW w,
           OpenExisting(r) \/ Flock(r), AppendOK(r, req[r], w, View(k))
    PROVE  AppendOK(r, req'[r], w, View(k)')
<1> DEFINE q == req[r]
           q1 == req'[r]
           c == Call(q)
           v == View(k)
<1>1. CASE OpenExisting(r)
  <2>1. /\ q.pc = "existing" /\ KeepFs
        /\ \/ name[k] = 0 /\ Ended(q1, q, "404", {})
           \/ name[k] # 0 /\ Moved(q1, q, "flock", {"fd"}) /\ q1.fd = name[k]
    BY <1>1, OpenExistingStep DEF Ino
  <2>2. View(k)' = v /\ v = w /\ v.ino = name[k]
    BY <2>1, ViewKept, ViewFacts DEF AppendOK
  <2>3. q.flying = {}
    BY <2>1, HandlersOK DEF HandlerOK
  <2>4. CASE name[k] = 0 /\ Ended(q1, q, "404", {})
    <3>1. q1.pc = "done" /\ q1.answer = "404" /\ Call(q1) = c /\ q1.flying = {}
      BY <2>3, <2>4, EndedCall
    <3> HIDE DEF q, q1, c, v
    <3> QED BY <2>2, <2>4, <3>1 DEF AppendOK, q1
  <2>5. CASE name[k] # 0 /\ Moved(q1, q, "flock", {"fd"}) /\ q1.fd = name[k]
    <3>1. q1.pc = "flock" /\ Call(q1) = c
      BY <2>5, MovedCall
    <3> HIDE DEF q, q1, c, v
    <3> QED BY <2>2, <2>5, <3>1 DEF AppendOK, q1
  <2> QED BY <2>1, <2>4, <2>5
<1>2. CASE Flock(r)
  <2>1. q.pc = "flock" /\ KeepFs /\ Moved(q1, q, "offset", {"locked"})
    BY <1>2, FlockStep
  <2>2. View(k)' = v /\ v = w /\ w.ino # 0 /\ q.fd = w.ino
    BY <2>1, ViewKept DEF AppendOK
  <2>3. q1.pc = "offset" /\ Call(q1) = c
    BY <2>1, MovedCall
  <2>4. q1.fd = q.fd
    BY <2>1 DEF Moved, Fields
  <2> HIDE DEF q, q1, c, v
  <2> QED BY <2>2, <2>3, <2>4 DEF AppendOK, q1
<1> QED BY <1>1, <1>2

LEMMA AppendOffset ==
    ASSUME TypeInv, NEW r \in Requests, NEW k \in Keys, k = Key(r), Call(req[r]).op = "append", NEW w,
           Offset(r), AppendOK(r, req[r], w, View(k))
    PROVE  AppendOK(r, req'[r], w, View(k)')
<1> DEFINE q == req[r]
           q1 == req'[r]
           c == Call(q)
           v == View(k)
           old == w.f.data
<1>0. q.pc = "offset" /\ KeepFs
  BY OffsetStep
<1>1. v = w /\ w.ino # 0 /\ q.fd = w.ino /\ View(k)' = w
  BY <1>0, ViewKept DEF AppendOK
<1>2. FdView(q.fd) = w /\ file[q.fd] = w.f
  BY <1>1 DEF View, NoView, FdView
<1>3. \/ c.offset # Len(old) /\ Ended(q1, q, "400", {})
      \/ c.offset = Len(old) /\ WriteFails412(c.cond, w) /\ Ended(q1, q, "412", {})
      \/ c.offset = Len(old) /\ ~WriteFails412(c.cond, w) /\ c.len = 0 /\ Ended(q1, q, "400", {})
      \/ /\ c.offset = Len(old) /\ ~WriteFails412(c.cond, w) /\ c.len # 0 /\ Moved(q1, q, "body", {"todo"})
         /\ q1.todo = 1..c.len
  BY <1>2, OffsetStep
<1>4. q.flying = {} /\ c.len \in Nat /\ Len(old) \in Nat
  BY <1>0, <1>1, HandlersOK, ViewFacts DEF HandlerOK, CallOK
<1>5. ASSUME NEW a, Ended(q1, q, a, {}) PROVE q1.pc = "done" /\ q1.answer = a /\ Call(q1) = c /\ q1.flying = {}
  BY <1>4, <1>5, EndedCall
<1>6. CASE \E a : Ended(q1, q, a, {})
  <2>1. PICK a : Ended(q1, q, a, {})
    BY <1>6
  <2>2. q1.pc = "done" /\ q1.answer = a /\ Call(q1) = c /\ q1.flying = {}
    BY <1>5, <2>1
  <2>3. ~Moved(q1, q, "body", {"todo"}) /\ \A b : Ended(q1, q, b, {}) => a = b
    BY <2>2 DEF Ended, Moved
  <2>4. \/ c.offset # Len(old) /\ a = "400"
        \/ c.offset = Len(old) /\ WriteFails412(c.cond, w) /\ a = "412"
        \/ c.offset = Len(old) /\ ~WriteFails412(c.cond, w) /\ c.len = 0 /\ a = "400"
    BY <1>3, <2>3
  <2> HIDE DEF q, q1, c, v
  <2> QED BY <1>1, <2>2, <2>4 DEF AppendOK, q1
<1>7. CASE /\ c.offset = Len(old) /\ ~WriteFails412(c.cond, w) /\ c.len # 0 /\ Moved(q1, q, "body", {"todo"})
           /\ q1.todo = 1..c.len
  <2>1. q1.pc = "body" /\ Call(q1) = c
    BY <1>7, MovedCall
  <2>2. q1.fd = q.fd /\ q1.flying = {}
    BY <1>4, <1>7 DEF Moved, Fields
  <2> HIDE DEF q, q1, c, v, old
  <2>3. Len(old) <= Len(old) /\ Len(old) <= Len(old) + c.len
    BY <1>4
  <2> QED BY <1>1, <1>7, <2>1, <2>2, <2>3 DEF AppendOK, q1, old
<1> QED BY <1>3, <1>6, <1>7

LEMMA AppendReceive ==
    ASSUME TypeInv, NEW r \in Requests, NEW k \in Keys, k = Key(r), Call(req[r]).op = "append", NEW w,
           Receive(r), ~req[r].failed, AppendOK(r, req[r], w, View(k))
    PROVE  AppendOK(r, req'[r], w, View(k)')
<1> DEFINE q == req[r]
           q1 == req'[r]
           c == Call(q)
           n == First(q.todo)
           v == View(k)
<1>1. /\ q.pc = "body" /\ q.todo # {} /\ KeepFs /\ Moved(q1, q, "body", {"todo", "flying"})
      /\ q1.todo = q.todo \ {n} /\ q1.flying = q.flying \cup {<<c.offset + n, <<r, n>>>>}
  BY ReceiveStep
<1>2. View(k)' = v
  BY <1>1, ViewKept
<1>3. n \in q.todo
  BY <1>1, BodyTodo
<1>4. q1.pc = "body" /\ Call(q1) = c
  BY <1>1, MovedCall
<1>5. q1.fd = q.fd
  BY <1>1 DEF Moved, Fields
<1> HIDE DEF q, q1, c, n, v
<1>6. /\ w.ino # 0 /\ v.ino = w.ino /\ q.fd = w.ino
      /\ c.offset = Len(w.f.data) /\ ~WriteFails412(c.cond, w) /\ c.len # 0
      /\ v.f.tags = w.f.tags /\ v.f.meta = w.f.meta
      /\ Len(w.f.data) <= Len(v.f.data) /\ Len(v.f.data) <= Len(w.f.data) + c.len
      /\ \A m \in 1..Len(w.f.data) : v.f.data[m] = w.f.data[m]
  BY <1>1 DEF AppendOK, q, c, v
<1>7. /\ q.todo \subseteq 1..c.len
      /\ \A x \in q.flying : \E m \in 1..c.len : x = <<c.offset + m, <<r, m>>>>
      /\ \A m \in 1..c.len : \/ m \in q.todo \/ <<c.offset + m, <<r, m>>>> \in q.flying
                             \/ c.offset + m <= Len(v.f.data) /\ v.f.data[c.offset + m] = <<r, m>>
  BY <1>1 DEF AppendOK, q, c, v
<1>8. /\ q1.todo \subseteq 1..c.len
      /\ \A x \in q1.flying : \E m \in 1..c.len : x = <<c.offset + m, <<r, m>>>>
      /\ \A m \in 1..c.len : \/ m \in q1.todo \/ <<c.offset + m, <<r, m>>>> \in q1.flying
                             \/ c.offset + m <= Len(v.f.data) /\ v.f.data[c.offset + m] = <<r, m>>
  BY <1>1, <1>3, <1>7
<1> QED BY <1>2, <1>4, <1>5, <1>6, <1>8 DEF AppendOK, q1

LEMMA AppendLand ==
    ASSUME TypeInv, NEW r \in Requests, NEW k \in Keys, k = Key(r), Call(req[r]).op = "append", NEW w,
           WriteLands(r), AppendOK(r, req[r], w, View(k)), w.f.data \in Seq(Byte)
    PROVE  AppendOK(r, req'[r], w, View(k)')
<1> DEFINE q == req[r]
           q1 == req'[r]
           c == Call(q)
           v == View(k)
           v1 == View(k)'
           old == w.f.data
           d == v.f.data
           d1 == v1.f.data
<1>1. q.pc = "body"
  <2>1. q.flying # {}
    BY DEF WriteLands
  <2> QED BY <2>1, HandlersOK DEF HandlerOK, AppendOK
<1>2. /\ w.ino # 0 /\ v.ino = w.ino /\ q.fd = w.ino
      /\ c.offset = Len(old) /\ ~WriteFails412(c.cond, w) /\ c.len # 0
      /\ v.f.tags = w.f.tags /\ v.f.meta = w.f.meta
      /\ Len(old) <= Len(d) /\ Len(d) <= Len(old) + c.len
      /\ \A m \in 1..Len(old) : d[m] = old[m]
  BY <1>1 DEF AppendOK
<1>3. /\ q.todo \subseteq 1..c.len
      /\ \A x \in q.flying : \E m \in 1..c.len : x = <<c.offset + m, <<r, m>>>>
      /\ \A m \in 1..c.len : \/ m \in q.todo \/ <<c.offset + m, <<r, m>>>> \in q.flying
                             \/ c.offset + m <= Len(d) /\ d[c.offset + m] = <<r, m>>
  BY <1>1 DEF AppendOK
<1>4. PICK x \in Nat \ {0}, b \in Byte :
        /\ <<x, b>> \in q.flying /\ q1.flying = q.flying \ {<<x, b>>} /\ Moved(q1, q, "body", {"flying"})
        /\ v1.ino = v.ino /\ v1.f = Pwrite(v.f, x, b)
  <2>1. req[r].fd = View(k).ino
    BY <1>2
  <2>2. /\ Moved(req'[r], req[r], "body", {"flying"})
        /\ \E x \in Nat \ {0}, b \in Byte :
             /\ <<x, b>> \in req[r].flying /\ req'[r].flying = req[r].flying \ {<<x, b>>}
             /\ View(k)'.ino = View(k).ino /\ View(k)'.f = Pwrite(View(k).f, x, b)
    BY <1>1, <2>1, LandView
  <2> QED BY <2>2
<1>5. IsFile(v.f) /\ now \in Nat /\ Len(d) \in Nat /\ Len(old) \in Nat /\ c.len \in Nat
  <2>1. IsFile(v.f) /\ now \in Nat
    BY <1>1, <1>2, BodyView
  <2>2. Len(d) \in Nat /\ Len(old) \in Nat
    BY ViewFacts, LenProperties
  <2>3. c.len \in Nat
    BY <1>1, HandlersOK DEF CallOK
  <2> QED BY <2>1, <2>2, <2>3
<1>6. /\ Len(d) < x => Len(d1) = x
      /\ ~(Len(d) < x) => Len(d1) = Len(d)
      /\ d1[x] = b /\ \A m \in 1..Len(d) : m # x => d1[m] = d[m]
  <2>1. PICK f : f = v.f
    OBVIOUS
  <2>2. v1.f.data = Pwrite(f, x, b).data /\ IsFile(f) /\ d = f.data
    BY <1>4, <1>5, <2>1
  <2> HIDE DEF v, v1, d
  <2> QED BY <1>5, <2>2, PwriteData
<1>7. v1.f.tags = v.f.tags /\ v1.f.meta = v.f.meta
  BY <1>4, <1>5, PwriteFacts
<1>8. q1.pc = "body" /\ Call(q1) = c
  BY <1>4, MovedCall
<1>9. q1.fd = q.fd /\ q1.todo = q.todo
  BY <1>4 DEF Moved, Fields
<1> HIDE DEF q, q1, c, v, v1, old, d, d1
<1>10. PICK n \in 1..c.len : x = c.offset + n /\ b = <<r, n>>
  BY <1>3, <1>4
<1>11. /\ Len(old) <= Len(d1) /\ Len(d1) <= Len(old) + c.len
       /\ \A m \in 1..Len(old) : d1[m] = old[m]
  BY <1>2, <1>5, <1>6, <1>10
<1>12. \A y \in q1.flying : \E m \in 1..c.len : y = <<c.offset + m, <<r, m>>>>
  BY <1>3, <1>4
<1>13. ASSUME NEW m \in 1..c.len, m \notin q1.todo, <<c.offset + m, <<r, m>>>> \notin q1.flying
       PROVE  c.offset + m <= Len(d1) /\ d1[c.offset + m] = <<r, m>>
  <2>1. CASE m = n
    BY <1>2, <1>5, <1>6, <1>10, <2>1
  <2>2. CASE m # n
    <3>1. c.offset + m <= Len(d) /\ d[c.offset + m] = <<r, m>>
      BY <1>3, <1>4, <1>9, <1>10, <1>13, <2>2
    <3>2. c.offset + m \in 1..Len(d) /\ c.offset + m # x
      BY <1>2, <1>5, <1>10, <2>2, <3>1
    <3> QED BY <1>5, <1>6, <3>1, <3>2
  <2> QED BY <2>1, <2>2
<1> QED BY <1>2, <1>3, <1>4, <1>7, <1>8, <1>9, <1>11, <1>12, <1>13 DEF AppendOK, q1, v1, old, d1

\* What stands behind the old contents when the whole body is written.
LEMMA Concat ==
    ASSUME NEW r \in Requests, NEW q, Call(q).len \in Nat, NEW old \in Seq(Byte), NEW d \in Seq(Byte),
           Len(d) <= Len(old) + Call(q).len, \A m \in 1..Len(old) : d[m] = old[m], Call(q).len # 0,
           \A n \in 1..Call(q).len : Len(old) + n <= Len(d) /\ d[Len(old) + n] = <<r, n>>
    PROVE  d = old \o Sent(r, q)
<1> DEFINE L == Call(q).len
           s == Sent(r, q)
<1>1. s \in Seq(Byte) /\ Len(s) = L /\ \A n \in 1..L : s[n] = <<r, n>>
  BY SentFacts
<1>2. Len(old) \in Nat /\ Len(d) \in Nat /\ L \in Nat
  BY LenProperties
<1> HIDE DEF s, L
<1>3. Len(d) = Len(old) + L
  <2>1. L \in 1..L
    BY <1>2 DEF L
  <2>2. Len(old) + L <= Len(d)
    BY <2>1 DEF L
  <2> QED BY <1>2, <2>2 DEF L
<1>4. /\ old \o s \in Seq(Byte) /\ Len(old \o s) = Len(old) + L
      /\ \A m \in 1..(Len(old) + L) : (old \o s)[m] = IF m <= Len(old) THEN old[m] ELSE s[m - Len(old)]
  BY <1>1, <1>2, ConcatProperties
<1>5. ASSUME NEW m \in 1..(Len(old) + L) PROVE d[m] = (old \o s)[m]
  <2>1. CASE m <= Len(old)
    BY <1>2, <1>4, <2>1
  <2>2. CASE ~(m <= Len(old))
    <3>1. m - Len(old) \in 1..L /\ Len(old) + (m - Len(old)) = m
      BY <1>2, <2>2
    <3>2. d[m] = <<r, m - Len(old)>>
      BY <3>1 DEF L
    <3> QED BY <1>1, <1>4, <2>2, <3>1, <3>2
  <2> QED BY <2>1, <2>2
<1>6. d = old \o s
  BY <1>3, <1>4, <1>5, SameSeq
<1> QED BY <1>6 DEF s

LEMMA AppendEnd ==
    ASSUME TypeInv, NEW r \in Requests, NEW k \in Keys, k = Key(r), Call(req[r]).op = "append", NEW w,
           BodyEnd(r), ~req[r].failed, AppendOK(r, req[r], w, View(k)), w.f.data \in Seq(Byte)
    PROVE  AppendOK(r, req'[r], w, View(k)')
<1> DEFINE q == req[r]
           q1 == req'[r]
           c == Call(q)
           v == View(k)
           old == w.f.data
           d == v.f.data
<1>1. q.pc = "body" /\ q.todo = {} /\ q.flying = {} /\ KeepFs /\ Moved(q1, q, "stat", {})
  BY BodyEndStep
<1>2. /\ w.ino # 0 /\ v.ino = w.ino /\ q.fd = w.ino
      /\ c.offset = Len(old) /\ ~WriteFails412(c.cond, w) /\ c.len # 0
      /\ v.f.tags = w.f.tags /\ v.f.meta = w.f.meta
      /\ Len(old) <= Len(d) /\ Len(d) <= Len(old) + c.len
      /\ \A m \in 1..Len(old) : d[m] = old[m]
      /\ \A m \in 1..c.len : \/ m \in q.todo \/ <<c.offset + m, <<r, m>>>> \in q.flying
                             \/ c.offset + m <= Len(d) /\ d[c.offset + m] = <<r, m>>
  BY <1>1 DEF AppendOK
<1>3. View(k)' = v
  BY <1>1, ViewKept
<1>4. q1.pc = "stat" /\ Call(q1) = c /\ Sent(r, q1) = Sent(r, q)
  BY <1>1, MovedCall
<1>5. q1.fd = q.fd
  BY <1>1 DEF Moved, Fields
<1>6. c.len \in Nat /\ d \in Seq(Byte)
  BY <1>1, BodyTodo, ViewFacts DEF CallOK
<1>7. d = old \o Sent(r, q)
  <2>1. \A m \in 1..c.len : Len(old) + m <= Len(d) /\ d[Len(old) + m] = <<r, m>>
    BY <1>1, <1>2
  <2>2. /\ c.len \in Nat /\ old \in Seq(Byte) /\ d \in Seq(Byte) /\ Len(d) <= Len(old) + c.len
        /\ (\A m \in 1..Len(old) : d[m] = old[m]) /\ c.len # 0
    BY <1>2, <1>6
  <2> HIDE DEF q, v, old, d
  <2> QED BY <2>1, <2>2, Concat
<1> HIDE DEF q, q1, c, v
<1> QED BY <1>2, <1>3, <1>4, <1>5, <1>7 DEF AppendOK, q1

LEMMA AppendStat ==
    ASSUME TypeInv, NEW r \in Requests, NEW k \in Keys, k = Key(r), Call(req[r]).op = "append", NEW w,
           Stat(r), AppendOK(r, req[r], w, View(k))
    PROVE  AppendOK(r, req'[r], w, View(k)')
<1> DEFINE q == req[r]
           q1 == req'[r]
           c == Call(q)
           v == View(k)
<1>0. q.pc = "stat" /\ KeepFs
  BY StatStep
<1>1. /\ w.ino # 0 /\ v.ino = w.ino /\ q.fd = w.ino
      /\ c.offset = Len(w.f.data) /\ ~WriteFails412(c.cond, w) /\ c.len # 0
      /\ v.f.tags = w.f.tags /\ v.f.meta = w.f.meta /\ v.f.data = w.f.data \o Sent(r, q)
  BY <1>0 DEF AppendOK
<1>2. q.fd # 0 /\ FdView(q.fd) = v /\ IsFile(v.f)
  BY <1>1, ViewFacts DEF View, FdView, NoView
<1>3. Ended(q1, q, "ok", {"seen"}) /\ q1.seen = ETag(v)
  BY <1>2, StatStep
<1>4. View(k)' = v
  BY <1>0, ViewKept
<1>5. q1.pc = "done" /\ q1.answer = "ok" /\ Call(q1) = c /\ Sent(r, q1) = Sent(r, q) /\ q1.flying = q.flying
  BY <1>3, EndedCall
<1>6. q.flying = {}
  BY <1>0, HandlersOK DEF HandlerOK
<1> HIDE DEF q, q1, c, v
<1>7. HasBecome(v, w.f.data \o Sent(r, q), w.f.tags, w.f.meta)
  BY <1>1, <1>2, Shape
<1> QED BY <1>1, <1>3, <1>4, <1>5, <1>6, <1>7 DEF AppendOK, q1

-----------------------------------------------------------------------------
(* COPY to another key. *)

LEMMA CopySource ==
    ASSUME TypeInv, NEW r \in Requests, NEW k \in Keys, k = Key(r), NEW l \in Keys, l = Call(req[r]).from, l # k,
           Call(req[r]).op = "copy", NEW w, NEW s, Source(r),
           CopyOK(req[r], w, View(k), s, View(l), Above[k] \cap dirs)
    PROVE  CopyOK(req'[r], w, View(k)', s, View(l)', Above[k] \cap dirs')
<1> DEFINE q == req[r]
           q1 == req'[r]
           c == Call(q)
<1>1. /\ KeepFs /\ q.pc = "source"
      /\ \/ View(l).ino = 0 /\ Ended(q1, q, "404", {})
         \/ View(l).ino # 0 /\ ReadOutcome(c.srcCond, View(l)) # "ok" /\ Ended(q1, q, "412", {})
         \/ /\ View(l).ino # 0 /\ ReadOutcome(c.srcCond, View(l)) = "ok" /\ Moved(q1, q, "check", {"size"})
            /\ q1.size = Len(View(l).f.data)
  BY SourceStep
<1>2. View(k)' = View(k) /\ View(l)' = View(l) /\ dirs' = dirs
  BY <1>1, ViewKept
<1>3. q.flying = {}
  BY <1>1, HandlersOK DEF HandlerOK
<1>4. View(k) = w /\ View(l) = s /\ q.tags = c.tags /\ q.meta = c.meta
  BY <1>1 DEF CopyOK
<1>5. ASSUME NEW a, Ended(q1, q, a, {}) PROVE q1.pc = "done" /\ q1.answer = a /\ Call(q1) = c /\ q1.flying = {}
  BY <1>3, <1>5, EndedCall
<1>6. CASE View(l).ino = 0 /\ Ended(q1, q, "404", {})
  <2>1. q1.pc = "done" /\ q1.answer = "404" /\ Call(q1) = c /\ q1.flying = {}
    BY <1>5, <1>6
  <2> HIDE DEF q, q1, c
  <2> QED BY <1>2, <1>4, <1>6, <2>1 DEF CopyOK, q1
<1>7. CASE View(l).ino # 0 /\ ReadOutcome(c.srcCond, View(l)) # "ok" /\ Ended(q1, q, "412", {})
  <2>1. q1.pc = "done" /\ q1.answer = "412" /\ Call(q1) = c /\ q1.flying = {}
    BY <1>5, <1>7
  <2> HIDE DEF q, q1, c
  <2> QED BY <1>2, <1>4, <1>7, <2>1 DEF CopyOK, q1
<1>8. CASE /\ View(l).ino # 0 /\ ReadOutcome(c.srcCond, View(l)) = "ok" /\ Moved(q1, q, "check", {"size"})
           /\ q1.size = Len(View(l).f.data)
  <2>1. q1.pc = "check" /\ Call(q1) = c
    BY <1>8, MovedCall
  <2>2. q1.tags = q.tags /\ q1.meta = q.meta
    BY <1>8 DEF Moved, Fields
  <2> HIDE DEF q, q1, c
  <2> QED BY <1>2, <1>4, <1>8, <2>1, <2>2 DEF CopyOK, q1
<1> QED BY <1>1, <1>6, <1>7, <1>8

LEMMA CopyCheck ==
    ASSUME TypeInv, NEW r \in Requests, NEW k \in Keys, k = Key(r), NEW l \in Keys, l = Call(req[r]).from, l # k,
           Call(req[r]).op = "copy", NEW w, NEW s, Check(r),
           CopyOK(req[r], w, View(k), s, View(l), Above[k] \cap dirs)
    PROVE  CopyOK(req'[r], w, View(k)', s, View(l)', Above[k] \cap dirs')
<1> DEFINE q == req[r]
           q1 == req'[r]
           c == Call(q)
<1>1. /\ KeepFs /\ q.pc = "check"
      /\ \/ WriteFails412(c.cond, View(k)) /\ Ended(q1, q, "412", {})
         \/ ~WriteFails412(c.cond, View(k)) /\ q.size > CopyMax /\ Ended(q1, q, "400", {})
         \/ ~WriteFails412(c.cond, View(k)) /\ ~(q.size > CopyMax) /\ Moved(q1, q, "srcattrs", {})
  BY CheckStep DEF Cond
<1>2. View(k)' = View(k) /\ View(l)' = View(l) /\ dirs' = dirs
  BY <1>1, ViewKept
<1>3. q.flying = {}
  BY <1>1, HandlersOK DEF HandlerOK
<1>4. /\ View(k) = w /\ View(l) = s /\ q.tags = c.tags /\ q.meta = c.meta /\ q.size = Len(s.f.data)
      /\ s.ino # 0 /\ ReadOutcome(c.srcCond, s) = "ok"
  BY <1>1 DEF CopyOK
<1>5. ASSUME NEW a, Ended(q1, q, a, {}) PROVE q1.pc = "done" /\ q1.answer = a /\ Call(q1) = c /\ q1.flying = {}
  BY <1>3, <1>5, EndedCall
<1>6. CASE WriteFails412(c.cond, View(k)) /\ Ended(q1, q, "412", {})
  <2>1. q1.pc = "done" /\ q1.answer = "412" /\ Call(q1) = c /\ q1.flying = {}
    BY <1>5, <1>6
  <2> HIDE DEF q, q1, c
  <2> QED BY <1>2, <1>4, <1>6, <2>1 DEF CopyOK, q1
<1>7. CASE ~WriteFails412(c.cond, View(k)) /\ q.size > CopyMax /\ Ended(q1, q, "400", {})
  <2>1. q1.pc = "done" /\ q1.answer = "400" /\ Call(q1) = c /\ q1.flying = {}
    BY <1>5, <1>7
  <2> HIDE DEF q, q1, c
  <2> QED BY <1>2, <1>4, <1>7, <2>1 DEF CopyOK, q1
<1>8. CASE ~WriteFails412(c.cond, View(k)) /\ ~(q.size > CopyMax) /\ Moved(q1, q, "srcattrs", {})
  <2>1. q1.pc = "srcattrs" /\ Call(q1) = c
    BY <1>8, MovedCall
  <2>2. q1.tags = q.tags /\ q1.meta = q.meta /\ q1.size = q.size
    BY <1>8 DEF Moved, Fields
  <2> HIDE DEF q, q1, c
  <2> QED BY <1>2, <1>4, <1>8, <2>1, <2>2 DEF CopyOK, q1
<1> QED BY <1>1, <1>6, <1>7, <1>8

LEMMA CopyAttrs ==
    ASSUME TypeInv, NEW r \in Requests, NEW k \in Keys, k = Key(r), NEW l \in Keys, l = Call(req[r]).from, l # k,
           Call(req[r]).op = "copy", NEW w, NEW s, SrcAttrs(r),
           CopyOK(req[r], w, View(k), s, View(l), Above[k] \cap dirs)
    PROVE  CopyOK(req'[r], w, View(k)', s, View(l)', Above[k] \cap dirs')
<1> DEFINE q == req[r]
           q1 == req'[r]
           c == Call(q)
<1>0. q.pc = "srcattrs" /\ KeepFs
  BY SrcAttrsStep
<1>1. /\ View(k) = w /\ View(l) = s /\ q.tags = c.tags /\ q.meta = c.meta /\ q.size = Len(s.f.data)
      /\ s.ino # 0 /\ ReadOutcome(c.srcCond, s) = "ok" /\ ~WriteFails412(c.cond, w) /\ ~(Len(s.f.data) > CopyMax)
  BY <1>0 DEF CopyOK
<1>2. name[l] # 0 /\ file[name[l]] = s.f
  BY <1>1 DEF View, NoView, FdView
<1>3. \/ c.replace /\ Moved(q1, q, "mkdirs", {})
      \/ /\ ~c.replace /\ Moved(q1, q, "mkdirs", {"tags", "meta"})
         /\ q1.tags = s.f.tags /\ q1.meta = s.f.meta
  BY <1>2, SrcAttrsStep
<1>4. View(k)' = View(k) /\ View(l)' = View(l) /\ dirs' = dirs
  BY <1>0, ViewKept
<1>5. q1.pc = "mkdirs" /\ Call(q1) = c
  BY <1>3, MovedCall
<1>6. q1.size = q.size
  BY <1>3 DEF Moved, Fields
<1>7. q1.tags = CopyTags(c, s) /\ q1.meta = CopyMeta(c, s)
  <2>1. CASE c.replace /\ Moved(q1, q, "mkdirs", {})
    <3>1. q1.tags = q.tags /\ q1.meta = q.meta
      BY <2>1 DEF Moved, Fields
    <3> QED BY <1>1, <2>1, <3>1 DEF CopyTags, CopyMeta
  <2>2. CASE ~c.replace /\ q1.tags = s.f.tags /\ q1.meta = s.f.meta
    BY <2>2 DEF CopyTags, CopyMeta
  <2> QED BY <1>3, <2>1, <2>2
<1> HIDE DEF q, q1, c
<1> QED BY <1>1, <1>4, <1>5, <1>6, <1>7 DEF CopyOK, q1

LEMMA CopyMkdirs ==
    ASSUME TypeInv, NEW r \in Requests, NEW k \in Keys, k = Key(r), NEW l \in Keys, l = Call(req[r]).from, l # k,
           Call(req[r]).op = "copy", NEW w, NEW s, Mkdirs(r),
           CopyOK(req[r], w, View(k), s, View(l), Above[k] \cap dirs)
    PROVE  CopyOK(req'[r], w, View(k)', s, View(l)', Above[k] \cap dirs')
<1> DEFINE q == req[r]
           q1 == req'[r]
           c == Call(q)
<1>1. /\ Fs(name, dirs \cup Above[k] \cup ({k} \cap Dirs), file) /\ q.pc = "mkdirs" /\ Moved(q1, q, "opensrc", {})
  BY MkdirsStep
<1>2. View(k)' = View(k) /\ View(l)' = View(l) /\ Above[k] \subseteq Above[k] \cap dirs'
  BY <1>1 DEF Fs, View, FdView
<1>3. /\ View(k) = w /\ View(l) = s /\ q.tags = CopyTags(c, s) /\ q.meta = CopyMeta(c, s) /\ q.size = Len(s.f.data)
      /\ s.ino # 0 /\ ReadOutcome(c.srcCond, s) = "ok" /\ ~WriteFails412(c.cond, w) /\ ~(Len(s.f.data) > CopyMax)
  BY <1>1 DEF CopyOK
<1>4. q1.pc = "opensrc" /\ Call(q1) = c
  BY <1>1, MovedCall
<1>5. q1.tags = q.tags /\ q1.meta = q.meta /\ q1.size = q.size
  BY <1>1 DEF Moved, Fields
<1>6. c.key = k
  BY DEF Key
<1> HIDE DEF q, q1, c
<1> QED BY <1>2, <1>3, <1>4, <1>5, <1>6 DEF CopyOK, q1

LEMMA CopyOpen ==
    ASSUME TypeInv, NEW r \in Requests, NEW k \in Keys, k = Key(r), NEW l \in Keys, l = Call(req[r]).from, l # k,
           Call(req[r]).op = "copy", NEW w, NEW s, OpenSource(r),
           CopyOK(req[r], w, View(k), s, View(l), Above[k] \cap dirs)
    PROVE  CopyOK(req'[r], w, View(k)', s, View(l)', Above[k] \cap dirs')
<1> DEFINE q == req[r]
           q1 == req'[r]
           c == Call(q)
<1>0. q.pc = "opensrc" /\ KeepFs /\ c.key = k
  BY OpenSourceStep DEF Key
<1>1. /\ View(k) = w /\ View(l) = s /\ q.tags = CopyTags(c, s) /\ q.meta = CopyMeta(c, s) /\ q.size = Len(s.f.data)
      /\ s.ino # 0 /\ ReadOutcome(c.srcCond, s) = "ok" /\ ~WriteFails412(c.cond, w) /\ ~(Len(s.f.data) > CopyMax)
      /\ Above[k] \subseteq Above[k] \cap dirs
  BY <1>0 DEF CopyOK
<1>2. name[l] # 0 /\ name[l] = s.ino
  BY <1>1 DEF View, NoView, FdView
<1>3. Moved(q1, q, "create", {"src"}) /\ q1.src = s.ino
  BY <1>2, OpenSourceStep
<1>4. View(k)' = View(k) /\ View(l)' = View(l) /\ dirs' = dirs
  BY <1>0, ViewKept
<1>5. q1.pc = "create" /\ Call(q1) = c
  BY <1>3, MovedCall
<1>6. q1.tags = q.tags /\ q1.meta = q.meta /\ q1.size = q.size
  BY <1>3 DEF Moved, Fields
<1> HIDE DEF q, q1, c
<1> QED BY <1>0, <1>1, <1>3, <1>4, <1>5, <1>6 DEF CopyOK, q1

LEMMA CopyCreate ==
    ASSUME TypeInv, NEW r \in Requests, NEW k \in Keys, k = Key(r), NEW l \in Keys, l = Call(req[r]).from, l # k,
           Call(req[r]).op = "copy", NEW w, NEW s, Create(r),
           CopyOK(req[r], w, View(k), s, View(l), Above[k] \cap dirs)
    PROVE  CopyOK(req'[r], w, View(k)', s, View(l)', Above[k] \cap dirs')
<1> DEFINE q == req[r]
           q1 == req'[r]
           c == Call(q)
           v1 == View(k)'
<1>0. c.key = k /\ q.pc = "create"
  BY CreateStep DEF Key
<1>1. /\ View(l) = s /\ q.tags = CopyTags(c, s) /\ q.meta = CopyMeta(c, s) /\ q.size = Len(s.f.data)
      /\ s.ino # 0 /\ ReadOutcome(c.srcCond, s) = "ok" /\ ~WriteFails412(c.cond, w) /\ ~(Len(s.f.data) > CopyMax)
      /\ Above[k] \subseteq dirs /\ q.src = s.ino
  BY <1>0 DEF CopyOK
<1>2. /\ Moved(q1, q, "body", {"fd", "todo"}) /\ q1.todo = 1..q.size /\ v1.ino = q1.fd /\ Len(v1.f.data) = q.size
      /\ View(l)' = View(l)
  BY <1>1, CreateView
<1>3. q1.pc = "body" /\ Call(q1) = c
  BY <1>2, MovedCall
<1>4. q1.tags = q.tags /\ q1.meta = q.meta /\ q1.size = q.size /\ q1.flying = q.flying /\ q1.src = q.src
  BY <1>2 DEF Moved, Fields
<1>5. q.flying = {}
  BY <1>0, HandlersOK DEF HandlerOK
<1> HIDE DEF q, q1, c, v1
<1>6. Filling(q1, v1, s.f.data)
  BY <1>1, <1>2, <1>4, <1>5, FillStart
<1> QED BY <1>1, <1>2, <1>3, <1>4, <1>6 DEF CopyOK, q1, v1

LEMMA CopyBody ==
    ASSUME TypeInv, NEW r \in Requests, NEW k \in Keys, k = Key(r), NEW l \in Keys, l = Call(req[r]).from, l # k,
           Call(req[r]).op = "copy", NEW w, NEW s, CopyChunk(r), ~req[r].failed,
           CopyOK(req[r], w, View(k), s, View(l), Above[k] \cap dirs)
    PROVE  CopyOK(req'[r], w, View(k)', s, View(l)', Above[k] \cap dirs')
<1> DEFINE q == req[r]
           q1 == req'[r]
           c == Call(q)
           n == First(q.todo)
           data == s.f.data
<1>0. q.pc = "body" /\ q.todo # {} /\ KeepFs
  BY CopyChunkStep
<1>1. /\ View(l) = s /\ q.tags = CopyTags(c, s) /\ q.meta = CopyMeta(c, s) /\ q.size = Len(data)
      /\ s.ino # 0 /\ ReadOutcome(c.srcCond, s) = "ok" /\ ~WriteFails412(c.cond, w) /\ ~(Len(data) > CopyMax)
      /\ q.src = s.ino /\ q.fd = View(k).ino /\ Filling(q, View(k), data)
  BY <1>0 DEF CopyOK
<1>2. file[q.src].data = data /\ data \in Seq(Byte)
  <2>1. file[q.src].data = data
    BY <1>1 DEF View, NoView, FdView
  <2>2. View(l).f.data \in Seq(Byte)
    BY ViewFacts
  <2> QED BY <1>1, <2>1, <2>2
<1>3. n \in q.todo /\ n \in 1..Len(data) /\ ~(n > Len(data))
  <2>1. n \in q.todo
    BY <1>0, BodyTodo
  <2>2. n \in 1..Len(data) /\ Len(data) \in Nat
    BY <1>1, <1>2, <2>1, LenProperties DEF Filling
  <2> QED BY <2>1, <2>2
<1>4. /\ Moved(q1, q, "body", {"todo", "flying"}) /\ q1.todo = q.todo \ {n}
      /\ q1.flying = q.flying \cup {<<n, data[n]>>}
  BY <1>2, <1>3, CopyChunkStep
<1>5. View(k)' = View(k) /\ View(l)' = View(l)
  BY <1>0, ViewKept
<1>6. q1.pc = "body" /\ Call(q1) = c
  BY <1>4, MovedCall
<1>7. q1.tags = q.tags /\ q1.meta = q.meta /\ q1.size = q.size /\ q1.fd = q.fd /\ q1.src = q.src
  BY <1>4 DEF Moved, Fields
<1> HIDE DEF q, q1, c, n
<1>8. Filling(q1, View(k), data)
  <2> HIDE DEF data
  <2> QED BY <1>1, <1>3, <1>4, FillSend
<1> QED BY <1>1, <1>5, <1>6, <1>7, <1>8 DEF CopyOK, q1

LEMMA CopyLand ==
    ASSUME TypeInv, NEW r \in Requests, NEW k \in Keys, k = Key(r), NEW l \in Keys, l = Call(req[r]).from, l # k,
           Call(req[r]).op = "copy", NEW w, NEW s, WriteLands(r),
           CopyOK(req[r], w, View(k), s, View(l), Above[k] \cap dirs)
    PROVE  CopyOK(req'[r], w, View(k)', s, View(l)', Above[k] \cap dirs')
<1> DEFINE q == req[r]
           q1 == req'[r]
           c == Call(q)
           v == View(k)
           v1 == View(k)'
           data == s.f.data
<1>0. q.pc = "body"
  <2>1. q.flying # {}
    BY DEF WriteLands
  <2> QED BY <2>1, HandlersOK DEF HandlerOK, CopyOK
<1>1. /\ View(l) = s /\ q.tags = CopyTags(c, s) /\ q.meta = CopyMeta(c, s) /\ q.size = Len(data)
      /\ s.ino # 0 /\ ReadOutcome(c.srcCond, s) = "ok" /\ ~WriteFails412(c.cond, w) /\ ~(Len(data) > CopyMax)
      /\ q.src = s.ino /\ q.fd = v.ino /\ Filling(q, v, data)
  BY <1>0 DEF CopyOK
<1>2. PICK x \in Nat \ {0}, b \in Byte :
        /\ <<x, b>> \in q.flying /\ q1.flying = q.flying \ {<<x, b>>} /\ Moved(q1, q, "body", {"flying"})
        /\ v1.ino = v.ino /\ v1.f = Pwrite(v.f, x, b)
  <2>1. req[r].fd = View(k).ino
    BY <1>1
  <2>2. /\ Moved(req'[r], req[r], "body", {"flying"})
        /\ \E x \in Nat \ {0}, b \in Byte :
             /\ <<x, b>> \in req[r].flying /\ req'[r].flying = req[r].flying \ {<<x, b>>}
             /\ View(k)'.ino = View(k).ino /\ View(k)'.f = Pwrite(View(k).f, x, b)
    BY <1>0, <2>1, LandView
  <2> QED BY <2>2
<1>3. View(l)' = s
  <2>1. req[r].fd = View(k).ino
    BY <1>1
  <2>2. View(l)' = View(l)
    BY <1>0, <2>1, LandView
  <2> QED BY <1>1, <2>2
<1>4. q1.pc = "body" /\ Call(q1) = c
  BY <1>2, MovedCall
<1>5. q1.tags = q.tags /\ q1.meta = q.meta /\ q1.size = q.size /\ q1.fd = q.fd /\ q1.src = q.src /\ q1.todo = q.todo
  BY <1>2 DEF Moved, Fields
<1>6. data \in Seq(Byte) /\ IsFile(v.f) /\ now \in Nat
  <2>1. View(l).f.data \in Seq(Byte)
    BY ViewFacts
  <2>2. IsFile(v.f) /\ now \in Nat
    BY <1>0, <1>1, BodyView
  <2> QED BY <1>1, <2>1, <2>2
<1> HIDE DEF q, q1, c, v, v1
<1>7. Filling(q1, v1, data)
  <2> HIDE DEF data
  <2> QED BY <1>1, <1>2, <1>5, <1>6, FillLand
<1> QED BY <1>1, <1>2, <1>3, <1>4, <1>5, <1>7 DEF CopyOK, q1, v1

LEMMA CopyBodyEnd ==
    ASSUME TypeInv, NEW r \in Requests, NEW k \in Keys, k = Key(r), NEW l \in Keys, l = Call(req[r]).from, l # k,
           Call(req[r]).op = "copy", NEW w, NEW s, BodyEnd(r), ~req[r].failed,
           CopyOK(req[r], w, View(k), s, View(l), Above[k] \cap dirs)
    PROVE  CopyOK(req'[r], w, View(k)', s, View(l)', Above[k] \cap dirs')
<1> DEFINE q == req[r]
           q1 == req'[r]
           c == Call(q)
           data == s.f.data
<1>0. q.pc = "body" /\ q.todo = {} /\ q.flying = {} /\ KeepFs /\ Moved(q1, q, "trunc", {})
  BY BodyEndStep
<1>1. /\ View(l) = s /\ q.tags = CopyTags(c, s) /\ q.meta = CopyMeta(c, s) /\ q.size = Len(data)
      /\ s.ino # 0 /\ ReadOutcome(c.srcCond, s) = "ok" /\ ~WriteFails412(c.cond, w) /\ ~(Len(data) > CopyMax)
      /\ q.fd = View(k).ino /\ Filling(q, View(k), data)
  BY <1>0 DEF CopyOK
<1>2. View(k)' = View(k) /\ View(l)' = View(l)
  BY <1>0, ViewKept
<1>3. q1.pc = "trunc" /\ Call(q1) = c
  BY <1>0, MovedCall
<1>4. q1.tags = q.tags /\ q1.meta = q.meta /\ q1.size = q.size /\ q1.fd = q.fd
  BY <1>0 DEF Moved, Fields
<1>5. data \in Seq(Byte) /\ IsFile(View(k).f) /\ View(k).ino # 0
  <2>1. View(l).f.data \in Seq(Byte)
    BY ViewFacts
  <2>2. q.fd # 0
    BY <1>0, HandlersOK DEF HandlerOK, LatePCs
  <2>3. IsFile(View(k).f)
    BY <1>0, <1>1, BodyView
  <2> QED BY <1>1, <2>1, <2>2, <2>3
<1> HIDE DEF q, q1, c
<1>6. View(k).f.data = data
  <2> HIDE DEF data
  <2> QED BY <1>0, <1>1, <1>5, FillEnd
<1> QED BY <1>1, <1>2, <1>3, <1>4, <1>5, <1>6 DEF CopyOK, q1

LEMMA CopyTrunc ==
    ASSUME TypeInv, NEW r \in Requests, NEW k \in Keys, k = Key(r), NEW l \in Keys, l = Call(req[r]).from, l # k,
           Call(req[r]).op = "copy", NEW w, NEW s, Trunc(r),
           CopyOK(req[r], w, View(k), s, View(l), Above[k] \cap dirs)
    PROVE  CopyOK(req'[r], w, View(k)', s, View(l)', Above[k] \cap dirs')
<1> DEFINE q == req[r]
           q1 == req'[r]
           c == Call(q)
           v1 == View(k)'
           data == s.f.data
<1>0. q.pc = "trunc" /\ Moved(q1, q, "tags", {"fd", "src"})
  BY TruncStep
<1>1. /\ View(l) = s /\ q.tags = CopyTags(c, s) /\ q.meta = CopyMeta(c, s) /\ q.size = Len(data)
      /\ s.ino # 0 /\ ReadOutcome(c.srcCond, s) = "ok" /\ ~WriteFails412(c.cond, w) /\ ~(Len(data) > CopyMax)
      /\ q.fd = View(k).ino /\ View(k).f.data = data
  BY <1>0 DEF CopyOK
<1>2. v1.ino # 0 /\ v1.f.data = data /\ View(l)' = s
  <2>1. req[r].fd = View(k).ino /\ req[r].size = Len(View(k).f.data)
    BY <1>1
  <2>2. /\ View(k)'.ino = View(k).ino /\ View(k).ino # 0 /\ View(k)'.f.data = View(k).f.data
        /\ View(l)' = View(l)
    BY <2>1, TruncView
  <2> QED BY <1>1, <2>2
<1>3. q1.pc = "tags" /\ Call(q1) = c
  BY <1>0, MovedCall
<1>4. q1.tags = q.tags /\ q1.meta = q.meta
  BY <1>0 DEF Moved, Fields
<1> HIDE DEF q, q1, c, v1
<1> QED BY <1>1, <1>2, <1>3, <1>4 DEF CopyOK, q1, v1

LEMMA CopySetTags ==
    ASSUME TypeInv, NEW r \in Requests, NEW k \in Keys, k = Key(r), NEW l \in Keys, l = Call(req[r]).from, l # k,
           Call(req[r]).op = "copy", NEW w, NEW s, Tags(r),
           CopyOK(req[r], w, View(k), s, View(l), Above[k] \cap dirs)
    PROVE  CopyOK(req'[r], w, View(k)', s, View(l)', Above[k] \cap dirs')
<1> DEFINE q == req[r]
           q1 == req'[r]
           c == Call(q)
           v == View(k)
           v1 == View(k)'
           data == s.f.data
<1>0. q.pc = "tags"
  BY TagsStep
<1>1. /\ View(l) = s /\ q.tags = CopyTags(c, s) /\ q.meta = CopyMeta(c, s)
      /\ s.ino # 0 /\ ReadOutcome(c.srcCond, s) = "ok" /\ ~WriteFails412(c.cond, w) /\ ~(Len(data) > CopyMax)
      /\ v.ino # 0 /\ v.f.data = data
  BY <1>0 DEF CopyOK
<1>2. Ino(r) = name[k] /\ name[k] # 0
  BY <1>1, ViewFacts DEF Ino
<1>3. Fs(name, dirs, [file EXCEPT ![name[k]].tags = q.tags]) /\ Moved(q1, q, "meta", {})
  BY <1>2, TagsStep
<1>4. v1.ino = v.ino /\ v1.f.data = v.f.data /\ v1.f.tags = q.tags /\ View(l)' = View(l)
  BY <1>2, <1>3, AttrView
<1>5. q1.pc = "meta" /\ Call(q1) = c
  BY <1>3, MovedCall
<1>6. q1.tags = q.tags /\ q1.meta = q.meta
  BY <1>3 DEF Moved, Fields
<1> HIDE DEF q, q1, c, v, v1
<1> QED BY <1>1, <1>4, <1>5, <1>6 DEF CopyOK, q1, v1

LEMMA CopySetMeta ==
    ASSUME TypeInv, NEW r \in Requests, NEW k \in Keys, k = Key(r), NEW l \in Keys, l = Call(req[r]).from, l # k,
           Call(req[r]).op = "copy", NEW w, NEW s, Meta(r),
           CopyOK(req[r], w, View(k), s, View(l), Above[k] \cap dirs)
    PROVE  CopyOK(req'[r], w, View(k)', s, View(l)', Above[k] \cap dirs')
<1> DEFINE q == req[r]
           q1 == req'[r]
           c == Call(q)
           v == View(k)
           v1 == View(k)'
           data == s.f.data
<1>0. q.pc = "meta"
  BY MetaStep
<1>1. /\ View(l) = s /\ q.tags = CopyTags(c, s) /\ q.meta = CopyMeta(c, s)
      /\ s.ino # 0 /\ ReadOutcome(c.srcCond, s) = "ok" /\ ~WriteFails412(c.cond, w) /\ ~(Len(data) > CopyMax)
      /\ v.ino # 0 /\ v.f.data = data /\ v.f.tags = CopyTags(c, s)
  BY <1>0 DEF CopyOK
<1>2. Ino(r) = name[k] /\ name[k] # 0
  BY <1>1, ViewFacts DEF Ino
<1>3. Fs(name, dirs, [file EXCEPT ![name[k]].meta = q.meta]) /\ Moved(q1, q, "stat", {})
  BY <1>2, MetaStep
<1>4. v1.ino = v.ino /\ v1.f.data = v.f.data /\ v1.f.tags = v.f.tags /\ v1.f.meta = q.meta /\ View(l)' = View(l)
  BY <1>2, <1>3, AttrView
<1>5. q1.pc = "stat" /\ Call(q1) = c
  BY <1>3, MovedCall
<1>6. q1.tags = q.tags /\ q1.meta = q.meta
  BY <1>3 DEF Moved, Fields
<1> HIDE DEF q, q1, c, v, v1
<1> QED BY <1>1, <1>4, <1>5, <1>6 DEF CopyOK, q1, v1

LEMMA CopyStat ==
    ASSUME TypeInv, NEW r \in Requests, NEW k \in Keys, k = Key(r), NEW l \in Keys, l = Call(req[r]).from, l # k,
           Call(req[r]).op = "copy", NEW w, NEW s, Stat(r),
           CopyOK(req[r], w, View(k), s, View(l), Above[k] \cap dirs)
    PROVE  CopyOK(req'[r], w, View(k)', s, View(l)', Above[k] \cap dirs')
<1> DEFINE q == req[r]
           q1 == req'[r]
           c == Call(q)
           v == View(k)
           data == s.f.data
<1>0. q.pc = "stat" /\ KeepFs
  BY StatStep
<1>1. /\ View(l) = s /\ s.ino # 0 /\ ReadOutcome(c.srcCond, s) = "ok" /\ ~WriteFails412(c.cond, w)
      /\ ~(Len(data) > CopyMax) /\ v.ino # 0 /\ v.f.data = data
      /\ v.f.tags = CopyTags(c, s) /\ v.f.meta = CopyMeta(c, s)
  BY <1>0 DEF CopyOK
<1>2. Ino(r) # 0 /\ FdView(Ino(r)) = v /\ IsFile(v.f)
  BY <1>1, ViewFacts DEF Ino, View, NoView, FdView
<1>3. Ended(q1, q, "ok", {"seen"}) /\ q1.seen = ETag(v)
  BY <1>2, StatStep
<1>4. View(k)' = v /\ View(l)' = View(l)
  BY <1>0, ViewKept
<1>5. q1.pc = "done" /\ q1.answer = "ok" /\ Call(q1) = c /\ q1.flying = q.flying
  BY <1>3, EndedCall
<1>6. q.flying = {}
  BY <1>0, HandlersOK DEF HandlerOK
<1> HIDE DEF q, q1, c, v
<1>7. HasBecome(v, data, CopyTags(c, s), CopyMeta(c, s))
  BY <1>1, <1>2, Shape
<1> QED BY <1>1, <1>3, <1>4, <1>5, <1>6, <1>7 DEF CopyOK, q1

-----------------------------------------------------------------------------
(* DELETE. *)

LEMMA DeleteCheck ==
    ASSUME TypeInv, NEW r \in Requests, NEW k \in Keys, k = Key(r), Call(req[r]).op = "delete", NEW w, Check(r),
           DeleteOK(req[r], w, View(k))
    PROVE  DeleteOK(req'[r], w, View(k)')
<1> DEFINE q == req[r]
           q1 == req'[r]
           c == Call(q)
<1>1. /\ KeepFs /\ q.pc = "check"
      /\ \/ DeleteFails412(c.cond, View(k)) /\ Ended(q1, q, "412", {})
         \/ ~DeleteFails412(c.cond, View(k)) /\ Moved(q1, q, "remove", {})
  BY CheckStep DEF Cond
<1>2. View(k)' = View(k) /\ View(k) = w
  BY <1>1, ViewKept DEF DeleteOK
<1>3. q.flying = {}
  BY <1>1, HandlersOK DEF HandlerOK
<1>4. CASE DeleteFails412(c.cond, View(k)) /\ Ended(q1, q, "412", {})
  <2>1. q1.pc = "done" /\ q1.answer = "412" /\ Call(q1) = c /\ q1.flying = {}
    BY <1>3, <1>4, EndedCall
  <2> HIDE DEF q, q1, c
  <2> QED BY <1>2, <1>4, <2>1 DEF DeleteOK, q1
<1>5. CASE ~DeleteFails412(c.cond, View(k)) /\ Moved(q1, q, "remove", {})
  <2>1. q1.pc = "remove" /\ Call(q1) = c
    BY <1>5, MovedCall
  <2> HIDE DEF q, q1, c
  <2> QED BY <1>2, <1>5, <2>1 DEF DeleteOK, q1
<1> QED BY <1>1, <1>4, <1>5

\* A DELETE has one key.
LEMMA OneKey ==
    ASSUME TypeInv, NEW r \in Requests, NEW k \in Keys, k = Key(r), Call(req[r]).op = "delete",
           req[r].pc \in {"remove", "prune"}
    PROVE  Head(req[r].keys) = k /\ Len(req[r].keys) = 1 /\ k \notin Dirs
<1>1. req[r].keys = Call(req[r]).keys /\ CallOK(Call(req[r]))
  BY HandlersOK DEF HandlerOK
<1>2. req[r].keys = <<k>>
  BY <1>1 DEF CallOK, Key
<1> QED BY <1>2, TreeAssumption

LEMMA DeleteRemove ==
    ASSUME TypeInv, NEW r \in Requests, NEW k \in Keys, k = Key(r), Call(req[r]).op = "delete", NEW w, Remove(r),
           DeleteOK(req[r], w, View(k))
    PROVE  DeleteOK(req'[r], w, View(k)')
<1> DEFINE q == req[r]
           q1 == req'[r]
           c == Call(q)
<1>0. q.pc = "remove"
  BY RemoveStep
<1>1. Head(q.keys) = k /\ Len(q.keys) = 1 /\ k \notin Dirs
  BY <1>0, OneKey
<1>2. \/ name[k] = 0 /\ KeepFs /\ Ended(q1, q, "ok", {})
      \/ /\ name[k] # 0 /\ name' = [n \in Keys |-> IF n = k THEN 0 ELSE name[n]]
         /\ Moved(q1, q, "prune", {"dir"})
  BY <1>1, RemoveStep DEF Fs
<1>3. View(k) = w /\ ~DeleteFails412(c.cond, w) /\ q.flying = {}
  BY <1>0, HandlersOK DEF HandlerOK, DeleteOK
<1>4. CASE name[k] = 0 /\ KeepFs /\ Ended(q1, q, "ok", {})
  <2>1. q1.pc = "done" /\ q1.answer = "ok" /\ Call(q1) = c /\ q1.flying = {}
    BY <1>3, <1>4, EndedCall
  <2>2. View(k)'.ino = 0
    BY <1>4, ViewKept, ViewFacts
  <2> HIDE DEF q, q1, c
  <2> QED BY <1>3, <2>1, <2>2 DEF DeleteOK, q1
<1>5. CASE name'[k] = 0 /\ Moved(q1, q, "prune", {"dir"})
  <2>1. q1.pc = "prune" /\ Call(q1) = c
    BY <1>5, MovedCall
  <2>2. View(k)'.ino = 0
    BY <1>5 DEF View, NoView
  <2> HIDE DEF q, q1, c
  <2> QED BY <1>3, <2>1, <2>2 DEF DeleteOK, q1
<1> QED BY <1>2, <1>4, <1>5

LEMMA DeletePrune ==
    ASSUME TypeInv, NEW r \in Requests, NEW k \in Keys, k = Key(r), Call(req[r]).op = "delete", NEW w, Prune(r),
           DeleteOK(req[r], w, View(k))
    PROVE  DeleteOK(req'[r], w, View(k)')
<1> DEFINE q == req[r]
           q1 == req'[r]
           c == Call(q)
<1>0. q.pc = "prune"
  BY PruneStep
<1>1. Len(q.keys) = 1
  BY <1>0, OneKey
<1>2. name' = name /\ file' = file /\ (Ended(q1, q, "ok", {}) \/ Moved(q1, q, "prune", {"dir"}))
  BY <1>1, PruneStep DEF Fs, KeepFs, fsVars
<1>3. View(k).ino = 0 /\ ~DeleteFails412(c.cond, w) /\ q.flying = {}
  BY <1>0, HandlersOK DEF HandlerOK, DeleteOK
<1>4. View(k)' = View(k)
  BY <1>2 DEF View, FdView
<1>5. CASE Ended(q1, q, "ok", {})
  <2>1. q1.pc = "done" /\ q1.answer = "ok" /\ Call(q1) = c /\ q1.flying = {}
    BY <1>3, <1>5, EndedCall
  <2> HIDE DEF q, q1, c
  <2> QED BY <1>3, <1>4, <2>1 DEF DeleteOK, q1
<1>6. CASE Moved(q1, q, "prune", {"dir"})
  <2>1. q1.pc = "prune" /\ Call(q1) = c
    BY <1>6, MovedCall
  <2> HIDE DEF q, q1, c
  <2> QED BY <1>3, <1>4, <2>1 DEF DeleteOK, q1
<1> QED BY <1>2, <1>5, <1>6

-----------------------------------------------------------------------------
(* Which handler takes which step, and what no step changes. *)

LEMMA MovedKept ==
    ASSUME NEW q, NEW q1, NEW p, NEW F, Moved(q1, q, p, F), {"call", "failed"} \cap F = {}
    PROVE  q1.call = q.call /\ q1.failed = q.failed
BY DEF Moved, Fields

LEMMA EndedKept ==
    ASSUME NEW q, NEW q1, NEW a, NEW F, Ended(q1, q, a, F)
    PROVE  q1.call = q.call /\ q1.failed = q.failed
BY DEF Ended

LEMMA Kept ==
    ASSUME TypeInv, NEW r \in Requests, Handler(r) \/ WriteLands(r)
    PROVE  req[r].pc # "idle" /\ req'[r].call = req[r].call /\ (req[r].failed => req'[r].failed)
<1> DEFINE q == req[r]
           q1 == req'[r]
<1>1. \A p, F : Moved(q1, q, p, F) /\ {"call", "failed"} \cap F = {} => q1.call = q.call /\ q1.failed = q.failed
  BY MovedKept
<1>2. \A a, F : Ended(q1, q, a, F) => q1.call = q.call /\ q1.failed = q.failed
  BY EndedKept
<1>3. CASE CopyChunk(r)
  <2>1. CASE Moved(q1, q, "body", {"todo", "failed"}) /\ q1.failed = TRUE
    BY <1>3, <2>1, CopyChunkStep DEF Moved, Fields
  <2>2. CASE Moved(q1, q, "body", {"todo", "flying"})
    BY <1>1, <1>3, <2>2, CopyChunkStep, ZenonT(60)
  <2> QED BY <1>3, <2>1, <2>2, CopyChunkStep
<1>4. CASE Check(r)
  BY <1>1, <1>2, <1>4, CheckStep
<1>5. CASE Source(r)
  BY <1>1, <1>2, <1>5, SourceStep
<1>6. CASE SrcAttrs(r)
  BY <1>1, <1>2, <1>6, SrcAttrsStep
<1>7. CASE OpenSource(r)
  BY <1>1, <1>2, <1>7, OpenSourceStep
<1>8. CASE Mkdirs(r)
  <2>1. q.pc = "mkdirs" /\ (Moved(q1, q, "create", {}) \/ Moved(q1, q, "opensrc", {}) \/ Moved(q1, q, "statdir", {}))
    BY <1>8, MkdirsStep
  <2> HIDE DEF q, q1
  <2> QED BY <1>1, <1>2, <2>1 DEF q, q1
<1>9. CASE Create(r)
  BY <1>1, <1>2, <1>9, CreateStep
<1>10. CASE OpenExisting(r)
  BY <1>1, <1>2, <1>10, OpenExistingStep
<1>11. CASE Flock(r)
  BY <1>1, <1>2, <1>11, FlockStep
<1>12. CASE Offset(r)
  BY <1>1, <1>2, <1>12, OffsetStep
<1>13. CASE Receive(r)
  BY <1>1, <1>2, <1>13, ReceiveStep
<1>14. CASE BodyEnd(r)
  BY <1>1, <1>2, <1>14, BodyEndStep
<1>15. CASE Trunc(r)
  BY <1>1, <1>2, <1>15, TruncStep
<1>16. CASE Stat(r)
  BY <1>1, <1>2, <1>16, StatStep
<1>17. CASE Tags(r)
  <2>1. q.pc = "tags" /\ (Ended(q1, q, "500", {}) \/ Moved(q1, q, "meta", {}) \/ Ended(q1, q, "ok", {}))
    BY <1>17, TagsStep
  <2> HIDE DEF q, q1
  <2> QED BY <1>1, <1>2, <2>1 DEF q, q1
<1>18. CASE Meta(r)
  <2>1. q.pc = "meta" /\ (Ended(q1, q, "500", {}) \/ Moved(q1, q, "stat", {}) \/ Ended(q1, q, "ok", {}))
    BY <1>18, MetaStep
  <2> HIDE DEF q, q1
  <2> QED BY <1>1, <1>2, <2>1 DEF q, q1
<1>19. CASE Open(r)
  BY <1>1, <1>2, <1>19, OpenStep
<1>20. CASE Attrs(r)
  BY <1>1, <1>2, <1>20, AttrsStep
<1>21. CASE Small(r)
  BY <1>1, <1>2, <1>21, SmallStep
<1>22. CASE Stream(r)
  BY <1>1, <1>2, <1>22, StreamStep
<1>23. CASE ReadChunk(r)
  <2>1. q.pc = "reading" /\ (Moved(q1, q, "reading", {"todo"}) \/ Moved(q1, q, "reading", {"todo", "got"}))
    BY <1>23, ReadChunkStep
  <2> HIDE DEF q, q1
  <2> QED BY <1>1, <1>2, <2>1 DEF q, q1
<1>24. CASE RangeEnd(r)
  BY <1>1, <1>2, <1>24, RangeEndStep
<1>25. CASE Exists(r)
  BY <1>1, <1>2, <1>25, ExistsStep
<1>26. CASE ReadTags(r)
  BY <1>1, <1>2, <1>26, ReadTagsStep
<1>27. CASE Remove(r)
  BY <1>1, <1>2, <1>27, RemoveStep
<1>28. CASE Prune(r)
  BY <1>1, <1>2, <1>28, PruneStep
<1>29. CASE StatDir(r)
  BY <1>1, <1>2, <1>29, StatDirStep
<1>30. CASE WriteLands(r)
  <2>1. q.flying # {} /\ Moved(q1, q, q.pc, {"flying", "fd", "locked"})
    BY <1>30, WriteLandsStep
  <2>2. q.pc # "idle"
    BY <2>1, HandlersOK DEF HandlerOK
  <2> QED BY <1>1, <2>1, <2>2
<1> QED BY <1>3, <1>4, <1>5, <1>6, <1>7, <1>8, <1>9, <1>10, <1>11, <1>12, <1>13, <1>14, <1>15, <1>16, <1>17, <1>18, <1>19, <1>20, <1>21, <1>22, <1>23, <1>24, <1>25, <1>26, <1>27, <1>28, <1>29, <1>30 DEF Handler

LEMMA Acts ==
    ASSUME TypeInv, NEW r \in Requests, Handler(r) \/ WriteLands(r)
    PROVE  LET op == Call(req[r]).op IN
           /\ op = "put" => \/ Check(r) \/ Mkdirs(r) \/ Create(r) \/ Receive(r) \/ WriteLands(r) \/ BodyEnd(r) \/ Trunc(r)
                           \/ Stat(r) \/ Tags(r) \/ Meta(r)
           /\ op = "append" => OpenExisting(r) \/ Flock(r) \/ Offset(r) \/ Receive(r) \/ WriteLands(r) \/ BodyEnd(r) \/ Stat(r)
           /\ op = "copy" => \/ Source(r) \/ Check(r) \/ SrcAttrs(r) \/ Mkdirs(r) \/ OpenSource(r) \/ Create(r) \/ CopyChunk(r)
                           \/ WriteLands(r) \/ BodyEnd(r) \/ Trunc(r) \/ Tags(r) \/ Meta(r) \/ Stat(r)
           /\ op = "delete" => Check(r) \/ Remove(r) \/ Prune(r)
           /\ op = "get" => Open(r) \/ Attrs(r) \/ Small(r) \/ Stream(r) \/ ReadChunk(r) \/ RangeEnd(r)
           /\ op = "head" => Open(r) \/ Attrs(r)
           /\ op = "gettags" => Exists(r) \/ ReadTags(r)
<1>1. ASSUME WriteLands(r) PROVE Call(req[r]).op \in {"put", "append", "copy"}
  BY <1>1, HandlersOK DEF WriteLands, HandlerOK
<1>2. Check(r) => Call(req[r]).op \in {"put", "copy", "delete"}
  BY HandlerFacts DEF Check, At, OpsAt
<1>3. Source(r) => Call(req[r]).op \in {"copy"}
  BY SourceStep
<1>4. SrcAttrs(r) => Call(req[r]).op \in {"copy"}
  BY SrcAttrsStep
<1>5. OpenSource(r) => Call(req[r]).op \in {"copy"}
  BY OpenSourceStep
<1>6. Mkdirs(r) => Call(req[r]).op \in {"put", "copy", "mkdir"}
  BY MkdirsStep
<1>7. Create(r) => Call(req[r]).op \in {"put", "copy"}
  BY CreateStep
<1>8. OpenExisting(r) => Call(req[r]).op \in {"append"}
  BY OpenExistingStep
<1>9. Flock(r) => Call(req[r]).op \in {"append"}
  BY FlockStep
<1>10. Offset(r) => Call(req[r]).op \in {"append"}
  BY OffsetStep
<1>11. Receive(r) => Call(req[r]).op \in {"put", "append"}
  BY ReceiveStep
<1>12. CopyChunk(r) => Call(req[r]).op \in {"copy"}
  BY CopyChunkStep
<1>13. BodyEnd(r) => Call(req[r]).op \in {"put", "append", "copy"}
  BY BodyEndStep
<1>14. Trunc(r) => Call(req[r]).op \in {"put", "copy"}
  BY TruncStep
<1>15. Stat(r) => Call(req[r]).op \in {"put", "append", "copy"}
  BY StatStep
<1>16. Tags(r) => Call(req[r]).op \in {"put", "copy", "puttags"}
  BY TagsStep
<1>17. Meta(r) => Call(req[r]).op \in {"put", "copy"}
  BY MetaStep
<1>18. Open(r) => Call(req[r]).op \in {"get", "head"}
  BY OpenStep
<1>19. Attrs(r) => Call(req[r]).op \in {"get", "head"}
  BY AttrsStep
<1>20. Small(r) => Call(req[r]).op \in {"get"}
  BY SmallStep
<1>21. Stream(r) => Call(req[r]).op \in {"get"}
  BY StreamStep
<1>22. ReadChunk(r) => Call(req[r]).op \in {"get"}
  BY ReadChunkStep
<1>23. RangeEnd(r) => Call(req[r]).op \in {"get"}
  BY RangeEndStep
<1>24. Exists(r) => Call(req[r]).op \in {"gettags", "puttags"}
  BY ExistsStep
<1>25. ReadTags(r) => Call(req[r]).op \in {"gettags"}
  BY ReadTagsStep
<1>26. Remove(r) => Call(req[r]).op \in {"delete", "deletes", "rmdir"}
  BY RemoveStep
<1>27. Prune(r) => Call(req[r]).op \in {"delete", "deletes", "rmdir"}
  BY PruneStep
<1>28. StatDir(r) => Call(req[r]).op \in {"getdir", "mkdir"}
  BY StatDirStep
<1> QED BY <1>1, <1>2, <1>3, <1>4, <1>5, <1>6, <1>7, <1>8, <1>9, <1>10, <1>11, <1>12, <1>13, <1>14, <1>15, <1>16, <1>17, <1>18, <1>19, <1>20, <1>21, <1>22, <1>23, <1>24, <1>25, <1>26, <1>27, <1>28 DEF Handler

-----------------------------------------------------------------------------
(* Undisturbed writes. *)

\* Every step of its own handler does what the operation is for.
LEMMA PutSteps ==
    ASSUME TypeInv, NEW r \in Requests, NEW k \in Keys, k = Key(r), Call(req[r]).op = "put", NEW w,
           Handler(r) \/ WriteLands(r), ~req[r].failed, PutOK(r, req[r], w, View(k), Above[k] \cap dirs)
    PROVE  PutOK(r, req'[r], w, View(k)', Above[k] \cap dirs')
<1>1. \/ Check(r) \/ Mkdirs(r) \/ Create(r) \/ Receive(r) \/ WriteLands(r)
      \/ BodyEnd(r) \/ Trunc(r) \/ Stat(r) \/ Tags(r) \/ Meta(r)
  BY Acts
<1>2. CASE Check(r) \/ Mkdirs(r) \/ Create(r)
  BY <1>2, PutCheck, PutMkdirs, PutCreate
<1>3. CASE Receive(r) \/ WriteLands(r) \/ BodyEnd(r)
  BY <1>3, PutReceive, PutLand, PutBodyEnd
<1>4. CASE Trunc(r) \/ Stat(r)
  BY <1>4, PutTrunc, PutStat
<1>5. CASE Tags(r) \/ Meta(r)
  BY <1>5, PutTags, PutMeta
<1> QED BY <1>1, <1>2, <1>3, <1>4, <1>5

LEMMA AppendSteps ==
    ASSUME TypeInv, NEW r \in Requests, NEW k \in Keys, k = Key(r), Call(req[r]).op = "append", NEW w,
           Handler(r) \/ WriteLands(r), ~req[r].failed, AppendOK(r, req[r], w, View(k)), w.f.data \in Seq(Byte)
    PROVE  AppendOK(r, req'[r], w, View(k)')
<1>1. OpenExisting(r) \/ Flock(r) \/ Offset(r) \/ Receive(r) \/ WriteLands(r) \/ BodyEnd(r) \/ Stat(r)
  BY Acts
<1>2. CASE OpenExisting(r) \/ Flock(r) \/ Offset(r)
  BY <1>2, AppendStart, AppendOffset
<1>3. CASE Receive(r) \/ WriteLands(r)
  BY <1>3, AppendReceive, AppendLand
<1>4. CASE BodyEnd(r) \/ Stat(r)
  BY <1>4, AppendEnd, AppendStat
<1> QED BY <1>1, <1>2, <1>3, <1>4

LEMMA CopySteps ==
    ASSUME TypeInv, NEW r \in Requests, NEW k \in Keys, k = Key(r), NEW l \in Keys, l = Call(req[r]).from, l # k,
           Call(req[r]).op = "copy", NEW w, NEW s, Handler(r) \/ WriteLands(r), ~req[r].failed,
           CopyOK(req[r], w, View(k), s, View(l), Above[k] \cap dirs)
    PROVE  CopyOK(req'[r], w, View(k)', s, View(l)', Above[k] \cap dirs')
<1>1. \/ Source(r) \/ Check(r) \/ SrcAttrs(r) \/ Mkdirs(r) \/ OpenSource(r) \/ Create(r) \/ CopyChunk(r)
      \/ WriteLands(r) \/ BodyEnd(r) \/ Trunc(r) \/ Tags(r) \/ Meta(r) \/ Stat(r)
  BY Acts
<1>2. CASE Source(r) \/ Check(r) \/ SrcAttrs(r)
  BY <1>2, CopySource, CopyCheck, CopyAttrs
<1>3. CASE Mkdirs(r) \/ OpenSource(r) \/ Create(r)
  BY <1>3, CopyMkdirs, CopyOpen, CopyCreate
<1>4. CASE CopyChunk(r) \/ WriteLands(r) \/ BodyEnd(r)
  BY <1>4, CopyBody, CopyLand, CopyBodyEnd
<1>5. CASE Trunc(r) \/ Tags(r) \/ Meta(r) \/ Stat(r)
  BY <1>5, CopyTrunc, CopySetTags, CopySetMeta, CopyStat
<1> QED BY <1>1, <1>2, <1>3, <1>4, <1>5

LEMMA DeleteSteps ==
    ASSUME TypeInv, NEW r \in Requests, NEW k \in Keys, k = Key(r), Call(req[r]).op = "delete", NEW w,
           Handler(r) \/ WriteLands(r), DeleteOK(req[r], w, View(k))
    PROVE  DeleteOK(req'[r], w, View(k)')
<1>1. Check(r) \/ Remove(r) \/ Prune(r)
  BY Acts
<1> QED BY <1>1, DeleteCheck, DeleteRemove, DeletePrune

\* No step of its handler disturbs a request.
LEMMA QuietOwn ==
    ASSUME TypeInv, NEW r \in Requests, Handler(r) \/ WriteLands(r)
    PROVE  /\ Call(req'[r]) = Call(req[r]) /\ req[r].pc # "idle" /\ was' = was
           /\ Quiet(r)' => Quiet(r)
<1>1. PICK q : Step(r, q)
  BY HandlerStep
<1>2. req[r].pc # "idle" /\ req'[r].call = req[r].call /\ (req[r].failed => req'[r].failed)
  BY Kept
<1>3. was' = was
  BY <1>1 DEF Step
<1>4. Call(req'[r]) = Call(req[r])
  BY <1>2 DEF Call
<1>5. Quiet(r)' => Quiet(r)
  BY <1>1, <1>2, QuietStep
<1> QED BY <1>2, <1>3, <1>4, <1>5

LEMMA WriteOwn ==
    ASSUME TypeInv, WasInv, NEW r \in Requests, Handler(r) \/ WriteLands(r), Quiet(r) => WriteOK(r)
    PROVE  Quiet(r)' => WriteOK(r)'
<1> SUFFICES ASSUME Quiet(r)' PROVE WriteOK(r)'
  OBVIOUS
<1>1. Call(req'[r]) = Call(req[r]) /\ req[r].pc # "idle" /\ was' = was /\ Quiet(r)
  BY QuietOwn
<1>2. WriteOK(r) /\ ~req[r].failed
  BY <1>1 DEF Quiet
<1>3. PICK k, l, w, s : k = Key(r) /\ l = Call(req[r]).from /\ w = was[r][k] /\ s = was[r][l] /\ Key(r)' = k
  BY <1>1 DEF Key
<1>4. ASSUME Call(req[r]).op \notin DirOps PROVE k \in Keys /\ IsFile(w.f)
  <2>1. k \in Keys
    BY <1>1, <1>3, <1>4, Looks
  <2> QED BY <1>1, <1>3, <2>1 DEF WasInv, WasOK
<1>5. CASE Call(req[r]).op = "put"
  <2>1. PutOK(r, req[r], w, View(k), Above[k] \cap dirs) /\ k \in Keys
    BY <1>2, <1>3, <1>4, <1>5 DEF WriteOK, DirOps
  <2>2. PutOK(r, req'[r], w, View(k)', Above[k] \cap dirs')
    BY <1>2, <1>3, <1>5, <2>1, PutSteps
  <2> QED BY <1>1, <1>3, <1>5, <2>2 DEF WriteOK
<1>6. CASE Call(req[r]).op = "append"
  <2>1. AppendOK(r, req[r], w, View(k)) /\ k \in Keys /\ w.f.data \in Seq(Byte)
    BY <1>2, <1>3, <1>4, <1>6 DEF WriteOK, DirOps, IsFile
  <2>2. AppendOK(r, req'[r], w, View(k)')
    BY <1>2, <1>3, <1>6, <2>1, AppendSteps
  <2> QED BY <1>1, <1>3, <1>6, <2>2 DEF WriteOK
<1>7. CASE Call(req[r]).op = "copy"
  <2>0. CASE l = k
    BY <1>1, <1>3, <1>7, <2>0 DEF WriteOK
  <2>1. CASE l # k
    <3>1. CopyOK(req[r], w, View(k), s, View(l), Above[k] \cap dirs) /\ k \in Keys /\ l \in Keys
      BY <1>1, <1>2, <1>3, <1>4, <1>7, <2>1, Looks DEF WriteOK, DirOps
    <3>2. CopyOK(req'[r], w, View(k)', s, View(l)', Above[k] \cap dirs')
      BY <1>2, <1>3, <1>7, <2>1, <3>1, CopySteps
    <3> QED BY <1>1, <1>3, <1>7, <3>2 DEF WriteOK
  <2> QED BY <2>0, <2>1
<1>8. CASE Call(req[r]).op = "delete"
  <2>1. DeleteOK(req[r], w, View(k)) /\ k \in Keys
    BY <1>2, <1>3, <1>4, <1>8 DEF WriteOK, DirOps
  <2>2. DeleteOK(req'[r], w, View(k)')
    BY <1>3, <1>8, <2>1, DeleteSteps
  <2> QED BY <1>1, <1>3, <1>8, <2>2 DEF WriteOK
<1>9. CASE Call(req[r]).op \notin {"put", "append", "copy", "delete"}
  BY <1>1, <1>9 DEF WriteOK
<1> QED BY <1>5, <1>6, <1>7, <1>8, <1>9

LEMMA KeepSame == ASSUME NEW x, KeepFs PROVE Same(x)
<1>1. dirs' = dirs /\ \A k : View(k)' = View(k)
  BY ViewKept
<1>2. \A k : (Above[k] \cap dirs)' = Above[k] \cap dirs
  BY <1>1 DEF Above
<1> QED BY <1>1, <1>2 DEF Same

\* A step from the view of one request: its handler's, its arrival, a fault of
\* its own, or a step of somebody else, which it notices or not.
LEMMA StepOf ==
    ASSUME TypeInv, [Next]_vars, NEW x \in Requests
    PROVE  \/ Handler(x) \/ WriteLands(x)
           \/ \E n \in DOMAIN Calls : Arrive(x, n)
           \/ /\ req'[x].failed = TRUE /\ was'[x] = was[x] /\ req[x].pc # "idle"
              /\ Call(req'[x]) = Call(req[x])
           \/ /\ req'[x] = req[x] /\ was'[x] = was[x]
              /\ clean'[x] => clean[x] /\ Same(x)
<1>1. ASSUME NEW r \in Requests, Handler(r) \/ WriteLands(r), r # x
      PROVE  /\ req'[x] = req[x] /\ was'[x] = was[x]
             /\ clean'[x] => clean[x] /\ Same(x)
  <2>1. PICK q : Step(r, q)
    BY <1>1, HandlerStep
  <2>2. req'[x] = req[x] /\ was' = was /\ Observe(r)
    BY <1>1, <2>1, OwnStep
  <2>3. clean'[x] => clean[x] /\ Same(x)
    BY <1>1, <2>2 DEF Observe
  <2> QED BY <2>2, <2>3
<1>2. ASSUME NEW r \in Requests, NEW n \in DOMAIN Calls, Arrive(r, n), r # x
      PROVE  req'[x] = req[x] /\ was'[x] = was[x] /\ clean' = clean /\ KeepFs
  <2>1. /\ KeepFs /\ UNCHANGED <<inPlace, now, ghosts, faults>>
        /\ \A y \in Requests \ {r} : req'[y] = req[y] /\ was'[y] = was[y]
    BY <1>2, ArriveStep
  <2> QED BY <1>2, <2>1 DEF ghosts
<1>3. ASSUME NEW r \in Requests, BodyBroken(r) \/ WriteError(r) \/ IoError(r)
      PROVE  /\ was' = was /\ clean' = clean /\ KeepFs
             /\ r # x => req'[x] = req[x]
             /\ req[r].pc # "idle" /\ req'[r].failed = TRUE /\ req'[r].call = req[r].call
  <2>1. PICK q : Faulty(r, q)
    BY <1>3 DEF BodyBroken, WriteError, IoError
  <2>2. was' = was /\ clean' = clean /\ KeepFs /\ (r # x => req'[x] = req[x])
    BY <2>1, FaultyStep DEF ghosts
  <2>3. req[r].pc # "idle"
    BY <1>3 DEF BodyBroken, WriteError, IoError, At
  <2>4. req'[r].failed = TRUE /\ req'[r].call = req[r].call
    <3>1. CASE WriteError(r)
      BY <3>1, WriteErrorStep DEF Moved, Fields
    <3>2. CASE BodyBroken(r) \/ IoError(r)
      <4>1. Broken(req'[r], req[r])
        BY <3>2, BrokenFields DEF BodyBroken, IoError
      <4> QED BY <4>1 DEF Broken
    <3> QED BY <1>3, <3>1, <3>2
  <2> QED BY <2>2, <2>3, <2>4
<1>4. ASSUME Tick \/ UNCHANGED vars
      PROVE  req' = req /\ was' = was /\ clean' = clean /\ KeepFs
  BY <1>4 DEF Tick, vars, ghosts, KeepFs, fsVars
<1>5. KeepFs => Same(x)
  BY KeepSame
<1>6. ASSUME NEW r \in Requests, BodyBroken(r) \/ WriteError(r) \/ IoError(r), r = x
      PROVE  Call(req'[x]) = Call(req[x])
  BY <1>3, <1>6 DEF Call
<1>7. CASE \E r \in Requests : Handler(r) \/ WriteLands(r)
  BY <1>1, <1>7
<1>8. CASE \E r \in Requests : \E n \in DOMAIN Calls : Arrive(r, n)
  BY <1>2, <1>5, <1>8
<1>9. CASE \E r \in Requests : BodyBroken(r) \/ WriteError(r) \/ IoError(r)
  BY <1>3, <1>5, <1>6, <1>9
<1>10. CASE Tick \/ UNCHANGED vars
  BY <1>4, <1>5, <1>10
<1> QED BY <1>7, <1>8, <1>9, <1>10 DEF Next, Over

\* A request that arrives and is not refused at once starts its flow, and
\* remembers its objects as they are.
LEMMA Arrival ==
    ASSUME TypeInv, NEW r \in Requests, NEW n \in DOMAIN Calls, Arrive(r, n)
    PROVE  LET c == Calls[n]
               q == req'[r]
           IN  /\ Call(q) = c /\ CallOK(c) /\ KeepFs
               /\ \A k \in Keys : k \in {c.key, c.from} => was'[r][k] = View(k)
               /\ c.refuse = "none" =>
                    /\ q.pc = Flow(c.op).start /\ q.size = c.len /\ q.flying = {} /\ q.got = << >>
                    /\ q.tags = c.tags /\ q.meta = c.meta
<1> DEFINE c == Calls[n]
           q == req'[r]
<1>1. /\ KeepFs /\ was'[r] = [k \in Keys \cap {c.key, c.from} |-> View(k)] /\ q.call = n /\ q.flying = {}
      /\ c.refuse = "none" => /\ q.pc = Flow(c.op).start /\ q.size = c.len
                              /\ q.tags = c.tags /\ q.meta = c.meta /\ q.got = << >>
  BY ArriveStep, ZenonT(60)
<1>2. Call(q) = c
  BY <1>1 DEF Call
<1>3. CallOK(c)
  BY CallAssumption
<1> HIDE DEF c, q
<1>4. \A k \in Keys : k \in {c.key, c.from} => was'[r][k] = View(k)
  BY <1>1
<1> QED BY <1>1, <1>2, <1>3, <1>4 DEF c, q

LEMMA ViewIsFile == ASSUME TypeInv, NEW k \in Keys PROVE IsFile(View(k).f)
BY ViewFacts, NoFileOK DEF NoView

LEMMA WasInit == Init => WasInv
BY DEF Init, WasInv, WasOK, Idle

LEMMA WasNext == TypeInv /\ WasInv /\ [Next]_vars => WasInv'
<1> SUFFICES ASSUME TypeInv, WasInv, [Next]_vars, NEW x \in Requests PROVE WasOK(x)'
  BY DEF WasInv
<1>1. WasOK(x)
  BY DEF WasInv
<1>2. CASE was'[x] = was[x] /\ req[x].pc # "idle" /\ Call(req'[x]) = Call(req[x])
  BY <1>1, <1>2 DEF WasOK, Key
<1>3. CASE \E n \in DOMAIN Calls : Arrive(x, n)
  <2>1. PICK n \in DOMAIN Calls : Arrive(x, n)
    BY <1>3
  <2>2. /\ Call(req'[x]) = Calls[n]
        /\ \A k \in Keys : k \in {Calls[n].key, Calls[n].from} => was'[x][k] = View(k)
    BY <2>1, Arrival
  <2>3. \A k \in Keys : IsFile(View(k).f)
    BY ViewIsFile
  <2> QED BY <2>2, <2>3 DEF WasOK, Key
<1>4. CASE req'[x] = req[x] /\ was'[x] = was[x]
  BY <1>1, <1>4 DEF WasOK, Key, Call
<1>5. CASE Handler(x) \/ WriteLands(x)
  BY <1>2, <1>5, QuietOwn
<1> QED BY <1>2, <1>3, <1>4, <1>5, StepOf

LEMMA WriteArrive ==
    ASSUME TypeInv, NEW r \in Requests, NEW n \in DOMAIN Calls, Arrive(r, n)
    PROVE  Quiet(r)' => WriteOK(r)'
<1> SUFFICES ASSUME Quiet(r)' PROVE WriteOK(r)'
  OBVIOUS
<1> DEFINE c == Calls[n]
           q == req'[r]
<1>1. /\ Call(q) = c /\ CallOK(c) /\ KeepFs
      /\ \A k \in Keys : k \in {c.key, c.from} => was'[r][k] = View(k)
  BY Arrival
<1>2. c.refuse = "none"
  BY <1>1 DEF Quiet
<1>3. q.pc = Flow(c.op).start /\ q.size = c.len /\ q.tags = c.tags /\ q.meta = c.meta
  BY <1>2, Arrival
<1>4. PICK k, l : k = c.key /\ l = c.from /\ Key(r)' = k
  BY <1>1 DEF Key
<1>5. \A i : View(i)' = View(i)
  BY <1>1, ViewKept
<1>6. c.op \notin DirOps => k \in Keys /\ was'[r][k] = View(k)
  BY <1>1, <1>4 DEF CallOK
<1>7. c.op = "copy" => l \in Keys /\ was'[r][l] = View(l)
  BY <1>1, <1>4 DEF CallOK
<1> HIDE DEF c, q
<1>8. CASE c.op = "put"
  <2>1. q.pc = "check" /\ was'[r][k] = View(k)
    BY <1>3, <1>6, <1>8, PutAfter DEF DirOps
  <2>2. PutOK(r, q, View(k), View(k), Above[k] \cap dirs')
    BY <1>1, <1>3, <2>1 DEF PutOK
  <2> QED BY <1>1, <1>4, <1>5, <1>8, <2>1, <2>2 DEF WriteOK, q
<1>9. CASE c.op = "append"
  <2>1. q.pc = "existing" /\ was'[r][k] = View(k)
    BY <1>3, <1>6, <1>9, AppendAfter DEF DirOps
  <2>2. AppendOK(r, q, View(k), View(k))
    BY <1>1, <1>3, <2>1 DEF AppendOK
  <2> QED BY <1>1, <1>4, <1>5, <1>9, <2>1, <2>2 DEF WriteOK, q
<1>10. CASE c.op = "copy"
  <2>1. q.pc = "source" /\ was'[r][k] = View(k) /\ was'[r][l] = View(l)
    BY <1>3, <1>6, <1>7, <1>10, CopyAfter DEF DirOps
  <2>2. CopyOK(q, View(k), View(k), View(l), View(l), Above[k] \cap dirs')
    BY <1>1, <1>3, <2>1 DEF CopyOK
  <2> QED BY <1>1, <1>4, <1>5, <1>10, <2>1, <2>2 DEF WriteOK, q
<1>11. CASE c.op = "delete"
  <2>1. q.pc = "check" /\ was'[r][k] = View(k)
    BY <1>3, <1>6, <1>11, OtherAfter DEF DirOps
  <2>2. DeleteOK(q, View(k), View(k))
    BY <1>1, <1>3, <2>1 DEF DeleteOK
  <2> QED BY <1>1, <1>4, <1>5, <1>11, <2>1, <2>2 DEF WriteOK, q
<1>12. CASE c.op \notin {"put", "append", "copy", "delete"}
  BY <1>1, <1>12 DEF WriteOK, q
<1> QED BY <1>8, <1>9, <1>10, <1>11, <1>12

LEMMA WriteNext == TypeInv /\ WasInv /\ WriteInv /\ [Next]_vars => WriteInv'
<1> SUFFICES ASSUME TypeInv, WasInv, WriteInv, [Next]_vars, NEW x \in Requests PROVE Quiet(x)' => WriteOK(x)'
  BY DEF WriteInv
<1>1. Quiet(x) => WriteOK(x)
  BY DEF WriteInv
<1>2. CASE Handler(x) \/ WriteLands(x)
  BY <1>1, <1>2, WriteOwn
<1>3. CASE \E n \in DOMAIN Calls : Arrive(x, n)
  BY <1>3, WriteArrive
<1>4. CASE req'[x].failed = TRUE
  BY <1>4 DEF Quiet
<1>5. CASE /\ req'[x] = req[x] /\ was'[x] = was[x]
           /\ clean'[x] => clean[x] /\ Same(x)
  BY <1>1, <1>5, WriteOthers
<1> QED BY <1>2, <1>3, <1>4, <1>5, StepOf

LEMMA WriteExact ==
    ASSUME TypeInv, WriteInv, NEW r \in Requests, Undisturbed(r)
    PROVE  WriteIsExact(r)
<1> DEFINE q == req[r]
           c == Call(q)
           k == Key(r)
           w == was[r][k]
           v == View(k)
<1>1. q.pc = "done" /\ Quiet(r) /\ WriteOK(r)
  BY DEF Undisturbed, Done, Quiet, WriteInv
<1>2. q.call \in DOMAIN Calls
  BY <1>1, HandlersOK DEF HandlerOK
<1>3. Cond(r) = c.cond /\ Payload(r) = Sent(r, q) /\ Ino(r) = name[k]
  BY DEF Cond, Payload, Sent, Ino
<1>4. CASE c.op = "put"
  <2>1. PutOK(r, q, w, v, Above[k] \cap dirs)
    BY <1>1, <1>4 DEF WriteOK
  <2>2. IF WriteFails412(c.cond, w) THEN q.answer = "412" /\ v = w
        ELSE q.answer = "ok" /\ q.seen = ETag(v) /\ HasBecome(v, Sent(r, q), c.tags, c.meta)
    BY <1>1, <2>1 DEF PutOK
  <2> HIDE DEF q, c, w, v, k
  <2> QED BY <1>3, <1>4, <2>2 DEF WriteIsExact, Refused, Became, HasBecome, q, c, w, v, k
<1>5. CASE c.op = "append"
  <2>1. AppendOK(r, q, w, v)
    BY <1>1, <1>5 DEF WriteOK
  <2>2. IF w.ino = 0 THEN q.answer = "404" /\ v = w
        ELSE IF c.offset # Len(w.f.data) THEN q.answer = "400" /\ v = w
        ELSE IF WriteFails412(c.cond, w) THEN q.answer = "412" /\ v = w
        ELSE IF c.len = 0 THEN q.answer = "400" /\ v = w
        ELSE q.answer = "ok" /\ q.seen = ETag(v) /\ HasBecome(v, w.f.data \o Sent(r, q), w.f.tags, w.f.meta)
    BY <1>1, <2>1 DEF AppendOK
  <2> QED BY <1>3, <1>5, <2>2 DEF WriteIsExact, Refused, Became, HasBecome
<1>6. CASE c.op = "copy" /\ c.from # k
  <2> DEFINE s == was[r][c.from]
  <2>1. CopyOK(q, w, v, s, View(c.from), Above[k] \cap dirs)
    BY <1>1, <1>6 DEF WriteOK
  <2>2. IF s.ino = 0 THEN q.answer = "404" /\ v = w
        ELSE IF ReadOutcome(c.srcCond, s) # "ok" \/ WriteFails412(c.cond, w) THEN q.answer = "412" /\ v = w
        ELSE IF Len(s.f.data) > CopyMax THEN q.answer = "400" /\ v = w
        ELSE q.answer = "ok" /\ q.seen = ETag(v) /\ HasBecome(v, s.f.data, CopyTags(c, s), CopyMeta(c, s))
    BY <1>1, <2>1 DEF CopyOK
  <2> QED BY <1>3, <1>6, <2>2 DEF WriteIsExact, Refused, Became, HasBecome, CopyTags, CopyMeta
<1>7. CASE c.op = "delete"
  <2>1. DeleteOK(q, w, v)
    BY <1>1, <1>7 DEF WriteOK
  <2>2. IF DeleteFails412(c.cond, w) THEN q.answer = "412" /\ v = w ELSE q.answer = "ok" /\ v.ino = 0
    BY <1>1, <2>1 DEF DeleteOK
  <2>3. v.ino = 0 => name[k] = 0
    <3>1. k \in Keys
      BY <1>1, <1>7, Looks DEF DirOps
    <3> QED BY <3>1, ViewFacts
  <2> QED BY <1>3, <1>7, <2>2, <2>3 DEF WriteIsExact, Refused
<1>8. CASE c.op \notin {"put", "append", "copy", "delete"} \/ (c.op = "copy" /\ c.from = k)
  BY <1>8 DEF WriteIsExact
<1> QED BY <1>4, <1>5, <1>6, <1>7, <1>8

\* A PUT, an append, a COPY to another key or a DELETE that nobody disturbs
\* does what it does on its own: the refusal its conditions ask for, or
\* exactly its contents and attributes under the tag it answered with, in
\* whatever order its chunks reached the file.
THEOREM WritesExact == Spec => []UndisturbedWriteExact
<1>1. Init => WriteInv
  BY DEF Init, WriteInv, Quiet, Idle
<1>2. TypeInv /\ WriteInv => UndisturbedWriteExact
  BY WriteExact DEF UndisturbedWriteExact
<1> QED BY <1>1, <1>2, TypesKept, WasInit, WasNext, WriteNext, PTL DEF Spec

-----------------------------------------------------------------------------
(* Ranges. *)

\* A range that asks for something is the interval of the chunks it asks for.
LEMMA RangeAsked ==
    ASSUME NEW spec \in [first : Nat \cup {Absent}, last : Nat \cup {Absent}],
           spec.first # Absent \/ spec.last # Absent, NEW size \in Nat \ {0}
    PROVE  LET p == ParseOneRange(spec, size) IN
           /\ p \in [s : Nat, e : Nat]
           /\ p = Unsatisfiable <=> Asked(spec, size) = {}
           /\ p # Unsatisfiable => p.s < p.e /\ p.e <= size /\ Asked(spec, size) = (p.s + 1)..p.e
<1> DEFINE p == ParseOneRange(spec, size)
<1>0. /\ Absent = -1 /\ spec.first \in Nat \cup {-1} /\ spec.last \in Nat \cup {-1}
  BY DEF Absent
<1>1. ASSUME NEW s \in Nat, NEW e \in Nat, s < e, e <= size, p = [s |-> s, e |-> e],
             \A n \in 1..size : n \in Asked(spec, size) <=> s < n /\ n <= e
      PROVE  /\ p \in [s : Nat, e : Nat]
             /\ p = Unsatisfiable <=> Asked(spec, size) = {}
             /\ p # Unsatisfiable => p.s < p.e /\ p.e <= size /\ Asked(spec, size) = (p.s + 1)..p.e
  <2>1. Asked(spec, size) = (s + 1)..e
    <3>1. Asked(spec, size) \subseteq 1..size
      BY DEF Asked
    <3>2. \A n : n \in (s + 1)..e <=> n \in 1..size /\ s < n /\ n <= e
      BY <1>1
    <3> QED BY <1>1, <3>1, <3>2
  <2>2. e \in (s + 1)..e
    BY <1>1
  <2>3. p.s = s /\ p.e = e /\ p # Unsatisfiable
    BY <1>1 DEF Unsatisfiable
  <2> QED BY <1>1, <2>1, <2>2, <2>3
<1>2. ASSUME p = Unsatisfiable, \A n \in 1..size : n \notin Asked(spec, size)
      PROVE  /\ p \in [s : Nat, e : Nat]
             /\ p = Unsatisfiable <=> Asked(spec, size) = {}
             /\ p # Unsatisfiable => p.s < p.e /\ p.e <= size /\ Asked(spec, size) = (p.s + 1)..p.e
  BY <1>2 DEF Unsatisfiable, Asked
<1>3. CASE spec.first = Absent
  <2>1. spec.last \in Nat
    BY <1>0, <1>3
  <2>2. CASE spec.last = 0
    BY <1>2, <1>3, <2>2 DEF ParseOneRange, Asked
  <2>3. CASE spec.last # 0 /\ spec.last > size
    <3>1. p = [s |-> 0, e |-> size]
      BY <1>3, <2>3 DEF ParseOneRange
    <3>2. \A n \in 1..size : n \in Asked(spec, size) <=> 0 < n /\ n <= size
      BY <1>3, <2>1, <2>3 DEF Asked
    <3> HIDE DEF p
    <3> QED BY <1>1, <3>1, <3>2 DEF p
  <2>4. CASE spec.last # 0 /\ ~(spec.last > size)
    <3>1. p = [s |-> size - spec.last, e |-> size]
      BY <1>3, <2>4 DEF ParseOneRange
    <3>2. \A n \in 1..size : n \in Asked(spec, size) <=> size - spec.last < n /\ n <= size
      BY <1>3, <2>1, <2>4 DEF Asked
    <3>3. size - spec.last \in Nat /\ size - spec.last < size
      BY <2>1, <2>4
    <3> HIDE DEF p
    <3> QED BY <1>1, <3>1, <3>2, <3>3 DEF p
  <2> QED BY <2>2, <2>3, <2>4
<1>4. CASE spec.first # Absent
  <2>1. spec.first \in Nat
    BY <1>0, <1>4
  <2> DEFINE last == IF spec.last = Absent \/ spec.last >= size THEN size - 1 ELSE spec.last
  <2>2. /\ last \in Nat /\ last < size
        /\ spec.last = Absent \/ spec.last >= size => last = size - 1
        /\ ~(spec.last = Absent \/ spec.last >= size) => last = spec.last
    BY <1>0
  <2>3. p = IF spec.first >= size \/ last < spec.first THEN Unsatisfiable ELSE [s |-> spec.first, e |-> last + 1]
    BY <1>4 DEF ParseOneRange
  <2>4. \A n \in 1..size : n \in Asked(spec, size) <=> spec.first < n /\ (spec.last = Absent \/ n <= spec.last + 1)
    BY <1>4, <2>1 DEF Asked
  <2> HIDE DEF last, p
  <2>5. \A n \in 1..size : n \in Asked(spec, size) <=> spec.first < n /\ n <= last + 1
    BY <1>0, <2>1, <2>2, <2>4
  <2>6. CASE spec.first >= size \/ last < spec.first
    <3>1. \A n \in 1..size : n \notin Asked(spec, size)
      BY <2>1, <2>2, <2>5, <2>6
    <3> QED BY <1>2, <2>3, <2>6, <3>1 DEF p
  <2>7. CASE ~(spec.first >= size \/ last < spec.first)
    <3>1. last + 1 \in Nat /\ spec.first < last + 1 /\ last + 1 <= size
      BY <2>1, <2>2, <2>7
    <3> QED BY <1>1, <2>1, <2>3, <2>5, <2>7, <3>1 DEF p
  <2> QED BY <2>6, <2>7
<1> QED BY <1>3, <1>4

\* What a GET of c reads of an object of a size, and the bytes of a range.
RangesOf(c, size) ==
    IF Len(c.specs) = 0 \/ (Len(c.specs) > 1 /\ c.op = "head") THEN Whole(size) ELSE Ranges(c.specs, size)
Part(data, w) == [j \in 1..(w.e - w.s) |-> data[w.s + j]]

Span == [s : Nat, e : Nat]
LEMMA RangesFacts ==
    ASSUME NEW c, CallOK(c), NEW size \in Nat \ {0}, c.op = "get", RangesOk(c.specs, size)
    PROVE  LET W == RangesOf(c, size) IN
           /\ W \in Seq(Span) /\ Len(W) \in Nat \ {0}
           /\ \A n \in 1..Len(W) : /\ W[n].s \in Nat /\ W[n].e \in Nat
                                   /\ W[n].s < W[n].e /\ W[n].e <= size
           /\ Len(c.specs) = 0 => W = Whole(size)
           /\ Len(c.specs) # 0 => /\ Len(W) = Len(c.specs)
                                  /\ \A n \in 1..Len(W) : Asked(c.specs[n], size) = (W[n].s + 1)..W[n].e
<1> DEFINE Spec1 == [first : Nat \cup {Absent}, last : Nat \cup {Absent}]
           W == RangesOf(c, size)
           L == Len(c.specs)
<1>1. /\ L \in Nat /\ \A n \in 1..L : c.specs[n] \in Spec1 /\ (c.specs[n].first # Absent \/ c.specs[n].last # Absent)
  <2>1. c.specs \in Seq(Spec1) /\ \A n \in 1..L : c.specs[n].first # Absent \/ c.specs[n].last # Absent
    BY DEF CallOK
  <2> HIDE DEF Spec1
  <2> QED BY <2>1, LenProperties
<1>2. CASE L = 0
  <2>1. W = Whole(size)
    BY <1>2 DEF RangesOf
  <2>2. W = << [s |-> 0, e |-> size] >>
    BY <2>1 DEF Whole
  <2>3. W \in Seq(Span) /\ Len(W) = 1 /\ W[1] = [s |-> 0, e |-> size]
    BY <2>2 DEF Span
  <2> HIDE DEF W
  <2>4. \A n \in 1..Len(W) : W[n].s = 0 /\ W[n].e = size
    BY <2>3
  <2> QED BY <1>2, <2>1, <2>3, <2>4 DEF W
<1>3. CASE L # 0
  <2>1. W = [n \in 1..L |-> ParseOneRange(c.specs[n], size)]
    BY <1>3 DEF RangesOf, Ranges
  <2>2. ASSUME NEW n \in 1..L
        PROVE  LET p == ParseOneRange(c.specs[n], size) IN
               /\ p \in Span /\ p.s \in Nat /\ p.e \in Nat /\ p.s < p.e /\ p.e <= size
               /\ Asked(c.specs[n], size) = (p.s + 1)..p.e
    <3> DEFINE p == ParseOneRange(c.specs[n], size)
    <3>1. p # Unsatisfiable
      BY DEF RangesOk, Ranges
    <3>2. p \in Span /\ p.s < p.e /\ p.e <= size /\ Asked(c.specs[n], size) = (p.s + 1)..p.e
      BY <1>1, <3>1, RangeAsked DEF Span
    <3>3. p.s \in Nat /\ p.e \in Nat
      BY <3>2 DEF Span
    <3> QED BY <3>2, <3>3
  <2>3. W \in [1..L -> Span]
    BY <2>1, <2>2
  <2>4. \A n \in 1..L : W[n] = ParseOneRange(c.specs[n], size)
    BY <2>1
  <2> HIDE DEF W, L
  <2>5. W \in Seq(Span) /\ Len(W) = L
    BY <1>1, <2>3, FunctionLen
  <2> QED BY <1>1, <1>3, <2>2, <2>4, <2>5 DEF W, L
<1> QED BY <1>2, <1>3

LEMMA PartFacts ==
    ASSUME NEW data \in Seq(Byte), NEW w, w.s \in Nat, w.e \in Nat, w.s < w.e, w.e <= Len(data)
    PROVE  /\ Part(data, w) \in Seq(Byte) /\ Len(Part(data, w)) = w.e - w.s
           /\ \A j \in 1..(w.e - w.s) : Part(data, w)[j] = data[w.s + j]
<1> DEFINE n == w.e - w.s
           p == [j \in 1..n |-> data[w.s + j]]
<1>1. n \in Nat /\ Len(data) \in Nat
  BY LenProperties
<1>2. \A j \in 1..n : w.s + j \in 1..Len(data)
  BY <1>1
<1>3. p \in [1..n -> Byte]
  BY <1>2, ElementOfSeq
<1>4. \A j \in 1..n : p[j] = data[w.s + j]
  OBVIOUS
<1> HIDE DEF p, n
<1>5. p \in Seq(Byte) /\ Len(p) = n
  BY <1>1, <1>3, FunctionLen
<1>6. Part(data, w) = p
  BY DEF Part, p, n
<1> QED BY <1>4, <1>5, <1>6 DEF n

\* The same bytes, as the property puts it.
LEMMA PartIsAsked ==
    ASSUME NEW data \in Seq(Byte), NEW w, w.s \in Nat, w.e \in Nat, w.s < w.e, w.e <= Len(data), NEW spec,
           Asked(spec, Len(data)) = (w.s + 1)..w.e
    PROVE  RangeData(data, spec) = Part(data, w)
<1> DEFINE A == (w.s + 1)..w.e
<1>1. Cardinality(A) = w.e - w.s
  <2>1. PICK a \in Int, b \in Int : a = w.s + 1 /\ b = w.e
    OBVIOUS
  <2>2. Cardinality(a..b) = IF a > b THEN 0 ELSE b-a+1
    BY FS_Interval
  <2> QED BY <2>1, <2>2
<1>2. First(A) = w.s + 1
  <2>1. A \subseteq Nat /\ w.s + 1 \in A /\ \A a \in A : w.s + 1 <= a
    OBVIOUS
  <2> HIDE DEF A
  <2>2. First(A) \in A /\ \A d \in A : First(A) <= d
    <3>1. A \subseteq Nat /\ A # {}
      BY <2>1
    <3> QED BY <3>1, FirstMin
  <2>3. First(A) \in Nat /\ w.s + 1 <= First(A) /\ First(A) <= w.s + 1
    BY <2>1, <2>2
  <2> QED BY <2>3
<1>3. RangeData(data, spec) = [i \in 1..Cardinality(A) |-> data[First(A) + i - 1]]
  BY DEF RangeData
<1> HIDE DEF A
<1>4. RangeData(data, spec) = [i \in 1..(w.e - w.s) |-> data[w.s + 1 + i - 1]]
  BY <1>1, <1>2, <1>3
<1>5. \A i \in 1..(w.e - w.s) : w.s + 1 + i - 1 = w.s + i
  OBVIOUS
<1> QED BY <1>4, <1>5 DEF Part

LEMMA PartWhole ==
    ASSUME NEW data \in Seq(Byte), Len(data) # 0
    PROVE  Part(data, [s |-> 0, e |-> Len(data)]) = data
<1> DEFINE w == [s |-> 0, e |-> Len(data)]
<1>1. w.s = 0 /\ w.e = Len(data) /\ Len(data) \in Nat /\ w.e - w.s = Len(data)
  BY LenProperties
<1> HIDE DEF w
<1>2. /\ Part(data, w) \in Seq(Byte) /\ Len(Part(data, w)) = Len(data)
      /\ \A j \in 1..Len(data) : Part(data, w)[j] = data[0 + j]
  BY <1>1, PartFacts
<1>3. \A j \in 1..Len(data) : Part(data, w)[j] = data[j]
  BY <1>1, <1>2
<1>4. Part(data, w) = data
  BY <1>2, <1>3, SameSeq
<1> QED BY <1>4 DEF w

-----------------------------------------------------------------------------
(* GET, HEAD and reading tags. *)

\* A range is being read: g is what has been read of it.
Reading(g, todo, data, w) ==
    /\ g \in Seq(Byte) /\ Len(g) <= w.e - w.s /\ todo = (w.s + Len(g) + 1)..w.e
    /\ \A j \in 1..Len(g) : g[j] = data[w.s + j]

\* Between two ranges, and in one: the ranges that are left, and the parts
\* that have been read.
Between(q, data, W) ==
    /\ q.ranges \in Seq(Span) /\ q.got \in Seq(Seq(Byte)) /\ Len(q.ranges) # 0
    /\ Len(q.got) + Len(q.ranges) = Len(W)
    /\ \A i \in 1..Len(q.ranges) : q.ranges[i] = W[Len(q.got) + i]
    /\ \A i \in 1..Len(q.got) : q.got[i] = Part(data, W[i])
Within(q, data, W) ==
    /\ q.ranges \in Seq(Span) /\ q.got \in Seq(Seq(Byte)) /\ Len(q.ranges) # 0 /\ Len(q.got) # 0
    /\ Len(q.got) + Len(q.ranges) = Len(W) + 1
    /\ \A i \in 1..Len(q.ranges) : q.ranges[i] = W[Len(q.got) + i - 1]
    /\ \A i \in 1..(Len(q.got) - 1) : q.got[i] = Part(data, W[i])
    /\ Reading(q.got[Len(q.got)], q.todo, data, W[Len(q.got)])

AllParts(data, W) == [i \in 1..Len(W) |-> Part(data, W[i])]
GetDone(q, w) ==
    LET c == Call(q)
        size == Len(w.f.data)
    IN  IF w.ino = 0 THEN q.answer = "404"
        ELSE IF ReadOutcome(c.cond, w) # "ok" THEN q.answer = ReadOutcome(c.cond, w)
        ELSE IF size # 0 /\ ~RangesOk(c.specs, size) THEN q.answer = "416"
        ELSE /\ q.answer = "ok" /\ q.seen = ETag(w) /\ q.meta = w.f.meta
             /\ c.op = "get" /\ size = 0 => q.got = << >>
             /\ c.op = "get" /\ size # 0 => q.got = AllParts(w.f.data, RangesOf(c, size))

GetOK(q, w, v) ==
    LET c == Call(q)
        data == w.f.data
        W == RangesOf(c, Len(data))
    IN
    /\ v = w
    /\ q.pc \in {"open", "attrs"} => q.got = << >>
    /\ q.pc \notin {"open", "done"} => w.ino # 0 /\ ReadOutcome(c.cond, w) = "ok" /\ q.seen = ETag(w)
    /\ q.pc = "attrs" => q.size = Len(data)
    /\ q.pc \in {"attrs", "small", "reading"} => q.fd = w.ino
    /\ q.pc \in {"small", "stream", "reading"} =>
         Len(data) # 0 /\ RangesOk(c.specs, Len(data)) /\ q.meta = w.f.meta
    /\ q.pc = "small" => q.ranges = W /\ Len(W) = 1 /\ W[1].e - W[1].s = 1
    /\ q.pc = "stream" => Between(q, data, W)
    /\ q.pc = "reading" => Within(q, data, W)
    /\ q.pc = "done" => GetDone(q, w)

GetTagsOK(q, w, v) ==
    /\ v = w
    /\ q.pc = "readtags" => w.ino # 0
    /\ q.pc = "done" => IF w.ino = 0 THEN q.answer = "404" ELSE q.answer = "ok" /\ q.tags = w.f.tags

ReadOK(r) ==
    LET q == req[r]
        k == Key(r)
    IN  /\ Call(q).op \in {"get", "head"} => GetOK(q, was[r][k], View(k))
        /\ Call(q).op = "gettags" => GetTagsOK(q, was[r][k], View(k))
ReadInv == \A r \in Requests : Quiet(r) => ReadOK(r)

LEMMA GetOpen ==
    ASSUME TypeInv, NEW r \in Requests, NEW k \in Keys, k = Key(r), NEW w, Open(r), GetOK(req[r], w, View(k))
    PROVE  GetOK(req'[r], w, View(k)')
<1> DEFINE q == req[r]
           q1 == req'[r]
           c == Call(q)
<1>1. /\ q.pc = "open" /\ KeepFs
      /\ \/ View(k).ino = 0 /\ Ended(q1, q, "404", {})
         \/ /\ View(k).ino # 0 /\ ReadOutcome(c.cond, View(k)) # "ok"
            /\ Ended(q1, q, ReadOutcome(c.cond, View(k)), {})
         \/ /\ View(k).ino # 0 /\ ReadOutcome(c.cond, View(k)) = "ok" /\ Moved(q1, q, "attrs", {"fd", "seen", "size"})
            /\ q1.fd = View(k).ino /\ q1.seen = ETag(View(k)) /\ q1.size = Len(View(k).f.data)
  BY OpenStep DEF Cond
<1>2. View(k) = w /\ View(k)' = w /\ q.got = << >>
  BY <1>1, ViewKept DEF GetOK
<1>3. CASE View(k).ino = 0 /\ Ended(q1, q, "404", {})
  <2>1. q1.pc = "done" /\ q1.answer = "404"
    BY <1>3 DEF Ended
  <2> HIDE DEF q, q1, c
  <2> QED BY <1>2, <1>3, <2>1 DEF GetOK, GetDone, q1
<1>4. CASE View(k).ino # 0 /\ ReadOutcome(c.cond, View(k)) # "ok" /\ Ended(q1, q, ReadOutcome(c.cond, View(k)), {})
  <2>1. q1.pc = "done" /\ q1.answer = ReadOutcome(c.cond, View(k)) /\ Call(q1) = c
    BY <1>4, EndedCall
  <2> HIDE DEF q, q1, c
  <2>2. GetDone(q1, w)
    BY <1>2, <1>4, <2>1 DEF GetDone
  <2> QED BY <1>2, <2>1, <2>2 DEF GetOK, q1
<1>5. CASE /\ View(k).ino # 0 /\ ReadOutcome(c.cond, View(k)) = "ok" /\ Moved(q1, q, "attrs", {"fd", "seen", "size"})
           /\ q1.fd = View(k).ino /\ q1.seen = ETag(View(k)) /\ q1.size = Len(View(k).f.data)
  <2>1. q1.pc = "attrs" /\ Call(q1) = c
    BY <1>5, MovedCall
  <2>2. q1.got = q.got
    BY <1>5 DEF Moved, Fields
  <2> HIDE DEF q, q1, c
  <2> QED BY <1>2, <1>5, <2>1, <2>2 DEF GetOK, q1
<1> QED BY <1>1, <1>3, <1>4, <1>5

LEMMA WantedRanges == ASSUME NEW q PROVE Wanted(q) = RangesOf(Call(q), q.size)
BY DEF Wanted, RangesOf

LEMMA GetAttrs ==
    ASSUME TypeInv, NEW r \in Requests, NEW k \in Keys, k = Key(r), NEW w, Attrs(r), GetOK(req[r], w, View(k)),
           w.f.data \in Seq(Byte)
    PROVE  GetOK(req'[r], w, View(k)')
<1> DEFINE q == req[r]
           q1 == req'[r]
           c == Call(q)
           size == Len(w.f.data)
           W == RangesOf(c, size)
<1>0. q.pc = "attrs" /\ KeepFs /\ q1.meta = View(k).f.meta /\ c.op \in {"get", "head"}
  BY AttrsStep
<1>1. /\ View(k) = w /\ q.got = << >> /\ w.ino # 0 /\ ReadOutcome(c.cond, w) = "ok" /\ q.seen = ETag(w)
      /\ q.size = size /\ q.fd = w.ino
  BY <1>0 DEF GetOK
<1>2. View(k)' = w
  BY <1>0, <1>1, ViewKept
<1>3. Wanted(q) = W
  BY <1>1, WantedRanges
<1>4. \/ size = 0 /\ Ended(q1, q, "ok", {"meta"})
      \/ size # 0 /\ ~RangesOk(c.specs, size) /\ Ended(q1, q, "416", {"meta"})
      \/ size # 0 /\ RangesOk(c.specs, size) /\ c.op = "head" /\ Ended(q1, q, "ok", {"meta", "got"})
      \/ /\ size # 0 /\ RangesOk(c.specs, size) /\ c.op = "get" /\ q1.ranges = W
         /\ \/ Len(W) = 1 /\ W[1].e - W[1].s = 1 /\ Moved(q1, q, "small", {"meta", "ranges"})
            \/ Moved(q1, q, "stream", {"meta", "ranges"})
  <2> HIDE DEF W, size
  <2> QED BY <1>1, <1>3, AttrsStep
<1>5. CASE size = 0 /\ Ended(q1, q, "ok", {"meta"})
  <2>1. q1.pc = "done" /\ q1.answer = "ok" /\ Call(q1) = c
    BY <1>5, EndedCall
  <2>2. q1.seen = q.seen /\ q1.got = q.got
    BY <1>5 DEF Ended
  <2> HIDE DEF q, q1, c
  <2>3. GetDone(q1, w)
    BY <1>0, <1>1, <1>5, <2>1, <2>2 DEF GetDone
  <2> QED BY <1>2, <2>1, <2>3 DEF GetOK, q1
<1>6. CASE size # 0 /\ ~RangesOk(c.specs, size) /\ Ended(q1, q, "416", {"meta"})
  <2>1. q1.pc = "done" /\ q1.answer = "416" /\ Call(q1) = c
    BY <1>6, EndedCall
  <2> HIDE DEF q, q1, c
  <2>2. GetDone(q1, w)
    BY <1>1, <1>6, <2>1 DEF GetDone
  <2> QED BY <1>2, <2>1, <2>2 DEF GetOK, q1
<1>7. CASE size # 0 /\ RangesOk(c.specs, size) /\ c.op = "head" /\ Ended(q1, q, "ok", {"meta", "got"})
  <2>1. q1.pc = "done" /\ q1.answer = "ok" /\ Call(q1) = c
    BY <1>7, EndedCall
  <2>2. q1.seen = q.seen
    BY <1>7 DEF Ended
  <2> HIDE DEF q, q1, c
  <2>3. GetDone(q1, w)
    BY <1>0, <1>1, <1>7, <2>1, <2>2 DEF GetDone
  <2> QED BY <1>2, <2>1, <2>3 DEF GetOK, q1
<1>8. CASE /\ size # 0 /\ RangesOk(c.specs, size) /\ c.op = "get" /\ q1.ranges = W
           /\ Len(W) = 1 /\ W[1].e - W[1].s = 1 /\ Moved(q1, q, "small", {"meta", "ranges"})
  <2>1. q1.pc = "small" /\ Call(q1) = c
    BY <1>8, MovedCall
  <2>2. q1.seen = q.seen /\ q1.fd = q.fd
    BY <1>8 DEF Moved, Fields
  <2> HIDE DEF q, q1, c, W
  <2> QED BY <1>0, <1>1, <1>2, <1>8, <2>1, <2>2 DEF GetOK, q1, W
<1>9. CASE /\ size # 0 /\ RangesOk(c.specs, size) /\ c.op = "get" /\ q1.ranges = W
           /\ Moved(q1, q, "stream", {"meta", "ranges"})
  <2>1. q1.pc = "stream" /\ Call(q1) = c
    BY <1>9, MovedCall
  <2>2. q1.seen = q.seen /\ q1.got = q.got
    BY <1>9 DEF Moved, Fields
  <2>3. W \in Seq(Span) /\ Len(W) \in Nat \ {0}
    <3>1. CallOK(c)
      BY <1>0, HandlersOK
    <3>2. size \in Nat \ {0}
      BY <1>9, LenProperties
    <3> HIDE DEF c, size
    <3> QED BY <1>9, <3>1, <3>2, RangesFacts
  <2>4. Len(q1.got) = 0 /\ q1.got \in Seq(Seq(Byte))
    BY <1>1, <2>2, EmptySeq
  <2> HIDE DEF q, q1, c, W
  <2>5. Between(q1, w.f.data, W)
    BY <1>9, <2>3, <2>4 DEF Between
  <2> QED BY <1>0, <1>1, <1>2, <1>9, <2>1, <2>2, <2>5 DEF GetOK, q1, W
<1> QED BY <1>4, <1>5, <1>6, <1>7, <1>8, <1>9

\* What a GET that reads knows of its ranges.
LEMMA GetRanges ==
    ASSUME TypeInv, NEW r \in Requests, NEW w, w.f.data \in Seq(Byte), NEW v, GetOK(req[r], w, v),
           req[r].pc \in {"small", "stream", "reading"}
    PROVE  LET W == RangesOf(Call(req[r]), Len(w.f.data)) IN
           /\ Call(req[r]).op = "get" /\ Len(w.f.data) \in Nat \ {0} /\ W \in Seq(Span) /\ Len(W) \in Nat \ {0}
           /\ \A n \in 1..Len(W) : /\ W[n].s \in Nat /\ W[n].e \in Nat
                                   /\ W[n].s < W[n].e /\ W[n].e <= Len(w.f.data)
           /\ \A n \in 1..Len(W) : Part(w.f.data, W[n]) \in Seq(Byte)
<1> DEFINE c == Call(req[r])
           size == Len(w.f.data)
           W == RangesOf(c, size)
<1>1. CallOK(c) /\ c.op = "get"
  BY HandlersOK, HandlerFacts DEF OpsAt
<1>2. size \in Nat \ {0} /\ RangesOk(c.specs, size)
  BY LenProperties DEF GetOK
<1>3. /\ W \in Seq(Span) /\ Len(W) \in Nat \ {0}
      /\ \A n \in 1..Len(W) : /\ W[n].s \in Nat /\ W[n].e \in Nat
                              /\ W[n].s < W[n].e /\ W[n].e <= size
  <2> HIDE DEF c, size
  <2> QED BY <1>1, <1>2, RangesFacts
<1>4. \A n \in 1..Len(W) : Part(w.f.data, W[n]) \in Seq(Byte)
  <2> HIDE DEF W
  <2> QED BY <1>3, PartFacts
<1> QED BY <1>1, <1>2, <1>3, <1>4

LEMMA AllPartsFacts ==
    ASSUME NEW data, NEW W, Len(W) \in Nat, \A n \in 1..Len(W) : Part(data, W[n]) \in Seq(Byte),
           NEW got \in Seq(Seq(Byte)), Len(got) = Len(W), \A n \in 1..Len(W) : got[n] = Part(data, W[n])
    PROVE  got = AllParts(data, W)
<1> DEFINE a == [i \in 1..Len(W) |-> Part(data, W[i])]
<1>1. a \in [1..Len(W) -> Seq(Byte)]
  OBVIOUS
<1>2. \A n \in 1..Len(W) : a[n] = Part(data, W[n])
  OBVIOUS
<1> HIDE DEF a
<1>3. a \in Seq(Seq(Byte)) /\ Len(a) = Len(W)
  BY <1>1, FunctionLen
<1>4. got = a
  BY <1>2, <1>3, SameSeq
<1> QED BY <1>4 DEF a, AllParts

LEMMA GetSmall ==
    ASSUME TypeInv, NEW r \in Requests, NEW k \in Keys, k = Key(r), NEW w, Small(r), GetOK(req[r], w, View(k)),
           w.f.data \in Seq(Byte)
    PROVE  GetOK(req'[r], w, View(k)')
<1> DEFINE q == req[r]
           q1 == req'[r]
           c == Call(q)
           data == w.f.data
           W == RangesOf(c, Len(data))
           n == W[1].s + 1
<1>0. q.pc = "small" /\ KeepFs
  BY SmallStep
<1>1. /\ View(k) = w /\ w.ino # 0 /\ ReadOutcome(c.cond, w) = "ok" /\ q.seen = ETag(w) /\ q.fd = w.ino
      /\ Len(data) # 0 /\ RangesOk(c.specs, Len(data)) /\ q.meta = w.f.meta
      /\ q.ranges = W /\ Len(W) = 1 /\ W[1].e - W[1].s = 1
  BY <1>0 DEF GetOK
<1>2. View(k)' = w
  BY <1>0, <1>1, ViewKept
<1>3. /\ c.op = "get" /\ Len(data) \in Nat \ {0} /\ W[1].s \in Nat /\ W[1].e \in Nat
      /\ W[1].s < W[1].e /\ W[1].e <= Len(data) /\ Part(data, W[1]) \in Seq(Byte)
  <2>1. 1 \in 1..Len(W)
    BY <1>1
  <2> HIDE DEF W
  <2> QED BY <1>0, <2>1, GetRanges DEF W
<1>4. file[q.fd].data = data
  BY <1>1 DEF View, NoView, FdView
<1>5. ~(n > Len(data)) /\ n \in 1..Len(data)
  <2> HIDE DEF W
  <2> QED BY <1>1, <1>3
<1>6. Ended(q1, q, "ok", {"got"}) /\ q1.got = << <<data[n]>> >>
  <2>1. q.ranges[1].s + 1 = n
    BY <1>1
  <2> HIDE DEF n, W, data
  <2> QED BY <1>4, <1>5, <2>1, SmallStep
<1>7. Part(data, W[1]) = <<data[n]>>
  <2> HIDE DEF W
  <2>1. /\ Len(Part(data, W[1])) = 1 /\ Part(data, W[1])[1] = data[n]
    <3>1. PICK x : x = W[1]
      OBVIOUS
    <3>2. x.s \in Nat /\ x.e \in Nat /\ x.s < x.e /\ x.e <= Len(data) /\ x.e - x.s = 1 /\ n = x.s + 1
      BY <1>1, <1>3, <3>1
    <3> HIDE DEF n
    <3>3. Len(Part(data, x)) = x.e - x.s /\ \A j \in 1..(x.e - x.s) : Part(data, x)[j] = data[x.s + j]
      BY <3>2, PartFacts
    <3>4. 1 \in 1..(x.e - x.s)
      BY <3>2
    <3> QED BY <3>1, <3>2, <3>3, <3>4
  <2>2. <<data[n]>> \in Seq(Byte) /\ Len(<<data[n]>>) = 1
    BY <1>5, ElementOfSeq
  <2> QED BY <1>3, <2>1, <2>2, SameSeq
<1>8. q1.got = AllParts(data, W)
  <2> HIDE DEF W, n
  <2>1. /\ Len(W) \in Nat /\ \A i \in 1..Len(W) : Part(data, W[i]) \in Seq(Byte)
        /\ Len(q1.got) = Len(W) /\ \A i \in 1..Len(W) : q1.got[i] = Part(data, W[i])
    <3>1. PICK p : p = Part(data, W[1])
      OBVIOUS
    <3>2. Len(<<p>>) = 1 /\ <<p>>[1] = p
      OBVIOUS
    <3>3. q1.got = <<p>> /\ Len(W) = 1
      BY <1>1, <1>6, <1>7, <3>1
    <3>4. \A i \in 1..Len(W) : i = 1
      BY <3>3
    <3> HIDE DEF q1, data
    <3> QED BY <1>3, <3>1, <3>2, <3>3, <3>4
  <2>2. q1.got \in Seq(Seq(Byte))
    BY <1>3, <1>6, <1>7
  <2> QED BY <2>1, <2>2, AllPartsFacts, ZenonT(60)
<1>9. q1.pc = "done" /\ q1.answer = "ok" /\ Call(q1) = c
  BY <1>6, EndedCall
<1>10. q1.seen = q.seen /\ q1.meta = q.meta
  BY <1>6 DEF Ended
<1> HIDE DEF q, q1, c, W
<1>11. GetDone(q1, w)
  BY <1>1, <1>8, <1>9, <1>10 DEF GetDone, W
<1> QED BY <1>2, <1>9, <1>11 DEF GetOK, q1

LEMMA GetStream ==
    ASSUME TypeInv, NEW r \in Requests, NEW k \in Keys, k = Key(r), NEW w, Stream(r), GetOK(req[r], w, View(k)),
           w.f.data \in Seq(Byte)
    PROVE  GetOK(req'[r], w, View(k)')
<1> DEFINE q == req[r]
           q1 == req'[r]
           c == Call(q)
           data == w.f.data
           W == RangesOf(c, Len(data))
           m == Len(q.got)
<1>0. q.pc = "stream" /\ KeepFs
  BY StreamStep
<1>1. /\ View(k) = w /\ w.ino # 0 /\ ReadOutcome(c.cond, w) = "ok" /\ q.seen = ETag(w)
      /\ Len(data) # 0 /\ RangesOk(c.specs, Len(data)) /\ q.meta = w.f.meta /\ Between(q, data, W)
  BY <1>0 DEF GetOK
<1>2. View(k)' = w
  BY <1>0, <1>1, ViewKept
<1>3. Ino(r) = w.ino
  BY <1>1, ViewFacts DEF Ino
<1>4. /\ Moved(q1, q, "reading", {"fd", "todo", "got"}) /\ q1.fd = w.ino
      /\ q1.todo = (Head(q.ranges).s + 1)..Head(q.ranges).e /\ q1.got = Append(q.got, << >>)
  BY <1>1, <1>3, StreamStep
<1>5. q1.pc = "reading" /\ Call(q1) = c
  BY <1>4, MovedCall
<1>6. q1.seen = q.seen /\ q1.meta = q.meta /\ q1.ranges = q.ranges
  BY <1>4 DEF Moved, Fields
<1>7. /\ Len(W) \in Nat /\ \A i \in 1..Len(W) : W[i].s \in Nat /\ W[i].e \in Nat /\ W[i].s < W[i].e
  <2> HIDE DEF W
  <2> QED BY <1>0, GetRanges DEF W
<1> HIDE DEF q, q1, c, W
<1>8. /\ q.ranges \in Seq(Span) /\ q.got \in Seq(Seq(Byte)) /\ Len(q.ranges) # 0
      /\ m + Len(q.ranges) = Len(W) /\ m \in Nat /\ Len(q.ranges) \in Nat
      /\ \A i \in 1..Len(q.ranges) : q.ranges[i] = W[m + i]
      /\ \A i \in 1..m : q.got[i] = Part(data, W[i])
  BY <1>1, LenProperties DEF Between
<1>9. /\ q1.got \in Seq(Seq(Byte)) /\ Len(q1.got) = m + 1
      /\ \A i \in 1..m : q1.got[i] = q.got[i]
      /\ q1.got[m + 1] = << >>
  <2>1. << >> \in Seq(Byte)
    BY EmptySeq
  <2> QED BY <1>4, <1>8, <2>1, AppendProperties
<1> HIDE DEF m
<1>10. Head(q.ranges) = W[m + 1] /\ m + 1 \in 1..Len(W)
  <2>1. 1 \in 1..Len(q.ranges) /\ m + 1 \in 1..Len(W)
    BY <1>7, <1>8
  <2>2. Head(q.ranges) = q.ranges[1]
    BY <1>8
  <2> QED BY <1>8, <2>1, <2>2
<1>11. Reading(q1.got[m + 1], q1.todo, data, W[m + 1])
  <2> DEFINE x == W[m + 1]
  <2>1. x.s \in Nat /\ x.e \in Nat /\ x.s < x.e /\ q1.todo = (x.s + 1)..x.e
    BY <1>4, <1>7, <1>10
  <2>2. q1.got[m + 1] \in Seq(Byte) /\ Len(q1.got[m + 1]) = 0
    BY <1>9, EmptySeq
  <2> HIDE DEF x
  <2>3. x.s + 0 + 1 = x.s + 1 /\ 0 <= x.e - x.s
    BY <2>1
  <2>4. Reading(q1.got[m + 1], q1.todo, data, x)
    BY <2>1, <2>2, <2>3 DEF Reading
  <2> QED BY <2>4 DEF x
<1>12. Within(q1, data, W)
  <2>1. Len(q1.got) # 0 /\ Len(q1.got) + Len(q1.ranges) = Len(W) + 1 /\ Len(q1.got) - 1 = m
    <3>1. PICK a \in Nat, b \in Nat : a = m /\ b = Len(q.ranges)
      BY <1>8
    <3>2. Len(q1.got) = a + 1 /\ Len(q1.ranges) = b /\ Len(W) = a + b
      BY <1>6, <1>8, <1>9, <3>1
    <3>3. ASSUME NEW x, NEW y, NEW z, x = a + 1, y = b, z = a + b
          PROVE  x # 0 /\ x + y = z + 1 /\ x - 1 = a
      BY <3>3
    <3>4. Len(q1.got) # 0 /\ Len(q1.got) + Len(q1.ranges) = Len(W) + 1 /\ Len(q1.got) - 1 = a
      BY <3>2, <3>3
    <3> QED BY <3>1, <3>4
  <2>2. \A i \in 1..Len(q1.ranges) : q1.ranges[i] = W[Len(q1.got) + i - 1]
    <3>1. \A i \in 1..Len(q.ranges) : m + 1 + i - 1 = m + i
      BY <1>8
    <3> QED BY <1>6, <1>8, <1>9, <3>1
  <2>3. \A i \in 1..(Len(q1.got) - 1) : q1.got[i] = Part(data, W[i])
    BY <1>8, <1>9, <2>1
  <2> QED BY <1>6, <1>8, <1>9, <1>11, <2>1, <2>2, <2>3 DEF Within
<1> QED BY <1>1, <1>2, <1>4, <1>5, <1>6, <1>12 DEF GetOK, q1, W

LEMMA GetChunk ==
    ASSUME TypeInv, NEW r \in Requests, NEW k \in Keys, k = Key(r), NEW w, ReadChunk(r), GetOK(req[r], w, View(k)),
           w.f.data \in Seq(Byte)
    PROVE  GetOK(req'[r], w, View(k)')
<1> DEFINE q == req[r]
           q1 == req'[r]
           c == Call(q)
           data == w.f.data
           W == RangesOf(c, Len(data))
           m == Len(q.got)
           g == q.got[m]
           x == W[m]
           n == First(q.todo)
<1>0. q.pc = "reading" /\ KeepFs /\ q.todo # {}
  BY ReadChunkStep
<1>1. /\ View(k) = w /\ w.ino # 0 /\ ReadOutcome(c.cond, w) = "ok" /\ q.seen = ETag(w) /\ q.fd = w.ino
      /\ Len(data) # 0 /\ RangesOk(c.specs, Len(data)) /\ q.meta = w.f.meta /\ Within(q, data, W)
  BY <1>0 DEF GetOK
<1>2. View(k)' = w
  BY <1>0, <1>1, ViewKept
<1>3. file[q.fd].data = data
  BY <1>1 DEF View, NoView, FdView
<1>4. /\ q.ranges \in Seq(Span) /\ q.got \in Seq(Seq(Byte)) /\ Len(q.ranges) # 0 /\ m # 0
      /\ m + Len(q.ranges) = Len(W) + 1
      /\ \A i \in 1..Len(q.ranges) : q.ranges[i] = W[m + i - 1]
      /\ \A i \in 1..(m - 1) : q.got[i] = Part(data, W[i])
      /\ Reading(g, q.todo, data, x)
  BY <1>1 DEF Within
<1>5. m \in Nat /\ m \in 1..m /\ Len(q.ranges) \in Nat
  BY <1>4, LenProperties
<1>6. Len(data) \in Nat \ {0} /\ Len(W) \in Nat /\ x.s \in Nat /\ x.e \in Nat /\ x.s < x.e /\ x.e <= Len(data)
  <2>1. /\ Len(data) \in Nat \ {0} /\ Len(W) \in Nat
        /\ \A i \in 1..Len(W) : W[i].s \in Nat /\ W[i].e \in Nat /\ W[i].s < W[i].e /\ W[i].e <= Len(data)
    <3> HIDE DEF W
    <3> QED BY <1>0, GetRanges DEF W
  <2> HIDE DEF W, q, m
  <2>2. m \in 1..Len(W)
    BY <1>4, <1>5, <2>1
  <2> QED BY <2>1, <2>2
<1>7. /\ g \in Seq(Byte) /\ Len(g) \in Nat /\ Len(g) <= x.e - x.s /\ q.todo = (x.s + Len(g) + 1)..x.e
      /\ \A j \in 1..Len(g) : g[j] = data[x.s + j]
  BY <1>4, LenProperties DEF Reading
<1>8. n = x.s + Len(g) + 1 /\ n <= x.e /\ n \in 1..Len(data) /\ ~(n > Len(data))
  <2> HIDE DEF q, g, x, data
  <2>1. q.todo \subseteq Nat /\ x.s + Len(g) + 1 <= x.e
    BY <1>0, <1>6, <1>7
  <2>2. n \in q.todo /\ \A d \in q.todo : n <= d
    BY <1>0, <2>1, FirstMin
  <2> HIDE DEF n
  <2>3. x.s + Len(g) + 1 \in q.todo
    BY <1>6, <1>7, <2>1
  <2>4. n \in Nat /\ x.s + Len(g) + 1 <= n /\ n <= x.s + Len(g) + 1
    BY <1>6, <1>7, <2>2, <2>3
  <2>5. PICK a \in Nat, b \in Nat, l \in Nat, s \in Nat : a = x.s /\ b = x.e /\ l = Len(g) /\ s = Len(data)
    BY <1>6, <1>7
  <2>6. n = a + l + 1 /\ a + l + 1 <= b /\ b <= s
    BY <1>6, <2>1, <2>4, <2>5, SMTT(60)
  <2>7. n <= b /\ n \in 1..s /\ ~(n > s)
    BY <2>6
  <2> QED BY <2>5, <2>6, <2>7
<1>9. /\ Moved(q1, q, "reading", {"todo", "got"}) /\ q1.todo = q.todo \ {n}
      /\ q1.got = [q.got EXCEPT ![m] = Append(@, data[n])]
  <2> HIDE DEF n, data
  <2> QED BY <1>3, <1>8, ReadChunkStep DEF n
<1>10. q1.pc = "reading" /\ Call(q1) = c
  BY <1>9, MovedCall
<1>11. q1.seen = q.seen /\ q1.meta = q.meta /\ q1.ranges = q.ranges /\ q1.fd = q.fd
  BY <1>9 DEF Moved, Fields
<1>12. data[n] \in Byte
  BY <1>8, ElementOfSeq
<1> DEFINE g1 == Append(g, data[n])
<1> HIDE DEF q, q1, c, W, n, data, m, x
<1>13. /\ g1 \in Seq(Byte) /\ Len(g1) = Len(g) + 1 /\ g1[Len(g) + 1] = data[n]
       /\ \A j \in 1..Len(g) : g1[j] = g[j]
  <2> HIDE DEF g
  <2> QED BY <1>7, <1>12, AppendProperties
<1>14. q1.got \in Seq(Seq(Byte)) /\ Len(q1.got) = m /\ q1.got[m] = g1 /\ \A i \in 1..(m - 1) : q1.got[i] = q.got[i]
  <2>1. q1.got = [q.got EXCEPT ![m] = g1]
    BY <1>9
  <2>2. Len(q.got) = m
    BY DEF m
  <2>3. \A i \in 1..(m - 1) : i \in 1..m /\ i # m
    BY <1>5
  <2> HIDE DEF g1
  <2> QED BY <1>4, <1>5, <1>13, <2>1, <2>2, <2>3, ExceptSeq
<1>15. Reading(g1, q1.todo, data, x)
  <2> HIDE DEF g, g1
  <2>1. Len(g1) <= x.e - x.s
    BY <1>6, <1>7, <1>8, <1>13
  <2>2. q1.todo = (x.s + Len(g1) + 1)..x.e
    <3>1. PICK a \in Nat, b \in Nat, l \in Nat : a = x.s /\ b = x.e /\ l = Len(g)
      BY <1>6, <1>7
    <3>2. ((a + l + 1)..b) \ {a + l + 1} = (a + (l + 1) + 1)..b
      OBVIOUS
    <3> QED BY <1>7, <1>8, <1>9, <1>13, <3>1, <3>2
  <2>3. \A j \in 1..Len(g1) : g1[j] = data[x.s + j]
    <3>1. \A j \in 1..(Len(g) + 1) : j \in 1..Len(g) \/ j = Len(g) + 1
      BY <1>7
    <3>2. x.s + (Len(g) + 1) = n
      <4>1. PICK a \in Nat, l \in Nat : a = x.s /\ l = Len(g)
        BY <1>6, <1>7
      <4>2. a + (l + 1) = a + l + 1
        OBVIOUS
      <4> QED BY <1>8, <4>1, <4>2
    <3>3. g1[Len(g) + 1] = data[x.s + (Len(g) + 1)]
      BY <1>13, <3>2
    <3> QED BY <1>7, <1>13, <3>1, <3>3
  <2> QED BY <1>13, <2>1, <2>2, <2>3 DEF Reading
<1>16. Within(q1, data, W)
  <2> HIDE DEF g, g1
  <2>1. /\ Len(q1.ranges) = Len(q.ranges) /\ q1.ranges \in Seq(Span) /\ q1.got \in Seq(Seq(Byte))
        /\ Len(q1.ranges) # 0 /\ Len(q1.got) # 0 /\ Len(q1.got) + Len(q1.ranges) = Len(W) + 1
    BY <1>4, <1>11, <1>14
  <2>2. \A i \in 1..Len(q1.ranges) : q1.ranges[i] = W[Len(q1.got) + i - 1]
    BY <1>4, <1>11, <1>14
  <2>3. \A i \in 1..(Len(q1.got) - 1) : q1.got[i] = Part(data, W[i])
    BY <1>4, <1>14
  <2>4. Reading(q1.got[Len(q1.got)], q1.todo, data, W[Len(q1.got)])
    BY <1>14, <1>15 DEF x
  <2> QED BY <2>1, <2>2, <2>3, <2>4 DEF Within
<1> QED BY <1>1, <1>2, <1>10, <1>11, <1>16 DEF GetOK, q1, W, data

LEMMA GetRangeEnd ==
    ASSUME TypeInv, NEW r \in Requests, NEW k \in Keys, k = Key(r), NEW w, RangeEnd(r), GetOK(req[r], w, View(k)),
           w.f.data \in Seq(Byte)
    PROVE  GetOK(req'[r], w, View(k)')
<1> DEFINE q == req[r]
           q1 == req'[r]
           c == Call(q)
           data == w.f.data
           W == RangesOf(c, Len(data))
           m == Len(q.got)
           g == q.got[m]
           x == W[m]
           l == Len(q.ranges)
<1>0. q.pc = "reading" /\ KeepFs /\ q.todo = {}
  BY RangeEndStep
<1>1. /\ View(k) = w /\ w.ino # 0 /\ ReadOutcome(c.cond, w) = "ok" /\ q.seen = ETag(w)
      /\ Len(data) # 0 /\ RangesOk(c.specs, Len(data)) /\ q.meta = w.f.meta /\ Within(q, data, W)
  BY <1>0 DEF GetOK
<1>2. View(k)' = w
  BY <1>0, <1>1, ViewKept
<1>4. /\ q.ranges \in Seq(Span) /\ q.got \in Seq(Seq(Byte)) /\ l # 0 /\ m # 0
      /\ m + l = Len(W) + 1
      /\ \A i \in 1..l : q.ranges[i] = W[m + i - 1]
      /\ \A i \in 1..(m - 1) : q.got[i] = Part(data, W[i])
      /\ Reading(g, q.todo, data, x)
  BY <1>1 DEF Within
<1>5. m \in Nat /\ m \in 1..m /\ l \in Nat
  BY <1>4, LenProperties
<1>6. /\ c.op = "get" /\ Len(data) \in Nat \ {0} /\ Len(W) \in Nat
      /\ \A i \in 1..Len(W) : W[i].s \in Nat /\ W[i].e \in Nat /\ W[i].s < W[i].e /\ W[i].e <= Len(data)
      /\ \A i \in 1..Len(W) : Part(data, W[i]) \in Seq(Byte)
  <2> HIDE DEF W
  <2> QED BY <1>0, GetRanges DEF W
<1>7. /\ g \in Seq(Byte) /\ Len(g) \in Nat /\ Len(g) <= x.e - x.s /\ q.todo = (x.s + Len(g) + 1)..x.e
      /\ \A j \in 1..Len(g) : g[j] = data[x.s + j]
  BY <1>4, LenProperties DEF Reading
<1>8. m \in 1..Len(W)
  <2> HIDE DEF W, q, m, l
  <2> QED BY <1>4, <1>5, <1>6
<1>9. g = Part(data, x)
  <2>1. x.s \in Nat /\ x.e \in Nat /\ x.s < x.e /\ x.e <= Len(data)
    BY <1>6, <1>8
  <2> HIDE DEF q, g, x, data
  <2>2. Len(g) = x.e - x.s
    <3>1. PICK a \in Nat, b \in Nat, n \in Nat : a = x.s /\ b = x.e /\ n = Len(g)
      BY <1>7, <2>1
    <3>2. (a + n + 1)..b = {} /\ n <= b - a
      BY <1>0, <1>7, <3>1
    <3>3. n = b - a
      <4>1. a + n + 1 <= b => b \in (a + n + 1)..b
        OBVIOUS
      <4> QED BY <3>2, <4>1
    <3> QED BY <3>1, <3>3
  <2>3. /\ Part(data, x) \in Seq(Byte) /\ Len(Part(data, x)) = x.e - x.s
        /\ \A j \in 1..(x.e - x.s) : Part(data, x)[j] = data[x.s + j]
    <3>1. data \in Seq(Byte)
      BY DEF data
    <3> QED BY <2>1, <3>1, PartFacts
  <2>4. \A j \in 1..Len(Part(data, x)) : g[j] = Part(data, x)[j]
    BY <1>7, <2>2, <2>3
  <2> QED BY <1>7, <2>2, <2>3, <2>4, SameSeq
<1>10. \A i \in 1..m : q.got[i] = Part(data, W[i])
  <2> HIDE DEF q, W, data
  <2>1. q.got[m] = Part(data, W[m])
    BY <1>9
  <2> HIDE DEF m
  <2>2. \A i \in 1..m : i \in 1..(m - 1) \/ i = m
    BY <1>5
  <2> QED BY <1>4, <2>1, <2>2
<1>11. CASE l = 1 /\ Ended(q1, q, "ok", {})
  <2>1. q1.pc = "done" /\ q1.answer = "ok" /\ Call(q1) = c
    BY <1>11, EndedCall
  <2>2. q1.seen = q.seen /\ q1.meta = q.meta /\ q1.got = q.got
    BY <1>11 DEF Ended
  <2>3. q.got = AllParts(data, W)
    <3> HIDE DEF q, W, data, m, l
    <3>1. Len(W) = m
      BY <1>4, <1>5, <1>6, <1>11
    <3>2. Len(q.got) = Len(W)
      BY <3>1 DEF m
    <3>3. q.got \in Seq(Seq(Byte)) /\ \A i \in 1..Len(W) : q.got[i] = Part(data, W[i])
      BY <1>4, <1>10, <3>1
    <3>4. Len(W) \in Nat /\ \A i \in 1..Len(W) : Part(data, W[i]) \in Seq(Byte)
      BY <1>6
    <3> QED BY <3>2, <3>3, <3>4, AllPartsFacts
  <2> HIDE DEF q, q1, c, W
  <2>4. GetDone(q1, w)
    BY <1>1, <2>1, <2>2, <2>3 DEF GetDone, W
  <2> QED BY <1>2, <2>1, <2>4 DEF GetOK, q1
<1>12. CASE l # 1 /\ Moved(q1, q, "stream", {"ranges"}) /\ q1.ranges = Tail(q.ranges)
  <2>1. q1.pc = "stream" /\ Call(q1) = c
    BY <1>12, MovedCall
  <2>2. q1.seen = q.seen /\ q1.meta = q.meta /\ q1.got = q.got
    BY <1>12 DEF Moved, Fields
  <2>3. /\ q1.ranges \in Seq(Span) /\ Len(q1.ranges) = l - 1 /\ \A i \in 1..(l - 1) : q1.ranges[i] = q.ranges[i + 1]
    <3>1. q.ranges # << >> /\ q.ranges \in Seq(Span) /\ Len(q.ranges) = l
      BY <1>4
    <3> HIDE DEF q, l, q1
    <3>2. /\ Tail(q.ranges) \in Seq(Span) /\ Len(Tail(q.ranges)) = Len(q.ranges)-1
          /\ \A i \in 1 .. Len(Tail(q.ranges)) : Tail(q.ranges)[i] = q.ranges[i+1]
      BY <3>1, HeadTailProperties
    <3> QED BY <1>12, <3>1, <3>2
  <2> HIDE DEF q, q1, c, W, m, l, data
  <2>4. Between(q1, data, W)
    <3>1. Len(q1.got) = m
      BY <2>2 DEF m
    <3>2. Len(q1.ranges) # 0 /\ m + Len(q1.ranges) = Len(W)
      <4>1. PICK a \in Nat, b \in Nat, d \in Nat : a = m /\ b = l /\ d = Len(W)
        BY <1>5, <1>6
      <4>2. b - 1 # 0 /\ a + (b - 1) = d
        BY <1>4, <1>12, <4>1
      <4> QED BY <2>3, <4>1, <4>2
    <3>3. \A i \in 1..(l - 1) : i + 1 \in 1..l /\ m + (i + 1) - 1 = m + i
      BY <1>5
    <3>4. \A i \in 1..(l - 1) : q1.ranges[i] = W[m + i]
      BY <1>4, <2>3, <3>3
    <3> QED BY <1>4, <1>10, <2>2, <2>3, <3>1, <3>2, <3>4 DEF Between
  <2> QED BY <1>1, <1>2, <2>1, <2>2, <2>4 DEF GetOK, q1, W, data
<1> QED BY <1>11, <1>12, RangeEndStep

LEMMA TagsExists ==
    ASSUME TypeInv, NEW r \in Requests, NEW k \in Keys, k = Key(r), NEW w, Exists(r), Call(req[r]).op = "gettags",
           GetTagsOK(req[r], w, View(k))
    PROVE  GetTagsOK(req'[r], w, View(k)')
<1> DEFINE q == req[r]
           q1 == req'[r]
<1>0. q.pc = "exists" /\ KeepFs
  BY ExistsStep
<1>1. View(k) = w /\ View(k)' = w
  BY <1>0, ViewKept DEF GetTagsOK
<1>2. Ino(r) = w.ino
  BY <1>1, ViewFacts DEF Ino
<1>3. CASE Ino(r) = 0 /\ Ended(q1, q, "404", {})
  <2>1. q1.pc = "done" /\ q1.answer = "404"
    BY <1>3 DEF Ended
  <2> QED BY <1>1, <1>2, <1>3, <2>1 DEF GetTagsOK
<1>4. CASE Ino(r) # 0 /\ Moved(q1, q, "readtags", {})
  <2>1. q1.pc = "readtags"
    BY <1>4 DEF Moved
  <2> QED BY <1>1, <1>2, <1>4, <2>1 DEF GetTagsOK
<1> QED BY <1>3, <1>4, ExistsStep

LEMMA TagsRead ==
    ASSUME TypeInv, NEW r \in Requests, NEW k \in Keys, k = Key(r), NEW w, ReadTags(r),
           GetTagsOK(req[r], w, View(k))
    PROVE  GetTagsOK(req'[r], w, View(k)')
<1> DEFINE q == req[r]
           q1 == req'[r]
<1>0. q.pc = "readtags" /\ KeepFs
  BY ReadTagsStep
<1>1. View(k) = w /\ View(k)' = w /\ w.ino # 0
  BY <1>0, ViewKept DEF GetTagsOK
<1>2. Ino(r) = w.ino
  BY <1>1, ViewFacts DEF Ino
<1>3. file[Ino(r)].tags = w.f.tags
  BY <1>1, <1>2 DEF View, NoView, FdView
<1>4. Ended(q1, q, "ok", {"tags"}) /\ q1.tags = w.f.tags
  BY <1>1, <1>2, <1>3, ReadTagsStep
<1>5. q1.pc = "done" /\ q1.answer = "ok"
  BY <1>4 DEF Ended
<1> QED BY <1>1, <1>4, <1>5 DEF GetTagsOK

-----------------------------------------------------------------------------
(* Undisturbed reads. *)

LEMMA ReadOwn ==
    ASSUME TypeInv, WasInv, NEW r \in Requests, Handler(r) \/ WriteLands(r), Quiet(r) => ReadOK(r)
    PROVE  Quiet(r)' => ReadOK(r)'
<1> SUFFICES ASSUME Quiet(r)' PROVE ReadOK(r)'
  OBVIOUS
<1>1. Call(req'[r]) = Call(req[r]) /\ req[r].pc # "idle" /\ was' = was /\ Quiet(r)
  BY QuietOwn
<1>2. ReadOK(r)
  BY <1>1
<1>3. PICK k, w : k = Key(r) /\ w = was[r][k] /\ Key(r)' = k
  BY <1>1 DEF Key
<1>4. ASSUME Call(req[r]).op \notin DirOps PROVE k \in Keys /\ w.f.data \in Seq(Byte)
  <2>1. k \in Keys
    BY <1>1, <1>3, <1>4, Looks
  <2> QED BY <1>1, <1>3, <2>1 DEF WasInv, WasOK, IsFile
<1>5. CASE Call(req[r]).op \in {"get", "head"}
  <2>1. GetOK(req[r], w, View(k)) /\ k \in Keys /\ w.f.data \in Seq(Byte)
    BY <1>2, <1>3, <1>4, <1>5 DEF ReadOK, DirOps
  <2>2. GetOK(req'[r], w, View(k)')
    <3>1. Open(r) \/ Attrs(r) \/ Small(r) \/ Stream(r) \/ ReadChunk(r) \/ RangeEnd(r)
      BY <1>5, Acts
    <3>2. CASE Open(r) \/ Attrs(r)
      BY <1>3, <2>1, <3>2, GetOpen, GetAttrs
    <3>3. CASE Small(r) \/ Stream(r)
      BY <1>3, <2>1, <3>3, GetSmall, GetStream
    <3>4. CASE ReadChunk(r) \/ RangeEnd(r)
      BY <1>3, <2>1, <3>4, GetChunk, GetRangeEnd
    <3> QED BY <3>1, <3>2, <3>3, <3>4
  <2> QED BY <1>1, <1>3, <1>5, <2>2 DEF ReadOK
<1>6. CASE Call(req[r]).op = "gettags"
  <2>1. GetTagsOK(req[r], w, View(k)) /\ k \in Keys
    BY <1>2, <1>3, <1>4, <1>6 DEF ReadOK, DirOps
  <2>2. GetTagsOK(req'[r], w, View(k)')
    BY <1>3, <1>6, <2>1, Acts, TagsExists, TagsRead
  <2> QED BY <1>1, <1>3, <1>6, <2>2 DEF ReadOK
<1>7. CASE Call(req[r]).op \notin {"get", "head", "gettags"}
  BY <1>1, <1>7 DEF ReadOK
<1> QED BY <1>5, <1>6, <1>7

LEMMA ReadOthers ==
    ASSUME TypeInv, NEW r \in Requests, Quiet(r) => ReadOK(r), req'[r] = req[r], was'[r] = was[r],
           clean'[r] => clean[r] /\ Same(r)
    PROVE  Quiet(r)' => ReadOK(r)'
<1> SUFFICES ASSUME Quiet(r)' PROVE ReadOK(r)'
  OBVIOUS
<1>1. Quiet(r) /\ Same(r) /\ req[r].pc # "idle"
  BY DEF Quiet, Call
<1>2. ReadOK(r)
  BY <1>1
<1>3. PICK k : k = Key(r) /\ Key(r)' = k /\ Call(req'[r]) = Call(req[r])
  BY DEF Call, Key
<1>4. ASSUME Call(req[r]).op \notin DirOps PROVE View(k)' = View(k)
  <2>1. k \in Watched(r)
    BY <1>1, <1>3, <1>4, Looks
  <2> QED BY <1>1, <2>1 DEF Same
<1>5. CASE Call(req[r]).op \in {"get", "head"}
  <2>1. GetOK(req[r], was[r][k], View(k)) /\ View(k)' = View(k)
    BY <1>2, <1>3, <1>4, <1>5 DEF ReadOK, DirOps
  <2> QED BY <1>3, <1>5, <2>1 DEF ReadOK
<1>6. CASE Call(req[r]).op = "gettags"
  <2>1. GetTagsOK(req[r], was[r][k], View(k)) /\ View(k)' = View(k)
    BY <1>2, <1>3, <1>4, <1>6 DEF ReadOK, DirOps
  <2> QED BY <1>3, <1>6, <2>1 DEF ReadOK
<1>7. CASE Call(req[r]).op \notin {"get", "head", "gettags"}
  BY <1>3, <1>7 DEF ReadOK
<1> QED BY <1>5, <1>6, <1>7

LEMMA ReadArrive ==
    ASSUME TypeInv, NEW r \in Requests, NEW n \in DOMAIN Calls, Arrive(r, n)
    PROVE  Quiet(r)' => ReadOK(r)'
<1> SUFFICES ASSUME Quiet(r)' PROVE ReadOK(r)'
  OBVIOUS
<1> DEFINE c == Calls[n]
           q == req'[r]
<1>1. /\ Call(q) = c /\ CallOK(c) /\ KeepFs
      /\ \A k \in Keys : k \in {c.key, c.from} => was'[r][k] = View(k)
  BY Arrival
<1>2. c.refuse = "none"
  BY <1>1 DEF Quiet
<1>3. q.pc = Flow(c.op).start /\ q.got = << >>
  BY <1>2, Arrival
<1>4. PICK k : k = c.key /\ Key(r)' = k
  BY <1>1 DEF Key
<1>5. \A i : View(i)' = View(i)
  BY <1>1, ViewKept
<1>6. c.op \notin DirOps => k \in Keys /\ was'[r][k] = View(k)
  BY <1>1, <1>4 DEF CallOK
<1> HIDE DEF c, q
<1>7. CASE c.op \in {"get", "head"}
  <2>1. q.pc = "open" /\ was'[r][k] = View(k)
    BY <1>3, <1>6, <1>7, OtherAfter DEF DirOps
  <2>2. GetOK(q, View(k), View(k))
    BY <1>1, <1>3, <2>1 DEF GetOK
  <2> QED BY <1>1, <1>4, <1>5, <1>7, <2>1, <2>2 DEF ReadOK, q
<1>8. CASE c.op = "gettags"
  <2>1. q.pc = "exists" /\ was'[r][k] = View(k)
    BY <1>3, <1>6, <1>8, OtherAfter DEF DirOps
  <2>2. GetTagsOK(q, View(k), View(k))
    BY <2>1 DEF GetTagsOK
  <2> QED BY <1>1, <1>4, <1>5, <1>8, <2>1, <2>2 DEF ReadOK, q
<1>9. CASE c.op \notin {"get", "head", "gettags"}
  BY <1>1, <1>9 DEF ReadOK, q
<1> QED BY <1>7, <1>8, <1>9

LEMMA ReadNext == TypeInv /\ WasInv /\ ReadInv /\ [Next]_vars => ReadInv'
<1> SUFFICES ASSUME TypeInv, WasInv, ReadInv, [Next]_vars, NEW x \in Requests PROVE Quiet(x)' => ReadOK(x)'
  BY DEF ReadInv
<1>1. Quiet(x) => ReadOK(x)
  BY DEF ReadInv
<1>2. CASE Handler(x) \/ WriteLands(x)
  BY <1>1, <1>2, ReadOwn
<1>3. CASE \E n \in DOMAIN Calls : Arrive(x, n)
  BY <1>3, ReadArrive
<1>4. CASE req'[x].failed = TRUE
  BY <1>4 DEF Quiet
<1>5. CASE /\ req'[x] = req[x] /\ was'[x] = was[x]
           /\ clean'[x] => clean[x] /\ Same(x)
  BY <1>1, <1>5, ReadOthers
<1> QED BY <1>2, <1>3, <1>4, <1>5, StepOf

\* The answer the property asks for, in the handler's terms.
LEMMA AskedOk ==
    ASSUME NEW c, CallOK(c), NEW size \in Nat \ {0}
    PROVE  (\E n \in 1..Len(c.specs) : Asked(c.specs[n], size) = {}) <=> ~RangesOk(c.specs, size)
<1> DEFINE Spec1 == [first : Nat \cup {Absent}, last : Nat \cup {Absent}]
           L == Len(c.specs)
<1>1. /\ L \in Nat /\ \A n \in 1..L : c.specs[n] \in Spec1 /\ (c.specs[n].first # Absent \/ c.specs[n].last # Absent)
  <2>1. c.specs \in Seq(Spec1) /\ \A n \in 1..L : c.specs[n].first # Absent \/ c.specs[n].last # Absent
    BY DEF CallOK
  <2> HIDE DEF Spec1
  <2> QED BY <2>1, LenProperties
<1>2. ASSUME NEW n \in 1..L
      PROVE  Ranges(c.specs, size)[n] = Unsatisfiable <=> Asked(c.specs[n], size) = {}
  <2>1. Ranges(c.specs, size)[n] = ParseOneRange(c.specs[n], size)
    BY DEF Ranges
  <2> QED BY <1>1, <2>1, RangeAsked
<1> QED BY <1>2 DEF RangesOk

\* The bytes the property asks for.
LEMMA GotAsked ==
    ASSUME NEW c, CallOK(c), NEW data \in Seq(Byte), Len(data) # 0, c.op = "get", RangesOk(c.specs, Len(data))
    PROVE  AllParts(data, RangesOf(c, Len(data))) =
             IF Len(c.specs) = 0 THEN << data >> ELSE [n \in 1..Len(c.specs) |-> RangeData(data, c.specs[n])]
<1> DEFINE size == Len(data)
           W == RangesOf(c, size)
<1>0. size \in Nat \ {0}
  BY LenProperties
<1>1. /\ Len(W) \in Nat \ {0}
      /\ \A n \in 1..Len(W) : W[n].s \in Nat /\ W[n].e \in Nat /\ W[n].s < W[n].e /\ W[n].e <= size
      /\ Len(c.specs) = 0 => W = Whole(size)
      /\ Len(c.specs) # 0 => /\ Len(W) = Len(c.specs)
                             /\ \A n \in 1..Len(W) : Asked(c.specs[n], size) = (W[n].s + 1)..W[n].e
  <2> HIDE DEF size
  <2> QED BY <1>0, RangesFacts DEF size
<1>2. CASE Len(c.specs) = 0
  <2>1. W = << [s |-> 0, e |-> size] >>
    BY <1>1, <1>2 DEF Whole
  <2>2. Len(W) = 1 /\ W[1] = [s |-> 0, e |-> size]
    BY <2>1
  <2>3. Part(data, W[1]) = data
    BY <2>2, PartWhole
  <2> HIDE DEF W
  <2>4. AllParts(data, W) = [n \in 1..1 |-> data]
    <3>1. \A n \in 1..1 : Part(data, W[n]) = data
      BY <2>3
    <3> QED BY <2>2, <3>1 DEF AllParts
  <2>5. [n \in 1..1 |-> data] = << data >>
    OBVIOUS
  <2> QED BY <1>2, <2>4, <2>5 DEF W
<1>3. CASE Len(c.specs) # 0
  <2>1. \A n \in 1..Len(W) : RangeData(data, c.specs[n]) = Part(data, W[n])
    <3> HIDE DEF W
    <3> QED BY <1>1, <1>3, PartIsAsked
  <2> HIDE DEF W
  <2>2. AllParts(data, W) = [n \in 1..Len(c.specs) |-> RangeData(data, c.specs[n])]
    BY <1>1, <1>3, <2>1 DEF AllParts
  <2> QED BY <1>3, <2>2 DEF W
<1> QED BY <1>2, <1>3

LEMMA ReadExact ==
    ASSUME TypeInv, WasInv, ReadInv, NEW r \in Requests, Undisturbed(r)
    PROVE  ReadIsExact(r)
<1> DEFINE q == req[r]
           c == Call(q)
           k == Key(r)
           w == was[r][k]
           size == Len(w.f.data)
           none == \E n \in 1..Len(c.specs) : Asked(c.specs[n], size) = {}
<1>1. q.pc = "done" /\ Quiet(r) /\ ReadOK(r)
  BY DEF Undisturbed, Done, Quiet, ReadInv
<1>2. Cond(r) = c.cond
  BY DEF Cond
<1>3. ASSUME c.op \in {"get", "head"}
      PROVE  GetDone(q, w) /\ size \in Nat /\ CallOK(c) /\ w.f.data \in Seq(Byte)
  <2>1. GetOK(q, w, View(k))
    BY <1>1, <1>3 DEF ReadOK
  <2>2. CallOK(c) /\ k \in Keys
    BY <1>1, <1>3, Looks DEF DirOps
  <2>3. w.f.data \in Seq(Byte)
    BY <1>1, <2>2 DEF WasInv, WasOK, IsFile
  <2>4. GetDone(q, w)
    BY <1>1, <2>1 DEF GetOK
  <2> QED BY <2>2, <2>3, <2>4, LenProperties
<1>4. ASSUME c.op \in {"get", "head"}, size # 0 PROVE none <=> ~RangesOk(c.specs, size)
  <2> HIDE DEF c, size
  <2> QED BY <1>3, <1>4, AskedOk
<1>5. ASSUME c.op \in {"get", "head"}
      PROVE  IF w.ino = 0 THEN q.answer = "404"
             ELSE IF ReadOutcome(c.cond, w) # "ok" THEN q.answer = ReadOutcome(c.cond, w)
             ELSE IF size > 0 /\ none THEN q.answer = "416"
             ELSE /\ q.answer = "ok" /\ q.seen = ETag(w) /\ q.meta = w.f.meta
                  /\ c.op = "get" => q.got = IF size = 0 THEN << >> ELSE IF Len(c.specs) = 0 THEN << w.f.data >>
                                       ELSE [n \in 1..Len(c.specs) |-> RangeData(w.f.data, c.specs[n])]
  <2>1. size > 0 <=> size # 0
    BY <1>3, <1>5, SMTT(60)
  <2>2. CASE w.ino = 0 \/ ReadOutcome(c.cond, w) # "ok"
    BY <1>3, <1>5, <2>2 DEF GetDone
  <2>3. CASE w.ino # 0 /\ ReadOutcome(c.cond, w) = "ok" /\ size # 0 /\ none
    BY <1>3, <1>4, <1>5, <2>1, <2>3 DEF GetDone
  <2>4. CASE w.ino # 0 /\ ReadOutcome(c.cond, w) = "ok" /\ ~(size # 0 /\ none)
    <3>1. /\ q.answer = "ok" /\ q.seen = ETag(w) /\ q.meta = w.f.meta
          /\ c.op = "get" /\ size = 0 => q.got = << >>
          /\ c.op = "get" /\ size # 0 => q.got = AllParts(w.f.data, RangesOf(c, size))
      BY <1>3, <1>4, <1>5, <2>4 DEF GetDone
    <3>2. c.op = "get" /\ size # 0 => q.got = IF Len(c.specs) = 0 THEN << w.f.data >>
                                       ELSE [n \in 1..Len(c.specs) |-> RangeData(w.f.data, c.specs[n])]
      <4> SUFFICES ASSUME c.op = "get", size # 0
                   PROVE  q.got = IF Len(c.specs) = 0 THEN << w.f.data >>
                                  ELSE [n \in 1..Len(c.specs) |-> RangeData(w.f.data, c.specs[n])]
        OBVIOUS
      <4>1. RangesOk(c.specs, size)
        BY <1>4, <1>5, <2>4
      <4> HIDE DEF c
      <4> QED BY <1>3, <1>5, <3>1, <4>1, GotAsked
    <3> HIDE DEF none, size, w, q, c
    <3> QED BY <2>1, <2>4, <3>1, <3>2
  <2> QED BY <2>2, <2>3, <2>4
<1>6. CASE c.op = "get"
  <2> HIDE DEF q, c, k, w, size, none
  <2> QED BY <1>2, <1>5, <1>6 DEF ReadIsExact, q, c, k, w, size, none
<1>7. CASE c.op = "head"
  <2> HIDE DEF q, c, k, w, size, none
  <2> QED BY <1>2, <1>5, <1>7 DEF ReadIsExact, q, c, k, w, size, none
<1>8. CASE c.op = "gettags"
  <2>1. GetTagsOK(q, w, View(k))
    BY <1>1, <1>8 DEF ReadOK
  <2>2. IF w.ino = 0 THEN q.answer = "404" ELSE q.answer = "ok" /\ q.tags = w.f.tags
    BY <1>1, <2>1 DEF GetTagsOK
  <2> QED BY <1>8, <2>2 DEF ReadIsExact
<1>9. CASE c.op \notin {"get", "head", "gettags"}
  BY <1>9 DEF ReadIsExact
<1> QED BY <1>6, <1>7, <1>8, <1>9

\* A GET, a HEAD or a read of the tags that nobody disturbs answers with one
\* state of the object: the status its conditions and ranges ask for, that
\* state's tag, metadata and tags, and the bytes of every range it asks for,
\* although a streamed range opens the object again by its path.
THEOREM ReadsExact == Spec => []UndisturbedReadExact
<1>1. Init => ReadInv
  BY DEF Init, ReadInv, Quiet, Idle
<1>2. TypeInv /\ WasInv /\ ReadInv => UndisturbedReadExact
  BY ReadExact DEF UndisturbedReadExact
<1> QED BY <1>1, <1>2, TypesKept, WasInit, WasNext, ReadNext, PTL DEF Spec

-----------------------------------------------------------------------------
(* Appends.  The lock of an inode has one holder, an append that has it from *)
(* before it looks at the size until its last write has landed.              *)

LockOK(q) ==
    /\ q.locked => Call(q).op = "append" /\ q.pc \in {"offset", "body", "stat", "done"}
    /\ Call(q).op = "append" /\ q.flying # {} => q.locked
Exclusive == \A x, y \in Requests : x # y /\ req[x].locked /\ req[y].locked => req[x].fd # req[y].fd

\* The writes of an append are its chunks, behind its offset.
RegionOK(r, q) ==
    LET c == Call(q) IN
    c.op = "append" =>
      /\ \A w \in q.flying : \E n \in 1..c.len : w = <<c.offset + n, <<r, n>>>>
      /\ q.pc = "body" => q.todo \subseteq 1..c.len
LockInv == Exclusive /\ \A r \in Requests : LockOK(req[r]) /\ RegionOK(r, req[r])

LEMMA MovedLock ==
    ASSUME NEW q, NEW q1, NEW p, NEW F, Moved(q1, q, p, F), "locked" \notin F
    PROVE  q1.locked = q.locked
BY DEF Moved, Fields

LEMMA EndedLock ==
    ASSUME NEW q, NEW q1, NEW a, NEW F, Ended(q1, q, a, F)
    PROVE  q1.locked => q.locked
BY DEF Ended

\* Only an append takes the lock.
LEMMA NoLock ==
    ASSUME TypeInv, NEW r \in Requests, Handler(r) \/ WriteLands(r), Call(req[r]).op # "append", ~req[r].locked
    PROVE  ~req'[r].locked
<1> DEFINE q == req[r]
           q1 == req'[r]
<1>1. \A p, F : Moved(q1, q, p, F) /\ "locked" \notin F => ~q1.locked
  BY MovedLock
<1>2. \A a, F : Ended(q1, q, a, F) => ~q1.locked
  BY EndedLock
<1>3. CASE CopyChunk(r)
  BY <1>1, <1>3, CopyChunkStep
<1>4. CASE Check(r)
  BY <1>1, <1>2, <1>4, CheckStep
<1>5. CASE Source(r)
  BY <1>1, <1>2, <1>5, SourceStep
<1>6. CASE SrcAttrs(r)
  BY <1>1, <1>2, <1>6, SrcAttrsStep
<1>7. CASE OpenSource(r)
  BY <1>1, <1>2, <1>7, OpenSourceStep
<1>8. CASE Mkdirs(r)
  <2>1. Moved(q1, q, "create", {}) \/ Moved(q1, q, "opensrc", {}) \/ Moved(q1, q, "statdir", {})
    BY <1>8, MkdirsStep
  <2> HIDE DEF q, q1
  <2> QED BY <1>1, <1>2, <2>1 DEF q, q1
<1>9. CASE Create(r)
  BY <1>1, <1>2, <1>9, CreateStep
<1>10. CASE OpenExisting(r) \/ Flock(r) \/ Offset(r)
  BY <1>10, OpenExistingStep, FlockStep, OffsetStep
<1>13. CASE Receive(r)
  BY <1>1, <1>2, <1>13, ReceiveStep
<1>14. CASE BodyEnd(r)
  BY <1>1, <1>2, <1>14, BodyEndStep
<1>15. CASE Trunc(r)
  BY <1>1, <1>2, <1>15, TruncStep
<1>16. CASE Stat(r)
  BY <1>1, <1>2, <1>16, StatStep
<1>17. CASE Tags(r)
  <2>1. Ended(q1, q, "500", {}) \/ Moved(q1, q, "meta", {}) \/ Ended(q1, q, "ok", {})
    BY <1>17, TagsStep
  <2> HIDE DEF q, q1
  <2> QED BY <1>1, <1>2, <2>1 DEF q, q1
<1>18. CASE Meta(r)
  <2>1. Ended(q1, q, "500", {}) \/ Moved(q1, q, "stat", {}) \/ Ended(q1, q, "ok", {})
    BY <1>18, MetaStep
  <2> HIDE DEF q, q1
  <2> QED BY <1>1, <1>2, <2>1 DEF q, q1
<1>19. CASE Open(r)
  BY <1>1, <1>2, <1>19, OpenStep
<1>20. CASE Attrs(r)
  BY <1>1, <1>2, <1>20, AttrsStep
<1>21. CASE Small(r)
  BY <1>1, <1>2, <1>21, SmallStep
<1>22. CASE Stream(r)
  BY <1>1, <1>2, <1>22, StreamStep
<1>23. CASE ReadChunk(r)
  <2>1. Moved(q1, q, "reading", {"todo"}) \/ Moved(q1, q, "reading", {"todo", "got"})
    BY <1>23, ReadChunkStep
  <2> HIDE DEF q, q1
  <2> QED BY <1>1, <1>2, <2>1 DEF q, q1
<1>24. CASE RangeEnd(r)
  BY <1>1, <1>2, <1>24, RangeEndStep
<1>25. CASE Exists(r)
  BY <1>1, <1>2, <1>25, ExistsStep
<1>26. CASE ReadTags(r)
  BY <1>1, <1>2, <1>26, ReadTagsStep
<1>27. CASE Remove(r)
  BY <1>1, <1>2, <1>27, RemoveStep
<1>28. CASE Prune(r)
  BY <1>1, <1>2, <1>28, PruneStep
<1>29. CASE StatDir(r)
  BY <1>1, <1>2, <1>29, StatDirStep
<1>30. CASE WriteLands(r)
  <2>1. PICK w \in q.flying : /\ \/ q1.locked = FALSE
                                 \/ Moved(q1, q, q.pc, {"flying"})
    BY <1>30, WriteLandsStep
  <2> HIDE DEF q, q1
  <2> QED BY <1>1, <2>1 DEF q, q1
<1> QED BY <1>3, <1>4, <1>5, <1>6, <1>7, <1>8, <1>9, <1>10, <1>13, <1>14, <1>15, <1>16, <1>17, <1>18, <1>19, <1>20, <1>21, <1>22, <1>23, <1>24, <1>25, <1>26, <1>27, <1>28, <1>29, <1>30 DEF Handler

\* The steps of an append: where it is, what it holds and what it writes.
\* Nothing but Flock takes the lock, and nothing moves the descriptor under it.
Holds(q1, q) == q1.locked => q.locked /\ q1.fd = q.fd
LEMMA AppendHolds ==
    ASSUME TypeInv, NEW r \in Requests, Handler(r) \/ WriteLands(r), Call(req[r]).op = "append",
           LockOK(req[r]), RegionOK(r, req[r])
    PROVE  /\ LockOK(req'[r]) /\ RegionOK(r, req'[r])
           /\ Flock(r) \/ Holds(req'[r], req[r])
           /\ req'[r].locked /\ req'[r].pc # "offset" => Offset(r) \/ req[r].pc # "offset"
<1> DEFINE q == req[r]
           q1 == req'[r]
           c == Call(q)
<1>0. /\ Call(q1) = c /\ (q.pc # "body" /\ q.pc # "done" => q.flying = {}) /\ (q.pc \in {"offset", "body", "stat"} => q.locked)
      /\ CallOK(c)
  BY QuietOwn, HandlersOK DEF HandlerOK
<1>1. ASSUME NEW a, NEW F, Ended(q1, q, a, F), q.flying = {}
      PROVE  ~q1.locked /\ q1.flying = {} /\ q1.pc = "done"
  BY <1>1 DEF Ended
<1>2. ASSUME ~q1.locked, q1.flying = {}, q1.pc # "body"
      PROVE  LockOK(q1) /\ RegionOK(r, q1) /\ Holds(q1, q)
  BY <1>0, <1>2 DEF LockOK, RegionOK, Holds
<1>3. CASE OpenExisting(r)
  <2>1. CASE Ended(q1, q, "404", {})
    BY <1>0, <1>1, <1>2, <1>3, <2>1, OpenExistingStep
  <2>2. CASE Moved(q1, q, "flock", {"fd"})
    <3>1. q1.pc = "flock" /\ q1.flying = q.flying /\ q1.locked = q.locked /\ q.pc = "existing"
      BY <1>3, <2>2, OpenExistingStep DEF Moved, Fields
    <3>2. ~q.locked
      BY <3>1 DEF LockOK
    <3> QED BY <1>0, <1>2, <3>1, <3>2
  <2> QED BY <1>3, <2>1, <2>2, OpenExistingStep
<1>4. CASE Flock(r)
  <2>1. q.pc = "flock" /\ Moved(q1, q, "offset", {"locked"}) /\ q1.locked = TRUE
    BY <1>4, FlockStep
  <2>2. q1.pc = "offset" /\ q1.flying = q.flying
    BY <2>1 DEF Moved, Fields
  <2> QED BY <1>0, <1>4, <2>1, <2>2 DEF LockOK, RegionOK
<1>5. CASE Offset(r)
  <2>1. CASE \E a : Ended(q1, q, a, {})
    BY <1>0, <1>1, <1>2, <1>5, <2>1, OffsetStep
  <2>2. CASE Moved(q1, q, "body", {"todo"}) /\ q1.todo = 1..c.len
    <3>1. q1.pc = "body" /\ q1.flying = q.flying /\ q1.locked = q.locked /\ q1.fd = q.fd /\ q.pc = "offset"
      BY <1>5, <2>2, OffsetStep DEF Moved, Fields
    <3>2. q.locked /\ q.flying = {}
      BY <1>0, <3>1
    <3> HIDE DEF q, q1, c
    <3>3. LockOK(q1) /\ RegionOK(r, q1) /\ Holds(q1, q)
      BY <1>0, <2>2, <3>1, <3>2 DEF LockOK, RegionOK, Holds, c, q
    <3> QED BY <1>5, <3>3 DEF q, q1
  <2> QED BY <1>5, <2>1, <2>2, OffsetStep
<1>6. CASE Receive(r)
  <2> DEFINE n == First(q.todo)
  <2>1. /\ q.pc = "body" /\ q.todo # {} /\ Moved(q1, q, "body", {"todo", "flying"}) /\ q1.todo = q.todo \ {n}
        /\ \/ q1.flying = q.flying
           \/ q1.flying = q.flying \cup {<<c.offset + n, <<r, n>>>>}
    BY <1>6, ReceiveStep
  <2>2. q1.pc = "body" /\ q1.locked = q.locked /\ q1.fd = q.fd /\ q.locked
    BY <1>0, <2>1 DEF Moved, Fields
  <2>3. n \in 1..c.len /\ q1.todo \subseteq 1..c.len
    <3>1. q.todo \subseteq 1..c.len
      BY <2>1 DEF RegionOK
    <3>2. q.todo \subseteq Nat
      BY <3>1
    <3>3. n \in q.todo
      BY <2>1, <3>2, FirstMin
    <3> QED BY <2>1, <3>1, <3>3
  <2>4. \A w \in q.flying : \E m \in 1..c.len : w = <<c.offset + m, <<r, m>>>>
    BY DEF RegionOK
  <2> HIDE DEF n
  <2>5. \A w \in q1.flying : \E m \in 1..c.len : w = <<c.offset + m, <<r, m>>>>
    BY <2>1, <2>3, <2>4
  <2> HIDE DEF q, q1, c
  <2>6. LockOK(q1) /\ RegionOK(r, q1) /\ Holds(q1, q)
    BY <1>0, <2>1, <2>2, <2>3, <2>5 DEF LockOK, RegionOK, Holds, c, q
  <2> QED BY <2>1, <2>6 DEF q, q1
<1>7. CASE WriteLands(r)
  <2>1. PICK w \in q.flying : /\ q1.flying = q.flying \ {w} /\ Moved(q1, q, q.pc, {"flying", "fd", "locked"})
                              /\ \/ q.pc = "done" /\ q.flying \ {w} = {} /\ q1.locked = FALSE
                                 \/ Moved(q1, q, q.pc, {"flying"})
    BY <1>7, WriteLandsStep
  <2>2. q1.pc = q.pc /\ q1.todo = q.todo /\ q.pc \in {"body", "done"} /\ q.locked
    <3>1. q1.pc = q.pc /\ q1.todo = q.todo
      BY <2>1 DEF Moved, Fields
    <3>2. q.flying # {}
      BY <2>1
    <3>3. q.pc \in {"body", "done"}
      BY <1>0, <3>2
    <3>4. q.locked
      BY <3>2 DEF LockOK
    <3> QED BY <3>1, <3>3, <3>4
  <2>3. RegionOK(r, q1)
    <3>1. /\ \A x \in q.flying : \E m \in 1..c.len : x = <<c.offset + m, <<r, m>>>>
          /\ q.pc = "body" => q.todo \subseteq 1..c.len
      BY DEF RegionOK
    <3> QED BY <1>0, <2>1, <2>2, <3>1 DEF RegionOK
  <2>4. CASE q.pc = "done" /\ q.flying \ {w} = {} /\ q1.locked = FALSE
    BY <1>2, <2>1, <2>2, <2>4
  <2>5. CASE Moved(q1, q, q.pc, {"flying"})
    <3>1. q1.locked = q.locked /\ q1.fd = q.fd
      BY <2>5 DEF Moved, Fields
    <3> HIDE DEF q, q1, c
    <3>2. LockOK(q1) /\ Holds(q1, q)
      BY <1>0, <2>2, <3>1 DEF LockOK, Holds, c, q
    <3> QED BY <2>2, <2>3, <3>2 DEF q, q1
  <2> QED BY <2>1, <2>4, <2>5
<1>8. CASE BodyEnd(r)
  <2>0. q.pc = "body" /\ q.flying = {} /\ q.locked
    BY <1>0, <1>8, BodyEndStep
  <2>1. CASE Ended(q1, q, "500", {})
    BY <1>1, <1>2, <2>0, <2>1
  <2>2. CASE Moved(q1, q, "stat", {})
    <3>1. q1.pc = "stat" /\ q1.flying = q.flying /\ q1.locked = q.locked /\ q1.fd = q.fd
      BY <2>2 DEF Moved, Fields
    <3> HIDE DEF q, q1, c
    <3>2. LockOK(q1) /\ RegionOK(r, q1) /\ Holds(q1, q)
      BY <1>0, <2>0, <3>1 DEF LockOK, RegionOK, Holds, c, q
    <3> QED BY <2>0, <3>2 DEF q, q1
  <2> QED BY <1>8, <2>1, <2>2, BodyEndStep
<1>9. CASE Stat(r)
  BY <1>0, <1>1, <1>2, <1>9, StatStep
<1> QED BY <1>3, <1>4, <1>5, <1>6, <1>7, <1>8, <1>9, Acts

LEMMA LockOwn ==
    ASSUME TypeInv, LockInv, NEW r \in Requests, Handler(r) \/ WriteLands(r)
    PROVE  LockOK(req'[r]) /\ RegionOK(r, req'[r]) /\ (Flock(r) \/ Holds(req'[r], req[r]))
<1>1. LockOK(req[r]) /\ RegionOK(r, req[r])
  BY DEF LockInv
<1>2. CASE Call(req[r]).op = "append"
  BY <1>1, <1>2, AppendHolds
<1>3. CASE Call(req[r]).op # "append"
  <2>1. Call(req'[r]) = Call(req[r])
    BY QuietOwn
  <2>2. ~req[r].locked
    BY <1>1, <1>3 DEF LockOK
  <2>3. ~req'[r].locked
    BY <1>3, <2>2, NoLock
  <2> QED BY <1>3, <2>1, <2>3 DEF LockOK, RegionOK, Holds
<1> QED BY <1>2, <1>3

LEMMA LockFault ==
    ASSUME TypeInv, LockInv, NEW r \in Requests, BodyBroken(r) \/ WriteError(r) \/ IoError(r)
    PROVE  LockOK(req'[r]) /\ RegionOK(r, req'[r]) /\ Holds(req'[r], req[r])
<1> DEFINE q == req[r]
           q1 == req'[r]
           c == Call(q)
<1>1. LockOK(q) /\ RegionOK(r, q)
  BY DEF LockInv
<1>2. CASE BodyBroken(r) \/ IoError(r)
  <2>1. Broken(q1, q)
    BY <1>2, BrokenFields DEF BodyBroken, IoError
  <2>2. /\ q1.pc = "done" /\ q1.flying = q.flying /\ q1.call = q.call
        /\ \/ q.flying = {} /\ q1.locked = FALSE
           \/ q.flying # {} /\ q1.locked = q.locked /\ q1.fd = q.fd
    BY <2>1 DEF Broken
  <2>3. Call(q1) = c
    BY <2>2 DEF Call
  <2> HIDE DEF q, q1
  <2> QED BY <1>1, <2>2, <2>3 DEF LockOK, RegionOK, Holds, q, q1
<1>3. CASE WriteError(r)
  <2>1. /\ q.pc = "body" /\ Moved(q1, q, "body", {"flying", "failed"})
        /\ \E w \in q.flying : q1.flying = q.flying \ {w}
    BY <1>3, WriteErrorStep
  <2>2. q1.pc = "body" /\ q1.locked = q.locked /\ q1.fd = q.fd /\ q1.todo = q.todo /\ q1.call = q.call
    BY <2>1 DEF Moved, Fields
  <2>3. Call(q1) = c /\ q.flying # {} /\ q1.flying \subseteq q.flying
    BY <2>1, <2>2 DEF Call
  <2> HIDE DEF q, q1
  <2> QED BY <1>1, <2>1, <2>2, <2>3 DEF LockOK, RegionOK, Holds, q, q1
<1> QED BY <1>2, <1>3

LEMMA LockArrive ==
    ASSUME TypeInv, NEW r \in Requests, NEW n \in DOMAIN Calls, Arrive(r, n)
    PROVE  LockOK(req'[r]) /\ RegionOK(r, req'[r]) /\ Holds(req'[r], req[r]) /\ ~req'[r].locked
<1>1. req'[r].flying = {} /\ req'[r].locked = FALSE
  BY ArriveStep
<1>2. Call(req'[r]).op = "append" => req'[r].pc # "body"
  <2>1. Call(req'[r]) = Calls[n]
    BY Arrival
  <2>2. req'[r].pc \in {"done", Flow(Calls[n].op).start}
    BY ArriveStep
  <2> QED BY <2>1, <2>2, AppendAfter
<1> QED BY <1>1, <1>2 DEF LockOK, RegionOK, Holds

LEMMA ExclusiveKept ==
    ASSUME Exclusive, NEW a \in Requests, \A x \in Requests \ {a} : req'[x] = req[x],
           Holds(req'[a], req[a]) \/ (LockFree(a) /\ req'[a].fd = req[a].fd)
    PROVE  Exclusive'
<1>1. ASSUME NEW y \in Requests, y # a, req'[a].locked, req[y].locked PROVE req'[a].fd # req[y].fd
  <2>1. CASE Holds(req'[a], req[a])
    BY <1>1, <2>1 DEF Exclusive, Holds
  <2>2. CASE LockFree(a) /\ req'[a].fd = req[a].fd
    BY <1>1, <2>2 DEF LockFree
  <2> QED BY <2>1, <2>2
<1>2. ASSUME NEW x \in Requests, NEW y \in Requests, x # y, req'[x].locked, req'[y].locked PROVE req'[x].fd # req'[y].fd
  <2>1. CASE x = a
    BY <1>1, <1>2, <2>1
  <2>2. CASE y = a
    BY <1>1, <1>2, <2>2
  <2>3. CASE x # a /\ y # a
    BY <1>2, <2>3 DEF Exclusive
  <2> QED BY <2>1, <2>2, <2>3
<1> QED BY <1>2 DEF Exclusive

LEMMA LockNext == TypeInv /\ LockInv /\ [Next]_vars => LockInv'
<1> SUFFICES ASSUME TypeInv, LockInv, [Next]_vars PROVE LockInv'
  OBVIOUS
<1>1. ASSUME NEW a \in Requests, \A x \in Requests \ {a} : req'[x] = req[x],
             LockOK(req'[a]) /\ RegionOK(a, req'[a]),
             Holds(req'[a], req[a]) \/ (LockFree(a) /\ req'[a].fd = req[a].fd)
      PROVE  LockInv'
  <2>1. Exclusive'
    BY <1>1, ExclusiveKept DEF LockInv
  <2>2. ASSUME NEW x \in Requests PROVE LockOK(req'[x]) /\ RegionOK(x, req'[x])
    BY <1>1 DEF LockInv
  <2>3. ASSUME NEW x \in Requests PROVE LockOK(req[x])' /\ RegionOK(x, req[x])'
    BY <2>2 DEF LockOK, RegionOK, Call
  <2> QED BY <2>1, <2>3 DEF LockInv
<1>2. CASE \E r \in Requests : Handler(r) \/ WriteLands(r)
  <2>1. PICK r \in Requests : Handler(r) \/ WriteLands(r)
    BY <1>2
  <2>2. PICK q : Step(r, q)
    BY <2>1, HandlerStep
  <2>3. \A x \in Requests \ {r} : req'[x] = req[x]
    BY <2>2, OwnStep
  <2>4. LockOK(req'[r]) /\ RegionOK(r, req'[r]) /\ (Flock(r) \/ Holds(req'[r], req[r]))
    BY <2>1, LockOwn
  <2>5. Flock(r) => LockFree(r) /\ req'[r].fd = req[r].fd
    <3>1. Flock(r) => LockFree(r) /\ Moved(req'[r], req[r], "offset", {"locked"})
      BY FlockStep
    <3> QED BY <3>1 DEF Moved, Fields
  <2> QED BY <1>1, <2>3, <2>4, <2>5
<1>3. CASE \E r \in Requests : BodyBroken(r) \/ WriteError(r) \/ IoError(r)
  <2>1. PICK r \in Requests : BodyBroken(r) \/ WriteError(r) \/ IoError(r)
    BY <1>3
  <2>2. PICK q : Faulty(r, q)
    BY <2>1 DEF BodyBroken, WriteError, IoError
  <2>3. \A x \in Requests \ {r} : req'[x] = req[x]
    BY <2>2, FaultyStep
  <2> QED BY <1>1, <2>1, <2>3, LockFault
<1>4. CASE \E r \in Requests : \E n \in DOMAIN Calls : Arrive(r, n)
  <2>1. PICK r \in Requests, n \in DOMAIN Calls : Arrive(r, n)
    BY <1>4
  <2>2. \A x \in Requests \ {r} : req'[x] = req[x]
    BY <2>1, ArriveStep
  <2> QED BY <1>1, <2>1, <2>2, LockArrive
<1>5. CASE Tick \/ UNCHANGED vars
  <2>1. req' = req
    BY <1>5 DEF Tick, vars
  <2> QED BY <2>1 DEF LockInv, Exclusive, LockOK, RegionOK, Call
<1> QED BY <1>2, <1>3, <1>4, <1>5 DEF Next, Over

\* Chunk n of an append is where it belongs.
Stored(r, c, data, n) == c.offset + n <= Len(data) /\ data[c.offset + n] = <<r, n>>

\* While only appends touch its object, an append has the object's inode
\* open, and a chunk it has received is under way or in its place.
AppendDone(q) == q.pc = "stat" \/ (q.pc = "done" /\ q.answer = "ok")
SharedOK(r, q, v) ==
    LET c == Call(q) IN
    /\ q.pc # "existing" /\ q.fd # 0 => v.ino = q.fd
    /\ q.pc = "body" \/ AppendDone(q) => c.len # 0
    /\ q.pc = "body" /\ ~q.failed =>
         \A n \in 1..c.len : n \in q.todo \/ <<c.offset + n, <<r, n>>>> \in q.flying \/ Stored(r, c, v.f.data, n)
    /\ AppendDone(q) => \A n \in 1..c.len : Stored(r, c, v.f.data, n)

\* Whoever has the lock after an append has found its chunks in the file, and
\* writes behind them.
LaterOK(q, p, i) ==
    q.pc = "done" /\ q.answer = "ok" /\ p.locked /\ p.pc # "offset" /\ p.fd = i =>
      Call(q).offset + Call(q).len <= Call(p).offset

Live(r) == req[r].pc # "idle" /\ Call(req[r]).op = "append" /\ shared[r]
AppendInv ==
    \A r \in Requests : Live(r) =>
        /\ SharedOK(r, req[r], View(Key(r)))
        /\ \A x \in Requests \ {r} : LaterOK(req[r], req[x], View(Key(r)).ino)

LEMMA StoredKept ==
    ASSUME NEW r, NEW c, c.offset \in Nat, c.len \in Nat, NEW d, NEW d1, Len(d) \in Nat, Len(d1) \in Nat,
           Len(d) <= Len(d1), NEW p, \A j \in 1..Len(d) : j # p => d1[j] = d[j],
           NEW n \in 1..c.len, c.offset + n # p, Stored(r, c, d, n)
    PROVE  Stored(r, c, d1, n)
<1>1. c.offset + n \in 1..Len(d) /\ c.offset + n <= Len(d1)
  BY DEF Stored
<1> QED BY <1>1 DEF Stored

\* A write of an append, seen from a key.
LEMMA AppendWrite ==
    ASSUME TypeInv, LockInv, NEW y \in Requests, Call(req[y]).op = "append", WriteLands(y), NEW k \in Keys
    PROVE  LET c == Call(req[y])
               d == View(k).f.data
               d1 == View(k)'.f.data
           IN  /\ name' = name /\ View(k)'.ino = View(k).ino /\ req[y].fd # 0 /\ req[y].locked
               /\ req[y].pc \in {"body", "done"} /\ Moved(req'[y], req[y], req[y].pc, {"flying", "fd", "locked"})
               /\ req'[y].fd \in {0, req[y].fd} /\ CallOK(c)
               /\ Len(d) \in Nat /\ Len(d1) \in Nat
               /\ req[y].fd # View(k).ino => View(k)' = View(k)
               /\ \E m \in 1..c.len :
                    /\ <<c.offset + m, <<y, m>>>> \in req[y].flying
                    /\ req'[y].flying = req[y].flying \ {<<c.offset + m, <<y, m>>>>}
                    /\ req[y].fd = View(k).ino =>
                         /\ Len(d) <= Len(d1) /\ c.offset + m <= Len(d1) /\ d1[c.offset + m] = <<y, m>>
                         /\ \A j \in 1..Len(d) : j # c.offset + m => d1[j] = d[j]
<1> DEFINE q == req[y]
           q1 == req'[y]
           c == Call(q)
           i == name[k]
           f == View(k).f
<1>1. PICK w \in q.flying : /\ Fs(name, dirs, [file EXCEPT ![q.fd] = Pwrite(@, w[1], w[2])])
                            /\ Moved(q1, q, q.pc, {"flying", "fd", "locked"}) /\ q1.flying = q.flying \ {w}
                            /\ \/ q1.fd = 0
                               \/ Moved(q1, q, q.pc, {"flying"})
  BY WriteLandsStep
<1>2. q1.fd \in {0, q.fd}
  BY <1>1 DEF Moved, Fields
<1>3. q.flying # {} /\ q.fd # 0 /\ q.fd \in Inodes /\ q.pc \in {"body", "done"}
  BY <1>1, HandlersOK DEF HandlerOK
<1>4. q.locked /\ RegionOK(y, q)
  BY <1>3 DEF LockInv, LockOK
<1>5. CallOK(c) /\ c.offset \in Nat /\ c.len \in Nat
  BY <1>3, HandlersOK DEF CallOK
<1>6. PICK m \in 1..c.len : w = <<c.offset + m, <<y, m>>>>
  BY <1>1, <1>4 DEF RegionOK
<1> DEFINE p == c.offset + m
           b == <<y, m>>
<1>7. p \in Nat \ {0} /\ b \in Byte /\ w[1] = p /\ w[2] = b
  BY <1>5, <1>6, ByteFacts
<1>8. name' = name /\ file' = [file EXCEPT ![q.fd] = Pwrite(file[q.fd], p, b)]
  <2> HIDE DEF p, b
  <2> QED BY <1>1, <1>7 DEF Fs
<1>9. /\ View(k).ino = i /\ i \in Inodes \cup {0} /\ (i # 0 => f = file[i] /\ IsFile(file[i]))
      /\ f.data \in Seq(Byte) /\ Len(f.data) \in Nat
  BY ViewFacts
<1>10. file = [j \in Inodes |-> file[j]] /\ now \in Nat
  BY DEF TypeInv, FsOK
<1>11. View(k)'.ino = View(k).ino
  BY <1>8 DEF View, NoView, FdView
<1> HIDE DEF p, b
<1>12. CASE q.fd # i
  <2>1. i # 0 => file'[i] = file[i]
    BY <1>8, <1>9, <1>10, <1>12
  <2>2. View(k)' = View(k)
    BY <1>8, <2>1 DEF View, FdView
  <2> QED BY <1>1, <1>2, <1>3, <1>4, <1>5, <1>6, <1>8, <1>9, <1>11, <1>12, <2>2
<1>13. CASE q.fd = i
  <2>1. file'[i] = Pwrite(file[i], p, b) /\ IsFile(file[i]) /\ i # 0
    BY <1>3, <1>8, <1>9, <1>10, <1>13
  <2>2. View(k)'.f = Pwrite(f, p, b) /\ IsFile(f)
    BY <1>8, <1>9, <2>1 DEF View, FdView
  <2>3. /\ Len(f.data) < p => Len(Pwrite(f, p, b).data) = p
        /\ ~(Len(f.data) < p) => Len(Pwrite(f, p, b).data) = Len(f.data)
        /\ Pwrite(f, p, b).data[p] = b /\ \A j \in 1..Len(f.data) : j # p => Pwrite(f, p, b).data[j] = f.data[j]
    <3> HIDE DEF f
    <3> QED BY <1>7, <1>10, <2>2, PwriteFacts
  <2> DEFINE d == View(k).f.data
             d1 == View(k)'.f.data
  <2>4. /\ Len(d) < p => Len(d1) = p
        /\ ~(Len(d) < p) => Len(d1) = Len(d)
        /\ d1[p] = b /\ \A j \in 1..Len(d) : j # p => d1[j] = d[j]
    BY <2>2, <2>3
  <2>5. Len(d) \in Nat
    BY <1>9
  <2> HIDE DEF d, d1
  <2>6. Len(d1) \in Nat /\ Len(d) <= Len(d1) /\ p <= Len(d1)
    BY <1>7, <2>4, <2>5
  <2> HIDE DEF q, q1, c
  <2> QED BY <1>1, <1>2, <1>3, <1>4, <1>5, <1>6, <1>8, <1>9, <1>11, <1>13, <2>4, <2>5, <2>6 DEF p, b, d, d1, q, q1, c
<1> QED BY <1>12, <1>13

\* The steps of an append itself.
LEMMA SharedWrite ==
    ASSUME TypeInv, LockInv, NEW r \in Requests, NEW k \in Keys, Call(req[r]).op = "append",
           SharedOK(r, req[r], View(k)), WriteLands(r)
    PROVE  SharedOK(r, req'[r], View(k)')
<1> DEFINE q == req[r]
           q1 == req'[r]
           c == Call(q)
           d == View(k).f.data
           d1 == View(k)'.f.data
<1>1. /\ View(k)'.ino = View(k).ino /\ q.fd # 0 /\ q.pc \in {"body", "done"}
      /\ Moved(q1, q, q.pc, {"flying", "fd", "locked"}) /\ q1.fd \in {0, q.fd} /\ CallOK(c)
      /\ Len(d) \in Nat /\ Len(d1) \in Nat
  BY AppendWrite
<1>2. View(k).ino = q.fd
  BY <1>1 DEF SharedOK
<1>3. PICK m \in 1..c.len :
        /\ q1.flying = q.flying \ {<<c.offset + m, <<r, m>>>>}
        /\ Len(d) <= Len(d1) /\ c.offset + m <= Len(d1) /\ d1[c.offset + m] = <<r, m>>
        /\ \A j \in 1..Len(d) : j # c.offset + m => d1[j] = d[j]
  BY <1>2, AppendWrite, ZenonT(60)
<1>4. q1.pc = q.pc /\ q1.todo = q.todo /\ q1.failed = q.failed /\ q1.answer = q.answer /\ q1.call = q.call
  BY <1>1 DEF Moved, Fields
<1>5. Call(q1) = c /\ c.offset \in Nat /\ c.len \in Nat
  BY <1>1, <1>4 DEF Call, CallOK
<1> HIDE DEF q, q1, c, d, d1
<1>6. ASSUME NEW n \in 1..c.len, n = m \/ Stored(r, c, d, n) PROVE Stored(r, c, d1, n)
  <2>1. CASE n = m
    BY <1>3, <2>1 DEF Stored
  <2>2. CASE n # m
    <3>1. c.offset + n # c.offset + m
      BY <1>5, <2>2
    <3>2. PICK p : p = c.offset + m
      OBVIOUS
    <3>3. \A j \in 1..Len(d) : j # p => d1[j] = d[j]
      BY <1>3, <3>2
    <3>4. Stored(r, c, d, n) /\ c.offset + n # p /\ Len(d) <= Len(d1) /\ Len(d) \in Nat /\ Len(d1) \in Nat
      BY <1>1, <1>3, <1>6, <2>2, <3>1, <3>2 DEF d, d1
    <3> QED BY <1>5, <3>3, <3>4, StoredKept
  <2> QED BY <2>1, <2>2
<1>7. AppendDone(q1) => AppendDone(q)
  BY <1>4 DEF AppendDone
<1>8. /\ q.pc = "body" \/ AppendDone(q) => c.len # 0
      /\ q.pc = "body" /\ ~q.failed =>
           \A n \in 1..c.len : n \in q.todo \/ <<c.offset + n, <<r, n>>>> \in q.flying \/ Stored(r, c, d, n)
      /\ AppendDone(q) => \A n \in 1..c.len : Stored(r, c, d, n)
  BY DEF SharedOK, c, d, q
<1>9. ASSUME q1.pc = "body", ~q1.failed, NEW n \in 1..c.len, n \notin q1.todo, <<c.offset + n, <<r, n>>>> \notin q1.flying
      PROVE  Stored(r, c, d1, n)
  <2>1. n \in q.todo \/ <<c.offset + n, <<r, n>>>> \in q.flying \/ Stored(r, c, d, n)
    BY <1>4, <1>8, <1>9
  <2>2. <<c.offset + n, <<r, n>>>> = <<c.offset + m, <<r, m>>>> => n = m
    OBVIOUS
  <2>3. n = m \/ Stored(r, c, d, n)
    BY <1>3, <1>4, <1>9, <2>1, <2>2
  <2> QED BY <1>6, <2>3
<1>10. AppendDone(q1) => \A n \in 1..c.len : Stored(r, c, d1, n)
  BY <1>6, <1>7, <1>8
<1> QED BY <1>1, <1>2, <1>4, <1>5, <1>7, <1>8, <1>9, <1>10 DEF SharedOK, d1, q1, q

LEMMA SharedSteps ==
    ASSUME TypeInv, LockInv, NEW r \in Requests, NEW k \in Keys, k = Key(r), Call(req[r]).op = "append",
           SharedOK(r, req[r], View(k)), Handler(r) \/ WriteLands(r)
    PROVE  SharedOK(r, req'[r], View(k)')
<1> DEFINE q == req[r]
           q1 == req'[r]
           c == Call(q)
           v == View(k)
<1>0. Call(q1) = c /\ (q.pc \notin {"body", "done"} => q.flying = {})
  BY QuietOwn, HandlersOK DEF HandlerOK
<1>1. ASSUME NEW a, NEW F, Ended(q1, q, a, F), a # "ok", q.flying = {} PROVE SharedOK(r, q1, View(k)')
  <2>1. q1.pc = "done" /\ q1.answer # "ok" /\ q1.fd = 0
    BY <1>1 DEF Ended
  <2> QED BY <2>1 DEF SharedOK, AppendDone
<1>2. KeepFs => View(k)' = v
  BY ViewKept
<1>3. CASE OpenExisting(r)
  <2>0. q.pc = "existing" /\ q.flying = {} /\ KeepFs
    BY <1>0, <1>3, OpenExistingStep
  <2>1. CASE Ended(q1, q, "404", {})
    BY <1>1, <2>0, <2>1
  <2>2. CASE Moved(q1, q, "flock", {"fd"}) /\ q1.fd = Ino(r)
    <3>1. q1.pc = "flock"
      BY <2>2 DEF Moved
    <3>2. v.ino = q1.fd
      BY <2>2, ViewFacts DEF Ino
    <3> QED BY <1>2, <2>0, <3>1, <3>2 DEF SharedOK, AppendDone
  <2> QED BY <1>3, <2>1, <2>2, OpenExistingStep
<1>4. CASE Flock(r)
  <2>1. q.pc = "flock" /\ KeepFs /\ Moved(q1, q, "offset", {"locked"})
    BY <1>4, FlockStep
  <2>2. q1.pc = "offset" /\ q1.fd = q.fd
    BY <2>1 DEF Moved, Fields
  <2>3. q.fd # 0 => v.ino = q.fd
    BY <2>1 DEF SharedOK
  <2> QED BY <1>2, <2>1, <2>2, <2>3 DEF SharedOK, AppendDone
<1>5. CASE Offset(r)
  <2>0. q.pc = "offset" /\ q.flying = {} /\ KeepFs
    BY <1>0, <1>5, OffsetStep
  <2>1. CASE Ended(q1, q, "400", {}) \/ Ended(q1, q, "412", {})
    BY <1>1, <2>0, <2>1
  <2>2. CASE c.len # 0 /\ Moved(q1, q, "body", {"todo"}) /\ q1.todo = 1..c.len
    <3>1. q1.pc = "body" /\ q1.fd = q.fd
      BY <2>2 DEF Moved, Fields
    <3>2. q.fd # 0 => v.ino = q.fd
      BY <2>0 DEF SharedOK
    <3> HIDE DEF q, q1, c, v
    <3> QED BY <1>0, <1>2, <2>0, <2>2, <3>1, <3>2 DEF SharedOK, AppendDone, q1
  <2> QED BY <1>5, <2>1, <2>2, OffsetStep
<1>6. CASE Receive(r)
  <2> DEFINE n == First(q.todo)
  <2>1. /\ q.pc = "body" /\ KeepFs /\ Moved(q1, q, "body", {"todo", "flying"}) /\ q1.todo = q.todo \ {n}
        /\ ~q.failed => q1.flying = q.flying \cup {<<c.offset + n, <<r, n>>>>}
    BY <1>6, ReceiveStep
  <2>2. q1.pc = "body" /\ q1.fd = q.fd /\ q1.failed = q.failed
    BY <2>1 DEF Moved, Fields
  <2>3. /\ q.fd # 0 => v.ino = q.fd
        /\ c.len # 0
        /\ ~q.failed =>
             \A m \in 1..c.len : m \in q.todo \/ <<c.offset + m, <<r, m>>>> \in q.flying \/ Stored(r, c, v.f.data, m)
    BY <2>1 DEF SharedOK
  <2> HIDE DEF q, q1, c, v, n
  <2>4. ~q1.failed =>
          \A m \in 1..c.len : m \in q1.todo \/ <<c.offset + m, <<r, m>>>> \in q1.flying \/ Stored(r, c, v.f.data, m)
    BY <2>1, <2>2, <2>3
  <2> QED BY <1>0, <1>2, <2>1, <2>2, <2>3, <2>4 DEF SharedOK, AppendDone, q1
<1>7. CASE WriteLands(r)
  BY <1>7, SharedWrite
<1>8. CASE BodyEnd(r)
  <2>0. q.pc = "body" /\ q.todo = {} /\ q.flying = {} /\ KeepFs
    BY <1>8, BodyEndStep
  <2>1. CASE Ended(q1, q, "500", {})
    BY <1>1, <2>0, <2>1
  <2>2. CASE ~q.failed /\ Moved(q1, q, "stat", {})
    <3>1. q1.pc = "stat" /\ q1.fd = q.fd
      BY <2>2 DEF Moved, Fields
    <3>2. /\ q.fd # 0 => v.ino = q.fd
          /\ c.len # 0 /\ \A m \in 1..c.len : Stored(r, c, v.f.data, m)
      BY <2>0, <2>2 DEF SharedOK
    <3> HIDE DEF q, q1, c, v
    <3> QED BY <1>0, <1>2, <2>0, <3>1, <3>2 DEF SharedOK, AppendDone, q1
  <2> QED BY <1>8, <2>1, <2>2, BodyEndStep
<1>9. CASE Stat(r)
  <2>0. q.pc = "stat" /\ q.flying = {} /\ KeepFs
    BY <1>0, <1>9, StatStep
  <2>1. CASE Ended(q1, q, "500", {})
    BY <1>1, <2>0, <2>1
  <2>2. CASE Ended(q1, q, "ok", {"seen"})
    <3>1. q1.pc = "done" /\ q1.fd = 0
      BY <2>0, <2>2 DEF Ended
    <3>2. c.len # 0 /\ \A m \in 1..c.len : Stored(r, c, v.f.data, m)
      BY <2>0 DEF SharedOK, AppendDone
    <3> HIDE DEF q, q1, c, v
    <3> QED BY <1>0, <1>2, <2>0, <3>1, <3>2 DEF SharedOK, AppendDone, q1
  <2> QED BY <1>9, <2>1, <2>2, StatStep
<1> QED BY <1>3, <1>4, <1>5, <1>6, <1>7, <1>8, <1>9, Acts

LEMMA SharedFault ==
    ASSUME TypeInv, NEW r \in Requests, NEW k \in Keys, Call(req[r]).op = "append",
           SharedOK(r, req[r], View(k)), BodyBroken(r) \/ WriteError(r) \/ IoError(r)
    PROVE  SharedOK(r, req'[r], View(k)) /\ ~(req'[r].pc = "done" /\ req'[r].answer = "ok")
<1> DEFINE q == req[r]
           q1 == req'[r]
           c == Call(q)
<1>2. CASE BodyBroken(r) \/ IoError(r)
  <2>1. Broken(q1, q)
    BY <1>2, BrokenFields DEF BodyBroken, IoError
  <2>2. q1.pc = "done" /\ q1.answer = "500" /\ q1.fd \in {0, q.fd}
    BY <2>1 DEF Broken
  <2>3. q.pc # "existing"
    BY <1>2 DEF BodyBroken, IoError, At
  <2> QED BY <2>2, <2>3 DEF SharedOK, AppendDone
<1>3. CASE WriteError(r)
  <2>1. q.pc = "body" /\ Moved(q1, q, "body", {"flying", "failed"}) /\ q1.failed = TRUE
    BY <1>3, WriteErrorStep
  <2>2. q1.pc = "body" /\ q1.fd = q.fd /\ q1.call = q.call
    BY <2>1 DEF Moved, Fields
  <2>3. Call(q1) = c
    BY <2>2 DEF Call
  <2>4. c.len # 0 /\ (q.fd # 0 => View(k).ino = q.fd)
    BY <2>1 DEF SharedOK
  <2> HIDE DEF q, q1, c
  <2> QED BY <2>1, <2>2, <2>3, <2>4 DEF SharedOK, AppendDone, q, q1
<1> QED BY <1>2, <1>3

\* The same write, for a reader of the file it lands in: one byte of the appender's own region is
\* replaced or added and every other byte stays.
LEMMA AppendPatch ==
    ASSUME TypeInv, LockInv, NEW y \in Requests, Call(req[y]).op = "append", WriteLands(y), NEW k \in Keys,
           req[y].fd = View(k).ino
    PROVE  \E m \in 1..Call(req[y]).len :
             /\ Len(View(k).f.data) <= Len(View(k)'.f.data)
             /\ \A j \in 1..Len(View(k).f.data) :
                  j # Call(req[y]).offset + m => View(k)'.f.data[j] = View(k).f.data[j]
<1> DEFINE q == req[y]
           q1 == req'[y]
           c == Call(q)
           d == View(k).f.data
           d1 == View(k)'.f.data
<1>1. PICK m \in 1..c.len :
        /\ q1.flying = q.flying \ {<<c.offset + m, <<y, m>>>>}
        /\ Len(d) <= Len(d1) /\ c.offset + m <= Len(d1) /\ d1[c.offset + m] = <<y, m>>
        /\ \A j \in 1..Len(d) : j # c.offset + m => d1[j] = d[j]
  BY AppendWrite, ZenonT(60)
<1> QED BY <1>1

\* The steps of somebody else that leave r with appends only.
LEMMA SharedOthers ==
    ASSUME TypeInv, LockInv, NEW r \in Requests, NEW k \in Keys, k = Key(r), Call(req[r]).op = "append",
           SharedOK(r, req[r], View(k)), NEW y \in Requests, y # r, Handler(y) \/ WriteLands(y),
           LaterOK(req[r], req[y], View(k).ino), req'[r] = req[r],
           View(k)' = View(k) \/ Call(req[y]).op = "append"
    PROVE  SharedOK(r, req'[r], View(k)') /\ View(k)'.ino = View(k).ino
<1>1. CASE View(k)' = View(k)
  BY <1>1
<1>2. CASE Call(req[y]).op = "append" /\ ~WriteLands(y)
  <2>1. OpenExisting(y) \/ Flock(y) \/ Offset(y) \/ Receive(y) \/ BodyEnd(y) \/ Stat(y)
    BY <1>2, Acts
  <2>2. KeepFs
    BY <2>1, OpenExistingStep, FlockStep, OffsetStep, ReceiveStep, BodyEndStep, StatStep
  <2> QED BY <2>2, ViewKept
<1>3. CASE Call(req[y]).op = "append" /\ WriteLands(y)
  <2> DEFINE q == req[r]
             p == req[y]
             c == Call(q)
             e == Call(p)
             d == View(k).f.data
             d1 == View(k)'.f.data
  <2>1. /\ View(k)'.ino = View(k).ino /\ p.fd # 0 /\ p.locked /\ p.pc \in {"body", "done"} /\ CallOK(e)
        /\ Len(d) \in Nat /\ Len(d1) \in Nat
        /\ p.fd # View(k).ino => View(k)' = View(k)
    BY <1>3, AppendWrite
  <2>2. CASE p.fd # View(k).ino
    BY <1>1, <2>1, <2>2
  <2>3. CASE p.fd = View(k).ino
    <3>1. PICK m \in 1..e.len :
            /\ Len(d) <= Len(d1) /\ \A j \in 1..Len(d) : j # e.offset + m => d1[j] = d[j]
      BY <1>3, <2>3, AppendPatch
    <3>2. q.pc \notin {"body", "stat"}
      <4> SUFFICES ASSUME q.pc \in {"body", "stat"} PROVE FALSE
        OBVIOUS
      <4>1. q.locked /\ q.fd # 0
        BY HandlersOK DEF HandlerOK, LatePCs
      <4>2. q.fd = View(k).ino
        BY <4>1 DEF SharedOK
      <4> QED BY <2>1, <2>3, <4>1, <4>2 DEF LockInv, Exclusive
    <3>3. AppendDone(q) => \A n \in 1..c.len : Stored(r, c, d1, n)
      <4> SUFFICES ASSUME AppendDone(q), NEW n \in 1..c.len PROVE Stored(r, c, d1, n)
        OBVIOUS
      <4>1. q.pc = "done" /\ q.answer = "ok" /\ Stored(r, c, d, n)
        BY <3>2 DEF AppendDone, SharedOK
      <4>2. c.offset + c.len <= e.offset
        BY <2>1, <2>3, <4>1 DEF LaterOK
      <4>3. c.offset \in Nat /\ c.len \in Nat /\ e.offset \in Nat /\ e.len \in Nat
        <5>1. CallOK(c)
          BY <4>1, HandlersOK
        <5> QED BY <2>1, <5>1 DEF CallOK
      <4> HIDE DEF q, p, c, e, d, d1
      <4>4. c.offset + n # e.offset + m
        BY <4>2, <4>3
      <4>5. PICK z : z = e.offset + m
        OBVIOUS
      <4>6. \A j \in 1..Len(d) : j # z => d1[j] = d[j]
        BY <3>1, <4>5
      <4>7. c.offset + n # z /\ Len(d) <= Len(d1) /\ Len(d) \in Nat /\ Len(d1) \in Nat
        BY <2>1, <3>1, <4>4, <4>5
      <4> QED BY <4>1, <4>3, <4>6, <4>7, StoredKept
    <3>4. /\ q.pc # "existing" /\ q.fd # 0 => View(k).ino = q.fd
          /\ AppendDone(q) => c.len # 0
      BY DEF SharedOK
    <3> HIDE DEF q, c, d, d1
    <3>5. SharedOK(r, q, View(k)')
      BY <2>1, <3>2, <3>3, <3>4 DEF SharedOK, d1, c
    <3> QED BY <2>1, <3>5 DEF q
  <2> QED BY <2>2, <2>3
<1> QED BY <1>1, <1>2, <1>3

\* The lock and what comes after it, for an append r and another request x.
LEMMA LaterOwn ==
    ASSUME TypeInv, LockInv, NEW r \in Requests, NEW k \in Keys, Call(req[r]).op = "append",
           SharedOK(r, req[r], View(k)), Handler(r) \/ WriteLands(r), NEW x \in Requests, x # r,
           LaterOK(req[r], req[x], View(k).ino)
    PROVE  LaterOK(req'[r], req[x], View(k)'.ino)
<1> DEFINE q == req[r]
           q1 == req'[r]
<1>1. ASSUME q1.pc = "done", q1.answer = "ok" PROVE Stat(r) \/ WriteLands(r)
  <2>1. \A a, F : Ended(q1, q, a, F) => q1.answer = a
    BY DEF Ended
  <2>2. \A p, F : Moved(q1, q, p, F) => q1.pc = p
    BY DEF Moved
  <2>3. CASE OpenExisting(r)
    BY <1>1, <2>1, <2>2, <2>3, OpenExistingStep
  <2>4. CASE Flock(r)
    BY <1>1, <2>2, <2>4, FlockStep
  <2>5. CASE Offset(r)
    BY <1>1, <2>1, <2>2, <2>5, OffsetStep
  <2>6. CASE Receive(r)
    BY <1>1, <2>2, <2>6, ReceiveStep
  <2>7. CASE BodyEnd(r)
    BY <1>1, <2>1, <2>2, <2>7, BodyEndStep
  <2> QED BY <2>3, <2>4, <2>5, <2>6, <2>7, Acts
<1>2. CASE Stat(r)
  <2>1. q.pc = "stat" /\ KeepFs
    BY <1>2, StatStep
  <2>2. q.locked /\ q.fd # 0
    BY <2>1, HandlersOK DEF HandlerOK
  <2>3. View(k)'.ino = View(k).ino /\ View(k).ino = q.fd
    BY <2>1, <2>2, ViewKept DEF SharedOK
  <2>4. ~(req[x].locked /\ req[x].fd = View(k).ino)
    BY <2>2, <2>3 DEF LockInv, Exclusive
  <2> QED BY <2>3, <2>4 DEF LaterOK
<1>3. CASE WriteLands(r)
  <2>1. View(k)'.ino = View(k).ino /\ Moved(q1, q, q.pc, {"flying", "fd", "locked"})
    BY <1>3, AppendWrite
  <2>2. q1.pc = q.pc /\ q1.answer = q.answer /\ q1.call = q.call
    BY <2>1 DEF Moved, Fields
  <2> QED BY <2>1, <2>2 DEF LaterOK, Call
<1> QED BY <1>1, <1>2, <1>3 DEF LaterOK

LEMMA LaterOther ==
    ASSUME TypeInv, LockInv, NEW r \in Requests, NEW k \in Keys, Call(req[r]).op = "append", req[r].pc # "idle",
           SharedOK(r, req[r], View(k)), NEW x \in Requests, x # r, Handler(x) \/ WriteLands(x),
           LaterOK(req[r], req[x], View(k).ino)
    PROVE  LaterOK(req[r], req'[x], View(k).ino)
<1> DEFINE q == req[r]
           p == req[x]
           p1 == req'[x]
           c == Call(q)
           e == Call(p)
<1> SUFFICES ASSUME q.pc = "done", q.answer = "ok", p1.locked, p1.pc # "offset", p1.fd = View(k).ino
             PROVE  c.offset + c.len <= Call(p1).offset
  BY DEF LaterOK
<1>1. Call(p1) = e
  BY QuietOwn
<1>2. LockOK(p1) /\ LockOK(p) /\ RegionOK(x, p)
  BY LockOwn DEF LockInv
<1>3. e.op = "append"
  BY <1>1, <1>2 DEF LockOK
<1>4. Offset(x) \/ p.pc # "offset"
  BY <1>2, <1>3, AppendHolds
<1>5. ~Flock(x)
  <2>1. Flock(x) => Moved(p1, p, "offset", {"locked"})
    BY FlockStep
  <2> QED BY <2>1 DEF Moved
<1>6. p.locked /\ p1.fd = p.fd
  BY <1>5, LockOwn DEF Holds
<1>7. CASE p.pc # "offset"
  BY <1>1, <1>6, <1>7 DEF LaterOK
<1>8. CASE Offset(x)
  <2>0. p.pc = "offset" /\ \A a, F : Ended(p1, p, a, F) => p1.locked = FALSE
    <3>1. p.pc = "offset"
      BY <1>8, OffsetStep
    <3>2. p.flying = {}
      BY <3>1, HandlersOK DEF HandlerOK
    <3> QED BY <3>1, <3>2 DEF Ended
  <2>1. e.offset = Len(file[p.fd].data)
    BY <1>8, <2>0, OffsetStep
  <2>2. p.fd # 0
    BY <2>0, HandlersOK DEF HandlerOK, LatePCs
  <2>3. file[p.fd].data = View(k).f.data /\ Len(View(k).f.data) \in Nat
    BY <1>6, <2>2, ViewFacts, ZenonT(60)
  <2>4. c.len # 0 /\ \A n \in 1..c.len : Stored(r, c, View(k).f.data, n)
    BY DEF SharedOK, AppendDone
  <2>5. c.len \in Nat /\ c.offset \in Nat
    BY HandlersOK DEF CallOK
  <2>6. c.len \in 1..c.len
    BY <2>4, <2>5
  <2>7. c.offset + c.len <= Len(View(k).f.data)
    BY <2>4, <2>6 DEF Stored
  <2> QED BY <1>1, <2>1, <2>3, <2>7
<1> QED BY <1>4, <1>7, <1>8

LEMMA LaterFault ==
    ASSUME TypeInv, LockInv, NEW q, NEW i, NEW x \in Requests, BodyBroken(x) \/ WriteError(x) \/ IoError(x),
           LaterOK(q, req[x], i)
    PROVE  LaterOK(q, req'[x], i)
<1>1. Holds(req'[x], req[x])
  BY LockFault
<1>2. req'[x].call = req[x].call /\ req[x].pc # "offset"
  <2>1. CASE WriteError(x)
    BY <2>1, WriteErrorStep DEF Moved, Fields
  <2>2. CASE BodyBroken(x) \/ IoError(x)
    <3>1. Broken(req'[x], req[x])
      BY <2>2, BrokenFields DEF BodyBroken, IoError
    <3> QED BY <2>2, <3>1 DEF Broken, BodyBroken, IoError, At
  <2> QED BY <2>1, <2>2
<1>3. Call(req'[x]) = Call(req[x])
  BY <1>2 DEF Call
<1> QED BY <1>1, <1>2, <1>3 DEF LaterOK, Holds

\* The object of an append is a key.
LEMMA LiveKey ==
    ASSUME TypeInv, NEW r \in Requests, req[r].pc # "idle", Call(req[r]).op = "append"
    PROVE  Key(r) \in Keys /\ Key(r) \in Watched(r)
BY Looks DEF DirOps

LEMMA AppendHandler ==
    ASSUME TypeInv, LockInv, AppendInv, NEW y \in Requests, Handler(y) \/ WriteLands(y)
    PROVE  AppendInv'
<1> SUFFICES ASSUME NEW r \in Requests, Live(r)'
             PROVE  /\ SharedOK(r, req[r], View(Key(r)))'
                    /\ \A x \in Requests \ {r} : LaterOK(req[r], req[x], View(Key(r)).ino)'
  BY DEF AppendInv
<1>1. PICK q : Step(y, q)
  BY HandlerStep
<1>2. /\ \A x \in Requests \ {y} : req'[x] = req[x]
      /\ shared' = [x \in Requests |-> shared[x] /\ (x = y \/ Same(x) \/ Call(req[y]).op = "append")]
  BY <1>1, OwnStep DEF Observe
<1>3. Call(req'[y]) = Call(req[y]) /\ req[y].pc # "idle"
  BY QuietOwn
<1>4. shared[r] /\ (r = y \/ Same(r) \/ Call(req[y]).op = "append")
  BY <1>2 DEF Live
<1>5. req[r].pc # "idle" /\ Call(req'[r]) = Call(req[r]) /\ Call(req[r]).op = "append"
  <2>1. CASE r = y
    BY <1>3, <2>1 DEF Live
  <2>2. CASE r # y
    <3>1. req'[r] = req[r]
      BY <1>2, <2>2
    <3> QED BY <3>1 DEF Live, Call
  <2> QED BY <2>1, <2>2
<1>6. PICK k \in Keys : k = Key(r) /\ Key(r)' = k /\ k \in Watched(r)
  BY <1>5, LiveKey DEF Key
<1>7. /\ SharedOK(r, req[r], View(k))
      /\ \A x \in Requests \ {r} : LaterOK(req[r], req[x], View(k).ino)
  BY <1>4, <1>5, <1>6 DEF AppendInv, Live
<1>8. /\ SharedOK(r, req'[r], View(k)')
      /\ \A x \in Requests \ {r} : LaterOK(req'[r], req'[x], View(k)'.ino)
  <2>1. CASE r = y
    <3>1. SharedOK(r, req'[r], View(k)')
      BY <1>5, <1>6, <1>7, <2>1, SharedSteps
    <3>2. ASSUME NEW x \in Requests \ {r} PROVE LaterOK(req'[r], req[x], View(k)'.ino)
      BY <1>5, <1>7, <2>1, LaterOwn
    <3> QED BY <1>2, <2>1, <3>1, <3>2
  <2>2. CASE r # y
    <3>1. req'[r] = req[r]
      BY <1>2, <2>2
    <3>2. View(k)' = View(k) \/ Call(req[y]).op = "append"
      BY <1>4, <1>6, <2>2 DEF Same
    <3>3. SharedOK(r, req'[r], View(k)') /\ View(k)'.ino = View(k).ino
      BY <1>5, <1>6, <1>7, <2>2, <3>1, <3>2, SharedOthers
    <3>4. ASSUME NEW x \in Requests \ {r} PROVE LaterOK(req[r], req'[x], View(k).ino)
      <4>1. CASE x = y
        BY <1>5, <1>7, <4>1, LaterOther
      <4>2. CASE x # y
        BY <1>2, <1>7, <4>2
      <4> QED BY <4>1, <4>2
    <3> QED BY <3>1, <3>3, <3>4
  <2> QED BY <2>1, <2>2
<1> QED BY <1>6, <1>8 DEF SharedOK, LaterOK, AppendDone, Call

\* A fault, an arrival, the clock: the files stay as they are.
LEMMA AppendFault ==
    ASSUME TypeInv, LockInv, AppendInv, NEW y \in Requests, BodyBroken(y) \/ WriteError(y) \/ IoError(y)
    PROVE  AppendInv'
<1> SUFFICES ASSUME NEW r \in Requests, Live(r)'
             PROVE  /\ SharedOK(r, req[r], View(Key(r)))'
                    /\ \A x \in Requests \ {r} : LaterOK(req[r], req[x], View(Key(r)).ino)'
  BY DEF AppendInv
<1>1. PICK q : Faulty(y, q)
  BY DEF BodyBroken, WriteError, IoError
<1>2. KeepFs /\ shared' = shared /\ \A x \in Requests \ {y} : req'[x] = req[x]
  BY <1>1, FaultyStep DEF ghosts
<1>3. req'[y].call = req[y].call /\ req[y].pc # "idle"
  <2>1. CASE WriteError(y)
    BY <2>1, WriteErrorStep DEF Moved, Fields
  <2>2. CASE BodyBroken(y) \/ IoError(y)
    <3>1. Broken(req'[y], req[y])
      BY <2>2, BrokenFields DEF BodyBroken, IoError
    <3> QED BY <2>2, <3>1 DEF Broken, BodyBroken, IoError, At
  <2> QED BY <2>1, <2>2
<1>4. req[r].pc # "idle" /\ Call(req'[r]) = Call(req[r]) /\ Call(req[r]).op = "append" /\ shared[r]
  <2>1. req'[r].call = req[r].call
    BY <1>2, <1>3
  <2>2. req[r].pc # "idle"
    BY <1>2, <1>3 DEF Live
  <2> QED BY <1>2, <2>1, <2>2 DEF Live, Call
<1>5. PICK k \in Keys : k = Key(r) /\ Key(r)' = k
  BY <1>4, LiveKey DEF Key
<1>6. /\ SharedOK(r, req[r], View(k))
      /\ \A x \in Requests \ {r} : LaterOK(req[r], req[x], View(k).ino)
  BY <1>4, <1>5 DEF AppendInv, Live
<1>7. View(k)' = View(k)
  BY <1>2, ViewKept
<1>8. /\ SharedOK(r, req'[r], View(k))
      /\ \A x \in Requests \ {r} : LaterOK(req'[r], req'[x], View(k).ino)
  <2>1. CASE r = y
    <3>1. SharedOK(r, req'[r], View(k)) /\ ~(req'[r].pc = "done" /\ req'[r].answer = "ok")
      BY <1>4, <1>6, <2>1, SharedFault
    <3> QED BY <3>1 DEF LaterOK
  <2>2. CASE r # y
    <3>1. req'[r] = req[r]
      BY <1>2, <2>2
    <3>2. ASSUME NEW x \in Requests \ {r} PROVE LaterOK(req[r], req'[x], View(k).ino)
      <4>1. CASE x = y
        BY <1>6, <4>1, LaterFault
      <4>2. CASE x # y
        BY <1>2, <1>6, <4>2
      <4> QED BY <4>1, <4>2
    <3> QED BY <1>6, <3>1, <3>2
  <2> QED BY <2>1, <2>2
<1> QED BY <1>5, <1>7, <1>8 DEF SharedOK, LaterOK, AppendDone, Call

LEMMA AppendArrive ==
    ASSUME TypeInv, LockInv, AppendInv, NEW y \in Requests, NEW n \in DOMAIN Calls, Arrive(y, n)
    PROVE  AppendInv'
<1> SUFFICES ASSUME NEW r \in Requests, Live(r)'
             PROVE  /\ SharedOK(r, req[r], View(Key(r)))'
                    /\ \A x \in Requests \ {r} : LaterOK(req[r], req[x], View(Key(r)).ino)'
  BY DEF AppendInv
<1>1. /\ KeepFs /\ shared' = shared /\ \A x \in Requests \ {y} : req'[x] = req[x]
      /\ req'[y].fd = 0 /\ req'[y].locked = FALSE
      /\ \/ Calls[n].refuse # "none" /\ req'[y].pc = "done" /\ req'[y].answer = Calls[n].refuse
         \/ req'[y].pc = Flow(Calls[n].op).start
  BY ArriveStep DEF ghosts
<1>2. Call(req'[y]) = Calls[n] /\ CallOK(Calls[n])
  BY Arrival
<1>3. CASE r = y
  <2>1. req'[r].pc = "existing" \/ (req'[r].pc = "done" /\ req'[r].answer # "ok")
    BY <1>1, <1>2, <1>3, AppendAfter DEF Live, CallOK
  <2>2. req'[r].fd = 0
    BY <1>1, <1>3
  <2> QED BY <2>1, <2>2 DEF SharedOK, LaterOK, AppendDone
<1>4. CASE r # y
  <2>1. req'[r] = req[r]
    BY <1>1, <1>4
  <2>2. Live(r) /\ Call(req'[r]) = Call(req[r])
    BY <1>1, <2>1 DEF Live, Call
  <2>3. PICK k \in Keys : k = Key(r) /\ Key(r)' = k
    BY <2>2, LiveKey DEF Key, Live
  <2>4. /\ SharedOK(r, req[r], View(k))
        /\ \A x \in Requests \ {r} : LaterOK(req[r], req[x], View(k).ino)
    BY <2>2, <2>3 DEF AppendInv
  <2>5. View(k)' = View(k)
    BY <1>1, ViewKept
  <2>6. ASSUME NEW x \in Requests \ {r} PROVE LaterOK(req[r], req'[x], View(k).ino)
    <3>1. CASE x = y
      BY <1>1, <3>1 DEF LaterOK
    <3>2. CASE x # y
      BY <1>1, <2>4, <3>2
    <3> QED BY <3>1, <3>2
  <2> QED BY <2>1, <2>3, <2>4, <2>5, <2>6 DEF SharedOK, LaterOK, AppendDone, Call
<1> QED BY <1>3, <1>4

LEMMA AppendNext == TypeInv /\ LockInv /\ AppendInv /\ [Next]_vars => AppendInv'
<1> SUFFICES ASSUME TypeInv, LockInv, AppendInv, [Next]_vars PROVE AppendInv'
  OBVIOUS
<1>1. CASE \E r \in Requests : Handler(r) \/ WriteLands(r)
  BY <1>1, AppendHandler
<1>2. CASE \E r \in Requests : BodyBroken(r) \/ WriteError(r) \/ IoError(r)
  BY <1>2, AppendFault
<1>3. CASE \E r \in Requests : \E n \in DOMAIN Calls : Arrive(r, n)
  BY <1>3, AppendArrive
<1>4. CASE Tick \/ UNCHANGED vars
  <2>1. req' = req /\ KeepFs /\ shared' = shared
    BY <1>4 DEF Tick, vars, ghosts, KeepFs, fsVars
  <2>2. \A k : View(k)' = View(k)
    BY <2>1, ViewKept
  <2> QED BY <2>1, <2>2 DEF AppendInv, Live, SharedOK, LaterOK, AppendDone, Call, Key
<1> QED BY <1>1, <1>2, <1>3, <1>4 DEF Next, Over

\* What an acknowledged append wrote stays at its offset, and is whole, as
\* long as only appends touch the object: appends that fail and leave writes
\* behind, that wait for the lock, or that come later do not reach into it.
THEOREM AppendsKept == Spec => []AppendsSerialized
<1>1. Init => LockInv /\ AppendInv
  BY DEF Init, LockInv, Exclusive, LockOK, RegionOK, AppendInv, Live, Idle
<1>2. TypeInv /\ AppendInv => AppendsSerialized
  <2> SUFFICES ASSUME TypeInv, AppendInv, NEW r \in Requests, Done(r), Call(req[r]).op = "append",
                      req[r].answer = "ok", shared[r], NEW n \in 1..Call(req[r]).len
               PROVE  /\ Call(req[r]).offset + n <= Len(View(Key(r)).f.data)
                      /\ View(Key(r)).f.data[Call(req[r]).offset + n] = <<r, n>>
    BY DEF AppendsSerialized
  <2>1. SharedOK(r, req[r], View(Key(r))) /\ req[r].pc = "done"
    BY DEF AppendInv, Live, Done
  <2> QED BY <2>1 DEF SharedOK, AppendDone, Stored
<1> QED BY <1>1, <1>2, TypesKept, LockNext, AppendNext, PTL DEF Spec
=============================================================================
