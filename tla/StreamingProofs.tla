-------------------------- MODULE StreamingProofs --------------------------
(***************************************************************************)
(* Proofs about Streaming, for any streams, lengths, pool and faults: the  *)
(* buffers of the pool are never lost, shared or doubled, also when the    *)
(* ring dies; and while it is up, a client gets its own chunks in order,   *)
(* and all of them unless the file was truncated, and a body that is       *)
(* acknowledged has been written.                                          *)
(***************************************************************************)
EXTENDS Streaming, FiniteSetTheorems, SequenceTheorems, WellFoundedInduction, TLAPS

-----------------------------------------------------------------------------
(* The inductive invariant. *)

Labels == {"plan", "acquire", "await", "recv", "submit", "close", "closed", "wait",
           "answer", "done"}
Statuses == {"none", "planned", "waiting", "held", "reading", "read", "failed", "framed",
             "writing", "completed", "gone"}
HeldStatuses == {"held", "reading", "read", "framed", "writing", "completed"}
Tags == {Blank} \cup (Streams \X Nat)

Pairs == {sc \in Streams \X Nat : sc[2] \in Cs(sc[1])}
HeldPairs == {sc \in Pairs : st[sc[1]][sc[2]] \in HeldStatuses}

\* A value for every chunk of every stream.
Chunked(k, f, S) ==
    /\ f = [s \in Streams |-> f[s]]
    /\ \A s \in Streams : f[s] \in [1..Chunks[k[s]] -> S]
ChunkTypes ==
    Chunked(kind, st, Statuses) /\ Chunked(kind, buf, 0..PoolSize) /\ Chunked(kind, disk, Tags)
PlainTypes ==
    /\ kind \in [Streams -> Kinds] /\ pc \in [Streams -> Labels]
    /\ content \in [Buffers -> Tags]
    /\ queue \in Seq(Buffers) /\ waiters \in Seq(Streams \X Nat)
    /\ pending \in [Streams -> Int] /\ closed \in [Streams -> BOOLEAN]
    /\ err \in [Streams -> BOOLEAN] /\ result \in [Streams -> {"none", "ok", "error"}]
    /\ ringAt \in {NoOp} \cup Pairs /\ ring \in {"up", "failing", "down"}
    /\ left \in [Streams -> BOOLEAN] /\ got \in [Streams -> Seq(Tags)]
    /\ answer \in [Streams -> {"none", "ok", "error"}] /\ faults \in Nat
    /\ short \in [Streams -> SUBSET Nat] /\ late \subseteq Buffers
TypeOK == ChunkTypes /\ PlainTypes

\* Every buffer is in the pool once, or with one chunk of a set H.
PoolOK(H, B, q) ==
    /\ \A i, j \in 1..Len(q) : q[i] = q[j] => i = j
    /\ \A p \in H : B[p[1]][p[2]] \in Buffers /\ \A i \in 1..Len(q) : q[i] # B[p[1]][p[2]]
    /\ \A p, r \in H : B[p[1]][p[2]] = B[r[1]][r[2]] => p = r
    /\ \A b \in Buffers : (\E i \in 1..Len(q) : q[i] = b) \/ (\E p \in H : B[p[1]][p[2]] = b)
PoolInv == PoolOK(HeldPairs, buf, queue)

\* Who stands in line: once, with a chunk that waits, and a task that is
\* there to take the buffer; only a copy waits for several.
LineInv ==
    /\ \A i, j \in 1..Len(waiters) : waiters[i] = waiters[j] => i = j
    /\ \A i, j \in 1..Len(waiters) :
         waiters[i][1] = waiters[j][1] => i = j \/ kind[waiters[i][1]] = "copy"
    /\ \A i \in 1..Len(waiters) :
         LET s == waiters[i][1] IN
         /\ waiters[i] \in Pairs /\ st[s][waiters[i][2]] = "waiting"
         /\ pc[s] = "acquire" \/ (kind[s] = "copy" /\ pc[s] # "done")

\* Where the task of a stream of kind k can be, and the statuses f of its
\* chunks: one chunk at a time is asked for in an upload; the write that a
\* copy is about to submit is that of its first future.
FutureStatuses == {"planned", "waiting", "held", "reading", "read", "failed"}
TaskOK(k, l, f) ==
    /\ k = "download" =>
         /\ l \in {"plan", "acquire", "await", "done"}
         /\ \A c \in 1..Chunks[k] : f[c] \notin {"planned", "writing", "completed"}
    /\ k = "small" =>
         /\ l \in {"plan", "acquire", "await", "done"}
         /\ \A c \in 1..Chunks[k] : f[c] \in {"none", "waiting", "held", "framed", "gone"}
         /\ l = "await" => f[1] = "held"
    /\ k = "upload" =>
         /\ l # "await"
         /\ \A c \in 1..Chunks[k] : f[c] \in {"none", "waiting", "held", "writing", "completed", "gone"}
         /\ \A c, d \in 1..Chunks[k] :
              f[c] \in {"waiting", "held"} /\ f[d] \in {"waiting", "held"} => c = d
         /\ l \in {"recv", "submit"} => \E c \in 1..Chunks[k] : f[c] = "held"
         /\ l \notin {"acquire", "recv", "submit", "done"} =>
              \A c \in 1..Chunks[k] : f[c] \notin {"waiting", "held"}
    /\ k = "copy" =>
         /\ l \notin {"acquire", "recv"}
         /\ \A c \in 1..Chunks[k] : f[c] # "framed"
         /\ l = "submit" => \E c \in 1..Chunks[k] :
              f[c] = "read" /\ \A d \in 1..Chunks[k] : d < c => f[d] \notin FutureStatuses
RingAtOK == ringAt # NoOp => st[ringAt[1]][ringAt[2]] = "completed"
TaskInv == RingAtOK /\ \A s \in Streams : TaskOK(kind[s], pc[s], st[s])

\* A chunk that has been read or is being written is in its buffer, while the
\* ring is up: afterwards the kernel may read into a buffer of another chunk.
FullStatuses == {"read", "framed", "writing", "completed"}
DataOK ==
    /\ \A s \in Streams : \A c \in Cs(s) : st[s][c] \in FullStatuses => content[buf[s][c]] = <<s, c>>
    /\ \A s \in Streams : kind[s] = "upload" /\ pc[s] = "submit" =>
         \A c \in Cs(s) : st[s][c] = "held" => content[buf[s][c]] = <<s, c>>
DataInv == ring = "up" => DataOK

\* What the client of a stream has, g, and what is on its way is a prefix of
\* the body, and all of it when the answer a is a success and no read has
\* found too little, so that sh is empty; w says that the client has left.
ClientOK(k, l, f, g, w, a, sh) ==
    /\ Len(g) <= Chunks[k] /\ \A i \in 1..Len(g) : f[i] = "gone"
    /\ \A c, d \in 1..Chunks[k] : f[c] = "framed" /\ d <= c => d <= Len(g) \/ f[d] = "framed"
    /\ w => \A c \in 1..Chunks[k] : f[c] # "framed"
    /\ k = "small" /\ l # "done" => ~w
    /\ k = "download" /\ l # "done" =>
         /\ ~w => \A c \in 1..Chunks[k] : f[c] = "gone" => c <= Len(g)
         /\ \A c, d \in 1..Chunks[k] : f[c] = "none" /\ c < d => f[d] = "none"
    /\ k \in {"download", "small"} /\ a = "ok" =>
         /\ l = "done"
         /\ ~w /\ sh = {} => \A c \in 1..Chunks[k] : c <= Len(g) \/ f[c] = "framed"
ClientInv ==
    \A s \in Streams : ClientOK(kind[s], pc[s], st[s], got[s], left[s], answer[s], short[s])

\* What a client has received is its own.
GotInv == ring = "up" => \A s \in Streams : OwnData(s)

\* The session of an upload or a copy while the ring is up: its counter n, and
\* what is known of its chunks unless an error e has been recorded.
SessionOK(s, k, l, f, n, z, e, r, d, a) ==
    /\ n = Cardinality({c \in 1..Chunks[k] : f[c] = "writing"})
    /\ k \in {"upload", "copy"} /\ l # "done" =>
         /\ ~e => \A c \in 1..Chunks[k] : f[c] \in {"completed", "gone"} => d[c] = <<s, c>>
         /\ l \in {"close", "closed", "wait", "answer"} /\ ~e =>
              \A c \in 1..Chunks[k] : f[c] \in {"writing", "completed", "gone"}
         /\ z => l \in {"closed", "wait", "answer"}
         /\ r = "ok" => \A c \in 1..Chunks[k] : d[c] = <<s, c>>
    /\ k \in {"upload", "copy"} /\ a = "ok" =>
         l = "done" /\ \A c \in 1..Chunks[k] : d[c] = <<s, c>>
SessionInv == ring = "up" => \A s \in Streams :
    SessionOK(s, kind[s], pc[s], st[s], pending[s], closed[s], err[s], result[s], disk[s], answer[s])

Inv == TypeOK /\ PoolInv /\ LineInv /\ TaskInv /\ DataInv /\ ClientInv /\ GotInv /\ SessionInv

-----------------------------------------------------------------------------
(* Sets of chunks. *)

\* The statuses and labels by name.
LEMMA Names ==
    /\ "none" \in Statuses /\ "planned" \in Statuses /\ "waiting" \in Statuses /\ "held" \in Statuses
    /\ "reading" \in Statuses /\ "read" \in Statuses /\ "failed" \in Statuses /\ "framed" \in Statuses
    /\ "writing" \in Statuses /\ "completed" \in Statuses /\ "gone" \in Statuses
    /\ "plan" \in Labels /\ "acquire" \in Labels /\ "await" \in Labels /\ "recv" \in Labels
    /\ "submit" \in Labels /\ "close" \in Labels /\ "closed" \in Labels /\ "wait" \in Labels
    /\ "answer" \in Labels /\ "done" \in Labels
BY DEF Statuses, Labels

\* A non-empty set of natural numbers has a first element, which First
\* chooses.
LEMMA FirstMin ==
    ASSUME NEW C, C \subseteq Nat, C # {}
    PROVE  First(C) \in C /\ \A d \in C : First(C) <= d
<1> DEFINE R == OpToRel(<, Nat)
<1>1. \E x \in C : \A y \in C : ~(<<y, x>> \in R)
  <2>1. IsWellFoundedOn(R, Nat)
    BY NatLessThanWellFounded
  <2> HIDE DEF R
  <2> QED BY <2>1, WFMin, Zenon
<1>2. PICK x \in C : \A y \in C : ~(<<y, x>> \in R)
  BY <1>1
<1>3. \A y \in C : x <= y
  <2> TAKE y \in C
  <2>1. x \in Nat /\ y \in Nat
    OBVIOUS
  <2>2. ~(y < x)
    BY <1>2, <2>1 DEF OpToRel
  <2> QED BY <2>1, <2>2
<1> QED BY <1>3 DEF First

\* The number of chunks of a stream, as its kind says.
LEMMA ChunkNumbers ==
    ASSUME TypeOK
    PROVE  \A s \in Streams : /\ kind[s] \in Kinds /\ Chunks[kind[s]] \in Nat \ {0}
                              /\ Cs(s) = 1..Chunks[kind[s]] /\ Cs(s) \subseteq Nat \ {0}
                              /\ 1 \in Cs(s) /\ IsFiniteSet(Cs(s))
<1> TAKE s \in Streams
<1>1. kind[s] \in Kinds /\ Chunks[kind[s]] \in Nat \ {0}
  BY StreamAssumption DEF TypeOK, PlainTypes
<1>2. IsFiniteSet(1..Chunks[kind[s]])
  BY <1>1, FS_Interval
<1> QED BY <1>1, <1>2 DEF Cs

\* With selects chunks of a stream by their status.
LEMMA WithMember ==
    ASSUME TypeOK, NEW s \in Streams, NEW p
    PROVE  /\ With(s, p) \subseteq Cs(s) /\ With(s, p) \subseteq Nat /\ IsFiniteSet(With(s, p))
           /\ \A c \in Cs(s) : c \in With(s, p) <=> st[s][c] \in p
<1>1. With(s, p) \subseteq Cs(s)
  BY DEF With
<1>2. IsFiniteSet(With(s, p))
  BY <1>1, ChunkNumbers, FS_Subset
<1> QED BY <1>1, <1>2, ChunkNumbers DEF With

\* What Set does to the statuses.
LEMMA SetEffect ==
    ASSUME TypeOK, kind' = kind, NEW s \in Streams, NEW C, NEW v \in Statuses, st' = Set(s, C, v)
    PROVE  /\ Chunked(kind, st', Statuses)
           /\ \A t \in Streams : t # s => st'[t] = st[t]
           /\ \A c \in Cs(s) : st'[s][c] = IF c \in C THEN v ELSE st[s][c]
BY DEF Set, TypeOK, ChunkTypes, Chunked, Cs

\* The same for one chunk.
LEMMA SetOne ==
    ASSUME TypeOK, kind' = kind, NEW s \in Streams, NEW c, NEW v \in Statuses, st' = Set(s, {c}, v)
    PROVE  /\ Chunked(kind, st', Statuses)
           /\ \A t \in Streams : t # s => st'[t] = st[t]
           /\ \A d \in Cs(s) : st'[s][d] = IF d = c THEN v ELSE st[s][d]
BY DEF Set, TypeOK, ChunkTypes, Chunked, Cs

-----------------------------------------------------------------------------
(* The pool. *)

\* The chunks that hold a buffer are among the chunks there are.
LEMMA HeldMember ==
    ASSUME TypeOK, NEW s \in Streams, NEW c \in Cs(s)
    PROVE  /\ <<s, c>> \in Pairs
           /\ <<s, c>> \in HeldPairs <=> st[s][c] \in HeldStatuses
BY ChunkNumbers DEF Pairs, HeldPairs

\* Buffers that are put back leave the pool as it should be, in any order.
LEMMA PoolBack ==
    ASSUME NEW H, NEW B, NEW q \in Seq(Buffers), PoolOK(H, B, q), NEW D, D \subseteq H,
           NEW o \in Orders({B[p[1]][p[2]] : p \in D})
    PROVE  q \o o \in Seq(Buffers) /\ PoolOK(H \ D, B, q \o o)
<1> DEFINE S == {B[p[1]][p[2]] : p \in D}
<1>1. S \subseteq Buffers
  BY DEF PoolOK
<1>2. IsFiniteSet(S) /\ Cardinality(S) \in Nat
  <2>1. IsFiniteSet(Buffers)
    BY BoundAssumption, FS_Interval DEF Buffers
  <2> QED BY <1>1, <2>1, FS_Subset, FS_CardinalityType
<1>3. /\ o \in [1..Cardinality(S) -> S]
      /\ \A i, j \in 1..Cardinality(S) : o[i] = o[j] => i = j
      /\ \A b \in S : \E i \in 1..Cardinality(S) : o[i] = b
  BY DEF Orders, Bijection, Injection, IsInjective, Surjection
<1> DEFINE n == Cardinality(S)
<1> HIDE DEF n, S
<1>4. o \in Seq(Buffers) /\ Len(o) = n
  BY <1>1, <1>2, <1>3, IsASeq, SeqMonotonic DEF n
<1> DEFINE r == q \o o
<1>5. /\ r \in Seq(Buffers) /\ Len(r) = Len(q) + n /\ Len(q) \in Nat /\ n \in Nat
      /\ \A i \in 1..Len(q) : r[i] = q[i]
      /\ \A i \in 1..n : r[Len(q) + i] = o[i]
  BY <1>4, <1>2 DEF n
<1> HIDE DEF r
<1>6. \A i \in 1..Len(r) : i \in 1..Len(q) \/ (\E k \in 1..n : i = Len(q) + k)
  <2> TAKE i \in 1..Len(r)
  <2>1. CASE i <= Len(q)
    BY <2>1, <1>5
  <2>2. CASE i > Len(q)
    <3>1. i - Len(q) \in 1..n /\ i = Len(q) + (i - Len(q))
      BY <2>2, <1>5
    <3> QED BY <3>1
  <2> QED BY <2>1, <2>2, <1>5
<1>7. \A b \in S : \E p \in D : B[p[1]][p[2]] = b
  BY DEF S
<1>8. \A p \in D : B[p[1]][p[2]] \in S
  BY DEF S
<1>9. \A i, j \in 1..Len(r) : r[i] = r[j] => i = j
  <2> SUFFICES ASSUME NEW i \in 1..Len(r), NEW j \in 1..Len(r), r[i] = r[j] PROVE i = j
    OBVIOUS
  <2>0. \A k \in 1..n : \A m \in 1..Len(q) : o[k] # q[m]
    BY <1>3, <1>7, SMTT(60) DEF PoolOK, n
  <2>1. CASE i \in 1..Len(q) /\ j \in 1..Len(q)
    BY <2>1, <1>5 DEF PoolOK
  <2>2. CASE i \in 1..Len(q) /\ \E k \in 1..n : j = Len(q) + k
    BY <2>2, <2>0, <1>5
  <2>3. CASE j \in 1..Len(q) /\ \E k \in 1..n : i = Len(q) + k
    BY <2>3, <2>0, <1>5, ZenonT(60)
  <2>4. CASE (\E k \in 1..n : i = Len(q) + k) /\ (\E k \in 1..n : j = Len(q) + k)
    BY <2>4, <1>3, <1>5 DEF n
  <2> QED BY <2>1, <2>2, <2>3, <2>4, <1>6
<1>10. \A p \in H \ D : \A i \in 1..Len(r) : r[i] # B[p[1]][p[2]]
  <2> TAKE p \in H \ D
  <2> TAKE i \in 1..Len(r)
  <2>1. CASE i \in 1..Len(q)
    BY <2>1, <1>5 DEF PoolOK
  <2>2. CASE \E k \in 1..n : i = Len(q) + k
    <3>1. PICK k \in 1..n : i = Len(q) + k
      BY <2>2
    <3>2. PICK e \in D : B[e[1]][e[2]] = o[k]
      BY <1>3, <1>7 DEF n
    <3>3. r[i] = o[k]
      BY <3>1, <1>5
    <3> QED BY <3>2, <3>3 DEF PoolOK
  <2> QED BY <2>1, <2>2, <1>6
<1>11. \A b \in Buffers : (\E i \in 1..Len(r) : r[i] = b) \/ (\E p \in H \ D : B[p[1]][p[2]] = b)
  <2> TAKE b \in Buffers
  <2>1. CASE \E i \in 1..Len(q) : q[i] = b
    BY <2>1, <1>5
  <2>2. CASE b \in S
    <3>1. PICK k \in 1..n : o[k] = b
      BY <2>2, <1>3 DEF n
    <3>2. Len(q) + k \in 1..Len(r) /\ r[Len(q) + k] = b
      BY <3>1, <1>5
    <3> QED BY <3>2
  <2>3. CASE b \notin S /\ \E p \in H : B[p[1]][p[2]] = b
    BY <2>3, <1>8
  <2> QED BY <2>1, <2>2, <2>3 DEF PoolOK
<1> QED BY <1>5, <1>9, <1>10, <1>11 DEF PoolOK, r

\* Drop of the buffers of some chunks of a stream.
LEMMA PutBackEffect ==
    ASSUME TypeOK, PoolInv, NEW s \in Streams, NEW C, C \subseteq Cs(s),
           \A c \in C : st[s][c] \in HeldStatuses, PutBack(s, C)
    PROVE  queue' \in Seq(Buffers) /\ PoolOK(HeldPairs \ ({s} \X C), buf, queue')
<1> DEFINE D == {s} \X C
<1>1. D \subseteq HeldPairs
  BY HeldMember
<1>2. {buf[s][c] : c \in C} = {buf[p[1]][p[2]] : p \in D}
  <2>1. \A c \in C : <<s, c>> \in D /\ <<s, c>>[1] = s /\ <<s, c>>[2] = c
    OBVIOUS
  <2>2. \A p \in D : p[1] = s /\ p[2] \in C
    OBVIOUS
  <2> HIDE DEF D
  <2>3. {buf[s][c] : c \in C} \subseteq {buf[p[1]][p[2]] : p \in D}
    BY <2>1
  <2>4. {buf[p[1]][p[2]] : p \in D} \subseteq {buf[s][c] : c \in C}
    BY <2>2
  <2> QED BY <2>3, <2>4
<1>3. PICK o \in Orders({buf[p[1]][p[2]] : p \in D}) : queue' = queue \o o
  BY <1>2 DEF PutBack
<1> HIDE DEF D
<1>4. queue \in Seq(Buffers) /\ PoolOK(HeldPairs, buf, queue)
  BY DEF TypeOK, PlainTypes, PoolInv
<1>5. queue \o o \in Seq(Buffers) /\ PoolOK(HeldPairs \ D, buf, queue \o o)
  BY <1>1, <1>3, <1>4, PoolBack
<1> QED BY <1>3, <1>5 DEF D

\* The waiters of a stream leave: the others stay, in line once.
LEMMA LeaveLineEffect ==
    ASSUME TypeOK, LineInv, NEW s \in Streams, LeaveLine(s)
    PROVE  /\ waiters' \in Seq(Streams \X Nat)
           /\ \A i, j \in 1..Len(waiters') : waiters'[i] = waiters'[j] => i = j
           /\ \A i, j \in 1..Len(waiters') :
                waiters'[i][1] = waiters'[j][1] => i = j \/ kind[waiters'[i][1]] = "copy"
           /\ \A i \in 1..Len(waiters') : /\ waiters'[i][1] # s
                                          /\ \E j \in 1..Len(waiters) : waiters'[i] = waiters[j]
<1> DEFINE K == {i \in 1..Len(waiters) : waiters[i][1] # s}
           n == Cardinality(K)
<1>1. waiters \in Seq(Streams \X Nat) /\ Len(waiters) \in Nat
  BY DEF TypeOK, PlainTypes
<1>2. n \in Nat
  <2>1. IsFiniteSet(1..Len(waiters))
    BY <1>1, FS_Interval
  <2> QED BY <2>1, FS_Subset, FS_CardinalityType
<1>3. PICK p \in Orders(K) : waiters' = [i \in DOMAIN p |-> waiters[p[i]]]
  BY DEF LeaveLine
<1>4. p \in [1..n -> K] /\ \A i, j \in 1..n : p[i] = p[j] => i = j
  BY DEF Orders, Bijection, Injection, IsInjective
<1>5. \A i \in 1..n : p[i] \in 1..Len(waiters) /\ waiters[p[i]][1] # s
  BY <1>4
<1> HIDE DEF n, K
<1>6. waiters' = [i \in 1..n |-> waiters[p[i]]]
  BY <1>3, <1>4
<1>7. \A i \in 1..n : waiters[p[i]] \in Streams \X Nat
  BY <1>1, <1>5, ElementOfSeq
<1>8. waiters' \in Seq(Streams \X Nat) /\ Len(waiters') = n
  <2>1. waiters' \in [1..n -> Streams \X Nat]
    BY <1>6, <1>7
  <2> QED BY <1>2, <2>1, SeqDef
<1>9. \A i \in 1..n : waiters'[i] = waiters[p[i]]
  BY <1>6
<1>10. \A i, j \in 1..n : waiters'[i] = waiters'[j] => i = j
  BY <1>4, <1>5, <1>9 DEF LineInv
<1>11. \A i, j \in 1..n : waiters'[i][1] = waiters'[j][1] => i = j \/ kind[waiters'[i][1]] = "copy"
  BY <1>4, <1>5, <1>9 DEF LineInv
<1> QED BY <1>5, <1>8, <1>9, <1>10, <1>11

-----------------------------------------------------------------------------
(* Frames: what steps that touch one stream leave alone. *)

\* The kinds of the streams never change, so their chunks do not.
LEMMA SameChunks ==
    ASSUME kind' = kind
    PROVE  Pairs' = Pairs /\ \A t \in Streams : Cs(t)' = Cs(t)
BY DEF Pairs, Cs

\* The pool is as it should be when nobody takes or drops a buffer.
LEMMA PoolSame ==
    ASSUME TypeOK, PoolInv, kind' = kind, buf' = buf, queue' = queue,
           \A t \in Streams : \A c \in Cs(t) : st'[t][c] \in HeldStatuses <=> st[t][c] \in HeldStatuses
    PROVE  PoolInv'
<1>1. HeldPairs' = HeldPairs
  <2>1. \A p \in Pairs : p[1] \in Streams /\ p[2] \in Cs(p[1])
    BY DEF Pairs
  <2> QED BY <2>1, SameChunks DEF HeldPairs
<1> QED BY <1>1 DEF PoolInv

\* The same when the chunks of a set drop their buffers, and others that have
\* none are changed with them.
LEMMA PoolDrop ==
    ASSUME TypeOK, PoolInv, kind' = kind, buf' = buf, NEW s \in Streams,
           NEW C, C \subseteq Cs(s), \A c \in C : st[s][c] \in HeldStatuses,
           NEW N, \A c \in N \cap Cs(s) : st[s][c] \notin HeldStatuses,
           NEW v \in Statuses, v \notin HeldStatuses, st' = Set(s, C \cup N, v), PutBack(s, C)
    PROVE  queue' \in Seq(Buffers) /\ PoolInv'
<1>1. queue' \in Seq(Buffers) /\ PoolOK(HeldPairs \ ({s} \X C), buf, queue')
  BY PutBackEffect
<1>2. HeldPairs' = HeldPairs \ ({s} \X C)
  <2>1. Pairs' = Pairs
    BY SameChunks
  <2>3. /\ \A t \in Streams : t # s => st'[t] = st[t]
        /\ \A c \in Cs(s) : st'[s][c] = IF c \in C \cup N THEN v ELSE st[s][c]
    BY DEF Set, TypeOK, ChunkTypes, Chunked, Cs
  <2>2. ASSUME NEW p \in Pairs
        PROVE  st'[p[1]][p[2]] \in HeldStatuses
                 <=> st[p[1]][p[2]] \in HeldStatuses /\ p \notin {s} \X C
    <3>1. p[1] \in Streams /\ p[2] \in Cs(p[1]) /\ p = <<p[1], p[2]>>
      BY DEF Pairs
    <3>2. CASE p[1] # s
      <4>1. st'[p[1]] = st[p[1]]
        BY <3>1, <3>2, <2>3
      <4> QED BY <4>1, <3>2
    <3>3. CASE p[1] = s
      <4>1. st'[s][p[2]] = IF p[2] \in C \cup N THEN v ELSE st[s][p[2]]
        BY <3>1, <3>3, <2>3
      <4>2. p \in {s} \X C <=> p[2] \in C
        BY <3>1, <3>3
      <4>3. CASE p[2] \in C
        BY <4>1, <4>2, <4>3, <3>3
      <4>4. CASE p[2] \in N \ C
        BY <4>1, <4>2, <4>4, <3>1, <3>3
      <4>5. CASE p[2] \notin C \cup N
        BY <4>1, <4>2, <4>5, <3>3
      <4> QED BY <4>3, <4>4, <4>5
    <3> QED BY <3>2, <3>3
  <2> QED BY <2>1, <2>2 DEF HeldPairs
<1> QED BY <1>1, <1>2 DEF PoolInv

\* The line stays in order when no waiter is moved and nobody joins.
LEMMA LineSame ==
    ASSUME TypeOK, LineInv, kind' = kind, waiters' = waiters,
           \A t \in Streams : \A c \in Cs(t) : st[t][c] = "waiting" => st'[t][c] = "waiting",
           \A t \in Streams : pc'[t] = pc[t] \/ (pc[t] # "acquire" /\ pc'[t] # "done")
    PROVE  LineInv'
<1>1. Pairs' = Pairs
  BY SameChunks
<1>2. \A p \in Pairs : p[1] \in Streams /\ p[2] \in Cs(p[1])
  BY DEF Pairs
<1> QED BY <1>1, <1>2 DEF LineInv

\* What a task leaves behind when it returns or is dropped.
LEMMA ReturnEffect ==
    ASSUME TypeOK, PoolInv, LineInv, kind' = kind, buf' = buf, NEW s \in Streams, NEW a, Return(s, a)
    PROVE  /\ queue' \in Seq(Buffers) /\ PoolInv'
           /\ waiters' \in Seq(Streams \X Nat) /\ LineInv'
           /\ Chunked(kind, st', Statuses)
           /\ \A t \in Streams : t # s => st'[t] = st[t]
           /\ \A c \in Cs(s) : st'[s][c] = IF st[s][c] \in {"framed", "reading", "writing", "completed"}
                                             THEN st[s][c] ELSE "gone"
           /\ pc' = [pc EXCEPT ![s] = "done"] /\ answer' = [answer EXCEPT ![s] = a]
           /\ closed' = [closed EXCEPT ![s] = TRUE]
<1> DEFINE mine == With(s, {"held", "read"})
           never == With(s, {"none", "planned", "waiting", "failed"})
<1>1. /\ PutBack(s, mine) /\ st' = Set(s, mine \cup never, "gone") /\ LeaveLine(s)
      /\ pc' = [pc EXCEPT ![s] = "done"] /\ answer' = [answer EXCEPT ![s] = a]
      /\ closed' = [closed EXCEPT ![s] = TRUE]
  BY DEF Return
<1>2. /\ mine \subseteq Cs(s) /\ never \subseteq Cs(s)
      /\ \A c \in Cs(s) : /\ c \in mine <=> st[s][c] \in {"held", "read"}
                          /\ c \in never <=> st[s][c] \in {"none", "planned", "waiting", "failed"}
  BY WithMember
<1> HIDE DEF mine, never
<1>3. \A c \in Cs(s) : st[s][c] \in Statuses
  BY DEF TypeOK, ChunkTypes, Chunked, Cs
<1>4. queue' \in Seq(Buffers) /\ PoolInv'
  <2>1. \A c \in mine : st[s][c] \in HeldStatuses
    BY <1>2 DEF HeldStatuses
  <2>2. \A c \in never \cap Cs(s) : st[s][c] \notin HeldStatuses
    BY <1>2 DEF HeldStatuses
  <2>3. "gone" \in Statuses /\ "gone" \notin HeldStatuses
    BY DEF Statuses, HeldStatuses
  <2> QED BY <1>1, <1>2, <2>1, <2>2, <2>3, PoolDrop
<1>5. /\ Chunked(kind, st', Statuses)
      /\ \A t \in Streams : t # s => st'[t] = st[t]
      /\ \A c \in Cs(s) : st'[s][c] = IF c \in mine \cup never THEN "gone" ELSE st[s][c]
  <2>1. "gone" \in Statuses
    BY DEF Statuses
  <2> QED BY <1>1, <2>1, SetEffect, SMTT(60)
<1>6. \A c \in Cs(s) : st'[s][c] = IF st[s][c] \in {"framed", "reading", "writing", "completed"}
                                     THEN st[s][c] ELSE "gone"
  BY <1>2, <1>3, <1>5 DEF Statuses
<1>7. waiters' \in Seq(Streams \X Nat) /\ LineInv'
  <2>1. /\ waiters' \in Seq(Streams \X Nat)
        /\ \A i, j \in 1..Len(waiters') : waiters'[i] = waiters'[j] => i = j
        /\ \A i, j \in 1..Len(waiters') :
             waiters'[i][1] = waiters'[j][1] => i = j \/ kind[waiters'[i][1]] = "copy"
        /\ \A i \in 1..Len(waiters') : /\ waiters'[i][1] # s
                                       /\ \E j \in 1..Len(waiters) : waiters'[i] = waiters[j]
    BY <1>1, LeaveLineEffect
  <2>2. ASSUME NEW i \in 1..Len(waiters')
        PROVE  /\ waiters'[i] \in Pairs' /\ st'[waiters'[i][1]][waiters'[i][2]] = "waiting"
               /\ \/ pc'[waiters'[i][1]] = "acquire"
                  \/ kind'[waiters'[i][1]] = "copy" /\ pc'[waiters'[i][1]] # "done"
    <3>1. PICK j \in 1..Len(waiters) : waiters'[i] = waiters[j]
      BY <2>1
    <3>2. /\ waiters[j] \in Pairs /\ waiters[j][1] # s /\ st[waiters[j][1]][waiters[j][2]] = "waiting"
          /\ pc[waiters[j][1]] = "acquire" \/ (kind[waiters[j][1]] = "copy" /\ pc[waiters[j][1]] # "done")
      BY <2>1, <3>1 DEF LineInv
    <3>3. waiters[j][1] \in Streams
      BY <3>2 DEF Pairs
    <3>4. pc'[waiters[j][1]] = pc[waiters[j][1]] /\ st'[waiters[j][1]] = st[waiters[j][1]]
      BY <1>1, <1>5, <3>2, <3>3 DEF TypeOK, PlainTypes
    <3> QED BY <3>1, <3>2, <3>4, SameChunks
  <2> QED BY <2>1, <2>2 DEF LineInv
<1> QED BY <1>1, <1>4, <1>5, <1>6, <1>7

-----------------------------------------------------------------------------
(* Types, the pool and the line: one lemma per step. *)

\* A chunk that joins the line stands in it once.
LEMMA Join ==
    ASSUME TypeOK, LineInv, kind' = kind, NEW s \in Streams, NEW c \in Cs(s),
           st[s][c] # "waiting", st' = Set(s, {c}, "waiting"), waiters' = Append(waiters, <<s, c>>),
           pc'[s] = "acquire" \/ (kind[s] = "copy" /\ pc'[s] # "done"),
           \A t \in Streams \ {s} : pc'[t] = pc[t], pc[s] = "acquire" => kind[s] = "copy"
    PROVE  waiters' \in Seq(Streams \X Nat) /\ LineInv'
<1>1. /\ \A t \in Streams : t # s => st'[t] = st[t]
      /\ \A d \in Cs(s) : st'[s][d] = IF d \in {c} THEN "waiting" ELSE st[s][d]
  BY DEF Set, TypeOK, ChunkTypes, Chunked, Cs
<1>2. <<s, c>> \in Pairs /\ <<s, c>> \in Streams \X Nat
  BY HeldMember DEF Pairs
<1>3. /\ waiters' \in Seq(Streams \X Nat) /\ Len(waiters') = Len(waiters) + 1 /\ Len(waiters) \in Nat
      /\ waiters'[Len(waiters) + 1] = <<s, c>> /\ \A i \in 1..Len(waiters) : waiters'[i] = waiters[i]
  BY <1>2 DEF TypeOK, PlainTypes
<1>4. ASSUME NEW i \in 1..Len(waiters)
      PROVE  /\ waiters[i] # <<s, c>> /\ waiters[i] \in Pairs
             /\ waiters[i][1] = s => kind[s] = "copy"
             /\ st'[waiters[i][1]][waiters[i][2]] = "waiting"
             /\ \/ pc'[waiters[i][1]] = "acquire"
                \/ kind'[waiters[i][1]] = "copy" /\ pc'[waiters[i][1]] # "done"
  <2> DEFINE w == waiters[i]
  <2>1. /\ w \in Pairs /\ st[w[1]][w[2]] = "waiting"
        /\ pc[w[1]] = "acquire" \/ (kind[w[1]] = "copy" /\ pc[w[1]] # "done")
    BY DEF LineInv
  <2> HIDE DEF w
  <2>2. w[1] \in Streams /\ w[2] \in Cs(w[1])
    BY <2>1 DEF Pairs
  <2>3. w # <<s, c>>
    BY <2>1
  <2>4. CASE w[1] = s
    BY <1>1, <2>1, <2>2, <2>3, <2>4 DEF w
  <2>5. CASE w[1] # s
    BY <1>1, <2>1, <2>2, <2>3, <2>5 DEF w
  <2> QED BY <2>4, <2>5
<1>5. \A i \in 1..Len(waiters') : i \in 1..Len(waiters) \/ i = Len(waiters) + 1
  BY <1>3
<1>6. Pairs' = Pairs
  BY SameChunks
<1>7. \A i, j \in 1..Len(waiters') : waiters'[i] = waiters'[j] => i = j
  <2> SUFFICES ASSUME NEW i \in 1..Len(waiters'), NEW j \in 1..Len(waiters'), waiters'[i] = waiters'[j]
               PROVE  i = j
    OBVIOUS
  <2>1. \A k, m \in 1..Len(waiters) : waiters[k] = waiters[m] => k = m
    BY DEF LineInv
  <2>2. \A k \in 1..Len(waiters) : waiters[k] # <<s, c>>
    BY <1>4
  <2>3. CASE i \in 1..Len(waiters) /\ j \in 1..Len(waiters)
    BY <2>1, <2>3, <1>3
  <2>4. CASE i = Len(waiters) + 1 \/ j = Len(waiters) + 1
    BY <2>2, <2>4, <1>3, <1>5
  <2> QED BY <2>3, <2>4, <1>5
<1>9. \A i, j \in 1..Len(waiters') :
        waiters'[i][1] = waiters'[j][1] => i = j \/ kind'[waiters'[i][1]] = "copy"
  <2> SUFFICES ASSUME NEW i \in 1..Len(waiters'), NEW j \in 1..Len(waiters'),
                      waiters'[i][1] = waiters'[j][1]
               PROVE  i = j \/ kind[waiters'[i][1]] = "copy"
    OBVIOUS
  <2>1. \A k, m \in 1..Len(waiters) :
          waiters[k][1] = waiters[m][1] => k = m \/ kind[waiters[k][1]] = "copy"
    BY DEF LineInv
  <2>2. \A k \in 1..Len(waiters) : waiters[k][1] = s => kind[s] = "copy"
    BY <1>4
  <2>3. CASE i \in 1..Len(waiters) /\ j \in 1..Len(waiters)
    BY <2>1, <2>3, <1>3
  <2>4. CASE i = Len(waiters) + 1 /\ j \in 1..Len(waiters)
    <3>1. waiters'[i] = <<s, c>> /\ waiters'[j] = waiters[j]
      BY <2>4, <1>3
    <3>2. waiters'[i][1] = s /\ waiters[j][1] = s
      BY <3>1
    <3> QED BY <2>2, <2>4, <3>2
  <2>5. CASE j = Len(waiters) + 1 /\ i \in 1..Len(waiters)
    <3>1. waiters'[j] = <<s, c>> /\ waiters'[i] = waiters[i]
      BY <2>5, <1>3
    <3>2. waiters'[i][1] = s /\ waiters[i][1] = s
      BY <3>1
    <3> QED BY <2>2, <2>5, <3>2
  <2> QED BY <2>3, <2>4, <2>5, <1>5
<1>8. ASSUME NEW i \in 1..Len(waiters')
      PROVE  /\ waiters'[i] \in Pairs' /\ st'[waiters'[i][1]][waiters'[i][2]] = "waiting"
             /\ \/ pc'[waiters'[i][1]] = "acquire"
                \/ kind'[waiters'[i][1]] = "copy" /\ pc'[waiters'[i][1]] # "done"
  <2>1. CASE i \in 1..Len(waiters)
    <3>1. waiters'[i] = waiters[i]
      BY <2>1, <1>3
    <3> QED BY <2>1, <3>1, <1>4, <1>6
  <2>2. CASE i = Len(waiters) + 1
    <3>1. waiters'[i] = <<s, c>>
      BY <2>2, <1>3
    <3>2. st'[s][c] = "waiting"
      BY <1>1
    <3> QED BY <3>1, <3>2, <1>2, <1>6
  <2> QED BY <2>1, <2>2, <1>5
<1> QED BY <1>3, <1>7, <1>8, <1>9 DEF LineInv

\* PlanOne puts the next chunk in line.
LEMMA PlanOnePool ==
    ASSUME TypeOK, PoolInv, LineInv, TaskInv, NEW s \in Streams, PlanOne(s)
    PROVE  TypeOK' /\ PoolInv' /\ LineInv'
<1> DEFINE c == First(Unplanned(s))
<1>1. c \in Cs(s) /\ st[s][c] = "none"
  BY FirstMin, WithMember DEF PlanOne, Unplanned
<1>2. st' = Set(s, {c}, "waiting") /\ waiters' = Append(waiters, <<s, c>>)
  BY DEF PlanOne, Acquire
<1> HIDE DEF c
<1>3. pc' = [pc EXCEPT ![s] = "acquire"] /\ kind' = kind /\ buf' = buf /\ queue' = queue
  BY DEF PlanOne
<1>4. /\ Chunked(kind, st', Statuses)
      /\ \A t \in Streams : t # s => st'[t] = st[t]
      /\ \A d \in Cs(s) : st'[s][d] = IF d = c THEN "waiting" ELSE st[s][d]
  <2>1. st' = Set(s, {c}, "waiting") /\ kind' = kind
    BY <1>2, <1>3
  <2> QED BY <2>1, Names DEF Set, TypeOK, ChunkTypes, Chunked, Cs
<1>5. waiters' \in Seq(Streams \X Nat) /\ LineInv'
  <2>1. pc'[s] = "acquire" /\ \A t \in Streams \ {s} : pc'[t] = pc[t]
    BY <1>3 DEF TypeOK, PlainTypes
  <2>2. pc[s] = "plan"
    BY DEF PlanOne
  <2> QED BY <1>1, <1>2, <1>3, <2>1, <2>2, Join
<1>6. PoolInv'
  <2>1. \A t \in Streams : \A d \in Cs(t) : st'[t][d] \in HeldStatuses <=> st[t][d] \in HeldStatuses
    BY <1>1, <1>4 DEF HeldStatuses
  <2> QED BY <1>3, <2>1, PoolSame
<1>7. TypeOK'
  <2>1. ChunkTypes'
    BY <1>3, <1>4 DEF PlanOne, TypeOK, ChunkTypes
  <2>2. PlainTypes'
    BY <1>3, <1>5, Names, SameChunks DEF PlanOne, sessVars, TypeOK, PlainTypes
  <2> QED BY <2>1, <2>2 DEF TypeOK
<1> QED BY <1>5, <1>6, <1>7

\* PollCopy puts the next planned chunk in line.
LEMMA PollCopyPool ==
    ASSUME TypeOK, PoolInv, LineInv, TaskInv, NEW s \in Streams, PollCopy(s)
    PROVE  TypeOK' /\ PoolInv' /\ LineInv'
<1> DEFINE c == First(With(s, {"planned"}))
<1>1. c \in Cs(s) /\ st[s][c] = "planned"
  BY FirstMin, WithMember DEF PollCopy
<1>2. st' = Set(s, {c}, "waiting") /\ waiters' = Append(waiters, <<s, c>>)
  BY DEF PollCopy, Acquire
<1> HIDE DEF c
<1>3. pc' = pc /\ pc[s] = "await" /\ kind' = kind /\ buf' = buf /\ queue' = queue
  BY DEF PollCopy
<1>4. /\ Chunked(kind, st', Statuses)
      /\ \A t \in Streams : t # s => st'[t] = st[t]
      /\ \A d \in Cs(s) : st'[s][d] = IF d = c THEN "waiting" ELSE st[s][d]
  <2>1. st' = Set(s, {c}, "waiting") /\ kind' = kind
    BY <1>2, <1>3
  <2> QED BY <2>1, Names DEF Set, TypeOK, ChunkTypes, Chunked, Cs
<1>5. waiters' \in Seq(Streams \X Nat) /\ LineInv'
  <2>1. kind[s] = "copy"
    BY <1>1, <1>3, ChunkNumbers DEF TaskInv, TaskOK, Kinds
  <2> QED BY <1>1, <1>2, <1>3, <2>1, Join
<1>6. PoolInv'
  <2>1. \A t \in Streams : \A d \in Cs(t) : st'[t][d] \in HeldStatuses <=> st[t][d] \in HeldStatuses
    BY <1>1, <1>4 DEF HeldStatuses
  <2> QED BY <1>3, <2>1, PoolSame
<1>7. TypeOK'
  <2>1. ChunkTypes'
    BY <1>3, <1>4 DEF PollCopy, TypeOK, ChunkTypes
  <2>2. PlainTypes'
    BY <1>3, <1>5, Names, SameChunks DEF PollCopy, sessVars, TypeOK, PlainTypes
  <2> QED BY <2>1, <2>2 DEF TypeOK
<1> QED BY <1>5, <1>6, <1>7

\* PlanCopy plans reads; nobody is in line or has a buffer through it.
LEMMA PlanCopyPool ==
    ASSUME TypeOK, PoolInv, LineInv, TaskInv, NEW s \in Streams, PlanCopy(s)
    PROVE  TypeOK' /\ PoolInv' /\ LineInv'
<1>1. PICK C : C \subseteq Unplanned(s) /\ st' = Set(s, C, "planned")
  BY DEF PlanCopy
<1>2. \A c \in C : c \in Cs(s) /\ st[s][c] = "none"
  BY <1>1, WithMember DEF Unplanned
<1>3. /\ pc[s] = "plan" /\ pc' = [pc EXCEPT ![s] = "await"] /\ kind' = kind /\ buf' = buf
      /\ queue' = queue /\ waiters' = waiters
  BY DEF PlanCopy, poolVars
<1>4. /\ Chunked(kind, st', Statuses)
      /\ \A t \in Streams : t # s => st'[t] = st[t]
      /\ \A d \in Cs(s) : st'[s][d] = IF d \in C THEN "planned" ELSE st[s][d]
  BY <1>1, <1>3, SetEffect, Names
<1>5. LineInv'
  BY <1>2, <1>3, <1>4, LineSame DEF TypeOK, PlainTypes
<1>6. PoolInv'
  <2>1. \A t \in Streams : \A d \in Cs(t) : st'[t][d] \in HeldStatuses <=> st[t][d] \in HeldStatuses
    BY <1>2, <1>4 DEF HeldStatuses
  <2> QED BY <1>3, <2>1, PoolSame
<1>7. TypeOK'
  <2>1. ChunkTypes'
    BY <1>3, <1>4 DEF PlanCopy, TypeOK, ChunkTypes
  <2>2. PlainTypes'
    BY <1>3, Names, SameChunks DEF PlanCopy, sessVars, poolVars, TypeOK, PlainTypes
  <2> QED BY <2>1, <2>2 DEF TypeOK
<1> QED BY <1>5, <1>6, <1>7

\* SubmitReads hands buffers from the task to the ring.
LEMMA SubmitReadsPool ==
    ASSUME TypeOK, PoolInv, LineInv, TaskInv, NEW s \in Streams, SubmitReads(s)
    PROVE  TypeOK' /\ PoolInv' /\ LineInv'
<1> DEFINE C == With(s, {"held"})
<1>1. st' = Set(s, C, "reading")
  BY DEF SubmitReads
<1>2. \A c \in C : c \in Cs(s) /\ st[s][c] = "held"
  BY WithMember
<1> HIDE DEF C
<1>3. pc' = pc /\ kind' = kind /\ buf' = buf /\ queue' = queue /\ waiters' = waiters
  BY DEF SubmitReads, poolVars
<1>4. /\ Chunked(kind, st', Statuses)
      /\ \A t \in Streams : t # s => st'[t] = st[t]
      /\ \A d \in Cs(s) : st'[s][d] = IF d \in C THEN "reading" ELSE st[s][d]
  BY <1>1, <1>3, SetEffect, Names
<1>5. LineInv'
  BY <1>2, <1>3, <1>4, LineSame DEF TypeOK, PlainTypes
<1>6. PoolInv'
  <2>1. \A t \in Streams : \A d \in Cs(t) : st'[t][d] \in HeldStatuses <=> st[t][d] \in HeldStatuses
    BY <1>2, <1>4 DEF HeldStatuses
  <2> QED BY <1>3, <2>1, PoolSame
<1>7. TypeOK'
  <2>1. ChunkTypes'
    BY <1>3, <1>4 DEF SubmitReads, TypeOK, ChunkTypes
  <2>2. PlainTypes'
    BY <1>3, Names, SameChunks DEF SubmitReads, sessVars, poolVars, TypeOK, PlainTypes
  <2> QED BY <2>1, <2>2 DEF TypeOK
<1> QED BY <1>5, <1>6, <1>7

\* A read that finds too little is noted for its chunk only.
LEMMA CutEffect ==
    ASSUME TypeOK, NEW s \in Streams, NEW c \in Nat, short' = short \/ Cut(s, c)
    PROVE  /\ short' \in [Streams -> SUBSET Nat] /\ (short'[s] = {} => short[s] = {})
           /\ \A t \in Streams : t # s => short'[t] = short[t]
<1>1. short \in [Streams -> SUBSET Nat]
  BY DEF TypeOK, PlainTypes
<1>2. CASE short' = short
  BY <1>1, <1>2
<1>3. CASE Cut(s, c)
  <2>1. short' = [short EXCEPT ![s] = short[s] \cup {c}]
    BY <1>3 DEF Cut
  <2>2. short[s] \cup {c} \in SUBSET Nat /\ short[s] \cup {c} # {}
    BY <1>1
  <2> QED BY <1>1, <2>1, <2>2
<1> QED BY <1>2, <1>3

\* Faults are counted.
LEMMA FaultCount ==
    ASSUME TypeOK, faults' = faults \/ Fault
    PROVE  faults' \in Nat
BY DEF Fault, TypeOK, PlainTypes

\* Blocking fills the buffer that a small read was given.
LEMMA BlockingPool ==
    ASSUME TypeOK, PoolInv, LineInv, TaskInv, NEW s \in Streams, Blocking(s), faults' \in Nat,
           short' \in [Streams -> SUBSET Nat]
    PROVE  TypeOK' /\ PoolInv' /\ LineInv'
<1>1. /\ st' = Set(s, {1}, "framed") /\ content' = [content EXCEPT ![buf[s][1]] = <<s, 1>>]
      /\ pc[s] = "await" /\ kind[s] = "small"
  BY DEF Blocking
<1>2. 1 \in Cs(s) /\ st[s][1] = "held"
  BY <1>1, ChunkNumbers DEF TaskInv, TaskOK
<1>3. /\ pc' = [pc EXCEPT ![s] = "done"] /\ kind' = kind /\ buf' = buf /\ queue' = queue
      /\ waiters' = waiters
  BY DEF Blocking, poolVars
<1>4. /\ Chunked(kind, st', Statuses)
      /\ \A t \in Streams : t # s => st'[t] = st[t]
      /\ \A d \in Cs(s) : st'[s][d] = IF d = 1 THEN "framed" ELSE st[s][d]
  <2>1. st' = Set(s, {1}, "framed") /\ kind' = kind
    BY <1>1, <1>3
  <2> QED BY <2>1, Names DEF Set, TypeOK, ChunkTypes, Chunked, Cs
<1>5. LineInv'
  <2>1. \A i \in 1..Len(waiters) : /\ waiters[i][1] # s /\ waiters[i] \in Pairs
                                   /\ waiters[i][1] \in Streams
    BY <1>1 DEF LineInv, Pairs
  <2>2. \A t \in Streams : t # s => pc'[t] = pc[t] /\ st'[t] = st[t]
    BY <1>3, <1>4 DEF TypeOK, PlainTypes
  <2> QED BY <1>3, <2>1, <2>2, SameChunks DEF LineInv
<1>6. PoolInv'
  <2>1. \A t \in Streams : \A d \in Cs(t) : st'[t][d] \in HeldStatuses <=> st[t][d] \in HeldStatuses
    BY <1>2, <1>4 DEF HeldStatuses
  <2> QED BY <1>3, <2>1, PoolSame
<1>7. TypeOK'
  <2>1. ChunkTypes'
    BY <1>3, <1>4 DEF Blocking, TypeOK, ChunkTypes
  <2>3. content' \in [Buffers -> Tags]
    <3>1. <<s, 1>> \in Streams \X Nat
      OBVIOUS
    <3> QED BY <1>1, <3>1 DEF TypeOK, PlainTypes, Tags
  <2>2. PlainTypes'
    BY <1>3, <2>3, Names, SameChunks, ZenonT(60) DEF Blocking, sessVars, poolVars, TypeOK, PlainTypes
  <2> QED BY <2>1, <2>2 DEF TypeOK
<1> QED BY <1>5, <1>6, <1>7

\* SendFrame hands a buffer from the task to the channel.
LEMMA SendFramePool ==
    ASSUME TypeOK, PoolInv, LineInv, TaskInv, NEW s \in Streams, SendFrame(s)
    PROVE  TypeOK' /\ PoolInv' /\ LineInv'
<1> DEFINE c == First(Futures(s))
<1>1. st' = Set(s, {c}, "framed") /\ pc[s] = "await" /\ kind[s] = "download"
  BY DEF SendFrame
<1>2. c \in Cs(s) /\ st[s][c] = "read"
  BY FirstMin, WithMember DEF SendFrame, HeadRead, Futures
<1> HIDE DEF c
<1>3. /\ pc'  = [pc EXCEPT ![s] = pc'[s]] /\ pc'[s] \in {"plan", "done", "await"}
      /\ kind' = kind /\ buf' = buf /\ queue' = queue /\ waiters' = waiters
      /\ answer' \in [Streams -> {"none", "ok", "error"}]
  BY DEF SendFrame, poolVars, TypeOK, PlainTypes
<1>4. /\ Chunked(kind, st', Statuses)
      /\ \A t \in Streams : t # s => st'[t] = st[t]
      /\ \A d \in Cs(s) : st'[s][d] = IF d = c THEN "framed" ELSE st[s][d]
  <2>1. st' = Set(s, {c}, "framed") /\ kind' = kind
    BY <1>1, <1>3
  <2> QED BY <2>1, Names DEF Set, TypeOK, ChunkTypes, Chunked, Cs
<1>5. LineInv'
  <2>1. \A i \in 1..Len(waiters) : /\ waiters[i][1] # s /\ waiters[i] \in Pairs
                                   /\ waiters[i][1] \in Streams
    BY <1>1 DEF LineInv, Pairs
  <2>2. \A t \in Streams : t # s => pc'[t] = pc[t] /\ st'[t] = st[t]
    BY <1>3, <1>4 DEF TypeOK, PlainTypes
  <2> QED BY <1>3, <2>1, <2>2, SameChunks DEF LineInv
<1>6. PoolInv'
  <2>1. \A t \in Streams : \A d \in Cs(t) : st'[t][d] \in HeldStatuses <=> st[t][d] \in HeldStatuses
    BY <1>2, <1>4 DEF HeldStatuses
  <2> QED BY <1>3, <2>1, PoolSame
<1>7. TypeOK'
  <2>1. ChunkTypes'
    BY <1>3, <1>4 DEF SendFrame, TypeOK, ChunkTypes
  <2>3. pc' \in [Streams -> Labels]
    <3>1. pc'[s] \in Labels
      BY <1>3, Names
    <3> QED BY <1>3, <3>1 DEF TypeOK, PlainTypes
  <2>2. PlainTypes'
    BY <1>3, <2>3, Names, SameChunks DEF SendFrame, sessVars, poolVars, TypeOK, PlainTypes
  <2> QED BY <2>1, <2>2 DEF TypeOK
<1> QED BY <1>5, <1>6, <1>7

\* Receive fills the buffer, or drops it when the session is cancelled.
LEMMA ReceivePool ==
    ASSUME TypeOK, PoolInv, LineInv, TaskInv, NEW s \in Streams, Receive(s)
    PROVE  TypeOK' /\ PoolInv' /\ LineInv'
<1> DEFINE c == First(With(s, {"held"}))
<1>1. c \in Cs(s) /\ st[s][c] = "held"
  <2>1. With(s, {"held"}) # {}
    <3>1. TaskOK(kind[s], "recv", st[s]) /\ kind[s] \in Kinds
      BY ChunkNumbers DEF Receive, TaskInv
    <3>2. \E d \in Cs(s) : st[s][d] = "held"
      BY <3>1 DEF TaskOK, Kinds, Cs
    <3> QED BY <3>2, WithMember
  <2> QED BY <2>1, FirstMin, WithMember
<1>2. /\ content' = [content EXCEPT ![buf[s][c]] = <<s, c>>] /\ pc[s] = "recv"
      /\ \/ /\ st' = Set(s, {c}, "gone") /\ PutBack(s, {c})
            /\ pc' = [pc EXCEPT ![s] = AfterChunk(s)]
         \/ pc' = [pc EXCEPT ![s] = "submit"] /\ st' = st /\ queue' = queue
  BY DEF Receive
<1> HIDE DEF c
<1>3. kind' = kind /\ buf' = buf /\ waiters' = waiters
  BY DEF Receive
<1>4. content' \in [Buffers -> Tags]
  <2>1. <<s, c>> \in Tags
    BY <1>1, ChunkNumbers DEF Tags
  <2> QED BY <1>2, <2>1 DEF TypeOK, PlainTypes
<1>5. pc' \in [Streams -> Labels] /\ pc'[s] # "done" /\ \A t \in Streams \ {s} : pc'[t] = pc[t]
  BY <1>2, Names, ZenonT(60) DEF TypeOK, PlainTypes, AfterChunk
<1>6. /\ Chunked(kind, st', Statuses) /\ queue' \in Seq(Buffers) /\ PoolInv'
      /\ \A t \in Streams : \A d \in Cs(t) : st[t][d] = "waiting" => st'[t][d] = "waiting"
  <2>1. CASE st' = Set(s, {c}, "gone") /\ PutBack(s, {c})
    <3>1. /\ Chunked(kind, st', Statuses)
          /\ \A t \in Streams : t # s => st'[t] = st[t]
          /\ \A d \in Cs(s) : st'[s][d] = IF d = c THEN "gone" ELSE st[s][d]
      BY <2>1, <1>3, Names DEF Set, TypeOK, ChunkTypes, Chunked, Cs
    <3>2. queue' \in Seq(Buffers) /\ PoolInv'
      <4>1. {c} \subseteq Cs(s) /\ \A d \in {c} : st[s][d] \in HeldStatuses
        BY <1>1 DEF HeldStatuses
      <4>2. {c} \cup {} = {c} /\ "gone" \in Statuses /\ "gone" \notin HeldStatuses
        BY DEF HeldStatuses, Statuses
      <4>3. st' = Set(s, {c} \cup {}, "gone")
        BY <2>1, <4>2
      <4> QED BY <2>1, <1>3, <4>1, <4>2, <4>3, PoolDrop
    <3> QED BY <3>1, <3>2, <1>1
  <2>2. CASE st' = st /\ queue' = queue
    <3>1. PoolInv'
      BY <2>2, <1>3, PoolSame
    <3> QED BY <2>2, <3>1 DEF TypeOK, ChunkTypes, PlainTypes
  <2> QED BY <2>1, <2>2, <1>2
<1>7. LineInv'
  BY <1>2, <1>3, <1>5, <1>6, LineSame
<1>8. TypeOK'
  <2>1. ChunkTypes'
    BY <1>3, <1>6 DEF Receive, TypeOK, ChunkTypes
  <2>2. PlainTypes'
    BY <1>3, <1>4, <1>5, <1>6, SameChunks DEF Receive, sessVars, TypeOK, PlainTypes
  <2> QED BY <2>1, <2>2 DEF TypeOK
<1> QED BY <1>6, <1>7, <1>8

\* TakeRead changes only the task and its session.
LEMMA TakeReadPool ==
    ASSUME TypeOK, PoolInv, LineInv, TaskInv, NEW s \in Streams, TakeRead(s)
    PROVE  TypeOK' /\ PoolInv' /\ LineInv'
<1>1. /\ kind' = kind /\ buf' = buf /\ waiters' = waiters /\ queue' = queue /\ st' = st
      /\ pc[s] = "await"
      /\ pc' = [pc EXCEPT ![s] = "close"] \/ pc' = [pc EXCEPT ![s] = "submit"]
      /\ \E b : err' = [err EXCEPT ![s] = err[s] \/ b]
  BY DEF TakeRead, poolVars
<1>2. pc' \in [Streams -> Labels] /\ pc'[s] # "done" /\ \A t \in Streams \ {s} : pc'[t] = pc[t]
  BY <1>1, Names, ZenonT(60) DEF TypeOK, PlainTypes
<1>3. err' \in [Streams -> BOOLEAN]
  <2>1. \A b : (err[s] \/ b) \in BOOLEAN
    OBVIOUS
  <2> QED BY <1>1, <2>1 DEF TypeOK, PlainTypes
<1>4. PoolInv'
  BY <1>1, PoolSame
<1>5. LineInv'
  BY <1>1, <1>2, LineSame
<1>6. TypeOK'
  <2>1. ChunkTypes'
    BY <1>1 DEF TakeRead, TypeOK, ChunkTypes
  <2>2. PlainTypes'
    BY <1>1, <1>2, <1>3, SameChunks DEF TakeRead, poolVars, TypeOK, PlainTypes
  <2> QED BY <2>1, <2>2 DEF TypeOK
<1> QED BY <1>4, <1>5, <1>6

\* A write that is dropped leaves the error that there was, and one in a copy.
LEMMA DropWriteErr ==
    ASSUME TypeOK, NEW s \in Streams, NEW c, DropWrite(s, c)
    PROVE  /\ err' \in [Streams -> BOOLEAN] /\ (err[s] => err'[s]) /\ pending' = pending
           /\ \A t \in Streams : t # s => err'[t] = err[t]
<1>1. PICK failed \in BOOLEAN : err' = [err EXCEPT ![s] = err[s] \/ failed \/ kind[s] = "copy"]
  BY DEF DropWrite
<1>2. err \in [Streams -> BOOLEAN]
  BY DEF TypeOK, PlainTypes
<1>3. (err[s] \/ failed \/ kind[s] = "copy") \in BOOLEAN
  OBVIOUS
<1>4. err' \in [Streams -> BOOLEAN] /\ \A t \in Streams : t # s => err'[t] = err[t]
  BY <1>1, <1>2, <1>3
<1>5. err'[s] = (err[s] \/ failed \/ kind[s] = "copy")
  BY <1>1, <1>2
<1>6. pending' = pending
  BY DEF DropWrite
<1> QED BY <1>4, <1>5, <1>6

\* SubmitWrite hands a buffer to the ring, or drops it.
LEMMA SubmitWritePool ==
    ASSUME TypeOK, PoolInv, LineInv, TaskInv, NEW s \in Streams, SubmitWrite(s)
    PROVE  TypeOK' /\ PoolInv' /\ LineInv'
<1> DEFINE c == First(With(s, {"held", "read"}))
<1>1. c \in Cs(s) /\ st[s][c] \in {"held", "read"}
  <2>1. With(s, {"held", "read"}) # {}
    <3>1. TaskOK(kind[s], "submit", st[s]) /\ kind[s] \in Kinds
      BY ChunkNumbers DEF SubmitWrite, TaskInv
    <3>2. \E d \in Cs(s) : st[s][d] \in {"held", "read"}
      BY <3>1 DEF TaskOK, Kinds, Cs
    <3> QED BY <3>2, WithMember
  <2> QED BY <2>1, FirstMin, WithMember
<1>9. SendWrite(s, c) \/ DropWrite(s, c)
  BY DEF SubmitWrite
<1>2. \/ st' = Set(s, {c}, "gone") /\ PutBack(s, {c})
      \/ st' = Set(s, {c}, "writing") /\ queue' = queue
  BY <1>9 DEF SendWrite, DropWrite
<1>3. kind' = kind /\ buf' = buf /\ waiters' = waiters /\ pc[s] = "submit"
  BY DEF SubmitWrite
<1>5. pc' \in [Streams -> Labels] /\ pc'[s] # "done" /\ \A t \in Streams \ {s} : pc'[t] = pc[t]
  <2>1. PICK l \in {"close", "plan", "await"} : pc' = [pc EXCEPT ![s] = l]
    BY <1>9 DEF SendWrite, DropWrite, AfterChunk
  <2> QED BY <2>1, Names DEF TypeOK, PlainTypes
<1> HIDE DEF c
<1>6. /\ Chunked(kind, st', Statuses) /\ queue' \in Seq(Buffers) /\ PoolInv'
      /\ \A t \in Streams : \A d \in Cs(t) : st[t][d] = "waiting" => st'[t][d] = "waiting"
  <2>1. CASE st' = Set(s, {c}, "gone") /\ PutBack(s, {c})
    <3>1. /\ Chunked(kind, st', Statuses)
          /\ \A t \in Streams : t # s => st'[t] = st[t]
          /\ \A d \in Cs(s) : st'[s][d] = IF d = c THEN "gone" ELSE st[s][d]
      BY <2>1, <1>3, Names DEF Set, TypeOK, ChunkTypes, Chunked, Cs
    <3>2. queue' \in Seq(Buffers) /\ PoolInv'
      <4>1. {c} \subseteq Cs(s) /\ \A d \in {c} : st[s][d] \in HeldStatuses
        BY <1>1 DEF HeldStatuses
      <4>2. {c} \cup {} = {c} /\ "gone" \in Statuses /\ "gone" \notin HeldStatuses
        BY DEF HeldStatuses, Statuses
      <4>3. st' = Set(s, {c} \cup {}, "gone")
        BY <2>1, <4>2
      <4> QED BY <2>1, <1>3, <4>1, <4>2, <4>3, PoolDrop
    <3> QED BY <3>1, <3>2, <1>1
  <2>2. CASE st' = Set(s, {c}, "writing") /\ queue' = queue
    <3>1. /\ Chunked(kind, st', Statuses)
          /\ \A t \in Streams : t # s => st'[t] = st[t]
          /\ \A d \in Cs(s) : st'[s][d] = IF d = c THEN "writing" ELSE st[s][d]
      BY <2>2, <1>3, Names DEF Set, TypeOK, ChunkTypes, Chunked, Cs
    <3>2. \A t \in Streams : \A d \in Cs(t) : st'[t][d] \in HeldStatuses <=> st[t][d] \in HeldStatuses
      BY <1>1, <3>1 DEF HeldStatuses
    <3>3. PoolInv'
      BY <2>2, <1>3, <3>2, PoolSame
    <3> QED BY <2>2, <1>1, <3>1, <3>3 DEF TypeOK, PlainTypes
  <2> QED BY <2>1, <2>2, <1>2
<1>7. LineInv'
  BY <1>3, <1>5, <1>6, LineSame
<1>8. TypeOK'
  <2>1. ChunkTypes'
    BY <1>3, <1>6 DEF SubmitWrite, TypeOK, ChunkTypes
  <2>2. err' \in [Streams -> BOOLEAN] /\ pending' \in [Streams -> Int]
    <3>1. err \in [Streams -> BOOLEAN] /\ pending \in [Streams -> Int]
      BY DEF TypeOK, PlainTypes
    <3>2. CASE SendWrite(s, c)
      <4>1. err' = err /\ pending' = [pending EXCEPT ![s] = @ + 1]
        BY <3>2 DEF SendWrite
      <4> QED BY <3>1, <4>1
    <3>3. CASE DropWrite(s, c)
      BY <3>1, <3>3, DropWriteErr
    <3> QED BY <1>9, <3>2, <3>3
  <2>3. PlainTypes'
    BY <1>3, <1>5, <1>6, <2>2, SameChunks DEF SubmitWrite, TypeOK, PlainTypes
  <2> QED BY <2>1, <2>3 DEF TypeOK
<1> QED BY <1>6, <1>7, <1>8

\* The steps of close() and wait() change only the task and its session.
LEMMA ClosePool ==
    ASSUME TypeOK, PoolInv, LineInv, TaskInv, NEW s \in Streams,
           Close(s) \/ CloseFinishes(s) \/ Wait(s)
    PROVE  TypeOK' /\ PoolInv' /\ LineInv'
<1>1. /\ kind' = kind /\ buf' = buf /\ waiters' = waiters /\ queue' = queue /\ st' = st
      /\ pc[s] # "acquire"
      /\ \E l \in {"closed", "wait", "answer"} : pc' = [pc EXCEPT ![s] = l]
      /\ closed' = [closed EXCEPT ![s] = TRUE] \/ closed' = closed
      /\ \/ result' = result
         \/ result' = [result EXCEPT ![s] = "error"] \/ result' = [result EXCEPT ![s] = "ok"]
      /\ UNCHANGED <<content, pending, err, ringAt, ring, left, got, disk, answer, faults, short, late>>
  BY DEF Close, CloseFinishes, Wait, TryFinish, poolVars
<1>2. pc' \in [Streams -> Labels] /\ pc'[s] # "done" /\ \A t \in Streams \ {s} : pc'[t] = pc[t]
  <2>1. PICK l \in {"closed", "wait", "answer"} : pc' = [pc EXCEPT ![s] = l]
    BY <1>1
  <2> QED BY <2>1, Names DEF TypeOK, PlainTypes
<1>4. PoolInv'
  BY <1>1, PoolSame
<1>5. LineInv'
  BY <1>1, <1>2, LineSame
<1>6. TypeOK'
  <2>1. ChunkTypes'
    BY <1>1 DEF TypeOK, ChunkTypes
  <2>2. closed' \in [Streams -> BOOLEAN] /\ result' \in [Streams -> {"none", "ok", "error"}]
    BY <1>1 DEF TypeOK, PlainTypes
  <2>3. PlainTypes'
    BY <1>1, <1>2, <2>2, SameChunks DEF TypeOK, PlainTypes
  <2> QED BY <2>1, <2>3 DEF TypeOK
<1> QED BY <1>4, <1>5, <1>6

\* StopDownload, EndOfFile, BlockingEmpty and Answer: the task returns.
LEMMA ReturnPool ==
    ASSUME TypeOK, PoolInv, LineInv, TaskInv, NEW s \in Streams,
           StopDownload(s) \/ EndOfFile(s) \/ BlockingEmpty(s) \/ Answer(s)
    PROVE  TypeOK' /\ PoolInv' /\ LineInv'
<1>1. PICK a \in {"none", "ok", "error"} : Return(s, a)
  BY DEF StopDownload, EndOfFile, BlockingEmpty, Answer, TypeOK, PlainTypes
<1>2. /\ UNCHANGED <<kind, buf, content, pending, err, result, ringAt, ring, left, got, disk, late>>
      /\ faults' = faults \/ Fault
      /\ short' = short \/ Cut(s, 1)
  BY DEF StopDownload, EndOfFile, BlockingEmpty, Answer
<1>6. faults' \in Nat /\ short' \in [Streams -> SUBSET Nat]
  BY <1>2, FaultCount, CutEffect
<1>3. /\ queue' \in Seq(Buffers) /\ PoolInv'
      /\ waiters' \in Seq(Streams \X Nat) /\ LineInv'
      /\ Chunked(kind, st', Statuses)
      /\ pc' = [pc EXCEPT ![s] = "done"] /\ answer' = [answer EXCEPT ![s] = a]
      /\ closed' = [closed EXCEPT ![s] = TRUE]
  BY <1>1, <1>2, ReturnEffect
<1>4. ChunkTypes'
  BY <1>2, <1>3 DEF TypeOK, ChunkTypes
<1>5. PlainTypes'
  BY <1>2, <1>3, <1>6, Names, SameChunks DEF TypeOK, PlainTypes
<1> QED BY <1>3, <1>4, <1>5 DEF TypeOK

\* What is in the buffer of a chunk that holds one.
LEMMA ContentType ==
    ASSUME TypeOK, PoolInv, NEW s \in Streams, NEW c \in Cs(s), st[s][c] \in HeldStatuses
    PROVE  buf[s][c] \in Buffers /\ content[buf[s][c]] \in Tags
<1>1. <<s, c>> \in HeldPairs /\ <<s, c>>[1] = s /\ <<s, c>>[2] = c
  BY HeldMember
<1>2. buf[s][c] \in Buffers
  BY <1>1 DEF PoolInv, PoolOK
<1> QED BY <1>2 DEF TypeOK, PlainTypes

\* Chunks of one stream that drop their buffers and are gone.
LEMMA GoneEffect ==
    ASSUME TypeOK, PoolInv, LineInv, kind' = kind, buf' = buf, NEW s \in Streams,
           NEW C, C \subseteq Cs(s), \A c \in C : st[s][c] \in HeldStatuses,
           st' = Set(s, C, "gone"), PutBack(s, C)
    PROVE  /\ queue' \in Seq(Buffers) /\ PoolInv' /\ Chunked(kind, st', Statuses)
           /\ \A t \in Streams : t # s => st'[t] = st[t]
           /\ \A d \in Cs(s) : st'[s][d] = IF d \in C THEN "gone" ELSE st[s][d]
           /\ \A t \in Streams : \A d \in Cs(t) : st[t][d] = "waiting" => st'[t][d] = "waiting"
<1>1. /\ Chunked(kind, st', Statuses)
      /\ \A t \in Streams : t # s => st'[t] = st[t]
      /\ \A d \in Cs(s) : st'[s][d] = IF d \in C THEN "gone" ELSE st[s][d]
  <2>1. st' = [st EXCEPT ![s] = [c \in Cs(s) |-> IF c \in C THEN "gone" ELSE st[s][c]]]
    BY DEF Set
  <2>2. Chunked(kind, st, Statuses)
    BY DEF TypeOK, ChunkTypes
  <2>3. \A t \in Streams : t # s => st'[t] = st[t]
    BY <2>1, <2>2 DEF Chunked
  <2>4. st'[s] = [c \in Cs(s) |-> IF c \in C THEN "gone" ELSE st[s][c]]
    BY <2>1, <2>2 DEF Chunked
  <2>5. st'[s] \in [Cs(s) -> Statuses]
    BY <2>2, <2>4, Names, ZenonT(60) DEF Chunked, Cs
  <2>6. Chunked(kind, st', Statuses)
    BY <2>1, <2>2, <2>3, <2>5 DEF Chunked, Cs
  <2> QED BY <2>3, <2>4, <2>6
<1>2. queue' \in Seq(Buffers) /\ PoolInv'
  <2>1. C \cup {} = C /\ "gone" \in Statuses /\ "gone" \notin HeldStatuses
    BY DEF HeldStatuses, Statuses
  <2>2. st' = Set(s, C \cup {}, "gone")
    BY <2>1
  <2> QED BY <2>1, <2>2, PoolDrop
<1>3. \A d \in Cs(s) : st[s][d] = "waiting" => d \notin C
  BY DEF HeldStatuses
<1> QED BY <1>1, <1>2, <1>3

\* Consume drops the buffer of the first frame.
LEMMA ConsumePool ==
    ASSUME TypeOK, PoolInv, LineInv, TaskInv, NEW s \in Streams, Consume(s)
    PROVE  TypeOK' /\ PoolInv' /\ LineInv'
<1> DEFINE c == First(With(s, {"framed"}))
<1>1. c \in Cs(s) /\ st[s][c] = "framed"
  BY FirstMin, WithMember DEF Consume
<1>2. /\ st' = Set(s, {c}, "gone") /\ PutBack(s, {c})
      /\ got' = [got EXCEPT ![s] = Append(@, content[buf[s][c]])]
      /\ UNCHANGED <<kind, pc, buf, content, waiters, pending, closed, err, result, ringAt, ring, left,
                     disk, answer, faults, short, late>>
  BY DEF Consume, sessVars
<1> HIDE DEF c
<1>3. {c} \subseteq Cs(s) /\ \A d \in {c} : st[s][d] \in HeldStatuses
  BY <1>1 DEF HeldStatuses
<1>4. /\ queue' \in Seq(Buffers) /\ PoolInv' /\ Chunked(kind, st', Statuses)
      /\ \A t \in Streams : \A d \in Cs(t) : st[t][d] = "waiting" => st'[t][d] = "waiting"
  BY <1>2, <1>3, GoneEffect
<1>5. LineInv'
  BY <1>2, <1>4, LineSame
<1>6. got' \in [Streams -> Seq(Tags)]
  <2>1. content[buf[s][c]] \in Tags
    BY <1>1, <1>3, ContentType
  <2>2. Append(got[s], content[buf[s][c]]) \in Seq(Tags)
    BY <2>1 DEF TypeOK, PlainTypes
  <2> QED BY <1>2, <2>2 DEF TypeOK, PlainTypes
<1>7. ChunkTypes'
  BY <1>2, <1>4 DEF TypeOK, ChunkTypes
<1>8. PlainTypes'
  BY <1>2, <1>4, <1>6, SameChunks DEF TypeOK, PlainTypes
<1> QED BY <1>4, <1>5, <1>7, <1>8 DEF TypeOK

\* Disconnect drops the frames of a download, or the whole handler.
LEMMA DisconnectPool ==
    ASSUME TypeOK, PoolInv, LineInv, TaskInv, NEW s \in Streams, Disconnect(s)
    PROVE  TypeOK' /\ PoolInv' /\ LineInv'
<1>1. /\ UNCHANGED <<kind, buf, content, pending, err, result, ringAt, ring, got, disk, short, late>>
      /\ faults' \in Nat
  BY DEF Disconnect, Fault, TypeOK, PlainTypes
<1>2. CASE Return(s, "error") /\ left' = left
  <2>1. /\ queue' \in Seq(Buffers) /\ PoolInv'
        /\ waiters' \in Seq(Streams \X Nat) /\ LineInv'
        /\ Chunked(kind, st', Statuses)
        /\ pc' = [pc EXCEPT ![s] = "done"] /\ answer' = [answer EXCEPT ![s] = "error"]
        /\ closed' = [closed EXCEPT ![s] = TRUE]
    BY <1>1, <1>2, ReturnEffect
  <2>2. ChunkTypes'
    BY <1>1, <2>1 DEF TypeOK, ChunkTypes
  <2>3. PlainTypes'
    BY <1>1, <1>2, <2>1, Names, SameChunks DEF TypeOK, PlainTypes
  <2> QED BY <2>1, <2>2, <2>3 DEF TypeOK
<1>3. CASE /\ left' = [left EXCEPT ![s] = TRUE]
           /\ st' = Set(s, With(s, {"framed"}), "gone") /\ PutBack(s, With(s, {"framed"}))
           /\ UNCHANGED <<kind, pc, waiters, closed, answer>>
  <2> DEFINE C == With(s, {"framed"})
  <2>1. C \subseteq Cs(s) /\ \A d \in C : st[s][d] \in HeldStatuses
    BY WithMember DEF HeldStatuses
  <2>2. st' = Set(s, C, "gone") /\ PutBack(s, C)
    BY <1>3
  <2> HIDE DEF C
  <2>3. /\ queue' \in Seq(Buffers) /\ PoolInv' /\ Chunked(kind, st', Statuses)
        /\ \A t \in Streams : \A d \in Cs(t) : st[t][d] = "waiting" => st'[t][d] = "waiting"
    BY <1>1, <2>1, <2>2, GoneEffect
  <2>4. LineInv'
    BY <1>1, <1>3, <2>3, LineSame
  <2>5. ChunkTypes'
    BY <1>1, <2>3 DEF TypeOK, ChunkTypes
  <2>6. PlainTypes'
    BY <1>1, <1>3, <2>3, SameChunks DEF TypeOK, PlainTypes
  <2> QED BY <2>3, <2>4, <2>5, <2>6 DEF TypeOK
<1> QED BY <1>2, <1>3 DEF Disconnect

\* OnComplete drops the buffer of the write.
LEMMA OnCompletePool ==
    ASSUME TypeOK, PoolInv, LineInv, TaskInv, OnComplete
    PROVE  TypeOK' /\ PoolInv' /\ LineInv'
<1> DEFINE s == ringAt[1]
           c == ringAt[2]
<1>1. ringAt # NoOp /\ s \in Streams /\ c \in Cs(s) /\ st[s][c] = "completed"
  BY DEF OnComplete, TaskInv, RingAtOK, TypeOK, PlainTypes, Pairs
<1>2. /\ st' = Set(s, {c}, "gone") /\ PutBack(s, {c}) /\ ringAt' = NoOp
      /\ \/ result' = result
         \/ result' = [result EXCEPT ![s] = "error"] \/ result' = [result EXCEPT ![s] = "ok"]
      /\ UNCHANGED <<kind, pc, buf, content, waiters, pending, closed, err, ring, left, got, disk,
                     answer, faults, short, late>>
  BY DEF OnComplete, TryFinish
<1> HIDE DEF s, c
<1>3. {c} \subseteq Cs(s) /\ \A d \in {c} : st[s][d] \in HeldStatuses
  BY <1>1 DEF HeldStatuses
<1>4. /\ queue' \in Seq(Buffers) /\ PoolInv' /\ Chunked(kind, st', Statuses)
      /\ \A t \in Streams : \A d \in Cs(t) : st[t][d] = "waiting" => st'[t][d] = "waiting"
  BY <1>1, <1>2, <1>3, GoneEffect
<1>5. LineInv'
  BY <1>2, <1>4, LineSame
<1>6. result' \in [Streams -> {"none", "ok", "error"}]
  BY <1>1, <1>2 DEF TypeOK, PlainTypes
<1>7. ChunkTypes'
  BY <1>2, <1>4 DEF TypeOK, ChunkTypes
<1>8. PlainTypes'
  BY <1>2, <1>4, <1>6, SameChunks DEF TypeOK, PlainTypes
<1> QED BY <1>4, <1>5, <1>7, <1>8 DEF TypeOK

\* WriteLands and WriteFails: the ring keeps the buffer until OnComplete.
LEMMA WritePool ==
    ASSUME TypeOK, PoolInv, LineInv, TaskInv, NEW s \in Streams, NEW c \in Cs(s),
           WriteLands(s, c) \/ WriteFails(s, c)
    PROVE  TypeOK' /\ PoolInv' /\ LineInv'
<1>1. /\ st[s][c] = "writing" /\ st' = Set(s, {c}, "completed") /\ ringAt' = <<s, c>>
      /\ pending' = [pending EXCEPT ![s] = @ - 1]
      /\ UNCHANGED <<kind, pc, buf, content, queue, waiters, closed, result, ring, left, got, answer,
                     short, late>>
  BY DEF WriteLands, WriteFails, WriteCompletes, poolVars
<1>2. /\ disk' = disk \/ disk' = [disk EXCEPT ![s][c] = content[buf[s][c]]]
      /\ err' = err \/ err' = [err EXCEPT ![s] = TRUE]
      /\ faults' \in Nat
  BY DEF WriteLands, WriteFails, Fault, TypeOK, PlainTypes
<1>3. /\ Chunked(kind, st', Statuses)
      /\ \A t \in Streams : t # s => st'[t] = st[t]
      /\ \A d \in Cs(s) : st'[s][d] = IF d = c THEN "completed" ELSE st[s][d]
  <2>1. st' = Set(s, {c}, "completed") /\ kind' = kind
    BY <1>1
  <2> QED BY <2>1, Names DEF Set, TypeOK, ChunkTypes, Chunked, Cs
<1>4. \A t \in Streams : \A d \in Cs(t) : /\ st'[t][d] \in HeldStatuses <=> st[t][d] \in HeldStatuses
                                          /\ st[t][d] = "waiting" => st'[t][d] = "waiting"
  BY <1>1, <1>3 DEF HeldStatuses
<1>5. PoolInv'
  BY <1>1, <1>4, PoolSame
<1>6. LineInv'
  BY <1>1, <1>4, LineSame
<1>7. ChunkTypes'
  <2>1. content[buf[s][c]] \in Tags
    <3>1. st[s][c] \in HeldStatuses
      BY <1>1 DEF HeldStatuses
    <3> QED BY <3>1, ContentType
  <2>2. Chunked(kind, disk', Tags)
    <3>1. Chunked(kind, disk, Tags)
      BY DEF TypeOK, ChunkTypes
    <3>2. CASE disk' = disk
      BY <3>1, <3>2
    <3>3. CASE disk' = [disk EXCEPT ![s][c] = content[buf[s][c]]]
      BY <3>1, <3>3, <2>1 DEF Chunked, Cs
    <3> QED BY <3>2, <3>3, <1>2
  <2> QED BY <1>1, <1>3, <2>2 DEF TypeOK, ChunkTypes
<1>8. PlainTypes'
  <2>1. pending' \in [Streams -> Int]
    BY <1>1 DEF TypeOK, PlainTypes
  <2>2. err' \in [Streams -> BOOLEAN]
    BY <1>2 DEF TypeOK, PlainTypes
  <2>3. ringAt' \in {NoOp} \cup Pairs'
    BY <1>1, HeldMember, SameChunks
  <2> QED BY <1>1, <1>2, <2>1, <2>2, <2>3 DEF TypeOK, PlainTypes
<1> QED BY <1>5, <1>6, <1>7, <1>8 DEF TypeOK

\* A read gives the buffer to the task, or drops it when there is none.
LEMMA ReadCompletesPool ==
    ASSUME TypeOK, PoolInv, LineInv, TaskInv, NEW s \in Streams, NEW c \in Cs(s), ReadCompletes(s, c),
           faults' \in Nat, short' \in [Streams -> SUBSET Nat]
    PROVE  TypeOK' /\ PoolInv' /\ LineInv'
<1>1. /\ st[s][c] = "reading" /\ content' = [content EXCEPT ![buf[s][c]] = <<s, c>>]
      /\ \/ st' = Set(s, {c}, "gone") /\ PutBack(s, {c})
         \/ st' = Set(s, {c}, "read") /\ queue' = queue
      /\ UNCHANGED <<kind, pc, buf, waiters, pending, closed, err, result, ringAt, ring, left, got, disk,
                     answer, late>>
  BY DEF ReadCompletes, sessVars
<1>2. {c} \subseteq Cs(s) /\ \A d \in {c} : st[s][d] \in HeldStatuses
  BY <1>1 DEF HeldStatuses
<1>3. /\ queue' \in Seq(Buffers) /\ PoolInv' /\ Chunked(kind, st', Statuses)
      /\ \A t \in Streams : \A d \in Cs(t) : st[t][d] = "waiting" => st'[t][d] = "waiting"
  <2>1. CASE st' = Set(s, {c}, "gone") /\ PutBack(s, {c})
    BY <1>1, <1>2, <2>1, GoneEffect
  <2>2. CASE st' = Set(s, {c}, "read") /\ queue' = queue
    <3>1. /\ Chunked(kind, st', Statuses)
          /\ \A t \in Streams : t # s => st'[t] = st[t]
          /\ \A d \in Cs(s) : st'[s][d] = IF d = c THEN "read" ELSE st[s][d]
      BY <2>2, Names DEF Set, TypeOK, ChunkTypes, Chunked, Cs
    <3>2. \A t \in Streams : \A d \in Cs(t) : /\ st'[t][d] \in HeldStatuses <=> st[t][d] \in HeldStatuses
                                              /\ st[t][d] = "waiting" => st'[t][d] = "waiting"
      BY <1>1, <3>1 DEF HeldStatuses
    <3>3. PoolInv'
      BY <1>1, <2>2, <3>2, PoolSame
    <3> QED BY <2>2, <3>1, <3>2, <3>3 DEF TypeOK, PlainTypes
  <2> QED BY <1>1, <2>1, <2>2
<1>4. LineInv'
  BY <1>1, <1>3, LineSame
<1>5. content' \in [Buffers -> Tags]
  <2>1. <<s, c>> \in Tags
    BY ChunkNumbers DEF Tags
  <2> QED BY <1>1, <2>1 DEF TypeOK, PlainTypes
<1>6. ChunkTypes'
  BY <1>1, <1>3 DEF TypeOK, ChunkTypes
<1>7. PlainTypes'
  BY <1>1, <1>3, <1>5, SameChunks DEF TypeOK, PlainTypes
<1> QED BY <1>3, <1>4, <1>6, <1>7 DEF TypeOK

\* A read that fails or finds nothing drops the buffer.
LEMMA ReadEndsPool ==
    ASSUME TypeOK, PoolInv, LineInv, TaskInv, NEW s \in Streams, NEW c \in Cs(s), ReadEnds(s, c),
           err' \in [Streams -> BOOLEAN], short' \in [Streams -> SUBSET Nat]
    PROVE  TypeOK' /\ PoolInv' /\ LineInv'
<1>1. /\ st[s][c] = "reading" /\ PutBack(s, {c}) /\ faults' \in Nat
      /\ UNCHANGED <<kind, pc, buf, content, waiters, pending, closed, result, ringAt, ring, left,
                     got, disk, answer, late>>
  BY DEF ReadEnds, Fault, TypeOK, PlainTypes
<1>2. PICK v \in {"gone", "failed"} : st' = Set(s, {c}, v)
  BY DEF ReadEnds, Dead
<1>3. v \in Statuses /\ v \notin HeldStatuses
  BY DEF Statuses, HeldStatuses
<1>4. queue' \in Seq(Buffers) /\ PoolInv'
  <2>1. {c} \subseteq Cs(s) /\ \A d \in {c} : st[s][d] \in HeldStatuses
    BY <1>1 DEF HeldStatuses
  <2>2. {c} \cup {} = {c}
    OBVIOUS
  <2>3. st' = Set(s, {c} \cup {}, v)
    BY <1>2, <2>2
  <2> QED BY <1>1, <1>3, <2>1, <2>3, PoolDrop
<1>5. /\ Chunked(kind, st', Statuses)
      /\ \A t \in Streams : t # s => st'[t] = st[t]
      /\ \A d \in Cs(s) : st'[s][d] = IF d = c THEN v ELSE st[s][d]
  BY <1>2, <1>3 DEF Set, TypeOK, ChunkTypes, Chunked, Cs
<1>6. LineInv'
  <2>1. \A t \in Streams : \A d \in Cs(t) : st[t][d] = "waiting" => st'[t][d] = "waiting"
    BY <1>1, <1>5
  <2> QED BY <1>1, <2>1, LineSame
<1>7. ChunkTypes'
  BY <1>1, <1>5 DEF TypeOK, ChunkTypes
<1>8. PlainTypes'
  BY <1>1, <1>4, SameChunks DEF TypeOK, PlainTypes
<1> QED BY <1>4, <1>6, <1>7, <1>8 DEF TypeOK

\* DropFlying drops the buffers of all operations that the ring has.
LEMMA DropFlyingEffect ==
    ASSUME TypeOK, PoolInv, LineInv, kind' = kind, buf' = buf, DropFlying
    PROVE  /\ queue' \in Seq(Buffers) /\ PoolInv' /\ Chunked(kind, st', Statuses)
           /\ \A t \in Streams : \A d \in Cs(t) :
                st'[t][d] = IF st[t][d] \in {"reading", "writing"}
                              THEN IF st[t][d] = "reading" /\ pc[t] # "done" THEN "failed" ELSE "gone"
                              ELSE st[t][d]
<1> DEFINE D == {p \in Pairs : st[p[1]][p[2]] \in {"reading", "writing"}}
           B == UNION {{buf[s][c] : c \in Flying(s)} : s \in Streams}
<1>1. B = {buf[p[1]][p[2]] : p \in D}
  <2>1. \A s \in Streams : \A c \in Flying(s) : <<s, c>> \in D
    BY HeldMember, WithMember DEF Flying
  <2>2. \A p \in D : p[1] \in Streams /\ p[2] \in Flying(p[1])
    BY WithMember DEF Flying, Pairs
  <2> HIDE DEF D
  <2>3. B \subseteq {buf[p[1]][p[2]] : p \in D}
    <3> SUFFICES ASSUME NEW s \in Streams, NEW c \in Flying(s)
                 PROVE  buf[s][c] \in {buf[p[1]][p[2]] : p \in D}
      OBVIOUS
    <3>1. <<s, c>> \in D /\ <<s, c>>[1] = s /\ <<s, c>>[2] = c
      BY <2>1
    <3> QED BY <3>1
  <2>4. {buf[p[1]][p[2]] : p \in D} \subseteq B
    BY <2>2
  <2> QED BY <2>3, <2>4
<1>2. PICK o \in Orders(B) : queue' = queue \o o
  BY DEF DropFlying
<1>3. st' = [s \in Streams |-> [c \in Cs(s) |-> IF c \in Flying(s) THEN Dead(s, c) ELSE st[s][c]]]
  BY DEF DropFlying
<1>4. \A t \in Streams : \A d \in Cs(t) :
        st'[t][d] = IF st[t][d] \in {"reading", "writing"}
                      THEN IF st[t][d] = "reading" /\ pc[t] # "done" THEN "failed" ELSE "gone"
                      ELSE st[t][d]
  BY <1>3, WithMember DEF Flying, Dead
<1>5. Chunked(kind, st', Statuses)
  <2>1. \A t \in Streams : \A d \in Cs(t) : st[t][d] \in Statuses
    BY DEF TypeOK, ChunkTypes, Chunked, Cs
  <2>2. \A t \in Streams : \A d \in Cs(t) : st'[t][d] \in Statuses
    BY <1>4, <2>1, Names
  <2>3. \A t \in Streams : DOMAIN st'[t] = Cs(t) /\ st'[t] = [c \in Cs(t) |-> st'[t][c]]
    BY <1>3
  <2>4. \A t \in Streams : st'[t] \in [Cs(t) -> Statuses]
    BY <2>2, <2>3
  <2>5. st' = [t \in Streams |-> st'[t]]
    BY <1>3
  <2> QED BY <2>4, <2>5 DEF Chunked, Cs
<1>6. queue' \in Seq(Buffers) /\ PoolOK(HeldPairs \ D, buf, queue')
  <2>1. D \subseteq HeldPairs
    BY DEF HeldPairs, HeldStatuses
  <2>2. queue \in Seq(Buffers) /\ PoolOK(HeldPairs, buf, queue)
    BY DEF TypeOK, PlainTypes, PoolInv
  <2>3. o \in Orders({buf[p[1]][p[2]] : p \in D})
    BY <1>1, <1>2
  <2> HIDE DEF D, B
  <2>4. queue \o o \in Seq(Buffers) /\ PoolOK(HeldPairs \ D, buf, queue \o o)
    BY <2>1, <2>2, <2>3, PoolBack
  <2> QED BY <1>2, <2>4
<1>7. HeldPairs' = HeldPairs \ D
  <2>1. Pairs' = Pairs
    BY SameChunks
  <2>2. \A p \in Pairs : st'[p[1]][p[2]] \in HeldStatuses
           <=> st[p[1]][p[2]] \in HeldStatuses /\ st[p[1]][p[2]] \notin {"reading", "writing"}
    <3> TAKE p \in Pairs
    <3>1. p[1] \in Streams /\ p[2] \in Cs(p[1])
      BY DEF Pairs
    <3>2. st'[p[1]][p[2]] = IF st[p[1]][p[2]] \in {"reading", "writing"}
                      THEN IF st[p[1]][p[2]] = "reading" /\ pc[p[1]] # "done" THEN "failed" ELSE "gone"
                      ELSE st[p[1]][p[2]]
      BY <3>1, <1>4
    <3> QED BY <3>2 DEF HeldStatuses
  <2> QED BY <2>1, <2>2 DEF HeldPairs
<1>8. PoolInv'
  BY <1>6, <1>7 DEF PoolInv
<1> QED BY <1>4, <1>5, <1>6, <1>8

\* RingFails and RingGone drop what the ring has.
LEMMA RingPool ==
    ASSUME TypeOK, PoolInv, LineInv, TaskInv, RingFails \/ RingGone
    PROVE  TypeOK' /\ PoolInv' /\ LineInv'
<1>1. /\ DropFlying /\ ring' \in {"failing", "down"}
      /\ UNCHANGED <<kind, pc, buf, content, waiters, closed, ringAt, left, got, disk, answer, faults, short>>
  BY DEF RingFails, RingGone, sessVars
<1>7. late' \subseteq Buffers
  <2>1. CASE RingGone
    BY <2>1 DEF RingGone, TypeOK, PlainTypes
  <2>2. CASE RingFails
    <3>1. late' = UNION {{buf[s][c] : c \in With(s, {"reading"})} : s \in Streams}
      BY <2>2 DEF RingFails
    <3>2. \A s \in Streams : \A c \in With(s, {"reading"}) : buf[s][c] \in Buffers
      <4> SUFFICES ASSUME NEW s \in Streams, NEW c \in With(s, {"reading"}) PROVE buf[s][c] \in Buffers
        OBVIOUS
      <4>1. c \in Cs(s) /\ st[s][c] \in HeldStatuses
        BY WithMember DEF HeldStatuses
      <4> QED BY <4>1, ContentType
    <3> QED BY <3>1, <3>2
  <2> QED BY <2>1, <2>2
<1>2. /\ queue' \in Seq(Buffers) /\ PoolInv' /\ Chunked(kind, st', Statuses)
      /\ \A t \in Streams : \A d \in Cs(t) :
                st'[t][d] = IF st[t][d] \in {"reading", "writing"}
                              THEN IF st[t][d] = "reading" /\ pc[t] # "done" THEN "failed" ELSE "gone"
                              ELSE st[t][d]
  BY <1>1, DropFlyingEffect
<1>3. LineInv'
  <2>1. \A t \in Streams : \A d \in Cs(t) : st[t][d] = "waiting" => st'[t][d] = "waiting"
    BY <1>2
  <2> QED BY <1>1, <2>1, LineSame
<1>4. /\ pending' \in [Streams -> Int] /\ err' \in [Streams -> BOOLEAN]
      /\ result' \in [Streams -> {"none", "ok", "error"}]
  <2>1. CASE RingGone
    BY <2>1 DEF RingGone, sessVars, TypeOK, PlainTypes
  <2>2. CASE RingFails
    <3>1. /\ pending' = [s \in Streams |-> 0]
          /\ err' = [s \in Streams |-> err[s] \/ Flying(s) # {}]
          /\ result' = [s \in Streams |-> IF closed[s] /\ pending[s] > 0 THEN "error" ELSE result[s]]
          /\ err \in [Streams -> BOOLEAN] /\ result \in [Streams -> {"none", "ok", "error"}]
      BY <2>2 DEF RingFails, TypeOK, PlainTypes
    <3>2. \A s \in Streams : (err[s] \/ Flying(s) # {}) \in BOOLEAN
      OBVIOUS
    <3>3. pending' \in [Streams -> Int]
      BY <3>1
    <3>4. err' \in [Streams -> BOOLEAN]
      BY <3>1, <3>2
    <3>5. result' \in [Streams -> {"none", "ok", "error"}]
      BY <3>1
    <3> QED BY <3>3, <3>4, <3>5
  <2> QED BY <2>1, <2>2
<1>5. ChunkTypes'
  BY <1>1, <1>2 DEF TypeOK, ChunkTypes
<1>6. PlainTypes'
  BY <1>1, <1>2, <1>4, <1>7, SameChunks DEF TypeOK, PlainTypes
<1> QED BY <1>2, <1>3, <1>5, <1>6 DEF TypeOK

\* A late read changes what is in a buffer and nothing else.
LEMMA LateReadPool ==
    ASSUME TypeOK, PoolInv, LineInv, TaskInv, NEW b, LateRead(b)
    PROVE  TypeOK' /\ PoolInv' /\ LineInv'
<1>1. /\ UNCHANGED <<kind, pc, st, buf, queue, waiters, pending, closed, err, result, ringAt, ring, left,
                     got, disk, answer, faults, short>>
      /\ content' = [content EXCEPT ![b] = Blank] /\ late' \subseteq late
  BY DEF LateRead, poolVars, sessVars
<1>2. content' \in [Buffers -> Tags]
  <2>1. Blank \in Tags
    BY DEF Tags
  <2> QED BY <1>1, <2>1 DEF TypeOK, PlainTypes
<1>3. late' \subseteq Buffers
  BY <1>1 DEF TypeOK, PlainTypes
<1>4. ChunkTypes' /\ PlainTypes'
  BY <1>1, <1>2, <1>3, SameChunks DEF TypeOK, ChunkTypes, PlainTypes
<1>5. PoolInv' /\ LineInv'
  BY <1>1, PoolSame, LineSame
<1> QED BY <1>4, <1>5 DEF TypeOK

\* Grant gives the first buffer to the first in line.
LEMMA GrantPool ==
    ASSUME TypeOK, PoolInv, LineInv, TaskInv, Grant
    PROVE  TypeOK' /\ PoolInv' /\ LineInv'
<1> DEFINE s == Head(waiters)[1]
           c == Head(waiters)[2]
           b == Head(queue)
<1>1. /\ waiters # << >> /\ queue # << >> /\ st' = Set(s, {c}, "held")
      /\ buf' = [buf EXCEPT ![s][c] = b] /\ queue' = Tail(queue) /\ waiters' = Tail(waiters)
      /\ UNCHANGED <<kind, content, pending, closed, err, result, ringAt, ring, left, got, disk, answer,
                     faults, short, late>>
  BY DEF Grant, sessVars
<1>2. \E l \in {"plan", "recv", "await", pc[s]} :
         pc' = [pc EXCEPT ![s] = l] /\ (pc[s] # "acquire" => l = pc[s])
  BY DEF Grant
<1>3. /\ Len(waiters) \in Nat \ {0} /\ Head(waiters) = waiters[1] /\ waiters' \in Seq(Streams \X Nat)
      /\ Len(waiters') = Len(waiters) - 1 /\ \A i \in 1..Len(waiters') : waiters'[i] = waiters[i + 1]
  BY <1>1 DEF TypeOK, PlainTypes
<1>4. /\ Len(queue) \in Nat \ {0} /\ b = queue[1] /\ b \in Buffers /\ queue' \in Seq(Buffers)
      /\ Len(queue') = Len(queue) - 1 /\ \A i \in 1..Len(queue') : queue'[i] = queue[i + 1]
  BY <1>1 DEF TypeOK, PlainTypes
<1>5. /\ waiters[1] \in Pairs /\ waiters[1] = <<s, c>> /\ s \in Streams /\ c \in Cs(s)
      /\ st[s][c] = "waiting"
      /\ pc[s] = "acquire" \/ (kind[s] = "copy" /\ pc[s] # "done")
  <2>1. 1 \in 1..Len(waiters)
    BY <1>3
  <2> QED BY <1>3, <2>1 DEF LineInv, Pairs
<1> HIDE DEF s, c, b
<1>6. /\ Chunked(kind, st', Statuses)
      /\ \A t \in Streams : t # s => st'[t] = st[t]
      /\ \A d \in Cs(s) : st'[s][d] = IF d = c THEN "held" ELSE st[s][d]
  <2>1. st' = Set(s, {c}, "held") /\ kind' = kind
    BY <1>1
  <2> QED BY <1>5, <2>1, Names DEF Set, TypeOK, ChunkTypes, Chunked, Cs
<1>7. /\ Chunked(kind, buf', 0..PoolSize)
      /\ \A t \in Streams : t # s => buf'[t] = buf[t]
      /\ \A d \in Cs(s) : buf'[s][d] = IF d = c THEN b ELSE buf[s][d]
  <2>1. b \in 0..PoolSize
    BY <1>4, BoundAssumption DEF Buffers
  <2>2. Chunked(kind, buf, 0..PoolSize) /\ buf' = [buf EXCEPT ![s][c] = b]
    BY <1>1 DEF TypeOK, ChunkTypes
  <2> QED BY <1>5, <2>1, <2>2 DEF Chunked, Cs
<1>8. PoolInv'
  <2>1. HeldPairs' = HeldPairs \cup {<<s, c>>} /\ <<s, c>> \notin HeldPairs /\ Pairs' = Pairs
    <3>1. \A p \in Pairs : p = <<p[1], p[2]>> /\ p[1] \in Streams /\ p[2] \in Cs(p[1])
      BY DEF Pairs
    <3>2. \A p \in Pairs : st'[p[1]][p[2]] \in HeldStatuses <=>
                             st[p[1]][p[2]] \in HeldStatuses \/ p = <<s, c>>
      BY <1>5, <1>6, <3>1 DEF HeldStatuses
    <3>3. <<s, c>> \notin HeldPairs
      <4>1. "waiting" \notin HeldStatuses
        BY DEF HeldStatuses
      <4> QED BY <1>5, <4>1, HeldMember
    <3>4. Pairs' = Pairs
      BY <1>1, SameChunks
    <3> QED BY <1>5, <3>2, <3>3, <3>4 DEF HeldPairs
  <2>2. \A p \in HeldPairs : p \in Pairs /\ buf'[p[1]][p[2]] = buf[p[1]][p[2]]
    <3> TAKE p \in HeldPairs
    <3>1. p = <<p[1], p[2]>> /\ p[1] \in Streams /\ p[2] \in Cs(p[1]) /\ p \in Pairs /\ p # <<s, c>>
      BY <2>1 DEF HeldPairs, Pairs
    <3> QED BY <3>1, <1>7
  <2>3. buf'[s][c] = b
    BY <1>5, <1>7
  <2>4. /\ \A i, j \in 1..Len(queue) : queue[i] = queue[j] => i = j
        /\ \A p \in HeldPairs : /\ buf[p[1]][p[2]] \in Buffers
                                /\ \A i \in 1..Len(queue) : queue[i] # buf[p[1]][p[2]]
        /\ \A p, r \in HeldPairs : buf[p[1]][p[2]] = buf[r[1]][r[2]] => p = r
        /\ \A x \in Buffers : (\E i \in 1..Len(queue) : queue[i] = x)
                                \/ (\E p \in HeldPairs : buf[p[1]][p[2]] = x)
    BY DEF PoolInv, PoolOK
  <2>5. \A i, j \in 1..Len(queue') : queue'[i] = queue'[j] => i = j
    BY <1>4, <2>4
  <2>6. \A i \in 1..Len(queue') : queue'[i] # b
    BY <1>4, <2>4
  <2>7. \A p \in HeldPairs : \A i \in 1..Len(queue') : queue'[i] # buf[p[1]][p[2]]
    BY <1>4, <2>4
  <2>8. \A p \in HeldPairs : buf[p[1]][p[2]] # b
    BY <1>4, <2>4
  <2>9. \A x \in Buffers : x = b \/ (\E i \in 1..Len(queue') : queue'[i] = x)
                                 \/ (\E p \in HeldPairs : buf[p[1]][p[2]] = x)
    <3> TAKE x \in Buffers
    <3>1. CASE \E i \in 1..Len(queue) : queue[i] = x
      <4>1. PICK i \in 1..Len(queue) : queue[i] = x
        BY <3>1
      <4>2. CASE i = 1
        BY <4>1, <4>2, <1>4
      <4>3. CASE i # 1
        <5>1. i - 1 \in 1..Len(queue') /\ queue'[i - 1] = x
          BY <4>1, <4>3, <1>4
        <5> QED BY <5>1
      <4> QED BY <4>2, <4>3
    <3> QED BY <3>1, <2>4
  <2>10. \A p \in HeldPairs' : /\ buf'[p[1]][p[2]] \in Buffers
                               /\ \A i \in 1..Len(queue') : queue'[i] # buf'[p[1]][p[2]]
    BY <1>4, <2>1, <2>2, <2>3, <2>4, <2>6, <2>7, SMTT(60)
  <2>11. \A p, r \in HeldPairs' : buf'[p[1]][p[2]] = buf'[r[1]][r[2]] => p = r
    BY <2>1, <2>2, <2>3, <2>4, <2>8
  <2>12. \A x \in Buffers : (\E i \in 1..Len(queue') : queue'[i] = x)
                                \/ (\E p \in HeldPairs' : buf'[p[1]][p[2]] = x)
    <3> TAKE x \in Buffers
    <3>1. CASE x = b
      <4>1. <<s, c>> \in HeldPairs' /\ <<s, c>>[1] = s /\ <<s, c>>[2] = c
        BY <2>1
      <4> QED BY <3>1, <4>1, <2>3
    <3>2. CASE \E p \in HeldPairs : buf[p[1]][p[2]] = x
      BY <3>2, <2>1, <2>2
    <3> QED BY <3>1, <3>2, <2>9
  <2> QED BY <2>5, <2>10, <2>11, <2>12 DEF PoolInv, PoolOK
<1>9. LineInv'
  <2>1. \A i, j \in 1..Len(waiters) : waiters[i] = waiters[j] => i = j
    BY DEF LineInv
  <2>2. \A i, j \in 1..Len(waiters') : waiters'[i] = waiters'[j] => i = j
    BY <2>1, <1>3, SMTT(60)
  <2>3. ASSUME NEW i \in 1..Len(waiters')
        PROVE  /\ waiters'[i] \in Pairs' /\ st'[waiters'[i][1]][waiters'[i][2]] = "waiting"
               /\ \/ pc'[waiters'[i][1]] = "acquire"
                  \/ kind'[waiters'[i][1]] = "copy" /\ pc'[waiters'[i][1]] # "done"
    <3> DEFINE w == waiters[i + 1]
    <3>1. i + 1 \in 1..Len(waiters) /\ 1 \in 1..Len(waiters) /\ i + 1 # 1 /\ waiters'[i] = w
      <4>1. i + 1 \in 1..Len(waiters) /\ 1 \in 1..Len(waiters) /\ i + 1 # 1
        BY <1>3
      <4>2. waiters'[i] = waiters[i + 1]
        BY <1>3
      <4> QED BY <4>1, <4>2
    <3>6. w # <<s, c>>
      BY <2>1, <3>1, <1>5
    <3>2. /\ w \in Pairs /\ w # <<s, c>> /\ st[w[1]][w[2]] = "waiting"
          /\ pc[w[1]] = "acquire" \/ (kind[w[1]] = "copy" /\ pc[w[1]] # "done")
      BY <3>1, <3>6 DEF LineInv
    <3> HIDE DEF w
    <3>3. w = <<w[1], w[2]>> /\ w[1] \in Streams /\ w[2] \in Cs(w[1])
      BY <3>2 DEF Pairs
    <3>4. st'[w[1]][w[2]] = "waiting"
      BY <1>6, <3>2, <3>3
    <3>5. pc'[w[1]] = "acquire" \/ (kind'[w[1]] = "copy" /\ pc'[w[1]] # "done")
      <4>1. PICK l : pc' = [pc EXCEPT ![s] = l] /\ (pc[s] # "acquire" => l = pc[s])
        BY <1>2
      <4>2. CASE w[1] # s
        BY <4>1, <4>2, <3>2, <3>3, <1>1 DEF TypeOK, PlainTypes
      <4>3. CASE w[1] = s /\ pc[s] # "acquire"
        BY <4>1, <4>3, <3>2, <3>3, <1>1 DEF TypeOK, PlainTypes
      <4>4. CASE w[1] = s /\ pc[s] = "acquire"
        \* Only a copy waits for several chunks, and never so.
        <5>1. waiters[i + 1][1] = waiters[1][1]
          BY <4>4, <1>5 DEF w
        <5>2. kind[s] = "copy"
          BY <5>1, <3>1, <4>4 DEF LineInv, w
        <5>3. TaskOK(kind[s], pc[s], st[s])
          BY <1>5 DEF TaskInv
        <5> QED BY <5>2, <5>3, <4>4 DEF TaskOK
      <4> QED BY <4>2, <4>3, <4>4
    <3> QED BY <3>1, <3>2, <3>4, <3>5, <1>1, SameChunks
  <2>4. \A i, j \in 1..Len(waiters') :
          waiters'[i][1] = waiters'[j][1] => i = j \/ kind'[waiters'[i][1]] = "copy"
    <3>1. \A i, j \in 1..Len(waiters) :
            waiters[i][1] = waiters[j][1] => i = j \/ kind[waiters[i][1]] = "copy"
      BY DEF LineInv
    <3>2. \A i \in 1..Len(waiters') : i + 1 \in 1..Len(waiters) /\ waiters'[i] = waiters[i + 1]
      BY <1>3
    <3>3. kind' = kind
      BY <1>1
    <3> SUFFICES ASSUME NEW i \in 1..Len(waiters'), NEW j \in 1..Len(waiters'),
                        waiters'[i][1] = waiters'[j][1]
                 PROVE  i = j \/ kind[waiters'[i][1]] = "copy"
      BY <3>3
    <3>4. i + 1 = j + 1 \/ kind[waiters[i + 1][1]] = "copy"
      BY <3>1, <3>2
    <3> QED BY <3>2, <3>4
  <2> QED BY <2>2, <2>3, <2>4 DEF LineInv
<1>10. ChunkTypes'
  BY <1>1, <1>6, <1>7 DEF TypeOK, ChunkTypes
<1>11. PlainTypes'
  <2>1. pc' \in [Streams -> Labels]
    BY <1>2, <1>5, Names DEF TypeOK, PlainTypes
  <2> QED BY <1>1, <1>3, <1>4, <2>1, SameChunks DEF TypeOK, PlainTypes
<1> QED BY <1>8, <1>9, <1>10, <1>11 DEF TypeOK

-----------------------------------------------------------------------------
(* Tasks, clients and sessions: one lemma per step of a stream. *)

\* What is to be shown of a step that touches one stream.
LEMMA OneStream ==
    ASSUME TaskInv, ClientInv, SessionInv, kind' = kind, ring' = ring, RingAtOK', NEW s \in Streams,
           \A t \in Streams \ {s} :
              /\ st'[t] = st[t] /\ pc'[t] = pc[t] /\ pending'[t] = pending[t] /\ closed'[t] = closed[t]
              /\ err'[t] = err[t] /\ result'[t] = result[t] /\ left'[t] = left[t] /\ got'[t] = got[t]
              /\ disk'[t] = disk[t] /\ answer'[t] = answer[t] /\ short'[t] = short[t],
           TaskOK(kind[s], pc'[s], st'[s]),
           ClientOK(kind[s], pc'[s], st'[s], got'[s], left'[s], answer'[s], short'[s]),
           ring = "up" => SessionOK(s, kind[s], pc'[s], st'[s], pending'[s], closed'[s], err'[s],
                                    result'[s], disk'[s], answer'[s])
    PROVE  TaskInv' /\ ClientInv' /\ SessionInv'
<1>1. \A t \in Streams : TaskOK(kind'[t], pc'[t], st'[t])
  <2> TAKE t \in Streams
  <2>1. CASE t = s
    BY <2>1
  <2>2. CASE t # s
    BY <2>2 DEF TaskInv
  <2> QED BY <2>1, <2>2
<1>2. \A t \in Streams : ClientOK(kind'[t], pc'[t], st'[t], got'[t], left'[t], answer'[t],
                                         short'[t])
  <2> TAKE t \in Streams
  <2>1. CASE t = s
    BY <2>1
  <2>2. CASE t # s
    BY <2>2 DEF ClientInv
  <2> QED BY <2>1, <2>2
<1>3. ring' = "up" => \A t \in Streams :
        SessionOK(t, kind'[t], pc'[t], st'[t], pending'[t], closed'[t], err'[t], result'[t], disk'[t],
                  answer'[t])
  <2> HAVE ring' = "up"
  <2> TAKE t \in Streams
  <2>1. CASE t = s
    BY <2>1
  <2>2. CASE t # s
    BY <2>2 DEF SessionInv
  <2> QED BY <2>1, <2>2
<1> QED BY <1>1, <1>2, <1>3 DEF TaskInv, ClientInv, SessionInv

\* The completion that the ring works on is touched by OnComplete only.
LEMMA RingAtSame ==
    ASSUME TypeOK, TaskInv, kind' = kind, ringAt' = ringAt, NEW s \in Streams,
           \A t \in Streams : t # s => st'[t] = st[t],
           \A c \in Cs(s) : st[s][c] = "completed" => st'[s][c] = "completed"
    PROVE  RingAtOK'
<1> SUFFICES ASSUME ringAt # NoOp
             PROVE  st'[ringAt[1]][ringAt[2]] = "completed"
  BY DEF RingAtOK
<1>1. ringAt[1] \in Streams /\ ringAt[2] \in Cs(ringAt[1]) /\ st[ringAt[1]][ringAt[2]] = "completed"
  BY DEF TaskInv, RingAtOK, TypeOK, PlainTypes, Pairs
<1> QED BY <1>1

\* A step that neither frames, drops nor consumes chunks keeps ClientOK.
LEMMA ClientMove ==
    ASSUME NEW k \in Kinds, NEW l, NEW f, NEW g, NEW w, NEW a, NEW m, NEW h, NEW sh, NEW y,
           ClientOK(k, l, f, g, w, a, sh), Len(g) \in Nat, y = {} => sh = {},
           \A c \in 1..Chunks[k] : /\ f[c] = "framed" <=> h[c] = "framed"
                                   /\ f[c] = "gone" <=> h[c] = "gone",
           l = "done" => m = "done",
           k = "download" /\ m # "done" => \A c, d \in 1..Chunks[k] : h[c] = "none" /\ c < d => h[d] = "none"
    PROVE  ClientOK(k, m, h, g, w, a, y)
<1> DEFINE N == Chunks[k]
<1>0. N \in Nat
  BY StreamAssumption
<1>1. Len(g) <= N /\ \A i \in 1..Len(g) : h[i] = "gone"
  <2>1. Len(g) <= N /\ \A i \in 1..Len(g) : f[i] = "gone"
    BY DEF ClientOK
  <2>2. \A i \in 1..Len(g) : i \in 1..N
    BY <1>0, <2>1
  <2> QED BY <2>1, <2>2
<1>2. \A c, d \in 1..N : h[c] = "framed" /\ d <= c => d <= Len(g) \/ h[d] = "framed"
  BY DEF ClientOK
<1>3. w => \A c \in 1..N : h[c] # "framed"
  BY DEF ClientOK
<1>4. k = "download" /\ m # "done" /\ ~w => \A c \in 1..N : h[c] = "gone" => c <= Len(g)
  BY DEF ClientOK
<1>5. k \in {"download", "small"} /\ a = "ok" =>
         /\ m = "done"
         /\ ~w /\ y = {} => \A c \in 1..N : c <= Len(g) \/ h[c] = "framed"
  BY DEF ClientOK
<1>6. k = "small" /\ m # "done" => ~w
  BY DEF ClientOK
<1> QED BY <1>1, <1>2, <1>3, <1>4, <1>5, <1>6 DEF ClientOK

\* A step that starts, completes or fails no write keeps SessionOK, when it
\* closes the session only with an error recorded.
LEMMA SessionMove ==
    ASSUME NEW s, NEW k, NEW l, NEW f, NEW n, NEW z, NEW e, NEW r, NEW d, NEW a, NEW m, NEW h, NEW x,
           SessionOK(s, k, l, f, n, z, e, r, d, a),
           \A c \in 1..Chunks[k] : /\ f[c] = "writing" <=> h[c] = "writing"
                                   /\ f[c] = "completed" <=> h[c] = "completed"
                                   /\ f[c] = "gone" <=> h[c] = "gone",
           l = "done" => m = "done", e => x,
           m \in {"close", "closed", "wait", "answer"} => x \/ l \in {"close", "closed", "wait", "answer"},
           l \in {"closed", "wait", "answer"} /\ z => m \in {"closed", "wait", "answer", "done"}
    PROVE  SessionOK(s, k, m, h, n, z, x, r, d, a)
<1>1. {c \in 1..Chunks[k] : h[c] = "writing"} = {c \in 1..Chunks[k] : f[c] = "writing"}
  OBVIOUS
<1>2. n = Cardinality({c \in 1..Chunks[k] : h[c] = "writing"})
  BY <1>1 DEF SessionOK
<1>3. k \in {"upload", "copy"} /\ m # "done" =>
         /\ ~x => \A c \in 1..Chunks[k] : h[c] \in {"completed", "gone"} => d[c] = <<s, c>>
         /\ m \in {"close", "closed", "wait", "answer"} /\ ~x =>
              \A c \in 1..Chunks[k] : h[c] \in {"writing", "completed", "gone"}
         /\ z => m \in {"closed", "wait", "answer"}
         /\ r = "ok" => \A c \in 1..Chunks[k] : d[c] = <<s, c>>
  BY DEF SessionOK
<1>4. k \in {"upload", "copy"} /\ a = "ok" => m = "done" /\ \A c \in 1..Chunks[k] : d[c] = <<s, c>>
  BY DEF SessionOK
<1> QED BY <1>2, <1>3, <1>4 DEF SessionOK

\* PlanOne.
LEMMA PlanOneStream ==
    ASSUME Inv, NEW s \in Streams, PlanOne(s)
    PROVE  TaskInv' /\ ClientInv' /\ SessionInv'
<1> DEFINE c == First(Unplanned(s))
           N == Chunks[kind[s]]
<1>0. TypeOK /\ TaskInv /\ ClientInv /\ SessionInv
  BY DEF Inv
<1>1. c \in Cs(s) /\ st[s][c] = "none" /\ \A d \in Cs(s) : st[s][d] = "none" => c <= d
  BY <1>0, FirstMin, WithMember DEF PlanOne, Unplanned
<1>2. st' = Set(s, {c}, "waiting")
  BY DEF PlanOne, Acquire
<1> HIDE DEF c
<1>3. /\ pc[s] = "plan" /\ pc' = [pc EXCEPT ![s] = "acquire"] /\ kind[s] # "copy"
      /\ UNCHANGED <<kind, buf, content, queue, pending, closed, err, result, ringAt, ring, left, got, disk,
                     answer, faults, short, late>>
  BY DEF PlanOne, sessVars
<1>4. pc'[s] = "acquire" /\ \A t \in Streams : t # s => pc'[t] = pc[t]
  BY <1>0, <1>3 DEF TypeOK, PlainTypes
<1>5. /\ \A t \in Streams : t # s => st'[t] = st[t]
      /\ \A d \in Cs(s) : st'[s][d] = IF d = c THEN "waiting" ELSE st[s][d]
  BY <1>0, <1>2, <1>3 DEF Set, TypeOK, ChunkTypes, Chunked, Cs
<1>6. kind[s] \in Kinds /\ N \in Nat \ {0} /\ Cs(s) = 1..N
  BY <1>0, ChunkNumbers
<1>7. TaskOK(kind[s], "plan", st[s])
  BY <1>0, <1>3 DEF TaskInv
<1>8. TaskOK(kind[s], "acquire", st'[s])
  BY <1>1, <1>3, <1>5, <1>6, <1>7 DEF TaskOK
<1>9. ClientOK(kind[s], "acquire", st'[s], got[s], left[s], answer[s], short[s])
  <2>1. ClientOK(kind[s], "plan", st[s], got[s], left[s], answer[s], short[s])
    BY <1>0, <1>3 DEF ClientInv
  <2>2. Len(got[s]) \in Nat
    BY <1>0 DEF TypeOK, PlainTypes
  <2>3. kind[s] = "download" => \A d, e \in 1..N : st'[s][d] = "none" /\ d < e => st'[s][e] = "none"
    <3>1. kind[s] = "download" => \A d, e \in 1..N : st[s][d] = "none" /\ d < e => st[s][e] = "none"
      BY <2>1 DEF ClientOK
    <3> QED BY <1>1, <1>5, <1>6, <3>1
  <2> QED BY <1>1, <1>5, <1>6, <2>1, <2>2, <2>3, ClientMove
<1>10. ASSUME ring = "up"
       PROVE  SessionOK(s, kind[s], "acquire", st'[s], pending[s], closed[s], err[s], result[s], disk[s],
                        answer[s])
  <2>1. SessionOK(s, kind[s], "plan", st[s], pending[s], closed[s], err[s], result[s], disk[s], answer[s])
    BY <1>0, <1>3, <1>10 DEF SessionInv
  <2>2. \A d \in 1..N : /\ st[s][d] = "writing" <=> st'[s][d] = "writing"
                        /\ st[s][d] = "completed" <=> st'[s][d] = "completed"
                        /\ st[s][d] = "gone" <=> st'[s][d] = "gone"
    BY <1>1, <1>5, <1>6
  <2> QED BY <2>1, <2>2, SessionMove
<1>11. RingAtOK'
  BY <1>0, <1>1, <1>3, <1>5, RingAtSame
<1> QED BY <1>0, <1>3, <1>4, <1>5, <1>8, <1>9, <1>10, <1>11, OneStream

\* PlanCopy.
LEMMA PlanCopyStream ==
    ASSUME Inv, NEW s \in Streams, PlanCopy(s)
    PROVE  TaskInv' /\ ClientInv' /\ SessionInv'
<1> DEFINE N == Chunks[kind[s]]
<1>0. TypeOK /\ TaskInv /\ ClientInv /\ SessionInv
  BY DEF Inv
<1>2. PICK C : C \subseteq Unplanned(s) /\ st' = Set(s, C, "planned")
  BY DEF PlanCopy
<1>1. \A d \in C : d \in Cs(s) /\ st[s][d] = "none"
  BY <1>0, <1>2, WithMember DEF Unplanned
<1>3. /\ pc[s] = "plan" /\ pc' = [pc EXCEPT ![s] = "await"] /\ kind[s] = "copy"
      /\ UNCHANGED <<kind, buf, content, queue, waiters, pending, closed, err, result, ringAt, ring, left,
                     got, disk, answer, faults, short, late>>
  BY DEF PlanCopy, sessVars, poolVars
<1>4. pc'[s] = "await" /\ \A t \in Streams : t # s => pc'[t] = pc[t]
  BY <1>0, <1>3 DEF TypeOK, PlainTypes
<1>5. /\ \A t \in Streams : t # s => st'[t] = st[t]
      /\ \A d \in Cs(s) : st'[s][d] = IF d \in C THEN "planned" ELSE st[s][d]
  BY <1>0, <1>2, <1>3 DEF Set, TypeOK, ChunkTypes, Chunked, Cs
<1>6. kind[s] \in Kinds /\ N \in Nat \ {0} /\ Cs(s) = 1..N
  BY <1>0, ChunkNumbers
<1>7. TaskOK(kind[s], "plan", st[s])
  BY <1>0, <1>3 DEF TaskInv
<1>8. TaskOK(kind[s], "await", st'[s])
  BY <1>1, <1>3, <1>5, <1>6, <1>7 DEF TaskOK
<1>9. ClientOK(kind[s], "await", st'[s], got[s], left[s], answer[s], short[s])
  <2>1. ClientOK(kind[s], "plan", st[s], got[s], left[s], answer[s], short[s])
    BY <1>0, <1>3 DEF ClientInv
  <2>2. Len(got[s]) \in Nat
    BY <1>0 DEF TypeOK, PlainTypes
  <2> QED BY <1>1, <1>3, <1>5, <1>6, <2>1, <2>2, ClientMove
<1>10. ASSUME ring = "up"
       PROVE  SessionOK(s, kind[s], "await", st'[s], pending[s], closed[s], err[s], result[s], disk[s],
                        answer[s])
  <2>1. SessionOK(s, kind[s], "plan", st[s], pending[s], closed[s], err[s], result[s], disk[s], answer[s])
    BY <1>0, <1>3, <1>10 DEF SessionInv
  <2>2. \A d \in 1..N : /\ st[s][d] = "writing" <=> st'[s][d] = "writing"
                        /\ st[s][d] = "completed" <=> st'[s][d] = "completed"
                        /\ st[s][d] = "gone" <=> st'[s][d] = "gone"
    BY <1>1, <1>5, <1>6
  <2> QED BY <1>3, <2>1, <2>2, SessionMove
<1>11. RingAtOK'
  BY <1>0, <1>1, <1>3, <1>5, RingAtSame
<1> QED BY <1>0, <1>3, <1>4, <1>5, <1>8, <1>9, <1>10, <1>11, OneStream

\* PollCopy.
LEMMA PollCopyStream ==
    ASSUME Inv, NEW s \in Streams, PollCopy(s)
    PROVE  TaskInv' /\ ClientInv' /\ SessionInv'
<1> DEFINE c == First(With(s, {"planned"}))
           N == Chunks[kind[s]]
<1>0. TypeOK /\ TaskInv /\ ClientInv /\ SessionInv
  BY DEF Inv
<1>1. c \in Cs(s) /\ st[s][c] = "planned"
  BY <1>0, FirstMin, WithMember DEF PollCopy
<1>2. st' = Set(s, {c}, "waiting")
  BY DEF PollCopy, Acquire
<1> HIDE DEF c
<1>3. /\ pc[s] = "await" /\ kind[s] = "copy"
      /\ UNCHANGED <<kind, pc, buf, content, queue, pending, closed, err, result, ringAt, ring, left,
                     got, disk, answer, faults, short, late>>
  <2>1. TaskOK(kind[s], pc[s], st[s]) /\ kind[s] \in Kinds
    BY <1>0, ChunkNumbers DEF TaskInv
  <2>2. kind[s] = "copy"
    BY <1>1, <2>1 DEF TaskOK, Cs, Kinds
  <2> QED BY <2>2 DEF PollCopy, sessVars
<1>4. pc'[s] = "await" /\ \A t \in Streams : t # s => pc'[t] = pc[t]
  BY <1>3
<1>5. /\ \A t \in Streams : t # s => st'[t] = st[t]
      /\ \A d \in Cs(s) : st'[s][d] = IF d = c THEN "waiting" ELSE st[s][d]
  BY <1>0, <1>2, <1>3 DEF Set, TypeOK, ChunkTypes, Chunked, Cs
<1>6. kind[s] \in Kinds /\ N \in Nat \ {0} /\ Cs(s) = 1..N
  BY <1>0, ChunkNumbers
<1>7. TaskOK(kind[s], "await", st[s])
  BY <1>0, <1>3 DEF TaskInv
<1>8. TaskOK(kind[s], "await", st'[s])
  BY <1>1, <1>3, <1>5, <1>6, <1>7 DEF TaskOK
<1>9. ClientOK(kind[s], "await", st'[s], got[s], left[s], answer[s], short[s])
  <2>1. ClientOK(kind[s], "await", st[s], got[s], left[s], answer[s], short[s])
    BY <1>0, <1>3 DEF ClientInv
  <2>2. Len(got[s]) \in Nat
    BY <1>0 DEF TypeOK, PlainTypes
  <2> QED BY <1>1, <1>3, <1>5, <1>6, <2>1, <2>2, ClientMove
<1>10. ASSUME ring = "up"
       PROVE  SessionOK(s, kind[s], "await", st'[s], pending[s], closed[s], err[s], result[s], disk[s],
                        answer[s])
  <2>1. SessionOK(s, kind[s], "await", st[s], pending[s], closed[s], err[s], result[s], disk[s], answer[s])
    BY <1>0, <1>3, <1>10 DEF SessionInv
  <2>2. \A d \in 1..N : /\ st[s][d] = "writing" <=> st'[s][d] = "writing"
                        /\ st[s][d] = "completed" <=> st'[s][d] = "completed"
                        /\ st[s][d] = "gone" <=> st'[s][d] = "gone"
    BY <1>1, <1>5, <1>6
  <2> QED BY <1>3, <2>1, <2>2, SessionMove
<1>11. RingAtOK'
  BY <1>0, <1>1, <1>3, <1>5, RingAtSame
<1> QED BY <1>0, <1>3, <1>4, <1>5, <1>8, <1>9, <1>10, <1>11, OneStream

\* SubmitReads.
LEMMA SubmitReadsStream ==
    ASSUME Inv, NEW s \in Streams, SubmitReads(s)
    PROVE  TaskInv' /\ ClientInv' /\ SessionInv'
<1> DEFINE C == With(s, {"held"})
           N == Chunks[kind[s]]
<1>0. TypeOK /\ TaskInv /\ ClientInv /\ SessionInv
  BY DEF Inv
<1>1. \A d \in Cs(s) : d \in C <=> st[s][d] = "held"
  BY <1>0, WithMember
<1>2. st' = Set(s, C, "reading")
  BY DEF SubmitReads
<1> HIDE DEF C
<1>3. /\ pc[s] = "await" /\ kind[s] # "small"
      /\ UNCHANGED <<kind, pc, buf, content, queue, waiters, pending, closed, err, result, ringAt, ring, left,
                     got, disk, answer, faults, short, late>>
  BY DEF SubmitReads, sessVars, poolVars
<1>4. pc'[s] = "await" /\ \A t \in Streams : t # s => pc'[t] = pc[t]
  BY <1>3
<1>5. /\ \A t \in Streams : t # s => st'[t] = st[t]
      /\ \A d \in Cs(s) : st'[s][d] = IF d \in C THEN "reading" ELSE st[s][d]
  BY <1>0, <1>2, <1>3 DEF Set, TypeOK, ChunkTypes, Chunked, Cs
<1>6. kind[s] \in Kinds /\ N \in Nat \ {0} /\ Cs(s) = 1..N
  BY <1>0, ChunkNumbers
<1>7. TaskOK(kind[s], "await", st[s])
  BY <1>0, <1>3 DEF TaskInv
<1>8. TaskOK(kind[s], "await", st'[s])
  BY <1>1, <1>3, <1>5, <1>6, <1>7 DEF TaskOK
<1>9. ClientOK(kind[s], "await", st'[s], got[s], left[s], answer[s], short[s])
  <2>1. ClientOK(kind[s], "await", st[s], got[s], left[s], answer[s], short[s])
    BY <1>0, <1>3 DEF ClientInv
  <2>2. Len(got[s]) \in Nat
    BY <1>0 DEF TypeOK, PlainTypes
  <2>3. kind[s] = "download" => \A d, e \in 1..N : st'[s][d] = "none" /\ d < e => st'[s][e] = "none"
    <3>1. kind[s] = "download" => \A d, e \in 1..N : st[s][d] = "none" /\ d < e => st[s][e] = "none"
      BY <1>3, <2>1 DEF ClientOK
    <3> QED BY <1>1, <1>5, <1>6, <3>1
  <2> QED BY <1>1, <1>3, <1>5, <1>6, <2>1, <2>2, <2>3, ClientMove
<1>10. ASSUME ring = "up"
       PROVE  SessionOK(s, kind[s], "await", st'[s], pending[s], closed[s], err[s], result[s], disk[s],
                        answer[s])
  <2>1. SessionOK(s, kind[s], "await", st[s], pending[s], closed[s], err[s], result[s], disk[s], answer[s])
    BY <1>0, <1>3, <1>10 DEF SessionInv
  <2>2. \A d \in 1..N : /\ st[s][d] = "writing" <=> st'[s][d] = "writing"
                        /\ st[s][d] = "completed" <=> st'[s][d] = "completed"
                        /\ st[s][d] = "gone" <=> st'[s][d] = "gone"
    BY <1>1, <1>5, <1>6
  <2> QED BY <1>3, <2>1, <2>2, SessionMove
<1>11. RingAtOK'
  BY <1>0, <1>1, <1>3, <1>5, RingAtSame
<1> QED BY <1>0, <1>3, <1>4, <1>5, <1>8, <1>9, <1>10, <1>11, OneStream

\* Grant.
LEMMA GrantStream ==
    ASSUME Inv, Grant
    PROVE  TaskInv' /\ ClientInv' /\ SessionInv'
<1> DEFINE s == Head(waiters)[1]
           c == Head(waiters)[2]
           N == Chunks[kind[s]]
<1>0. TypeOK /\ TaskInv /\ ClientInv /\ SessionInv /\ LineInv
  BY DEF Inv
<1>1. /\ s \in Streams /\ c \in Cs(s) /\ st[s][c] = "waiting"
      /\ pc[s] = "acquire" \/ (kind[s] = "copy" /\ pc[s] # "done")
  <2>1. Head(waiters) = waiters[1] /\ 1 \in 1..Len(waiters)
    BY <1>0 DEF Grant, TypeOK, PlainTypes
  <2> QED BY <1>0, <2>1 DEF LineInv, Pairs
<1>2. st' = Set(s, {c}, "held")
  BY DEF Grant
<1>12. PICK l \in {"plan", "recv", "await", pc[s]} :
         /\ pc' = [pc EXCEPT ![s] = l] /\ (pc[s] # "acquire" => l = pc[s])
         /\ pc[s] = "acquire" => l \in {"plan", "await", "recv"}
         /\ pc[s] = "acquire" /\ kind[s] = "upload" => l = "recv"
         /\ pc[s] = "acquire" /\ kind[s] = "small" => l = "await"
         /\ pc[s] = "acquire" /\ kind[s] = "download" => l \in {"plan", "await"}
  BY DEF Grant
<1>3. UNCHANGED <<kind, content, pending, closed, err, result, ringAt, ring, left, got, disk, answer,
                  faults, short, late>>
  BY DEF Grant, sessVars
<1>13. kind[s] = "small" => N = 1
  BY StreamAssumption
<1> HIDE DEF s, c
<1>4. pc'[s] = l /\ \A t \in Streams : t # s => pc'[t] = pc[t]
  BY <1>0, <1>1, <1>12 DEF TypeOK, PlainTypes
<1>5. /\ \A t \in Streams : t # s => st'[t] = st[t]
      /\ \A d \in Cs(s) : st'[s][d] = IF d = c THEN "held" ELSE st[s][d]
  BY <1>0, <1>1, <1>2, <1>3 DEF Set, TypeOK, ChunkTypes, Chunked, Cs
<1>6. kind[s] \in Kinds /\ N \in Nat \ {0} /\ Cs(s) = 1..N
  BY <1>0, <1>1, ChunkNumbers
<1>7. TaskOK(kind[s], pc[s], st[s])
  BY <1>0, <1>1 DEF TaskInv
<1>8. TaskOK(kind[s], l, st'[s])
  <2>1. CASE kind[s] = "download"
    BY <1>1, <1>5, <1>6, <1>7, <1>12, <2>1 DEF TaskOK
  <2>2. CASE kind[s] = "small"
    <3>1. c = 1 /\ st'[s][1] = "held"
      BY <1>1, <1>5, <1>6, <1>13, <2>2
    <3> QED BY <1>1, <1>5, <1>6, <1>7, <1>12, <2>2, <3>1 DEF TaskOK
  <2>3. CASE kind[s] = "upload"
    BY <1>1, <1>5, <1>6, <1>7, <1>12, <2>3 DEF TaskOK
  <2>4. CASE kind[s] = "copy"
    <3>1. l = pc[s] /\ l \notin {"acquire", "recv"}
      BY <1>7, <1>12, <2>4 DEF TaskOK
    <3>2. \A d \in 1..N : st'[s][d] # "framed"
      BY <1>5, <1>6, <1>7, <2>4 DEF TaskOK
    <3>3. ASSUME l = "submit"
          PROVE  \E d \in 1..N : st'[s][d] = "read" /\ \A e \in 1..N : e < d => st'[s][e] \notin FutureStatuses
      <4>1. PICK d \in 1..N : st[s][d] = "read" /\ \A e \in 1..N : e < d => st[s][e] \notin FutureStatuses
        BY <1>7, <2>4, <3>1, <3>3 DEF TaskOK
      <4>2. "waiting" \in FutureStatuses
        BY DEF FutureStatuses
      <4>3. ~(c < d) /\ c # d
        BY <1>1, <1>6, <4>1, <4>2
      <4>4. \A e \in 1..N : e < d => st'[s][e] = st[s][e]
        BY <1>5, <1>6, <4>3
      <4>5. st'[s][d] = "read"
        BY <1>5, <1>6, <4>1, <4>3
      <4> QED BY <4>1, <4>4, <4>5
    <3> QED BY <2>4, <3>1, <3>2, <3>3 DEF TaskOK
  <2> QED BY <1>6, <2>1, <2>2, <2>3, <2>4 DEF Kinds
<1>9. ClientOK(kind[s], l, st'[s], got[s], left[s], answer[s], short[s])
  <2>1. ClientOK(kind[s], pc[s], st[s], got[s], left[s], answer[s], short[s])
    BY <1>0, <1>1 DEF ClientInv
  <2>2. Len(got[s]) \in Nat
    BY <1>0, <1>1 DEF TypeOK, PlainTypes
  <2>3. kind[s] = "download" => \A d, e \in 1..N : st'[s][d] = "none" /\ d < e => st'[s][e] = "none"
    <3>1. kind[s] = "download" => \A d, e \in 1..N : st[s][d] = "none" /\ d < e => st[s][e] = "none"
      BY <1>1, <2>1 DEF ClientOK
    <3> QED BY <1>1, <1>5, <1>6, <3>1
  <2>4. pc[s] # "done"
    BY <1>1
  <2>5. \A d \in 1..N : /\ st[s][d] = "framed" <=> st'[s][d] = "framed"
                        /\ st[s][d] = "gone" <=> st'[s][d] = "gone"
    BY <1>1, <1>5, <1>6
  <2> QED BY <1>6, <2>1, <2>2, <2>3, <2>4, <2>5, ClientMove
<1>10. ASSUME ring = "up"
       PROVE  SessionOK(s, kind[s], l, st'[s], pending[s], closed[s], err[s], result[s], disk[s],
                        answer[s])
  <2>1. SessionOK(s, kind[s], pc[s], st[s], pending[s], closed[s], err[s], result[s], disk[s], answer[s])
    BY <1>0, <1>1, <1>10 DEF SessionInv
  <2>2. \A d \in 1..N : /\ st[s][d] = "writing" <=> st'[s][d] = "writing"
                        /\ st[s][d] = "completed" <=> st'[s][d] = "completed"
                        /\ st[s][d] = "gone" <=> st'[s][d] = "gone"
    BY <1>1, <1>5, <1>6
  <2>3. /\ pc[s] # "done"
        /\ l \in {"close", "closed", "wait", "answer"} => pc[s] \in {"close", "closed", "wait", "answer"}
        /\ pc[s] \in {"closed", "wait", "answer"} => l = pc[s]
    BY <1>1, <1>12
  <2> QED BY <2>1, <2>2, <2>3, SessionMove
<1>11. RingAtOK'
  BY <1>0, <1>1, <1>3, <1>5, RingAtSame
<1> QED BY <1>0, <1>1, <1>3, <1>4, <1>5, <1>8, <1>9, <1>10, <1>11, OneStream

\* The same for chunks that are dropped by a task that returns, has returned
\* or has no client.
LEMMA ClientGone ==
    ASSUME NEW k \in Kinds, NEW l, NEW f, NEW g, NEW w, NEW a, NEW m, NEW h, NEW b, NEW sh, NEW y,
           ClientOK(k, l, f, g, w, a, sh), Len(g) \in Nat, y = {} => sh = {},
           \A c \in 1..Chunks[k] : /\ f[c] = "framed" <=> h[c] = "framed"
                                   /\ f[c] = "gone" => h[c] = "gone",
           k = "download" => m = "done", l = "done" => m = "done",
           k \in {"download", "small"} /\ b = "ok" => (a = "ok" \/ y # {}) /\ m = "done"
    PROVE  ClientOK(k, m, h, g, w, b, y)
<1> DEFINE N == Chunks[k]
<1>0. N \in Nat
  BY StreamAssumption
<1>1. Len(g) <= N /\ \A i \in 1..Len(g) : h[i] = "gone"
  <2>1. Len(g) <= N /\ \A i \in 1..Len(g) : f[i] = "gone"
    BY DEF ClientOK
  <2>2. \A i \in 1..Len(g) : i \in 1..N
    BY <1>0, <2>1
  <2> QED BY <2>1, <2>2
<1>2. \A c, d \in 1..N : h[c] = "framed" /\ d <= c => d <= Len(g) \/ h[d] = "framed"
  BY DEF ClientOK
<1>3. w => \A c \in 1..N : h[c] # "framed"
  BY DEF ClientOK
<1>5. k \in {"download", "small"} /\ b = "ok" =>
         /\ m = "done"
         /\ ~w /\ y = {} => \A c \in 1..N : c <= Len(g) \/ h[c] = "framed"
  BY DEF ClientOK
<1>6. k = "small" /\ m # "done" => ~w
  BY DEF ClientOK
<1> QED BY <1>1, <1>2, <1>3, <1>5, <1>6 DEF ClientOK

\* try_finish sends "ok" only when the body is written.
LEMMA TryFinishEffect ==
    ASSUME TypeOK, SessionInv, ring = "up", NEW s \in Streams, TryFinish(s)
    PROVE  /\ \A t \in Streams : t # s => result'[t] = result[t]
           /\ SessionOK(s, kind[s], pc[s], st[s], pending[s], closed[s], err[s], result'[s], disk[s],
                        answer[s])
<1>1. SessionOK(s, kind[s], pc[s], st[s], pending[s], closed[s], err[s], result[s], disk[s], answer[s])
  BY DEF SessionInv
<1>2. CASE ~Finished(s)
  <2>1. result' = result
    BY <1>2 DEF TryFinish
  <2> QED BY <1>1, <2>1
<1>3. CASE Finished(s)
  <2>1. /\ result' = [result EXCEPT ![s] = IF err[s] THEN "error" ELSE "ok"]
        /\ result \in [Streams -> {"none", "ok", "error"}]
    BY <1>3 DEF TryFinish, TypeOK, PlainTypes
  <2>2. result'[s] = (IF err[s] THEN "error" ELSE "ok") /\ \A t \in Streams : t # s => result'[t] = result[t]
    BY <2>1
  <2>3. CASE kind[s] \in {"upload", "copy"} /\ pc[s] # "done" /\ ~err[s]
    <3>1. pc[s] \in {"close", "closed", "wait", "answer"} /\ pending[s] = 0
      BY <1>1, <1>3, <2>3 DEF SessionOK, Finished
    <3>2. \A c \in 1..Chunks[kind[s]] : disk[s][c] = <<s, c>>
      <4> DEFINE W == {c \in 1..Chunks[kind[s]] : st[s][c] = "writing"}
      <4>1. IsFiniteSet(1..Chunks[kind[s]])
        BY ChunkNumbers
      <4>2. IsFiniteSet(W)
        BY <4>1, FS_Subset
      <4>3. Cardinality(W) = 0
        BY <1>1, <3>1 DEF SessionOK
      <4>4. W = {}
        BY <4>2, <4>3, FS_EmptySet
      <4> QED BY <1>1, <2>3, <3>1, <4>4 DEF SessionOK
    <3> QED BY <1>1, <2>2, <3>2 DEF SessionOK
  <2>4. CASE ~(kind[s] \in {"upload", "copy"} /\ pc[s] # "done" /\ ~err[s])
    <3>1. kind[s] \in {"upload", "copy"} /\ pc[s] # "done" => result'[s] = "error"
      BY <2>2, <2>4
    <3> QED BY <1>1, <2>2, <3>1 DEF SessionOK
  <2> QED BY <2>3, <2>4
<1> QED BY <1>2, <1>3

\* A task returns.
LEMMA ReturnStream ==
    ASSUME Inv, NEW s \in Streams, NEW a, Return(s, a), pc[s] # "done",
           UNCHANGED <<kind, buf, pending, err, result, ringAt, ring, left, got, disk>>,
           short'[s] = {} => short[s] = {}, \A t \in Streams : t # s => short'[t] = short[t],
           kind[s] \in {"download", "small"} /\ a = "ok" => short'[s] # {},
           ring = "up" /\ kind[s] \in {"upload", "copy"} /\ a = "ok" =>
             \A c \in 1..Chunks[kind[s]] : disk[s][c] = <<s, c>>
    PROVE  TaskInv' /\ ClientInv' /\ SessionInv'
<1> DEFINE N == Chunks[kind[s]]
<1>0. TypeOK /\ TaskInv /\ ClientInv /\ SessionInv /\ PoolInv /\ LineInv
  BY DEF Inv
<1>1. /\ \A t \in Streams : t # s => st'[t] = st[t]
      /\ \A c \in Cs(s) : st'[s][c] = IF st[s][c] \in {"framed", "reading", "writing", "completed"}
                                         THEN st[s][c] ELSE "gone"
      /\ pc' = [pc EXCEPT ![s] = "done"] /\ answer' = [answer EXCEPT ![s] = a]
      /\ closed' = [closed EXCEPT ![s] = TRUE]
  BY <1>0, ReturnEffect
<1>2. /\ pc'[s] = "done" /\ answer'[s] = a /\ closed'[s] = TRUE
      /\ \A t \in Streams : t # s => pc'[t] = pc[t] /\ answer'[t] = answer[t] /\ closed'[t] = closed[t]
  BY <1>0, <1>1 DEF TypeOK, PlainTypes
<1>6. kind[s] \in Kinds /\ N \in Nat \ {0} /\ Cs(s) = 1..N
  BY <1>0, ChunkNumbers
<1>7. TaskOK(kind[s], pc[s], st[s])
  BY <1>0 DEF TaskInv
<1>8. TaskOK(kind[s], "done", st'[s])
  BY <1>1, <1>6, <1>7 DEF TaskOK
<1>9. ClientOK(kind[s], "done", st'[s], got[s], left[s], a, short'[s])
  <2>1. ClientOK(kind[s], pc[s], st[s], got[s], left[s], answer[s], short[s])
    BY <1>0 DEF ClientInv
  <2>2. Len(got[s]) \in Nat
    BY <1>0 DEF TypeOK, PlainTypes
  <2>3. \A c \in 1..N : /\ st[s][c] = "framed" <=> st'[s][c] = "framed"
                        /\ st[s][c] = "gone" => st'[s][c] = "gone"
    BY <1>1, <1>6
  <2> QED BY <1>6, <2>1, <2>2, <2>3, ClientGone
<1>10. ASSUME ring = "up"
       PROVE  SessionOK(s, kind[s], "done", st'[s], pending[s], TRUE, err[s], result[s], disk[s], a)
  <2>1. SessionOK(s, kind[s], pc[s], st[s], pending[s], closed[s], err[s], result[s], disk[s], answer[s])
    BY <1>0, <1>10 DEF SessionInv
  <2>2. {c \in 1..N : st'[s][c] = "writing"} = {c \in 1..N : st[s][c] = "writing"}
    BY <1>1, <1>6
  <2> QED BY <1>10, <2>1, <2>2 DEF SessionOK
<1>11. RingAtOK'
  BY <1>0, <1>1, RingAtSame
<1> QED BY <1>0, <1>1, <1>2, <1>8, <1>9, <1>10, <1>11, OneStream, ZenonT(60)

\* StopDownload, EndOfFile and BlockingEmpty: a read that ends early ends with
\* an error, or with a chunk that found nothing.
LEMMA StopStream ==
    ASSUME Inv, NEW s \in Streams, StopDownload(s) \/ EndOfFile(s) \/ BlockingEmpty(s)
    PROVE  TaskInv' /\ ClientInv' /\ SessionInv'
<1>1. PICK a \in {"ok", "error"} : Return(s, a) /\ (a = "ok" => EndOfFile(s))
  BY DEF StopDownload, EndOfFile, BlockingEmpty
<1>2. /\ pc[s] # "done" /\ kind[s] \in {"download", "small"}
      /\ UNCHANGED <<kind, buf, pending, err, result, ringAt, ring, left, got, disk>>
      /\ short' = short \/ Cut(s, 1)
  BY DEF StopDownload, EndOfFile, BlockingEmpty
<1>3. (short'[s] = {} => short[s] = {}) /\ \A t \in Streams : t # s => short'[t] = short[t]
  BY <1>2, CutEffect DEF Inv
<1>4. a = "ok" => short'[s] # {}
  BY <1>1 DEF EndOfFile, HeadEmpty
<1> QED BY <1>1, <1>2, <1>3, <1>4, ReturnStream

\* Answer: what is sent to the client is the result of the session.
LEMMA AnswerStream ==
    ASSUME Inv, NEW s \in Streams, Answer(s)
    PROVE  TaskInv' /\ ClientInv' /\ SessionInv'
<1>1. /\ Return(s, result[s]) /\ pc[s] = "answer"
      /\ UNCHANGED <<kind, buf, pending, err, result, ringAt, ring, left, got, disk, short>>
  BY DEF Answer
<1>2. TypeOK /\ TaskInv /\ SessionInv
  BY DEF Inv
<1>3. kind[s] \notin {"download", "small"}
  BY <1>1, <1>2 DEF TaskInv, TaskOK
<1>4. ring = "up" /\ kind[s] \in {"upload", "copy"} /\ result[s] = "ok" =>
        \A c \in 1..Chunks[kind[s]] : disk[s][c] = <<s, c>>
  BY <1>1, <1>2 DEF SessionInv, SessionOK
<1> QED BY <1>1, <1>3, <1>4, ReturnStream

\* Disconnect: the handler is dropped, or the frames that are on their way.
LEMMA DisconnectStream ==
    ASSUME Inv, NEW s \in Streams, Disconnect(s)
    PROVE  TaskInv' /\ ClientInv' /\ SessionInv'
<1> DEFINE N == Chunks[kind[s]]
           C == With(s, {"framed"})
<1>0. TypeOK /\ TaskInv /\ ClientInv /\ SessionInv
  BY DEF Inv
<1>1. UNCHANGED <<kind, buf, content, pending, err, result, ringAt, ring, got, disk, short>>
  BY DEF Disconnect
<1>2. CASE ~(kind[s] = "download" \/ pc[s] = "done")
  <2>1. Return(s, "error") /\ left' = left /\ pc[s] # "done"
    BY <1>2 DEF Disconnect
  <2> QED BY <1>1, <2>1, ReturnStream
<1>3. CASE kind[s] = "download" \/ pc[s] = "done"
  <2>1. /\ kind[s] \in {"download", "small"} /\ left' = [left EXCEPT ![s] = TRUE]
        /\ st' = Set(s, C, "gone") /\ UNCHANGED <<pc, closed, answer>>
    BY <1>3 DEF Disconnect
  <2>2. \A d \in Cs(s) : d \in C <=> st[s][d] = "framed"
    BY <1>0, WithMember
  <2> HIDE DEF C
  <2>3. left'[s] = TRUE /\ \A t \in Streams : t # s => left'[t] = left[t]
    BY <1>0, <2>1 DEF TypeOK, PlainTypes
  <2>5. /\ \A t \in Streams : t # s => st'[t] = st[t]
        /\ \A d \in Cs(s) : st'[s][d] = IF d \in C THEN "gone" ELSE st[s][d]
    <3>1. st' = Set(s, C, "gone")
      BY <2>1
    <3> QED BY <1>0, <1>1, <3>1 DEF Set, TypeOK, ChunkTypes, Chunked, Cs
  <2>6. kind[s] \in Kinds /\ N \in Nat \ {0} /\ Cs(s) = 1..N
    BY <1>0, ChunkNumbers
  <2>7. TaskOK(kind[s], pc[s], st[s])
    BY <1>0 DEF TaskInv
  <2>8. TaskOK(kind[s], pc[s], st'[s])
    BY <2>1, <2>2, <2>5, <2>6, <2>7 DEF TaskOK
  <2>9. ClientOK(kind[s], pc[s], st'[s], got[s], TRUE, answer[s], short[s])
    <3>1. ClientOK(kind[s], pc[s], st[s], got[s], left[s], answer[s], short[s])
      BY <1>0 DEF ClientInv
    <3>2. Len(got[s]) \in Nat
      BY <1>0 DEF TypeOK, PlainTypes
    <3>3. /\ Len(got[s]) <= N
          /\ \A i \in 1..Len(got[s]) : i \in 1..N /\ st[s][i] = "gone"
      BY <2>6, <3>1, <3>2 DEF ClientOK
    <3>4. \A d \in 1..N : /\ st'[s][d] # "framed" /\ (st[s][d] = "gone" => st'[s][d] = "gone")
                          /\ st'[s][d] = "none" <=> st[s][d] = "none"
      BY <2>2, <2>5, <2>6
    <3>5. ~(kind[s] = "small" /\ pc[s] # "done")
      BY <1>3
    <3> QED BY <2>6, <3>1, <3>2, <3>3, <3>4, <3>5 DEF ClientOK
  <2>10. ASSUME ring = "up"
         PROVE  SessionOK(s, kind[s], pc[s], st'[s], pending[s], closed[s], err[s], result[s], disk[s],
                          answer[s])
    <3>1. SessionOK(s, kind[s], pc[s], st[s], pending[s], closed[s], err[s], result[s], disk[s], answer[s])
      BY <1>0, <2>10 DEF SessionInv
    <3>2. {d \in 1..N : st'[s][d] = "writing"} = {d \in 1..N : st[s][d] = "writing"}
      BY <2>2, <2>5, <2>6
    <3> QED BY <2>1, <3>1, <3>2 DEF SessionOK
  <2>11. RingAtOK'
    BY <1>0, <1>1, <2>2, <2>5, RingAtSame
  <2> QED BY <1>0, <1>1, <2>1, <2>3, <2>5, <2>8, <2>9, <2>10, <2>11, OneStream
<1> QED BY <1>2, <1>3

\* TakeRead: a copy goes on to write, or closes with the error recorded.
LEMMA TakeReadStream ==
    ASSUME Inv, NEW s \in Streams, TakeRead(s)
    PROVE  TaskInv' /\ ClientInv' /\ SessionInv'
<1> DEFINE N == Chunks[kind[s]]
<1>0. TypeOK /\ TaskInv /\ ClientInv /\ SessionInv
  BY DEF Inv
<1> DEFINE stop == Cancelled(s) \/ HeadEmpty(s)
<1>1. /\ pc[s] = "await" /\ kind[s] = "copy" /\ err' = [err EXCEPT ![s] = err[s] \/ stop]
      /\ UNCHANGED <<kind, st, buf, content, queue, waiters, pending, closed, result, ringAt, ring, left, got,
                     disk, answer, faults, short, late>>
  BY DEF TakeRead, poolVars
<1>2. PICK l \in {"close", "submit"} : /\ pc' = [pc EXCEPT ![s] = l]
                                       /\ l = "submit" => HeadRead(s)
                                       /\ l = "close" => stop
  BY DEF TakeRead
<1> HIDE DEF stop
<1>3. /\ pc'[s] = l /\ err'[s] = (err[s] \/ stop)
      /\ \A t \in Streams : t # s => pc'[t] = pc[t] /\ err'[t] = err[t]
  <2>1. pc \in [Streams -> Labels] /\ err \in [Streams -> BOOLEAN]
    BY <1>0 DEF TypeOK, PlainTypes
  <2>2. pc'[s] = l /\ \A t \in Streams : t # s => pc'[t] = pc[t]
    BY <1>2, <2>1
  <2>3. err'[s] = (err[s] \/ stop) /\ \A t \in Streams : t # s => err'[t] = err[t]
    BY <1>1, <2>1
  <2> QED BY <2>2, <2>3
<1>6. kind[s] \in Kinds /\ N \in Nat \ {0} /\ Cs(s) = 1..N
  BY <1>0, ChunkNumbers
<1>7. TaskOK(kind[s], "await", st[s])
  BY <1>0, <1>1 DEF TaskInv
<1>8. TaskOK(kind[s], l, st'[s])
  <2>1. CASE l = "close"
    BY <1>1, <1>7, <2>1 DEF TaskOK
  <2>2. CASE l = "submit"
    <3> DEFINE F == Futures(s)
               c == First(F)
    <3>1. F # {} /\ st[s][c] = "read"
      BY <1>2, <2>2 DEF HeadRead
    <3>2. F \subseteq Nat /\ \A d \in Cs(s) : d \in F <=> st[s][d] \in FutureStatuses
      BY <1>0, WithMember DEF Futures, FutureStatuses
    <3>3. F \subseteq Cs(s)
      BY <1>0, WithMember DEF Futures
    <3> HIDE DEF F
    <3>4. c \in F /\ \A d \in F : c <= d
      BY <3>1, <3>2, FirstMin
    <3> HIDE DEF c
    <3>5. \A d \in 1..N : d < c => st[s][d] \notin FutureStatuses
      BY <1>6, <3>2, <3>3, <3>4
    <3>6. c \in 1..N
      BY <1>6, <3>3, <3>4
    <3> QED BY <1>1, <1>7, <2>2, <3>1, <3>5, <3>6 DEF TaskOK
  <2> QED BY <2>1, <2>2
<1>9. ClientOK(kind[s], l, st'[s], got[s], left[s], answer[s], short[s])
  <2>1. ClientOK(kind[s], "await", st[s], got[s], left[s], answer[s], short[s])
    BY <1>0, <1>1 DEF ClientInv
  <2>2. Len(got[s]) \in Nat
    BY <1>0 DEF TypeOK, PlainTypes
  <2> QED BY <1>1, <1>6, <2>1, <2>2, ClientMove
<1>10. ASSUME ring = "up"
       PROVE  SessionOK(s, kind[s], l, st'[s], pending[s], closed[s], err'[s], result[s], disk[s],
                        answer[s])
  <2>1. SessionOK(s, kind[s], "await", st[s], pending[s], closed[s], err[s], result[s], disk[s], answer[s])
    BY <1>0, <1>1, <1>10 DEF SessionInv
  <2>2. l = "close" => err'[s]
    BY <1>2, <1>3
  <2>3. err[s] => err'[s]
    BY <1>3
  <2> QED BY <1>1, <2>1, <2>2, <2>3, SessionMove
<1>11. RingAtOK'
  BY <1>0, <1>1, RingAtSame
<1> QED BY <1>0, <1>1, <1>3, <1>8, <1>9, <1>10, <1>11, OneStream

\* Close, CloseFinishes and Wait.
LEMMA CloseStream ==
    ASSUME Inv, NEW s \in Streams, Close(s) \/ CloseFinishes(s) \/ Wait(s)
    PROVE  TaskInv' /\ ClientInv' /\ SessionInv'
<1>0. TypeOK /\ TaskInv /\ ClientInv /\ SessionInv
  BY DEF Inv
<1>1. /\ UNCHANGED <<kind, st, buf, content, pending, err, ringAt, ring, left, got, disk, answer, faults, short, late>>
      /\ pc[s] \in {"close", "closed", "wait"}
  BY DEF Close, CloseFinishes, Wait
<1>2. PICK l \in {"closed", "wait", "answer"} : pc' = [pc EXCEPT ![s] = l]
  BY DEF Close, CloseFinishes, Wait
<1>3. pc'[s] = l /\ \A t \in Streams : t # s => pc'[t] = pc[t]
  BY <1>0, <1>2 DEF TypeOK, PlainTypes
<1>4. /\ \A t \in Streams : t # s => closed'[t] = closed[t]
      /\ closed' = closed \/ (pc[s] = "close" /\ result' = result)
  BY <1>0 DEF Close, CloseFinishes, Wait, TypeOK, PlainTypes
<1>5. result' = result \/ (TryFinish(s) /\ closed' = closed)
  BY DEF Close, CloseFinishes, Wait
<1>12. \A t \in Streams : t # s => result'[t] = result[t]
  BY <1>0, <1>5 DEF TryFinish, TypeOK, PlainTypes
<1>6. kind[s] \in {"upload", "copy"} /\ kind[s] \in Kinds
  <2>1. TaskOK(kind[s], pc[s], st[s]) /\ kind[s] \in Kinds
    BY <1>0, ChunkNumbers DEF TaskInv
  <2> QED BY <1>1, <2>1 DEF TaskOK, Kinds
<1>8. TaskOK(kind[s], l, st'[s])
  <2>1. TaskOK(kind[s], pc[s], st[s])
    BY <1>0 DEF TaskInv
  <2> QED BY <1>1, <1>6, <2>1 DEF TaskOK
<1>9. ClientOK(kind[s], l, st'[s], got[s], left[s], answer[s], short[s])
  <2>1. ClientOK(kind[s], pc[s], st[s], got[s], left[s], answer[s], short[s])
    BY <1>0 DEF ClientInv
  <2>2. Len(got[s]) \in Nat
    BY <1>0 DEF TypeOK, PlainTypes
  <2> QED BY <1>1, <1>6, <2>1, <2>2, ClientGone
<1>10. ASSUME ring = "up"
       PROVE  SessionOK(s, kind[s], l, st'[s], pending[s], closed'[s], err[s], result'[s], disk[s],
                        answer[s])
  <2>1. SessionOK(s, kind[s], pc[s], st[s], pending[s], closed[s], err[s], result'[s], disk[s], answer[s])
    <3>1. SessionOK(s, kind[s], pc[s], st[s], pending[s], closed[s], err[s], result[s], disk[s], answer[s])
      BY <1>0, <1>10 DEF SessionInv
    <3>2. CASE result' = result
      BY <3>1, <3>2
    <3>3. CASE TryFinish(s)
      BY <1>0, <1>10, <3>3, TryFinishEffect
    <3> QED BY <3>2, <3>3, <1>5
  <2> QED BY <1>1, <1>6, <2>1 DEF SessionOK
<1>11. RingAtOK'
  BY <1>0, <1>1, RingAtSame
<1> QED BY <1>0, <1>1, <1>3, <1>4, <1>12, <1>8, <1>9, <1>10, <1>11, OneStream

\* Blocking: a small object is one chunk.
LEMMA BlockingStream ==
    ASSUME Inv, NEW s \in Streams, Blocking(s), \A t \in Streams : t # s => short'[t] = short[t]
    PROVE  TaskInv' /\ ClientInv' /\ SessionInv'
<1>0. TypeOK /\ TaskInv /\ ClientInv /\ SessionInv
  BY DEF Inv
<1>1. /\ pc[s] = "await" /\ kind[s] = "small" /\ st' = Set(s, {1}, "framed")
      /\ pc' = [pc EXCEPT ![s] = "done"] /\ answer' = [answer EXCEPT ![s] = "ok"]
      /\ UNCHANGED <<kind, buf, pending, closed, err, result, ringAt, ring, left, got, disk>>
  BY DEF Blocking, sessVars
<1>2. Chunks[kind[s]] = 1 /\ Cs(s) = 1..1 /\ 1 \in Cs(s) /\ kind[s] \in Kinds
  BY <1>0, <1>1, ChunkNumbers, StreamAssumption DEF Cs
<1>3. TaskOK(kind[s], "await", st[s])
  BY <1>0, <1>1 DEF TaskInv
<1>4. st[s][1] = "held"
  BY <1>1, <1>3 DEF TaskOK
<1>5. /\ \A t \in Streams : t # s => st'[t] = st[t]
      /\ st'[s][1] = "framed"
  <2>1. st' = Set(s, {1}, "framed")
    BY <1>1
  <2>2. /\ \A t \in Streams : t # s => st'[t] = st[t]
        /\ \A d \in Cs(s) : st'[s][d] = IF d = 1 THEN "framed" ELSE st[s][d]
    BY <1>0, <2>1 DEF Set, TypeOK, ChunkTypes, Chunked, Cs
  <2> QED BY <1>2, <2>2
<1>6. /\ pc'[s] = "done" /\ answer'[s] = "ok"
      /\ \A t \in Streams : t # s => pc'[t] = pc[t] /\ answer'[t] = answer[t]
  BY <1>0, <1>1 DEF TypeOK, PlainTypes
<1>7. \A c \in 1..Chunks[kind[s]] : c = 1
  BY <1>2
<1>8. TaskOK(kind[s], "done", st'[s])
  BY <1>1, <1>5, <1>7 DEF TaskOK
<1>9. ClientOK(kind[s], "done", st'[s], got[s], left[s], "ok", short'[s])
  <2>1. ClientOK(kind[s], "await", st[s], got[s], left[s], answer[s], short[s])
    BY <1>0, <1>1 DEF ClientInv
  <2>2. Len(got[s]) \in Nat
    BY <1>0 DEF TypeOK, PlainTypes
  <2>3. Len(got[s]) = 0
    <3>1. Len(got[s]) <= 1 /\ \A i \in 1..Len(got[s]) : st[s][i] = "gone"
      BY <1>2, <2>1 DEF ClientOK
    <3> QED BY <1>4, <2>2, <3>1
  <2>4. ~left[s]
    BY <1>1, <2>1 DEF ClientOK
  <2> QED BY <1>1, <1>2, <1>5, <1>7, <2>3, <2>4 DEF ClientOK
<1>10. ASSUME ring = "up"
       PROVE  SessionOK(s, kind[s], "done", st'[s], pending[s], closed[s], err[s], result[s], disk[s], "ok")
  <2>1. SessionOK(s, kind[s], "await", st[s], pending[s], closed[s], err[s], result[s], disk[s], answer[s])
    BY <1>0, <1>1, <1>10 DEF SessionInv
  <2>2. {c \in 1..Chunks[kind[s]] : st'[s][c] = "writing"} = {c \in 1..Chunks[kind[s]] : st[s][c] = "writing"}
    BY <1>4, <1>5, <1>7
  <2> QED BY <1>1, <2>1, <2>2 DEF SessionOK
<1>11. RingAtOK'
  BY <1>0, <1>1, <1>2, <1>4, <1>5, <1>7, RingAtSame DEF Cs
<1> QED BY <1>0, <1>1, <1>5, <1>6, <1>8, <1>9, <1>10, <1>11, OneStream

\* SendFrame: the first result follows what has been sent.
LEMMA SendFrameStream ==
    ASSUME Inv, NEW s \in Streams, SendFrame(s)
    PROVE  TaskInv' /\ ClientInv' /\ SessionInv'
<1> DEFINE N == Chunks[kind[s]]
           F == Futures(s)
           c == First(F)
<1>0. TypeOK /\ TaskInv /\ ClientInv /\ SessionInv
  BY DEF Inv
<1>1. /\ pc[s] = "await" /\ kind[s] = "download" /\ ~left[s] /\ F # {} /\ st[s][c] = "read"
      /\ st' = Set(s, {c}, "framed")
      /\ UNCHANGED <<kind, buf, pending, closed, err, result, ringAt, ring, left, got, disk, short>>
  BY DEF SendFrame, HeadRead, sessVars
<1>2. PICK l \in {"plan", "done", "await"} :
        /\ pc' = [pc EXCEPT ![s] = l] /\ (l = "done" => Unplanned(s) = {} /\ F \ {c} = {})
  BY DEF SendFrame
<1>3. F \subseteq Nat /\ F \subseteq Cs(s) /\ \A d \in Cs(s) : d \in F <=> st[s][d] \in FutureStatuses
  BY <1>0, WithMember DEF Futures, FutureStatuses
<1>12. answer' = [answer EXCEPT ![s] = IF pc'[s] = "done" THEN "ok" ELSE @]
  BY DEF SendFrame
<1>13. \A d \in Cs(s) : d \in Unplanned(s) <=> st[s][d] = "none"
  BY <1>0, WithMember DEF Unplanned
<1> HIDE DEF F
<1>4. c \in F /\ \A d \in F : c <= d
  BY <1>1, <1>3, FirstMin
<1> HIDE DEF c
<1>14. c \in Cs(s)
  BY <1>3, <1>4
<1>5. /\ \A t \in Streams : t # s => st'[t] = st[t]
      /\ \A d \in Cs(s) : st'[s][d] = IF d = c THEN "framed" ELSE st[s][d]
  <2>1. st' = Set(s, {c}, "framed") /\ kind' = kind
    BY <1>1
  <2> QED BY <1>0, <2>1 DEF Set, TypeOK, ChunkTypes, Chunked, Cs
<1>15. pc'[s] = l /\ \A t \in Streams : t # s => pc'[t] = pc[t]
  BY <1>0, <1>2 DEF TypeOK, PlainTypes
<1>16. /\ answer'[s] = (IF l = "done" THEN "ok" ELSE answer[s])
       /\ \A t \in Streams : t # s => answer'[t] = answer[t]
  BY <1>0, <1>12, <1>15 DEF TypeOK, PlainTypes
<1>6. kind[s] \in Kinds /\ N \in Nat \ {0} /\ Cs(s) = 1..N
  BY <1>0, ChunkNumbers
<1>7. TaskOK(kind[s], "await", st[s])
  BY <1>0, <1>1 DEF TaskInv
<1>8. TaskOK(kind[s], l, st'[s])
  BY <1>1, <1>5, <1>6, <1>7 DEF TaskOK
<1>9. ClientOK(kind[s], l, st'[s], got[s], left[s], answer'[s], short'[s])
  <2> DEFINE n == Len(got[s])
  <2>1. ClientOK(kind[s], "await", st[s], got[s], left[s], answer[s], short[s])
    BY <1>0, <1>1 DEF ClientInv
  <2>2. n \in Nat
    BY <1>0 DEF TypeOK, PlainTypes
  <2>3. n <= N /\ \A i \in 1..n : i \in 1..N /\ st[s][i] = "gone"
    BY <1>6, <2>1, <2>2 DEF ClientOK
  <2>4. answer[s] # "ok"
    BY <1>1, <2>1 DEF ClientOK
  <2>5. \A d \in 1..N : st[s][d] = "gone" => d <= n
    BY <1>1, <2>1 DEF ClientOK
  <2>6. \A d, e \in 1..N : st[s][d] = "none" /\ d < e => st[s][e] = "none"
    BY <1>1, <2>1 DEF ClientOK
  <2>7. \A d, e \in 1..N : st[s][d] = "framed" /\ e <= d => e <= n \/ st[s][e] = "framed"
    BY <2>1 DEF ClientOK
  <2>8. \A d \in 1..N : st[s][d] \in {"none", "framed", "gone"} \/ st[s][d] \in FutureStatuses
    <3>1. \A d \in 1..N : st[s][d] \in Statuses
      BY <1>0 DEF TypeOK, ChunkTypes, Chunked
    <3>2. \A d \in 1..N : st[s][d] \notin {"planned", "writing", "completed"}
      BY <1>1, <1>7 DEF TaskOK
    <3> QED BY <3>1, <3>2 DEF Statuses, FutureStatuses
  <2>9. \A d \in 1..N : d < c => d <= n \/ st[s][d] = "framed"
    <3> SUFFICES ASSUME NEW d \in 1..N, d < c PROVE d <= n \/ st[s][d] = "framed"
      OBVIOUS
    <3>1. st[s][d] \notin FutureStatuses
      BY <1>3, <1>4, <1>6
    <3>2. st[s][d] # "none"
      BY <1>1, <1>6, <1>14, <2>6
    <3> QED BY <2>5, <2>8, <3>1, <3>2
  <2>10. st'[s][c] = "framed" /\ \A d \in 1..N : d # c => st'[s][d] = st[s][d]
    BY <1>5, <1>6, <1>14
  <2>11. \A i \in 1..n : i # c
    BY <1>1, <2>3
  <2>12. \A i \in 1..n : st'[s][i] = "gone"
    BY <2>3, <2>10, <2>11
  <2>13. \A d, e \in 1..N : st'[s][d] = "framed" /\ e <= d => e <= n \/ st'[s][e] = "framed"
    <3> SUFFICES ASSUME NEW d \in 1..N, NEW e \in 1..N, st'[s][d] = "framed", e <= d, e # c
                 PROVE  e <= n \/ st[s][e] = "framed"
      BY <2>10
    <3>1. CASE d = c
      <4>1. e < c
        BY <3>1, <1>6, <1>14
      <4> QED BY <4>1, <2>9
    <3>2. CASE d # c
      BY <3>2, <2>7, <2>10
    <3> QED BY <3>1, <3>2
  <2>14. \A d \in 1..N : st'[s][d] = "gone" => d <= n
    BY <2>5, <2>10
  <2>15. \A d, e \in 1..N : st'[s][d] = "none" /\ d < e => st'[s][e] = "none"
    BY <1>1, <1>6, <1>14, <2>6, <2>10
  <2>16. l = "done" => \A d \in 1..N : d <= n \/ st'[s][d] = "framed"
    <3> SUFFICES ASSUME l = "done", NEW d \in 1..N, d # c PROVE d <= n \/ st[s][d] = "framed"
      BY <2>10
    <3>1. st[s][d] # "none" /\ st[s][d] \notin FutureStatuses
      BY <1>2, <1>3, <1>6, <1>13
    <3> QED BY <2>5, <2>8, <3>1
  <2>17. answer'[s] = "ok" => l = "done"
    BY <1>16, <2>4
  <2> QED BY <1>1, <2>3, <2>12, <2>13, <2>14, <2>15, <2>16, <2>17 DEF ClientOK
<1>10. ASSUME ring = "up"
       PROVE  SessionOK(s, kind[s], l, st'[s], pending[s], closed[s], err[s], result[s], disk[s], answer'[s])
  <2>1. SessionOK(s, kind[s], "await", st[s], pending[s], closed[s], err[s], result[s], disk[s], answer[s])
    BY <1>0, <1>1, <1>10 DEF SessionInv
  <2>2. {d \in 1..N : st'[s][d] = "writing"} = {d \in 1..N : st[s][d] = "writing"}
    BY <1>1, <1>5, <1>6
  <2> QED BY <1>1, <2>1, <2>2 DEF SessionOK
<1>11. RingAtOK'
  BY <1>0, <1>1, <1>5, RingAtSame
<1> QED BY <1>0, <1>1, <1>5, <1>15, <1>16, <1>8, <1>9, <1>10, <1>11, OneStream

\* The first frame is the chunk that follows the ones the client has.
LEMMA NextFrame ==
    ASSUME TypeOK, ClientInv, NEW s \in Streams, NEW c \in Cs(s), st[s][c] = "framed",
           \A d \in Cs(s) : st[s][d] = "framed" => c <= d
    PROVE  c = Len(got[s]) + 1
<1> DEFINE N == Chunks[kind[s]]
           n == Len(got[s])
<1>1. ClientOK(kind[s], pc[s], st[s], got[s], left[s], answer[s], short[s])
  BY DEF ClientInv
<1>2. N \in Nat \ {0} /\ Cs(s) = 1..N /\ n \in Nat
  BY ChunkNumbers DEF TypeOK, PlainTypes
<1>3. n <= N /\ \A i \in 1..n : st[s][i] = "gone"
  BY <1>1 DEF ClientOK
<1>4. ~(c <= n)
  BY <1>2, <1>3
<1>5. n + 1 \in 1..N /\ n + 1 <= c
  BY <1>2, <1>4
<1>6. n + 1 <= n \/ st[s][n + 1] = "framed"
  BY <1>1, <1>2, <1>5 DEF ClientOK
<1>7. c <= n + 1
  BY <1>2, <1>5, <1>6
<1> QED BY <1>2, <1>5, <1>7

\* Consume: the client gets that chunk.
LEMMA ConsumeStream ==
    ASSUME Inv, NEW s \in Streams, Consume(s)
    PROVE  TaskInv' /\ ClientInv' /\ SessionInv'
<1> DEFINE N == Chunks[kind[s]]
           c == First(With(s, {"framed"}))
           n == Len(got[s])
<1>0. TypeOK /\ TaskInv /\ ClientInv /\ SessionInv /\ PoolInv
  BY DEF Inv
<1>1. c \in Cs(s) /\ st[s][c] = "framed" /\ \A d \in Cs(s) : st[s][d] = "framed" => c <= d
  BY <1>0, FirstMin, WithMember DEF Consume
<1>2. /\ st' = Set(s, {c}, "gone") /\ got' = [got EXCEPT ![s] = Append(@, content[buf[s][c]])]
      /\ UNCHANGED <<kind, pc, buf, pending, closed, err, result, ringAt, ring, left, disk, answer, short>>
  BY DEF Consume, sessVars
<1> HIDE DEF c
<1>3. content[buf[s][c]] \in Tags
  <2>1. st[s][c] \in HeldStatuses
    BY <1>1 DEF HeldStatuses
  <2> QED BY <1>0, <1>1, <2>1, ContentType
<1>4. got'[s] = Append(got[s], content[buf[s][c]]) /\ \A t \in Streams : t # s => got'[t] = got[t]
  BY <1>0, <1>2 DEF TypeOK, PlainTypes
<1>5. /\ \A t \in Streams : t # s => st'[t] = st[t]
      /\ \A d \in Cs(s) : st'[s][d] = IF d = c THEN "gone" ELSE st[s][d]
  <2>1. st' = Set(s, {c}, "gone") /\ kind' = kind
    BY <1>2
  <2> QED BY <1>0, <2>1 DEF Set, TypeOK, ChunkTypes, Chunked, Cs
<1>6. kind[s] \in Kinds /\ N \in Nat \ {0} /\ Cs(s) = 1..N
  BY <1>0, ChunkNumbers
<1>7. TaskOK(kind[s], pc[s], st[s])
  BY <1>0 DEF TaskInv
<1>12. kind[s] \in {"download", "small"}
  BY <1>1, <1>6, <1>7 DEF TaskOK, Kinds
<1>8. TaskOK(kind[s], pc[s], st'[s])
  BY <1>1, <1>5, <1>6, <1>7, <1>12 DEF TaskOK
<1>9. ClientOK(kind[s], pc[s], st'[s], got'[s], left[s], answer[s], short[s])
  <2>1. ClientOK(kind[s], pc[s], st[s], got[s], left[s], answer[s], short[s])
    BY <1>0 DEF ClientInv
  <2>2. n \in Nat /\ Len(got'[s]) = n + 1
    <3>1. got[s] \in Seq(Tags)
      BY <1>0 DEF TypeOK, PlainTypes
    <3> QED BY <1>3, <1>4, <3>1
  <2>3. n <= N /\ \A i \in 1..n : i \in 1..N /\ st[s][i] = "gone"
    BY <1>6, <2>1, <2>2 DEF ClientOK
  <2>4. c = n + 1
    BY <1>0, <1>1, NextFrame
  <2>5. ~left[s]
    BY <1>1, <1>6, <2>1 DEF ClientOK
  <2>6. st'[s][n + 1] = "gone" /\ \A d \in 1..N : d # n + 1 => st'[s][d] = st[s][d]
    BY <1>1, <1>5, <1>6, <2>4
  <2>7. n + 1 <= N /\ \A i \in 1..(n + 1) : st'[s][i] = "gone"
    <3>1. n + 1 <= N
      BY <1>1, <1>6, <2>4
    <3>2. \A i \in 1..n : i # n + 1 /\ i \in 1..N
      BY <2>2, <2>3
    <3>3. \A i \in 1..n : st'[s][i] = "gone"
      BY <2>2, <2>3, <2>6, <3>2
    <3>4. \A i \in 1..(n + 1) : i \in 1..n \/ i = n + 1
      BY <2>2
    <3> QED BY <2>2, <2>4, <2>6, <3>1, <3>3, <3>4
  <2>8. \A d, e \in 1..N : st'[s][d] = "framed" /\ e <= d => e <= n + 1 \/ st'[s][e] = "framed"
    <3> SUFFICES ASSUME NEW d \in 1..N, NEW e \in 1..N, st'[s][d] = "framed", e <= d, e # n + 1
                 PROVE  e <= n + 1 \/ st'[s][e] = "framed"
      BY <1>6, <2>2
    <3>1. st[s][d] = "framed"
      BY <2>6
    <3>2. e <= n \/ st[s][e] = "framed"
      BY <2>1, <3>1 DEF ClientOK
    <3> QED BY <1>6, <2>2, <2>6, <3>2
  <2>9. kind[s] = "download" /\ pc[s] # "done" =>
          /\ \A d \in 1..N : st'[s][d] = "gone" => d <= n + 1
          /\ \A d, e \in 1..N : st'[s][d] = "none" /\ d < e => st'[s][e] = "none"
    <3> HAVE kind[s] = "download" /\ pc[s] # "done"
    <3>1. /\ \A d \in 1..N : st[s][d] = "gone" => d <= n
          /\ \A d, e \in 1..N : st[s][d] = "none" /\ d < e => st[s][e] = "none"
      BY <2>1, <2>5 DEF ClientOK
    <3>2. \A d \in 1..N : st'[s][d] = "gone" => d <= n + 1
      BY <1>6, <2>2, <2>6, <3>1
    <3>3. st[s][n + 1] = "framed"
      BY <1>1, <2>4
    <3>4. n + 1 \in 1..N
      BY <1>1, <1>6, <2>4
    <3>5. \A d \in 1..N : st'[s][d] = "none" <=> st[s][d] = "none"
      BY <2>6, <3>3
    <3> QED BY <3>1, <3>2, <3>5
  <2>10. answer[s] = "ok" =>
           pc[s] = "done" /\ (short[s] = {} => \A d \in 1..N : d <= n + 1 \/ st'[s][d] = "framed")
    <3> HAVE answer[s] = "ok"
    <3>1. pc[s] = "done" /\ (short[s] = {} => \A d \in 1..N : d <= n \/ st[s][d] = "framed")
      BY <1>12, <2>1, <2>5 DEF ClientOK
    <3>2. \A d \in 1..N : d <= n => d <= n + 1
      BY <1>6, <2>2
    <3>3. n + 1 <= n + 1
      BY <2>2
    <3> QED BY <2>6, <3>1, <3>2, <3>3
  <2> QED BY <2>2, <2>5, <2>7, <2>8, <2>9, <2>10 DEF ClientOK
<1>10. ASSUME ring = "up"
       PROVE  SessionOK(s, kind[s], pc[s], st'[s], pending[s], closed[s], err[s], result[s], disk[s], answer[s])
  <2>1. SessionOK(s, kind[s], pc[s], st[s], pending[s], closed[s], err[s], result[s], disk[s], answer[s])
    BY <1>0, <1>10 DEF SessionInv
  <2>2. {d \in 1..N : st'[s][d] = "writing"} = {d \in 1..N : st[s][d] = "writing"}
    BY <1>1, <1>5, <1>6
  <2> QED BY <1>12, <2>1, <2>2 DEF SessionOK
<1>11. RingAtOK'
  BY <1>0, <1>1, <1>2, <1>5, RingAtSame
<1> QED BY <1>0, <1>2, <1>4, <1>5, <1>8, <1>9, <1>10, <1>11, OneStream

\* Receive: an upload goes on to write the chunk, or drops it when the session
\* is cancelled.
LEMMA ReceiveStream ==
    ASSUME Inv, NEW s \in Streams, Receive(s)
    PROVE  TaskInv' /\ ClientInv' /\ SessionInv'
<1> DEFINE N == Chunks[kind[s]]
           c == First(With(s, {"held"}))
<1>0. TypeOK /\ TaskInv /\ ClientInv /\ SessionInv
  BY DEF Inv
<1>1. /\ pc[s] = "recv"
      /\ UNCHANGED <<kind, buf, pending, closed, err, result, ringAt, ring, left, got, disk, answer, short>>
  BY DEF Receive, sessVars
<1>2. TaskOK(kind[s], "recv", st[s]) /\ kind[s] \in Kinds /\ N \in Nat \ {0} /\ Cs(s) = 1..N
  BY <1>0, <1>1, ChunkNumbers DEF TaskInv
<1>3. kind[s] = "upload" /\ \E d \in 1..N : st[s][d] = "held"
  BY <1>2 DEF TaskOK, Kinds
<1>4. c \in Cs(s) /\ st[s][c] = "held"
  <2>1. With(s, {"held"}) # {}
    BY <1>0, <1>2, <1>3, WithMember
  <2> QED BY <1>0, <2>1, FirstMin, WithMember
<1>5. PICK l \in {"submit", "close", "plan"} :
        /\ pc' = [pc EXCEPT ![s] = l]
        /\ \/ l = "submit" /\ st' = st
           \/ l # "submit" /\ st' = Set(s, {c}, "gone") /\ Cancelled(s)
  BY DEF Receive, AfterChunk
<1>6. pc'[s] = l /\ \A t \in Streams : t # s => pc'[t] = pc[t]
  BY <1>0, <1>5 DEF TypeOK, PlainTypes
<1> HIDE DEF c
<1>7. ClientOK(kind[s], "recv", st[s], got[s], left[s], answer[s], short[s]) /\ Len(got[s]) \in Nat
  BY <1>0, <1>1 DEF ClientInv, TypeOK, PlainTypes
<1>8. ring = "up" => SessionOK(s, kind[s], "recv", st[s], pending[s], closed[s], err[s], result[s], disk[s],
                               answer[s])
  BY <1>0, <1>1 DEF SessionInv
<1>9. CASE l = "submit" /\ st' = st
  <2>1. TaskOK(kind[s], "submit", st[s])
    BY <1>2, <1>3 DEF TaskOK
  <2>2. ClientOK(kind[s], "submit", st[s], got[s], left[s], answer[s], short[s])
    BY <1>2, <1>3, <1>7, ClientGone
  <2>3. ring = "up" => SessionOK(s, kind[s], "submit", st[s], pending[s], closed[s], err[s], result[s],
                                 disk[s], answer[s])
    BY <1>8 DEF SessionOK
  <2>4. RingAtOK'
    BY <1>0, <1>1, <1>9 DEF TaskInv, RingAtOK
  <2> QED BY <1>0, <1>1, <1>6, <1>9, <2>1, <2>2, <2>3, <2>4, OneStream
<1>10. CASE l \in {"close", "plan"} /\ st' = Set(s, {c}, "gone") /\ Cancelled(s)
  <2>1. /\ \A t \in Streams : t # s => st'[t] = st[t]
        /\ \A d \in Cs(s) : st'[s][d] = IF d = c THEN "gone" ELSE st[s][d]
    <3>1. st' = Set(s, {c}, "gone") /\ kind' = kind
      BY <1>1, <1>10
    <3> QED BY <1>0, <3>1 DEF Set, TypeOK, ChunkTypes, Chunked, Cs
  <2>2. TaskOK(kind[s], l, st'[s])
    BY <1>2, <1>3, <1>4, <1>10, <2>1, ZenonT(60) DEF TaskOK
  <2>3. ClientOK(kind[s], l, st'[s], got[s], left[s], answer[s], short[s])
    <3>1. \A d \in 1..N : /\ st[s][d] = "framed" <=> st'[s][d] = "framed"
                          /\ st[s][d] = "gone" => st'[s][d] = "gone"
      BY <1>2, <1>4, <2>1
    <3> QED BY <1>2, <1>3, <1>7, <3>1, ClientGone
  <2>4. ASSUME ring = "up"
        PROVE  SessionOK(s, kind[s], l, st'[s], pending[s], closed[s], err[s], result[s], disk[s], answer[s])
    <3>1. {d \in 1..N : st'[s][d] = "writing"} = {d \in 1..N : st[s][d] = "writing"}
      BY <1>2, <1>4, <2>1
    <3>2. err[s]
      BY <1>10, <2>4 DEF Cancelled
    <3> QED BY <1>8, <1>10, <2>4, <3>1, <3>2 DEF SessionOK
  <2>5. RingAtOK'
    BY <1>0, <1>1, <1>4, <2>1, RingAtSame
  <2> QED BY <1>0, <1>1, <1>6, <2>1, <2>2, <2>3, <2>4, <2>5, OneStream
<1> QED BY <1>5, <1>9, <1>10

\* SubmitWrite: the write is counted, and the task closes the session only
\* when there is nothing else to write.
LEMMA SubmitWriteStream ==
    ASSUME Inv, NEW s \in Streams, SubmitWrite(s)
    PROVE  TaskInv' /\ ClientInv' /\ SessionInv'
<1> DEFINE N == Chunks[kind[s]]
           c == First(With(s, {"held", "read"}))
<1>0. TypeOK /\ TaskInv /\ ClientInv /\ SessionInv
  BY DEF Inv
<1>1. /\ pc[s] = "submit"
      /\ UNCHANGED <<kind, buf, closed, result, ringAt, ring, left, got, disk, answer, short>>
  BY DEF SubmitWrite
<1>2. TaskOK(kind[s], "submit", st[s]) /\ kind[s] \in Kinds /\ N \in Nat \ {0} /\ Cs(s) = 1..N
  BY <1>0, <1>1, ChunkNumbers DEF TaskInv
<1>3. kind[s] \in {"upload", "copy"} /\ \E d \in 1..N : st[s][d] \in {"held", "read"}
  BY <1>2 DEF TaskOK, Kinds
<1>4. c \in Cs(s) /\ st[s][c] \in {"held", "read"}
  <2>1. With(s, {"held", "read"}) # {}
    BY <1>0, <1>2, <1>3, WithMember
  <2> QED BY <1>0, <2>1, FirstMin, WithMember
<1>7. SendWrite(s, c) \/ DropWrite(s, c)
  BY DEF SubmitWrite
<1>8. PICK v \in {"gone", "writing"} : /\ st' = Set(s, {c}, v)
                                       /\ v = "writing" => SendWrite(s, c)
                                       /\ v = "gone" => DropWrite(s, c)
  BY <1>7 DEF SendWrite, DropWrite
<1>5. PICK l \in {"close", "plan", "await"} :
        /\ pc' = [pc EXCEPT ![s] = l]
        /\ kind[s] = "upload" => l # "await"
        /\ v = "writing" /\ l = "close" =>
             Unplanned(s) = {} /\ (kind[s] = "upload" \/ Futures(s) \ {c} = {})
  BY <1>7, <1>8 DEF SendWrite, DropWrite, AfterChunk
<1>6. pc'[s] = l /\ \A t \in Streams : t # s => pc'[t] = pc[t]
  BY <1>0, <1>5 DEF TypeOK, PlainTypes
<1> HIDE DEF c
<1>9. /\ \A t \in Streams : t # s => st'[t] = st[t]
      /\ \A d \in Cs(s) : st'[s][d] = IF d = c THEN v ELSE st[s][d]
  <2>1. st' = Set(s, {c}, v) /\ kind' = kind /\ v \in Statuses
    BY <1>1, <1>8, Names
  <2> QED BY <1>0, <2>1, SetOne
<1>10. TaskOK(kind[s], l, st'[s])
  <2>1. CASE kind[s] = "upload"
    BY <1>2, <1>4, <1>5, <1>9, <2>1 DEF TaskOK
  <2>2. CASE kind[s] = "copy"
    BY <1>2, <1>9, <2>2 DEF TaskOK
  <2> QED BY <1>3, <2>1, <2>2
<1>11. ClientOK(kind[s], l, st'[s], got[s], left[s], answer[s], short[s])
  <2>1. ClientOK(kind[s], "submit", st[s], got[s], left[s], answer[s], short[s]) /\ Len(got[s]) \in Nat
    BY <1>0, <1>1 DEF ClientInv, TypeOK, PlainTypes
  <2>2. \A d \in 1..N : /\ st[s][d] = "framed" <=> st'[s][d] = "framed"
                        /\ st[s][d] = "gone" => st'[s][d] = "gone"
    BY <1>2, <1>4, <1>9
  <2> QED BY <1>2, <1>3, <2>1, <2>2, ClientGone
<1>12. \A t \in Streams \ {s} : pending'[t] = pending[t] /\ err'[t] = err[t]
  <2>1. CASE SendWrite(s, c)
    <3>1. pending' = [pending EXCEPT ![s] = @ + 1] /\ err' = err
      BY <2>1 DEF SendWrite
    <3> QED BY <1>0, <3>1 DEF TypeOK, PlainTypes
  <2>2. CASE DropWrite(s, c)
    BY <1>0, <2>2, DropWriteErr
  <2> QED BY <1>7, <2>1, <2>2
<1>13. ASSUME ring = "up"
       PROVE  SessionOK(s, kind[s], l, st'[s], pending'[s], closed[s], err'[s], result[s], disk[s], answer[s])
  <2> DEFINE W == {d \in 1..N : st[s][d] = "writing"}
             X == {d \in 1..N : st'[s][d] = "writing"}
  <2>1. SessionOK(s, kind[s], "submit", st[s], pending[s], closed[s], err[s], result[s], disk[s], answer[s])
    BY <1>0, <1>1, <1>13 DEF SessionInv
  <2>8. l \notin {"closed", "wait", "answer", "done"} /\ ~(answer[s] = "ok") /\ ~closed[s]
    BY <1>3, <2>1 DEF SessionOK
  <2>9. CASE v = "gone"
    \* The ring is up, so that only an error cancels the session.
    <3>1. err[s] /\ err'[s] /\ pending' = pending
      BY <1>0, <1>8, <1>13, <2>9, DropWriteErr DEF DropWrite, Cancelled
    <3>2. X = W
      BY <1>2, <1>4, <1>9, <2>9
    <3> QED BY <2>1, <2>8, <3>1, <3>2 DEF SessionOK
  <2>10. CASE v = "writing"
    <3>2. err' = err /\ pending'[s] = pending[s] + 1
      <4>1. pending' = [pending EXCEPT ![s] = @ + 1] /\ err' = err
        BY <1>8, <2>10 DEF SendWrite
      <4> QED BY <1>0, <4>1 DEF TypeOK, PlainTypes
    <3>3. X = W \cup {c} /\ c \notin W
      BY <1>2, <1>4, <1>9, <2>10
    <3>4. IsFiniteSet(W)
      BY <1>0, <1>2, ChunkNumbers, FS_Subset
    <3>5. pending'[s] = Cardinality(X)
      <4>1. pending[s] = Cardinality(W)
        BY <2>1 DEF SessionOK
      <4> HIDE DEF W, X
      <4> QED BY <3>2, <3>3, <3>4, <4>1, FS_AddElement, SMTT(60)
    <3>6. l = "close" => \A d \in 1..N : st'[s][d] \in {"writing", "completed", "gone"}
      <4> SUFFICES ASSUME l = "close", NEW d \in 1..N, d # c
                   PROVE  st[s][d] \in {"writing", "completed", "gone"}
        BY <1>2, <1>9, <2>10
      <4>1. st[s][d] # "none"
        BY <1>0, <1>2, <1>5, <2>10, WithMember DEF Unplanned
      <4>2. CASE kind[s] = "upload"
        BY <1>2, <1>4, <4>1, <4>2 DEF TaskOK
      <4>3. CASE kind[s] = "copy"
        <5>1. st[s][d] \notin FutureStatuses
          BY <1>0, <1>2, <1>5, <2>10, <4>3, WithMember DEF Futures, FutureStatuses
        <5>2. st[s][d] # "framed"
          BY <1>2, <4>3 DEF TaskOK
        <5>3. st[s][d] \in Statuses
          BY <1>0 DEF TypeOK, ChunkTypes, Chunked
        <5> QED BY <4>1, <5>1, <5>2, <5>3 DEF FutureStatuses, Statuses
      <4> QED BY <1>3, <4>2, <4>3
    <3>7. \A d \in 1..N : st'[s][d] # st[s][d] => st'[s][d] = "writing"
      BY <1>2, <1>9, <2>10
    <3> QED BY <2>1, <3>2, <3>5, <3>6, <3>7, <2>8 DEF SessionOK
  <2> QED BY <2>9, <2>10
<1>14. RingAtOK'
  BY <1>0, <1>1, <1>4, <1>9, RingAtSame
<1> QED BY <1>0, <1>1, <1>6, <1>9, <1>10, <1>11, <1>12, <1>13, <1>14, OneStream

\* A read completes: the result waits for its turn, or nobody wants it any more.
LEMMA ReadCompletesStream ==
    ASSUME Inv, NEW s \in Streams, NEW c \in Cs(s), ReadCompletes(s, c),
           short'[s] = {} => short[s] = {}, \A t \in Streams : t # s => short'[t] = short[t]
    PROVE  TaskInv' /\ ClientInv' /\ SessionInv'
<1> DEFINE N == Chunks[kind[s]]
<1>0. TypeOK /\ TaskInv /\ ClientInv /\ SessionInv
  BY DEF Inv
<1>1. /\ st[s][c] = "reading"
      /\ UNCHANGED <<kind, pc, buf, pending, closed, err, result, ringAt, ring, left, got, disk, answer>>
  BY DEF ReadCompletes, sessVars
<1>2. PICK v \in {"gone", "read"} : st' = Set(s, {c}, v) /\ (v = "gone" <=> pc[s] = "done")
  BY DEF ReadCompletes
<1>3. /\ \A t \in Streams : t # s => st'[t] = st[t]
      /\ \A d \in Cs(s) : st'[s][d] = IF d = c THEN v ELSE st[s][d]
  <2>1. st' = Set(s, {c}, v) /\ kind' = kind /\ v \in Statuses
    BY <1>1, <1>2, Names
  <2> QED BY <1>0, <2>1, SetOne
<1>4. TaskOK(kind[s], pc[s], st[s]) /\ kind[s] \in Kinds /\ N \in Nat \ {0} /\ Cs(s) = 1..N
  BY <1>0, ChunkNumbers DEF TaskInv
<1>5. kind[s] \in {"download", "copy"}
  BY <1>1, <1>4 DEF TaskOK, Kinds
<1>6. TaskOK(kind[s], pc[s], st'[s])
  <2>1. CASE kind[s] = "download"
    BY <1>3, <1>4, <2>1 DEF TaskOK
  <2>2. CASE kind[s] = "copy"
    BY <1>1, <1>2, <1>3, <1>4, <2>2, ZenonT(60) DEF TaskOK, FutureStatuses
  <2> QED BY <1>5, <2>1, <2>2
<1>7. ClientOK(kind[s], pc[s], st'[s], got[s], left[s], answer[s], short'[s])
  <2>1. ClientOK(kind[s], pc[s], st[s], got[s], left[s], answer[s], short[s]) /\ Len(got[s]) \in Nat
    BY <1>0 DEF ClientInv, TypeOK, PlainTypes
  <2>2. CASE pc[s] = "done"
    <3>1. \A d \in 1..N : /\ st[s][d] = "framed" <=> st'[s][d] = "framed"
                          /\ st[s][d] = "gone" => st'[s][d] = "gone"
      BY <1>1, <1>3, <1>4
    <3> QED BY <1>4, <2>1, <2>2, <3>1, ClientGone
  <2>3. CASE pc[s] # "done"
    <3>1. \A d \in 1..N : /\ st[s][d] = "framed" <=> st'[s][d] = "framed"
                          /\ st[s][d] = "gone" <=> st'[s][d] = "gone"
                          /\ st[s][d] = "none" <=> st'[s][d] = "none"
      BY <1>1, <1>2, <1>3, <1>4, <2>3
    <3>2. kind[s] = "download" => \A d, e \in 1..N : st'[s][d] = "none" /\ d < e => st'[s][e] = "none"
      BY <2>1, <2>3, <3>1 DEF ClientOK
    <3> QED BY <1>4, <2>1, <3>1, <3>2, ClientMove
  <2> QED BY <2>2, <2>3
<1>8. ASSUME ring = "up"
      PROVE  SessionOK(s, kind[s], pc[s], st'[s], pending[s], closed[s], err[s], result[s], disk[s], answer[s])
  <2>1. SessionOK(s, kind[s], pc[s], st[s], pending[s], closed[s], err[s], result[s], disk[s], answer[s])
    BY <1>0, <1>8 DEF SessionInv
  <2>2. {d \in 1..N : st'[s][d] = "writing"} = {d \in 1..N : st[s][d] = "writing"}
    BY <1>1, <1>3, <1>4
  <2>3. CASE pc[s] = "done"
    BY <2>1, <2>2, <2>3 DEF SessionOK
  <2>4. CASE pc[s] # "done"
    <3>1. \A d \in 1..N : /\ st[s][d] = "writing" <=> st'[s][d] = "writing"
                          /\ st[s][d] = "completed" <=> st'[s][d] = "completed"
                          /\ st[s][d] = "gone" <=> st'[s][d] = "gone"
      BY <1>1, <1>2, <1>3, <1>4, <2>4
    <3> QED BY <2>1, <2>4, <3>1, SessionMove
  <2> QED BY <2>3, <2>4
<1>9. RingAtOK'
  BY <1>0, <1>1, <1>3, RingAtSame
<1> QED BY <1>0, <1>1, <1>3, <1>6, <1>7, <1>8, <1>9, OneStream

\* A read fails or finds nothing, and the task finds that.
LEMMA ReadEndsStream ==
    ASSUME Inv, NEW s \in Streams, NEW c \in Cs(s), ReadEnds(s, c),
           err[s] => err'[s], \A t \in Streams : t # s => err'[t] = err[t],
           short'[s] = {} => short[s] = {}, \A t \in Streams : t # s => short'[t] = short[t]
    PROVE  TaskInv' /\ ClientInv' /\ SessionInv'
<1> DEFINE N == Chunks[kind[s]]
<1>0. TypeOK /\ TaskInv /\ ClientInv /\ SessionInv
  BY DEF Inv
<1>1. /\ st[s][c] = "reading"
      /\ UNCHANGED <<kind, pc, buf, pending, closed, result, ringAt, ring, left, got, disk, answer>>
  BY DEF ReadEnds
<1>2. PICK v \in {"gone", "failed"} : st' = Set(s, {c}, v) /\ (v = "gone" <=> pc[s] = "done")
  BY DEF ReadEnds, Dead
<1>3. /\ \A t \in Streams : t # s => st'[t] = st[t]
      /\ \A d \in Cs(s) : st'[s][d] = IF d = c THEN v ELSE st[s][d]
  <2>1. st' = Set(s, {c}, v) /\ kind' = kind /\ v \in Statuses
    BY <1>1, <1>2, Names
  <2> QED BY <1>0, <2>1, SetOne
<1>4. TaskOK(kind[s], pc[s], st[s]) /\ kind[s] \in Kinds /\ N \in Nat \ {0} /\ Cs(s) = 1..N
  BY <1>0, ChunkNumbers DEF TaskInv
<1>5. kind[s] \in {"download", "copy"}
  BY <1>1, <1>4 DEF TaskOK, Kinds
<1>6. TaskOK(kind[s], pc[s], st'[s])
  <2>1. CASE kind[s] = "download"
    BY <1>3, <1>4, <2>1 DEF TaskOK
  <2>2. CASE kind[s] = "copy"
    BY <1>1, <1>2, <1>3, <1>4, <2>2, ZenonT(60) DEF TaskOK, FutureStatuses
  <2> QED BY <1>5, <2>1, <2>2
<1>7. ClientOK(kind[s], pc[s], st'[s], got[s], left[s], answer[s], short'[s])
  <2>1. ClientOK(kind[s], pc[s], st[s], got[s], left[s], answer[s], short[s]) /\ Len(got[s]) \in Nat
    BY <1>0 DEF ClientInv, TypeOK, PlainTypes
  <2>2. CASE pc[s] = "done"
    <3>1. \A d \in 1..N : /\ st[s][d] = "framed" <=> st'[s][d] = "framed"
                          /\ st[s][d] = "gone" => st'[s][d] = "gone"
      BY <1>1, <1>3, <1>4
    <3> QED BY <1>4, <2>1, <2>2, <3>1, ClientGone
  <2>3. CASE pc[s] # "done"
    <3>1. \A d \in 1..N : /\ st[s][d] = "framed" <=> st'[s][d] = "framed"
                          /\ st[s][d] = "gone" <=> st'[s][d] = "gone"
                          /\ st[s][d] = "none" <=> st'[s][d] = "none"
      BY <1>1, <1>2, <1>3, <1>4, <2>3
    <3>2. kind[s] = "download" => \A d, e \in 1..N : st'[s][d] = "none" /\ d < e => st'[s][e] = "none"
      BY <2>1, <2>3, <3>1 DEF ClientOK
    <3> QED BY <1>4, <2>1, <3>1, <3>2, ClientMove
  <2> QED BY <2>2, <2>3
<1>8. ASSUME ring = "up"
      PROVE  SessionOK(s, kind[s], pc[s], st'[s], pending[s], closed[s], err'[s], result[s], disk[s], answer[s])
  <2>1. SessionOK(s, kind[s], pc[s], st[s], pending[s], closed[s], err[s], result[s], disk[s], answer[s])
    BY <1>0, <1>8 DEF SessionInv
  <2>2. {d \in 1..N : st'[s][d] = "writing"} = {d \in 1..N : st[s][d] = "writing"}
    BY <1>1, <1>3, <1>4
  <2>3. CASE pc[s] = "done"
    BY <2>1, <2>2, <2>3 DEF SessionOK
  <2>4. CASE pc[s] # "done"
    <3>1. \A d \in 1..N : /\ st[s][d] = "writing" <=> st'[s][d] = "writing"
                          /\ st[s][d] = "completed" <=> st'[s][d] = "completed"
                          /\ st[s][d] = "gone" <=> st'[s][d] = "gone"
      BY <1>1, <1>2, <1>3, <1>4, <2>4
    <3> QED BY <2>1, <2>4, <3>1, SessionMove
  <2> QED BY <2>3, <2>4
<1>9. RingAtOK'
  BY <1>0, <1>1, <1>3, RingAtSame
<1> QED BY <1>0, <1>1, <1>3, <1>6, <1>7, <1>8, <1>9, OneStream

\* WriteLands and WriteFails: a write that is no longer counted is on disk, or
\* the session has an error.
LEMMA WriteStream ==
    ASSUME Inv, NEW s \in Streams, NEW c \in Cs(s), WriteLands(s, c) \/ WriteFails(s, c)
    PROVE  TaskInv' /\ ClientInv' /\ SessionInv'
<1> DEFINE N == Chunks[kind[s]]
<1>0. TypeOK /\ TaskInv /\ ClientInv /\ SessionInv /\ DataInv
  BY DEF Inv
<1>1. /\ st[s][c] = "writing" /\ st' = Set(s, {c}, "completed") /\ ringAt' = <<s, c>>
      /\ pending' = [pending EXCEPT ![s] = @ - 1]
      /\ UNCHANGED <<kind, pc, buf, content, closed, result, ring, left, got, answer, short>>
      /\ ring = "up"
  BY DEF WriteLands, WriteFails, WriteCompletes
<1>2. \/ disk' = [disk EXCEPT ![s][c] = content[buf[s][c]]] /\ err' = err
      \/ disk' = disk /\ err' = [err EXCEPT ![s] = TRUE]
  BY DEF WriteLands, WriteFails
<1>3. /\ \A t \in Streams : t # s => st'[t] = st[t]
      /\ \A d \in Cs(s) : st'[s][d] = IF d = c THEN "completed" ELSE st[s][d]
  <2>1. st' = Set(s, {c}, "completed") /\ kind' = kind /\ "completed" \in Statuses /\ TypeOK
    BY <1>0, <1>1, Names
  <2> QED BY <2>1, SetOne
<1>4. TaskOK(kind[s], pc[s], st[s]) /\ kind[s] \in Kinds /\ N \in Nat \ {0} /\ Cs(s) = 1..N
  BY <1>0, ChunkNumbers DEF TaskInv
<1>5. kind[s] \in {"upload", "copy"}
  BY <1>1, <1>4 DEF TaskOK, Kinds
<1>6. TaskOK(kind[s], pc[s], st'[s])
  <2>1. CASE kind[s] = "upload"
    BY <1>1, <1>3, <1>4, <2>1, ZenonT(60) DEF TaskOK
  <2>2. CASE kind[s] = "copy"
    BY <1>1, <1>3, <1>4, <2>2, ZenonT(60) DEF TaskOK, FutureStatuses
  <2> QED BY <1>5, <2>1, <2>2
<1>7. ClientOK(kind[s], pc[s], st'[s], got[s], left[s], answer[s], short[s])
  <2>1. ClientOK(kind[s], pc[s], st[s], got[s], left[s], answer[s], short[s]) /\ Len(got[s]) \in Nat
    BY <1>0 DEF ClientInv, TypeOK, PlainTypes
  <2>2. \A d \in 1..N : /\ st[s][d] = "framed" <=> st'[s][d] = "framed"
                        /\ st[s][d] = "gone" => st'[s][d] = "gone"
    BY <1>1, <1>3, <1>4
  <2> QED BY <1>4, <1>5, <2>1, <2>2, ClientGone
<1>8. /\ pending'[s] = pending[s] - 1 /\ pending[s] \in Int
      /\ \A t \in Streams : t # s => pending'[t] = pending[t]
  BY <1>0, <1>1 DEF TypeOK, PlainTypes
<1>9. /\ \A t \in Streams : t # s => err'[t] = err[t]
      /\ err'[s] = TRUE \/ err' = err
  BY <1>0, <1>2 DEF TypeOK, PlainTypes
<1>10. /\ \A t \in Streams : t # s => disk'[t] = disk[t]
       /\ \A d \in 1..N : d # c => disk'[s][d] = disk[s][d]
       /\ disk'[s][c] = disk[s][c] \/ disk'[s][c] = <<s, c>>
       /\ err'[s] # TRUE => disk'[s][c] = <<s, c>>
  <2>1. content[buf[s][c]] = <<s, c>>
    BY <1>0, <1>1 DEF DataInv, DataOK, FullStatuses
  <2>2. disk = [t \in Streams |-> disk[t]] /\ disk[s] \in [1..N -> Tags]
    BY <1>0 DEF TypeOK, ChunkTypes, Chunked
  <2>3. CASE disk' = [disk EXCEPT ![s][c] = content[buf[s][c]]]
    <3>1. disk' = [disk EXCEPT ![s][c] = <<s, c>>]
      BY <2>1, <2>3
    <3> QED BY <1>4, <2>2, <3>1
  <2>4. CASE disk' = disk /\ err' = [err EXCEPT ![s] = TRUE]
    <3>1. err'[s] = TRUE
      BY <1>0, <2>4 DEF TypeOK, PlainTypes
    <3> QED BY <2>4, <3>1
  <2> QED BY <1>2, <2>3, <2>4
<1>11. ASSUME ring = "up"
       PROVE  SessionOK(s, kind[s], pc[s], st'[s], pending'[s], closed[s], err'[s], result[s], disk'[s],
                        answer[s])
  <2> DEFINE W == {d \in 1..N : st[s][d] = "writing"}
             X == {d \in 1..N : st'[s][d] = "writing"}
  <2>1. SessionOK(s, kind[s], pc[s], st[s], pending[s], closed[s], err[s], result[s], disk[s], answer[s])
    BY <1>0, <1>11 DEF SessionInv
  <2>2. X = W \ {c} /\ c \in W
    BY <1>1, <1>3, <1>4
  <2>3. IsFiniteSet(W)
    BY <1>0, <1>4, ChunkNumbers, FS_Subset
  <2>4. pending'[s] = Cardinality(X)
    <3>1. pending[s] = Cardinality(W)
      BY <2>1 DEF SessionOK
    <3> HIDE DEF W, X
    <3> QED BY <1>8, <2>2, <2>3, <3>1, FS_RemoveElement
  <2>5. \A d \in 1..N : disk[s][d] = <<s, d>> => disk'[s][d] = <<s, d>>
    BY <1>10
  <2>6. ~err'[s] => ~err[s] /\ disk'[s][c] = <<s, c>>
    BY <1>9, <1>10
  <2>7. st'[s][c] = "completed" /\ \A d \in 1..N : d # c => st'[s][d] = st[s][d]
    BY <1>3, <1>4
  <2> QED BY <2>1, <2>4, <2>5, <2>6, <2>7 DEF SessionOK
<1>12. RingAtOK'
  BY <1>1, <1>3 DEF RingAtOK
<1> QED BY <1>0, <1>1, <1>3, <1>6, <1>7, <1>8, <1>9, <1>10, <1>11, <1>12, OneStream, ZenonT(60)

\* OnComplete: the last write of a closed session sends its result.
LEMMA OnCompleteStream ==
    ASSUME Inv, OnComplete
    PROVE  TaskInv' /\ ClientInv' /\ SessionInv'
<1> DEFINE s == ringAt[1]
           c == ringAt[2]
           N == Chunks[kind[s]]
<1>0. TypeOK /\ TaskInv /\ ClientInv /\ SessionInv
  BY DEF Inv
<1>1. ringAt # NoOp /\ s \in Streams /\ c \in Cs(s) /\ st[s][c] = "completed"
  BY <1>0 DEF OnComplete, TaskInv, RingAtOK, TypeOK, PlainTypes, Pairs
<1>2. /\ st' = Set(s, {c}, "gone") /\ ringAt' = NoOp
      /\ result' = result \/ TryFinish(s)
      /\ UNCHANGED <<kind, pc, buf, pending, closed, err, ring, left, got, disk, answer, short>>
  BY DEF OnComplete
<1> HIDE DEF s, c
<1>3. /\ \A t \in Streams : t # s => st'[t] = st[t]
      /\ \A d \in Cs(s) : st'[s][d] = IF d = c THEN "gone" ELSE st[s][d]
  <2>1. st' = Set(s, {c}, "gone") /\ kind' = kind
    BY <1>2
  <2> QED BY <1>0, <1>1, <2>1 DEF Set, TypeOK, ChunkTypes, Chunked, Cs
<1>4. TaskOK(kind[s], pc[s], st[s]) /\ kind[s] \in Kinds /\ N \in Nat \ {0} /\ Cs(s) = 1..N
  BY <1>0, <1>1, ChunkNumbers DEF TaskInv
<1>5. kind[s] \in {"upload", "copy"}
  BY <1>1, <1>4 DEF TaskOK, Kinds
<1>6. TaskOK(kind[s], pc[s], st'[s])
  <2>1. CASE kind[s] = "upload"
    BY <1>1, <1>3, <1>4, <2>1 DEF TaskOK
  <2>2. CASE kind[s] = "copy"
    BY <1>1, <1>3, <1>4, <2>2 DEF TaskOK, FutureStatuses
  <2> QED BY <1>5, <2>1, <2>2
<1>7. ClientOK(kind[s], pc[s], st'[s], got[s], left[s], answer[s], short[s])
  <2>1. ClientOK(kind[s], pc[s], st[s], got[s], left[s], answer[s], short[s]) /\ Len(got[s]) \in Nat
    BY <1>0, <1>1 DEF ClientInv, TypeOK, PlainTypes
  <2>2. \A d \in 1..N : /\ st[s][d] = "framed" <=> st'[s][d] = "framed"
                        /\ st[s][d] = "gone" => st'[s][d] = "gone"
    BY <1>1, <1>3, <1>4
  <2> QED BY <1>4, <1>5, <2>1, <2>2, ClientGone
<1>8. \A t \in Streams : t # s => result'[t] = result[t]
  BY <1>0, <1>2 DEF TryFinish, TypeOK, PlainTypes
<1>9. ASSUME ring = "up"
      PROVE  SessionOK(s, kind[s], pc[s], st'[s], pending[s], closed[s], err[s], result'[s], disk[s], answer[s])
  <2>1. SessionOK(s, kind[s], pc[s], st[s], pending[s], closed[s], err[s], result'[s], disk[s], answer[s])
    <3>1. CASE result' = result
      BY <1>0, <1>1, <1>9, <3>1 DEF SessionInv
    <3>2. CASE TryFinish(s)
      BY <1>0, <1>1, <1>9, <3>2, TryFinishEffect
    <3> QED BY <1>2, <3>1, <3>2
  <2>2. {d \in 1..N : st'[s][d] = "writing"} = {d \in 1..N : st[s][d] = "writing"}
    BY <1>1, <1>3, <1>4
  <2>3. st[s][c] = "completed" /\ st'[s][c] = "gone" /\ \A d \in 1..N : d # c => st'[s][d] = st[s][d]
    BY <1>1, <1>3, <1>4
  <2> QED BY <2>1, <2>2, <2>3 DEF SessionOK
<1>10. RingAtOK'
  BY <1>2 DEF RingAtOK
<1> QED BY <1>0, <1>1, <1>2, <1>3, <1>6, <1>7, <1>8, <1>9, <1>10, OneStream

\* RingFails and RingGone: reads that somebody waits for fail, the rest is
\* dropped.
LEMMA RingStream ==
    ASSUME Inv, RingFails \/ RingGone
    PROVE  TaskInv' /\ ClientInv' /\ SessionInv'
<1>0. TypeOK /\ TaskInv /\ ClientInv /\ PoolInv /\ LineInv
  BY DEF Inv
<1>1. /\ DropFlying /\ ring' \in {"failing", "down"}
      /\ UNCHANGED <<kind, pc, buf, ringAt, left, got, answer, short>>
  BY DEF RingFails, RingGone
<1>2. \A t \in Streams : \A d \in Cs(t) :
        st'[t][d] = IF st[t][d] \in {"reading", "writing"}
                      THEN IF st[t][d] = "reading" /\ pc[t] # "done" THEN "failed" ELSE "gone"
                      ELSE st[t][d]
  BY <1>0, <1>1, DropFlyingEffect
<1>3. RingAtOK'
  <2> SUFFICES ASSUME ringAt # NoOp
               PROVE  st'[ringAt[1]][ringAt[2]] = "completed"
    BY <1>1 DEF RingAtOK
  <2>1. ringAt[1] \in Streams /\ ringAt[2] \in Cs(ringAt[1]) /\ st[ringAt[1]][ringAt[2]] = "completed"
    BY <1>0 DEF TaskInv, RingAtOK, TypeOK, PlainTypes, Pairs
  <2> QED BY <1>2, <2>1
<1>4. ASSUME NEW s \in Streams
      PROVE  /\ TaskOK(kind[s], pc[s], st'[s])
             /\ ClientOK(kind[s], pc[s], st'[s], got[s], left[s], answer[s], short[s])
  <2> DEFINE N == Chunks[kind[s]]
  <2>1. TaskOK(kind[s], pc[s], st[s]) /\ kind[s] \in Kinds /\ N \in Nat \ {0} /\ Cs(s) = 1..N
    BY <1>0, ChunkNumbers DEF TaskInv
  <2>2. \A d \in 1..N : /\ \/ st[s][d] \in {"reading", "writing"} /\ st'[s][d] \in {"failed", "gone"}
                           \/ st'[s][d] = st[s][d]
                        /\ st[s][d] = "writing" => st'[s][d] = "gone"
                        /\ st[s][d] = "reading" => st'[s][d] = IF pc[s] # "done" THEN "failed" ELSE "gone"
    BY <1>2, <2>1
  <2>3. TaskOK(kind[s], pc[s], st'[s])
    <3>1. CASE kind[s] = "download"
      BY <2>1, <2>2, <3>1 DEF TaskOK
    <3>2. CASE kind[s] = "small"
      <4>1. \A d \in 1..N : st'[s][d] = st[s][d]
        BY <2>1, <2>2, <3>2 DEF TaskOK
      <4>2. 1 \in 1..N
        BY <2>1
      <4> QED BY <2>1, <3>2, <4>1, <4>2 DEF TaskOK
    <3>3. CASE kind[s] = "upload"
      <4>1. \A d \in 1..N : st'[s][d] = st[s][d] \/ (st[s][d] = "writing" /\ st'[s][d] = "gone")
        BY <2>1, <2>2, <3>3 DEF TaskOK
      <4> QED BY <2>1, <3>3, <4>1 DEF TaskOK
    <3>4. CASE kind[s] = "copy"
      BY <2>1, <2>2, <3>4 DEF TaskOK, FutureStatuses
    <3> QED BY <2>1, <3>1, <3>2, <3>3, <3>4 DEF Kinds
  <2>4. ClientOK(kind[s], pc[s], st[s], got[s], left[s], answer[s], short[s]) /\ Len(got[s]) \in Nat
    BY <1>0 DEF ClientInv, TypeOK, PlainTypes
  <2>5. ClientOK(kind[s], pc[s], st'[s], got[s], left[s], answer[s], short[s])
    <3>1. CASE kind[s] = "download" /\ pc[s] # "done"
      <4>1. \A d \in 1..N : st[s][d] # "writing"
        BY <2>1, <3>1 DEF TaskOK
      <4>2. \A d \in 1..N : /\ st[s][d] = "framed" <=> st'[s][d] = "framed"
                            /\ st[s][d] = "gone" <=> st'[s][d] = "gone"
                            /\ st[s][d] = "none" <=> st'[s][d] = "none"
        BY <2>2, <3>1, <4>1
      <4>3. \A d, e \in 1..N : st'[s][d] = "none" /\ d < e => st'[s][e] = "none"
        BY <2>4, <3>1, <4>2 DEF ClientOK
      <4> QED BY <2>1, <2>4, <4>2, <4>3, ClientMove
    <3>2. CASE ~(kind[s] = "download" /\ pc[s] # "done")
      <4>1. \A d \in 1..N : /\ st[s][d] = "framed" <=> st'[s][d] = "framed"
                            /\ st[s][d] = "gone" => st'[s][d] = "gone"
        BY <2>2
      <4>2. kind[s] \in {"download", "small"} /\ answer[s] = "ok" => pc[s] = "done"
        BY <2>4 DEF ClientOK
      <4> QED BY <2>1, <2>4, <3>2, <4>1, <4>2, ClientGone
    <3> QED BY <3>1, <3>2
  <2> QED BY <2>3, <2>5
<1>5. TaskInv' /\ ClientInv'
  BY <1>1, <1>3, <1>4 DEF TaskInv, ClientInv
<1>6. SessionInv'
  BY <1>1 DEF SessionInv
<1> QED BY <1>5, <1>6

-----------------------------------------------------------------------------
(* The data in the buffers, and with the clients. *)

\* Buffers that keep what they hold, and no chunk newly said to be full.
LEMMA DataKeep ==
    ASSUME DataOK, kind' = kind, content' = content, buf' = buf,
           \A t \in Streams : \A d \in Cs(t) :
              st'[t][d] \in FullStatuses => st[t][d] \in FullStatuses \/ content[buf[t][d]] = <<t, d>>,
           \A t \in Streams : kind[t] = "upload" /\ pc'[t] = "submit" =>
              pc[t] = "submit" /\ \A d \in Cs(t) : st'[t][d] = "held" => st[t][d] = "held"
    PROVE  DataOK'
<1>1. \A t \in Streams : Cs(t)' = Cs(t)
  BY SameChunks
<1>2. \A t \in Streams : \A d \in Cs(t) : st'[t][d] \in FullStatuses => content[buf[t][d]] = <<t, d>>
  BY DEF DataOK
<1>3. \A t \in Streams : kind[t] = "upload" /\ pc'[t] = "submit" =>
        \A d \in Cs(t) : st'[t][d] = "held" => content[buf[t][d]] = <<t, d>>
  BY DEF DataOK
<1>4. (\A t \in Streams : \A d \in Cs(t) : st[t][d] \in FullStatuses => content[buf[t][d]] = <<t, d>>)'
  BY <1>1, <1>2
<1>5. (\A t \in Streams : kind[t] = "upload" /\ pc[t] = "submit" =>
          \A d \in Cs(t) : st[t][d] = "held" => content[buf[t][d]] = <<t, d>>)'
  BY <1>1, <1>3
<1> QED BY <1>4, <1>5 DEF DataOK

\* The same when the chunks of a set change their status.
LEMMA DataSet ==
    ASSUME TypeOK, DataOK, kind' = kind, content' = content, buf' = buf, NEW s \in Streams, NEW C,
           NEW v \in Statuses, v # "held", st' = Set(s, C, v),
           v \in FullStatuses => \A c \in C \cap Cs(s) : content[buf[s][c]] = <<s, c>>,
           \A t \in Streams : pc'[t] = "submit" => pc[t] = "submit"
    PROVE  DataOK'
<1>1. /\ \A t \in Streams : t # s => st'[t] = st[t]
      /\ \A d \in Cs(s) : st'[s][d] = IF d \in C THEN v ELSE st[s][d]
  BY SetEffect
<1>2. \A t \in Streams : \A d \in Cs(t) :
        st'[t][d] \in FullStatuses => st[t][d] \in FullStatuses \/ content[buf[t][d]] = <<t, d>>
  BY <1>1
<1>3. \A t \in Streams : \A d \in Cs(t) : st'[t][d] = "held" => st[t][d] = "held"
  BY <1>1
<1> QED BY <1>2, <1>3, DataKeep

\* A chunk fills its own buffer, which no other chunk has.
LEMMA DataFill ==
    ASSUME TypeOK, PoolInv, DataOK, kind' = kind, buf' = buf, NEW s \in Streams, NEW c \in Cs(s),
           st[s][c] \in HeldStatuses, content' = [content EXCEPT ![buf[s][c]] = <<s, c>>],
           \A t \in Streams : \A d \in Cs(t) :
              st'[t][d] \in FullStatuses => st[t][d] \in FullStatuses \/ (t = s /\ d = c),
           \A t \in Streams : kind[t] = "upload" /\ pc'[t] = "submit" =>
              \A d \in Cs(t) : st'[t][d] = "held" =>
                 (pc[t] = "submit" /\ st[t][d] = "held") \/ (t = s /\ d = c)
    PROVE  DataOK'
<1>1. \A t \in Streams : Cs(t)' = Cs(t)
  BY SameChunks
<1>2. buf[s][c] \in Buffers /\ content'[buf[s][c]] = <<s, c>>
  <2>1. <<s, c>> \in HeldPairs /\ <<s, c>>[1] = s /\ <<s, c>>[2] = c
    BY HeldMember
  <2>2. buf[s][c] \in Buffers
    BY <2>1 DEF PoolInv, PoolOK
  <2>3. content \in [Buffers -> Tags]
    BY DEF TypeOK, PlainTypes
  <2> QED BY <2>2, <2>3
<1>3. ASSUME NEW t \in Streams, NEW d \in Cs(t), st[t][d] \in HeldStatuses, ~(t = s /\ d = c)
      PROVE  content'[buf[t][d]] = content[buf[t][d]]
  <2>1. /\ <<s, c>> \in HeldPairs /\ <<s, c>>[1] = s /\ <<s, c>>[2] = c
        /\ <<t, d>> \in HeldPairs /\ <<t, d>>[1] = t /\ <<t, d>>[2] = d
        /\ <<s, c>> # <<t, d>>
    BY <1>3, HeldMember
  <2>2. buf[t][d] \in Buffers /\ buf[t][d] # buf[s][c]
    BY <2>1 DEF PoolInv, PoolOK
  <2>3. content \in [Buffers -> Tags]
    BY DEF TypeOK, PlainTypes
  <2> QED BY <2>2, <2>3
<1>4. \A t \in Streams : \A d \in Cs(t) : st'[t][d] \in FullStatuses => content'[buf[t][d]] = <<t, d>>
  <2> SUFFICES ASSUME NEW t \in Streams, NEW d \in Cs(t), st'[t][d] \in FullStatuses, ~(t = s /\ d = c)
               PROVE  content'[buf[t][d]] = <<t, d>>
    BY <1>2
  <2>1. st[t][d] \in FullStatuses /\ st[t][d] \in HeldStatuses
    BY DEF FullStatuses, HeldStatuses
  <2> QED BY <1>3, <2>1 DEF DataOK
<1>5. \A t \in Streams : kind[t] = "upload" /\ pc'[t] = "submit" =>
        \A d \in Cs(t) : st'[t][d] = "held" => content'[buf[t][d]] = <<t, d>>
  <2> SUFFICES ASSUME NEW t \in Streams, kind[t] = "upload", pc'[t] = "submit",
                      NEW d \in Cs(t), st'[t][d] = "held", ~(t = s /\ d = c)
               PROVE  content'[buf[t][d]] = <<t, d>>
    BY <1>2
  <2>1. pc[t] = "submit" /\ st[t][d] = "held" /\ st[t][d] \in HeldStatuses
    BY DEF HeldStatuses
  <2> QED BY <1>3, <2>1 DEF DataOK
<1>6. (\A t \in Streams : \A d \in Cs(t) : st[t][d] \in FullStatuses => content[buf[t][d]] = <<t, d>>)'
  BY <1>1, <1>4
<1>7. (\A t \in Streams : kind[t] = "upload" /\ pc[t] = "submit" =>
          \A d \in Cs(t) : st[t][d] = "held" => content[buf[t][d]] = <<t, d>>)'
  BY <1>1, <1>5
<1> QED BY <1>6, <1>7 DEF DataOK

\* Steps that only ask for buffers, submit reads or drop buffers.
LEMMA QuietData ==
    ASSUME Inv, DataOK, NEW s \in Streams,
           \/ PlanOne(s) \/ PlanCopy(s) \/ PollCopy(s) \/ SubmitReads(s) \/ StopDownload(s) \/ EndOfFile(s)
           \/ BlockingEmpty(s) \/ Answer(s) \/ Consume(s) \/ Disconnect(s)
    PROVE  DataOK'
<1>0. TypeOK /\ DataOK /\ pc \in [Streams -> Labels]
  BY DEF Inv, TypeOK, PlainTypes
<1>1. kind' = kind /\ content' = content /\ buf' = buf
  BY DEF PlanOne, PlanCopy, PollCopy, SubmitReads, StopDownload, EndOfFile, BlockingEmpty,
         Answer, Consume, Disconnect
<1>2. \E l \in {"acquire", "await", "done"} : pc' = pc \/ pc' = [pc EXCEPT ![s] = l]
  BY DEF PlanOne, PlanCopy, PollCopy, SubmitReads, StopDownload, EndOfFile, BlockingEmpty,
         Answer, Consume, Disconnect, Return
<1>3. \A t \in Streams : pc'[t] = "submit" => pc[t] = "submit"
  BY <1>0, <1>2
<1>4. \E C : \E v \in {"waiting", "planned", "reading", "gone"} : st' = Set(s, C, v)
  BY DEF PlanOne, PlanCopy, PollCopy, Acquire, SubmitReads, StopDownload, EndOfFile, BlockingEmpty,
         Answer, Consume, Disconnect, Return
<1>5. PICK C : \E v \in {"waiting", "planned", "reading", "gone"} : st' = Set(s, C, v)
  BY <1>4
<1>6. PICK v \in {"waiting", "planned", "reading", "gone"} : st' = Set(s, C, v)
  BY <1>5
<1>7. v \in Statuses /\ v # "held" /\ v \notin FullStatuses
  BY DEF Statuses, FullStatuses
<1> QED BY <1>0, <1>1, <1>3, <1>6, <1>7, DataSet

\* Steps of the task and of its session that leave the chunks alone.
LEMMA TaskData ==
    ASSUME Inv, DataOK, NEW s \in Streams, TakeRead(s) \/ Close(s) \/ CloseFinishes(s) \/ Wait(s)
    PROVE  DataOK'
<1>0. TypeOK /\ DataOK /\ pc \in [Streams -> Labels]
  BY DEF Inv, TypeOK, PlainTypes
<1>1. kind' = kind /\ content' = content /\ buf' = buf /\ st' = st
  BY DEF TakeRead, Close, CloseFinishes, Wait
<1>2. \E l \in Labels : pc' = [pc EXCEPT ![s] = l] /\ (l = "submit" => kind[s] = "copy")
  BY Names DEF TakeRead, Close, CloseFinishes, Wait
<1>3. \A t \in Streams : kind[t] = "upload" /\ pc'[t] = "submit" => pc[t] = "submit"
  BY <1>0, <1>2
<1> QED BY <1>0, <1>1, <1>3, DataKeep

\* SendFrame: what was read is sent.
LEMMA SendFrameData ==
    ASSUME Inv, DataOK, NEW s \in Streams, SendFrame(s)
    PROVE  DataOK'
<1> DEFINE c == First(Futures(s))
<1>0. TypeOK /\ DataOK /\ pc \in [Streams -> Labels]
  BY DEF Inv, TypeOK, PlainTypes
<1>1. kind' = kind /\ content' = content /\ buf' = buf /\ st' = Set(s, {c}, "framed") /\ st[s][c] = "read"
  BY DEF SendFrame, HeadRead
<1>2. \E l \in {"plan", "done", "await"} : pc' = [pc EXCEPT ![s] = l]
  BY DEF SendFrame
<1>3. \A t \in Streams : pc'[t] = "submit" => pc[t] = "submit"
  BY <1>0, <1>2
<1> HIDE DEF c
<1>4. \A d \in {c} \cap Cs(s) : content[buf[s][d]] = <<s, d>>
  BY <1>0, <1>1 DEF DataOK, FullStatuses
<1>5. "framed" \in Statuses /\ "framed" # "held"
  BY Names
<1> QED BY <1>0, <1>1, <1>3, <1>4, <1>5, DataSet

\* Blocking, Receive and ReadCompletes fill the buffer of a chunk.
LEMMA FillData ==
    ASSUME Inv, DataOK, NEW s \in Streams,
           Blocking(s) \/ Receive(s) \/ (\E c \in Cs(s) : ReadCompletes(s, c))
    PROVE  DataOK'
<1>0. TypeOK /\ PoolInv /\ TaskInv /\ DataOK /\ pc \in [Streams -> Labels]
  BY DEF Inv, TypeOK, PlainTypes
<1>1. kind' = kind /\ buf' = buf
  BY DEF Blocking, Receive, ReadCompletes
<1>2. TaskOK(kind[s], pc[s], st[s]) /\ kind[s] \in Kinds /\ 1 \in Cs(s)
  BY <1>0, ChunkNumbers DEF TaskInv
<1>3. CASE Blocking(s)
  <2>1. /\ st' = Set(s, {1}, "framed") /\ content' = [content EXCEPT ![buf[s][1]] = <<s, 1>>]
        /\ pc' = [pc EXCEPT ![s] = "done"] /\ pc[s] = "await" /\ kind[s] = "small"
    BY <1>3 DEF Blocking
  <2>2. st[s][1] \in HeldStatuses
    BY <1>2, <2>1 DEF TaskOK, HeldStatuses
  <2>3. /\ \A t \in Streams : t # s => st'[t] = st[t]
        /\ \A d \in Cs(s) : st'[s][d] = IF d = 1 THEN "framed" ELSE st[s][d]
    <3>1. st' = Set(s, {1}, "framed")
      BY <2>1
    <3> QED BY <1>0, <1>1, <3>1 DEF Set, TypeOK, ChunkTypes, Chunked, Cs
  <2>4. \A t \in Streams : pc'[t] = "submit" => pc[t] = "submit" /\ t # s
    BY <1>0, <2>1
  <2>5. content' = [content EXCEPT ![buf[s][1]] = <<s, 1>>]
    BY <2>1
  <2>6. \A t \in Streams : \A d \in Cs(t) :
           st'[t][d] \in FullStatuses => st[t][d] \in FullStatuses \/ (t = s /\ d = 1)
    BY <2>3
  <2>7. \A t \in Streams : kind[t] = "upload" /\ pc'[t] = "submit" =>
           \A d \in Cs(t) : st'[t][d] = "held" =>
              (pc[t] = "submit" /\ st[t][d] = "held") \/ (t = s /\ d = 1)
    BY <2>3, <2>4
  <2> QED BY <1>0, <1>1, <1>2, <2>2, <2>5, <2>6, <2>7, DataFill
<1>4. CASE Receive(s)
  <2> DEFINE c == First(With(s, {"held"}))
  <2>1. pc[s] = "recv" /\ content' = [content EXCEPT ![buf[s][c]] = <<s, c>>]
    BY <1>4 DEF Receive
  <2>2. kind[s] = "upload" /\ \E d \in Cs(s) : st[s][d] = "held"
    BY <1>2, <2>1 DEF TaskOK, Kinds, Cs
  <2>3. c \in Cs(s) /\ st[s][c] = "held"
    <3>1. With(s, {"held"}) # {}
      BY <1>0, <2>2, WithMember
    <3> QED BY <1>0, <3>1, FirstMin, WithMember
  <2>4. PICK l \in {"submit", "close", "plan"} :
          pc' = [pc EXCEPT ![s] = l] /\ (st' = st \/ st' = Set(s, {c}, "gone"))
    BY <1>4 DEF Receive, AfterChunk
  <2> HIDE DEF c
  <2>5. \A t \in Streams : \A d \in Cs(t) : st'[t][d] = st[t][d] \/ st'[t][d] = "gone"
    <3>1. CASE st' = st
      BY <3>1
    <3>2. CASE st' = Set(s, {c}, "gone")
      BY <1>0, <1>1, <3>2 DEF Set, TypeOK, ChunkTypes, Chunked, Cs
    <3> QED BY <2>4, <3>1, <3>2
  <2>6. \A d \in Cs(s) : st[s][d] = "held" => d = c
    BY <1>2, <2>2, <2>3 DEF TaskOK, Cs
  <2>7. \A t \in Streams : t # s => pc'[t] = pc[t]
    BY <1>0, <2>4
  <2>8. st[s][c] \in HeldStatuses
    BY <2>3 DEF HeldStatuses
  <2>9. \A t \in Streams : \A d \in Cs(t) :
          /\ st'[t][d] \in FullStatuses => st[t][d] \in FullStatuses
          /\ st'[t][d] = "held" => st[t][d] = "held"
    BY <2>5 DEF FullStatuses
  <2>10. content' = [content EXCEPT ![buf[s][c]] = <<s, c>>]
    BY <2>1
  <2>11. \A t \in Streams : \A d \in Cs(t) :
           st'[t][d] \in FullStatuses => st[t][d] \in FullStatuses \/ (t = s /\ d = c)
    BY <2>9
  <2>12. \A t \in Streams : kind[t] = "upload" /\ pc'[t] = "submit" =>
           \A d \in Cs(t) : st'[t][d] = "held" =>
              (pc[t] = "submit" /\ st[t][d] = "held") \/ (t = s /\ d = c)
    BY <2>6, <2>7, <2>9
  <2> QED BY <1>0, <1>1, <2>3, <2>8, <2>10, <2>11, <2>12, DataFill
<1>5. CASE \E c \in Cs(s) : ReadCompletes(s, c)
  <2>1. PICK c \in Cs(s) : ReadCompletes(s, c)
    BY <1>5
  <2>2. st[s][c] = "reading" /\ content' = [content EXCEPT ![buf[s][c]] = <<s, c>>] /\ pc' = pc
    BY <2>1 DEF ReadCompletes
  <2>3. PICK v \in {"gone", "read"} : st' = Set(s, {c}, v)
    BY <2>1 DEF ReadCompletes
  <2>4. /\ \A t \in Streams : t # s => st'[t] = st[t]
        /\ \A d \in Cs(s) : st'[s][d] = IF d = c THEN v ELSE st[s][d]
    BY <1>0, <1>1, <2>3 DEF Set, TypeOK, ChunkTypes, Chunked, Cs
  <2>5. st[s][c] \in HeldStatuses
    BY <2>2 DEF HeldStatuses
  <2>6. \A t \in Streams : \A d \in Cs(t) :
          st'[t][d] = "held" => st[t][d] = "held"
    BY <2>4
  <2>7. content' = [content EXCEPT ![buf[s][c]] = <<s, c>>]
    BY <2>2
  <2>8. \A t \in Streams : \A d \in Cs(t) :
           st'[t][d] \in FullStatuses => st[t][d] \in FullStatuses \/ (t = s /\ d = c)
    BY <2>4
  <2>9. \A t \in Streams : kind[t] = "upload" /\ pc'[t] = "submit" =>
           \A d \in Cs(t) : st'[t][d] = "held" =>
              (pc[t] = "submit" /\ st[t][d] = "held") \/ (t = s /\ d = c)
    BY <2>2, <2>6
  <2> QED BY <1>0, <1>1, <2>5, <2>7, <2>8, <2>9, DataFill
<1> QED BY <1>3, <1>4, <1>5

\* SubmitWrite: what is written is the chunk.
LEMMA SubmitWriteData ==
    ASSUME Inv, DataOK, NEW s \in Streams, SubmitWrite(s)
    PROVE  DataOK'
<1> DEFINE c == First(With(s, {"held", "read"}))
<1>0. TypeOK /\ TaskInv /\ DataOK /\ pc \in [Streams -> Labels]
  BY DEF Inv, TypeOK, PlainTypes
<1>1. kind' = kind /\ content' = content /\ buf' = buf /\ pc[s] = "submit"
  BY DEF SubmitWrite
<1>2. \E l \in {"close", "plan", "await"} : pc' = [pc EXCEPT ![s] = l]
  BY DEF SubmitWrite, SendWrite, DropWrite, AfterChunk
<1>3. \A t \in Streams : pc'[t] = "submit" => pc[t] = "submit"
  BY <1>0, <1>2
<1>4. TaskOK(kind[s], "submit", st[s]) /\ kind[s] \in Kinds
  BY <1>0, <1>1, ChunkNumbers DEF TaskInv
<1>5. /\ c \in Cs(s) /\ st[s][c] \in {"held", "read"}
      /\ \A d \in Cs(s) : st[s][d] \in {"held", "read"} => c <= d
  <2>1. \E d \in Cs(s) : st[s][d] \in {"held", "read"}
    BY <1>4 DEF TaskOK, Kinds, Cs
  <2>2. With(s, {"held", "read"}) # {}
    BY <1>0, <2>1, WithMember
  <2> QED BY <1>0, <2>2, FirstMin, WithMember
<1>6. PICK v \in {"gone", "writing"} : st' = Set(s, {c}, v)
  BY DEF SubmitWrite, SendWrite, DropWrite
<1> HIDE DEF c
<1>7. content[buf[s][c]] = <<s, c>>
  <2>1. CASE kind[s] = "upload"
    <3>1. st[s][c] = "held"
      BY <1>4, <1>5, <2>1 DEF TaskOK, Cs
    <3> QED BY <1>0, <1>1, <1>5, <2>1, <3>1 DEF DataOK
  <2>2. CASE kind[s] = "copy"
    <3>1. PICK e \in Cs(s) : st[s][e] = "read" /\ \A d \in Cs(s) : d < e => st[s][d] \notin FutureStatuses
      BY <1>4, <2>2 DEF TaskOK, Cs
    <3>2. c <= e /\ ~(c < e)
      BY <1>5, <3>1 DEF FutureStatuses
    <3>3. c = e
      BY <1>0, <1>5, <3>2, ChunkNumbers
    <3> QED BY <1>0, <1>5, <3>1, <3>3 DEF DataOK, FullStatuses
  <2> QED BY <1>4, <2>1, <2>2 DEF TaskOK, Kinds
<1>8. \A d \in {c} \cap Cs(s) : content[buf[s][d]] = <<s, d>>
  BY <1>7
<1>9. v \in Statuses /\ v # "held"
  BY Names
<1> QED BY <1>0, <1>1, <1>3, <1>6, <1>8, <1>9, DataSet

\* Completions and failures.
LEMMA RingData ==
    ASSUME Inv, DataOK,
           \/ OnComplete
           \/ \E s \in Streams : \E c \in Cs(s) : WriteLands(s, c) \/ WriteFails(s, c) \/ ReadEnds(s, c)
    PROVE  DataOK'
<1>0. TypeOK /\ TaskInv /\ PoolInv /\ LineInv /\ DataOK
  BY DEF Inv
<1>1. kind' = kind /\ content' = content /\ buf' = buf /\ pc' = pc
  BY DEF OnComplete, WriteLands, WriteFails, WriteCompletes, ReadEnds
<1>2. CASE OnComplete
  <2> DEFINE s == ringAt[1]
             c == ringAt[2]
  <2>1. s \in Streams /\ st' = Set(s, {c}, "gone")
    BY <1>0, <1>2 DEF OnComplete, TypeOK, PlainTypes, Pairs
  <2>2. "gone" \in Statuses /\ "gone" # "held" /\ "gone" \notin FullStatuses
    BY Names DEF FullStatuses
  <2> HIDE DEF s, c
  <2> QED BY <1>0, <1>1, <2>1, <2>2, DataSet
<1>4. ASSUME NEW s \in Streams, NEW c \in Cs(s), WriteLands(s, c) \/ WriteFails(s, c) \/ ReadEnds(s, c)
      PROVE  DataOK'
  <2>1. \E v \in {"completed", "gone", "failed"} :
          st' = Set(s, {c}, v) /\ (v = "completed" => st[s][c] = "writing")
    BY <1>4 DEF WriteLands, WriteFails, WriteCompletes, ReadEnds, Dead
  <2>2. PICK v \in {"completed", "gone", "failed"} :
          st' = Set(s, {c}, v) /\ (v = "completed" => st[s][c] = "writing")
    BY <2>1
  <2>3. v \in Statuses /\ v # "held"
    BY Names
  <2>4. v \in FullStatuses => \A d \in {c} \cap Cs(s) : content[buf[s][d]] = <<s, d>>
    BY <1>0, <2>2 DEF DataOK, FullStatuses
  <2> QED BY <1>0, <1>1, <2>2, <2>3, <2>4, DataSet
<1> QED BY <1>2, <1>4

\* Grant: a buffer that is handed out was in the pool, with no chunk.
LEMMA GrantData ==
    ASSUME Inv, DataOK, Grant
    PROVE  DataOK'
<1> DEFINE s == Head(waiters)[1]
           c == Head(waiters)[2]
           b == Head(queue)
<1>0. TypeOK /\ LineInv /\ DataOK /\ pc \in [Streams -> Labels]
  BY DEF Inv, TypeOK, PlainTypes
<1>1. /\ s \in Streams /\ c \in Cs(s) /\ st[s][c] = "waiting"
      /\ pc[s] = "acquire" \/ (kind[s] = "copy" /\ pc[s] # "done")
  <2>1. Head(waiters) = waiters[1] /\ 1 \in 1..Len(waiters)
    BY <1>0 DEF Grant, TypeOK, PlainTypes
  <2> QED BY <1>0, <2>1 DEF LineInv, Pairs
<1>2. /\ st' = Set(s, {c}, "held") /\ buf' = [buf EXCEPT ![s][c] = b] /\ kind' = kind /\ content' = content
  BY DEF Grant
<1>3. \E l \in {"plan", "recv", "await", pc[s]} :
         pc' = [pc EXCEPT ![s] = l] /\ (pc[s] = "acquire" => l # "submit")
  BY DEF Grant
<1> HIDE DEF s, c, b
<1>4. \A t \in Streams : kind[t] = "upload" /\ pc'[t] = "submit" => pc[t] = "submit" /\ t # s
  BY <1>0, <1>1, <1>3
<1>5. /\ \A t \in Streams : t # s => st'[t] = st[t]
      /\ \A d \in Cs(s) : st'[s][d] = IF d = c THEN "held" ELSE st[s][d]
  <2>1. st' = Set(s, {c}, "held") /\ kind' = kind
    BY <1>2
  <2> QED BY <1>0, <1>1, <2>1 DEF Set, TypeOK, ChunkTypes, Chunked, Cs
<1>6. /\ \A t \in Streams : t # s => buf'[t] = buf[t]
      /\ \A d \in Cs(s) : d # c => buf'[s][d] = buf[s][d]
  <2>1. Chunked(kind, buf, 0..PoolSize) /\ buf' = [buf EXCEPT ![s][c] = b]
    BY <1>0, <1>2 DEF TypeOK, ChunkTypes
  <2> QED BY <1>1, <2>1 DEF Chunked, Cs
<1>7. \A t \in Streams : \A d \in Cs(t) :
        st'[t][d] \in FullStatuses => st[t][d] \in FullStatuses /\ buf'[t][d] = buf[t][d]
  BY <1>5, <1>6 DEF FullStatuses
<1>8. \A t \in Streams : Cs(t)' = Cs(t)
  BY <1>2, SameChunks
<1>9. \A t \in Streams : \A d \in Cs(t) : st'[t][d] \in FullStatuses => content'[buf'[t][d]] = <<t, d>>
  BY <1>0, <1>2, <1>7, ZenonT(60) DEF DataOK
<1>10. \A t \in Streams : kind[t] = "upload" /\ pc'[t] = "submit" =>
         \A d \in Cs(t) : st'[t][d] = "held" => content'[buf'[t][d]] = <<t, d>>
  <2> SUFFICES ASSUME NEW t \in Streams, kind[t] = "upload", pc'[t] = "submit",
                      NEW d \in Cs(t), st'[t][d] = "held"
               PROVE  content'[buf'[t][d]] = <<t, d>>
    OBVIOUS
  <2>1. t # s /\ pc[t] = "submit" /\ st[t][d] = "held" /\ buf'[t][d] = buf[t][d]
    BY <1>4, <1>5, <1>6
  <2> QED BY <1>0, <1>2, <2>1 DEF DataOK
<1> QED BY <1>2, <1>8, <1>9, <1>10 DEF DataOK

\* Consume: the frame has the data of its chunk.
LEMMA ConsumeGot ==
    ASSUME Inv, ring = "up", NEW s \in Streams, Consume(s)
    PROVE  \A t \in Streams : \A i \in 1..Len(got'[t]) : got'[t][i] = <<t, i>>
<1> DEFINE c == First(With(s, {"framed"}))
           n == Len(got[s])
<1>0. TypeOK /\ ClientInv /\ DataOK /\ \A t \in Streams : \A i \in 1..Len(got[t]) : got[t][i] = <<t, i>>
  BY DEF Inv, DataInv, GotInv, OwnData
<1>1. c \in Cs(s) /\ st[s][c] = "framed" /\ \A d \in Cs(s) : st[s][d] = "framed" => c <= d
  BY <1>0, FirstMin, WithMember DEF Consume
<1>2. got' = [got EXCEPT ![s] = Append(@, content[buf[s][c]])]
  BY DEF Consume
<1> HIDE DEF c
<1>3. content[buf[s][c]] = <<s, c>> /\ <<s, c>> \in Tags
  BY <1>0, <1>1, ChunkNumbers DEF DataOK, FullStatuses, Tags
<1>4. c = n + 1
  BY <1>0, <1>1, NextFrame
<1>5. got \in [Streams -> Seq(Tags)]
  BY <1>0 DEF TypeOK, PlainTypes
<1>6. got'[s] = Append(got[s], <<s, n + 1>>) /\ \A t \in Streams : t # s => got'[t] = got[t]
  BY <1>2, <1>3, <1>4, <1>5
<1>7. \A i \in 1..Len(got'[s]) : got'[s][i] = <<s, i>>
  <2>1. /\ n \in Nat /\ Len(got'[s]) = n + 1 /\ got'[s][n + 1] = <<s, n + 1>>
        /\ \A i \in 1..n : got'[s][i] = got[s][i]
    <3>1. got[s] \in Seq(Tags) /\ <<s, n + 1>> \in Tags
      BY <1>3, <1>4, <1>5
    <3> QED BY <1>6, <3>1
  <2>2. \A i \in 1..(n + 1) : i \in 1..n \/ i = n + 1
    BY <2>1
  <2> QED BY <1>0, <2>1, <2>2
<1> QED BY <1>0, <1>6, <1>7

\* No other step gives a client anything, or brings the ring up again.
LEMMA GotStep ==
    ASSUME Inv, [Next]_vars
    PROVE  GotInv'
<1>1. CASE \E s \in Streams : Consume(s)
  <2>1. PICK s \in Streams : Consume(s)
    BY <1>1
  <2>2. ring' = ring
    BY <2>1 DEF Consume
  <2> QED BY <2>1, <2>2, ConsumeGot DEF GotInv, OwnData
<1>2. CASE got' = got /\ (ring' = ring \/ ring' # "up")
  BY <1>2 DEF Inv, GotInv, OwnData
<1>3. ASSUME NEW s \in Streams, Task(s)
      PROVE  got' = got /\ ring' = ring
  BY <1>3 DEF Task, PlanOne, PlanCopy, PollCopy, SubmitReads, ReadBlocking, Blocking, SendFrame, StopDownload,
              EndOfFile, Receive, TakeRead, SubmitWrite, Close, CloseFinishes, Wait, Answer
<1>4. ASSUME NEW s \in Streams, Disconnect(s) \/ BlockingShort(s) \/ BlockingEmpty(s)
      PROVE  got' = got /\ ring' = ring
  BY <1>4 DEF Disconnect, BlockingShort, BlockingEmpty, Blocking
<1>5. ASSUME NEW s \in Streams, NEW c \in Cs(s),
             \/ ReadLands(s, c) \/ ReadShort(s, c) \/ ReadEmpty(s, c) \/ ReadFails(s, c)
             \/ WriteLands(s, c) \/ WriteFails(s, c)
      PROVE  got' = got /\ ring' = ring
  BY <1>5 DEF ReadLands, ReadShort, ReadEmpty, ReadFails, ReadCompletes, ReadEnds, WriteLands, WriteFails,
              WriteCompletes
<1>6. ASSUME NEW b, LateRead(b)
      PROVE  got' = got /\ ring' = ring
  BY <1>6 DEF LateRead
<1>7. ASSUME Grant \/ OnComplete \/ RingFails \/ RingGone \/ UNCHANGED vars
      PROVE  got' = got /\ (ring' = ring \/ ring' # "up")
  BY <1>7 DEF Grant, OnComplete, RingFails, RingGone, vars
<1> QED BY <1>1, <1>2, <1>3, <1>4, <1>5, <1>6, <1>7 DEF Next

-----------------------------------------------------------------------------
(* The invariant holds. *)

\* At the start every buffer is in the pool and no chunk has been planned.
LEMMA InitInv == Init => Inv
<1> SUFFICES ASSUME Init PROVE Inv
  OBVIOUS
<1>1. /\ kind \in [Streams -> Kinds] /\ Chunks \in [Kinds -> Nat \ {0}] /\ Chunks["small"] = 1
      /\ PoolSize \in Nat \ {0}
  BY StreamAssumption, BoundAssumption DEF Init
<1>2. /\ \A s \in Streams : kind[s] \in Kinds /\ Chunks[kind[s]] \in Nat \ {0} /\ Cs(s) = 1..Chunks[kind[s]]
      /\ pc = [s \in Streams |-> "plan"]
      /\ st = [s \in Streams |-> [c \in Cs(s) |-> "none"]]
  BY <1>1 DEF Init, Cs
<1>3. \A s \in Streams : pc[s] = "plan" /\ \A c \in 1..Chunks[kind[s]] : st[s][c] = "none"
  BY <1>2
<1>4. /\ queue \in Seq(Buffers) /\ Len(queue) = PoolSize /\ \A b \in Buffers : queue[b] = b
      /\ waiters \in Seq(Streams \X Nat) /\ Len(waiters) = 0
  <2>1. queue = [b \in Buffers |-> b] /\ waiters = << >>
    BY DEF Init
  <2>2. queue \in [1..PoolSize -> Buffers] /\ \A b \in Buffers : queue[b] = b
    BY <2>1 DEF Buffers
  <2>3. queue \in Seq(Buffers) /\ Len(queue) = PoolSize
    BY <1>1, <2>2, IsASeq, LenProperties
  <2> QED BY <2>1, <2>2, <2>3
<1>5. ChunkTypes
  <2>1. Chunked(kind, st, Statuses)
    BY <1>1, <1>2, Names DEF Chunked
  <2>2. Chunked(kind, buf, 0..PoolSize)
    <3>1. buf = [s \in Streams |-> [c \in Cs(s) |-> 0]]
      BY DEF Init
    <3> QED BY <1>1, <1>2, <3>1 DEF Chunked
  <2>3. Chunked(kind, disk, Tags)
    <3>1. disk = [s \in Streams |-> [c \in Cs(s) |-> Blank]] /\ Blank \in Tags
      BY DEF Init, Tags
    <3> HIDE DEF Tags, Blank
    <3> QED BY <1>2, <3>1 DEF Chunked
  <2> QED BY <2>1, <2>2, <2>3 DEF ChunkTypes
<1>6. PlainTypes
  <2>1. content \in [Buffers -> Tags]
    BY DEF Init, Tags
  <2>2. got \in [Streams -> Seq(Tags)] /\ short \in [Streams -> SUBSET Nat] /\ late \subseteq Buffers
    BY DEF Init
  <2> QED BY <1>1, <1>4, <2>1, <2>2 DEF Init, PlainTypes, Labels
<1>7. PoolInv
  <2>1. HeldPairs = {}
    <3>1. \A p \in Pairs : st[p[1]][p[2]] = "none"
      BY <1>2, <1>3 DEF Pairs
    <3> QED BY <3>1 DEF HeldPairs, HeldStatuses
  <2>2. PoolOK({}, buf, queue)
    BY <1>4 DEF PoolOK, Buffers
  <2> QED BY <2>1, <2>2 DEF PoolInv
<1>8. LineInv
  BY <1>4 DEF LineInv
<1>9. TaskInv
  <2>1. RingAtOK
    BY DEF Init, RingAtOK
  <2>2. \A s \in Streams : TaskOK(kind[s], "plan", st[s])
    BY <1>1, <1>2, <1>3 DEF TaskOK
  <2> QED BY <1>3, <2>1, <2>2 DEF TaskInv
<1>10. DataInv
  BY <1>2, <1>3 DEF DataInv, DataOK, FullStatuses
<1>11. ClientInv
  <2> SUFFICES ASSUME NEW s \in Streams
               PROVE  ClientOK(kind[s], pc[s], st[s], got[s], left[s], answer[s], short[s])
    BY DEF ClientInv
  <2>1. got[s] = << >> /\ left[s] = FALSE /\ answer[s] = "none"
    BY DEF Init
  <2>2. Len(got[s]) = 0
    BY <2>1
  <2> QED BY <1>2, <1>3, <2>1, <2>2 DEF ClientOK
<1>13. GotInv
  <2>1. \A s \in Streams : Len(got[s]) = 0
    BY DEF Init
  <2> QED BY <2>1 DEF GotInv, OwnData
<1>12. SessionInv
  <2> SUFFICES ASSUME NEW s \in Streams
               PROVE  SessionOK(s, kind[s], pc[s], st[s], pending[s], closed[s], err[s], result[s], disk[s],
                                answer[s])
    BY DEF SessionInv
  <2>1. pending[s] = 0 /\ closed[s] = FALSE /\ result[s] = "none" /\ answer[s] = "none"
    BY DEF Init
  <2>2. {c \in 1..Chunks[kind[s]] : st[s][c] = "writing"} = {}
    BY <1>3
  <2>3. pending[s] = Cardinality({c \in 1..Chunks[kind[s]] : st[s][c] = "writing"})
    BY <2>1, <2>2, FS_EmptySet
  <2> QED BY <1>3, <2>1, <2>3 DEF SessionOK
<1> QED BY <1>5, <1>6, <1>7, <1>8, <1>9, <1>10, <1>11, <1>12, <1>13 DEF Inv, TypeOK

\* Every step of the task of a stream preserves the invariant.
LEMMA TaskStep ==
    ASSUME Inv, NEW s \in Streams, Task(s)
    PROVE  TypeOK' /\ PoolInv' /\ LineInv' /\ TaskInv' /\ DataInv' /\ ClientInv' /\ SessionInv'
<1>0. TypeOK /\ PoolInv /\ LineInv /\ TaskInv /\ DataInv
  BY DEF Inv
<1>16. ring' = ring
  BY DEF Task, PlanOne, PlanCopy, PollCopy, SubmitReads, ReadBlocking, Blocking, SendFrame, StopDownload,
         EndOfFile, Receive, TakeRead, SubmitWrite, Close, CloseFinishes, Wait, Answer
<1>1. CASE PlanOne(s)
  <2>1. TypeOK' /\ PoolInv' /\ LineInv'
    BY <1>0, <1>1, PlanOnePool
  <2>2. TaskInv' /\ ClientInv' /\ SessionInv'
    BY <1>1, PlanOneStream
  <2>3. DataInv'
    BY <1>0, <1>16, <1>1, QuietData DEF DataInv
  <2> QED BY <2>1, <2>2, <2>3
<1>2. CASE PlanCopy(s)
  <2>1. TypeOK' /\ PoolInv' /\ LineInv'
    BY <1>0, <1>2, PlanCopyPool
  <2>2. TaskInv' /\ ClientInv' /\ SessionInv'
    BY <1>2, PlanCopyStream
  <2>3. DataInv'
    BY <1>0, <1>16, <1>2, QuietData DEF DataInv
  <2> QED BY <2>1, <2>2, <2>3
<1>3. CASE PollCopy(s)
  <2>1. TypeOK' /\ PoolInv' /\ LineInv'
    BY <1>0, <1>3, PollCopyPool
  <2>2. TaskInv' /\ ClientInv' /\ SessionInv'
    BY <1>3, PollCopyStream
  <2>3. DataInv'
    BY <1>0, <1>16, <1>3, QuietData DEF DataInv
  <2> QED BY <2>1, <2>2, <2>3
<1>4. CASE SubmitReads(s)
  <2>1. TypeOK' /\ PoolInv' /\ LineInv'
    BY <1>0, <1>4, SubmitReadsPool
  <2>2. TaskInv' /\ ClientInv' /\ SessionInv'
    BY <1>4, SubmitReadsStream
  <2>3. DataInv'
    BY <1>0, <1>16, <1>4, QuietData DEF DataInv
  <2> QED BY <2>1, <2>2, <2>3
<1>5. CASE ReadBlocking(s)
  <2>1. TypeOK' /\ PoolInv' /\ LineInv'
    <3>1. faults' \in Nat /\ short' \in [Streams -> SUBSET Nat]
      BY <1>0, <1>5 DEF ReadBlocking, TypeOK, PlainTypes
    <3> QED BY <1>0, <1>5, <3>1, BlockingPool DEF ReadBlocking
  <2>2. TaskInv' /\ ClientInv' /\ SessionInv'
    BY <1>5, BlockingStream DEF ReadBlocking
  <2>3. DataInv'
    BY <1>0, <1>16, <1>5, FillData DEF DataInv, ReadBlocking
  <2> QED BY <2>1, <2>2, <2>3
<1>6. CASE SendFrame(s)
  <2>1. TypeOK' /\ PoolInv' /\ LineInv'
    BY <1>0, <1>6, SendFramePool
  <2>2. TaskInv' /\ ClientInv' /\ SessionInv'
    BY <1>6, SendFrameStream
  <2>3. DataInv'
    BY <1>0, <1>16, <1>6, SendFrameData DEF DataInv
  <2> QED BY <2>1, <2>2, <2>3
<1>7. CASE StopDownload(s)
  <2>1. TypeOK' /\ PoolInv' /\ LineInv'
    BY <1>0, <1>7, ReturnPool
  <2>2. TaskInv' /\ ClientInv' /\ SessionInv'
    BY <1>7, StopStream
  <2>3. DataInv'
    BY <1>0, <1>16, <1>7, QuietData DEF DataInv
  <2> QED BY <2>1, <2>2, <2>3
<1>8. CASE Receive(s)
  <2>1. TypeOK' /\ PoolInv' /\ LineInv'
    BY <1>0, <1>8, ReceivePool
  <2>2. TaskInv' /\ ClientInv' /\ SessionInv'
    BY <1>8, ReceiveStream
  <2>3. DataInv'
    BY <1>0, <1>16, <1>8, FillData DEF DataInv
  <2> QED BY <2>1, <2>2, <2>3
<1>9. CASE TakeRead(s)
  <2>1. TypeOK' /\ PoolInv' /\ LineInv'
    BY <1>0, <1>9, TakeReadPool
  <2>2. TaskInv' /\ ClientInv' /\ SessionInv'
    BY <1>9, TakeReadStream
  <2>3. DataInv'
    BY <1>0, <1>16, <1>9, TaskData DEF DataInv
  <2> QED BY <2>1, <2>2, <2>3
<1>10. CASE SubmitWrite(s)
  <2>1. TypeOK' /\ PoolInv' /\ LineInv'
    BY <1>0, <1>10, SubmitWritePool
  <2>2. TaskInv' /\ ClientInv' /\ SessionInv'
    BY <1>10, SubmitWriteStream
  <2>3. DataInv'
    BY <1>0, <1>16, <1>10, SubmitWriteData DEF DataInv
  <2> QED BY <2>1, <2>2, <2>3
<1>11. CASE Close(s)
  <2>1. TypeOK' /\ PoolInv' /\ LineInv'
    BY <1>0, <1>11, ClosePool
  <2>2. TaskInv' /\ ClientInv' /\ SessionInv'
    BY <1>11, CloseStream
  <2>3. DataInv'
    BY <1>0, <1>16, <1>11, TaskData DEF DataInv
  <2> QED BY <2>1, <2>2, <2>3
<1>12. CASE CloseFinishes(s)
  <2>1. TypeOK' /\ PoolInv' /\ LineInv'
    BY <1>0, <1>12, ClosePool
  <2>2. TaskInv' /\ ClientInv' /\ SessionInv'
    BY <1>12, CloseStream
  <2>3. DataInv'
    BY <1>0, <1>16, <1>12, TaskData DEF DataInv
  <2> QED BY <2>1, <2>2, <2>3
<1>13. CASE Wait(s)
  <2>1. TypeOK' /\ PoolInv' /\ LineInv'
    BY <1>0, <1>13, ClosePool
  <2>2. TaskInv' /\ ClientInv' /\ SessionInv'
    BY <1>13, CloseStream
  <2>3. DataInv'
    BY <1>0, <1>16, <1>13, TaskData DEF DataInv
  <2> QED BY <2>1, <2>2, <2>3
<1>14. CASE Answer(s)
  <2>1. TypeOK' /\ PoolInv' /\ LineInv'
    BY <1>0, <1>14, ReturnPool
  <2>2. TaskInv' /\ ClientInv' /\ SessionInv'
    BY <1>14, AnswerStream
  <2>3. DataInv'
    BY <1>0, <1>16, <1>14, QuietData DEF DataInv
  <2> QED BY <2>1, <2>2, <2>3
<1>15. CASE EndOfFile(s)
  <2>1. TypeOK' /\ PoolInv' /\ LineInv'
    BY <1>0, <1>15, ReturnPool
  <2>2. TaskInv' /\ ClientInv' /\ SessionInv'
    BY <1>15, StopStream
  <2>3. DataInv'
    BY <1>0, <1>16, <1>15, QuietData DEF DataInv
  <2> QED BY <2>1, <2>2, <2>3
<1> QED BY <1>1, <1>2, <1>3, <1>4, <1>5, <1>6, <1>7, <1>8, <1>9, <1>10, <1>11, <1>12, <1>13, <1>14, <1>15 DEF Task

\* A step of the runtime, of a client or of the ring preserves the invariant,
\* and so does a step that changes nothing.
LEMMA NextInv ==
    ASSUME Inv, [Next]_vars
    PROVE  Inv'
<1>0. TypeOK /\ PoolInv /\ LineInv /\ TaskInv /\ DataInv
  BY DEF Inv
<1>1. ASSUME Grant
      PROVE  TypeOK' /\ PoolInv' /\ LineInv' /\ TaskInv' /\ DataInv' /\ ClientInv' /\ SessionInv'
  <2>1. TypeOK' /\ PoolInv' /\ LineInv'
    BY <1>0, <1>1, GrantPool
  <2>2. TaskInv' /\ ClientInv' /\ SessionInv'
    BY <1>1, GrantStream
  <2>4. ring' = ring
    BY <1>1 DEF Grant
  <2>3. DataInv'
    BY <1>0, <2>4, <1>1, GrantData DEF DataInv
  <2> QED BY <2>1, <2>2, <2>3
<1>2. ASSUME OnComplete
      PROVE  TypeOK' /\ PoolInv' /\ LineInv' /\ TaskInv' /\ DataInv' /\ ClientInv' /\ SessionInv'
  <2>1. TypeOK' /\ PoolInv' /\ LineInv'
    BY <1>0, <1>2, OnCompletePool
  <2>2. TaskInv' /\ ClientInv' /\ SessionInv'
    BY <1>2, OnCompleteStream
  <2>4. ring' = ring
    BY <1>2 DEF OnComplete
  <2>3. DataInv'
    BY <1>0, <2>4, <1>2, RingData DEF DataInv
  <2> QED BY <2>1, <2>2, <2>3
<1>3. ASSUME RingFails \/ RingGone
      PROVE  TypeOK' /\ PoolInv' /\ LineInv' /\ TaskInv' /\ DataInv' /\ ClientInv' /\ SessionInv'
  <2>1. TypeOK' /\ PoolInv' /\ LineInv'
    BY <1>0, <1>3, RingPool
  <2>2. TaskInv' /\ ClientInv' /\ SessionInv'
    BY <1>3, RingStream
  <2>3. DataInv'
    BY <1>3 DEF RingFails, RingGone, DataInv
  <2> QED BY <2>1, <2>2, <2>3
<1>4. ASSUME NEW s \in Streams, Task(s)
      PROVE  TypeOK' /\ PoolInv' /\ LineInv' /\ TaskInv' /\ DataInv' /\ ClientInv' /\ SessionInv'
  BY <1>4, TaskStep
<1>5. ASSUME NEW s \in Streams, Consume(s)
      PROVE  TypeOK' /\ PoolInv' /\ LineInv' /\ TaskInv' /\ DataInv' /\ ClientInv' /\ SessionInv'
  <2>1. TypeOK' /\ PoolInv' /\ LineInv'
    BY <1>0, <1>5, ConsumePool
  <2>2. TaskInv' /\ ClientInv' /\ SessionInv'
    BY <1>5, ConsumeStream
  <2>4. ring' = ring
    BY <1>5 DEF Consume
  <2>3. DataInv'
    BY <1>0, <2>4, <1>5, QuietData DEF DataInv
  <2> QED BY <2>1, <2>2, <2>3
<1>6. ASSUME NEW s \in Streams, Disconnect(s)
      PROVE  TypeOK' /\ PoolInv' /\ LineInv' /\ TaskInv' /\ DataInv' /\ ClientInv' /\ SessionInv'
  <2>1. TypeOK' /\ PoolInv' /\ LineInv'
    BY <1>0, <1>6, DisconnectPool
  <2>2. TaskInv' /\ ClientInv' /\ SessionInv'
    BY <1>6, DisconnectStream
  <2>4. ring' = ring
    BY <1>6 DEF Disconnect
  <2>3. DataInv'
    BY <1>0, <2>4, <1>6, QuietData DEF DataInv
  <2> QED BY <2>1, <2>2, <2>3
<1>7. ASSUME NEW s \in Streams, NEW c \in Cs(s), ReadLands(s, c) \/ ReadShort(s, c)
      PROVE  TypeOK' /\ PoolInv' /\ LineInv' /\ TaskInv' /\ DataInv' /\ ClientInv' /\ SessionInv'
  <2>4. /\ ReadCompletes(s, c) /\ ring' = ring
        /\ faults' = faults \/ Fault
        /\ short' = short \/ Cut(s, c)
    BY <1>7 DEF ReadLands, ReadShort, ReadCompletes
  <2>5. c \in Nat
    BY <1>0, ChunkNumbers
  <2>6. /\ faults' \in Nat /\ short' \in [Streams -> SUBSET Nat] /\ (short'[s] = {} => short[s] = {})
        /\ \A t \in Streams : t # s => short'[t] = short[t]
    BY <1>0, <2>4, <2>5, FaultCount, CutEffect
  <2>1. TypeOK' /\ PoolInv' /\ LineInv'
    BY <1>0, <2>4, <2>6, ReadCompletesPool
  <2>2. TaskInv' /\ ClientInv' /\ SessionInv'
    BY <2>4, <2>6, ReadCompletesStream
  <2>3. DataInv'
    BY <1>0, <2>4, FillData DEF DataInv
  <2> QED BY <2>1, <2>2, <2>3
<1>8. ASSUME NEW s \in Streams, NEW c \in Cs(s), WriteLands(s, c) \/ WriteFails(s, c)
      PROVE  TypeOK' /\ PoolInv' /\ LineInv' /\ TaskInv' /\ DataInv' /\ ClientInv' /\ SessionInv'
  <2>1. TypeOK' /\ PoolInv' /\ LineInv'
    BY <1>0, <1>8, WritePool
  <2>2. TaskInv' /\ ClientInv' /\ SessionInv'
    BY <1>8, WriteStream
  <2>4. ring' = ring
    BY <1>8 DEF WriteLands, WriteFails, WriteCompletes
  <2>3. DataInv'
    BY <1>0, <2>4, <1>8, RingData DEF DataInv
  <2> QED BY <2>1, <2>2, <2>3
<1>9. ASSUME NEW s \in Streams, NEW c \in Cs(s), ReadEmpty(s, c) \/ ReadFails(s, c)
      PROVE  TypeOK' /\ PoolInv' /\ LineInv' /\ TaskInv' /\ DataInv' /\ ClientInv' /\ SessionInv'
  <2>4. /\ ReadEnds(s, c) /\ ring' = ring
        /\ err' = err \/ err' = [err EXCEPT ![s] = TRUE]
        /\ short' = short \/ Cut(s, c)
    BY <1>9 DEF ReadEmpty, ReadFails, ReadEnds
  <2>5. c \in Nat
    BY <1>0, ChunkNumbers
  <2>6. /\ short' \in [Streams -> SUBSET Nat] /\ (short'[s] = {} => short[s] = {})
        /\ \A t \in Streams : t # s => short'[t] = short[t]
    BY <1>0, <2>4, <2>5, CutEffect
  <2>7. /\ err' \in [Streams -> BOOLEAN] /\ (err[s] => err'[s])
        /\ \A t \in Streams : t # s => err'[t] = err[t]
    BY <1>0, <2>4 DEF TypeOK, PlainTypes
  <2>1. TypeOK' /\ PoolInv' /\ LineInv'
    BY <1>0, <2>4, <2>6, <2>7, ReadEndsPool
  <2>2. TaskInv' /\ ClientInv' /\ SessionInv'
    BY <2>4, <2>6, <2>7, ReadEndsStream
  <2>3. DataInv'
    BY <1>0, <2>4, RingData DEF DataInv
  <2> QED BY <2>1, <2>2, <2>3
<1>11. ASSUME NEW s \in Streams, BlockingShort(s)
      PROVE  TypeOK' /\ PoolInv' /\ LineInv' /\ TaskInv' /\ DataInv' /\ ClientInv' /\ SessionInv'
  <2>4. Blocking(s) /\ ring' = ring /\ Fault /\ Cut(s, 1)
    BY <1>11 DEF BlockingShort, Blocking
  <2>6. /\ faults' \in Nat /\ short' \in [Streams -> SUBSET Nat]
        /\ \A t \in Streams : t # s => short'[t] = short[t]
    BY <1>0, <2>4, FaultCount, CutEffect
  <2>1. TypeOK' /\ PoolInv' /\ LineInv'
    BY <1>0, <2>4, <2>6, BlockingPool
  <2>2. TaskInv' /\ ClientInv' /\ SessionInv'
    BY <2>4, <2>6, BlockingStream
  <2>3. DataInv'
    BY <1>0, <2>4, FillData DEF DataInv
  <2> QED BY <2>1, <2>2, <2>3
<1>12. ASSUME NEW s \in Streams, BlockingEmpty(s)
      PROVE  TypeOK' /\ PoolInv' /\ LineInv' /\ TaskInv' /\ DataInv' /\ ClientInv' /\ SessionInv'
  <2>1. TypeOK' /\ PoolInv' /\ LineInv'
    BY <1>0, <1>12, ReturnPool
  <2>2. TaskInv' /\ ClientInv' /\ SessionInv'
    BY <1>12, StopStream
  <2>4. ring' = ring
    BY <1>12 DEF BlockingEmpty
  <2>3. DataInv'
    BY <1>0, <2>4, <1>12, QuietData DEF DataInv
  <2> QED BY <2>1, <2>2, <2>3
<1>13. ASSUME NEW b, LateRead(b)
      PROVE  TypeOK' /\ PoolInv' /\ LineInv' /\ TaskInv' /\ DataInv' /\ ClientInv' /\ SessionInv'
  <2>1. TypeOK' /\ PoolInv' /\ LineInv'
    BY <1>0, <1>13, LateReadPool
  <2>2. /\ UNCHANGED <<kind, pc, st, ringAt, ring, left, got, answer, short>>
        /\ ring # "up"
    BY <1>13 DEF LateRead
  <2>3. TaskInv' /\ ClientInv'
    BY <2>2 DEF Inv, TaskInv, RingAtOK, ClientInv
  <2>4. DataInv' /\ SessionInv'
    BY <2>2 DEF DataInv, SessionInv
  <2> QED BY <2>1, <2>3, <2>4
<1>10. ASSUME UNCHANGED vars
       PROVE  TypeOK' /\ PoolInv' /\ LineInv' /\ TaskInv' /\ DataInv' /\ ClientInv' /\ SessionInv'
  <2>1. UNCHANGED <<kind, pc, st, buf, content, queue, waiters, pending, closed, err, result,
                    ringAt, ring, left, got, disk, answer, faults, short, late>>
    BY <1>10 DEF vars
  <2>2. ChunkTypes' /\ PlainTypes'
    BY <1>0, <2>1, SameChunks DEF TypeOK, ChunkTypes, PlainTypes
  <2>3. PoolInv' /\ LineInv'
    BY <1>0, <2>1, PoolSame, LineSame
  <2>4. TaskInv' /\ ClientInv' /\ SessionInv'
    BY <2>1 DEF Inv, TaskInv, RingAtOK, ClientInv, SessionInv
  <2>5. DataInv'
    BY <1>0, <2>1, DataKeep DEF DataInv
  <2> QED BY <2>2, <2>3, <2>4, <2>5 DEF TypeOK
<1>14. GotInv'
  BY GotStep
<1>15. TypeOK' /\ PoolInv' /\ LineInv' /\ TaskInv' /\ DataInv' /\ ClientInv' /\ SessionInv'
  BY <1>1, <1>2, <1>3, <1>4, <1>5, <1>6, <1>7, <1>8, <1>9, <1>10, <1>11, <1>12, <1>13 DEF Next
<1> QED BY <1>14, <1>15 DEF Inv

\* Every reachable state satisfies the inductive invariant.
THEOREM StreamingInvariant == Spec => []Inv
<1>1. Init => Inv
  BY InitInv
<1>2. Inv /\ [Next]_vars => Inv'
  BY NextInv
<1> QED BY <1>1, <1>2, PTL DEF Spec

\* The state has its type: statuses, buffers and data are what they should be
\* for every chunk of a body, whatever its length.
THEOREM TypeInvariant == Spec => []TypeOK
<1>1. Inv => TypeOK
  BY DEF Inv
<1> QED BY <1>1, StreamingInvariant, PTL

\* Every buffer of BufPool is in the queue once or with one chunk, on every
\* path on which a task returns, is dropped or fails, so none is lost or given
\* to two at once.
THEOREM BuffersOwnedInvariant == Spec => []BuffersOwned
<1>1. Inv => BuffersOwned
  <2> SUFFICES ASSUME Inv, NEW b \in Buffers PROVE Places(b) = 1
    BY DEF BuffersOwned
  <2> DEFINE Q == {i \in 1..Len(queue) : queue[i] = b}
  <2>0. TypeOK /\ PoolInv /\ Len(queue) \in Nat
    BY DEF Inv, TypeOK, PlainTypes
  <2>1. \A p : p \in Holders(b) <=> p \in HeldPairs /\ buf[p[1]][p[2]] = b
    <3>1. \A p : p \in UNION {{<<s, c>> : c \in Cs(s)} : s \in Streams} <=> p \in Pairs
      <4>1. \A s \in Streams : \A c \in Cs(s) : <<s, c>> \in Pairs
        BY <2>0, HeldMember
      <4>2. \A p \in Pairs : p[1] \in Streams /\ p[2] \in Cs(p[1]) /\ p = <<p[1], p[2]>>
        BY DEF Pairs
      <4>3. \A p \in Pairs : p \in UNION {{<<s, c>> : c \in Cs(s)} : s \in Streams}
        BY <4>2
      <4> QED BY <4>1, <4>3
    <3> QED BY <3>1 DEF Holders, HeldPairs, HeldStatuses
  <2>2. \A p, r \in HeldPairs : buf[p[1]][p[2]] = b /\ buf[r[1]][r[2]] = b => p = r
    BY <2>0 DEF PoolInv, PoolOK
  <2>3. CASE \E i \in 1..Len(queue) : queue[i] = b
    <3>1. PICK i \in 1..Len(queue) : queue[i] = b
      BY <2>3
    <3>2. Q = {i}
      BY <2>0, <3>1 DEF PoolInv, PoolOK
    <3>3. \A p \in HeldPairs : buf[p[1]][p[2]] # b
      BY <2>0, <3>1 DEF PoolInv, PoolOK
    <3>4. Holders(b) = {}
      BY <2>1, <3>3
    <3> HIDE DEF Q
    <3>5. Cardinality(Q) = 1 /\ Cardinality(Holders(b)) = 0
      BY <3>2, <3>4, FS_Singleton, FS_EmptySet
    <3> QED BY <3>5 DEF Places, Q
  <2>4. CASE ~\E i \in 1..Len(queue) : queue[i] = b
    <3>1. PICK p \in HeldPairs : buf[p[1]][p[2]] = b
      BY <2>0, <2>4 DEF PoolInv, PoolOK
    <3>2. Holders(b) = {p}
      BY <2>1, <2>2, <3>1
    <3>3. Q = {}
      BY <2>4
    <3> HIDE DEF Q
    <3>4. Cardinality(Q) = 0 /\ Cardinality(Holders(b)) = 1
      BY <3>2, <3>3, FS_Singleton, FS_EmptySet
    <3> QED BY <3>4 DEF Places, Q
  <2> QED BY <2>3, <2>4
<1> QED BY <1>1, StreamingInvariant, PTL

\* While the ring is up, the client of a download or of a small read receives
\* its chunks in order, each with its own data, and all of them when the body
\* ends well and no read has met the end of the file.
THEOREM ReceivesItsDataInvariant == Spec => []ReceivesItsData
<1>1. Inv => ReceivesItsData
  <2> SUFFICES ASSUME Inv, ring = "up", NEW s \in Streams
               PROVE  /\ OwnData(s)
                      /\ s \in Reads /\ Ended(s) /\ short[s] = {} => Len(got[s]) = Chunks[kind[s]]
    BY DEF ReceivesItsData
  <2>1. ClientOK(kind[s], pc[s], st[s], got[s], left[s], answer[s], short[s]) /\ TypeOK
    BY DEF Inv, ClientInv
  <2>2. OwnData(s)
    BY DEF Inv, GotInv
  <2>3. ASSUME s \in Reads, Ended(s), short[s] = {}
        PROVE  Len(got[s]) = Chunks[kind[s]]
    <3> DEFINE N == Chunks[kind[s]]
    <3>0. kind[s] \in {"download", "small"} /\ answer[s] = "ok" /\ ~left[s] /\ With(s, {"framed"}) = {}
      BY <2>3 DEF Reads, Ended
    <3>1. N \in Nat \ {0} /\ Cs(s) = 1..N /\ Len(got[s]) \in Nat
      BY <2>1, ChunkNumbers DEF TypeOK, PlainTypes
    <3>2. N \in 1..N /\ st[s][N] # "framed"
      BY <2>1, <3>0, <3>1, WithMember
    <3>3. Len(got[s]) <= N /\ (N <= Len(got[s]) \/ st[s][N] = "framed")
      BY <2>1, <2>3, <3>0, <3>2 DEF ClientOK
    <3> QED BY <3>1, <3>2, <3>3
  <2> QED BY <2>2, <2>3
<1> QED BY <1>1, StreamingInvariant, PTL

\* An upload or a copy that is answered with success while the ring is up has
\* every chunk on disk with its own data, in whatever order the ring completes
\* the writes and the task closes the session.
THEOREM AckMeansWrittenInvariant == Spec => []AckMeansWritten
<1>1. Inv => AckMeansWritten
  <2> SUFFICES ASSUME Inv, ring = "up", NEW s \in Streams, Acked(s) PROVE Written(s)
    BY DEF AckMeansWritten
  <2>1. SessionOK(s, kind[s], pc[s], st[s], pending[s], closed[s], err[s], result[s], disk[s], answer[s])
    BY DEF Inv, SessionInv
  <2> QED BY <2>1 DEF SessionOK, Acked, Written, Cs
<1> QED BY <1>1, StreamingInvariant, PTL

=============================================================================
