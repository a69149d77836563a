---------------------------- MODULE ObjectStore ----------------------------
(***************************************************************************)
(* The object operations of the gateway: GET, HEAD, PUT, append, COPY,     *)
(* DELETE, directory markers and tagging, on the files of one bucket.  The *)
(* gateway keeps no state of its own between two system calls, so every    *)
(* call on the file system is a step, and handlers interleave at each.     *)
(*                                                                         *)
(* A file is a sequence of chunks; one chunk is one read or one write of   *)
(* the ring.  The chunks of an upload are written in any order, and a      *)
(* write that is under way survives the handler that asked for it.         *)
(* Padding for O_DIRECT, which the final ftruncate removes, is left out.   *)
(***************************************************************************)
EXTENDS Integers, FiniteSets, Sequences

CONSTANTS
    Requests,
    Turn,           \* Requests -> Nat: requests are numbered as they arrive
    Keys,           \* keys of regular files
    Dirs,           \* directories below the bucket's root
    Root,           \* the bucket's root directory
    Up,             \* Keys \cup Dirs -> Dirs \cup {Root}: the parent directory
    InitFiles,      \* Keys -> Nat: length of the object, 0 for none
    InitDirs,       \* the directories that exist
    Calls,          \* the requests a client may send, a sequence
    Builds,         \* {TRUE}: truncate in place; {FALSE}: Lustre, a new inode
    CopyMax,        \* copy_max_size
    Threads,        \* runtime threads
    Second,         \* clock ticks in a second
    MaxTime,        \* bound on the clock
    MaxFaults       \* bound on I/O errors and broken bodies

VARIABLES
    name,       \* key -> inode, 0 when there is no such file
    dirs,       \* the directories that exist
    file,       \* inode -> contents, mtime and extended attributes
    inPlace,    \* which build this is
    now,        \* the file system's clock
    req,        \* the handlers' local state
    was,        \* history: the objects of a request when it arrived
    clean,      \* history: nobody else has changed them since
    shared,     \* history: if somebody has, they were appends
    changed,    \* history: the request has changed the file system
    faults

fsVars == <<name, dirs, file>>
ghosts == <<clean, shared, changed>>
vars == <<name, dirs, file, inPlace, now, req, was, clean, shared, changed, faults>>

Ops == {"get", "head", "gettags", "put", "append", "copy", "puttags",
        "delete", "deletes", "getdir", "mkdir", "rmdir"}
Inodes == 1..(Cardinality(Keys) + 2 * Cardinality(Requests))
Absent == -1
NoTag == "none"
Zero == <<"zero", 0>>

ASSUME TreeAssumption ==
    /\ IsFiniteSet(Keys) /\ IsFiniteSet(Requests) /\ Keys \cap Dirs = {}
    /\ Root \notin Dirs /\ Up \in [Keys \cup Dirs -> Dirs \cup {Root}]
    /\ InitFiles \in [Keys -> Nat] /\ InitDirs \subseteq Dirs
    /\ \A k \in Keys : InitFiles[k] > 0 => Up[k] \in InitDirs \cup {Root}
ASSUME BoundAssumption ==
    /\ MaxTime \in Nat /\ MaxFaults \in Nat /\ CopyMax \in Nat
    /\ Turn \in [Requests -> Nat]
    /\ Threads \in Nat \ {0} /\ Second \in Nat \ {0} /\ Builds \subseteq BOOLEAN

\* What the dispatcher passes on: a key that ends in "/" is a directory, a
\* DELETE has one key, a range has a first or a last chunk, and what is
\* refused at once is not answered with success.
DirOps == {"getdir", "mkdir", "rmdir"}
CallOK(c) ==
    /\ c.op \in Ops /\ c.len \in Nat /\ c.offset \in Nat
    /\ c.refuse # "ok" /\ c.key \in IF c.op \in DirOps THEN Dirs ELSE Keys
    /\ c.op = "copy" => c.from \in Keys
    /\ c.keys \in Seq(Keys \cup Dirs) /\ c.keys # << >>
    /\ c.op \in {"delete", "rmdir"} => c.keys = <<c.key>>
    /\ c.specs \in Seq([first : Nat \cup {Absent}, last : Nat \cup {Absent}])
    /\ \A n \in 1..Len(c.specs) : c.specs[n].first # Absent \/ c.specs[n].last # Absent
ASSUME CallAssumption == \A n \in DOMAIN Calls : CallOK(Calls[n])

-----------------------------------------------------------------------------
(* Conditions and ranges. *)

\* ETagCondition: "*" or a list of tags.
NoCondition == [given |-> FALSE, any |-> FALSE, tags |-> {}]
AnyTag == [given |-> TRUE, any |-> TRUE, tags |-> {}]
Matches(c, tag) == c.any \/ tag \in c.tags

\* An object as stat shows it; inode 0 is an object that does not exist.
NoFile == [data |-> << >>, mtime |-> 0, tags |-> NoTag, meta |-> NoTag]
NoView == [ino |-> 0, f |-> NoFile]
FdView(i) == [ino |-> i, f |-> file[i]]
View(k) == IF name[k] = 0 THEN NoView ELSE FdView(name[k])

\* The stat-derived tag, and Last-Modified in whole seconds.
ETag(v) == <<v.ino, v.f.mtime, Len(v.f.data)>>
Seconds(t) == t \div Second
LastModified(v) == Seconds(v.f.mtime)

\* evaluate_read_preconditions
ReadOutcome(c, v) ==
    IF \/ c.match.given /\ ~Matches(c.match, ETag(v))
       \/ c.unmodSince # Absent /\ LastModified(v) > Seconds(c.unmodSince) THEN "412"
    ELSE IF \/ c.noneMatch.given /\ Matches(c.noneMatch, ETag(v))
            \/ c.modSince # Absent /\ LastModified(v) <= Seconds(c.modSince) THEN "304"
    ELSE "ok"

\* evaluate_write_preconditions
WriteFails412(c, v) ==
    LET exists == v.ino # 0 IN
    \/ c.match.given /\ ~(exists /\ Matches(c.match, ETag(v)))
    \/ c.noneMatch.given /\ exists /\ Matches(c.noneMatch, ETag(v))
    \/ c.unmodSince # Absent /\ exists /\ LastModified(v) > Seconds(c.unmodSince)
    \/ c.modSince # Absent /\ ~(exists /\ LastModified(v) > Seconds(c.modSince))

\* DELETE: a DELETE of nothing looks at If-Match only.  The header has whole
\* seconds and is compared with the full modification time.
DeleteFails412(c, v) ==
    IF v.ino = 0 THEN c.match.given
    ELSE \/ WriteFails412(c, v)
         \/ c.size # Absent /\ c.size # Len(v.f.data)
         \/ c.lastMod # Absent /\ c.lastMod * Second # v.f.mtime

\* parse_one_range: the chunks s+1 .. e, or an unsatisfiable range.
Unsatisfiable == [s |-> 0, e |-> 0]
ParseOneRange_OffByOne(spec, size) ==
    IF spec.first = Absent
      THEN [s |-> IF spec.last > size THEN 0 ELSE size - spec.last, e |-> size]
      ELSE LET last == IF spec.last = Absent \/ spec.last > size THEN size ELSE spec.last
           IN IF spec.first >= size \/ last < spec.first THEN Unsatisfiable
              ELSE [s |-> spec.first, e |-> last]
ParseOneRange(spec, size) ==
    IF spec.first = Absent
      THEN IF spec.last = 0 THEN Unsatisfiable
           ELSE [s |-> IF spec.last > size THEN 0 ELSE size - spec.last, e |-> size]
      ELSE LET last == IF spec.last = Absent \/ spec.last >= size THEN size - 1 ELSE spec.last
           IN IF spec.first >= size \/ last < spec.first THEN Unsatisfiable
              ELSE [s |-> spec.first, e |-> last + 1]

Ranges(specs, size) == [n \in 1..Len(specs) |-> ParseOneRange(specs[n], size)]
RangesOk(specs, size) == \A n \in 1..Len(specs) : Ranges(specs, size)[n] # Unsatisfiable
Whole(size) == << [s |-> 0, e |-> size] >>

-----------------------------------------------------------------------------
(* Files. *)

Call(q) == Calls[q.call]
Payload(r) == [n \in 1..Call(req[r]).len |-> <<r, n>>]

\* The directories on the way to p: the least set that has its parent and,
\* with a directory, that directory's parent.
Above ==
    [p \in Keys \cup Dirs |->
        {d \in Dirs : \A A \in SUBSET Dirs :
            (\A e \in A \cup {p} : Up[e] \in A \cup {Root}) => d \in A}]

InUse(i) == (\E k \in Keys : name[k] = i) \/ (\E r \in Requests : i \in {req[r].fd, req[r].src})
\* The file system hands out the lowest free inode number, also one that a
\* deleted object has had.
NewInode == CHOOSE i \in Inodes : ~InUse(i) /\ \A j \in Inodes : j < i => InUse(j)
Blank(len) == [data |-> [n \in 1..len |-> Zero], mtime |-> now, tags |-> NoTag, meta |-> NoTag]

\* pwrite at a chunk: a write past the end leaves a hole.
Pwrite(f, n, byte) ==
    [f EXCEPT !.mtime = now,
              !.data = [m \in 1..(IF Len(f.data) < n THEN n ELSE Len(f.data)) |->
                          IF m = n THEN byte ELSE IF m <= Len(f.data) THEN f.data[m] ELSE Zero]]
Ftruncate(f, len) ==
    [f EXCEPT !.mtime = now,
              !.data = [m \in 1..len |-> IF m <= Len(f.data) THEN f.data[m] ELSE Zero]]
DirEmpty(d) == \A p \in Keys \cup Dirs : Up[p] = d => p \notin dirs /\ (p \in Keys => name[p] = 0)

-----------------------------------------------------------------------------
(* Handlers. *)

\* The system calls of each handler, in the order of the code: each names
\* the next one.
GetFlow ==
    [start |-> "open", open |-> "attrs", attrs |-> "stream", stream |-> "done"]
PutFlow_StatFirst ==
    [start |-> "check", check |-> "mkdirs", mkdirs |-> "create", create |-> "body",
     body |-> "stat", stat |-> "trunc", trunc |-> "tags", tags |-> "meta", meta |-> "done"]
PutFlow_MkdirsFirst ==
    [start |-> "mkdirs", mkdirs |-> "check", check |-> "create", create |-> "body",
     body |-> "trunc", trunc |-> "stat", stat |-> "tags", tags |-> "meta", meta |-> "done"]
PutFlow ==
    [start |-> "check", check |-> "mkdirs", mkdirs |-> "create", create |-> "body",
     body |-> "trunc", trunc |-> "stat", stat |-> "tags", tags |-> "meta", meta |-> "done"]
AppendFlow ==
    [start |-> "existing", existing |-> "flock", flock |-> "offset", offset |-> "body",
     body |-> "stat", stat |-> "done"]
CopyFlow ==
    [start |-> "source", source |-> "check", check |-> "srcattrs", srcattrs |-> "mkdirs",
     mkdirs |-> "opensrc", opensrc |-> "create", create |-> "body", body |-> "trunc",
     trunc |-> "tags", tags |-> "meta", meta |-> "stat", stat |-> "done"]
GetTagsFlow ==
    [start |-> "exists", exists |-> "readtags", readtags |-> "done"]
PutTagsFlow ==
    [start |-> "exists", exists |-> "tags", tags |-> "done"]
DeleteFlow ==
    [start |-> "check", check |-> "remove", remove |-> "done"]

Flow(op) ==
    CASE op \in {"get", "head"} -> GetFlow
      [] op = "put" -> PutFlow
      [] op = "append" -> AppendFlow
      [] op = "copy" -> CopyFlow
      [] op = "gettags" -> GetTagsFlow
      [] op = "puttags" -> PutTagsFlow
      [] op = "delete" -> DeleteFlow
      [] op = "getdir" -> [start |-> "statdir", statdir |-> "done"]
      [] op = "mkdir" -> [start |-> "mkdirs", mkdirs |-> "statdir", statdir |-> "done"]
      [] op \in {"rmdir", "deletes"} -> [start |-> "remove", remove |-> "done"]

After(op, p) == Flow(op)[p]

Idle ==
    [pc |-> "idle", call |-> 0, fd |-> 0, src |-> 0, locked |-> FALSE, seen |-> <<0, 0, 0>>,
     size |-> 0, todo |-> {}, flying |-> {}, failed |-> FALSE, got |-> << >>, ranges |-> << >>,
     keys |-> << >>, dir |-> Root, tags |-> NoTag, meta |-> NoTag, answer |-> "none"]
NewReq(n, p) ==
    [Idle EXCEPT !.pc = p, !.call = n, !.size = Calls[n].len, !.keys = Calls[n].keys,
                 !.tags = Calls[n].tags, !.meta = Calls[n].meta]

\* The handler returns: it drops its descriptors.  The ring holds on to one
\* that it is still writing to, and with it to its lock.
Finished(q, a) ==
    [q EXCEPT !.pc = "done", !.answer = a, !.src = 0, !.todo = {}, !.ranges = << >>, !.keys = << >>, !.size = 0,
              !.fd = IF q.flying = {} THEN 0 ELSE @, !.locked = IF q.flying = {} THEN FALSE ELSE @]
Continue(q) ==
    LET p == After(Call(q).op, q.pc) IN IF p = "done" THEN Finished(q, "ok") ELSE [q EXCEPT !.pc = p]

\* A thread that waits in flock(2) runs nothing else.
CanRun(r) == Cardinality({q \in Requests \ {r} : req[q].pc = "flock"}) < Threads
At(r, p) == req[r].pc = p /\ CanRun(r)

Watched(r) == IF req[r].pc = "idle" THEN {} ELSE Keys \cap {Call(req[r]).key, Call(req[r]).from}
Same(r) == \A k \in Watched(r) : View(k)' = View(k) /\ (Above[k] \cap dirs)' = Above[k] \cap dirs
Observe(r) ==
    /\ clean' = [q \in Requests |-> clean[q] /\ (q = r \/ Same(q))]
    /\ shared' = [q \in Requests |-> shared[q] /\ (q = r \/ Same(q) \/ Call(req[r]).op = "append")]
    /\ changed' = [changed EXCEPT ![r] = @ \/ fsVars' # fsVars]

\* The end of every step of a handler: its new local state, and nothing else
\* but the file system.
Step(r, q) ==
    /\ req' = [req EXCEPT ![r] = q]
    /\ Observe(r)
    /\ UNCHANGED <<inPlace, now, was, faults>>
Fs(n, d, f) == name' = n /\ dirs' = d /\ file' = f
KeepFs == UNCHANGED fsVars

\* What is refused before any system call on the object: a reserved key, a
\* malformed header, attributes on a file system without them.
Arrive(r, n) ==
    LET c == Calls[n]
        q == NewReq(n, Flow(c.op).start)
    IN /\ req[r].pc = "idle" /\ CanRun(r)
       /\ \A p \in Requests : Turn[p] < Turn[r] => req[p].pc # "idle"
       /\ was' = [was EXCEPT ![r] = [k \in Keys \cap {c.key, c.from} |-> View(k)]]
       /\ req' = [req EXCEPT ![r] = IF c.refuse # "none" THEN Finished(q, c.refuse) ELSE q]
       /\ UNCHANGED <<fsVars, inPlace, now, ghosts, faults>>

-----------------------------------------------------------------------------
(* Conditional and in-place writes: PUT, append, COPY. *)

Key(r) == Call(req[r]).key
Ino(r) == name[Key(r)]
Cond(r) == Call(req[r]).cond
Fail(r, a) == KeepFs /\ Step(r, Finished(req[r], a))

\* stat of the destination (PUT, COPY) or of the object to delete.
Check(r) ==
    LET q == req[r]
        refused == IF Call(q).op = "delete" THEN DeleteFails412(Cond(r), View(Key(r)))
                   ELSE WriteFails412(Cond(r), View(Key(r)))
        tooLarge == Call(q).op = "copy" /\ q.size > CopyMax
    IN /\ At(r, "check")
       /\ \/ refused /\ Fail(r, "412")
          \/ ~refused /\ tooLarge /\ Fail(r, "400")
          \/ ~refused /\ ~tooLarge /\ KeepFs /\ Step(r, Continue(q))

\* COPY: the source's stat and conditions, its attributes, its descriptor.
Source(r) ==
    LET v == View(Call(req[r]).from)
        ok == ReadOutcome(Call(req[r]).srcCond, v) = "ok"
    IN /\ At(r, "source")
       /\ \/ v.ino = 0 /\ Fail(r, "404")
          \/ v.ino # 0 /\ ~ok /\ Fail(r, "412")
          \/ v.ino # 0 /\ ok /\ KeepFs
               /\ Step(r, Continue([req[r] EXCEPT !.size = Len(v.f.data)]))

SrcAttrs(r) ==
    LET q == req[r]
        i == name[Call(q).from]
    IN /\ At(r, "srcattrs") /\ KeepFs
       /\ \/ Call(q).replace /\ Step(r, Continue(q))
          \/ ~Call(q).replace /\ i = 0 /\ Step(r, Finished(q, "500"))
          \/ ~Call(q).replace /\ i # 0
               /\ Step(r, Continue([q EXCEPT !.tags = file[i].tags, !.meta = file[i].meta]))

OpenSource(r) ==
    LET i == name[Call(req[r]).from] IN
    /\ At(r, "opensrc") /\ KeepFs
    /\ Step(r, IF i = 0 THEN Finished(req[r], "500") ELSE Continue([req[r] EXCEPT !.src = i]))

\* create_dir_all of the parent, or of a directory marker.
Mkdirs(r) ==
    /\ At(r, "mkdirs")
    /\ Fs(name, dirs \cup Above[Key(r)] \cup ({Key(r)} \cap Dirs), file)
    /\ Step(r, Continue(req[r]))

\* open with O_CREAT and O_TRUNC, and the preallocation.  The Lustre build
\* removes the old file and creates another.  The parent may be gone again.
Create(r) ==
    LET q == req[r]
        i == IF inPlace /\ Ino(r) # 0 THEN Ino(r) ELSE NewInode
        kept == IF i = Ino(r) THEN [Blank(q.size) EXCEPT !.tags = file[i].tags, !.meta = file[i].meta]
                ELSE Blank(q.size)
    IN /\ At(r, "create")
       /\ IF Up[Key(r)] \in dirs \cup {Root}
            THEN /\ Fs([name EXCEPT ![Key(r)] = i], dirs, [file EXCEPT ![i] = kept])
                 /\ Step(r, Continue([q EXCEPT !.fd = i, !.todo = 1..q.size]))
            ELSE Fail(r, "500")

\* Append: open what exists, wait for the lock, then look at the size.
OpenExisting(r) ==
    /\ At(r, "existing")
    /\ IF Ino(r) = 0 THEN Fail(r, "404")
       ELSE KeepFs /\ Step(r, Continue([req[r] EXCEPT !.fd = Ino(r)]))

LockFree_Always(r) == TRUE
LockFree(r) == \A q \in Requests \ {r} : ~(req[q].locked /\ req[q].fd = req[r].fd)
Flock(r) ==
    /\ req[r].pc = "flock" /\ LockFree(r)
    /\ KeepFs /\ Step(r, Continue([req[r] EXCEPT !.locked = TRUE]))

Offset(r) ==
    LET q == req[r]
        a == IF Call(q).offset # Len(file[q.fd].data) THEN "400"
             ELSE IF WriteFails412(Call(q).cond, FdView(q.fd)) THEN "412"
             ELSE IF Call(q).len = 0 THEN "400" ELSE "ok"
    IN /\ At(r, "offset")
       /\ IF a # "ok" THEN Fail(r, a)
          ELSE KeepFs /\ Step(r, Continue([q EXCEPT !.todo = 1..Call(q).len]))

-----------------------------------------------------------------------------
(* The body: chunks are received or read in order, written in any order. *)

First(todo) == CHOOSE n \in todo : \A m \in todo : n <= m

Receive(r) ==
    LET q == req[r]
        n == First(q.todo)
        base == IF Call(q).op = "append" THEN Call(q).offset ELSE 0
    IN /\ At(r, "body") /\ q.todo # {} /\ Call(q).op # "copy" /\ KeepFs
       /\ Step(r, [q EXCEPT !.todo = @ \ {n},
                            !.flying = IF q.failed THEN @ ELSE @ \cup {<<base + n, <<r, n>>>>}])

CopyChunk(r) ==
    LET q == req[r]
        n == First(q.todo)
        data == file[q.src].data
    IN /\ At(r, "body") /\ q.todo # {} /\ Call(q).op = "copy" /\ KeepFs
       /\ Step(r, IF q.failed \/ n > Len(data) THEN [q EXCEPT !.todo = {}, !.failed = TRUE]
                  ELSE [q EXCEPT !.todo = @ \ {n}, !.flying = @ \cup {<<n, data[n]>>}])

\* The ring performs a write, whether or not its handler is still there.
Landed(q, w) ==
    LET rest == q.flying \ {w} IN
    IF q.pc = "done" /\ rest = {} THEN [q EXCEPT !.flying = rest, !.fd = 0, !.locked = FALSE]
    ELSE [q EXCEPT !.flying = rest]
WriteLands(r) ==
    \E w \in req[r].flying :
        /\ Fs(name, dirs, [file EXCEPT ![req[r].fd] = Pwrite(@, w[1], w[2])])
        /\ Step(r, Landed(req[r], w))

BodyEnd(r) ==
    LET q == req[r] IN
    /\ At(r, "body") /\ q.todo = {} /\ q.flying = {} /\ KeepFs
    /\ Step(r, IF q.failed THEN Finished(q, "500") ELSE Continue(q))

Trunc(r) ==
    LET q == req[r] IN
    /\ At(r, "trunc")
    /\ Fs(name, dirs, [file EXCEPT ![q.fd] = Ftruncate(@, q.size)])
    /\ Step(r, Continue([q EXCEPT !.fd = 0, !.src = 0]))

\* stat by path after PUT and COPY, by descriptor after an append.
Stat(r) ==
    LET i == IF Call(req[r]).op = "append" THEN req[r].fd ELSE Ino(r) IN
    /\ At(r, "stat") /\ KeepFs
    /\ Step(r, IF i = 0 THEN Finished(req[r], "500") ELSE Continue([req[r] EXCEPT !.seen = ETag(FdView(i))]))

\* The attributes, by path: tags, then user metadata and content type.
Tags(r) ==
    /\ At(r, "tags")
    /\ IF Ino(r) = 0 THEN Fail(r, "500")
       ELSE /\ Fs(name, dirs, [file EXCEPT ![Ino(r)].tags = req[r].tags])
            /\ Step(r, Continue(req[r]))
Meta(r) ==
    /\ At(r, "meta")
    /\ IF Ino(r) = 0 THEN Fail(r, "500")
       ELSE /\ Fs(name, dirs, [file EXCEPT ![Ino(r)].meta = req[r].meta])
            /\ Step(r, Continue(req[r]))

-----------------------------------------------------------------------------
(* GET, HEAD and tagging. *)

Open(r) ==
    LET v == View(Key(r))
        a == IF v.ino = 0 THEN "404" ELSE ReadOutcome(Cond(r), v)
    IN /\ At(r, "open")
       /\ IF a # "ok" THEN Fail(r, a)
          ELSE KeepFs /\ Step(r, Continue([req[r] EXCEPT !.fd = v.ino, !.seen = ETag(v),
                                                        !.size = Len(v.f.data)]))

\* The stored headers, by path, and what the range asks for.  A HEAD ignores
\* several ranges; one chunk is read from the descriptor, more are streamed.
Attrs(r) ==
    LET q == [req[r] EXCEPT !.meta = View(Key(r)).f.meta]
        specs == Call(q).specs
        all == Len(specs) = 0 \/ (Len(specs) > 1 /\ Call(q).op = "head")
        wanted == IF all THEN Whole(q.size) ELSE Ranges(specs, q.size)
        small == Len(wanted) = 1 /\ wanted[1].e - wanted[1].s = 1
    IN /\ At(r, "attrs") /\ KeepFs
       /\ Step(r, IF q.size = 0 THEN Finished(q, "ok")
                  ELSE IF ~RangesOk(specs, q.size) THEN Finished(q, "416")
                  ELSE IF Call(q).op = "head" THEN Finished([q EXCEPT !.got = wanted], "ok")
                  ELSE [q EXCEPT !.ranges = wanted, !.pc = IF small THEN "small" ELSE "stream"])

Small(r) ==
    LET q == req[r]
        n == q.ranges[1].s + 1
        data == file[q.fd].data
    IN /\ At(r, "small") /\ KeepFs
       /\ Step(r, IF n > Len(data) THEN Finished(q, "500") ELSE Finished([q EXCEPT !.got = << <<data[n]>> >>], "ok"))

\* Every range is a part of the body and opens the path again; a path that is
\* gone ends the body early.
Stream(r) ==
    LET q == req[r]
        w == Head(q.ranges)
    IN /\ At(r, "stream") /\ KeepFs
       /\ Step(r, IF Ino(r) = 0 THEN Finished(q, "ok")
                  ELSE [q EXCEPT !.pc = "reading", !.fd = Ino(r), !.todo = (w.s + 1)..w.e,
                                 !.got = Append(@, << >>)])

ReadChunk(r) ==
    LET q == req[r]
        n == First(q.todo)
        data == file[q.fd].data
    IN /\ At(r, "reading") /\ q.todo # {} /\ KeepFs
       /\ Step(r, IF n > Len(data) THEN [q EXCEPT !.todo = {}]
                  ELSE [q EXCEPT !.todo = @ \ {n}, !.got[Len(q.got)] = Append(@, data[n])])
RangeEnd(r) ==
    LET q == req[r] IN
    /\ At(r, "reading") /\ q.todo = {} /\ KeepFs
    /\ Step(r, IF Len(q.ranges) = 1 THEN Finished(q, "ok")
               ELSE [q EXCEPT !.pc = "stream", !.ranges = Tail(@)])

Exists(r) ==
    /\ At(r, "exists")
    /\ IF Ino(r) = 0 THEN Fail(r, "404") ELSE KeepFs /\ Step(r, Continue(req[r]))
ReadTags(r) ==
    /\ At(r, "readtags")
    /\ IF Ino(r) = 0 THEN Fail(r, "500")
       ELSE KeepFs /\ Step(r, Continue([req[r] EXCEPT !.tags = file[Ino(r)].tags]))

-----------------------------------------------------------------------------
(* DELETE, DeleteObjects and directory markers. *)

NextKey(q) ==
    IF Len(q.keys) = 1 THEN Finished(q, "ok") ELSE [q EXCEPT !.keys = Tail(@), !.pc = "remove"]

\* unlink or rmdir.  What is not there counts as deleted; a directory that is
\* not empty is a conflict, or an entry in the list of errors.
Remove(r) ==
    LET q == req[r]
        k == Head(q.keys)
        gone == IF k \in Keys THEN name[k] = 0 ELSE k \notin dirs
        full == k \in Dirs /\ ~DirEmpty(k)
    IN /\ At(r, "remove")
       /\ \/ ~gone /\ full /\ Call(q).op = "rmdir" /\ Fail(r, "409")
          \/ (gone \/ (full /\ Call(q).op # "rmdir")) /\ KeepFs /\ Step(r, NextKey(q))
          \/ /\ ~gone /\ ~full
             /\ Fs([n \in Keys |-> IF n = k THEN 0 ELSE name[n]], dirs \ {k}, file)
             /\ Step(r, [q EXCEPT !.pc = "prune", !.dir = Up[k]])

\* prune_empty_parents: one rmdir after the other, up to the first that fails.
Prune(r) ==
    LET q == req[r] IN
    /\ At(r, "prune")
    /\ IF q.dir # Root /\ q.dir \in dirs /\ DirEmpty(q.dir)
         THEN Fs(name, dirs \ {q.dir}, file) /\ Step(r, [q EXCEPT !.dir = Up[q.dir]])
         ELSE KeepFs /\ Step(r, NextKey([q EXCEPT !.dir = Root]))

StatDir(r) ==
    /\ At(r, "statdir") /\ KeepFs
    /\ Step(r, Finished(req[r], IF Key(r) \in dirs THEN "ok"
                                ELSE IF Call(req[r]).op = "getdir" THEN "404" ELSE "500"))

-----------------------------------------------------------------------------
(* Faults and the clock. *)

Faulty(r, q) ==
    /\ faults < MaxFaults /\ faults' = faults + 1
    /\ req' = [req EXCEPT ![r] = [q EXCEPT !.failed = TRUE]]
    /\ KeepFs /\ UNCHANGED <<inPlace, now, was, ghosts>>

\* The body breaks off, or the client goes away: the handler returns at once,
\* without waiting for the writes that are under way.
BodyBroken(r) ==
    /\ At(r, "body") /\ req[r].todo # {} /\ Call(req[r]).op # "copy"
    /\ Faulty(r, Finished(req[r], "500"))

\* A write fails: the rest of the body is no longer written.
WriteError(r) ==
    \E w \in req[r].flying : req[r].pc = "body" /\ Faulty(r, Landed(req[r], w))

\* Any other system call fails.
IoError(r) ==
    /\ CanRun(r) /\ req[r].pc \in {"mkdirs", "create", "trunc", "stat", "tags", "meta"}
    /\ Faulty(r, Finished(req[r], "500"))

Tick ==
    /\ now < MaxTime /\ now' = now + 1
    /\ UNCHANGED <<fsVars, inPlace, req, was, ghosts, faults>>

-----------------------------------------------------------------------------

\* Objects of earlier requests, with tags and metadata, and the directories.
OldFile(n) ==
    [data |-> [m \in 1..n |-> <<"old", m>>], mtime |-> 0, tags |-> "old", meta |-> "old"]
Init ==
    /\ inPlace \in Builds /\ dirs = InitDirs /\ now = 0 /\ faults = 0
    /\ name = CHOOSE num \in [Keys -> 0..Cardinality(Keys)] :
                \A k, l \in Keys : /\ (num[k] = 0) = (InitFiles[k] = 0)
                                   /\ k # l /\ num[k] # 0 => num[k] # num[l]
    /\ file = [i \in Inodes |-> IF \E k \in Keys : name[k] = i
                                THEN OldFile(InitFiles[CHOOSE k \in Keys : name[k] = i]) ELSE NoFile]
    /\ req = [r \in Requests |-> Idle]
    /\ was = [r \in Requests |-> << >>]
    /\ clean = [r \in Requests |-> TRUE] /\ shared = [r \in Requests |-> TRUE]
    /\ changed = [r \in Requests |-> FALSE]

\* Nothing else is allowed to stand still: with more threads than appends
\* that wait, the lock never blocks everybody.
Over == (\A r \in Requests : req[r].pc = "done") /\ UNCHANGED vars

Handler(r) ==
    \/ Check(r) \/ Source(r) \/ SrcAttrs(r) \/ OpenSource(r) \/ Mkdirs(r) \/ Create(r)
    \/ OpenExisting(r) \/ Flock(r) \/ Offset(r)
    \/ Receive(r) \/ CopyChunk(r) \/ BodyEnd(r) \/ Trunc(r) \/ Stat(r) \/ Tags(r) \/ Meta(r)
    \/ Open(r) \/ Attrs(r) \/ Small(r) \/ Stream(r) \/ ReadChunk(r) \/ RangeEnd(r)
    \/ Exists(r) \/ ReadTags(r) \/ Remove(r) \/ Prune(r) \/ StatDir(r)

Next ==
    \/ \E r \in Requests :
         \/ \E n \in DOMAIN Calls : Arrive(r, n)
         \/ Handler(r) \/ WriteLands(r)
         \/ BodyBroken(r) \/ WriteError(r) \/ IoError(r)
    \/ Tick
    \/ Over

Spec == Init /\ [][Next]_vars

-----------------------------------------------------------------------------
(* Properties. *)

Done(r) == req[r].pc = "done"
Undisturbed(r) == Done(r) /\ clean[r] /\ ~req[r].failed /\ Call(req[r]).refuse = "none"
Refused(r, a) == req[r].answer = a /\ (Key(r) \in Keys => View(Key(r)) = was[r][Key(r)])
Became(r, data, tags, meta) ==
    /\ req[r].answer = "ok" /\ req[r].seen = ETag(View(Key(r)))
    /\ View(Key(r)).f = [data |-> data, tags |-> tags, meta |-> meta, mtime |-> View(Key(r)).f.mtime]

\* A write that nobody disturbs does what the same write does on its own, in
\* whatever order its chunks were written: the refusal its conditions ask
\* for, or exactly its contents and attributes, under the tag it answered
\* with, and no trace of what the object was before.  Two things are stated
\* apart, below: which status answers an append at another offset than the
\* object's size, and a COPY onto its own source.
WriteIsExact(r) ==
    LET q == req[r]
        v == was[r][Key(r)]
        from == was[r][Call(q).from]
    IN CASE Call(q).op = "put" ->
              IF WriteFails412(Cond(r), v) THEN Refused(r, "412")
              ELSE Became(r, Payload(r), Call(q).tags, Call(q).meta)
         [] Call(q).op = "append" ->
              IF v.ino = 0 THEN Refused(r, "404")
              ELSE IF Call(q).offset # Len(v.f.data) THEN Refused(r, "400") \/ Refused(r, "412")
              ELSE IF WriteFails412(Cond(r), v) THEN Refused(r, "412")
              ELSE IF Call(q).len = 0 THEN Refused(r, "400")
              ELSE Became(r, v.f.data \o Payload(r), v.f.tags, v.f.meta)
         [] Call(q).op = "copy" /\ Call(q).from # Key(r) ->
              IF from.ino = 0 THEN Refused(r, "404")
              ELSE IF ReadOutcome(Call(q).srcCond, from) # "ok" \/ WriteFails412(Cond(r), v)
                THEN Refused(r, "412")
              ELSE IF Len(from.f.data) > CopyMax THEN Refused(r, "400")
              ELSE Became(r, from.f.data, IF Call(q).replace THEN Call(q).tags ELSE from.f.tags,
                          IF Call(q).replace THEN Call(q).meta ELSE from.f.meta)
         [] Call(q).op = "delete" ->
              IF DeleteFails412(Cond(r), v) THEN Refused(r, "412") ELSE q.answer = "ok" /\ Ino(r) = 0
         [] OTHER -> TRUE
UndisturbedWriteExact == \A r \in Requests : Undisturbed(r) => WriteIsExact(r)

\* What README.md says of an append: the offset must equal the current size,
\* "otherwise `412 PreconditionFailed`".  The code answers with 400.
WrongOffsetIs412 ==
    \A r \in Requests :
        LET v == was[r][Key(r)] IN
        Undisturbed(r) /\ Call(req[r]).op = "append" /\ v.ino # 0
          /\ Call(req[r]).offset # Len(v.f.data) => req[r].answer = "412"

\* What README.md says of CopyObject, a "server-side copy" whose directives
\* are about the attributes: the destination has the bytes of the source,
\* also when a client copies an object onto itself to give it others.  The code
\* does not keep this for a copy onto itself.
CopyKeepsContents ==
    \A r \in Requests :
        Undisturbed(r) /\ Call(req[r]).op = "copy" /\ req[r].answer = "ok" =>
            View(Key(r)).f.data = was[r][Call(req[r]).from].f.data

\* A read that nobody disturbs answers with one state of the object: the
\* status its conditions and ranges ask for, that state's tag and metadata,
\* and the bytes of the ranges, although the streamed paths open the object
\* a second time.
Asked(spec, size) ==
    {n \in 1..size : IF spec.first = Absent THEN n > size - spec.last
                     ELSE n > spec.first /\ (spec.last = Absent \/ n <= spec.last + 1)}
RangeData(data, spec) ==
    LET w == Asked(spec, Len(data)) IN [i \in 1..Cardinality(w) |-> data[First(w) + i - 1]]
ReadIsExact(r) ==
    LET q == req[r]
        v == was[r][Key(r)]
        size == Len(v.f.data)
        specs == Call(q).specs
        a == IF v.ino = 0 THEN "404"
             ELSE IF ReadOutcome(Cond(r), v) # "ok" THEN ReadOutcome(Cond(r), v)
             ELSE IF size > 0 /\ (\E n \in 1..Len(specs) : Asked(specs[n], size) = {}) THEN "416"
             ELSE "ok"
    IN CASE Call(q).op = "get" ->
              /\ q.answer = a
              /\ a = "ok" => /\ q.seen = ETag(v) /\ q.meta = v.f.meta
                             /\ q.got = IF size = 0 THEN << >> ELSE IF Len(specs) = 0 THEN << v.f.data >>
                                        ELSE [n \in 1..Len(specs) |-> RangeData(v.f.data, specs[n])]
         [] Call(q).op = "head" ->
              q.answer = a /\ (a = "ok" => q.seen = ETag(v) /\ q.meta = v.f.meta)
         [] Call(q).op = "gettags" ->
              IF v.ino = 0 THEN q.answer = "404" ELSE q.answer = "ok" /\ q.tags = v.f.tags
         [] OTHER -> TRUE
UndisturbedReadExact == \A r \in Requests : Undisturbed(r) => ReadIsExact(r)

\* Appends to one object are serialized by the lock on its inode: what an
\* acknowledged append wrote stays at its offset, and is whole, as long as
\* only appends touch the object, failed ones included, whose last writes may
\* land after their answer.
AppendsSerialized ==
    \A r \in Requests :
        Done(r) /\ Call(req[r]).op = "append" /\ req[r].answer = "ok" /\ shared[r] =>
            \A n \in 1..Call(req[r]).len :
                /\ Call(req[r]).offset + n <= Len(View(Key(r)).f.data)
                /\ View(Key(r)).f.data[Call(req[r]).offset + n] = <<r, n>>

\* A request that is refused has changed nothing, not even a directory on
\* the way to its object: every check comes before the first change.
RefusedLeavesNoTrace ==
    \A r \in Requests :
        Done(r) /\ req[r].answer \in {"304", "400", "403", "404", "409", "412", "416"} => ~changed[r]

=============================================================================
