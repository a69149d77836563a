----------------------------- MODULE Multipart -----------------------------
(***************************************************************************)
(* One multipart upload of the gateway                                     *)
(* (crates/s32p-gateway/src/multipart.rs): its directory on disk           *)
(* (meta.json, lock, direct.bin, parts/), the requests that work on it     *)
(* concurrently, and the object it is assembled into.                      *)
(*                                                                         *)
(* A request is a task of the gateway's runtime.  flock is not an await:   *)
(* it blocks the runtime thread, and the code between a lock and the next  *)
(* await runs on that thread.  File contents are sequences of cells (one   *)
(* cell: one chunk of a body); a file descriptor follows its file through  *)
(* renames and unlinks.                                                    *)
(***************************************************************************)
EXTENDS Integers, Sequences, FiniteSets

CONSTANTS
    Requests,        \* requests; each is sent at most once
    MaxPart,         \* part numbers are 1..MaxPart
    Lens,            \* part lengths, in cells
    Lists,           \* part lists of CompleteMultipartUpload: n is 1..n, 0 has a gap
    NoReplace,       \* may a Complete carry If-None-Match: *
    Kinds,           \* the operations requests may be
    SameFs,          \* may the object be on the upload directory's file system
    Threads,         \* worker threads of the gateway's runtime
    MaxFaults,       \* bound on crashes, disconnects and failing copies
    MaxForeign       \* bound on other writers creating or deleting the object

PartNumbers == 1..MaxPart
Operations == {"put", "copy", "complete", "abort"}
Uploads == {"put", "copy"}

ASSUME ConstantsAssumption ==
    /\ IsFiniteSet(Requests)
    /\ MaxPart \in Nat \ {0}
    /\ Lens \subseteq Nat /\ Lens # {}
    /\ Lists \subseteq 0..MaxPart
    /\ NoReplace \subseteq BOOLEAN
    /\ Kinds \subseteq Operations
    /\ SameFs \subseteq BOOLEAN
    /\ Threads \in Nat \ {0}
    /\ MaxFaults \in Nat /\ MaxForeign \in Nat

VARIABLES
    dir,       \* does the upload directory exist
    lockFile,  \* which lock file the directory holds, 0 for none
    lockFiles, \* lock files created so far
    mstate,    \* meta.json: the state, "none" when there is no meta.json
    assumed,   \* meta.json: assumed_part_size
    parts,     \* meta.json: the entries of the parts
    files,     \* the contents of every other file, by name
    call,      \* request -> its operation, part, If-None-Match: * and body
    pc,        \* request -> where its handler is
    status,    \* request -> its answer, 0 for none
    lk,        \* request -> the lock file it has open, 0 for none
    fd,        \* request -> the file it has open for writing
    off,       \* request -> the part's offset in direct.bin, or InFile
    pos,       \* request -> cells of the body written; part being staged
    snap,      \* request -> its copy of meta.json
    tries,     \* part number -> uploads of it the client has sent so far
    sameFs,    \* is the object on the upload directory's file system
    faults, foreign

dirVars == <<dir, lockFile, lockFiles>>
meta == <<mstate, assumed, parts>>
planVars == <<lk, off, pos, snap>>
reqVars == <<pc, status, fd, planVars>>
envVars == <<tries, sameFs, faults, foreign>>
vars == <<dirVars, meta, files, call, reqVars, envVars>>

-----------------------------------------------------------------------------
\* meta.json, in memory.  A part's entry has its size and its place.

NoSize == -1
InFile == -1     \* PartStored::File; other values are offsets of PartStored::Direct
Part(size, place) == [size |-> size, off |-> place]
NoPart == Part(NoSize, InFile)
NoParts == [pn \in PartNumbers |-> NoPart]
Snap(a, ps) == [assumed |-> a, parts |-> ps]
NoSnap == Snap(NoSize, NoParts)

PartMeta == [size : Lens \cup {NoSize}, off : Nat \cup {InFile}]
PartMap == [PartNumbers -> PartMeta]
UploadMeta == [assumed : Lens \cup {NoSize}, parts : PartMap]
UploadState == {"none", "active", "completing", "completed"}

Listed(ps) == {pn \in PartNumbers : ps[pn].size # NoSize}

\* Does this upload fix the assumed part size before it writes its body.
Promotes(m, pn, len) ==
    /\ m.assumed = NoSize
    /\ pn = 1 \/ \E q \in Listed(m.parts) : m.parts[q].size = len

\* The assumed sizes recompute_assumed_part_size may leave (HashMap order).
Repeated(ps) ==
    {ps[p].size : p \in {q \in Listed(ps) :
        \E o \in Listed(ps) : o # q /\ ps[o].size = ps[q].size}}
Recomputed(a, ps) ==
    IF a # NoSize \/ Repeated(ps) = {} THEN {a} ELSE Repeated(ps)

\* compute_sequential_direct_offset: where part pn - 1 ends, if the parts before
\* pn are all in direct.bin, one after the other.
EndOf(ps, pn) == IF pn = 0 THEN 0 ELSE ps[pn].off + ps[pn].size
Sequential(ps, pn) ==
    IF \A q \in 1..(pn - 1) : /\ q \in Listed(ps)
                              /\ ps[q].off # InFile
                              /\ ps[q].off = EndOf(ps, q - 1)
    THEN EndOf(ps, pn - 1) ELSE InFile

\* A part longer than the assumed size is placed at its offset all the same.
DirectOffset_AnyLength(a, ps, pn, len) ==
    IF a # NoSize THEN (pn - 1) * a ELSE Sequential(ps, pn)

\* Where a part goes: its offset in direct.bin, or InFile.
DirectOffset(a, ps, pn, len) ==
    IF a # NoSize THEN IF len <= a THEN (pn - 1) * a ELSE InFile
    ELSE Sequential(ps, pn)

-----------------------------------------------------------------------------
\* Files.  A cell holds <<part number, index, attempt>>: every upload of a part
\* has a body of its own.

Hole == <<0, 0, 0>>
Foreign == << <<0, 1, 0>> >>       \* an object another request has written
NoFile == << <<-1, -1, -1>> >>

Direct == <<"direct.bin", 0>>
Stage == <<"complete.bin", 0>>
DstTmp == <<"dst_tmp", 0>>
Object == <<"object", 0>>
Gone == <<"unlinked", 0>>
PartFile(pn) == <<"part", pn>>
PartTmp(pn) == <<"tmp", pn>>

InDir == {Direct, Stage} \cup {PartTmp(pn) : pn \in PartNumbers}
                         \cup {PartFile(pn) : pn \in PartNumbers}
Names == InDir \cup {DstTmp, Object}
Fds == Names \cup {Gone}

Exists(name) == files[name] # NoFile

Larger(a, b) == IF a > b THEN a ELSE b

\* c with the cells of d written from offset o on.
Overwrite(c, o, d) ==
    [i \in 1..Larger(Len(c), o + Len(d)) |->
        IF o < i /\ i <= o + Len(d) THEN d[i - o]
        ELSE IF i <= Len(c) THEN c[i] ELSE Hole]

Truncate(c, n) == [i \in 1..n |-> IF i <= Len(c) THEN c[i] ELSE Hole]

\* Bytes [o, o + size) of c; a short read yields fewer.
ReadRange(c, o, size) ==
    SubSeq(c, o + 1, IF o + size < Len(c) THEN o + size ELSE Len(c))

\* The file a descriptor refers to once src has been renamed to dst, or once
\* the names in S have been unlinked.
FdRenamed(f, src, dst) == IF f = src THEN dst ELSE IF f = dst THEN Gone ELSE f
FdUnlinked(f, S) == IF f \in S THEN Gone ELSE f

FdsRenamed(src, dst) == fd' = [q \in Requests |-> FdRenamed(fd[q], src, dst)]
FdsUnlinked(S) == fd' = [q \in Requests |-> FdUnlinked(fd[q], S)]
\* The same, and r has the file f open instead of its own.
FdsUnlinkedBut(S, r, f) ==
    fd' = [q \in Requests |-> IF q = r THEN f ELSE FdUnlinked(fd[q], S)]

-----------------------------------------------------------------------------
\* Requests.

Codes == {0, 200, 204, 400, 404, 409, 412, 500}
\* len cells of body; try numbers the uploads of a part; alone: no other upload
\* of the part was being served when this one arrived.
Call(o, pn, nr) ==
    [op |-> o, pn |-> pn, noreplace |-> nr, len |-> 0, try |-> 0, alone |-> FALSE]
PartCall(o, pn, len, try, alone) ==
    [op |-> o, pn |-> pn, noreplace |-> FALSE, len |-> len, try |-> try, alone |-> alone]
NoCall == Call("none", 0, FALSE)

\* Where a request waits in flock, and where it owns the lock.
FlockPCs == {"p1Lock", "p3Lock", "cLock"}
HoldPCs == {"p1Plan", "p3Write", "cStart", "fast", "fastCommit", "xCopy", "xRemove",
            "xRename", "stageOpen", "stage", "stageRemove", "stageRename",
            "finish", "unlinkDone", "rmdirDone"}
\* Where it is suspended at an await; elsewhere it occupies a runtime thread.
AwaitPCs == {"body", "fast", "xCopy", "stage"}
ThreadPCs == {"p1Lock", "p3Lock", "cLock", "p1Plan", "p3Write", "cStart",
              "fastCommit", "xRemove", "xRename", "stageOpen", "stageRemove",
              "stageRename", "finish", "unlinkDone", "rmdirDone",
              "open", "renamed", "unlink", "rmdir"}
PCs == {"unsent", "done"} \cup ThreadPCs \cup AwaitPCs

CanPoll == Cardinality({r \in Requests : pc[r] \in ThreadPCs}) < Threads

Holds(r) == pc[r] \in HoldPCs

\* flock(LOCK_EX) of the lock file that request r has open.
Flock(r) == \A q \in Requests \ {r} : ~(Holds(q) /\ lk[q] = lk[r])

Goto(r, label) == pc' = [pc EXCEPT ![r] = label]

\* The handler returns; its lock and its descriptors are dropped.
Return(r, code) ==
    /\ Goto(r, "done") /\ status' = [status EXCEPT ![r] = code]
    /\ lk' = [lk EXCEPT ![r] = 0] /\ off' = [off EXCEPT ![r] = InFile]
    /\ pos' = [pos EXCEPT ![r] = 0] /\ snap' = [snap EXCEPT ![r] = NoSnap]
Answer(r, code) == Return(r, code) /\ fd' = [fd EXCEPT ![r] = Gone]

\* open(lock, O_CREAT) and wait for it at label; without the directory the
\* request is answered with code.
OpenLock(r, label, code) ==
    \/ /\ dir
       /\ lockFiles' = IF lockFile = 0 THEN lockFiles + 1 ELSE lockFiles
       /\ lockFile' = IF lockFile = 0 THEN lockFiles + 1 ELSE lockFile
       /\ lk' = [lk EXCEPT ![r] = lockFile']
       /\ Goto(r, label)
       /\ UNCHANGED <<status, fd, off, pos, snap>>
    \/ ~dir /\ Answer(r, code) /\ UNCHANGED <<lockFile, lockFiles>>

\* write_meta_atomic: fails when the directory is gone.
WriteMeta(st, a, ps) ==
    IF dir THEN mstate' = st /\ assumed' = a /\ parts' = ps ELSE UNCHANGED meta

-----------------------------------------------------------------------------
\* UploadPart and UploadPartCopy.

InFlight(pn) ==
    \E q \in Requests : call[q].op \in Uploads /\ call[q].pn = pn
                          /\ pc[q] \notin {"unsent", "done"}

\* The request arrives, with a body of any length, whatever other uploads of
\* the part there are; the directory is checked and the lock file opened.
UploadArrive(r, o, pn, len) ==
    /\ pc[r] = "unsent" /\ CanPoll
    /\ call' = [call EXCEPT ![r] = PartCall(o, pn, len, tries[pn] + 1, ~InFlight(pn))]
    /\ tries' = [tries EXCEPT ![pn] = @ + 1]
    /\ OpenLock(r, "p1Lock", 404)
    /\ UNCHANGED <<dir, meta, files, sameFs, faults, foreign>>

PutArrive(r, pn, len) == UploadArrive(r, "put", pn, len)
CopyArrive(r, pn, len) == UploadArrive(r, "copy", pn, len)

\* An upload that is being completed is waited for.
LockedRead_Waits(r, from, to) ==
    /\ pc[r] = from /\ Flock(r)
    /\ \/ mstate = "none" /\ Answer(r, 404)
       \/ /\ mstate = "active"
          /\ Goto(r, to) /\ snap' = [snap EXCEPT ![r] = Snap(assumed, parts)]
          /\ UNCHANGED <<status, fd, lk, off, pos>>
    /\ UNCHANGED <<dirVars, meta, files, call, envVars>>

\* Every locked phase starts with read_meta; the state has to be active.
LockedRead(r, from, to) ==
    /\ pc[r] = from /\ Flock(r)
    /\ \/ mstate = "none" /\ Answer(r, 404)
       \/ mstate \in {"completing", "completed"} /\ Answer(r, 409)
       \/ /\ mstate = "active"
          /\ Goto(r, to) /\ snap' = [snap EXCEPT ![r] = Snap(assumed, parts)]
          /\ UNCHANGED <<status, fd, lk, off, pos>>
    /\ UNCHANGED <<dirVars, meta, files, call, envVars>>

P1Read(r) == LockedRead(r, "p1Lock", "p1Plan")

\* Phase 1: fix the assumed size if need be, choose the place, unlock.
P1Plan(r) ==
    /\ pc[r] = "p1Plan"
    /\ LET pn == call[r].pn
           len == call[r].len
           promotes == Promotes(snap[r], pn, len)
           a == IF promotes THEN len ELSE snap[r].assumed
       IN  \/ promotes /\ ~dir /\ Answer(r, 500) /\ UNCHANGED meta
           \/ /\ promotes => dir
              /\ IF promotes THEN WriteMeta("active", a, snap[r].parts)
                 ELSE UNCHANGED meta
              /\ off' = [off EXCEPT ![r] = DirectOffset(a, snap[r].parts, pn, len)]
              /\ lk' = [lk EXCEPT ![r] = 0]
              /\ snap' = [snap EXCEPT ![r] = NoSnap]
              /\ Goto(r, "open") /\ UNCHANGED <<status, fd, pos>>
    /\ UNCHANGED <<dirVars, files, call, envVars>>

\* A destination is open for writing, with content c.
Opened(r, name, c) ==
    /\ Goto(r, "body") /\ fd' = [fd EXCEPT ![r] = name]
    /\ files' = [files EXCEPT ![name] = c]
    /\ UNCHANGED <<status, planVars>>

\* OpenMode::ReadWriteCreate: what is there already stays; the directory has to exist.
OpenExisting(r, name) ==
    /\ \/ dir /\ Opened(r, name, IF Exists(name) THEN files[name] ELSE <<>>)
       \/ ~dir /\ Answer(r, 500) /\ UNCHANGED files
    /\ UNCHANGED <<dirVars, meta, call, envVars>>

OpenDirect(r) ==
    /\ pc[r] = "open" /\ off[r] # InFile
    /\ OpenExisting(r, Direct)

\* UploadPartCopy writes to the part's temporary file as it finds it.
OpenCopy(r) ==
    /\ pc[r] = "open" /\ off[r] = InFile /\ call[r].op = "copy"
    /\ OpenExisting(r, PartTmp(call[r].pn))

\* UploadPart creates the parent directories and truncates; the preallocation
\* makes the file full size.
OpenPart(r) ==
    /\ pc[r] = "open" /\ off[r] = InFile /\ call[r].op = "put"
    /\ Opened(r, PartTmp(call[r].pn), Truncate(<<>>, call[r].len))
    /\ dir' = TRUE
    /\ UNCHANGED <<lockFile, lockFiles, meta, call, envVars>>

\* One chunk of the body reaches the file: direct.bin at the part's offset, or
\* the part file.
BodyChunk(r) ==
    /\ pc[r] = "body" /\ CanPoll
    /\ pos[r] < call[r].len
    /\ LET at == (IF off[r] = InFile THEN 0 ELSE off[r]) + pos[r]
           cell == <<call[r].pn, pos[r] + 1, call[r].try>>
       IN  files' = [n \in Names |-> IF n = fd[r] THEN Overwrite(files[n], at, <<cell>>)
                                     ELSE files[n]]
    /\ pos' = [pos EXCEPT ![r] = pos[r] + 1]
    /\ UNCHANGED <<dirVars, meta, call, pc, status, fd, lk, off, snap, envVars>>

\* The body breaks off, or the source of a copy is too short: the part's
\* temporary file is removed, bytes already in direct.bin stay.
BodyError(r) ==
    /\ pc[r] = "body" /\ CanPoll /\ faults < MaxFaults
    /\ faults' = faults + 1
    /\ LET tmp == IF off[r] = InFile THEN {PartTmp(call[r].pn)} ELSE {}
       IN  /\ files' = [n \in Names |-> IF n \in tmp THEN NoFile ELSE files[n]]
           /\ FdsUnlinkedBut(tmp, r, Gone)
    /\ Return(r, 500)
    /\ UNCHANGED <<dirVars, meta, call, tries, sameFs, foreign>>

\* The whole body is written; a part file is cut to size and renamed.
BodyDone(r) ==
    /\ pc[r] = "body" /\ CanPoll
    /\ pos[r] = call[r].len
    /\ LET pn == call[r].pn
           tmp == PartTmp(pn)
           cut(n) == IF call[r].op = "put" /\ n = fd[r] THEN Truncate(files[n], call[r].len)
                     ELSE files[n]
       IN  \/ /\ off[r] # InFile
              /\ Goto(r, "renamed") /\ UNCHANGED <<files, status, fd, planVars>>
           \/ off[r] = InFile /\ ~Exists(tmp) /\ Answer(r, 500) /\ UNCHANGED files
           \/ /\ off[r] = InFile /\ Exists(tmp)
              /\ files' = [n \in Names |-> IF n = tmp THEN NoFile
                                           ELSE IF n = PartFile(pn) THEN cut(tmp)
                                           ELSE cut(n)]
              /\ FdsRenamed(tmp, PartFile(pn))
              /\ Goto(r, "renamed") /\ UNCHANGED <<status, planVars>>
    /\ UNCHANGED <<dirVars, meta, call, envVars>>

P3Open(r) ==
    /\ pc[r] = "renamed"
    /\ OpenLock(r, "p3Lock", 500)
    /\ UNCHANGED <<dir, meta, files, call, envVars>>

P3Read(r) == LockedRead(r, "p3Lock", "p3Write")

\* The entries of the other parts are not carried over.
WithPart_Alone(ps, pn, size, place) == [NoParts EXCEPT ![pn] = Part(size, place)]

WithPart(ps, pn, size, place) == [ps EXCEPT ![pn] = Part(size, place)]

\* Phase 3: the part's entry is merged into meta.json as it is now.
P3Write(r) ==
    /\ pc[r] = "p3Write"
    /\ LET pn == call[r].pn
           ps == WithPart(snap[r].parts, pn, call[r].len, off[r])
       IN  \/ /\ dir
              /\ \E a \in Recomputed(snap[r].assumed, ps) : WriteMeta("active", a, ps)
              /\ Answer(r, 200)
           \/ ~dir /\ Answer(r, 500) /\ UNCHANGED meta
    /\ UNCHANGED <<dirVars, files, call, envVars>>

-----------------------------------------------------------------------------
\* CompleteMultipartUpload.  In a Complete, pn is the last part of its list.

CompleteArrive(r, last, nr) ==
    /\ pc[r] = "unsent" /\ CanPoll
    /\ call' = [call EXCEPT ![r] = Call("complete", last, nr)]
    /\ OpenLock(r, "cLock", 404)
    /\ UNCHANGED <<dir, meta, files, envVars>>

CompleteRead(r) == LockedRead(r, "cLock", "cStart")

FileParts(ps, last) == {pn \in 1..last : ps[pn].off = InFile}


\* The fast path: all parts but the last have the assumed size, and the ones
\* in direct.bin are at its multiples.
CanFast(m, last) ==
    /\ m.assumed # NoSize
    /\ \A pn \in 1..(last - 1) : m.parts[pn].size = m.assumed
    /\ \A pn \in 1..last :
         m.parts[pn].off = InFile \/ m.parts[pn].off = (pn - 1) * m.assumed

FinalSize(m, last) == (last - 1) * m.assumed + m.parts[last].size

\* The next step of the fast path: copy part files into direct.bin, then commit.
FastLabel(ps, last) == IF FileParts(ps, last) # {} THEN "fast" ELSE "fastCommit"

\* The state becomes completing and stays so on every early return.
CompleteStart(r) ==
    /\ pc[r] = "cStart"
    /\ WriteMeta("completing", snap[r].assumed, snap[r].parts)
    /\ LET last == call[r].pn
           valid == last # 0 /\ 1..last \subseteq Listed(snap[r].parts)
           refused == call[r].noreplace /\ Exists(Object)
           fast == CanFast(snap[r], last) /\ dir
       IN  \/ ~valid /\ Answer(r, 400) /\ UNCHANGED files
           \/ valid /\ refused /\ Answer(r, 412) /\ UNCHANGED files
           \/ /\ valid /\ ~refused /\ fast
              /\ files' = [files EXCEPT ![Direct] = IF Exists(Direct) THEN files[Direct] ELSE <<>>]
              /\ Goto(r, FastLabel(snap[r].parts, last))
              /\ fd' = [fd EXCEPT ![r] = Direct]
              /\ UNCHANGED <<status, planVars>>
           \/ /\ valid /\ ~refused /\ ~fast
              /\ Goto(r, "stageOpen") /\ UNCHANGED <<files, status, fd, planVars>>
    /\ UNCHANGED <<dirVars, call, envVars>>

\* A copy fails because the source is short or missing, or for no such reason.
CopyFails(ok) ==
    /\ ok => faults < MaxFaults
    /\ faults' = IF ok THEN faults + 1 ELSE faults

\* The part file with the lowest number is copied to its offset in direct.bin
\* and removed; if that is not possible the fallback takes over.
FastCopy(r) ==
    /\ pc[r] = "fast" /\ CanPoll
    /\ \E pn \in FileParts(snap[r].parts, call[r].pn) :
         /\ \A q \in FileParts(snap[r].parts, call[r].pn) : pn <= q
         /\ LET size == snap[r].parts[pn].size
                at == (pn - 1) * snap[r].assumed
                src == PartFile(pn)
                ps == [snap[r].parts EXCEPT ![pn] = Part(size, at)]
                ok == Exists(src) /\ Len(files[src]) >= size
            IN  \/ /\ ok
                   /\ files' = [n \in Names |->
                         IF n = src THEN NoFile
                         ELSE IF n = fd[r]
                              THEN Overwrite(files[n], at, ReadRange(files[src], 0, size))
                              ELSE files[n]]
                   /\ FdsUnlinked({src})
                   /\ snap' = [snap EXCEPT ![r] = Snap(snap[r].assumed, ps)]
                   /\ Goto(r, FastLabel(ps, call[r].pn))
                   /\ UNCHANGED faults
                \/ /\ CopyFails(ok)
                   /\ Goto(r, "stageOpen") /\ UNCHANGED <<files, fd, snap>>
    /\ UNCHANGED <<dirVars, meta, call, status, lk, off, pos, tries, sameFs, foreign>>

\* If-None-Match: * and the object has appeared meanwhile: the upload is active
\* again, with the entries of the parts that were copied updated.
GiveBack(r) ==
    WriteMeta("active", snap[r].assumed, snap[r].parts) /\ Return(r, 412)

\* The rename replaces whatever is there.
Refused_Never(r) == FALSE

Refused(r) == call[r].noreplace /\ Exists(Object)

\* direct.bin is cut to size and renamed to the object.
FastCommit(r) ==
    /\ pc[r] = "fastCommit"
    /\ LET size == FinalSize(snap[r], call[r].pn)
           cut == [n \in Names |-> IF n = fd[r] THEN Truncate(files[n], size) ELSE files[n]]
       IN  \/ /\ ~Exists(Direct)
              /\ Goto(r, "stageOpen") /\ files' = cut
              /\ UNCHANGED <<meta, status, fd, planVars>>
           \/ /\ Exists(Direct) /\ ~sameFs
              /\ Goto(r, "xCopy") /\ files' = cut
              /\ UNCHANGED <<meta, status, fd, planVars>>
           \/ /\ Exists(Direct) /\ sameFs /\ Refused(r)
              /\ GiveBack(r) /\ fd' = [fd EXCEPT ![r] = Gone] /\ files' = cut
           \/ /\ Exists(Direct) /\ sameFs /\ ~Refused(r)
              /\ files' = [n \in Names |-> IF n = Object THEN cut[Direct]
                                           ELSE IF n = Direct THEN NoFile ELSE cut[n]]
              /\ FdsRenamed(Direct, Object)
              /\ Goto(r, "finish") /\ UNCHANGED <<meta, status, planVars>>
    /\ UNCHANGED <<dirVars, call, envVars>>

\* Another file system: direct.bin is copied to a new file next to the object.
CrossCopy(r) ==
    /\ pc[r] = "xCopy" /\ CanPoll
    /\ LET size == FinalSize(snap[r], call[r].pn)
           ok == Exists(Direct) /\ Len(files[Direct]) >= size
       IN  \/ /\ ok
              /\ files' = [files EXCEPT ![DstTmp] = Truncate(files[Direct], size)]
              /\ Goto(r, "xRemove") /\ UNCHANGED faults
           \/ /\ CopyFails(ok)
              /\ files' = [files EXCEPT ![DstTmp] = NoFile]
              /\ Goto(r, "stageOpen")
    /\ FdsUnlinked({DstTmp})
    /\ UNCHANGED <<dirVars, meta, call, status, planVars, tries, sameFs, foreign>>

\* Without If-None-Match: * an existing object is removed before the rename.
RemoveObject(r, from, to) ==
    /\ pc[r] = from /\ Goto(r, to)
    /\ IF call[r].noreplace THEN UNCHANGED <<files, fd>>
       ELSE /\ files' = [files EXCEPT ![Object] = NoFile]
            /\ FdsUnlinked({Object})
    /\ UNCHANGED <<dirVars, meta, call, status, planVars, envVars>>

CrossRemove(r) == RemoveObject(r, "xRemove", "xRename")
StageRemove(r) == RemoveObject(r, "stageRemove", "stageRename")

\* The staged file is renamed to the object.
CommitStaged(r, from, staged) ==
    /\ pc[r] = from
    /\ \/ /\ Refused(r)
          /\ files' = [files EXCEPT ![staged] = NoFile]
          /\ GiveBack(r) /\ FdsUnlinkedBut({staged}, r, Gone)
       \/ /\ ~Refused(r) /\ Exists(staged)
          /\ files' = [files EXCEPT ![Object] = files[staged], ![staged] = NoFile]
          /\ FdsRenamed(staged, Object)
          /\ Goto(r, "finish") /\ UNCHANGED <<meta, status, planVars>>
    /\ UNCHANGED <<dirVars, call, envVars>>

CrossRename(r) == CommitStaged(r, "xRename", DstTmp)

\* The fallback: the parts are copied in order into a new staging file, next to
\* the object if that is on another file system.
Staged == IF sameFs THEN Stage ELSE DstTmp

StageOpen(r) ==
    /\ pc[r] = "stageOpen"
    /\ \/ /\ sameFs => dir
          /\ files' = [files EXCEPT ![Staged] = <<>>]
          /\ FdsUnlinkedBut({Staged}, r, Staged) /\ pos' = [pos EXCEPT ![r] = 1]
          /\ Goto(r, "stage") /\ UNCHANGED <<status, lk, off, snap>>
       \/ sameFs /\ ~dir /\ Answer(r, 500) /\ UNCHANGED files
    /\ UNCHANGED <<dirVars, meta, call, envVars>>

StageCopy(r) ==
    /\ pc[r] = "stage" /\ CanPoll
    /\ LET pn == pos[r]
           part == snap[r].parts[pn]
           src == IF part.off = InFile THEN PartFile(pn) ELSE Direct
           at == IF part.off = InFile THEN 0 ELSE part.off
           ok == Exists(src) /\ Len(files[src]) >= at + part.size
       IN  \/ /\ ok
              /\ files' = [n \in Names |-> IF n = fd[r]
                             THEN files[n] \o ReadRange(files[src], at, part.size)
                             ELSE files[n]]
              /\ Goto(r, IF pn = call[r].pn THEN "stageRemove" ELSE "stage")
              /\ pos' = [pos EXCEPT ![r] = pn + 1]
              /\ UNCHANGED <<faults, status, fd, lk, off, snap>>
           \/ CopyFails(ok) /\ Answer(r, 500) /\ UNCHANGED files
    /\ UNCHANGED <<dirVars, meta, call, tries, sameFs, foreign>>

StageRename(r) == CommitStaged(r, "stageRename", Staged)

\* The staging file has been deleted under the Complete.
StageLost(r) ==
    /\ pc[r] = "stageRename" /\ ~Refused(r) /\ ~Exists(Staged)
    /\ Answer(r, 500)
    /\ UNCHANGED <<dirVars, meta, files, call, envVars>>

\* The object is in place: the state becomes completed, then the directory goes.
Finish(r) ==
    /\ pc[r] = "finish"
    /\ WriteMeta("completed", snap[r].assumed, snap[r].parts)
    /\ Goto(r, "unlinkDone")
    /\ UNCHANGED <<dirVars, files, call, status, fd, planVars, envVars>>

-----------------------------------------------------------------------------
\* AbortMultipartUpload, and remove_dir_all, which takes no lock.

AbortArrive(r) ==
    /\ pc[r] = "unsent" /\ CanPoll
    /\ call' = [call EXCEPT ![r] = Call("abort", 0, FALSE)]
    /\ \/ dir /\ Goto(r, "unlink") /\ UNCHANGED <<status, fd, planVars>>
       \/ ~dir /\ Answer(r, 404)
    /\ UNCHANGED <<dirVars, meta, files, envVars>>

\* remove_dir_all deletes what it finds ...
RemoveEntries(r) ==
    /\ pc[r] \in {"unlink", "unlinkDone"}
    /\ mstate' = "none" /\ assumed' = NoSize /\ parts' = NoParts
    /\ lockFile' = 0
    /\ files' = [n \in Names |-> IF n \in InDir THEN NoFile ELSE files[n]]
    /\ FdsUnlinked(InDir)
    /\ Goto(r, IF pc[r] = "unlink" THEN "rmdir" ELSE "rmdirDone")
    /\ UNCHANGED <<dir, lockFiles, call, status, planVars, envVars>>

\* ... and then the directory, unless something new is in it; errors are ignored.
\* A Complete then looks at the object once more.
RemoveDir(r) ==
    /\ pc[r] \in {"rmdir", "rmdirDone"}
    /\ dir' = (dir /\ ~(mstate = "none" /\ lockFile = 0
                          /\ \A n \in InDir : ~Exists(n)))
    /\ Answer(r, IF pc[r] = "rmdir" THEN 204 ELSE IF Exists(Object) THEN 200 ELSE 500)
    /\ UNCHANGED <<lockFile, lockFiles, meta, files, call, envVars>>

-----------------------------------------------------------------------------
\* Faults and other requests for the object.

\* The client goes away: hyper drops the handler where it awaits.
Disconnect(r) ==
    /\ pc[r] \in AwaitPCs /\ CanPoll /\ faults < MaxFaults
    /\ faults' = faults + 1
    /\ Answer(r, 0)
    /\ UNCHANGED <<dirVars, meta, files, call, tries, sameFs, foreign>>

\* The gateway is killed: every handler ends, the files stay, locks are gone.
Crash ==
    /\ faults < MaxFaults
    /\ \E r \in Requests : pc[r] \notin {"unsent", "done"}
    /\ faults' = faults + 1
    /\ pc' = [r \in Requests |-> IF pc[r] = "unsent" THEN "unsent" ELSE "done"]
    /\ fd' = [r \in Requests |-> Gone]
    /\ lk' = [r \in Requests |-> 0]
    /\ off' = [r \in Requests |-> InFile]
    /\ pos' = [r \in Requests |-> 0]
    /\ snap' = [r \in Requests |-> NoSnap]
    /\ UNCHANGED <<dirVars, meta, files, call, status, tries, sameFs, foreign>>

\* Another request creates or deletes the object.
OtherPut ==
    /\ foreign < MaxForeign /\ ~Exists(Object)
    /\ foreign' = foreign + 1
    /\ files' = [files EXCEPT ![Object] = Foreign]
    /\ UNCHANGED <<dirVars, meta, call, reqVars, tries, sameFs, faults>>

OtherDelete ==
    /\ foreign < MaxForeign /\ Exists(Object)
    /\ foreign' = foreign + 1
    /\ files' = [files EXCEPT ![Object] = NoFile]
    /\ FdsUnlinked({Object})
    /\ UNCHANGED <<dirVars, meta, call, pc, status, planVars, tries, sameFs, faults>>

-----------------------------------------------------------------------------
\* CreateMultipartUpload has answered: an empty, active upload.
Init ==
    /\ dir = TRUE /\ lockFile = 1 /\ lockFiles = 1
    /\ mstate = "active" /\ assumed = NoSize /\ parts = NoParts
    /\ files = [n \in Names |-> NoFile]
    /\ call = [r \in Requests |-> NoCall]
    /\ pc = [r \in Requests |-> "unsent"]
    /\ status = [r \in Requests |-> 0]
    /\ lk = [r \in Requests |-> 0]
    /\ fd = [r \in Requests |-> Gone]
    /\ off = [r \in Requests |-> InFile]
    /\ pos = [r \in Requests |-> 0]
    /\ snap = [r \in Requests |-> NoSnap]
    /\ tries = [pn \in PartNumbers |-> 0]
    /\ sameFs \in SameFs /\ faults = 0 /\ foreign = 0

UploadStep(r) ==
    \/ P1Read(r) \/ P1Plan(r) \/ OpenDirect(r) \/ OpenPart(r) \/ OpenCopy(r)
    \/ BodyChunk(r) \/ BodyDone(r) \/ P3Open(r) \/ P3Read(r) \/ P3Write(r)

CompleteStep(r) ==
    \/ CompleteRead(r) \/ CompleteStart(r) \/ FastCopy(r) \/ FastCommit(r)
    \/ CrossCopy(r) \/ CrossRemove(r) \/ CrossRename(r)
    \/ StageOpen(r) \/ StageCopy(r) \/ StageRemove(r) \/ StageRename(r)
    \/ StageLost(r) \/ Finish(r)

RemoveStep(r) == RemoveEntries(r) \/ RemoveDir(r)

Arrive(r) ==
    \/ "put" \in Kinds /\ \E pn \in PartNumbers, len \in Lens : PutArrive(r, pn, len)
    \/ "copy" \in Kinds /\ \E pn \in PartNumbers, len \in Lens : CopyArrive(r, pn, len)
    \/ /\ "complete" \in Kinds
       /\ \E last \in Lists, nr \in NoReplace : CompleteArrive(r, last, nr)
    \/ "abort" \in Kinds /\ AbortArrive(r)

Next ==
    \/ \E r \in Requests :
         \/ Arrive(r) \/ UploadStep(r) \/ CompleteStep(r) \/ RemoveStep(r)
         \/ BodyError(r) \/ Disconnect(r)
    \/ Crash \/ OtherPut \/ OtherDelete

Spec == Init /\ [][Next]_vars

\* The runtime keeps running every handler it has started, and a handler that
\* can run again and again gets a thread, however often others had it first.
Fairness ==
    \A r \in Requests : SF_vars(UploadStep(r) \/ CompleteStep(r) \/ RemoveStep(r))
FairSpec == Spec /\ Fairness

-----------------------------------------------------------------------------
\* Properties.

SharedType ==
    /\ dir \in BOOLEAN /\ lockFile \in Nat /\ lockFiles \in Nat
    /\ mstate \in UploadState /\ assumed \in Lens \cup {NoSize} /\ parts \in PartMap
    /\ DOMAIN files = Names
    /\ call \in [Requests -> [op : Operations \cup {"none"}, pn : 0..MaxPart,
                              noreplace : BOOLEAN, len : Nat, try : Nat, alone : BOOLEAN]]
    /\ tries \in [PartNumbers -> Nat]
    /\ sameFs \in BOOLEAN /\ faults \in 0..MaxFaults /\ foreign \in 0..MaxForeign

RequestType ==
    /\ pc \in [Requests -> PCs] /\ status \in [Requests -> Codes]
    /\ fd \in [Requests -> Fds] /\ lk \in [Requests -> Nat]
    /\ off \in [Requests -> Nat \cup {InFile}] /\ pos \in [Requests -> Nat]
    /\ snap \in [Requests -> UploadMeta]

\* Every variable, meta.json and every request's copy of it included, keeps
\* its type through all handlers.
TypeOK == SharedType /\ RequestType

\* The cells of direct.bin a part of the given size at offset o occupies.
Extent(o, size) == (o + 1)..(o + size)

\* The parts an active upload's meta.json puts into direct.bin, and the ones
\* whose bodies are on their way there: part number, offset, size.
ListedDirect ==
    {<<pn, parts[pn].off, parts[pn].size>> :
        pn \in {p \in Listed(parts) : mstate = "active" /\ parts[p].off # InFile}}
WritingDirect ==
    {<<call[r].pn, off[r], call[r].len>> : r \in {q \in Requests : off[q] # InFile}}

\* No Complete was refused by If-None-Match: * after it had begun to assemble.
NothingRefused == \A q \in Requests : call[q].op = "complete" => status[q] # 412

\* Two parts that meta.json puts into direct.bin, or whose bodies are being
\* written to it, share no byte: the README's "no overlap risk" of direct
\* placement, also for parts that a Complete has moved there (FastCopy).
\* The code keeps it only with the exception in DirectDisjoint.
PlacesDisjoint ==
    \A a, b \in ListedDirect \cup WritingDirect :
        a[1] # b[1] => Extent(a[2], a[3]) \cap Extent(b[2], b[3]) = {}

\* Direct placement itself has no overlap, whatever lengths are sent and sent
\* again while the assumed size changes (DirectOffset, the guard
\* logical_len <= assumed).  A Complete that was refused half way is left out:
\* it may have moved a longer part there.
DirectDisjoint == NothingRefused => PlacesDisjoint

\* The body of an upload, and the last one the client sent of its part.
Body(r) == [i \in 1..call[r].len |-> <<call[r].pn, i, call[r].try>>]
LastTry(r) == call[r].op \in Uploads /\ call[r].try = tries[call[r].pn]

\* The client has an answer to its last upload of the part, and sent it when
\* none of its other attempts was still being served.
Settled(r) == LastTry(r) /\ call[r].alone /\ status[r] = 200

\* meta.json's entry of r's part leads to r's body, byte for byte.
BodyPresent(r) ==
    LET entry == parts[call[r].pn]
        name == IF entry.off = InFile THEN PartFile(call[r].pn) ELSE Direct
        at == IF entry.off = InFile THEN 0 ELSE entry.off
    IN  /\ entry.size = call[r].len
        /\ Exists(name) /\ ReadRange(files[name], at, call[r].len) = Body(r)


\* Acknowledged bytes stay until another upload of the part is acknowledged:
\* the README's "careful to avoid data corruption", for a part that is sent
\* again and whose second body breaks off (handle_upload_part writes the new
\* body over the old one in direct.bin before it registers it).  The code does
\* not keep this.
AckedBytesKept ==
    mstate = "active" =>
        \A r \in Requests :
            /\ call[r].op \in Uploads /\ status[r] = 200
            /\ \A q \in Requests \ {r} :
                 call[q].op \in Uploads /\ call[q].pn = call[r].pn => status[q] # 200
            => BodyPresent(r)

\* A part whose upload was answered with 200 stays in meta.json while the
\* upload is active: no concurrent update of meta.json loses it.
AckedPartsListed ==
    mstate = "active" =>
        \A r \in Requests :
            call[r].op \in Uploads /\ status[r] = 200 => call[r].pn \in Listed(parts)

\* Content c consists of exactly these cells, each of them once, by part number
\* and within a part in their order.
Before(x, y) == x[1] < y[1] \/ (x[1] = y[1] /\ x[2] < y[2])
Assembled(c, cells) ==
    /\ {c[i] : i \in 1..Len(c)} = cells
    /\ \A i, j \in 1..Len(c) : i < j => Before(c[i], c[j])

\* A Complete has put the object in place.
Committed(r) ==
    /\ call[r].op = "complete"
    /\ status[r] = 200 \/ pc[r] \in {"finish", "unlinkDone", "rmdirDone"}
    /\ files[Object] \notin {NoFile, Foreign}


\* Once a Complete has put the object in place no upload changes it: what the
\* README says the exclusive lock is for.  UploadPart writes its body without
\* the lock, to the file that the Complete renames, so the code does not keep this.
ObjectLeftAlone ==
    [][(\E r \in Requests : Committed(r))
         => files'[Object] \in {files[Object], NoFile, Foreign}]_vars

\* A Complete with If-None-Match: * neither overwrites nor removes an object
\* that another writer has created, however late that happened.
NoReplaceRespected ==
    [][\A r \in Requests :
         /\ call[r].op = "complete" /\ call[r].noreplace
         /\ pc[r] # pc'[r] /\ files[Object] = Foreign
         => files'[Object] = Foreign]_vars

\* Some thread can run: not all of them wait in flock for a request that itself
\* waits for a thread.
SomeThreadRuns ==
    \/ CanPoll
    \/ \E r \in Requests : pc[r] \in ThreadPCs \ FlockPCs
    \/ \E r \in Requests : pc[r] \in FlockPCs /\ Flock(r)

\* Every request that has arrived is answered, with fewer threads than requests,
\* unless the threads come to wait for each other in flock (lock_exclusive):
\* nothing else, no lost lock, no state that is never left, no failing Complete,
\* keeps a request waiting.
RequestsAnswered ==
    []SomeThreadRuns => \A r \in Requests : pc[r] # "unsent" ~> pc[r] = "done"

\* Who has the lock gives it back, so that metadata updates and completions take
\* turns: what the README says flock is for.  A Complete that is suspended needs
\* one of the threads that block in flock: the code does not keep this.
LockGivenBack == \A r \in Requests : Holds(r) ~> ~Holds(r)

=============================================================================
