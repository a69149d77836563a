-------------------------- MODULE MultipartProofs --------------------------
(***************************************************************************)
(* Proofs about one multipart upload, for any number of requests, parts,   *)
(* lengths and runtime threads: types, what the files consist of and       *)
(* If-None-Match, the lock and the entries of meta.json, and the places in *)
(* direct.bin.                                                             *)
(***************************************************************************)
EXTENDS Multipart, SequenceTheorems, TLAPS

\* Where an upload request is between its arrival and its answer.
UploadPCs == {"p1Lock", "p1Plan", "open", "body", "renamed", "p3Lock", "p3Write"}

\* What the types rest on: an upload has a part number and a length, and the
\* fast path an assumed size.
HandlerOK ==
    \A r \in Requests :
        /\ call[r].op \in Uploads => call[r].pn \in PartNumbers /\ call[r].len \in Lens
        /\ pc[r] \in UploadPCs => call[r].op \in Uploads
        /\ pc[r] = "fast" => snap[r].assumed # NoSize

TypeInv == TypeOK /\ HandlerOK

\* A product of naturals is a natural.
LEMMA ProductNat == \A a, b \in Nat : a * b \in Nat
  BY SMT

\* The empty meta.json has its type.
LEMMA NoSnapType == NoParts \in PartMap /\ NoSnap \in UploadMeta /\ NoSnap.assumed = NoSize
<1>1. NoPart \in PartMeta BY SMT DEF NoPart, Part, PartMeta, NoSize, InFile
<1>2. NoParts \in PartMap BY <1>1 DEF NoParts, PartMap
<1> QED BY <1>2 DEF NoSnap, Snap, UploadMeta

\* Copying meta.json yields its parts.
LEMMA SnapType ==
  ASSUME NEW a \in Lens \cup {NoSize}, NEW ps \in PartMap
  PROVE  Snap(a, ps) \in UploadMeta /\ Snap(a, ps).assumed = a /\ Snap(a, ps).parts = ps
  BY DEF Snap, UploadMeta

\* The components of a copy of meta.json.
LEMMA SnapFields ==
  ASSUME NEW m \in UploadMeta
  PROVE  m.assumed \in Lens \cup {NoSize} /\ m.parts \in PartMap
  BY DEF UploadMeta

\* Entering a part keeps the type of the map.
LEMMA InsertType ==
  ASSUME NEW ps \in PartMap, NEW pn \in PartNumbers, NEW size \in Lens \cup {NoSize},
         NEW place \in Nat \cup {InFile}
  PROVE  [ps EXCEPT ![pn] = Part(size, place)] \in PartMap
<1>1. Part(size, place) \in PartMeta BY DEF Part, PartMeta
<1> QED BY <1>1 DEF PartMap

\* Whatever recompute_assumed_part_size leaves is a length of some part.
LEMMA RecomputedType ==
  ASSUME NEW a \in Lens \cup {NoSize}, NEW ps \in PartMap, NEW b \in Recomputed(a, ps)
  PROVE  b \in Lens \cup {NoSize} /\ (a # NoSize => b = a)
<1>1. \A p \in PartNumbers : ps[p].size \in Lens \cup {NoSize} BY DEF PartMap, PartMeta
<1> QED BY <1>1 DEF Recomputed, Repeated, Listed

\* The place of a part is an offset or a file of its own.
LEMMA DirectOffsetType ==
  ASSUME NEW a \in Lens \cup {NoSize}, NEW ps \in PartMap, NEW pn \in PartNumbers,
         NEW len \in Lens
  PROVE  DirectOffset(a, ps, pn, len) \in Nat \cup {InFile}
<1>1. CASE a # NoSize
  <2>1. a \in Nat /\ pn - 1 \in Nat BY <1>1, ConstantsAssumption DEF PartNumbers
  <2>2. (pn - 1) * a \in Nat BY <2>1, ProductNat
  <2> QED BY <2>2, <1>1 DEF DirectOffset
<1>2. CASE a = NoSize
  <2>1. DirectOffset(a, ps, pn, len) = Sequential(ps, pn) BY <1>2 DEF DirectOffset
  <2>2. CASE \A q \in 1..(pn - 1) : /\ q \in Listed(ps)
                                    /\ ps[q].off # InFile
                                    /\ ps[q].off = EndOf(ps, q - 1)
    <3>1. CASE pn = 1 BY <3>1, <2>1, <2>2 DEF Sequential, EndOf
    <3>2. CASE pn # 1
      <4>1. pn - 1 \in 1..(pn - 1) /\ pn - 1 \in PartNumbers
        BY <3>2, ConstantsAssumption DEF PartNumbers
      <4>2. ps[pn - 1] \in PartMeta BY <4>1 DEF PartMap
      <4>3. ps[pn - 1].size \in Nat /\ ps[pn - 1].off \in Nat
        BY <4>1, <4>2, <2>2, ConstantsAssumption DEF PartMeta, Listed
      <4>4. EndOf(ps, pn - 1) \in Nat BY <4>3, <3>2, <4>1 DEF EndOf, PartNumbers
      <4> QED BY <4>4, <2>1, <2>2 DEF Sequential
    <3> QED BY <3>1, <3>2
  <2>3. CASE ~\A q \in 1..(pn - 1) : /\ q \in Listed(ps)
                                     /\ ps[q].off # InFile
                                     /\ ps[q].off = EndOf(ps, q - 1)
    BY <2>1, <2>3 DEF Sequential
  <2> QED BY <2>2, <2>3
<1> QED BY <1>1, <1>2

\* The file names.
LEMMA NameTypes ==
  /\ Direct \in Names /\ Stage \in Names /\ DstTmp \in Names /\ Object \in Names
  /\ Staged \in Names /\ Names \subseteq Fds /\ Gone \in Fds
  /\ \A pn \in PartNumbers : PartTmp(pn) \in Names /\ PartFile(pn) \in Names
  BY DEF Names, InDir, Staged, Fds

\* Descriptors stay descriptors through renames and unlinks.
LEMMA FdTypes ==
  ASSUME NEW f \in Fds
  PROVE  /\ \A src, dst \in Names : FdRenamed(f, src, dst) \in Fds
         /\ \A S : FdUnlinked(f, S) \in Fds
  BY NameTypes DEF FdRenamed, FdUnlinked

\* Every label is one of PCs.
LEMMA Labels ==
  /\ "unsent" \in PCs
  /\ "done" \in PCs
  /\ "p1Lock" \in PCs
  /\ "p3Lock" \in PCs
  /\ "cLock" \in PCs
  /\ "p1Plan" \in PCs
  /\ "p3Write" \in PCs
  /\ "cStart" \in PCs
  /\ "fastCommit" \in PCs
  /\ "xRemove" \in PCs
  /\ "xRename" \in PCs
  /\ "stageOpen" \in PCs
  /\ "stageRemove" \in PCs
  /\ "stageRename" \in PCs
  /\ "finish" \in PCs
  /\ "unlinkDone" \in PCs
  /\ "rmdirDone" \in PCs
  /\ "open" \in PCs
  /\ "renamed" \in PCs
  /\ "unlink" \in PCs
  /\ "rmdir" \in PCs
  /\ "body" \in PCs
  /\ "fast" \in PCs
  /\ "xCopy" \in PCs
  /\ "stage" \in PCs
  BY DEF PCs, ThreadPCs, AwaitPCs

\* The status codes.
LEMMA CodeTypes == {0, 200, 204, 400, 404, 409, 412, 500} \subseteq Codes
  BY DEF Codes

\* An answered request is of its type.
LEMMA AnswerType ==
  ASSUME RequestType, NEW r \in Requests, NEW code \in Codes, Answer(r, code)
  PROVE  RequestType'
<1>1. Gone \in Fds BY NameTypes
<1>2. NoSnap \in UploadMeta BY NoSnapType
<1>3. "done" \in PCs BY Labels
<1> QED BY <1>1, <1>2, <1>3 DEF RequestType, Answer, Return, Goto

\* So is one that has opened the lock file.
LEMMA OpenLockType ==
  ASSUME TypeInv, NEW r \in Requests, NEW label \in PCs, NEW code \in Codes,
         OpenLock(r, label, code)
  PROVE  RequestType' /\ lockFile' \in Nat /\ lockFiles' \in Nat
<1>1. CASE Answer(r, code) /\ UNCHANGED <<lockFile, lockFiles>>
  BY <1>1, AnswerType DEF TypeInv, TypeOK, SharedType
<1>2. CASE /\ lockFiles' = IF lockFile = 0 THEN lockFiles + 1 ELSE lockFiles
           /\ lockFile' = IF lockFile = 0 THEN lockFiles + 1 ELSE lockFile
           /\ lk' = [lk EXCEPT ![r] = lockFile']
           /\ Goto(r, label)
           /\ UNCHANGED <<status, fd, off, pos, snap>>
  <2>1. lockFile' \in Nat /\ lockFiles' \in Nat
    BY <1>2 DEF TypeInv, TypeOK, SharedType
  <2> QED BY <1>2, <2>1 DEF TypeInv, TypeOK, RequestType, Goto
<1> QED BY <1>1, <1>2 DEF OpenLock

\* So is one whose answer closes its file and unlinks another.
LEMMA ReturnType ==
  ASSUME RequestType, NEW r \in Requests, NEW code \in Codes, NEW S, Return(r, code),
         FdsUnlinkedBut(S, r, Gone)
  PROVE  RequestType'
  BY NameTypes, FdTypes, NoSnapType, Labels DEF RequestType, Goto, Return, FdsUnlinkedBut

\* A request that only moves to another label and changes nothing else.
LEMMA GotoType ==
  ASSUME RequestType, NEW r \in Requests, NEW label \in PCs, Goto(r, label),
         UNCHANGED <<status, fd, planVars>>
  PROVE  RequestType'
  BY DEF RequestType, Goto, planVars

\* The part number of a running upload.
LEMMA UploadPart ==
  ASSUME TypeInv, NEW r \in Requests, pc[r] \in UploadPCs
  PROVE  call[r].pn \in PartNumbers /\ call[r].len \in Lens
  BY DEF TypeInv, TypeOK, SharedType, HandlerOK

\* Types survive the arrival of an upload.
LEMMA UploadArriveType ==
  ASSUME TypeInv, NEW r \in Requests, NEW o \in Uploads, NEW pn \in PartNumbers, NEW len \in Lens,
         UploadArrive(r, o, pn, len)
  PROVE  TypeInv'
<1>1. RequestType' /\ lockFile' \in Nat /\ lockFiles' \in Nat
  BY OpenLockType, Labels, CodeTypes DEF UploadArrive
<1>2. SharedType'
  BY <1>1, ConstantsAssumption, SMTT(60) DEF UploadArrive, PartCall, Operations, Uploads, PartNumbers, TypeInv, TypeOK, SharedType, meta, envVars
<1>3. HandlerOK'
  BY ConstantsAssumption DEF UploadArrive, OpenLock, Answer, Return, Goto, PartCall, Uploads, TypeInv, TypeOK, SharedType, RequestType, HandlerOK, UploadPCs
<1> QED BY <1>1, <1>2, <1>3 DEF TypeInv, TypeOK

\* Types survive the arrival of a Complete.
LEMMA CompleteArriveType ==
  ASSUME TypeInv, NEW r \in Requests, NEW last \in Lists, NEW nr \in NoReplace,
         CompleteArrive(r, last, nr)
  PROVE  TypeInv'
<1>1. RequestType' /\ lockFile' \in Nat /\ lockFiles' \in Nat
  BY OpenLockType, Labels, CodeTypes DEF CompleteArrive
<1>2. SharedType'
  BY <1>1, ConstantsAssumption DEF CompleteArrive, Call, Operations, Uploads, PartNumbers, TypeInv, TypeOK, SharedType, meta, envVars
<1>3. HandlerOK'
  BY ConstantsAssumption DEF CompleteArrive, OpenLock, Answer, Return, Goto, Call, Uploads, TypeInv, TypeOK, SharedType, RequestType, HandlerOK, UploadPCs
<1> QED BY <1>1, <1>2, <1>3 DEF TypeInv, TypeOK

\* Types survive opening the lock for phase 3.
LEMMA P3OpenType ==
  ASSUME TypeInv, NEW r \in Requests, P3Open(r)
  PROVE  TypeInv'
<1>1. RequestType' /\ lockFile' \in Nat /\ lockFiles' \in Nat
  BY OpenLockType, Labels, CodeTypes DEF P3Open
<1>2. SharedType'
  BY <1>1, ConstantsAssumption DEF P3Open, Call, Operations, Uploads, PartNumbers, TypeInv, TypeOK, SharedType, meta, envVars
<1>3. HandlerOK'
  BY ConstantsAssumption DEF P3Open, OpenLock, Answer, Return, Goto, Call, Uploads, TypeInv, TypeOK, SharedType, RequestType, HandlerOK, UploadPCs
<1> QED BY <1>1, <1>2, <1>3 DEF TypeInv, TypeOK

\* Types survive a locked read of meta.json.
LEMMA LockedReadType ==
  ASSUME TypeInv, NEW r \in Requests, NEW from, NEW to \in {"p1Plan", "p3Write", "cStart"},
         from \in UploadPCs <=> to \in UploadPCs,
         LockedRead(r, from, to)
  PROVE  TypeInv'
<1>1. SharedType'
  BY NoSnapType, ConstantsAssumption, NameTypes DEF TypeInv, TypeOK, SharedType, UploadState, LockedRead, Goto, Answer, Return, dirVars, meta, planVars, reqVars, envVars
<1>2. HandlerOK'
  BY NoSnapType DEF TypeInv, TypeOK, RequestType, SharedType, HandlerOK, UploadPCs, Uploads, LockedRead, Goto, Answer, Return, dirVars, meta, planVars, reqVars, envVars
<1>3. RequestType'
  <2>1. CASE Answer(r, 404) BY <2>1, AnswerType, CodeTypes DEF TypeInv, TypeOK
  <2>2. CASE Answer(r, 409) BY <2>2, AnswerType, CodeTypes DEF TypeInv, TypeOK
  <2>3. CASE /\ Goto(r, to) /\ snap' = [snap EXCEPT ![r] = Snap(assumed, parts)]
             /\ UNCHANGED <<status, fd, lk, off, pos>>
    BY <2>3, SnapType, Labels, ZenonT(60) DEF TypeInv, TypeOK, RequestType, Goto, planVars, SharedType
  <2> QED BY <2>1, <2>2, <2>3 DEF LockedRead
<1> QED BY <1>1, <1>2, <1>3 DEF TypeInv, TypeOK

\* Types survive opening the destination.
LEMMA OpenType ==
  ASSUME TypeInv, NEW r \in Requests, OpenDirect(r) \/ OpenPart(r) \/ OpenCopy(r)
  PROVE  TypeInv'
<1>1. /\ \/ \E name \in Names : \E c : Opened(r, name, c)
         \/ Answer(r, 500) /\ UNCHANGED files
      /\ dir' \in BOOLEAN
      /\ UNCHANGED <<lockFile, lockFiles, meta, call, envVars>>
      /\ pc[r] = "open"
  BY NameTypes, UploadPart DEF OpenDirect, OpenPart, OpenCopy, OpenExisting, dirVars,
     TypeInv, TypeOK, SharedType, UploadPCs
<1>2. SharedType'
  BY <1>1 DEF TypeInv, TypeOK, SharedType, Opened, meta, envVars
<1>3. HandlerOK'
  BY <1>1, NoSnapType DEF TypeInv, TypeOK, RequestType, HandlerOK, UploadPCs, Opened,
     Goto, Answer, Return, planVars
<1>4. RequestType'
  <2>1. CASE Answer(r, 500) BY <2>1, AnswerType, CodeTypes DEF TypeInv, TypeOK
  <2>2. CASE \E name \in Names : \E c : Opened(r, name, c)
    BY <2>2, NameTypes, Labels DEF TypeInv, TypeOK, RequestType, Opened, Goto, planVars
  <2> QED BY <1>1, <2>1, <2>2
<1> QED BY <1>2, <1>3, <1>4 DEF TypeInv, TypeOK

\* Types survive a chunk of the body.
LEMMA BodyChunkType ==
  ASSUME TypeInv, NEW r \in Requests, BodyChunk(r) PROVE TypeInv'
<1>1. SharedType'
  BY NoSnapType, ConstantsAssumption, NameTypes DEF TypeInv, TypeOK, SharedType, UploadState, BodyChunk, Goto, Answer, Return, dirVars, meta, planVars, reqVars, envVars
<1>2. HandlerOK'
  BY NoSnapType DEF TypeInv, TypeOK, RequestType, SharedType, HandlerOK, UploadPCs, Uploads, BodyChunk, Goto, Answer, Return, dirVars, meta, planVars, reqVars, envVars
<1>3. RequestType'
  <2>1. CASE /\ pos' = [pos EXCEPT ![r] = pos[r] + 1]
             /\ UNCHANGED <<pc, status, fd, lk, off, snap>>
    BY <2>1 DEF TypeInv, TypeOK, RequestType, Goto, planVars
  <2> QED BY <2>1 DEF BodyChunk
<1> QED BY <1>1, <1>2, <1>3 DEF TypeInv, TypeOK

\* Types survive a broken body.
LEMMA BodyErrorType ==
  ASSUME TypeInv, NEW r \in Requests, BodyError(r) PROVE TypeInv'
<1>1. SharedType'
  BY NoSnapType, ConstantsAssumption, NameTypes DEF TypeInv, TypeOK, SharedType, UploadState, BodyError, Goto, Answer, Return, dirVars, meta, planVars, reqVars, envVars
<1>2. HandlerOK'
  BY NoSnapType DEF TypeInv, TypeOK, RequestType, SharedType, HandlerOK, UploadPCs, Uploads, BodyError, Goto, Answer, Return, dirVars, meta, planVars, reqVars, envVars
<1>3. RequestType'
  <2>1. CASE (\E S : FdsUnlinkedBut(S, r, Gone)) /\ Return(r, 500)
    BY <2>1, ReturnType, CodeTypes DEF TypeInv, TypeOK
  <2> QED BY <2>1 DEF BodyError
<1> QED BY <1>1, <1>2, <1>3 DEF TypeInv, TypeOK

\* Types survive the end of the body.
LEMMA BodyDoneType ==
  ASSUME TypeInv, NEW r \in Requests, BodyDone(r) PROVE TypeInv'
<1>1. SharedType'
  BY NoSnapType, ConstantsAssumption, NameTypes DEF TypeInv, TypeOK, SharedType, UploadState, BodyDone, Goto, Answer, Return, dirVars, meta, planVars, reqVars, envVars
<1>2. HandlerOK'
  BY NoSnapType DEF TypeInv, TypeOK, RequestType, SharedType, HandlerOK, UploadPCs, Uploads, BodyDone, Goto, Answer, Return, dirVars, meta, planVars, reqVars, envVars
<1>3. RequestType'
  <2>1. CASE Answer(r, 500) BY <2>1, AnswerType, CodeTypes DEF TypeInv, TypeOK
  <2>2. CASE Goto(r, "renamed") /\ UNCHANGED <<status, fd, planVars>>
    BY <2>2, GotoType, Labels DEF TypeInv, TypeOK
  <2>3. CASE /\ pc[r] = "body" /\ FdsRenamed(PartTmp(call[r].pn), PartFile(call[r].pn))
             /\ Goto(r, "renamed") /\ UNCHANGED <<status, planVars>>
    BY <2>3, UploadPart, NameTypes, FdTypes, Labels DEF TypeInv, TypeOK, RequestType, Goto, planVars, UploadPCs, FdsRenamed
  <2> QED BY <2>1, <2>2, <2>3 DEF BodyDone
<1> QED BY <1>1, <1>2, <1>3 DEF TypeInv, TypeOK

\* Types survive the start of a completion.
LEMMA CompleteStartType ==
  ASSUME TypeInv, NEW r \in Requests, CompleteStart(r) PROVE TypeInv'
<1>1. SharedType'
  BY NoSnapType, ConstantsAssumption, NameTypes, SnapFields, SMTT(60) DEF TypeInv, TypeOK, SharedType, UploadState, CompleteStart, WriteMeta, RequestType, Goto, Answer, Return, dirVars, meta, planVars, reqVars, envVars
<1>2. HandlerOK'
  BY NoSnapType, SMTT(60) DEF TypeInv, TypeOK, RequestType, SharedType, HandlerOK, UploadPCs, Uploads, CompleteStart, CanFast, FastLabel, Goto, Answer, Return, dirVars, meta, planVars, reqVars, envVars
<1>3. RequestType'
  <2>1. CASE Answer(r, 400) BY <2>1, AnswerType, CodeTypes DEF TypeInv, TypeOK
  <2>2. CASE Answer(r, 412) BY <2>2, AnswerType, CodeTypes DEF TypeInv, TypeOK
  <2>3. CASE Goto(r, "stageOpen") /\ UNCHANGED <<status, fd, planVars>>
    BY <2>3, GotoType, Labels DEF TypeInv, TypeOK
  <2>4. CASE /\ Goto(r, FastLabel(snap[r].parts, call[r].pn))
             /\ fd' = [fd EXCEPT ![r] = Direct]
             /\ UNCHANGED <<status, planVars>>
    BY <2>4, NameTypes, Labels DEF TypeInv, TypeOK, RequestType, Goto, planVars, FastLabel
  <2> QED BY <2>1, <2>2, <2>3, <2>4 DEF CompleteStart
<1> QED BY <1>1, <1>2, <1>3 DEF TypeInv, TypeOK

\* Types survive the fast commit.
LEMMA FastCommitType ==
  ASSUME TypeInv, NEW r \in Requests, FastCommit(r) PROVE TypeInv'
<1>1. SharedType'
  BY NoSnapType, ConstantsAssumption, NameTypes, SnapFields DEF TypeInv, TypeOK, SharedType, UploadState, FastCommit, GiveBack, WriteMeta, RequestType, Goto, Answer, Return, dirVars, meta, planVars, reqVars, envVars
<1>2. HandlerOK'
  BY NoSnapType DEF TypeInv, TypeOK, RequestType, SharedType, HandlerOK, UploadPCs, Uploads, FastCommit, GiveBack, FdsRenamed, Goto, Answer, Return, dirVars, meta, planVars, reqVars, envVars
<1>3. RequestType'
  <2>1. CASE Answer(r, 412) BY <2>1, AnswerType, CodeTypes DEF TypeInv, TypeOK
  <2>2. CASE Goto(r, "stageOpen") /\ UNCHANGED <<status, fd, planVars>>
    BY <2>2, GotoType, Labels DEF TypeInv, TypeOK
  <2>3. CASE Goto(r, "xCopy") /\ UNCHANGED <<status, fd, planVars>>
    BY <2>3, GotoType, Labels DEF TypeInv, TypeOK
  <2>4. CASE /\ FdsRenamed(Direct, Object)
             /\ Goto(r, "finish") /\ UNCHANGED <<status, planVars>>
    BY <2>4, NameTypes, FdTypes, Labels DEF TypeInv, TypeOK, RequestType, Goto, planVars, FdsRenamed
  <2> QED BY <2>1, <2>2, <2>3, <2>4 DEF FastCommit, GiveBack, Answer
<1> QED BY <1>1, <1>2, <1>3 DEF TypeInv, TypeOK

\* Types survive the copy to the other file system.
LEMMA CrossCopyType ==
  ASSUME TypeInv, NEW r \in Requests, CrossCopy(r) PROVE TypeInv'
<1>1. SharedType'
  BY NoSnapType, ConstantsAssumption, NameTypes DEF TypeInv, TypeOK, SharedType, UploadState, CrossCopy, CopyFails, Goto, Answer, Return, dirVars, meta, planVars, reqVars, envVars
<1>2. HandlerOK'
  BY NoSnapType DEF TypeInv, TypeOK, RequestType, SharedType, HandlerOK, UploadPCs, Uploads, CrossCopy, Goto, Answer, Return, dirVars, meta, planVars, reqVars, envVars
<1>3. RequestType'
  <2>1. Goto(r, "xRemove") \/ Goto(r, "stageOpen")
    BY DEF CrossCopy
  <2>2. FdsUnlinked({DstTmp}) /\ UNCHANGED <<status, planVars>>
    BY DEF CrossCopy
  <2> QED BY <2>1, <2>2, FdTypes, Labels DEF TypeInv, TypeOK, RequestType, Goto, planVars, FdsUnlinked
<1> QED BY <1>1, <1>2, <1>3 DEF TypeInv, TypeOK

\* Types survive removing the old object.
LEMMA RemoveObjectType ==
  ASSUME TypeInv, NEW r \in Requests, NEW from, NEW to \in {"xRename", "stageRename"},
         RemoveObject(r, from, to)
  PROVE  TypeInv'
<1>1. SharedType'
  BY NoSnapType, ConstantsAssumption, NameTypes DEF TypeInv, TypeOK, SharedType, UploadState, RemoveObject, Goto, Answer, Return, dirVars, meta, planVars, reqVars, envVars
<1>2. HandlerOK'
  BY NoSnapType DEF TypeInv, TypeOK, RequestType, SharedType, HandlerOK, UploadPCs, Uploads, RemoveObject, Goto, Answer, Return, dirVars, meta, planVars, reqVars, envVars
<1>3. RequestType'
  <2>1. CASE Goto(r, to) /\ UNCHANGED <<status, fd, planVars>>
    BY <2>1, GotoType, Labels DEF TypeInv, TypeOK
  <2>2. CASE /\ FdsUnlinked({Object}) /\ Goto(r, to) /\ UNCHANGED <<status, planVars>>
    BY <2>2, FdTypes, Labels DEF TypeInv, TypeOK, RequestType, Goto, planVars, FdsUnlinked
  <2> QED BY <2>1, <2>2 DEF RemoveObject
<1> QED BY <1>1, <1>2, <1>3 DEF TypeInv, TypeOK

\* Types survive the staged commit.
LEMMA CommitStagedType ==
  ASSUME TypeInv, NEW r \in Requests, NEW from, NEW staged \in Names,
         CommitStaged(r, from, staged)
  PROVE  TypeInv'
<1>1. SharedType'
  BY NoSnapType, ConstantsAssumption, NameTypes, SnapFields DEF TypeInv, TypeOK, SharedType, UploadState, CommitStaged, GiveBack, WriteMeta, RequestType, Goto, Answer, Return, dirVars, meta, planVars, reqVars, envVars
<1>2. HandlerOK'
  BY NoSnapType DEF TypeInv, TypeOK, RequestType, SharedType, HandlerOK, UploadPCs, Uploads, CommitStaged, GiveBack, Goto, Answer, Return, dirVars, meta, planVars, reqVars, envVars
<1>3. RequestType'
  <2>1. CASE Return(r, 412) /\ FdsUnlinkedBut({staged}, r, Gone)
    BY <2>1, ReturnType, CodeTypes DEF TypeInv, TypeOK
  <2>2. CASE /\ FdsRenamed(staged, Object)
             /\ Goto(r, "finish") /\ UNCHANGED <<status, planVars>>
    BY <2>2, NameTypes, FdTypes, Labels DEF TypeInv, TypeOK, RequestType, Goto, planVars, FdsRenamed
  <2> QED BY <2>1, <2>2 DEF CommitStaged, GiveBack
<1> QED BY <1>1, <1>2, <1>3 DEF TypeInv, TypeOK

\* Types survive opening the staging file.
LEMMA StageOpenType ==
  ASSUME TypeInv, NEW r \in Requests, StageOpen(r) PROVE TypeInv'
<1>1. SharedType'
  BY NoSnapType, ConstantsAssumption, NameTypes DEF TypeInv, TypeOK, SharedType, UploadState, StageOpen, Goto, Answer, Return, dirVars, meta, planVars, reqVars, envVars
<1>2. HandlerOK'
  BY NoSnapType DEF TypeInv, TypeOK, RequestType, SharedType, HandlerOK, UploadPCs, Uploads, StageOpen, Goto, Answer, Return, dirVars, meta, planVars, reqVars, envVars
<1>3. RequestType'
  <2>1. CASE Answer(r, 500) BY <2>1, AnswerType, CodeTypes DEF TypeInv, TypeOK
  <2>2. CASE /\ FdsUnlinkedBut({Staged}, r, Staged) /\ pos' = [pos EXCEPT ![r] = 1]
             /\ Goto(r, "stage") /\ UNCHANGED <<status, lk, off, snap>>
    BY <2>2, NameTypes, FdTypes, Labels DEF TypeInv, TypeOK, RequestType, Goto, planVars, FdsUnlinkedBut
  <2> QED BY <2>1, <2>2 DEF StageOpen
<1> QED BY <1>1, <1>2, <1>3 DEF TypeInv, TypeOK

\* Types survive copying a part to the staging file.
LEMMA StageCopyType ==
  ASSUME TypeInv, NEW r \in Requests, StageCopy(r) PROVE TypeInv'
<1>a. /\ UNCHANGED faults \/ \E ok : CopyFails(ok)
      /\ UNCHANGED <<dirVars, meta, call, tries, sameFs, foreign>>
  BY Zenon DEF StageCopy
<1>b. DOMAIN files' = Names
  <2>1. CASE UNCHANGED files BY <2>1 DEF TypeInv, TypeOK, SharedType
  <2>2. CASE files' = [n \in Names |-> IF n = fd[r]
                        THEN files[n] \o ReadRange(files[IF snap[r].parts[pos[r]].off = InFile
                                                           THEN PartFile(pos[r]) ELSE Direct],
                               IF snap[r].parts[pos[r]].off = InFile THEN 0
                               ELSE snap[r].parts[pos[r]].off, snap[r].parts[pos[r]].size)
                        ELSE files[n]]
    BY <2>2, Zenon
  <2> QED BY <2>1, <2>2, Zenon DEF StageCopy
<1>c. \/ Answer(r, 500)
      \/ \E label \in {"stageRemove", "stage"} : Goto(r, label) /\ UNCHANGED snap
  BY Zenon DEF StageCopy
<1>1. SharedType'
  BY <1>a, <1>b, ConstantsAssumption DEF TypeInv, TypeOK, SharedType, CopyFails, dirVars, meta
<1>2. HandlerOK'
  <2>1. UNCHANGED call BY <1>a
  <2>2. CASE Answer(r, 500)
    BY <2>1, <2>2, NoSnapType DEF TypeInv, TypeOK, RequestType, HandlerOK, UploadPCs, Answer, Return, Goto
  <2>3. CASE \E label \in {"stageRemove", "stage"} : Goto(r, label) /\ UNCHANGED snap
    BY <2>1, <2>3, SMTT(60) DEF TypeInv, TypeOK, RequestType, HandlerOK, UploadPCs, Goto
  <2> QED BY <1>c, <2>2, <2>3
<1>3. RequestType'
  <2>1. CASE Answer(r, 500) BY <2>1, AnswerType, CodeTypes DEF TypeInv, TypeOK
  <2>2. CASE /\ Goto(r, IF pos[r] = call[r].pn THEN "stageRemove" ELSE "stage")
             /\ pos' = [pos EXCEPT ![r] = pos[r] + 1]
             /\ UNCHANGED <<status, fd, lk, off, snap>>
    BY <2>2, Labels DEF TypeInv, TypeOK, RequestType, Goto, planVars
  <2> QED BY <2>1, <2>2 DEF StageCopy
<1> QED BY <1>1, <1>2, <1>3 DEF TypeInv, TypeOK

\* Types survive losing the staging file.
LEMMA StageLostType ==
  ASSUME TypeInv, NEW r \in Requests, StageLost(r) PROVE TypeInv'
<1>1. SharedType'
  BY NoSnapType, ConstantsAssumption, NameTypes DEF TypeInv, TypeOK, SharedType, UploadState, StageLost, Goto, Answer, Return, dirVars, meta, planVars, reqVars, envVars
<1>2. HandlerOK'
  BY NoSnapType DEF TypeInv, TypeOK, RequestType, SharedType, HandlerOK, UploadPCs, Uploads, StageLost, Goto, Answer, Return, dirVars, meta, planVars, reqVars, envVars
<1>3. RequestType'
  <2>1. CASE Answer(r, 500) BY <2>1, AnswerType, CodeTypes DEF TypeInv, TypeOK
  <2> QED BY <2>1 DEF StageLost
<1> QED BY <1>1, <1>2, <1>3 DEF TypeInv, TypeOK

\* Types survive marking the upload completed.
LEMMA FinishType ==
  ASSUME TypeInv, NEW r \in Requests, Finish(r) PROVE TypeInv'
<1>1. SharedType'
  BY NoSnapType, ConstantsAssumption, NameTypes, SnapFields DEF TypeInv, TypeOK, SharedType, UploadState, Finish, WriteMeta, RequestType, Goto, Answer, Return, dirVars, meta, planVars, reqVars, envVars
<1>2. HandlerOK'
  BY NoSnapType DEF TypeInv, TypeOK, RequestType, SharedType, HandlerOK, UploadPCs, Uploads, Finish, Goto, Answer, Return, dirVars, meta, planVars, reqVars, envVars
<1>3. RequestType'
  <2>1. CASE Goto(r, "unlinkDone") /\ UNCHANGED <<status, fd, planVars>>
    BY <2>1, GotoType, Labels DEF TypeInv, TypeOK
  <2> QED BY <2>1 DEF Finish
<1> QED BY <1>1, <1>2, <1>3 DEF TypeInv, TypeOK

\* Types survive the arrival of an Abort.
LEMMA AbortArriveType ==
  ASSUME TypeInv, NEW r \in Requests, AbortArrive(r) PROVE TypeInv'
<1>1. SharedType'
  BY NoSnapType, ConstantsAssumption, NameTypes DEF TypeInv, TypeOK, SharedType, UploadState, AbortArrive, Call, Operations, Goto, Answer, Return, dirVars, meta, planVars, reqVars, envVars
<1>2. HandlerOK'
  BY NoSnapType DEF TypeInv, TypeOK, RequestType, SharedType, HandlerOK, UploadPCs, Uploads, AbortArrive, Call, Goto, Answer, Return, dirVars, meta, planVars, reqVars, envVars
<1>3. RequestType'
  <2>1. CASE Answer(r, 404) BY <2>1, AnswerType, CodeTypes DEF TypeInv, TypeOK
  <2>2. CASE Goto(r, "unlink") /\ UNCHANGED <<status, fd, planVars>>
    BY <2>2, GotoType, Labels DEF TypeInv, TypeOK
  <2> QED BY <2>1, <2>2 DEF AbortArrive
<1> QED BY <1>1, <1>2, <1>3 DEF TypeInv, TypeOK

\* Types survive emptying the directory.
LEMMA RemoveEntriesType ==
  ASSUME TypeInv, NEW r \in Requests, RemoveEntries(r) PROVE TypeInv'
<1>1. SharedType'
  BY NoSnapType, ConstantsAssumption, NameTypes DEF TypeInv, TypeOK, SharedType, UploadState, RemoveEntries, Goto, Answer, Return, dirVars, meta, planVars, reqVars, envVars
<1>2. HandlerOK'
  BY NoSnapType DEF TypeInv, TypeOK, RequestType, SharedType, HandlerOK, UploadPCs, Uploads, RemoveEntries, Goto, Answer, Return, dirVars, meta, planVars, reqVars, envVars
<1>3. RequestType'
  <2>1. CASE /\ FdsUnlinked(InDir) /\ Goto(r, IF pc[r] = "unlink" THEN "rmdir" ELSE "rmdirDone")
             /\ UNCHANGED <<status, planVars>>
    BY <2>1, FdTypes, Labels DEF TypeInv, TypeOK, RequestType, Goto, planVars, FdsUnlinked
  <2> QED BY <2>1 DEF RemoveEntries
<1> QED BY <1>1, <1>2, <1>3 DEF TypeInv, TypeOK

\* Types survive removing the directory.
LEMMA RemoveDirType ==
  ASSUME TypeInv, NEW r \in Requests, RemoveDir(r) PROVE TypeInv'
<1>1. SharedType'
  BY NoSnapType, ConstantsAssumption, NameTypes DEF TypeInv, TypeOK, SharedType, UploadState, RemoveDir, Goto, Answer, Return, dirVars, meta, planVars, reqVars, envVars
<1>2. HandlerOK'
  BY NoSnapType DEF TypeInv, TypeOK, RequestType, SharedType, HandlerOK, UploadPCs, Uploads, RemoveDir, Goto, Answer, Return, dirVars, meta, planVars, reqVars, envVars
<1>3. RequestType'
  <2>1. CASE Answer(r, 204) BY <2>1, AnswerType, CodeTypes DEF TypeInv, TypeOK
  <2>2. CASE Answer(r, 200) BY <2>2, AnswerType, CodeTypes DEF TypeInv, TypeOK
  <2>3. CASE Answer(r, 500) BY <2>3, AnswerType, CodeTypes DEF TypeInv, TypeOK
  <2> QED BY <2>1, <2>2, <2>3 DEF RemoveDir
<1> QED BY <1>1, <1>2, <1>3 DEF TypeInv, TypeOK

\* Types survive a dropped handler.
LEMMA DisconnectType ==
  ASSUME TypeInv, NEW r \in Requests, Disconnect(r) PROVE TypeInv'
<1>1. SharedType'
  BY NoSnapType, ConstantsAssumption, NameTypes DEF TypeInv, TypeOK, SharedType, UploadState, Disconnect, Goto, Answer, Return, dirVars, meta, planVars, reqVars, envVars
<1>2. HandlerOK'
  BY NoSnapType DEF TypeInv, TypeOK, RequestType, SharedType, HandlerOK, UploadPCs, Uploads, Disconnect, Goto, Answer, Return, dirVars, meta, planVars, reqVars, envVars
<1>3. RequestType'
  <2>1. CASE Answer(r, 0) BY <2>1, AnswerType, CodeTypes DEF TypeInv, TypeOK
  <2> QED BY <2>1 DEF Disconnect
<1> QED BY <1>1, <1>2, <1>3 DEF TypeInv, TypeOK

\* Types survive phase 1.
LEMMA P1PlanType ==
  ASSUME TypeInv, NEW r \in Requests, P1Plan(r) PROVE TypeInv'
<1> DEFINE pn == call[r].pn
           len == call[r].len
           promotes == Promotes(snap[r], pn, len)
           a == IF promotes THEN len ELSE snap[r].assumed
<1>1. pn \in PartNumbers /\ len \in Lens BY UploadPart DEF P1Plan, UploadPCs
<1>2. snap[r] \in UploadMeta BY DEF TypeInv, TypeOK, RequestType
<1>3. a \in Lens \cup {NoSize} /\ snap[r].parts \in PartMap BY <1>1, <1>2, SnapFields
<1>4. DirectOffset(a, snap[r].parts, pn, len) \in Nat \cup {InFile}
  BY <1>1, <1>3, DirectOffsetType
<1>5. /\ UNCHANGED meta \/ (mstate' = "active" /\ assumed' = a /\ parts' = snap[r].parts)
      /\ UNCHANGED <<dirVars, files, call, envVars>>
  BY DEF P1Plan, WriteMeta
<1>6. \/ Answer(r, 500)
      \/ /\ off' = [off EXCEPT ![r] = DirectOffset(a, snap[r].parts, pn, len)]
         /\ lk' = [lk EXCEPT ![r] = 0]
         /\ snap' = [snap EXCEPT ![r] = NoSnap]
         /\ Goto(r, "open") /\ UNCHANGED <<status, fd, pos>>
  BY DEF P1Plan
<1> HIDE DEF pn, len, a
<1>7. SharedType'
  BY <1>3, <1>5 DEF TypeInv, TypeOK, SharedType, UploadState, meta, dirVars, envVars
<1>8. RequestType'
  <2>1. CASE Answer(r, 500) BY <2>1, AnswerType, CodeTypes DEF TypeInv, TypeOK
  <2>2. CASE ~Answer(r, 500)
    BY <2>2, <1>4, <1>6, NoSnapType, Labels DEF TypeInv, TypeOK, RequestType, Goto
  <2> QED BY <2>1, <2>2
<1>9. HandlerOK'
  <2>1. /\ UNCHANGED call /\ pc[r] = "p1Plan"
        /\ \E label \in {"done", "open"} : Goto(r, label)
        /\ snap' = [snap EXCEPT ![r] = NoSnap]
    BY <1>5, <1>6 DEF P1Plan, Answer, Return
  <2> QED BY <2>1 DEF TypeInv, TypeOK, RequestType, HandlerOK, UploadPCs, Goto
<1> QED BY <1>7, <1>8, <1>9 DEF TypeInv, TypeOK

\* Types survive phase 3.
LEMMA P3WriteType ==
  ASSUME TypeInv, NEW r \in Requests, P3Write(r) PROVE TypeInv'
<1> DEFINE pn == call[r].pn
           ps == [snap[r].parts EXCEPT ![pn] = Part(call[r].len, off[r])]
<1>1. pn \in PartNumbers /\ call[r].len \in Lens BY UploadPart DEF P3Write, UploadPCs
<1>2. snap[r] \in UploadMeta /\ off[r] \in Nat \cup {InFile} BY DEF TypeInv, TypeOK, RequestType
<1>3. snap[r].assumed \in Lens \cup {NoSize} /\ snap[r].parts \in PartMap BY <1>2, SnapFields
<1>4. ps \in PartMap BY <1>1, <1>2, <1>3, InsertType
<1>5. /\ \/ UNCHANGED meta
         \/ \E a \in Recomputed(snap[r].assumed, ps) :
               mstate' = "active" /\ assumed' = a /\ parts' = ps
      /\ Answer(r, 200) \/ Answer(r, 500)
      /\ UNCHANGED <<dirVars, files, call, envVars>>
  BY DEF P3Write, WriteMeta, WithPart
<1> HIDE DEF pn, ps
<1>6. assumed' \in Lens \cup {NoSize} /\ parts' \in PartMap /\ mstate' \in UploadState
  BY <1>3, <1>4, <1>5, RecomputedType DEF TypeInv, TypeOK, SharedType, UploadState, meta
<1>7. SharedType'
  BY <1>5, <1>6 DEF TypeInv, TypeOK, SharedType, dirVars, envVars
<1>8. RequestType' BY <1>5, AnswerType, CodeTypes DEF TypeInv, TypeOK
<1>9. HandlerOK'
  BY <1>5, NoSnapType DEF TypeInv, TypeOK, RequestType, HandlerOK, UploadPCs, Answer, Return, Goto
<1> QED BY <1>7, <1>8, <1>9 DEF TypeInv, TypeOK

\* Types survive copying a part file into direct.bin.
LEMMA FastCopyType ==
  ASSUME TypeInv, NEW r \in Requests, FastCopy(r) PROVE TypeInv'
<1>1. PICK pn \in FileParts(snap[r].parts, call[r].pn) :
        LET size == snap[r].parts[pn].size
            at == (pn - 1) * snap[r].assumed
            src == PartFile(pn)
            ps == [snap[r].parts EXCEPT ![pn] = Part(size, at)]
            ok == Exists(src) /\ Len(files[src]) >= size
        IN  \/ /\ ok
               /\ files' = [n \in Names |->
                     IF n = src THEN NoFile
                     ELSE IF n = fd[r]
                          THEN Overwrite(files[n], at, ReadRange(files[src], 0, size))
                          ELSE files[n]]
               /\ FdsUnlinked({src})
               /\ snap' = [snap EXCEPT ![r] = Snap(snap[r].assumed, ps)]
               /\ Goto(r, FastLabel(ps, call[r].pn))
               /\ UNCHANGED faults
            \/ /\ CopyFails(ok)
               /\ Goto(r, "stageOpen") /\ UNCHANGED <<files, fd, snap>>
  BY Zenon DEF FastCopy
<1>2. /\ pc[r] = "fast"
      /\ UNCHANGED <<dirVars, meta, call, status, lk, off, pos, tries, sameFs, foreign>>
  BY Zenon DEF FastCopy
<1> DEFINE size == snap[r].parts[pn].size
           at == (pn - 1) * snap[r].assumed
           ps == [snap[r].parts EXCEPT ![pn] = Part(size, at)]
<1>3. snap[r] \in UploadMeta /\ call[r].pn \in 0..MaxPart
  BY DEF TypeInv, TypeOK, RequestType, SharedType
<1>4. snap[r].assumed \in Lens /\ snap[r].parts \in PartMap
  BY <1>2, <1>3, SnapFields DEF TypeInv, HandlerOK
<1>5. pn \in PartNumbers /\ pn - 1 \in Nat
  BY <1>3, ConstantsAssumption DEF FileParts, PartNumbers
<1>6. size \in Lens \cup {NoSize} BY <1>4, <1>5 DEF PartMap, PartMeta
<1>7. at \in Nat BY <1>4, <1>5, ProductNat, ConstantsAssumption
<1> HIDE DEF size, at
<1>8. ps \in PartMap BY <1>4, <1>5, <1>6, <1>7, InsertType
<1>9. Snap(snap[r].assumed, ps) \in UploadMeta /\ Snap(snap[r].assumed, ps).assumed # NoSize
  BY <1>4, <1>8, SnapType, ConstantsAssumption DEF NoSize
<1> HIDE DEF ps
<1>10. DOMAIN files' = Names
  BY <1>1, Zenon DEF TypeInv, TypeOK, SharedType
<1>11. /\ UNCHANGED faults \/ \E ok : CopyFails(ok)
       /\ \/ /\ \E S : FdsUnlinked(S)
             /\ snap' = [snap EXCEPT ![r] = Snap(snap[r].assumed, ps)]
             /\ \E label \in {"fast", "fastCommit"} : Goto(r, label)
          \/ Goto(r, "stageOpen") /\ UNCHANGED <<fd, snap>>
  BY <1>1, Zenon DEF size, at, ps, FastLabel
<1>12. SharedType'
  BY <1>2, <1>10, <1>11, ConstantsAssumption DEF TypeInv, TypeOK, SharedType, CopyFails, dirVars, meta
<1>13. RequestType'
  BY <1>2, <1>9, <1>11, FdTypes, Labels DEF TypeInv, TypeOK, RequestType, Goto, FdsUnlinked
<1>14. HandlerOK'
  BY <1>2, <1>9, <1>11 DEF TypeInv, TypeOK, RequestType, HandlerOK, UploadPCs, Goto
<1> QED BY <1>12, <1>13, <1>14 DEF TypeInv, TypeOK

\* Types survive a crash of the gateway.
LEMMA CrashType == ASSUME TypeInv, Crash PROVE TypeInv'
<1>1. SharedType'
  BY ConstantsAssumption DEF TypeInv, TypeOK, SharedType, Crash, dirVars, meta
<1>2. RequestType'
  BY NoSnapType, NameTypes, Labels DEF TypeInv, TypeOK, RequestType, Crash
<1>3. HandlerOK'
  BY DEF TypeInv, TypeOK, RequestType, HandlerOK, UploadPCs, Crash
<1> QED BY <1>1, <1>2, <1>3 DEF TypeInv, TypeOK

\* Types survive another request's creation or deletion of the object.
LEMMA OtherType == ASSUME TypeInv, OtherPut \/ OtherDelete PROVE TypeInv'
<1>1. SharedType'
  BY ConstantsAssumption, NameTypes
     DEF TypeInv, TypeOK, SharedType, OtherPut, OtherDelete, dirVars, meta
<1>2. RequestType'
  BY FdTypes DEF TypeInv, TypeOK, RequestType, OtherPut, OtherDelete, reqVars, planVars, FdsUnlinked
<1>3. HandlerOK'
  BY DEF TypeInv, HandlerOK, OtherPut, OtherDelete, reqVars, planVars
<1> QED BY <1>1, <1>2, <1>3 DEF TypeInv, TypeOK

\* A fresh upload is of its type.
LEMMA InitType == Init => TypeInv
<1> SUFFICES ASSUME Init PROVE TypeInv OBVIOUS
<1>1. SharedType
  BY NoSnapType, ConstantsAssumption
     DEF Init, SharedType, UploadState, NoCall, Call, Operations
<1>2. RequestType
  BY NoSnapType, NameTypes, Labels, CodeTypes DEF Init, RequestType
<1>3. HandlerOK BY DEF Init, HandlerOK, NoCall, Call, Uploads, UploadPCs
<1> QED BY <1>1, <1>2, <1>3 DEF TypeInv, TypeOK

\* Every step of the upload's life keeps all types.
LEMMA NextType == TypeInv /\ [Next]_vars => TypeInv'
<1> SUFFICES ASSUME TypeInv, [Next]_vars PROVE TypeInv' OBVIOUS
<1>1. ASSUME NEW r \in Requests, Arrive(r) PROVE TypeInv'
  BY <1>1, UploadArriveType, CompleteArriveType, AbortArriveType
     DEF Arrive, PutArrive, CopyArrive, Uploads
<1>2. ASSUME NEW r \in Requests, UploadStep(r) PROVE TypeInv'
  <2>1. CASE P1Read(r) BY <2>1, LockedReadType DEF P1Read, UploadPCs
  <2>2. CASE P3Read(r) BY <2>2, LockedReadType DEF P3Read, UploadPCs
  <2> QED BY <1>2, <2>1, <2>2, P1PlanType, OpenType, BodyChunkType, BodyDoneType,
             P3OpenType, P3WriteType DEF UploadStep
<1>3. ASSUME NEW r \in Requests, CompleteStep(r) PROVE TypeInv'
  <2>1. CASE CompleteRead(r) BY <2>1, LockedReadType DEF CompleteRead, UploadPCs
  <2>2. CASE CrossRemove(r) \/ StageRemove(r)
    BY <2>2, RemoveObjectType DEF CrossRemove, StageRemove
  <2>3. CASE CrossRename(r) \/ StageRename(r)
    BY <2>3, CommitStagedType, NameTypes DEF CrossRename, StageRename
  <2> QED BY <1>3, <2>1, <2>2, <2>3, CompleteStartType, FastCopyType, FastCommitType,
             CrossCopyType, StageOpenType, StageCopyType, StageLostType, FinishType
          DEF CompleteStep
<1>4. ASSUME NEW r \in Requests, RemoveStep(r) PROVE TypeInv'
  BY <1>4, RemoveEntriesType, RemoveDirType DEF RemoveStep
<1>5. CASE UNCHANGED vars
  BY <1>5 DEF TypeInv, TypeOK, SharedType, RequestType, HandlerOK, vars, dirVars, meta,
              reqVars, planVars, envVars
<1> QED BY <1>1, <1>2, <1>3, <1>4, <1>5, BodyErrorType, DisconnectType, CrashType,
           OtherType DEF Next

\* Every reachable state of the upload is of its type: meta.json, every
\* request's copy of it, every planned offset and every answer, whatever the
\* requests, parts, lengths and faults.
THEOREM TypeInvariant == Spec => []TypeOK
<1>1. TypeInv => TypeOK BY DEF TypeInv
<1> QED BY <1>1, InitType, NextType, PTL DEF Spec

-----------------------------------------------------------------------------
\* What the files consist of.

\* A cell that an upload has written, or a hole.
Cell == {Hole} \cup (PartNumbers \X Nat \X Nat)

\* Where a Complete works on the object.
CommitPCs == {"fast", "fastCommit", "xCopy", "xRemove", "xRename", "stageOpen", "stage",
              "stageRemove", "stageRename", "finish", "unlinkDone", "rmdirDone"}

\* A Complete that has started has a part list, and stages one of its parts.
CompleteOK ==
    \A r \in Requests :
        /\ pc[r] \in CommitPCs \cup {"cLock", "cStart"} => call[r].op = "complete"
        /\ pc[r] \in CommitPCs => call[r].pn \in PartNumbers
        /\ pc[r] = "stage" => pos[r] \in 1..call[r].pn

\* A file that is open for writing has a name and cells of parts only: it is
\* never an object that another request has written.
FilesOK ==
    /\ \A n \in Names : \/ files[n] = NoFile \/ files[n] \in Seq(Cell)
                        \/ n = Object /\ files[n] = Foreign
    /\ \A r \in Requests : fd[r] # Gone => files[fd[r]] \in Seq(Cell)

FilesInv == TypeInv /\ CompleteOK /\ FilesOK

\* No file, and no object of another writer, is made of cells of parts.
LEMMA CellFacts ==
    /\ Hole \in Cell /\ \A pn \in PartNumbers, i, t \in Nat : <<pn, i, t>> \in Cell
    /\ NoFile \notin Seq(Cell) /\ Foreign \notin Seq(Cell) /\ NoFile # Foreign /\ << >> \in Seq(Cell)
<1>1. Hole \in Cell /\ \A pn \in PartNumbers, i, t \in Nat : <<pn, i, t>> \in Cell
  BY DEF Cell
<1>2. <<-1, -1, -1>> \notin Cell /\ <<0, 1, 0>> \notin Cell
  <2>1. \A pn \in PartNumbers : pn \in Int /\ pn # -1 /\ pn # 0
    BY ConstantsAssumption DEF PartNumbers
  <2> QED BY <2>1 DEF Cell, Hole
<1>3. ASSUME NEW x, << x >> \in Seq(Cell) PROVE x \in Cell
  <2>1. Len(<< x >>) = 1 /\ << x >>[1] = x
    OBVIOUS
  <2> QED BY <1>3, <2>1, ElementOfSeq
<1>4. NoFile \notin Seq(Cell) /\ Foreign \notin Seq(Cell)
  BY <1>2, <1>3 DEF NoFile, Foreign
<1>5. NoFile[1] = <<-1, -1, -1>> /\ Foreign[1] = <<0, 1, 0>>
  BY DEF NoFile, Foreign
<1> QED BY <1>1, <1>4, <1>5

\* A function on 1..n is a sequence, also when n is negative.
LEMMA FunctionSeq ==
    ASSUME NEW S, NEW n \in Int, NEW f \in [1..n -> S]
    PROVE  f \in Seq(S)
<1>1. CASE n >= 0
  BY <1>1, SeqDef
<1>2. CASE n < 0
  <2>1. 1..n = 1..0
    BY <1>2
  <2> QED BY <2>1, SeqDef
<1> QED BY <1>1, <1>2

\* Writing, cutting and reading keep cells of parts.
LEMMA OverwriteCells ==
    ASSUME NEW c \in Seq(Cell), NEW d \in Seq(Cell), NEW o \in Nat
    PROVE  Overwrite(c, o, d) \in Seq(Cell)
<1>1. Larger(Len(c), o + Len(d)) \in Int
  BY LenProperties DEF Larger
<1>2. ASSUME NEW i \in 1..Larger(Len(c), o + Len(d))
      PROVE  (IF o < i /\ i <= o + Len(d) THEN d[i - o] ELSE IF i <= Len(c) THEN c[i] ELSE Hole) \in Cell
  <2>0. i \in Int /\ i >= 1 /\ Len(c) \in Nat /\ Len(d) \in Nat
    BY <1>1, LenProperties
  <2>1. o < i /\ i <= o + Len(d) => i - o \in 1..Len(d)
    BY <2>0
  <2>2. i <= Len(c) => i \in 1..Len(c)
    BY <2>0
  <2> QED BY <2>1, <2>2, ElementOfSeq, CellFacts
<1> DEFINE F == Overwrite(c, o, d)
<1>3. F \in [1..Larger(Len(c), o + Len(d)) -> Cell]
  BY <1>2 DEF Overwrite
<1> HIDE DEF F
<1> QED BY <1>1, <1>3, FunctionSeq DEF F

\* Cutting or extending keeps cells of parts.
LEMMA TruncateCells ==
    ASSUME NEW c \in Seq(Cell), NEW n \in Int
    PROVE  Truncate(c, n) \in Seq(Cell)
<1>1. ASSUME NEW i \in 1..n
      PROVE  (IF i <= Len(c) THEN c[i] ELSE Hole) \in Cell
  <2>1. i <= Len(c) => i \in 1..Len(c)
    BY LenProperties
  <2> QED BY <2>1, ElementOfSeq, CellFacts
<1> DEFINE F == Truncate(c, n)
<1>2. F \in [1..n -> Cell]
  BY <1>1 DEF Truncate
<1> HIDE DEF F
<1> QED BY <1>2, FunctionSeq DEF F

\* Reading a range yields cells of parts.
LEMMA ReadRangeCells ==
    ASSUME NEW c \in Seq(Cell), NEW o \in Nat, NEW size \in Int
    PROVE  ReadRange(c, o, size) \in Seq(Cell)
<1> DEFINE m == IF o + size < Len(c) THEN o + size ELSE Len(c)
<1>1. m \in Int /\ m <= Len(c)
  BY LenProperties
<1>2. \A i \in (o + 1)..m : i \in 1..Len(c)
  BY <1>1, LenProperties
<1>3. SubSeq(c, o + 1, m) \in Seq(Cell)
  <2> HIDE DEF m
  <2> QED BY <1>1, <1>2, SubSeqProperties
<1> QED BY <1>3 DEF ReadRange

\* Lengths and offsets are integers.
LEMMA LengthsInt == /\ \A x \in Lens : x \in Nat /\ x \in Int
                    /\ NoSize \in Int /\ InFile \in Int /\ NoSize \notin Nat /\ InFile \notin Nat
BY ConstantsAssumption DEF NoSize, InFile

\* The file names differ.
LEMMA NamesDiffer ==
    /\ Object \notin InDir /\ DstTmp \notin InDir /\ Gone \notin Names
    /\ Direct # Object /\ Direct # DstTmp /\ Stage # Object /\ DstTmp # Object /\ Direct # Stage /\ Staged # Object
    /\ Staged # Direct /\ Staged \in {Stage, DstTmp} /\ Direct \in InDir /\ InDir \subseteq Names
    /\ \A pn \in PartNumbers : /\ PartTmp(pn) \in InDir /\ PartFile(pn) \in InDir
                               /\ PartTmp(pn) # Direct /\ PartFile(pn) # Direct /\ PartTmp(pn) \notin {Stage, DstTmp, Object}
                               /\ PartFile(pn) \notin {Stage, DstTmp, Object}
                               /\ \A q \in PartNumbers : /\ PartTmp(pn) # PartFile(q)
                                                         /\ PartTmp(pn) = PartTmp(q) => pn = q
                                                         /\ PartFile(pn) = PartFile(q) => pn = q
BY DEF InDir, Names, Direct, Stage, DstTmp, Object, Gone, PartTmp, PartFile, Staged

\* Steps that change no file close descriptors at most.
LEMMA FilesSame ==
    ASSUME FilesOK, UNCHANGED files, \A q \in Requests : fd'[q] = fd[q] \/ fd'[q] = Gone
    PROVE  FilesOK'
BY DEF FilesOK

\* Writing cells of parts to files that are open, or unlinking one of them.
LEMMA FilesWritten ==
    ASSUME TypeInv, FilesOK,
           \A n \in Names : \/ files'[n] = files[n]
                            \/ files'[n] \in Seq(Cell)
                            \/ files'[n] = NoFile /\ \A q \in Requests : fd'[q] # n,
           \A q \in Requests : fd'[q] = fd[q] \/ fd'[q] = Gone \/ files'[fd'[q]] \in Seq(Cell)
    PROVE  FilesOK'
<1>1. \A q \in Requests : fd[q] \in Names \/ fd[q] = Gone
  BY DEF TypeInv, TypeOK, RequestType, Fds
<1> QED BY <1>1 DEF FilesOK

\* What descriptors refer to after an unlink and after a rename.
LEMMA FdCases ==
    ASSUME NEW f, NEW S, NEW a, NEW b
    PROVE  /\ FdUnlinked(f, S) = f \/ FdUnlinked(f, S) = Gone
           /\ FdUnlinked(f, S) \in S => FdUnlinked(f, S) = Gone
           /\ FdRenamed(f, a, b) = Gone \/ (FdRenamed(f, a, b) = b /\ f = a) \/ (FdRenamed(f, a, b) = f /\ f # a /\ f # b)
BY DEF FdUnlinked, FdRenamed

\* The steps that change no file.
LEMMA FilesUntouched ==
    ASSUME FilesInv, NEW r \in Requests,
           \/ \E op, pn, len : UploadArrive(r, op, pn, len)
           \/ \E last, nr : CompleteArrive(r, last, nr)
           \/ AbortArrive(r) \/ P1Read(r) \/ P1Plan(r) \/ P3Open(r) \/ P3Read(r) \/ P3Write(r)
           \/ CompleteRead(r) \/ StageLost(r) \/ Finish(r) \/ RemoveDir(r) \/ Disconnect(r)
    PROVE  FilesOK'
<1>1. UNCHANGED files
  BY DEF UploadArrive, CompleteArrive, AbortArrive, P1Read, P3Read, CompleteRead, LockedRead, P1Plan,
     P3Open, P3Write, StageLost, Finish, RemoveDir, Disconnect
<1>2. UNCHANGED fd \/ fd' = [fd EXCEPT ![r] = Gone]
  BY DEF UploadArrive, CompleteArrive, AbortArrive, P1Read, P3Read, CompleteRead, LockedRead, P1Plan,
     P3Open, P3Write, StageLost, Finish, RemoveDir, Disconnect, OpenLock, Answer
<1>3. \A q \in Requests : fd'[q] = fd[q] \/ fd'[q] = Gone
  BY <1>2 DEF FilesInv, TypeInv, TypeOK, RequestType
<1> QED BY <1>1, <1>3, FilesSame DEF FilesInv

\* Opening a destination makes a file of cells.
LEMMA OpenFiles ==
    ASSUME FilesInv, NEW r \in Requests, OpenDirect(r) \/ OpenCopy(r) \/ OpenPart(r)
    PROVE  FilesOK'
<1> USE NameTypes, NamesDiffer DEF FilesInv
<1>1. pc[r] = "open" /\ call[r].pn \in PartNumbers /\ call[r].len \in Int
  <2>1. pc[r] = "open" /\ pc[r] \in UploadPCs
    BY DEF OpenDirect, OpenCopy, OpenPart, UploadPCs
  <2> QED BY <2>1, UploadPart, LengthsInt DEF TypeInv, TypeOK, SharedType
<1>2. ASSUME NEW n \in Names, n # Object, NEW c, c \in Seq(Cell), Opened(r, n, c)
      PROVE  FilesOK'
  <2>1. \A m \in Names : files'[m] = files[m] \/ files'[m] \in Seq(Cell)
    BY <1>2 DEF Opened, TypeInv, TypeOK, SharedType
  <2>2. files'[n] \in Seq(Cell) /\ \A q \in Requests : fd'[q] = fd[q] \/ fd'[q] = n
    BY <1>2 DEF Opened, TypeInv, TypeOK, RequestType, SharedType
  <2> QED BY <2>1, <2>2, FilesWritten
<1>3. CASE Answer(r, 500) /\ UNCHANGED files
  BY <1>3, FilesSame DEF Answer, TypeInv, TypeOK, RequestType
<1>4. ASSUME NEW n \in Names, n # Object, Opened(r, n, IF Exists(n) THEN files[n] ELSE << >>)
      PROVE  FilesOK'
  <2>1. (IF Exists(n) THEN files[n] ELSE << >>) \in Seq(Cell)
    BY <1>4, CellFacts DEF FilesOK, Exists
  <2> QED BY <1>2, <1>4, <2>1
<1>5. CASE OpenDirect(r)
  BY <1>3, <1>4, <1>5 DEF OpenDirect, OpenExisting
<1>6. CASE OpenCopy(r)
  BY <1>1, <1>3, <1>4, <1>6 DEF OpenCopy, OpenExisting
<1>7. CASE OpenPart(r)
  <2>1. Truncate(<< >>, call[r].len) \in Seq(Cell)
    BY <1>1, CellFacts, TruncateCells
  <2> QED BY <1>1, <1>2, <1>7, <2>1 DEF OpenPart
<1> QED BY <1>5, <1>6, <1>7

\* A chunk of a body goes to a file that is open.
LEMMA BodyChunkFiles ==
    ASSUME FilesInv, NEW r \in Requests, BodyChunk(r)
    PROVE  FilesOK'
<1> USE NameTypes, NamesDiffer DEF FilesInv, TypeInv, TypeOK
<1> DEFINE at == (IF off[r] = InFile THEN 0 ELSE off[r]) + pos[r]
           cell == <<call[r].pn, pos[r] + 1, call[r].try>>
<1>1. call[r].pn \in PartNumbers /\ at \in Nat /\ cell \in Cell
  BY UploadPart, CellFacts, SMTT(60) DEF BodyChunk, UploadPCs, RequestType, SharedType
<1>2. << cell >> \in Seq(Cell)
  BY <1>1
<1>3. \A n \in Names : files'[n] = IF n = fd[r] THEN Overwrite(files[n], at, << cell >>) ELSE files[n]
  BY DEF BodyChunk
<1> HIDE DEF at, cell
<1>4. \A n \in Names : files'[n] = files[n] \/ files'[n] \in Seq(Cell)
  <2>1. CASE fd[r] = Gone
    BY <1>3, <2>1
  <2>2. CASE fd[r] # Gone
    <3>1. Overwrite(files[fd[r]], at, << cell >>) \in Seq(Cell)
      BY <1>1, <1>2, <2>2, OverwriteCells DEF FilesOK
    <3> QED BY <1>3, <3>1
  <2> QED BY <2>1, <2>2
<1>5. UNCHANGED fd
  BY DEF BodyChunk
<1> QED BY <1>4, <1>5, FilesWritten

\* A broken body removes the part's temporary file.
LEMMA BodyErrorFiles ==
    ASSUME FilesInv, NEW r \in Requests, BodyError(r)
    PROVE  FilesOK'
<1> USE NameTypes, NamesDiffer DEF FilesInv
<1>1. PICK S : /\ files' = [n \in Names |-> IF n \in S THEN NoFile ELSE files[n]]
               /\ FdsUnlinkedBut(S, r, Gone)
  BY DEF BodyError
<1>2. \A q \in Requests : fd'[q] = Gone \/ (fd'[q] = fd[q] /\ fd[q] \notin S)
  BY <1>1 DEF FdsUnlinkedBut, FdUnlinked
<1> QED BY <1>1, <1>2, FilesWritten

\* The end of a body: a part file is cut and renamed.
LEMMA BodyDoneFiles ==
    ASSUME FilesInv, NEW r \in Requests, BodyDone(r)
    PROVE  FilesOK'
<1> USE NameTypes, NamesDiffer DEF FilesInv
<1> DEFINE pn == call[r].pn
           tmp == PartTmp(pn)
           cut(n) == IF call[r].op = "put" /\ n = fd[r] THEN Truncate(files[n], call[r].len) ELSE files[n]
<1>1. pn \in PartNumbers /\ call[r].len \in Int
  BY UploadPart, LengthsInt DEF BodyDone, UploadPCs, TypeInv, TypeOK, SharedType
<1>2. CASE UNCHANGED <<files, fd>>
  BY <1>2, FilesSame
<1>3. CASE Answer(r, 500) /\ UNCHANGED files
  BY <1>3, FilesSame DEF Answer, TypeInv, TypeOK, RequestType
<1>4. CASE /\ Exists(tmp)
           /\ files' = [n \in Names |-> IF n = tmp THEN NoFile
                                        ELSE IF n = PartFile(pn) THEN cut(tmp) ELSE cut(n)]
           /\ FdsRenamed(tmp, PartFile(pn))
  <2>1. \A n \in Names : cut(n) = files[n] \/ cut(n) \in Seq(Cell)
    BY <1>1, TruncateCells DEF FilesOK
  <2>2. cut(tmp) \in Seq(Cell)
    BY <1>1, <1>4, <2>1 DEF Exists, FilesOK
  <2>3. \A n \in Names : files'[n] = IF n = tmp THEN NoFile ELSE IF n = PartFile(pn) THEN cut(tmp) ELSE cut(n)
    BY <1>4
  <2>4. \A q \in Requests : fd'[q] = Gone \/ fd'[q] = PartFile(pn) \/ (fd'[q] = fd[q] /\ fd[q] # tmp)
    BY <1>4 DEF FdsRenamed, FdRenamed
  <2> HIDE DEF cut
  <2>5. files'[PartFile(pn)] \in Seq(Cell)
    BY <1>1, <2>2, <2>3
  <2>6. \A q \in Requests : fd'[q] # tmp
    BY <1>1, <2>4
  <2> QED BY <1>1, <2>1, <2>2, <2>3, <2>4, <2>5, <2>6, FilesWritten
<1> QED BY <1>2, <1>3, <1>4 DEF BodyDone

\* A Complete that has started has the lengths it computes with.
LEMMA CompleteSizes ==
    ASSUME FilesInv, NEW r \in Requests, pc[r] \in CommitPCs
    PROVE  /\ call[r].pn \in PartNumbers /\ snap[r].assumed \in Int
           /\ \A pn \in PartNumbers : snap[r].parts[pn].size \in Int /\ snap[r].parts[pn].off \in Nat \cup {InFile}
           /\ FinalSize(snap[r], call[r].pn) \in Int
<1> USE DEF FilesInv, TypeInv, TypeOK
<1>1. snap[r].assumed \in Lens \cup {NoSize} /\ snap[r].parts \in PartMap
  BY SnapFields DEF RequestType
<1>2. snap[r].assumed \in Int
  BY <1>1, LengthsInt
<1>3. \A pn \in PartNumbers : snap[r].parts[pn].size \in Int /\ snap[r].parts[pn].off \in Nat \cup {InFile}
  BY <1>1, LengthsInt DEF PartMap, PartMeta
<1>4. call[r].pn \in PartNumbers /\ call[r].pn \in Int
  BY ConstantsAssumption DEF CompleteOK, PartNumbers
<1>5. (call[r].pn - 1) * snap[r].assumed \in Int
  BY <1>2, <1>4
<1> QED BY <1>2, <1>3, <1>4, <1>5 DEF FinalSize

\* The start of a Complete opens direct.bin at most.
LEMMA CompleteStartFiles ==
    ASSUME FilesInv, NEW r \in Requests, CompleteStart(r)
    PROVE  FilesOK'
<1> USE NameTypes, NamesDiffer DEF FilesInv
<1>1. CASE UNCHANGED files /\ (UNCHANGED fd \/ fd' = [fd EXCEPT ![r] = Gone])
  BY <1>1, FilesSame DEF TypeInv, TypeOK, RequestType
<1>2. CASE /\ files' = [files EXCEPT ![Direct] = IF Exists(Direct) THEN files[Direct] ELSE << >>]
           /\ fd' = [fd EXCEPT ![r] = Direct]
  <2>1. files'[Direct] \in Seq(Cell)
    BY <1>2, CellFacts DEF FilesOK, Exists, TypeInv, TypeOK, SharedType
  <2>2. \A n \in Names : n # Direct => files'[n] = files[n]
    BY <1>2 DEF TypeInv, TypeOK, SharedType
  <2>3. \A q \in Requests : fd'[q] = fd[q] \/ fd'[q] = Direct
    BY <1>2 DEF TypeInv, TypeOK, RequestType
  <2> QED BY <2>1, <2>2, <2>3, FilesWritten
<1> QED BY <1>1, <1>2 DEF CompleteStart, Answer

\* A part file moves into direct.bin.
LEMMA FastCopyFiles ==
    ASSUME FilesInv, NEW r \in Requests, FastCopy(r)
    PROVE  FilesOK'
<1> USE NameTypes, NamesDiffer DEF FilesInv
<1>1. pc[r] = "fast" /\ pc[r] \in CommitPCs
  BY DEF FastCopy, CommitPCs
<1>2. CASE UNCHANGED <<files, fd>>
  BY <1>2, FilesSame
<1>3. ASSUME NEW pn \in FileParts(snap[r].parts, call[r].pn),
             Exists(PartFile(pn)),
             files' = [n \in Names |->
                         IF n = PartFile(pn) THEN NoFile
                         ELSE IF n = fd[r]
                              THEN Overwrite(files[n], (pn - 1) * snap[r].assumed,
                                             ReadRange(files[PartFile(pn)], 0, snap[r].parts[pn].size))
                              ELSE files[n]],
             FdsUnlinked({PartFile(pn)})
      PROVE  FilesOK'
  <2>1. pn \in PartNumbers
    BY <1>1, CompleteSizes, ConstantsAssumption DEF FileParts, PartNumbers
  <2>2. (pn - 1) * snap[r].assumed \in Nat
    <3>1. snap[r].assumed \in Nat
      BY <1>1, SnapFields, ConstantsAssumption DEF TypeInv, TypeOK, RequestType, HandlerOK
    <3> QED BY <2>1, <3>1, ProductNat, ConstantsAssumption DEF PartNumbers
  <2>3. files[PartFile(pn)] \in Seq(Cell)
    BY <1>3, <2>1 DEF FilesOK, Exists
  <2>4. ReadRange(files[PartFile(pn)], 0, snap[r].parts[pn].size) \in Seq(Cell)
    BY <1>1, <2>1, <2>3, CompleteSizes, ReadRangeCells
  <2> DEFINE D == ReadRange(files[PartFile(pn)], 0, snap[r].parts[pn].size)
             at == (pn - 1) * snap[r].assumed
  <2>5. \A n \in Names : files'[n] = IF n = PartFile(pn) THEN NoFile
                                     ELSE IF n = fd[r] THEN Overwrite(files[n], at, D) ELSE files[n]
    BY <1>3
  <2> HIDE DEF D, at
  <2>6. fd[r] # Gone => Overwrite(files[fd[r]], at, D) \in Seq(Cell)
    BY <2>2, <2>4, OverwriteCells DEF FilesOK, D, at
  <2>7. \A q \in Requests : fd'[q] = Gone \/ (fd'[q] = fd[q] /\ fd[q] # PartFile(pn))
    BY <1>3 DEF FdsUnlinked, FdUnlinked
  <2>8. \A q \in Requests : fd'[q] # PartFile(pn)
    BY <2>1, <2>7
  <2> QED BY <2>5, <2>6, <2>7, <2>8, FilesWritten
<1> QED BY <1>2, <1>3 DEF FastCopy

\* direct.bin, cut to size, becomes the object.
LEMMA FastCommitFiles ==
    ASSUME FilesInv, NEW r \in Requests, FastCommit(r)
    PROVE  FilesOK'
<1> USE NameTypes, NamesDiffer DEF FilesInv
<1> DEFINE size == FinalSize(snap[r], call[r].pn)
           cut == [n \in Names |-> IF n = fd[r] THEN Truncate(files[n], size) ELSE files[n]]
<1>1. size \in Int
  BY CompleteSizes DEF FastCommit, CommitPCs
<1>2. \A n \in Names : cut[n] = files[n] \/ cut[n] \in Seq(Cell)
  BY <1>1, TruncateCells DEF FilesOK
<1>3. CASE files' = cut /\ (UNCHANGED fd \/ fd' = [fd EXCEPT ![r] = Gone])
  <2>1. \A q \in Requests : fd'[q] = fd[q] \/ fd'[q] = Gone
    BY <1>3 DEF TypeInv, TypeOK, RequestType
  <2> HIDE DEF cut
  <2> QED BY <1>2, <1>3, <2>1, FilesWritten
<1>4. CASE /\ Exists(Direct)
           /\ files' = [n \in Names |-> IF n = Object THEN cut[Direct]
                                        ELSE IF n = Direct THEN NoFile ELSE cut[n]]
           /\ FdsRenamed(Direct, Object)
  <2> HIDE DEF cut
  <2>1. cut[Direct] \in Seq(Cell)
    BY <1>2, <1>4 DEF Exists, FilesOK
  <2>2. \A n \in Names : files'[n] = IF n = Object THEN cut[Direct] ELSE IF n = Direct THEN NoFile ELSE cut[n]
    BY <1>4
  <2>3. \A q \in Requests : fd'[q] = Gone \/ fd'[q] = Object \/ (fd'[q] = fd[q] /\ fd[q] # Direct)
    BY <1>4 DEF FdsRenamed, FdRenamed
  <2> QED BY <1>2, <2>1, <2>2, <2>3, FilesWritten
<1> QED BY <1>3, <1>4 DEF FastCommit, GiveBack, Answer

\* The copy next to the object is a new file.
LEMMA CrossCopyFiles ==
    ASSUME FilesInv, NEW r \in Requests, CrossCopy(r)
    PROVE  FilesOK'
<1> USE NameTypes, NamesDiffer DEF FilesInv
<1> DEFINE size == FinalSize(snap[r], call[r].pn)
<1>1. size \in Int
  BY CompleteSizes DEF CrossCopy, CommitPCs
<1>2. \A q \in Requests : fd'[q] = Gone \/ (fd'[q] = fd[q] /\ fd[q] # DstTmp)
  BY DEF CrossCopy, FdsUnlinked, FdUnlinked
<1>3. CASE Exists(Direct) /\ files' = [files EXCEPT ![DstTmp] = Truncate(files[Direct], size)]
  <2>1. Truncate(files[Direct], size) \in Seq(Cell)
    BY <1>1, <1>3, TruncateCells DEF FilesOK, Exists
  <2>2. \A n \in Names : files'[n] = IF n = DstTmp THEN Truncate(files[Direct], size) ELSE files[n]
    BY <1>3 DEF TypeInv, TypeOK, SharedType
  <2> QED BY <1>2, <2>1, <2>2, FilesWritten
<1>4. CASE files' = [files EXCEPT ![DstTmp] = NoFile]
  <2>1. \A n \in Names : files'[n] = IF n = DstTmp THEN NoFile ELSE files[n]
    BY <1>4 DEF TypeInv, TypeOK, SharedType
  <2> QED BY <1>2, <2>1, FilesWritten
<1> QED BY <1>3, <1>4 DEF CrossCopy

\* Removing the old object unlinks it.
LEMMA RemoveObjectFiles ==
    ASSUME FilesInv, NEW r \in Requests, NEW from, NEW to, RemoveObject(r, from, to)
    PROVE  FilesOK'
<1> USE NameTypes, NamesDiffer DEF FilesInv
<1>1. CASE UNCHANGED <<files, fd>>
  BY <1>1, FilesSame
<1>2. CASE files' = [files EXCEPT ![Object] = NoFile] /\ FdsUnlinked({Object})
  <2>1. \A n \in Names : files'[n] = IF n = Object THEN NoFile ELSE files[n]
    BY <1>2 DEF TypeInv, TypeOK, SharedType
  <2>2. \A q \in Requests : fd'[q] = Gone \/ (fd'[q] = fd[q] /\ fd[q] # Object)
    BY <1>2 DEF FdsUnlinked, FdUnlinked
  <2> QED BY <2>1, <2>2, FilesWritten
<1> QED BY <1>1, <1>2 DEF RemoveObject

\* The staged file becomes the object, or is removed.
LEMMA CommitStagedFiles ==
    ASSUME FilesInv, NEW r \in Requests, NEW from, NEW staged \in Names, staged # Object,
           CommitStaged(r, from, staged)
    PROVE  FilesOK'
<1> USE NameTypes, NamesDiffer DEF FilesInv
<1>1. CASE files' = [files EXCEPT ![staged] = NoFile] /\ FdsUnlinkedBut({staged}, r, Gone)
  <2>1. \A n \in Names : files'[n] = IF n = staged THEN NoFile ELSE files[n]
    BY <1>1 DEF TypeInv, TypeOK, SharedType
  <2>2. \A q \in Requests : fd'[q] = Gone \/ (fd'[q] = fd[q] /\ fd[q] # staged)
    BY <1>1 DEF FdsUnlinkedBut, FdUnlinked
  <2> QED BY <2>1, <2>2, FilesWritten
<1>2. CASE /\ Exists(staged)
           /\ files' = [files EXCEPT ![Object] = files[staged], ![staged] = NoFile]
           /\ FdsRenamed(staged, Object)
  <2>1. files[staged] \in Seq(Cell)
    BY <1>2 DEF Exists, FilesOK
  <2>2. \A n \in Names : files'[n] = IF n = staged THEN NoFile ELSE IF n = Object THEN files[staged] ELSE files[n]
    BY <1>2 DEF TypeInv, TypeOK, SharedType
  <2>3. \A q \in Requests : fd'[q] = Gone \/ fd'[q] = Object \/ (fd'[q] = fd[q] /\ fd[q] # staged)
    BY <1>2 DEF FdsRenamed, FdRenamed
  <2> QED BY <2>1, <2>2, <2>3, FilesWritten
<1> QED BY <1>1, <1>2 DEF CommitStaged, GiveBack

\* The staging file is a new one.
LEMMA StageOpenFiles ==
    ASSUME FilesInv, NEW r \in Requests, StageOpen(r)
    PROVE  FilesOK'
<1> USE NameTypes, NamesDiffer DEF FilesInv
<1>1. CASE Answer(r, 500) /\ UNCHANGED files
  BY <1>1, FilesSame DEF Answer, TypeInv, TypeOK, RequestType
<1>2. CASE files' = [files EXCEPT ![Staged] = << >>] /\ FdsUnlinkedBut({Staged}, r, Staged)
  <2>1. \A n \in Names : files'[n] = IF n = Staged THEN << >> ELSE files[n]
    BY <1>2 DEF TypeInv, TypeOK, SharedType
  <2>2. \A q \in Requests : fd'[q] = Gone \/ fd'[q] = Staged \/ fd'[q] = fd[q]
    BY <1>2 DEF FdsUnlinkedBut, FdUnlinked
  <2> QED BY <2>1, <2>2, CellFacts, FilesWritten
<1> QED BY <1>1, <1>2 DEF StageOpen

\* Parts are appended to the staging file.
LEMMA StageCopyFiles ==
    ASSUME FilesInv, NEW r \in Requests, StageCopy(r)
    PROVE  FilesOK'
<1> USE NameTypes, NamesDiffer DEF FilesInv
<1> DEFINE pn == pos[r]
           part == snap[r].parts[pn]
           src == IF part.off = InFile THEN PartFile(pn) ELSE Direct
           at == IF part.off = InFile THEN 0 ELSE part.off
<1>1. CASE Answer(r, 500) /\ UNCHANGED files
  BY <1>1, FilesSame DEF Answer, TypeInv, TypeOK, RequestType
<1>2. CASE /\ Exists(src) /\ UNCHANGED fd
           /\ files' = [n \in Names |-> IF n = fd[r] THEN files[n] \o ReadRange(files[src], at, part.size)
                                        ELSE files[n]]
  <2>1. pn \in PartNumbers /\ pc[r] \in CommitPCs
    <3>1. pc[r] = "stage" /\ pc[r] \in CommitPCs
      BY DEF StageCopy, CommitPCs
    <3>2. pos[r] \in 1..call[r].pn /\ call[r].pn \in PartNumbers
      BY <3>1 DEF CompleteOK
    <3> QED BY <3>1, <3>2, ConstantsAssumption DEF PartNumbers
  <2>2. at \in Nat /\ part.size \in Int /\ src \in Names /\ src # Object
    BY <2>1, CompleteSizes, SMTT(60)
  <2>3. files[src] \in Seq(Cell)
    BY <1>2, <2>2 DEF Exists, FilesOK
  <2>4. ReadRange(files[src], at, part.size) \in Seq(Cell)
    BY <2>2, <2>3, ReadRangeCells
  <2> DEFINE D == ReadRange(files[src], at, part.size)
  <2>5. \A n \in Names : files'[n] = IF n = fd[r] THEN files[n] \o D ELSE files[n]
    BY <1>2
  <2>6. fd[r] # Gone => files[fd[r]] \o D \in Seq(Cell)
    BY <2>4, ConcatProperties DEF FilesOK
  <2> HIDE DEF D
  <2> QED BY <1>2, <2>5, <2>6, FilesWritten, ZenonT(60)
<1> QED BY <1>1, <1>2 DEF StageCopy

\* Emptying the directory unlinks everything in it.
LEMMA RemoveEntriesFiles ==
    ASSUME FilesInv, NEW r \in Requests, RemoveEntries(r)
    PROVE  FilesOK'
<1> USE NameTypes, NamesDiffer DEF FilesInv
<1>1. \A n \in Names : files'[n] = IF n \in InDir THEN NoFile ELSE files[n]
  BY DEF RemoveEntries
<1>2. \A q \in Requests : fd'[q] = Gone \/ (fd'[q] = fd[q] /\ fd[q] \notin InDir)
  BY DEF RemoveEntries, FdsUnlinked, FdUnlinked
<1> QED BY <1>1, <1>2, FilesWritten

\* Nobody has the object open when another writer creates it.
LEMMA OtherFiles ==
    ASSUME FilesInv, OtherPut \/ OtherDelete
    PROVE  FilesOK'
<1> USE NameTypes, NamesDiffer DEF FilesInv
<1>1. CASE OtherPut
  <2>1. \A q \in Requests : fd[q] # Object
    BY <1>1, CellFacts DEF OtherPut, Exists, FilesOK
  <2>2. \A n \in Names : files'[n] = IF n = Object THEN Foreign ELSE files[n]
    BY <1>1 DEF OtherPut, TypeInv, TypeOK, SharedType
  <2>3. UNCHANGED fd
    BY <1>1 DEF OtherPut, reqVars
  <2>4. \A q \in Requests : fd[q] # Gone => fd[q] \in Names
    BY DEF TypeInv, TypeOK, RequestType, Fds
  <2> QED BY <2>1, <2>2, <2>3, <2>4 DEF FilesOK
<1>2. CASE OtherDelete
  <2>1. \A n \in Names : files'[n] = IF n = Object THEN NoFile ELSE files[n]
    BY <1>2 DEF OtherDelete, TypeInv, TypeOK, SharedType
  <2>2. \A q \in Requests : fd'[q] = Gone \/ (fd'[q] = fd[q] /\ fd[q] # Object)
    BY <1>2 DEF OtherDelete, FdsUnlinked, FdUnlinked
  <2> QED BY <2>1, <2>2, FilesWritten
<1> QED BY <1>1, <1>2

\* A step of request r leaves the others where they are.
StepOf(r) ==
    \A q \in Requests \ {r} :
        pc'[q] = pc[q] /\ call'[q] = call[q] /\ pos'[q] = pos[q] /\ off'[q] = off[q]
        /\ lk'[q] = lk[q] /\ snap'[q] = snap[q] /\ status'[q] = status[q]

\* The steps of a request, the arrival included.
Steps(r) ==
    \/ Arrive(r) \/ UploadStep(r) \/ CompleteStep(r) \/ RemoveStep(r)
    \/ BodyError(r) \/ Disconnect(r)

\* Every step of a request is its own.
LEMMA StepsOwn ==
    ASSUME TypeInv, NEW r \in Requests, Steps(r)
    PROVE  StepOf(r)
<1> USE DEF TypeInv, TypeOK, SharedType, RequestType, StepOf, Goto, Answer, Return, planVars, reqVars
<1>0. ASSUME NEW label, NEW code, OpenLock(r, label, code), NEW c, call' = [call EXCEPT ![r] = c]
      PROVE  StepOf(r)
  BY <1>0 DEF OpenLock
<1>1. CASE Arrive(r)
  <2>1. CASE AbortArrive(r)
    BY <2>1 DEF AbortArrive
  <2>2. CASE (\E op, pn, len : UploadArrive(r, op, pn, len)) \/ (\E last, nr : CompleteArrive(r, last, nr))
    BY <1>0, <2>2 DEF UploadArrive, CompleteArrive
  <2> QED BY <1>1, <2>1, <2>2 DEF Arrive, PutArrive, CopyArrive
<1>2. CASE P1Read(r) \/ P3Read(r) \/ CompleteRead(r) \/ P1Plan(r) \/ P3Open(r) \/ P3Write(r)
  BY <1>2 DEF P1Read, P3Read, CompleteRead, LockedRead, P1Plan, P3Open, P3Write, OpenLock
<1>3. CASE OpenDirect(r) \/ OpenPart(r) \/ OpenCopy(r) \/ BodyChunk(r) \/ BodyDone(r) \/ BodyError(r)
  BY <1>3, SMTT(60) DEF OpenDirect, OpenPart, OpenCopy, OpenExisting, Opened, BodyChunk, BodyDone, BodyError
<1>4. CASE CompleteStart(r)
  BY <1>4, SMTT(60) DEF CompleteStart
<1>5. CASE FastCopy(r)
  BY <1>5, SMTT(60) DEF FastCopy
<1>7. CASE FastCommit(r)
  BY <1>7 DEF FastCommit, GiveBack
<1>8. CASE CrossCopy(r)
  BY <1>8 DEF CrossCopy
<1>9. CASE CrossRemove(r) \/ StageRemove(r)
  BY <1>9 DEF CrossRemove, StageRemove, RemoveObject
<1>10. CASE CrossRename(r) \/ StageRename(r)
  BY <1>10 DEF CrossRename, StageRename, CommitStaged, GiveBack
<1>11. CASE StageOpen(r)
  BY <1>11, SMTT(60) DEF StageOpen
<1>12. CASE StageCopy(r)
  <2>1. UNCHANGED call /\ \/ Answer(r, 500)
                          \/ /\ \E n : pos' = [pos EXCEPT ![r] = n]
                             /\ (\E l : Goto(r, l)) /\ UNCHANGED <<status, lk, off, snap>>
    BY <1>12, Zenon DEF StageCopy
  <2> QED BY <2>1
<1>13. CASE StageLost(r) \/ Finish(r)
  BY <1>13 DEF StageLost, Finish
<1>6. CASE RemoveStep(r) \/ Disconnect(r)
  BY <1>6 DEF RemoveStep, RemoveEntries, RemoveDir, Disconnect
<1> QED BY <1>1, <1>2, <1>3, <1>4, <1>5, <1>6, <1>7, <1>8, <1>9, <1>10, <1>11, <1>12, <1>13
        DEF Steps, UploadStep, CompleteStep

\* Where a step takes its request.
LEMMA CompleteOwn ==
    ASSUME FilesInv, NEW r \in Requests, Steps(r)
    PROVE  /\ pc'[r] \in CommitPCs \cup {"cLock", "cStart"} => call'[r].op = "complete"
           /\ pc'[r] \in CommitPCs => call'[r].pn \in PartNumbers
           /\ pc'[r] = "stage" => pos'[r] \in 1..call'[r].pn
<1> USE DEF FilesInv, TypeInv, TypeOK, SharedType, RequestType, Goto, Answer, Return, planVars, reqVars, CommitPCs
<1> DEFINE Goal == /\ pc'[r] \in CommitPCs \cup {"cLock", "cStart"} => call'[r].op = "complete"
                   /\ pc'[r] \in CommitPCs => call'[r].pn \in PartNumbers
                   /\ pc'[r] = "stage" => pos'[r] \in 1..call'[r].pn
<1>1. CASE Arrive(r)
  BY <1>1 DEF Arrive, PutArrive, CopyArrive, UploadArrive, CompleteArrive, AbortArrive, OpenLock, Call
<1>2. CASE P1Read(r) \/ P3Read(r) \/ CompleteRead(r) \/ P1Plan(r) \/ P3Open(r) \/ P3Write(r)
  BY <1>2 DEF P1Read, P3Read, CompleteRead, LockedRead, P1Plan, P3Open, P3Write, OpenLock, CompleteOK
<1>3. CASE OpenDirect(r) \/ OpenPart(r) \/ OpenCopy(r) \/ BodyChunk(r) \/ BodyDone(r) \/ BodyError(r)
  BY <1>3, SMTT(60) DEF OpenDirect, OpenPart, OpenCopy, OpenExisting, Opened, BodyChunk, BodyDone, BodyError
<1>4. CASE CompleteStart(r)
  <2>1. call[r].op = "complete" /\ UNCHANGED call /\ call[r].pn \in 0..MaxPart
    BY <1>4 DEF CompleteStart, CompleteOK
  <2>2. pc'[r] = "done" \/ (pc'[r] \in {"fast", "fastCommit", "stageOpen"} /\ call[r].pn # 0)
    BY <1>4 DEF CompleteStart, FastLabel
  <2>3. call[r].pn # 0 => call[r].pn \in PartNumbers
    BY <2>1, ConstantsAssumption DEF PartNumbers
  <2> QED BY <2>1, <2>2, <2>3
<1>5. CASE FastCopy(r) \/ FastCommit(r) \/ CrossCopy(r) \/ CrossRemove(r) \/ CrossRename(r)
  BY <1>5 DEF FastCopy, FastLabel, FastCommit, GiveBack, CrossCopy, CrossRemove, CrossRename, RemoveObject,
     CommitStaged, CompleteOK
<1>6. CASE StageOpen(r)
  <2>1. call[r].op = "complete" /\ call[r].pn \in PartNumbers /\ UNCHANGED call
    BY <1>6 DEF StageOpen, CompleteOK
  <2>2. 1 \in 1..call[r].pn
    BY <2>1, ConstantsAssumption DEF PartNumbers
  <2> QED BY <1>6, <2>1, <2>2 DEF StageOpen
<1>7. CASE StageCopy(r)
  <2>1. /\ call[r].op = "complete" /\ call[r].pn \in PartNumbers /\ UNCHANGED call
        /\ pos[r] \in 1..call[r].pn
    BY <1>7 DEF StageCopy, CompleteOK
  <2>2. pos[r] # call[r].pn => pos[r] + 1 \in 1..call[r].pn
    BY <2>1, ConstantsAssumption DEF PartNumbers
  <2> QED BY <1>7, <2>1, <2>2, ZenonT(60) DEF StageCopy
<1>8. CASE StageRemove(r) \/ StageRename(r) \/ StageLost(r) \/ Finish(r)
  BY <1>8 DEF StageRemove, StageRename, StageLost, Finish, RemoveObject, CommitStaged, GiveBack, CompleteOK
<1>9. CASE RemoveStep(r) \/ Disconnect(r)
  BY <1>9 DEF RemoveStep, RemoveEntries, RemoveDir, Disconnect, CompleteOK
<1> QED BY <1>1, <1>2, <1>3, <1>4, <1>5, <1>6, <1>7, <1>8, <1>9 DEF Steps, UploadStep, CompleteStep

\* Files keep consisting of what they may.
LEMMA FilesNext == FilesInv /\ [Next]_vars => FilesInv'
<1> SUFFICES ASSUME FilesInv, [Next]_vars PROVE FilesInv'
  OBVIOUS
<1>1. TypeInv'
  BY NextType DEF FilesInv
<1>2. ASSUME NEW r \in Requests, Steps(r)
      PROVE  CompleteOK' /\ FilesOK'
  <2>1. StepOf(r)
    BY <1>2, StepsOwn DEF FilesInv
  <2>2. CompleteOK'
    BY <1>2, <2>1, CompleteOwn DEF CompleteOK, FilesInv, StepOf
  <2>3. CASE \/ Arrive(r) \/ P1Read(r) \/ P1Plan(r) \/ P3Open(r) \/ P3Read(r) \/ P3Write(r)
             \/ CompleteRead(r) \/ StageLost(r) \/ Finish(r) \/ RemoveDir(r) \/ Disconnect(r)
    BY <2>2, <2>3, FilesUntouched DEF Arrive, PutArrive, CopyArrive
  <2>4. CASE OpenDirect(r) \/ OpenPart(r) \/ OpenCopy(r) \/ BodyChunk(r) \/ BodyDone(r) \/ BodyError(r)
    BY <2>2, <2>4, OpenFiles, BodyChunkFiles, BodyDoneFiles, BodyErrorFiles
  <2>5. CASE CompleteStart(r) \/ FastCopy(r) \/ FastCommit(r) \/ CrossCopy(r) \/ StageOpen(r) \/ StageCopy(r) \/ RemoveEntries(r)
    BY <2>2, <2>5, CompleteStartFiles, FastCopyFiles, FastCommitFiles, CrossCopyFiles, StageOpenFiles, StageCopyFiles,
       RemoveEntriesFiles
  <2>6. CASE CrossRemove(r) \/ StageRemove(r)
    BY <2>2, <2>6, RemoveObjectFiles DEF CrossRemove, StageRemove
  <2>7. CASE CrossRename(r) \/ StageRename(r)
    BY <2>2, <2>7, CommitStagedFiles, NameTypes, NamesDiffer DEF CrossRename, StageRename
  <2> QED BY <1>2, <2>2, <2>3, <2>4, <2>5, <2>6, <2>7 DEF Steps, UploadStep, CompleteStep, RemoveStep
<1>3. CASE Crash
  <2>1. UNCHANGED <<files, call>> /\ \A q \in Requests : fd'[q] = Gone /\ pc'[q] \in {"unsent", "done"}
    BY <1>3 DEF Crash
  <2> QED BY <1>1, <2>1, FilesSame DEF FilesInv, CompleteOK, CommitPCs
<1>4. CASE OtherPut \/ OtherDelete
  <2>1. UNCHANGED <<pc, call, pos>>
    BY <1>4 DEF OtherPut, OtherDelete, reqVars, planVars
  <2> QED BY <1>1, <1>4, <2>1, OtherFiles DEF FilesInv, CompleteOK
<1>5. CASE UNCHANGED vars
  <2>1. UNCHANGED <<pc, call, pos, files, fd>>
    BY <1>5 DEF vars, reqVars, planVars
  <2> QED BY <1>1, <2>1, FilesSame DEF FilesInv, CompleteOK
<1> QED BY <1>1, <1>2, <1>3, <1>4, <1>5 DEF Next, Steps, FilesInv

\* In every reachable state, a file that is open for writing has a name and
\* consists of cells of parts (see FilesOK).
THEOREM FilesInvariant == Spec => []FilesInv
<1>1. Init => FilesInv
  <2> SUFFICES ASSUME Init PROVE FilesInv
    OBVIOUS
  <2>1. TypeInv
    BY InitType
  <2>2. \A r \in Requests : pc[r] = "unsent" /\ fd[r] = Gone
    BY DEF Init
  <2>3. \A n \in Names : files[n] = NoFile
    BY DEF Init
  <2> QED BY <2>1, <2>2, <2>3 DEF FilesInv, CompleteOK, FilesOK, CommitPCs
<1> QED BY <1>1, FilesNext, PTL DEF Spec

\* A Complete with If-None-Match: * neither overwrites nor removes an object
\* that another writer has created, however late that happened: its last look
\* is the rename itself, and none of its open files is that object.
THEOREM NoReplaceRespectedProperty == Spec => NoReplaceRespected
<1>1. ASSUME FilesInv, [Next]_vars, NEW r \in Requests, call[r].op = "complete", call[r].noreplace,
             pc[r] # pc'[r], files[Object] = Foreign
      PROVE  files'[Object] = Foreign
  <2> USE NameTypes, NamesDiffer DEF FilesInv, TypeInv, TypeOK, SharedType
  <2>1. fd[r] # Object /\ Exists(Object)
    BY <1>1, CellFacts DEF FilesOK, Exists
  <2>2. Refused(r)
    BY <1>1, <2>1 DEF Refused
  <2>3. \A q \in Requests \ {r} : ~Steps(q)
    BY <1>1, StepsOwn DEF StepOf
  <2>4. ~OtherPut /\ ~OtherDelete /\ ~(UNCHANGED vars)
    BY <1>1 DEF OtherPut, OtherDelete, vars, reqVars, planVars
  <2>5. CASE Crash
    BY <1>1, <2>5 DEF Crash
  <2>6. pc[r] \notin UploadPCs
    BY <1>1 DEF HandlerOK, Uploads
  <2>7. CASE \/ Arrive(r) \/ CompleteRead(r) \/ StageLost(r) \/ Finish(r) \/ RemoveDir(r) \/ Disconnect(r)
    BY <1>1, <2>7 DEF Arrive, PutArrive, CopyArrive, UploadArrive, CompleteArrive, AbortArrive, CompleteRead, LockedRead,
       StageLost, Finish, RemoveDir, Disconnect
  <2>8. CASE CompleteStart(r) \/ CrossCopy(r) \/ StageOpen(r)
    BY <1>1, <2>8 DEF CompleteStart, CrossCopy, StageOpen
  <2>9. CASE FastCopy(r)
    <3>1. ASSUME NEW pn \in FileParts(snap[r].parts, call[r].pn) PROVE PartFile(pn) # Object
      BY DEF PartFile, Object
    <3> QED BY <1>1, <2>1, <2>9, <3>1 DEF FastCopy
  <2>10. CASE FastCommit(r)
    BY <1>1, <2>1, <2>2, <2>10 DEF FastCommit
  <2>11. CASE CrossRemove(r) \/ StageRemove(r)
    BY <1>1, <2>11 DEF CrossRemove, StageRemove, RemoveObject
  <2>12. CASE CrossRename(r) \/ StageRename(r)
    BY <1>1, <2>2, <2>12, SMTT(60) DEF CrossRename, StageRename, CommitStaged
  <2>13. CASE StageCopy(r)
    BY <1>1, <2>1, <2>13 DEF StageCopy
  <2>14. CASE RemoveEntries(r)
    BY <1>1, <2>14 DEF RemoveEntries
  <2>15. ~UploadStep(r) /\ ~BodyError(r)
    BY <2>6 DEF UploadStep, UploadPCs, P1Read, P3Read, LockedRead, P1Plan, OpenDirect, OpenPart, OpenCopy,
       BodyChunk, BodyDone, BodyError, P3Open, P3Write
  <2> QED BY <1>1, <2>3, <2>4, <2>5, <2>7, <2>8, <2>9, <2>10, <2>11, <2>12, <2>13, <2>14, <2>15
          DEF Next, Steps, CompleteStep, RemoveStep
<1>2. FilesInv /\ [Next]_vars =>
        [\A r \in Requests :
           /\ call[r].op = "complete" /\ call[r].noreplace
           /\ pc[r] # pc'[r] /\ files[Object] = Foreign
           => files'[Object] = Foreign]_vars
  BY <1>1
<1> QED BY <1>2, FilesInvariant, PTL DEF Spec, NoReplaceRespected

-----------------------------------------------------------------------------
\* Who may change meta.json, as long as nobody aborts the upload.

\* Where a request has read meta.json and not yet written it, and where a
\* Complete assembles the object.
ReadPCs == {"p1Plan", "p3Write", "cStart"}
WorkPCs == CommitPCs \ {"unlinkDone", "rmdirDone"}

\* One request at a time owns the lock, since the lock file stays the same one
\* until the upload is completed, and meta.json is what its owner has read.
LockInv ==
    /\ \A r \in Requests : pc[r] \notin {"unlink", "rmdir"}
    /\ mstate # "none" => /\ dir /\ lockFile # 0
                          /\ \A r \in Requests : pc[r] \in FlockPCs \cup HoldPCs => lk[r] = lockFile
    /\ \A r, q \in Requests : Holds(r) /\ Holds(q) => r = q
    /\ \A r \in Requests : pc[r] \in ReadPCs => mstate = "active" /\ snap[r] = Snap(assumed, parts)
    /\ \A r \in Requests : pc[r] \in WorkPCs => /\ mstate = "completing" /\ snap[r].assumed = assumed
                                                /\ Listed(snap[r].parts) = Listed(parts)
    /\ \A r \in Requests : pc[r] = "unlinkDone" => mstate = "completed"
    /\ \A r \in Requests : pc[r] = "rmdirDone" => mstate = "none"

\* What the labels belong to.
LEMMA LabelSets ==
    /\ HoldPCs = ReadPCs \cup CommitPCs
    /\ CommitPCs = WorkPCs \cup {"unlinkDone", "rmdirDone"}
    /\ ReadPCs \cap CommitPCs = {} /\ WorkPCs \cap {"unlinkDone", "rmdirDone"} = {}
    /\ FlockPCs \cap HoldPCs = {} /\ "unlink" \notin FlockPCs \cup HoldPCs /\ "rmdir" \notin FlockPCs \cup HoldPCs
    /\ {"unsent", "done", "open", "body", "renamed"} \cap (FlockPCs \cup HoldPCs \cup {"unlink", "rmdir"}) = {}
    /\ UploadPCs \cap CommitPCs = {} /\ "cLock" \in FlockPCs /\ "p1Lock" \in FlockPCs /\ "p3Lock" \in FlockPCs
BY DEF HoldPCs, ReadPCs, CommitPCs, WorkPCs, FlockPCs, UploadPCs

\* A request that is outside the lock, or leaves it without a word.
LEMMA LockOutside ==
    ASSUME LockInv, NEW r \in Requests, StepOf(r), UNCHANGED <<meta, lockFile>>, mstate # "none" => dir',
           pc'[r] \notin FlockPCs \cup HoldPCs \cup {"unlink", "rmdir"}
    PROVE  LockInv'
BY LabelSets DEF LockInv, StepOf, meta, Holds

\* A request that opens the lock file finds the one the others use.
LEMMA LockOpen ==
    ASSUME LockInv, TypeInv, NEW r \in Requests, StepOf(r), UNCHANGED <<meta, dir>>, NEW label \in FlockPCs, NEW code,
           OpenLock(r, label, code)
    PROVE  LockInv'
<1>1. CASE ~dir /\ Answer(r, code) /\ UNCHANGED <<lockFile, lockFiles>>
  BY <1>1, LockOutside, LabelSets DEF TypeInv, TypeOK, RequestType, Answer, Return, Goto, LockInv
<1>2. CASE /\ lockFile' = IF lockFile = 0 THEN lockFiles + 1 ELSE lockFile
           /\ lk' = [lk EXCEPT ![r] = lockFile']
           /\ Goto(r, label)
  <2>1. pc'[r] = label /\ lk'[r] = lockFile'
    BY <1>2 DEF TypeInv, TypeOK, RequestType, Goto
  <2>2. mstate # "none" => lockFile' = lockFile
    BY <1>2 DEF LockInv
  <2> QED BY <2>1, <2>2, LabelSets DEF LockInv, StepOf, meta, Holds
<1> QED BY <1>1, <1>2 DEF OpenLock

\* A request that gets the lock of an active upload is its only owner.
LEMMA LockTaken ==
    ASSUME LockInv, TypeInv, NEW r \in Requests, StepOf(r), NEW from \in FlockPCs, NEW to \in ReadPCs,
           LockedRead(r, from, to)
    PROVE  LockInv'
<1>0. UNCHANGED <<meta, dir, lockFile>> /\ pc[r] \in FlockPCs /\ Flock(r)
  BY DEF LockedRead, dirVars
<1>1. CASE Answer(r, 404) \/ Answer(r, 409)
  BY <1>0, <1>1, LockOutside, LabelSets DEF TypeInv, TypeOK, RequestType, Answer, Return, Goto, LockInv
<1>2. CASE /\ mstate = "active" /\ Goto(r, to) /\ snap' = [snap EXCEPT ![r] = Snap(assumed, parts)]
           /\ UNCHANGED <<status, fd, lk, off, pos>>
  <2>1. pc'[r] = to /\ snap'[r] = Snap(assumed, parts) /\ lk'[r] = lk[r]
    BY <1>2 DEF TypeInv, TypeOK, RequestType, Goto
  <2>2. \A q \in Requests \ {r} : ~Holds(q)
    BY <1>0, <1>2 DEF Flock, LockInv, Holds
  <2> QED BY <1>0, <1>2, <2>1, <2>2, LabelSets DEF LockInv, StepOf, meta, Holds
<1> QED BY <1>1, <1>2 DEF LockedRead

\* The owner of the lock changes meta.json; everybody else is outside.
LEMMA LockWrite ==
    ASSUME LockInv, NEW r \in Requests, StepOf(r), Holds(r), UNCHANGED <<dir, lockFile>>, lk'[r] = lk[r] \/ ~Holds(r)',
           mstate # "none" /\ mstate' # "none",
           pc'[r] \notin FlockPCs \cup ReadPCs \cup {"unlink", "rmdir", "rmdirDone"},
           pc'[r] = "unlinkDone" => mstate' = "completed",
           pc'[r] \in WorkPCs => /\ mstate' = "completing" /\ snap'[r].assumed = assumed'
                                 /\ Listed(snap'[r].parts) = Listed(parts')
    PROVE  LockInv'
<1>1. \A q \in Requests \ {r} : ~Holds(q) /\ ~Holds(q)'
  BY DEF LockInv, StepOf, Holds
<1> QED BY <1>1, LabelSets DEF LockInv, StepOf, Holds

\* The completed upload's directory is emptied.
LEMMA LockRemoved ==
    ASSUME LockInv, NEW r \in Requests, StepOf(r), pc[r] = "unlinkDone", mstate' = "none", pc'[r] = "rmdirDone"
    PROVE  LockInv'
<1>1. \A q \in Requests \ {r} : ~Holds(q) /\ ~Holds(q)'
  BY LabelSets DEF LockInv, StepOf, Holds
<1> QED BY <1>1, LabelSets DEF LockInv, StepOf, Holds

\* What the owner of the lock does before it assembles the object.
LEMMA LockPlan ==
    ASSUME LockInv, TypeInv, NEW r \in Requests, StepOf(r), P1Plan(r) \/ P3Write(r)
    PROVE  LockInv'
<1> USE DEF TypeInv, TypeOK, RequestType, Goto
<1>1. pc[r] \in ReadPCs /\ mstate = "active" /\ Holds(r)
  BY LabelSets DEF P1Plan, P3Write, LockInv, ReadPCs, Holds
<1>2. dir /\ UNCHANGED <<dir, lockFile>>
  BY <1>1 DEF P1Plan, P3Write, LockInv, dirVars
<1>3. pc'[r] \in {"open", "done"}
  BY DEF P1Plan, P3Write, Answer, Return
<1>4. mstate' = "active"
  BY <1>1, <1>2 DEF P1Plan, P3Write, WriteMeta, meta
<1>5. ~Holds(r)'
  BY <1>3 DEF Holds, HoldPCs
<1> QED BY <1>1, <1>2, <1>3, <1>4, <1>5, LockWrite, LabelSets

\* A Complete begins to assemble, with the entries it has read.
LEMMA LockStart ==
    ASSUME LockInv, TypeInv, NEW r \in Requests, StepOf(r), CompleteStart(r)
    PROVE  LockInv'
<1> USE DEF TypeInv, TypeOK, RequestType, SharedType, Goto
<1>1. pc[r] = "cStart" /\ mstate = "active" /\ Holds(r) /\ snap[r] = Snap(assumed, parts)
  BY LabelSets DEF CompleteStart, LockInv, ReadPCs, Holds
<1>2. dir /\ UNCHANGED <<dir, lockFile>>
  BY <1>1 DEF CompleteStart, LockInv, dirVars
<1>5. snap[r].assumed = assumed /\ snap[r].parts = parts
  BY <1>1 DEF Snap
<1>3. mstate' = "completing" /\ assumed' = assumed /\ parts' = parts
  BY <1>1, <1>2, <1>5 DEF CompleteStart, WriteMeta
<1>4. \/ pc'[r] = "done"
      \/ (pc'[r] \in {"fast", "fastCommit", "stageOpen"} /\ snap'[r] = snap[r] /\ lk'[r] = lk[r])
  BY DEF CompleteStart, FastLabel, Answer, Return, planVars
<1>6. pc'[r] = "done" => ~Holds(r)'
  BY DEF Holds, HoldPCs
<1>7. {"fast", "fastCommit", "stageOpen", "done"} \cap (FlockPCs \cup ReadPCs \cup {"unlink", "rmdir", "rmdirDone", "unlinkDone"}) = {}
  BY DEF FlockPCs, ReadPCs
<1>8. "done" \notin WorkPCs
  BY DEF WorkPCs, CommitPCs
<1> QED BY <1>1, <1>2, <1>3, <1>4, <1>5, <1>6, <1>7, <1>8, LockWrite

\* A Complete at work changes no entry but the place of a part.
LEMMA LockWork ==
    ASSUME LockInv, TypeInv, NEW r \in Requests, StepOf(r), pc[r] \in WorkPCs, UNCHANGED <<dir, lockFile>>,
           \/ pc'[r] = "done" /\ mstate' # "none"
           \/ /\ pc'[r] \in WorkPCs /\ UNCHANGED meta /\ lk'[r] = lk[r] /\ snap'[r].assumed = snap[r].assumed
              /\ Listed(snap'[r].parts) = Listed(snap[r].parts)
           \/ pc'[r] = "unlinkDone" /\ mstate' = "completed" /\ lk'[r] = lk[r]
    PROVE  LockInv'
<1>1. mstate = "completing" /\ snap[r].assumed = assumed /\ Listed(snap[r].parts) = Listed(parts) /\ Holds(r)
  BY LabelSets DEF LockInv, Holds
<1>2. pc'[r] = "done" => ~Holds(r)' /\ pc'[r] \notin WorkPCs
  BY LabelSets DEF Holds
<1>3. pc'[r] = "unlinkDone" => pc'[r] \notin WorkPCs
  BY LabelSets
<1>4. pc'[r] \notin FlockPCs \cup ReadPCs \cup {"unlink", "rmdir", "rmdirDone"}
  BY LabelSets
<1>5. pc'[r] \in WorkPCs => /\ mstate' = "completing" /\ snap'[r].assumed = assumed'
                            /\ Listed(snap'[r].parts) = Listed(parts')
  BY <1>1, <1>2, <1>3 DEF meta
<1>6. pc'[r] = "unlinkDone" => mstate' = "completed"
  BY LabelSets
<1>7. mstate # "none" /\ mstate' # "none"
  BY <1>1 DEF meta
<1> QED BY <1>1, <1>2, <1>4, <1>5, <1>6, <1>7, LockWrite

\* Copying a part file into direct.bin keeps the entry listed.
LEMMA ListedKept ==
    ASSUME NEW ps \in PartMap, NEW pn \in PartNumbers, NEW at
    PROVE  Listed([ps EXCEPT ![pn] = Part(ps[pn].size, at)]) = Listed(ps)
BY DEF Listed, PartMap, Part

\* The steps of a Complete that has begun.
LEMMA LockComplete ==
    ASSUME LockInv, FilesInv, NEW r \in Requests, StepOf(r), CompleteStep(r), ~CompleteRead(r), ~CompleteStart(r)
    PROVE  LockInv'
<1> USE DEF FilesInv, TypeInv, TypeOK, RequestType, SharedType, Goto
<1>0. UNCHANGED <<dir, lockFile>>
  BY ZenonT(60) DEF CompleteStep, FastCopy, FastCommit, CrossCopy, CrossRemove, CrossRename, StageOpen, StageCopy, StageRemove,
     StageRename, StageLost, Finish, RemoveObject, CommitStaged, dirVars
<1>1. pc[r] \in WorkPCs
  BY DEF CompleteStep, FastCopy, FastCommit, CrossCopy, CrossRemove, CrossRename, StageOpen, StageCopy, StageRemove,
     StageRename, StageLost, Finish, RemoveObject, CommitStaged, WorkPCs, CommitPCs
<1>2. mstate = "completing" /\ dir
  BY <1>1 DEF LockInv
<1>3. {"fast", "fastCommit", "xCopy", "xRemove", "xRename", "stageOpen", "stage", "stageRemove", "stageRename", "finish"}
        \subseteq WorkPCs
  BY DEF WorkPCs, CommitPCs
<1>4. CASE FastCopy(r)
  <2>1. UNCHANGED <<meta, lk>> /\ pc'[r] \in {"fast", "fastCommit", "stageOpen"}
    BY <1>4 DEF FastCopy, FastLabel
  <2>2. /\ snap'[r].assumed = snap[r].assumed
        /\ Listed(snap'[r].parts) = Listed(snap[r].parts)
    <3>1. CASE snap' = snap
      BY <3>1
    <3>2. CASE snap' # snap
      <4>0. PICK pn \in FileParts(snap[r].parts, call[r].pn) : \E at :
              snap' = [snap EXCEPT ![r] = Snap(snap[r].assumed, [snap[r].parts EXCEPT ![pn] = Part(snap[r].parts[pn].size, at)])]
        BY <1>4, <3>2 DEF FastCopy
      <4>1. PICK at :
              snap' = [snap EXCEPT ![r] = Snap(snap[r].assumed, [snap[r].parts EXCEPT ![pn] = Part(snap[r].parts[pn].size, at)])]
        BY <4>0
      <4>2. pc[r] = "fast" /\ call[r].pn \in PartNumbers
        BY <1>4 DEF FastCopy, CompleteOK, CommitPCs
      <4>3. pn \in PartNumbers
        BY <4>1, <4>2, ConstantsAssumption DEF FileParts, PartNumbers
      <4>4. snap[r].assumed \in Lens \cup {NoSize} /\ snap[r].parts \in PartMap
        BY SnapFields
      <4>5. snap'[r].assumed = snap[r].assumed
        BY <4>1 DEF Snap
      <4>6. snap'[r].parts = [snap[r].parts EXCEPT ![pn] = Part(snap[r].parts[pn].size, at)]
        BY <4>1 DEF Snap
      <4>7. Listed(snap'[r].parts) = Listed(snap[r].parts)
        <5> HIDE DEF FilesInv, TypeInv, TypeOK, RequestType, SharedType, Goto
        <5>1. Listed([snap[r].parts EXCEPT ![pn] = Part(snap[r].parts[pn].size, at)]) = Listed(snap[r].parts)
          BY ONLY <4>3, <4>4, ListedKept
        <5> QED BY ONLY <4>6, <5>1
      <4> QED BY <4>5, <4>7
    <3> QED BY <3>1, <3>2
  <2> QED BY <1>0, <1>1, <1>3, <2>1, <2>2, LockWork
<1>5. CASE FastCommit(r)
  <2>1. \/ pc'[r] = "done" /\ mstate' = "active"
        \/ (pc'[r] \in {"stageOpen", "xCopy", "finish"} /\ UNCHANGED <<meta, planVars>>)
    BY <1>2, <1>5 DEF FastCommit, GiveBack, Return, WriteMeta
  <2> QED BY <1>0, <1>1, <1>3, <2>1, LockWork DEF planVars
<1>6. CASE CrossCopy(r) \/ CrossRemove(r) \/ StageRemove(r)
  <2>1. UNCHANGED <<meta, planVars>> /\ pc'[r] \in {"xRemove", "stageOpen", "xRename", "stageRename"}
    BY <1>6 DEF CrossCopy, CrossRemove, StageRemove, RemoveObject
  <2> QED BY <1>0, <1>1, <1>3, <2>1, LockWork DEF planVars
<1>7. CASE CrossRename(r) \/ StageRename(r)
  <2>1. \/ pc'[r] = "done" /\ mstate' = "active"
        \/ (pc'[r] = "finish" /\ UNCHANGED <<meta, planVars>>)
    BY <1>2, <1>7 DEF CrossRename, StageRename, CommitStaged, GiveBack, Return, WriteMeta
  <2> QED BY <1>0, <1>1, <1>3, <2>1, LockWork DEF planVars
<1>8. CASE StageOpen(r) \/ StageCopy(r) \/ StageLost(r)
  <2>1. UNCHANGED meta /\ \/ pc'[r] = "done"
                          \/ (pc'[r] \in {"stage", "stageRemove"} /\ UNCHANGED <<lk, snap>>)
    BY <1>8, ZenonT(60) DEF StageOpen, StageCopy, StageLost, Answer, Return
  <2>2. mstate' # "none"
    BY <1>2, <2>1 DEF meta
  <2> QED BY <1>0, <1>1, <1>3, <2>1, <2>2, LockWork
<1>9. CASE Finish(r)
  <2>1. pc'[r] = "unlinkDone" /\ mstate' = "completed" /\ UNCHANGED lk
    BY <1>2, <1>9 DEF Finish, WriteMeta, planVars
  <2> QED BY <1>0, <1>1, <2>1, LockWork
<1> QED BY <1>4, <1>5, <1>6, <1>7, <1>8, <1>9 DEF CompleteStep

\* As long as nobody aborts, every step keeps the lock's discipline.
LEMMA LockNext ==
    ASSUME "abort" \notin Kinds
    PROVE  FilesInv /\ LockInv /\ [Next]_vars => LockInv'
<1> SUFFICES ASSUME FilesInv, LockInv, [Next]_vars PROVE LockInv'
  OBVIOUS
<1>1. ASSUME NEW r \in Requests, Steps(r)
      PROVE  LockInv'
  <2> USE DEF FilesInv, TypeInv, TypeOK, RequestType, SharedType, Goto
  <2>1. StepOf(r)
    BY <1>1, StepsOwn DEF FilesInv
  <2>2. CASE Arrive(r)
    <3>1. UNCHANGED <<meta, dir>> /\ (OpenLock(r, "p1Lock", 404) \/ OpenLock(r, "cLock", 404))
      BY <2>2 DEF Arrive, PutArrive, CopyArrive, UploadArrive, CompleteArrive
    <3> QED BY <2>1, <3>1, LockOpen, LabelSets
  <2>3. CASE P1Read(r) \/ P3Read(r) \/ CompleteRead(r)
    <3>1. PICK from \in FlockPCs, to \in ReadPCs : LockedRead(r, from, to)
      BY <2>3 DEF P1Read, P3Read, CompleteRead, FlockPCs, ReadPCs
    <3> QED BY <2>1, <3>1, LockTaken
  <2>4. CASE P1Plan(r) \/ P3Write(r)
    BY <2>1, <2>4, LockPlan
  <2>5. CASE P3Open(r)
    BY <2>1, <2>5, LockOpen, LabelSets DEF P3Open
  <2>6. CASE OpenDirect(r) \/ OpenPart(r) \/ OpenCopy(r) \/ BodyChunk(r) \/ BodyDone(r) \/ BodyError(r)
    <3>1. UNCHANGED <<meta, lockFile>> /\ (mstate # "none" => dir')
      BY <2>6 DEF OpenDirect, OpenPart, OpenCopy, OpenExisting, BodyChunk, BodyDone, BodyError, dirVars, LockInv
    <3>2. pc'[r] \in {"body", "renamed", "done"}
      BY <2>6 DEF OpenDirect, OpenPart, OpenCopy, OpenExisting, Opened, BodyChunk, BodyDone, BodyError, Answer, Return
    <3> QED BY <2>1, <3>1, <3>2, LockOutside, LabelSets
  <2>7. CASE CompleteStart(r)
    BY <2>1, <2>7, LockStart
  <2>8. CASE CompleteStep(r) /\ ~CompleteRead(r) /\ ~CompleteStart(r)
    BY <2>1, <2>8, LockComplete
  <2>9. CASE RemoveEntries(r)
    <3>1. pc[r] = "unlinkDone" /\ mstate' = "none" /\ pc'[r] = "rmdirDone"
      BY <2>9 DEF RemoveEntries, LockInv
    <3> QED BY <2>1, <3>1, LockRemoved
  <2>10. CASE RemoveDir(r) \/ Disconnect(r)
    <3>1. UNCHANGED <<meta, lockFile>> /\ (mstate # "none" => dir') /\ pc'[r] = "done"
      BY <2>10 DEF RemoveDir, Disconnect, dirVars, LockInv, Answer, Return
    <3> QED BY <2>1, <3>1, LockOutside, LabelSets
  <2> QED BY <1>1, <2>2, <2>3, <2>4, <2>5, <2>6, <2>7, <2>8, <2>9, <2>10 DEF Steps, UploadStep, RemoveStep
<1>2. CASE Crash
  <2>1. UNCHANGED <<dir, lockFile, meta>> /\ \A q \in Requests : pc'[q] \in {"unsent", "done"}
    BY <1>2 DEF Crash, dirVars
  <2> QED BY <2>1, LabelSets DEF LockInv, Holds, meta
<1>3. CASE OtherPut \/ OtherDelete \/ UNCHANGED vars
  <2>1. UNCHANGED <<pc, lk, snap, dir, lockFile, mstate, assumed, parts>>
    BY <1>3 DEF OtherPut, OtherDelete, vars, reqVars, planVars, dirVars, meta
  <2> QED BY <2>1 DEF LockInv, Holds
<1> QED BY <1>1, <1>2, <1>3 DEF Next, Steps

\* As long as nobody aborts, one request at a time owns the upload's lock and
\* meta.json is what its owner has read (see LockInv).
THEOREM LockInvariant ==
    ASSUME "abort" \notin Kinds
    PROVE  Spec => [](FilesInv /\ LockInv)
<1>1. Init => LockInv
  <2> SUFFICES ASSUME Init PROVE LockInv
    OBVIOUS
  <2>1. dir /\ lockFile # 0 /\ \A r \in Requests : pc[r] = "unsent"
    BY DEF Init
  <2> QED BY <2>1, LabelSets DEF LockInv, Holds
<1> QED BY <1>1, LockNext, FilesInvariant, PTL DEF Spec

-----------------------------------------------------------------------------
\* No update of meta.json loses a part that has been answered for.

\* A request has no answer before it is done, and the part of an upload that
\* was answered with 200 has its entry until the directory is emptied.
AckInv ==
    /\ \A r \in Requests : pc[r] # "done" => status[r] = 0
    /\ mstate # "none" =>
         \A r \in Requests :
             call[r].op \in Uploads /\ status[r] = 200 => call[r].pn \in Listed(parts)

\* A step that drops no entry, and answers for none that is missing.
LEMMA AckStep ==
    ASSUME AckInv, NEW r \in Requests, StepOf(r),
           pc'[r] # "done" => status'[r] = 0,
           mstate' # "none" => mstate # "none" /\ Listed(parts) \subseteq Listed(parts'),
           mstate' # "none" /\ call'[r].op \in Uploads /\ status'[r] = 200 => call'[r].pn \in Listed(parts')
    PROVE  AckInv'
BY DEF AckInv, StepOf

\* The merge of phase 3 enters the part.
LEMMA ListedMerged ==
    ASSUME NEW ps \in PartMap, NEW pn \in PartNumbers, NEW size \in Nat, NEW place
    PROVE  /\ Listed(ps) \subseteq Listed(WithPart(ps, pn, size, place))
           /\ pn \in Listed(WithPart(ps, pn, size, place))
BY DEF Listed, PartMap, Part, WithPart, NoSize

\* Every step of a request keeps the entries that are answered for.
LEMMA AckOwn ==
    ASSUME FilesInv, LockInv, AckInv, NEW r \in Requests, Steps(r), "abort" \notin Kinds
    PROVE  AckInv'
<1> USE DEF FilesInv, TypeInv, TypeOK, RequestType, SharedType, Goto
<1>1. StepOf(r)
  BY StepsOwn
<1>2. ASSUME UNCHANGED meta, \/ (UNCHANGED status /\ UNCHANGED call /\ pc[r] # "done")
                              \/ (UNCHANGED status /\ pc[r] = "unsent")
                              \/ (pc'[r] = "done" /\ status'[r] # 200)
      PROVE  AckInv'
  <2>1. status'[r] # 200 /\ (pc'[r] # "done" => status'[r] = 0)
    BY <1>2 DEF AckInv
  <2> QED BY <1>1, <1>2, <2>1, AckStep DEF meta
<1>3. CASE Arrive(r)
  <2>1. /\ pc[r] = "unsent" /\ UNCHANGED meta
        /\ OpenLock(r, "p1Lock", 404) \/ OpenLock(r, "cLock", 404)
    BY <1>3 DEF Arrive, PutArrive, CopyArrive, UploadArrive, CompleteArrive
  <2>2. UNCHANGED status \/ Answer(r, 404)
    BY <2>1 DEF OpenLock
  <2> QED BY <1>2, <2>1, <2>2 DEF Answer, Return
<1>4. CASE P1Read(r) \/ P3Read(r) \/ CompleteRead(r) \/ P3Open(r)
  BY <1>2, <1>4 DEF P1Read, P3Read, CompleteRead, LockedRead, P3Open, OpenLock, Answer, Return
<1>5. CASE OpenDirect(r) \/ OpenPart(r) \/ OpenCopy(r) \/ BodyChunk(r) \/ BodyDone(r) \/ BodyError(r)
  BY <1>2, <1>5, SMTT(60) DEF OpenDirect, OpenPart, OpenCopy, OpenExisting, Opened, BodyChunk, BodyDone, BodyError, Answer, Return
<1>6. CASE P1Plan(r)
  <2>1. mstate = "active" /\ snap[r] = Snap(assumed, parts) /\ dir
    BY <1>6 DEF P1Plan, LockInv, ReadPCs
  <2>2. parts' = parts
    BY <1>6, <2>1 DEF P1Plan, WriteMeta, meta, Snap
  <2>3. \/ (UNCHANGED status /\ UNCHANGED call /\ pc[r] # "done")
        \/ (pc'[r] = "done" /\ status'[r] # 200)
    BY <1>6 DEF P1Plan, Answer, Return
  <2>4. status'[r] # 200 /\ (pc'[r] # "done" => status'[r] = 0)
    BY <2>3 DEF AckInv
  <2> QED BY <1>1, <2>1, <2>2, <2>4, AckStep
<1>7. CASE P3Write(r)
  <2>1. mstate = "active" /\ snap[r] = Snap(assumed, parts) /\ dir
    BY <1>7 DEF P3Write, LockInv, ReadPCs
  <2>2. parts' = WithPart(parts, call[r].pn, call[r].len, off[r]) /\ UNCHANGED call
    BY <1>7, <2>1 DEF P3Write, WriteMeta, Snap
  <2>3. call[r].pn \in PartNumbers /\ call[r].len \in Nat
    BY <1>7, ConstantsAssumption DEF P3Write, HandlerOK, UploadPCs
  <2>4. Listed(parts) \subseteq Listed(parts') /\ call'[r].pn \in Listed(parts')
    BY <2>2, <2>3, ListedMerged
  <2>5. pc'[r] = "done"
    BY <1>7 DEF P3Write, Answer, Return
  <2> QED BY <1>1, <2>1, <2>4, <2>5, AckStep
<1>8. CASE CompleteStart(r)
  <2>1. mstate = "active" /\ snap[r] = Snap(assumed, parts)
    BY <1>8 DEF CompleteStart, LockInv, ReadPCs
  <2>2. parts' = parts
    BY <1>8, <2>1 DEF CompleteStart, WriteMeta, meta, Snap
  <2>3. \/ (UNCHANGED status /\ UNCHANGED call /\ pc[r] # "done")
        \/ (pc'[r] = "done" /\ status'[r] # 200)
    BY <1>8, SMTT(60) DEF CompleteStart, Answer, Return
  <2>4. status'[r] # 200 /\ (pc'[r] # "done" => status'[r] = 0)
    BY <2>3 DEF AckInv
  <2> QED BY <1>1, <2>1, <2>2, <2>4, AckStep
<1>9. CASE FastCopy(r) \/ CrossCopy(r) \/ CrossRemove(r) \/ StageRemove(r)
  BY <1>2, <1>9 DEF FastCopy, CrossCopy, CrossRemove, StageRemove, RemoveObject
<1>10. CASE StageOpen(r) \/ StageCopy(r) \/ StageLost(r)
  <2>1. UNCHANGED meta /\ UNCHANGED call /\ pc[r] # "done" /\ (UNCHANGED status \/ Answer(r, 500))
    BY <1>10 DEF StageOpen, StageCopy, StageLost
  <2> QED BY <1>2, <2>1 DEF Answer, Return
<1>11. CASE FastCommit(r) \/ CrossRename(r) \/ StageRename(r) \/ Finish(r)
  <2>1. pc[r] \in WorkPCs
    BY <1>11 DEF FastCommit, CrossRename, StageRename, CommitStaged, Finish, WorkPCs, CommitPCs
  <2>2. mstate = "completing" /\ Listed(snap[r].parts) = Listed(parts) /\ dir
    BY <2>1 DEF LockInv
  <2>3. parts' = parts \/ parts' = snap[r].parts
    BY <1>11, <2>2 DEF FastCommit, CrossRename, StageRename, CommitStaged, Finish, GiveBack, WriteMeta, meta
  <2>4. Listed(parts') = Listed(parts)
    BY <2>2, <2>3
  <2>5. \/ (UNCHANGED status /\ UNCHANGED call /\ pc[r] # "done")
        \/ (pc'[r] = "done" /\ status'[r] # 200)
    BY <1>11 DEF FastCommit, CrossRename, StageRename, CommitStaged, Finish, GiveBack, Return
  <2>6. status'[r] # 200 /\ (pc'[r] # "done" => status'[r] = 0)
    BY <2>5 DEF AckInv
  <2> QED BY <1>1, <2>2, <2>4, <2>6, AckStep
<1>12. CASE RemoveEntries(r)
  <2>1. mstate' = "none" /\ status' = status /\ pc[r] # "done"
    BY <1>12 DEF RemoveEntries
  <2> QED BY <1>1, <2>1, AckStep DEF AckInv
<1>13. CASE RemoveDir(r)
  <2>1. UNCHANGED meta /\ UNCHANGED call /\ pc'[r] = "done"
    BY <1>13 DEF RemoveDir, Answer, Return
  <2>2. call[r].op = "complete"
    BY <1>13 DEF RemoveDir, LockInv, CompleteOK, CommitPCs
  <2> QED BY <1>1, <2>1, <2>2, AckStep DEF meta, Uploads
<1>14. CASE Disconnect(r)
  BY <1>2, <1>14 DEF Disconnect, Answer, Return
<1> QED BY <1>3, <1>4, <1>5, <1>6, <1>7, <1>8, <1>9, <1>10, <1>11, <1>12, <1>13, <1>14
        DEF Steps, UploadStep, CompleteStep, RemoveStep

\* As long as nobody aborts, what is answered for stays entered (see AckInv).
THEOREM AckInvariant ==
    ASSUME "abort" \notin Kinds
    PROVE  Spec => [](FilesInv /\ LockInv /\ AckInv)
<1>1. Init => AckInv
  BY DEF Init, AckInv
<1>2. FilesInv /\ LockInv /\ AckInv /\ [Next]_vars => AckInv'
  <2> SUFFICES ASSUME FilesInv, LockInv, AckInv, [Next]_vars PROVE AckInv'
    OBVIOUS
  <2>1. CASE \E r \in Requests : Steps(r)
    BY <2>1, AckOwn
  <2>2. CASE Crash
    <3>1. UNCHANGED <<meta, call, status>> /\ \A q \in Requests : pc'[q] # "done" => pc[q] # "done"
      BY <2>2 DEF Crash
    <3> QED BY <3>1 DEF AckInv, meta
  <2>3. CASE OtherPut \/ OtherDelete \/ UNCHANGED vars
    <3>1. UNCHANGED <<pc, call, status, mstate, parts>>
      BY <2>3 DEF OtherPut, OtherDelete, vars, reqVars, planVars, meta
    <3> QED BY <3>1 DEF AckInv
  <2> QED BY <2>1, <2>2, <2>3 DEF Next, Steps
<1> QED BY <1>1, <1>2, LockInvariant, PTL DEF Spec

\* A part whose upload was answered with 200 stays in meta.json while the
\* upload is active, for any number of requests, threads and faults.  An Abort
\* takes no lock and removes the lock file, hence the hypothesis: afterwards
\* two uploads may own two different lock files.
THEOREM AckedPartsListedInvariant ==
    ASSUME "abort" \notin Kinds
    PROVE  Spec => []AckedPartsListed
<1>1. AckInv => AckedPartsListed
  BY DEF AckInv, AckedPartsListed
<1> QED BY <1>1, AckInvariant, PTL

-----------------------------------------------------------------------------
\* Where parts are in direct.bin, as long as nobody aborts and no Complete has
\* been refused by If-None-Match: *.

\* Where an upload has chosen its part's place.
PlacedPCs == {"open", "body", "renamed", "p3Lock", "p3Write"}

\* The place of part pn when all parts before it have length a.
Slot(pn, a) == (pn - 1) * a

\* Every part that is in direct.bin, or on its way there, is in its slot of
\* length a.
OffsetsAt(a) ==
    /\ mstate # "none" /\ assumed # NoSize => assumed = a
    /\ \A r \in Requests : off[r] # InFile =>
         /\ off[r] = Slot(call[r].pn, a) /\ call[r].len <= a
         /\ pc[r] \in PlacedPCs
    /\ mstate = "active" =>
         \A pn \in Listed(parts) : parts[pn].off # InFile =>
             parts[pn].off = Slot(pn, a) /\ parts[pn].size <= a

\* Before there is an assumed size nothing is in direct.bin: part 1, with
\* which every sequence of parts begins, fixes that size itself.
Unplaced ==
    mstate = "active" /\ assumed = NoSize =>
        /\ 1 \notin Listed(parts)
        /\ \A pn \in Listed(parts) : parts[pn].off = InFile
        /\ \A r \in Requests : off[r] = InFile /\ (pc[r] \in PlacedPCs => call[r].pn # 1)

OffsetInv == Unplaced /\ \E a \in Nat : OffsetsAt(a)

\* A step that changes no place: the request keeps its offset or gives it up,
\* and the entries of an active upload stay.
LEMMA OffsetStep ==
    ASSUME OffsetInv, NEW r \in Requests, StepOf(r),
           mstate' # "none" => mstate # "none" /\ assumed' = assumed,
           mstate' = "active" => mstate = "active" /\ parts' = parts,
           off'[r] = InFile \/ (off'[r] = off[r] /\ pc'[r] \in PlacedPCs),
           pc'[r] \in PlacedPCs => pc[r] \in PlacedPCs /\ call'[r] = call[r]
    PROVE  OffsetInv'
<1>1. PICK a \in Nat : OffsetsAt(a)
  BY DEF OffsetInv
<1>2. OffsetsAt(a)'
  BY <1>1 DEF OffsetsAt, StepOf
<1>3. Unplaced'
  BY DEF OffsetInv, Unplaced, StepOf
<1> QED BY <1>2, <1>3 DEF OffsetInv

\* Before there is an assumed size, no sequence of parts begins.
LEMMA NoSequence ==
    ASSUME NEW ps, NEW pn \in PartNumbers, pn # 1, 1 \notin Listed(ps)
    PROVE  Sequential(ps, pn) = InFile
<1>1. 1 \in 1..(pn - 1)
  BY ConstantsAssumption DEF PartNumbers
<1> QED BY <1>1 DEF Sequential

\* Choosing the place of a part.
LEMMA OffsetPlan ==
    ASSUME FilesInv, LockInv, OffsetInv, NEW r \in Requests, StepOf(r), P1Plan(r)
    PROVE  OffsetInv'
<1> USE DEF FilesInv, TypeInv, TypeOK, RequestType, SharedType, Goto
<1>1. mstate = "active" /\ snap[r].assumed = assumed /\ snap[r].parts = parts /\ dir
  BY DEF P1Plan, LockInv, ReadPCs, Snap
<1>2. call[r].pn \in PartNumbers /\ call[r].len \in Nat /\ call[r].len \in Lens
  BY ConstantsAssumption DEF P1Plan, HandlerOK, UploadPCs
<1>3. UNCHANGED call
  BY DEF P1Plan
<1>4. "open" \in PlacedPCs /\ "done" \notin PlacedPCs /\ "p1Plan" \notin PlacedPCs
  BY DEF PlacedPCs
<1> DEFINE pn == call[r].pn
           len == call[r].len
           promotes == Promotes(snap[r], pn, len)
<1>5. pc'[r] = "open" /\ off[r] = InFile
  BY <1>1, <1>4 DEF P1Plan, OffsetInv, OffsetsAt
<1>6. off'[r] = DirectOffset(IF promotes THEN len ELSE assumed, parts, pn, len)
  BY <1>1 DEF P1Plan
<1>7. mstate' = "active" /\ parts' = parts /\ assumed' = IF promotes THEN len ELSE assumed
  BY <1>1 DEF P1Plan, WriteMeta, meta
<1>8. CASE promotes
  <2>1. assumed = NoSize
    BY <1>1, <1>8 DEF Promotes
  <2>2. len # NoSize /\ len <= len
    BY <1>2 DEF NoSize
  <2>3. off'[r] = Slot(pn, len)
    BY <1>6, <1>8, <2>2 DEF DirectOffset, Slot
  <2>4. OffsetsAt(len)'
    BY <1>1, <1>3, <1>4, <1>5, <1>7, <1>8, <2>1, <2>2, <2>3 DEF OffsetInv, Unplaced, OffsetsAt, StepOf
  <2>5. Unplaced'
    BY <1>7, <1>8, <2>2 DEF Unplaced
  <2>6. len \in Nat /\ len' = len
    BY <1>2, <1>3
  <2> QED BY <2>4, <2>5, <2>6 DEF OffsetInv
<1>9. CASE ~promotes /\ assumed = NoSize
  <2>1. pn # 1
    BY <1>1, <1>9 DEF Promotes
  <2>2. off'[r] = InFile
    BY <1>1, <1>2, <1>6, <1>9, <2>1, NoSequence DEF DirectOffset, OffsetInv, Unplaced
  <2>3. Unplaced'
    BY <1>1, <1>3, <1>5, <1>7, <1>9, <2>1, <2>2 DEF OffsetInv, Unplaced, StepOf
  <2>4. PICK a \in Nat : OffsetsAt(a)
    BY DEF OffsetInv
  <2>5. OffsetsAt(a)'
    BY <1>1, <1>3, <1>7, <1>9, <2>2, <2>4 DEF OffsetsAt, StepOf
  <2> QED BY <2>3, <2>5 DEF OffsetInv
<1>10. CASE ~promotes /\ assumed # NoSize
  <2>1. PICK a \in Nat : OffsetsAt(a)
    BY DEF OffsetInv
  <2>2. assumed = a
    BY <1>1, <1>10, <2>1 DEF OffsetsAt
  <2>3. off'[r] = InFile \/ (off'[r] = Slot(pn, a) /\ len <= a)
    BY <1>6, <1>10, <2>2 DEF DirectOffset, Slot
  <2>4. OffsetsAt(a)'
    BY <1>1, <1>3, <1>4, <1>5, <1>7, <1>10, <2>1, <2>3 DEF OffsetsAt, StepOf
  <2>5. Unplaced'
    BY <1>7, <1>10 DEF Unplaced
  <2> QED BY <2>4, <2>5 DEF OffsetInv
<1> QED BY <1>8, <1>9, <1>10

\* Entering a part in meta.json, where its body was written.
LEMMA OffsetWrite ==
    ASSUME FilesInv, LockInv, OffsetInv, NEW r \in Requests, StepOf(r), P3Write(r)
    PROVE  OffsetInv'
<1> USE DEF FilesInv, TypeInv, TypeOK, RequestType, SharedType, Goto
<1>1. mstate = "active" /\ snap[r].assumed = assumed /\ snap[r].parts = parts /\ dir
  BY DEF P3Write, LockInv, ReadPCs, Snap
<1>2. call[r].pn \in PartNumbers /\ call[r].len \in Nat /\ call[r].len \in Lens
  BY ConstantsAssumption DEF P3Write, HandlerOK, UploadPCs
<1>3. UNCHANGED call
  BY DEF P3Write
<1>4. "done" \notin PlacedPCs /\ "p3Write" \in PlacedPCs /\ pc[r] = "p3Write"
  BY DEF PlacedPCs, P3Write
<1> DEFINE pn == call[r].pn
           ps == WithPart(parts, pn, call[r].len, off[r])
<1>5. pc'[r] = "done" /\ off'[r] = InFile
  BY <1>1 DEF P3Write, Answer, Return
<1>6. mstate' = "active" /\ parts' = ps /\ assumed' \in Recomputed(assumed, ps)
  BY <1>1 DEF P3Write, WriteMeta
<1>7. ps \in PartMap
  <2>1. /\ parts \in PartMap /\ pn \in PartNumbers /\ call[r].len \in Lens \cup {NoSize}
        /\ off[r] \in Nat \cup {InFile}
    BY <1>2
  <2>2. [parts EXCEPT ![pn] = Part(call[r].len, off[r])] \in PartMap
    BY ONLY <2>1, InsertType
  <2> QED BY <2>2 DEF WithPart
<1>8. assumed' \in Lens \cup {NoSize} /\ (assumed # NoSize => assumed' = assumed)
  <2>1. PICK z \in PartMap : z = ps
    BY ONLY <1>7
  <2>2. assumed \in Lens \cup {NoSize}
    OBVIOUS
  <2>3. Recomputed(assumed, z) \subseteq Lens \cup {NoSize}
    BY ONLY <2>2, RecomputedType
  <2>4. assumed # NoSize => Recomputed(assumed, z) = {assumed}
    BY ONLY <2>2 DEF Recomputed
  <2> QED BY ONLY <1>6, <2>1, <2>3, <2>4
<1>9. \A p \in PartNumbers : ps[p] = IF p = pn THEN Part(call[r].len, off[r]) ELSE parts[p]
  BY DEF WithPart, PartMap
<1>10. \A p \in Listed(ps) : p \in PartNumbers /\ (p # pn => p \in Listed(parts))
  BY <1>9 DEF Listed
<1>11. CASE assumed = NoSize
  <2>1. off[r] = InFile /\ pn # 1 /\ \A q \in Requests : off'[q] = InFile
    BY <1>1, <1>4, <1>5, <1>11 DEF OffsetInv, Unplaced, StepOf
  <2>2. \A p \in Listed(ps) : ps[p].off = InFile
    BY <1>1, <1>9, <1>10, <1>11, <2>1 DEF OffsetInv, Unplaced, Part
  <2>3. 1 \notin Listed(ps)
    BY <1>1, <1>10, <1>11, <2>1 DEF OffsetInv, Unplaced
  <2>4. PICK a \in Nat : assumed' # NoSize => assumed' = a
    BY <1>8, ConstantsAssumption
  <2>5. OffsetsAt(a)'
    BY <1>6, <2>1, <2>2, <2>4 DEF OffsetsAt
  <2>6. Unplaced'
    BY <1>1, <1>3, <1>4, <1>5, <1>6, <1>11, <2>1, <2>2, <2>3 DEF OffsetInv, Unplaced, StepOf
  <2> QED BY <2>5, <2>6 DEF OffsetInv
<1>12. CASE assumed # NoSize
  <2>1. PICK a \in Nat : OffsetsAt(a)
    BY DEF OffsetInv
  <2>2. assumed' = a
    BY <1>1, <1>8, <1>12, <2>1 DEF OffsetsAt
  <2>3. \A p \in Listed(ps) : ps[p].off # InFile => ps[p].off = Slot(p, a) /\ ps[p].size <= a
    BY <1>1, <1>9, <1>10, <2>1 DEF OffsetsAt, Part
  <2>4. OffsetsAt(a)'
    BY <1>3, <1>5, <1>6, <2>1, <2>2, <2>3 DEF OffsetsAt, StepOf
  <2>5. Unplaced'
    BY <1>8, <1>12 DEF Unplaced
  <2> QED BY <2>4, <2>5 DEF OffsetInv
<1> QED BY <1>11, <1>12

\* A refusal is never forgotten: a request that has its answer takes no step.
LEMMA RefusedStays ==
    ASSUME AckInv, FilesInv, NEW r \in Requests, Steps(r), NothingRefused'
    PROVE  NothingRefused
<1>1. StepOf(r)
  BY StepsOwn, SMTT(60) DEF FilesInv
<1>2. pc[r] # "done"
  BY DEF Steps, Arrive, PutArrive, CopyArrive, UploadArrive, CompleteArrive, AbortArrive, UploadStep, CompleteStep,
     RemoveStep, BodyError, Disconnect, P1Read, P3Read, LockedRead, P1Plan, OpenDirect, OpenPart, OpenCopy,
     BodyChunk, BodyDone, P3Open, P3Write, CompleteRead, CompleteStart, FastCopy, FastCommit, CrossCopy, CrossRemove,
     CrossRename, StageOpen, StageCopy, StageRemove, StageRename, StageLost, Finish, RemoveObject, CommitStaged,
     RemoveEntries, RemoveDir, AwaitPCs
<1>3. status[r] = 0
  BY <1>2 DEF AckInv
<1> QED BY <1>1, <1>3 DEF NothingRefused, StepOf

\* Every step of a request that refuses no Complete keeps the parts in their
\* slots.
LEMMA OffsetOwn ==
    ASSUME "abort" \notin Kinds, FilesInv, LockInv, OffsetInv, NEW r \in Requests, Steps(r), NothingRefused'
    PROVE  OffsetInv'
<1> USE DEF FilesInv, TypeInv, TypeOK, RequestType, SharedType, Goto
<1>1. StepOf(r)
  BY StepsOwn
<1>2. \A q \in Requests : off[q] # InFile => pc[q] \in PlacedPCs
  BY DEF OffsetInv, OffsetsAt
<1>4. CASE Arrive(r)
  <2>1. /\ pc[r] = "unsent" /\ UNCHANGED meta
        /\ OpenLock(r, "p1Lock", 404) \/ OpenLock(r, "cLock", 404)
    <3>1. CASE \E op, pn, len : UploadArrive(r, op, pn, len)
      BY <3>1 DEF UploadArrive
    <3>2. CASE \E last, nr : CompleteArrive(r, last, nr)
      BY <3>2 DEF CompleteArrive
    <3> QED BY <1>4, <3>1, <3>2 DEF Arrive, PutArrive, CopyArrive
  <2>2. off[r] = InFile
    BY <1>2, <2>1 DEF PlacedPCs
  <2>3. off'[r] = InFile /\ pc'[r] \in {"p1Lock", "cLock", "done"}
    BY <2>1, <2>2 DEF OpenLock, Answer, Return
  <2> QED BY <1>1, <2>1, <2>3, OffsetStep DEF PlacedPCs, meta
<1>5. CASE P1Read(r) \/ P3Read(r) \/ CompleteRead(r)
  <2>1. UNCHANGED <<meta, call>> /\ \/ pc'[r] = "done" /\ off'[r] = InFile
                                    \/ /\ UNCHANGED off
                                       /\ \/ (pc[r] = "p1Lock" /\ pc'[r] = "p1Plan")
                                          \/ (pc[r] = "p3Lock" /\ pc'[r] = "p3Write")
                                          \/ (pc[r] = "cLock" /\ pc'[r] = "cStart")
    BY <1>5 DEF P1Read, P3Read, CompleteRead, LockedRead, Answer, Return
  <2> QED BY <1>1, <1>2, <2>1, OffsetStep DEF PlacedPCs, meta
<1>6. CASE \/ OpenDirect(r) \/ OpenPart(r) \/ OpenCopy(r) \/ BodyChunk(r) \/ BodyDone(r) \/ BodyError(r)
           \/ P3Open(r)
  <2>1. UNCHANGED <<meta, call>>
    BY <1>6 DEF OpenDirect, OpenPart, OpenCopy, OpenExisting, Opened, BodyChunk, BodyDone, BodyError, P3Open
  <2>2. \/ pc'[r] = "done" /\ off'[r] = InFile
        \/ UNCHANGED off /\ pc[r] \in PlacedPCs /\ pc'[r] \in PlacedPCs
    BY <1>6 DEF OpenDirect, OpenPart, OpenCopy, OpenExisting, Opened, BodyChunk, BodyDone, BodyError, P3Open,
       OpenLock, Answer, Return, planVars, PlacedPCs
  <2> QED BY <1>1, <1>2, <2>1, <2>2, OffsetStep DEF PlacedPCs, meta
<1>7. CASE P1Plan(r)
  BY <1>1, <1>7, OffsetPlan
<1>8. CASE P3Write(r)
  BY <1>1, <1>8, OffsetWrite
<1>9. CASE CompleteStart(r)
  <2>1. mstate = "active" /\ snap[r].assumed = assumed /\ dir
    BY <1>9 DEF CompleteStart, LockInv, ReadPCs, Snap
  <2>2. UNCHANGED call /\ mstate' = "completing" /\ assumed' = assumed
    BY <1>9, <2>1 DEF CompleteStart, WriteMeta
  <2>3. pc'[r] \in {"done", "fast", "fastCommit", "stageOpen"} /\ off'[r] \in {InFile, off[r]}
    BY <1>9 DEF CompleteStart, FastLabel, Answer, Return, planVars
  <2>4. off[r] = InFile
    BY <1>2, <1>9 DEF CompleteStart, PlacedPCs
  <2> QED BY <1>1, <1>2, <2>1, <2>2, <2>3, <2>4, OffsetStep DEF PlacedPCs
<1>10. CASE CompleteStep(r) /\ ~CompleteRead(r) /\ ~CompleteStart(r)
  <2>1. pc[r] \in WorkPCs
    BY <1>10, ZenonT(60) DEF CompleteStep, FastCopy, FastCommit, CrossCopy, CrossRemove, CrossRename, StageOpen, StageCopy, StageRemove,
       StageRename, StageLost, Finish, RemoveObject, CommitStaged, WorkPCs, CommitPCs
  <2>2. mstate = "completing" /\ snap[r].assumed = assumed /\ dir /\ off[r] = InFile
    BY <1>2, <2>1 DEF LockInv, WorkPCs, CommitPCs, PlacedPCs
  <2>3. UNCHANGED call
    BY <1>10 DEF CompleteStep, FastCopy, FastCommit, CrossCopy, CrossRemove, CrossRename, StageOpen, StageCopy, StageRemove,
       StageRename, StageLost, Finish, RemoveObject, CommitStaged
  <2>6. ~GiveBack(r)
    <3>1. call'[r].op = "complete"
      BY <2>1, <2>3 DEF CompleteOK, WorkPCs
    <3>2. status'[r] # 412
      BY <3>1, SMTT(60) DEF NothingRefused
    <3> QED BY <3>2 DEF GiveBack, Return
  <2>4. mstate' \in {"completing", "completed"} /\ assumed' = assumed
    BY <1>10, <2>2, <2>6 DEF CompleteStep, FastCopy, FastCommit, CrossCopy, CrossRemove, CrossRename, StageOpen, StageCopy,
       StageRemove, StageRename, StageLost, Finish, RemoveObject, CommitStaged, WriteMeta, meta
  <2>5. off'[r] = InFile /\ pc'[r] \notin PlacedPCs
    <3> USE DEF Answer, Return, planVars, PlacedPCs
    <3>1. CASE FastCopy(r)
      BY <2>2, <3>1 DEF FastCopy, FastLabel
    <3>2. CASE FastCommit(r)
      BY <2>2, <2>6, <3>2 DEF FastCommit
    <3>3. CASE CrossCopy(r) \/ CrossRemove(r) \/ StageRemove(r)
      BY <2>2, <3>3 DEF CrossCopy, CrossRemove, StageRemove, RemoveObject
    <3>4. CASE CrossRename(r) \/ StageRename(r) \/ StageLost(r) \/ Finish(r)
      BY <2>2, <2>6, <3>4 DEF CrossRename, StageRename, CommitStaged, StageLost, Finish
    <3>5. CASE StageOpen(r)
      BY <2>2, <3>5 DEF StageOpen
    <3>6. CASE StageCopy(r)
      <4>1. \/ Answer(r, 500)
            \/ UNCHANGED off /\ (Goto(r, "stageRemove") \/ Goto(r, "stage"))
        BY <3>6, ZenonT(60) DEF StageCopy
      <4> QED BY <2>2, <4>1
    <3> QED BY <1>10, <3>1, <3>2, <3>3, <3>4, <3>5, <3>6 DEF CompleteStep
  <2> QED BY <1>1, <1>2, <2>2, <2>3, <2>4, <2>5, OffsetStep
<1>11. CASE RemoveEntries(r)
  <2>1. UNCHANGED <<call, off>> /\ mstate' = "none" /\ pc'[r] \in {"rmdir", "rmdirDone"} /\ pc[r] \in {"unlink", "unlinkDone"}
    BY <1>11 DEF RemoveEntries, planVars
  <2> QED BY <1>1, <1>2, <2>1, OffsetStep DEF PlacedPCs
<1>12. CASE RemoveDir(r) \/ Disconnect(r)
  <2>1. UNCHANGED <<call, meta>> /\ pc'[r] = "done" /\ off'[r] = InFile
    BY <1>12 DEF RemoveDir, Disconnect, Answer, Return
  <2> QED BY <1>1, <1>2, <2>1, OffsetStep DEF PlacedPCs, meta
<1> QED BY <1>4, <1>5, <1>6, <1>7, <1>8, <1>9, <1>10, <1>11, <1>12 DEF Steps, UploadStep, RemoveStep

\* As long as nobody aborts and no Complete has been refused, every part in
\* direct.bin stays in its slot (see OffsetInv).
THEOREM OffsetInvariant ==
    ASSUME "abort" \notin Kinds
    PROVE  Spec => [](FilesInv /\ (NothingRefused => OffsetInv))
<1>1. Init => OffsetInv
  <2> SUFFICES ASSUME Init PROVE OffsetInv
    OBVIOUS
  <2>1. Listed(parts) = {}
    BY DEF Init, Listed, NoParts, NoPart, Part
  <2>2. \A r \in Requests : off[r] = InFile /\ pc[r] = "unsent"
    BY DEF Init
  <2>3. assumed = NoSize
    BY DEF Init
  <2>4. OffsetsAt(0)
    BY <2>1, <2>2, <2>3 DEF OffsetsAt
  <2>5. Unplaced
    BY <2>1, <2>2 DEF Unplaced, PlacedPCs
  <2> QED BY <2>4, <2>5 DEF OffsetInv
<1>2. FilesInv /\ LockInv /\ AckInv /\ (NothingRefused => OffsetInv) /\ [Next]_vars => (NothingRefused => OffsetInv)'
  <2> SUFFICES ASSUME FilesInv, LockInv, AckInv, NothingRefused => OffsetInv, [Next]_vars, NothingRefused'
               PROVE  OffsetInv'
    OBVIOUS
  <2>1. CASE \E r \in Requests : Steps(r)
    BY <2>1, RefusedStays, OffsetOwn
  <2>2. CASE Crash
    <3>0. NothingRefused
      BY <2>2 DEF Crash, NothingRefused
    <3>1. UNCHANGED <<mstate, assumed, parts, call>> /\ \A q \in Requests : off'[q] = InFile /\ pc'[q] \in {"unsent", "done"}
      BY <2>2 DEF Crash, meta
    <3>2. PICK a \in Nat : OffsetsAt(a)
      BY <3>0 DEF OffsetInv
    <3>3. OffsetsAt(a)' /\ Unplaced'
      BY <3>0, <3>1, <3>2 DEF OffsetInv, OffsetsAt, Unplaced, PlacedPCs
    <3> QED BY <3>3 DEF OffsetInv
  <2>3. CASE OtherPut \/ OtherDelete \/ UNCHANGED vars
    <3>0. NothingRefused
      BY <2>3 DEF OtherPut, OtherDelete, vars, reqVars, NothingRefused
    <3>1. UNCHANGED <<mstate, assumed, parts, call, pc, off>>
      BY <2>3 DEF OtherPut, OtherDelete, vars, reqVars, planVars, meta, envVars
    <3>2. PICK a \in Nat : OffsetsAt(a)
      BY <3>0 DEF OffsetInv
    <3>3. OffsetsAt(a)' /\ Unplaced'
      BY <3>0, <3>1, <3>2 DEF OffsetInv, OffsetsAt, Unplaced
    <3> QED BY <3>3 DEF OffsetInv
  <2> QED BY <2>1, <2>2, <2>3 DEF Next, Steps
<1> QED BY <1>1, <1>2, AckInvariant, PTL DEF Spec

\* Slots are one after the other.
LEMMA SlotsApart ==
    ASSUME NEW a \in Nat, NEW p \in Nat, NEW q \in Nat, p < q
    PROVE  Slot(p, a) + a <= Slot(q, a) /\ Slot(p, a) \in Int /\ Slot(q, a) \in Int
<1>1. PICK d \in Nat : q = p + 1 + d
  <2>1. q - p - 1 \in Nat /\ q = p + 1 + (q - p - 1)
    OBVIOUS
  <2> QED BY <2>1
<1>2. (q - 1) * a = (p - 1) * a + a + d * a
  BY <1>1, SMT
<1>3. d * a \in Nat /\ (p - 1) * a \in Int
  BY SMT
<1> QED BY <1>2, <1>3 DEF Slot

\* Two parts in their slots share no cell.
LEMMA SlotsDisjoint ==
    ASSUME NEW a \in Nat, NEW p \in Nat, NEW q \in Nat, p # q,
           NEW m \in Nat, NEW n \in Nat, m <= a, n <= a
    PROVE  Extent(Slot(p, a), m) \cap Extent(Slot(q, a), n) = {}
<1>1. CASE p < q
  BY <1>1, SlotsApart DEF Extent
<1>2. CASE q < p
  BY <1>2, SlotsApart DEF Extent
<1> QED BY <1>1, <1>2

\* Direct placement has no overlap: two parts that meta.json puts into
\* direct.bin, or whose bodies are being written to it, share no byte, for any
\* part numbers, lengths, retries and interleaving of uploads, until a Complete
\* is refused.  The hypothesis is one under which it holds: an Abort lets two
\* lock files exist.
THEOREM DirectDisjointInvariant ==
    ASSUME "abort" \notin Kinds
    PROVE  Spec => []DirectDisjoint
<1>1. FilesInv /\ (NothingRefused => OffsetInv) => DirectDisjoint
  <2> SUFFICES ASSUME FilesInv, OffsetInv PROVE PlacesDisjoint
    BY DEF DirectDisjoint
  <2> USE DEF FilesInv, TypeInv, TypeOK, RequestType, SharedType
  <2>1. PICK a \in Nat : OffsetsAt(a)
    BY DEF OffsetInv
  <2>2. ASSUME NEW x \in ListedDirect
        PROVE  x[1] \in Nat /\ x[2] = Slot(x[1], a) /\ x[3] \in Nat /\ x[3] <= a
    <3>1. PICK pn \in Listed(parts) : mstate = "active" /\ parts[pn].off # InFile /\ x = <<pn, parts[pn].off, parts[pn].size>>
      BY <2>2 DEF ListedDirect
    <3>2. pn \in Nat /\ parts[pn].size \in Nat
      <4>1. pn \in PartNumbers /\ parts[pn] \in PartMeta /\ parts[pn].size # NoSize
        BY <3>1 DEF Listed, PartMap
      <4>2. pn \in Nat
        BY <4>1, ConstantsAssumption DEF PartNumbers
      <4>3. parts[pn].size \in Lens
        BY <4>1 DEF PartMeta
      <4> QED BY <4>2, <4>3, ConstantsAssumption
    <3> QED BY <2>1, <3>1, <3>2 DEF OffsetsAt
  <2>3. ASSUME NEW x \in WritingDirect
        PROVE  x[1] \in Nat /\ x[2] = Slot(x[1], a) /\ x[3] \in Nat /\ x[3] <= a
    <3>1. PICK r \in Requests : off[r] # InFile /\ x = <<call[r].pn, off[r], call[r].len>>
      BY <2>3 DEF WritingDirect
    <3>2. call[r].pn \in PartNumbers /\ call[r].len \in Lens
      BY <2>1, <3>1 DEF OffsetsAt, PlacedPCs, HandlerOK, UploadPCs
    <3>3. call[r].pn \in Nat /\ call[r].len \in Nat
      <4>1. call[r].pn \in Nat
        BY <3>2, ConstantsAssumption DEF PartNumbers
      <4>2. call[r].len \in Lens
        BY <3>2
      <4> QED BY <4>1, <4>2, ConstantsAssumption
    <3> QED BY <2>1, <3>1, <3>3 DEF OffsetsAt
  <2> SUFFICES ASSUME NEW x \in ListedDirect \cup WritingDirect, NEW y \in ListedDirect \cup WritingDirect, x[1] # y[1]
               PROVE  Extent(x[2], x[3]) \cap Extent(y[2], y[3]) = {}
    BY DEF PlacesDisjoint
  <2>4. /\ x[1] \in Nat /\ x[2] = Slot(x[1], a) /\ x[3] \in Nat /\ x[3] <= a
        /\ y[1] \in Nat /\ y[2] = Slot(y[1], a) /\ y[3] \in Nat /\ y[3] <= a
    BY <2>2, <2>3
  <2> QED BY <2>4, SlotsDisjoint, ZenonT(60)
<1> QED BY <1>1, OffsetInvariant, PTL

=============================================================================
