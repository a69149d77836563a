------------------------------ MODULE Listing ------------------------------
(***************************************************************************)
(* ListObjectsV1 and ListObjectsV2: a client pages through a bucket while  *)
(* others create and delete objects.  The gateway keeps nothing between    *)
(* two pages.  A page walks the directory tree with a stack of frames;     *)
(* version 2 hands the stack to the client as the continuation token,      *)
(* version 1 hands out the last key, from which the next page rebuilds a   *)
(* stack.                                                                  *)
(*                                                                         *)
(* A path is a sequence of names, a key is a path and whether it ends in   *)
(* "/".  The byte order of keys is given by the ranks of "name" and of     *)
(* "name/" in a directory: a name of its own may lie between the two       *)
(* ("a" < "a-" < "a/").                                                    *)
(***************************************************************************)
EXTENDS Naturals, FiniteSets, Sequences

S == INSTANCE SequencesExt

CONSTANTS
    Names,          \* path components
    FileRank,       \* Names -> Nat: place of the sort key "name"
    DirRank,        \* Names -> Nat: place of the sort key "name/"
    MpuDir,         \* the name of the reserved directory at the bucket root
    InitFiles,      \* the files before the listing
    InitDirs,       \* the directories before the listing
    Calls,          \* the listings a client may ask for
    MaxChanges,     \* bound on the requests of others meanwhile
    MaxFaults       \* bound on directories that cannot be read

Root == << >>
Parent(p) == SubSeq(p, 1, Len(p) - 1)
Paths == {<<n>> : n \in Names} \cup {<<n, m>> : n, m \in Names}
Keys == [path : Paths, isDir : BOOLEAN]
Call == [version : {1, 2}, recursive : BOOLEAN, max : Nat \ {0},
         dir : Paths \cup {Root}, leaf : SUBSET Names]

ASSUME RankAssumption ==
    /\ FileRank \in [Names -> Nat \ {0}] /\ DirRank \in [Names -> Nat \ {0}]
    /\ \A n \in Names : FileRank[n] < DirRank[n]
    /\ \A n, m \in Names :
         /\ FileRank[n] # DirRank[m]
         /\ n # m => FileRank[n] # FileRank[m] /\ DirRank[n] # DirRank[m]
ASSUME TreeAssumption ==
    /\ InitFiles \subseteq Paths /\ InitDirs \subseteq Paths
    /\ InitFiles \cap InitDirs = {}
    /\ \A p \in InitFiles \cup InitDirs : Parent(p) \in InitDirs \cup {Root}
ASSUME BoundAssumption ==
    MaxChanges \in Nat /\ MaxFaults \in Nat /\ Calls \subseteq Call

VARIABLES
    files,      \* paths that are regular files
    dirs,       \* paths that are directories
    pc,         \* "idle", "page", "walk", "done"
    call,       \* the listing that is under way
    marker,     \* version 1: the key to continue after, or NoKey
    token,      \* version 2: the stack to continue with
    stack,      \* the frames of the page under way, root first
    page,       \* the keys emitted on this page
    pending,    \* what the requests of others have still to do
    last,       \* history: the last key emitted, on this page or before, or NoKey
    shown,      \* history: the keys emitted
    stable,     \* history: keys that have existed since the listing began
    changes, faults

treeVars == <<files, dirs, pending, changes>>
seenVars == <<last, shown>>
vars == <<files, dirs, pc, call, marker, token, stack, page, pending, last, shown, stable, changes, faults>>

NoKey == [path |-> Root, isDir |-> FALSE]

-----------------------------------------------------------------------------
(* The tree. *)

Children(d) == {p \in files \cup dirs : Parent(p) = d}
EmptyDir(d) == Children(d) = {}
IsDirectory(d) == d = Root \/ d \in dirs

\* The keys a recursive listing shows: files and empty directories, without
\* the reserved directory.
Reserved(p) == p # Root /\ p[1] = MpuDir
KeysNow ==
    {[path |-> p, isDir |-> FALSE] : p \in {f \in files : ~(Reserved(f) /\ Len(f) > 1)}}
      \cup {[path |-> d, isDir |-> TRUE] : d \in {e \in dirs : EmptyDir(e) /\ ~Reserved(e)}}

-----------------------------------------------------------------------------
(* Frames. *)

SortKey(it) == IF it.isDir THEN DirRank[it.name] ELSE FileRank[it.name]
Frame(d, a) == [dir |-> d, after |-> a, loaded |-> FALSE, entries |-> << >>]
Top == stack[Len(stack)]
Pop == SubSeq(stack, 1, Len(stack) - 1)
WithTop(f) == [stack EXCEPT ![Len(stack)] = f]

\* read_dir_sorted and first_index_after; the name filter of a prefix that
\* does not end in "/" applies to the root frame only.  A directory that is
\* gone has no entries.
Loaded_FilterEverywhere(f, isRoot) ==
    LET items == {[name |-> p[Len(p)], isDir |-> p \in dirs] : p \in Children(f.dir)}
        kept == {it \in items : SortKey(it) > f.after /\ it.name \in call.leaf}
    IN [f EXCEPT !.loaded = TRUE,
                 !.entries = S!SetToSortSeq(kept, LAMBDA a, b : SortKey(a) < SortKey(b))]
Loaded(f, isRoot) ==
    LET items == {[name |-> p[Len(p)], isDir |-> p \in dirs] : p \in Children(f.dir)}
        kept == {it \in items : /\ SortKey(it) > f.after
                                /\ isRoot => it.name \in call.leaf}
    IN [f EXCEPT !.loaded = TRUE,
                 !.entries = S!SetToSortSeq(kept, LAMBDA a, b : SortKey(a) < SortKey(b))]

\* build_stack_from_last: the frames that continue after a key.  With
\* recursion, every component but the last is a directory, and the cursor of
\* the last one is its bare name, whether the key ends in "/" or not.
ResumeCursor_Inside(k, n) == FileRank[k.path[n]]
ResumeCursor(k, n) ==
    IF n < Len(k.path) THEN DirRank[k.path[n]] ELSE FileRank[k.path[n]]

Flat(k, dir) ==
    LET first == k.path[Len(dir) + 1] IN
    << Frame(dir, IF k.isDir THEN DirRank[first] ELSE FileRank[first]) >>

StackFromLast(dir, k, recursive) ==
    IF k = NoKey \/ ~S!IsPrefix(dir, k.path) \/ k.path = dir THEN << Frame(dir, 0) >>
    ELSE IF ~recursive THEN Flat(k, dir)
    ELSE [i \in 1..(Len(k.path) - Len(dir)) |->
            Frame(SubSeq(k.path, 1, Len(dir) + i - 1), ResumeCursor(k, Len(dir) + i))]

-----------------------------------------------------------------------------
(* The client and a page. *)

Begin(c) ==
    /\ pc = "idle"
    /\ call' = c /\ pc' = "page" /\ stable' = KeysNow
    /\ UNCHANGED <<treeVars, marker, token, stack, page, seenVars, faults>>

\* The request: a prefix in the reserved directory or in one that does not
\* exist is an empty listing.
StartPage ==
    /\ pc = "page"
    /\ page' = << >>
    /\ IF Reserved(call.dir) \/ ~IsDirectory(call.dir)
         THEN pc' = "done" /\ stack' = << >>
         ELSE /\ pc' = "walk"
              /\ stack' = IF call.version = 2 /\ token # << >> THEN token
                          ELSE StackFromLast(call.dir, marker, call.recursive)
    /\ UNCHANGED <<treeVars, call, marker, token, seenVars, stable, faults>>

Room == Len(page) < call.max /\ stack # << >>

LoadFrame ==
    /\ pc = "walk" /\ Room /\ ~Top.loaded
    /\ stack' = WithTop(Loaded(Top, Len(stack) = 1))
    /\ UNCHANGED <<treeVars, pc, call, marker, token, page, seenVars, stable, faults>>

\* A directory that cannot be read is left out of the listing.
LoadFails ==
    /\ pc = "walk" /\ Room /\ ~Top.loaded /\ faults < MaxFaults
    /\ faults' = faults + 1
    /\ stable' = {k \in stable : ~S!IsPrefix(Top.dir, k.path)}
    /\ stack' = Pop
    /\ UNCHANGED <<treeVars, pc, call, marker, token, page, seenVars>>

LeaveFrame_Reload ==
    /\ pc = "walk" /\ Room /\ Top.loaded /\ Top.entries = << >>
    /\ stack' = IF Len(stack) = 1 THEN Pop ELSE WithTop([Top EXCEPT !.loaded = FALSE])
    /\ UNCHANGED <<treeVars, pc, call, marker, token, page, seenVars, stable, faults>>
LeaveFrame ==
    /\ pc = "walk" /\ Room /\ Top.loaded /\ Top.entries = << >>
    /\ stack' = Pop
    /\ UNCHANGED <<treeVars, pc, call, marker, token, page, seenVars, stable, faults>>

Emit(k) == page' = Append(page, k) /\ last' = k /\ shown' = shown \cup {k}
Skip == UNCHANGED <<page, seenVars>>

\* One entry of the top frame.  A directory is a common prefix with a
\* delimiter; without one an empty directory is a key and any other is
\* descended into.  What has been deleted since the directory was read is
\* skipped; a directory that is gone is descended into and found empty.
NextEntry ==
    /\ pc = "walk" /\ Room /\ Top.loaded /\ Top.entries # << >>
    /\ LET it == Head(Top.entries)
           p == Append(Top.dir, it.name)
           k == [path |-> p, isDir |-> it.isDir]
           moved == WithTop([Top EXCEPT !.entries = Tail(@), !.after = SortKey(it)])
           descend == it.isDir /\ call.recursive /\ ~(p \in dirs /\ EmptyDir(p))
           hidden == it.isDir /\ p = <<MpuDir>>
       IN /\ IF hidden \/ (~it.isDir /\ p \notin files \cup dirs) \/ descend
               THEN Skip ELSE Emit(k)
          /\ stack' = IF descend /\ ~hidden THEN Append(moved, Frame(p, 0)) ELSE moved
    /\ UNCHANGED <<treeVars, pc, call, marker, token, stable, faults>>

\* The answer: truncated when the page is full and the stack is not empty;
\* version 2 encodes the stack, version 1 names the last key.
Truncated == Len(page) >= call.max /\ stack # << >>
NextToken == [i \in 1..Len(stack) |-> Frame(stack[i].dir, stack[i].after)]
NextMarker == page[Len(page)]
EndPage ==
    /\ pc = "walk" /\ ~Room
    /\ pc' = IF Truncated THEN "page" ELSE "done"
    /\ token' = IF Truncated /\ call.version = 2 THEN NextToken ELSE token
    /\ marker' = IF Truncated /\ call.version = 1 THEN NextMarker ELSE marker
    /\ UNCHANGED <<treeVars, call, stack, page, seenVars, stable, faults>>

-----------------------------------------------------------------------------
(* The requests of others, one system call after the other: between two of  *)
(* them a listing sees directories that are not filled yet or not removed.  *)

Tree(f, d, todo) ==
    /\ files' = f /\ dirs' = d /\ pending' = todo /\ stable' = stable \cap KeysNow'
    /\ UNCHANGED <<pc, call, marker, token, stack, page, seenVars, faults>>
Request == pc # "idle" /\ changes < MaxChanges /\ changes' = changes + 1
HasParent(p) == Parent(p) \in dirs \cup {Root}

\* PutObject, and with "mkdir" a directory marker ("dir/"): create_dir_all
\* makes the parent first.
Put(op, p) ==
    /\ Request /\ Parent(p) \notin files
    /\ Tree(files, dirs \cup ({Parent(p)} \ {Root}), pending \cup {[op |-> op, path |-> p]})

\* open with O_CREAT; it fails when the parent is gone again.
CreateFile(w) ==
    /\ w.op = "open" /\ UNCHANGED changes
    /\ Tree(files \cup {p \in {w.path} : HasParent(p) /\ p \notin dirs}, dirs, pending \ {w})
CreateDir(w) ==
    /\ w.op = "mkdir" /\ UNCHANGED changes
    /\ Tree(files, dirs \cup {p \in {w.path} : HasParent(p) /\ p \notin files}, pending \ {w})

\* DeleteObject: unlink or rmdir, and then prune_empty_parents.
Delete(p) ==
    /\ Request /\ (p \in files \/ (p \in dirs /\ EmptyDir(p)))
    /\ Tree(files \ {p}, dirs \ {p},
            pending \cup {[op |-> "prune", path |-> d] : d \in {Parent(p)} \ {Root}})
Prune(w) ==
    /\ w.op = "prune" /\ UNCHANGED changes
    /\ Tree(files, dirs \ {d \in {w.path} : EmptyDir(d)}, pending \ {w})

Init ==
    /\ files = InitFiles /\ dirs = InitDirs
    /\ pc = "idle" /\ call = [version |-> 2, recursive |-> TRUE, max |-> 1,
                              dir |-> Root, leaf |-> Names]
    /\ marker = NoKey /\ token = << >> /\ stack = << >> /\ page = << >>
    /\ pending = {} /\ last = NoKey /\ shown = {} /\ stable = {} /\ changes = 0 /\ faults = 0

Walk == LoadFrame \/ LoadFails \/ LeaveFrame \/ NextEntry \/ EndPage \/ StartPage

Next ==
    \/ \E c \in Calls : Begin(c)
    \/ StartPage \/ LoadFrame \/ LoadFails \/ LeaveFrame \/ NextEntry \/ EndPage
    \/ \E p \in Paths : Put("open", p) \/ Put("mkdir", p) \/ Delete(p)
    \/ \E w \in pending : CreateFile(w) \/ CreateDir(w) \/ Prune(w)

Spec == Init /\ [][Next]_vars

\* A client that goes on asking, and a gateway that goes on walking.
FairSpec == Spec /\ WF_vars(Walk)

-----------------------------------------------------------------------------
(* Properties. *)

\* The rank sequence of a key, with which keys compare as strings do.
Ranks(k) ==
    [i \in 1..Len(k.path) |->
        IF i < Len(k.path) \/ k.isDir THEN DirRank[k.path[i]] ELSE FileRank[k.path[i]]]
Before(k1, k2) ==
    LET a == Ranks(k1)  b == Ranks(k2) IN
    \E i \in 1..Len(b) :
        /\ \A j \in 1..(i - 1) : j <= Len(a) /\ a[j] = b[j]
        /\ i > Len(a) \/ a[i] < b[i]

\* A listing is in byte order and never repeats a key, over all its pages and
\* whatever is created and deleted between and during them, up to a single
\* system call: the next page resumes after the last key and not at it.  The
\* one exception is the first key of a page of version 1 after a page that
\* ended with an empty directory, see MarkerIsPassed.
Emits == Len(page') > Len(page)
Advances == last = NoKey \/ Before(last, last')
AfterEmptyDir == call.version = 1 /\ call.recursive /\ page = << >> /\ last.isDir
ListedInOrder == [][Emits => Advances \/ AfterEmptyDir]_vars

\* What the handler of version 1 says of itself: "marker positions us "after"
\* a previously emitted key".  It does not hold for one that is an empty directory.
MarkerIsPassed == [][Emits => Advances]_vars

\* A key that exists from the first page to the last is on one of them, or
\* under a common prefix that is: no page boundary and no change elsewhere
\* loses it.
Wanted(k) ==
    /\ S!IsPrefix(call.dir, k.path) /\ k.path # call.dir
    /\ k.path[Len(call.dir) + 1] \in call.leaf
Shown(k) ==
    \/ k \in shown
    \/ ~call.recursive /\ \E l \in shown : l.isDir /\ S!IsPrefix(l.path, k.path)
StableKeysListed == pc = "done" => \A k \in stable : Wanted(k) => Shown(k)

\* A listing ends, however the requests of others interleave with it, unless
\* it is one of version 1 and there is an empty directory to show.
EmptyDirShown == call.version = 1 /\ call.recursive /\ \E d \in dirs : EmptyDir(d) /\ ~Reserved(d)
ListingEnds == pc = "page" ~> (pc = "done" \/ EmptyDirShown)

\* If every page of version 1 starts after the marker, its listings end too.
\* Neither holds: with one key per page the same page comes back for ever.
EveryListingEnds == pc = "page" ~> pc = "done"

=============================================================================
