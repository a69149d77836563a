------------------------ MODULE RenameObjectProofs ------------------------
(***************************************************************************)
(* What the idempotency cache answers is true, a pending entry is never    *)
(* left behind, and a rename with If-None-Match: * destroys nothing, for   *)
(* any number of requests, tokens, keys and operations, and for any cap    *)
(* and time to live.                                                       *)
(*                                                                         *)
(* ReplaySound is not inductive: that a replayed answer is about the       *)
(* request's own token rests on what the map and the handlers hold, which  *)
(* EntryTokens says, and that it is about a rename that happened on        *)
(* DoneTrue.  Tokens and operations are set when a request arrives, so     *)
(* nothing may refer to a request before that (UnsentUnused).              *)
(*                                                                         *)
(* RenamedOnce rests on the entry's mutex and on what it protects: one     *)
(* request at a time executes for an entry, and none once it is committed. *)
(* That two requests with a token have the same entry holds while none of  *)
(* them has failed and the entry cannot expire (EntryKept).                *)
(***************************************************************************)
EXTENDS RenameObject, TLAPS

\* Nothing refers to a request that has not arrived.
UnsentUnused ==
    \A r \in Requests : pc[r] = "unsent" =>
        /\ status[r] = 0 /\ entry[r] = NoEntry /\ r \notin renamed /\ ~done[r].committed
        /\ \A t \in Tokens : cache[t] # r
        /\ \A q \in Requests : entry[q] # r

\* An entry is filed under, and held for, the token of the request that
\* created it.
EntryTokens ==
    /\ \A t \in Tokens : cache[t] \in Requests => token[cache[t]] = t
    /\ \A r \in Requests : entry[r] \in Requests => token[r] \in Tokens /\ token[entry[r]] = token[r]

\* A committed entry tells of a rename that took place under its token.
DoneTrue ==
    \A e \in Requests : done[e].committed =>
        \E q \in renamed : token[q] = token[e] /\ op[q] = done[e].op

\* A request about to commit has renamed.
CommitRenamed == \A r \in Requests : pc[r] = "commit" => r \in renamed

\* The inductive invariant.
IInv ==
    /\ TypeOK /\ UnsentUnused /\ EntryTokens /\ DoneTrue /\ CommitRenamed
    /\ ReplaySound /\ PendingHasCaller

\* The pending state is of its type.
LEMMA PendingType == Pending \in DoneType /\ Pending.op \in Operations /\ ~Pending.committed
BY ConstantsAssumption DEF Pending, DoneType

\* The invariant holds before any request.
LEMMA InitInv == Init => IInv
<1> SUFFICES ASSUME Init PROVE IInv OBVIOUS
<1>1. TypeOK
  <2>1. objects \in [Names -> Nat]
    BY ConstantsAssumption DEF Init, Names
  <2> QED BY <2>1, PendingType, ConstantsAssumption DEF Init, TypeOK, PCs, ExecPCs, Codes
<1>2. UnsentUnused /\ EntryTokens /\ DoneTrue /\ CommitRenamed /\ ReplaySound /\ PendingHasCaller
  BY PendingType, ConstantsAssumption
     DEF Init, UnsentUnused, EntryTokens, DoneTrue, CommitRenamed, ReplaySound, PendingHasCaller
<1> QED BY <1>1, <1>2 DEF IInv

\* The invariant survives an arrival: nobody refers to the request yet.
LEMMA ArriveStep ==
    ASSUME IInv, NEW r \in Requests, NEW t \in Tokens \cup {NoToken}, NEW o \in Operations,
           Arrive(r, t, o)
    PROVE  IInv'
<1> USE DEF IInv
<1>1. /\ pc[r] = "unsent" /\ token' = [token EXCEPT ![r] = t] /\ op' = [op EXCEPT ![r] = o]
      /\ (pc' = [pc EXCEPT ![r] = "source"] \/ (t \in Tokens /\ pc' = [pc EXCEPT ![r] = "insert"]))
      /\ UNCHANGED <<objects, cache, done, entry, status, renamed, now, faults, foreign>>
  BY DEF Arrive, Goto, envVars
<1>2. TypeOK' BY <1>1 DEF TypeOK, PCs, ExecPCs
<1>3. UnsentUnused' BY <1>1 DEF TypeOK, UnsentUnused
<1>4. EntryTokens' BY <1>1, ConstantsAssumption DEF TypeOK, EntryTokens, UnsentUnused
<1>5. DoneTrue' BY <1>1 DEF TypeOK, DoneTrue, UnsentUnused
<1>6. CommitRenamed' BY <1>1 DEF TypeOK, CommitRenamed
<1>7. ReplaySound' BY <1>1 DEF TypeOK, ReplaySound, UnsentUnused
<1>8. PendingHasCaller' BY <1>1 DEF TypeOK, PendingHasCaller, ExecPCs
<1> QED BY <1>2, <1>3, <1>4, <1>5, <1>6, <1>7, <1>8

\* The invariant survives enter's insertion into the map.
LEMMA InsertEntryStep ==
    ASSUME IInv, NEW r \in Requests, InsertEntry(r) PROVE IInv'
<1> USE DEF IInv
<1> DEFINE e == EntryFor(r)
<1>1. /\ pc[r] = "insert" /\ token[r] \in Tokens
      /\ cache' = [cache EXCEPT ![token[r]] = e] /\ entry' = [entry EXCEPT ![r] = e]
      /\ pc' = [pc EXCEPT ![r] = "lock"]
      /\ UNCHANGED <<objects, done, token, op, status, renamed, now, faults, foreign>>
  BY DEF InsertEntry, Goto, envVars, TypeOK
<1>2. /\ e \in Requests /\ token[e] = token[r] /\ pc[e] # "unsent"
      /\ cache[token[r]] # NoEntry => cache[token[r]] = e
  BY <1>1 DEF EntryFor, TypeOK, EntryTokens, UnsentUnused
<1> HIDE DEF e
<1>3. TypeOK' BY <1>1, <1>2 DEF TypeOK, PCs
<1>4. UnsentUnused' BY <1>1, <1>2 DEF TypeOK, UnsentUnused
<1>5. EntryTokens' BY <1>1, <1>2 DEF TypeOK, EntryTokens
<1>6. DoneTrue' BY <1>1 DEF DoneTrue
<1>7. CommitRenamed' BY <1>1 DEF TypeOK, CommitRenamed
<1>8. ReplaySound' BY <1>1 DEF ReplaySound
<1>9. PendingHasCaller' BY <1>1, <1>2 DEF TypeOK, PendingHasCaller, ExecPCs
<1> QED BY <1>3, <1>4, <1>5, <1>6, <1>7, <1>8, <1>9

\* The invariant survives the acquisition of the mutex: a replay repeats what
\* the entry tells.
LEMMA LockEntryStep ==
    ASSUME IInv, NEW r \in Requests, LockEntry(r) PROVE IInv'
<1> USE DEF IInv
<1> DEFINE e == entry[r]
<1>1. /\ pc[r] = "lock" /\ e \in Requests /\ token[e] = token[r]
      /\ UNCHANGED <<objects, cache, done, token, op, entry, renamed, now, faults, foreign>>
  BY DEF LockEntry, envVars, TypeOK, EntryTokens
<1>2. \/ /\ done[e].committed /\ done[e].op = op[r]
         /\ pc' = [pc EXCEPT ![r] = "done"] /\ status' = [status EXCEPT ![r] = 200]
      \/ /\ done[e].committed /\ done[e].op # op[r]
         /\ pc' = [pc EXCEPT ![r] = "done"] /\ status' = [status EXCEPT ![r] = 409]
      \/ /\ ~done[e].committed
         /\ pc' = [pc EXCEPT ![r] = "source"] /\ status' = status
  BY DEF LockEntry, Answer, Goto, SameRequest
<1>3. TypeOK' BY <1>1, <1>2 DEF TypeOK, PCs, ExecPCs, Codes
<1>4. UnsentUnused' BY <1>1, <1>2 DEF TypeOK, UnsentUnused
<1>5. EntryTokens' BY <1>1 DEF EntryTokens
<1>6. DoneTrue' BY <1>1 DEF DoneTrue
<1>7. CommitRenamed' BY <1>1, <1>2 DEF TypeOK, CommitRenamed
<1>8. ReplaySound'
  <2>1. done[e].committed => \E q \in renamed : token[q] = token[r] /\ op[q] = done[e].op
    BY <1>1 DEF DoneTrue
  <2> QED BY <1>1, <1>2, <2>1 DEF TypeOK, ReplaySound
<1>9. PendingHasCaller' BY <1>1, <1>2 DEF TypeOK, PendingHasCaller, ExecPCs
<1> QED BY <1>3, <1>4, <1>5, <1>6, <1>7, <1>8, <1>9

\* The invariant survives a client that goes away: the owner of the mutex it
\* waited for has the same token.
LEMMA GiveUpStep ==
    ASSUME IInv, NEW r \in Requests, GiveUp(r) PROVE IInv'
<1> USE DEF IInv
<1>1. /\ pc[r] = "lock" /\ faults < MaxFaults /\ faults' = faults + 1
      /\ pc' = [pc EXCEPT ![r] = "done"]
      /\ UNCHANGED <<objects, cache, done, token, op, entry, status, renamed, now, foreign>>
  BY DEF GiveUp, Goto
<1>2. PICK q \in Requests : pc[q] \in ExecPCs /\ entry[q] = entry[r]
  BY DEF GiveUp, Locked
<1>3. token[q] = token[r] /\ q # r
  BY <1>1, <1>2 DEF TypeOK, EntryTokens, ExecPCs
<1>4. TypeOK' BY <1>1, ConstantsAssumption DEF TypeOK, PCs
<1>5. UnsentUnused' BY <1>1 DEF TypeOK, UnsentUnused
<1>6. EntryTokens' /\ DoneTrue' /\ ReplaySound' BY <1>1 DEF EntryTokens, DoneTrue, ReplaySound
<1>7. CommitRenamed' BY <1>1 DEF TypeOK, CommitRenamed
<1>8. PendingHasCaller' BY <1>1, <1>2, <1>3 DEF TypeOK, PendingHasCaller, ExecPCs
<1> QED BY <1>4, <1>5, <1>6, <1>7, <1>8

\* The invariant survives every step of a request that owns its entry and goes
\* on, or answers with an error and is about to remove its entry.
LEMMA ExecStep ==
    ASSUME IInv, NEW r \in Requests, pc[r] \in {"source", "dest", "rename"},
           \/ Goto(r, "dest") /\ status' = status
           \/ Goto(r, "rename") /\ status' = status
           \/ \E code \in {404, 412, 500} : Abort(r, code),
           faults' \in 0..MaxFaults,
           UNCHANGED <<objects, cache, done, token, op, entry, renamed, now, foreign>>
    PROVE  IInv'
<1>0. /\ \/ pc' = [pc EXCEPT ![r] = "dest"] \/ pc' = [pc EXCEPT ![r] = "rename"]
         \/ pc' = [pc EXCEPT ![r] = IF entry[r] = NoEntry THEN "done" ELSE "remove"]
      /\ \/ status' = status
         \/ \E code \in {404, 412, 500} : status' = [status EXCEPT ![r] = code]
  BY DEF Goto, Abort
<1> USE DEF IInv
<1>1. TypeOK'
  <2>1. pc' \in [Requests -> PCs] /\ status' \in [Requests -> Codes]
    BY <1>0 DEF TypeOK, PCs, ExecPCs, Codes
  <2>2. \A q \in Requests : pc'[q] = "remove" => entry[q] \in Requests /\ token[q] \in Tokens
    BY <1>0 DEF TypeOK, EntryTokens
  <2>3. \A q \in Requests : pc'[q] \in {"insert", "lock"} => pc[q] = pc'[q]
    BY <1>0 DEF TypeOK
  <2> QED BY <2>1, <2>2, <2>3 DEF TypeOK
<1>2. UnsentUnused' BY <1>0 DEF TypeOK, UnsentUnused
<1>3. EntryTokens' BY DEF EntryTokens
<1>4. DoneTrue' BY DEF DoneTrue
<1>5. CommitRenamed' BY <1>0 DEF TypeOK, CommitRenamed
<1>6. ReplaySound'
  <2>1. \A q \in Requests : status'[q] \in {200, 409} => status[q] = status'[q]
    BY <1>0 DEF TypeOK, Codes
  <2> QED BY <2>1 DEF ReplaySound
<1>7. PendingHasCaller'
  <2>1. \A q \in Requests \ {r} : pc'[q] = pc[q] BY <1>0 DEF TypeOK
  <2>2. pc'[r] \in ExecPCs \/ pc'[r] = "remove" \/ entry[r] = NoEntry BY <1>0 DEF TypeOK, ExecPCs
  <2> QED BY <2>1, <2>2 DEF PendingHasCaller, TypeOK, ExecPCs
<1> QED BY <1>1, <1>2, <1>3, <1>4, <1>5, <1>6, <1>7

\* The invariant survives the look at the source.
LEMMA StatSourceStep ==
    ASSUME IInv, NEW r \in Requests, StatSource(r) PROVE IInv'
<1>1. faults' \in 0..MaxFaults BY DEF IInv, TypeOK, StatSource, envVars
<1>2. (Goto(r, "dest") /\ status' = status) \/ \E code \in {404, 412, 500} : Abort(r, code)
  BY DEF StatSource
<1>3. pc[r] = "source" /\ UNCHANGED <<objects, cache, done, token, op, entry, renamed, now, foreign>>
  BY DEF StatSource, envVars
<1> QED BY <1>1, <1>2, <1>3, ExecStep

\* The invariant survives the look at the destination.
LEMMA StatDestStep ==
    ASSUME IInv, NEW r \in Requests, StatDest(r) PROVE IInv'
<1>1. faults' \in 0..MaxFaults BY DEF IInv, TypeOK, StatDest, envVars
<1>2. (Goto(r, "rename") /\ status' = status) \/ \E code \in {404, 412, 500} : Abort(r, code)
  BY DEF StatDest
<1>3. pc[r] = "dest" /\ UNCHANGED <<objects, cache, done, token, op, entry, renamed, now, foreign>>
  BY DEF StatDest, envVars
<1> QED BY <1>1, <1>2, <1>3, ExecStep

\* The invariant survives an error of the file system.
LEMMA FileErrorStep ==
    ASSUME IInv, NEW r \in Requests, FileError(r) PROVE IInv'
<1>1. faults' \in 0..MaxFaults BY ConstantsAssumption DEF IInv, TypeOK, FileError
<1>2. Abort(r, 500) BY DEF FileError
<1>3. /\ pc[r] \in {"source", "dest", "rename"}
      /\ UNCHANGED <<objects, cache, done, token, op, entry, renamed, now, foreign>>
  BY DEF FileError
<1> QED BY <1>1, <1>2, <1>3, ExecStep

\* The invariant survives the rename.
LEMMA RenameStep ==
    ASSUME IInv, NEW r \in Requests, Rename(r) PROVE IInv'
<1>1. CASE UNCHANGED <<objects, renamed>> /\ \E code \in {404, 412, 500} : Abort(r, code)
  <2>1. faults' \in 0..MaxFaults BY DEF IInv, TypeOK, Rename, envVars
  <2>2. pc[r] = "rename" /\ UNCHANGED <<cache, done, token, op, entry, now, foreign>>
    BY DEF Rename, envVars
  <2> QED BY <1>1, <2>1, <2>2, ExecStep
<1>2. CASE ~(UNCHANGED <<objects, renamed>> /\ \E code \in {404, 412, 500} : Abort(r, code))
  <2> USE DEF IInv
  <2> DEFINE o == op[r]
  <2>1. /\ pc[r] = "rename" /\ pc' = [pc EXCEPT ![r] = "commit"]
        /\ objects' = [n \in Names |-> IF n = o.dst THEN objects[o.src]
                                       ELSE IF n = o.src THEN 0 ELSE objects[n]]
        /\ renamed' = renamed \cup {r}
        /\ UNCHANGED <<cache, done, token, op, entry, status, now, faults, foreign>>
    BY <1>2 DEF Rename, Goto, envVars
  <2>2. objects' \in [Names -> Nat]
    <3>1. o \in AnyOperation BY ConstantsAssumption DEF TypeOK
    <3>2. objects[o.src] \in Nat BY <3>1 DEF AnyOperation, TypeOK
    <3> QED BY <2>1, <3>2 DEF TypeOK
  <2>3. TypeOK' BY <2>1, <2>2 DEF TypeOK, PCs, ExecPCs
  <2>4. UnsentUnused' BY <2>1 DEF TypeOK, UnsentUnused
  <2>5. EntryTokens' /\ DoneTrue' /\ ReplaySound' BY <2>1 DEF EntryTokens, DoneTrue, ReplaySound
  <2>6. CommitRenamed' BY <2>1 DEF TypeOK, CommitRenamed
  <2>7. PendingHasCaller' BY <2>1 DEF TypeOK, PendingHasCaller, ExecPCs
  <2> QED BY <2>3, <2>4, <2>5, <2>6, <2>7
<1> QED BY <1>1, <1>2

\* The invariant survives commit: what the entry tells from now on is what the
\* request has done.
LEMMA CommitStep ==
    ASSUME IInv, NEW r \in Requests, Commit(r) PROVE IInv'
<1> USE DEF IInv
<1>1. /\ pc[r] = "commit" /\ pc' = [pc EXCEPT ![r] = "done"]
      /\ status' = [status EXCEPT ![r] = 200]
      /\ done' = [e \in Requests |-> IF e = entry[r] THEN Done(op[r], now) ELSE done[e]]
      /\ UNCHANGED <<objects, cache, token, op, entry, renamed, now, faults, foreign>>
  BY DEF Commit, Answer, Goto, envVars
<1>2. r \in renamed BY <1>1 DEF CommitRenamed
<1>3. /\ Done(op[r], now) \in DoneType
      /\ Done(op[r], now).committed /\ Done(op[r], now).op = op[r]
  BY DEF Done, DoneType, TypeOK
<1>4. TypeOK'
  <2>1. done' \in [Requests -> DoneType] BY <1>1, <1>3 DEF TypeOK
  <2> QED BY <1>1, <2>1 DEF TypeOK, PCs, Codes
<1>5. UnsentUnused' BY <1>1 DEF TypeOK, UnsentUnused
<1>6. EntryTokens' BY <1>1 DEF EntryTokens
<1>7. DoneTrue'
  <2> SUFFICES ASSUME NEW e \in Requests, done'[e].committed
               PROVE  \E q \in renamed : token[q] = token[e] /\ op[q] = done'[e].op
    BY <1>1 DEF DoneTrue
  <2>1. CASE e = entry[r] BY <1>1, <1>2, <1>3, <2>1 DEF EntryTokens
  <2>2. CASE e # entry[r] BY <1>1, <2>2 DEF DoneTrue
  <2> QED BY <2>1, <2>2
<1>8. CommitRenamed' BY <1>1 DEF TypeOK, CommitRenamed
<1>9. ReplaySound' BY <1>1, <1>2 DEF TypeOK, ReplaySound
<1>10. PendingHasCaller'
  <2> SUFFICES ASSUME NEW t \in Tokens, cache[t] # NoEntry, ~done'[cache[t]].committed
               PROVE  \E q \in Requests :
                        /\ token[q] = t
                        /\ \/ pc'[q] \in ExecPCs \cup {"lock"} /\ entry[q] = cache[t]
                           \/ pc'[q] = "remove"
    BY <1>1 DEF PendingHasCaller
  <2>1. cache[t] \in Requests BY DEF TypeOK
  <2>2. cache[t] # entry[r] BY <1>1, <1>3, <2>1
  <2>3. done'[cache[t]] = done[cache[t]] BY <1>1, <2>1, <2>2
  <2>4. PICK q \in Requests :
          /\ token[q] = t
          /\ \/ pc[q] \in ExecPCs \cup {"lock"} /\ entry[q] = cache[t]
             \/ pc[q] = "remove"
    BY <2>3 DEF PendingHasCaller
  <2>5. pc'[q] = pc[q] BY <1>1, <2>2, <2>4 DEF TypeOK
  <2> QED BY <2>4, <2>5
<1> QED BY <1>4, <1>5, <1>6, <1>7, <1>8, <1>9, <1>10

\* The invariant survives the second half of abandon.
LEMMA RemoveEntryStep ==
    ASSUME IInv, NEW r \in Requests, RemoveEntry(r) PROVE IInv'
<1> USE DEF IInv
<1>1. /\ pc[r] = "remove" /\ pc' = [pc EXCEPT ![r] = "done"] /\ token[r] \in Tokens
      /\ cache' = [cache EXCEPT ![token[r]] = NoEntry]
      /\ UNCHANGED <<objects, done, token, op, entry, status, renamed, now, faults, foreign>>
  BY DEF RemoveEntry, Goto, envVars, TypeOK
<1>2. TypeOK' BY <1>1 DEF TypeOK, PCs
<1>3. UnsentUnused' BY <1>1, ConstantsAssumption DEF TypeOK, UnsentUnused
<1>4. EntryTokens' BY <1>1, ConstantsAssumption DEF TypeOK, EntryTokens
<1>5. DoneTrue' /\ ReplaySound' BY <1>1 DEF DoneTrue, ReplaySound
<1>6. CommitRenamed' BY <1>1 DEF TypeOK, CommitRenamed
<1>7. PendingHasCaller' BY <1>1 DEF TypeOK, PendingHasCaller, ExecPCs
<1> QED BY <1>2, <1>3, <1>4, <1>5, <1>6, <1>7

\* The invariant survives the sweeper.
LEMMA SweepStep ==
    ASSUME IInv, NEW t \in Tokens, Sweep(t) PROVE IInv'
<1> USE DEF IInv, reqVars, envVars
<1>1. /\ cache' = [cache EXCEPT ![t] = NoEntry]
      /\ UNCHANGED <<objects, done, pc, token, op, entry, status, renamed, now, faults, foreign>>
  BY DEF Sweep
<1>2. TypeOK' BY <1>1 DEF TypeOK
<1>3. UnsentUnused' BY <1>1, ConstantsAssumption DEF TypeOK, UnsentUnused
<1>4. EntryTokens' BY <1>1, ConstantsAssumption DEF TypeOK, EntryTokens
<1>5. DoneTrue' /\ ReplaySound' /\ CommitRenamed' BY <1>1 DEF DoneTrue, ReplaySound, CommitRenamed
<1>6. PendingHasCaller' BY <1>1 DEF TypeOK, PendingHasCaller
<1> QED BY <1>2, <1>3, <1>4, <1>5, <1>6

\* The invariant survives other writers, the clock and stuttering.
LEMMA EnvironmentStep ==
    ASSUME IInv, (\E n \in Names : OtherPut(n) \/ OtherDelete(n)) \/ Tick \/ UNCHANGED vars
    PROVE  IInv'
<1> USE DEF IInv, reqVars, envVars
<1>1. /\ UNCHANGED <<cache, done, pc, token, op, entry, status, renamed, faults>>
      /\ objects' \in [Names -> Nat] /\ now' \in Nat /\ foreign' \in Nat
  <2>1. CASE \E n \in Names : OtherPut(n)
    <3>1. PICK n \in Names : OtherPut(n)
      BY <2>1
    <3>2. foreign \in Nat /\ MaxName + foreign' \in Nat
      BY <3>1, ConstantsAssumption DEF OtherPut, TypeOK
    <3> QED BY <3>1, <3>2 DEF OtherPut, TypeOK
  <2>2. CASE \E n \in Names : OtherDelete(n)
    BY <2>2 DEF OtherDelete, TypeOK
  <2>3. CASE Tick
    BY <2>3 DEF Tick, TypeOK
  <2>4. CASE UNCHANGED vars
    BY <2>4 DEF vars, TypeOK
  <2> QED BY <2>1, <2>2, <2>3, <2>4
<1>2. TypeOK' BY <1>1 DEF TypeOK
<1>3. /\ UnsentUnused' /\ EntryTokens' /\ DoneTrue' /\ CommitRenamed' /\ ReplaySound'
      /\ PendingHasCaller'
  BY <1>1 DEF UnsentUnused, EntryTokens, DoneTrue, CommitRenamed, ReplaySound, PendingHasCaller
<1> QED BY <1>2, <1>3

\* The inductive invariant holds in every reachable state.
THEOREM InductiveInvariant == Spec => []IInv
<1>1. IInv /\ [Next]_vars => IInv'
  <2> SUFFICES ASSUME IInv, [Next]_vars PROVE IInv' OBVIOUS
  <2>1. ASSUME NEW r \in Requests, NEW t \in Tokens \cup {NoToken}, NEW o \in Operations,
               Arrive(r, t, o) PROVE IInv'
    BY <2>1, ArriveStep
  <2>2. ASSUME NEW r \in Requests, RequestStep(r) PROVE IInv'
    BY <2>2, InsertEntryStep, LockEntryStep, StatSourceStep, StatDestStep, RenameStep,
       CommitStep, RemoveEntryStep DEF RequestStep
  <2>3. ASSUME NEW r \in Requests, GiveUp(r) \/ FileError(r) PROVE IInv'
    BY <2>3, GiveUpStep, FileErrorStep
  <2>4. ASSUME NEW t \in Tokens, Sweep(t) PROVE IInv' BY <2>4, SweepStep
  <2> QED BY <2>1, <2>2, <2>3, <2>4, EnvironmentStep DEF Next
<1> QED BY InitInv, <1>1, PTL DEF Spec

\* Every variable keeps its type, and a request that waits or removes has an
\* entry and a token.
THEOREM TypeInvariant == Spec => []TypeOK
<1>1. IInv => TypeOK BY DEF IInv
<1> QED BY InductiveInvariant, <1>1, PTL

\* What the cache answers is true: a replayed 200 stands for a rename of the
\* same token and parameters, a 409 for one with other parameters.
THEOREM ReplaySoundInvariant == Spec => []ReplaySound
<1>1. IInv => ReplaySound BY DEF IInv
<1> QED BY InductiveInvariant, <1>1, PTL

\* A pending entry in the map has a live caller that will commit or remove it,
\* although abandon releases the mutex before it removes the entry.
THEOREM PendingHasCallerInvariant == Spec => []PendingHasCaller
<1>1. IInv => PendingHasCaller BY DEF IInv
<1> QED BY InductiveInvariant, <1>1, PTL

\* A rename with If-None-Match: * destroys no object, however the destination
\* changes between the handler's look at it and the rename.
THEOREM NoReplaceSafeProperty == Spec => NoReplaceSafe
<1> DEFINE Safe ==
      \A n \in Names :
         /\ objects[n] # 0 /\ foreign' = foreign
         /\ \A m \in Names : objects'[m] # objects[n]
         => \E r \in Requests :
              pc[r] = "rename" /\ pc'[r] = "commit" /\ op[r].dst = n /\ op[r].ifNoneMatch # Star
<1>1. TypeOK /\ Next => Safe
  <2> SUFFICES ASSUME TypeOK, Next, NEW n \in Names, objects[n] # 0, foreign' = foreign,
                      \A m \in Names : objects'[m] # objects[n]
               PROVE  \E r \in Requests : /\ pc[r] = "rename" /\ pc'[r] = "commit"
                                          /\ op[r].dst = n /\ op[r].ifNoneMatch # Star
    OBVIOUS
  <2>1. objects' # objects OBVIOUS
  <2>2. foreign \in Nat BY DEF TypeOK
  <2>3. \E r \in Requests : Rename(r)
    BY <2>1, <2>2 DEF Next, RequestStep, Arrive, InsertEntry, LockEntry, StatSource, StatDest,
       Commit, RemoveEntry, GiveUp, FileError, Sweep, OtherPut, OtherDelete, Tick
  <2>4. PICK r \in Requests : Rename(r) BY <2>3
  <2> DEFINE o == op[r]
  <2>5. /\ pc[r] = "rename" /\ pc' = [pc EXCEPT ![r] = "commit"] /\ ~Refused(o)
        /\ objects' = [m \in Names |-> IF m = o.dst THEN objects[o.src]
                                       ELSE IF m = o.src THEN 0 ELSE objects[m]]
    BY <2>1, <2>4 DEF Rename, Goto
  <2>6. o.dst \in Names /\ o.src \in Names
    BY <2>4, ConstantsAssumption DEF TypeOK, AnyOperation
  <2>7. n = o.dst BY <2>5, <2>6
  <2>8. pc'[r] = "commit" BY <2>5 DEF TypeOK
  <2> QED BY <2>5, <2>7, <2>8 DEF Refused
<1>2. TypeOK /\ [Next]_vars => [Safe]_vars BY <1>1
<1> QED BY TypeInvariant, <1>2, PTL DEF Spec, NoReplaceSafe

-----------------------------------------------------------------------------
\* One rename per token.

\* No request with the token has been refused, and no entry is old enough for
\* the sweeper.
Undisturbed(t) ==
    /\ now < Ttl
    /\ \A q \in Requests : token[q] = t => status[q] \in {0, 200, 409}

\* An entry's mutex: one request executes for it, and none does once it is
\* committed.
EntryExclusive ==
    \A r \in Requests : pc[r] \in ExecPCs /\ entry[r] \in Requests =>
        /\ ~done[entry[r]].committed
        /\ \A q \in Requests : pc[q] \in ExecPCs /\ entry[q] = entry[r] => q = r

\* A request that has renamed for an entry is about to commit it or has done so,
\* and no other one has renamed for it.
EntryRenamedOnce ==
    \A r \in renamed : entry[r] \in Requests =>
        /\ pc[r] = "commit" \/ done[entry[r]].committed
        /\ \A q \in renamed : entry[q] = entry[r] => q = r

\* A request renames just before it commits.
RenamedLate == \A r \in renamed : pc[r] \in {"commit", "done"}

\* A request is answered when it ends; one about to remove its entry has failed.
StatusFinal ==
    \A r \in Requests :
        /\ pc[r] \notin {"remove", "done"} => status[r] = 0
        /\ pc[r] = "remove" => status[r] \notin {0, 200, 409}

\* The map keeps the entry that the undisturbed requests of a token share.
EntryKept ==
    \A t \in Tokens : Undisturbed(t) =>
        \A r \in Requests : token[r] = t /\ entry[r] \in Requests => cache[t] = entry[r]

OnceInv == EntryExclusive /\ EntryRenamedOnce /\ RenamedLate /\ StatusFinal /\ EntryKept

\* It holds before any request.
LEMMA OnceInit == Init => OnceInv
BY ConstantsAssumption
   DEF Init, OnceInv, EntryExclusive, EntryRenamedOnce, RenamedLate, StatusFinal, EntryKept, ExecPCs

\* An arrival neither has an entry nor an answer.
LEMMA OnceArrive ==
    ASSUME IInv, OnceInv, NEW r \in Requests, NEW t \in Tokens \cup {NoToken}, NEW o \in Operations,
           Arrive(r, t, o)
    PROVE  OnceInv'
<1> USE DEF IInv, OnceInv
<1>1. /\ pc[r] = "unsent" /\ token' = [token EXCEPT ![r] = t]
      /\ (pc' = [pc EXCEPT ![r] = "source"] \/ pc' = [pc EXCEPT ![r] = "insert"])
      /\ UNCHANGED <<cache, done, entry, status, renamed, now>>
  BY DEF Arrive, Goto, envVars
<1>2. entry[r] = NoEntry /\ NoEntry \notin Requests /\ status[r] = 0 /\ r \notin renamed
  BY <1>1, ConstantsAssumption DEF UnsentUnused
<1>3. EntryExclusive' BY <1>1, <1>2 DEF TypeOK, EntryExclusive
<1>4. EntryRenamedOnce' BY <1>1, <1>2 DEF TypeOK, EntryRenamedOnce
<1>5. StatusFinal' /\ RenamedLate' BY <1>1, <1>2 DEF TypeOK, StatusFinal, RenamedLate
<1>6. ASSUME NEW u \in Tokens, Undisturbed(u)' PROVE Undisturbed(u)
  BY <1>1, <1>2, <1>6 DEF Undisturbed, TypeOK
<1>7. EntryKept' BY <1>1, <1>2, <1>6 DEF EntryKept, TypeOK
<1> QED BY <1>3, <1>4, <1>5, <1>7

\* enter gives the request the entry that the map has, or a new one if no
\* undisturbed request has any.
LEMMA OnceInsertEntry ==
    ASSUME IInv, OnceInv, NEW r \in Requests, InsertEntry(r) PROVE OnceInv'
<1> USE DEF IInv, OnceInv
<1> DEFINE e == EntryFor(r)
<1>1. /\ pc[r] = "insert" /\ token[r] \in Tokens
      /\ cache' = [cache EXCEPT ![token[r]] = e] /\ entry' = [entry EXCEPT ![r] = e]
      /\ pc' = [pc EXCEPT ![r] = "lock"]
      /\ UNCHANGED <<done, token, status, renamed, now>>
  BY DEF InsertEntry, Goto, envVars, TypeOK
<1>2. e \in Requests /\ (cache[token[r]] \in Requests => cache[token[r]] = e)
  BY <1>1, ConstantsAssumption DEF EntryFor, TypeOK
<1>3. r \notin renamed
  BY <1>1 DEF RenamedLate
<1> HIDE DEF e
<1>4. EntryExclusive' BY <1>1 DEF TypeOK, EntryExclusive, ExecPCs
<1>5. EntryRenamedOnce' BY <1>1, <1>3 DEF TypeOK, EntryRenamedOnce
<1>6. StatusFinal' /\ RenamedLate' BY <1>1 DEF TypeOK, StatusFinal, RenamedLate
<1>7. EntryKept' BY <1>1, <1>2 DEF TypeOK, EntryKept, Undisturbed
<1> QED BY <1>4, <1>5, <1>6, <1>7

\* The mutex is taken when nobody executes, and the entry is still pending.
LEMMA OnceLockEntry ==
    ASSUME IInv, OnceInv, NEW r \in Requests, LockEntry(r) PROVE OnceInv'
<1> USE DEF IInv, OnceInv
<1>1. /\ pc[r] = "lock" /\ ~Locked(entry[r])
      /\ UNCHANGED <<cache, done, token, entry, renamed, now>>
  BY DEF LockEntry, envVars
<1>2. \/ /\ done[entry[r]].committed
         /\ pc' = [pc EXCEPT ![r] = "done"]
         /\ status' = [status EXCEPT ![r] = 200] \/ status' = [status EXCEPT ![r] = 409]
      \/ /\ ~done[entry[r]].committed
         /\ pc' = [pc EXCEPT ![r] = "source"] /\ status' = status
  BY DEF LockEntry, Answer, Goto
<1>3. EntryExclusive' BY <1>1, <1>2 DEF TypeOK, EntryExclusive, Locked, ExecPCs
<1>4. EntryRenamedOnce' BY <1>1, <1>2 DEF TypeOK, EntryRenamedOnce
<1>5. StatusFinal' /\ RenamedLate' BY <1>1, <1>2 DEF TypeOK, StatusFinal, RenamedLate
<1>6. status[r] = 0 BY <1>1 DEF StatusFinal
<1>7. ASSUME NEW u \in Tokens, Undisturbed(u)' PROVE Undisturbed(u)
  BY <1>1, <1>2, <1>6, <1>7 DEF Undisturbed, TypeOK
<1>8. EntryKept' BY <1>1, <1>7 DEF EntryKept
<1> QED BY <1>3, <1>4, <1>5, <1>8

\* A client that goes away leaves the map and the answers alone.
LEMMA OnceGiveUp ==
    ASSUME IInv, OnceInv, NEW r \in Requests, GiveUp(r) PROVE OnceInv'
<1> USE DEF IInv, OnceInv
<1>1. /\ pc[r] = "lock" /\ pc' = [pc EXCEPT ![r] = "done"]
      /\ UNCHANGED <<cache, done, token, entry, status, renamed, now>>
  BY DEF GiveUp, Goto
<1>2. EntryExclusive' BY <1>1 DEF TypeOK, EntryExclusive, ExecPCs
<1>3. EntryRenamedOnce' BY <1>1 DEF TypeOK, EntryRenamedOnce
<1>4. StatusFinal' /\ RenamedLate' BY <1>1 DEF TypeOK, StatusFinal, RenamedLate
<1>5. EntryKept' BY <1>1 DEF EntryKept, Undisturbed
<1> QED BY <1>2, <1>3, <1>4, <1>5

\* A request that owns its entry goes on or fails; a failure disturbs its token.
LEMMA OnceExec ==
    ASSUME IInv, OnceInv, NEW r \in Requests, pc[r] \in {"source", "dest", "rename"},
           \/ Goto(r, "dest") /\ status' = status
           \/ Goto(r, "rename") /\ status' = status
           \/ \E code \in {404, 412, 500} : Abort(r, code),
           UNCHANGED <<cache, done, token, entry, renamed, now>>
    PROVE  OnceInv'
<1> USE DEF IInv, OnceInv
<1>1. \/ /\ pc' = [pc EXCEPT ![r] = "dest"] \/ pc' = [pc EXCEPT ![r] = "rename"]
         /\ status' = status
      \/ /\ pc' = [pc EXCEPT ![r] = "done"] \/ pc' = [pc EXCEPT ![r] = "remove"]
         /\ \E code \in {404, 412, 500} : status' = [status EXCEPT ![r] = code]
  BY DEF Goto, Abort
<1>2. EntryExclusive' BY <1>1 DEF TypeOK, EntryExclusive, ExecPCs
<1>3. EntryRenamedOnce' BY <1>1 DEF TypeOK, EntryRenamedOnce
<1>4. StatusFinal' /\ RenamedLate' BY <1>1 DEF TypeOK, StatusFinal, RenamedLate
<1>5. status[r] = 0 BY DEF StatusFinal
<1>6. ASSUME NEW u \in Tokens, Undisturbed(u)' PROVE Undisturbed(u)
  BY <1>1, <1>5, <1>6 DEF Undisturbed, TypeOK
<1>7. EntryKept' BY <1>6 DEF EntryKept
<1> QED BY <1>2, <1>3, <1>4, <1>7

\* The rename is the first one for the entry, which is pending and locked.
LEMMA OnceRename ==
    ASSUME IInv, OnceInv, NEW r \in Requests, Rename(r) PROVE OnceInv'
<1>1. CASE UNCHANGED <<objects, renamed>> /\ \E code \in {404, 412, 500} : Abort(r, code)
  BY <1>1, OnceExec DEF Rename, envVars
<1>2. CASE ~(UNCHANGED <<objects, renamed>> /\ \E code \in {404, 412, 500} : Abort(r, code))
  <2> USE DEF IInv, OnceInv
  <2>1. /\ pc[r] = "rename" /\ pc' = [pc EXCEPT ![r] = "commit"]
        /\ renamed' = renamed \cup {r}
        /\ UNCHANGED <<cache, done, token, entry, status, now>>
    BY <1>2 DEF Rename, Goto, envVars
  <2>2. EntryExclusive' BY <2>1 DEF TypeOK, EntryExclusive, ExecPCs
  <2>3. ASSUME entry[r] \in Requests, NEW q \in renamed, entry[q] = entry[r] PROVE q = r
    <3>1. q \in Requests /\ (pc[q] = "commit" \/ done[entry[r]].committed)
      BY <2>3 DEF EntryRenamedOnce, TypeOK
    <3> QED BY <2>1, <2>3, <3>1 DEF EntryExclusive, ExecPCs
  <2>4. EntryRenamedOnce' BY <2>1, <2>3 DEF TypeOK, EntryRenamedOnce
  <2>5. StatusFinal' /\ RenamedLate' BY <2>1 DEF TypeOK, StatusFinal, RenamedLate
  <2>6. EntryKept' BY <2>1 DEF EntryKept, Undisturbed
  <2> QED BY <2>2, <2>4, <2>5, <2>6
<1> QED BY <1>1, <1>2

\* commit ends the only execution for the entry.
LEMMA OnceCommit ==
    ASSUME IInv, OnceInv, NEW r \in Requests, Commit(r) PROVE OnceInv'
<1> USE DEF IInv, OnceInv
<1>1. /\ pc[r] = "commit" /\ pc' = [pc EXCEPT ![r] = "done"]
      /\ status' = [status EXCEPT ![r] = 200]
      /\ done' = [e \in Requests |-> IF e = entry[r] THEN Done(op[r], now) ELSE done[e]]
      /\ UNCHANGED <<cache, token, entry, renamed, now>>
  BY DEF Commit, Answer, Goto, envVars
<1>2. Done(op[r], now).committed BY DEF Done
<1>3. \A e \in Requests : /\ e = entry[r] => done'[e].committed
                          /\ e # entry[r] => done'[e] = done[e]
  BY <1>1, <1>2
<1>4. EntryExclusive'
  <2> SUFFICES ASSUME NEW q \in Requests, pc'[q] \in ExecPCs, entry[q] \in Requests
               PROVE  /\ ~done'[entry[q]].committed
                      /\ \A p \in Requests : pc'[p] \in ExecPCs /\ entry[p] = entry[q] => p = q
    BY <1>1 DEF EntryExclusive
  <2>1. q # r /\ pc[q] \in ExecPCs /\ \A p \in Requests : pc'[p] \in ExecPCs => pc[p] \in ExecPCs
    BY <1>1 DEF TypeOK, ExecPCs
  <2>2. entry[q] # entry[r] BY <1>1, <2>1 DEF EntryExclusive, ExecPCs
  <2> QED BY <1>3, <2>1, <2>2 DEF EntryExclusive
<1>5. EntryRenamedOnce'
  <2> SUFFICES ASSUME NEW q \in renamed, entry[q] \in Requests
               PROVE  /\ pc'[q] = "commit" \/ done'[entry[q]].committed
                      /\ \A p \in renamed : entry[p] = entry[q] => p = q
    BY <1>1 DEF EntryRenamedOnce
  <2>1. q \in Requests /\ (q # r => pc'[q] = pc[q]) BY <1>1 DEF TypeOK
  <2> QED BY <1>3, <2>1 DEF EntryRenamedOnce
<1>6. StatusFinal' /\ RenamedLate' BY <1>1 DEF TypeOK, StatusFinal, RenamedLate
<1>7. status[r] = 0 BY <1>1 DEF StatusFinal
<1>8. ASSUME NEW u \in Tokens, Undisturbed(u)' PROVE Undisturbed(u)
  BY <1>1, <1>7, <1>8 DEF Undisturbed, TypeOK
<1>9. EntryKept' BY <1>1, <1>8 DEF EntryKept
<1> QED BY <1>4, <1>5, <1>6, <1>9

\* abandon removes the entry of a token with a failed request, and the sweeper
\* only what was committed Ttl ago.
LEMMA OnceRemove ==
    ASSUME IInv, OnceInv, (\E r \in Requests : RemoveEntry(r)) \/ (\E t \in Tokens : Sweep(t))
    PROVE  OnceInv'
<1> USE DEF IInv, OnceInv
<1>1. ASSUME NEW r \in Requests, RemoveEntry(r) PROVE OnceInv'
  <2>1. /\ pc[r] = "remove" /\ pc' = [pc EXCEPT ![r] = "done"] /\ token[r] \in Tokens
        /\ cache' = [cache EXCEPT ![token[r]] = NoEntry]
        /\ UNCHANGED <<done, token, entry, status, renamed, now>>
    BY <1>1 DEF RemoveEntry, Goto, envVars, TypeOK
  <2>2. EntryExclusive' BY <2>1 DEF TypeOK, EntryExclusive, ExecPCs
  <2>3. EntryRenamedOnce' BY <2>1 DEF TypeOK, EntryRenamedOnce
  <2>4. StatusFinal' /\ RenamedLate' BY <2>1 DEF TypeOK, StatusFinal, RenamedLate
  <2>5. ~Undisturbed(token[r]) BY <2>1 DEF StatusFinal, Undisturbed
  <2>6. EntryKept' BY <2>1, <2>5 DEF EntryKept, Undisturbed, TypeOK
  <2> QED BY <2>2, <2>3, <2>4, <2>6
<1>2. ASSUME NEW t \in Tokens, Sweep(t) PROVE OnceInv'
  <2>1. /\ cache' = [cache EXCEPT ![t] = NoEntry] /\ cache[t] \in Requests /\ Expired(cache[t])
        /\ UNCHANGED <<done, pc, token, entry, status, renamed, now>>
    BY <1>2 DEF Sweep, reqVars, envVars, TypeOK
  <2>2. EntryExclusive' /\ EntryRenamedOnce' /\ RenamedLate' /\ StatusFinal'
    BY <2>1 DEF EntryExclusive, EntryRenamedOnce, RenamedLate, StatusFinal
  <2>3. ~(now < Ttl)
    <3>1. done[cache[t]].at \in Nat /\ now \in Nat BY <2>1 DEF TypeOK, DoneType
    <3>2. now - done[cache[t]].at >= Ttl BY <2>1 DEF Expired
    <3> QED BY <3>1, <3>2, ConstantsAssumption
  <2>4. EntryKept' BY <2>1, <2>3 DEF EntryKept, Undisturbed
  <2> QED BY <2>2, <2>4
<1> QED BY <1>1, <1>2

\* Other writers, the clock and stuttering.
LEMMA OnceEnvironment ==
    ASSUME IInv, OnceInv, (\E n \in Names : OtherPut(n) \/ OtherDelete(n)) \/ Tick \/ UNCHANGED vars
    PROVE  OnceInv'
<1> USE DEF IInv, OnceInv
<1>1. /\ UNCHANGED <<cache, done, pc, token, entry, status, renamed>>
      /\ now' = now \/ now' = now + 1
  BY DEF OtherPut, OtherDelete, Tick, vars, reqVars, envVars
<1>2. EntryExclusive' /\ EntryRenamedOnce' /\ RenamedLate' /\ StatusFinal'
  BY <1>1 DEF EntryExclusive, EntryRenamedOnce, RenamedLate, StatusFinal
<1>3. now' < Ttl => now < Ttl BY <1>1, ConstantsAssumption DEF TypeOK
<1>4. EntryKept' BY <1>1, <1>3 DEF EntryKept, Undisturbed
<1> QED BY <1>2, <1>4

\* However many retries carry a token, and whoever puts the source back, its
\* rename is carried out once, as long as none of them has failed and the entry
\* is within its time to live: for any number of requests and tokens.
THEOREM RenamedOnceInvariant == Spec => []RenamedOnce
<1>1. IInv /\ OnceInv /\ [Next]_vars => OnceInv'
  <2> SUFFICES ASSUME IInv, OnceInv, [Next]_vars PROVE OnceInv' OBVIOUS
  <2>1. ASSUME NEW r \in Requests, NEW t \in Tokens \cup {NoToken}, NEW o \in Operations,
               Arrive(r, t, o) PROVE OnceInv'
    BY <2>1, OnceArrive
  <2>2. ASSUME NEW r \in Requests, StatSource(r) \/ StatDest(r) \/ FileError(r) PROVE OnceInv'
    BY <2>2, OnceExec DEF StatSource, StatDest, FileError, envVars
  <2>3. ASSUME NEW r \in Requests, RequestStep(r) \/ GiveUp(r) PROVE OnceInv'
    BY <2>2, <2>3, OnceInsertEntry, OnceLockEntry, OnceRename, OnceCommit, OnceRemove, OnceGiveUp
       DEF RequestStep
  <2> QED BY <2>1, <2>2, <2>3, OnceRemove, OnceEnvironment DEF Next
<1>2. IInv /\ OnceInv => RenamedOnce
  <2> SUFFICES ASSUME IInv, OnceInv, NEW r1 \in renamed, NEW r2 \in renamed,
                      token[r1] = token[r2], entry[r1] # NoEntry, entry[r2] # NoEntry,
                      Undisturbed(token[r1])
               PROVE  r1 = r2
    BY DEF RenamedOnce, Undisturbed
  <2>1. /\ r1 \in Requests /\ entry[r1] \in Requests
        /\ r2 \in Requests /\ entry[r2] \in Requests /\ token[r1] \in Tokens
    BY DEF IInv, TypeOK, EntryTokens
  <2>2. entry[r1] = entry[r2] BY <2>1 DEF OnceInv, EntryKept
  <2> QED BY <2>1, <2>2 DEF OnceInv, EntryRenamedOnce
<1> QED BY InductiveInvariant, OnceInit, <1>1, <1>2, PTL DEF Spec

=============================================================================
