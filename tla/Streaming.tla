----------------------------- MODULE Streaming -----------------------------
(***************************************************************************)
(* Data transfer of the gateway: uploads, downloads and copies share one   *)
(* pool of buffers and one io_uring thread.                                *)
(*                                                                         *)
(* A chunk is what one buffer holds.  Its status says who has the buffer:  *)
(* the task, the ring, the channel to the client, or the pool again.  The  *)
(* pool is a queue of buffers with a fair semaphore that counts them.  The *)
(* ring has a slot for every buffer, so handing it an operation never      *)
(* waits.                                                                  *)
(* Alignment and padding for O_DIRECT are left out.                        *)
(***************************************************************************)
EXTENDS Naturals, FiniteSets, Sequences, Functions

CONSTANTS
    Streams,
    Mixes,          \* what the streams may be, a set of functions Streams -> Kinds
    Chunks,         \* Kinds -> Nat \ {0}: length of a body in chunks
    Inflight,       \* cfg.inflight
    PoolSize,       \* buffers; the depth of the ring
    MaxFaults,      \* bound on I/O errors, broken bodies, clients that leave
    MaxRingFaults   \* 1 when the ring may fail

Kinds == {"download", "small", "upload", "copy"}
Buffers == 1..PoolSize
NoOp == <<"none", 0>>
Blank == <<"blank", 0>>

ASSUME StreamAssumption ==
    /\ Mixes \subseteq [Streams -> Kinds]
    /\ Chunks \in [Kinds -> Nat \ {0}] /\ Chunks["small"] = 1
ASSUME BoundAssumption ==
    /\ Inflight \in Nat \ {0} /\ PoolSize \in Nat \ {0}
    /\ MaxFaults \in Nat /\ MaxRingFaults \in {0, 1}

VARIABLES
    kind,       \* what each stream is
    pc,         \* where the task is
    st,         \* status of the chunks of a stream
    buf,        \* the buffer of a chunk
    content,    \* what is in a buffer
    queue,      \* BufPool.q; BufPool.sem counts it
    waiters,    \* those who wait for a permit, in order
    pending,    \* SessionInner.pending: writes that have not completed
    closed,     \* SessionInner.closed
    err,        \* SessionInner.err is set, and the session cancelled
    result,     \* what the session sent to wait()
    ringAt,     \* the write whose completion the ring thread works on
    ring,       \* "up", "failing" (drained, still receiving), "down"
    left,       \* the client of a download has gone
    got,        \* what the client of a download has received
    short,      \* chunks of which a read has found less than the file had, or nothing
    late,       \* buffers in the pool that the kernel still reads into
    disk,       \* what has been written
    answer,     \* what the handler returned
    faults

poolVars == <<queue, waiters>>
sessVars == <<pending, closed, err, result>>
vars == <<kind, pc, st, buf, content, queue, waiters, pending, closed, err, result,
          ringAt, ring, left, got, disk, answer, faults, short, late>>

Cs(s) == 1..Chunks[kind[s]]
With(s, p) == {c \in Cs(s) : st[s][c] \in p}
First(C) == CHOOSE c \in C : \A d \in C : c <= d
AtMost(a, b) == IF a < b THEN a ELSE b

Allowed(s) == AtMost(Inflight, Chunks[kind[s]])
\* FuturesOrdered, and the chunks that hold a permit of the stream.
Futures(s) == With(s, {"planned", "waiting", "held", "reading", "read", "failed"})
InUse(s) == Cardinality(With(s, {"waiting", "held", "reading", "read", "framed", "writing", "completed"}))
Unplanned(s) == With(s, {"none"})
Cancelled(s) == err[s] \/ ring # "up"

-----------------------------------------------------------------------------
(* The pool. *)

Set(s, C, v) == [st EXCEPT ![s] = [c \in Cs(s) |-> IF c \in C THEN v ELSE st[s][c]]]

\* The orders in which the elements of a set can come.
Orders(S) == Bijection(1..Cardinality(S), S)

\* Drop of PooledBuf: the buffer goes back, then its permits are released.
\* Futures that are dropped together are dropped in no particular order.
PutBack_Leak(s, C) == UNCHANGED queue
PutBack(s, C) == \E q \in Orders({buf[s][c] : c \in C}) : queue' = queue \o q

\* The waiters of a stream leave the line, which keeps its order.
LeaveLine(s) ==
    \E p \in Orders({i \in 1..Len(waiters) : waiters[i][1] # s}) :
        /\ \A i, j \in DOMAIN p : i < j => p[i] < p[j]
        /\ waiters' = [i \in DOMAIN p |-> waiters[p[i]]]

\* acquire_for_stream: the stream's permit, then in line for the pool's.
StreamPermits(s) ==
    IF kind[s] = "download" THEN Allowed(s) + Inflight ELSE Allowed(s)
Acquire(s, c) ==
    /\ InUse(s) < StreamPermits(s)
    /\ st' = Set(s, {c}, "waiting") /\ waiters' = Append(waiters, <<s, c>>)

\* The head of the line gets a permit and pops a buffer.
Grant ==
    /\ waiters # << >> /\ queue # << >>
    /\ LET s == Head(waiters)[1]
           c == Head(waiters)[2]
           more == kind[s] = "download" /\ Unplanned(s) # {}
                     /\ Cardinality(Futures(s)) < Allowed(s)
       IN /\ st' = Set(s, {c}, "held")
          /\ buf' = [buf EXCEPT ![s][c] = Head(queue)]
          /\ pc' = [pc EXCEPT ![s] = IF @ # "acquire" THEN @
                                     ELSE IF more THEN "plan"
                                     ELSE IF kind[s] = "upload" THEN "recv" ELSE "await"]
    /\ queue' = Tail(queue) /\ waiters' = Tail(waiters)
    /\ UNCHANGED <<kind, content, sessVars, ringAt, ring, left, got, disk, answer, faults, short, late>>

-----------------------------------------------------------------------------
(* The task of a stream. *)

\* The task returns, or is dropped: what it holds goes back to the pool, what
\* the ring or the channel holds stays, and its sender is closed.
Return(s, a) ==
    LET mine == With(s, {"held", "read"})
        never == With(s, {"none", "planned", "waiting", "failed"})
    IN /\ PutBack(s, mine)
       /\ st' = Set(s, mine \cup never, "gone") /\ LeaveLine(s)
       /\ closed' = [closed EXCEPT ![s] = TRUE]
       /\ pc' = [pc EXCEPT ![s] = "done"] /\ answer' = [answer EXCEPT ![s] = a]

\* Download, small read, upload: one chunk is asked for at a time.
PlanOne(s) ==
    /\ pc[s] = "plan" /\ kind[s] # "copy" /\ Unplanned(s) # {}
    /\ Acquire(s, First(Unplanned(s)))
    /\ pc' = [pc EXCEPT ![s] = "acquire"]
    /\ UNCHANGED <<kind, buf, content, queue, sessVars, ringAt, ring, left, got, disk,
                   answer, faults, short, late>>

\* Copy: futures that each acquire a buffer when they are polled, in order.
PlanCopy(s) ==
    /\ pc[s] = "plan" /\ kind[s] = "copy"
    /\ LET room == Allowed(s) - Cardinality(Futures(s))
           C == {c \in Unplanned(s) : c < First(Unplanned(s)) + room}
       IN st' = Set(s, C, "planned")
    /\ pc' = [pc EXCEPT ![s] = "await"]
    /\ UNCHANGED <<kind, buf, content, poolVars, sessVars, ringAt, ring, left, got, disk, answer, faults, short, late>>
PollCopy(s) ==
    /\ pc[s] = "await" /\ With(s, {"planned"}) # {}
    /\ Acquire(s, First(With(s, {"planned"})))
    /\ UNCHANGED <<kind, pc, buf, content, queue, sessVars, ringAt, ring, left, got, disk,
                   answer, faults, short, late>>

\* The futures are polled: those that have a buffer submit their read.
SubmitReads(s) ==
    /\ pc[s] = "await" /\ kind[s] # "small" /\ With(s, {"held"}) # {} /\ ~Cancelled(s)
    /\ st' = Set(s, With(s, {"held"}), "reading")
    /\ UNCHANGED <<kind, pc, buf, content, poolVars, sessVars, ringAt, ring, left, got, disk, answer, faults, short, late>>

\* read_small: a blocking read, not through the ring.
Blocking(s) ==
    /\ pc[s] = "await" /\ kind[s] = "small"
    /\ st' = Set(s, {1}, "framed")
    /\ content' = [content EXCEPT ![buf[s][1]] = <<s, 1>>]
    /\ pc' = [pc EXCEPT ![s] = "done"] /\ answer' = [answer EXCEPT ![s] = "ok"]
    /\ UNCHANGED <<kind, buf, poolVars, sessVars, ringAt, ring, left, got, disk, late>>
ReadBlocking(s) == Blocking(s) /\ UNCHANGED <<faults, short>>

HeadRead(s) == Futures(s) # {} /\ st[s][First(Futures(s))] = "read"

\* The first result goes to the client, when the channel has room; then the
\* next read is planned.
SendFrame_AnyOrder(s) ==
    /\ pc[s] = "await" /\ kind[s] = "download" /\ ~left[s]
    /\ Cardinality(With(s, {"framed"})) < Inflight
    /\ \E c \in With(s, {"read"}) :
         /\ st' = Set(s, {c}, "framed")
         /\ pc' = [pc EXCEPT ![s] = IF Unplanned(s) # {} THEN "plan"
                                    ELSE IF Futures(s) = {c} THEN "done" ELSE "await"]
    /\ answer' = [answer EXCEPT ![s] = IF pc'[s] = "done" THEN "ok" ELSE @]
    /\ UNCHANGED <<kind, buf, content, poolVars, sessVars, ringAt, ring, left, got, disk, faults, short, late>>
SendFrame(s) ==
    LET rest == Futures(s) \ {First(Futures(s))} IN
    /\ pc[s] = "await" /\ kind[s] = "download" /\ HeadRead(s) /\ ~left[s]
    /\ Cardinality(With(s, {"framed"})) < Inflight
    /\ st' = Set(s, {First(Futures(s))}, "framed")
    /\ pc' = [pc EXCEPT ![s] = IF Unplanned(s) # {} THEN "plan"
                               ELSE IF rest = {} THEN "done" ELSE "await"]
    /\ answer' = [answer EXCEPT ![s] = IF pc'[s] = "done" THEN "ok" ELSE @]
    /\ UNCHANGED <<kind, buf, content, poolVars, sessVars, ringAt, ring, left, got, disk, faults, short, late>>

\* The client has gone, or a read has failed and cancelled the others.
StopDownload(s) ==
    /\ pc[s] = "await" /\ kind[s] = "download" /\ ((left[s] /\ HeadRead(s)) \/ Cancelled(s))
    /\ Return(s, "error")
    /\ UNCHANGED <<kind, buf, content, pending, err, result, ringAt, ring, left, got, disk, faults, short, late>>

\* The first read has found nothing: the body ends there, with success.
HeadEmpty(s) ==
    Futures(s) # {} /\ st[s][First(Futures(s))] = "failed" /\ First(Futures(s)) \in short[s]
EndOfFile(s) ==
    /\ pc[s] = "await" /\ kind[s] = "download" /\ HeadEmpty(s)
    /\ Return(s, "ok")
    /\ UNCHANGED <<kind, buf, content, pending, err, result, ringAt, ring, left, got, disk, faults,
                   short, late>>

\* The client takes the next frame; the buffer is free when it is sent.
Consume(s) ==
    LET F == With(s, {"framed"}) IN
    /\ F # {}
    /\ got' = [got EXCEPT ![s] = Append(@, content[buf[s][First(F)]])]
    /\ st' = Set(s, {First(F)}, "gone") /\ PutBack(s, {First(F)})
    /\ UNCHANGED <<kind, pc, buf, content, waiters, sessVars, ringAt, ring, left, disk, answer, faults, short, late>>

\* Upload: the payload is read into the buffer.  After an error the body is
\* still consumed, but nothing more is written.
AfterChunk(s) == IF Unplanned(s) = {} THEN "close" ELSE "plan"
Receive(s) ==
    LET c == First(With(s, {"held"})) IN
    /\ pc[s] = "recv"
    /\ content' = [content EXCEPT ![buf[s][c]] = <<s, c>>]
    /\ IF Cancelled(s)
         THEN /\ st' = Set(s, {c}, "gone") /\ PutBack(s, {c})
              /\ pc' = [pc EXCEPT ![s] = AfterChunk(s)]
         ELSE pc' = [pc EXCEPT ![s] = "submit"] /\ UNCHANGED <<st, queue>>
    /\ UNCHANGED <<kind, buf, waiters, sessVars, ringAt, ring, left, got, disk, answer, faults, short, late>>

\* Copy: the first result is written, unless a session is cancelled or the
\* read has found too little.
TakeRead(s) ==
    /\ pc[s] = "await" /\ kind[s] = "copy" /\ (HeadRead(s) \/ HeadEmpty(s) \/ Cancelled(s))
    /\ LET stop == Cancelled(s) \/ HeadEmpty(s) IN
       /\ pc' = [pc EXCEPT ![s] = IF stop THEN "close" ELSE "submit"]
       /\ err' = [err EXCEPT ![s] = @ \/ stop]
    /\ UNCHANGED <<kind, st, buf, content, poolVars, pending, closed, result, ringAt, ring, left, got,
                   disk, answer, faults, short, late>>

\* UringFileSender::write counts the operation and sends it; the ring may
\* have failed since it looked at the session's token.
SendWrite(s, c) ==
    LET rest == Futures(s) \ {c} IN
    /\ ring # "down"
    /\ st' = Set(s, {c}, "writing") /\ pending' = [pending EXCEPT ![s] = @ + 1]
    /\ pc' = [pc EXCEPT ![s] = IF kind[s] = "upload" \/ Unplanned(s) # {} THEN AfterChunk(s)
                               ELSE IF rest = {} THEN "close" ELSE "await"]
    /\ UNCHANGED <<queue, err>>

\* It returns at a cancelled token, which leaves no error in the session of
\* an upload, or the send fails because the ring thread is gone, which does.
DropWrite(s, c) ==
    /\ Cancelled(s)
    /\ st' = Set(s, {c}, "gone") /\ PutBack(s, {c})
    /\ pc' = [pc EXCEPT ![s] = IF kind[s] = "upload" THEN AfterChunk(s) ELSE "close"]
    /\ \E failed \in BOOLEAN :
         /\ failed => ring = "down"
         /\ err' = [err EXCEPT ![s] = @ \/ failed \/ kind[s] = "copy"]
    /\ UNCHANGED pending
SubmitWrite(s) ==
    LET c == First(With(s, {"held", "read"})) IN
    /\ pc[s] = "submit"
    /\ SendWrite(s, c) \/ DropWrite(s, c)
    /\ UNCHANGED <<kind, buf, content, waiters, closed, result, ringAt, ring, left, got, disk,
                   answer, faults, short, late>>

-----------------------------------------------------------------------------
(* Sessions: SessionInner, shared by a task and the ring thread. *)

\* try_finish; the sender of the result is taken only once.
Finished_Early(s) == closed[s] /\ result[s] = "none"
Finished(s) == closed[s] /\ pending[s] = 0 /\ result[s] = "none"
TryFinish(s) ==
    result' = IF Finished(s) THEN [result EXCEPT ![s] = IF err[s] THEN "error" ELSE "ok"] ELSE result

Close(s) ==
    /\ pc[s] = "close"
    /\ closed' = [closed EXCEPT ![s] = TRUE]
    /\ pc' = [pc EXCEPT ![s] = "closed"]
    /\ UNCHANGED <<kind, st, buf, content, poolVars, pending, err, result, ringAt, ring, left, got, disk,
                   answer, faults, short, late>>
CloseFinishes(s) ==
    /\ pc[s] = "closed"
    /\ TryFinish(s) /\ pc' = [pc EXCEPT ![s] = "wait"]
    /\ UNCHANGED <<kind, st, buf, content, poolVars, pending, closed, err, ringAt, ring, left, got, disk,
                   answer, faults, short, late>>

\* wait() closes once more, after the rest of the body has been drained, and
\* then awaits the result.
Wait(s) ==
    /\ pc[s] = "wait"
    /\ TryFinish(s) /\ pc' = [pc EXCEPT ![s] = "answer"]
    /\ UNCHANGED <<kind, st, buf, content, poolVars, pending, closed, err, ringAt, ring, left, got, disk,
                   answer, faults, short, late>>
Answer(s) ==
    /\ pc[s] = "answer" /\ result[s] # "none"
    /\ Return(s, result[s])
    /\ UNCHANGED <<kind, buf, content, pending, err, result, ringAt, ring, left, got, disk, faults, short, late>>

-----------------------------------------------------------------------------
(* The ring thread. *)

\* A read completes.  The buffer goes to the one who waits for it, or back to
\* the pool when nobody does.
ReadCompletes(s, c) ==
    /\ ring = "up" /\ ringAt = NoOp /\ st[s][c] = "reading"
    /\ content' = [content EXCEPT ![buf[s][c]] = <<s, c>>]
    /\ IF pc[s] = "done" THEN st' = Set(s, {c}, "gone") /\ PutBack(s, {c})
       ELSE st' = Set(s, {c}, "read") /\ UNCHANGED queue
    /\ UNCHANGED <<kind, pc, buf, waiters, sessVars, ringAt, ring, left, got, disk, answer, late>>
ReadLands(s, c) == ReadCompletes(s, c) /\ UNCHANGED <<faults, short>>

\* A write completes: the count goes down, the last one may finish the
\* session, and then the buffer is dropped.
WriteCompletes(s, c) ==
    /\ ring = "up" /\ ringAt = NoOp /\ st[s][c] = "writing"
    /\ st' = Set(s, {c}, "completed") /\ ringAt' = <<s, c>>
    /\ pending' = [pending EXCEPT ![s] = @ - 1]
    /\ UNCHANGED <<kind, pc, buf, content, poolVars, closed, result, ring, left, got, answer, short, late>>
WriteLands(s, c) ==
    /\ WriteCompletes(s, c)
    /\ disk' = [disk EXCEPT ![s][c] = content[buf[s][c]]]
    /\ UNCHANGED <<kind, err, faults, short, late>>
OnComplete_NoFinish ==
    /\ ringAt # NoOp
    /\ st' = Set(ringAt[1], {ringAt[2]}, "gone") /\ PutBack(ringAt[1], {ringAt[2]})
    /\ ringAt' = NoOp
    /\ UNCHANGED <<kind, pc, buf, content, waiters, pending, closed, err, result, ring, left, got,
                   disk, answer, faults, short, late>>
OnComplete ==
    /\ ringAt # NoOp
    /\ LET s == ringAt[1] IN
       /\ IF pending[s] = 0 THEN TryFinish(s) ELSE UNCHANGED result
       /\ st' = Set(s, {ringAt[2]}, "gone") /\ PutBack(s, {ringAt[2]})
    /\ ringAt' = NoOp
    /\ UNCHANGED <<kind, pc, buf, content, waiters, pending, closed, err, ring, left, got, disk,
                   answer, faults, short, late>>

-----------------------------------------------------------------------------
(* Faults. *)

Flying(s) == With(s, {"reading", "writing"})
Dead(s, c) == IF st[s][c] = "reading" /\ pc[s] # "done" THEN "failed" ELSE "gone"

Fault == faults < MaxFaults /\ faults' = faults + 1

\* An error or a short write; set_error_once cancels the session.
WriteFails(s, c) ==
    /\ Fault /\ WriteCompletes(s, c)
    /\ err' = [err EXCEPT ![s] = TRUE] /\ UNCHANGED disk
ReadEnds(s, c) ==
    /\ Fault /\ ring = "up" /\ ringAt = NoOp /\ st[s][c] = "reading"
    /\ st' = Set(s, {c}, Dead(s, c)) /\ PutBack(s, {c})
    /\ UNCHANGED <<kind, pc, buf, content, waiters, pending, closed, result, ringAt, ring, left,
                   got, disk, answer, late>>
ReadFails(s, c) ==
    ReadEnds(s, c) /\ err' = [err EXCEPT ![s] = TRUE] /\ UNCHANGED short

\* Someone truncates the file that is read.  A download sends what a read has
\* found, and goes on behind the whole chunk; nothing at all ends it.  A copy
\* takes nothing but whole chunks.  A small read fails when it finds nothing.
Cut(s, c) == short' = [short EXCEPT ![s] = @ \cup {c}]
ReadShort(s, c) == Fault /\ kind[s] = "download" /\ ReadCompletes(s, c) /\ Cut(s, c)
ReadEmpty(s, c) == ReadEnds(s, c) /\ Cut(s, c) /\ UNCHANGED err
BlockingShort(s) == Fault /\ Blocking(s) /\ Cut(s, 1)
BlockingEmpty(s) ==
    /\ Fault /\ pc[s] = "await" /\ kind[s] = "small"
    /\ Return(s, "error") /\ Cut(s, 1)
    /\ UNCHANGED <<kind, buf, content, pending, err, result, ringAt, ring, left, got, disk, late>>

\* The client goes away.  A handler is dropped where it is; the task of a
\* download finds out when it sends, and the frames it has sent are dropped.
Disconnect(s) ==
    /\ Fault
    /\ IF kind[s] = "download" \/ pc[s] = "done"
         THEN /\ kind[s] \in {"download", "small"} /\ ~left[s]
              /\ left' = [left EXCEPT ![s] = TRUE]
              /\ st' = Set(s, With(s, {"framed"}), "gone") /\ PutBack(s, With(s, {"framed"}))
              /\ UNCHANGED <<kind, pc, waiters, closed, answer, short, late>>
         ELSE Return(s, "error") /\ UNCHANGED left
    /\ UNCHANGED <<kind, buf, content, pending, err, result, ringAt, ring, got, disk, short, late>>

\* A fatal error of the ring: every session is cancelled, and what the ring
\* has or finds in its channel fails.  What is sent after that and before the
\* channel is gone is lost, uncounted.
DropFlying ==
    LET B == UNION {{buf[s][c] : c \in Flying(s)} : s \in Streams} IN
    /\ st' = [s \in Streams |-> [c \in Cs(s) |-> IF c \in Flying(s) THEN Dead(s, c) ELSE st[s][c]]]
    /\ \E q \in Orders(B) : queue' = queue \o q
RingFails ==
    /\ MaxRingFaults = 1 /\ ring = "up" /\ ringAt = NoOp
    /\ ring' = "failing" /\ DropFlying
    /\ err' = [s \in Streams |-> err[s] \/ Flying(s) # {}]
    /\ pending' = [s \in Streams |-> 0]
    /\ result' = [s \in Streams |-> IF closed[s] /\ pending[s] > 0 THEN "error" ELSE result[s]]
    /\ late' = UNION {{buf[s][c] : c \in With(s, {"reading"})} : s \in Streams}
    /\ UNCHANGED <<kind, pc, buf, content, waiters, closed, ringAt, left, got, disk, answer, faults, short>>
RingGone ==
    /\ ring = "failing" /\ ring' = "down" /\ DropFlying
    /\ UNCHANGED <<kind, pc, buf, content, waiters, sessVars, ringAt, left, got, disk, answer, faults, short, late>>

\* The buffers of those reads are in the pool, or with the next one who asks
\* for a buffer, and the kernel has not been told: what it reads arrives.
LateRead(b) ==
    /\ ring # "up" /\ b \in late /\ late' = late \ {b}
    /\ content' = [content EXCEPT ![b] = Blank]
    /\ UNCHANGED <<kind, pc, st, buf, poolVars, sessVars, ringAt, ring, left, got, disk, answer,
                   faults, short>>

-----------------------------------------------------------------------------

Init ==
    /\ kind \in Mixes
    /\ pc = [s \in Streams |-> "plan"]
    /\ st = [s \in Streams |-> [c \in Cs(s) |-> "none"]]
    /\ buf = [s \in Streams |-> [c \in Cs(s) |-> 0]]
    /\ content = [b \in Buffers |-> Blank]
    /\ queue = [b \in Buffers |-> b] /\ waiters = << >>
    /\ pending = [s \in Streams |-> 0] /\ closed = [s \in Streams |-> FALSE]
    /\ err = [s \in Streams |-> FALSE] /\ result = [s \in Streams |-> "none"]
    /\ ringAt = NoOp /\ ring = "up" /\ left = [s \in Streams |-> FALSE]
    /\ got = [s \in Streams |-> << >>] /\ disk = [s \in Streams |-> [c \in Cs(s) |-> Blank]]
    /\ answer = [s \in Streams |-> "none"] /\ faults = 0
    /\ short = [s \in Streams |-> {}] /\ late = {}

Task(s) ==
    \/ PlanOne(s) \/ PlanCopy(s) \/ PollCopy(s) \/ SubmitReads(s) \/ ReadBlocking(s)
    \/ SendFrame(s) \/ StopDownload(s) \/ EndOfFile(s) \/ Receive(s) \/ TakeRead(s) \/ SubmitWrite(s)
    \/ Close(s) \/ CloseFinishes(s) \/ Wait(s) \/ Answer(s)
Ring == OnComplete \/ \E s \in Streams : \E c \in Cs(s) : ReadLands(s, c) \/ WriteLands(s, c)

Next ==
    \/ Grant \/ OnComplete \/ RingFails \/ RingGone
    \/ \E s \in Streams :
         \/ Task(s) \/ Consume(s) \/ Disconnect(s) \/ BlockingShort(s) \/ BlockingEmpty(s)
         \/ \E c \in Cs(s) :
              \/ ReadLands(s, c) \/ ReadShort(s, c) \/ ReadEmpty(s, c) \/ ReadFails(s, c)
              \/ WriteLands(s, c) \/ WriteFails(s, c)
    \/ \E b \in late : LateRead(b)

Spec == Init /\ [][Next]_vars

\* The runtime polls its tasks, the kernel completes what it is given, and
\* clients send and take data as long as they are there.
FairSpec ==
    /\ Spec /\ WF_vars(Grant) /\ WF_vars(Ring) /\ WF_vars(RingGone)
    /\ \A s \in Streams : WF_vars(Task(s)) /\ WF_vars(Consume(s))
-----------------------------------------------------------------------------
(* Properties. *)

Written(s) == \A c \in Cs(s) : disk[s][c] = <<s, c>>
Acked(s) == kind[s] \in {"upload", "copy"} /\ answer[s] = "ok"

\* An upload or a copy that is answered with success has every chunk on
\* disk, with its own data and not what a buffer held before or after, while
\* the ring completes writes in any order and against the close of the sender.
AckMeansWritten == ring = "up" => \A s \in Streams : Acked(s) => Written(s)

\* The same with a ring that may fail.
AckedBodyWritten == \A s \in Streams : Acked(s) => Written(s)

\* While the ring is up, a client receives its chunks in order, each from a
\* buffer that nobody has been given meanwhile, and all of them when the body
\* ends well and the file was not truncated meanwhile.
Reads == {s \in Streams : kind[s] \in {"download", "small"}}
Ended(s) == answer[s] = "ok" /\ ~left[s] /\ With(s, {"framed"}) = {}
OwnData(s) == \A i \in 1..Len(got[s]) : got[s][i] = <<s, i>>
ReceivesItsData ==
    ring = "up" => \A s \in Streams :
        OwnData(s) /\ (s \in Reads /\ Ended(s) /\ short[s] = {} => Len(got[s]) = Chunks[kind[s]])

\* A body that ends well has the announced length, whatever happens to the
\* file meanwhile: every chunk has been sent, and none of them in part.
\* The code does not keep this when the file is truncated (stream_segment).
BodyIsWhole ==
    \A s \in Reads : Ended(s) => Len(got[s]) = Chunks[kind[s]] /\ short[s] = {}

\* What a client receives is its own data also after the ring has failed: a
\* buffer that someone holds is not read into for anyone else.  The code does
\* not keep this (the exit of the ring's loop).
FramesAreOwn == \A s \in Streams : OwnData(s)

\* A buffer is in the pool or with one chunk, on every path on which a task
\* returns, is dropped or fails while the ring and the channel have buffers:
\* none is lost, and the expect() calls of BufPool cannot fail.
Holders(b) ==
    {sc \in UNION {{<<s, c>> : c \in Cs(s)} : s \in Streams} :
        /\ st[sc[1]][sc[2]] \in {"held", "reading", "read", "framed", "writing", "completed"}
        /\ buf[sc[1]][sc[2]] = b}
Places(b) == Cardinality({i \in 1..Len(queue) : queue[i] = b}) + Cardinality(Holders(b))
BuffersOwned ==
    \A b \in Buffers : Places(b) = 1

\* Every stream ends and every buffer comes back to the pool, unless the ring
\* has failed, when the pool has more buffers than the downloads can hold
\* while they ask for another one: a download takes all its first buffers
\* before it looks at what it has read, and one more for each chunk it sends.
PoolSuffices ==
    Cardinality(UNION {{<<s, i>> : i \in 1..(Allowed(s) - 1)} :
                       s \in {d \in Streams : kind[d] = "download"}}) < PoolSize
StreamsFinish ==
    PoolSuffices => <>(ring # "up" \/ (Len(queue) = PoolSize /\ \A s \in Streams : pc[s] = "done"))

=============================================================================
