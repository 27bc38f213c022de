-------------------------------- MODULE Pipe --------------------------------
(***************************************************************************)
(* The nanos pipe (src/src/unix/pipe.c) over the blockq suspension         *)
(* primitive and the async-1 completion queue.                             *)
(*                                                                         *)
(* One pipe, created by do_pipe2, with a set of reader threads issuing     *)
(* read(2) on its read end and a set of writer threads issuing write(2) on *)
(* its write end.  The byte buffer is abstracted to its length.  A read or *)
(* write that cannot proceed enqueues its action (pipe_read_bh /           *)
(* pipe_write_bh) on the end's blockq; blockq_wake_one moves the head      *)
(* action to the async-1 queue, from which the runloop re-invokes it;      *)
(* blockq_flush re-invokes every pending action with NULLIFY.  The blockq  *)
(* and the runloop are not under src/ and are modelled from spec.md        *)
(* (4.3, 4.4).                                                             *)
(*                                                                         *)
(* pipe_dealloc_end runs without the pipe lock; it is split into the three *)
(* steps between which another CPU can act.  NCPU bounds how many handlers *)
(* run at once: with NCPU = 1 every handler runs to completion before the  *)
(* next one starts, as on a uniprocessor kernel, which never preempts      *)
(* kernel code.                                                            *)
(***************************************************************************)
EXTENDS Integers, Sequences, FiniteSets, SequencesExt, Functions

CONSTANTS
    Readers,      \* threads reading from the read end
    Writers,      \* threads writing to the write end
    Lengths,      \* request lengths passed to read(2) / write(2)
    Capacities,   \* arguments passed to pipe_set_capacity (F_SETPIPE_SZ)
    Pipe2Flags,   \* flag sets passed to pipe2(2)
    PAGESIZE,     \* PIPE_MIN_CAPACITY (scaled down)
    MaxWritten,   \* bound: no write(2) is issued once this many bytes were written
    NCPU          \* number of CPUs running kernel handlers

ASSUME /\ Readers # {} /\ Writers # {} /\ Readers \cap Writers = {}
       /\ Lengths \subseteq Nat /\ Capacities \subseteq Int
       /\ PAGESIZE \in Nat \ {0} /\ MaxWritten \in Nat /\ NCPU \in Nat \ {0}

Threads == Readers \cup Writers
Ends == {"read", "write"}                    \* PIPE_READ, PIPE_WRITE
Peer(e) == IF e = "read" THEN "write" ELSE "read"
EndOf(t) == IF t \in Readers THEN "read" ELSE "write"
ThreadsOf(e) == IF e = "read" THEN Readers ELSE Writers

DEFAULT_PIPE_MAX_SIZE == 16 * PAGESIZE

\* errno values as the code returns them (negated)
EAGAIN == -11
EPIPE == -32
EFAULT == -14
ERESTARTSYS == -512
ENOMEM == -12
EINVAL == -22
EOPNOTSUPP == -95
EMFILE == -24
NONE == -1000   \* no pipe2(2) result yet / no result for a thread yet

VARIABLES
    pipeState,   \* the struct pipe object: "unallocated", "allocated", "freed"
    pipe2ret,    \* the value do_pipe2 returned
    dataLive,    \* p->data is an allocated buffer
    len,         \* buffer_length(p->data)
    maxSize,     \* p->max_size
    refCnt,      \* p->ref_cnt
    nonblock,    \* O_NONBLOCK in f.flags of both ends
    fdOpen,      \* files[e].fd # -1
    bq,          \* files[e].bq: "live" or "none" (INVALID_ADDRESS)
    closePc,     \* progress of pipe_dealloc_end on end e
    sawPeer,     \* the peer's fd was open when pipe_dealloc_end looked
    bhPc,        \* each thread's bottom half: "done", or notifying its peer
    waiters,     \* pending actions of files[e].bq, in FIFO order
    asyncq,      \* async_queue_1: actions scheduled for re-invocation
    req,         \* the length of each thread's last call: bound(length) of its action
    ret,         \* last value each thread's call completed with
    readBytes,   \* sum of positive results of reads
    wroteBytes   \* sum of positive results of writes

vars == <<pipeState, pipe2ret, dataLive, len, maxSize, refCnt, nonblock,
          fdOpen, bq, closePc, sawPeer, bhPc, waiters, asyncq, req, ret,
          readBytes, wroteBytes>>

-----------------------------------------------------------------------------
(* Derived state *)

Blocked(t) == t \in ToSet(waiters[EndOf(t)])
Woken(t)   == t \in ToSet(asyncq)
InFlight(t) == Blocked(t) \/ Woken(t)
\* the call has not returned: pending, or its bottom half still notifying
Busy(t) == InFlight(t) \/ bhPc[t] # "done"

\* handlers stopped between two steps of pipe_dealloc_end, each holding a CPU
InHandler == {e \in Ends : closePc[e] \in {"notify", "release"}}
CpuFree ==
    Cardinality(InHandler) + Cardinality({t \in Threads : bhPc[t] # "done"}) < NCPU

PipeOpen == pipe2ret = 0 /\ pipeState = "allocated"

-----------------------------------------------------------------------------
(* blockq and async-1 queue (spec.md 4.3, 4.4) *)

\* blockq_wake_one: the head action of end e moves to the async queue q
WakeOne(e, q) ==
    IF waiters[e] = <<>>
    THEN waiters' = waiters /\ asyncq' = q
    ELSE /\ waiters' = [waiters EXCEPT ![e] = Tail(@)]
         /\ asyncq' = Append(q, Head(waiters[e]))

\* blockq_flush: every pending action of end e is re-invoked with NULLIFY
\* and completes with -ERESTARTSYS (pipe_read_bh / pipe_write_bh NULLIFY path)
Flush(e) ==
    /\ ret' = [t \in Threads |-> IF t \in ToSet(waiters[e]) THEN ERESTARTSYS ELSE ret[t]]
    /\ waiters' = [waiters EXCEPT ![e] = <<>>]

\* blockq_check / blockq_block_required: the action is queued on end e
Block(t, e, q) ==
    /\ waiters' = [waiters EXCEPT ![e] = Append(@, t)]
    /\ asyncq' = q
    /\ UNCHANGED ret

Complete(t, rv) == ret' = [ret EXCEPT ![t] = rv]

-----------------------------------------------------------------------------
(* pipe.c *)

\* rv > 0: after pipe_unlock, the bottom half goes on to notify its peer
NotifyLater(t, q) ==
    /\ asyncq' = q /\ UNCHANGED waiters
    /\ bhPc' = [bhPc EXCEPT ![t] = "notify"]

\* mutant: O_NONBLOCK is tested before the writer-closed end-of-file check
ReadBhSwapEof(t, n, q) ==
    LET rv == Min({len, n}) IN
    /\ \/ /\ rv = 0
          /\ \/ /\ nonblock
                /\ Complete(t, EAGAIN) /\ asyncq' = q /\ UNCHANGED waiters
             \/ /\ ~nonblock /\ ~fdOpen["write"]
                /\ Complete(t, 0) /\ asyncq' = q /\ UNCHANGED waiters
             \/ /\ ~nonblock /\ fdOpen["write"]
                /\ Block(t, "read", q)
          /\ UNCHANGED <<len, readBytes, bhPc>>
       \/ /\ rv > 0
          /\ Complete(t, EFAULT) /\ asyncq' = q
          /\ UNCHANGED <<waiters, len, readBytes, bhPc>>
       \/ /\ rv > 0
          /\ len' = len - rv
          /\ readBytes' = readBytes + rv
          /\ Complete(t, rv)
          /\ NotifyLater(t, q)
    /\ UNCHANGED wroteBytes

\* pipe_read_bh(length n) invoked without NULLIFY, with async queue q
ReadBh(t, n, q) ==
    LET rv == Min({len, n}) IN
    /\ \/ /\ rv = 0
          /\ \/ /\ ~fdOpen["write"]
                /\ Complete(t, 0) /\ asyncq' = q /\ UNCHANGED waiters
             \/ /\ fdOpen["write"] /\ nonblock
                /\ Complete(t, EAGAIN) /\ asyncq' = q /\ UNCHANGED waiters
             \/ /\ fdOpen["write"] /\ ~nonblock
                /\ Block(t, "read", q)
          /\ UNCHANGED <<len, readBytes, bhPc>>
       \/ /\ rv > 0    \* context_set_err: the destination faults
          /\ Complete(t, EFAULT) /\ asyncq' = q
          /\ UNCHANGED <<waiters, len, readBytes, bhPc>>
       \/ /\ rv > 0
          /\ len' = len - rv
          /\ readBytes' = readBytes + rv
          /\ Complete(t, rv)
          /\ NotifyLater(t, q)
    /\ UNCHANGED wroteBytes

\* mutant: a short write reports the requested length (rv = length)
WriteBhReportsLength(t, n, q) ==
    LET avail == maxSize - len
        realLength == Min({n, avail})
    IN
    /\ \/ /\ avail = 0
          /\ \/ /\ ~fdOpen["read"]
                /\ Complete(t, EPIPE) /\ asyncq' = q /\ UNCHANGED waiters
             \/ /\ fdOpen["read"] /\ nonblock
                /\ Complete(t, EAGAIN) /\ asyncq' = q /\ UNCHANGED waiters
             \/ /\ fdOpen["read"] /\ ~nonblock
                /\ Block(t, "write", q)
          /\ UNCHANGED <<len, wroteBytes, bhPc>>
       \/ /\ avail > 0
          /\ Complete(t, EFAULT) /\ asyncq' = q
          /\ UNCHANGED <<waiters, len, wroteBytes, bhPc>>
       \/ /\ avail > 0
          /\ len' = len + realLength
          /\ wroteBytes' = wroteBytes + n
          /\ Complete(t, n)
          /\ NotifyLater(t, q)
    /\ UNCHANGED readBytes

\* pipe_write_bh(length n) invoked without NULLIFY, with async queue q
WriteBh(t, n, q) ==
    LET avail == maxSize - len
        realLength == Min({n, avail})
    IN
    /\ \/ /\ avail = 0
          /\ \/ /\ ~fdOpen["read"]
                /\ Complete(t, EPIPE) /\ asyncq' = q /\ UNCHANGED waiters
             \/ /\ fdOpen["read"] /\ nonblock
                /\ Complete(t, EAGAIN) /\ asyncq' = q /\ UNCHANGED waiters
             \/ /\ fdOpen["read"] /\ ~nonblock
                /\ Block(t, "write", q)
          /\ UNCHANGED <<len, wroteBytes, bhPc>>
       \/ /\ avail > 0    \* context_set_err: the source faults
          /\ Complete(t, EFAULT) /\ asyncq' = q
          /\ UNCHANGED <<waiters, len, wroteBytes, bhPc>>
       \/ /\ avail > 0
          /\ len' = len + realLength
          /\ wroteBytes' = wroteBytes + realLength
          /\ Complete(t, realLength)
          /\ NotifyLater(t, q)
    /\ UNCHANGED readBytes

\* variables no read, write or async re-invocation touches
pipeVars == <<pipeState, pipe2ret, dataLive, maxSize, refCnt, nonblock,
              fdOpen, bq, closePc, sawPeer>>

\* pipe_read: read(2) on the read end by reader t
Read(t) ==
    /\ t \in Readers /\ ~Busy(t)
    /\ PipeOpen /\ fdOpen["read"] /\ CpuFree
    /\ \E n \in Lengths :
          \/ /\ n = 0    \* returns io_complete(completion, 0) at once
             /\ req' = [req EXCEPT ![t] = 0]
             /\ Complete(t, 0)
             /\ UNCHANGED <<waiters, asyncq, len, readBytes, wroteBytes, bhPc>>
          \/ /\ n > 0
             /\ req' = [req EXCEPT ![t] = n]
             /\ ReadBh(t, n, asyncq)
    /\ UNCHANGED pipeVars

\* pipe_write: write(2) on the write end by writer t
Write(t) ==
    /\ t \in Writers /\ ~Busy(t)
    /\ PipeOpen /\ fdOpen["write"] /\ CpuFree
    /\ wroteBytes < MaxWritten
    /\ \E n \in Lengths :
          \/ /\ n = 0    \* returns io_complete(completion, 0) at once
             /\ req' = [req EXCEPT ![t] = 0]
             /\ Complete(t, 0)
             /\ UNCHANGED <<waiters, asyncq, len, readBytes, wroteBytes, bhPc>>
          \/ /\ n > 0
             /\ req' = [req EXCEPT ![t] = n]
             /\ WriteBh(t, n, asyncq)
    /\ UNCHANGED pipeVars

\* the runloop applies the head of async_queue_1: the action is re-invoked
AsyncRun ==
    /\ asyncq # <<>> /\ CpuFree
    /\ LET t == Head(asyncq) IN
         \/ t \in Readers /\ ReadBh(t, req[t], Tail(asyncq))
         \/ t \in Writers /\ WriteBh(t, req[t], Tail(asyncq))
    /\ UNCHANGED <<pipeVars, req>>

(* pipe_notify_writer (EPOLLOUT) after a read, pipe_notify_reader         *)
(* (EPOLLIN) after a write, both after pipe_unlock: the peer's fd is      *)
(* tested, then the peer's blockq is woken; the completion is applied     *)
(* after.  Another CPU may close the peer end in between.                 *)
BhNotifyTest(t) ==
    /\ bhPc[t] = "notify"
    /\ bhPc' = [bhPc EXCEPT ![t] = IF fdOpen[Peer(EndOf(t))] THEN "wake" ELSE "done"]
    /\ UNCHANGED <<pipeVars, waiters, asyncq, len, req, ret, readBytes, wroteBytes>>

BhNotifyWake(t) ==
    /\ bhPc[t] = "wake"
    /\ WakeOne(Peer(EndOf(t)), asyncq)
    /\ bhPc' = [bhPc EXCEPT ![t] = "done"]
    /\ UNCHANGED <<pipeVars, len, req, ret, readBytes, wroteBytes>>

\* mutant: the capacity is set without the -EBUSY check
SetCapacityNoBusy(cap) ==
    LET capacity == IF cap < PAGESIZE THEN PAGESIZE ELSE cap IN
    maxSize' = capacity

\* pipe_set_capacity: clamp to PIPE_MIN_CAPACITY, refuse below the contents
SetCapacity(cap) ==
    LET capacity == IF cap < PAGESIZE THEN PAGESIZE ELSE cap IN
    maxSize' = IF capacity < len THEN maxSize ELSE capacity

\* fcntl(F_SETPIPE_SZ) on either open end
SetPipeCapacity ==
    /\ PipeOpen /\ (fdOpen["read"] \/ fdOpen["write"]) /\ CpuFree
    /\ \E cap \in Capacities : SetCapacity(cap)
    /\ UNCHANGED <<pipeState, pipe2ret, dataLive, refCnt, nonblock, fdOpen,
                   bq, closePc, sawPeer, bhPc, waiters, asyncq, req, ret, len,
                   readBytes, wroteBytes>>

\* mutant: EPOLLOUT is reported while the buffer is exactly full
WriteEventsFull ==
    (IF len <= maxSize THEN {"EPOLLOUT"} ELSE {})
    \cup (IF fdOpen["read"] THEN {} ELSE {"EPOLLHUP"})

\* pipe_write_events: EPOLLOUT while there is room, EPOLLHUP once the reader is gone
WriteEvents ==
    (IF len < maxSize THEN {"EPOLLOUT"} ELSE {})
    \cup (IF fdOpen["read"] THEN {} ELSE {"EPOLLHUP"})

\* pipe_read_events: EPOLLIN while bytes are buffered, EPOLLHUP once the writer is gone
ReadEvents ==
    (IF len > 0 THEN {"EPOLLIN"} ELSE {})
    \cup (IF fdOpen["write"] THEN {} ELSE {"EPOLLHUP"})

\* fdesc_events of end e, as epoll and poll(2) query it under the pipe lock
Events(e) == IF e = "read" THEN ReadEvents ELSE WriteEvents

-----------------------------------------------------------------------------
(* pipe_close -> pipe_dealloc_end, in the steps another CPU can split *)

\* pipe_close: the last reference to end e is dropped; no call on e is in
\* flight, since each holds a reference.  pf->fd = -1, then the peer's fd
\* is tested by pipe_notify_reader / pipe_notify_writer.
CloseBegin(e) ==
    /\ PipeOpen /\ closePc[e] = "open" /\ CpuFree
    /\ \A t \in ThreadsOf(e) : ~Busy(t)
    /\ fdOpen' = [fdOpen EXCEPT ![e] = FALSE]
    /\ sawPeer' = [sawPeer EXCEPT ![e] = fdOpen[Peer(e)]]
    /\ closePc' = [closePc EXCEPT ![e] = "notify"]
    /\ UNCHANGED <<pipeState, pipe2ret, dataLive, len, maxSize, refCnt,
                   nonblock, bq, bhPc, waiters, asyncq, req, ret, readBytes, wroteBytes>>

\* mutant: EPOLLHUP notification wakes one waiter instead of flushing
CloseNotifyWakeOne(e) ==
    /\ closePc[e] = "notify"
    /\ IF sawPeer[e] THEN WakeOne(Peer(e), asyncq) /\ UNCHANGED ret
                     ELSE UNCHANGED <<ret, waiters, asyncq>>
    /\ closePc' = [closePc EXCEPT ![e] = "release"]
    /\ UNCHANGED <<pipeState, pipe2ret, dataLive, len, maxSize, refCnt,
                   nonblock, fdOpen, bq, sawPeer, bhPc, req, readBytes, wroteBytes>>

\* pipe_notify_writer / pipe_notify_reader with EPOLLHUP: flush the peer's blockq
CloseNotify(e) ==
    /\ closePc[e] = "notify"
    /\ IF sawPeer[e] THEN Flush(Peer(e)) ELSE UNCHANGED <<ret, waiters>>
    /\ closePc' = [closePc EXCEPT ![e] = "release"]
    /\ UNCHANGED <<pipeState, pipe2ret, dataLive, len, maxSize, refCnt,
                   nonblock, fdOpen, bq, sawPeer, bhPc, asyncq, req, readBytes, wroteBytes>>

\* mutant: the pipe is freed by whichever end is released first
PipeReleaseEager ==
    /\ pipeState' = "freed" /\ dataLive' = FALSE
    /\ refCnt' = IF refCnt = 0 THEN 0 ELSE refCnt - 1

\* pipe_release: free the buffer and the pipe when the count drops to zero
PipeRelease ==
    IF refCnt = 0 \/ refCnt = 1
    THEN /\ pipeState' = "freed" /\ dataLive' = FALSE /\ refCnt' = 0
    ELSE /\ refCnt' = refCnt - 1 /\ UNCHANGED <<pipeState, dataLive>>

\* pipe_file_release then pipe_release
CloseRelease(e) ==
    /\ closePc[e] = "release"
    /\ bq' = [bq EXCEPT ![e] = "none"]
    /\ PipeRelease
    /\ closePc' = [closePc EXCEPT ![e] = "closed"]
    /\ UNCHANGED <<pipe2ret, len, maxSize, nonblock, fdOpen, sawPeer, bhPc,
                   waiters, asyncq, req, ret, readBytes, wroteBytes>>

-----------------------------------------------------------------------------
(* do_pipe2 *)

Init ==
    /\ pipeState = "unallocated"
    /\ pipe2ret = NONE
    /\ dataLive = FALSE
    /\ len = 0
    /\ maxSize = 0
    /\ refCnt = 0
    /\ nonblock = FALSE
    /\ fdOpen = [e \in Ends |-> FALSE]
    /\ bq = [e \in Ends |-> "none"]
    /\ closePc = [e \in Ends |-> "closed"]
    /\ sawPeer = [e \in Ends |-> FALSE]
    /\ bhPc = [t \in Threads |-> "done"]
    /\ waiters = [e \in Ends |-> <<>>]
    /\ asyncq = <<>>
    /\ req = [t \in Threads |-> 0]
    /\ ret = [t \in Threads |-> NONE]
    /\ readBytes = 0
    /\ wroteBytes = 0

\* do_pipe2(flags): every exit of the function.  Its failure paths after the
\* buffer is allocated close the ends they set up, which releases the pipe.
Pipe2 ==
    /\ pipe2ret = NONE
    /\ \E flags \in Pipe2Flags :
         \/ /\ pipe2ret' = ENOMEM    \* unix_cache_alloc fails
            /\ UNCHANGED pipeState
         \/ /\ "other" \in flags
            /\ pipeState' = "allocated" /\ pipe2ret' = EINVAL
         \/ /\ "other" \notin flags /\ "O_DIRECT" \in flags
            /\ pipeState' = "allocated" /\ pipe2ret' = EOPNOTSUPP
         \/ /\ "other" \notin flags /\ "O_DIRECT" \notin flags
            /\ \E rv \in {ENOMEM, EMFILE} :    \* buffer, blockq or fd allocation fails
                 /\ pipeState' = "freed" /\ pipe2ret' = rv
    /\ UNCHANGED <<dataLive, len, maxSize, refCnt, nonblock, fdOpen, bq,
                   closePc, sawPeer, bhPc, waiters, asyncq, req, ret, readBytes, wroteBytes>>

Pipe2Ok ==
    /\ pipe2ret = NONE
    /\ \E flags \in Pipe2Flags :
         /\ "other" \notin flags /\ "O_DIRECT" \notin flags
         /\ nonblock' = ("O_NONBLOCK" \in flags)
    /\ pipeState' = "allocated" /\ pipe2ret' = 0
    /\ dataLive' = TRUE
    /\ maxSize' = DEFAULT_PIPE_MAX_SIZE
    /\ refCnt' = 2
    /\ fdOpen' = [e \in Ends |-> TRUE]
    /\ bq' = [e \in Ends |-> "live"]
    /\ closePc' = [e \in Ends |-> "open"]
    /\ UNCHANGED <<len, sawPeer, bhPc, waiters, asyncq, req, ret, readBytes, wroteBytes>>

\* a freed pipe or a failed pipe2(2) has nothing left to do
Done == (pipe2ret \notin {NONE, 0}) \/ pipeState = "freed"

Terminated == Done /\ UNCHANGED vars

Next ==
    \/ Pipe2 \/ Pipe2Ok
    \/ \E t \in Readers : Read(t)
    \/ \E t \in Writers : Write(t)
    \/ AsyncRun
    \/ \E t \in Threads : BhNotifyTest(t) \/ BhNotifyWake(t)
    \/ SetPipeCapacity
    \/ \E e \in Ends : CloseBegin(e) \/ CloseNotify(e) \/ CloseRelease(e)
    \/ Terminated

\* The runloop drains async_queue_1 on every pass, and pipe_dealloc_end is
\* straight-line code: both make progress once enabled.  Threads are not
\* obliged to call read, write, close or fcntl.
Fairness ==
    /\ WF_vars(AsyncRun)
    /\ \A e \in Ends : WF_vars(CloseNotify(e)) /\ WF_vars(CloseRelease(e))
    /\ \A t \in Threads : WF_vars(BhNotifyTest(t)) /\ WF_vars(BhNotifyWake(t))

Spec == Init /\ [][Next]_vars /\ Fairness

-----------------------------------------------------------------------------
(* Properties *)

\* The buffer never holds more than p->max_size bytes, whatever order writes
\* and pipe_set_capacity calls come in (spec.md 8, property 3).
BufferWithinCapacity == PipeOpen => len <= maxSize

\* p->ref_cnt counts the ends pipe_dealloc_end has not yet released, and the
\* pipe is freed only when no end, blockq, buffer or pending action remains
\* (spec.md 8, property 4).
RefCountMatchesEnds ==
    /\ PipeOpen => refCnt = Cardinality({e \in Ends : closePc[e] # "closed"})
    /\ pipeState = "freed" =>
         /\ ~dataLive
         /\ \A e \in Ends : bq[e] = "none"
         /\ \A t \in Threads : ~Busy(t)

\* Every byte a write reported as written was either returned by a read or
\* is still in the buffer: none lost, none invented.
ByteConservation == PipeOpen => readBytes + len = wroteBytes

\* Once the peer end of a blocked call is closed, the call completes:
\* the EPOLLHUP notification releases every waiter.
WaitersReleasedOnPeerClose ==
    \A t \in Threads :
        (Blocked(t) /\ ~fdOpen[Peer(EndOf(t))]) ~> ~InFlight(t)

\* A blocked call sleeps only while its end cannot make progress: a reader
\* is not left on the blockq while the buffer holds bytes, nor a writer while
\* there is room, unless a woken action of that end is about to run or a
\* bottom half of the other end is about to notify it.
NoSleeperWhileReady ==
    \A e \in Ends :
        /\ waiters[e] # <<>>
        /\ IF e = "read" THEN len > 0 ELSE len < maxSize
        => \/ \E t \in ThreadsOf(e) : Woken(t)
           \/ \E u \in ThreadsOf(Peer(e)) : bhPc[u] # "done"

\* No blockq is used after pipe_file_release deallocated it: neither the
\* EPOLLHUP flush of pipe_dealloc_end nor the wakeup a read or write bottom
\* half sends after pipe_unlock, both of which test the peer's fd first and
\* use its bq afterwards.
NoUseOfReleasedBlockq ==
    /\ \A e \in Ends : (closePc[e] = "notify" /\ sawPeer[e]) => bq[Peer(e)] = "live"
    /\ \A t \in Threads : bhPc[t] = "wake" => bq[Peer(EndOf(t))] = "live"

\* A call of t on its end with length n that the bottom half would suspend
\* on the end's blockq.
Suspends(t, n) ==
    /\ IF EndOf(t) = "read" THEN ReadBh(t, n, asyncq) ELSE WriteBh(t, n, asyncq)
    /\ waiters'[EndOf(t)] # waiters[EndOf(t)]

\* pipe_read_events / pipe_write_events agree with pipe_read_bh /
\* pipe_write_bh: on a blocking pipe, an open end reports no event exactly
\* when a read or write of it would be suspended on its blockq.  Reporting
\* readiness for a call that then sleeps, or none for one that would
\* complete, leaves an epoll or poll(2) caller asleep or spinning.
PollMatchesBlocking ==
    PipeOpen /\ ~nonblock =>
        \A e \in Ends : fdOpen[e] =>
            (Events(e) = {} <=>
                \E t \in ThreadsOf(e), n \in Lengths \ {0} : ENABLED Suspends(t, n))

-----------------------------------------------------------------------------
(* Refinement: the pipe is the byte stream PipeStream describes.  Bytes    *)
(* written and read are the stream's put and taken, p->max_size its       *)
(* capacity, the open fds its open ends, and a call is pending while its  *)
(* action sits on a blockq or in the async queue.                         *)

Stream == INSTANCE PipeStream
    WITH put <- wroteBytes, taken <- readBytes, cap <- maxSize,
         open <- fdOpen, pending <- [t \in Threads |-> InFlight(t)],
         res <- ret

\* Every read(2) and write(2) completes, once, with a result the stream
\* allowed at that moment: a short transfer bounded by the contents or the
\* room, 0 only at end of file, -EAGAIN only while the peer is open, -EPIPE
\* only once the reader is gone, -ERESTARTSYS only after a close.
StreamRefined == Stream!Spec

=============================================================================
