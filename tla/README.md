# TLA+ models of the nanos kernel core

These modules model the parts of `src/` that run concurrently or react to
callbacks:

- the pipe and the blockq protocol it uses;
- context ownership and switching across CPUs;
- the radar telemetry client;
- the tmpfs file: its dirty range map and the page pins it holds;
- `spin_lock_2`, the two-lock acquisition with back-off;
- the timer service: `schedule_timer_service`, the bounded bottom-half
  queue, the bounded `async_queue_1` that bottom halves and threads post
  completions to with `async_apply_1`, and the interrupt flag of each CPU
  as `irq_disable_save` / `irq_restore` leave it.

Three abstract specifications state what a component promises.
`PipeStream` is the byte stream a pipe implements, `TwoLocks` is atomic
acquisition of two locks, and `TmpfsFile` is a file whose writes take
effect in one step. `Pipe`, `SpinLock2` and `Tmpfs` are checked to refine
them.

Each module is translated from the source. `PROJECT.json` maps every
definition to the lines it models. The same file lists the runs, the mutants
that show each checked property can fail, the findings and the hazards.

## 1. The system

| part | source | state | operations |
|---|---|---|---|
| pipe | `src/src/unix/pipe.c` | buffer length, `max_size`, `ref_cnt`, per-end `fd`, `bq`, `O_NONBLOCK` | `do_pipe2`, `pipe_read`/`pipe_read_bh`, `pipe_write`/`pipe_write_bh`, `pipe_set_capacity`, `pipe_close` -> `pipe_dealloc_end` -> `pipe_notify_*`, `pipe_file_release`, `pipe_release` |
| blockq, async-1 queue | not under `src/` (spec.md 4.3, 4.4); `async_apply_1` in `kernel.h` | FIFO of pending actions per blockq; `async_queue_1` | block required, `blockq_wake_one`, `blockq_flush` (NULLIFY -> `-ERESTARTSYS`), the runloop draining async-1 |
| context fabric | `src/src/kernel/kernel.h`, `kernel.c` | `active_cpu` per context; per CPU `current_context`, `kernel_context`, `free_kernel_contexts` | `context_acquire` (CAS spin), `context_release`, `context_pause`, `context_resume`, `context_switch`, `runloop`, `context_apply`, `kern_yield`, `get_kernel_context`, `check_kernel_context_replace`, `allocate_kernel_context`, `free_kernel_context`, `init_cpuinfo` |
| two-lock acquire | `kernel.h` `spin_lock_2` | the owner of each spinlock | lock the first, try the second, back off |
| timer service | `kernel.h` `schedule_timer_service`, `async_apply_1`; `kernel_machine.h` interrupt control; `tmpfs.c` `tmpfsfile_write`'s completion | `service_scheduled`, `bhqueue`, `async_queue_1`, each CPU's IF | CAS then enqueue on `bhqueue`; interrupt entry; `enqueue_n_irqsafe` (`irq_disable_save`, enqueue, `irq_restore`); `wait_for_interrupt` (`sti; hlt`); the runloop, the service thunk and a device bottom half (spec.md 4.1, 4.2) |
| fault counters | `kernel.h` `count_minor_fault`, `count_major_fault` | `mm_stats` | atomic increment |
| telemetry | `src/klib/radar.c` | `dump`, `dump_done`, `boot_id`, `running`, `retry_backoff`, retry and stats timers, `stats_count` | `init`, `klog_dump_loaded`, `telemetry_send`, `telemetry_dns_cb`, `telemetry_ch`, `telemetry_recv`, the crash and boot value handlers, `retry_timer_func`, `telemetry_retry`, `telemetry_stats`, `telemetry_stats_send` |
| tmpfs | `src/klib/tmpfs.c` | per-file dirty rangemap, pinned pages | write (reserve and pin), sync completion (unpin), create, new |
| red-black tree | `src/test/unit/rbtree_test.c` | only the test; the tree is absent | none to model |
| architecture headers | `src/src/x86_64/kernel_machine.h`, `src/src/aarch64/unix_machine.h` | registers, frames, IF | instruction-level accessors; the interrupt-flag operations are modelled in `TimerService` |

### How the parts interact

A pipe read or write that cannot proceed returns "block required". Its
action then waits on the end's blockq. The peer's next operation calls
`blockq_wake_one`, which moves the head action to `async_queue_1`. The
runloop re-invokes that action, and it retries the bottom half. Closing an
end flushes the peer's blockq: every waiter is re-invoked with NULLIFY and
completes with `-ERESTARTSYS`.

The runloop, and therefore all of this, runs on each CPU's kernel context.
Threads are switched in with `context_apply` and out with `kern_yield`. A
context can move between CPUs only through the `active_cpu` compare-and-swap.

Telemetry is a chain of callbacks from the network stack and the kernel
timer queue. It is serialised by the runloop.

A timer interrupt on any CPU calls `schedule_timer_service`. Its
compare-and-swap on `service_scheduled` decides which CPU enqueues the
service thunk on `bhqueue`. The runloops drain `bhqueue` with interrupts
disabled, and halt with `sti; hlt` when there is nothing to do.

### Correctness, per part

**Pipe**
- The buffer never exceeds `max_size`.
- `ref_cnt` counts the ends still open, and the pipe is freed once with
  nothing left behind.
- Bytes are neither lost nor invented.
- Closing an end releases the peer's waiters.
- A reader does not sleep while data waits.
- Each end's poll events say "ready" exactly when a call on it would not
  sleep.
- No blockq is used after its end released it.
- Every call returns what the byte stream allows at that moment: a transfer
  bounded by the contents or the room, 0 only at end of file, `-EAGAIN`
  only while the peer is open, `-EPIPE` only once the reader is gone.

**Contexts**
- A context runs on at most one CPU.
- Only the owner runs on a context's stack.
- A kernel context is a CPU's home, held by suspended work, or free, and
  only one of these.
- Every acquire spin ends.
- Runnable threads run.

**spin_lock_2**
- There is no deadlock: some CPU inside `spin_lock_2` can always step.
- A caller gets both locks as if in one atomic step, when neither is held.
- Some caller eventually gets both locks (the comment's promise).

**Timer service**
- At most one service thunk is in flight, and `service_scheduled` is set
  exactly while one is (spec.md 4.2).
- Expired timers are eventually serviced.
- Every I/O whose completion was posted with `async_apply_1` completes.

**Telemetry**
- One crash-report or boot attempt at a time, and none once statistics run.
- The dump is freed before the boot event.
- Statistics carry the boot id.
- Until the statistics phase runs, a failure always leads to a retry.

**Tmpfs**
- Each dirty page is pinned exactly once while the file lives, and no
  page is left pinned once the purge completes.
- The write loop ends and releases the filesystem lock, even while
  allocations fail.
- A write takes effect as one step: `STATUS_OK` means its whole range is
  retained, and `timm_oom` means some page of it is not.

## 2. Modules

### `Pipe.tla` (instantiated by `MCPipe.tla`)

**State.** The variables mirror `struct pipe` and `struct pipe_file`:
- `len`, `maxSize`, `refCnt`, `dataLive`, `pipeState`;
- per end: `fdOpen`, `bq`, `nonblock`;
- `waiters` holds each end's blockq FIFO and `asyncq` holds `async_queue_1`;
- `req` and `ret` hold the length and result of each thread's call;
- `readBytes` and `wroteBytes` count the bytes reads returned and writes
  reported.

**Actions.** One per operation:
- `Pipe2` / `Pipe2Ok` cover every exit of `do_pipe2`.
- `Read`/`Write` are the system calls. A zero length returns 0 at once.
  Otherwise the call runs its bottom half `ReadBh` or `WriteBh`, and each
  disjunct of those is one return path of `pipe_read_bh`/`pipe_write_bh`
  under the pipe lock (EOF, `-EAGAIN`, block, `-EFAULT`, copy).
- After a copy the bottom half notifies its peer after `pipe_unlock`. That
  takes two more steps, because another CPU can close the peer in between:
  - `BhNotifyTest` tests the peer's fd;
  - `BhNotifyWake` calls `blockq_wake_one` on the peer's bq.

  `bhPc` records where each thread is in these steps.
- `AsyncRun` is the runloop re-invoking a woken action.
- `SetPipeCapacity` is `pipe_set_capacity`.
- `ReadEvents` and `WriteEvents` are `pipe_read_events` and
  `pipe_write_events`, the queries epoll makes. `PollMatchesBlocking`
  compares them with `ReadBh`/`WriteBh` through `ENABLED`: on a blocking
  pipe, an open end reports no event exactly when some call on it would
  be suspended on its blockq.
- A close is three steps, because `pipe_dealloc_end` runs without the pipe
  lock and another CPU can run between them:
  - `CloseBegin`: `fd = -1`, and the peer's fd is tested;
  - `CloseNotify`: `EPOLLHUP` flushes the peer's blockq;
  - `CloseRelease`: `pipe_file_release` deallocates the blockq, then
    `pipe_release`.
- `NCPU` bounds how many handlers are mid-way at once: closes between their
  steps, and bottom halves notifying. With `NCPU = 1`, a handler runs to
  completion.

A thread with a call in flight holds a reference to its end's fdesc, so its
end cannot be closed under it.

**Refinement.** `Pipe` defines `Stream`, an `INSTANCE` of `PipeStream` with
this mapping:
- `put` is `wroteBytes`, `taken` is `readBytes` and `cap` is `maxSize`;
- `open` is `fdOpen`, `res` is `ret`, and `req` is `req`;
- `pending` holds for a call whose action is on a blockq or in the async
  queue.

`StreamRefined` (`Stream!Spec`) is checked in the pipe run. The
linearisation point of a call is its step under the pipe lock. The notify
that follows is a stutter of the stream.

### `PipeStream.tla` (abstract; checked through `Pipe`)

This module is what read(2), write(2), pipe2(2) and `F_SETPIPE_SZ` promise,
with no blockq, lock or close protocol. Its state is counters: bytes put,
bytes taken, the capacity, which ends are open, and each thread's request,
pending flag and result.
- `ReadResult` and `WriteResult` list the results a call may complete with
  in a given state:
  - a transfer of `1..min(n, contents)` or `1..min(n, room)`;
  - 0 for a zero length, or at end of file;
  - `-EAGAIN` only on an empty (or full) pipe whose peer is open;
  - `-EPIPE` only on a full pipe whose reader is closed;
  - `-EFAULT` whenever data could move.
- A call completes at once or is left pending. `Complete` finishes a
  pending one.
- `Cancel` gives `-ERESTARTSYS` to pending calls on the other end once an
  end is closed.
- `Resize` never shrinks below the contents.
- `Close` requires that no call on that end is pending.

### `SpinLock2.tla` (instantiated by `MCSpinLock2.tla`) and `TwoLocks.tla`

**State.** `owner` of each spinlock, and each CPU's `pc` in `spin_lock_2`:
`lock1` (spinning for the first lock), `try`, `unlock` (the try failed),
then `crit`. `Order[c]` is the pair of locks CPU `c` passes.

**Actions.**
- `SpinLockL1` ends the spin once the first lock is free.
- `SpinTry` is `spin_try(l2)`.
- `Backoff` is `spin_unlock(l1); kern_pause()`.
- `Unlock2` is the caller releasing both locks.

**Refinement.** `TwoLocks` is the abstract lock pair: `Acquire` takes both
locks in one step when neither is held. The mapping:
- a lock's abstract holder is its owner while that owner is in `crit`;
- a CPU in `lock1`, `try` or `unlock` is "waiting".

The spinlock2 run checks `TwoLocksRefined`.

### `TimerService.tla` (checked directly)

**State.**
- `ifl`: each CPU's IF.
- `irq`: interrupts raised and not yet taken.
- `pc` and `ret`: where each CPU is, and where its interrupt returns to.
- `bhq`: `bhqueue`, of capacity `BhqSize`.
- `scheduled`: `service_scheduled`.
- `expired`: timers the service has not yet popped.
- `fired`: interrupts raised so far, bounded.

**Actions.**
- `TimerExpire` and `DeviceRaise` are the hardware.
- `TakeInterrupt` is interrupt entry when IF is set. A timer interrupt runs
  the compare-and-swap; a device interrupt enqueues its bottom half.
- `EnqueueService` is the enqueue after a won compare-and-swap, whose
  result is ignored, and the `iret`. `ReturnPoint` is where the CPU goes
  back to.
- `RunBh`, `RunAsync`, `RunThread` and `RunloopIdle` are the branches of
  a runloop pass, taken in that order of priority. `WaitForInterrupt` is
  then `sti; hlt` as one step: the CPU does not take an interrupt in the
  instruction after `sti`. The runloop runs with IF clear, so
  `IrqRestore` in a bottom half's `AsyncApply1` must leave it clear. The
  mutant `IrqRestoreEnables`, which sets IF instead, breaks
  `ExpiredServiced`: an interrupt slips in between the idle test and the
  halt.
- `TimerServiceFunc` is the service thunk: clear the flag, then pop the
  expired timers.
- `ThreadYield` is `kern_yield`.
- `BhComplete` is a device bottom half posting its completion with
  `AsyncApply1`; `ThreadComplete` is `tmpfsfile_write` posting its
  status the same way. `AsyncApply1` is `enqueue_n_irqsafe` on
  `async_queue_1`: `IrqDisableSave`, an enqueue that is dropped when the
  queue holds `AsyncSize` entries (`Offered`), then `IrqRestore`.
- `RunAsync` is the runloop applying the head of `async_queue_1`, which
  it does only once `bhqueue` is empty; `RunloopIdle` is the pass that
  finds both queues and the run queue empty and goes to halt.
- `aq`, `io` and `posts` are `async_queue_1`, the I/Os not yet completed,
  and the thread completions posted (bounded by `MaxPosts`).

The runloop and the service thunk are not under `src/`; they are modelled
from spec.md 4.1 and 4.2.

### `Context.tla` (instantiated by `MCContext.tla`)

**State.**
- `active`, `current`, `home` and `freeList` are `active_cpu`,
  `m.current_context`, `m.kernel_context` and `free_kernel_contexts`.
- `allocated` is the set of kernel contexts the heap has returned.
- `parked` holds the kernel contexts held by suspended work.
- `runq` and `tstate` are the threads' scheduling state.
- `pc`, `target` and `resumeTo` say where each CPU is in `context_switch`.

**Actions.** `context_switch` is two steps:
- `SwitchBegin` is `context_pause`, which releases the previous context.
- `Acquire` is `context_resume`: the CAS, `set_current_context`, and then
  what follows.
- `Spin` is one failed CAS.

The callers:
- `ContextApply` dispatches a thread.
- `ThreadStop` is a thread being preempted or blocking. From that step on,
  another CPU may dispatch the thread.
- `KernYield` is `runloop` switching home.
- `Wake` is a blockq wake.
- `Park` is `check_kernel_context_replace` plus the suspension of the work.
- `ResumeParked` is suspended kernel work resumed on any CPU.
- `ParkAgain` is resumed kernel work suspending again.
  `check_kernel_context_replace` leaves the home alone, because the
  current context is not the CPU's kernel context.
- `FinishKWork` is the last reference to the context dropped
  (`free_kernel_context`) and the switch home.

`runloop_internal`, `ThreadStop`, `Wake` and `ResumeParked` are not under
`src/`; they are modelled from spec.md 4.1 and 5 and marked so in the map.

### `Telemetry.tla` (checked directly)

**State.** The variables are the fields of `struct telemetry`, plus:
- `reqs`, the crash-report and boot requests in flight, each with the stage
  it has reached: DNS, connect, open or closing;
- `retryTimers`, the registrations of `retry_timer` not yet fired (`> 1`
  would be a double registration);
- `statsReqs`, the statistics requests whose connection is pending.

**Actions.** One per callback:
- `KlogDumpLoaded`, `DnsCb`, `TelemetryCh` and `RecvData`; `RecvData`
  uses `CrashRecv` or `BootRecv`.
- `RecvClose`, which uses `CrashDone` or `BootDone`.
- `RetryTimerFunc`, `TelemetryStats` and `StatsReqEnd`.

How the network answers is chosen nondeterministically. `RecvData`
handles one data segment and then closes the connection, as
`telemetry_recv` does. Its value handler may or may not see the answer,
which covers a response whose body arrives in a later segment. The bodies' JSON
formatting is abstracted away: no handler branches on it.

### `Tmpfs.tla` (instantiated by `MCTmpfs.tla`)

**State.** One regular file:
- `file`: its lifecycle, from `tmpfs_create` through `tmpfsfile_free`
  (purge issued) to `tmpfsfile_sync_complete` (freed);
- `dirty`: the pages of the dirty range map; `pin`: each page's pin count in
  the page-cache node; `length` and `seals`: the fsfile's;
- `lock`, `wq`, `wpc` and `wret`: the filesystem lock and each writer's
  range, place in `tmpfsfile_write` and completion status;
- `mem`: whether the heap is refusing allocations, an environment variable
  the code does not control (`MemoryPressure` flips it at any time).

**Actions.**
- `TmpfsCreate`, `TmpfsfileReserve`, `TmpfsSetSeals`.
- `WriteBegin` (take the lock), then `FindGaps`: one
  `rangemap_range_find_gaps` call per step. `Gaps` computes the maximal
  uncovered runs, and `WriteHandler` inserts and pins one of them.
  `WriteEnd` unlocks and reports the status.
- `WriteReturn`, `TmpfsfileFree`, `TmpfsfileSyncComplete`.

Pages stand for the `range_rshift_pad` page range of a byte write.

**Refinement.** `TmpfsFile.tla` is what a tmpfs file promises the page
cache. A write is pending, then takes effect in one step (`Write`): with
`STATUS_OK` its whole range becomes dirty and held; with `timm_oom` part
of it may, but not all of it. The purge of a freed file releases every
page at once (`Release`). `Tmpfs` defines `File`, an `INSTANCE` of
`TmpfsFile`, with this mapping:
- a writer inside the do/while loop (the lock holder) is "pending";
- `dirty` and `held` are the dirty pages and the pinned pages, minus
  `Inserted`: the gaps the lock holder has inserted and pinned so far.

`Inserted` needs the dirty pages of the holder's range when it took the
lock. The code keeps no such field, so `Tmpfs` has a history variable,
`wbase`, set by `WriteBegin` and read only by the mapping. The write's
linearisation point is the gap search that ends the loop.
`TmpfsRefined` (`File!Spec`) is checked in the tmpfs run, fairness
included: a pending write takes effect, and a purge completes.

## 3. Runs

| run | cfg | expect | shows |
|---|---|---|---|
| pipe | `MCPipe.cfg` | pass | the buffer bound, the end count, byte conservation, poll events that agree with blocking, and waiter release on close hold over every pipe2 outcome, blocking and non-blocking I/O, capacity changes and closes; the pipe refines `PipeStream` |
| pipe_sleeper | `MCPipeSleeper.cfg` | violation | one wake per write leaves a second reader asleep with bytes buffered |
| pipe_close_race | `MCPipeCloseRace.cfg` | violation | with two CPUs, a blockq is used after the other end released it: by the flush of two ends closing at once, and by a bottom half's notify that tested the peer fd before the peer closed |
| context | `MCContext.cfg` | pass | exclusive ownership, one role per kernel context, spins end and runnable threads run |
| context_stack | `MCContextStack.cfg` | violation | a CPU still on a released kernel context's stack while another CPU resumes it |
| telemetry | `MCTelemetry.cfg` | pass | attempts are serialised, the dump is released before boot, and statistics carry the boot id |
| telemetry_abandon | `MCTelemetryAbandon.cfg` | violation | a failed `telemetry_req` ends telemetry for the boot |
| tmpfs | `MCTmpfs.cfg` | pass | pins follow the dirty map exactly and are all released at sync completion, with allocations failing at any time; the file refines `TmpfsFile`, fairness included, so the write loop always ends and releases the lock and every write takes effect in one step, retaining its whole range on `STATUS_OK` and not all of it on `timm_oom` |
| spinlock2 | `MCSpinLock2.cfg` | pass | some CPU can always step, and `spin_lock_2` refines `TwoLocks` |
| spinlock2_livelock | `MCSpinLock2Livelock.cfg` | violation | two CPUs naming the same locks in opposite orders can back off forever in lockstep |
| timer_service | `MCTimerService.cfg` | pass | one service thunk in flight exactly while `service_scheduled` is set, expired timers are serviced without a further interrupt, and every completion posted to `async_queue_1` is applied |
| timer_service_full | `MCTimerServiceFull.cfg` | violation | a service thunk dropped by a full `bhqueue` leaves `service_scheduled` set, and timers are never serviced again |

Every property of a passing run has a mutant in `PROJECT.json`. The mutant
is a plausible bug in the definition the property is about, and TLC finds
the property violated once that definition is replaced.

### Bounds

**Pipe.**
- Two readers and one writer: two readers are the fewest that can contend
  for one wakeup.
- `PAGESIZE = 1`: the default capacity of 16 pages is then 16 bytes.
- Capacities `{0, 1, 2}` reach the clamp, a shrink below the contents
  (`-EBUSY`) and growth.
- Lengths `{0, 1, 2}` reach the zero-length return, partial reads and full
  reads.
- `MaxWritten = 3` bounds the bytes written, so the buffer fills and drains.
- `NCPU = 1` for the sequential runs; `NCPU = 2` for the close race, where
  a close or a notify can stop between its steps.

**Contexts.**
- Two CPUs, two threads, and three kernel contexts: one home each, plus one
  spare for a handoff through `check_kernel_context_replace`.
- No symmetry set: the run checks liveness, which symmetry reduction
  does not preserve.

**Telemetry.**
- `MaxRetries = 11`: the backoff takes ten doublings to settle at 1024 s.
- `MaxStats = 2` statistics batches: the first, sent from `telemetry_recv`,
  and one from the stats timer.

**Tmpfs.**
- Three pages: a write of `1..3` after one of `{2}` meets two separate gaps.
- Two writers, three writes: overlapping writes, and contention for the
  filesystem lock.

**SpinLock2.**
- Four CPUs over locks `a`, `b`, `d`, with orders `c1: <<a, b>>`,
  `c2: <<b, a>>`, `c3: <<d, a>>` and `c4: <<a, d>>`.
- That gives two pairs naming the same locks in opposite orders, and pairs
  sharing one lock. Every cycle of two CPUs waiting on each other can form.
- The livelock run uses the same four CPUs.

**TimerService.**
- Two CPUs, so a timer interrupt and the service can run on different CPUs.
- `BhqSize = 2` in the passing run, so the queue never refuses the service
  thunk. `BhqSize = 1` in `timer_service_full`, so one device bottom half
  fills it.
- `MaxExpiries = 2`: the second expiry meets a service already scheduled or
  already running.
- `MaxDev = 1`.
- `AsyncSize = 2` and `MaxPosts = 1`: one device completion and one
  thread completion can be queued together, which a queue of 2 holds.

### Fairness

**Pipe.** Weak fairness on:
- `AsyncRun`: the runloop drains `async_queue_1` on every pass;
- `CloseNotify` and `CloseRelease`: `pipe_dealloc_end` is straight-line
  code;
- `BhNotifyTest` and `BhNotifyWake`: the rest of a bottom half that is
  already running.

Threads are not obliged to call anything.

**Contexts.**
- Weak fairness on the acquire, on `KernYield` and on `FinishKWork`: each
  is code a CPU is already executing.
- Weak fairness on `ThreadStop`: the timer interrupt preempts a running
  thread.
- Strong fairness on `ContextApply`: `runloop_internal` dispatches a thread
  on every pass it makes with a non-empty run queue.

**Tmpfs.** Weak fairness on each writer's `FindGaps`: the lock holder is
executing the loop. Weak fairness on `TmpfsfileSyncComplete`: the purge
completes. Allocation failure is not subject to fairness.

**Telemetry.** No liveness property; the abandonment question is stated as
an invariant.

**SpinLock2.** Weak fairness on each CPU's `Step`: a CPU inside
`spin_lock_2` keeps executing it. Nothing forces two CPUs out of lockstep,
and `spinlock2_livelock` shows that this fairness does not give progress.

**TimerService.**
- Strong fairness on `TakeInterrupt`: the APIC delivers a pending interrupt
  whenever IF is set, and IF is set only at times.
- Weak fairness on `EnqueueService`, `RunloopStep`, `TimerServiceFunc`,
  `BhComplete` and `ThreadYield`: kernel code that is already running,
  and a thread that the timer preempts.
- Threads need not yield, and timers need not expire.

## 4. Not modelled, and why

- **Pipe.**
  - `pipe2` with a bad flag or `O_DIRECT` returns after the pipe is
    allocated (`pipe.c:284`). A leak is a question about the heap, which
    the model does not have; the hazard is listed.
  - A write after the reader closed succeeds while data fits
    (`pipe.c:205`). The spec's `-EPIPE` is stated for a full pipe in
    `PipeStream`, which is what the code does; the hazard is listed.
- **Contexts.** The `shutting_down` paths of `context_pause` and
  `context_resume` are not modelled. With the flag set, `context_pause`
  returns before it releases the context (`kernel.h:236`), and
  `context_resume` skips the compare-and-swap. spec.md 4.1 says the
  release still happens. Whether other CPUs still switch contexts by
  then depends on shutdown code outside `src/`, which spec.md does not
  describe. The hazard is listed.
- **Async queue.**
  - `TimerService` models the capacity of `async_queue_1` and the dropped
    enqueue. The passing run uses `AsyncSize = 2`. With `AsyncSize = 1`,
    TLC finds `IoCompletes` violated in 14 states: a thread's tmpfs
    completion fills the queue, the device bottom half's completion is
    dropped (`tmpfs.c:63` ignores the result that `async_apply_1`
    returns, and so does the modelled device bottom half), and that
    I/O never completes. The run list has no separate violation run for
    this; the two hazards record it.
  - The blockq's own use of `async_apply_1` is not under `src/`.
- **Tmpfs.**
  - The files table, `unlink` and `rename` call generic filesystem code
    that is not under `src/`.
  - `tmpfsfile_read` zero-fills; `get_blocks` and `get_seals` only read.
  - Whether the page cache can still write a file after its purge began is
    not modelled.
- **Fault counters.** Each is a single atomic increment, with no state
  worth a model.
- **Red-black tree.** The implementation is not under `src/`; only its test
  is.
- **Architecture support.**
  - The architecture headers are register-level, apart from the
    interrupt-flag operations that `TimerService` models.
  - The aarch64 lazy FPSIMD save is driven by callers outside `src/`.

## 5. Status and what remains

Done:
1. `Pipe` with blockq, with the bottom half's notify split from its locked
   part. It is refined to `PipeStream`.
2. `Context`.
3. `Telemetry`.
4. `Tmpfs`: the gap-filling write loop, the pins and their release.
5. `SpinLock2`, refined to `TwoLocks`, and its livelock.
6. `TimerService`: `schedule_timer_service` with the runloop and `bhqueue`.

7. `TimerService` with `async_queue_1`: completions from a device bottom
   half and from `tmpfsfile_write`, and the `irq_restore` ordering.
8. `Pipe`'s poll events (`pipe_read_events`, `pipe_write_events`).
9. `TmpfsFile`, the abstraction of a tmpfs file, refined by `Tmpfs`.

Remaining:
1. `TimerService` composed with `Context`: threads dispatched by the same
   runloop.
2. The `shutting_down` paths of `Context`, once the shutdown sequence is
   specified.
3. The failed allocations of `init_cpuinfo` and
   `check_kernel_context_replace` (hazards listed).
