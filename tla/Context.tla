------------------------------- MODULE Context -------------------------------
(***************************************************************************)
(* Context ownership and switching across CPUs (src/src/kernel/kernel.h,   *)
(* src/src/kernel/kernel.c).                                               *)
(*                                                                         *)
(* Each CPU runs runloop_internal on its designated kernel context (its    *)
(* "home", ci->m.kernel_context).  It dispatches thread contexts from the  *)
(* run queue with context_apply, takes back its home when a thread yields  *)
(* (kern_yield -> runloop), and may hand its home to suspended kernel work *)
(* (check_kernel_context_replace) and later resume such work on any CPU.   *)
(*                                                                         *)
(* context_switch is two steps: context_pause releases the previous        *)
(* context, then context_resume spins in context_acquire until a           *)
(* compare-and-swap of active_cpu from -1 succeeds.  Between the steps,    *)
(* and between a thread being made runnable and its CPU switching away     *)
(* from it, other CPUs act.  runloop_internal and the wake of a blocked    *)
(* thread are not under src/ and are modelled from spec.md 4.1 and 5.      *)
(***************************************************************************)
EXTENDS Integers, Sequences, FiniteSets, SequencesExt, Functions

CONSTANTS
    CPUs,      \* cpuinfos
    Threads,   \* thread contexts
    KCtxs,     \* kernel contexts the heap can provide (bound on allocation)
    UNOWNED    \* the -1u sentinel of active_cpu

ASSUME /\ CPUs # {} /\ Threads \cap KCtxs = {}
       /\ Cardinality(KCtxs) >= Cardinality(CPUs)
       /\ UNOWNED \notin CPUs

Ctxs == Threads \cup KCtxs

VARIABLES
    active,     \* c->active_cpu
    current,    \* ci->m.current_context
    home,       \* ci->m.kernel_context
    freeList,   \* ci->free_kernel_contexts, in list order
    allocated,  \* kernel contexts allocate_kernel_context has returned
    parked,     \* kernel contexts held by suspended kernel work
    runq,       \* the thread run queue
    tstate,     \* each thread: "runnable", "running" or "blocked"
    pc,         \* what each CPU executes (see below)
    target,     \* the context a CPU spins to acquire
    resumeTo    \* what the CPU executes once it has acquired target

\* pc: "loop"    runloop_internal on home
\*     "thread"  a thread context applied by context_apply
\*     "yield"   a thread context that has queued or blocked itself and is
\*               about to kern_yield
\*     "kwork"   resumed kernel work on a parked kernel context
\*     "acquire" spinning in context_acquire(target)
Running == {"loop", "thread", "yield", "kwork"}

vars == <<active, current, home, freeList, allocated, parked, runq, tstate,
          pc, target, resumeTo>>

FreeSet == UNION {ToSet(freeList[c]) : c \in CPUs}

-----------------------------------------------------------------------------
(* kernel.h: context_release, context_pause, context_switch *)

\* mutant: the release stores 0, a CPU id, instead of -1u
ContextReleaseZero(c) == active' = [active EXCEPT ![c] = 0]

\* context_release: active_cpu = -1u
ContextRelease(c) == active' = [active EXCEPT ![c] = UNOWNED]

\* context_pause (not shutting down): pause hook, then release
ContextPause(c) == ContextRelease(c)

\* context_switch(ctx) up to the spin of context_resume: a no-op when ctx is
\* already current; otherwise pause the previous context and start acquiring
SwitchBegin(cpu, ctx, then) ==
    IF ctx = current[cpu]
    THEN /\ pc' = [pc EXCEPT ![cpu] = then]
         /\ UNCHANGED <<active, target, resumeTo>>
    ELSE /\ ContextPause(current[cpu])
         /\ pc' = [pc EXCEPT ![cpu] = "acquire"]
         /\ target' = [target EXCEPT ![cpu] = ctx]
         /\ resumeTo' = [resumeTo EXCEPT ![cpu] = then]

\* mutant: the compare-and-swap expects the acquiring CPU's id, not -1u
ContextAcquireWrongExpect(cpu) ==
    /\ pc[cpu] = "acquire"
    /\ active[target[cpu]] = cpu
    /\ active' = [active EXCEPT ![target[cpu]] = cpu]
    /\ current' = [current EXCEPT ![cpu] = target[cpu]]
    /\ pc' = [pc EXCEPT ![cpu] = resumeTo[cpu]]

\* mutant: active_cpu is stored without the compare-and-swap
ContextAcquireStore(cpu) ==
    /\ pc[cpu] = "acquire"
    /\ active' = [active EXCEPT ![target[cpu]] = cpu]
    /\ current' = [current EXCEPT ![cpu] = target[cpu]]
    /\ pc' = [pc EXCEPT ![cpu] = resumeTo[cpu]]

\* context_acquire's successful compare-and-swap, then the rest of
\* context_resume: set_current_context and the resume hook
ContextAcquire(cpu) ==
    /\ pc[cpu] = "acquire"
    /\ active[target[cpu]] = UNOWNED
    /\ active' = [active EXCEPT ![target[cpu]] = cpu]
    /\ current' = [current EXCEPT ![cpu] = target[cpu]]
    /\ pc' = [pc EXCEPT ![cpu] = resumeTo[cpu]]

\* one failed compare-and-swap of the spin loop, then kern_pause
Spin(cpu) ==
    /\ pc[cpu] = "acquire"
    /\ ~ENABLED ContextAcquire(cpu)
    /\ UNCHANGED vars

Acquire(cpu) ==
    /\ ContextAcquire(cpu)
    /\ UNCHANGED <<home, freeList, allocated, parked, runq, tstate, target, resumeTo>>

-----------------------------------------------------------------------------
(* Threads *)

\* runloop_internal dequeues a thread and context_apply switches to it
ContextApply(cpu) ==
    /\ pc[cpu] = "loop" /\ runq # <<>>
    /\ LET t == Head(runq) IN
         /\ runq' = Tail(runq)
         /\ tstate' = [tstate EXCEPT ![t] = "running"]
         /\ SwitchBegin(cpu, t, "thread")
    /\ UNCHANGED <<current, home, freeList, allocated, parked>>

\* the running thread is preempted (schedule_thread) or blocks on a blockq;
\* from here another CPU can dispatch it while this CPU still owns it
ThreadStop(cpu) ==
    /\ pc[cpu] = "thread"
    /\ LET t == current[cpu] IN
         \/ /\ tstate' = [tstate EXCEPT ![t] = "runnable"]
            /\ runq' = Append(runq, t)
         \/ /\ tstate' = [tstate EXCEPT ![t] = "blocked"]
            /\ UNCHANGED runq
    /\ pc' = [pc EXCEPT ![cpu] = "yield"]
    /\ UNCHANGED <<active, current, home, freeList, allocated, parked, target, resumeTo>>

\* kern_yield -> runloop: context_switch to the CPU's kernel context
KernYield(cpu) ==
    /\ pc[cpu] = "yield"
    /\ SwitchBegin(cpu, home[cpu], "loop")
    /\ UNCHANGED <<current, home, freeList, allocated, parked, runq, tstate>>

\* mutant: the thread is marked runnable but never queued
WakeNoEnqueue(t) ==
    /\ tstate[t] = "blocked"
    /\ tstate' = [tstate EXCEPT ![t] = "runnable"]
    /\ UNCHANGED <<runq, active, current, home, freeList, allocated, parked, pc, target, resumeTo>>

\* a blockq wake makes a blocked thread runnable again
Wake(t) ==
    /\ tstate[t] = "blocked"
    /\ tstate' = [tstate EXCEPT ![t] = "runnable"]
    /\ runq' = Append(runq, t)
    /\ UNCHANGED <<active, current, home, freeList, allocated, parked, pc, target, resumeTo>>

-----------------------------------------------------------------------------
(* Kernel contexts *)

\* allocate_kernel_context: a new kernel context from the heap; KCtxs bounds
\* the heap, and check_kernel_context_replace asserts the allocation succeeds
AllocateKernelContext(kc) ==
    /\ kc \in KCtxs \ allocated
    /\ allocated' = allocated \cup {kc}

\* mutant: the reused context is taken without list_delete
GetKernelContextNoDelete(cpu, kc) ==
    IF freeList[cpu] # <<>>
    THEN /\ kc = Head(freeList[cpu])
         /\ UNCHANGED <<freeList, allocated>>
    ELSE /\ AllocateKernelContext(kc)
         /\ UNCHANGED freeList

\* get_kernel_context: reuse the head of the free list or allocate a new one
\* (allocate_kernel_context); kc is the context returned
GetKernelContext(cpu, kc) ==
    IF freeList[cpu] # <<>>
    THEN /\ kc = Head(freeList[cpu])
         /\ freeList' = [freeList EXCEPT ![cpu] = Tail(@)]
         /\ UNCHANGED allocated
    ELSE /\ AllocateKernelContext(kc)
         /\ UNCHANGED freeList

\* work running on the home kernel context suspends: check_kernel_context_replace
\* installs a fresh home, the old one stays with the work, and runloop
\* switches to the new home
Park(cpu) ==
    /\ pc[cpu] = "loop"
    /\ current[cpu] = home[cpu]
    /\ \E kc \in KCtxs :
         /\ GetKernelContext(cpu, kc)
         /\ home' = [home EXCEPT ![cpu] = kc]
         /\ parked' = parked \cup {current[cpu]}
         /\ SwitchBegin(cpu, kc, "loop")
    /\ UNCHANGED <<current, runq, tstate>>

\* resumed kernel work suspends again: check_kernel_context_replace finds
\* that the current context is not the CPU's kernel context and leaves the
\* home alone; the work keeps its context and runloop switches home
ParkAgain(cpu) ==
    /\ pc[cpu] = "kwork"
    /\ current[cpu] # home[cpu]
    /\ parked' = parked \cup {current[cpu]}
    /\ SwitchBegin(cpu, home[cpu], "loop")
    /\ UNCHANGED <<current, home, freeList, allocated, runq, tstate>>

\* runloop_internal resumes suspended kernel work: context_switch to it
ResumeParked(cpu) ==
    /\ pc[cpu] = "loop"
    /\ \E k \in parked :
         /\ parked' = parked \ {k}
         /\ SwitchBegin(cpu, k, "kwork")
    /\ UNCHANGED <<current, home, freeList, allocated, runq, tstate>>

\* free_kernel_context: the last reference is dropped while the context
\* runs; it is appended to this CPU's free list, and runloop switches home
FinishKWork(cpu) ==
    /\ pc[cpu] = "kwork"
    /\ freeList' = [freeList EXCEPT ![cpu] = Append(@, current[cpu])]
    /\ SwitchBegin(cpu, home[cpu], "loop")
    /\ UNCHANGED <<current, home, allocated, parked, runq, tstate>>

-----------------------------------------------------------------------------

\* init_cpuinfo / init_kernel_contexts: each CPU starts in its runloop on a
\* kernel context of its own; every thread is runnable
Init ==
    /\ \E h \in Injection(CPUs, KCtxs) :
         /\ home = h
         /\ current = h
         /\ allocated = Range(h)
         /\ active = [c \in Ctxs |-> IF \E cpu \in CPUs : h[cpu] = c
                                     THEN CHOOSE cpu \in CPUs : h[cpu] = c
                                     ELSE UNOWNED]
    /\ freeList = [c \in CPUs |-> <<>>]
    /\ parked = {}
    /\ runq \in SetToSeqs(Threads)
    /\ tstate = [t \in Threads |-> "runnable"]
    /\ pc = [c \in CPUs |-> "loop"]
    /\ target = current
    /\ resumeTo = [c \in CPUs |-> "loop"]

Next ==
    \/ \E cpu \in CPUs :
         \/ Spin(cpu) \/ Acquire(cpu) \/ ContextApply(cpu) \/ ThreadStop(cpu) \/ KernYield(cpu)
         \/ Park(cpu) \/ ParkAgain(cpu) \/ ResumeParked(cpu) \/ FinishKWork(cpu)
    \/ \E t \in Threads : Wake(t)

\* A CPU keeps executing the code it is in: the spin retries, a yielding
\* thread reaches runloop, and kernel work that was resumed finishes.  The
\* timer interrupt preempts a running thread.  runloop_internal dequeues a
\* thread on every pass it makes with a non-empty run queue, so a CPU that
\* keeps returning to its runloop dispatches: strong fairness.
Fairness ==
    \A cpu \in CPUs :
        /\ WF_vars(Acquire(cpu)) /\ WF_vars(KernYield(cpu))
        /\ WF_vars(FinishKWork(cpu)) /\ WF_vars(ThreadStop(cpu))
        /\ SF_vars(ContextApply(cpu))

Spec == Init /\ [][Next]_vars /\ Fairness

-----------------------------------------------------------------------------
(* Properties *)

TypeOK ==
    /\ active \in [Ctxs -> CPUs \cup {UNOWNED}]
    /\ current \in [CPUs -> Ctxs] /\ home \in [CPUs -> KCtxs]
    /\ freeList \in [CPUs -> Seq(KCtxs)]
    /\ allocated \subseteq KCtxs /\ parked \subseteq KCtxs
    /\ runq \in Seq(Threads)
    /\ tstate \in [Threads -> {"runnable", "running", "blocked"}]
    /\ pc \in [CPUs -> Running \cup {"acquire"}]
    /\ target \in [CPUs -> Ctxs] /\ resumeTo \in [CPUs -> Running]

\* A CPU executes only on a context it owns, so no context runs on two CPUs
\* at once, and a CPU never spins for a context it already owns (the assert
\* at the top of context_acquire) (spec.md 3, 8 property 1).
OwnershipExclusive ==
    \A cpu \in CPUs :
        /\ pc[cpu] \in Running => active[current[cpu]] = cpu
        /\ pc[cpu] = "acquire" => active[target[cpu]] # cpu

\* Every kernel context has one role at a time: the home of one CPU, held by
\* suspended work, or on one free list, idle, exactly once.
KernelContextRoles ==
    /\ IsInjective(home)
    /\ Range(home) \cap parked = {}
    /\ \A c1, c2 \in CPUs :
         /\ IsInjective(freeList[c1])
         /\ c1 # c2 => ToSet(freeList[c1]) \cap ToSet(freeList[c2]) = {}
    /\ \A k \in FreeSet :
         /\ active[k] = UNOWNED
         /\ k \notin parked \cup Range(home)
         /\ \A cpu \in CPUs : /\ pc[cpu] \in Running => k # current[cpu]
                              /\ pc[cpu] = "acquire" => k # target[cpu]

\* No two CPUs execute on the stack of the same kernel context.  A CPU in
\* context_switch runs on the stack of the context it has just released
\* until runloop's switch_stack, so that context must not be resumed
\* elsewhere meanwhile (spec.md 3: only the owning CPU may execute on the
\* context's stack).  Thread contexts are excluded: kernel code does not
\* run on a thread's stack.
StackExclusive ==
    \A c1, c2 \in CPUs : c1 # c2 /\ current[c1] = current[c2] => current[c1] \notin KCtxs

\* The spin in context_acquire ends: whoever holds the context releases it
\* (the CONTEXT_RESUME_SPIN_LIMIT assertion is never reached).
SpinTerminates == \A cpu \in CPUs : pc[cpu] = "acquire" ~> pc[cpu] # "acquire"

\* A runnable thread is eventually dispatched.
RunnableThreadRuns == \A t \in Threads : tstate[t] = "runnable" ~> tstate[t] = "running"

=============================================================================
