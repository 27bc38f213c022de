----------------------------- MODULE TimerService -----------------------------
(***************************************************************************)
(* The timer service thunk and the bottom-half queue (src/src/kernel/      *)
(* kernel.h schedule_timer_service; interrupt control of src/src/x86_64/   *)
(* kernel_machine.h; runloop_internal and the service thunk, which are not *)
(* under src/, from spec.md 4.1 and 4.2).                                  *)
(*                                                                         *)
(* A timer interrupt means timers have expired.  Its handler calls         *)
(* schedule_timer_service: a compare-and-swap of service_scheduled from    *)
(* false to true and, when it succeeds, an enqueue of the service thunk on *)
(* bhqueue, which is bounded and whose enqueue result is not looked at.    *)
(* Each CPU's runloop drains bhqueue with interrupts disabled, runs        *)
(* threads with interrupts enabled, and when there is nothing to do waits  *)
(* with "sti; hlt".  The service thunk clears service_scheduled and pops   *)
(* every expired timer.  Device interrupts put other bottom halves on the  *)
(* same queue; a device bottom half, and a thread finishing a tmpfs write  *)
(* (src/klib/tmpfs.c), post their completion on async_queue_1 with         *)
(* async_apply_1, an enqueue_n_irqsafe.  The runloop drains bhqueue, then  *)
(* async_queue_1, then runs a thread, and otherwise halts.                 *)
(***************************************************************************)
EXTENDS Integers, Sequences, FiniteSets

CONSTANTS
    CPUs,
    BhqSize,      \* capacity of bhqueue
    MaxExpiries,  \* bound on timer interrupts
    MaxDev,       \* bound on device interrupts
    AsyncSize,    \* capacity of async_queue_1
    MaxPosts      \* bound on completions posted by threads

ASSUME /\ CPUs # {}
       /\ \A n \in {BhqSize, MaxExpiries, MaxDev, AsyncSize, MaxPosts} : n \in Nat

VARIABLES
    ifl,          \* each CPU's interrupt flag (EFLAGS.IF)
    irq,          \* interrupts raised at each CPU and not yet taken
    pc,           \* what each CPU executes (see below)
    ret,          \* where an interrupted CPU returns to
    bhq,          \* bhqueue: "service" or "dev" bottom halves
    scheduled,    \* kernel_timers->service_scheduled
    expired,      \* expired timers the service has not yet popped
    fired,        \* <<timer, device>> interrupts raised so far
    aq,           \* async_queue_1: completions not yet applied
    posts,        \* completions posted by threads so far
    io            \* device interrupts and thread posts whose completion
                  \* has not yet been applied

\* pc: "loop"    runloop_internal, interrupts disabled
\*     "thread"  a thread, interrupts enabled
\*     "sti"     between the sti and the hlt of wait_for_interrupt
\*     "halt"    halted in wait_for_interrupt
\*     "enq"     in the timer handler, the CAS won: about to enqueue
\*     "svc1"    running the service thunk, about to clear the flag
\*     "svc2"    running the service thunk, about to pop the timers
\*     "devbh"   running a device bottom half, about to post its completion
\*     "idle"    runloop_internal found no work, about to wait_for_interrupt
vars == <<ifl, irq, pc, ret, bhq, scheduled, expired, fired, aq, posts, io>>
asyncVars == <<aq, posts, io>>

Init ==
    /\ ifl = [c \in CPUs |-> FALSE]
    /\ irq = [c \in CPUs |-> {}]
    /\ pc = [c \in CPUs |-> "loop"]
    /\ ret = [c \in CPUs |-> "loop"]
    /\ bhq = <<>>
    /\ scheduled = FALSE
    /\ expired = 0
    /\ fired = <<0, 0>>
    /\ aq = <<>> /\ posts = 0 /\ io = 0

\* enqueue on a queue of capacity n: fails, leaving it as it was, when full
Offered(q, n, x) == IF Len(q) < n THEN Append(q, x) ELSE q

\* enqueue(bhqueue, x), whose result is not looked at
Enqueue(x) == bhq' = Offered(bhq, BhqSize, x)

\* irq_disable_save: the flags as they were; interrupts are then disabled
IrqDisableSave(c) == ifl[c]

\* mutant: the wrapper re-enables interrupts instead of restoring them
IrqRestoreEnables(c, flags) == ifl' = [ifl EXCEPT ![c] = TRUE]

\* irq_restore(flags): popf puts IF back as it was saved
IrqRestore(c, flags) == ifl' = [ifl EXCEPT ![c] = flags]

(* async_apply_1 = enqueue_n_irqsafe(async_queue_1, ...): irq_disable_save, *)
(* enqueue_n, irq_restore.  With IF clear throughout, no interrupt splits   *)
(* it on this CPU, and the queue is multi-producer: one step.  tmpfs and    *)
(* the device bottom half ignore the result; a full queue drops the        *)
(* completion.                                                             *)
AsyncApply1(c) ==
    /\ aq' = Offered(aq, AsyncSize, "completion")
    /\ IrqRestore(c, IrqDisableSave(c))

-----------------------------------------------------------------------------
(* Hardware *)

\* timers expire: the clock source raises the timer interrupt at c
TimerExpire(c) ==
    /\ fired[1] < MaxExpiries
    /\ expired' = expired + 1
    /\ irq' = [irq EXCEPT ![c] = @ \cup {"timer"}]
    /\ fired' = [fired EXCEPT ![1] = @ + 1]
    /\ UNCHANGED <<ifl, pc, ret, bhq, scheduled>> /\ UNCHANGED asyncVars

\* a device raises its interrupt at c: an I/O is now owed a completion
DeviceRaise(c) ==
    /\ fired[2] < MaxDev
    /\ irq' = [irq EXCEPT ![c] = @ \cup {"dev"}]
    /\ fired' = [fired EXCEPT ![2] = @ + 1]
    /\ io' = io + 1
    /\ UNCHANGED <<ifl, pc, ret, bhq, scheduled, expired, aq, posts>>

\* Where the CPU goes when its handler returns: an interrupted thread, or
\* a completed hlt, falls into the runloop (spec.md 3); other code resumes
\* where it was, and iret restores the IF it had, which was set.
ReturnPoint(p) == IF p \in {"thread", "halt"} THEN "loop" ELSE p

Resume(c, p) ==
    /\ pc' = [pc EXCEPT ![c] = ReturnPoint(p)]
    /\ ifl' = [ifl EXCEPT ![c] = ReturnPoint(p) = p]

(* Interrupt entry with IF set: the timer handler calls                   *)
(* schedule_timer_service, whose compare-and-swap either wins (enqueue    *)
(* next) or finds a service already scheduled; a device handler enqueues *)
(* its bottom half.                                                       *)
TakeInterruptNoCas(c) ==
    /\ ifl[c]
    /\ \E i \in irq[c] :
        /\ irq' = [irq EXCEPT ![c] = @ \ {i}]
        /\ ret' = [ret EXCEPT ![c] = pc[c]]
        /\ \/ /\ i = "timer" /\ scheduled' = TRUE /\ UNCHANGED bhq
              /\ pc' = [pc EXCEPT ![c] = "enq"] /\ ifl' = [ifl EXCEPT ![c] = FALSE]
           \/ i = "dev" /\ Enqueue("dev") /\ Resume(c, pc[c]) /\ UNCHANGED scheduled
    /\ UNCHANGED <<expired, fired>> /\ UNCHANGED asyncVars

TakeInterrupt(c) ==
    /\ ifl[c]
    /\ \E i \in irq[c] :
        /\ irq' = [irq EXCEPT ![c] = @ \ {i}]
        /\ ret' = [ret EXCEPT ![c] = pc[c]]
        /\ \/ /\ i = "timer" /\ scheduled' = TRUE /\ UNCHANGED bhq
              /\ IF scheduled
                    THEN Resume(c, pc[c])
                    ELSE pc' = [pc EXCEPT ![c] = "enq"] /\ ifl' = [ifl EXCEPT ![c] = FALSE]
           \/ i = "dev" /\ Enqueue("dev") /\ Resume(c, pc[c]) /\ UNCHANGED scheduled
    /\ UNCHANGED <<expired, fired>> /\ UNCHANGED asyncVars

\* schedule_timer_service after a won CAS: enqueue(bhqueue, service), and
\* return from the interrupt
EnqueueService(c) ==
    /\ pc[c] = "enq"
    /\ Enqueue("service")
    /\ Resume(c, ret[c])
    /\ UNCHANGED <<irq, ret, scheduled, expired, fired>> /\ UNCHANGED asyncVars

-----------------------------------------------------------------------------
(* Runloop (spec.md 4.1), interrupts disabled *)

\* drain bhqueue: dequeue the head bottom half and apply it
RunBh(c) ==
    /\ pc[c] = "loop"
    /\ bhq # <<>>
    /\ bhq' = Tail(bhq)
    /\ pc' = [pc EXCEPT ![c] = IF Head(bhq) = "service" THEN "svc1" ELSE "devbh"]
    /\ UNCHANGED <<ifl, irq, ret, scheduled, expired, fired>> /\ UNCHANGED asyncVars

\* the device bottom half completes its I/O: async_apply_1 of the status
\* handler, then back to the runloop
BhComplete(c) ==
    /\ pc[c] = "devbh"
    /\ AsyncApply1(c)
    /\ pc' = [pc EXCEPT ![c] = "loop"]
    /\ UNCHANGED <<irq, ret, bhq, scheduled, expired, fired, posts, io>>

(* The service thunk: clear service_scheduled, then pop every expired     *)
(* timer and run its handler.                                             *)
TimerServiceFunc(c) ==
    /\ \/ /\ pc[c] = "svc1"
          /\ scheduled' = FALSE
          /\ pc' = [pc EXCEPT ![c] = "svc2"]
          /\ UNCHANGED expired
       \/ /\ pc[c] = "svc2"
          /\ expired' = 0
          /\ pc' = [pc EXCEPT ![c] = "loop"]
          /\ UNCHANGED scheduled
    /\ UNCHANGED <<ifl, irq, ret, bhq, fired>> /\ UNCHANGED asyncVars

\* with bhqueue empty, drain async_queue_1: apply the head completion
RunAsync(c) ==
    /\ pc[c] = "loop"
    /\ bhq = <<>> /\ aq # <<>>
    /\ aq' = Tail(aq)
    /\ io' = io - 1
    /\ UNCHANGED <<ifl, irq, pc, ret, bhq, scheduled, expired, fired, posts>>

\* with both queues empty, dispatch a thread (which runs with IF set)
RunThread(c) ==
    /\ pc[c] = "loop"
    /\ bhq = <<>> /\ aq = <<>>
    /\ pc' = [pc EXCEPT ![c] = "thread"]
    /\ ifl' = [ifl EXCEPT ![c] = TRUE]
    /\ UNCHANGED <<irq, ret, bhq, scheduled, expired, fired>> /\ UNCHANGED asyncVars

\* a thread finishes a tmpfs write: tmpfsfile_write's
\* async_apply_status_handler(complete, ...) with interrupts enabled
ThreadComplete(c) ==
    /\ pc[c] = "thread"
    /\ posts < MaxPosts
    /\ AsyncApply1(c)
    /\ posts' = posts + 1
    /\ io' = io + 1
    /\ UNCHANGED <<irq, pc, ret, bhq, scheduled, expired, fired>>

\* the thread yields: kern_yield switches to runloop, and runloop_internal
\* clears the interrupt flag before it looks at the queues
ThreadYield(c) ==
    /\ pc[c] = "thread"
    /\ pc' = [pc EXCEPT ![c] = "loop"]
    /\ ifl' = [ifl EXCEPT ![c] = FALSE]
    /\ UNCHANGED <<irq, ret, bhq, scheduled, expired, fired>> /\ UNCHANGED asyncVars

\* mutant: the idle test looks at bhqueue only
RunloopIdleIgnoreAsync(c) ==
    /\ pc[c] = "loop"
    /\ bhq = <<>>
    /\ pc' = [pc EXCEPT ![c] = "idle"]
    /\ UNCHANGED <<ifl, irq, ret, bhq, scheduled, expired, fired>> /\ UNCHANGED asyncVars

\* no bottom half, completion or thread produced work
RunloopIdle(c) ==
    /\ pc[c] = "loop"
    /\ bhq = <<>> /\ aq = <<>>
    /\ pc' = [pc EXCEPT ![c] = "idle"]
    /\ UNCHANGED <<ifl, irq, ret, bhq, scheduled, expired, fired>> /\ UNCHANGED asyncVars

(* wait_for_interrupt, "sti; hlt".  An interrupt is not taken in the      *)
(* instruction after sti, so the CPU halts with IF set in one step and    *)
(* any interrupt raised before wakes it.                                  *)
WaitForInterruptSplit(c) ==
    /\ \/ /\ pc[c] = "idle"
          /\ pc' = [pc EXCEPT ![c] = "sti"]
          /\ ifl' = [ifl EXCEPT ![c] = TRUE]
       \/ /\ pc[c] = "sti"
          /\ pc' = [pc EXCEPT ![c] = "halt"]
          /\ UNCHANGED ifl
    /\ UNCHANGED <<irq, ret, bhq, scheduled, expired, fired>> /\ UNCHANGED asyncVars

WaitForInterrupt(c) ==
    /\ pc[c] = "idle"
    /\ pc' = [pc EXCEPT ![c] = "halt"]
    /\ ifl' = [ifl EXCEPT ![c] = TRUE]
    /\ UNCHANGED <<irq, ret, bhq, scheduled, expired, fired>> /\ UNCHANGED asyncVars

\* one pass of runloop_internal: drain a bottom half, else a completion,
\* else run a thread, else wait for an interrupt
RunloopStep(c) ==
    RunBh(c) \/ RunAsync(c) \/ RunThread(c) \/ RunloopIdle(c) \/ WaitForInterrupt(c)

\* every interrupt source has fired and every CPU sleeps or runs a thread
Quiescent ==
    /\ fired = <<MaxExpiries, MaxDev>>
    /\ \A c \in CPUs : pc[c] \in {"halt", "thread"} /\ irq[c] = {}
    /\ UNCHANGED vars

Next ==
    \/ \E c \in CPUs :
        \/ TimerExpire(c) \/ DeviceRaise(c) \/ TakeInterrupt(c)
        \/ EnqueueService(c) \/ RunloopStep(c) \/ TimerServiceFunc(c)
        \/ BhComplete(c) \/ ThreadComplete(c) \/ ThreadYield(c)
    \/ Quiescent

(* Fairness.  The local APIC delivers a pending interrupt at the first    *)
(* instruction boundary where IF is set, which may be set only now and    *)
(* then: strong fairness.  Kernel code runs on: weak fairness on the      *)
(* handler's enqueue, on the runloop (which drains, dispatches or halts), *)
(* on the service and on the device bottom half.  A running thread        *)
(* returns to the runloop, by yielding, blocking or the scheduler's       *)
(* preemption: weak fairness on ThreadYield.  Timers need not expire.     *)
Fairness ==
    \A c \in CPUs :
        /\ SF_vars(TakeInterrupt(c))
        /\ WF_vars(EnqueueService(c))
        /\ WF_vars(RunloopStep(c))
        /\ WF_vars(TimerServiceFunc(c))
        /\ WF_vars(BhComplete(c))
        /\ WF_vars(ThreadYield(c))

Spec == Init /\ [][Next]_vars /\ Fairness

-----------------------------------------------------------------------------
\* the service thunks in flight: queued, being enqueued, or running with
\* the flag still set
InFlight ==
    Len(SelectSeq(bhq, LAMBDA x : x = "service"))
        + Cardinality({c \in CPUs : pc[c] \in {"enq", "svc1"}})

(* spec.md 4.2: at most one service thunk is in flight, and              *)
(* service_scheduled is set exactly while one is.  A set flag with no    *)
(* thunk in flight would make every later compare-and-swap fail: no      *)
(* timer would be serviced again.                                        *)
SingleServiceInFlight ==
    /\ InFlight <= 1
    /\ scheduled <=> InFlight = 1

(* Expired timers are serviced: once a timer has expired, a service thunk *)
(* eventually pops it, without waiting for a further interrupt.           *)
ExpiredServiced ==
    expired > 0 ~> expired = 0

(* Every I/O completes: a device interrupt leads, through its bottom half *)
(* and the completion it posts on async_queue_1, to the completion being  *)
(* applied, and so does a completion a thread posts for a tmpfs write.    *)
(* It fails if a runloop halts with a completion queued, or if the        *)
(* irqsafe enqueue leaves interrupts enabled in the runloop, where an     *)
(* interrupt between the idle test and the halt goes unnoticed.           *)
IoCompletes ==
    io > 0 ~> io = 0

=============================================================================
