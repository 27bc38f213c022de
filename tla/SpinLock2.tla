------------------------------ MODULE SpinLock2 ------------------------------
(***************************************************************************)
(* spin_lock_2 (src/src/kernel/kernel.h): take two spinlocks, "guarding    *)
(* against potential deadlock resulting from a concurrent thread trying to *)
(* acquire the same locks".  A CPU spins for its first lock, then tries    *)
(* the second once; when the try fails it drops the first, pauses and     *)
(* spins for the first again.  Each CPU is given the order in which it     *)
(* names the two locks; its caller, having both, later unlocks them.      *)
(***************************************************************************)
EXTENDS FiniteSets

CONSTANTS
    CPUs,     \* CPUs calling spin_lock_2
    Locks,    \* the spinlocks
    Order,    \* Order[c] = <<l1, l2>>, the arguments c passes
    NoOne     \* the owner of a free lock

ASSUME /\ NoOne \notin CPUs
       /\ \A c \in CPUs : Order[c][1] # Order[c][2]
                          /\ {Order[c][1], Order[c][2]} \subseteq Locks

VARIABLES
    owner,    \* the CPU holding each spinlock
    pc        \* each CPU's place in spin_lock_2 (see below)

\* pc: "idle"   not in spin_lock_2
\*     "lock1"  spin_lock(l1), first time or after backing off
\*     "try"    holding l1, about to spin_try(l2)
\*     "unlock" spin_try failed: about to spin_unlock(l1) and kern_pause
\*     "crit"   spin_lock_2 returned: both held
vars == <<owner, pc>>

L1(c) == Order[c][1]
L2(c) == Order[c][2]

Init ==
    /\ owner = [l \in Locks |-> NoOne]
    /\ pc = [c \in CPUs |-> "idle"]

\* a caller enters spin_lock_2
Call(c) ==
    /\ pc[c] = "idle"
    /\ pc' = [pc EXCEPT ![c] = "lock1"]
    /\ UNCHANGED owner

\* spin_lock(l1): the spin ends when l1 is free and c takes it
SpinLockL1(c) ==
    /\ pc[c] = "lock1"
    /\ owner[L1(c)] = NoOne
    /\ owner' = [owner EXCEPT ![L1(c)] = c]
    /\ pc' = [pc EXCEPT ![c] = "try"]

\* spin_try(l2), with the spinning kept in place of the back-off
SpinTryNoBackoff(c) ==
    /\ pc[c] = "try"
    /\ owner[L2(c)] = NoOne
    /\ owner' = [owner EXCEPT ![L2(c)] = c]
    /\ pc' = [pc EXCEPT ![c] = "crit"]

\* spin_try(l2) with its result ignored: the caller goes on either way
SpinTryIgnoreResult(c) ==
    /\ pc[c] = "try"
    /\ owner' = IF owner[L2(c)] = NoOne THEN [owner EXCEPT ![L2(c)] = c] ELSE owner
    /\ pc' = [pc EXCEPT ![c] = "crit"]

\* spin_try(l2): take l2 if it is free, otherwise go round the while loop
SpinTry(c) ==
    /\ pc[c] = "try"
    /\ IF owner[L2(c)] = NoOne
          THEN /\ owner' = [owner EXCEPT ![L2(c)] = c]
               /\ pc' = [pc EXCEPT ![c] = "crit"]
          ELSE /\ pc' = [pc EXCEPT ![c] = "unlock"]
               /\ UNCHANGED owner

Backoff(c) ==
    /\ pc[c] = "unlock"
    /\ owner' = [owner EXCEPT ![L1(c)] = NoOne]
    /\ pc' = [pc EXCEPT ![c] = "lock1"]

\* the caller's critical section ends with spin_unlock of both locks
Unlock2(c) ==
    /\ pc[c] = "crit"
    /\ owner' = [owner EXCEPT ![L1(c)] = NoOne, ![L2(c)] = NoOne]
    /\ pc' = [pc EXCEPT ![c] = "idle"]

\* a step of c inside spin_lock_2 or its critical section
Step(c) == SpinLockL1(c) \/ SpinTry(c) \/ Backoff(c) \/ Unlock2(c)

Next == \E c \in CPUs : Call(c) \/ Step(c)

(* A CPU inside spin_lock_2 keeps executing it: weak fairness on each of  *)
(* its steps.  Callers are not obliged to call.                           *)
Spec == Init /\ [][Next]_vars /\ \A c \in CPUs : WF_vars(Step(c))

-----------------------------------------------------------------------------
(* No circular wait: while some CPU is inside spin_lock_2, some CPU can   *)
(* take a step.  Two CPUs naming the same locks in opposite orders never  *)
(* both sit holding one lock and spinning for the other.                  *)
DeadlockFree ==
    (\E c \in CPUs : pc[c] # "idle") => \E c \in CPUs : ENABLED <<Step(c)>>_vars

(* Refinement: spin_lock_2 implements TwoLocks.  A lock is held, in the  *)
(* abstract, by the CPU that owns it in the critical section; a CPU that  *)
(* only holds its first lock while trying the second holds nothing yet.   *)
AbstractHolder ==
    [l \in Locks |-> IF owner[l] # NoOne /\ pc[owner[l]] = "crit" THEN owner[l] ELSE NoOne]

AbstractState ==
    [c \in CPUs |-> CASE pc[c] = "idle" -> "idle"
                      [] pc[c] = "crit" -> "holding"
                      [] OTHER          -> "waiting"]

Abstract == INSTANCE TwoLocks WITH holder <- AbstractHolder, state <- AbstractState

(* spin_lock_2 does what its comment says: callers naming overlapping     *)
(* locks, in either order, get both locks as if in one atomic step taken  *)
(* only while neither is held, and never share a lock.                    *)
TwoLocksRefined == Abstract!Spec

(* The comment's promise read as progress: whenever a CPU is in           *)
(* spin_lock_2, eventually some CPU holds both its locks.                 *)
SomeoneAcquires ==
    (\E c \in CPUs : pc[c] \in {"lock1", "try", "unlock"}) ~>
        (\E c \in CPUs : pc[c] = "crit")

=============================================================================
