------------------------------- MODULE TwoLocks -------------------------------
(***************************************************************************)
(* What spin_lock_2 promises its callers (src/src/kernel/kernel.h): a CPU  *)
(* that calls it ends up holding both locks it names, and takes them in    *)
(* one atomic step, only when no other caller holds either.  The spinning, *)
(* the try of the second lock and the back-off are invisible here.         *)
(***************************************************************************)
CONSTANTS CPUs, Locks, Order, NoOne

VARIABLES
    holder,   \* the caller of spin_lock_2 holding each lock, or NoOne
    state     \* "idle", "waiting" (inside spin_lock_2) or "holding"

vars == <<holder, state>>

Both(c) == {Order[c][1], Order[c][2]}

Init ==
    /\ holder = [l \in Locks |-> NoOne]
    /\ state = [c \in CPUs |-> "idle"]

Call(c) ==
    /\ state[c] = "idle"
    /\ state' = [state EXCEPT ![c] = "waiting"]
    /\ UNCHANGED holder

\* both locks are taken at once, and only when both are free
Acquire(c) ==
    /\ state[c] = "waiting"
    /\ \A l \in Both(c) : holder[l] = NoOne
    /\ holder' = [l \in Locks |-> IF l \in Both(c) THEN c ELSE holder[l]]
    /\ state' = [state EXCEPT ![c] = "holding"]

Release(c) ==
    /\ state[c] = "holding"
    /\ holder' = [l \in Locks |-> IF l \in Both(c) THEN NoOne ELSE holder[l]]
    /\ state' = [state EXCEPT ![c] = "idle"]

Next == \E c \in CPUs : Call(c) \/ Acquire(c) \/ Release(c)

Spec == Init /\ [][Next]_vars

=============================================================================
