------------------------------ MODULE PipeStream ------------------------------
(***************************************************************************)
(* What a pipe promises its callers, with no blockq, async queue, lock or  *)
(* close protocol: a bounded byte stream between a read end and a write    *)
(* end, each read(2) or write(2) completing atomically with a result that  *)
(* the stream's state at that moment allows (pipe(7); spec.md 4.5, 7).     *)
(* Bytes are counted, not named: put and taken are the bytes ever written  *)
(* and read, their difference the contents.  A call may be issued and      *)
(* complete later; req holds its length and res the last result.          *)
(***************************************************************************)
EXTENDS Integers

CONSTANTS
    Readers, Writers,
    NONE, EAGAIN, EPIPE, EFAULT, ERESTARTSYS   \* result values

VARIABLES
    put,     \* bytes accepted by writes
    taken,   \* bytes returned by reads
    cap,     \* capacity; 0 until the pipe is created
    open,    \* open["read"], open["write"]: the ends not yet closed
    req,     \* length of each thread's last call
    pending, \* each thread's last call has not completed
    res      \* result of each thread's last completed call

vars == <<put, taken, cap, open, req, pending, res>>

Threads == Readers \cup Writers
Ends == {"read", "write"}
Content == put - taken
Room == cap - Content
Least(a, b) == IF a < b THEN a ELSE b

Init ==
    /\ put = 0 /\ taken = 0 /\ cap = 0
    /\ open = [e \in Ends |-> FALSE]
    /\ req = [t \in Threads |-> 0]
    /\ pending = [t \in Threads |-> FALSE]
    /\ res = [t \in Threads |-> NONE]

\* pipe2(2) succeeds once: both ends open, some positive capacity
Create ==
    /\ cap = 0 /\ cap' \in Nat \ {0}
    /\ open' = [e \in Ends |-> TRUE]
    /\ UNCHANGED <<put, taken, req, pending, res>>

\* the results a read of n bytes by t may complete with now
ReadResult(t, n) ==
    \/ n = 0 /\ res' = [res EXCEPT ![t] = 0] /\ UNCHANGED taken
    \/ /\ n > 0
       /\ \E k \in 1..Least(n, Content) :
             taken' = taken + k /\ res' = [res EXCEPT ![t] = k]
    \/ /\ n > 0 /\ UNCHANGED taken
       /\ \/ Content = 0 /\ ~open["write"] /\ res' = [res EXCEPT ![t] = 0]
          \/ Content = 0 /\ open["write"] /\ res' = [res EXCEPT ![t] = EAGAIN]
          \/ Content > 0 /\ res' = [res EXCEPT ![t] = EFAULT]

\* the results a write of n bytes by t may complete with now
WriteResult(t, n) ==
    \/ n = 0 /\ res' = [res EXCEPT ![t] = 0] /\ UNCHANGED put
    \/ /\ n > 0
       /\ \E k \in 1..Least(n, Room) :
             put' = put + k /\ res' = [res EXCEPT ![t] = k]
    \/ /\ n > 0 /\ UNCHANGED put
       /\ \/ Room = 0 /\ ~open["read"] /\ res' = [res EXCEPT ![t] = EPIPE]
          \/ Room = 0 /\ open["read"] /\ res' = [res EXCEPT ![t] = EAGAIN]
          \/ Room > 0 /\ res' = [res EXCEPT ![t] = EFAULT]

Result(t, n) ==
    IF t \in Readers THEN ReadResult(t, n) /\ UNCHANGED put
                     ELSE WriteResult(t, n) /\ UNCHANGED taken

EndOf(t) == IF t \in Readers THEN "read" ELSE "write"

\* a call on an open end by a thread with no call pending: it completes at
\* once or is left pending
Call(t) ==
    LET n == req'[t] IN
    /\ open[EndOf(t)] /\ ~pending[t]
    /\ n \in Nat /\ req' = [req EXCEPT ![t] = n]
    /\ \/ Result(t, n) /\ UNCHANGED pending
       \/ /\ pending' = [pending EXCEPT ![t] = TRUE]
          /\ UNCHANGED <<put, taken, res>>
    /\ UNCHANGED <<cap, open>>

\* a pending call completes
Complete(t) ==
    /\ pending[t]
    /\ Result(t, req[t])
    /\ pending' = [pending EXCEPT ![t] = FALSE]
    /\ UNCHANGED <<cap, open, req>>

\* the capacity changes, never below the contents
Resize ==
    /\ cap > 0 /\ (open["read"] \/ open["write"])
    /\ cap' \in Nat \ {0} /\ cap' >= Content
    /\ UNCHANGED <<put, taken, open, req, pending, res>>

\* end e is closed, with no call on it pending
Close(e) ==
    /\ open[e] /\ \A t \in Threads : EndOf(t) = e => ~pending[t]
    /\ open' = [open EXCEPT ![e] = FALSE]
    /\ UNCHANGED <<put, taken, cap, req, pending, res>>

\* once end e is closed, pending calls on the other end may be cancelled
\* with -ERESTARTSYS
Cancel ==
    /\ \E e \in Ends, S \in SUBSET Threads :
         /\ ~open[e]
         /\ \A t \in S : pending[t] /\ EndOf(t) # e
         /\ res' = [t \in Threads |-> IF t \in S THEN ERESTARTSYS ELSE res[t]]
         /\ pending' = [t \in Threads |-> pending[t] /\ t \notin S]
    /\ UNCHANGED <<put, taken, cap, open, req>>

Next ==
    \/ Create \/ Resize \/ Cancel
    \/ \E t \in Threads : Call(t) \/ Complete(t)
    \/ \E e \in Ends : Close(e)

Spec == Init /\ [][Next]_vars

=============================================================================
