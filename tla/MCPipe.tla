------------------------------- MODULE MCPipe -------------------------------
(* Model-checking instance of Pipe: small thread sets and byte counts.     *)
EXTENDS Pipe

\* pipe2(2) flag sets: blocking, O_NONBLOCK, O_DIRECT, and an unknown bit
MCPipe2Flags == {{}, {"O_NONBLOCK"}, {"O_DIRECT"}, {"other"}}

\* F_SETPIPE_SZ arguments: below the minimum, the minimum, and above it
MCCapacities == {0, 1, 2}

MCLengths == {0, 1, 2}
=============================================================================
