\* Two CPUs closing the two ends at once.
CONSTANTS
    Readers = {r1, r2}
    Writers = {w1}
    Lengths <- MCLengths
    Capacities <- MCCapacities
    Pipe2Flags <- MCPipe2Flags
    PAGESIZE = 1
    MaxWritten = 3
    NCPU = 2

SPECIFICATION Spec

INVARIANT NoUseOfReleasedBlockq
