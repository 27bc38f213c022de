\* A blocked call left asleep while its end could proceed.
CONSTANTS
    Readers = {r1, r2}
    Writers = {w1}
    Lengths <- MCLengths
    Capacities <- MCCapacities
    Pipe2Flags <- MCPipe2Flags
    PAGESIZE = 1
    MaxWritten = 3
    NCPU = 1

SPECIFICATION Spec

INVARIANT NoSleeperWhileReady
