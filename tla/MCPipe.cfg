\* Uniprocessor: every handler runs to completion.
CONSTANTS
    Readers = {r1, r2}
    Writers = {w1}
    Lengths <- MCLengths
    Capacities <- MCCapacities
    Pipe2Flags <- MCPipe2Flags
    PAGESIZE = 1
    MaxWritten = 3
    NCPU = 1

SPECIFICATION Spec

INVARIANT BufferWithinCapacity
INVARIANT RefCountMatchesEnds
INVARIANT ByteConservation
INVARIANT PollMatchesBlocking

PROPERTY WaitersReleasedOnPeerClose
PROPERTY StreamRefined
