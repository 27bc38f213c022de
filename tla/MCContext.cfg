CONSTANTS
    CPUs = {c1, c2}
    Threads = {t1, t2}
    KCtxs = {k1, k2, k3}
    UNOWNED = UNOWNED
SPECIFICATION Spec
INVARIANTS TypeOK OwnershipExclusive KernelContextRoles
PROPERTIES SpinTerminates RunnableThreadRuns
