CONSTANTS
    a = a
    b = b
    d = d
    c1 = c1
    c2 = c2
    c3 = c3
    c4 = c4
    CPUs = {c1, c2, c3, c4}
    Locks = {a, b, d}
    NoOne = NoOne
    Order <- MCOrder
SPECIFICATION Spec
INVARIANTS DeadlockFree
PROPERTY TwoLocksRefined
