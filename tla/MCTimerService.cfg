CONSTANTS
    CPUs = {c1, c2}
    BhqSize = 2
    MaxExpiries = 2
    MaxDev = 1
    AsyncSize = 2
    MaxPosts = 1
SPECIFICATION Spec
INVARIANTS SingleServiceInFlight
PROPERTIES ExpiredServiced IoCompletes
