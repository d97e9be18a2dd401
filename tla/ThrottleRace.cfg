SPECIFICATION Spec
CONSTANTS
    Threads = {t1, t2}
    Max = 3
    Lockout = 2
INVARIANTS LockedAfterMax
